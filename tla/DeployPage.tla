------------------------------ MODULE DeployPage ------------------------------
(***************************************************************************)
(* The deployment page (pages/Deployment.tsx) before the control service:  *)
(* it polls the status, overtaking reads that are slow, and locks or       *)
(* unlocks its buttons by the last answer; a dialog keeps what the         *)
(* operator was shown while the status beneath it changes; an operation is *)
(* confirmed, posted, and followed through a service that caches its       *)
(* status and serves other operators too.                                  *)
(*                                                                         *)
(* The service is the surface the page sees: ControlServer and SlotDeploy  *)
(* have its inside.  An answer is one of the states of the service, the    *)
(* one it has cached, or a failure.  Stages: "idle", "before" (preparing,  *)
(* quiescing) and "after" the cut (cutover, retiring).                     *)
(***************************************************************************)
EXTENDS Naturals, FiniteSets

CONSTANTS
    None,
    Images,      \* images an operator may name
    Mutable,     \* those under a tag that moves (latest, main...)
    OtherKinds,  \* what other operators ask for
    Bound,       \* bounds on each of Events, and...
    MaxEvents    \* ... on all of them together

\* Operations the page posts; those of other operators; failing requests,
\* incomplete answers and failing jobs; leaving the page and coming back.
Events == {"posts", "others", "faults", "leaves"}

ASSUME PageAssumption ==
    /\ Mutable \subseteq Images /\ OtherKinds \subseteq {"deploy", "switch", "rollback", "resume", "runner"}
    /\ Bound \in [Events -> Nat] /\ MaxEvents \in Nat

Slots    == {"a", "b"}
Other(s) == CHOOSE t \in Slots : t # s
Kinds    == {"deploy", "switch", "rollback", "resume", "runner"}
Stages   == {"idle", "before", "after"}

ASSUME NoneAssumption == None \notin Slots \cup Images

Maybe(S) == S \cup {None}

\* What an operator confirms: from and to are the slots the dialog names.
Ops == [kind : Kinds, image : Maybe(Images), from : Maybe(Slots), to : Maybe(Slots)]
Op(kind, image, from, to) == [kind |-> kind, image |-> image, from |-> from, to |-> to]

Statuses == [busy : BOOLEAN, stage : Stages, active : Maybe(Slots), runtime : Maybe(Slots), err : BOOLEAN]
Answers  == [kind : {"none", "failed"}] \cup [kind : {"status"}, status : Statuses]
Reads    == [after : BOOLEAN, since : Nat, answer : Answers]

VARIABLES
    \* the service
    srv,         \* journal, active.map, HAProxy's map, and the jobs that ended
    job,         \* the job thread: whose operation, and whether it began
    cached,      \* the cached status
    \* the page
    newest,      \* the newest read of the status
    late,        \* the read it has overtaken
    shown,       \* the status shown
    failing,     \* the newest read failed (pollError)
    submitting,  \* a request is on its way
    waiting,     \* the next read must confirm the last operation (uncertain)
    dialog,      \* the operation of the open dialog (pending)
    dialogError, \* the dialog shows a failure
    \* between them
    posts,       \* requests on their way, and their replies
    spent        \* the bounds

service == <<srv, job, cached>>
status  == <<newest, late, shown, failing>>
form    == <<submitting, waiting, dialog, dialogError>>
vars    == <<service, status, form, posts, spent>>

TypeOK ==
    /\ srv \in [active : Slots, runtime : Slots, stage : Stages, candidate : Slots, done : Nat]
    /\ job \in Maybe([op : Ops, sent : Ops, mine : BOOLEAN, begun : BOOLEAN])
    /\ cached \in Maybe(Statuses)
    /\ newest \in Maybe(Reads) /\ late \in Maybe(Reads)
    /\ shown \in Maybe([status : Statuses, since : Nat])
    /\ failing \in BOOLEAN /\ submitting \in BOOLEAN /\ waiting \in BOOLEAN
    /\ dialog \in Maybe(Ops) /\ dialogError \in BOOLEAN
    /\ posts \subseteq [id : Nat, op : Ops, sent : Ops, mine : BOOLEAN, reply : {"none", "ok", "failed"}]
    /\ spent \in [Events -> Nat] /\ \A e \in Events : spent[e] <= Bound[e]

-----------------------------------------------------------------------------
Unasked == [kind |-> "none"]
Failed  == [kind |-> "failed"]
Answer(s) == [kind |-> "status", status |-> s]

Ask(after) == [after |-> after, since |-> srv.done, answer |-> Unasked]

Init ==
    /\ srv = [active |-> "a", runtime |-> "a", stage |-> "idle", candidate |-> "a", done |-> 0]
    /\ job = None /\ cached = None
    /\ newest = Ask(FALSE) /\ late = None /\ shown = None /\ failing = FALSE
    /\ submitting = FALSE /\ waiting = FALSE /\ dialog = None /\ dialogError = FALSE
    /\ posts = {}
    /\ spent = [e \in Events |-> 0]

Spend(e) ==
    /\ spent[e] < Bound[e]
    /\ spent["posts"] + spent["others"] + spent["faults"] + spent["leaves"] < MaxEvents
    /\ spent' = [spent EXCEPT ![e] = @ + 1]

Fault == Spend("faults")

-----------------------------------------------------------------------------
(***************************************************************************)
(* The service.                                                            *)
(***************************************************************************)

\* One job at a time.  A runner roll is not held up by an unfinished journal.
Accepts(kind) ==
    /\ job = None
    /\ kind = "resume" => srv.stage # "idle"
    /\ kind \in {"deploy", "switch", "rollback"} => srv.stage = "idle"

\* Slip: the request carries the slots the page shows when it is confirmed.
CarriedAsShown(op) ==
    IF op.kind \in {"switch", "rollback"} /\ shown # None
    THEN Op(op.kind, None, shown.status.active,
            IF op.kind = "switch" /\ shown.status.active # None
            THEN Other(shown.status.active) ELSE None)
    ELSE Op(op.kind, op.image, None, None)

\* What the request carries of what the dialog names.
Carried(op) == Op(op.kind, op.image,
                  IF op.kind \in {"switch", "rollback"} THEN op.from ELSE None,
                  IF op.kind = "switch" THEN op.to ELSE None)

\* A deploy goes to the slot that is standby when it begins, a rollback too.
Target(sent) == IF sent.kind = "switch" THEN sent.to ELSE Other(srv.active)

MayBegin(sent) ==
    sent.kind \in {"switch", "rollback"} => sent.from = srv.active /\ Target(sent) # srv.active

Launch(op, sent, mine) == job' = [op |-> op, sent |-> sent, mine |-> mine, begun |-> FALSE]

End ==
    /\ job' = None /\ cached' = None
    /\ UNCHANGED <<status, form, posts>>

Begin ==
    /\ job # None /\ ~job.begun
    /\ MayBegin(job.sent)
    /\ srv' = IF job.sent.kind \in {"resume", "runner"} THEN srv
              ELSE [srv EXCEPT !.stage = "before", !.candidate = Target(job.sent)]
    /\ job' = [job EXCEPT !.begun = TRUE]
    /\ UNCHANGED <<cached, status, form, posts, spent>>

\* The check of the thread fails, after the request was accepted.
Stale ==
    /\ job # None /\ ~job.begun /\ ~MayBegin(job.sent)
    /\ srv' = [srv EXCEPT !.done = @ + 1]
    /\ End /\ UNCHANGED spent

Slotted == job # None /\ job.begun /\ job.op.kind # "runner"

CutOver ==
    /\ Slotted /\ srv.stage = "before"
    /\ srv' = [srv EXCEPT !.stage = "after", !.active = srv.candidate]
    /\ UNCHANGED <<job, cached, status, form, posts, spent>>

Route ==
    /\ Slotted /\ srv.stage = "after" /\ srv.runtime # srv.candidate
    /\ srv' = [srv EXCEPT !.runtime = srv.candidate]
    /\ UNCHANGED <<job, cached, status, form, posts, spent>>

Finish ==
    /\ job # None /\ job.begun
    /\ \/ job.op.kind = "runner" /\ srv' = [srv EXCEPT !.done = @ + 1]
       \/ /\ Slotted /\ srv.stage = "after" /\ srv.runtime = srv.candidate
          /\ srv' = [srv EXCEPT !.stage = "idle", !.done = @ + 1]
    /\ End /\ UNCHANGED spent

\* The journal stays where it is.
JobFails ==
    /\ job # None /\ Fault
    /\ srv' = [srv EXCEPT !.done = @ + 1]
    /\ End

\* Another panel, abctl.py through the service, or abctl.py --direct.
Elsewhere ==
    /\ Spend("others")
    /\ \E kind \in OtherKinds :
        /\ Accepts(kind)
        /\ LET op == IF kind \in {"switch", "rollback"}
                     THEN Op(kind, None, srv.active, Other(srv.active)) ELSE Op(kind, None, None, None)
           IN  Launch(op, Carried(op), FALSE)
    /\ UNCHANGED <<srv, cached, status, form, posts>>

\* The status, if it is measured now.
Now ==
    [busy |-> job # None, stage |-> srv.stage, active |-> srv.active, runtime |-> srv.runtime,
     err |-> FALSE]

\* The manager's answer, as a success, when it cannot reach the service; it
\* stands for the service's own incomplete status too, which is cached.
Incomplete ==
    [busy |-> FALSE, stage |-> "idle", active |-> None, runtime |-> None, err |-> TRUE]

Measured == IF cached # None THEN cached ELSE Now

\* A read of the status is answered: from the cache, measured, or badly.
Serve ==
    /\ newest # None /\ newest.answer = Unasked
    /\ \/ cached' = Measured /\ newest' = [newest EXCEPT !.answer = Answer(Measured)] /\ UNCHANGED spent
       \/ /\ Fault
          /\ \/ newest' = [newest EXCEPT !.answer = Failed] /\ UNCHANGED cached
             \/ /\ newest' = [newest EXCEPT !.answer = Answer(Incomplete)]
                /\ cached' \in {cached, IF cached = None THEN Incomplete ELSE cached}
    /\ UNCHANGED <<srv, job, late, shown, failing, form, posts>>

Expire ==
    /\ cached # None /\ cached' = None
    /\ UNCHANGED <<srv, job, status, form, posts, spent>>

\* A request arrives: accepted, refused, or lost on its way there or back.
Receive ==
    \E p \in posts :
        /\ p.reply = "none"
        /\ \/ /\ Accepts(p.op.kind) /\ Launch(p.op, p.sent, p.mine)
              /\ \/ posts' = (posts \ {p}) \cup {[p EXCEPT !.reply = "ok"]} /\ UNCHANGED spent
                 \/ posts' = (posts \ {p}) \cup {[p EXCEPT !.reply = "failed"]} /\ Fault
           \/ /\ UNCHANGED job
              /\ posts' = (posts \ {p}) \cup {[p EXCEPT !.reply = "failed"]}
              /\ \/ ~Accepts(p.op.kind) /\ UNCHANGED spent
                 \/ Fault
    /\ UNCHANGED <<srv, cached, status, form>>

-----------------------------------------------------------------------------
(***************************************************************************)
(* What the page derives from what it shows, and what it allows.           *)
(***************************************************************************)
Has(field, value) == shown # None /\ shown.status[field] = value

busy     == Has("busy", TRUE)
active   == IF shown = None THEN None ELSE shown.status.active
runtimeActive == IF shown = None THEN None ELSE shown.status.runtime
runtimeMismatch == runtimeActive # None /\ active # None /\ runtimeActive # active
currentSlot == IF runtimeActive # None THEN runtimeActive ELSE active
standbySlot == IF currentSlot = None THEN None ELSE Other(currentSlot)

\* Slip: the request on its way does not lock the buttons.
globalBlockOpen ==
    shown = None \/ Has("err", TRUE) \/ failing \/ busy
      \/ ~Has("stage", "idle") \/ runtimeMismatch \/ waiting

globalBlock ==
    \/ shown = None
    \/ Has("err", TRUE)
    \/ failing
    \/ submitting
    \/ busy
    \/ ~Has("stage", "idle")
    \/ runtimeMismatch
    \/ waiting

resumeBlock ==
    shown = None \/ Has("err", TRUE) \/ failing \/ submitting \/ busy \/ waiting \/ Has("stage", "idle")

\* That the target is ready and idle of connections is left to the operator's luck.
switchBlock(target) ==
    \/ globalBlock
    \/ currentSlot = None
    \/ target = currentSlot
    \/ active = None \/ target = active     \* its role is not "standby"

imageProblem(image) == image \in Mutable

\* Of the list of releases and of the form.  The list offers a release that already
\* runs no more; the form takes any image.
deployBlock(image) == globalBlock \/ imageProblem(image)

confirmDisabled ==
    \/ dialog = None
    \/ submitting
    \/ dialog.kind \in {"deploy", "runner"} /\ imageProblem(dialog.image)
    \/ IF dialog.kind = "resume" THEN resumeBlock ELSE globalBlock

-----------------------------------------------------------------------------
(***************************************************************************)
(* What the operator sees of it.                                           *)
(***************************************************************************)
Screen == IF shown # None THEN "page" ELSE IF newest # None THEN "loading" ELSE "error"

Card(s) == IF runtimeActive = None THEN "unknown"
           ELSE IF runtimeActive = s THEN "current" ELSE "standby"

Notices ==
    {n \in {"failing", "mismatch", "incomplete"} :
        CASE n = "failing"    -> failing
          [] n = "mismatch"   -> runtimeMismatch
          [] n = "incomplete" -> Has("err", TRUE)}

-----------------------------------------------------------------------------
(***************************************************************************)
(* Reading: useTracked over useResource.                                   *)
(***************************************************************************)

\* At most one overtaken read is followed.
CanAsk == newest = None \/ late = None

\* refresh(): the effect of the former read is cancelled, its answer dropped.
refresh(after) ==
    /\ CanAsk
    /\ late' = IF newest # None THEN [newest EXCEPT !.answer = Unasked] ELSE late
    /\ newest' = Ask(after)

\* The timer of five seconds, and the button.
Poll ==
    /\ refresh(waiting)
    /\ UNCHANGED <<service, shown, failing, form, posts, spent>>

\* Any read sent since the operation returned confirms it by ending.
Confirmed(r) == waiting' = (waiting /\ ~r.after)

Deliver ==
    /\ newest # None /\ newest.answer # Unasked
    /\ newest' = None
    /\ IF newest.answer = Failed
       THEN failing' = TRUE /\ UNCHANGED shown
       ELSE failing' = FALSE /\ shown' = [status |-> newest.answer.status, since |-> newest.since]
    /\ Confirmed(newest)
    /\ UNCHANGED <<service, late, submitting, dialog, dialogError, posts, spent>>

\* Slip: the answer of a read that was overtaken is shown.
DeliverLateShown ==
    /\ late # None /\ late' = None
    /\ Confirmed(late)
    /\ shown' = [status |-> Now, since |-> late.since]
    /\ UNCHANGED <<service, newest, failing, submitting, dialog, dialogError, posts, spent>>

\* An overtaken read ends: its number counts, its answer does not.
DeliverLate ==
    /\ late # None /\ late' = None
    /\ Confirmed(late)
    /\ UNCHANGED <<service, newest, shown, failing, submitting, dialog, dialogError, posts, spent>>

-----------------------------------------------------------------------------
(***************************************************************************)
(* Operating.  The dialog is modal: one opens only where none is.          *)
(***************************************************************************)
Show(op) ==
    /\ dialog = None /\ dialog' = op
    /\ UNCHANGED <<service, status, submitting, waiting, posts, spent>>

openDeploy ==
    /\ dialogError' = FALSE
    /\ \E image \in Images : ~deployBlock(image) /\ Show(Op("deploy", image, currentSlot, standbySlot))

openRunner ==
    /\ dialogError' = FALSE
    /\ \E image \in Images : ~deployBlock(image) /\ Show(Op("runner", image, None, None))

openSwitch ==
    /\ UNCHANGED dialogError
    /\ \E target \in Slots : ~switchBlock(target) /\ Show(Op("switch", None, currentSlot, target))

openRollback ==
    /\ UNCHANGED dialogError
    /\ standbySlot # None /\ ~switchBlock(standbySlot)
    /\ Show(Op("rollback", None, currentSlot, standbySlot))

openResume ==
    /\ UNCHANGED dialogError
    /\ ~resumeBlock /\ Show(Op("resume", None, None, None))

\* Escape and a click beside the dialog close it, a request on its way or not.
CloseDialog ==
    /\ dialog # None /\ dialog' = None
    /\ UNCHANGED <<service, status, submitting, waiting, dialogError, posts, spent>>

\* runMutation up to the request.
Submit(op) ==
    /\ submitting' = TRUE /\ dialogError' = FALSE
    /\ posts' = posts \cup {[id |-> spent["posts"] + 1, op |-> op, sent |-> Carried(op), mine |-> TRUE, reply |-> "none"]}

confirmPending ==
    /\ ~confirmDisabled
    /\ Submit(dialog)
    /\ Spend("posts")
    /\ UNCHANGED <<service, status, waiting, dialog>>

\* Slip: a refusal leaves the page submitting.
ReturnStuck(p) ==
    /\ p.mine /\ p.reply # "none"
    /\ posts' = posts \ {p}
    /\ submitting' = (p.reply # "ok") /\ waiting' = TRUE
    /\ CanAsk
    /\ newest' = Ask(TRUE)
    /\ late' = LET old == IF newest # None THEN newest ELSE late
               IN IF old # None THEN [old EXCEPT !.after = FALSE, !.answer = Unasked] ELSE None
    /\ IF p.reply = "ok"
       THEN dialog' = None /\ UNCHANGED dialogError
       ELSE dialogError' = TRUE /\ UNCHANGED dialog
    /\ UNCHANGED <<service, shown, failing, spent>>

\* runMutation after the reply: a read sent from now on must confirm it.
Return(p) ==
    /\ p.mine /\ p.reply # "none"
    /\ posts' = posts \ {p}
    /\ submitting' = FALSE /\ waiting' = TRUE
    /\ CanAsk
    /\ newest' = Ask(TRUE)
    /\ late' = LET old == IF newest # None THEN newest ELSE late
               IN IF old # None THEN [old EXCEPT !.after = FALSE, !.answer = Unasked] ELSE None
    /\ IF p.reply = "ok"
       THEN dialog' = None /\ UNCHANGED dialogError
       ELSE dialogError' = TRUE /\ UNCHANGED dialog
    /\ UNCHANGED <<service, shown, failing, spent>>

\* The reply to a page that was left: a notice at most.
ReturnLeft(p) ==
    /\ ~p.mine /\ p.reply # "none"
    /\ posts' = posts \ {p}
    /\ UNCHANGED <<service, status, form, spent>>

\* Another page is opened and this one again: its state is gone, its requests are not.
Leave ==
    /\ Spend("leaves")
    /\ newest' = Ask(FALSE) /\ late' = None /\ shown' = None /\ failing' = FALSE
    /\ submitting' = FALSE /\ waiting' = FALSE /\ dialog' = None /\ dialogError' = FALSE
    /\ posts' = {[p EXCEPT !.mine = FALSE] : p \in posts}
    /\ job' = IF job = None THEN None ELSE [job EXCEPT !.mine = FALSE]
    /\ UNCHANGED <<srv, cached>>

-----------------------------------------------------------------------------
Serves  == Begin \/ Stale \/ CutOver \/ Route \/ Finish
Returns == \E p \in posts : Return(p) \/ ReturnLeft(p)
Opens   == openDeploy \/ openRunner \/ openSwitch \/ openRollback \/ openResume

Next ==
    \/ Serves \/ JobFails \/ Elsewhere \/ Serve \/ Expire \/ Receive
    \/ Poll \/ Deliver \/ DeliverLate
    \/ Opens \/ CloseDialog \/ confirmPending \/ Returns \/ Leave

Spec == Init /\ [][Next]_vars

(***************************************************************************)
(* The page stays visible, so its timers run; every request is answered or *)
(* fails; a status cached expires in two seconds.                          *)
(* A poll overtakes the read before it, but not for ever: again and again  *)
(* a read is answered, and shown, within the five seconds.  No operator    *)
(* needs to act.                                                           *)
(***************************************************************************)
Fairness ==
    /\ WF_vars(Poll)
    /\ SF_vars(Serve) /\ SF_vars(Deliver) /\ WF_vars(DeliverLate)
    /\ WF_vars(Expire) /\ WF_vars(Receive) /\ SF_vars(Returns) /\ WF_vars(Serves)

FairSpec == Spec /\ Fairness

-----------------------------------------------------------------------------
\* While a request is on its way the page knows it, sends no second one, and an open
\* dialog is that of the request: the reply closes it, or writes its failure into
\* it.  (A dialog may be closed on a slow request, and the status read meanwhile
\* would unlock the buttons by itself.)
OneRequest ==
    LET mine == {p \in posts : p.mine}
    IN  /\ \A p, q \in mine : p = q
        /\ \A p \in mine : submitting /\ (dialog # None => dialog = p.op)

\* The service begins only the switch and the rollback the operator was shown:
\* from the slot and to the slot that the dialog named when it was confirmed,
\* whatever other operators did since.
MovesAsConfirmed ==
    job # None /\ job.begun /\ job.op.kind \in {"switch", "rollback"} =>
        srv.candidate = job.op.to /\ (srv.stage = "before" => srv.active = job.op.from)

\* An answer is never replaced by that of an older read: polls overtake each
\* other, and a slow one must not put back what the page already knows better.
ShownInOrder ==
    [][shown # None /\ shown' # None => shown'.since >= shown.since]_vars

\* A page that was told its operation is accepted keeps its buttons locked while
\* the service works on it, as its dialog says ("期间所有变更按钮禁用").
LockedMeanwhile ==
    job # None /\ job.mine /\ (\A p \in posts : ~p.mine) => globalBlock

CaughtUp ==
    /\ Screen = "page" /\ ~waiting /\ ~submitting
    /\ Has("busy", job # None) /\ Has("stage", srv.stage) /\ active = srv.active
    /\ \A s \in Slots : Card(s) = IF s = srv.runtime THEN "current" ELSE "standby"
    /\ Notices = IF srv.active = srv.runtime THEN {} ELSE {"mismatch"}

\* However reads and replies were lost or overtaken, when the operators rest the
\* page comes to show the state of the service and waits for nothing.
CatchesUp == <>[]CaughtUp
=============================================================================
