---------------------------- MODULE ControlServer ----------------------------
(***************************************************************************)
(* Who may run a release operation and what the others are told of it:     *)
(* the deployment control service (control_server.py) with its job thread  *)
(* and its status cache, the clients that post an operation and follow it  *)
(* (abctl.py), the panels that poll the status, and operators that run     *)
(* abctl.py --direct beside the service.  They meet at deploy.lock,        *)
(* operation.json and panel-job.json.                                      *)
(*                                                                         *)
(* What an operation does to the slots is SlotDeploy's; here it only       *)
(* journals itself, runs, and finishes or stops unfinished.  A file access *)
(* or an attempt at the lock is a step each.  Operation 0 of the journal   *)
(* is "idle".                                                              *)
(***************************************************************************)
EXTENDS Naturals, FiniteSets

CONSTANTS
    None,
    Clients,     \* abctl.py through the service
    Viewers,     \* whoever polls the status only
    Locals,      \* abctl.py --direct
    Actions,     \* the actions asked for
    MaxRequests, \* bound on the requests made
    MaxViews,    \* bound on the viewers' polls
    MaxCrashes   \* bound on the deaths of the service and of an operator's process

Job == "job"     \* the service's job thread

\* deploy stands for switch and rollback too.
ActionKinds == {"deploy", "resume", "runner"}

ASSUME ControlAssumption ==
    /\ Actions \subseteq ActionKinds
    /\ MaxRequests \in Nat /\ MaxViews \in Nat /\ MaxCrashes \in Nat
    /\ Clients \cap Viewers = {} /\ Locals \cap (Clients \cup Viewers) = {}
    /\ None \notin Clients \cup Viewers \cup Locals
    /\ Job \notin Clients \cup Viewers \cup Locals \cup {None}

VARIABLES
    lock,     \* deploy.lock: who has it
    op,       \* operation.json: the number of the unfinished operation
    panel,    \* panel-job.json: the last job failed
    cache,    \* the cached status
    at,       \* where each actor is
    action,   \* what it asked for
    view,     \* the status it reads or was told
    owner,    \* whose request the job thread serves
    outcome,  \* how the operation of a request ended
    told,     \* what following it reported
    requests, views, crashes

Askers    == Clients \cup Viewers
Runners   == Locals \cup {Job}
Actors    == Askers \cup Runners
Results   == {"ok", "failed"}
Unknown   == [busy |-> FALSE, idle |-> TRUE, err |-> FALSE]
Statuses  == [busy : BOOLEAN, idle : BOOLEAN, err : BOOLEAN]

files == <<op, panel>>
ends  == <<outcome, told>>
bounds == <<requests, views, crashes>>
vars == <<lock, files, cache, at, action, view, owner, ends, bounds>>

Places == {"rest", "lock", "recheck", "launch", "refused", "sleep", "ask", "probed", "readOp",
           "readPanel", "alive", "store", "answer", "begin", "work", "report", "reset", "leave"}

TypeOK ==
    /\ lock \in Actors \cup {None}
    /\ op \in 0..MaxRequests
    /\ panel \in BOOLEAN
    /\ cache \in [status : Statuses, old : SUBSET Clients] \cup {None}
    /\ at \in [Actors -> Places]
    /\ action \in [Actors -> Actions \cup {None}]
    /\ view \in [Askers -> Statuses]
    /\ owner \in Clients \cup {None}
    /\ outcome \in [Clients -> Results \cup {None}]
    /\ told \in [Clients -> Results \cup {None}]
    /\ requests \in 0..MaxRequests /\ views \in 0..MaxViews /\ crashes \in 0..MaxCrashes

Init ==
    /\ lock = None /\ op = 0 /\ panel = FALSE /\ cache = None /\ owner = None
    /\ at = [x \in Actors |-> "rest"]
    /\ action = [x \in Actors |-> None]
    /\ view = [x \in Askers |-> Unknown]
    /\ outcome = [c \in Clients |-> None] /\ told = outcome
    /\ requests = 0 /\ views = 0 /\ crashes = 0

Go(x, place) == at' = [at EXCEPT ![x] = place]

\* Following begins to sleep two seconds, as long as a cached status lives.
Sleeping(c) == cache' = IF cache = None THEN None ELSE [cache EXCEPT !.old = @ \cup {c}]
-----------------------------------------------------------------------------
(* POST: ControlService.start *)

\* A resume is looked at before the lock is asked for.
Post(c, a) ==
    /\ at[c] \in {"rest", "refused"}
    /\ requests < MaxRequests /\ requests' = requests + 1
    /\ action' = [action EXCEPT ![c] = a]
    /\ Go(c, IF a = "resume" /\ op = 0 THEN "refused" ELSE "lock")
    /\ outcome' = [outcome EXCEPT ![c] = None] /\ told' = [told EXCEPT ![c] = None]
    /\ UNCHANGED <<lock, files, cache, view, owner, views, crashes>>

\* The lock is taken at once or the request is refused: nobody queues.
TakeLock(c) ==
    /\ at[c] = "lock"
    /\ \/ lock = None /\ lock' = c /\ Go(c, "recheck")
       \/ lock # None /\ Go(c, "refused") /\ UNCHANGED lock
    /\ UNCHANGED <<files, cache, action, view, owner, ends, bounds>>

Blocked(c) == action[c] = "deploy" /\ op # 0

\* Under the lock: an unfinished operation must be resumed first; a runner roll need not wait.
Recheck(c) ==
    /\ at[c] = "recheck"
    /\ \/ Blocked(c) /\ lock' = None /\ Go(c, "refused") /\ UNCHANGED panel
       \/ ~Blocked(c) /\ panel' = FALSE /\ Go(c, "launch") /\ UNCHANGED lock
    /\ UNCHANGED <<op, cache, action, view, owner, ends, bounds>>

\* Slip: the lock is given back as soon as the thread runs.
LaunchUnlocked(c) ==
    /\ at[c] = "launch"
    /\ at' = [at EXCEPT ![c] = "sleep", ![Job] = "begin"]
    /\ action' = [action EXCEPT ![Job] = action[c]]
    /\ lock' = None /\ owner' = c
    /\ Sleeping(c)
    /\ UNCHANGED <<files, view, ends, bounds>>

\* The job thread starts with the lock, the client is told 202 and follows.
Launch(c) ==
    /\ at[c] = "launch"
    /\ at' = [at EXCEPT ![c] = "sleep", ![Job] = "begin"]
    /\ action' = [action EXCEPT ![Job] = action[c]]
    /\ lock' = Job /\ owner' = c
    /\ Sleeping(c)
    /\ UNCHANGED <<files, view, ends, bounds>>
-----------------------------------------------------------------------------
(* The operation: in the job thread, or in an operator's own process. *)

StartLocal(l, a) ==
    /\ at[l] = "rest" /\ lock = None
    /\ requests < MaxRequests /\ requests' = requests + 1
    /\ lock' = l
    /\ action' = [action EXCEPT ![l] = a]
    /\ Go(l, "begin")
    /\ UNCHANGED <<files, cache, view, owner, ends, views, crashes>>

Ended(x, result) ==
    outcome' = IF x = Job THEN [outcome EXCEPT ![owner] = result] ELSE outcome

AfterOp(x) == IF x = Job THEN "report" ELSE "leave"

\* Slip: require_idle is left to the service.
BeginUnguarded(x) ==
    /\ at[x] = "begin"
    /\ \/ action[x] # "deploy" /\ (action[x] = "resume" => op # 0)
          /\ Go(x, "work") /\ UNCHANGED <<op, ends>>
       \/ action[x] = "deploy"
          /\ op' = requests /\ Go(x, "work") /\ UNCHANGED ends
       \/ Go(x, AfterOp(x)) /\ Ended(x, "failed") /\ UNCHANGED <<op, told>>
    /\ UNCHANGED <<lock, panel, cache, action, view, owner, bounds>>

\* A deploy journals itself over an idle journal; any operation may be refused instead.
Begin(x) ==
    /\ at[x] = "begin"
    /\ \/ action[x] # "deploy" /\ (action[x] = "resume" => op # 0)
          /\ Go(x, "work") /\ UNCHANGED <<op, ends>>
       \/ action[x] = "deploy" /\ op = 0
          /\ op' = requests /\ Go(x, "work") /\ UNCHANGED ends
       \/ Go(x, AfterOp(x)) /\ Ended(x, "failed") /\ UNCHANGED <<op, told>>
    /\ UNCHANGED <<lock, panel, cache, action, view, owner, bounds>>

\* finish clears the journal; a runner roll does not own it.
Finish(x) ==
    /\ at[x] = "work"
    /\ op' = IF action[x] = "runner" THEN op ELSE 0
    /\ Go(x, AfterOp(x)) /\ Ended(x, "ok")
    /\ UNCHANGED <<lock, panel, cache, action, view, owner, told, bounds>>

\* A failing step leaves the stage in the journal.
Fail(x) ==
    /\ at[x] = "work"
    /\ Go(x, AfterOp(x)) /\ Ended(x, "failed")
    /\ UNCHANGED <<lock, files, cache, action, view, owner, told, bounds>>

Report ==
    /\ at[Job] = "report"
    /\ panel' = (outcome[owner] = "failed")
    /\ Go(Job, "reset")
    /\ UNCHANGED <<lock, op, cache, action, view, owner, ends, bounds>>

ResetCache ==
    /\ at[Job] = "reset"
    /\ cache' = None
    /\ Go(Job, "leave")
    /\ UNCHANGED <<lock, files, action, view, owner, ends, bounds>>

\* Slip: the service's thread ends without giving the lock back.
LeaveLocked(x) ==
    /\ at[x] = "leave"
    /\ lock' = IF x = Job THEN lock ELSE None
    /\ Go(x, "rest")
    /\ action' = [action EXCEPT ![x] = None]
    /\ owner' = IF x = Job THEN None ELSE owner
    /\ UNCHANGED <<files, cache, view, ends, bounds>>

Leave(x) ==
    /\ at[x] = "leave"
    /\ lock' = None
    /\ Go(x, "rest")
    /\ action' = [action EXCEPT ![x] = None]
    /\ owner' = IF x = Job THEN None ELSE owner
    /\ UNCHANGED <<files, cache, view, ends, bounds>>
-----------------------------------------------------------------------------
(* GET /status *)

Look(v) ==
    /\ at[v] = "rest" /\ views < MaxViews /\ views' = views + 1
    /\ Go(v, "ask")
    /\ UNCHANGED <<lock, files, cache, action, view, owner, ends, requests, crashes>>

\* A status cached before the sleep is too old after it.
Wake(c) ==
    /\ at[c] = "sleep"
    /\ Go(c, "ask")
    /\ cache' = IF cache # None /\ c \in cache.old THEN None ELSE cache
    /\ UNCHANGED <<lock, files, action, view, owner, ends, bounds>>

Expire ==
    /\ cache # None /\ cache' = None
    /\ UNCHANGED <<lock, files, at, action, view, owner, ends, bounds>>

Answered(x) == IF x \in Clients THEN "answer" ELSE "rest"

CacheHit(x) ==
    /\ at[x] = "ask" /\ cache # None
    /\ view' = [view EXCEPT ![x] = cache.status]
    /\ Go(x, Answered(x))
    /\ UNCHANGED <<lock, files, cache, action, owner, ends, bounds>>

\* lock_busy: to see whether the lock is free it takes the lock.
Probe(x) ==
    /\ at[x] = "ask" /\ cache = None
    /\ view' = [view EXCEPT ![x].busy = (lock # None)]
    /\ lock' = IF lock = None THEN x ELSE lock
    /\ Go(x, IF lock = None THEN "probed" ELSE "readOp")
    /\ UNCHANGED <<files, cache, action, owner, ends, bounds>>

Unprobe(x) ==
    /\ at[x] = "probed"
    /\ lock' = None
    /\ Go(x, "readOp")
    /\ UNCHANGED <<files, cache, action, view, owner, ends, bounds>>

ReadOp(x) ==
    /\ at[x] = "readOp"
    /\ view' = [view EXCEPT ![x].idle = (op = 0)]
    /\ Go(x, "readPanel")
    /\ UNCHANGED <<lock, files, cache, action, owner, ends, bounds>>

ReadPanel(x) ==
    /\ at[x] = "readPanel"
    /\ view' = [view EXCEPT ![x].err = panel]
    /\ Go(x, "alive")
    /\ UNCHANGED <<lock, files, cache, action, owner, ends, bounds>>

SeeJob(x) ==
    /\ at[x] = "alive"
    /\ view' = [view EXCEPT ![x].busy = @ \/ at[Job] # "rest"]
    /\ Go(x, "store")
    /\ UNCHANGED <<lock, files, cache, action, owner, ends, bounds>>

StoreStatus(x) ==
    /\ at[x] = "store"
    /\ cache' = [status |-> view[x], old |-> {}]
    /\ Go(x, Answered(x))
    /\ UNCHANGED <<lock, files, action, view, owner, ends, bounds>>

\* follow: another round while busy; else idle without an error is exit code 0.
Follow(c) ==
    /\ at[c] = "answer"
    /\ \/ view[c].busy /\ Go(c, "sleep") /\ Sleeping(c) /\ UNCHANGED told
       \/ /\ ~view[c].busy /\ Go(c, "rest")
          /\ told' = [told EXCEPT ![c] = IF view[c].idle /\ ~view[c].err THEN "ok" ELSE "failed"]
          /\ UNCHANGED cache
    /\ UNCHANGED <<lock, files, action, view, owner, outcome, bounds>>
-----------------------------------------------------------------------------
(* The service dies and restarts: its threads and its locks go, requests in progress fail. *)
ServiceDies ==
    /\ crashes < MaxCrashes /\ crashes' = crashes + 1
    /\ at' = [x \in Actors |-> IF x \in Locals \/ at[x] = "sleep" THEN at[x] ELSE "rest"]
    /\ lock' = IF lock \in Locals THEN lock ELSE None
    /\ cache' = None /\ owner' = None
    /\ action' = [action EXCEPT ![Job] = None]
    /\ UNCHANGED <<files, view, ends, requests, views>>

\* The system releases a dead process's lock.
LocalDies(l) ==
    /\ at[l] # "rest" /\ crashes < MaxCrashes /\ crashes' = crashes + 1
    /\ Go(l, "rest") /\ lock' = None
    /\ action' = [action EXCEPT ![l] = None]
    /\ UNCHANGED <<files, cache, view, owner, ends, requests, views>>
-----------------------------------------------------------------------------
Start(c)   == TakeLock(c) \/ Recheck(c) \/ Launch(c)
Operate(x) == Begin(x) \/ Finish(x) \/ Fail(x) \/ Leave(x)
Get(x)     == CacheHit(x) \/ Probe(x) \/ Unprobe(x) \/ ReadOp(x) \/ ReadPanel(x) \/ SeeJob(x)
                 \/ StoreStatus(x)

Next ==
    \/ \E c \in Clients : \/ \E a \in Actions : Post(c, a)
                          \/ Start(c) \/ Wake(c) \/ Follow(c)
    \/ \E l \in Locals : \/ \E a \in Actions : StartLocal(l, a)
                         \/ LocalDies(l)
    \/ \E x \in Runners : Operate(x)
    \/ Report \/ ResetCache
    \/ \E v \in Viewers : Look(v)
    \/ \E x \in Askers : Get(x)
    \/ Expire \/ ServiceDies

\* Threads run, waits of an operation are bounded, and a sleep ends.
Fairness ==
    /\ \A c \in Clients : WF_vars(Start(c)) /\ WF_vars(Wake(c)) /\ WF_vars(Follow(c))
    /\ \A x \in Runners : WF_vars(Operate(x))
    /\ WF_vars(Report) /\ WF_vars(ResetCache)
    /\ \A x \in Askers : WF_vars(Get(x))

Spec == Init /\ [][Next]_vars
FairSpec == Spec /\ Fairness
-----------------------------------------------------------------------------
\* deploy.lock: at most one operation is under way, whether the service or an operator runs it,
\* and through refusals, probes of the lock and deaths of either.
OneOperation ==
    \A x, y \in {r \in Runners : at[r] # "rest"} : x = y

\* The journal of an unfinished operation is never replaced by another operation's: it can only
\* be finished (require_idle, by whatever way the next operation comes).
UnfinishedKept == [][op # 0 => op' \in {0, op}]_op

\* Following an accepted request comes to an end, so nobody keeps the lock: not a refused
\* request, nor a finished or dead job (start, _run and locked.__exit__).
FollowEnds == \A c \in Clients : (at[c] = "sleep") ~> (at[c] = "rest")

\* follow's exit code: success is reported exactly of operations that succeeded.
FollowReportsOutcome ==
    \A c \in Clients : told[c] # None => (told[c] = "ok" <=> outcome[c] = "ok")

\* A request is refused at the lock only because an operation is running or starting.
RefusedOnlyWhenBusy ==
    [][\A c \in Clients :
          at[c] = "lock" /\ at'[c] = "refused" => lock # None /\ at[lock] # "probed"]_at
=============================================================================
