--------------------------- MODULE DeployPageProofs ---------------------------
(***************************************************************************)
(* Theorems about DeployPage, for any images, operations of others and     *)
(* bounds: one request at a time, operations begun as they were confirmed, *)
(* and answers shown in the order their reads were sent.                   *)
(***************************************************************************)
EXTENDS DeployPage, TLAPS

\* Who moves the traffic moves it from one slot to the other.
Meant(op) ==
    op.kind \in {"switch", "rollback"} => op.from \in Slots /\ op.to = Other(op.from)

\* Everything on its way to the service was meant so, and carries what was confirmed.
MeantOnly ==
    /\ dialog # None => Meant(dialog)
    /\ \A p \in posts : Meant(p.op) /\ p.sent = Carried(p.op)
    /\ job # None => Meant(job.op) /\ job.sent = Carried(job.op)

\* The newest read was sent after the one that is shown.
ReadsInOrder ==
    /\ newest # None => newest.since <= srv.done
    /\ shown # None => shown.since <= srv.done
    /\ newest # None /\ shown # None => shown.since <= newest.since

\* The inductive invariant.
PageInv == TypeOK /\ MeantOnly /\ OneRequest /\ MovesAsConfirmed /\ ReadsInOrder

-----------------------------------------------------------------------------
LEMMA OtherSlot ==
    /\ Slots = {"a", "b"}
    /\ \A s \in Slots : Other(s) \in Slots /\ Other(s) # s
    /\ \A s, t \in Slots : t # s => t = Other(s)
    /\ \A s \in Slots : s # None
    /\ \A i \in Images : i # None
  <1>1. Slots = {"a", "b"} BY DEF Slots
  <1>2. \A s \in Slots : Other(s) \in Slots /\ Other(s) # s BY DEF Slots, Other
  <1>3. \A s, t \in Slots : t # s => t = Other(s) BY <1>1, <1>2
  <1> QED BY <1>1, <1>2, <1>3, NoneAssumption

LEMMA OpType ==
    ASSUME NEW k \in Kinds, NEW i \in Maybe(Images), NEW f \in Maybe(Slots), NEW t \in Maybe(Slots)
    PROVE  /\ Op(k, i, f, t) \in Ops
           /\ Op(k, i, f, t).kind = k /\ Op(k, i, f, t).image = i
           /\ Op(k, i, f, t).from = f /\ Op(k, i, f, t).to = t
  BY DEF Op, Ops

LEMMA CarriedType ==
    ASSUME NEW o \in Ops
    PROVE  /\ Carried(o) \in Ops /\ Carried(o).kind = o.kind
           /\ o.kind \in {"switch", "rollback"} => Carried(o).from = o.from
           /\ o.kind = "switch" => Carried(o).to = o.to
  BY DEF Carried, Op, Ops, Maybe

\* What the page sends next, and what it is answered.
LEMMA AskType ==
    ASSUME TypeOK, NEW b \in BOOLEAN
    PROVE  Ask(b) \in Reads /\ Ask(b).since = srv.done
  BY DEF TypeOK, Ask, Reads, Answers, Unasked

LEMMA StatusTypes ==
    ASSUME TypeOK
    PROVE  Now \in Statuses /\ Incomplete \in Statuses /\ Measured \in Statuses
  <1>1. Now \in Statuses BY DEF TypeOK, Now, Statuses, Maybe
  <1>2. Incomplete \in Statuses BY DEF Incomplete, Statuses, Stages, Maybe
  <1>3. Measured \in Statuses BY <1>1 DEF TypeOK, Measured, Maybe
  <1> QED BY <1>1, <1>2, <1>3

LEMMA ReadTypes ==
    ASSUME NEW r \in Reads, NEW a \in Answers, NEW b \in BOOLEAN
    PROVE  /\ [r EXCEPT !.answer = a] \in Reads
           /\ [r EXCEPT !.after = b, !.answer = a] \in Reads
           /\ [r EXCEPT !.answer = a].since = r.since
  BY DEF Reads

LEMMA AnswerTypes ==
    /\ Unasked \in Answers /\ Failed \in Answers
    /\ \A s \in Statuses : Answer(s) \in Answers
  BY DEF Unasked, Failed, Answer, Answers

LEMMA SlotsOfPage ==
    ASSUME TypeOK
    PROVE  /\ active \in Maybe(Slots) /\ runtimeActive \in Maybe(Slots)
           /\ currentSlot \in Maybe(Slots) /\ standbySlot \in Maybe(Slots)
           /\ currentSlot # None => currentSlot \in Slots
           /\ standbySlot # None => currentSlot \in Slots /\ standbySlot = Other(currentSlot)
  <1>1. active \in Maybe(Slots) /\ runtimeActive \in Maybe(Slots)
    BY DEF TypeOK, active, runtimeActive, Statuses, Maybe
  <1>2. currentSlot \in Maybe(Slots) BY <1>1 DEF currentSlot
  <1>3. currentSlot # None => currentSlot \in Slots BY <1>2 DEF Maybe
  <1>4. standbySlot \in Maybe(Slots) BY <1>3, OtherSlot DEF standbySlot, Maybe
  <1> QED BY <1>1, <1>2, <1>3, <1>4 DEF standbySlot

LEMMA SpendType ==
    ASSUME TypeOK, NEW e \in Events, Spend(e)
    PROVE  spent' \in [Events -> Nat] /\ \A x \in Events : spent'[x] <= Bound[x]
  <1>1. spent \in [Events -> Nat] /\ \A x \in Events : spent[x] <= Bound[x] BY DEF TypeOK
  <1>2. spent' = [spent EXCEPT ![e] = spent[e] + 1] /\ spent[e] < Bound[e] BY DEF Spend
  <1>3. Bound \in [Events -> Nat] BY PageAssumption
  <1>4. spent' \in [Events -> Nat] BY <1>1, <1>2
  <1>5. ASSUME NEW x \in Events PROVE spent'[x] <= Bound[x]
    <2>1. spent[e] \in Nat /\ Bound[e] \in Nat /\ spent[e] < Bound[e] BY <1>1, <1>2, <1>3
    <2>2. CASE x = e
      <3>1. spent'[x] = spent[e] + 1 BY <1>1, <1>2, <2>2
      <3>2. spent[e] + 1 <= Bound[e] BY <2>1
      <3> QED BY <3>1, <3>2, <2>2
    <2>3. CASE x # e
      <3>1. spent'[x] = spent[x] BY <1>1, <1>2, <2>3
      <3> QED BY <3>1, <1>1
    <2> QED BY <2>2, <2>3
  <1> QED BY <1>4, <1>5

-----------------------------------------------------------------------------
(***************************************************************************)
(* Types.                                                                  *)
(***************************************************************************)
Servers  == [active : Slots, runtime : Slots, stage : Stages, candidate : Slots, done : Nat]
Jobs     == [op : Ops, sent : Ops, mine : BOOLEAN, begun : BOOLEAN]
Requests == [id : Nat, op : Ops, sent : Ops, mine : BOOLEAN, reply : {"none", "ok", "failed"}]
Views    == [status : Statuses, since : Nat]

ServiceType == srv \in Servers /\ job \in Maybe(Jobs) /\ cached \in Maybe(Statuses)
StatusType  == newest \in Maybe(Reads) /\ late \in Maybe(Reads) /\ shown \in Maybe(Views) /\ failing \in BOOLEAN
FormType    == submitting \in BOOLEAN /\ waiting \in BOOLEAN /\ dialog \in Maybe(Ops) /\ dialogError \in BOOLEAN
PostsType   == posts \subseteq Requests
SpentType   == spent \in [Events -> Nat] /\ \A e \in Events : spent[e] <= Bound[e]

LEMMA TypeParts == TypeOK <=> ServiceType /\ StatusType /\ FormType /\ PostsType /\ SpentType
  BY DEF TypeOK, ServiceType, StatusType, FormType, PostsType, SpentType, Servers, Jobs, Requests, Views

LEMMA TypedNext ==
    ASSUME ServiceType', StatusType', FormType', PostsType', SpentType'
    PROVE  TypeOK'
  BY DEF TypeOK, ServiceType, StatusType, FormType, PostsType, SpentType, Servers, Jobs, Requests, Views

LEMMA Kept ==
    ASSUME TypeOK
    PROVE  /\ UNCHANGED service => ServiceType'
           /\ UNCHANGED status => StatusType'
           /\ UNCHANGED form => FormType'
           /\ UNCHANGED posts => PostsType'
           /\ UNCHANGED spent => SpentType'
  BY TypeParts DEF ServiceType, StatusType, FormType, PostsType, SpentType, service, status, form

LEMMA Spends ==
    ASSUME TypeOK, NEW e \in Events, Spend(e)
    PROVE  SpentType'
  BY SpendType DEF SpentType

LEMMA LaunchType ==
    ASSUME NEW o \in Ops, NEW s \in Ops, NEW b \in BOOLEAN, Launch(o, s, b)
    PROVE  /\ job' \in Jobs
           /\ job'.op = o /\ job'.sent = s /\ ~job'.begun
  BY DEF Launch, Jobs

LEMMA RefreshType ==
    ASSUME TypeOK, NEW b \in BOOLEAN, refresh(b)
    PROVE  newest' \in Reads /\ late' \in Maybe(Reads) /\ newest'.since = srv.done
  <1>1. newest' \in Reads /\ newest'.since = srv.done BY AskType DEF refresh
  <1>2. newest # None => newest \in Reads BY DEF TypeOK, Maybe
  <1>3. late \in Maybe(Reads) BY DEF TypeOK
  <1>4. newest # None => [newest EXCEPT !.answer = Unasked] \in Reads BY <1>2, ReadTypes, AnswerTypes
  <1> QED BY <1>1, <1>3, <1>4 DEF refresh, Maybe

\* The job thread ends, badly or well.
LEMMA EndType ==
    ASSUME TypeOK, End, srv' \in Servers, SpentType'
    PROVE  TypeOK'
  <1>1. ServiceType' BY DEF End, ServiceType, Maybe
  <1> QED BY <1>1, Kept, TypedNext DEF End

LEMMA TargetType ==
    ASSUME TypeOK, MeantOnly, job # None
    PROVE  job \in Jobs /\ job.op \in Ops /\ Target(job.sent) \in Slots
  <1>1. job \in Jobs BY TypeParts DEF ServiceType, Maybe
  <1>2. job.op \in Ops /\ job.sent \in Ops BY <1>1 DEF Jobs
  <1>3. srv.active \in Slots BY DEF TypeOK
  <1>4. CASE job.sent.kind = "switch"
    <2>1. job.op.kind = "switch" /\ job.sent.to = job.op.to BY <1>2, <1>4, CarriedType DEF MeantOnly
    <2>2. job.op.to \in Slots BY <2>1, OtherSlot DEF MeantOnly, Meant
    <2> QED BY <1>1, <1>2, <1>4, <2>1, <2>2 DEF Target
  <1>5. CASE job.sent.kind # "switch" BY <1>1, <1>2, <1>3, <1>5, OtherSlot DEF Target
  <1> QED BY <1>4, <1>5

LEMMA ServiceTypes ==
    ASSUME TypeOK, MeantOnly, Serves \/ JobFails \/ Elsewhere \/ Expire
    PROVE  TypeOK'
  <1>0. srv \in Servers /\ cached \in Maybe(Statuses) /\ job \in Maybe(Jobs)
    BY TypeParts DEF ServiceType
  <1>1. CASE Begin
    <2>1. job \in Jobs /\ Target(job.sent) \in Slots BY <1>1, TargetType DEF Begin
    <2>2. job' \in Jobs BY <1>1, <2>1 DEF Begin, Jobs
    <2>3. srv' \in Servers BY <1>0, <1>1, <2>1 DEF Begin, Servers, Stages
    <2>4. ServiceType' BY <1>0, <1>1, <2>2, <2>3 DEF Begin, ServiceType, Maybe
    <2> QED BY <1>1, <2>4, Kept, TypedNext DEF Begin
  <1>2. CASE Stale
    <2>1. srv' \in Servers BY <1>0, <1>2 DEF Stale, Servers
    <2> QED BY <1>2, <2>1, EndType, Kept DEF Stale
  <1>3. CASE CutOver
    <2>1. srv' \in Servers BY <1>0, <1>3 DEF CutOver, Servers, Stages
    <2>2. ServiceType' BY <1>0, <1>3, <2>1 DEF CutOver, ServiceType
    <2> QED BY <1>3, <2>2, Kept, TypedNext DEF CutOver
  <1>4. CASE Route
    <2>1. srv' \in Servers BY <1>0, <1>4 DEF Route, Servers
    <2>2. ServiceType' BY <1>0, <1>4, <2>1 DEF Route, ServiceType
    <2> QED BY <1>4, <2>2, Kept, TypedNext DEF Route
  <1>5. CASE Finish
    <2>1. srv.done + 1 \in Nat /\ "idle" \in Stages BY <1>0 DEF Servers, Stages
    <2>2. srv' = [srv EXCEPT !.done = srv.done + 1] \/ srv' = [srv EXCEPT !.stage = "idle", !.done = srv.done + 1]
      BY <1>5 DEF Finish
    <2>3. srv' \in Servers BY <1>0, <2>1, <2>2 DEF Servers
    <2> QED BY <1>5, <2>3, EndType, Kept DEF Finish
  <1>6. CASE JobFails
    <2>1. srv' \in Servers BY <1>0, <1>6 DEF JobFails, Servers
    <2>2. SpentType' BY <1>6, Spends DEF JobFails, Fault, Events
    <2> QED BY <1>6, <2>1, <2>2, EndType DEF JobFails
  <1>7. CASE Elsewhere
    <2>1. PICK kind \in OtherKinds :
             LET op == IF kind \in {"switch", "rollback"}
                       THEN Op(kind, None, srv.active, Other(srv.active)) ELSE Op(kind, None, None, None)
             IN  Launch(op, Carried(op), FALSE)
      BY <1>7 DEF Elsewhere
    <2> DEFINE op == IF kind \in {"switch", "rollback"}
                     THEN Op(kind, None, srv.active, Other(srv.active)) ELSE Op(kind, None, None, None)
    <2>2. kind \in Kinds BY PageAssumption DEF Kinds
    <2>3. srv.active \in Slots /\ Other(srv.active) \in Slots BY <1>0, OtherSlot DEF Servers
    <2>4. op \in Ops BY <2>2, <2>3, OpType DEF Maybe
    <2>5. Launch(op, Carried(op), FALSE) BY <2>1
    <2> HIDE DEF op
    <2>6. job' \in Jobs BY <2>4, <2>5, CarriedType, LaunchType
    <2>7. SpentType' BY <1>7, Spends DEF Elsewhere, Events
    <2>8. ServiceType' BY <1>0, <1>7, <2>6 DEF Elsewhere, ServiceType, Maybe
    <2> QED BY <1>7, <2>7, <2>8, Kept, TypedNext DEF Elsewhere
  <1>8. CASE Expire
    <2>1. ServiceType' BY <1>0, <1>8 DEF Expire, ServiceType, Maybe
    <2> QED BY <1>8, <2>1, Kept, TypedNext DEF Expire
  <1> QED BY <1>1, <1>2, <1>3, <1>4, <1>5, <1>6, <1>7, <1>8 DEF Serves

LEMMA ServeType ==
    ASSUME TypeOK, Serve
    PROVE  TypeOK' /\ newest' \in Reads /\ newest'.since = newest.since
  <1>1. newest \in Reads /\ late \in Maybe(Reads) /\ newest.answer = Unasked
    BY TypeParts DEF Serve, StatusType, Maybe
  <1>2. Measured \in Statuses /\ Incomplete \in Statuses /\ cached \in Maybe(Statuses)
    BY StatusTypes, TypeParts DEF ServiceType
  <1>3. /\ newest' \in {[newest EXCEPT !.answer = a] : a \in {Answer(Measured), Failed, Answer(Incomplete)}}
        /\ cached' \in Maybe(Statuses)
    BY <1>2 DEF Serve, Maybe
  <1>4. newest' \in Reads /\ newest'.since = newest.since
    <2>1. PICK a \in {Answer(Measured), Failed, Answer(Incomplete)} : newest' = [newest EXCEPT !.answer = a]
      BY <1>3
    <2>2. a \in Answers BY <1>2, AnswerTypes
    <2> QED BY <1>1, <2>1, <2>2, ReadTypes
  <1>5. SpentType' BY Spends, Kept DEF Serve, Fault, Events
  <1>6. ServiceType' BY <1>3, TypeParts DEF Serve, ServiceType
  <1>7. StatusType' BY <1>4, TypeParts DEF Serve, StatusType, Maybe
  <1> QED BY <1>4, <1>5, <1>6, <1>7, Kept, TypedNext DEF Serve

LEMMA ReplyType ==
    ASSUME PostsType, NEW p \in posts, NEW r \in {"ok", "failed"},
           posts' = (posts \ {p}) \cup {[p EXCEPT !.reply = r]}
    PROVE  /\ PostsType'
           /\ \A q \in posts' : \E o \in posts : q.op = o.op /\ q.sent = o.sent /\ q.mine = o.mine
  <1>1. p \in Requests BY DEF PostsType
  <1>2. /\ [p EXCEPT !.reply = r] \in Requests
        /\ [p EXCEPT !.reply = r].op = p.op /\ [p EXCEPT !.reply = r].sent = p.sent
        /\ [p EXCEPT !.reply = r].mine = p.mine
    BY <1>1 DEF Requests
  <1> QED BY <1>2 DEF PostsType

LEMMA ReceiveType ==
    ASSUME TypeOK, Receive
    PROVE  TypeOK'
  <1>1. PICK p \in posts, r \in {"ok", "failed"} :
          /\ posts' = (posts \ {p}) \cup {[p EXCEPT !.reply = r]}
          /\ UNCHANGED job \/ Launch(p.op, p.sent, p.mine)
          /\ UNCHANGED spent \/ Fault
    BY DEF Receive
  <1>2. PostsType' BY <1>1, ReplyType, TypeParts
  <1>3. p \in Requests BY TypeParts DEF PostsType
  <1>4. job' \in Maybe(Jobs) BY <1>1, <1>3, LaunchType, TypeParts DEF ServiceType, Requests, Maybe
  <1>5. ServiceType' BY <1>4, TypeParts DEF Receive, ServiceType
  <1>6. SpentType' BY <1>1, Spends, Kept DEF Fault, Events
  <1> QED BY <1>2, <1>5, <1>6, Kept, TypedNext DEF Receive

LEMMA ReadingTypes ==
    ASSUME TypeOK, Poll \/ Deliver \/ DeliverLate
    PROVE  TypeOK'
  <1>0. /\ newest \in Maybe(Reads) /\ late \in Maybe(Reads) /\ shown \in Maybe(Views)
        /\ failing \in BOOLEAN /\ submitting \in BOOLEAN /\ waiting \in BOOLEAN
        /\ dialog \in Maybe(Ops) /\ dialogError \in BOOLEAN
    BY TypeParts DEF StatusType, FormType
  <1>1. CASE Poll
    <2>1. newest' \in Reads /\ late' \in Maybe(Reads) BY <1>0, <1>1, RefreshType DEF Poll
    <2>2. StatusType' BY <1>0, <1>1, <2>1 DEF Poll, StatusType, Maybe
    <2> QED BY <1>1, <2>2, Kept, TypedNext DEF Poll
  <1>2. CASE Deliver
    <2>1. newest \in Reads BY <1>0, <1>2 DEF Deliver, Maybe
    <2>2. newest.after \in BOOLEAN /\ newest.since \in Nat /\ newest.answer \in Answers BY <2>1 DEF Reads
    <2>3. newest.answer # Failed => newest.answer.status \in Statuses
      <3>1. CASE newest.answer \in [kind : {"none", "failed"}]
        <4>1. newest.answer = [kind |-> "none"] \/ newest.answer = [kind |-> "failed"] BY <3>1
        <4> QED BY <1>2, <4>1 DEF Deliver, Unasked, Failed
      <3>2. CASE newest.answer \in [kind : {"status"}, status : Statuses] BY <3>2
      <3> QED BY <2>2, <3>1, <3>2 DEF Answers
    <2>4. shown' \in Maybe(Views) BY <1>0, <1>2, <2>2, <2>3 DEF Deliver, Views, Maybe
    <2>5. StatusType' BY <1>0, <1>2, <2>4 DEF Deliver, StatusType, Maybe
    <2>6. FormType' BY <1>0, <1>2, <2>2 DEF Deliver, Confirmed, FormType
    <2> QED BY <1>2, <2>5, <2>6, Kept, TypedNext DEF Deliver
  <1>3. CASE DeliverLate
    <2>1. late.after \in BOOLEAN BY <1>0, <1>3 DEF DeliverLate, Maybe, Reads
    <2>2. FormType' BY <1>0, <1>3, <2>1 DEF DeliverLate, Confirmed, FormType
    <2>3. StatusType' BY <1>0, <1>3 DEF DeliverLate, StatusType, Maybe
    <2> QED BY <1>3, <2>2, <2>3, Kept, TypedNext DEF DeliverLate
  <1> QED BY <1>1, <1>2, <1>3

\* A dialog opens only while nothing is on its way, and says where the traffic goes.
LEMMA OpensType ==
    ASSUME TypeOK, Opens
    PROVE  TypeOK' /\ dialog' \in Ops /\ Meant(dialog') /\ ~submitting /\ UNCHANGED <<service, status, posts, submitting>>
  <1>1. /\ ~submitting /\ dialogError' \in BOOLEAN
        /\ \E k \in Kinds, i \in Maybe(Images), f \in Maybe(Slots), t \in Maybe(Slots) :
            /\ Show(Op(k, i, f, t))
            /\ k \in {"switch", "rollback"} => f \in Slots /\ t = Other(f)
    <2>0. dialogError \in BOOLEAN /\ {"deploy", "runner", "switch", "rollback", "resume"} = Kinds
      BY TypeParts DEF FormType, Kinds
    <2>1. CASE openDeploy
      <3>1. PICK i \in Images : Show(Op("deploy", i, currentSlot, standbySlot)) BY <2>1 DEF openDeploy
      <3> QED BY <2>0, <2>1, <3>1, SlotsOfPage DEF openDeploy, deployBlock, globalBlock, Maybe
    <2>2. CASE openRunner
      <3>1. PICK i \in Images : Show(Op("runner", i, None, None)) BY <2>2 DEF openRunner
      <3> QED BY <2>0, <2>2, <3>1 DEF openRunner, deployBlock, globalBlock, Maybe
    <2>3. CASE openSwitch
      <3>1. PICK t \in Slots : ~switchBlock(t) /\ Show(Op("switch", None, currentSlot, t)) BY <2>3 DEF openSwitch
      <3>2. currentSlot \in Slots /\ t # currentSlot BY <3>1, SlotsOfPage DEF switchBlock
      <3>3. t = Other(currentSlot) BY <3>2, OtherSlot
      <3> QED BY <2>0, <2>3, <3>1, <3>2, <3>3 DEF openSwitch, switchBlock, globalBlock, Maybe
    <2>4. CASE openRollback
      <3>1. currentSlot \in Slots /\ standbySlot = Other(currentSlot) /\ standbySlot \in Maybe(Slots)
        BY <2>4, SlotsOfPage DEF openRollback
      <3>2. Show(Op("rollback", None, currentSlot, standbySlot)) /\ ~submitting /\ dialogError' \in BOOLEAN
        BY <2>0, <2>4 DEF openRollback, switchBlock, globalBlock
      <3> QED BY <2>0, <3>1, <3>2 DEF Maybe
    <2>5. CASE openResume
      <3>1. Show(Op("resume", None, None, None)) /\ ~submitting /\ dialogError' \in BOOLEAN
        BY <2>0, <2>5 DEF openResume, resumeBlock
      <3> QED BY <2>0, <3>1 DEF Maybe
    <2> QED BY <2>1, <2>2, <2>3, <2>4, <2>5 DEF Opens
  <1>2. PICK k \in Kinds, i \in Maybe(Images), f \in Maybe(Slots), t \in Maybe(Slots) :
          /\ Show(Op(k, i, f, t))
          /\ k \in {"switch", "rollback"} => f \in Slots /\ t = Other(f)
    BY <1>1
  <1>3. dialog' \in Ops /\ Meant(dialog') BY <1>2, OpType DEF Show, Meant
  <1>4. FormType' BY <1>1, <1>2, <1>3, TypeParts DEF Show, FormType, Maybe
  <1>5. UNCHANGED <<service, status, posts, submitting, spent>> BY <1>2 DEF Show
  <1> QED BY <1>1, <1>3, <1>4, <1>5, Kept, TypedNext

LEMMA SubmitType ==
    ASSUME TypeOK, confirmPending
    PROVE  /\ TypeOK' /\ dialog # None /\ dialog \in Ops /\ ~submitting /\ submitting'
           /\ \E p \in Requests : posts' = posts \cup {p} /\ p.op = dialog /\ p.sent = Carried(dialog)
  <1>1. dialog # None /\ dialog \in Ops /\ ~submitting
    BY TypeParts DEF confirmPending, confirmDisabled, FormType, Maybe
  <1> DEFINE p == [id |-> spent["posts"] + 1, op |-> dialog, sent |-> Carried(dialog), mine |-> TRUE, reply |-> "none"]
  <1>2. spent["posts"] + 1 \in Nat BY TypeParts DEF SpentType, Events
  <1>3. p \in Requests /\ p.op = dialog /\ p.sent = Carried(dialog) BY <1>1, <1>2, CarriedType DEF Requests
  <1>4. posts' = posts \cup {p} /\ submitting' /\ dialogError' = FALSE /\ submitting' = TRUE
    BY DEF confirmPending, Submit
  <1> HIDE DEF p
  <1>5. PostsType' BY <1>3, <1>4, TypeParts DEF PostsType
  <1>6. FormType' BY <1>4, TypeParts DEF confirmPending, FormType
  <1>7. SpentType' BY Spends DEF confirmPending, Events
  <1> QED BY <1>1, <1>3, <1>4, <1>5, <1>6, <1>7, Kept, TypedNext DEF confirmPending

LEMMA ReturnTypes ==
    ASSUME TypeOK, CloseDialog \/ Returns \/ Leave
    PROVE  TypeOK'
  <1>1. CASE CloseDialog
    <2>1. FormType' BY <1>1, TypeParts DEF CloseDialog, FormType, Maybe
    <2> QED BY <1>1, <2>1, Kept, TypedNext DEF CloseDialog
  <1>2. CASE Returns
    <2>1. PICK p \in posts : Return(p) \/ ReturnLeft(p) BY <1>2 DEF Returns
    <2>2. PostsType' BY <2>1, TypeParts DEF Return, ReturnLeft, PostsType
    <2>3. CASE Return(p)
      <3>1. newest' \in Reads BY <2>3, AskType DEF Return
      <3>2. newest \in Maybe(Reads) /\ late \in Maybe(Reads) BY TypeParts DEF StatusType
      <3>3. late' \in Maybe(Reads)
        <4> DEFINE old == IF newest # None THEN newest ELSE late
        <4>1. late' = IF old # None THEN [old EXCEPT !.after = FALSE, !.answer = Unasked] ELSE None
          BY <2>3 DEF Return
        <4>2. old # None => old \in Reads BY <3>2 DEF Maybe
        <4> HIDE DEF old
        <4> QED BY <4>1, <4>2, ReadTypes, AnswerTypes DEF Maybe
      <3>4. StatusType' BY <2>3, <3>1, <3>3, TypeParts DEF Return, StatusType, Maybe
      <3>5. FormType' BY <2>3, TypeParts DEF Return, FormType, Maybe
      <3> QED BY <2>2, <2>3, <3>4, <3>5, Kept, TypedNext DEF Return
    <2>4. CASE ReturnLeft(p) BY <2>2, <2>4, Kept, TypedNext DEF ReturnLeft
    <2> QED BY <2>1, <2>3, <2>4
  <1>3. CASE Leave
    <2>1. StatusType' BY <1>3, AskType DEF Leave, StatusType, Maybe
    <2>2. FormType' BY <1>3 DEF Leave, FormType, Maybe
    <2>3. PostsType' BY <1>3, TypeParts DEF Leave, PostsType, Requests
    <2>4. job' \in Maybe(Jobs) BY <1>3, TypeParts DEF Leave, ServiceType, Jobs, Maybe
    <2>5. ServiceType' BY <1>3, <2>4, TypeParts DEF Leave, ServiceType
    <2>6. SpentType' BY <1>3, Spends DEF Leave, Events
    <2> QED BY <2>1, <2>2, <2>3, <2>5, <2>6, TypedNext
  <1> QED BY <1>1, <1>2, <1>3

LEMMA InitType == Init => TypeOK
  <1> SUFFICES ASSUME Init PROVE TypeOK OBVIOUS
  <1>1. SpentType
    <2>1. Bound \in [Events -> Nat] BY PageAssumption
    <2> QED BY <2>1 DEF Init, SpentType
  <1>2. Ask(FALSE) \in Reads BY DEF Init, Ask, Reads, Answers, Unasked
  <1>3. ServiceType BY DEF Init, ServiceType, Servers, Slots, Stages, Maybe
  <1>4. StatusType BY <1>2 DEF Init, StatusType, Maybe
  <1>5. FormType /\ PostsType BY DEF Init, FormType, PostsType, Maybe
  <1> QED BY <1>1, <1>3, <1>4, <1>5, TypeParts

LEMMA TypeStep ==
    ASSUME TypeOK, MeantOnly, [Next]_vars
    PROVE  TypeOK'
  <1>1. CASE UNCHANGED vars BY <1>1, Kept, TypedNext DEF vars
  <1>2. CASE Next
    BY <1>2, ServiceTypes, ServeType, ReceiveType, ReadingTypes, OpensType, SubmitType, ReturnTypes DEF Next
  <1> QED BY <1>1, <1>2

-----------------------------------------------------------------------------
(***************************************************************************)
(* What is on its way, and what the service does of it.                    *)
(***************************************************************************)

\* Requests gain a reply, lose their page, or end.
LEMMA MeantKept ==
    ASSUME MeantOnly, dialog' = None \/ dialog' = dialog,
           \A q \in posts' : \E o \in posts : q.op = o.op /\ q.sent = o.sent,
           job' # None => job # None /\ job'.op = job.op /\ job'.sent = job.sent
    PROVE  MeantOnly'
  BY DEF MeantOnly, Meant, Carried

LEMMA MeantStep ==
    ASSUME TypeOK, MeantOnly, [Next]_vars
    PROVE  MeantOnly'
  <1>0. job # None => job \in Jobs BY TypeParts DEF ServiceType, Maybe
  <1>1. CASE UNCHANGED vars BY <1>1, MeantKept DEF vars, service, form
  <1>2. CASE Serves \/ JobFails \/ Serve \/ Expire
    <2>1. UNCHANGED <<posts, dialog>>
      BY <1>2 DEF Serves, Begin, Stale, End, CutOver, Route, Finish, JobFails, Serve, Expire, form
    <2>2. job' # None => job # None /\ job'.op = job.op /\ job'.sent = job.sent
      BY <1>0, <1>2 DEF Serves, Begin, Stale, End, CutOver, Route, Finish, JobFails, Serve, Expire, Jobs
    <2> QED BY <2>1, <2>2, MeantKept
  <1>3. CASE Elsewhere
    <2>1. PICK kind \in OtherKinds :
             LET op == IF kind \in {"switch", "rollback"}
                       THEN Op(kind, None, srv.active, Other(srv.active)) ELSE Op(kind, None, None, None)
             IN  Launch(op, Carried(op), FALSE)
      BY <1>3 DEF Elsewhere
    <2> DEFINE op == IF kind \in {"switch", "rollback"}
                     THEN Op(kind, None, srv.active, Other(srv.active)) ELSE Op(kind, None, None, None)
    <2>2. kind \in Kinds BY PageAssumption DEF Kinds
    <2>3. srv.active \in Slots /\ Other(srv.active) \in Slots BY TypeParts, OtherSlot DEF ServiceType, Servers
    <2>4. op \in Ops /\ Meant(op) BY <2>2, <2>3, OpType DEF Maybe, Meant
    <2>5. Launch(op, Carried(op), FALSE) BY <2>1
    <2> HIDE DEF op
    <2>6. job'.op = op /\ job'.sent = Carried(op) BY <2>4, <2>5, CarriedType, LaunchType
    <2>7. UNCHANGED <<posts, dialog>> BY <1>3 DEF Elsewhere, form
    <2> QED BY <2>4, <2>6, <2>7 DEF MeantOnly, Meant, Carried
  <1>4. CASE Receive
    <2>1. PICK p \in posts, r \in {"ok", "failed"} :
            /\ posts' = (posts \ {p}) \cup {[p EXCEPT !.reply = r]}
            /\ UNCHANGED job \/ Launch(p.op, p.sent, p.mine)
      BY <1>4 DEF Receive
    <2>2. \A q \in posts' : \E o \in posts : q.op = o.op /\ q.sent = o.sent
      BY <2>1, ReplyType, TypeParts
    <2>3. UNCHANGED dialog BY <1>4 DEF Receive, form
    <2>4. CASE UNCHANGED job BY <2>2, <2>3, <2>4, MeantKept
    <2>5. CASE Launch(p.op, p.sent, p.mine)
      <3>1. p \in Requests BY TypeParts DEF PostsType
      <3>2. job'.op = p.op /\ job'.sent = p.sent BY <2>5, <3>1, LaunchType DEF Requests
      <3>3. Meant(p.op) /\ p.sent = Carried(p.op) BY DEF MeantOnly
      <3> QED BY <2>2, <2>3, <3>2, <3>3 DEF MeantOnly, Meant, Carried
    <2> QED BY <2>1, <2>4, <2>5
  <1>5. CASE Poll \/ Deliver \/ DeliverLate
    <2>1. UNCHANGED <<job, dialog, posts>> BY <1>5 DEF Poll, Deliver, DeliverLate, service, form
    <2> QED BY <2>1, MeantKept
  <1>6. CASE Opens
    <2>1. Meant(dialog') /\ UNCHANGED <<job, posts>> BY <1>6, OpensType DEF service
    <2> QED BY <2>1 DEF MeantOnly, Meant, Carried
  <1>7. CASE confirmPending
    <2>1. PICK p \in Requests : posts' = posts \cup {p} /\ p.op = dialog /\ p.sent = Carried(dialog)
      BY <1>7, SubmitType
    <2>2. dialog # None /\ UNCHANGED <<job, dialog>> BY <1>7, SubmitType DEF confirmPending, service
    <2> QED BY <2>1, <2>2 DEF MeantOnly, Meant, Carried
  <1>8. CASE CloseDialog \/ Returns
    <2>1. /\ posts' \subseteq posts /\ UNCHANGED job
          /\ dialog' = None \/ dialog' = dialog
      BY <1>8 DEF CloseDialog, Returns, Return, ReturnLeft, service, form
    <2> QED BY <2>1, MeantKept
  <1>9. CASE Leave
    <2>1. \A q \in posts' : \E o \in posts : q.op = o.op /\ q.sent = o.sent
      <3>1. posts' = {[p EXCEPT !.mine = FALSE] : p \in posts} BY <1>9 DEF Leave
      <3> QED BY <3>1, TypeParts DEF PostsType, Requests
    <2>2. dialog' = None BY <1>9 DEF Leave
    <2>3. job' # None => job # None /\ job'.op = job.op /\ job'.sent = job.sent
      BY <1>0, <1>9 DEF Leave, Jobs
    <2> QED BY <2>1, <2>2, <2>3, MeantKept
  <1> QED BY <1>1, <1>2, <1>3, <1>4, <1>5, <1>6, <1>7, <1>8, <1>9 DEF Next

\* One request at a time.
LEMMA OneStep ==
    ASSUME TypeOK, OneRequest, [Next]_vars
    PROVE  OneRequest'
  <1>1. CASE UNCHANGED <<posts, submitting>> /\ (dialog' = dialog \/ dialog' = None)
    BY <1>1 DEF OneRequest
  <1>2. CASE UNCHANGED vars \/ Serves \/ JobFails \/ Elsewhere \/ Serve \/ Expire \/ Poll \/ Deliver \/ DeliverLate \/ CloseDialog
    <2>1. UNCHANGED <<posts, submitting>> /\ (dialog' = dialog \/ dialog' = None)
      BY <1>2 DEF vars, Serves, Begin, Stale, End, CutOver, Route, Finish, JobFails, Elsewhere, Serve, Expire,
                  Poll, Deliver, DeliverLate, CloseDialog, form
    <2> QED BY <1>1, <2>1
  <1>3. CASE Receive
    <2>1. PICK p \in posts, r \in {"ok", "failed"} : posts' = (posts \ {p}) \cup {[p EXCEPT !.reply = r]}
      BY <1>3 DEF Receive
    <2>2. p \in Requests BY TypeParts DEF PostsType
    <2>3. [p EXCEPT !.reply = r].mine = p.mine /\ [p EXCEPT !.reply = r].op = p.op BY <2>2 DEF Requests
    <2>4. UNCHANGED <<submitting, dialog>> BY <1>3 DEF Receive, form
    <2> QED BY <2>1, <2>3, <2>4 DEF OneRequest
  <1>4. CASE Opens
    <2>1. ~submitting /\ UNCHANGED <<posts, submitting>> BY <1>4, OpensType
    <2> QED BY <2>1 DEF OneRequest
  <1>5. CASE confirmPending
    <2>1. PICK p \in Requests : posts' = posts \cup {p} /\ p.op = dialog /\ p.sent = Carried(dialog)
      BY <1>5, SubmitType
    <2>2. ~submitting /\ submitting' /\ UNCHANGED dialog BY <1>5, SubmitType DEF confirmPending
    <2>3. \A q \in posts : ~q.mine BY <2>2 DEF OneRequest
    <2> QED BY <2>1, <2>2, <2>3 DEF OneRequest
  <1>6. CASE Returns
    <2>1. PICK p \in posts : Return(p) \/ ReturnLeft(p) BY <1>6 DEF Returns
    <2>2. CASE Return(p)
      <3>1. \A q \in posts' : ~q.mine BY <2>2 DEF Return, OneRequest
      <3> QED BY <3>1 DEF OneRequest
    <2>3. CASE ReturnLeft(p)
      <3>1. posts' \subseteq posts /\ UNCHANGED <<submitting, dialog>> BY <2>3 DEF ReturnLeft, form
      <3> QED BY <3>1 DEF OneRequest
    <2> QED BY <2>1, <2>2, <2>3
  <1>7. CASE Leave
    <2>1. \A q \in posts' : ~q.mine
      <3>1. posts' = {[p EXCEPT !.mine = FALSE] : p \in posts} BY <1>7 DEF Leave
      <3> QED BY <3>1, TypeParts DEF PostsType, Requests
    <2> QED BY <2>1 DEF OneRequest
  <1> QED BY <1>2, <1>3, <1>4, <1>5, <1>6, <1>7 DEF Next

\* What the service begins is what was confirmed.
LEMMA MovesStep ==
    ASSUME TypeOK, MeantOnly, MovesAsConfirmed, [Next]_vars
    PROVE  MovesAsConfirmed'
  <1>0. srv \in Servers /\ (job # None => job \in Jobs) BY TypeParts DEF ServiceType, Maybe
  <1>1. CASE UNCHANGED srv /\ (job' # None /\ job'.begun => job # None /\ job.begun /\ job'.op = job.op)
    BY <1>1 DEF MovesAsConfirmed
  <1>2. CASE UNCHANGED vars \/ Serve \/ Expire \/ Poll \/ Deliver \/ DeliverLate \/ Opens \/ confirmPending
                \/ CloseDialog \/ Returns
    <2>1. UNCHANGED <<srv, job>>
      BY <1>2, OpensType DEF vars, service, Serve, Expire, Poll, Deliver, DeliverLate, confirmPending, CloseDialog,
                             Returns, Return, ReturnLeft
    <2> QED BY <1>1, <2>1
  <1>3. CASE Begin
    <2>1. job \in Jobs /\ job' = [job EXCEPT !.begun = TRUE] /\ MayBegin(job.sent) BY <1>0, <1>3 DEF Begin
    <2>2. job'.op = job.op BY <2>1 DEF Jobs
    <2>3. CASE job.op.kind \in {"switch", "rollback"}
      <3>1. job.op \in Ops /\ Meant(job.op) /\ job.sent = Carried(job.op) BY <1>3, <2>1 DEF Begin, MeantOnly, Jobs
      <3>2. job.sent.kind = job.op.kind /\ job.sent.from = job.op.from BY <2>3, <3>1, CarriedType
      <3>3. srv.active = job.op.from BY <2>1, <2>3, <3>2 DEF MayBegin
      <3>4. Target(job.sent) = job.op.to
        <4>1. CASE job.op.kind = "switch" BY <3>1, <3>2, <4>1, CarriedType DEF Target
        <4>2. CASE job.op.kind = "rollback" BY <2>3, <3>1, <3>2, <3>3, <4>2 DEF Target, Meant
        <4> QED BY <2>3, <4>1, <4>2
      <3>5. srv'.candidate = job.op.to /\ srv'.active = srv.active
        BY <1>0, <1>3, <2>3, <3>2, <3>4 DEF Begin, Servers
      <3> QED BY <2>2, <3>3, <3>5 DEF MovesAsConfirmed
    <2>4. CASE job.op.kind \notin {"switch", "rollback"} BY <2>2, <2>4 DEF MovesAsConfirmed
    <2> QED BY <2>3, <2>4
  <1>4. CASE Stale \/ Finish \/ JobFails
    <2>1. job' = None BY <1>4 DEF Stale, Finish, JobFails, End
    <2> QED BY <2>1 DEF MovesAsConfirmed
  <1>5. CASE CutOver \/ Route
    <2>1. /\ UNCHANGED job /\ srv'.candidate = srv.candidate
          /\ srv'.stage = "before" => FALSE
      BY <1>0, <1>5 DEF CutOver, Route, Servers
    <2> QED BY <2>1 DEF MovesAsConfirmed
  <1>6. CASE Elsewhere \/ Receive
    <2>1. UNCHANGED srv BY <1>6 DEF Elsewhere, Receive
    <2>2. UNCHANGED job \/ \E o, s, b : Launch(o, s, b) BY <1>6 DEF Elsewhere, Receive
    <2>3. CASE UNCHANGED job BY <1>1, <2>1, <2>3
    <2>4. CASE \E o, s, b : Launch(o, s, b) BY <2>4 DEF Launch, MovesAsConfirmed
    <2> QED BY <2>2, <2>3, <2>4
  <1>7. CASE Leave
    <2>1. UNCHANGED srv BY <1>7 DEF Leave
    <2>2. job' # None => job # None /\ job'.op = job.op /\ job'.begun = job.begun BY <1>0, <1>7 DEF Leave, Jobs
    <2> QED BY <1>1, <2>1, <2>2
  <1> QED BY <1>2, <1>3, <1>4, <1>5, <1>6, <1>7 DEF Next, Serves

-----------------------------------------------------------------------------
(***************************************************************************)
(* The order of the reads.                                                 *)
(***************************************************************************)
LEMMA DoneGrows ==
    ASSUME TypeOK, [Next]_vars
    PROVE  srv.done \in Nat /\ srv'.done \in Nat /\ srv.done <= srv'.done
  <1>0. srv \in Servers /\ srv.done \in Nat BY TypeParts DEF ServiceType, Servers
  <1>1. CASE UNCHANGED srv BY <1>0, <1>1
  <1>2. CASE Serves \/ JobFails
    <2>1. srv'.done = srv.done \/ srv'.done = srv.done + 1
      BY <1>0, <1>2 DEF Serves, Begin, Stale, CutOver, Route, Finish, JobFails, Servers
    <2> QED BY <1>0, <2>1
  <1>3. CASE ~(Serves \/ JobFails)
    <2>1. UNCHANGED srv
      BY <1>3, OpensType DEF Next, vars, service, Elsewhere, Serve, Expire, Receive, Poll, Deliver, DeliverLate,
                             CloseDialog, confirmPending, Returns, Return, ReturnLeft, Leave
    <2> QED BY <1>1, <2>1
  <1> QED BY <1>2, <1>3

\* Reads are numbered by what the service had done when they were sent.
LEMMA OrderKept ==
    ASSUME TypeOK, ReadsInOrder, [Next]_vars,
           newest' # None => (newest # None /\ newest'.since = newest.since) \/ newest'.since = srv.done,
           UNCHANGED shown
    PROVE  ReadsInOrder'
  <1>1. srv.done \in Nat /\ srv'.done \in Nat /\ srv.done <= srv'.done BY DoneGrows
  <1>2. newest # None => newest.since \in Nat BY TypeParts DEF StatusType, Maybe, Reads
  <1>3. shown # None => shown.since \in Nat BY TypeParts DEF StatusType, Maybe, Views
  <1> QED BY <1>1, <1>2, <1>3 DEF ReadsInOrder

LEMMA OrderStep ==
    ASSUME TypeOK, ReadsInOrder, [Next]_vars
    PROVE  /\ ReadsInOrder'
           /\ shown # None /\ shown' # None => shown'.since >= shown.since
  <1>0. shown # None => shown.since \in Nat BY TypeParts DEF StatusType, Maybe, Views
  <1>1. CASE UNCHANGED <<newest, shown>> BY <1>0, <1>1, OrderKept
  <1>2. CASE UNCHANGED vars \/ Serves \/ JobFails \/ Elsewhere \/ Expire \/ Receive \/ DeliverLate \/ Opens
                \/ confirmPending \/ CloseDialog
    <2>1. UNCHANGED <<newest, shown>>
      BY <1>2, OpensType DEF vars, status, Serves, Begin, Stale, End, CutOver, Route, Finish, JobFails, Elsewhere,
                             Expire, Receive, DeliverLate, confirmPending, CloseDialog
    <2> QED BY <1>1, <2>1
  <1>3. CASE Serve
    <2>1. newest # None /\ newest'.since = newest.since /\ UNCHANGED shown BY <1>3, ServeType DEF Serve
    <2> QED BY <1>0, <2>1, OrderKept
  <1>4. CASE Poll
    <2>1. newest'.since = srv.done /\ UNCHANGED shown BY <1>4, RefreshType, TypeParts DEF Poll, FormType
    <2> QED BY <1>0, <2>1, OrderKept
  <1>5. CASE Deliver
    <2>1. newest \in Reads /\ newest # None /\ newest' = None /\ UNCHANGED srv
      BY <1>5, TypeParts DEF Deliver, StatusType, Maybe, service
    <2>2. newest.since \in Nat /\ newest.since <= srv.done BY <2>1 DEF Reads, ReadsInOrder
    <2>3. UNCHANGED shown \/ shown'.since = newest.since BY <1>5 DEF Deliver
    <2>4. shown # None => shown.since <= newest.since BY <2>1 DEF ReadsInOrder
    <2>5. ReadsInOrder' BY <2>1, <2>2, <2>3, <2>4 DEF ReadsInOrder
    <2>6. shown # None /\ shown' # None => shown'.since >= shown.since BY <1>0, <2>2, <2>3, <2>4
    <2> QED BY <2>5, <2>6
  <1>6. CASE Returns
    <2>1. PICK p \in posts : Return(p) \/ ReturnLeft(p) BY <1>6 DEF Returns
    <2>2. UNCHANGED shown /\ (UNCHANGED newest \/ newest'.since = srv.done)
      BY <2>1, AskType DEF Return, ReturnLeft, status
    <2> QED BY <1>0, <2>2, OrderKept
  <1>7. CASE Leave
    <2>1. newest'.since = srv.done /\ shown' = None /\ UNCHANGED srv BY <1>7, AskType DEF Leave
    <2>2. srv.done \in Nat BY DoneGrows
    <2> QED BY <2>1, <2>2 DEF ReadsInOrder
  <1> QED BY <1>2, <1>3, <1>4, <1>5, <1>6, <1>7 DEF Next

-----------------------------------------------------------------------------
(***************************************************************************)
(* The theorems.                                                           *)
(***************************************************************************)
LEMMA InvInit == Init => PageInv
  <1> SUFFICES ASSUME Init PROVE PageInv OBVIOUS
  <1>1. srv.done = 0 /\ newest.since = 0 BY DEF Init, Ask
  <1>2. job = None /\ dialog = None /\ posts = {} /\ shown = None BY DEF Init
  <1>3. MeantOnly /\ OneRequest /\ MovesAsConfirmed BY <1>2 DEF MeantOnly, OneRequest, MovesAsConfirmed
  <1>4. ReadsInOrder BY <1>1, <1>2 DEF ReadsInOrder
  <1> QED BY <1>3, <1>4, InitType DEF PageInv

LEMMA InvStep == PageInv /\ [Next]_vars => PageInv'
  BY TypeStep, MeantStep, OneStep, MovesStep, OrderStep DEF PageInv

\* The invariant holds in every state of the page and the service.
THEOREM PageInvariant == Spec => []PageInv
  BY InvInit, InvStep, PTL DEF Spec

\* A page has one request on its way at most, and an open dialog is that of the
\* request (Deployment.tsx: submitting, globalBlock, runMutation).
THEOREM OneAtATime == Spec => []OneRequest
  <1>1. PageInv => OneRequest BY DEF PageInv
  <1> QED BY <1>1, PageInvariant, PTL

\* Whatever the page showed and others did in between, a switch or rollback that the
\* service begins goes from and to the slots the operator confirmed
\* (Deployment.tsx: confirmPending; abctl.py: switch, rollback).
THEOREM Confirmation == Spec => []MovesAsConfirmed
  <1>1. PageInv => MovesAsConfirmed BY DEF PageInv
  <1> QED BY <1>1, PageInvariant, PTL

\* The status shown never goes back to that of an older read, for any number of
\* polls and operations (use-resource.ts: the flag of the effect).
THEOREM InOrder == Spec => ShownInOrder
  <1>1. PageInv /\ [Next]_vars => [shown # None /\ shown' # None => shown'.since >= shown.since]_vars
    BY OrderStep DEF PageInv
  <1> QED BY <1>1, PageInvariant, PTL DEF Spec, ShownInOrder
=============================================================================
