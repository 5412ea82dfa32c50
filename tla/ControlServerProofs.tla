------------------------- MODULE ControlServerProofs -------------------------
(***************************************************************************)
(* Theorems about ControlServer, for any number of clients, viewers and    *)
(* operators: what deploy.lock and the journal keep apart.                 *)
(***************************************************************************)
EXTENDS ControlServer, TLAPS

USE DEF files, ends, bounds

RunnerPlaces == {"rest", "begin", "work", "report", "reset", "leave"}
AskerPlaces  == Places \ {"begin", "work", "report", "reset", "leave"}

\* Who has the lock, by where it stands: a client between taking and launching, whoever probes
\* the lock, and everybody who runs an operation.
Holds(x) ==
    \/ x \in Askers /\ at[x] \in {"recheck", "launch", "probed"}
    \/ x \in Runners /\ at[x] # "rest"

\* Runners and askers keep to their own places, and nobody is at a place of the lock without it.
LockInv ==
    /\ TypeOK
    /\ \A x \in Runners : at[x] \in RunnerPlaces
    /\ \A x \in Askers : at[x] \in AskerPlaces
    /\ \A x \in Actors : Holds(x) => lock = x

LEMMA ActorFacts ==
    /\ None \notin Actors /\ Job \in Runners /\ Job \notin Askers /\ Job \notin Locals
    /\ Askers \cap Runners = {} /\ Clients \subseteq Askers /\ Locals \subseteq Runners
    /\ Actors = Askers \cup Runners
  BY ControlAssumption DEF Actors, Askers, Runners

LEMMA TypeInit == Init => TypeOK
<1> SUFFICES ASSUME Init PROVE TypeOK
  OBVIOUS
<1>1. Unknown \in Statuses /\ "rest" \in Places
  BY DEF Unknown, Statuses, Places
<1>2. at \in [Actors -> Places] /\ action \in [Actors -> Actions \cup {None}]
      /\ view \in [Askers -> Statuses]
  BY <1>1 DEF Init
<1>3. outcome \in [Clients -> Results \cup {None}] /\ told \in [Clients -> Results \cup {None}]
  BY DEF Init
<1> QED
  BY <1>2, <1>3, ControlAssumption, 0 \in 0..MaxRequests, 0 \in 0..MaxViews, 0 \in 0..MaxCrashes
  DEF Init, TypeOK

LEMMA SleepingType ==
    ASSUME TypeOK, NEW c \in Clients, Sleeping(c)
    PROVE  cache' \in [status : Statuses, old : SUBSET Clients] \cup {None}
  BY DEF TypeOK, Sleeping

LEMMA TypeStep == TypeOK /\ [Next]_vars => TypeOK'
<1> SUFFICES ASSUME TypeOK, [Next]_vars
             PROVE  TypeOK'
  OBVIOUS
<1> USE ActorFacts, ControlAssumption DEF TypeOK, Go, Places
<1>1. ASSUME NEW c \in Clients, (\E a \in Actions : Post(c, a)) \/ Start(c)
      PROVE  TypeOK'
  <2>1. CASE \E a \in Actions : Post(c, a)
    BY <1>1, <2>1 DEF Post
  <2>2. CASE TakeLock(c) \/ Recheck(c)
    <3>1. at' \in [Actors -> Places] /\ lock' \in {c, lock, None} /\ panel' \in BOOLEAN
      BY <1>1, <2>2 DEF TakeLock, Recheck
    <3>2. UNCHANGED <<op, cache, action, view, owner, outcome, told, requests, views, crashes>>
      BY <2>2 DEF TakeLock, Recheck
    <3> QED
      BY <1>1, <3>1, <3>2
  <2>3. CASE Launch(c)
    BY <1>1, <2>3, SleepingType DEF Launch
  <2> QED
    BY <1>1, <2>1, <2>2, <2>3 DEF Start
<1>2. ASSUME NEW c \in Clients, Wake(c) \/ Follow(c)
      PROVE  TypeOK'
  BY <1>2 DEF Wake, Follow, Sleeping, Results
<1>3. ASSUME NEW l \in Locals, (\E a \in Actions : StartLocal(l, a)) \/ LocalDies(l)
      PROVE  TypeOK'
  BY <1>3 DEF StartLocal, LocalDies
<1>4. ASSUME NEW x \in Runners, Operate(x)
      PROVE  TypeOK'
  BY <1>4 DEF Operate, Begin, Finish, Fail, Leave, Ended, AfterOp, Results
<1>5. CASE Report \/ ResetCache \/ Expire
  BY <1>5, ZenonT(40) DEF Report, ResetCache, Expire
<1>6. ASSUME NEW v \in Viewers, Look(v)
      PROVE  TypeOK'
  BY <1>6 DEF Look, Askers
<1>7. ASSUME NEW x \in Askers, Get(x)
      PROVE  TypeOK'
  <2>1. view[x] \in Statuses
    OBVIOUS
  <2>2. CASE CacheHit(x) \/ StoreStatus(x) \/ Unprobe(x)
    BY <1>7, <2>1, <2>2 DEF CacheHit, StoreStatus, Unprobe, Answered
  <2>3. CASE Probe(x) \/ ReadOp(x) \/ ReadPanel(x) \/ SeeJob(x)
    <3>1. PICK s \in Statuses : view' = [view EXCEPT ![x] = s]
      BY <2>1, <2>3 DEF Probe, ReadOp, ReadPanel, SeeJob, Statuses
    <3>2. view' \in [Askers -> Statuses]
      BY <3>1
    <3> QED
      BY <1>7, <2>3, <3>2 DEF Probe, ReadOp, ReadPanel, SeeJob
  <2> QED
    BY <1>7, <2>2, <2>3 DEF Get
<1>8. CASE ServiceDies
  BY <1>8 DEF ServiceDies
<1>9. CASE UNCHANGED vars
  BY <1>9 DEF vars
<1> QED
  BY <1>1, <1>2, <1>3, <1>4, <1>5, <1>6, <1>7, <1>8, <1>9 DEF Next

\* The variables keep their types.
THEOREM ControlTypes == Spec => []TypeOK
  BY TypeInit, TypeStep, PTL DEF Spec
-----------------------------------------------------------------------------
LEMMA LockInit == Init => LockInv
  BY TypeInit, ActorFacts DEF Init, LockInv, Holds, RunnerPlaces, AskerPlaces, Places

LEMMA LockStep == LockInv /\ [Next]_vars => LockInv'
<1> SUFFICES ASSUME LockInv, [Next]_vars
             PROVE  LockInv'
  OBVIOUS
<1>0. TypeOK'
  BY TypeStep DEF LockInv
<1> USE ActorFacts DEF LockInv, TypeOK, Holds, RunnerPlaces, AskerPlaces, Places, Go
<1>1. ASSUME NEW c \in Clients, (\E a \in Actions : Post(c, a)) \/ Start(c)
      PROVE  LockInv'
  BY <1>0, <1>1 DEF Post, Start, TakeLock, Recheck, Launch
<1>2. ASSUME NEW c \in Clients, Wake(c) \/ Follow(c)
      PROVE  LockInv'
  BY <1>0, <1>2 DEF Wake, Follow
<1>3. ASSUME NEW l \in Locals, (\E a \in Actions : StartLocal(l, a)) \/ LocalDies(l)
      PROVE  LockInv'
  BY <1>0, <1>3 DEF StartLocal, LocalDies
<1>4. ASSUME NEW x \in Runners, Operate(x)
      PROVE  LockInv'
  BY <1>0, <1>4 DEF Operate, Begin, Finish, Fail, Leave, AfterOp
<1>5. CASE Report \/ ResetCache \/ Expire
  BY <1>0, <1>5 DEF Report, ResetCache, Expire
<1>6. ASSUME NEW v \in Viewers, Look(v)
      PROVE  LockInv'
  BY <1>0, <1>6 DEF Look, Askers
<1>7. ASSUME NEW x \in Askers, Get(x)
      PROVE  LockInv'
  BY <1>0, <1>7
  DEF Get, CacheHit, Probe, Unprobe, ReadOp, ReadPanel, SeeJob, StoreStatus, Answered
<1>8. CASE ServiceDies
  BY <1>0, <1>8 DEF ServiceDies, Runners
<1>9. CASE UNCHANGED vars
  BY <1>0, <1>9 DEF vars
<1> QED
  BY <1>1, <1>2, <1>3, <1>4, <1>5, <1>6, <1>7, <1>8, <1>9 DEF Next

\* One operation at a time: refused requests, probes of the lock and deaths of the service or of
\* an operator's process never leave two of them under way (control_server.py: start, _run,
\* lock_busy; abctl.py: locked).
THEOREM OneAtATime == Spec => []OneOperation
<1>1. LockInv => OneOperation
  BY ActorFacts DEF LockInv, Holds, OneOperation
<1> QED
  BY LockInit, LockStep, <1>1, PTL DEF Spec

\* The journal of an unfinished operation is cleared by whoever finishes it and overwritten by
\* nobody, whether the next operation comes through the service or beside it (abctl.py: begin,
\* require_idle, finish).
THEOREM JournalKept == Spec => UnfinishedKept
<1>1. [Next]_vars => [op # 0 => op' \in {0, op}]_op
  <2> SUFFICES ASSUME [Next]_vars, op # 0
               PROVE  op' \in {0, op}
    OBVIOUS
  <2>1. ASSUME NEW c \in Clients, (\E a \in Actions : Post(c, a)) \/ Start(c) \/ Wake(c) \/ Follow(c)
        PROVE  op' = op
    BY <2>1 DEF Post, Start, TakeLock, Recheck, Launch, Wake, Follow
  <2>2. ASSUME NEW l \in Locals, (\E a \in Actions : StartLocal(l, a)) \/ LocalDies(l)
        PROVE  op' = op
    BY <2>2 DEF StartLocal, LocalDies
  <2>3. ASSUME NEW x \in Runners, Operate(x)
        PROVE  op' \in {0, op}
    BY <2>3 DEF Operate, Begin, Finish, Fail, Leave
  <2>4. ASSUME NEW x \in Askers, Get(x)
        PROVE  op' = op
    BY <2>4 DEF Get, CacheHit, Probe, Unprobe, ReadOp, ReadPanel, SeeJob, StoreStatus
  <2>5. CASE \/ Report \/ ResetCache \/ Expire \/ ServiceDies \/ UNCHANGED vars
             \/ \E v \in Viewers : Look(v)
    BY <2>5 DEF Report, ResetCache, Expire, ServiceDies, Look, vars
  <2> QED
    BY <2>1, <2>2, <2>3, <2>4, <2>5 DEF Next
<1> QED
  BY <1>1, PTL DEF Spec, UnfinishedKept
=============================================================================
