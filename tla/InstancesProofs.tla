--------------------------- MODULE InstancesProofs ---------------------------
(***************************************************************************)
(* Theorems about Instances, for any number of accounts, runners and       *)
(* administrators: the types of the rows and of what the workers hold, and *)
(* that the leader's tick does not run an account twice.                   *)
(***************************************************************************)
EXTENDS Instances, TLAPS

USE DEF storeVars

Work == [at : Stages \ {"idle"}, kind : AdminKinds \cup {"tick"}, acct : Accounts, row : Row,
         answer : Statuses \cup Tokens]

\* What a worker holds, and what its next statement writes into the row.
WorkOK(w) ==
    /\ work[w] \in Work \cup {Idle}
    /\ work[w].at \in {"markStarted", "markProbed"} => work[w].answer \in Statuses
    /\ work[w].at = "writeAuth" => work[w].answer \in 1..MaxToken
    /\ work[w].at # "idle" => work[w].kind = "tick" \/ work[w].kind \in Kinds

StoreOK ==
    /\ rows \in [Accounts -> Row \cup {Deleted}]
    /\ proc \in [Runners -> [Accounts -> ProcStates]]
    /\ disk \in [Runners -> [Accounts -> Tokens]]
    /\ issued \in [Accounts -> 1..MaxToken]

WorkersOK ==
    /\ work \in [Workers -> Work \cup {Idle}]
    /\ \A w \in Workers : WorkOK(w)

TickOK ==
    /\ tick \in [at : {"idle", "ask", "accounts"}, seen : [Accounts -> Row \cup {Deleted}],
                 running : SUBSET Accounts, asked : SUBSET Runners, left : SUBSET Accounts]
    /\ \A i \in tick.left : tick.seen[i] # Deleted

BoundsOK == ticks \in 0..(SyncEvery - 1) /\ ops \in 0..MaxOps /\ faults \in 0..MaxFaults

\* The types, closed under every step.
HoldingsOK == StoreOK /\ WorkersOK /\ TickOK /\ BoundsOK

LEMMA Constants ==
    /\ Deleted \notin Row /\ Idle \notin Work /\ "idle" \in Stages
    /\ Job0 \in [at : {"idle", "ask", "accounts"}, seen : [Accounts -> Row \cup {Deleted}],
                 running : SUBSET Accounts, asked : SUBSET Runners, left : SUBSET Accounts]
    /\ Job0.left = {} /\ Job0.at = "idle"
    /\ 0 \in Tokens /\ 1 \in 1..MaxToken /\ 1..MaxToken \subseteq Tokens
<1>1. Deleted \notin Row
  BY DEF Deleted, Row, Statuses
<1>2. Idle \notin Work /\ "idle" \in Stages
  BY DEF Idle, Work, Stages
<1>3. Job0 \in [at : {"idle", "ask", "accounts"}, seen : [Accounts -> Row \cup {Deleted}],
                running : SUBSET Accounts, asked : SUBSET Runners, left : SUBSET Accounts]
      /\ Job0.left = {} /\ Job0.at = "idle"
  BY DEF Job0
<1> QED
  BY <1>1, <1>2, <1>3, InstancesAssumption DEF Tokens

LEMMA HoldingsInit == Init => HoldingsOK
<1> SUFFICES ASSUME Init PROVE HoldingsOK
  OBVIOUS
<1>1. rows \in [Accounts -> Row \cup {Deleted}]
  <2> SUFFICES ASSUME NEW e \in BOOLEAN, NEW r \in Runners
               PROVE  [enabled |-> e, runner |-> r, auth |-> 1, status |-> "stopped"] \in Row
    BY DEF Init
  <2> QED
    BY Constants DEF Row, Statuses
<1>2. proc \in [Runners -> [Accounts -> ProcStates]] /\ disk \in [Runners -> [Accounts -> Tokens]]
      /\ issued \in [Accounts -> 1..MaxToken]
  BY Constants DEF Init, ProcStates
<1>3. work \in [Workers -> Work \cup {Idle}] /\ \A w \in Workers : work[w] = Idle /\ work[w].at = "idle"
  BY DEF Init, Idle
<1>4. tick = Job0 /\ ticks \in 0..(SyncEvery - 1) /\ ops \in 0..MaxOps /\ faults \in 0..MaxFaults
  BY InstancesAssumption DEF Init
<1> QED
  BY <1>1, <1>2, <1>3, <1>4, Constants
  DEF HoldingsOK, StoreOK, WorkersOK, TickOK, BoundsOK, WorkOK
-----------------------------------------------------------------------------
(* The pieces of a step. *)

LEMMA HoldingsTypes == HoldingsOK => TypeOK
<1>1. ASSUME WorkersOK, NEW w \in Workers
      PROVE  work[w].at \in Stages /\ (work[w].at # "idle" => work[w].row \in Row)
  <2>1. CASE work[w] = Idle
    BY <2>1 DEF Idle, Stages
  <2>2. CASE work[w] \in Work
    BY <2>2 DEF Work
  <2> QED
    BY <1>1, <2>1, <2>2 DEF WorkersOK
<1>2. TickOK => /\ tick.at \in {"idle", "ask", "accounts"} /\ tick.left \subseteq Accounts
                /\ tick.seen \in [Accounts -> Row \cup {Deleted}]
                /\ tick.running \subseteq Accounts /\ tick.asked \subseteq Runners
  BY DEF TickOK
<1> QED
  BY <1>1, <1>2 DEF HoldingsOK, TypeOK, StoreOK, BoundsOK

LEMMA AtWork ==
    ASSUME WorkersOK, NEW w \in Workers, work[w].at # "idle"
    PROVE  /\ work[w] \in Work /\ work[w].acct \in Accounts /\ work[w].row \in Row
           /\ work[w].row.runner \in Runners /\ work[w].row.auth \in 1..MaxToken
           /\ work[w].answer \in Statuses \cup Tokens
  BY DEF WorkersOK, Work, Idle, Row

\* One worker gets new work, or is idle again.
LEMMA WorkerSet ==
    ASSUME WorkersOK, NEW w \in Workers, NEW v \in Work \cup {Idle}, work' = [work EXCEPT ![w] = v],
           v.at \in {"markStarted", "markProbed"} => v.answer \in Statuses,
           v.at = "writeAuth" => v.answer \in 1..MaxToken,
           v.at # "idle" => v.kind = "tick" \/ v.kind \in Kinds
    PROVE  WorkersOK'
  BY DEF WorkersOK, WorkOK

LEMMA WorkerDone ==
    ASSUME WorkersOK, NEW w \in Workers, Done(w)
    PROVE  WorkersOK'
<1>1. Idle.at = "idle"
  BY DEF Idle
<1> QED
  BY <1>1, WorkerSet DEF Done

\* A worker goes on with what it holds.
LEMMA WorkerGoes ==
    ASSUME WorkersOK, NEW w \in Workers, work[w].at # "idle", NEW stage \in Stages \ {"idle"},
           Go(w, stage),
           stage \in {"markStarted", "markProbed"} => work[w].answer \in Statuses,
           stage # "writeAuth"
    PROVE  WorkersOK'
<1>1. work[w] \in Work
  BY AtWork
<1> DEFINE v == [work[w] EXCEPT !.at = stage]
<1>2. v \in Work /\ v.at = stage /\ v.answer = work[w].answer /\ v.kind = work[w].kind
  BY <1>1 DEF Work
<1>3. work' = [work EXCEPT ![w] = v]
  BY DEF Go
<1>4. work[w].kind = "tick" \/ work[w].kind \in Kinds
  BY DEF WorkersOK, WorkOK
<1> HIDE DEF v
<1> QED
  BY <1>2, <1>3, <1>4, WorkerSet

LEMMA WorkerAnswered ==
    ASSUME WorkersOK, NEW w \in Workers, work[w].at # "idle",
           NEW stage \in {"markStarted", "markProbed", "writeAuth"}, NEW answer,
           answer \in IF stage = "writeAuth" THEN 1..MaxToken ELSE Statuses,
           work' = [work EXCEPT ![w].at = stage, ![w].answer = answer]
    PROVE  WorkersOK'
<1>1. work[w] \in Work
  BY AtWork
<1>2. answer \in Statuses \cup Tokens /\ stage \in Stages \ {"idle"}
  BY Constants DEF Stages
<1> DEFINE v == [work[w] EXCEPT !.at = stage, !.answer = answer]
<1>3. v \in Work /\ v.at = stage /\ v.answer = answer /\ v.kind = work[w].kind
  BY <1>1, <1>2 DEF Work
<1>4. work' = [work EXCEPT ![w] = v]
  BY DEF WorkersOK
<1>5. work[w].kind = "tick" \/ work[w].kind \in Kinds
  BY DEF WorkersOK, WorkOK
<1> HIDE DEF v
<1> QED
  BY <1>3, <1>4, <1>5, WorkerSet

LEMMA StatusType ==
    ASSUME StoreOK, NEW i \in Accounts, NEW status \in Statuses, SetStatus(i, status)
    PROVE  rows' \in [Accounts -> Row \cup {Deleted}]
<1>1. CASE Exists(i)
  <2>1. rows[i] \in Row
    BY <1>1 DEF StoreOK, Exists
  <2>2. [rows[i] EXCEPT !.status = status] \in Row
    BY <2>1 DEF Row
  <2> QED
    BY <1>1, <2>2 DEF StoreOK, SetStatus
<1>2. CASE ~Exists(i)
  BY <1>2 DEF StoreOK, SetStatus
<1> QED
  BY <1>1, <1>2

LEMMA ProcSet ==
    ASSUME StoreOK, NEW r \in Runners, NEW i \in Accounts, NEW s \in ProcStates,
           proc' = [proc EXCEPT ![r][i] = s]
    PROVE  /\ proc' \in [Runners -> [Accounts -> ProcStates]]
           /\ \A t \in Runners, j \in Accounts :
                 proc'[t][j] = IF t = r /\ j = i THEN s ELSE proc[t][j]
  BY DEF StoreOK

LEMMA DiskSet ==
    ASSUME StoreOK, NEW r \in Runners, NEW i \in Accounts, NEW k \in Tokens,
           disk' = [disk EXCEPT ![r][i] = k]
    PROVE  disk' \in [Runners -> [Accounts -> Tokens]]
  BY DEF StoreOK

LEMMA FaultType ==
    ASSUME BoundsOK, \/ NoFault \/ \E kind \in FaultKinds : Fault(kind)
    PROVE  faults' \in 0..MaxFaults
  BY InstancesAssumption DEF BoundsOK, NoFault, Fault
-----------------------------------------------------------------------------
(* The steps: of a worker's calls, of the tick, of the administrators and of the rest. *)

LEMMA CallTypes ==
    ASSUME HoldingsOK, NEW w \in Workers, Call(w)
    PROVE  HoldingsOK'
<1>0. StoreOK /\ WorkersOK /\ TickOK /\ BoundsOK
  BY DEF HoldingsOK
<1>1. CASE CallStart(w)
  <2>1. work[w].at # "idle" /\ UNCHANGED <<rows, issued, tick, ticks, ops>>
    BY <1>1 DEF CallStart, At
  <2>2. /\ work[w].acct \in Accounts /\ work[w].row.runner \in Runners
        /\ work[w].row.auth \in Tokens
    BY <1>0, <2>1, AtWork, Constants
  <2>3. proc' \in [Runners -> [Accounts -> ProcStates]] /\ disk' \in [Runners -> [Accounts -> Tokens]]
    <3> DEFINE i == work[w].acct
               r == work[w].row.runner
               token == work[w].row.auth
    <3>1. \/ UNCHANGED <<proc, disk>>
          \/ /\ \E s \in {"booting", "none"} : proc' = [proc EXCEPT ![r][i] = s]
             /\ disk' = [disk EXCEPT ![r][i] = token]
      BY <1>1 DEF CallStart, SupervisorStart, SpawnFails
    <3>2. i \in Accounts /\ r \in Runners /\ token \in Tokens
      BY <2>2
    <3> HIDE DEF i, r, token
    <3>3. CASE UNCHANGED <<proc, disk>>
      BY <1>0, <3>3 DEF StoreOK
    <3>4. ASSUME NEW s \in {"booting", "none"}, proc' = [proc EXCEPT ![r][i] = s],
                 disk' = [disk EXCEPT ![r][i] = token]
          PROVE  /\ proc' \in [Runners -> [Accounts -> ProcStates]]
                 /\ disk' \in [Runners -> [Accounts -> Tokens]]
      <4>1. s \in ProcStates
        BY DEF ProcStates
      <4> QED
        BY <1>0, <3>2, <3>4, <4>1, ProcSet, DiskSet
    <3> QED
      BY <3>1, <3>3, <3>4
  <2>4. PICK a \in {"starting", "error"} :
          work' = [work EXCEPT ![w].at = "markStarted", ![w].answer = a]
    BY <1>1 DEF CallStart
  <2>5. WorkersOK'
    BY <1>0, <2>1, <2>4, WorkerAnswered DEF Statuses
  <2>6. faults' \in 0..MaxFaults
    BY <1>0, <1>1, FaultType DEF CallStart, FaultKinds
  <2> QED
    BY <1>0, <2>1, <2>3, <2>5, <2>6 DEF HoldingsOK, StoreOK, TickOK, BoundsOK
<1>2. CASE MarkStarted(w)
  <2>1. work[w].acct \in Accounts /\ work[w].answer \in Statuses
    BY <1>0, <1>2, AtWork DEF MarkStarted, At, WorkersOK, WorkOK
  <2>2. rows' \in [Accounts -> Row \cup {Deleted}] /\ WorkersOK'
    BY <1>0, <1>2, <2>1, StatusType, WorkerDone DEF MarkStarted
  <2> QED
    BY <1>0, <1>2, <2>2 DEF HoldingsOK, MarkStarted, StoreOK, TickOK, BoundsOK
<1>3. CASE CallStop(w)
  <2>1. work[w].at # "idle" /\ UNCHANGED <<rows, disk, issued, tick, ticks, ops>>
        /\ Go(w, "markStopped")
    BY <1>3 DEF CallStop, At
  <2>2. work[w].acct \in Accounts /\ work[w].row.runner \in Runners
    BY <1>0, <2>1, AtWork
  <2>3. proc' \in [Runners -> [Accounts -> ProcStates]]
    BY <1>0, <1>3, <2>2, ProcSet DEF CallStop, SupervisorStop, StoreOK, ProcStates
  <2>4. WorkersOK'
    BY <1>0, <2>1, WorkerGoes DEF Stages
  <2>5. faults' \in 0..MaxFaults
    BY <1>0, <1>3, FaultType DEF CallStop, FaultKinds
  <2> QED
    BY <1>0, <2>1, <2>3, <2>4, <2>5 DEF HoldingsOK, StoreOK, TickOK, BoundsOK
<1>4. CASE MarkStopped(w)
  <2>1. work[w].at # "idle" /\ work[w].acct \in Accounts
    BY <1>0, <1>4, AtWork DEF MarkStopped, At
  <2>2. rows' \in [Accounts -> Row \cup {Deleted}]
    BY <1>0, <1>4, <2>1, StatusType DEF MarkStopped, Statuses
  <2>3. Go(w, "callStart") \/ Go(w, "deleteRow") \/ Done(w)
    BY <1>4 DEF MarkStopped, AfterStop
  <2>4. WorkersOK'
    BY <1>0, <2>1, <2>3, WorkerGoes, WorkerDone DEF Stages
  <2> QED
    BY <1>0, <1>4, <2>2, <2>4 DEF HoldingsOK, MarkStopped, StoreOK, TickOK, BoundsOK
<1>5. CASE DeleteRow(w)
  <2>1. rows' \in [Accounts -> Row \cup {Deleted}] /\ WorkersOK'
    BY <1>0, <1>5, WorkerDone DEF DeleteRow, StoreOK
  <2> QED
    BY <1>0, <1>5, <2>1 DEF HoldingsOK, DeleteRow, StoreOK, TickOK, BoundsOK
<1> QED
  BY <1>1, <1>2, <1>3, <1>4, <1>5 DEF Call

LEMMA TickTypes ==
    ASSUME HoldingsOK, Tick, ~Call(Job)
    PROVE  HoldingsOK'
<1>0. StoreOK /\ WorkersOK /\ TickOK /\ BoundsOK /\ Job \in Workers
  BY DEF HoldingsOK, Workers
<1>1. CASE ListAccounts
  <2>1. TickOK'
    <3>1. tick' = [at |-> "ask", seen |-> rows, running |-> {}, asked |-> {}, left |-> {}]
      BY <1>1 DEF ListAccounts, Job0
    <3>2. tick'.left = {}
      BY <3>1
    <3> QED
      BY <1>0, <3>1, <3>2 DEF TickOK, StoreOK
  <2> QED
    BY <1>0, <1>1, <2>1
    DEF HoldingsOK, ListAccounts, TickUnchanged, StoreOK, WorkersOK, WorkOK, BoundsOK
<1>2. ASSUME NEW r \in Runners, AskRunner(r)
      PROVE  HoldingsOK'
  <2>1. TickOK' /\ UNCHANGED <<work, ticks, ops, storeVars>>
    <3>1. PICK s \in SUBSET Accounts :
            tick' = [tick EXCEPT !.asked = @ \cup {r}, !.running = s]
      <4>1. tick = [tick EXCEPT !.running = @] /\ tick.running \subseteq Accounts
        BY <1>0 DEF TickOK
      <4>2. CASE tick' = [tick EXCEPT !.asked = @ \cup {r}]
        BY <1>0, <4>1, <4>2, ZenonT(40) DEF TickOK
      <4>3. CASE tick' = [tick EXCEPT !.asked = @ \cup {r},
                                      !.running = @ \cup {i \in Accounts : proc[r][i] \in Running}]
        BY <4>1, <4>3
      <4> QED
        BY <1>2, <4>2, <4>3 DEF AskRunner
    <3>2. TickOK'
      BY <1>0, <3>1 DEF TickOK
    <3> QED
      BY <1>2, <3>2 DEF AskRunner, TickUnchanged
  <2>2. faults' \in 0..MaxFaults
    BY <1>0, <1>2, FaultType DEF AskRunner, FaultKinds
  <2> QED
    BY <1>0, <2>1, <2>2 DEF HoldingsOK, StoreOK, WorkersOK, WorkOK, BoundsOK
<1>3. CASE AllAsked
  <2>1. TickOK'
    BY <1>0, <1>3 DEF AllAsked, TickOK
  <2> QED
    BY <1>0, <1>3, <2>1
    DEF HoldingsOK, AllAsked, TickUnchanged, StoreOK, WorkersOK, WorkOK, BoundsOK
<1>4. ASSUME NEW i \in Accounts, NextAccount(i)
      PROVE  HoldingsOK'
  <2>1. tick.seen[i] \in Row
    BY <1>0, <1>4 DEF NextAccount, TickOK
  <2>2. TickOK' /\ UNCHANGED <<ticks, faults, ops, storeVars>>
    BY <1>0, <1>4 DEF NextAccount, TickUnchanged, TickOK
  <2>3. Decision(i) \in {"idle", "callStart", "probe", "callStop"}
    <3>1. tick.seen[i].enabled \in BOOLEAN
      BY <2>1 DEF Row
    <3> QED
      BY <3>1 DEF Decision
  <2>4. WorkersOK'
    <3>1. CASE Decision(i) = "idle"
      <4>1. UNCHANGED work
        BY <1>4, <3>1 DEF NextAccount
      <4> QED
        BY <1>0, <4>1 DEF WorkersOK, WorkOK
    <3>2. CASE Decision(i) # "idle"
      <4> DEFINE v == [at |-> Decision(i), kind |-> "tick", acct |-> i, row |-> tick.seen[i],
                       answer |-> "stopped"]
      <4>1. v \in Work /\ v.at \in {"callStart", "probe", "callStop"} /\ v.kind = "tick"
        BY <2>1, <2>3, <3>2 DEF Work, Stages, Statuses
      <4>2. work' = [work EXCEPT ![Job] = v]
        BY <1>4, <3>2 DEF NextAccount
      <4> HIDE DEF v
      <4> QED
        BY <1>0, <4>1, <4>2, WorkerSet
    <3> QED
      BY <3>1, <3>2
  <2> QED
    BY <1>0, <2>2, <2>4 DEF HoldingsOK, StoreOK, BoundsOK
<1>5. CASE Probe
  <2>1. work[Job].at # "idle" /\ UNCHANGED <<tick, ticks, faults, ops, storeVars>>
    BY <1>5 DEF Probe, At, TickUnchanged
  <2>2. PICK status \in Statuses :
          work' = [work EXCEPT ![Job].at = "markProbed", ![Job].answer = status]
    BY <1>5 DEF Probe, Statuses
  <2>3. WorkersOK'
    BY <1>0, <2>1, <2>2, WorkerAnswered
  <2> QED
    BY <1>0, <2>1, <2>3 DEF HoldingsOK, StoreOK, TickOK, BoundsOK
<1>6. CASE MarkProbed
  <2>1. work[Job].at # "idle" /\ work[Job].acct \in Accounts /\ work[Job].answer \in Statuses
    BY <1>0, <1>6, AtWork DEF MarkProbed, At, WorkersOK, WorkOK
  <2>2. rows' \in [Accounts -> Row \cup {Deleted}]
    BY <1>0, <1>6, <2>1, StatusType DEF MarkProbed
  <2>3. Go(Job, "readAuth") \/ Done(Job)
    BY <1>6 DEF MarkProbed
  <2>4. WorkersOK'
    BY <1>0, <2>1, <2>3, WorkerGoes, WorkerDone DEF Stages
  <2> QED
    BY <1>0, <1>6, <2>2, <2>4 DEF HoldingsOK, MarkProbed, StoreOK, TickOK, BoundsOK
<1>7. CASE ReadAuth
  <2>1. work[Job].at # "idle" /\ UNCHANGED <<tick, ticks, ops, storeVars>>
    BY <1>7 DEF ReadAuth, At, TickUnchanged
  <2>2. work[Job].acct \in Accounts /\ work[Job].row.runner \in Runners
    BY <1>0, <2>1, AtWork
  <2> DEFINE fresh == disk[work[Job].row.runner][work[Job].acct]
  <2>3. fresh \in Tokens
    BY <1>0, <2>2 DEF StoreOK
  <2>4. \/ fresh # 0 /\ work' = [work EXCEPT ![Job].at = "writeAuth", ![Job].answer = fresh]
        \/ Done(Job)
    BY <1>7 DEF ReadAuth
  <2> HIDE DEF fresh
  <2>5. fresh # 0 => fresh \in 1..MaxToken
    BY <2>3, InstancesAssumption DEF Tokens
  <2>6. WorkersOK'
    BY <1>0, <2>1, <2>4, <2>5, WorkerAnswered, WorkerDone
  <2>7. faults' \in 0..MaxFaults
    BY <1>0, <1>7, FaultType DEF ReadAuth, FaultKinds
  <2> QED
    BY <1>0, <2>1, <2>6, <2>7 DEF HoldingsOK, StoreOK, TickOK, BoundsOK
<1>8. CASE WriteAuth
  <2> DEFINE i == work[Job].acct
             k == work[Job].answer
  <2>1. i \in Accounts /\ k \in 1..MaxToken
    BY <1>0, <1>8, AtWork DEF WriteAuth, At, WorkersOK, WorkOK
  <2>2. rows' = IF Exists(i) THEN [rows EXCEPT ![i].auth = k] ELSE rows
    BY <1>8 DEF WriteAuth
  <2> HIDE DEF i, k
  <2>3. rows' \in [Accounts -> Row \cup {Deleted}]
    <3>1. Exists(i) => [rows[i] EXCEPT !.auth = k] \in Row
      <4>1. Exists(i) => rows[i] \in Row
        BY <1>0, <2>1 DEF StoreOK, Exists
      <4> QED
        BY <2>1, <4>1 DEF Row
    <3> QED
      BY <1>0, <2>1, <2>2, <3>1 DEF StoreOK
  <2>4. WorkersOK'
    BY <1>0, <1>8, WorkerDone DEF WriteAuth
  <2> QED
    BY <1>0, <1>8, <2>3, <2>4 DEF HoldingsOK, WriteAuth, StoreOK, TickOK, BoundsOK
<1>9. CASE TickEnds
  <2>1. TickOK' /\ ticks' \in 0..(SyncEvery - 1)
    BY <1>0, <1>9, Constants, InstancesAssumption DEF TickEnds, TickOK, BoundsOK
  <2> QED
    BY <1>0, <1>9, <2>1
    DEF HoldingsOK, TickEnds, TickUnchanged, StoreOK, WorkersOK, WorkOK, BoundsOK
<1> QED
  BY <1>1, <1>2, <1>3, <1>4, <1>5, <1>6, <1>7, <1>8, <1>9 DEF Tick

LEMMA AdminTypes ==
    ASSUME HoldingsOK, NEW w \in Admins, NEW i \in Accounts, Admin(w, i)
    PROVE  HoldingsOK'
<1>0. StoreOK /\ WorkersOK /\ TickOK /\ BoundsOK /\ w \in Workers
  BY DEF HoldingsOK, Workers
<1>1. ops' \in 0..MaxOps /\ UNCHANGED <<tick, ticks, faults, proc, disk>>
  BY <1>0, InstancesAssumption DEF Admin, Update, Operate, Begin, BoundsOK
<1>2. CASE Update(w, i)
  <2>1. rows[i] \in Row /\ UNCHANGED work
    BY <1>0, <1>2 DEF Update, Exists, StoreOK
  <2>2. issued' \in [Accounts -> 1..MaxToken]
    BY <1>0, <1>2, InstancesAssumption DEF Update, StoreOK
  <2>3. \E v \in Row : rows' = [rows EXCEPT ![i] = v]
    <3>1. CASE \E b \in BOOLEAN : rows' = [rows EXCEPT ![i].enabled = b]
      BY <1>0, <2>1, <3>1 DEF Row, StoreOK
    <3>2. CASE rows' = [rows EXCEPT ![i].auth = issued'[i]]
      <4>1. issued'[i] \in 1..MaxToken
        BY <2>2
      <4> QED
        BY <1>0, <2>1, <3>2, <4>1 DEF Row, StoreOK
    <3>3. CASE \E r \in Runners : rows' = [rows EXCEPT ![i].runner = r]
      BY <1>0, <2>1, <3>3 DEF Row, StoreOK
    <3> QED
      BY <1>2, <3>1, <3>2, <3>3 DEF Update
  <2>4. rows' \in [Accounts -> Row \cup {Deleted}]
    BY <1>0, <2>3 DEF StoreOK
  <2> QED
    BY <1>0, <1>1, <2>1, <2>2, <2>4 DEF HoldingsOK, StoreOK, WorkersOK, WorkOK, TickOK, BoundsOK
<1>3. ASSUME NEW kind \in AdminKinds, NEW stage \in {"callStart", "callStop"},
             Operate(w, i, kind, stage)
      PROVE  HoldingsOK'
  <2> DEFINE v == [at |-> stage, kind |-> kind, acct |-> i, row |-> rows[i], answer |-> "stopped"]
  <2>1. rows[i] \in Row /\ kind \in Kinds /\ UNCHANGED <<rows, issued>>
    BY <1>0, <1>3 DEF Operate, Begin, Exists, StoreOK
  <2>2. v \in Work /\ v.at = stage /\ v.kind = kind
    BY <2>1 DEF Work, Stages, Statuses
  <2>3. work' = [work EXCEPT ![w] = v]
    BY <1>3 DEF Operate
  <2> HIDE DEF v
  <2>4. WorkersOK'
    BY <1>0, <2>1, <2>2, <2>3, WorkerSet
  <2> QED
    BY <1>0, <1>1, <2>1, <2>4 DEF HoldingsOK, StoreOK, TickOK, BoundsOK
<1> QED
  BY <1>2, <1>3 DEF Admin, AdminKinds

LEMMA EnvironmentTypes ==
    ASSUME HoldingsOK, Environment
    PROVE  HoldingsOK'
<1>0. StoreOK /\ WorkersOK /\ TickOK /\ BoundsOK /\ Job \in Workers
  BY DEF HoldingsOK, Workers
<1>1. CASE ManagerRestarts
  <2>1. TickOK' /\ WorkersOK'
    BY <1>0, <1>1, Constants, WorkerDone DEF ManagerRestarts, Done, TickOK
  <2>2. ticks' \in 0..(SyncEvery - 1) /\ faults' \in 0..MaxFaults
    BY <1>0, <1>1, InstancesAssumption DEF ManagerRestarts, Fault, BoundsOK
  <2> QED
    BY <1>0, <1>1, <2>1, <2>2 DEF HoldingsOK, ManagerRestarts, StoreOK, BoundsOK
<1>2. ASSUME NEW i \in Accounts, GatewayMarks(i)
      PROVE  HoldingsOK'
  <2>1. rows' \in [Accounts -> Row \cup {Deleted}]
    BY <1>0, <1>2, StatusType DEF GatewayMarks, Statuses
  <2>2. faults' \in 0..MaxFaults
    BY <1>0, <1>2, InstancesAssumption DEF GatewayMarks, Fault, BoundsOK
  <2> QED
    BY <1>0, <1>2, <2>1, <2>2
    DEF HoldingsOK, GatewayMarks, StoreOK, WorkersOK, WorkOK, TickOK, BoundsOK
<1>3. ASSUME NEW r \in Runners, RunnerRestarts(r)
      PROVE  HoldingsOK'
  <2>1. proc' \in [Runners -> [Accounts -> ProcStates]]
    BY <1>0, <1>3 DEF RunnerRestarts, StoreOK, ProcStates
  <2>2. faults' \in 0..MaxFaults
    BY <1>0, <1>3, InstancesAssumption DEF RunnerRestarts, Fault, BoundsOK
  <2> QED
    BY <1>0, <1>3, <2>1, <2>2
    DEF HoldingsOK, RunnerRestarts, StoreOK, WorkersOK, WorkOK, TickOK, BoundsOK
<1>4. ASSUME NEW r \in Runners, NEW i \in Accounts,
             Reap(r, i) \/ Boots(r, i) \/ Exits(r, i) \/ Hangs(r, i)
      PROVE  HoldingsOK'
  <2>1. PICK s \in {"reaped", "live", "exited", "hung"} : proc' = [proc EXCEPT ![r][i] = s]
    BY <1>4 DEF Reap, Boots, Exits, Hangs
  <2>2. proc' \in [Runners -> [Accounts -> ProcStates]]
    BY <1>0, <2>1, ProcSet DEF ProcStates
  <2>3. faults' \in 0..MaxFaults
    BY <1>0, <1>4, InstancesAssumption DEF Reap, Boots, Exits, Hangs, Fault, BoundsOK
  <2> QED
    BY <1>0, <1>4, <2>2, <2>3
    DEF HoldingsOK, Reap, Boots, Exits, Hangs, StoreOK, WorkersOK, WorkOK, TickOK, BoundsOK
<1>5. ASSUME NEW r \in Runners, NEW i \in Accounts, Refreshes(r, i)
      PROVE  HoldingsOK'
  <2>1. issued' \in [Accounts -> 1..MaxToken]
    BY <1>0, <1>5, InstancesAssumption DEF Refreshes, StoreOK
  <2>2. issued'[i] \in Tokens
    BY <2>1, Constants
  <2>3. disk' \in [Runners -> [Accounts -> Tokens]]
    BY <1>0, <1>5, <2>2, DiskSet DEF Refreshes
  <2>4. faults' \in 0..MaxFaults
    BY <1>0, <1>5, InstancesAssumption DEF Refreshes, Fault, BoundsOK
  <2> QED
    BY <1>0, <1>5, <2>1, <2>3, <2>4
    DEF HoldingsOK, Refreshes, StoreOK, WorkersOK, WorkOK, TickOK, BoundsOK
<1> QED
  BY <1>1, <1>2, <1>3, <1>4, <1>5 DEF Environment

LEMMA HoldingsStep == HoldingsOK /\ [Next]_vars => HoldingsOK'
<1>1. ASSUME HoldingsOK, UNCHANGED vars
      PROVE  HoldingsOK'
  BY <1>1 DEF HoldingsOK, vars, StoreOK, WorkersOK, WorkOK, TickOK, BoundsOK
<1>2. Job \in Workers /\ Admins \subseteq Workers
  BY DEF Workers
<1> QED
  BY <1>1, <1>2, CallTypes, TickTypes, AdminTypes, EnvironmentTypes DEF Next

\* The rows, what the supervisors keep and the copies the workers go by have their types: a row
\* that was deleted while a worker held a copy of it stays deleted.
THEOREM InstancesTypes == Spec => []TypeOK
  BY HoldingsInit, HoldingsStep, HoldingsTypes, PTL DEF Spec
-----------------------------------------------------------------------------
(* An account on one runner. *)

\* Nothing starts: whatever runs after the step ran before it.
NothingStarts ==
    \A r \in Runners, i \in Accounts : proc'[r][i] \in Running => proc[r][i] \in Running

\* Nobody but the tick starts instances, and it only acts on what it has seen not to run:
\* an account it will start, or may still decide to start, runs nowhere.
OnceInv ==
    /\ HoldingsOK
    /\ NotOnTwoRunners
    /\ \A w \in Admins : work[w].at # "callStart"
    /\ work[Job].at # "idle" => tick.at = "accounts" /\ work[Job].acct \notin tick.left
    /\ work[Job].at = "callStart" => NoneRuns(work[Job].acct, Runners)
    /\ tick.at = "ask" => \A i \in Accounts \ tick.running : NoneRuns(i, tick.asked)
    /\ tick.at = "accounts" => \A i \in tick.left \ tick.running : NoneRuns(i, Runners)

LEMMA OnlyCallsStart ==
    ASSUME HoldingsOK, [Next]_vars, \A w \in Workers : ~CallStart(w)
    PROVE  NothingStarts
<1>0. StoreOK /\ WorkersOK /\ TickOK /\ Job \in Workers /\ Admins \subseteq Workers
  BY DEF HoldingsOK, Workers
<1> USE DEF NothingStarts
<1>1. ASSUME NEW w \in Workers, Call(w)
      PROVE  NothingStarts
  <2>1. CASE CallStop(w)
    <3>1. work[w].acct \in Accounts /\ work[w].row.runner \in Runners
      BY <1>0, <2>1, AtWork DEF CallStop, At
    <3>2. "none" \in ProcStates \ Running
      BY DEF ProcStates, Running, Alive
    <3> QED
      BY <1>0, <2>1, <3>1, <3>2, ProcSet DEF CallStop, SupervisorStop
  <2> QED
    BY <1>1, <2>1 DEF Call, MarkStarted, MarkStopped, DeleteRow
<1>2. CASE Tick /\ ~Call(Job)
  BY <1>2
  DEF Tick, ListAccounts, AskRunner, AllAsked, NextAccount, Probe, MarkProbed, ReadAuth, WriteAuth,
      TickEnds, TickUnchanged
<1>3. ASSUME NEW w \in Admins, NEW i \in Accounts, Admin(w, i)
      PROVE  NothingStarts
  BY <1>3 DEF Admin, Update, Operate, Begin
<1>4. CASE Environment
  <2>1. ASSUME NEW r \in Runners, NEW i \in Accounts,
               Reap(r, i) \/ Boots(r, i) \/ Exits(r, i) \/ Hangs(r, i)
        PROVE  NothingStarts
    <3>1. PICK s \in {"reaped", "live", "exited", "hung"} :
            proc' = [proc EXCEPT ![r][i] = s] /\ (s # "reaped" => proc[r][i] \in Running)
      BY <2>1 DEF Reap, Boots, Exits, Hangs, Running, Alive
    <3>2. s \in ProcStates /\ "reaped" \notin Running
      BY DEF ProcStates, Running, Alive
    <3> QED
      BY <1>0, <3>1, <3>2, ProcSet
  <2>2. ASSUME NEW r \in Runners, RunnerRestarts(r)
        PROVE  NothingStarts
    BY <1>0, <2>2 DEF RunnerRestarts, StoreOK, Running, Alive
  <2>3. CASE \/ ManagerRestarts \/ \E i \in Accounts : GatewayMarks(i)
             \/ \E r \in Runners, i \in Accounts : Refreshes(r, i)
    BY <2>3 DEF ManagerRestarts, GatewayMarks, Refreshes
  <2> QED
    BY <1>4, <2>1, <2>2, <2>3 DEF Environment
<1>5. CASE UNCHANGED vars
  BY <1>5 DEF vars
<1> QED
  BY <1>0, <1>1, <1>2, <1>3, <1>4, <1>5 DEF Next

\* While nothing starts, what is known not to run stays so.
LEMMA NoneRunsStays ==
    ASSUME NothingStarts, NEW i \in Accounts, NEW rs \in SUBSET Runners, NoneRuns(i, rs)
    PROVE  \A r \in rs : proc'[r][i] \notin Running
  BY DEF NothingStarts, NoneRuns

LEMMA OnceStart ==
    ASSUME OnceInv, NEW w \in Workers, CallStart(w)
    PROVE  OnceInv'
<1>0. StoreOK /\ WorkersOK /\ TickOK /\ w = Job /\ work[Job].at = "callStart" /\ Job \notin Admins
  BY InstancesAssumption DEF OnceInv, HoldingsOK, Workers, CallStart, At
<1> DEFINE i == work[Job].acct
           r == work[Job].row.runner
<1>1. i \in Accounts /\ r \in Runners /\ i \notin tick.left /\ tick.at = "accounts"
      /\ NoneRuns(i, Runners)
  BY <1>0, AtWork DEF OnceInv
<1>2. HoldingsOK' /\ UNCHANGED tick
  BY CallTypes DEF OnceInv, Call, CallStart
<1>3. PICK a : work' = [work EXCEPT ![Job].at = "markStarted", ![Job].answer = a]
  BY <1>0 DEF CallStart
<1>4. /\ work'[Job].at = "markStarted" /\ work'[Job].acct = i
      /\ \A v \in Admins : work'[v] = work[v]
  <2>1. work[Job] \in Work
    BY <1>0, AtWork
  <2> QED
    BY <1>0, <1>3, <2>1 DEF WorkersOK, Workers, Work
<1>5. \/ UNCHANGED proc
      \/ \E s \in {"booting", "none"} : proc' = [proc EXCEPT ![r][i] = s]
  BY <1>0 DEF CallStart, SupervisorStart, SpawnFails
<1> HIDE DEF i, r
<1>6. \A t \in Runners, j \in Accounts : t # r \/ j # i => proc'[t][j] = proc[t][j]
  BY <1>0, <1>1, <1>5, ProcSet DEF ProcStates
<1>7. NotOnTwoRunners'
  BY <1>1, <1>6 DEF OnceInv, NotOnTwoRunners, NoneRuns
<1>8. \A j \in tick.left \ tick.running : NoneRuns(j, Runners)'
  BY <1>0, <1>1, <1>6 DEF OnceInv, NoneRuns, TickOK
<1> QED
  BY <1>1, <1>2, <1>4, <1>7, <1>8 DEF OnceInv

\* A step of a worker, seen by what it was doing: it goes on with the same account, or is idle.
GoesOn(w) ==
    \/ work'[w] = work[w]
    \/ work'[w].at = "idle"
    \/ work[w].at # "idle" /\ work'[w].at # "callStart" /\ work'[w].acct = work[w].acct

\* A step that starts nothing, leaves the tick's copies alone and gives the job no new account.
LEMMA OnceQuiet ==
    ASSUME OnceInv, HoldingsOK', NothingStarts, UNCHANGED tick, GoesOn(Job),
           \A w \in Admins : work'[w].at # "callStart"
    PROVE  OnceInv'
<1>0. TickOK /\ WorkersOK /\ Job \in Workers
  BY DEF OnceInv, HoldingsOK, Workers
<1>1. NotOnTwoRunners'
  BY DEF OnceInv, NotOnTwoRunners, NothingStarts
<1>2. work'[Job].at # "idle" => tick'.at = "accounts" /\ work'[Job].acct \notin tick'.left
  BY DEF OnceInv, GoesOn
<1>3. work'[Job].at = "callStart" => NoneRuns(work[Job].acct, Runners)' /\ work'[Job] = work[Job]
  BY <1>0, AtWork DEF OnceInv, GoesOn, NoneRuns, NothingStarts
<1>4. \A i \in Accounts, rs \in SUBSET Runners : NoneRuns(i, rs) => NoneRuns(i, rs)'
  BY DEF NoneRuns, NothingStarts
<1>5. tick.at = "ask" => \A i \in Accounts \ tick.running : NoneRuns(i, tick.asked)'
  BY <1>0, <1>4 DEF OnceInv, TickOK
<1>6. tick.at = "accounts" => \A i \in tick.left \ tick.running : NoneRuns(i, Runners)'
  BY <1>0, <1>4 DEF OnceInv, TickOK
<1> QED
  BY <1>1, <1>2, <1>3, <1>5, <1>6 DEF OnceInv, NoneRuns

\* Where nobody restarts an account, no call but start_account leads to a start.
LEMMA CallGoesOn ==
    ASSUME HoldingsOK, NEW w \in Workers, Call(w), ~CallStart(w), "restart" \notin Kinds
    PROVE  GoesOn(w) /\ work'[w].at # "callStart" /\ \A v \in Workers \ {w} : work'[v] = work[v]
<1>0. WorkersOK /\ work[w].at # "idle" /\ UNCHANGED tick
  BY DEF HoldingsOK, Call, MarkStarted, CallStop, MarkStopped, DeleteRow, At
<1>1. work[w] \in Work /\ work[w].kind # "restart"
  BY <1>0, AtWork DEF WorkersOK, WorkOK
<1>2. CASE Done(w)
  BY <1>0, <1>2 DEF Done, GoesOn, WorkersOK, Idle
<1>3. CASE \E stage \in {"markStopped", "deleteRow"} : Go(w, stage)
  <2>1. PICK stage \in {"markStopped", "deleteRow"} : work' = [work EXCEPT ![w].at = stage]
    BY <1>3 DEF Go
  <2>2. work'[w] = [work[w] EXCEPT !.at = stage] /\ \A v \in Workers \ {w} : work'[v] = work[v]
    BY <1>0, <2>1 DEF WorkersOK
  <2> QED
    BY <1>0, <1>1, <2>2 DEF GoesOn, Work
<1> QED
  BY <1>1, <1>2, <1>3 DEF Call, MarkStarted, CallStop, MarkStopped, AfterStop, DeleteRow

\* The tick's own steps: what its list says of a runner it asked is so, while nothing starts.
LEMMA OnceTick ==
    ASSUME OnceInv, HoldingsOK', NothingStarts, Tick, ~Call(Job), "lost" \notin Faults
    PROVE  OnceInv'
<1>0. TickOK /\ WorkersOK /\ Job \in Workers /\ Job \notin Admins /\ Admins \subseteq Workers
  BY InstancesAssumption DEF OnceInv, HoldingsOK, Workers
<1>1. NotOnTwoRunners'
  BY DEF OnceInv, NotOnTwoRunners, NothingStarts
<1>2. CASE ListAccounts
  <2>1. tick'.at = "ask" /\ tick'.asked = {} /\ work' = work /\ work[Job].at = "idle"
    BY <1>2 DEF ListAccounts, Job0, At
  <2> QED
    BY <1>1, <2>1 DEF OnceInv, NoneRuns
<1>3. ASSUME NEW r \in Runners, AskRunner(r)
      PROVE  OnceInv'
  <2>1. /\ tick.at = "ask" /\ UNCHANGED <<work, proc>> /\ tick'.at = "ask"
        /\ tick'.asked = tick.asked \cup {r}
        /\ tick'.running = tick.running \cup {i \in Accounts : proc[r][i] \in Running}
    BY <1>0, <1>3 DEF AskRunner, TickUnchanged, Fault, TickOK
  <2> QED
    BY <1>0, <1>1, <2>1 DEF OnceInv, NoneRuns
<1>4. CASE AllAsked
  <2>1. /\ tick.at = "ask" /\ tick.asked = Runners /\ UNCHANGED <<work, proc>>
        /\ tick'.at = "accounts" /\ tick'.running = tick.running /\ tick'.left \subseteq Accounts
    BY <1>0, <1>4 DEF AllAsked, TickUnchanged, TickOK
  <2> QED
    BY <1>0, <1>1, <2>1 DEF OnceInv, NoneRuns
<1>5. ASSUME NEW i \in Accounts, NextAccount(i)
      PROVE  OnceInv'
  <2>1. /\ tick.at = "accounts" /\ work[Job].at = "idle" /\ i \in tick.left /\ UNCHANGED proc
        /\ tick'.at = "accounts" /\ tick'.running = tick.running /\ tick'.left = tick.left \ {i}
    BY <1>0, <1>5 DEF NextAccount, At, TickUnchanged, TickOK
  <2>2. Decision(i) = "callStart" => i \notin tick.running
    BY DEF Decision
  <2>3. \/ work' = work
        \/ /\ work'[Job].at = Decision(i) /\ work'[Job].acct = i
           /\ \A w \in Admins : work'[w] = work[w]
    BY <1>0, <1>5 DEF NextAccount, WorkersOK
  <2>4. \A j \in tick.left \ tick.running : NoneRuns(j, Runners)
    BY <2>1 DEF OnceInv
  <2> QED
    BY <1>1, <2>1, <2>2, <2>3, <2>4 DEF OnceInv, NoneRuns
<1>6. CASE TickEnds
  <2>1. tick'.at = "idle" /\ work' = work /\ work[Job].at = "idle"
    BY <1>6 DEF TickEnds, Job0, At
  <2> QED
    BY <1>1, <2>1 DEF OnceInv
<1>7. CASE Probe \/ MarkProbed \/ ReadAuth \/ WriteAuth
  <2>1. work[Job].at # "idle" /\ UNCHANGED tick
    BY <1>7 DEF Probe, MarkProbed, ReadAuth, WriteAuth, At, TickUnchanged
  <2>2. work[Job] \in Work
    BY <1>0, <2>1, AtWork
  <2>3. \/ Done(Job) \/ Go(Job, "readAuth")
        \/ \E stage \in {"markProbed", "writeAuth"}, a \in Statuses \cup Tokens :
              work' = [work EXCEPT ![Job].at = stage, ![Job].answer = a]
    <3>1. CASE Probe
      BY <3>1 DEF Probe, Statuses
    <3>2. CASE ReadAuth
      <4>1. disk[work[Job].row.runner][work[Job].acct] \in Tokens
        BY <1>0, <2>1, AtWork DEF OnceInv, HoldingsOK, StoreOK
      <4> QED
        BY <3>2, <4>1 DEF ReadAuth
    <3> QED
      BY <1>7, <3>1, <3>2 DEF MarkProbed, WriteAuth
  <2>4. GoesOn(Job) /\ \A w \in Admins : work'[w] = work[w]
    <3>1. ASSUME NEW stage \in Stages \ {"idle", "callStart"}, NEW a \in Statuses \cup Tokens,
                 work'[Job] = [work[Job] EXCEPT !.at = stage, !.answer = a]
          PROVE  work'[Job].at # "callStart" /\ work'[Job].acct = work[Job].acct
      BY <2>2, <3>1 DEF Work
    <3>2. CASE Done(Job)
      BY <1>0, <3>2 DEF Done, GoesOn, WorkersOK, Idle
    <3>3. CASE Go(Job, "readAuth")
      BY <1>0, <2>1, <2>2, <3>3 DEF Go, GoesOn, WorkersOK, Work
    <3>4. ASSUME NEW stage \in {"markProbed", "writeAuth"}, NEW a \in Statuses \cup Tokens,
                 work' = [work EXCEPT ![Job].at = stage, ![Job].answer = a]
          PROVE  GoesOn(Job) /\ \A w \in Admins : work'[w] = work[w]
      <4>1. /\ work'[Job] = [work[Job] EXCEPT !.at = stage, !.answer = a]
            /\ \A w \in Admins : work'[w] = work[w]
        BY <1>0, <3>4 DEF WorkersOK
      <4> QED
        BY <2>1, <3>1, <4>1 DEF GoesOn, Stages
    <3> QED
      BY <2>3, <3>2, <3>3, <3>4
  <2> QED
    BY <2>1, <2>4, OnceQuiet DEF OnceInv
<1> QED
  BY <1>2, <1>3, <1>4, <1>5, <1>6, <1>7 DEF Tick

LEMMA OnceStep ==
    ASSUME OnceInv, [Next]_vars, Kinds \cap {"start", "restart"} = {}, "lost" \notin Faults
    PROVE  OnceInv'
<1>0. /\ HoldingsOK /\ HoldingsOK' /\ WorkersOK /\ Job \in Workers /\ Job \notin Admins
      /\ Admins \subseteq Workers
  BY HoldingsStep, InstancesAssumption DEF OnceInv, HoldingsOK, Workers
<1>1. CASE \E w \in Workers : CallStart(w)
  BY <1>1, OnceStart
<1>2. CASE \A w \in Workers : ~CallStart(w)
  <2>1. NothingStarts
    BY <1>0, <1>2, OnlyCallsStart
  <2>2. ASSUME NEW w \in Workers, Call(w)
        PROVE  OnceInv'
    <3>1. /\ GoesOn(w) /\ work'[w].at # "callStart" /\ UNCHANGED tick
          /\ \A v \in Workers \ {w} : work'[v] = work[v]
      BY <1>0, <1>2, <2>2, CallGoesOn DEF Call, MarkStarted, CallStop, MarkStopped, DeleteRow
    <3>2. GoesOn(Job)
      BY <1>0, <3>1 DEF GoesOn
    <3> QED
      BY <1>0, <2>1, <3>1, <3>2, OnceQuiet DEF OnceInv
  <2>3. CASE Tick
    BY <1>0, <2>1, <2>2, <2>3, OnceTick
  <2>4. ASSUME NEW w \in Admins, NEW i \in Accounts, Admin(w, i)
        PROVE  OnceInv'
    <3>1. \/ Update(w, i)
          \/ \E kind \in {"stop", "delete"} : Operate(w, i, kind, "callStop")
      BY <2>4 DEF Admin, Operate, Begin
    <3>2. UNCHANGED tick
      BY <3>1 DEF Update, Operate, Begin
    <3>3. work'[Job] = work[Job] /\ \A v \in Admins : work'[v].at # "callStart"
      BY <1>0, <3>1 DEF Update, Operate, WorkersOK, OnceInv
    <3> QED
      BY <1>0, <2>1, <3>2, <3>3, OnceQuiet DEF GoesOn
  <2>5. CASE ManagerRestarts
    <3>1. tick' = Job0 /\ work' = [work EXCEPT ![Job] = Idle]
      BY <2>5 DEF ManagerRestarts
    <3>2. tick'.at = "idle" /\ work'[Job].at = "idle" /\ \A v \in Admins : work'[v] = work[v]
      BY <1>0, <3>1, Constants DEF WorkersOK, Idle
    <3> QED
      BY <1>0, <2>1, <3>2 DEF OnceInv, NotOnTwoRunners, NothingStarts
  <2>6. CASE (Environment /\ ~ManagerRestarts) \/ UNCHANGED vars
    <3>1. UNCHANGED <<work, tick>>
      BY <2>6 DEF Environment, GatewayMarks, RunnerRestarts, Reap, Boots, Exits, Hangs, Refreshes, vars
    <3> QED
      BY <1>0, <2>1, <3>1, OnceQuiet DEF GoesOn, OnceInv
  <2> QED
    BY <1>0, <2>2, <2>3, <2>4, <2>5, <2>6 DEF Next
<1> QED
  BY <1>1, <1>2

LEMMA OnceInit == Init => OnceInv
<1> SUFFICES ASSUME Init PROVE OnceInv
  OBVIOUS
<1>1. HoldingsOK /\ Admins \subseteq Workers /\ Job \in Workers
  BY HoldingsInit DEF Workers
<1>2. \A w \in Workers : work[w].at = "idle"
  BY DEF Init, Idle
<1>3. tick.at = "idle" /\ \A r \in Runners, i \in Accounts : proc[r][i] \notin Running
  BY Constants DEF Init, Running, Alive
<1> QED
  BY <1>1, <1>2, <1>3 DEF OnceInv, NotOnTwoRunners

\* Where every runner answers and administrators start nothing themselves, the leader's tick never
\* runs an account on two runners, however often accounts are moved, stopped or deleted meanwhile
\* and whichever processes, runners and leaders fail (jobs.rs asks all runners before it decides).
THEOREM OneRunnerOnly ==
    ASSUME Kinds \cap {"start", "restart"} = {}, "lost" \notin Faults
    PROVE  Spec => []NotOnTwoRunners
<1>1. OnceInv /\ [Next]_vars => OnceInv'
  BY OnceStep
<1>2. OnceInv => NotOnTwoRunners
  BY DEF OnceInv
<1> QED
  BY <1>1, <1>2, OnceInit, PTL DEF Spec
=============================================================================
