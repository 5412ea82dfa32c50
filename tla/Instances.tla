----------------------------- MODULE Instances ------------------------------
(***************************************************************************)
(* The codexs instances: the processes a runner supervises                 *)
(* (src/runner/supervisor.rs), the accounts' rows in Postgres, the leader's*)
(* tick that reconciles the two (src/jobs.rs, src/control.rs) and the      *)
(* administrator's operations on accounts (src/admin.rs).                  *)
(*                                                                         *)
(* The tick and each administrator are workers.  A worker reads a row and  *)
(* goes on with that copy while others write: each call of a runner and    *)
(* each statement of Postgres is a step of its own.  The supervisor holds  *)
(* its lock over an operation, so an operation of it is one step.          *)
(***************************************************************************)
EXTENDS Integers, FiniteSets

CONSTANTS
    Accounts, Runners,
    Admins,         \* administrators at work at the same time
    Kinds,          \* what they do: see AdminKinds
    Faults,         \* which faults happen: see FaultKinds
    MaxOps,         \* bound on the operations of the administrators
    MaxFaults,      \* bound on the faults
    MaxToken,       \* bound on the tokens issued for an account
    SyncEvery,      \* every 4th tick retries errors and syncs auth.json
    Job             \* the worker that ticks

AdminKinds == {"start", "stop", "restart", "delete", "enable", "disable", "paste", "move"}

(***************************************************************************)
(* exit: a process dies;  hang: one stops answering;  runner: a runner     *)
(* restarts;  lost: a runner cannot be reached, or its answer is lost;     *)
(* spawn: codexs cannot be started;  manager: the leader restarts;         *)
(* gateway: a request failed and the account is marked;  refresh: Codex    *)
(* refreshes its tokens on disk.                                           *)
(***************************************************************************)
FaultKinds == {"exit", "hang", "runner", "lost", "spawn", "manager", "gateway", "refresh"}

ASSUME InstancesAssumption ==
    /\ IsFiniteSet(Accounts) /\ IsFiniteSet(Runners)
    /\ Job \notin Admins
    /\ Kinds \subseteq AdminKinds /\ Faults \subseteq FaultKinds
    /\ MaxOps \in Nat /\ MaxFaults \in Nat /\ MaxToken \in Nat \ {0}
    /\ SyncEvery \in Nat \ {0}

VARIABLES
    rows,       \* accounts: their rows, Deleted once deleted
    proc,       \* instances of each supervisor
    disk,       \* the token set in each auth.json, 0 when there is none
    issued,     \* the newest token set of each account
    work,       \* what each worker is doing
    tick,       \* locals of tick
    ticks,      \* ticks % SyncEvery
    ops, faults \* operations and faults so far

storeVars == <<rows, proc, disk, issued>>
vars == <<storeVars, work, tick, ticks, ops, faults>>

Workers  == Admins \cup {Job}
Statuses == {"stopped", "starting", "running", "unhealthy", "error"}
Tokens   == 0..MaxToken

Row     == [enabled : BOOLEAN, runner : Runners, auth : 1..MaxToken, status : Statuses]
Deleted == [status |-> "deleted"]

\* "exited" has ended without the supervisor knowing.
ProcStates == {"none", "booting", "live", "hung", "exited", "reaped"}
Alive      == {"booting", "live", "hung"}
Running    == Alive \cup {"exited"}

Stages == {"idle", "callStop", "markStopped", "callStart", "markStarted", "deleteRow",
           "probe", "markProbed", "readAuth", "writeAuth"}

Idle == [at |-> "idle"]

Job0 == [at |-> "idle", seen |-> [i \in Accounts |-> Deleted], running |-> {}, asked |-> {},
         left |-> {}]

TypeOK ==
    /\ rows \in [Accounts -> Row \cup {Deleted}]
    /\ proc \in [Runners -> [Accounts -> ProcStates]]
    /\ disk \in [Runners -> [Accounts -> Tokens]]
    /\ issued \in [Accounts -> 1..MaxToken]
    /\ \A w \in Workers : work[w].at \in Stages
    /\ \A w \in Workers : work[w].at # "idle" => work[w].row \in Row
    /\ tick.at \in {"idle", "ask", "accounts"}
    /\ tick.seen \in [Accounts -> Row \cup {Deleted}]
    /\ tick.running \subseteq Accounts /\ tick.asked \subseteq Runners
    /\ tick.left \subseteq Accounts
    /\ ticks \in 0..(SyncEvery - 1) /\ ops \in 0..MaxOps /\ faults \in 0..MaxFaults

Exists(i) == rows[i] # Deleted

\* Accounts that were just created, none started yet.
Init ==
    /\ rows \in [Accounts -> {[enabled |-> e, runner |-> r, auth |-> 1, status |-> "stopped"] :
                                 e \in BOOLEAN, r \in Runners}]
    /\ proc = [r \in Runners |-> [i \in Accounts |-> "none"]]
    /\ disk = [r \in Runners |-> [i \in Accounts |-> 0]]
    /\ issued = [i \in Accounts |-> 1]
    /\ work = [w \in Workers |-> Idle]
    /\ tick = Job0 /\ ticks = 0 /\ ops = 0 /\ faults = 0

Fault(kind) == kind \in Faults /\ faults < MaxFaults /\ faults' = faults + 1
NoFault == UNCHANGED faults

At(w, stage)  == work[w].at = stage
Go(w, stage)  == work' = [work EXCEPT ![w].at = stage]
Done(w)       == work' = [work EXCEPT ![w] = Idle]

SetStatus(i, status) ==
    rows' = IF Exists(i) THEN [rows EXCEPT ![i].status = status] ELSE rows
-----------------------------------------------------------------------------
(* The supervisor of runner r. *)

\* start: idempotent while the process runs; auth.json is written when its access token
\* is not the one that was sent.
SupervisorStart(r, i, token) ==
    IF proc[r][i] \in Running
    THEN UNCHANGED <<proc, disk>>
    ELSE /\ proc' = [proc EXCEPT ![r][i] = "booting"]
         /\ disk' = [disk EXCEPT ![r][i] = token]

\* start, when the process cannot be spawned: the old entry is gone, auth.json is written.
SpawnFails(r, i, token) ==
    /\ proc[r][i] \notin Running
    /\ proc' = [proc EXCEPT ![r][i] = "none"]
    /\ disk' = [disk EXCEPT ![r][i] = token]

SupervisorStop(r, i) == proc' = [proc EXCEPT ![r][i] = "none"]

Reap(r, i) ==
    /\ proc[r][i] = "exited"
    /\ proc' = [proc EXCEPT ![r][i] = "reaped"]
    /\ UNCHANGED <<rows, disk, issued, work, tick, ticks, ops, faults>>
-----------------------------------------------------------------------------
(* control.rs, for the row the worker holds. *)

\* start_account, the call of the runner: what to record is decided by its answer.
CallStart(w) ==
    LET i == work[w].acct
        r == work[w].row.runner
        token == work[w].row.auth
        Answer(a) == work' = [work EXCEPT ![w].at = "markStarted", ![w].answer = a]
    IN
    /\ At(w, "callStart")
    /\ \/ SupervisorStart(r, i, token) /\ Answer("starting") /\ NoFault
       \/ SupervisorStart(r, i, token) /\ Answer("error") /\ Fault("lost")
       \/ UNCHANGED <<proc, disk>> /\ Answer("error") /\ Fault("lost")
       \/ SpawnFails(r, i, token) /\ Answer("error") /\ Fault("spawn")
    /\ UNCHANGED <<rows, issued, tick, ticks, ops>>

MarkStarted(w) ==
    /\ At(w, "markStarted")
    /\ SetStatus(work[w].acct, work[w].answer)
    /\ Done(w)
    /\ UNCHANGED <<proc, disk, issued, tick, ticks, ops, faults>>

\* stop_account, the call of the runner: a failure is only logged.
CallStop(w) ==
    /\ At(w, "callStop")
    /\ \/ SupervisorStop(work[w].row.runner, work[w].acct) /\ NoFault
       \/ SupervisorStop(work[w].row.runner, work[w].acct) /\ Fault("lost")
       \/ UNCHANGED proc /\ Fault("lost")
    /\ Go(w, "markStopped")
    /\ UNCHANGED <<rows, disk, issued, tick, ticks, ops>>

\* Where stop_account returns to.
AfterStop(w) ==
    CASE work[w].kind = "restart" -> Go(w, "callStart")
      [] work[w].kind = "delete"  -> Go(w, "deleteRow")
      [] OTHER                    -> Done(w)

MarkStopped(w) ==
    /\ At(w, "markStopped")
    /\ SetStatus(work[w].acct, "stopped")
    /\ AfterStop(w)
    /\ UNCHANGED <<proc, disk, issued, tick, ticks, ops, faults>>
-----------------------------------------------------------------------------
(* The tick of the leader. *)

TickUnchanged == UNCHANGED <<storeVars, ops>>

ListAccounts ==
    /\ tick.at = "idle" /\ At(Job, "idle")
    /\ tick' = [Job0 EXCEPT !.at = "ask", !.seen = rows]
    /\ UNCHANGED <<work, ticks, faults>> /\ TickUnchanged

\* Slip: only the accounts of runner r are taken from its list.
AskHome(r) ==
    /\ tick.at = "ask" /\ r \notin tick.asked
    /\ tick' = [tick EXCEPT !.asked = @ \cup {r},
                            !.running = @ \cup {i \in Accounts : /\ proc[r][i] \in Running
                                                                /\ tick.seen[i] # Deleted
                                                                /\ tick.seen[i].runner = r}]
    /\ NoFault
    /\ UNCHANGED <<work, ticks>> /\ TickUnchanged

\* What runner r says is running; nothing when it cannot be reached.
AskRunner(r) ==
    /\ tick.at = "ask" /\ r \notin tick.asked
    /\ \/ /\ tick' = [tick EXCEPT !.asked = @ \cup {r},
                                  !.running = @ \cup {i \in Accounts : proc[r][i] \in Running}]
          /\ NoFault
       \/ /\ tick' = [tick EXCEPT !.asked = @ \cup {r}]
          /\ Fault("lost")
    /\ UNCHANGED <<work, ticks>> /\ TickUnchanged

AllAsked ==
    /\ tick.at = "ask" /\ tick.asked = Runners
    /\ tick' = [tick EXCEPT !.at = "accounts", !.left = {i \in Accounts : tick.seen[i] # Deleted}]
    /\ UNCHANGED <<work, ticks, faults>> /\ TickUnchanged

SyncTick == ticks = 0

\* Slip: the list of what runs is not looked at for a disabled account.
DecideByStatus(i) ==
    LET a == tick.seen[i] IN
    CASE a.enabled /\ i \notin tick.running ->
            IF a.status # "error" \/ SyncTick THEN "callStart" ELSE "idle"
      [] a.enabled /\ i \in tick.running -> "probe"
      [] ~a.enabled -> IF a.status # "stopped" THEN "callStop" ELSE "idle"

\* What the tick does about an account, as its copy of the row and the list say.
Decision(i) ==
    LET a == tick.seen[i] IN
    CASE a.enabled /\ i \notin tick.running ->
            IF a.status # "error" \/ SyncTick THEN "callStart" ELSE "idle"
      [] a.enabled /\ i \in tick.running -> "probe"
      [] ~a.enabled -> IF i \in tick.running \/ a.status # "stopped" THEN "callStop" ELSE "idle"

NextAccount(i) ==
    /\ tick.at = "accounts" /\ At(Job, "idle") /\ i \in tick.left
    /\ tick' = [tick EXCEPT !.left = @ \ {i}]
    /\ work' = IF Decision(i) = "idle" THEN work
               ELSE [work EXCEPT ![Job] = [at |-> Decision(i), kind |-> "tick", acct |-> i,
                                           row |-> tick.seen[i], answer |-> "stopped"]]
    /\ UNCHANGED <<ticks, faults>> /\ TickUnchanged

\* probe_instance, at the address of the copy.
Probe ==
    LET i == work[Job].acct
        a == work[Job].row
        status == IF proc[a.runner][i] = "live" THEN "running"
                  ELSE IF a.status = "starting" THEN "starting" ELSE "unhealthy"
    IN
    /\ At(Job, "probe")
    /\ work' = [work EXCEPT ![Job].at = "markProbed", ![Job].answer = status]
    /\ UNCHANGED <<tick, ticks, faults>> /\ TickUnchanged

MarkProbed ==
    /\ At(Job, "markProbed")
    /\ SetStatus(work[Job].acct, work[Job].answer)
    /\ IF SyncTick THEN Go(Job, "readAuth") ELSE Done(Job)
    /\ UNCHANGED <<proc, disk, issued, tick, ticks, ops, faults>>

\* Slip: the answer is compared with the copy the wrong way round.
ReadAuthSame ==
    LET a == work[Job].row
        fresh == disk[a.runner][work[Job].acct]
    IN
    /\ At(Job, "readAuth")
    /\ \/ /\ fresh = a.auth
          /\ work' = [work EXCEPT ![Job].at = "writeAuth", ![Job].answer = fresh]
          /\ NoFault
       \/ fresh # a.auth /\ Done(Job) /\ NoFault
    /\ UNCHANGED <<tick, ticks>> /\ TickUnchanged

\* sync_auth_from_runner: an answer that differs from the copy is stored.
ReadAuth ==
    LET a == work[Job].row
        fresh == disk[a.runner][work[Job].acct]
    IN
    /\ At(Job, "readAuth")
    /\ \/ /\ fresh \notin {0, a.auth}
          /\ work' = [work EXCEPT ![Job].at = "writeAuth", ![Job].answer = fresh]
          /\ NoFault
       \/ fresh \in {0, a.auth} /\ Done(Job) /\ NoFault
       \/ Fault("lost") /\ Done(Job)
    /\ UNCHANGED <<tick, ticks>> /\ TickUnchanged

WriteAuth ==
    LET i == work[Job].acct IN
    /\ At(Job, "writeAuth")
    /\ rows' = IF Exists(i) THEN [rows EXCEPT ![i].auth = work[Job].answer] ELSE rows
    /\ Done(Job)
    /\ UNCHANGED <<proc, disk, issued, tick, ticks, ops, faults>>

TickEnds ==
    /\ tick.at = "accounts" /\ tick.left = {} /\ At(Job, "idle")
    /\ tick' = Job0
    /\ ticks' = (ticks + 1) % SyncEvery
    /\ UNCHANGED <<work, faults>> /\ TickUnchanged
-----------------------------------------------------------------------------
(* The administrators. *)

Begin(w, kind, i) ==
    /\ At(w, "idle") /\ kind \in Kinds /\ ops < MaxOps
    /\ ops' = ops + 1
    /\ UNCHANGED <<tick, ticks, faults, proc, disk>>

\* update_account changes the row, and nothing else.
Update(w, i) ==
    /\ Exists(i)
    /\ \/ /\ Begin(w, "enable", i) /\ ~rows[i].enabled
          /\ rows' = [rows EXCEPT ![i].enabled = TRUE]
          /\ UNCHANGED issued
       \/ /\ Begin(w, "disable", i) /\ rows[i].enabled
          /\ rows' = [rows EXCEPT ![i].enabled = FALSE]
          /\ UNCHANGED issued
       \/ /\ Begin(w, "paste", i) /\ issued[i] < MaxToken
          /\ issued' = [issued EXCEPT ![i] = @ + 1]
          /\ rows' = [rows EXCEPT ![i].auth = issued'[i]]
       \/ /\ Begin(w, "move", i)
          /\ \E r \in Runners \ {rows[i].runner} : rows' = [rows EXCEPT ![i].runner = r]
          /\ UNCHANGED issued
    /\ UNCHANGED work

\* start, stop, restart, delete: find_account, then the first call.
Operate(w, i, kind, stage) ==
    /\ Begin(w, kind, i) /\ Exists(i)
    /\ work' = [work EXCEPT ![w] = [at |-> stage, kind |-> kind, acct |-> i, row |-> rows[i],
                                    answer |-> "stopped"]]
    /\ UNCHANGED <<rows, issued>>

DeleteRow(w) ==
    /\ At(w, "deleteRow")
    /\ rows' = [rows EXCEPT ![work[w].acct] = Deleted]
    /\ Done(w)
    /\ UNCHANGED <<proc, disk, issued, tick, ticks, ops, faults>>
-----------------------------------------------------------------------------
(* Processes, runners, and the other replicas. *)

Boots(r, i) ==
    /\ proc[r][i] = "booting"
    /\ proc' = [proc EXCEPT ![r][i] = "live"]
    /\ UNCHANGED <<rows, disk, issued, work, tick, ticks, ops, faults>>

Exits(r, i) ==
    /\ proc[r][i] \in Alive /\ Fault("exit")
    /\ proc' = [proc EXCEPT ![r][i] = "exited"]
    /\ UNCHANGED <<rows, disk, issued, work, tick, ticks, ops>>

Hangs(r, i) ==
    /\ proc[r][i] = "live" /\ Fault("hang")
    /\ proc' = [proc EXCEPT ![r][i] = "hung"]
    /\ UNCHANGED <<rows, disk, issued, work, tick, ticks, ops>>

\* Codex exchanges the newest token set for a newer one.
Refreshes(r, i) ==
    /\ proc[r][i] = "live" /\ disk[r][i] = issued[i] /\ issued[i] < MaxToken
    /\ Fault("refresh")
    /\ issued' = [issued EXCEPT ![i] = @ + 1]
    /\ disk' = [disk EXCEPT ![r][i] = issued'[i]]
    /\ UNCHANGED <<rows, proc, work, tick, ticks, ops>>

\* The supervisor keeps its children in memory only.
RunnerRestarts(r) ==
    /\ Fault("runner")
    /\ proc' = [proc EXCEPT ![r] = [i \in Accounts |-> "none"]]
    /\ UNCHANGED <<rows, disk, issued, work, tick, ticks, ops>>

\* The tick ends where it is, and the loop of the next leader starts from 0.
ManagerRestarts ==
    /\ Fault("manager")
    /\ work' = [work EXCEPT ![Job] = Idle]
    /\ tick' = Job0 /\ ticks' = 0
    /\ UNCHANGED <<storeVars, ops>>

\* gateway.rs: a request could not be sent.
GatewayMarks(i) ==
    /\ Fault("gateway")
    /\ Exists(i) /\ SetStatus(i, "unhealthy")
    /\ UNCHANGED <<proc, disk, issued, work, tick, ticks, ops>>
-----------------------------------------------------------------------------
Call(w) == CallStart(w) \/ MarkStarted(w) \/ CallStop(w) \/ MarkStopped(w) \/ DeleteRow(w)

Tick ==
    \/ ListAccounts \/ AllAsked \/ TickEnds
    \/ \E r \in Runners : AskRunner(r)
    \/ \E i \in Accounts : NextAccount(i)
    \/ Probe \/ MarkProbed \/ ReadAuth \/ WriteAuth
    \/ Call(Job)

Admin(w, i) ==
    \/ Update(w, i)
    \/ Operate(w, i, "start", "callStart") \/ Operate(w, i, "stop", "callStop")
    \/ Operate(w, i, "restart", "callStop") \/ Operate(w, i, "delete", "callStop")

Environment ==
    \/ ManagerRestarts
    \/ \E i \in Accounts : GatewayMarks(i)
    \/ \E r \in Runners : RunnerRestarts(r)
    \/ \E r \in Runners, i \in Accounts :
          Reap(r, i) \/ Boots(r, i) \/ Exits(r, i) \/ Hangs(r, i) \/ Refreshes(r, i)

Next ==
    \/ Tick \/ Environment
    \/ \E w \in Admins : Call(w) \/ \E i \in Accounts : Admin(w, i)

Spec == Init /\ [][Next]_vars

(***************************************************************************)
(* The job loop goes on and its calls return (the control client gives up  *)
(* after 30 s), an administrator's request is carried through, a started   *)
(* process becomes ready, and the reaper polls.                            *)
(***************************************************************************)
Fairness ==
    /\ WF_vars(Tick)
    /\ \A w \in Admins : WF_vars(Call(w))
    /\ \A r \in Runners, i \in Accounts : WF_vars(Boots(r, i)) /\ WF_vars(Reap(r, i))

FairSpec == Spec /\ Fairness
-----------------------------------------------------------------------------
(* Properties. *)

NoneRuns(i, rs) == \A r \in rs : proc[r][i] \notin Running

Settled(i) ==
    LET a == rows[i] IN
    IF Exists(i) /\ a.enabled
    THEN /\ proc[a.runner][i] = "live" /\ a.status = "running"
         /\ NoneRuns(i, Runners \ {a.runner})
    ELSE /\ NoneRuns(i, Runners)
         /\ a.status \in {"stopped", "deleted"}

\* jobs.rs:2-3: "reconciliation (enabled accounts should be running, disabled ones
\* stopped)": once operations and faults have ceased, the processes and the statuses
\* are what the rows ask for, whatever stale copies were acted on before.
Converges == \A i \in Accounts : <>[]Settled(i)

\* README.md: "the leader syncs the instance's auth.json back into Postgres
\* periodically": what Codex refreshed last is stored in the end.
AuthSynced ==
    \A i \in Accounts :
        <>[](Exists(i) /\ proc[rows[i].runner][i] = "live" => rows[i].auth = disk[rows[i].runner][i])

\* supervisor.rs:107-108: "Only overwrite auth.json when the manager sends a different
\* token set; Codex may have refreshed the on-disk one since": the newest tokens are not
\* overwritten by older ones.
RefreshKept ==
    [][\A r \in Runners, i \in Accounts :
         disk[r][i] = issued[i] /\ disk'[r][i] # disk[r][i] => disk'[r][i] = issued'[i]]_vars

\* gateway.rs:314-315: "on a connection failure mark the account unhealthy right away
\* (the health job will restart it)".
UnhealthyRestarted ==
    \A i \in Accounts :
        rows[i].status = "unhealthy" ~> ~(rows[i].status = "unhealthy" /\ rows[i].enabled)

\* README.md: "Enabled accounts are started by the background job within one health
\* interval": on the runner their row names.
EnabledRuns ==
    \A i \in Accounts :
        <>[](Exists(i) /\ rows[i].enabled => proc[rows[i].runner][i] \in Running)

\* The tick never runs an account on two runners, however it was moved meanwhile.
NotOnTwoRunners ==
    \A i \in Accounts, r, t \in Runners :
        proc[r][i] \in Running /\ proc[t][i] \in Running => r = t

\* Accounts.tsx:221: deleting an account stops its instance first.
DeletedStops == \A i \in Accounts : ~Exists(i) ~> NoneRuns(i, Runners)
=============================================================================
