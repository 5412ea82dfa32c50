----------------------------- MODULE JobLeader ------------------------------
(***************************************************************************)
(* Who runs the background jobs (src/jobs.rs, src/cache.rs): each replica  *)
(* polls the marker of the active slot and, when it names its slot or      *)
(* nothing, competes for a lease in Redis and runs one tick of the jobs    *)
(* under it.  Every `.await` on Redis is a step, so what was read may be   *)
(* stale when it is used, and the lease may lapse under a running tick.    *)
(*                                                                         *)
(* A holder is "<slot>-<pid>".  The process is the first that tini starts  *)
(* in its container, so its pid does not tell a restarted replica from the *)
(* one before: the holder is the slot.                                     *)
(***************************************************************************)
EXTENDS Integers

CONSTANTS
    LeaseTTL,   \* 3 * interval, in units of the model's clock
    LeaderEnv,  \* "redis": a command fails;  "slow": a tick outlives its lease
    None

Slots == {"a", "b"}

ASSUME LeaderAssumption ==
    /\ LeaseTTL \in Nat \ {0}
    /\ LeaderEnv \subseteq {"redis", "slow"}
    /\ None \notin Slots

VARIABLES
    mark,       \* pm:deploy:active
    holder,     \* pm:leader
    lease,      \* time to its expiry
    job,        \* where the job loop of the slot's replica is
    led         \* was_leader

leaderVars == <<mark, holder, lease, job, led>>

JobStages == {"off", "look", "release", "acquire", "extend", "tick", "sleep"}

LeaderTypeOK ==
    /\ mark \in Slots \cup {None}
    /\ holder \in Slots \cup {None}
    /\ lease \in 0..LeaseTTL
    /\ job \in [Slots -> JobStages]
    /\ led \in [Slots -> BOOLEAN]

Resume(s, stage) == job' = [job EXCEPT ![s] = stage]

\* Slip: the marker is ignored.
AlwaysActive(s) == s \in Slots

\* slot_active: no marker means no distinction, and so does a failed read.
SlotActive(s) == mark \in {s, None}

Look(s) ==
    /\ job[s] = "look"
    /\ \/ SlotActive(s) /\ Resume(s, "acquire")
       \/ "redis" \in LeaderEnv /\ Resume(s, "acquire")
       \/ ~SlotActive(s) /\ led[s] /\ Resume(s, "release")
       \/ ~SlotActive(s) /\ ~led[s] /\ Resume(s, "sleep")
    /\ UNCHANGED <<mark, holder, lease, led>>

\* leader_release: compare and delete; an error is dropped.
LeaderRelease(s) ==
    /\ job[s] = "release"
    /\ \/ /\ holder' = IF holder = s THEN None ELSE holder
          /\ lease' = IF holder = s THEN 0 ELSE lease
       \/ "redis" \in LeaderEnv /\ UNCHANGED <<holder, lease>>
    /\ led' = [led EXCEPT ![s] = FALSE]
    /\ Resume(s, "sleep")
    /\ UNCHANGED mark

\* Slip: SET NX without PX.
SetForever(s) ==
    /\ job[s] = "acquire"
    /\ \/ /\ holder = None
          /\ holder' = s /\ lease' = 0
          /\ led' = [led EXCEPT ![s] = TRUE]
          /\ Resume(s, "tick")
       \/ /\ holder # None
          /\ Resume(s, "extend")
          /\ UNCHANGED <<holder, lease, led>>
    /\ UNCHANGED mark

\* leader_acquire, first command: SET NX PX.
LeaderSet(s) ==
    /\ job[s] = "acquire"
    /\ \/ /\ holder = None
          /\ holder' = s /\ lease' = LeaseTTL
          /\ led' = [led EXCEPT ![s] = TRUE]
          /\ Resume(s, "tick")
       \/ /\ holder # None
          /\ Resume(s, "extend")
          /\ UNCHANGED <<holder, lease, led>>
    /\ UNCHANGED mark

\* Slip: the lease is extended without comparing its holder.
ExtendAny(s) ==
    /\ job[s] = "extend"
    /\ lease' = LeaseTTL
    /\ led' = [led EXCEPT ![s] = TRUE]
    /\ Resume(s, "tick")
    /\ UNCHANGED <<mark, holder>>

\* leader_acquire, second command: compare and extend.
LeaderExtend(s) ==
    /\ job[s] = "extend"
    /\ \/ /\ holder = s
          /\ lease' = LeaseTTL
          /\ led' = [led EXCEPT ![s] = TRUE]
          /\ Resume(s, "tick")
       \/ /\ holder # s
          /\ led' = [led EXCEPT ![s] = FALSE]
          /\ Resume(s, "sleep")
          /\ UNCHANGED lease
    /\ UNCHANGED <<mark, holder>>

\* leader_acquire fails, the SET applied or not: unwrap_or(false).
AcquireFails(s) ==
    /\ "redis" \in LeaderEnv
    /\ job[s] \in {"acquire", "extend"}
    /\ \/ /\ holder = IF job[s] = "acquire" THEN None ELSE s
          /\ holder' = s /\ lease' = LeaseTTL
       \/ UNCHANGED <<holder, lease>>
    /\ led' = [led EXCEPT ![s] = FALSE]
    /\ Resume(s, "sleep")
    /\ UNCHANGED mark

\* The tick returns, or the pause of the loop is over.
TickEnds(s) ==
    /\ job[s] = "tick"
    /\ Resume(s, "sleep")
    /\ UNCHANGED <<mark, holder, lease, led>>

Wake(s) ==
    /\ job[s] = "sleep"
    /\ Resume(s, "look")
    /\ UNCHANGED <<mark, holder, lease, led>>

\* Time passes in Redis.  A tick is over before the lease it runs under, unless "slow".
LeaseClock ==
    /\ lease > 0
    /\ lease = 1 => "slow" \in LeaderEnv \/ job[holder] # "tick"
    /\ lease' = lease - 1
    /\ holder' = IF lease = 1 THEN None ELSE holder
    /\ UNCHANGED <<mark, job, led>>

JobLoop(s) ==
    \/ Look(s) \/ LeaderRelease(s) \/ LeaderSet(s) \/ LeaderExtend(s)
    \/ TickEnds(s) \/ Wake(s)

LeaderNext ==
    \/ \E s \in Slots : JobLoop(s) \/ AcquireFails(s)
    \/ LeaseClock

\* A restarted replica begins its loop anew.
StartJobs(s) ==
    /\ job' = [job EXCEPT ![s] = "look"]
    /\ led' = [led EXCEPT ![s] = FALSE]
=============================================================================
