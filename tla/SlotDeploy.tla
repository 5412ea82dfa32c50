----------------------------- MODULE SlotDeploy -----------------------------
(***************************************************************************)
(* The A/B release controller (deploy/abctl.py) with what it acts on: its  *)
(* state files, the HAProxy runtime map, the two slots' containers, and    *)
(* the marker by which the slots hand the background jobs over (JobLeader).*)
(*                                                                         *)
(* The controller runs one operation at a time under deploy.lock and       *)
(* journals the stage it is in before it acts.  ctl is its next command;   *)
(* it is None when no operation runs, and then only the journal tells what *)
(* is left to do.  A durable write, a Redis command, a HAProxy command and *)
(* a `compose up` are a step each; a wait that succeeds is one step with   *)
(* the journal write that follows it.                                      *)
(***************************************************************************)
EXTENDS JobLeader

CONSTANTS
    Images,
    MaxConns,   \* bound on the requests in progress on a slot
    MaxFaults,  \* bound on stops, timeouts, crashes and restarts
    Faults      \* which of them happen: see FaultKinds

(***************************************************************************)
(* stop: a command of the controller fails, a wait times out or its        *)
(* process dies;  sick: a replica restarts by itself;  haproxy: HAProxy    *)
(* restarts.                                                               *)
(***************************************************************************)
FaultKinds == {"stop", "sick", "haproxy"}

Kinds  == {"init", "deploy", "switch"}
Stages == {"preparing", "quiescing", "cutover", "retiring"}

Commands == {"install", "recreate", "vet", "announce", "quiesce", "point", "flip", "confirm",
             "drain", "keep", "rebuild", "standby"}

ASSUME DeployAssumption ==
    /\ MaxConns \in Nat /\ MaxFaults \in Nat
    /\ Faults \subseteq FaultKinds
    /\ None \notin Images \cup Kinds \cup Commands

VARIABLES
    op,         \* operation.json
    ctl,        \* the next command of the running operation
    active,     \* active.map
    images,     \* images.json
    hapMap,     \* the map in HAProxy's memory
    running,    \* the image of each slot's container, None when there is none
    ready,      \* healthy, and UP in HAProxy
    conns,      \* requests in progress (scur + qcur)
    vetted,     \* seen ready by the controller since the container was made
    faults      \* faults so far

deployVars == <<op, ctl, active, images>>
slotVars   == <<hapMap, running, ready, conns>>
vars == <<leaderVars, deployVars, slotVars, vetted, faults>>

Idle == [kind |-> None, stage |-> "idle", active |-> None, candidate |-> None,
         image |-> None, retireImage |-> None]

Operations == [kind : Kinds, stage : Stages, active : Slots \cup {None}, candidate : Slots,
               image : Images, retireImage : Images]

TypeOK ==
    /\ LeaderTypeOK
    /\ op \in Operations \cup {Idle}
    /\ ctl \in Commands \cup {None}
    /\ active \in Slots \cup {None}
    /\ images \in [Slots -> Images \cup {None}]
    /\ hapMap \in Slots
    /\ running \in [Slots -> Images \cup {None}]
    /\ ready \in [Slots -> BOOLEAN]
    /\ conns \in [Slots -> 0..MaxConns]
    /\ vetted \in [Slots -> BOOLEAN]
    /\ faults \in 0..MaxFaults

Other(s) == IF s = "a" THEN "b" ELSE "a"

\* The slot an operation takes out of service: b at the first release.
Old == IF op.kind = "init" THEN "b" ELSE op.active

\* A host before its first release, or one that has slot a in service.
Init ==
    /\ op = Idle /\ ctl = None /\ hapMap = "a" /\ faults = 0
    /\ conns = [s \in Slots |-> 0]
    /\ holder = None /\ lease = 0
    /\ led = [s \in Slots |-> FALSE]
    /\ \/ /\ active = None /\ mark = None
          /\ images = [s \in Slots |-> None] /\ running = images
          /\ ready = [s \in Slots |-> FALSE] /\ vetted = ready
          /\ job = [s \in Slots |-> "off"]
       \/ /\ active = "a" /\ mark = "a"
          /\ images \in [Slots -> Images] /\ running = images
          /\ ready = [s \in Slots |-> TRUE] /\ vetted = ready
          /\ job = [s \in Slots |-> "look"]
-----------------------------------------------------------------------------
(* Starting an operation: the lock is free. *)

Journal(stage) == op' = [op EXCEPT !.stage = stage]

\* slot_image: the record, or what the container runs.
SlotImage(s) == IF images[s] # None THEN images[s] ELSE running[s]

Start(kind, stage, old, new, image, retire, command) ==
    /\ ctl = None /\ op.stage = "idle"
    /\ op' = [kind |-> kind, stage |-> stage, active |-> old, candidate |-> new,
              image |-> image, retireImage |-> retire]
    /\ ctl' = command
    /\ UNCHANGED <<leaderVars, active, images, slotVars, vetted, faults>>

Initialize(i) == active = None /\ Start("init", "preparing", None, "a", i, i, "install")

\* Slip: the release goes into the slot in service.
DeployInPlace(i) ==
    /\ active # None
    /\ Start("deploy", "preparing", Other(active), active, i, SlotImage(active), "install")

Deploy(i) ==
    /\ active # None
    /\ Start("deploy", "preparing", active, Other(active), i, SlotImage(active), "install")

\* switch and rollback: only to a standby that is ready and has no connections.
Switch ==
    LET target == Other(active) IN
    /\ active # None
    /\ ready[target] /\ conns[target] = 0
    /\ Start("switch", "quiescing", active, target, SlotImage(target), SlotImage(active),
             "announce")

FirstCommand(stage) ==
    CASE stage = "preparing" -> "install"
      [] stage = "quiescing" -> "announce"
      [] stage = "cutover"   -> "announce"
      [] stage = "retiring"  -> "keep"

\* Slip: resume skips the preparation.
ResumeUnprepared ==
    /\ ctl = None /\ op.stage # "idle"
    /\ ctl' = IF op.stage = "preparing" THEN "announce" ELSE FirstCommand(op.stage)
    /\ UNCHANGED <<leaderVars, op, active, images, slotVars, vetted, faults>>

\* resume: the journaled stage from its first command.
ResumeOperation ==
    /\ ctl = None /\ op.stage # "idle"
    /\ ctl' = FirstCommand(op.stage)
    /\ UNCHANGED <<leaderVars, op, active, images, slotVars, vetted, faults>>
-----------------------------------------------------------------------------
(* prepare *)

\* pull_image, then images.json.
WriteImages ==
    /\ ctl = "install"
    /\ images' = [images EXCEPT ![op.candidate] = op.image]
    /\ ctl' = "recreate"
    /\ UNCHANGED <<leaderVars, op, active, slotVars, vetted, faults>>

\* compose up --force-recreate: the old container stops with what it serves.
Recreate(s) ==
    /\ running' = [running EXCEPT ![s] = images[s]]
    /\ ready' = [ready EXCEPT ![s] = FALSE]
    /\ vetted' = [vetted EXCEPT ![s] = FALSE]
    /\ conns' = [conns EXCEPT ![s] = 0]
    /\ StartJobs(s)
    /\ UNCHANGED <<mark, holder, lease, hapMap, faults>>

RecreateCandidate ==
    /\ ctl = "recreate"
    /\ Recreate(op.candidate)
    /\ ctl' = "vet"
    /\ UNCHANGED <<op, active, images>>

\* wait(slot_ready(candidate)), then the next stage is journaled.
CandidateReady ==
    /\ ctl = "vet" /\ ready[op.candidate]
    /\ vetted' = [vetted EXCEPT ![op.candidate] = TRUE]
    /\ Journal(IF op.kind = "init" THEN "cutover" ELSE "quiescing")
    /\ ctl' = "announce"
    /\ UNCHANGED <<leaderVars, active, images, slotVars, faults>>
-----------------------------------------------------------------------------
(* handoff, and its repetition from "cutover" *)

SetActiveRedis ==
    /\ ctl = "announce"
    /\ mark' = op.candidate
    /\ ctl' = IF op.stage = "quiescing" THEN "quiesce" ELSE "point"
    /\ UNCHANGED <<holder, lease, job, led, op, active, images, slotVars, vetted, faults>>

\* wait(leader_slot() # active); a redis-cli that fails reads as "nobody holds it".
Quiesced ==
    /\ ctl = "quiesce"
    /\ holder # op.active \/ "redis" \in LeaderEnv
    /\ Journal("cutover")
    /\ ctl' = "point"
    /\ UNCHANGED <<leaderVars, active, images, slotVars, vetted, faults>>

\* Slip: the map is set, the file is not.
FlipUnpersisted ==
    /\ ctl = "point"
    /\ hapMap' = op.candidate
    /\ ctl' = "confirm"
    /\ UNCHANGED <<leaderVars, op, active, images, running, ready, conns, vetted, faults>>

PersistActive ==
    /\ ctl = "point"
    /\ active' = op.candidate
    /\ ctl' = "flip"
    /\ UNCHANGED <<leaderVars, op, images, slotVars, vetted, faults>>

HapSetMap ==
    /\ ctl = "flip"
    /\ hapMap' = op.candidate
    /\ ctl' = "confirm"
    /\ UNCHANGED <<leaderVars, op, active, images, running, ready, conns, vetted, faults>>

\* wait(runtime_active() = candidate); the first release has nothing to drain.
MapConfirmed ==
    /\ ctl = "confirm" /\ hapMap = op.candidate
    /\ \/ op.kind = "init" /\ Journal("retiring") /\ ctl' = "keep"
       \/ op.kind # "init" /\ UNCHANGED op /\ ctl' = "drain"
    /\ UNCHANGED <<leaderVars, active, images, slotVars, vetted, faults>>

\* Slip: a drain that timed out counts as drained.
DrainAnyway ==
    /\ ctl = "drain"
    /\ Journal("retiring")
    /\ ctl' = "keep"
    /\ UNCHANGED <<leaderVars, active, images, slotVars, vetted, faults>>

\* Slip: the connections of the new slot are waited for.
DrainCandidate ==
    /\ ctl = "drain" /\ conns[op.candidate] = 0
    /\ Journal("retiring")
    /\ ctl' = "keep"
    /\ UNCHANGED <<leaderVars, active, images, slotVars, vetted, faults>>

Drained ==
    /\ ctl = "drain" /\ conns[op.active] = 0
    /\ Journal("retiring")
    /\ ctl' = "keep"
    /\ UNCHANGED <<leaderVars, active, images, slotVars, vetted, faults>>
-----------------------------------------------------------------------------
(* retire *)

\* Slip: the old slot gets the new image.
KeepNewImage ==
    /\ ctl = "keep"
    /\ images' = [images EXCEPT ![Old] = op.image]
    /\ ctl' = "rebuild"
    /\ UNCHANGED <<leaderVars, op, active, slotVars, vetted, faults>>

KeepImage ==
    /\ ctl = "keep"
    /\ images' = [images EXCEPT ![Old] = op.retireImage]
    /\ ctl' = "rebuild"
    /\ UNCHANGED <<leaderVars, op, active, slotVars, vetted, faults>>

RecreateOld ==
    /\ ctl = "rebuild"
    /\ Recreate(Old)
    /\ ctl' = "standby"
    /\ UNCHANGED <<op, active, images>>

\* wait(slot_ready(old)), then finish.
StandbyReady ==
    /\ ctl = "standby" /\ ready[Old]
    /\ vetted' = [vetted EXCEPT ![Old] = TRUE]
    /\ op' = Idle /\ ctl' = None
    /\ UNCHANGED <<leaderVars, active, images, slotVars, faults>>
-----------------------------------------------------------------------------
(* Traffic and faults. *)

\* HAProxy sends a new request to the slot of its map while that is UP.
Connect ==
    /\ ready[hapMap] /\ conns[hapMap] < MaxConns
    /\ conns' = [conns EXCEPT ![hapMap] = @ + 1]
    /\ UNCHANGED <<leaderVars, deployVars, hapMap, running, ready, vetted, faults>>

Disconnect(s) ==
    /\ conns[s] > 0
    /\ conns' = [conns EXCEPT ![s] = @ - 1]
    /\ UNCHANGED <<leaderVars, deployVars, hapMap, running, ready, vetted, faults>>

BecomesReady(s) ==
    /\ running[s] # None /\ ~ready[s]
    /\ ready' = [ready EXCEPT ![s] = TRUE]
    /\ UNCHANGED <<leaderVars, deployVars, hapMap, running, conns, vetted, faults>>

Fault(kind) ==
    /\ kind \in Faults /\ faults < MaxFaults
    /\ faults' = faults + 1

\* The operation stops where it is; its journal stays.
Stop ==
    /\ Fault("stop")
    /\ ctl # None
    /\ ctl' = None
    /\ UNCHANGED <<leaderVars, op, active, images, slotVars, vetted>>

ReplicaRestarts(s) ==
    /\ Fault("sick")
    /\ running[s] # None
    /\ ready' = [ready EXCEPT ![s] = FALSE]
    /\ conns' = [conns EXCEPT ![s] = 0]
    /\ StartJobs(s)
    /\ UNCHANGED <<mark, holder, lease, deployVars, hapMap, running, vetted>>

\* HAProxy reads its map from active.map; without one, main is manager_a.
HaproxyRestarts ==
    /\ Fault("haproxy")
    /\ hapMap' = IF active = None THEN "a" ELSE active
    /\ conns' = [s \in Slots |-> 0]
    /\ UNCHANGED <<leaderVars, deployVars, running, ready, vetted>>

Jobs ==
    /\ LeaderNext
    /\ UNCHANGED <<deployVars, slotVars, vetted, faults>>
-----------------------------------------------------------------------------
Controller ==
    \/ ResumeOperation
    \/ WriteImages \/ RecreateCandidate \/ CandidateReady
    \/ SetActiveRedis \/ Quiesced \/ PersistActive \/ HapSetMap \/ MapConfirmed \/ Drained
    \/ KeepImage \/ RecreateOld \/ StandbyReady

Operator == Switch \/ \E i \in Images : Initialize(i) \/ Deploy(i)

Next ==
    \/ Operator \/ Controller \/ Jobs
    \/ Connect \/ \E s \in Slots : Disconnect(s) \/ BecomesReady(s) \/ ReplicaRestarts(s)
    \/ Stop \/ HaproxyRestarts

Spec == Init /\ [][Next]_vars

(***************************************************************************)
(* The operator resumes what stopped and repairs what keeps it from going  *)
(* on; a started container becomes ready; streams end; the job loops and   *)
(* the clock go on.                                                        *)
(***************************************************************************)
Fairness ==
    /\ WF_vars(Controller)
    /\ \A s \in Slots : WF_vars(BecomesReady(s)) /\ SF_vars(Disconnect(s))
    /\ \A s \in Slots : WF_vars(JobLoop(s) /\ UNCHANGED <<deployVars, slotVars, vetted, faults>>)
    /\ SF_vars(LeaseClock /\ UNCHANGED <<deployVars, slotVars, vetted, faults>>)

FairSpec == Spec /\ Fairness
-----------------------------------------------------------------------------
(* Properties. *)

\* A slot is recreated only while no request is in progress on it and none is sent
\* to it; the first release apart, which has no traffic to keep (README.md: "wait
\* until the old slot's in-flight streams drain (never killed ...)").
NoStreamKilled ==
    [][\A s \in Slots :
         ctl \in {"recreate", "rebuild"} /\ vetted[s] /\ ~vetted'[s] /\ op.kind # "init"
           => conns[s] = 0 /\ hapMap # s]_vars

\* New requests are sent to another slot only once the controller has seen it ready
\* in its present container, whatever stops and resumes lie between.
NeverUnvetted ==
    [][hapMap' # hapMap => vetted[hapMap']]_vars

\* Between operations the file, HAProxy and Redis name the same slot, and each
\* container runs the image on record.
AgreedWhenIdle ==
    op.stage = "idle" /\ active # None =>
        /\ hapMap = active
        /\ mark = active
        /\ images = running

\* What a slot runs changes by the preparation of a release only: in particular the
\* slot taken out of service keeps its version as the rollback point.
RollbackPoint ==
    [][\A s \in Slots :
         running'[s] # running[s] => op.kind = "init" \/ (op.stage = "preparing" /\ s # hapMap)]_vars

\* What the journal means.  Its commands:
CommandsOf ==
    [idle |-> {}, preparing |-> {"install", "recreate", "vet"},
     quiescing |-> {"announce", "quiesce"},
     cutover |-> {"announce", "point", "flip", "confirm", "drain"},
     retiring |-> {"keep", "rebuild", "standby"}]

OperationShape ==
    /\ ctl # None => ctl \in CommandsOf[op.stage]
    /\ op.kind = "init" =>
          /\ op.candidate = "a" /\ op.active = None /\ op.image = op.retireImage
          /\ op.stage # "quiescing" /\ ctl # "drain"
    /\ op.kind \in {"deploy", "switch"} =>
          /\ op.active \in Slots /\ op.candidate = Other(op.active)
          /\ active # None
    /\ op.kind = "switch" => op.stage # "preparing"

\* Where requests go, and where none are in progress.
TrafficTrue ==
    /\ active = None \/ op.kind = "init" => hapMap = "a" /\ conns["b"] = 0
    /\ op.kind = "init" =>
          /\ active \in {None, "a"}
          /\ op.stage = "preparing" => active = None
          /\ op.stage = "retiring" \/ ctl \in {"flip", "confirm"} => active = "a"
    /\ op.stage = "idle" /\ active # None => hapMap = active /\ conns[Other(active)] = 0
    /\ op.kind \in {"deploy", "switch"} =>
          /\ op.stage \in {"preparing", "quiescing"} =>
                hapMap = op.active /\ active = op.active /\ conns[op.candidate] = 0
          /\ hapMap = op.candidate => active = op.candidate
          /\ ctl \in {"flip", "confirm", "drain"} => active = op.candidate
          /\ ctl = "drain" => hapMap = op.candidate
          /\ op.stage = "retiring" => hapMap = op.candidate /\ conns[op.active] = 0

\* Which slot the replicas take for the active one.
MarkTrue ==
    /\ active # None /\ op.kind # "init" /\ op.stage \in {"idle", "preparing"} => mark = active
    /\ op.kind \in {"deploy", "switch"} /\ (op.stage \in {"cutover", "retiring"} \/ ctl = "quiesce")
          => mark = op.candidate
    /\ op.kind = "init" /\ (op.stage = "retiring" \/ ctl \in {"point", "flip", "confirm"})
          => mark = "a"

\* What the records and the containers hold.
ImagesTrue ==
    /\ \A s \in Slots : ready[s] => running[s] # None
    /\ op.stage = "idle" /\ active # None =>
          images = running /\ \A s \in Slots : running[s] # None /\ vetted[s]
    /\ op.stage = "preparing" =>
          /\ op.kind = "deploy" => /\ images[op.active] = op.retireImage
                                   /\ running[op.active] = op.retireImage
          /\ ctl \in {"recreate", "vet"} => images[op.candidate] = op.image
          /\ ctl = "vet" => running[op.candidate] = op.image
    /\ op.stage \in {"quiescing", "cutover", "retiring"} =>
          /\ images[op.candidate] = op.image /\ running[op.candidate] = op.image
          /\ vetted[op.candidate]
          /\ op.kind # "init" => /\ images[op.active] = op.retireImage
                                 /\ running[op.active] = op.retireImage
          /\ ctl \in {"rebuild", "standby"} => images[Old] = op.retireImage
          /\ ctl = "standby" => running[Old] = op.retireImage

\* Whatever stops the controller between two commands, what the journal says of
\* the host is true, so resuming from it is safe (abctl.py:719-768).
JournalTrue == OperationShape /\ TrafficTrue /\ MarkTrue /\ ImagesTrue

\* Between operations the standby runs no background job.
StandbyIdle ==
    op.stage = "idle" /\ active # None => job[Other(active)] # "tick"

\* jobs.rs:1-2: "Background jobs run by whichever replica currently holds the Redis
\* leader lock".
OneTick == \A s, t \in Slots : job[s] = "tick" /\ job[t] = "tick" => s = t

\* README.md: "mark the new slot active in Redis and wait until the old slot released
\* the leader lock -> flip the HAProxy map": from the flip on the old slot runs no job.
JobsHandedOver ==
    op.kind \in {"deploy", "switch"} /\ hapMap = op.candidate => job[op.active] # "tick"

\* An operation that was started ends, however often it stops on its way.
OperationCompletes == op.stage # "idle" ~> op.stage = "idle"

\* The background jobs follow the marker.
JobsFollow ==
    \A s \in Slots : mark = s /\ running[s] # None ~> (job[s] = "tick" \/ mark # s)

Abstract == INSTANCE SlotSwitch
    WITH serving <- IF active = None THEN None ELSE hapMap, version <- running, streams <- conns

\* The controller implements the release that SlotSwitch promises.
ImplementsSwitch == Abstract!Spec
=============================================================================
