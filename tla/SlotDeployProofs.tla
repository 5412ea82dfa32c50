-------------------------- MODULE SlotDeployProofs --------------------------
(***************************************************************************)
(* Theorems about SlotDeploy, for any set of images and any bounds: the    *)
(* journal is true of the host after every step, and the controller        *)
(* implements SlotSwitch.                                                  *)
(***************************************************************************)
EXTENDS SlotDeploy, TLAPS

USE DEF leaderVars, deployVars, slotVars, Journal

\* The inductive invariant.
JournalInv == TypeOK /\ JournalTrue

\* What the type of a journal entry says of its fields.
OpFacts(o) ==
    /\ o.stage \in Stages \cup {"idle"}
    /\ o.kind \in Kinds \cup {None}
    /\ o.stage = "idle" <=> o.kind = None
    /\ o.kind # None => /\ o.candidate \in Slots
                        /\ o.active \in Slots \cup {None}
                        /\ o.image \in Images
                        /\ o.retireImage \in Images

\* The journal advances to a stage and keeps its other fields.
Moved(stage) ==
    /\ op'.stage = stage /\ op'.kind = op.kind /\ op'.active = op.active
    /\ op'.candidate = op.candidate /\ op'.image = op.image
    /\ op'.retireImage = op.retireImage

\* A command and the stages that give it.
InStage(c, stage) ==
    /\ c \in {"install", "recreate", "vet"} => stage = "preparing"
    /\ c = "quiesce" => stage = "quiescing"
    /\ c = "announce" => stage \in {"quiescing", "cutover"}
    /\ c \in {"point", "flip", "confirm", "drain"} => stage = "cutover"
    /\ c \in {"keep", "rebuild", "standby"} => stage = "retiring"

-----------------------------------------------------------------------------
LEMMA SlotFacts ==
    /\ Slots = {"a", "b"}
    /\ None \notin Slots /\ None \notin Images /\ None \notin Commands /\ None \notin Kinds
    /\ Kinds = {"init", "deploy", "switch"}
    /\ \A s \in Slots : Other(s) \in Slots /\ Other(s) # s /\ Other(Other(s)) = s
  BY LeaderAssumption, DeployAssumption DEF Slots, Other, Kinds

LEMMA Distinct ==
    /\ \A c \in Commands : c # None
    /\ \A s \in Slots : s # None
    /\ \A i \in Images : i # None
    /\ \A k \in Kinds : k # None
  BY LeaderAssumption, DeployAssumption

LEMMA CommandStages ==
    ASSUME NEW c \in Commands, NEW stage \in Stages \cup {"idle"}
    PROVE  c \in CommandsOf[stage] <=> stage # "idle" /\ InStage(c, stage)
  BY DEF Commands, Stages, CommandsOf, InStage

LEMMA OpTypes ==
    ASSUME op \in Operations \cup {Idle}
    PROVE  OpFacts(op)
<1>1. CASE op \in Operations
  BY <1>1, DeployAssumption DEF Operations, OpFacts, Stages
<1>2. CASE op = Idle
  BY <1>2 DEF Idle, OpFacts
<1> QED
  BY <1>1, <1>2

LEMMA OpStarted ==
    ASSUME op \in Operations \cup {Idle}, op.stage # "idle"
    PROVE  op \in Operations
  BY DEF Idle

LEMMA Moves ==
    ASSUME op \in Operations, NEW stage \in Stages, Journal(stage)
    PROVE  op' \in Operations /\ Moved(stage) /\ OpFacts(op')
<1>1. op' \in Operations /\ Moved(stage)
  BY DEF Operations, Moved
<1> QED
  BY <1>1, DeployAssumption DEF Operations, OpFacts, Stages
-----------------------------------------------------------------------------
LEMMA TypeInit == Init => TypeOK
<1> SUFFICES ASSUME Init PROVE TypeOK
  OBVIOUS
<1>1. LeaderTypeOK
  BY LeaderAssumption, SlotFacts DEF Init, LeaderTypeOK, JobStages
<1>2. /\ op \in Operations \cup {Idle} /\ ctl \in Commands \cup {None}
      /\ active \in Slots \cup {None} /\ hapMap \in Slots
      /\ images \in [Slots -> Images \cup {None}] /\ running \in [Slots -> Images \cup {None}]
  BY SlotFacts DEF Init
<1>3. ready \in [Slots -> BOOLEAN] /\ vetted \in [Slots -> BOOLEAN]
  BY DEF Init
<1>4. 0 \in 0..MaxConns /\ 0 \in 0..MaxFaults
  BY DeployAssumption
<1>5. conns \in [Slots -> 0..MaxConns] /\ faults \in 0..MaxFaults
  BY <1>4 DEF Init
<1> QED
  BY <1>1, <1>2, <1>3, <1>5 DEF TypeOK

LEMMA JournalInit == Init => JournalInv
<1> SUFFICES ASSUME Init PROVE JournalTrue
  BY TypeInit DEF JournalInv
<1>1. op = Idle /\ ctl = None /\ Idle.stage = "idle" /\ Idle.kind = None
  BY DEF Init, Idle
<1>2. OperationShape /\ TrafficTrue /\ MarkTrue
  BY <1>1, SlotFacts DEF Init, OperationShape, TrafficTrue, MarkTrue
<1>3. ImagesTrue
  BY <1>1, SlotFacts DEF Init, ImagesTrue
<1> QED
  BY <1>2, <1>3 DEF JournalTrue

LEMMA LeaderTypes ==
    ASSUME LeaderTypeOK, LeaderNext
    PROVE  LeaderTypeOK'
<1>1. ASSUME NEW s \in Slots
      PROVE  /\ Look(s) => LeaderTypeOK'
             /\ LeaderRelease(s) => LeaderTypeOK'
             /\ LeaderSet(s) => LeaderTypeOK'
             /\ LeaderExtend(s) => LeaderTypeOK'
             /\ TickEnds(s) => LeaderTypeOK'
             /\ Wake(s) => LeaderTypeOK'
             /\ AcquireFails(s) => LeaderTypeOK'
  <2> USE LeaderAssumption DEF LeaderTypeOK, JobStages, Resume
  <2>t. LeaseTTL \in 0..LeaseTTL /\ 0 \in 0..LeaseTTL
    OBVIOUS
  <2>1. Look(s) => LeaderTypeOK'
    BY DEF Look
  <2>2. LeaderRelease(s) => LeaderTypeOK'
    BY DEF LeaderRelease
  <2>3. LeaderSet(s) => LeaderTypeOK'
    BY <2>t DEF LeaderSet
  <2>4. LeaderExtend(s) => LeaderTypeOK'
    BY <2>t DEF LeaderExtend
  <2>5. TickEnds(s) => LeaderTypeOK'
    BY DEF TickEnds
  <2>6. Wake(s) => LeaderTypeOK'
    BY DEF Wake
  <2>7. AcquireFails(s) => LeaderTypeOK'
    BY DEF AcquireFails
  <2> QED
    BY <2>1, <2>2, <2>3, <2>4, <2>5, <2>6, <2>7
<1>2. LeaseClock => LeaderTypeOK'
  BY LeaderAssumption DEF LeaderTypeOK, LeaseClock
<1> QED
  BY <1>1, <1>2 DEF LeaderNext, JobLoop

LEMMA JobsFrame == LeaderNext => UNCHANGED mark
  BY DEF LeaderNext, JobLoop, Look, LeaderRelease, LeaderSet, LeaderExtend, TickEnds, Wake,
         AcquireFails, LeaseClock

LEMMA JobsStarted ==
    ASSUME LeaderTypeOK, NEW s \in Slots, StartJobs(s), UNCHANGED <<mark, holder, lease>>
    PROVE  LeaderTypeOK'
  BY DEF LeaderTypeOK, StartJobs, JobStages

\* Every step keeps the types and what the journal means.
LEMMA JournalStep == JournalInv /\ [Next]_vars => JournalInv'
<1> SUFFICES ASSUME TypeOK, OperationShape, TrafficTrue, MarkTrue, ImagesTrue, [Next]_vars
             PROVE  TypeOK' /\ OperationShape' /\ TrafficTrue' /\ MarkTrue' /\ ImagesTrue'
  BY DEF JournalInv, JournalTrue
<1>f. OpFacts(op)
  BY OpTypes DEF TypeOK
<1>t. /\ mark \in Slots \cup {None} /\ LeaderTypeOK
      /\ op \in Operations \cup {Idle} /\ faults \in 0..MaxFaults
      /\ ctl \in Commands \cup {None} /\ active \in Slots \cup {None}
      /\ images \in [Slots -> Images \cup {None}] /\ hapMap \in Slots
      /\ running \in [Slots -> Images \cup {None}] /\ ready \in [Slots -> BOOLEAN]
      /\ conns \in [Slots -> 0..MaxConns] /\ vetted \in [Slots -> BOOLEAN]
  BY DEF TypeOK, LeaderTypeOK
<1>c. ctl # None => op.stage # "idle" /\ InStage(ctl, op.stage)
  BY <1>t, <1>f, CommandStages DEF OperationShape, OpFacts
<1>1. ASSUME NEW i \in Images, Initialize(i)
      PROVE  TypeOK' /\ OperationShape' /\ TrafficTrue' /\ MarkTrue' /\ ImagesTrue'
  <2>j. OpFacts(op') /\ op' \in Operations
    BY <1>1, SlotFacts DEF Initialize, Start, OpFacts, Operations, Stages
  <2>1. TypeOK'
    BY <1>1, <2>j DEF Initialize, Start, TypeOK, LeaderTypeOK, Commands
  <2>2. OperationShape'
    BY <1>1, CommandStages DEF Initialize, Start, OperationShape, InStage, Commands, Stages
  <2>3. TrafficTrue'
    BY <1>1 DEF Initialize, Start, TrafficTrue
  <2>4. MarkTrue'
    BY <1>1 DEF Initialize, Start, MarkTrue
  <2>5. ImagesTrue'
    BY <1>1 DEF Initialize, Start, ImagesTrue
  <2> QED
    BY <2>1, <2>2, <2>3, <2>4, <2>5
<1>2. ASSUME NEW i \in Images, Deploy(i)
      PROVE  TypeOK' /\ OperationShape' /\ TrafficTrue' /\ MarkTrue' /\ ImagesTrue'
  <2>j. OpFacts(op') /\ op' \in Operations
    BY <1>2, <1>t, SlotFacts
    DEF Deploy, Start, SlotImage, OpFacts, Operations, Stages, ImagesTrue
  <2>1. TypeOK'
    BY <1>2, <2>j DEF Deploy, Start, TypeOK, LeaderTypeOK, Commands
  <2>2. OperationShape'
    BY <1>2, <1>t, CommandStages DEF Deploy, Start, OperationShape, InStage, Commands, Stages
  <2>3. TrafficTrue'
    BY <1>2 DEF Deploy, Start, TrafficTrue
  <2>4. MarkTrue'
    BY <1>2, <1>f, SlotFacts DEF Deploy, Start, MarkTrue, OpFacts
  <2>5. ImagesTrue'
    BY <1>2 DEF Deploy, Start, SlotImage, ImagesTrue
  <2> QED
    BY <2>1, <2>2, <2>3, <2>4, <2>5
<1>3. ASSUME Switch
      PROVE  TypeOK' /\ OperationShape' /\ TrafficTrue' /\ MarkTrue' /\ ImagesTrue'
  <2>j. OpFacts(op') /\ op' \in Operations
    BY <1>3, <1>t, SlotFacts
    DEF Switch, Start, SlotImage, OpFacts, Operations, Stages, ImagesTrue
  <2>1. TypeOK'
    BY <1>3, <2>j DEF Switch, Start, TypeOK, LeaderTypeOK, Commands
  <2>2. OperationShape'
    BY <1>3, <1>t, CommandStages DEF Switch, Start, OperationShape, InStage, Commands, Stages
  <2>3. TrafficTrue'
    BY <1>3 DEF Switch, Start, TrafficTrue
  <2>4. MarkTrue'
    BY <1>3 DEF Switch, Start, MarkTrue
  <2>5. ImagesTrue'
    BY <1>3, <1>t, SlotFacts DEF Switch, Start, SlotImage, ImagesTrue
  <2> QED
    BY <2>1, <2>2, <2>3, <2>4, <2>5
<1>4. ASSUME ResumeOperation
      PROVE  TypeOK' /\ OperationShape' /\ TrafficTrue' /\ MarkTrue' /\ ImagesTrue'
  <2>s. op.stage \in Stages /\ op.kind \in Kinds
    BY <1>4, <1>f DEF ResumeOperation, OpFacts
  <2>1. TypeOK'
    BY <1>4, <2>s DEF ResumeOperation, FirstCommand, TypeOK, LeaderTypeOK, Commands, Stages
  <2>2. OperationShape'
    BY <1>4, CommandStages, <2>s
    DEF ResumeOperation, FirstCommand, OperationShape, InStage, Commands, Stages
  <2>3. TrafficTrue'
    BY <1>4, <2>s DEF ResumeOperation, FirstCommand, TrafficTrue, Stages
  <2>4. MarkTrue'
    BY <1>4, <2>s DEF ResumeOperation, FirstCommand, MarkTrue, Stages
  <2>5. ImagesTrue'
    BY <1>4 DEF ResumeOperation, FirstCommand, ImagesTrue
  <2> QED
    BY <2>1, <2>2, <2>3, <2>4, <2>5
<1>5. ASSUME WriteImages
      PROVE  TypeOK' /\ OperationShape' /\ TrafficTrue' /\ MarkTrue' /\ ImagesTrue'
  <2>s. op.stage = "preparing" /\ op.kind \in Kinds /\ op \in Operations
    BY <1>5, <1>f, <1>c, <1>t, OpStarted, Distinct DEF WriteImages, OpFacts, InStage, Commands
  <2>1. TypeOK'
    BY <1>5, <1>f, <2>s DEF WriteImages, TypeOK, LeaderTypeOK, Commands, OpFacts
  <2>2. OperationShape'
    BY <1>5, SlotFacts, CommandStages, <1>c
    DEF WriteImages, OperationShape, InStage, Commands, Stages
  <2>3. TrafficTrue'
    BY <1>5 DEF WriteImages, TrafficTrue
  <2>4. MarkTrue'
    BY <1>5 DEF WriteImages, MarkTrue
  <2>5. ImagesTrue'
    BY <1>5, <1>t, SlotFacts, <2>s DEF WriteImages, OperationShape, ImagesTrue
  <2> QED
    BY <2>1, <2>2, <2>3, <2>4, <2>5
<1>6. ASSUME RecreateCandidate
      PROVE  TypeOK' /\ OperationShape' /\ TrafficTrue' /\ MarkTrue' /\ ImagesTrue'
  <2>s. op.stage = "preparing" /\ op.kind \in Kinds /\ op \in Operations
    BY <1>6, <1>f, <1>c, <1>t, OpStarted, Distinct
    DEF RecreateCandidate, OpFacts, InStage, Commands
  <2>l. op.candidate \in Slots /\ StartJobs(op.candidate) /\ UNCHANGED <<mark, holder, lease>>
    BY <1>6, <1>f, <2>s DEF RecreateCandidate, Recreate, OpFacts
  <2>m. LeaderTypeOK'
    BY <1>t, <2>l, JobsStarted
  <2>1. TypeOK'
    BY <1>6, <2>m, <2>l, DeployAssumption DEF RecreateCandidate, Recreate, TypeOK, Commands
  <2>2. OperationShape'
    BY <1>6, SlotFacts, CommandStages, <1>c
    DEF RecreateCandidate, OperationShape, InStage, Commands, Stages
  <2>3. TrafficTrue'
    BY <1>6 DEF RecreateCandidate, Recreate, TrafficTrue
  <2>4. MarkTrue'
    BY <1>6 DEF RecreateCandidate, Recreate, MarkTrue
  <2>5. ImagesTrue'
    BY <1>6, <1>t, SlotFacts, <2>s DEF RecreateCandidate, Recreate, OperationShape, ImagesTrue
  <2> QED
    BY <2>1, <2>2, <2>3, <2>4, <2>5
<1>7. ASSUME CandidateReady
      PROVE  TypeOK' /\ OperationShape' /\ TrafficTrue' /\ MarkTrue' /\ ImagesTrue'
  <2>s. op.stage = "preparing" /\ op.kind \in Kinds /\ op \in Operations
    BY <1>7, <1>f, <1>c, <1>t, OpStarted, Distinct
    DEF CandidateReady, OpFacts, InStage, Commands
  <2>j. OpFacts(op') /\ op' \in Operations /\ \E stage \in Stages : Journal(stage) /\ Moved(stage)
    BY <1>7, <2>s, Moves DEF CandidateReady, Stages
  <2>1. TypeOK'
    BY <1>7, <2>j DEF CandidateReady, TypeOK, LeaderTypeOK, Commands
  <2>2. OperationShape'
    BY <1>7, CommandStages DEF CandidateReady, OperationShape, InStage, Commands, Stages
  <2>3. TrafficTrue'
    BY <1>7, <2>s DEF CandidateReady, TrafficTrue
  <2>4. MarkTrue'
    BY <1>7 DEF CandidateReady, MarkTrue
  <2>5. ImagesTrue'
    BY <1>7, <1>t, SlotFacts, <2>s DEF CandidateReady, OperationShape, ImagesTrue
  <2> QED
    BY <2>1, <2>2, <2>3, <2>4, <2>5
<1>8. ASSUME SetActiveRedis
      PROVE  TypeOK' /\ OperationShape' /\ TrafficTrue' /\ MarkTrue' /\ ImagesTrue'
  <2>s. op.stage \in {"quiescing", "cutover"} /\ op.kind \in Kinds /\ op \in Operations
    BY <1>8, <1>f, <1>c, <1>t, OpStarted, Distinct
    DEF SetActiveRedis, OpFacts, InStage, Commands
  <2>1. TypeOK'
    BY <1>8, <1>f, <2>s DEF SetActiveRedis, TypeOK, LeaderTypeOK, Commands, OpFacts
  <2>2. OperationShape'
    BY <1>8, SlotFacts, CommandStages, <1>c
    DEF SetActiveRedis, OperationShape, InStage, Commands, Stages
  <2>3. TrafficTrue'
    BY <1>8 DEF SetActiveRedis, TrafficTrue
  <2>4. MarkTrue'
    BY <1>8, <2>s DEF SetActiveRedis, OperationShape, MarkTrue
  <2>5. ImagesTrue'
    BY <1>8 DEF SetActiveRedis, ImagesTrue
  <2> QED
    BY <2>1, <2>2, <2>3, <2>4, <2>5
<1>9. ASSUME Quiesced
      PROVE  TypeOK' /\ OperationShape' /\ TrafficTrue' /\ MarkTrue' /\ ImagesTrue'
  <2>s. op.stage = "quiescing" /\ op.kind \in Kinds /\ op \in Operations
    BY <1>9, <1>f, <1>c, <1>t, OpStarted, Distinct DEF Quiesced, OpFacts, InStage, Commands
  <2>j. OpFacts(op') /\ op' \in Operations /\ \E stage \in Stages : Journal(stage) /\ Moved(stage)
    BY <1>9, <2>s, Moves DEF Quiesced, Stages
  <2>1. TypeOK'
    BY <1>9, <2>j DEF Quiesced, TypeOK, LeaderTypeOK, Commands
  <2>2. OperationShape'
    BY <1>9, CommandStages DEF Quiesced, OperationShape, InStage, Commands, Stages
  <2>3. TrafficTrue'
    BY <1>9 DEF Quiesced, TrafficTrue
  <2>4. MarkTrue'
    BY <1>9, <2>s DEF Quiesced, OperationShape, MarkTrue
  <2>5. ImagesTrue'
    BY <1>9, <2>s DEF Quiesced, ImagesTrue
  <2> QED
    BY <2>1, <2>2, <2>3, <2>4, <2>5
<1>10. ASSUME PersistActive
      PROVE  TypeOK' /\ OperationShape' /\ TrafficTrue' /\ MarkTrue' /\ ImagesTrue'
  <2>s. op.stage = "cutover" /\ op.kind \in Kinds /\ op \in Operations
    BY <1>10, <1>f, <1>c, <1>t, OpStarted, Distinct
    DEF PersistActive, OpFacts, InStage, Commands
  <2>1. TypeOK'
    BY <1>10, <1>f, <2>s DEF PersistActive, TypeOK, LeaderTypeOK, Commands, OpFacts
  <2>2. OperationShape'
    BY <1>10, SlotFacts, CommandStages, <1>c
    DEF PersistActive, OperationShape, InStage, Commands, Stages
  <2>3. TrafficTrue'
    BY <1>10, SlotFacts, <2>s DEF PersistActive, OperationShape, TrafficTrue
  <2>4. MarkTrue'
    BY <1>10, <2>s DEF PersistActive, MarkTrue
  <2>5. ImagesTrue'
    BY <1>10, <2>s DEF PersistActive, ImagesTrue
  <2> QED
    BY <2>1, <2>2, <2>3, <2>4, <2>5
<1>11. ASSUME HapSetMap
      PROVE  TypeOK' /\ OperationShape' /\ TrafficTrue' /\ MarkTrue' /\ ImagesTrue'
  <2>s. op.stage = "cutover" /\ op.kind \in Kinds /\ op \in Operations
    BY <1>11, <1>f, <1>c, <1>t, OpStarted, Distinct DEF HapSetMap, OpFacts, InStage, Commands
  <2>1. TypeOK'
    BY <1>11, <1>f, <2>s DEF HapSetMap, TypeOK, LeaderTypeOK, Commands, OpFacts
  <2>2. OperationShape'
    BY <1>11, SlotFacts, CommandStages, <1>c
    DEF HapSetMap, OperationShape, InStage, Commands, Stages
  <2>3. TrafficTrue'
    BY <1>11, SlotFacts, <2>s DEF HapSetMap, OperationShape, TrafficTrue
  <2>4. MarkTrue'
    BY <1>11 DEF HapSetMap, MarkTrue
  <2>5. ImagesTrue'
    BY <1>11 DEF HapSetMap, ImagesTrue
  <2> QED
    BY <2>1, <2>2, <2>3, <2>4, <2>5
<1>12. ASSUME MapConfirmed
      PROVE  TypeOK' /\ OperationShape' /\ TrafficTrue' /\ MarkTrue' /\ ImagesTrue'
  <2>s. op.stage = "cutover" /\ op.kind \in Kinds /\ op \in Operations
    BY <1>12, <1>f, <1>c, <1>t, OpStarted, Distinct DEF MapConfirmed, OpFacts, InStage, Commands
  <2>j. /\ OpFacts(op') /\ op' \in Operations
        /\ \/ op.kind = "init" /\ ctl' = "keep" /\ Moved("retiring")
           \/ op.kind # "init" /\ ctl' = "drain" /\ op' = op
    BY <1>12, <1>f, <2>s, Moves DEF MapConfirmed, Stages
  <2>1. TypeOK'
    BY <1>12, <2>j DEF MapConfirmed, TypeOK, LeaderTypeOK, Commands
  <2>2. OperationShape'
    BY <1>12, SlotFacts, CommandStages, <1>c, <2>j
    DEF MapConfirmed, OperationShape, InStage, Commands, Stages, Moved
  <2>3. TrafficTrue'
    BY <1>12, <2>j DEF MapConfirmed, TrafficTrue, Moved
  <2>4. MarkTrue'
    BY <1>12, <2>j DEF MapConfirmed, MarkTrue, Moved
  <2>5. ImagesTrue'
    BY <1>12, <2>s, <2>j DEF MapConfirmed, ImagesTrue, Moved
  <2> QED
    BY <2>1, <2>2, <2>3, <2>4, <2>5
<1>13. ASSUME Drained
      PROVE  TypeOK' /\ OperationShape' /\ TrafficTrue' /\ MarkTrue' /\ ImagesTrue'
  <2>s. op.stage = "cutover" /\ op.kind \in Kinds /\ op \in Operations
    BY <1>13, <1>f, <1>c, <1>t, OpStarted, Distinct DEF Drained, OpFacts, InStage, Commands
  <2>j. OpFacts(op') /\ op' \in Operations /\ \E stage \in Stages : Journal(stage) /\ Moved(stage)
    BY <1>13, <2>s, Moves DEF Drained, Stages
  <2>1. TypeOK'
    BY <1>13, <2>j DEF Drained, TypeOK, LeaderTypeOK, Commands
  <2>2. OperationShape'
    BY <1>13, CommandStages DEF Drained, OperationShape, InStage, Commands, Stages
  <2>3. TrafficTrue'
    BY <1>13 DEF Drained, OperationShape, TrafficTrue
  <2>4. MarkTrue'
    BY <1>13, <2>s DEF Drained, OperationShape, MarkTrue
  <2>5. ImagesTrue'
    BY <1>13, <2>s DEF Drained, ImagesTrue
  <2> QED
    BY <2>1, <2>2, <2>3, <2>4, <2>5
<1>14. ASSUME KeepImage
      PROVE  TypeOK' /\ OperationShape' /\ TrafficTrue' /\ MarkTrue' /\ ImagesTrue'
  <2>s. op.stage = "retiring" /\ op.kind \in Kinds /\ op \in Operations
    BY <1>14, <1>f, <1>c, <1>t, OpStarted, Distinct DEF KeepImage, OpFacts, InStage, Commands
  <2>1. TypeOK'
    BY <1>14, <1>f, <2>s DEF KeepImage, TypeOK, LeaderTypeOK, Commands, OpFacts
  <2>2. OperationShape'
    BY <1>14, SlotFacts, CommandStages, <1>c
    DEF KeepImage, OperationShape, InStage, Commands, Stages
  <2>3. TrafficTrue'
    BY <1>14 DEF KeepImage, TrafficTrue
  <2>4. MarkTrue'
    BY <1>14 DEF KeepImage, MarkTrue
  <2>5. ImagesTrue'
    BY <1>14, <1>t, SlotFacts, <2>s DEF KeepImage, OperationShape, ImagesTrue, Old
  <2> QED
    BY <2>1, <2>2, <2>3, <2>4, <2>5
<1>15. ASSUME RecreateOld
      PROVE  TypeOK' /\ OperationShape' /\ TrafficTrue' /\ MarkTrue' /\ ImagesTrue'
  <2>s. op.stage = "retiring" /\ op.kind \in Kinds /\ op \in Operations
    BY <1>15, <1>f, <1>c, <1>t, OpStarted, Distinct DEF RecreateOld, OpFacts, InStage, Commands
  <2>l. Old \in Slots /\ StartJobs(Old) /\ UNCHANGED <<mark, holder, lease>>
    BY <1>15, SlotFacts, <2>s DEF RecreateOld, Recreate, Old, OperationShape
  <2>m. LeaderTypeOK'
    BY <1>t, <2>l, JobsStarted
  <2>1. TypeOK'
    BY <1>15, <2>m, <2>l, DeployAssumption DEF RecreateOld, Recreate, TypeOK, Commands
  <2>2. OperationShape'
    BY <1>15, SlotFacts, CommandStages, <1>c
    DEF RecreateOld, OperationShape, InStage, Commands, Stages
  <2>3. TrafficTrue'
    BY <1>15 DEF RecreateOld, Recreate, TrafficTrue
  <2>4. MarkTrue'
    BY <1>15 DEF RecreateOld, Recreate, MarkTrue
  <2>5. ImagesTrue'
    BY <1>15, <1>t, SlotFacts, <2>s DEF RecreateOld, Recreate, OperationShape, ImagesTrue, Old
  <2> QED
    BY <2>1, <2>2, <2>3, <2>4, <2>5
<1>16. ASSUME StandbyReady
      PROVE  TypeOK' /\ OperationShape' /\ TrafficTrue' /\ MarkTrue' /\ ImagesTrue'
  <2>s. op.stage = "retiring" /\ op.kind \in Kinds /\ op \in Operations
    BY <1>16, <1>f, <1>c, <1>t, OpStarted, Distinct DEF StandbyReady, OpFacts, InStage, Commands
  <2>j. OpFacts(op') /\ op' = Idle /\ op'.stage = "idle" /\ op'.kind = None
    BY <1>16 DEF StandbyReady, OpFacts, Idle
  <2>1. TypeOK'
    BY <1>16 DEF StandbyReady, TypeOK, LeaderTypeOK
  <2>2. OperationShape'
    BY <1>16, SlotFacts, <2>j DEF StandbyReady, OperationShape
  <2>3. TrafficTrue'
    BY <1>16, SlotFacts, <2>s, <2>j DEF StandbyReady, OperationShape, TrafficTrue
  <2>4. MarkTrue'
    BY <1>16, SlotFacts, <2>s, <2>j DEF StandbyReady, TrafficTrue, MarkTrue
  <2>5. ImagesTrue'
    BY <1>16, <1>f, <1>t, SlotFacts, <2>s, <2>j
    DEF StandbyReady, OperationShape, ImagesTrue, OpFacts, Old
  <2> QED
    BY <2>1, <2>2, <2>3, <2>4, <2>5
<1>17. ASSUME Connect
      PROVE  TypeOK' /\ OperationShape' /\ TrafficTrue' /\ MarkTrue' /\ ImagesTrue'
  <2>1. TypeOK'
    BY <1>17, DeployAssumption DEF Connect, TypeOK, LeaderTypeOK
  <2>2. OperationShape'
    BY <1>17 DEF Connect, OperationShape
  <2>3. TrafficTrue'
    BY <1>17, <1>t, SlotFacts DEF Connect, OperationShape, TrafficTrue
  <2>4. MarkTrue'
    BY <1>17 DEF Connect, MarkTrue
  <2>5. ImagesTrue'
    BY <1>17 DEF Connect, ImagesTrue, Old
  <2> QED
    BY <2>1, <2>2, <2>3, <2>4, <2>5
<1>18. ASSUME NEW s \in Slots, Disconnect(s)
      PROVE  TypeOK' /\ OperationShape' /\ TrafficTrue' /\ MarkTrue' /\ ImagesTrue'
  <2>1. TypeOK'
    BY <1>18, DeployAssumption DEF Disconnect, TypeOK, LeaderTypeOK
  <2>2. OperationShape'
    BY <1>18 DEF Disconnect, OperationShape
  <2>3. TrafficTrue'
    BY <1>18 DEF Disconnect, TrafficTrue
  <2>4. MarkTrue'
    BY <1>18 DEF Disconnect, MarkTrue
  <2>5. ImagesTrue'
    BY <1>18 DEF Disconnect, ImagesTrue, Old
  <2> QED
    BY <2>1, <2>2, <2>3, <2>4, <2>5
<1>19. ASSUME NEW s \in Slots, BecomesReady(s)
      PROVE  TypeOK' /\ OperationShape' /\ TrafficTrue' /\ MarkTrue' /\ ImagesTrue'
  <2>1. TypeOK'
    BY <1>19 DEF BecomesReady, TypeOK, LeaderTypeOK
  <2>2. OperationShape'
    BY <1>19 DEF BecomesReady, OperationShape
  <2>3. TrafficTrue'
    BY <1>19 DEF BecomesReady, TrafficTrue
  <2>4. MarkTrue'
    BY <1>19 DEF BecomesReady, MarkTrue
  <2>5. ImagesTrue'
    BY <1>19 DEF BecomesReady, ImagesTrue, Old
  <2> QED
    BY <2>1, <2>2, <2>3, <2>4, <2>5
<1>20. ASSUME NEW s \in Slots, ReplicaRestarts(s)
      PROVE  TypeOK' /\ OperationShape' /\ TrafficTrue' /\ MarkTrue' /\ ImagesTrue'
  <2>l. s \in Slots /\ StartJobs(s) /\ UNCHANGED <<mark, holder, lease>>
    BY <1>20 DEF ReplicaRestarts
  <2>m. LeaderTypeOK'
    BY <1>t, <2>l, JobsStarted
  <2>1. TypeOK'
    BY <1>20, <2>m, DeployAssumption DEF ReplicaRestarts, Fault, TypeOK
  <2>2. OperationShape'
    BY <1>20 DEF ReplicaRestarts, OperationShape
  <2>3. TrafficTrue'
    BY <1>20 DEF ReplicaRestarts, TrafficTrue
  <2>4. MarkTrue'
    BY <1>20 DEF ReplicaRestarts, MarkTrue
  <2>5. ImagesTrue'
    BY <1>20 DEF ReplicaRestarts, ImagesTrue, Old
  <2> QED
    BY <2>1, <2>2, <2>3, <2>4, <2>5
<1>21. ASSUME Stop
      PROVE  TypeOK' /\ OperationShape' /\ TrafficTrue' /\ MarkTrue' /\ ImagesTrue'
  <2>1. TypeOK'
    BY <1>21, DeployAssumption DEF Stop, Fault, TypeOK, LeaderTypeOK
  <2>2. OperationShape'
    BY <1>21, SlotFacts DEF Stop, OperationShape, Commands
  <2>3. TrafficTrue'
    BY <1>21, SlotFacts DEF Stop, TrafficTrue, Commands
  <2>4. MarkTrue'
    BY <1>21, SlotFacts DEF Stop, MarkTrue, Commands
  <2>5. ImagesTrue'
    BY <1>21, SlotFacts DEF Stop, ImagesTrue, Commands
  <2> QED
    BY <2>1, <2>2, <2>3, <2>4, <2>5
<1>22. ASSUME HaproxyRestarts
      PROVE  TypeOK' /\ OperationShape' /\ TrafficTrue' /\ MarkTrue' /\ ImagesTrue'
  <2>1. TypeOK'
    BY <1>22, SlotFacts, DeployAssumption DEF HaproxyRestarts, Fault, TypeOK, LeaderTypeOK
  <2>2. OperationShape'
    BY <1>22 DEF HaproxyRestarts, OperationShape
  <2>3. TrafficTrue'
    BY <1>22, <1>t, SlotFacts DEF HaproxyRestarts, OperationShape, TrafficTrue
  <2>4. MarkTrue'
    BY <1>22 DEF HaproxyRestarts, MarkTrue
  <2>5. ImagesTrue'
    BY <1>22 DEF HaproxyRestarts, ImagesTrue, Old
  <2> QED
    BY <2>1, <2>2, <2>3, <2>4, <2>5
<1>23. ASSUME Jobs
      PROVE  TypeOK' /\ OperationShape' /\ TrafficTrue' /\ MarkTrue' /\ ImagesTrue'
  <2>1. TypeOK'
    BY <1>23, LeaderTypes DEF Jobs, TypeOK
  <2>2. OperationShape' /\ TrafficTrue'
    BY <1>23 DEF Jobs, OperationShape, TrafficTrue
  <2>3. MarkTrue' /\ ImagesTrue'
    BY <1>23, JobsFrame DEF Jobs, MarkTrue, ImagesTrue, Old
  <2> QED
    BY <2>1, <2>2, <2>3
<1>24. CASE UNCHANGED vars
  BY <1>24
  DEF vars, TypeOK, LeaderTypeOK, OperationShape, TrafficTrue, MarkTrue, ImagesTrue, Old
<1> QED
  BY <1>1, <1>2, <1>3, <1>4, <1>5, <1>6, <1>7, <1>8, <1>9, <1>10, <1>11, <1>12, <1>13, <1>14,
     <1>15, <1>16, <1>17, <1>18, <1>19, <1>20, <1>21, <1>22, <1>23, <1>24
  DEF Next, Operator, Controller
-----------------------------------------------------------------------------
LEMMA JournalAlways == Spec => []JournalInv
  BY JournalInit, JournalStep, PTL DEF Spec

\* Every variable keeps its type, at every number of images, requests and faults.
THEOREM TypeCorrect == Spec => []TypeOK
<1>1. JournalInv => TypeOK
  BY DEF JournalInv
<1> QED
  BY <1>1, JournalAlways, PTL

\* Wherever the controller stops, its journal is true of the host it resumes on.
THEOREM JournalCorrect == Spec => []JournalTrue
<1>1. JournalInv => JournalTrue
  BY DEF JournalInv
<1> QED
  BY <1>1, JournalAlways, PTL

\* Between operations the state files, HAProxy, Redis and the containers agree.
THEOREM Agreement == Spec => []AgreedWhenIdle
<1>1. JournalInv => AgreedWhenIdle
  <2> SUFFICES ASSUME JournalInv, op.stage = "idle", active # None
               PROVE  hapMap = active /\ mark = active /\ images = running
    BY DEF AgreedWhenIdle
  <2>1. op.kind = None
    BY OpTypes DEF JournalInv, TypeOK, OpFacts
  <2> QED
    BY <2>1, Distinct DEF JournalInv, JournalTrue, TrafficTrue, MarkTrue, ImagesTrue, Kinds
<1> QED
  BY <1>1, JournalAlways, PTL
-----------------------------------------------------------------------------
(* What the invariant says where a slot is recreated or the map is set. *)

LEMMA RecreateFacts ==
    ASSUME JournalInv, RecreateCandidate
    PROVE  /\ op.candidate \in Slots /\ op.image \in Images
           /\ op.stage = "preparing" /\ op.kind \in {"init", "deploy"}
           /\ images[op.candidate] = op.image
           /\ op.kind = "init" => active = None
           /\ op.kind = "deploy" => /\ active \in Slots /\ hapMap # op.candidate
                                    /\ conns[op.candidate] = 0
<1>f. OpFacts(op) /\ ctl = "recreate" /\ ctl \in Commands /\ ctl # None
  BY OpTypes, Distinct DEF JournalInv, TypeOK, RecreateCandidate, Commands
<1>c. op.stage = "preparing" /\ op.kind \in Kinds
  BY <1>f, CommandStages DEF JournalInv, JournalTrue, OperationShape, InStage, OpFacts
<1> QED
  BY <1>f, <1>c, SlotFacts
  DEF JournalInv, JournalTrue, OperationShape, TrafficTrue, ImagesTrue, OpFacts

LEMMA RetireFacts ==
    ASSUME JournalInv, RecreateOld
    PROVE  /\ Old \in Slots /\ op.retireImage \in Images
           /\ op.stage = "retiring" /\ active \in Slots
           /\ images[Old] = op.retireImage
           /\ hapMap # Old /\ conns[Old] = 0
           /\ op.kind # "init" => running[Old] = op.retireImage
<1>f. OpFacts(op) /\ ctl = "rebuild" /\ ctl \in Commands /\ ctl # None /\ active \in Slots \cup {None}
  BY OpTypes, Distinct DEF JournalInv, TypeOK, RecreateOld, Commands
<1>c. op.stage = "retiring" /\ op.kind \in Kinds
  BY <1>f, CommandStages DEF JournalInv, JournalTrue, OperationShape, InStage, OpFacts
<1> QED
  BY <1>f, <1>c, SlotFacts
  DEF JournalInv, JournalTrue, OperationShape, TrafficTrue, ImagesTrue, OpFacts, Old

LEMMA FlipFacts ==
    ASSUME JournalInv, HapSetMap
    PROVE  /\ op.candidate \in Slots /\ op.image \in Images /\ active = op.candidate
           /\ vetted[op.candidate] /\ running[op.candidate] = op.image
<1>f. OpFacts(op) /\ ctl = "flip" /\ ctl \in Commands /\ ctl # None
  BY OpTypes, Distinct DEF JournalInv, TypeOK, HapSetMap, Commands
<1>c. op.stage = "cutover" /\ op.kind \in Kinds
  BY <1>f, CommandStages DEF JournalInv, JournalTrue, OperationShape, InStage, OpFacts
<1> QED
  BY <1>f, <1>c, SlotFacts
  DEF JournalInv, JournalTrue, OperationShape, TrafficTrue, ImagesTrue, OpFacts

LEMMA PersistFacts ==
    ASSUME JournalInv, PersistActive
    PROVE  /\ op.candidate \in Slots /\ running[op.candidate] \in Images
           /\ active = None => op.candidate = "a" /\ hapMap = "a"
<1>f. OpFacts(op) /\ ctl = "point" /\ ctl \in Commands /\ ctl # None
  BY OpTypes, Distinct DEF JournalInv, TypeOK, PersistActive, Commands
<1>c. op.stage = "cutover" /\ op.kind \in Kinds
  BY <1>f, CommandStages DEF JournalInv, JournalTrue, OperationShape, InStage, OpFacts
<1> QED
  BY <1>f, <1>c, SlotFacts
  DEF JournalInv, JournalTrue, OperationShape, TrafficTrue, ImagesTrue, OpFacts

\* HAProxy reads another slot than the one in its memory only in the middle of a cutover.
LEMMA RestartFacts ==
    ASSUME JournalInv
    PROVE  /\ active = None => hapMap = "a"
           /\ active # None /\ active # hapMap =>
                /\ active \in Slots /\ active = op.candidate
                /\ vetted[active] /\ running[active] = op.image /\ op.image \in Images
<1>f. OpFacts(op) /\ active \in Slots \cup {None} /\ hapMap \in Slots
  BY OpTypes DEF JournalInv, TypeOK
<1> QED
  BY <1>f, SlotFacts DEF JournalInv, JournalTrue, TrafficTrue, ImagesTrue, OpFacts, Stages

\* Which steps change what the abstract specification sees.
LEMMA Frames ==
    ASSUME [Next]_vars
    PROVE  /\ running' = running \/ RecreateCandidate \/ RecreateOld
           /\ hapMap' = hapMap \/ HapSetMap \/ HaproxyRestarts
           /\ vetted' = vetted \/ RecreateCandidate \/ RecreateOld \/ CandidateReady \/ StandbyReady
           /\ active' = active \/ PersistActive
           /\ \/ conns' = conns
              \/ RecreateCandidate \/ RecreateOld \/ HaproxyRestarts \/ Connect
              \/ \E s \in Slots : Disconnect(s) \/ ReplicaRestarts(s)
<1>1. CASE Operator
  BY <1>1 DEF Operator, Switch, Initialize, Deploy, Start
<1>2. CASE Controller
  <2>1. ASSUME ResumeOperation \/ WriteImages \/ SetActiveRedis \/ Quiesced \/ MapConfirmed
               \/ Drained \/ KeepImage
        PROVE  UNCHANGED <<running, hapMap, vetted, active, conns>>
    BY <2>1
    DEF ResumeOperation, WriteImages, SetActiveRedis, Quiesced, MapConfirmed, Drained, KeepImage
  <2>2. ASSUME CandidateReady \/ StandbyReady
        PROVE  UNCHANGED <<running, hapMap, active, conns>>
    BY <2>2 DEF CandidateReady, StandbyReady
  <2>3. PersistActive => UNCHANGED <<running, hapMap, vetted, conns>>
    BY DEF PersistActive
  <2>4. HapSetMap => UNCHANGED <<running, active, vetted, conns>>
    BY DEF HapSetMap
  <2>5. RecreateCandidate \/ RecreateOld => UNCHANGED <<hapMap, active>>
    BY DEF RecreateCandidate, RecreateOld, Recreate
  <2> QED
    BY <1>2, <2>1, <2>2, <2>3, <2>4, <2>5 DEF Controller
<1>3. CASE Jobs \/ Stop \/ \E s \in Slots : BecomesReady(s)
  BY <1>3 DEF Jobs, Stop, BecomesReady
<1>4. CASE Connect \/ \E s \in Slots : Disconnect(s) \/ ReplicaRestarts(s)
  BY <1>4 DEF Connect, Disconnect, ReplicaRestarts
<1>5. CASE HaproxyRestarts
  BY <1>5 DEF HaproxyRestarts
<1>6. CASE UNCHANGED vars
  BY <1>6 DEF vars
<1> QED
  BY <1>1, <1>2, <1>3, <1>4, <1>5, <1>6 DEF Next
-----------------------------------------------------------------------------
\* No step of the controller stops a container with requests in progress on it, or one that
\* HAProxy sends requests to; the first release apart.
THEOREM StreamsKept == Spec => NoStreamKilled
<1>1. ASSUME JournalInv, [Next]_vars, NEW s \in Slots,
             ctl \in {"recreate", "rebuild"}, vetted[s], ~vetted'[s], op.kind # "init"
      PROVE  conns[s] = 0 /\ hapMap # s
  <2>1. vetted \in [Slots -> BOOLEAN]
    BY <1>1 DEF JournalInv, TypeOK
  <2>2. CASE RecreateCandidate
    <3>1. s = op.candidate
      BY <1>1, <2>2 DEF RecreateCandidate, Recreate
    <3> QED
      BY <1>1, <2>2, <3>1, RecreateFacts
  <2>3. CASE RecreateOld
    <3>1. s = Old
      BY <1>1, <2>3 DEF RecreateOld, Recreate
    <3> QED
      BY <1>1, <2>3, <3>1, RetireFacts
  <2> QED
    BY <1>1, <2>2, <2>3, Frames DEF CandidateReady, StandbyReady
<1>2. JournalInv /\ [Next]_vars
        => [\A s \in Slots : ctl \in {"recreate", "rebuild"} /\ vetted[s] /\ ~vetted'[s]
              /\ op.kind # "init" => conns[s] = 0 /\ hapMap # s]_vars
  BY <1>1
<1> QED
  BY <1>2, JournalAlways, PTL DEF Spec, NoStreamKilled

\* HAProxy never begins to send requests to a slot that the controller has not seen ready
\* since its container was made.
THEOREM Vetted == Spec => NeverUnvetted
<1>1. ASSUME JournalInv, [Next]_vars, hapMap' # hapMap
      PROVE  vetted[hapMap']
  <2>1. CASE HapSetMap
    BY <1>1, <2>1, FlipFacts DEF HapSetMap
  <2>2. CASE HaproxyRestarts
    BY <1>1, <2>2, RestartFacts DEF HaproxyRestarts
  <2> QED
    BY <1>1, <2>1, <2>2, Frames
<1>2. JournalInv /\ [Next]_vars => [hapMap' # hapMap => vetted[hapMap']]_vars
  BY <1>1
<1> QED
  BY <1>2, JournalAlways, PTL DEF Spec, NeverUnvetted

\* A slot gets another version only by the preparation of a release.
THEOREM Rollback == Spec => RollbackPoint
<1>1. ASSUME JournalInv, [Next]_vars, NEW s \in Slots, running'[s] # running[s],
             op.kind # "init"
      PROVE  op.stage = "preparing" /\ s # hapMap
  <2>1. running \in [Slots -> Images \cup {None}]
    BY <1>1 DEF JournalInv, TypeOK
  <2>2. CASE RecreateCandidate
    <3>1. s = op.candidate
      BY <1>1, <2>2 DEF RecreateCandidate, Recreate
    <3> QED
      BY <1>1, <2>2, <3>1, RecreateFacts
  <2>3. CASE RecreateOld
    BY <1>1, <2>3, RetireFacts DEF RecreateOld, Recreate
  <2> QED
    BY <1>1, <2>2, <2>3, Frames
<1>2. JournalInv /\ [Next]_vars
        => [\A s \in Slots : running'[s] # running[s]
              => op.kind = "init" \/ (op.stage = "preparing" /\ s # hapMap)]_vars
  BY <1>1
<1> QED
  BY <1>2, JournalAlways, PTL DEF Spec, RollbackPoint
-----------------------------------------------------------------------------
(* The refinement of SlotSwitch. *)

Serving == IF active = None THEN None ELSE hapMap

LEMMA SwitchInit == Init => Abstract!Init
  BY SlotFacts DEF Init, Abstract!Init

LEMMA SwitchStep ==
    JournalInv /\ [Next]_vars => [Abstract!Next]_<<Serving, running, conns>>
<1> SUFFICES ASSUME JournalInv, [Next]_vars
             PROVE  Abstract!Next \/ UNCHANGED <<Serving, running, conns>>
  OBVIOUS
<1>t. /\ active \in Slots \cup {None} /\ hapMap \in Slots
      /\ images \in [Slots -> Images \cup {None}] /\ running \in [Slots -> Images \cup {None}]
      /\ conns \in [Slots -> 0..MaxConns]
  BY DEF JournalInv, TypeOK
<1>1. CASE RecreateCandidate
  <2>1. /\ op.candidate \in Slots /\ op.image \in Images
        /\ running' = [running EXCEPT ![op.candidate] = op.image]
        /\ conns' = [conns EXCEPT ![op.candidate] = 0]
        /\ UNCHANGED <<active, hapMap>>
    BY <1>1, RecreateFacts DEF RecreateCandidate, Recreate
  <2>2. active = None \/ (active # None /\ hapMap # op.candidate /\ conns[op.candidate] = 0)
    BY <1>1, RecreateFacts
  <2>3. ~(0 > 0)
    OBVIOUS
  <2>4. Abstract!Install(op.candidate)
    BY <2>1, <2>2, <2>3 DEF Abstract!Install, Abstract!Busy
  <2> QED
    BY <2>1, <2>4 DEF Abstract!Next
<1>2. CASE RecreateOld
  <2>1. /\ Old \in Slots /\ op.retireImage \in Images
        /\ running' = [running EXCEPT ![Old] = op.retireImage]
        /\ conns' = [conns EXCEPT ![Old] = 0]
        /\ UNCHANGED <<active, hapMap>>
    BY <1>2, RetireFacts DEF RecreateOld, Recreate
  <2>2. active = None \/ (active # None /\ hapMap # Old /\ conns[Old] = 0)
    BY <1>2, RetireFacts
  <2>3. ~(0 > 0)
    OBVIOUS
  <2>4. Abstract!Install(Old)
    BY <2>1, <2>2, <2>3 DEF Abstract!Install, Abstract!Busy
  <2> QED
    BY <2>1, <2>4 DEF Abstract!Next
<1>3. CASE HapSetMap
  <2>1. Serving = hapMap /\ Serving' = op.candidate /\ UNCHANGED <<running, conns>>
    BY <1>3, FlipFacts, Distinct DEF HapSetMap, Serving
  <2>2. CASE hapMap # op.candidate
    <3>1. Abstract!SwitchTo(op.candidate) /\ op.candidate \in Slots
      BY <1>3, <2>1, <2>2, FlipFacts, Distinct DEF Abstract!SwitchTo, Serving
    <3> QED
      BY <3>1 DEF Abstract!Next
  <2> QED
    BY <2>1, <2>2
<1>4. CASE PersistActive
  <2>1. Abstract!SwitchTo("a") \/ UNCHANGED <<Serving, running, conns>>
    BY <1>4, PersistFacts, SlotFacts DEF PersistActive, Abstract!SwitchTo, Serving
  <2> QED
    BY <2>1, SlotFacts DEF Abstract!Next
<1>5. CASE HaproxyRestarts
  <2>1. conns' = [s \in Slots |-> 0] /\ running' = running /\ active' = active
    BY <1>5 DEF HaproxyRestarts
  <2>2. CASE Serving' = Serving
    BY <2>1, <2>2 DEF Abstract!Next, Abstract!DropAll, Serving
  <2>3. CASE Serving' # Serving
    <3>1. active # None /\ active # hapMap /\ hapMap' = active
      BY <1>5, <2>3 DEF HaproxyRestarts, Serving
    <3>2. Abstract!SwitchTo(active) /\ active \in Slots
      BY <2>1, <3>1, RestartFacts, Distinct DEF Abstract!SwitchTo
    <3> QED
      BY <3>2 DEF Abstract!Next
  <2> QED
    BY <2>2, <2>3
<1>6. CASE Connect
  <2>1. Abstract!Serve(hapMap)
    BY <1>6, <1>t DEF Connect, Abstract!Serve
  <2> QED
    BY <2>1, <1>t DEF Abstract!Next
<1>7. ASSUME NEW s \in Slots, Disconnect(s)
      PROVE  Abstract!Next
  <2>1. Abstract!Serve(s)
    BY <1>7, <1>t DEF Disconnect, Abstract!Serve
  <2> QED
    BY <2>1 DEF Abstract!Next
<1>8. ASSUME NEW s \in Slots, ReplicaRestarts(s)
      PROVE  Abstract!Next \/ UNCHANGED <<Serving, running, conns>>
  <2>1. CASE conns[s] = 0
    BY <1>8, <1>t, <2>1 DEF ReplicaRestarts, Serving
  <2>2. CASE conns[s] # 0
    <3>1. Abstract!Serve(s)
      BY <1>8, <1>t, <2>2 DEF ReplicaRestarts, Abstract!Serve
    <3> QED
      BY <3>1 DEF Abstract!Next
  <2> QED
    BY <2>1, <2>2
<1> QED
  BY <1>1, <1>2, <1>3, <1>4, <1>5, <1>6, <1>7, <1>8, Frames DEF Serving

\* The controller implements the release that SlotSwitch promises, whatever stops, crashes
\* and restarts come between its commands.
THEOREM Refinement == Spec => ImplementsSwitch
<1>1. JournalInv /\ [Next]_vars
        => [Abstract!Next]_<<IF active = None THEN None ELSE hapMap, running, conns>>
  BY SwitchStep DEF Serving
<1> QED
  BY <1>1, SwitchInit, JournalAlways, PTL DEF Spec, ImplementsSwitch, Abstract!Spec
-----------------------------------------------------------------------------
(* The background jobs. *)

\* Who ticks holds the lease.
HolderTicks == \A s \in Slots : job[s] = "tick" => holder = s

\* A step of the job loops begins ticks under the lease, and takes the lease from no tick.
LEMMA HolderStep ==
    ASSUME LeaderTypeOK, HolderTicks, LeaderNext, "slow" \notin LeaderEnv
    PROVE  HolderTicks'
<1> USE DEF HolderTicks
<1>1. ASSUME NEW s \in Slots, JobLoop(s) \/ AcquireFails(s)
      PROVE  HolderTicks'
  <2>1. \A t \in Slots \ {s} : job'[t] = job[t]
    BY <1>1
    DEF LeaderTypeOK, JobLoop, Look, LeaderRelease, LeaderSet, LeaderExtend, TickEnds, Wake,
        AcquireFails, Resume
  <2>2. job'[s] = "tick" => holder' = s
    BY <1>1
    DEF LeaderTypeOK, JobLoop, Look, LeaderRelease, LeaderSet, LeaderExtend, TickEnds, Wake,
        AcquireFails, Resume
  <2>3. ASSUME NEW t \in Slots \ {s}, job[t] = "tick"
        PROVE  holder' = holder
    <3>1. holder = t /\ t # s /\ t # None
      BY <2>3, LeaderAssumption
    <3> QED
      BY <1>1, <3>1
      DEF JobLoop, Look, LeaderRelease, LeaderSet, LeaderExtend, TickEnds, Wake, AcquireFails
  <2> QED
    BY <2>1, <2>2, <2>3
<1>2. ASSUME LeaseClock, NEW s \in Slots, job'[s] = "tick"
      PROVE  holder' = s
  BY <1>2 DEF LeaseClock
<1> QED
  BY <1>1, <1>2 DEF LeaderNext

\* The controller and the environment start no tick and leave the lease alone.
LEMMA JobFrames ==
    ASSUME [Next]_vars
    PROVE  \/ LeaderNext
           \/ UNCHANGED <<holder, lease, job, led>>
           \/ UNCHANGED <<holder, lease>> /\ \E s \in Slots \cup {op.candidate, Old} : StartJobs(s)
<1>1. CASE Operator
  BY <1>1 DEF Operator, Switch, Initialize, Deploy, Start
<1>2. CASE Controller
  BY <1>2
  DEF Controller, ResumeOperation, WriteImages, RecreateCandidate, CandidateReady, SetActiveRedis,
      Quiesced, PersistActive, HapSetMap, MapConfirmed, Drained, KeepImage, RecreateOld,
      StandbyReady, Recreate
<1>3. CASE Jobs \/ UNCHANGED vars
  BY <1>3 DEF Jobs, vars
<1>4. ASSUME Connect \/ Stop \/ HaproxyRestarts
             \/ \E s \in Slots : Disconnect(s) \/ BecomesReady(s) \/ ReplicaRestarts(s)
      PROVE  \/ UNCHANGED <<holder, lease, job, led>>
             \/ UNCHANGED <<holder, lease>> /\ \E s \in Slots : StartJobs(s)
  BY <1>4
  DEF Connect, Stop, HaproxyRestarts, Disconnect, BecomesReady, ReplicaRestarts
<1> QED
  BY <1>1, <1>2, <1>3, <1>4 DEF Next

\* While a tick is over before its lease is, one replica at a time runs background jobs, through
\* every release, stop and restart and whichever Redis commands fail.
THEOREM OneAtWork ==
    ASSUME "slow" \notin LeaderEnv
    PROVE  Spec => []OneTick
<1>1. Init => HolderTicks
  BY DEF Init, HolderTicks
<1>2. ASSUME TypeOK, HolderTicks, [Next]_vars
      PROVE  HolderTicks'
  <2>1. job \in [Slots -> JobStages]
    BY <1>2 DEF TypeOK, LeaderTypeOK
  <2>2. ASSUME NEW s, StartJobs(s), UNCHANGED holder
        PROVE  HolderTicks'
    BY <1>2, <2>1, <2>2 DEF StartJobs, HolderTicks
  <2>3. CASE LeaderNext
    BY <1>2, <2>3, HolderStep DEF TypeOK
  <2>4. CASE UNCHANGED <<holder, lease, job, led>>
    BY <1>2, <2>4 DEF HolderTicks
  <2> QED
    BY <1>2, <2>2, <2>3, <2>4, JobFrames
<1>3. HolderTicks => OneTick
  BY DEF HolderTicks, OneTick
<1> QED
  BY <1>1, <1>2, <1>3, TypeCorrect, PTL DEF Spec

\* A job loop that finds no reason to compete for the lease.
Quiet(s) == job[s] \in {"look", "sleep"} /\ ~led[s]

\* From its recreation on, the slot out of service is quiet: the marker names the other one.
QuietInv ==
    /\ op.stage = "idle" /\ active # None => Quiet(Other(active))
    /\ ctl = "standby" => Quiet(Old)

LEMMA StaysQuiet ==
    ASSUME LeaderTypeOK, LeaderNext, "redis" \notin LeaderEnv,
           NEW s \in Slots, Quiet(s), mark \notin {s, None}
    PROVE  Quiet(s)'
<1>1. ASSUME NEW t \in Slots, JobLoop(t) \/ AcquireFails(t)
      PROVE  Quiet(s)'
  <2>1. CASE t = s
    BY <1>1, <2>1
    DEF LeaderTypeOK, Quiet, JobLoop, Look, SlotActive, LeaderRelease, LeaderSet, LeaderExtend,
        TickEnds, Wake, AcquireFails, Resume
  <2>2. CASE t # s
    BY <1>1, <2>2
    DEF LeaderTypeOK, Quiet, JobLoop, Look, LeaderRelease, LeaderSet, LeaderExtend, TickEnds, Wake,
        AcquireFails, Resume
  <2> QED
    BY <2>1, <2>2
<1>2. CASE LeaseClock
  BY <1>2 DEF LeaseClock, Quiet
<1> QED
  BY <1>1, <1>2 DEF LeaderNext

\* The standby stays quiet between operations, where every read of the marker succeeds.
THEOREM StandbyAtRest ==
    ASSUME "redis" \notin LeaderEnv
    PROVE  Spec => []StandbyIdle
<1>1. Init => QuietInv
  <2> SUFFICES ASSUME Init PROVE QuietInv
    OBVIOUS
  <2>1. active # None => Quiet(Other(active))
    BY SlotFacts DEF Init, Quiet
  <2> QED
    BY <2>1, Distinct DEF Init, QuietInv, Commands
<1>2. ASSUME JournalInv, QuietInv, [Next]_vars
      PROVE  QuietInv'
  <2>0. LeaderTypeOK /\ OpFacts(op) /\ active \in Slots \cup {None} /\ ctl \in Commands \cup {None}
    BY <1>2, OpTypes DEF JournalInv, TypeOK
  <2>1. ASSUME op.stage = "idle", active # None
        PROVE  mark = active /\ Other(active) \in Slots /\ mark \notin {Other(active), None}
               /\ ctl = None
    BY <1>2, <2>0, <2>1, SlotFacts
    DEF JournalInv, JournalTrue, MarkTrue, OperationShape, CommandsOf, OpFacts, Kinds
  <2>2. ASSUME ctl = "standby"
        PROVE  Old \in Slots /\ mark \notin {Old, None} /\ active = Other(Old) /\ op.stage = "retiring"
    <3>1. ctl \in Commands /\ ctl # None
      BY <2>2, Distinct DEF Commands
    <3>2. op.stage = "retiring" /\ op.kind \in Kinds
      BY <1>2, <2>0, <2>2, <3>1, CommandStages
      DEF JournalInv, JournalTrue, OperationShape, InStage, OpFacts
    <3> QED
      BY <1>2, <2>0, <3>2, SlotFacts
      DEF JournalInv, JournalTrue, OperationShape, TrafficTrue, MarkTrue, OpFacts, Old
  <2>3. ASSUME UNCHANGED <<op, active>>, ctl' = "standby" => ctl = "standby",
               \A s \in Slots : Quiet(s) /\ mark \notin {s, None} => Quiet(s)'
        PROVE  QuietInv'
    BY <1>2, <2>1, <2>2, <2>3 DEF QuietInv, Old
  <2>4. ASSUME op'.stage # "idle", ctl' # "standby"
        PROVE  QuietInv'
    BY <2>4 DEF QuietInv
  <2>5. CASE StandbyReady
    BY <1>2, <2>2, <2>5, SlotFacts, Distinct DEF StandbyReady, QuietInv, Quiet, Idle, Commands
  <2>6. CASE RecreateOld
    <3>1. Old \in Slots /\ op.stage = "retiring"
      BY <1>2, <2>6, RetireFacts
    <3>2. Quiet(Old)' /\ Old' = Old /\ op' = op
      BY <2>0, <2>6, <3>1 DEF RecreateOld, Recreate, StartJobs, Quiet, Old, LeaderTypeOK
    <3> QED
      BY <3>1, <3>2 DEF QuietInv
  <2>7. CASE Operator
    BY <2>4, <2>7 DEF Operator, Switch, Initialize, Deploy, Start
  <2>8. CASE ResumeOperation
    BY <2>0, <2>4, <2>8 DEF ResumeOperation, FirstCommand, OpFacts, Stages
  <2>9. CASE \/ WriteImages \/ RecreateCandidate \/ CandidateReady \/ SetActiveRedis \/ Quiesced
             \/ PersistActive \/ HapSetMap \/ MapConfirmed \/ Drained \/ KeepImage
    <3>1. ctl \in Commands /\ ctl # None /\ ctl' # "standby"
      BY <2>9, Distinct
      DEF WriteImages, RecreateCandidate, CandidateReady, SetActiveRedis, Quiesced, PersistActive,
          HapSetMap, MapConfirmed, Drained, KeepImage, Commands
    <3>2. op \in Operations /\ op.stage # "idle"
      BY <1>2, <2>0, <3>1, CommandStages, OpStarted
      DEF JournalInv, TypeOK, JournalTrue, OperationShape, OpFacts
    <3>3. UNCHANGED op \/ \E stage \in Stages : Journal(stage)
      BY <2>9
      DEF WriteImages, RecreateCandidate, CandidateReady, SetActiveRedis, Quiesced, PersistActive,
          HapSetMap, MapConfirmed, Drained, KeepImage, Stages
    <3>4. op'.stage # "idle"
      BY <3>2, <3>3, Moves DEF Moved, Stages
    <3> QED
      BY <2>4, <3>1, <3>4
  <2>10. CASE Jobs
    BY <1>2, <2>0, <2>3, <2>10, StaysQuiet DEF Jobs
  <2>11. CASE \/ Connect \/ Stop \/ HaproxyRestarts \/ UNCHANGED vars
              \/ \E s \in Slots : Disconnect(s) \/ BecomesReady(s)
    <3>1. UNCHANGED <<op, active, job, led>> /\ (ctl' = "standby" => ctl = "standby")
      BY <2>11, Distinct
      DEF Connect, Stop, HaproxyRestarts, vars, Disconnect, BecomesReady, Commands
    <3> QED
      BY <2>3, <3>1 DEF Quiet
  <2>12. ASSUME NEW s \in Slots, ReplicaRestarts(s)
         PROVE  QuietInv'
    <3>1. UNCHANGED <<op, active, ctl>> /\ StartJobs(s)
      BY <2>12 DEF ReplicaRestarts
    <3> QED
      BY <2>0, <2>3, <3>1 DEF StartJobs, Quiet, LeaderTypeOK
  <2> QED
    BY <1>2, <2>5, <2>6, <2>7, <2>8, <2>9, <2>10, <2>11, <2>12 DEF Next, Controller
<1>3. QuietInv => StandbyIdle
  BY DEF QuietInv, Quiet, StandbyIdle
<1> QED
  BY <1>1, <1>2, <1>3, JournalAlways, PTL DEF Spec
=============================================================================
