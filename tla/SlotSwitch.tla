----------------------------- MODULE SlotSwitch -----------------------------
(***************************************************************************)
(* What an A/B release promises (README.md, "Releases"): one slot serves,  *)
(* a switch is a single step to the other slot, and a slot is rebuilt with *)
(* another version only while nothing is being served from it.             *)
(***************************************************************************)
EXTENDS Naturals

CONSTANTS Slots, Images, None

VARIABLES
    serving,    \* the slot that new requests go to, None before the first release
    version,    \* the image each slot runs
    streams     \* requests in progress on each slot

Busy(s) == streams[s] > 0

Init ==
    /\ serving \in Slots \cup {None}
    /\ version \in [Slots -> Images \cup {None}]
    /\ streams = [s \in Slots |-> 0]

Install(s) ==
    /\ serving = None \/ (serving # s /\ ~Busy(s))
    /\ \E i \in Images : version' = [version EXCEPT ![s] = i]
    /\ streams' = [streams EXCEPT ![s] = 0]
    /\ UNCHANGED serving

SwitchTo(s) ==
    /\ s # serving /\ version[s] # None
    /\ serving' = s
    /\ \/ UNCHANGED streams
       \/ streams' = [x \in Slots |-> 0]
    /\ UNCHANGED version

\* Requests come to the serving slot only; they end on any.
Serve(s) ==
    /\ streams' \in [Slots -> Nat]
    /\ \/ streams'[s] < streams[s]
       \/ serving \in {s, None}
    /\ \A x \in Slots \ {s} : streams'[x] = streams[x]
    /\ UNCHANGED <<serving, version>>

\* The proxy in front of the slots restarts.
DropAll ==
    /\ streams' = [x \in Slots |-> 0]
    /\ UNCHANGED <<serving, version>>

Next ==
    \/ \E s \in Slots : Install(s) \/ SwitchTo(s) \/ Serve(s)
    \/ DropAll

Spec == Init /\ [][Next]_<<serving, version, streams>>
=============================================================================
