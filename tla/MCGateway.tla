----------------------------- MODULE MCGateway ------------------------------
(* Small instances of Gateway for TLC. *)
EXTENDS Gateway, TLC

CONSTANTS r1, k1, p1, p2

MCCounters == Keys \cup Accounts
OneKey     == [r \in Requests |-> k1]
OneReplica == [r \in Requests |-> p1]
TwoReplicas == [r \in Requests |-> IF r = r1 THEN p1 ELSE p2]
AllOne     == [c \in Counters |-> 1]
Symmetry   == Permutations(Requests) \cup Permutations(Accounts)
KeyTwo     == [c \in Counters |-> IF c = k1 THEN 2 ELSE 1]
=============================================================================
