------------------------------- MODULE Permits -------------------------------
(* What a lock or a counting semaphore promises: at most Limit agents hold *)
(* a permit, an agent takes one only while one is free and gives back the  *)
(* one it holds.                                                           *)
EXTENDS Naturals, FiniteSets

CONSTANTS Agents, Limit

VARIABLE holders

Init == holders = {}

Take(a) ==
    /\ a \notin holders
    /\ Cardinality(holders) < Limit
    /\ holders' = holders \cup {a}

Give(a) ==
    /\ a \in holders
    /\ holders' = holders \ {a}

Next == \E a \in Agents : Take(a) \/ Give(a)

Spec == Init /\ [][Next]_holders
=============================================================================
