----------------------------- MODULE InstallPlan -----------------------------
(***************************************************************************)
(* What an isolated install promises, seen from outside: every entry of    *)
(* the store is settled (installed, skipped or failed) once and for all,   *)
(* an entry links the binaries of its dependencies and runs its scripts    *)
(* only when the dependencies it has to wait for are settled, and the      *)
(* install returns when every entry is settled, unless it is aborted.      *)
(***************************************************************************)
CONSTANTS Entries, Needs    \* Needs[e]: the entries e has to wait for

VARIABLES phase, outcome

Init == phase = [e \in Entries |-> "waiting"] /\ outcome = "running"

Open(e) ==
  /\ phase[e] = "waiting" /\ \A d \in Needs[e] : phase[d] = "settled"
  /\ phase' = [phase EXCEPT ![e] = "open"]

Settle(e) ==
  /\ phase[e] # "settled"
  /\ phase' = [phase EXCEPT ![e] = "settled"]

Return == outcome' = "returned" /\ \A e \in Entries : phase[e] = "settled"

Abort == outcome' = "aborted"

Next ==
  /\ outcome = "running"
  /\ \/ \E e \in Entries : (Open(e) \/ Settle(e)) /\ UNCHANGED outcome
     \/ (Return \/ Abort) /\ UNCHANGED phase

Spec == Init /\ [][Next]_<<phase, outcome>>
=============================================================================
