------------------------------ MODULE TaskPool ------------------------------
(***************************************************************************)
(* What a pool of threads promises the code that schedules tasks on it     *)
(* (threading/ThreadPool.rs seen from outside): a task counts as open from *)
(* the moment it is submitted until it has finished, it is started once,   *)
(* and at most Limit tasks run at a time.                                  *)
(***************************************************************************)
EXTENDS Integers

CONSTANT Limit

VARIABLES open, waiting, running

Init == open = 0 /\ waiting = 0 /\ running = 0

Submit ==
  /\ open' > open /\ waiting' - waiting = open' - open
  /\ UNCHANGED running

Start ==
  /\ waiting > 0 /\ running < Limit
  /\ waiting' = waiting - 1 /\ running' = running + 1 /\ UNCHANGED open

Finish ==
  /\ running > 0
  /\ open' = open - 1 /\ running' = running - 1 /\ UNCHANGED waiting

Next == Submit \/ Start \/ Finish

Spec == Init /\ [][Next]_<<open, waiting, running>>
=============================================================================
