------------------------------ MODULE AtomicWord ------------------------------
(***************************************************************************)
(* What Mutex and Semaphore of src/js/bun/parallel.ts share: one int32 in  *)
(* a SharedArrayBuffer and the waiter list of Atomics.waitAsync on it.     *)
(* Agents are the callers: async tasks, on any thread.  Every Atomics      *)
(* operation is a step of its own; the list is woken in no given order.    *)
(***************************************************************************)
CONSTANT Agents

VARIABLES
    view,   \* view[0]
    pc      \* agent |-> where it is; "asleep" are the agents in the waiter list

At(S) == {a \in Agents : pc[a] \in S}
Holding == At({"holding"})
Goes(a, p) == pc' = [pc EXCEPT ![a] = p]
=============================================================================
