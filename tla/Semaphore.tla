------------------------------ MODULE Semaphore ------------------------------
(***************************************************************************)
(* Semaphore of src/js/bun/parallel.ts: the word counts the free permits.  *)
(* It wraps at Half, 2^31 in the code.  Agents release only what they took.*)
(***************************************************************************)
EXTENDS Integers, FiniteSets, AtomicWord

CONSTANTS
    Permits,    \* initialPermits
    Half        \* the word holds -Half .. Half - 1

ASSUME PermitsAssumption == Permits \in Nat /\ Half \in Nat \ {0}

Wrap(n) == ((n + Half) % (2 * Half)) - Half

VARIABLE
    cur     \* agent |-> the value it loaded

vars == <<view, cur, pc>>

(* The constructor checks only that Permits is a non-negative integer. *)
Init ==
    /\ view = Wrap(Permits)
    /\ cur = [a \in Agents |-> 0]
    /\ pc = [a \in Agents |-> "idle"]

(* acquire() and tryAcquire() *)
Acquire(a) ==
    /\ pc[a] = "idle"
    /\ Goes(a, "load")
    /\ UNCHANGED <<view, cur>>

TryAcquire(a) ==
    /\ pc[a] = "idle"
    /\ Goes(a, "tryLoad")
    /\ UNCHANGED <<view, cur>>

Load(a) ==
    /\ pc[a] = "load"
    /\ cur' = [cur EXCEPT ![a] = view]
    /\ Goes(a, IF view > 0 THEN "cas" ELSE "wait")
    /\ UNCHANGED view

TryLoad(a) ==
    /\ pc[a] = "tryLoad"
    /\ cur' = [cur EXCEPT ![a] = view]
    /\ Goes(a, IF view > 0 THEN "tryCas" ELSE "idle")
    /\ UNCHANGED view

(* Mutant: the permit is taken with a store of the loaded value less one. *)
MutCasTakes(a) ==
    /\ pc[a] \in {"cas", "tryCas"}
    /\ view' = cur[a] - 1
    /\ Goes(a, "holding")
    /\ UNCHANGED cur

(* compareExchange(v, 0, cur, cur - 1) *)
CasTakes(a) ==
    /\ pc[a] \in {"cas", "tryCas"} /\ view = cur[a]
    /\ view' = cur[a] - 1
    /\ Goes(a, "holding")
    /\ UNCHANGED cur

CasFails(a) ==
    /\ pc[a] \in {"cas", "tryCas"} /\ view # cur[a]
    /\ Goes(a, IF pc[a] = "cas" THEN "load" ELSE "tryLoad")
    /\ UNCHANGED <<view, cur>>

(* Mutant: the waiter sleeps on the value it loaded, without comparing. *)
MutWaitAsync(a) ==
    /\ pc[a] = "wait"
    /\ Goes(a, "asleep")
    /\ UNCHANGED <<view, cur>>

(* waitAsync(v, 0, 0) *)
WaitAsync(a) ==
    /\ pc[a] = "wait"
    /\ Goes(a, IF view = 0 THEN "asleep" ELSE "load")
    /\ UNCHANGED <<view, cur>>

(* release(): the add, then notify(v, 0, 1). *)
Release(a) ==
    /\ pc[a] = "holding"
    /\ view' = Wrap(view + 1)
    /\ Goes(a, "notify")
    /\ UNCHANGED cur

(* Mutant: release() wakes only when no permit was free before. *)
MutNotify(a) ==
    /\ pc[a] = "notify"
    /\ IF view > 1 \/ At({"asleep"}) = {} THEN Goes(a, "idle")
       ELSE \E b \in At({"asleep"}) : pc' = [pc EXCEPT ![a] = "idle", ![b] = "load"]
    /\ UNCHANGED <<view, cur>>

Notify(a) ==
    /\ pc[a] = "notify"
    /\ \/ /\ At({"asleep"}) = {}
          /\ Goes(a, "idle")
       \/ \E b \in At({"asleep"}) : pc' = [pc EXCEPT ![a] = "idle", ![b] = "load"]
    /\ UNCHANGED <<view, cur>>

Steps(a) ==
    \/ Load(a) \/ TryLoad(a)
    \/ CasTakes(a) \/ CasFails(a)
    \/ WaitAsync(a)
    \/ Release(a) \/ Notify(a)
Next == \E a \in Agents : Acquire(a) \/ TryAcquire(a) \/ Steps(a)

(* Threads run, and with() releases on return and on throw. *)
Fairness == \A a \in Agents : WF_vars(Steps(a))

Spec == Init /\ [][Next]_vars /\ Fairness

-----------------------------------------------------------------------------
(* The word never turns negative, and every agent is at a place of the     *)
(* code.                                                                   *)
TypeOK ==
    /\ view \in 0..(Half - 1)
    /\ cur \in [Agents -> 0..(Half - 1)]
    /\ pc \in [Agents -> {"idle", "load", "cas", "tryLoad", "tryCas", "wait",
                          "asleep", "holding", "notify"}]

(* Permits are conserved: the word counts those that nobody holds, and no  *)
(* more than Permits agents ever hold one.                                 *)
PermitsConserved ==
    /\ view + Cardinality(Holding) = Permits
    /\ Cardinality(Holding) <= Permits

(* No wake-up is lost: while an agent sleeps, every free permit has an     *)
(* agent that is about to try for it or to wake a sleeper for it.          *)
NoLostWakeup ==
    At({"asleep"}) # {} => view <= Cardinality(At({"load", "cas", "wait", "notify"}))

(* Seen through the agents that hold one, the semaphore is Permits permits *)
(* that are taken and given back, never created.                           *)
Counting == INSTANCE Permits WITH Limit <- Permits, holders <- Holding
ImplementsPermits == Counting!Spec
=============================================================================
