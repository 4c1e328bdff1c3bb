-------------------------------- MODULE Mutex --------------------------------
(***************************************************************************)
(* Mutex of src/js/bun/parallel.ts: the word is 0 when free, 1 when        *)
(* locked.                                                                 *)
(***************************************************************************)
EXTENDS Naturals, FiniteSets, AtomicWord

mutexVars == <<view, pc>>

MutexInit ==
    /\ view = 0
    /\ pc = [a \in Agents |-> "idle"]

(* lock() *)
Lock(a) ==
    /\ pc[a] = "idle"
    /\ Goes(a, "cas")
    /\ UNCHANGED view

(* compareExchange(v, 0, 0, 1) *)
LockTakes(a) ==
    /\ pc[a] = "cas" /\ view = 0
    /\ view' = 1
    /\ Goes(a, "holding")

LockFails(a) ==
    /\ pc[a] = "cas" /\ view # 0
    /\ Goes(a, "wait")
    /\ UNCHANGED view

(* Mutant: waitAsync does not compare the value. *)
MutLockWaits(a) ==
    /\ pc[a] = "wait"
    /\ Goes(a, "asleep")
    /\ UNCHANGED view

(* waitAsync(v, 0, 1) joins the waiters only if the value still is 1. *)
LockWaits(a) ==
    /\ pc[a] = "wait"
    /\ Goes(a, IF view = 1 THEN "asleep" ELSE "cas")
    /\ UNCHANGED view

(* Mutant: tryLock() adds and never tests. *)
MutTryLock(a) ==
    /\ pc[a] = "idle"
    /\ view' = view + 1
    /\ Goes(a, "holding")

(* tryLock(); when it returns false nothing has changed. *)
TryLock(a) ==
    /\ pc[a] = "idle" /\ view = 0
    /\ view' = 1
    /\ Goes(a, "holding")

(* unlock(): the store, then notify(v, 0, 1). *)
Unlock(a) ==
    /\ pc[a] = "holding"
    /\ view' = 0
    /\ Goes(a, "notify")

(* Mutant: unlock() wakes nobody. *)
MutUnlockWakes(a) ==
    /\ pc[a] = "notify"
    /\ Goes(a, "idle")
    /\ UNCHANGED view

UnlockWakes(a) ==
    /\ pc[a] = "notify"
    /\ \/ /\ At({"asleep"}) = {}
          /\ Goes(a, "idle")
       \/ \E b \in At({"asleep"}) : pc' = [pc EXCEPT ![a] = "idle", ![b] = "cas"]
    /\ UNCHANGED view

MutexSteps(a) == LockTakes(a) \/ LockFails(a) \/ LockWaits(a) \/ Unlock(a) \/ UnlockWakes(a)
MutexNext == \E a \in Agents : Lock(a) \/ TryLock(a) \/ MutexSteps(a)

(* Threads run, and with() releases on return and on throw. *)
MutexFairness == \A a \in Agents : WF_mutexVars(MutexSteps(a))

MutexSpec == MutexInit /\ [][MutexNext]_mutexVars /\ MutexFairness

-----------------------------------------------------------------------------
(* The word is 0 or 1, and every agent is at a place of the code. *)
MutexTypeOK ==
    /\ view \in {0, 1}
    /\ pc \in [Agents -> {"idle", "cas", "wait", "asleep", "holding", "notify"}]

(* At most one agent holds the lock, and the word says whether one does. *)
MutualExclusion ==
    /\ \A a, b \in Holding : a = b
    /\ view = 1 <=> Holding # {}

(* No wake-up is lost: while the lock is free and an agent sleeps, another *)
(* is about to try for it or to wake a sleeper.                            *)
FreeLockWakes ==
    view = 0 /\ At({"asleep"}) # {} => At({"cas", "wait", "notify"}) # {}

(* A lock that somebody asked for gets held, whoever gets it: the order is *)
(* unspecified and an agent may be overtaken for ever.                     *)
SomeoneGetsIn == At({"cas", "wait", "asleep"}) # {} ~> Holding # {}

(* Seen through the agents that hold it, the mutex is one permit that is   *)
(* taken and given back.                                                   *)
OnePermit == INSTANCE Permits WITH Limit <- 1, holders <- Holding
ImplementsPermit == OnePermit!Spec
=============================================================================
