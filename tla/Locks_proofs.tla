---------------------------- MODULE Locks_proofs ----------------------------
(* Proofs about Mutex, for every set of agents: mutual exclusion, no lost  *)
(* wake-up, and that the mutex implements a single permit; and about       *)
(* Semaphore, for every finite set of agents and every number of permits   *)
(* the word can hold: permits are conserved, no wake-up is lost, and the   *)
(* semaphore implements Permits permits.                                   *)
EXTENDS Mutex, Semaphore, FiniteSetTheorems, TLAPS

MutexInv == MutexTypeOK /\ MutualExclusion /\ FreeLockWakes

LEMMA MutexInitInv == MutexInit => MutexInv
BY DEF MutexInit, MutexInv, MutexTypeOK, MutualExclusion, FreeLockWakes, Holding, At

(* Each step moves the agents it names; the others stay where they are. *)
LEMMA MutexNextInv == MutexInv /\ [MutexNext]_mutexVars => MutexInv'
<1> SUFFICES ASSUME MutexInv, [MutexNext]_mutexVars PROVE MutexInv'
  OBVIOUS
<1> USE DEF MutexInv, MutexTypeOK, MutualExclusion, FreeLockWakes, Holding, At, Goes
<1>1. ASSUME NEW a \in Agents, Lock(a) PROVE MutexInv'
  BY <1>1 DEF Lock
<1>2. ASSUME NEW a \in Agents, TryLock(a) PROVE MutexInv'
  BY <1>2 DEF TryLock
<1>3. ASSUME NEW a \in Agents, LockTakes(a) PROVE MutexInv'
  BY <1>3 DEF LockTakes
<1>4. ASSUME NEW a \in Agents, LockFails(a) PROVE MutexInv'
  BY <1>4 DEF LockFails
<1>5. ASSUME NEW a \in Agents, LockWaits(a) PROVE MutexInv'
  BY <1>5 DEF LockWaits
<1>6. ASSUME NEW a \in Agents, Unlock(a) PROVE MutexInv'
  BY <1>6 DEF Unlock
<1>7. ASSUME NEW a \in Agents, UnlockWakes(a) PROVE MutexInv'
  BY <1>7 DEF UnlockWakes
<1>8. CASE UNCHANGED mutexVars
  BY <1>8 DEF mutexVars
<1>9. QED
  BY <1>1, <1>2, <1>3, <1>4, <1>5, <1>6, <1>7, <1>8 DEF MutexNext, MutexSteps

LEMMA MutexInvCorrect == MutexSpec => []MutexInv
<1>1. QED
  BY MutexInitInv, MutexNextInv, PTL DEF MutexSpec

(* At most one agent holds the mutex, whatever the number of agents and    *)
(* the interleaving of their atomic operations.                            *)
THEOREM MutexExcludes == MutexSpec => []MutualExclusion
<1>1. MutexInv => MutualExclusion
  BY DEF MutexInv
<1>2. QED
  BY <1>1, MutexInvCorrect, PTL

(* A sleeping agent is never left alone with a free lock. *)
THEOREM LockIsHandedOver == MutexSpec => []FreeLockWakes
<1>1. MutexInv => FreeLockWakes
  BY DEF MutexInv
<1>2. QED
  BY <1>1, MutexInvCorrect, PTL

(* A step of the mutex takes the permit, gives it back, or leaves it.      *)
LEMMA MutexStepRefines == MutexInv /\ [MutexNext]_mutexVars => [OnePermit!Next]_Holding
<1> SUFFICES ASSUME MutexInv, [MutexNext]_mutexVars PROVE [OnePermit!Next]_Holding
  OBVIOUS
<1> USE DEF MutexInv, MutexTypeOK, Holding, At, Goes
<1>1. ASSUME NEW a \in Agents, view = 0, view' = 1, pc[a] # "holding",
             pc' = [pc EXCEPT ![a] = "holding"]
      PROVE OnePermit!Take(a)
  <2>1. Holding = {}
    BY <1>1 DEF MutualExclusion
  <2>2. Cardinality(Holding) < 1
    BY <2>1, FS_EmptySet
  <2>3. Holding' = Holding \cup {a}
    BY <1>1
  <2>4. OnePermit!Cardinality(Holding) = Cardinality(Holding)
    BY DEF OnePermit!Cardinality, Cardinality
  <2>5. QED
    BY <1>1, <2>2, <2>3, <2>4 DEF OnePermit!Take
<1>2. ASSUME NEW a \in Agents, Unlock(a) PROVE OnePermit!Give(a)
  BY <1>2 DEF Unlock, OnePermit!Give
<1>3. ASSUME NEW a \in Agents,
             \/ Lock(a) \/ LockFails(a) \/ LockWaits(a) \/ UnlockWakes(a)
      PROVE UNCHANGED Holding
  BY <1>3 DEF Lock, LockFails, LockWaits, UnlockWakes
<1>4. ASSUME NEW a \in Agents, TryLock(a) \/ LockTakes(a) PROVE OnePermit!Take(a)
  <2>1. view = 0 /\ view' = 1 /\ pc[a] # "holding" /\ pc' = [pc EXCEPT ![a] = "holding"]
    BY <1>4 DEF TryLock, LockTakes
  <2>2. QED
    BY <2>1, <1>1
<1>5. CASE UNCHANGED mutexVars
  BY <1>5 DEF mutexVars
<1>6. QED
  BY <1>2, <1>3, <1>4, <1>5 DEF MutexNext, MutexSteps, OnePermit!Next

(* The mutex, seen through the set of agents that hold it, is one permit. *)
THEOREM MutexIsOnePermit == MutexSpec => ImplementsPermit
<1>1. MutexInit => OnePermit!Init
  BY DEF MutexInit, Holding, At, OnePermit!Init
<1>2. QED
  BY <1>1, MutexStepRefines, MutexInvCorrect, PTL DEF MutexSpec, ImplementsPermit, OnePermit!Spec

-----------------------------------------------------------------------------
(* What the results need: finitely many agents, and a permit count below   *)
(* the word's sign bit.                                                    *)
Fits == IsFiniteSet(Agents) /\ Permits < Half

Trying == At({"load", "cas", "wait", "notify"})
Asleep == At({"asleep"})

(* An agent that goes on to compareExchange has loaded a positive count.   *)
LoadedPositive == \A a \in At({"cas", "tryCas"}) : cur[a] > 0

Inv == TypeOK /\ PermitsConserved /\ LoadedPositive /\ NoLostWakeup

LEMMA AtIsFinite ==
  ASSUME IsFiniteSet(Agents), NEW S
  PROVE  IsFiniteSet(At(S)) /\ Cardinality(At(S)) \in Nat
BY FS_Subset, FS_CardinalityType DEF At

LEMMA InitInv == Fits /\ Init => Inv
<1> SUFFICES ASSUME Fits, Init PROVE Inv
  OBVIOUS
<1>1. view = Permits
  BY PermitsAssumption DEF Init, Wrap, Fits
<1>2. Cardinality(Holding) = 0
  <2>1. Holding = {}
    BY DEF Init, Holding, At
  <2>2. QED
    BY <2>1, FS_EmptySet
<1>3. TypeOK
  BY <1>1, PermitsAssumption DEF Init, TypeOK, Fits
<1>4. PermitsConserved
  BY <1>1, <1>2, PermitsAssumption DEF PermitsConserved
<1>5. LoadedPositive /\ NoLostWakeup
  BY DEF Init, LoadedPositive, NoLostWakeup, At
<1>6. QED
  BY <1>3, <1>4, <1>5 DEF Inv

(* A step that takes no permit, gives none back and puts nobody to sleep   *)
(* keeps the two counting invariants when no agent stops trying.           *)
LEMMA Uncounted ==
  ASSUME Fits, Inv, UNCHANGED view, Holding' = Holding,
         Trying \subseteq Trying', Asleep' \subseteq Asleep
  PROVE  PermitsConserved' /\ NoLostWakeup'
<1>1. PermitsConserved'
  BY DEF Inv, PermitsConserved
<1>2. IsFiniteSet(Agents) /\ Trying' = {a \in Agents : pc'[a] \in {"load", "cas", "wait", "notify"}}
  BY DEF Fits, Trying, At
<1>3. IsFiniteSet(Trying')
  BY <1>2, FS_Subset
<1>4. Cardinality(Trying) <= Cardinality(Trying')
  BY <1>3, FS_Subset
<1>5. Cardinality(Trying) \in Nat /\ Cardinality(Trying') \in Nat
  BY <1>3, AtIsFinite, FS_CardinalityType DEF Fits, Trying
<1>6. NoLostWakeup'
  BY <1>4, <1>5 DEF Inv, TypeOK, NoLostWakeup, Trying, Asleep
<1>7. QED
  BY <1>1, <1>6

LEMMA TakeKeepsInv ==
  ASSUME Fits, Inv, NEW a \in Agents, CasTakes(a)
  PROVE  Inv'
<1> USE DEF Inv, TypeOK, Goes
<1>1. view' = view - 1 /\ view > 0 /\ cur' = cur /\ pc' = [pc EXCEPT ![a] = "holding"]
  BY DEF CasTakes, LoadedPositive, At
<1>2. TypeOK'
  BY <1>1, PermitsAssumption
<1>3. Cardinality(Holding') = Cardinality(Holding) + 1
  <2>1. a \notin Holding /\ Holding' = Holding \cup {a}
    BY <1>1 DEF Holding, At, CasTakes
  <2>2. QED
    BY <2>1, AtIsFinite, FS_AddElement DEF Fits, Holding
<1>4. PermitsConserved'
  BY <1>1, <1>3, AtIsFinite, PermitsAssumption DEF PermitsConserved, Fits, Holding
<1>5. LoadedPositive'
  BY <1>1 DEF LoadedPositive, At
<1>6. NoLostWakeup'
  <2>1. Asleep' = Asleep /\ Trying' = Trying \ {a}
    BY <1>1 DEF Asleep, Trying, At, CasTakes
  <2>2. IsFiniteSet(Trying) /\ Cardinality(Trying) \in Nat
    BY AtIsFinite DEF Fits, Trying
  <2>3. Cardinality(Trying') >= Cardinality(Trying) - 1
    <3>1. Cardinality(Trying \ {a}) =
            IF a \in Trying THEN Cardinality(Trying) - 1 ELSE Cardinality(Trying)
      BY <2>2, FS_RemoveElement
    <3>2. QED
      BY <2>1, <2>2, <3>1
  <2>4. Cardinality(Trying') \in Nat
    BY <2>1, <2>2, FS_RemoveElement, FS_CardinalityType
  <2>5. QED
    BY <1>1, <2>1, <2>2, <2>3, <2>4 DEF NoLostWakeup, Trying, Asleep
<1>7. QED
  BY <1>2, <1>4, <1>5, <1>6

LEMMA ReleaseKeepsInv ==
  ASSUME Fits, Inv, NEW a \in Agents, Release(a)
  PROVE  Inv'
<1> USE DEF Inv, TypeOK, Goes
<1>1. cur' = cur /\ pc' = [pc EXCEPT ![a] = "notify"]
  BY DEF Release
<1>2. Cardinality(Holding') = Cardinality(Holding) - 1
  <2>1. a \in Holding /\ Holding' = Holding \ {a}
    BY <1>1 DEF Holding, At, Release
  <2>2. QED
    BY <2>1, AtIsFinite, FS_RemoveElement DEF Fits, Holding
<1>3. Cardinality(Holding) \in Nat /\ Cardinality(Holding') \in Nat
  <2>1. IsFiniteSet(Holding) /\ Cardinality(Holding) \in Nat
    BY AtIsFinite DEF Fits, Holding
  <2>2. Holding' \subseteq Holding
    BY <1>1 DEF Holding, At
  <2>3. QED
    BY <2>1, <2>2, FS_Subset, FS_CardinalityType
<1>4. view' = view + 1 /\ view + 1 < Half
  <2>1. view + 1 < Half /\ view \in Nat
    BY <1>2, <1>3, PermitsAssumption DEF PermitsConserved, Fits
  <2>2. QED
    BY <2>1, PermitsAssumption DEF Release, Wrap
<1>5. TypeOK'
  BY <1>1, <1>4, PermitsAssumption
<1>6. PermitsConserved'
  BY <1>2, <1>3, <1>4, PermitsAssumption DEF PermitsConserved
<1>7. LoadedPositive'
  BY <1>1 DEF LoadedPositive, At
<1>8. NoLostWakeup'
  <2>1. Asleep' = Asleep /\ a \notin Trying /\ Trying' = Trying \cup {a}
    BY <1>1 DEF Asleep, Trying, At, Release
  <2>2. IsFiniteSet(Trying) /\ Cardinality(Trying) \in Nat
    BY AtIsFinite DEF Fits, Trying
  <2>3. Cardinality(Trying') = Cardinality(Trying) + 1
    BY <2>1, <2>2, FS_AddElement
  <2>4. QED
    BY <1>4, <2>1, <2>2, <2>3 DEF NoLostWakeup, Trying, Asleep
<1>9. QED
  BY <1>5, <1>6, <1>7, <1>8

(* A waiter joins the list only while no permit is free, and a notifying   *)
(* agent hands its place among the trying to the sleeper it wakes.         *)
LEMMA WaitKeepsInv ==
  ASSUME Fits, Inv, NEW a \in Agents, WaitAsync(a)
  PROVE  Inv'
<1> USE DEF Inv, TypeOK, Goes
<1>1. TypeOK' /\ LoadedPositive' /\ Holding' = Holding
  BY DEF WaitAsync, LoadedPositive, At, Holding
<1>2. CASE view = 0
  <2>1. Cardinality(Trying') \in Nat
    <3>1. Trying' \subseteq Trying /\ IsFiniteSet(Trying)
      BY <1>2, AtIsFinite DEF WaitAsync, Trying, At, Fits
    <3>2. QED
      BY <3>1, FS_Subset, FS_CardinalityType
  <2>2. NoLostWakeup'
    BY <1>2, <2>1 DEF NoLostWakeup, WaitAsync, Trying
  <2>3. PermitsConserved'
    BY <1>1 DEF PermitsConserved, WaitAsync
  <2>4. QED
    BY <1>1, <2>2, <2>3
<1>3. CASE view # 0
  <2>1. UNCHANGED view /\ Trying \subseteq Trying' /\ Asleep' \subseteq Asleep
    BY <1>3 DEF WaitAsync, Trying, Asleep, At
  <2>2. QED
    BY <1>1, <2>1, Uncounted
<1>4. QED
  BY <1>2, <1>3

LEMMA NotifyKeepsInv ==
  ASSUME Fits, Inv, NEW a \in Agents, Notify(a)
  PROVE  Inv'
<1> USE DEF Inv, TypeOK, Goes
<1>1. /\ TypeOK' /\ LoadedPositive'
      /\ Holding' = Holding /\ UNCHANGED view
  BY DEF Notify, LoadedPositive, At, Holding
<1>2. PermitsConserved'
  BY <1>1 DEF PermitsConserved
<1>3. CASE Asleep = {}
  <2>1. Asleep' = {}
    BY <1>3 DEF Notify, Asleep, At
  <2>2. QED
    BY <1>1, <1>2, <2>1 DEF NoLostWakeup, Asleep
<1>4. ASSUME NEW b \in Asleep, pc' = [pc EXCEPT ![a] = "idle", ![b] = "load"]
      PROVE  Inv'
  <2>1. IsFiniteSet(Trying) /\ Cardinality(Trying) \in Nat
    BY AtIsFinite DEF Fits, Trying
  <2>2. /\ a \in Trying /\ b \notin Trying \ {a}
        /\ Trying' = (Trying \ {a}) \cup {b}
        /\ Asleep' \subseteq Asleep
    BY <1>4 DEF Notify, Trying, Asleep, At
  <2>3. /\ IsFiniteSet(Trying \ {a})
        /\ Cardinality(Trying \ {a}) = Cardinality(Trying) - 1
    BY <2>1, <2>2, FS_RemoveElement
  <2>4. Cardinality(Trying') = Cardinality(Trying)
    <3>1. Cardinality((Trying \ {a}) \cup {b}) = Cardinality(Trying \ {a}) + 1
      BY <2>2, <2>3, FS_AddElement
    <3>2. QED
      BY <2>1, <2>2, <2>3, <3>1
  <2>5. NoLostWakeup'
    BY <1>1, <2>1, <2>2, <2>4 DEF NoLostWakeup, Trying, Asleep
  <2>6. QED
    BY <1>1, <1>2, <2>5
<1>5. QED
  BY <1>3, <1>4 DEF Notify, Asleep

LEMMA NextInv == Fits /\ Inv /\ [Next]_vars => Inv'
<1> SUFFICES ASSUME Fits, Inv, [Next]_vars PROVE Inv'
  OBVIOUS
<1>1. ASSUME NEW a \in Agents,
             Acquire(a) \/ TryAcquire(a) \/ Load(a) \/ TryLoad(a) \/ CasFails(a)
      PROVE  Inv'
  <2>1. TypeOK' /\ LoadedPositive'
    BY <1>1 DEF Acquire, TryAcquire, Load, TryLoad, CasFails, Inv, TypeOK,
                LoadedPositive, At, Goes
  <2>2. /\ UNCHANGED view /\ Holding' = Holding
        /\ Trying \subseteq Trying' /\ Asleep' \subseteq Asleep
    BY <1>1 DEF Acquire, TryAcquire, Load, TryLoad, CasFails, Inv, TypeOK,
                Holding, Trying, Asleep, At, Goes
  <2>3. QED
    BY <2>1, <2>2, Uncounted DEF Inv
<1>2. CASE UNCHANGED vars
  BY <1>2 DEF vars, Inv, TypeOK, PermitsConserved, LoadedPositive, NoLostWakeup,
              Holding, At
<1>3. QED
  BY <1>1, <1>2, TakeKeepsInv, ReleaseKeepsInv, WaitKeepsInv, NotifyKeepsInv
     DEF Next, Steps

LEMMA InvCorrect == ASSUME Fits PROVE Spec => []Inv
<1>1. Init => Inv
  BY InitInv
<1>2. Inv /\ [Next]_vars => Inv'
  BY NextInv
<1>3. QED
  BY <1>1, <1>2, PTL DEF Spec

(* No more than Permits agents hold a permit, and release() restores what  *)
(* acquire() took, as long as the count fits the word.                     *)
THEOREM SemaphoreConserves == ASSUME Fits PROVE Spec => []PermitsConserved
<1>1. Inv => PermitsConserved
  BY DEF Inv
<1>2. Spec => []Inv
  BY InvCorrect
<1>3. QED
  BY <1>1, <1>2, PTL

(* While an agent sleeps every free permit has an agent on its way to it.  *)
THEOREM PermitsAreHandedOver == ASSUME Fits PROVE Spec => []NoLostWakeup
<1>1. Inv => NoLostWakeup
  BY DEF Inv
<1>2. Spec => []Inv
  BY InvCorrect
<1>3. QED
  BY <1>1, <1>2, PTL

(* A step takes a permit that is free, gives one back, or leaves them.     *)
LEMMA StepRefines == Fits /\ Inv /\ [Next]_vars => [Counting!Next]_Holding
<1> SUFFICES ASSUME Fits, Inv, [Next]_vars PROVE [Counting!Next]_Holding
  OBVIOUS
<1> USE DEF Inv, TypeOK, Goes
<1>1. ASSUME NEW a \in Agents, CasTakes(a) PROVE Counting!Take(a)
  <2>1. view > 0
    BY <1>1 DEF CasTakes, LoadedPositive, At
  <2>2. Cardinality(Holding) < Permits
    BY <2>1, AtIsFinite, PermitsAssumption DEF PermitsConserved, Fits, Holding
  <2>3. Counting!Cardinality(Holding) = Cardinality(Holding)
    BY DEF Counting!Cardinality, Cardinality
  <2>4. a \notin Holding /\ Holding' = Holding \cup {a}
    BY <1>1 DEF CasTakes, Holding, At
  <2>5. QED
    BY <2>2, <2>3, <2>4 DEF Counting!Take
<1>2. ASSUME NEW a \in Agents, Release(a) PROVE Counting!Give(a)
  BY <1>2 DEF Release, Holding, At, Counting!Give
<1>3. ASSUME NEW a \in Agents,
             \/ Acquire(a) \/ TryAcquire(a) \/ Load(a) \/ TryLoad(a)
             \/ CasFails(a) \/ WaitAsync(a) \/ Notify(a)
      PROVE  UNCHANGED Holding
  BY <1>3 DEF Acquire, TryAcquire, Load, TryLoad, CasFails, WaitAsync, Notify,
              Holding, At
<1>4. CASE UNCHANGED vars
  BY <1>4 DEF vars, Holding, At
<1>5. QED
  BY <1>1, <1>2, <1>3, <1>4 DEF Next, Steps, Counting!Next

(* The semaphore, seen through the agents that hold a permit, implements   *)
(* Permits permits.                                                        *)
THEOREM SemaphoreIsPermits == ASSUME Fits PROVE Spec => ImplementsPermits
<1>1. Init => Counting!Init
  BY DEF Init, Holding, At, Counting!Init
<1>2. Inv /\ [Next]_vars => [Counting!Next]_Holding
  BY StepRefines
<1>3. Spec => []Inv
  BY InvCorrect
<1>4. QED
  BY <1>1, <1>2, <1>3, PTL DEF Spec, ImplementsPermits, Counting!Spec
=============================================================================
