-------------------------- MODULE ThreadPool_proofs --------------------------
(***************************************************************************)
(* At most one worker of the pool is waking, for every number of threads,  *)
(* clients and tasks: the protocol on the sync word that keeps a burst of  *)
(* notify() calls from waking every worker at once, and that a lost status *)
(* would stop for ever.  And the two counts packed in that word are exact: *)
(* drop() waits for the count to reach zero, so a worker counted twice     *)
(* would hang it and one forgotten would outlive the pool.  And no worker  *)
(* leaves with an idle task in its queue.  And the pool implements         *)
(* TaskPool: no task is lost, run twice or miscounted on its way.          *)
(***************************************************************************)
EXTENDS ThreadPool, FiniteSetTheorems, TLAPS

Word   == {"idle", "spawned", "notified", "state"}
Locals == {"waking", "idle", "pushed", "target", "left", "next"}

\* What the proof needs of the shapes of the variables.
Shapes ==
  /\ DOMAIN sync = Word /\ sync.notified \in BOOLEAN
  /\ sync.state \in {"Pending", "Signaled", "Waking", "Shutdown"}
  /\ DOMAIN local = Workers
  /\ \A w \in Workers : DOMAIN local[w] = Locals /\ local[w].waking \in BOOLEAN

Inv == Shapes /\ OneWaker

\* What most steps do: they leave the state, the notification and the status of every worker.
Indifferent ==
  /\ DOMAIN sync' = Word /\ sync'.state = sync.state /\ sync'.notified = sync.notified
  /\ DOMAIN local' = Workers
  /\ \A w \in Workers : DOMAIN local'[w] = Locals /\ local'[w].waking = local[w].waking

LEMMA IndifferentKeeps == ASSUME Inv, Indifferent PROVE Inv'
BY DEF Inv, Shapes, OneWaker, Indifferent

LEMMA Initially == Init => Inv
<1> SUFFICES ASSUME Init PROVE Inv
  OBVIOUS
<1>1. Shapes
  BY DEF Init, Shapes, Word, Locals
<1>2. OneWaker
  BY DEF Init, OneWaker
<1> QED BY <1>1, <1>2 DEF Inv

\* notify_slow: a waking caller gives its status away; any other signals only from Pending,
\* when nobody is waking.
LEMMA NotifySlowKeeps == ASSUME Inv, NEW a \in Actors, NotifySlow(a) PROVE Inv'
<1> USE DEF Inv, Shapes, Word, Locals
<1>1. /\ DOMAIN local' = Workers
      /\ \A w \in Workers : /\ DOMAIN local'[w] = Locals
                            /\ local'[w].waking = IF w = a THEN FALSE ELSE local[w].waking
  <2>1. CASE a \in Workers
    BY ZenonT(60), <2>1 DEF NotifySlow, Set
  <2>2. CASE a \notin Workers
    BY <2>2 DEF NotifySlow
  <2> QED BY <2>1, <2>2
<1>2. \/ sync.state = "Shutdown" /\ sync' = sync
      \/ /\ CanWake(a) /\ sync.state # "Shutdown"
         /\ sync'.state = "Signaled" /\ sync'.notified = TRUE /\ DOMAIN sync' = Word
      \/ /\ sync.state # "Shutdown"
         /\ sync'.state = IF Waking(a) THEN "Pending" ELSE sync.state
         /\ sync'.notified = TRUE /\ DOMAIN sync' = Word
  BY DEF NotifySlow
<1>3. Shapes'
  BY <1>1, <1>2
<1>4. \A v, w \in Workers : local'[v].waking /\ local'[w].waking => v = w
  BY <1>1 DEF OneWaker
<1>5. CASE sync.state = "Shutdown"
  BY <1>1, <1>2, <1>3, <1>4, <1>5 DEF OneWaker
<1>6. CASE sync.state # "Shutdown" /\ Waking(a)
  <2>1. \A w \in Workers : ~local'[w].waking
    BY <1>1, <1>6 DEF OneWaker, Waking
  <2> QED BY <1>2, <1>3, <1>6, <2>1 DEF OneWaker
<1>7. CASE sync.state # "Shutdown" /\ ~Waking(a)
  <2>1. \A w \in Workers : local'[w].waking = local[w].waking
    BY <1>1, <1>7 DEF Waking
  <2> QED BY <1>2, <1>3, <1>4, <1>7, <2>1 DEF OneWaker, CanWake
<1> QED BY <1>5, <1>6, <1>7

\* wait(): whoever consumes the notification of a signal is the one waking worker.
LEMMA WaitKeeps ==
  ASSUME Inv, NEW w \in Workers, WaitNotified(w) \/ WaitBecomesIdle(w) \/ WaitShutdown(w)
  PROVE  Inv'
<1> USE DEF Inv, Shapes, Word, Locals
<1>1. CASE WaitNotified(w)
  <2>1. /\ DOMAIN local' = Workers
        /\ \A v \in Workers :
             /\ DOMAIN local'[v] = Locals
             /\ local'[v].waking = IF v = w THEN local[w].waking \/ sync.state = "Signaled"
                                            ELSE local[v].waking
    BY <1>1 DEF WaitNotified
  <2>2. /\ DOMAIN sync' = Word /\ sync'.notified = FALSE
        /\ sync'.state = IF sync.state = "Signaled" THEN "Waking" ELSE sync.state
    BY <1>1 DEF WaitNotified
  <2>3. Shapes'
    BY <2>1, <2>2
  <2> QED BY <2>1, <2>2, <2>3 DEF OneWaker
<1>2. CASE WaitBecomesIdle(w)
  <2>1. /\ DOMAIN local' = Workers
        /\ \A v \in Workers : /\ DOMAIN local'[v] = Locals
                              /\ local'[v].waking = IF v = w THEN FALSE ELSE local[v].waking
    BY <1>2 DEF WaitBecomesIdle
  <2>2. /\ DOMAIN sync' = Word /\ sync'.notified = sync.notified /\ sync.state # "Shutdown"
        /\ sync'.state = IF local[w].waking THEN "Pending" ELSE sync.state
    BY <1>2 DEF WaitBecomesIdle
  <2>3. Shapes'
    BY <2>1, <2>2
  <2> QED BY <2>1, <2>2, <2>3 DEF OneWaker
<1>3. CASE WaitShutdown(w)
  <2>1. /\ DOMAIN local' = Workers
        /\ \A v \in Workers : /\ DOMAIN local'[v] = Locals
                              /\ local'[v].waking = IF v = w THEN FALSE ELSE local[v].waking
    BY <1>3 DEF WaitShutdown
  <2>2. sync' = sync /\ sync.state = "Shutdown"
    BY <1>3 DEF WaitShutdown
  <2> QED BY <2>1, <2>2 DEF OneWaker
<1> QED BY <1>1, <1>2, <1>3

LEMMA ShutdownKeeps == ASSUME Inv, Shutdown PROVE Inv'
<1>1. DOMAIN sync' = Word /\ sync'.state = "Shutdown" /\ sync'.notified = TRUE /\ local' = local
  BY DEF Shutdown, Inv, Shapes, Word
<1> QED BY <1>1 DEF Inv, Shapes, OneWaker

LEMMA OtherWorkerStepKeeps ==
  ASSUME Inv, NEW w \in Workers,
         WorkerStep(w), ~WaitNotified(w), ~WaitBecomesIdle(w), ~WaitShutdown(w)
  PROVE  Inv'
<1> USE DEF Indifferent, Inv, Shapes, Word, Locals, Set
<1>1. CASE Register(w)
  BY <1>1, IndifferentKeeps DEF Register
<1>2. CASE PopBuffer(w)
  BY <1>2, IndifferentKeeps DEF PopBuffer
<1>3. CASE PopGlobal(w)
  BY <1>3, IndifferentKeeps DEF PopGlobal
<1>4. CASE Consume(w)
  BY <1>4, IndifferentKeeps DEF Consume
<1>5. CASE Steal(w)
  BY <1>5, IndifferentKeeps DEF Steal
<1>6. CASE Got(w)
  BY <1>6, IndifferentKeeps DEF Got
<1>7. CASE Unregister(w)
  BY <1>7, IndifferentKeeps DEF Unregister
<1>8. CASE \/ WaitSleeps(w) \/ ReleaseConsumer(w) \/ PopNothing(w) \/ Finish(w) \/ Exit(w) \/ Chain(w)
  BY <1>8, IndifferentKeeps DEF WaitSleeps, ReleaseConsumer, PopNothing, Finish, Exit, Chain
<1> QED BY <1>1, <1>2, <1>3, <1>4, <1>5, <1>6, <1>7, <1>8 DEF WorkerStep

LEMMA OtherStepKeeps ==
  ASSUME Inv,
         \/ \E a \in Actors : \/ CallStep(a) /\ ~NotifySlow(a)
                              \/ SpawnFails(a) \/ EventTimeout(a)
                              \/ \E n \in 1 .. MaxBatch : Schedule(a, n)
         \/ OwnerStep \/ IdleTasks \/ UNCHANGED vars
  PROVE  Inv'
<1> USE DEF Indifferent, Inv, Shapes, Word, Locals
<1>1. ASSUME NEW a \in Actors, CallStep(a), ~NotifySlow(a) PROVE Inv'
  BY <1>1, IndifferentKeeps DEF CallStep, Push, Notify, Spawn, EventWait, EventSleep, EventSwap, EventWake
<1>2. ASSUME NEW a \in Actors, SpawnFails(a) PROVE Inv'
  BY <1>2, IndifferentKeeps DEF SpawnFails
<1>3. ASSUME NEW a \in Actors, EventTimeout(a) \/ \E n \in 1 .. MaxBatch : Schedule(a, n) PROVE Inv'
  BY <1>3, IndifferentKeeps DEF EventTimeout, Schedule
<1>4. CASE OwnerStep
  BY <1>4, IndifferentKeeps DEF OwnerStep, WarmUp, Join, Unlink
<1>5. CASE IdleTasks \/ UNCHANGED vars
  BY <1>5, IndifferentKeeps DEF IdleTasks, vars
<1> QED BY <1>1, <1>2, <1>3, <1>4, <1>5

LEMMA Steps == Inv /\ [Next]_vars => Inv'
<1> SUFFICES ASSUME Inv, [Next]_vars PROVE Inv'
  OBVIOUS
<1>1. ASSUME NEW a \in Actors, NotifySlow(a) PROVE Inv'
  BY <1>1, NotifySlowKeeps
<1>2. ASSUME NEW w \in Workers, WorkerStep(w) PROVE Inv'
  BY <1>2, WaitKeeps, OtherWorkerStepKeeps
<1>3. CASE Shutdown
  BY <1>3, ShutdownKeeps
<1> QED BY <1>1, <1>2, <1>3, OtherStepKeeps DEF Next

\* The waking status is held by at most one worker, the sync word says so, and a signal is
\* never without the notification that hands the status on.
THEOREM OneAtATime == Spec => []OneWaker
<1>1. Inv => OneWaker
  BY DEF Inv
<1> QED BY <1>1, Initially, Steps, PTL DEF Spec

-----------------------------------------------------------------------------
(* The counts.  CountsExact rests on where a thread goes on after an event *)
(* (Placed): a worker that waits for its turn to end, or tells others,     *)
(* has left the count, and only that one.                                  *)

EventLabels == {"event_wait", "event_futex", "asleep", "event_swap", "event_wake"}
Spawns      == {"spawn", "warm_spawn"}

Placed(a) ==
  /\ pc[a] \in EventLabels =>
       /\ {"ev", "next"} \subseteq DOMAIN arg[a] /\ arg[a].ev \in Events
       /\ a \notin Workers => arg[a].next \in {"out", "join", "unlink", "joined"}
       /\ a \in Workers => IF arg[a].ev = IdleEvent THEN arg[a].next \in {"wait", "run"}
                                                    ELSE arg[a].next \in {"exit", "chain", "done"}
  /\ pc[a] \notin EventLabels => arg[a].ev = NoEvent

\* The stack of registered workers.
Stack == threads \in Workers \cup {None} /\ \A w \in Workers : local[w].next \in Workers \cup {None}

Control == DOMAIN pc = Actors /\ DOMAIN arg = Actors /\ (\A a \in Actors : Placed(a)) /\ Stack

Living == {w \in Workers : Alive(w)}

Counted == Inv /\ Control /\ CountsExact

LEMMA Names ==
  /\ IdleEvent \in Events /\ JoinEvent \in Events /\ Workers \subseteq Events
  /\ IdleEvent \notin Workers /\ IdleEvent # JoinEvent /\ JoinEvent \notin Workers
  /\ \A e \in Events : e \in Workers \cup {JoinEvent} <=> e # IdleEvent
  /\ NoEvent \notin Events /\ NoEvent \notin Workers \cup {JoinEvent} /\ None \notin Workers
  /\ Owner \in Actors /\ Owner \notin Workers /\ Workers \subseteq Actors
BY PoolAssumption DEF IdleEvent, JoinEvent, NoEvent, None, Events, Workers, Actors

LEMMA Sizes ==
  /\ \A S \in SUBSET Workers : IsFiniteSet(S) /\ Cardinality(S) \in Nat
  /\ \A S \in SUBSET Actors : IsFiniteSet(S) /\ Cardinality(S) \in Nat
<1>1. IsFiniteSet(Workers)
  BY PoolAssumption, FS_Interval DEF Workers
<1>2. IsFiniteSet(Actors)
  <2>1. IsFiniteSet(Workers \cup Clients)
    BY <1>1, PoolAssumption, FS_Union
  <2> QED BY <2>1, FS_AddElement DEF Actors
<1> QED BY <1>1, <1>2, FS_Subset, FS_CardinalityType

LEMMA Numbers ==
  ASSUME Counted
  PROVE  /\ Living \subseteq Workers /\ Spawning \subseteq Actors /\ Idle \subseteq Workers
         /\ Cardinality(Living) \in Nat /\ Cardinality(Spawning) \in Nat /\ Cardinality(Idle) \in Nat
         /\ sync.spawned = Cardinality(Living) + Cardinality(Spawning)
         /\ sync.spawned \in Nat /\ sync.spawned <= MaxThreads
         /\ sync.state # "Shutdown" => sync.idle = Cardinality(Idle)
<1>1. Living \subseteq Workers /\ Spawning \subseteq Actors /\ Idle \subseteq Workers
  BY DEF Living, Spawning, Idle
<1>2. Cardinality(Living) \in Nat /\ Cardinality(Spawning) \in Nat /\ Cardinality(Idle) \in Nat
  BY <1>1, Sizes
<1> QED BY <1>1, <1>2 DEF Counted, CountsExact, Living

\* The other threads stay where they are, as far as the counts go.
Elsewhere(a) ==
  /\ DOMAIN pc' = Actors /\ DOMAIN arg' = Actors
  /\ \A b \in Actors \ {a} : pc'[b] = pc[b] /\ arg'[b] = arg[b]

\* The step neither enters nor leaves a count.
Path(a) ==
  /\ Elsewhere(a) /\ Placed(a)' /\ Stack'
  /\ a \in Workers => (Alive(a)' <=> Alive(a))
  /\ pc'[a] \in Spawns <=> pc[a] \in Spawns

\* A worker that has not begun to leave.
Working(w) == Alive(w) /\ pc[w] # "unregister"

\* No worker is started and none begins to leave.
Stay(a) == (pc'[a] = "off" <=> pc[a] = "off") /\ (pc'[a] = "unregister" <=> pc[a] = "unregister")
Steady  == \A w \in Workers : (Working(w)' <=> Working(w)) /\ (pc'[w] = "off" <=> pc[w] = "off")

Untouched ==
  /\ sync'.spawned = sync.spawned /\ sync'.idle = sync.idle
  /\ sync'.state = "Shutdown" <=> sync.state = "Shutdown"
  /\ \A w \in Workers : local'[w].idle = local[w].idle

LEMMA Others ==
  ASSUME Control, NEW a \in Actors, Elsewhere(a), Placed(a)', Stack'
  PROVE  /\ Control'
         /\ \A w \in Workers \ {a} : Alive(w)' <=> Alive(w)
         /\ \A b \in Actors \ {a} : pc'[b] \in Spawns <=> pc[b] \in Spawns
BY Names DEF Control, Elsewhere, Placed, Alive

LEMMA PathKeeps ==
  ASSUME Counted, NEW a \in Actors, Path(a), a \in Workers => Stay(a), Untouched
  PROVE  Control' /\ CountsExact' /\ Steady
<1>1. /\ Control'
      /\ \A w \in Workers : Alive(w)' <=> Alive(w)
      /\ \A b \in Actors : pc'[b] \in Spawns <=> pc[b] \in Spawns
  BY Others DEF Counted, Path
<1>2. Living' = Living /\ Spawning' = Spawning /\ Idle' = Idle
  BY <1>1 DEF Living, Spawning, Idle, Spawns, Untouched
<1>3. Steady
  BY <1>1, Names DEF Path, Elsewhere, Steady, Stay, Working
<1> QED BY <1>1, <1>2, <1>3, Numbers DEF CountsExact, Living, Untouched

-----------------------------------------------------------------------------
(* Events. *)

LEMMA EventPath ==
  ASSUME Counted, NEW a \in Actors,
         EventWait(a) \/ EventSleep(a) \/ EventTimeout(a) \/ EventSwap(a)
  PROVE  Control' /\ CountsExact' /\ Steady
<1> USE DEF Counted, Control
<1>1. pc[a] \in EventLabels /\ Untouched /\ Stack'
  BY DEF EventWait, EventSleep, EventTimeout, EventSwap, EventLabels, Untouched, Stack
<1>2. Elsewhere(a)
  BY DEF EventWait, EventSleep, EventTimeout, EventSwap, EventReturn, Goto, Elsewhere
<1>3. \/ pc'[a] = arg[a].next /\ arg'[a] = NoArg
      \/ /\ pc'[a] \in EventLabels /\ DOMAIN arg'[a] = DOMAIN arg[a]
         /\ arg'[a].ev = arg[a].ev /\ arg'[a].next = arg[a].next
  BY <1>1 DEF EventWait, EventSleep, EventTimeout, EventSwap, EventReturn, Goto, EventLabels, Placed
<1>4. Path(a)
  BY <1>1, <1>2, <1>3, Names DEF Path, Placed, NoArg, Alive, EventLabels, Spawns
<1>5. a \in Workers => Stay(a)
  BY <1>1, <1>3 DEF Stay, Placed, EventLabels
<1> QED BY <1>1, <1>4, <1>5, PathKeeps

\* Futex::wake moves many threads, each from its sleep to its loop.
LEMMA WakePath == ASSUME Counted, NEW a \in Actors, EventWake(a) PROVE Control' /\ CountsExact' /\ Steady
<1> USE DEF Counted, Control
<1>1. Untouched /\ Stack'
  BY DEF EventWake, Untouched, Stack
<1>2. PICK woken \in SUBSET Sleepers(arg[a].ev) :
        /\ pc' = [b \in Actors |-> IF b \in woken THEN "event_wait"
                                   ELSE IF b = a THEN arg[a].next ELSE pc[b]]
        /\ arg' = [b \in Actors |-> IF b \in woken THEN [arg[b] EXCEPT !.with = "WAITING"]
                                    ELSE IF b = a THEN NoArg ELSE arg[b]]
  BY DEF EventWake
<1>3. pc[a] = "event_wake" /\ a \notin woken /\ \A b \in woken : pc[b] = "asleep" /\ b \in Actors
  BY DEF EventWake, Sleepers
<1>4. ASSUME NEW b \in Actors
      PROVE  /\ Placed(b)'
             /\ b \in Workers => (Alive(b)' <=> Alive(b))
             /\ pc'[b] \in Spawns <=> pc[b] \in Spawns
             /\ b \in Workers => Stay(b)
  <2>1. CASE b \in woken
    <3>1. pc'[b] = "event_wait" /\ pc[b] = "asleep" /\ arg'[b] = [arg[b] EXCEPT !.with = "WAITING"]
      BY <1>2, <1>3, <2>1
    <3>2. DOMAIN arg'[b] = DOMAIN arg[b] /\ arg'[b].ev = arg[b].ev /\ arg'[b].next = arg[b].next
      BY <3>1 DEF Placed, EventLabels
    <3> QED BY <3>1, <3>2 DEF Placed, Alive, EventLabels, Spawns, Stay
  <2>2. CASE b = a
    <3>1. pc'[a] = arg[a].next /\ arg'[a] = NoArg
      BY <1>2, <1>3
    <3> QED BY <1>3, <2>2, <3>1, Names DEF Placed, NoArg, Alive, EventLabels, Spawns, Stay
  <2>3. CASE b \notin woken /\ b # a
    <3>1. pc'[b] = pc[b] /\ arg'[b] = arg[b]
      BY <1>2, <2>3
    <3> QED BY <3>1 DEF Placed, Alive, Stay
  <2> QED BY <2>1, <2>2, <2>3
<1>5. Control'
  BY <1>1, <1>2, <1>4
<1>6. Living' = Living /\ Spawning' = Spawning /\ Idle' = Idle
  BY <1>1, <1>4, Names DEF Living, Spawning, Idle, Spawns, Untouched
<1>7. Steady
  BY <1>4, Names DEF Steady, Working, Stay
<1> QED BY <1>1, <1>5, <1>6, <1>7, Numbers DEF CountsExact, Living, Untouched

-----------------------------------------------------------------------------
(* Steps of a worker or a caller that no count sees. *)

Dead == {"off", "unregister", "exit", "chain", "done"}

\* From a place inside the pool to another one, perhaps by way of the idle event.
Quietly(a) ==
  /\ Elsewhere(a)
  /\ pc[a] \notin EventLabels \cup Spawns \cup Dead
  /\ pc'[a] \notin Spawns \cup Dead
  /\ pc'[a] \notin EventLabels => arg'[a].ev = NoEvent
  /\ pc'[a] \in EventLabels =>
       /\ {"ev", "next"} \subseteq DOMAIN arg'[a]
       /\ \/ arg'[a].ev = IdleEvent /\ a \in Workers /\ arg'[a].next \in {"wait", "run"}
          \/ arg'[a].ev \in Events /\ a \notin Workers /\ arg'[a].next \in {"out", "join", "unlink", "joined"}

LEMMA QuietlyKeeps ==
  ASSUME Counted, NEW a \in Actors, Quietly(a), Stack', Untouched
  PROVE  Control' /\ CountsExact' /\ Steady
<1>1. Path(a)
  BY Names DEF Counted, Control, Quietly, Path, Placed, Alive, Dead
<1>2. a \in Workers => Stay(a)
  BY DEF Quietly, Stay, Dead
<1> QED BY <1>1, <1>2, PathKeeps

LEMMA CallPath ==
  ASSUME Counted, NEW a \in Actors,
         Push(a) \/ Notify(a) \/ \E n \in 1 .. MaxBatch : Schedule(a, n)
  PROVE  Control' /\ CountsExact' /\ Steady
<1> USE DEF Counted, Control
<1>1. Untouched /\ Stack'
  BY DEF Push, Notify, Schedule, Untouched, Stack
<1>2. Elsewhere(a) /\ arg'[a].ev = NoEvent
  BY DEF Push, Notify, Schedule, Goto, Elsewhere, NoArg, Placed, EventLabels
<1>3. /\ pc[a] \notin EventLabels \cup Spawns \cup Dead
      /\ pc'[a] \notin EventLabels \cup Spawns \cup Dead
  BY DEF Push, Notify, Schedule, Goto, After, EventLabels, Spawns, Dead
<1> QED BY <1>1, <1>2, <1>3, QuietlyKeeps DEF Quietly

LEMMA RunPath ==
  ASSUME Counted, NEW w \in Workers,
         \/ Register(w) \/ WaitSleeps(w) \/ PopBuffer(w) \/ PopGlobal(w) \/ Consume(w)
         \/ ReleaseConsumer(w) \/ Steal(w) \/ PopNothing(w) \/ Got(w) \/ Finish(w)
  PROVE  Control' /\ CountsExact' /\ Steady
<1> USE DEF Counted, Control
<1>1. w \in Actors
  BY Names
<1>2. Untouched /\ Stack'
  <2> USE DEF Inv, Shapes, Locals, Untouched, Stack, Set
  <2>1. CASE Register(w)
    BY <2>1 DEF Register
  <2>2. CASE PopBuffer(w)
    BY <2>2 DEF PopBuffer
  <2>3. CASE PopGlobal(w)
    BY <2>3 DEF PopGlobal
  <2>4. CASE Consume(w)
    BY <2>4 DEF Consume
  <2>5. CASE Steal(w)
    BY <2>5 DEF Steal
  <2>6. CASE Got(w)
    BY <2>6 DEF Got
  <2>7. CASE WaitSleeps(w) \/ ReleaseConsumer(w) \/ PopNothing(w) \/ Finish(w)
    BY <2>7 DEF WaitSleeps, ReleaseConsumer, PopNothing, Finish
  <2> QED BY <2>1, <2>2, <2>3, <2>4, <2>5, <2>6, <2>7
<1>3. CASE WaitSleeps(w)
  <2>1. Elsewhere(w) /\ pc[w] = "wait" /\ pc'[w] = "event_wait"
    BY <1>1, <1>3 DEF WaitSleeps, WaitOn, Goto, Elsewhere
  <2>2. arg'[w] = [ev |-> IdleEvent, with |-> "EMPTY", shrunk |-> FALSE, next |-> "wait"]
    BY <1>1, <1>3 DEF WaitSleeps, WaitOn
  <2>3. Quietly(w)
    BY <2>1, <2>2 DEF Quietly, EventLabels, Spawns, Dead
  <2> QED BY <1>1, <1>2, <2>3, QuietlyKeeps
<1>4. CASE ~WaitSleeps(w)
  <2>1. arg' = arg /\ pc[w] \notin EventLabels \cup Spawns \cup Dead
    BY <1>4 DEF Register, PopBuffer, PopGlobal, Consume, ReleaseConsumer, Steal, PopNothing, Got, Finish,
                EventLabels, Spawns, Dead
  <2>2. Elsewhere(w) /\ pc'[w] \notin EventLabels \cup Spawns \cup Dead
    BY <1>1, <1>4, <2>1
       DEF Register, PopBuffer, PopGlobal, Consume, ReleaseConsumer, Steal, PopNothing, Got, Finish,
           EventLabels, Spawns, Dead, Goto, Elsewhere
  <2>3. arg'[w].ev = NoEvent
    BY <1>1, <2>1 DEF Placed
  <2> QED BY <1>1, <1>2, <2>1, <2>2, <2>3, QuietlyKeeps DEF Quietly
<1> QED BY <1>3, <1>4

\* A worker that has unregistered: its own join event, then the one of the worker below it.
LEMMA LeavePath ==
  ASSUME Counted, NEW w \in Workers, Exit(w) \/ Chain(w)
  PROVE  Control' /\ CountsExact' /\ Steady
<1> USE DEF Counted, Control
<1>1. w \in Actors /\ Untouched /\ Stack'
  BY Names DEF Exit, Chain, Untouched, Stack
<1>2. Elsewhere(w)
  BY <1>1 DEF Exit, Chain, WaitOn, WakeOn, Goto, Elsewhere
<1>3. pc[w] \in {"exit", "chain"} /\ ~Alive(w)
  BY DEF Exit, Chain, Alive
<1>4. \/ /\ pc'[w] \in EventLabels /\ {"ev", "next"} \subseteq DOMAIN arg'[w]
         /\ arg'[w].ev \in Workers /\ arg'[w].next \in {"chain", "done"}
      \/ pc'[w] = "done" /\ arg' = arg
  BY <1>1 DEF Exit, Chain, WaitOn, WakeOn, Goto, EventLabels, Stack
<1>5. Path(w)
  BY <1>1, <1>2, <1>3, <1>4, Names DEF Path, Placed, Alive, EventLabels, Spawns
<1>6. Stay(w)
  BY <1>3, <1>4 DEF Stay, EventLabels
<1> QED BY <1>1, <1>5, <1>6, PathKeeps

\* The owner, who is no worker.
LEMMA OwnerPath ==
  ASSUME Counted, IdleTasks \/ Join \/ Unlink
  PROVE  Control' /\ CountsExact' /\ Steady
<1> USE DEF Counted, Control
<1>1. Owner \in Actors /\ Untouched /\ Stack'
  BY Names DEF IdleTasks, Join, Unlink, Untouched, Stack
<1>2. Elsewhere(Owner)
  BY <1>1 DEF IdleTasks, Join, Unlink, WaitOn, WakeOn, Goto, Elsewhere
<1>3. pc[Owner] \in {"out", "join", "unlink"}
  BY DEF IdleTasks, Join, Unlink
<1>4. \/ /\ pc'[Owner] \in EventLabels /\ {"ev", "next"} \subseteq DOMAIN arg'[Owner]
         /\ arg'[Owner].ev \in Events /\ arg'[Owner].next \in {"out", "unlink", "joined"}
      \/ pc'[Owner] \in {"unlink", "joined"} /\ arg' = arg
  BY <1>1, Names DEF IdleTasks, Join, Unlink, WaitOn, WakeOn, Goto, EventLabels, Stack, None
<1>5. Path(Owner)
  BY <1>1, <1>2, <1>3, <1>4, Names DEF Path, Placed, EventLabels, Spawns
<1> QED BY <1>1, <1>5, Names, PathKeeps

-----------------------------------------------------------------------------
(* Steps that count. *)

LEMMA PathSame ==
  ASSUME Counted, NEW a \in Actors, Path(a)
  PROVE  Control' /\ Living' = Living /\ Spawning' = Spawning
<1>1. /\ Control'
      /\ \A w \in Workers : Alive(w)' <=> Alive(w)
      /\ \A b \in Actors : pc'[b] \in Spawns <=> pc[b] \in Spawns
  BY Others DEF Counted, Path
<1> QED BY <1>1 DEF Living, Spawning, Spawns

\* The idle count and the workers that are idle change together, and spawned not at all.
LEMMA IdlePath ==
  ASSUME Counted, NEW w \in Workers, WaitBecomesIdle(w) \/ WaitNotified(w)
  PROVE  Control' /\ CountsExact' /\ Steady
<1> USE DEF Counted, Control, Inv, Shapes, Word, Locals
<1>1. w \in Actors /\ Stack'
  BY Names DEF WaitBecomesIdle, WaitNotified, Stack
<1>2. Path(w)
  <2>1. pc[w] = "wait" /\ arg' = arg /\ pc'[w] \in {"wait", "pop"} /\ Elsewhere(w)
    BY <1>1 DEF WaitBecomesIdle, WaitNotified, Goto, Elsewhere
  <2> QED BY <1>1, <2>1 DEF Path, Placed, Alive, EventLabels, Spawns
<1>3. /\ Control' /\ Living' = Living /\ Spawning' = Spawning
      /\ sync'.spawned = sync.spawned /\ sync.state # "Shutdown"
  BY <1>1, <1>2, PathSame DEF WaitBecomesIdle, WaitNotified
<1>4. IsFiniteSet(Idle)
  BY Numbers, Sizes
<1>5. sync'.idle = Cardinality(Idle')
  <2>1. CASE WaitBecomesIdle(w)
    <3>1. w \notin Idle /\ Idle' = Idle \cup {w} /\ sync'.idle = sync.idle + 1
      BY <2>1 DEF WaitBecomesIdle, Idle
    <3>2. Cardinality(Idle \cup {w}) = Cardinality(Idle) + 1
      BY <1>4, <3>1, FS_AddElement
    <3> QED BY <1>3, <3>1, <3>2, Numbers
  <2>2. CASE WaitNotified(w)
    <3>1. Idle' = Idle \ {w} /\ sync'.idle = IF w \in Idle THEN sync.idle - 1 ELSE sync.idle
      BY <2>2 DEF WaitNotified, Idle
    <3>2. Cardinality(Idle \ {w}) = IF w \in Idle THEN Cardinality(Idle) - 1 ELSE Cardinality(Idle)
      BY <1>4, FS_RemoveElement
    <3> QED BY <1>3, <3>1, <3>2, Numbers
  <2> QED BY <2>1, <2>2
<1>6. Steady
  <2>1. pc[w] = "wait" /\ pc'[w] \in {"wait", "pop"} /\ Elsewhere(w)
    BY <1>1, <1>2 DEF WaitBecomesIdle, WaitNotified, Goto, Path
  <2> QED BY <1>2, <2>1, Names DEF Steady, Working, Path, Elsewhere, Alive
<1> QED BY <1>3, <1>5, <1>6, Numbers DEF CountsExact, Living

LEMMA ShutdownLinks == ASSUME Counted, NEW w \in Workers, WaitShutdown(w) PROVE Stack'
<1>1. local' = [local EXCEPT ![w] = [local[w] EXCEPT !.waking = FALSE, !.idle = FALSE, !.target = None]]
  BY DEF WaitShutdown
<1>2. \A v \in Workers : local'[v].next = local[v].next
  BY <1>1 DEF Counted, Inv, Shapes, Locals
<1> QED BY <1>2 DEF Counted, Control, Stack, WaitShutdown

\* After shutdown only spawned is kept.
LEMMA StopPath ==
  ASSUME Counted, Shutdown \/ \E w \in Workers : WaitShutdown(w)
  PROVE  Control' /\ CountsExact'
<1> USE DEF Counted, Control, Inv, Shapes, Word, Locals
<1>1. Stack' /\ sync'.spawned = sync.spawned /\ sync'.state = "Shutdown"
  <2>1. CASE Shutdown
    BY <2>1 DEF Shutdown, Stack
  <2>2. ASSUME NEW w \in Workers, WaitShutdown(w) PROVE Stack' /\ sync' = sync /\ sync.state = "Shutdown"
    BY <2>2, ShutdownLinks DEF WaitShutdown
  <2> QED BY <2>1, <2>2
<1>2. PICK a \in Actors : Path(a)
  <2>1. CASE Shutdown
    <3>1. Elsewhere(Owner) /\ pc[Owner] = "out"
      BY <2>1, Names DEF Shutdown, WakeOn, Goto, Elsewhere
    <3>2. \/ /\ pc'[Owner] \in EventLabels /\ {"ev", "next"} \subseteq DOMAIN arg'[Owner]
             /\ arg'[Owner].ev = IdleEvent /\ arg'[Owner].next = "join"
          \/ pc'[Owner] = "join" /\ arg' = arg
      BY <2>1, Names DEF Shutdown, WakeOn, Goto, EventLabels
    <3> QED BY <1>1, <3>1, <3>2, Names DEF Path, Placed, EventLabels, Spawns
  <2>2. ASSUME NEW w \in Workers, WaitShutdown(w) PROVE Path(w)
    <3>1. /\ w \in Actors /\ pc[w] = "wait" /\ arg' = arg /\ pc'[w] = "unregister"
          /\ Elsewhere(w)
      BY <2>2, Names DEF WaitShutdown, Goto, Elsewhere
    <3> QED BY <1>1, <3>1 DEF Path, Placed, Alive, EventLabels, Spawns
  <2> QED BY <2>1, <2>2, Names
<1> QED BY <1>1, <1>2, PathSame, Numbers DEF CountsExact, Living

\* The increment that reserves a thread: notify_slow and warm.
LEMMA ReserveKeeps ==
  ASSUME Counted, NEW a \in Actors, Elsewhere(a), arg' = arg, Stack',
         pc[a] \notin EventLabels \cup Spawns \cup Dead, pc'[a] \in Spawns,
         sync'.spawned = sync.spawned + 1, sync.spawned < MaxThreads, sync'.idle = sync.idle,
         sync'.state = "Shutdown" <=> sync.state = "Shutdown",
         \A w \in Workers : local'[w].idle = local[w].idle
  PROVE  Control' /\ CountsExact' /\ Steady
<1>1. Placed(a)' /\ (a \in Workers => (Alive(a)' <=> Alive(a)))
  BY DEF Counted, Control, Placed, Alive, EventLabels, Spawns, Dead
<1>2. /\ Control'
      /\ \A w \in Workers : Alive(w)' <=> Alive(w)
      /\ \A b \in Actors \ {a} : pc'[b] \in Spawns <=> pc[b] \in Spawns
  BY <1>1, Others DEF Counted
<1>3. Living' = Living /\ Idle' = Idle /\ Spawning' = Spawning \cup {a} /\ a \notin Spawning
  BY <1>2 DEF Living, Idle, Spawning, Spawns
<1>4. Cardinality(Spawning \cup {a}) = Cardinality(Spawning) + 1
  BY <1>3, Numbers, Sizes, FS_AddElement
<1>5. sync'.spawned = Cardinality(Living') + Cardinality(Spawning')
  BY <1>3, <1>4, Numbers
<1>6. sync'.spawned <= MaxThreads
  <2>1. MaxThreads \in Nat
    BY PoolAssumption
  <2> QED BY <2>1, Numbers
<1>7. sync'.state # "Shutdown" => sync'.idle = Cardinality(Idle')
  BY <1>3, Numbers
<1>8. Steady
  BY <1>2, Names DEF Elsewhere, Steady, Working, Dead, Spawns
<1> QED BY <1>2, <1>5, <1>6, <1>7, <1>8 DEF CountsExact, Living

LEMMA NotifyPath == ASSUME Counted, NEW a \in Actors, NotifySlow(a) PROVE Control' /\ CountsExact' /\ Steady
<1> USE DEF Counted, Control, Inv, Shapes, Word, Locals
<1>1. /\ \A w \in Workers : local'[w].idle = local[w].idle /\ local'[w].next = local[w].next
      /\ threads' = threads
  BY DEF NotifySlow, Set
<1>2. Stack' /\ pc[a] = "notify_slow"
  BY <1>1 DEF NotifySlow, Stack
<1>3. Elsewhere(a)
  BY DEF NotifySlow, WakeOn, Goto, Elsewhere
<1>4. /\ sync'.idle = sync.idle
      /\ sync'.state = "Shutdown" <=> sync.state = "Shutdown"
      /\ \/ /\ pc'[a] = "spawn" /\ arg' = arg
            /\ sync'.spawned = sync.spawned + 1 /\ sync.spawned < MaxThreads
         \/ /\ sync'.spawned = sync.spawned
            /\ \/ pc'[a] = After(a) /\ arg' = arg
               \/ /\ pc'[a] = "event_swap"
                  /\ arg'[a] = [ev |-> IdleEvent, with |-> "NOTIFIED", shrunk |-> FALSE, next |-> After(a)]
  BY DEF NotifySlow, WakeOn, Goto, CanWake
<1>5. CASE sync'.spawned = sync.spawned + 1 /\ pc'[a] = "spawn" /\ arg' = arg /\ sync.spawned < MaxThreads
  BY <1>1, <1>2, <1>3, <1>4, <1>5, ReserveKeeps DEF EventLabels, Spawns, Dead
<1>6. CASE /\ sync'.spawned = sync.spawned
           /\ \/ pc'[a] = After(a) /\ arg' = arg
              \/ /\ pc'[a] = "event_swap"
                 /\ arg'[a] = [ev |-> IdleEvent, with |-> "NOTIFIED", shrunk |-> FALSE, next |-> After(a)]
  <2>1. Untouched
    BY <1>1, <1>4, <1>6 DEF Untouched
  <2>2. Quietly(a)
    BY <1>2, <1>3, <1>6, Names DEF Quietly, EventLabels, Spawns, Dead, After, Placed
  <2> QED BY <1>2, <2>1, <2>2, QuietlyKeeps
<1> QED BY <1>4, <1>5, <1>6

LEMMA WarmPath == ASSUME Counted, WarmUp PROVE Control' /\ CountsExact' /\ Steady
<1> USE DEF Counted, Control, Inv, Shapes, Word, Locals
<1>1. Owner \in Actors /\ Stack' /\ pc[Owner] = "warm" /\ Elsewhere(Owner) /\ arg' = arg /\ local' = local
  BY Names DEF WarmUp, Stack, Goto, Elsewhere
<1>2. sync'.idle = sync.idle /\ sync'.state = sync.state
  BY DEF WarmUp
<1>3. CASE sync.spawned < Warm /\ sync.spawned < MaxThreads
  <2>1. sync'.spawned = sync.spawned + 1 /\ pc'[Owner] = "warm_spawn"
    BY <1>1, <1>3 DEF WarmUp, Goto
  <2> QED BY <1>1, <1>2, <1>3, <2>1, ReserveKeeps DEF EventLabels, Spawns, Dead
<1>4. CASE ~(sync.spawned < Warm /\ sync.spawned < MaxThreads)
  <2>1. sync' = sync /\ pc'[Owner] = "out"
    BY <1>1, <1>4 DEF WarmUp, Goto
  <2>2. Quietly(Owner) /\ Untouched
    BY <1>1, <2>1 DEF Quietly, Untouched, EventLabels, Spawns, Dead, Placed
  <2> QED BY <1>1, <2>2, QuietlyKeeps
<1> QED BY <1>3, <1>4

\* The thread the OS started takes the place of the one being spawned.
LEMMA SpawnPath == ASSUME Counted, NEW a \in Actors, Spawn(a) PROVE Control' /\ CountsExact'
<1> USE DEF Counted, Control
<1>1. /\ sync' = sync /\ arg' = arg /\ local' = local /\ Stack'
      /\ pc[a] \in Spawns
  BY DEF Spawn, Stack, Spawns
<1>2. PICK w \in Workers : pc[w] = "off" /\ pc' = [pc EXCEPT ![a] = Spawned(a), ![w] = "register"]
  BY DEF Spawn
<1>3. /\ w \in Actors /\ w # a
      /\ pc'[w] = "register" /\ pc'[a] = Spawned(a) /\ DOMAIN pc' = Actors
      /\ \A b \in Actors \ {a, w} : pc'[b] = pc[b]
  BY <1>1, <1>2, Names DEF Spawns
<1>4. pc'[a] \in {"warm", "run", "out"}
  BY <1>3 DEF Spawned, After
<1>5. Control'
  BY <1>1, <1>2, <1>3, <1>4 DEF Placed, EventLabels, Spawns
<1>6. Living' = Living \cup {w} /\ w \notin Living
  <2>1. Alive(w)' /\ ~Alive(w)
    BY <1>1, <1>2, <1>3, Names DEF Placed, Alive, EventLabels
  <2>2. \A v \in Workers \ {w} : Alive(v)' <=> Alive(v)
    <3>1. a \in Workers => Alive(a)' /\ Alive(a)
      BY <1>1, <1>4, Names DEF Placed, Alive, EventLabels, Spawns
    <3> QED BY <1>1, <1>3, <3>1, Names DEF Alive
  <2> QED BY <2>1, <2>2 DEF Living
<1>7. Spawning' = Spawning \ {a} /\ a \in Spawning
  BY <1>1, <1>2, <1>3, <1>4 DEF Spawning, Spawns
<1>8. /\ Cardinality(Living \cup {w}) = Cardinality(Living) + 1
      /\ Cardinality(Spawning \ {a}) = Cardinality(Spawning) - 1
  BY <1>6, <1>7, Numbers, Sizes, FS_AddElement, FS_RemoveElement
<1>9. Idle' = Idle
  BY <1>1 DEF Idle
<1>10. sync'.spawned = Cardinality(Living') + Cardinality(Spawning')
  BY <1>1, <1>6, <1>7, <1>8, Numbers
<1> QED BY <1>1, <1>5, <1>9, <1>10, Numbers DEF CountsExact, Living

\* A refused thread is taken off the count.  Only a client or the owner can find it was
\* the last one: a worker that spawns is counted beside it.
LEMMA RefusedPath == ASSUME Counted, NEW a \in Actors, SpawnFails(a) PROVE Control' /\ CountsExact' /\ Steady
<1> USE DEF Counted, Control, Inv, Shapes, Word
<1>1. /\ sync'.spawned = sync.spawned - 1 /\ sync'.idle = sync.idle /\ sync'.state = sync.state
      /\ local' = local /\ Stack' /\ pc[a] \in Spawns
  BY DEF SpawnFails, Stack, Spawns
<1>2. Elsewhere(a)
  BY DEF SpawnFails, WakeOn, Goto, Elsewhere
<1>3. \/ pc'[a] = After(a) /\ arg' = arg
      \/ /\ sync.spawned = 1 /\ pc'[a] = "event_swap"
         /\ arg'[a] = [ev |-> JoinEvent, with |-> "NOTIFIED", shrunk |-> FALSE, next |-> After(a)]
  BY DEF SpawnFails, WakeOn, Goto
<1>4. a \in Spawning /\ IsFiniteSet(Spawning) /\ IsFiniteSet(Living)
  BY <1>1, Numbers, Sizes DEF Spawning, Spawns
<1>5. Cardinality(Spawning \ {a}) = Cardinality(Spawning) - 1 /\ Cardinality(Spawning \ {a}) \in Nat
  <2>1. Spawning \ {a} \in SUBSET Actors
    BY Numbers
  <2> QED BY <1>4, <2>1, Sizes, FS_RemoveElement
<1>6. a \in Workers => a \in Living
  BY <1>1, Names DEF Living, Placed, Alive, EventLabels, Spawns
<1>7. a \in Workers => sync.spawned # 1
  <2>1. a \in Workers => Cardinality(Living) # 0
    BY <1>4, <1>6, FS_EmptySet
  <2> QED BY <1>5, <2>1, Numbers
<1>8. Placed(a)' /\ (a \in Workers => Alive(a)')
  BY <1>1, <1>3, <1>7, Names DEF Placed, Alive, After, EventLabels, Spawns
<1>9. Control' /\ Living' = Living /\ Idle' = Idle
  BY <1>1, <1>2, <1>6, <1>8, Others DEF Living, Idle
<1>10. Spawning' = Spawning \ {a}
  <2>1. pc'[a] \notin Spawns
    BY <1>3 DEF After, Spawns
  <2>2. \A b \in Actors \ {a} : pc'[b] \in Spawns <=> pc[b] \in Spawns
    BY <1>2 DEF Elsewhere
  <2> QED BY <2>1, <2>2 DEF Spawning, Spawns
<1>11. sync'.spawned = Cardinality(Living') + Cardinality(Spawning')
  BY <1>1, <1>5, <1>9, <1>10, Numbers
<1>12. sync'.spawned <= MaxThreads
  BY <1>1, Numbers, PoolAssumption
<1>13. sync'.state # "Shutdown" => sync'.idle = Cardinality(Idle')
  BY <1>1, <1>9, Numbers
<1>14. Steady
  <2>1. a \in Workers => (Working(a)' <=> Working(a)) /\ (pc'[a] = "off" <=> pc[a] = "off")
    BY <1>1, <1>3, <1>6, <1>8 DEF Working, After, Spawns, Living
  <2>2. \A w \in Workers \ {a} : (Working(w)' <=> Working(w)) /\ (pc'[w] = "off" <=> pc[w] = "off")
    BY <1>1, <1>2, <1>8, Others, Names DEF Elsewhere, Working
  <2> QED BY <2>1, <2>2 DEF Steady
<1> QED BY <1>9, <1>11, <1>12, <1>13, <1>14 DEF CountsExact, Living

LEMMA UnregisterPath == ASSUME Counted, NEW w \in Workers, Unregister(w) PROVE Control' /\ CountsExact' /\ Steady
<1> USE DEF Counted, Control, Inv, Shapes, Word
<1>1. /\ sync'.spawned = sync.spawned - 1 /\ sync'.idle = sync.idle /\ sync'.state = sync.state
      /\ local' = local /\ Stack' /\ w \in Actors /\ pc[w] = "unregister"
  BY Names DEF Unregister, Stack
<1>2. Elsewhere(w)
  BY <1>1 DEF Unregister, WakeOn, Goto, Elsewhere
<1>3. \/ pc'[w] = "exit" /\ arg' = arg
      \/ /\ pc'[w] = "event_swap"
         /\ arg'[w] = [ev |-> JoinEvent, with |-> "NOTIFIED", shrunk |-> FALSE, next |-> "exit"]
  BY <1>1 DEF Unregister, WakeOn, Goto
<1>4. Alive(w) /\ ~Alive(w)' /\ Placed(w)' /\ pc'[w] \notin Spawns
  BY <1>1, <1>3, Names DEF Placed, Alive, EventLabels, Spawns
<1>5. /\ Control' /\ Idle' = Idle
      /\ Living' = Living \ {w} /\ w \in Living
      /\ \A b \in Actors \ {w} : pc'[b] \in Spawns <=> pc[b] \in Spawns
  BY <1>1, <1>2, <1>4, Others DEF Living, Idle
<1>6. Spawning' = Spawning
  BY <1>1, <1>4, <1>5 DEF Spawning, Spawns
<1>7. Cardinality(Living \ {w}) = Cardinality(Living) - 1
  BY <1>5, Numbers, Sizes, FS_RemoveElement
<1>8. sync'.spawned = Cardinality(Living') + Cardinality(Spawning')
  BY <1>1, <1>5, <1>6, <1>7, Numbers
<1>9. sync'.spawned <= MaxThreads
  BY <1>1, Numbers, PoolAssumption
<1>10. sync'.state # "Shutdown" => sync'.idle = Cardinality(Idle')
  BY <1>1, <1>5, Numbers
<1>11. Steady
  <2>1. ~Working(w)' /\ ~Working(w) /\ pc'[w] # "off"
    BY <1>1, <1>3, <1>4 DEF Working
  <2>2. \A v \in Workers \ {w} : (Working(v)' <=> Working(v)) /\ (pc'[v] = "off" <=> pc[v] = "off")
    BY <1>1, <1>2, <1>4, Others, Names DEF Elsewhere, Working
  <2> QED BY <1>1, <2>1, <2>2 DEF Steady
<1> QED BY <1>5, <1>8, <1>9, <1>10, <1>11 DEF CountsExact, Living

LEMMA NothingMovesKeeps == ASSUME Counted, UNCHANGED vars PROVE Control' /\ CountsExact'
<1>1. Control'
  BY DEF Counted, Control, Placed, Stack, vars
<1>2. Living' = Living /\ Spawning' = Spawning /\ Idle' = Idle /\ sync' = sync
  BY DEF Living, Alive, Spawning, Idle, vars
<1> QED BY <1>1, <1>2, Numbers DEF CountsExact, Living

LEMMA InitiallyCounted == Init => Counted
<1> SUFFICES ASSUME Init PROVE Counted
  OBVIOUS
<1>1. Control
  BY Names DEF Init, Control, Placed, Stack, NoArg, EventLabels
<1>2. Living = {} /\ Spawning = {} /\ Idle = {}
  BY Names DEF Init, Living, Alive, Spawning, Idle
<1>3. CountsExact
  <2>1. Cardinality({}) = 0 /\ 0 <= MaxThreads
    BY FS_EmptySet, PoolAssumption
  <2>2. sync.spawned = 0 /\ sync.idle = 0
    BY DEF Init
  <2> QED BY <1>2, <2>1, <2>2 DEF CountsExact, Living
<1> QED BY <1>1, <1>3, Initially DEF Counted

LEMMA CountedSteps == Counted /\ [Next]_vars => Counted'
<1> SUFFICES ASSUME Counted, [Next]_vars PROVE Control' /\ CountsExact'
  BY Steps DEF Counted
<1>1. ASSUME NEW a \in Actors, CallStep(a) \/ SpawnFails(a) \/ EventTimeout(a)
      PROVE  Control' /\ CountsExact'
  BY <1>1, CallPath, NotifyPath, SpawnPath, RefusedPath, EventPath, WakePath DEF CallStep
<1>2. ASSUME NEW a \in Actors, NEW n \in 1 .. MaxBatch, Schedule(a, n)
      PROVE  Control' /\ CountsExact'
  BY <1>2, CallPath
<1>3. ASSUME NEW w \in Workers, WorkerStep(w) PROVE Control' /\ CountsExact'
  BY <1>3, RunPath, LeavePath, IdlePath, StopPath, UnregisterPath DEF WorkerStep
<1>4. CASE OwnerStep \/ IdleTasks \/ Shutdown
  BY <1>4, WarmPath, OwnerPath, StopPath DEF OwnerStep
<1>5. CASE UNCHANGED vars
  BY <1>5, NothingMovesKeeps
<1> QED BY <1>1, <1>2, <1>3, <1>4, <1>5 DEF Next

\* The counts packed in the sync word are the truth in every state: no worker is spawned
\* beyond max_threads, none is forgotten, and join() waits for exactly those that are left.
THEOREM CountsAreExact == Spec => []CountsExact
<1>1. Counted => CountsExact
  BY DEF Counted
<1> QED BY <1>1, InitiallyCounted, CountedSteps, PTL DEF Spec

-----------------------------------------------------------------------------
(* Idle tasks.  They are given to the workers on the stack while the pool  *)
(* is not shutting down, when every one of them still works; a worker that *)
(* begins to leave empties its own idle queue first.                       *)

Stacked(w) == w = threads \/ \E v \in Workers : local[v].next = w

Served ==
  /\ sync.state # "Shutdown" => \A w \in Workers : pc[w] = "off" \/ Working(w)
  /\ \A w \in Workers : Stacked(w) => pc[w] # "off"
  /\ idleq \subseteq Workers /\ \A w \in idleq : Working(w)

\* What every other step does to the stack, the idle queues and the state of the pool.
Aside ==
  /\ threads' \in {threads, None} /\ \A w \in Workers : local'[w].next = local[w].next
  /\ idleq' \subseteq idleq
  /\ sync.state = "Shutdown" => sync'.state = "Shutdown"

LEMMA SteadyServes == ASSUME Served, Steady, Aside PROVE Served'
BY Names DEF Served, Steady, Aside, Stacked

LEMMA CallServes ==
  ASSUME Counted, Served, NEW a \in Actors,
         \/ Push(a) \/ Notify(a) \/ NotifySlow(a) \/ SpawnFails(a) \/ \E n \in 1 .. MaxBatch : Schedule(a, n)
         \/ EventWait(a) \/ EventSleep(a) \/ EventSwap(a) \/ EventWake(a) \/ EventTimeout(a)
  PROVE  Served'
<1>1. Steady
  BY CallPath, NotifyPath, RefusedPath, EventPath, WakePath
<1>2. Aside
  <2> USE DEF Aside, Counted, Inv, Shapes, Locals, Word
  <2>1. CASE NotifySlow(a)
    BY <2>1 DEF NotifySlow, Set
  <2>2. CASE SpawnFails(a)
    BY <2>2 DEF SpawnFails
  <2>3. CASE ~NotifySlow(a) /\ ~SpawnFails(a)
    BY <2>3 DEF Push, Notify, Schedule, EventWait, EventSleep, EventSwap, EventWake, EventTimeout
  <2> QED BY <2>1, <2>2, <2>3
<1> QED BY <1>1, <1>2, SteadyServes

LEMMA RunServes ==
  ASSUME Counted, Served, NEW w \in Workers, WorkerStep(w), ~Register(w), ~WaitShutdown(w)
  PROVE  Served'
<1>1. Steady
  BY RunPath, LeavePath, IdlePath, UnregisterPath DEF WorkerStep
<1>2. Aside
  <2> USE DEF Aside, Counted, Inv, Shapes, Locals, Word, Set
  <2>1. CASE WaitNotified(w)
    BY <2>1 DEF WaitNotified
  <2>2. CASE WaitBecomesIdle(w)
    BY <2>2 DEF WaitBecomesIdle
  <2>3. CASE PopBuffer(w) \/ PopGlobal(w)
    BY <2>3 DEF PopBuffer, PopGlobal
  <2>4. CASE Consume(w) \/ Got(w)
    BY <2>4 DEF Consume, Got
  <2>5. CASE Steal(w)
    BY <2>5 DEF Steal
  <2>6. CASE Unregister(w)
    BY <2>6 DEF Unregister
  <2>7. CASE WaitSleeps(w) \/ ReleaseConsumer(w) \/ PopNothing(w) \/ Finish(w) \/ Exit(w) \/ Chain(w)
    BY <2>7 DEF WaitSleeps, ReleaseConsumer, PopNothing, Finish, Exit, Chain
  <2> QED BY <2>1, <2>2, <2>3, <2>4, <2>5, <2>6, <2>7 DEF WorkerStep
<1> QED BY <1>1, <1>2, SteadyServes

\* The newly registered worker works; the one below it was registered before.
LEMMA RegisterServes == ASSUME Counted, Served, NEW w \in Workers, Register(w) PROVE Served'
<1>1. Steady
  BY RunPath
<1>2. /\ pc[w] = "register" /\ threads' = w /\ idleq' = idleq /\ sync' = sync
      /\ \A v \in Workers : local'[v].next = IF v = w THEN threads ELSE local[v].next
  BY DEF Register, Set, Counted, Inv, Shapes, Locals
<1>3. ASSUME NEW v \in Workers, Stacked(v)' PROVE v = w \/ Stacked(v)
  BY <1>2, <1>3 DEF Stacked
<1> QED BY <1>1, <1>2, <1>3 DEF Served, Steady

\* wait() on Shutdown: the last drain comes before the worker leaves.
LEMMA LeavingServes == ASSUME Counted, Served, NEW w \in Workers, WaitShutdown(w) PROVE Served'
<1>1. /\ pc[w] = "wait" /\ sync.state = "Shutdown" /\ sync' = sync
      /\ arg' = arg /\ threads' = threads /\ idleq' = idleq \ {w}
  BY DEF WaitShutdown
<1>2. /\ pc'[w] = "unregister"
      /\ \A v \in Workers \ {w} : pc'[v] = pc[v]
  BY Names DEF WaitShutdown, Goto, Counted, Control
<1>3. \A v \in Workers : local'[v].next = local[v].next
  <2>1. local' = [local EXCEPT ![w] = [local[w] EXCEPT !.waking = FALSE, !.idle = FALSE, !.target = None]]
    BY DEF WaitShutdown
  <2> QED BY <2>1 DEF Counted, Inv, Shapes, Locals
<1> QED BY <1>1, <1>2, <1>3 DEF Served, Stacked, Working, Alive

LEMMA SpawnServes == ASSUME Counted, Served, NEW a \in Actors, Spawn(a) PROVE Served'
<1> USE DEF Counted, Control
<1>1. /\ sync' = sync /\ arg' = arg /\ local' = local /\ threads' = threads /\ idleq' = idleq
      /\ pc[a] \in Spawns
  BY DEF Spawn, Spawns
<1>2. PICK w \in Workers : pc[w] = "off" /\ pc' = [pc EXCEPT ![a] = Spawned(a), ![w] = "register"]
  BY DEF Spawn
<1>3. /\ w # a /\ pc'[w] = "register" /\ pc'[a] \in {"warm", "run", "out"}
      /\ \A b \in Actors \ {a, w} : pc'[b] = pc[b]
  BY <1>1, <1>2, Names DEF Spawns, Spawned, After
<1>4. \A v \in Workers : Working(v)' <=> (v = w \/ Working(v))
  <2>1. Working(w)'
    BY <1>1, <1>2, <1>3, Names DEF Placed, Working, Alive, EventLabels
  <2>2. a \in Workers => Working(a)' /\ Working(a)
    BY <1>1, <1>3, Names DEF Placed, Working, Alive, EventLabels, Spawns
  <2>3. \A v \in Workers \ {a, w} : Working(v)' <=> Working(v)
    BY <1>1, <1>3, Names DEF Working, Alive
  <2> QED BY <2>1, <2>2, <2>3
<1>5. \A v \in Workers : pc'[v] = "off" <=> (pc[v] = "off" /\ v # w)
  BY <1>1, <1>3, Names DEF Spawns
<1> QED BY <1>1, <1>4, <1>5 DEF Served, Stacked

\* Idle tasks go to workers that are registered in a pool that is not shutting down.
LEMMA IdleTasksServes == ASSUME Counted, Served, IdleTasks PROVE Served'
<1>1. Steady
  BY OwnerPath
<1>2. /\ sync.state # "Shutdown" /\ sync' = sync /\ threads' = threads /\ local' = local
      /\ idleq' = {w \in Workers : Stacked(w)}
  BY DEF IdleTasks, Dropping, Stacked
<1>3. \A w \in idleq' : Working(w)
  BY <1>2 DEF Served
<1> QED BY <1>1, <1>2, <1>3 DEF Served, Steady, Stacked

LEMMA OwnerServes == ASSUME Counted, Served, OwnerStep \/ Shutdown PROVE Served'
<1>1. Steady
  <2>1. CASE OwnerStep
    BY <2>1, WarmPath, OwnerPath DEF OwnerStep
  <2>2. CASE Shutdown
    <3>1. \A w \in Workers : pc'[w] = pc[w] /\ (arg'[w].ev = arg[w].ev)
      BY <2>2, Names DEF Shutdown, WakeOn, Goto, Counted, Control
    <3> QED BY <3>1 DEF Steady, Working, Alive
  <2> QED BY <2>1, <2>2
<1>2. Aside
  BY DEF OwnerStep, WarmUp, Join, Unlink, Shutdown, Aside, Counted, Inv, Shapes, Word
<1> QED BY <1>1, <1>2, SteadyServes

LEMMA InitiallyServed == Init => Served
BY Names DEF Init, Served, Stacked

LEMMA ServedSteps == Counted /\ Served /\ [Next]_vars => Served'
<1> SUFFICES ASSUME Counted, Served, [Next]_vars PROVE Served'
  OBVIOUS
<1>1. ASSUME NEW a \in Actors, CallStep(a) \/ SpawnFails(a) \/ EventTimeout(a) PROVE Served'
  BY <1>1, CallServes, SpawnServes DEF CallStep
<1>2. ASSUME NEW a \in Actors, NEW n \in 1 .. MaxBatch, Schedule(a, n) PROVE Served'
  BY <1>2, CallServes
<1>3. ASSUME NEW w \in Workers, WorkerStep(w) PROVE Served'
  BY <1>3, RunServes, RegisterServes, LeavingServes
<1>4. CASE OwnerStep \/ IdleTasks \/ Shutdown
  BY <1>4, OwnerServes, IdleTasksServes
<1>5. CASE UNCHANGED vars
  BY <1>5 DEF Served, Stacked, Working, Alive, vars
<1> QED BY <1>1, <1>2, <1>3, <1>4, <1>5 DEF Next

\* No idle task is left with a worker that is gone: whoever holds one is still counted,
\* and drains its queue before it unregisters, however shutdown() and wake_for_idle_events() race.
THEOREM IdleTasksAreRun == Spec => []IdleTasksRunBeforeExit
<1>1. Served => IdleTasksRunBeforeExit
  BY DEF Served, IdleTasksRunBeforeExit, Working
<1> QED BY <1>1, InitiallyCounted, CountedSteps, InitiallyServed, ServedSteps, PTL DEF Spec

-----------------------------------------------------------------------------
(* Counting the tasks that wait: positions pile up at each place.          *)

LEMMA Pile ==
  ASSUME NEW x, NEW k \in Nat
  PROVE  IsFiniteSet({x} \X (1 .. k)) /\ Cardinality({x} \X (1 .. k)) = k
<1>1. IsFiniteSet({x}) /\ Cardinality({x}) = 1
  BY FS_Singleton
<1>2. IsFiniteSet(1 .. k) /\ Cardinality(1 .. k) = k
  BY FS_Interval
<1> DEFINE A == {x}
           B == 1 .. k
<1>3. IsFiniteSet(A \X B) /\ Cardinality(A \X B) = Cardinality(A) * Cardinality(B)
  <2> HIDE DEF A, B
  <2>1. IsFiniteSet(A) /\ IsFiniteSet(B)
    BY <1>1, <1>2 DEF A, B
  <2> QED BY <2>1, FS_Product
<1>4. Cardinality(A) * Cardinality(B) = k
  BY <1>1, <1>2
<1> QED BY <1>3, <1>4

LEMMA PilesFinite ==
  ASSUME NEW S, IsFiniteSet(S), NEW n, \A x \in S : n[x] \in Nat
  PROVE  IsFiniteSet(Positions(S, n)) /\ Cardinality(Positions(S, n)) \in Nat
<1> DEFINE P == {{x} \X (1 .. n[x]) : x \in S}
           f == [x \in S |-> {x} \X (1 .. n[x])]
<1>1. f \in Surjection(S, P)
  BY DEF Surjection
<1>2. IsFiniteSet(P)
  BY <1>1, FS_Surjection
<1>3. ASSUME NEW x \in S PROVE IsFiniteSet({x} \X (1 .. n[x]))
  BY Pile
<1>4. \A T \in P : IsFiniteSet(T)
  BY <1>3
<1>5. IsFiniteSet(UNION P)
  BY <1>2, <1>4, FS_UNION
<1> QED BY <1>5, FS_CardinalityType DEF Positions

\* One place more adds what is there.
LEMMA OnePlaceMore ==
  ASSUME NEW S, IsFiniteSet(S), NEW n, NEW a, a \notin S, \A x \in S \cup {a} : n[x] \in Nat
  PROVE  Cardinality(Positions(S \cup {a}, n)) = Cardinality(Positions(S, n)) + n[a]
<1> DEFINE A == {a} \X (1 .. n[a])
<1>1. Positions(S \cup {a}, n) = Positions(S, n) \cup A
  BY DEF Positions
<1>2. Positions(S, n) \cap A = {}
  BY DEF Positions
<1>3. IsFiniteSet(Positions(S, n)) /\ Cardinality(Positions(S, n)) \in Nat
  BY PilesFinite
<1>4. IsFiniteSet(A) /\ Cardinality(A) = n[a]
  BY Pile
<1>5. Cardinality(Positions(S, n) \cup A) = Cardinality(Positions(S, n)) + n[a] - Cardinality({})
  <2> HIDE DEF A
  <2> QED BY <1>2, <1>3, <1>4, FS_Union
<1>6. n[a] \in Nat /\ Cardinality({}) = 0
  BY FS_EmptySet
<1>7. Cardinality(Positions(S, n) \cup A) = Cardinality(Positions(S, n)) + n[a]
  BY <1>3, <1>5, <1>6
<1> QED BY <1>1, <1>7

\* What counts is how many there are at each place.
LEMMA SamePlaces ==
  ASSUME NEW S, NEW m, NEW n, \A x \in S : m[x] = n[x]
  PROVE  Positions(S, m) = Positions(S, n)
BY DEF Positions

\* A change at one place.
LEMMA OnePlaceChanges ==
  ASSUME NEW S, IsFiniteSet(S), NEW m, NEW n, NEW a \in S,
         \A x \in S : m[x] \in Nat /\ n[x] \in Nat,
         \A x \in S \ {a} : m[x] = n[x]
  PROVE  Cardinality(Positions(S, n)) = Cardinality(Positions(S, m)) + n[a] - m[a]
<1> DEFINE R == S \ {a}
<1>1. IsFiniteSet(R) /\ a \notin R /\ S = R \cup {a}
  BY FS_RemoveElement
<1>2. Cardinality(Positions(S, n)) = Cardinality(Positions(R, n)) + n[a]
  BY <1>1, OnePlaceMore
<1>3. Cardinality(Positions(S, m)) = Cardinality(Positions(R, m)) + m[a]
  BY <1>1, OnePlaceMore
<1>4. Positions(R, m) = Positions(R, n) /\ Cardinality(Positions(R, m)) \in Nat
  BY <1>1, SamePlaces, PilesFinite
<1> QED BY <1>2, <1>3, <1>4

-----------------------------------------------------------------------------
(* The end of the pool.  join() takes the stack of workers apart when no   *)
(* worker is left that could walk it: its event is signalled by the last   *)
(* one out, after shutdown(), and then nobody can be spawned any more.     *)

Waits == {"event_wait", "event_futex", "asleep"}
Wakes == {"event_swap", "event_wake"}

Ended == sync.state = "Shutdown" /\ sync.spawned = 0

OwnerPlaced ==
  /\ sync.state = "Shutdown" => pc[Owner] \notin {"warm", "warm_spawn"}
  /\ pc[Owner] \notin {"push", "notify", "notify_slow", "spawn"}
  /\ pc[Owner] = "join" => sync.state = "Shutdown"
  /\ pc[Owner] \in Waits => arg[Owner].ev = JoinEvent /\ arg[Owner].next = "unlink"
  /\ pc[Owner] \in Wakes => /\ arg[Owner].next # "unlink"
                            /\ arg[Owner].next = "join" => sync.state = "Shutdown"
  /\ pc[Owner] = "unlink" => Ended

JoinSignalled ==
  /\ DOMAIN event = Events
  /\ event[JoinEvent] \in {"NOTIFIED", "SHUTDOWN"} => Ended
  /\ \A a \in Actors : pc[a] = "event_swap" /\ arg[a].ev = JoinEvent => Ended

Ending == OwnerPlaced /\ JoinSignalled

\* Once the pool has ended it has: every increment of spawned looks at the state first.
LEMMA EndLasts ==
  ASSUME Counted, OwnerPlaced, [Next]_vars
  PROVE  /\ sync.state = "Shutdown" => sync'.state = "Shutdown"
         /\ Ended => Ended'
<1> USE DEF Counted, Inv, Shapes, Word
<1>1. sync.state = "Shutdown" => /\ sync'.state = "Shutdown"
                                 /\ sync'.spawned \in {sync.spawned, sync.spawned - 1}
  <2> USE DEF Next
  <2>1. ASSUME NEW a \in Actors, NotifySlow(a), sync.state = "Shutdown" PROVE sync' = sync
    BY <2>1 DEF NotifySlow
  <2>2. ASSUME NEW a \in Actors, CallStep(a), ~NotifySlow(a) PROVE sync' = sync
    BY <2>2 DEF CallStep, Push, Notify, Spawn, EventWait, EventSleep, EventSwap, EventWake
  <2>3. ASSUME NEW a \in Actors, SpawnFails(a)
        PROVE  sync'.state = sync.state /\ sync'.spawned = sync.spawned - 1
    BY <2>3 DEF SpawnFails
  <2>4. ASSUME NEW a \in Actors, EventTimeout(a) \/ \E n \in 1 .. MaxBatch : Schedule(a, n)
        PROVE  sync' = sync
    BY <2>4 DEF EventTimeout, Schedule
  <2>5. ASSUME NEW w \in Workers, WorkerStep(w), sync.state = "Shutdown"
        PROVE  sync' = sync \/ (sync'.state = sync.state /\ sync'.spawned = sync.spawned - 1)
    BY <2>5 DEF WorkerStep, Register, WaitNotified, WaitBecomesIdle, WaitSleeps, WaitShutdown, PopBuffer,
                PopGlobal, Consume, ReleaseConsumer, Steal, PopNothing, Got, Finish, Unregister, Exit, Chain
  <2>6. ASSUME OwnerStep, sync.state = "Shutdown" PROVE sync' = sync
    BY <2>6 DEF OwnerStep, WarmUp, Join, Unlink, OwnerPlaced
  <2>7. ASSUME IdleTasks \/ Shutdown \/ UNCHANGED vars, sync.state = "Shutdown"
        PROVE  sync'.state = sync.state /\ sync'.spawned = sync.spawned
    BY <2>7 DEF IdleTasks, Shutdown, Dropping, vars
  <2> QED BY <2>1, <2>2, <2>3, <2>4, <2>5, <2>6, <2>7
<1>2. sync.spawned \in Nat /\ sync'.spawned \in Nat
  <2>1. Counted'
    BY CountedSteps
  <2>2. \A S \in SUBSET Workers, R \in SUBSET Actors : Cardinality(S) + Cardinality(R) \in Nat
    BY Sizes
  <2>3. sync'.spawned = Cardinality({w \in Workers : Alive(w)'}) + Cardinality({a \in Actors : pc'[a] \in Spawns})
    BY <2>1 DEF CountsExact, Spawning, Spawns
  <2> QED BY <2>2, <2>3, Numbers
<1> QED BY <1>1, <1>2 DEF Ended

\* Nobody but shutdown() shuts the pool down.
LEMMA OnlyShutdownEnds ==
  ASSUME Counted, [Next]_vars, ~Shutdown
  PROVE  sync'.state = "Shutdown" => sync.state = "Shutdown"
<1> USE DEF Counted, Inv, Shapes, Word
<1>1. ASSUME NEW a \in Actors, CallStep(a) \/ SpawnFails(a) \/ EventTimeout(a) \/ \E n \in 1 .. MaxBatch : Schedule(a, n)
      PROVE  sync'.state = "Shutdown" => sync.state = "Shutdown"
  BY <1>1 DEF CallStep, Push, Notify, NotifySlow, Spawn, EventWait, EventSleep, EventSwap, EventWake,
              SpawnFails, EventTimeout, Schedule
<1>2. ASSUME NEW w \in Workers, WorkerStep(w)
      PROVE  sync'.state = "Shutdown" => sync.state = "Shutdown"
  BY <1>2 DEF WorkerStep, Register, WaitNotified, WaitBecomesIdle, WaitSleeps, WaitShutdown, PopBuffer,
              PopGlobal, Consume, ReleaseConsumer, Steal, PopNothing, Got, Finish, Unregister, Exit, Chain
<1>3. ASSUME OwnerStep \/ IdleTasks \/ UNCHANGED vars
      PROVE  sync'.state = "Shutdown" => sync.state = "Shutdown"
  BY <1>3 DEF OwnerStep, WarmUp, Join, Unlink, IdleTasks, vars
<1> QED BY <1>1, <1>2, <1>3 DEF Next

\* A step moves one thread, except that a spawn starts another and a wake wakes others.
LEMMA OneMoves ==
  ASSUME Counted
  PROVE  /\ \A a \in Actors : CallStep(a) => Spawn(a) \/ EventWake(a) \/ Elsewhere(a)
         /\ \A a \in Actors : SpawnFails(a) \/ EventTimeout(a) => Elsewhere(a)
         /\ \A a \in Actors, n \in 1 .. MaxBatch : Schedule(a, n) => Elsewhere(a)
         /\ \A w \in Workers : WorkerStep(w) => Elsewhere(w)
         /\ OwnerStep \/ IdleTasks \/ Shutdown => Elsewhere(Owner)
<1> USE Names DEF Counted, Control, Elsewhere, Goto, WaitOn, WakeOn, EventReturn
<1>1. ASSUME NEW a \in Actors, CallStep(a) PROVE Spawn(a) \/ EventWake(a) \/ Elsewhere(a)
  BY <1>1 DEF CallStep, Push, Notify, NotifySlow, EventWait, EventSleep, EventSwap
<1>2. ASSUME NEW a \in Actors, SpawnFails(a) \/ EventTimeout(a) PROVE Elsewhere(a)
  BY <1>2 DEF SpawnFails, EventTimeout
<1>3. ASSUME NEW a \in Actors, NEW n \in 1 .. MaxBatch, Schedule(a, n) PROVE Elsewhere(a)
  BY <1>3 DEF Schedule
<1>4. ASSUME NEW w \in Workers, WorkerStep(w) PROVE Elsewhere(w)
  BY <1>4 DEF WorkerStep, Register, WaitNotified, WaitBecomesIdle, WaitSleeps, WaitShutdown, PopBuffer,
              PopGlobal, Consume, ReleaseConsumer, Steal, PopNothing, Got, Finish, Unregister, Exit, Chain
<1>5. OwnerStep \/ IdleTasks \/ Shutdown => Elsewhere(Owner)
  BY DEF OwnerStep, WarmUp, Join, Unlink, IdleTasks, Shutdown
<1> QED BY <1>1, <1>2, <1>3, <1>4, <1>5

\* What the owner itself does next.
LEMMA OwnerMoves ==
  ASSUME Counted, OwnerPlaced, [Next]_vars,
         \/ CallStep(Owner) /\ ~EventWake(Owner) /\ ~EventWait(Owner)
         \/ SpawnFails(Owner) \/ EventTimeout(Owner)
         \/ OwnerStep \/ IdleTasks \/ Shutdown
  PROVE  OwnerPlaced'
<1> USE Names DEF Counted, Control, Inv, Shapes, Word, Goto, After, NoArg
<1>1. /\ sync.state = "Shutdown" => sync'.state = "Shutdown"
      /\ Ended => Ended'
  BY EndLasts
<1>2. CASE Spawn(Owner) \/ SpawnFails(Owner)
  <2>1. /\ pc[Owner] = "warm_spawn" /\ sync.state # "Shutdown" /\ sync'.state = sync.state
        /\ pc'[Owner] \in {"warm", "out"}
    BY <1>2 DEF Spawn, SpawnFails, OwnerPlaced, Spawned
  <2> QED BY <2>1 DEF OwnerPlaced, Waits, Wakes
<1>3. CASE EventSleep(Owner) \/ EventTimeout(Owner)
  <2>1. /\ pc[Owner] \in Waits /\ pc'[Owner] \in Waits
        /\ arg'[Owner].ev = arg[Owner].ev /\ arg'[Owner].next = arg[Owner].next
    BY <1>3 DEF EventSleep, EventTimeout, Waits, Placed, EventLabels
  <2> QED BY <1>1, <2>1 DEF OwnerPlaced, Waits, Wakes
<1>4. CASE EventSwap(Owner)
  <2>1. /\ pc[Owner] \in Wakes /\ sync' = sync
        /\ \/ pc'[Owner] \in Wakes /\ arg' = arg
           \/ pc'[Owner] = arg[Owner].next /\ pc'[Owner] \in {"out", "join", "joined"}
    BY <1>4 DEF EventSwap, EventReturn, Wakes, Placed, EventLabels, OwnerPlaced
  <2> QED BY <1>1, <2>1 DEF OwnerPlaced, Waits, Wakes
<1>5. CASE Push(Owner) \/ Notify(Owner) \/ NotifySlow(Owner)
  BY <1>5 DEF Push, Notify, NotifySlow, OwnerPlaced
<1>6. CASE WarmUp
  <2>1. /\ pc[Owner] = "warm" /\ sync'.state = sync.state
        /\ pc'[Owner] \in {"warm_spawn", "out"}
    BY <1>6 DEF WarmUp
  <2> QED BY <2>1 DEF OwnerPlaced, Waits, Wakes
<1>7. CASE Join
  <2>1. /\ pc[Owner] = "join" /\ sync' = sync /\ sync.state = "Shutdown"
        /\ \/ sync.spawned = 0 /\ pc'[Owner] = "unlink"
           \/ /\ pc'[Owner] = "event_wait"
              /\ arg'[Owner] = [ev |-> JoinEvent, with |-> "EMPTY", shrunk |-> FALSE, next |-> "unlink"]
    BY <1>7 DEF Join, WaitOn, OwnerPlaced
  <2> QED BY <2>1 DEF OwnerPlaced, Waits, Wakes, Ended
<1>8. CASE Unlink \/ IdleTasks
  <2>1. /\ \/ pc'[Owner] = "joined"
           \/ pc'[Owner] = "event_swap" /\ arg'[Owner].next \in {"joined", "out"}
        /\ sync' = sync
    BY <1>8 DEF Unlink, IdleTasks, WakeOn
  <2> QED BY <2>1 DEF OwnerPlaced, Waits, Wakes
<1>9. CASE Shutdown
  <2>1. /\ \/ pc'[Owner] = "join"
           \/ pc'[Owner] = "event_swap" /\ arg'[Owner].next = "join"
        /\ sync'.state = "Shutdown"
    BY <1>9 DEF Shutdown, WakeOn
  <2> QED BY <2>1 DEF OwnerPlaced, Waits, Wakes
<1> QED BY <1>2, <1>3, <1>4, <1>5, <1>6, <1>7, <1>8, <1>9 DEF CallStep, OwnerStep

LEMMA OwnerPlacedSteps ==
  ASSUME Counted, Ending, [Next]_vars
  PROVE  OwnerPlaced'
<1> USE Names DEF Ending
<1>1. /\ sync.state = "Shutdown" => sync'.state = "Shutdown"
      /\ Ended => Ended'
      /\ ~Shutdown => (sync'.state = "Shutdown" => sync.state = "Shutdown")
  BY EndLasts, OnlyShutdownEnds
<1>2. ASSUME pc'[Owner] = pc[Owner], arg'[Owner] = arg[Owner], ~Shutdown PROVE OwnerPlaced'
  BY <1>1, <1>2 DEF OwnerPlaced
<1>3. ASSUME NEW a \in Actors, Elsewhere(a), a # Owner, ~Shutdown PROVE OwnerPlaced'
  BY <1>2, <1>3 DEF Elsewhere
<1>4. ASSUME EventWait(Owner) PROVE OwnerPlaced'
  <2>1. /\ pc[Owner] \in Waits /\ sync' = sync
        /\ \/ pc'[Owner] \in Waits /\ arg' = arg
           \/ pc'[Owner] = arg[Owner].next /\ event[arg[Owner].ev] \in {"NOTIFIED", "SHUTDOWN"}
    BY <1>4 DEF EventWait, EventReturn, Goto, Waits, Counted, Control
  <2> QED BY <1>1, <2>1 DEF OwnerPlaced, JoinSignalled, Waits, Wakes
<1>5. ASSUME NEW a \in Actors, Spawn(a), a # Owner PROVE OwnerPlaced'
  <2>1. pc'[Owner] = pc[Owner] /\ arg' = arg /\ sync' = sync
    BY <1>5 DEF Spawn, Counted, Control
  <2> QED BY <1>1, <2>1 DEF OwnerPlaced
<1>6. ASSUME NEW a \in Actors, EventWake(a) PROVE OwnerPlaced'
  <2>1. /\ sync' = sync
        /\ \/ pc'[Owner] = pc[Owner] /\ arg'[Owner] = arg[Owner]
           \/ /\ pc[Owner] = "asleep" /\ pc'[Owner] = "event_wait"
              /\ arg'[Owner] = [arg[Owner] EXCEPT !.with = "WAITING"]
           \/ pc[Owner] = "event_wake" /\ pc'[Owner] = arg[Owner].next
    BY <1>6 DEF EventWake, Sleepers
  <2>2. pc[Owner] \in EventLabels => {"ev", "next"} \subseteq DOMAIN arg[Owner] /\ arg[Owner].next \in {"out", "join", "unlink", "joined"}
    BY DEF Counted, Control, Placed
  <2> QED BY <1>1, <2>1, <2>2 DEF OwnerPlaced, Waits, Wakes, EventLabels
<1>7. CASE Shutdown
  BY <1>7, OwnerMoves
<1>8. ASSUME NEW a \in Actors, CallStep(a), ~Shutdown PROVE OwnerPlaced'
  BY <1>3, <1>4, <1>5, <1>6, <1>8, OneMoves, OwnerMoves
<1>9. ASSUME NEW a \in Actors, SpawnFails(a) \/ EventTimeout(a) \/ \E n \in 1 .. MaxBatch : Schedule(a, n), ~Shutdown
      PROVE  OwnerPlaced'
  BY <1>3, <1>9, OneMoves, OwnerMoves DEF Schedule
<1>10. ASSUME NEW w \in Workers, WorkerStep(w), ~Shutdown PROVE OwnerPlaced'
  BY <1>3, <1>10, OneMoves
<1>11. CASE OwnerStep \/ IdleTasks
  BY <1>11, OwnerMoves
<1>12. CASE UNCHANGED vars /\ ~Shutdown
  BY <1>2, <1>12 DEF vars
<1> QED BY <1>7, <1>8, <1>9, <1>10, <1>11, <1>12 DEF Next

\* The event of the joiner is left alone, and nobody sets out to signal it.
Unsignalled(a) ==
  /\ Elsewhere(a) /\ event' = event
  /\ pc'[a] = "event_swap" => arg'[a].ev # JoinEvent

LEMMA JoinSignalledSteps ==
  ASSUME Counted, Served, Ending, [Next]_vars
  PROVE  JoinSignalled'
<1> USE Names DEF Ending, Counted, Control
<1>1. Ended => Ended'
  BY EndLasts
<1>2. ASSUME NEW a \in Actors, Unsignalled(a) PROVE JoinSignalled'
  BY <1>1, <1>2 DEF JoinSignalled, Unsignalled, Elsewhere
<1>3. ASSUME NEW a \in Actors,
             \/ Push(a) \/ Notify(a) \/ NotifySlow(a) \/ EventSleep(a) \/ EventTimeout(a)
             \/ \E n \in 1 .. MaxBatch : Schedule(a, n)
      PROVE  JoinSignalled'
  <2>1. Elsewhere(a)
    BY <1>3, OneMoves DEF CallStep, Spawn, EventWake, Push, Notify, NotifySlow, EventSleep
  <2>2. event' = event
    BY <1>3 DEF Push, Notify, NotifySlow, EventSleep, EventTimeout, Schedule
  <2>3. CASE NotifySlow(a)
    <3>1. pc'[a] = "event_swap" => arg'[a].ev = IdleEvent
      BY <2>3 DEF NotifySlow, Goto, WakeOn, After
    <3> QED BY <1>2, <2>1, <2>2, <3>1 DEF Unsignalled
  <2>4. CASE ~NotifySlow(a)
    <3>1. pc'[a] # "event_swap"
      BY <1>3, <2>4 DEF Push, Notify, EventSleep, EventTimeout, Schedule, Goto, After
    <3> QED BY <1>2, <2>1, <2>2, <3>1 DEF Unsignalled
  <2> QED BY <2>3, <2>4
<1>4. ASSUME NEW w \in Workers, WorkerStep(w), ~Unregister(w) PROVE JoinSignalled'
  <2>1. event' = event
    BY <1>4 DEF WorkerStep, Register, WaitNotified, WaitBecomesIdle, WaitSleeps, WaitShutdown, PopBuffer,
                PopGlobal, Consume, ReleaseConsumer, Steal, PopNothing, Got, Finish, Exit, Chain
  <2>2. pc'[w] = "event_swap" => arg'[w].ev # JoinEvent
    <3>1. CASE Chain(w)
      BY <3>1 DEF Chain, Goto, WakeOn, Stack
    <3>2. CASE ~Chain(w)
      BY <1>4, <3>2 DEF WorkerStep, Register, WaitNotified, WaitBecomesIdle, WaitSleeps, WaitShutdown, PopBuffer,
                        PopGlobal, Consume, ReleaseConsumer, Steal, PopNothing, Got, Finish, Exit, Goto, WaitOn
    <3> QED BY <3>1, <3>2
  <2> QED BY <1>2, <1>4, <2>1, <2>2, OneMoves DEF Unsignalled
<1>5. CASE OwnerStep \/ IdleTasks \/ Shutdown
  <2>1. event' = event
    BY <1>5 DEF OwnerStep, WarmUp, Join, Unlink, IdleTasks, Shutdown
  <2>2. pc'[Owner] = "event_swap" => arg'[Owner].ev # JoinEvent
    BY <1>5 DEF OwnerStep, WarmUp, Join, Unlink, IdleTasks, Shutdown, Goto, WaitOn, WakeOn, Stack, None
  <2> QED BY <1>2, <1>5, <2>1, <2>2, OneMoves DEF Unsignalled
<1>6. ASSUME NEW a \in Actors, EventWait(a) PROVE JoinSignalled'
  <2> DEFINE e == arg[a].ev
  <2>1. Elsewhere(a) /\ e \in Events /\ pc'[a] # "event_swap"
    BY <1>6, OneMoves DEF CallStep, Spawn, EventWake, EventWait, EventReturn, Goto, EventLabels, Placed
  <2>2. \/ event' = event
        \/ event[e] = "NOTIFIED" /\ event' = [event EXCEPT ![e] = arg[a].with]
        \/ event' = [event EXCEPT ![e] = "WAITING"]
    BY <1>6 DEF EventWait
  <2>3. event'[JoinEvent] \in {"NOTIFIED", "SHUTDOWN"} => event[JoinEvent] \in {"NOTIFIED", "SHUTDOWN"}
    BY <2>1, <2>2 DEF JoinSignalled
  <2>4. DOMAIN event' = Events
    BY <2>2 DEF JoinSignalled
  <2> QED BY <1>1, <2>1, <2>3, <2>4 DEF JoinSignalled, Elsewhere
<1>7. ASSUME NEW a \in Actors, EventSwap(a) PROVE JoinSignalled'
  <2> DEFINE e == arg[a].ev
  <2>1. Elsewhere(a) /\ pc[a] = "event_swap" /\ pc'[a] # "event_swap"
    BY <1>7, OneMoves DEF CallStep, Spawn, EventWake, EventSwap, EventReturn, Goto, EventLabels, Placed
  <2>2. /\ DOMAIN event' = Events
        /\ e # JoinEvent => event'[JoinEvent] = event[JoinEvent]
    BY <1>7 DEF EventSwap, JoinSignalled
  <2> QED BY <1>1, <2>1, <2>2 DEF JoinSignalled, Elsewhere
<1>8. ASSUME NEW a \in Actors, EventWake(a) PROVE JoinSignalled'
  <2>1. event' = event
    BY <1>8 DEF EventWake
  <2>2. ASSUME NEW b \in Actors PROVE pc'[b] = "event_swap" => pc[b] = "event_swap" /\ arg'[b] = arg[b]
    BY <1>8 DEF EventWake, Placed, EventLabels
  <2> QED BY <1>1, <2>1, <2>2 DEF JoinSignalled
<1>9. ASSUME NEW a \in Actors, Spawn(a) PROVE JoinSignalled'
  <2>1. event' = event /\ arg' = arg
    BY <1>9 DEF Spawn
  <2>2. ASSUME NEW b \in Actors PROVE pc'[b] = "event_swap" => pc[b] = "event_swap"
    BY <1>9 DEF Spawn, Spawned, After
  <2> QED BY <1>1, <2>1, <2>2 DEF JoinSignalled
<1>10. ASSUME NEW x \in Actors, SpawnFails(x) \/ (x \in Workers /\ Unregister(x)) PROVE JoinSignalled'
  <2>1. Elsewhere(x) /\ event' = event
    BY <1>10, OneMoves DEF SpawnFails, Unregister, WorkerStep
  <2>2. x \in Workers /\ Unregister(x) => sync.state = "Shutdown"
    BY DEF Unregister, Served, Working
  <2>3. pc'[x] = "event_swap" => Ended'
    <3>1. CASE sync.state = "Shutdown" /\ sync.spawned = 1
      <4>1. sync'.state = "Shutdown" /\ sync'.spawned = 0
        BY <1>10, <3>1 DEF SpawnFails, Unregister, Inv, Shapes, Word
      <4> QED BY <4>1 DEF Ended
    <3>2. CASE ~(sync.state = "Shutdown" /\ sync.spawned = 1)
      BY <1>10, <2>2, <3>2 DEF SpawnFails, Unregister, Goto, After
    <3> QED BY <3>1, <3>2
  <2> QED BY <1>1, <2>1, <2>3 DEF JoinSignalled, Elsewhere
<1>11. CASE UNCHANGED vars
  BY <1>1, <1>11 DEF JoinSignalled, vars
<1> QED BY <1>3, <1>4, <1>5, <1>6, <1>7, <1>8, <1>9, <1>10, <1>11 DEF Next, CallStep

-----------------------------------------------------------------------------
(* As long as a worker works there is a stack for the thieves to walk.     *)

Serving(w) == Working(w) /\ pc[w] # "register"
Linked     == \A w \in Workers : Serving(w) => threads # None

LEMMA NobodyServes == ASSUME Counted, Ended PROVE \A w \in Workers : ~Working(w)
<1>1. Cardinality(Living) = 0 /\ IsFiniteSet(Living)
  BY Numbers, Sizes DEF Ended
<1> QED BY <1>1, FS_EmptySet DEF Living, Working

\* A worker begins to serve when it registers.
LEMMA ServingBegins ==
  ASSUME Counted, Served, [Next]_vars, NEW w \in Workers, Serving(w)', ~Serving(w)
  PROVE  Register(w)
<1> USE Names DEF Serving
<1>1. SUFFICES ASSUME ~Register(w), pc[w] = "register", pc'[w] # "register" PROVE FALSE
  <2>1. CASE Steady
    BY <2>1 DEF Steady
  <2>2. ASSUME NEW a \in Actors, CallStep(a) \/ SpawnFails(a) \/ EventTimeout(a), ~Spawn(a) PROVE Steady
    BY <2>2, CallPath, NotifyPath, RefusedPath, EventPath, WakePath DEF CallStep
  <2>3. ASSUME NEW a \in Actors, NEW n \in 1 .. MaxBatch, Schedule(a, n) PROVE Steady
    BY <2>3, CallPath
  <2>4. ASSUME NEW v \in Workers, WorkerStep(v), ~WaitShutdown(v) PROVE Steady
    BY <2>4, RunPath, LeavePath, IdlePath, UnregisterPath DEF WorkerStep
  <2>5. ASSUME OwnerStep \/ IdleTasks PROVE Steady
    BY <2>5, WarmPath, OwnerPath DEF OwnerStep
  <2>6. CASE Shutdown
    <3>1. pc'[w] = pc[w] /\ arg'[w].ev = arg[w].ev
      BY <2>6 DEF Shutdown, WakeOn, Goto, Counted, Control
    <3> QED BY <3>1 DEF Working, Alive
  <2>7. ASSUME NEW v \in Workers, WaitShutdown(v) PROVE FALSE
    <3>1. arg' = arg /\ pc'[v] = "unregister" /\ \A u \in Workers \ {v} : pc'[u] = pc[u]
      BY <2>7 DEF WaitShutdown, Goto, Counted, Control
    <3> QED BY <3>1 DEF Working, Alive
  <2>8. ASSUME NEW a \in Actors, Spawn(a) PROVE FALSE
    <3>1. PICK v \in Workers : pc[v] = "off" /\ pc' = [pc EXCEPT ![a] = Spawned(a), ![v] = "register"]
      BY <2>8 DEF Spawn
    <3>2. pc[a] \in Spawns /\ arg' = arg
      BY <2>8 DEF Spawn, Spawns
    <3>3. pc'[w] = "register" \/ pc'[w] = pc[w] \/ w = a
      BY <3>1 DEF Counted, Control
    <3>4. w = a => Working(w)
      BY <3>2 DEF Counted, Control, Placed, Working, Alive, EventLabels, Spawns
    <3> QED BY <3>2, <3>3, <3>4 DEF Working, Alive, Spawns
  <2>9. CASE UNCHANGED vars
    BY <2>9 DEF vars, Working, Alive
  <2> QED BY <2>1, <2>2, <2>3, <2>4, <2>5, <2>6, <2>7, <2>8, <2>9 DEF Next, CallStep
<1>2. ASSUME NEW a \in Actors, Elsewhere(a) PROVE w = a
  BY <1>1, <1>2 DEF Elsewhere
<1>3. ASSUME CallStep(w) \/ SpawnFails(w) \/ EventTimeout(w) \/ \E n \in 1 .. MaxBatch : Schedule(w, n) PROVE FALSE
  BY <1>1, <1>3 DEF CallStep, Push, Notify, NotifySlow, Spawn, EventWait, EventSleep, EventSwap, EventWake,
                    SpawnFails, EventTimeout, Schedule, After
<1>4. ASSUME WorkerStep(w) PROVE FALSE
  BY <1>1, <1>4 DEF WorkerStep, WaitNotified, WaitBecomesIdle, WaitSleeps, WaitShutdown, PopBuffer,
                    PopGlobal, Consume, ReleaseConsumer, Steal, PopNothing, Got, Finish, Unregister, Exit, Chain
<1>5. ASSUME NEW a \in Actors, Spawn(a) PROVE FALSE
  BY <1>1, <1>5 DEF Spawn, Counted, Control
<1>6. ASSUME NEW a \in Actors, EventWake(a) PROVE FALSE
  BY <1>1, <1>6 DEF EventWake, Sleepers
<1>7. CASE UNCHANGED vars
  BY <1>1, <1>7 DEF vars
<1> QED BY <1>2, <1>3, <1>4, <1>5, <1>6, <1>7, OneMoves DEF Next

LEMMA LinkedSteps ==
  ASSUME Counted, Served, Ending, Linked, [Next]_vars
  PROVE  Linked'
<1> USE Names DEF Linked
<1>1. ASSUME NEW w \in Workers, Register(w) PROVE Linked'
  BY <1>1 DEF Register
<1>2. CASE Unlink
  <2>1. Ended /\ ~Register(Owner)
    BY <1>2 DEF Unlink, Ending, OwnerPlaced, Register
  <2>2. \A w \in Workers : ~Serving(w)
    BY <2>1, NobodyServes DEF Serving
  <2>3. \A w \in Workers : Register(w) => Linked'
    BY <1>1
  <2> QED BY <2>2, <2>3, ServingBegins
<1>3. ASSUME ~Unlink, \A w \in Workers : ~Register(w) PROVE threads' = threads
  <2>1. ASSUME NEW a \in Actors, CallStep(a) \/ SpawnFails(a) \/ EventTimeout(a) \/ \E n \in 1 .. MaxBatch : Schedule(a, n)
        PROVE  threads' = threads
    BY <2>1 DEF CallStep, Push, Notify, NotifySlow, Spawn, EventWait, EventSleep, EventSwap, EventWake,
                SpawnFails, EventTimeout, Schedule
  <2>2. ASSUME NEW w \in Workers, WorkerStep(w) PROVE threads' = threads
    BY <1>3, <2>2 DEF WorkerStep, WaitNotified, WaitBecomesIdle, WaitSleeps, WaitShutdown, PopBuffer,
                PopGlobal, Consume, ReleaseConsumer, Steal, PopNothing, Got, Finish, Unregister, Exit, Chain
  <2>3. ASSUME OwnerStep \/ IdleTasks \/ Shutdown \/ UNCHANGED vars PROVE threads' = threads
    BY <1>3, <2>3 DEF OwnerStep, WarmUp, Join, IdleTasks, Shutdown, vars
  <2> QED BY <2>1, <2>2, <2>3 DEF Next
<1> QED BY <1>1, <1>2, <1>3, ServingBegins

-----------------------------------------------------------------------------
(* The tasks.  A worker dequeues with empty hands and only from what is    *)
(* there: its own buffer is empty when it turns to the queue or to another *)
(* worker, and the queue it may consume keeps its tasks for it.            *)

HoldPlaces == {"release", "got", "notify", "notify_slow", "spawn", "push", "run"}
Holds(w)   == pc[w] \in HoldPlaces \/ (pc[w] \in Wakes /\ arg[w].next = "run")

Carried == [a \in Pushing |-> arg[a].n]

Hands(w) ==
  /\ pc[w] \in {"consume", "release"} => consumer = w
  /\ pc[w] = "consume" => runq > 0
  /\ pc[w] \in {"global", "consume", "steal"} => buf[w] = 0
  /\ pc[w] \in Waits => arg[w].next # "run"
  /\ pc[w] \notin {"warm", "warm_spawn"}
  /\ local[w].target \in Workers \cup {None}

Ledger ==
  /\ tasks \in Int /\ runq \in Nat /\ buf \in [Workers -> Nat]
  /\ \A a \in Actors : pc[a] = "push" => arg[a].n \in 1 .. MaxBatch
  /\ \A w \in Workers : Hands(w)

Buffered == Cardinality(Positions(Workers, buf))
Unpushed == Cardinality(Positions(Pushing, Carried))

LEMMA Held ==
  /\ Holding = {w \in Workers : Holds(w)}
  /\ Holding \subseteq Workers /\ IsFiniteSet(Holding) /\ Cardinality(Holding) \in Nat
<1>1. Holding = {w \in Workers : Holds(w)}
  BY DEF Holding, Holds, HoldPlaces, Wakes
<1> QED BY <1>1, Sizes

LEMMA Batches == MaxBatch \in Nat /\ \A n \in 1 .. MaxBatch : n \in Nat /\ n > 0
BY PoolAssumption

LEMMA WaitingAdds ==
  ASSUME Ledger
  PROVE  /\ IsFiniteSet(Pushing) /\ IsFiniteSet(Workers) /\ \A a \in Pushing : Carried[a] \in Nat
         /\ Buffered \in Nat /\ Unpushed \in Nat
         /\ Waiting = runq + Buffered + Unpushed
<1>1. IsFiniteSet(Pushing) /\ IsFiniteSet(Workers)
  <2>1. Pushing \in SUBSET Actors /\ Workers \in SUBSET Workers
    BY DEF Pushing
  <2> QED BY <2>1, Sizes
<1>2. (\A a \in Pushing : Carried[a] \in Nat) /\ (\A w \in Workers : buf[w] \in Nat)
  BY Batches DEF Ledger, Carried, Pushing
<1>3. Buffered \in Nat /\ Unpushed \in Nat
  BY <1>1, <1>2, PilesFinite DEF Buffered, Unpushed
<1> QED BY <1>1, <1>2, <1>3 DEF Waiting, Buffered, Unpushed, Carried

\* The batches on their way to the queue, when no thread begins or ends a push.
LEMMA NobodyPushes ==
  ASSUME \A b \in Actors : pc'[b] = "push" <=> pc[b] = "push",
         \A b \in Actors : pc[b] = "push" => arg'[b].n = arg[b].n
  PROVE  Unpushed' = Unpushed
<1>1. Pushing' = Pushing
  BY DEF Pushing
<1>2. \A b \in Pushing : Carried'[b] = Carried[b]
  BY <1>1 DEF Carried, Pushing
<1>3. Positions(Pushing, Carried') = Positions(Pushing, Carried)
  BY <1>2, SamePlaces
<1> QED BY <1>1, <1>3 DEF Unpushed

LEMMA PushBegins ==
  ASSUME Ledger, Ledger', NEW a \in Actors, Elsewhere(a), pc[a] # "push", pc'[a] = "push"
  PROVE  Unpushed' = Unpushed + arg'[a].n
<1>1. Pushing' = Pushing \cup {a} /\ a \notin Pushing
  BY DEF Pushing, Elsewhere
<1>2. (\A b \in Pushing \cup {a} : Carried'[b] \in Nat) /\ Carried'[a] = arg'[a].n
  BY <1>1, Batches DEF Carried, Pushing, Ledger
<1>3. \A b \in Pushing : Carried'[b] = Carried[b]
  BY <1>1 DEF Carried, Pushing, Elsewhere
<1>4. Positions(Pushing, Carried') = Positions(Pushing, Carried)
  BY <1>3, SamePlaces
<1>5. Cardinality(Positions(Pushing \cup {a}, Carried')) = Cardinality(Positions(Pushing, Carried')) + Carried'[a]
  BY <1>1, <1>2, WaitingAdds, OnePlaceMore
<1> QED BY <1>1, <1>2, <1>4, <1>5 DEF Unpushed

LEMMA PushEnds ==
  ASSUME Ledger, NEW a \in Actors, Elsewhere(a), pc[a] = "push", pc'[a] # "push"
  PROVE  Unpushed' = Unpushed - arg[a].n
<1>1. Pushing = Pushing' \cup {a} /\ a \notin Pushing'
  BY DEF Pushing, Elsewhere
<1>2. (\A b \in Pushing : Carried[b] \in Nat) /\ Carried[a] = arg[a].n
  BY <1>1, Batches DEF Carried, Pushing, Ledger
<1>3. \A b \in Pushing' : Carried'[b] = Carried[b]
  BY <1>1 DEF Carried, Pushing, Elsewhere
<1>4. Positions(Pushing', Carried') = Positions(Pushing', Carried)
  BY <1>3, SamePlaces
<1>5. IsFiniteSet(Pushing')
  <2>1. Pushing' \in SUBSET Actors
    BY DEF Pushing
  <2> QED BY <2>1, Sizes
<1>6. Cardinality(Positions(Pushing, Carried)) = Cardinality(Positions(Pushing', Carried)) + Carried[a]
  <2> DEFINE P == Pushing'
  <2>1. IsFiniteSet(P) /\ a \notin P /\ (\A b \in P \cup {a} : Carried[b] \in Nat) /\ Pushing = P \cup {a}
    BY <1>1, <1>2, <1>5
  <2> HIDE DEF P
  <2>2. Cardinality(Positions(P \cup {a}, Carried)) = Cardinality(Positions(P, Carried)) + Carried[a]
    BY <2>1, OnePlaceMore
  <2>3. Cardinality(Positions(Pushing, Carried)) = Cardinality(Positions(P, Carried)) + Carried[a]
    BY <2>1, <2>2
  <2> QED BY <2>3 DEF P
<1>7. Unpushed = Unpushed' + arg[a].n
  BY <1>2, <1>4, <1>6 DEF Unpushed
<1>8. Unpushed' \in Nat
  <2>1. \A b \in Pushing' : Carried'[b] \in Nat
    BY <1>1, <1>2, <1>3
  <2> QED BY <1>5, <2>1, PilesFinite DEF Unpushed
<1>9. arg[a].n \in Nat
  BY <1>1, <1>2
<1> QED BY <1>7, <1>8, <1>9, WaitingAdds

\* Most steps neither move a task nor change what a worker has in its hands.
Calm(a) ==
  /\ Elsewhere(a) /\ UNCHANGED queues
  /\ pc[a] # "push" /\ pc'[a] \notin {"push", "consume", "release"}
  /\ a \in Workers => /\ Holds(a)' <=> Holds(a)
                      /\ pc'[a] \in Waits => arg'[a].next # "run"
                      /\ pc'[a] \in {"global", "steal"} => buf[a] = 0
                      /\ pc'[a] \notin {"warm", "warm_spawn"}
  /\ \A w \in Workers : local'[w].target \in Workers \cup {None}

Counts == <<tasks, Waiting, Cardinality(Holding)>>

LEMMA CalmKeeps ==
  ASSUME Ledger, NEW a \in Actors, Calm(a)
  PROVE  Ledger' /\ UNCHANGED Counts
<1> USE Names DEF Calm, Elsewhere
<1>1. UNCHANGED <<runq, consumer, buf, tasks>>
  BY DEF queues
<1>2. ASSUME NEW b \in Actors PROVE /\ pc'[b] = "push" <=> pc[b] = "push"
                                    /\ pc[b] = "push" => arg'[b] = arg[b]
  OBVIOUS
<1>3. ASSUME NEW w \in Workers PROVE Hands(w)' /\ (Holds(w)' <=> Holds(w))
  <2>1. CASE w = a
    BY <1>1, <2>1 DEF Hands
  <2>2. CASE w # a
    <3>1. pc'[w] = pc[w] /\ arg'[w] = arg[w]
      BY <2>2
    <3> QED BY <1>1, <3>1 DEF Hands, Holds, Ledger
  <2> QED BY <2>1, <2>2
<1>4. Ledger'
  BY <1>1, <1>2, <1>3 DEF Ledger
<1>5. Holding' = Holding
  <2>1. Holding' = {w \in Workers : Holds(w)'}
    BY DEF Holding, Holds, HoldPlaces, Wakes
  <2> QED BY <1>3, <2>1, Held
<1>6. Unpushed' = Unpushed
  BY <1>2, NobodyPushes
<1>7. Waiting' = Waiting
  BY <1>1, <1>6 DEF Waiting, Unpushed, Carried
<1> QED BY <1>1, <1>4, <1>5, <1>7 DEF Counts

LEMMA CallCalm ==
  ASSUME Counted, Ledger, NEW a \in Actors, Notify(a) \/ NotifySlow(a) \/ SpawnFails(a)
  PROVE  Ledger' /\ UNCHANGED Counts
<1> USE Names DEF Counted, Control, Inv, Shapes
<1>1. Elsewhere(a)
  BY OneMoves DEF CallStep, Notify, NotifySlow, Spawn, EventWake
<1>2. UNCHANGED queues /\ pc[a] \in {"notify", "notify_slow", "spawn", "warm_spawn"}
  BY DEF Notify, NotifySlow, SpawnFails
<1>3. \A w \in Workers : local'[w].target = local[w].target
  <2>1. CASE NotifySlow(a)
    BY <2>1 DEF NotifySlow, Set, Locals
  <2>2. CASE ~NotifySlow(a)
    BY <2>2 DEF Notify, SpawnFails
  <2> QED BY <2>1, <2>2
<1>4. \/ pc'[a] \in {"notify_slow", "spawn", After(a)}
      \/ pc'[a] = "event_swap" /\ arg'[a].next = After(a)
  <2>1. CASE NotifySlow(a)
    BY <2>1 DEF NotifySlow, Goto, WakeOn
  <2>2. CASE Notify(a) \/ SpawnFails(a)
    BY <2>2 DEF Notify, SpawnFails, Goto, WakeOn
  <2> QED BY <2>1, <2>2
<1>5. pc[a] = "warm_spawn" => a \notin Workers
  BY DEF Ledger, Hands
<1>6. Calm(a)
  BY <1>1, <1>2, <1>3, <1>4, <1>5 DEF Calm, Holds, HoldPlaces, Wakes, Waits, After, Ledger, Hands
<1> QED BY <1>6, CalmKeeps

LEMMA EventCalm ==
  ASSUME Counted, Ending, Ledger, NEW a \in Actors,
         EventWait(a) \/ EventSleep(a) \/ EventTimeout(a) \/ EventSwap(a)
  PROVE  Ledger' /\ UNCHANGED Counts
<1> USE Names DEF Counted, Control
<1>1. Elsewhere(a)
  BY OneMoves DEF CallStep, EventWait, EventSleep, EventTimeout, EventSwap, Spawn, EventWake
<1>2. UNCHANGED queues /\ local' = local /\ pc[a] \in EventLabels
  BY DEF EventWait, EventSleep, EventTimeout, EventSwap, EventLabels
<1>3. a \in Workers => arg[a].next \in {"wait", "run", "exit", "chain", "done"}
  BY <1>2 DEF Placed
<1>4. a \notin Workers => arg[a].next \in {"out", "join", "unlink", "joined"}
  BY <1>2 DEF Placed
<1>5. \/ /\ pc[a] \in Waits /\ pc'[a] \in Waits
         /\ arg'[a].next = arg[a].next
      \/ pc[a] \in Waits /\ pc'[a] = arg[a].next
      \/ pc[a] \in Wakes /\ pc'[a] = "event_wake" /\ arg'[a].next = arg[a].next
      \/ pc[a] \in Wakes /\ pc'[a] = arg[a].next
  BY <1>2 DEF EventWait, EventSleep, EventTimeout, EventSwap, EventReturn, Goto, Waits, Wakes, Placed
<1>6. /\ pc[a] # "push" /\ pc'[a] \notin {"push", "consume", "release"}
      /\ a \in Workers => pc'[a] \notin {"warm", "warm_spawn", "global", "steal"}
  BY <1>2, <1>3, <1>4, <1>5 DEF EventLabels, Waits
<1>7. a \in Workers => /\ Holds(a)' <=> Holds(a)
                       /\ pc'[a] \in Waits => arg'[a].next # "run"
  BY <1>2, <1>3, <1>5 DEF Holds, HoldPlaces, Waits, Wakes, Ledger, Hands
<1>8. Calm(a)
  BY <1>1, <1>2, <1>6, <1>7 DEF Calm, Ledger, Hands
<1> QED BY <1>8, CalmKeeps

\* Futex::wake: a sleeper has nothing in its hands.
LEMMA WakeCalm ==
  ASSUME Counted, Ledger, NEW a \in Actors, EventWake(a)
  PROVE  Ledger' /\ UNCHANGED Counts
<1> USE Names DEF Counted, Control
<1>1. UNCHANGED <<runq, consumer, buf, tasks>> /\ local' = local
  BY DEF EventWake, queues
<1>2. ASSUME NEW b \in Actors
      PROVE  \/ pc'[b] = pc[b] /\ arg'[b] = arg[b]
             \/ /\ pc[b] = "asleep" /\ pc'[b] = "event_wait"
                /\ arg'[b].next = arg[b].next
             \/ pc[b] = "event_wake" /\ pc'[b] = arg[b].next
  BY DEF EventWake, Sleepers, Placed, EventLabels
<1>3. ASSUME NEW b \in Actors
      PROVE  /\ pc[b] = "event_wake" /\ b \in Workers => arg[b].next \in {"wait", "run", "exit", "chain", "done"}
             /\ pc[b] = "event_wake" /\ b \notin Workers => arg[b].next \in {"out", "join", "unlink", "joined"}
  BY DEF Placed, EventLabels
<1>4. ASSUME NEW b \in Actors PROVE /\ pc'[b] = "push" <=> pc[b] = "push"
                                    /\ pc[b] = "push" => arg'[b] = arg[b]
  BY <1>2, <1>3
<1>5. ASSUME NEW w \in Workers PROVE Hands(w)' /\ (Holds(w)' <=> Holds(w))
  BY <1>1, <1>2, <1>3 DEF Hands, Holds, HoldPlaces, Waits, Wakes, Ledger
<1>6. Ledger'
  BY <1>1, <1>4, <1>5 DEF Ledger
<1>7. Holding' = Holding
  <2>1. Holding' = {w \in Workers : Holds(w)'}
    BY DEF Holding, Holds, HoldPlaces, Wakes
  <2> QED BY <1>5, <2>1, Held
<1>8. Unpushed' = Unpushed
  BY <1>4, NobodyPushes
<1>9. Waiting' = Waiting
  BY <1>1, <1>8 DEF Waiting, Unpushed, Carried
<1> QED BY <1>1, <1>6, <1>7, <1>9 DEF Counts

LEMMA SpawnCalm ==
  ASSUME Counted, Ledger, NEW a \in Actors, Spawn(a)
  PROVE  Ledger' /\ UNCHANGED Counts
<1> USE Names DEF Counted, Control
<1>1. UNCHANGED <<runq, consumer, buf, tasks>> /\ local' = local /\ arg' = arg /\ pc[a] \in Spawns
  BY DEF Spawn, queues, Spawns
<1>2. PICK v \in Workers : pc[v] = "off" /\ pc' = [pc EXCEPT ![a] = Spawned(a), ![v] = "register"]
  BY DEF Spawn
<1>3. ASSUME NEW b \in Actors
      PROVE  \/ pc'[b] = pc[b]
             \/ pc[b] = "off" /\ pc'[b] = "register"
             \/ b = a /\ pc'[b] = Spawned(a)
  BY <1>2
<1>4. ASSUME NEW b \in Actors PROVE pc'[b] = "push" <=> pc[b] = "push"
  BY <1>1, <1>3 DEF Spawned, After, Spawns
<1>5. a \in Workers => pc[a] = "spawn" /\ Spawned(a) = "run"
  BY <1>1 DEF Ledger, Hands, Spawns, Spawned, After
<1>6. ASSUME NEW w \in Workers PROVE Hands(w)' /\ (Holds(w)' <=> Holds(w))
  BY <1>1, <1>3, <1>5 DEF Hands, Holds, HoldPlaces, Waits, Wakes, Ledger
<1>7. Ledger'
  BY <1>1, <1>4, <1>6 DEF Ledger
<1>8. Holding' = Holding
  <2>1. Holding' = {w \in Workers : Holds(w)'}
    BY DEF Holding, Holds, HoldPlaces, Wakes
  <2> QED BY <1>6, <2>1, Held
<1>9. Unpushed' = Unpushed
  BY <1>1, <1>4, NobodyPushes
<1>10. Waiting' = Waiting
  BY <1>1, <1>9 DEF Waiting, Unpushed, Carried
<1> QED BY <1>1, <1>7, <1>8, <1>10 DEF Counts

LEMMA OwnerCalm ==
  ASSUME Counted, Ledger, OwnerStep \/ IdleTasks \/ Shutdown
  PROVE  Ledger' /\ UNCHANGED Counts
<1> USE Names DEF Counted, Control
<1>1. Elsewhere(Owner)
  BY OneMoves
<1>2. UNCHANGED queues /\ local' = local
  BY DEF OwnerStep, WarmUp, Join, Unlink, IdleTasks, Shutdown
<1>3. pc[Owner] # "push" /\ pc'[Owner] \notin {"push", "consume", "release"}
  BY DEF OwnerStep, WarmUp, Join, Unlink, IdleTasks, Shutdown, Goto, WaitOn, WakeOn
<1>4. Calm(Owner)
  BY <1>1, <1>2, <1>3 DEF Calm, Ledger, Hands
<1> QED BY <1>4, CalmKeeps

LEMMA WorkerCalm ==
  ASSUME Counted, Ledger, NEW w \in Workers,
         \/ Register(w) \/ WaitNotified(w) \/ WaitBecomesIdle(w) \/ WaitSleeps(w) \/ WaitShutdown(w)
         \/ PopNothing(w) \/ Got(w) \/ Unregister(w) \/ Exit(w) \/ Chain(w)
  PROVE  Ledger' /\ UNCHANGED Counts
<1> USE Names DEF Counted, Control, Inv, Shapes, Locals
<1>1. Elsewhere(w) /\ w \in Actors
  BY OneMoves DEF WorkerStep
<1>2. \A v \in Workers : local'[v].target \in Workers \cup {None}
  <2>1. CASE Register(w)
    BY <2>1 DEF Register, Set, Ledger, Hands
  <2>2. CASE WaitNotified(w)
    BY <2>2 DEF WaitNotified, Ledger, Hands
  <2>3. CASE WaitBecomesIdle(w)
    BY <2>3 DEF WaitBecomesIdle, Ledger, Hands
  <2>4. CASE WaitShutdown(w)
    BY <2>4 DEF WaitShutdown, Ledger, Hands
  <2>5. CASE Got(w)
    BY <2>5 DEF Got, Set, Ledger, Hands
  <2>6. CASE WaitSleeps(w) \/ PopNothing(w) \/ Unregister(w) \/ Exit(w) \/ Chain(w)
    BY <2>6 DEF WaitSleeps, PopNothing, Unregister, Exit, Chain, Ledger, Hands
  <2> QED BY <2>1, <2>2, <2>3, <2>4, <2>5, <2>6
<1>3. UNCHANGED queues
  BY DEF Register, WaitNotified, WaitBecomesIdle, WaitSleeps, WaitShutdown, PopNothing, Got, Unregister, Exit, Chain
<1>4. CASE Got(w)
  <2>1. pc[w] = "got" /\ pc'[w] \in {"notify_slow", "notify", "run"}
    BY <1>4 DEF Got, Goto
  <2>2. Calm(w)
    BY <1>1, <1>2, <1>3, <2>1 DEF Calm, Holds, HoldPlaces, Waits, Wakes
  <2> QED BY <1>1, <2>2, CalmKeeps
<1>5. CASE ~Got(w)
  <2>1. pc[w] \in {"register", "wait", "steal", "unregister", "exit", "chain"}
    BY <1>5 DEF Register, WaitNotified, WaitBecomesIdle, WaitSleeps, WaitShutdown, PopNothing, Unregister, Exit, Chain
  <2>2. \/ pc'[w] \in {"wait", "pop", "unregister", "exit", "done"}
        \/ pc'[w] \in {"event_wait", "event_swap"} /\ arg'[w].next \in {"wait", "chain", "exit", "done"}
    BY <1>5 DEF Register, WaitNotified, WaitBecomesIdle, WaitSleeps, WaitShutdown, PopNothing, Unregister, Exit, Chain,
                Goto, WaitOn, WakeOn
  <2>3. Calm(w)
    BY <1>1, <1>2, <1>3, <2>1, <2>2 DEF Calm, Holds, HoldPlaces, Waits, Wakes
  <2> QED BY <1>1, <2>3, CalmKeeps
<1> QED BY <1>4, <1>5

\* The worker whose turn it is to steal from: there is one, because the stack is not empty.
LEMMA Victim ==
  ASSUME Counted, Ledger, Linked, NEW w \in Workers, pc[w] = "steal"
  PROVE  Target(w) \in Workers
<1>1. Serving(w)
  BY Names DEF Counted, Control, Placed, Serving, Working, Alive, EventLabels
<1> QED BY <1>1 DEF Linked, Counted, Control, Stack, Target, Ledger, Hands

\* Looking in vain.
LEMMA LookingCalm ==
  ASSUME Counted, Ledger, Linked, NEW w \in Workers,
         \/ PopBuffer(w) /\ ~(buf[w] > 0)
         \/ PopGlobal(w) /\ ~(consumer = None /\ runq > 0)
         \/ Steal(w) /\ pc'[w] = "steal"
  PROVE  Ledger' /\ UNCHANGED Counts
<1> USE Names DEF Counted, Control, Inv, Shapes, Locals
<1>1. Elsewhere(w) /\ w \in Actors
  BY OneMoves DEF WorkerStep
<1>2. CASE PopBuffer(w) /\ ~(buf[w] > 0)
  <2>1. /\ pc[w] = "pop" /\ pc'[w] = "global" /\ UNCHANGED queues /\ local' = local /\ buf[w] = 0
    BY <1>2 DEF PopBuffer, Goto, queues, Ledger
  <2>2. Calm(w)
    BY <1>1, <2>1 DEF Calm, Holds, HoldPlaces, Waits, Wakes, Ledger, Hands
  <2> QED BY <1>1, <2>2, CalmKeeps
<1>3. CASE PopGlobal(w) /\ ~(consumer = None /\ runq > 0)
  <2>1. /\ pc[w] = "global" /\ pc'[w] = "steal" /\ UNCHANGED queues
        /\ \A v \in Workers : local'[v].target = local[v].target
    BY <1>3 DEF PopGlobal, Goto, Set, queues
  <2>2. Calm(w)
    BY <1>1, <2>1 DEF Calm, Holds, HoldPlaces, Waits, Wakes, Ledger, Hands
  <2> QED BY <1>1, <2>2, CalmKeeps
<1>4. CASE Steal(w) /\ pc'[w] = "steal"
  <2>1. /\ pc[w] = "steal" /\ UNCHANGED queues
        /\ local' = [local EXCEPT ![w] = [local[w] EXCEPT !.target = local[Target(w)].next, !.left = @ - 1]]
    BY <1>4 DEF Steal, Goto, queues
  <2>2. \A v \in Workers : local'[v].target \in Workers \cup {None}
    BY <2>1, Victim DEF Stack, Ledger, Hands
  <2>3. Calm(w)
    BY <1>1, <1>4, <2>1, <2>2 DEF Calm, Holds, HoldPlaces, Waits, Wakes, Ledger, Hands
  <2> QED BY <1>1, <2>3, CalmKeeps
<1> QED BY <1>2, <1>3, <1>4

-----------------------------------------------------------------------------
(* The steps that move a task. *)

\* The other threads hold and push what they did.
LEMMA OthersHold ==
  ASSUME NEW a \in Actors, Elsewhere(a)
  PROVE  /\ \A w \in Workers \ {a} : Holds(w)' <=> Holds(w)
         /\ pc[a] # "push" /\ pc'[a] # "push" => Unpushed' = Unpushed
<1>1. \A w \in Workers \ {a} : Holds(w)' <=> Holds(w)
  BY Names DEF Elsewhere, Holds
<1>2. ASSUME pc[a] # "push", pc'[a] # "push" PROVE Unpushed' = Unpushed
  <2>1. \A b \in Actors : pc'[b] = "push" <=> pc[b] = "push"
    BY <1>2 DEF Elsewhere
  <2>2. \A b \in Actors : pc[b] = "push" => arg'[b].n = arg[b].n
    BY <1>2 DEF Elsewhere
  <2> QED BY <2>1, <2>2, NobodyPushes
<1> QED BY <1>1, <1>2

LEMMA HeldNext == Holding' = {w \in Workers : Holds(w)'}
BY DEF Holding, Holds, HoldPlaces, Wakes

LEMMA WaitingNext == Waiting' = runq' + Buffered' + Unpushed'
BY DEF Waiting, Buffered, Unpushed, Carried

\* The buffers, when one of them changes.
LEMMA OneBuffer ==
  ASSUME Ledger, NEW w \in Workers, NEW k \in Nat, buf' = [buf EXCEPT ![w] = k]
  PROVE  Buffered' = Buffered + k - buf[w] /\ buf' \in [Workers -> Nat]
<1> DEFINE b == buf'
<1>1. /\ buf \in [Workers -> Nat] /\ b \in [Workers -> Nat] /\ b[w] = k
      /\ \A v \in Workers \ {w} : buf[v] = b[v]
  BY DEF Ledger
<1> HIDE DEF b
<1>2. Cardinality(Positions(Workers, b)) = Cardinality(Positions(Workers, buf)) + b[w] - buf[w]
  <2>1. \A v \in Workers : buf[v] \in Nat /\ b[v] \in Nat
    BY <1>1
  <2> QED BY <1>1, <2>1, WaitingAdds, OnePlaceChanges
<1>3. Buffered' = Cardinality(Positions(Workers, b))
  BY DEF Buffered, b
<1> QED BY <1>1, <1>2, <1>3 DEF Buffered, b

\* A worker that takes a waiting task starts it: there is a thread left to run it.
LEMMA Takes ==
  ASSUME NEW w \in Workers, ~Holds(w), Holds(w)', \A v \in Workers \ {w} : Holds(v)' <=> Holds(v),
         Waiting \in Nat, Waiting > 0, Waiting' = Waiting - 1, tasks' = tasks
  PROVE  TP!Start
<1>1. Holding' = Holding \cup {w} /\ w \notin Holding /\ IsFiniteSet(Holding)
  BY Held, HeldNext
<1>2. Cardinality(Holding \cup {w}) = Cardinality(Holding) + 1
  BY <1>1, FS_AddElement
<1>3. Cardinality(Holding \cup {w}) <= MaxThreads
  <2>1. IsFiniteSet(Workers) /\ Cardinality(Workers) = MaxThreads
    <3>1. MaxThreads \in Nat /\ MaxThreads > 0
      BY PoolAssumption
    <3>2. IsFiniteSet(1 .. MaxThreads) /\ Cardinality(1 .. MaxThreads) = MaxThreads
      BY <3>1, FS_Interval
    <3> QED BY <3>2 DEF Workers
  <2>2. Holding \cup {w} \in SUBSET Workers
    BY Held
  <2> QED BY <2>1, <2>2, FS_Subset
<1>4. Cardinality(Holding) < MaxThreads
  BY <1>2, <1>3, Held, PoolAssumption
<1> QED BY <1>1, <1>2, <1>4 DEF TP!Start

LEMMA ScheduleSubmits ==
  ASSUME Counted, Ledger, NEW a \in Actors, NEW n \in 1 .. MaxBatch, Schedule(a, n)
  PROVE  Ledger' /\ TP!Submit
<1> USE Names DEF Counted, Control
<1>1. Elsewhere(a)
  BY OneMoves
<1>2. /\ pc[a] = After(a) /\ pc'[a] = "push" /\ arg'[a] = [ev |-> NoEvent, n |-> n]
      /\ tasks' = tasks + n /\ UNCHANGED <<runq, consumer, buf, local>>
  BY DEF Schedule, Goto
<1>3. Ledger'
  <2>1. \A b \in Actors : pc'[b] = "push" => arg'[b].n \in 1 .. MaxBatch
    BY <1>1, <1>2 DEF Elsewhere, Ledger
  <2>2. ASSUME NEW w \in Workers PROVE Hands(w)'
    <3>1. CASE w = a
      BY <1>2, <3>1 DEF Hands, Ledger, Waits
    <3>2. CASE w # a
      BY <1>1, <1>2, <3>2 DEF Elsewhere, Hands, Ledger
    <3> QED BY <3>1, <3>2
  <2> QED BY <1>2, <2>1, <2>2, Batches DEF Ledger
<1>4. Unpushed' = Unpushed + n
  BY <1>1, <1>2, <1>3, PushBegins DEF After
<1>5. Waiting' = Waiting + n
  BY <1>2, <1>4, WaitingAdds, WaitingNext, Batches DEF Buffered, Ledger
<1>6. Holding' = Holding
  <2>1. a \in Workers => (Holds(a)' <=> Holds(a))
    BY <1>2 DEF Holds, HoldPlaces, After
  <2> QED BY <1>1, <2>1, OthersHold, Held, HeldNext
<1>7. n \in Nat /\ n > 0 /\ tasks \in Int /\ Waiting \in Nat
  BY Batches, WaitingAdds DEF Ledger
<1> QED BY <1>2, <1>3, <1>5, <1>6, <1>7 DEF TP!Submit

LEMMA PushMoves ==
  ASSUME Counted, Ledger, NEW a \in Actors, Push(a)
  PROVE  Ledger' /\ UNCHANGED Counts
<1> USE Names DEF Counted, Control
<1>1. Elsewhere(a)
  BY OneMoves DEF CallStep, Push, Spawn, EventWake
<1>2. /\ pc[a] = "push" /\ pc'[a] = "notify" /\ runq' = runq + arg[a].n
      /\ UNCHANGED <<consumer, buf, tasks, local>>
  BY DEF Push, Goto
<1>3. arg[a].n \in Nat
  BY <1>2, Batches DEF Ledger
<1>4. Ledger'
  <2>1. \A b \in Actors : pc'[b] = "push" => arg'[b].n \in 1 .. MaxBatch
    BY <1>1, <1>2 DEF Elsewhere, Ledger
  <2>2. ASSUME NEW w \in Workers PROVE Hands(w)'
    <3>1. CASE w = a
      BY <1>2, <3>1 DEF Hands, Ledger, Waits
    <3>2. CASE w # a
      BY <1>1, <1>2, <1>3, <3>2 DEF Elsewhere, Hands, Ledger
    <3> QED BY <3>1, <3>2
  <2>3. runq' \in Nat
    BY <1>2, <1>3 DEF Ledger
  <2> QED BY <1>2, <2>1, <2>2, <2>3 DEF Ledger
<1>5. Unpushed' = Unpushed - arg[a].n
  BY <1>1, <1>2, PushEnds
<1>6. Waiting' = Waiting
  BY <1>2, <1>3, <1>5, WaitingAdds, WaitingNext DEF Buffered, Ledger
<1>7. Holding' = Holding
  <2>1. a \in Workers => (Holds(a)' <=> Holds(a))
    BY <1>2 DEF Holds, HoldPlaces
  <2> QED BY <1>1, <2>1, OthersHold, Held, HeldNext
<1> QED BY <1>2, <1>4, <1>6, <1>7 DEF Counts

\* pop() from the worker's own buffer.
LEMMA BufferStarts ==
  ASSUME Counted, Ledger, NEW w \in Workers, PopBuffer(w), buf[w] > 0
  PROVE  Ledger' /\ TP!Start
<1> USE Names DEF Counted, Control, Inv, Shapes, Locals
<1>1. Elsewhere(w) /\ w \in Actors
  BY OneMoves DEF WorkerStep
<1>2. /\ pc[w] = "pop" /\ pc'[w] = "got" /\ buf' = [buf EXCEPT ![w] = buf[w] - 1]
      /\ UNCHANGED <<runq, consumer, tasks>>
      /\ \A v \in Workers : local'[v].target = local[v].target
  BY DEF PopBuffer, Goto, Set
<1>3. buf[w] - 1 \in Nat /\ buf[w] \in Nat
  BY DEF Ledger
<1>4. Buffered' = Buffered - 1 /\ buf' \in [Workers -> Nat]
  <2> DEFINE k == buf[w] - 1
  <2>1. k \in Nat /\ buf' = [buf EXCEPT ![w] = k]
    BY <1>2, <1>3
  <2>2. k - buf[w] = -1
    BY <1>3
  <2> HIDE DEF k
  <2>3. Buffered' = Buffered + k - buf[w] /\ buf' \in [Workers -> Nat]
    BY <2>1, OneBuffer
  <2> QED BY <1>3, <2>1, <2>2, <2>3, WaitingAdds
<1>5. Ledger'
  <2>1. ASSUME NEW v \in Workers PROVE Hands(v)'
    <3>1. CASE v = w
      BY <1>2, <3>1 DEF Hands, Ledger, Waits
    <3>2. CASE v # w
      BY <1>1, <1>2, <3>2 DEF Elsewhere, Hands, Ledger
    <3> QED BY <3>1, <3>2
  <2>2. \A b \in Actors : pc'[b] = "push" => arg'[b].n \in 1 .. MaxBatch
    BY <1>1, <1>2 DEF Elsewhere, Ledger
  <2> QED BY <1>2, <1>4, <2>1, <2>2 DEF Ledger
<1>6. Unpushed' = Unpushed
  BY <1>1, <1>2, OthersHold
<1>7. Waiting' = Waiting - 1 /\ Waiting \in Nat /\ Waiting > 0
  <2>1. Buffered' \in Nat
    BY <1>4, WaitingAdds, PilesFinite DEF Buffered
  <2> QED BY <1>2, <1>4, <1>6, <2>1, WaitingAdds, WaitingNext DEF Ledger
<1>8. ~Holds(w) /\ Holds(w)'
  BY <1>2 DEF Holds, HoldPlaces, Wakes
<1> QED BY <1>1, <1>2, <1>5, <1>7, <1>8, OthersHold, Takes

\* The queue gets a consumer, who finds it as it was.
LEMMA ConsumerEnters ==
  ASSUME Counted, Ledger, NEW w \in Workers, PopGlobal(w), consumer = None, runq > 0
  PROVE  Ledger' /\ UNCHANGED Counts
<1> USE Names DEF Counted, Control
<1>1. Elsewhere(w) /\ w \in Actors
  BY OneMoves DEF WorkerStep
<1>2. /\ pc[w] = "global" /\ pc'[w] = "consume" /\ consumer' = w
      /\ UNCHANGED <<runq, buf, tasks, local>>
  BY DEF PopGlobal, Goto
<1>3. Ledger'
  <2>1. ASSUME NEW v \in Workers PROVE Hands(v)'
    <3>1. CASE v = w
      BY <1>2, <3>1 DEF Hands, Ledger, Waits
    <3>2. CASE v # w
      BY <1>1, <1>2, <3>2 DEF Elsewhere, Hands, Ledger
    <3> QED BY <3>1, <3>2
  <2>2. \A b \in Actors : pc'[b] = "push" => arg'[b].n \in 1 .. MaxBatch
    BY <1>1, <1>2 DEF Elsewhere, Ledger
  <2> QED BY <1>2, <2>1, <2>2 DEF Ledger
<1>4. Waiting' = Waiting
  BY <1>1, <1>2, OthersHold, WaitingAdds, WaitingNext DEF Buffered
<1>5. Holding' = Holding
  <2>1. Holds(w)' <=> Holds(w)
    BY <1>2 DEF Holds, HoldPlaces, Wakes
  <2> QED BY <1>1, <2>1, OthersHold, Held, HeldNext
<1> QED BY <1>2, <1>3, <1>4, <1>5 DEF Counts

\* consume(): Capacity tasks move to the empty buffer, one more is started.
LEMMA ConsumeStarts ==
  ASSUME Counted, Ledger, NEW w \in Workers, Consume(w)
  PROVE  Ledger' /\ TP!Start
<1> USE Names DEF Counted, Control, Inv, Shapes, Locals
<1>1. Elsewhere(w) /\ w \in Actors
  BY OneMoves DEF WorkerStep
<1> DEFINE taken == IF runq > Capacity THEN Capacity + 1 ELSE runq
<1>2. /\ pc[w] = "consume" /\ pc'[w] = "release"
      /\ runq' = runq - taken /\ buf' = [buf EXCEPT ![w] = taken - 1]
      /\ UNCHANGED <<consumer, tasks>>
      /\ \A v \in Workers : local'[v].target = local[v].target
  BY DEF Consume, Goto, Set
<1>3. /\ runq \in Nat /\ runq > 0 /\ buf[w] = 0 /\ consumer = w
      /\ taken \in Nat /\ taken > 0 /\ taken <= runq
  BY <1>2, PoolAssumption DEF Ledger, Hands
<1> HIDE DEF taken
<1>4. Buffered' = Buffered + (taken - 1) /\ buf' \in [Workers -> Nat]
  <2> DEFINE k == taken - 1
  <2>1. k \in Nat /\ buf' = [buf EXCEPT ![w] = k]
    BY <1>2, <1>3
  <2> HIDE DEF k
  <2>2. Buffered' = Buffered + k - buf[w] /\ buf' \in [Workers -> Nat]
    BY <2>1, OneBuffer
  <2>3. Buffered' = Buffered + k
    BY <1>3, <2>1, <2>2, WaitingAdds
  <2> QED BY <2>2, <2>3 DEF k
<1>5. runq' \in Nat
  BY <1>2, <1>3
<1>6. Ledger'
  <2>1. ASSUME NEW v \in Workers PROVE Hands(v)'
    <3>1. CASE v = w
      BY <1>2, <1>3, <3>1 DEF Hands, Ledger, Waits
    <3>2. CASE v # w
      BY <1>1, <1>2, <1>3, <3>2 DEF Elsewhere, Hands, Ledger
    <3> QED BY <3>1, <3>2
  <2>2. \A b \in Actors : pc'[b] = "push" => arg'[b].n \in 1 .. MaxBatch
    BY <1>1, <1>2 DEF Elsewhere, Ledger
  <2> QED BY <1>2, <1>4, <1>5, <2>1, <2>2 DEF Ledger
<1>7. Unpushed' = Unpushed
  BY <1>1, <1>2, OthersHold
<1>8. Waiting' = Waiting - 1 /\ Waiting \in Nat /\ Waiting > 0
  BY <1>2, <1>3, <1>4, <1>7, WaitingAdds, WaitingNext
<1>9. ~Holds(w) /\ Holds(w)'
  BY <1>2 DEF Holds, HoldPlaces, Wakes
<1> QED BY <1>1, <1>2, <1>6, <1>8, <1>9, OthersHold, Takes

LEMMA ConsumerLeaves ==
  ASSUME Counted, Ledger, NEW w \in Workers, ReleaseConsumer(w)
  PROVE  Ledger' /\ UNCHANGED Counts
<1> USE Names DEF Counted, Control
<1>1. Elsewhere(w) /\ w \in Actors
  BY OneMoves DEF WorkerStep
<1>2. /\ pc[w] = "release" /\ pc'[w] = "got" /\ consumer = w
      /\ UNCHANGED <<runq, buf, tasks, local>>
  BY DEF ReleaseConsumer, Goto, Ledger, Hands
<1>3. Ledger'
  <2>1. ASSUME NEW v \in Workers PROVE Hands(v)'
    <3>1. CASE v = w
      BY <1>2, <3>1 DEF Hands, Ledger, Waits
    <3>2. CASE v # w
      BY <1>1, <1>2, <3>2 DEF Elsewhere, Hands, Ledger
    <3> QED BY <3>1, <3>2
  <2>2. \A b \in Actors : pc'[b] = "push" => arg'[b].n \in 1 .. MaxBatch
    BY <1>1, <1>2 DEF Elsewhere, Ledger
  <2> QED BY <1>2, <2>1, <2>2 DEF Ledger
<1>4. Waiting' = Waiting
  BY <1>1, <1>2, OthersHold, WaitingAdds, WaitingNext DEF Buffered
<1>5. Holding' = Holding
  <2>1. Holds(w)' <=> Holds(w)
    BY <1>2 DEF Holds, HoldPlaces, Wakes
  <2> QED BY <1>1, <2>1, OthersHold, Held, HeldNext
<1> QED BY <1>2, <1>3, <1>4, <1>5 DEF Counts

\* steal(): half the tasks of another buffer, one started and the others kept.
LEMMA StealStarts ==
  ASSUME Counted, Ledger, Linked, NEW w \in Workers, Steal(w), pc'[w] # "steal"
  PROVE  Ledger' /\ TP!Start
<1> USE Names DEF Counted, Control, Inv, Shapes, Locals
<1>1. Elsewhere(w) /\ w \in Actors
  BY OneMoves DEF WorkerStep
<1> DEFINE t == Target(w)
           half == buf[t] \div 2
           stolen == IF t = w THEN 0 ELSE buf[t] - half
<1>2. t \in Workers /\ pc[w] = "steal" /\ buf[w] = 0 /\ buf \in [Workers -> Nat]
  BY Victim DEF Steal, Ledger, Hands
<1>3. /\ stolen # 0 /\ pc'[w] = "got"
      /\ buf' = [buf EXCEPT ![t] = buf[t] - stolen, ![w] = stolen - 1]
      /\ UNCHANGED <<runq, consumer, tasks>>
      /\ local' = [local EXCEPT ![w] = [local[w] EXCEPT !.target = local[t].next, !.left = 0, !.pushed = stolen > 1]]
  BY <1>1, <1>2 DEF Steal, Goto
<1>4. \A v \in Workers : local'[v].target \in Workers \cup {None}
  BY <1>2, <1>3 DEF Stack, Ledger, Hands
<1>5. t # w /\ stolen \in Nat /\ stolen > 0 /\ stolen <= buf[t] /\ buf[t] \in Nat
  <2>1. t # w /\ buf[t] \in Nat /\ stolen = buf[t] - half
    BY <1>2, <1>3
  <2>2. half \in Nat /\ half <= buf[t]
    BY <2>1
  <2> QED BY <1>3, <2>1, <2>2
<1> HIDE DEF t, stolen
<1>6. Buffered' = Buffered - 1 /\ buf' \in [Workers -> Nat]
  <2> DEFINE b == [buf EXCEPT ![t] = buf[t] - stolen]
             c == buf'
  <2>1. /\ b \in [Workers -> Nat] /\ b[t] = buf[t] - stolen /\ b[w] = 0
        /\ \A v \in Workers \ {t} : buf[v] = b[v]
    BY <1>2, <1>5
  <2>2. /\ c \in [Workers -> Nat] /\ c[w] = stolen - 1
        /\ \A v \in Workers \ {w} : b[v] = c[v]
    BY <1>2, <1>3, <1>5
  <2> HIDE DEF b, c
  <2>3. Cardinality(Positions(Workers, b)) = Cardinality(Positions(Workers, buf)) + b[t] - buf[t]
    <3>1. \A v \in Workers : buf[v] \in Nat /\ b[v] \in Nat
      BY <1>2, <2>1
    <3> QED BY <1>2, <2>1, <3>1, WaitingAdds, OnePlaceChanges
  <2>4. Cardinality(Positions(Workers, c)) = Cardinality(Positions(Workers, b)) + c[w] - b[w]
    <3>1. \A v \in Workers : b[v] \in Nat /\ c[v] \in Nat
      BY <2>1, <2>2
    <3> QED BY <2>2, <3>1, WaitingAdds, OnePlaceChanges
  <2>5. Cardinality(Positions(Workers, c)) = Buffered - 1
    BY <1>5, <2>1, <2>2, <2>3, <2>4, WaitingAdds DEF Buffered
  <2> QED BY <2>2, <2>5 DEF Buffered, c
<1>7. Ledger'
  <2>1. \A v \in Workers \ {w} : buf'[v] = buf[v] \/ buf[v] > 0
    BY <1>2, <1>3, <1>5
  <2>2. ASSUME NEW v \in Workers PROVE Hands(v)'
    <3>1. CASE v = w
      BY <1>3, <1>4, <3>1 DEF Hands, Waits
    <3>2. CASE v # w
      BY <1>1, <1>2, <1>3, <1>4, <2>1, <3>2 DEF Elsewhere, Hands, Ledger
    <3> QED BY <3>1, <3>2
  <2>3. \A b \in Actors : pc'[b] = "push" => arg'[b].n \in 1 .. MaxBatch
    BY <1>1, <1>3 DEF Elsewhere, Ledger
  <2> QED BY <1>3, <1>6, <2>2, <2>3 DEF Ledger
<1>8. Unpushed' = Unpushed
  BY <1>1, <1>2, <1>3, OthersHold
<1>9. Waiting' = Waiting - 1 /\ Waiting \in Nat /\ Waiting > 0
  <2>1. Buffered' \in Nat
    BY <1>6, WaitingAdds, PilesFinite DEF Buffered
  <2> QED BY <1>3, <1>6, <1>8, <2>1, WaitingAdds, WaitingNext DEF Ledger
<1>10. ~Holds(w) /\ Holds(w)'
  BY <1>2, <1>3 DEF Holds, HoldPlaces, Wakes
<1> QED BY <1>1, <1>3, <1>7, <1>9, <1>10, OthersHold, Takes

LEMMA FinishFinishes ==
  ASSUME Counted, Ledger, NEW w \in Workers, Finish(w)
  PROVE  Ledger' /\ TP!Finish
<1> USE Names DEF Counted, Control
<1>1. Elsewhere(w) /\ w \in Actors
  BY OneMoves DEF WorkerStep
<1>2. /\ pc[w] = "run" /\ pc'[w] = "pop" /\ tasks' = tasks - 1
      /\ UNCHANGED <<runq, consumer, buf, local>>
  BY DEF Finish, Goto
<1>3. Ledger'
  <2>1. ASSUME NEW v \in Workers PROVE Hands(v)'
    <3>1. CASE v = w
      BY <1>2, <3>1 DEF Hands, Ledger, Waits
    <3>2. CASE v # w
      BY <1>1, <1>2, <3>2 DEF Elsewhere, Hands, Ledger
    <3> QED BY <3>1, <3>2
  <2>2. \A b \in Actors : pc'[b] = "push" => arg'[b].n \in 1 .. MaxBatch
    BY <1>1, <1>2 DEF Elsewhere, Ledger
  <2>3. tasks' \in Int
    BY <1>2 DEF Ledger
  <2> QED BY <1>2, <2>1, <2>2, <2>3 DEF Ledger
<1>4. Waiting' = Waiting
  BY <1>1, <1>2, OthersHold, WaitingAdds, WaitingNext DEF Buffered
<1>5. Holding' = Holding \ {w} /\ w \in Holding
  <2>1. Holds(w) /\ ~Holds(w)'
    BY <1>2 DEF Holds, HoldPlaces, Wakes
  <2> QED BY <1>1, <2>1, OthersHold, Held, HeldNext
<1>6. Cardinality(Holding \ {w}) = Cardinality(Holding) - 1 /\ Cardinality(Holding) > 0
  <2>1. IsFiniteSet(Holding) /\ Holding # {}
    BY <1>5, Held
  <2>2. Cardinality(Holding) \in Nat
    BY <2>1, FS_CardinalityType
  <2>3. Cardinality(Holding) # 0
    BY <2>1, FS_EmptySet
  <2>4. Cardinality(Holding \ {w}) = Cardinality(Holding) - 1
    BY <1>5, <2>1, FS_RemoveElement
  <2> QED BY <2>2, <2>3, <2>4
<1> QED BY <1>2, <1>3, <1>4, <1>5, <1>6 DEF TP!Finish

-----------------------------------------------------------------------------
Accounted == Counted /\ Served /\ Ending /\ Linked /\ Ledger

LEMMA InitiallyAccounted ==
  ASSUME Init
  PROVE  Accounted /\ TP!Init
<1> USE Names DEF Init
<1>1. Counted /\ Served
  BY InitiallyCounted, InitiallyServed
<1>2. Ending
  BY DEF Ending, OwnerPlaced, JoinSignalled, Waits, Wakes
<1>3. Linked /\ Pushing = {} /\ \A w \in Workers : ~Holds(w)
  BY DEF Linked, Serving, Working, Alive, Pushing, Holds, HoldPlaces, Wakes
<1>4. Ledger
  BY DEF Ledger, Hands, Waits
<1>5. Cardinality(Holding) = 0
  BY <1>3, Held, FS_EmptySet
<1>6. Positions(Workers, buf) = {} /\ Positions(Pushing, Carried) = {}
  <2>1. \A w \in Workers : 1 .. buf[w] = {}
    OBVIOUS
  <2> QED BY <1>3, <2>1 DEF Positions
<1>7. Waiting = 0
  <2>1. Buffered = 0 /\ Unpushed = 0
    BY <1>6, FS_EmptySet DEF Buffered, Unpushed
  <2>2. runq = 0
    OBVIOUS
  <2>3. Waiting = runq + Buffered + Unpushed
    BY <1>4, WaitingAdds
  <2> QED BY <2>1, <2>2, <2>3
<1> QED BY <1>1, <1>2, <1>3, <1>4, <1>5, <1>7 DEF Accounted, TP!Init

LEMMA AccountedSteps ==
  ASSUME Accounted, [Next]_vars
  PROVE  Accounted' /\ [TP!Next]_Counts
<1> USE DEF Accounted
<1>1. Counted' /\ Served' /\ Ending' /\ Linked'
  BY CountedSteps, ServedSteps, OwnerPlacedSteps, JoinSignalledSteps, LinkedSteps DEF Ending
<1>2. Ledger' /\ [TP!Next]_Counts
  <2> USE DEF TP!Next
  <2>1. ASSUME NEW a \in Actors, CallStep(a) \/ SpawnFails(a) \/ EventTimeout(a)
        PROVE  Ledger' /\ UNCHANGED Counts
    BY <2>1, PushMoves, CallCalm, EventCalm, WakeCalm, SpawnCalm DEF CallStep
  <2>2. ASSUME NEW a \in Actors, NEW n \in 1 .. MaxBatch, Schedule(a, n)
        PROVE  Ledger' /\ TP!Submit
    BY <2>2, ScheduleSubmits
  <2>3. ASSUME NEW w \in Workers, PopBuffer(w) \/ PopGlobal(w) \/ Steal(w)
        PROVE  Ledger' /\ [TP!Next]_Counts
    BY <2>3, BufferStarts, LookingCalm, ConsumerEnters, StealStarts
  <2>4. ASSUME NEW w \in Workers, Consume(w) \/ ReleaseConsumer(w) \/ Finish(w)
        PROVE  Ledger' /\ [TP!Next]_Counts
    BY <2>4, ConsumeStarts, ConsumerLeaves, FinishFinishes
  <2>5. ASSUME NEW w \in Workers, WorkerStep(w) PROVE Ledger' /\ [TP!Next]_Counts
    BY <2>3, <2>4, <2>5, WorkerCalm DEF WorkerStep
  <2>6. CASE OwnerStep \/ IdleTasks \/ Shutdown
    BY <2>6, OwnerCalm
  <2>7. CASE UNCHANGED vars
    BY <2>7 DEF vars, Ledger, Hands, Counts, Waiting, Pushing, Holding
  <2> QED BY <2>1, <2>2, <2>5, <2>6, <2>7 DEF Next
<1> QED BY <1>1, <1>2

\* The pool keeps its promise to whoever schedules on it, for every number of threads, clients
\* and tasks: every task that was counted is in the queue, in one buffer, on its way or in the
\* hands of one worker; it is started once; no more than max_threads run; finish() is for one
\* that runs.
THEOREM TasksRunOnce == Spec => ImplementsTaskPool
<1>1. Init => Accounted /\ TP!Init
  BY InitiallyAccounted
<1>2. Accounted /\ [Next]_vars => Accounted' /\ [TP!Next]_Counts
  BY AccountedSteps
<1> QED BY <1>1, <1>2, PTL DEF Spec, ImplementsTaskPool, TP!Spec, Counts
=============================================================================
