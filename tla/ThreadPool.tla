----------------------------- MODULE ThreadPool -----------------------------
(***************************************************************************)
(* The work-stealing thread pool of the runtime (threading/ThreadPool.rs): *)
(* the packed sync word, the idle and join events on their futexes, the    *)
(* run loop of a worker, and drop() = shutdown() then join().              *)
(*                                                                         *)
(* A compare-exchange loop on the sync word decides from the very value it *)
(* replaces, so one successful iteration is one step; a failed or spurious *)
(* one changes nothing.  The run queues are counts here (RunQueues models  *)
(* them node by node): runq is the queue of the pool, buf[w] the run       *)
(* buffer of worker w.  Every schedule of the program ends in the queue of *)
(* the pool: the one caller of schedule_inside_thread_pool is a thread of  *)
(* another pool, so the run queues of the workers stay empty.              *)
(***************************************************************************)
EXTENDS Integers, FiniteSets

CONSTANTS
  MaxThreads,     \* max_threads of the Config
  Clients,        \* threads of the program that schedule batches
  Owner,          \* the thread that owns the pool and drops it
  Capacity,       \* CAPACITY of a run buffer (256 in the code)
  MaxBatches,     \* bound: batches scheduled in a behaviour
  MaxBatch,       \* bound: tasks in a batch
  SpawnFailures,  \* bound: how often the OS may refuse a thread
  Warm,           \* the count the owner calls warm() with, 0 when it does not
  IdleRounds,     \* bound: rounds of push_idle_task and wake_for_idle_events
  Quiet           \* the owner waits for all tasks before it drops the pool

Workers == 1 .. MaxThreads
Actors  == Workers \cup Clients \cup {Owner}

ASSUME PoolAssumption ==
  /\ MaxThreads \in Nat \ {0} /\ Capacity \in Nat \ {0}
  /\ {MaxBatches, SpawnFailures, Warm, IdleRounds} \subseteq Nat
  /\ MaxBatch \in Nat \ {0} /\ Quiet \in BOOLEAN /\ IsFiniteSet(Clients)
  /\ Owner \notin Clients /\ Workers \cap (Clients \cup {Owner}) = {}

None == 0    \* no worker: a null *mut Thread

VARIABLES
  sync,       \* the packed word: [idle, spawned, notified, state]
  event,      \* state of the Events: "idle", "join" and one join_event per worker
  runq,       \* tasks in the queue of the pool
  consumer,   \* the worker that holds IS_CONSUMING of that queue
  buf,        \* tasks in each worker's run buffer
  threads,    \* head of the stack of registered workers; local[w].next links it
  idleq,      \* workers whose idle_queue holds a task
  tasks,      \* wait_group.raw_count
  pc,         \* where each thread is
  arg,        \* the Event operation a thread is in, and where it continues
  local,      \* is_waking, is_idle, pushed, target, num_threads and next of each worker
  budget      \* what is left of the bounds

vars == <<sync, event, runq, consumer, buf, threads, idleq, tasks, pc, arg, local, budget>>
queues == <<runq, consumer, buf, tasks>>

NoEvent   == 0
IdleEvent == MaxThreads + 1
JoinEvent == MaxThreads + 2
Events    == Workers \cup {IdleEvent, JoinEvent}    \* w is the join_event of worker w
NoArg     == [ev |-> NoEvent]

Init ==
  /\ sync = [idle |-> 0, spawned |-> 0, notified |-> FALSE, state |-> "Pending"]
  /\ event = [e \in Events |-> "EMPTY"]
  /\ runq = 0 /\ consumer = None /\ buf = [w \in Workers |-> 0]
  /\ threads = None /\ idleq = {} /\ tasks = 0
  /\ pc = [a \in Actors |-> IF a \in Workers THEN "off" ELSE IF a = Owner /\ Warm > 0 THEN "warm" ELSE "out"]
  /\ arg = [a \in Actors |-> NoArg]
  /\ local = [w \in Workers |-> [waking |-> FALSE, idle |-> FALSE, pushed |-> FALSE,
                                 target |-> None, left |-> 0, next |-> None]]
  /\ budget = [batches |-> MaxBatches, fails |-> SpawnFailures, idles |-> IdleRounds]

Goto(a, l) == pc' = [pc EXCEPT ![a] = l]

-----------------------------------------------------------------------------
(* Event: one token, futex-backed.  arg[a] is the operation a is in.         *)

WaitOn(a, e, next) ==
  /\ arg' = [arg EXCEPT ![a] = [ev |-> e, with |-> "EMPTY", shrunk |-> FALSE, next |-> next]]
  /\ Goto(a, "event_wait")

WakeOn(a, e, with, next) ==
  /\ arg' = [arg EXCEPT ![a] = [ev |-> e, with |-> with, shrunk |-> FALSE, next |-> next]]
  /\ Goto(a, "event_swap")

EventReturn(a) == Goto(a, arg[a].next) /\ arg' = [arg EXCEPT ![a] = NoArg]

\* Event::wait up to the futex: leave on SHUTDOWN, consume NOTIFIED, or mark the event WAITING.
EventWait(a) ==
  /\ pc[a] = "event_wait"
  /\ LET e == arg[a].ev IN
       \/ event[e] = "SHUTDOWN" /\ EventReturn(a) /\ UNCHANGED event
       \/ event[e] = "NOTIFIED" /\ EventReturn(a) /\ event' = [event EXCEPT ![e] = arg[a].with]
       \/ /\ event[e] \in {"EMPTY", "WAITING"}
          /\ event' = [event EXCEPT ![e] = "WAITING"] /\ Goto(a, "event_futex") /\ UNCHANGED arg
  /\ UNCHANGED <<sync, queues, threads, idleq, local, budget>>

\* Futex::wait compares and sleeps at once; a thread that comes back acquires with WAITING.
EventSleep(a) ==
  /\ pc[a] = "event_futex"
  /\ IF event[arg[a].ev] = "WAITING"
       THEN Goto(a, "asleep") /\ UNCHANGED arg
       ELSE Goto(a, "event_wait") /\ arg' = [arg EXCEPT ![a].with = "WAITING"]
  /\ UNCHANGED <<sync, event, queues, threads, idleq, local, budget>>

\* Only the first sleep of a call has a timeout; after it the thread sleeps for ever.
\* (On a join event it only makes the one waiter look again: left out.)
EventTimeout(a) ==
  /\ pc[a] = "asleep" /\ ~arg[a].shrunk /\ arg[a].ev = IdleEvent
  /\ arg' = [arg EXCEPT ![a].with = "WAITING", ![a].shrunk = TRUE]
  /\ Goto(a, "event_wait")
  /\ UNCHANGED <<sync, event, queues, threads, idleq, local, budget>>

Sleepers(e) == {a \in Actors : pc[a] = "asleep" /\ arg[a].ev = e}

\* Event::wake: the swap, and the futex call only when a thread may be asleep.
EventSwap(a) ==
  /\ pc[a] = "event_swap"
  /\ LET e == arg[a].ev IN
       /\ event' = [event EXCEPT ![e] = IF arg[a].with = "ALL" THEN "NOTIFIED" ELSE arg[a].with]
       /\ IF event[e] = "WAITING" THEN Goto(a, "event_wake") /\ UNCHANGED arg ELSE EventReturn(a)
  /\ UNCHANGED <<sync, queues, threads, idleq, local, budget>>

\* Futex::wake: one sleeper for notify(), every sleeper for shutdown() and wake_for_idle_events().
EventWake(a) ==
  /\ pc[a] = "event_wake"
  /\ LET asleep == Sleepers(arg[a].ev) IN
     \E woken \in SUBSET asleep :
       /\ Cardinality(woken) = IF arg[a].with = "NOTIFIED" /\ asleep # {} THEN 1 ELSE Cardinality(asleep)
       /\ pc' = [b \in Actors |-> IF b \in woken THEN "event_wait"
                                  ELSE IF b = a THEN arg[a].next ELSE pc[b]]
       /\ arg' = [b \in Actors |-> IF b \in woken THEN [arg[b] EXCEPT !.with = "WAITING"]
                                   ELSE IF b = a THEN NoArg ELSE arg[b]]
  /\ UNCHANGED <<sync, event, queues, threads, idleq, local, budget>>

-----------------------------------------------------------------------------
(* schedule() and notify(), called by clients and by running tasks.          *)

Set(a, f, v)  == local' = [local EXCEPT ![a][f] = v]
Waking(a)     == a \in Workers /\ local[a].waking
After(a)      == IF a \in Workers THEN "run" ELSE "out"
Dropping      == pc[Owner] = "joined" \/ sync.state = "Shutdown"

\* schedule_impl counts the batch before any worker can see it.
Schedule(a, n) ==
  /\ a # Owner /\ pc[a] = After(a) /\ budget.batches > 0
  /\ a \notin Workers => ~Dropping
  /\ budget' = [budget EXCEPT !.batches = @ - 1]
  /\ tasks' = tasks + n
  /\ arg' = [arg EXCEPT ![a] = [ev |-> NoEvent, n |-> n]]
  /\ Goto(a, "push")
  /\ UNCHANGED <<sync, event, runq, consumer, buf, threads, idleq, local>>

Push(a) ==
  /\ pc[a] = "push"
  /\ runq' = runq + arg[a].n
  /\ arg' = [arg EXCEPT ![a] = NoArg] /\ Goto(a, "notify")
  /\ UNCHANGED <<sync, event, consumer, buf, threads, idleq, tasks, local, budget>>

\* The fast path: a notification nobody has consumed yet will do.
Notify(a) ==
  /\ pc[a] = "notify"
  /\ Goto(a, IF sync.notified THEN After(a) ELSE "notify_slow")
  /\ UNCHANGED <<sync, event, queues, threads, idleq, arg, local, budget>>

\* Mutant: any caller wakes, whatever the state.
MutCanWake(a) == TRUE

CanWake(a) == Waking(a) \/ sync.state = "Pending"

\* The successful iteration of notify_slow's loop, and the caller's is_waking = false.
NotifySlow(a) ==
  /\ pc[a] = "notify_slow"
  /\ CASE sync.state = "Shutdown" ->
            Goto(a, After(a)) /\ UNCHANGED <<sync, arg>>
       [] sync.state # "Shutdown" /\ CanWake(a) /\ sync.idle > 0 ->
            /\ sync' = [sync EXCEPT !.notified = TRUE, !.state = "Signaled"]
            /\ WakeOn(a, IdleEvent, "NOTIFIED", After(a))
       [] sync.state # "Shutdown" /\ CanWake(a) /\ sync.idle = 0 /\ sync.spawned < MaxThreads ->
            /\ sync' = [sync EXCEPT !.notified = TRUE, !.state = "Signaled", !.spawned = @ + 1]
            /\ Goto(a, "spawn") /\ UNCHANGED arg
       [] OTHER ->
            /\ sync' = [sync EXCEPT !.notified = TRUE, !.state = IF Waking(a) THEN "Pending" ELSE @]
            /\ Goto(a, After(a)) /\ UNCHANGED arg
  /\ IF a \in Workers THEN Set(a, "waking", FALSE) ELSE UNCHANGED local
  /\ UNCHANGED <<event, queues, threads, idleq, budget>>

\* warm() raises the count without a notification, and then spawns.
WarmUp ==
  /\ pc[Owner] = "warm"
  /\ IF sync.spawned < Warm /\ sync.spawned < MaxThreads
       THEN sync' = [sync EXCEPT !.spawned = @ + 1] /\ Goto(Owner, "warm_spawn")
       ELSE Goto(Owner, "out") /\ UNCHANGED sync
  /\ UNCHANGED <<event, queues, threads, idleq, arg, local, budget>>

Spawned(a) == IF pc[a] = "warm_spawn" THEN "warm" ELSE After(a)

Spawn(a) ==
  /\ pc[a] \in {"spawn", "warm_spawn"}
  /\ \E w \in Workers :
       /\ pc[w] = "off" /\ \A v \in 1 .. w - 1 : pc[v] # "off"
       /\ pc' = [pc EXCEPT ![a] = Spawned(a), ![w] = "register"]
  /\ UNCHANGED <<sync, event, queues, threads, idleq, arg, local, budget>>

\* Mutant: a refused thread stays counted.
MutSpawnFails(a) ==
  /\ pc[a] \in {"spawn", "warm_spawn"} /\ budget.fails > 0
  /\ budget' = [budget EXCEPT !.fails = @ - 1]
  /\ Goto(a, After(a))
  /\ UNCHANGED <<sync, event, queues, threads, idleq, arg, local>>

\* unregister(null): undo the increment; the last one out tells the joiner.
SpawnFails(a) ==
  /\ pc[a] \in {"spawn", "warm_spawn"} /\ budget.fails > 0
  /\ budget' = [budget EXCEPT !.fails = @ - 1]
  /\ sync' = [sync EXCEPT !.spawned = @ - 1]
  /\ IF sync.state = "Shutdown" /\ sync.spawned = 1
       THEN WakeOn(a, JoinEvent, "NOTIFIED", After(a))
       ELSE Goto(a, After(a)) /\ UNCHANGED arg
  /\ UNCHANGED <<event, queues, threads, idleq, local>>

-----------------------------------------------------------------------------
(* A worker: register, then wait() and pop() until the pool shuts down.      *)

Register(w) ==
  /\ pc[w] = "register"
  /\ threads' = w /\ Set(w, "next", threads) /\ Goto(w, "wait")
  /\ UNCHANGED <<sync, event, queues, idleq, arg, budget>>

\* wait(): consume a notification; the one that was signaled makes the worker the waking one.
WaitNotified(w) ==
  /\ pc[w] = "wait" /\ sync.state # "Shutdown" /\ sync.notified
  /\ sync' = [sync EXCEPT !.notified = FALSE,
                          !.idle = IF local[w].idle THEN @ - 1 ELSE @,
                          !.state = IF @ = "Signaled" THEN "Waking" ELSE @]
  /\ local' = [local EXCEPT ![w].waking = @ \/ sync.state = "Signaled", ![w].idle = FALSE]
  /\ Goto(w, "pop")
  /\ UNCHANGED <<event, queues, threads, idleq, arg, budget>>

WaitBecomesIdle(w) ==
  /\ pc[w] = "wait" /\ sync.state # "Shutdown" /\ ~sync.notified /\ ~local[w].idle
  /\ sync' = [sync EXCEPT !.idle = @ + 1, !.state = IF local[w].waking THEN "Pending" ELSE @]
  /\ local' = [local EXCEPT ![w].waking = FALSE, ![w].idle = TRUE]
  /\ UNCHANGED <<event, queues, threads, idleq, pc, arg, budget>>

\* Idle already: run the idle tasks and sleep on the idle event.
WaitSleeps(w) ==
  /\ pc[w] = "wait" /\ sync.state # "Shutdown" /\ ~sync.notified /\ local[w].idle
  /\ idleq' = idleq \ {w} /\ WaitOn(w, IdleEvent, "wait")
  /\ UNCHANGED <<sync, event, queues, threads, local, budget>>

\* Mutant: the worker leaves without looking at its idle tasks.
MutWaitShutdown(w) ==
  /\ pc[w] = "wait" /\ sync.state = "Shutdown"
  /\ Goto(w, "unregister")
  /\ UNCHANGED <<sync, event, queues, threads, idleq, arg, local, budget>>

\* wait() fails on Shutdown: run the idle tasks once more and leave.
WaitShutdown(w) ==
  /\ pc[w] = "wait" /\ sync.state = "Shutdown"
  /\ idleq' = idleq \ {w} /\ Goto(w, "unregister")
  /\ local' = [local EXCEPT ![w].waking = FALSE, ![w].idle = FALSE, ![w].target = None]
  /\ UNCHANGED <<sync, event, queues, threads, arg, budget>>

\* pop(): the worker's own buffer first.
PopBuffer(w) ==
  /\ pc[w] = "pop"
  /\ IF buf[w] > 0
       THEN buf' = [buf EXCEPT ![w] = @ - 1] /\ Set(w, "pushed", FALSE) /\ Goto(w, "got")
       ELSE Goto(w, "global") /\ UNCHANGED <<buf, local>>
  /\ UNCHANGED <<sync, event, runq, consumer, threads, idleq, tasks, arg, budget>>

\* Then the queue of the pool, unless it is empty or has a consumer already.
PopGlobal(w) ==
  /\ pc[w] = "global"
  /\ IF consumer = None /\ runq > 0
       THEN consumer' = w /\ Goto(w, "consume") /\ UNCHANGED local
       ELSE Set(w, "left", sync.spawned) /\ Goto(w, "steal") /\ UNCHANGED consumer
  /\ UNCHANGED <<sync, event, runq, buf, threads, idleq, tasks, arg, budget>>

\* Mutant: the node returned stays in the buffer.
MutConsume(w) ==
  /\ pc[w] = "consume"
  /\ LET taken == IF runq > Capacity THEN Capacity ELSE runq IN
       /\ runq' = runq - taken
       /\ buf' = [buf EXCEPT ![w] = taken]
       /\ Set(w, "pushed", TRUE)
  /\ Goto(w, "release")
  /\ UNCHANGED <<sync, event, consumer, threads, idleq, tasks, arg, budget>>

\* consume() fills the buffer, takes one more node or the last of the buffer, and publishes the tail.
Consume(w) ==
  /\ pc[w] = "consume"
  /\ LET taken == IF runq > Capacity THEN Capacity + 1 ELSE runq IN
       /\ runq' = runq - taken
       /\ buf' = [buf EXCEPT ![w] = taken - 1]
       /\ Set(w, "pushed", taken > 1)
  /\ Goto(w, "release")
  /\ UNCHANGED <<sync, event, consumer, threads, idleq, tasks, arg, budget>>

ReleaseConsumer(w) ==
  /\ pc[w] = "release"
  /\ consumer' = None /\ Goto(w, "got")
  /\ UNCHANGED <<sync, event, runq, buf, threads, idleq, tasks, arg, local, budget>>

Target(w) == IF local[w].target # None THEN local[w].target ELSE threads

\* Then half the buffer of each registered worker in turn; num_threads workers in all.
Steal(w) ==
  /\ pc[w] = "steal" /\ local[w].left > 0
  /\ LET t == Target(w)
         stolen == IF t = w THEN 0 ELSE buf[t] - buf[t] \div 2
     IN IF stolen = 0
          THEN /\ local' = [local EXCEPT ![w].target = local[t].next, ![w].left = @ - 1]
               /\ UNCHANGED <<buf, pc>>
          ELSE /\ local' = [local EXCEPT ![w].target = local[t].next, ![w].left = 0, ![w].pushed = stolen > 1]
               /\ buf' = [buf EXCEPT ![t] = @ - stolen, ![w] = stolen - 1]
               /\ Goto(w, "got")
  /\ UNCHANGED <<sync, event, runq, consumer, threads, idleq, tasks, arg, budget>>

\* Nothing found: run the idle tasks and wait again, still waking if it was.
PopNothing(w) ==
  /\ pc[w] = "steal" /\ local[w].left = 0
  /\ idleq' = idleq \ {w} /\ Goto(w, "wait")
  /\ UNCHANGED <<sync, event, queues, threads, arg, local, budget>>

\* Mutant: the waking worker forgets to pass its status on.
MutGot(w) ==
  /\ pc[w] = "got"
  /\ Goto(w, IF local[w].pushed THEN "notify" ELSE "run")
  /\ local' = [local EXCEPT ![w].pushed = FALSE, ![w].waking = FALSE]
  /\ UNCHANGED <<sync, event, queues, threads, idleq, arg, budget>>

\* A waking worker passes its status on; one that filled its buffer asks for help.
Got(w) ==
  /\ pc[w] = "got"
  /\ Goto(w, IF local[w].waking THEN "notify_slow" ELSE IF local[w].pushed THEN "notify" ELSE "run")
  /\ Set(w, "pushed", FALSE)
  /\ UNCHANGED <<sync, event, queues, threads, idleq, arg, budget>>

\* The callback has returned: wait_group.finish().
Finish(w) ==
  /\ pc[w] = "run"
  /\ tasks' = tasks - 1 /\ Goto(w, "pop")
  /\ UNCHANGED <<sync, event, runq, consumer, buf, threads, idleq, arg, local, budget>>

Unregister(w) ==
  /\ pc[w] = "unregister"
  /\ sync' = [sync EXCEPT !.spawned = @ - 1]
  /\ IF sync.spawned = 1 THEN WakeOn(w, JoinEvent, "NOTIFIED", "exit") ELSE Goto(w, "exit") /\ UNCHANGED arg
  /\ UNCHANGED <<event, queues, threads, idleq, local, budget>>

Exit(w) ==
  /\ pc[w] = "exit" /\ WaitOn(w, w, "chain")
  /\ UNCHANGED <<sync, event, queues, threads, idleq, local, budget>>

\* Mutant: the chain of join events is not passed on.
MutChain(w) ==
  /\ pc[w] = "chain" /\ Goto(w, "done")
  /\ UNCHANGED <<sync, event, queues, threads, idleq, arg, local, budget>>

\* Told to go: tell the worker registered before, without touching the pool.
Chain(w) ==
  /\ pc[w] = "chain"
  /\ IF local[w].next = None THEN Goto(w, "done") /\ UNCHANGED arg
                             ELSE WakeOn(w, local[w].next, "NOTIFIED", "done")
  /\ UNCHANGED <<sync, event, queues, threads, idleq, local, budget>>

-----------------------------------------------------------------------------
(* The owner: idle tasks for the workers, then drop().                       *)

ClientsOut == \A c \in Clients : pc[c] = "out"

\* push_idle_task for every worker, then wake_for_idle_events: the bundler does it when
\* its tasks are done, and schedules nothing afterwards.
IdleTasks ==
  /\ pc[Owner] = "out" /\ ~Dropping /\ ClientsOut /\ tasks = 0 /\ budget.idles > 0
  /\ budget' = [budget EXCEPT !.idles = @ - 1, !.batches = 0]
  /\ idleq' = {w \in Workers : w = threads \/ \E v \in Workers : local[v].next = w}
  /\ WakeOn(Owner, IdleEvent, "ALL", "out")
  /\ UNCHANGED <<sync, event, queues, threads, local>>

Shutdown ==
  /\ pc[Owner] = "out" /\ ~Dropping /\ ClientsOut /\ (Quiet => tasks = 0)
  /\ sync' = [sync EXCEPT !.notified = TRUE, !.state = "Shutdown", !.idle = 0]
  /\ IF sync.idle > 0 THEN WakeOn(Owner, IdleEvent, "SHUTDOWN", "join") ELSE Goto(Owner, "join") /\ UNCHANGED arg
  /\ UNCHANGED <<event, queues, threads, idleq, local, budget>>

Join ==
  /\ pc[Owner] = "join"
  /\ IF sync.spawned = 0 THEN Goto(Owner, "unlink") /\ UNCHANGED arg ELSE WaitOn(Owner, JoinEvent, "unlink")
  /\ UNCHANGED <<sync, event, queues, threads, idleq, local, budget>>

\* The swap that takes the stack of workers, and the notification that starts the chain.
Unlink ==
  /\ pc[Owner] = "unlink"
  /\ threads' = None
  /\ IF threads = None THEN Goto(Owner, "joined") /\ UNCHANGED arg
                       ELSE WakeOn(Owner, threads, "NOTIFIED", "joined")
  /\ UNCHANGED <<sync, event, queues, idleq, local, budget>>

-----------------------------------------------------------------------------
WorkerStep(w) ==
  \/ Register(w) \/ WaitNotified(w) \/ WaitBecomesIdle(w) \/ WaitSleeps(w) \/ WaitShutdown(w)
  \/ PopBuffer(w) \/ PopGlobal(w) \/ Consume(w) \/ ReleaseConsumer(w) \/ Steal(w) \/ PopNothing(w)
  \/ Got(w) \/ Finish(w) \/ Unregister(w) \/ Exit(w) \/ Chain(w)

\* What a thread inside a call of the pool does next; spawning may fail instead.
CallStep(a) ==
  \/ Push(a) \/ Notify(a) \/ NotifySlow(a) \/ Spawn(a)
  \/ EventWait(a) \/ EventSleep(a) \/ EventSwap(a) \/ EventWake(a)

OwnerStep == WarmUp \/ Join \/ Unlink

\* drop() has returned and every worker thread has ended.
AllJoined == pc[Owner] = "joined" /\ \A w \in Workers : pc[w] \in {"off", "done"}

Next ==
  \/ \E a \in Actors : CallStep(a) \/ SpawnFails(a) \/ EventTimeout(a)
  \/ \E a \in Actors, n \in 1 .. MaxBatch : Schedule(a, n)
  \/ \E w \in Workers : WorkerStep(w)
  \/ OwnerStep \/ IdleTasks \/ Shutdown

\* Threads are scheduled, and a task's callback returns; the ten
\* seconds of a first sleep pass.  Nobody has to schedule or to drop the pool.
Fairness ==
  /\ \A a \in Actors : WF_vars(CallStep(a)) /\ WF_vars(EventTimeout(a))
  /\ \A w \in Workers : WF_vars(WorkerStep(w))
  /\ WF_vars(OwnerStep)

Spec == Init /\ [][Next]_vars /\ Fairness

-----------------------------------------------------------------------------
(* Properties *)

Alive(w) == ~(pc[w] \in {"off", "exit", "chain", "done"} \/ arg[w].ev \in Workers \cup {JoinEvent})
Idle     == {w \in Workers : local[w].idle}
Spawning == {a \in Actors : pc[a] \in {"spawn", "warm_spawn"}}

\* The two counts packed in the sync word are the truth: spawned counts the workers
\* that have not unregistered and the threads being spawned, never more than
\* max_threads; idle counts the workers that notified a wish to sleep, until shutdown clears it.
CountsExact ==
  /\ sync.spawned = Cardinality({w \in Workers : Alive(w)}) + Cardinality(Spawning)
  /\ sync.spawned <= MaxThreads
  /\ sync.state # "Shutdown" => sync.idle = Cardinality(Idle)

\* There is at most one waking worker, the state says so as long as there is one, and a
\* signal that nobody has taken up yet always has its notification beside it
\* (the debug_asserts of notify_slow and wait).
OneWaker ==
  /\ \A v, w \in Workers : local[v].waking /\ local[w].waking => v = w
  /\ (\E w \in Workers : local[w].waking) => sync.state \in {"Waking", "Shutdown"}
  /\ sync.state = "Waking" => \E w \in Workers : local[w].waking
  /\ sync.state = "Signaled" => sync.notified

\* A worker that has left ran every idle task given to it: shutdown() may overtake
\* wake_for_idle_events() but not the last drain_idle_events of the run loop.
IdleTasksRunBeforeExit == \A w \in idleq : Alive(w)

\* A thread refused by the OS while the pool has none leaves the signal behind:
\* every later notify() finds notified set and returns.
Wedged == sync.spawned = 0 /\ sync.notified

\* Every scheduled task is finished, whatever sleeps and wakes meanwhile, unless the
\* pool is dropped first or wedged by a refused thread.
EveryTaskRuns == (tasks > 0) ~> (tasks = 0 \/ Wedged \/ sync.state = "Shutdown")

\* shutdown(): "wakes up any threads currently waiting on the Event", so drop() returns
\* and every worker thread ends.
DropReturns == (sync.state = "Shutdown") ~> AllJoined

\* It does when no notification of idle_event is still unconsumed at that moment.
Undisturbed ==
  /\ sync.state = "Shutdown"
  /\ \/ pc[Owner] = "event_swap" /\ arg[Owner].with = "SHUTDOWN" /\ event[IdleEvent] # "NOTIFIED"
     \/ pc[Owner] = "join" /\ event[IdleEvent] # "SHUTDOWN"
DropReturnsUndisturbed == Undisturbed ~> AllJoined

\* join() returns only when nobody will touch the pool again: unregister says the pool
\* is live until the notify of its join_event.
PoolOutlivesUse == pc[Owner] = "joined" => \A w \in Workers : arg[w].ev \notin {JoinEvent, IdleEvent}

\* A worker holds the task it dequeued from consume(), pop() or steal() until finish().
Holding == {w \in Workers : \/ pc[w] \in {"release", "got", "notify", "notify_slow", "spawn", "push", "run"}
                            \/ pc[w] \in {"event_swap", "event_wake"} /\ arg[w].next = "run"}

Pushing == {a \in Actors : pc[a] = "push"}

\* A position for every task: n[x] of them at each x.
Positions(S, n) == UNION {{x} \X (1 .. n[x]) : x \in S}

Waiting == runq + Cardinality(Positions(Workers, buf))
                + Cardinality(Positions(Pushing, [a \in Pushing |-> arg[a].n]))

TP == INSTANCE TaskPool WITH Limit <- MaxThreads, open <- tasks, waiting <- Waiting, running <- Cardinality(Holding)

\* No task is lost, run twice or counted wrongly on its way through the queue of the pool,
\* the run buffers and the thieves, and no more than max_threads run at once.
ImplementsTaskPool == TP!Spec

\* wake_for_idle_events(): "Wake all the threads to check for idle events."
IdleTasksRun == \A w \in Workers : (w \in idleq) ~> (w \notin idleq)
=============================================================================
