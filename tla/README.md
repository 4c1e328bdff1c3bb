# A TLA+ development of parabun

parabun is a JavaScript runtime: an engine in Rust and C++ (bundler, package
manager, HTTP, SQL, shell, test runner, event loop, thread pool) with a set of
libraries of its own in TypeScript on top (`src/src/js/bun/`: parallelism,
reactivity, language models, MCP, a voice assistant, hardware streams). This
development follows the concurrency down one column of that system, from the locks
and pools a program calls, through the reactive core they publish to, to the
runtime's thread pool, the package installer that runs on it, and the directory
tree that installers of different projects share.

Contents: [the system](#the-system), [the modules](#the-modules),
[the runs](#the-runs), [fairness and deadlock](#fairness-and-deadlock),
[the proofs](#the-proofs), [disagreements](#disagreements-between-code-and-documentation),
[what is left out](#what-is-left-out), [the plan](#the-plan).

To repeat the checks: `tlc -config X.cfg M` for a run, `tlapm M_proofs.tla` for
the proofs. Paths are relative to `src/src/`; line numbers without a file are of the
file its section names.

## The system

### Parts, state and operations

| part | state | operations | modelled in |
|---|---|---|---|
| Thread pool (`threading/ThreadPool.rs`) | a packed word of counts and status, an idle and a join event on futexes, a stack of workers, `wait_group` | `schedule`, `notify`, `warm`, a worker's `wait` and `pop`, `register`, `unregister`, idle tasks, `shutdown`, `join` | `ThreadPool`, `TaskPool` |
| Run queues (`ThreadPool.rs`, `mod node`) | intrusive stacks with a cached chain, rings of 256 nodes with 32-bit indices | push, consume, pop, overflow, steal | `RunQueues` |
| Isolated installer (`install/isolated_install.rs`, `isolated_install/Installer.rs`, `PackageManager/runTasks.rs`, `PackageManagerEnqueue.rs`) | a step and a result per entry, the queue of finished tasks, lists of waiters per download, the pending count | the loop over the entries, `Task::run`, `on_task_*`, `resume_unblocked_tasks`, `run_tasks`, downloads, lifecycle scripts | `IsolatedInstall`, `InstallPlan` |
| Shared global store (`Installer.rs`) | `<cache>/links/<entry>`, staging and set-aside trees, the project's link | build, link, commit, swap under `--force`, warm hit, detach, failure | `GlobalStore` |
| Worker pool, `pool()` (`js/bun/parallel.ts` 780-1214) | `workers` with `busy` and `initOk`, `pending` by message id, `queue`, `disposed`, diagnostic signals | `run`, `dispose`, `onmessage`, `onerror`, `drainQueue` | `WorkerPool`, `CallService` |
| Implicit pmap pool (`parallel.ts` 180-700) | `pmapPool` of workers with one resolver each, `sabPool` of free shared buffers, ref counts | `pmap`, `disposeWorkers`, `borrowSab`, `returnSab` | `PmapPool` |
| Parallel sort, `psort` (`parallel.ts` 114-178, 1407-2291) | four shared buffers, per-worker histograms and offsets, a merge heap | serial and parallel radix sort, chunk-and-merge, sample sort | `Psort` |
| `Mutex`, `Semaphore` (`parallel.ts` 1216-1406) | one int32 of a SharedArrayBuffer, the waiter list of `Atomics.waitAsync` | `lock`, `tryLock`, `unlock`, `acquire`, `tryAcquire`, `release`, `with` | `AtomicWord`, `Mutex`, `Semaphore`, `Permits` |
| Reactive core (`js/bun/signals.ts` 1-310) | values, dirty flags, dependency sets, `pendingEffects`, `batchDepth`, `currentTarget`, the call stack | `signal`, `derived`, `effect`, `batch`, `untrack`, `flush` | `Signals` |
| Signal adapters, server gate, MCP client, assistant | timers, waiters, requests by id, history and abort flag | see `PROJECT.json` | [the plan](#the-plan) |
| Buffer pool, hardware streams, numeric libraries, data formats, npm builds, language front end, the rest of the engine | | | not modelled, reasons in `PROJECT.json` |

### How they interact

The thread pool is the one pool of native threads: the installer schedules a task
for each store entry on it, and the extraction of each tarball; the bundler is its
other large client. A task reports to the installer's main thread through a
lock-free queue and wakes its event loop; the main thread, also called back by the
HTTP thread and by exiting subprocesses, decides what is scheduled next. The trees
these tasks write are shared with installers of other projects, which run as other
processes and know of each other only through the file system.

The two JavaScript pools are clients of the runtime's `Worker`: they post messages,
and the event loop calls their handlers back, one event at a time, in order per
worker and in any order across workers. `psort` is a client of the implicit pool;
the pools publish their counts through state signals of the reactive core. The
shared locks are used by agents on any thread, with no event loop between them.

### What is hard, and what makes each part correct

* **Thread pool.** Sleeping, waking, spawning and shutting down race on one word and
  one futex. Correct: no task is lost, at most one notification is in flight, the
  counts that `join()` and the spawn limit rely on are exact, `drop()` returns.
* **Run queues.** Owner, thieves and outside producers work on the same nodes without
  locks. Correct: every node is run exactly once, the unsynchronised cache has one
  user.
* **Installer.** The main thread waits for a count that a dozen paths raise and lower;
  entries wait for each other, around cycles, for downloads and for scripts, and any
  of it may fail. Correct: the count is exact, dependencies come first, the install
  ends.
* **Shared store.** Processes crash, race, replace entries and lose the right to use
  them. Correct: an entry that exists is complete, what was reported installed
  resolves, nothing is left behind.
* **Worker pool.** Calls, init replies, results, worker errors, exits and `dispose()`
  arrive in any order. Correct: a call is never lost or held twice, settles once and
  with its own result, no call waits beside an idle worker, the counts are exact.
* **Implicit pool.** Callers share the workers, a worker entry has room for one
  resolver, and replies do not say which call they answer. Correct: a call gets its
  own output, a buffer has one user, the process stays alive while a call is in
  flight, awaiting a call is a barrier.
* **Sort.** Workers write one buffer without locks; stability across workers, passes,
  chunks and buckets depends on index arithmetic. Correct: every strategy returns the
  stable sort of the input.
* **Locks.** Sleeping and waking race with taking and releasing. Correct: exclusion,
  conservation of permits, no lost wake-up, progress.
* **Reactive core.** Everything is synchronous and re-entrant, and any function may
  throw. Correct: derived values are never stale, effects end on current values, a
  batch defers, every exit restores the bookkeeping.

`PROJECT.json` lists every such hazard at its line, with the properties that cover it
or the reason none does.

## The modules

### Thread pool: `TaskPool`, `ThreadPool`, `ThreadPool_proofs` (`threading/ThreadPool.rs`)

`TaskPool` is what code that schedules tasks relies on: a task counts as open from
the moment it is submitted until it has finished, is started once, and no more than
`max_threads` run at a time.

In `ThreadPool` every thread has a program counter: clients, workers and the owner. A
compare-exchange loop on the sync word decides from the value it replaces, so its
successful iteration is one step (`NotifySlow`, `WaitNotified`, `WaitBecomesIdle`). An
`Event` is its four states and the futex (`EventWait`, `EventSleep`, `EventTimeout`,
`EventSwap`, `EventWake`); `arg` holds the operation a thread is in and where it goes
on. A worker goes through `Register`, `PopBuffer`, `PopGlobal`, `Consume`, `Steal`,
`Got`, `Finish`, and at the end `Unregister`, `Exit` and `Chain`, the last being the
notification from worker to worker by which `drop()` lets them end. `SpawnFails` is
the operating system refusing a thread, `IdleTasks` is `push_idle_task` with
`wake_for_idle_events`. The queues are counts here.

### Run queues: `RunQueues`, `RunQueues_proofs` (`threading/ThreadPool.rs`, `mod node`)

The same queues node by node: `next` of each node, the stack with its two low bits,
the cache, and each worker's ring with wrapping `head` and `tail`. Every access that
another thread can observe is a step; a failed compare-exchange is the reload that
follows it. `Schedule` and `ScheduleInside` push a batch from outside and from a
task; a full ring overflows half of itself (`BufferOverflow`, `PushOverflow`); a
worker pops its ring, scans the queues, takes a stack over (`Acquire`, `Take`,
`Extra`, `Publish`, `Release`) or copies half of another's ring and then claims it
(`StealHead` to `StealPublish`).

### Isolated installer: `InstallPlan`, `IsolatedInstall`, `MCIsolatedInstall`, `IsolatedInstall_proofs`

`InstallPlan` is what an install promises: each entry is settled once and for all, an
entry links the binaries of its dependencies and runs its scripts only when the
dependencies it has to wait for are settled, and the install returns when every
entry is settled, or aborts.

`IsolatedInstall` has three kinds of actors. A task goes step by step through
`Task::run` (`LinkPackage` to `Finish`) and hands itself back in two steps, `Push` and
`Wake`, since the main thread may run between them. Downloads (`Respond`, `Extract`)
succeed or fail in any order. The main thread is a program counter over
`isolated_install.rs` (`StartEntry`, `SkipEntry`, `EnqueueDownload`) and `run_tasks()`,
which drains its queues in the code's order (`PopBatch`, `PopAnswers`,
`PopExtracted`, `Flush`), calls back waiters one by one (`StartWaiter`,
`FailWaiter`), and looks through the blocked entries whenever one is settled
(`Resume`). Lifecycle scripts end in the event loop (`PreinstallExits`, `ScriptExits`,
`ScriptFails`). Which entries are there, what each finds on disk, and who depends on
whom are constants; `Ancestors` is `is_cycle()`. `ThreadPool` shows that what is
scheduled runs, which the fairness of `TaskStep` takes up; what a task writes is the
subject of `GlobalStore`.

### Shared global store: `GlobalStore`, `GlobalStore_proofs` (`isolated_install/Installer.rs`)

One entry and every process that installs it. A directory is absent, without its
`package.json`, partial, complete, damaged by the world, or written into by somebody
other than its builder. Each system call that changes a path is a step: `Detach`,
`ClearStaging`, `Build`, `LinkProject` (remove, then link), `Binaries`, `Commit`, and
under `--force` `Swap`, `Publish`, `Gc`. A run may find the entry eligible, no longer
eligible, or the store turned off; `Fail` is a system call that fails, `Crash` a
process that is killed anywhere, `Damage` an entry that rots.

Temporary trees go by `let _ = delete_tree(...)` (405, 2445, 2467, 2472, 2479-2480,
2489), so `Discard` and `DiscardOld` may fail: the tree becomes `"left"`, a fault is
spent, and the install goes on as the code does. `NothingLeaks` says that nothing else
is left by a run that ends. Of the removals before a task builds, a stale link that
stays stops the task (1182-1191, part of `Fail`), and the staging path is new and empty
(1193-1204).

### Worker pool: `CallService`, `WorkerPool`, `WorkerPool_proofs` (`parallel.ts`)

`CallService` is what a caller of `pool()` relies on: a call waits, and then
resolves with its own result or is rejected; `dispose()` rejects all waiting calls
at once and every later one.

`WorkerPool` is the code. One action is one turn of the main thread or one step of a
worker thread. `RunRejects`, `RunDispatches` and `RunQueues` are the three ways
through `run()` (1071-1095); `OnInitFailure`, `OnInitSuccess`, `OnRunReply` and
`OnStaleReply` the branches of `onmessage` (990-1030); `OnError` is `onerror`;
`Dispose` is `dispose()`. `drainQueue()` and `syncPoolSignals()` are part of the
actions whose handlers call them: `DrainRounds` says which workers a drain chooses
(the first idle one for the oldest call, until one is lacking or `postMessage`
throws) and `DrainQueue` what it does. A `postMessage` that throws leaves the turn
where the code leaves it: the worker busy, the id pending, what follows skipped.
Message ids are explicit, since the code finds a reply's call by id alone.

The worker's thread is the environment: `WorkerReplies`, in any order among the
messages it holds, `WorkerDies`, an uncaught error outside the handler's `try`, and
`WorkerCloses`, after which posting throws. The module ends with the refinement:
`ImplementsService` is `CallService!Spec` over the same `promise`, `answer` and
`disposed`.

### Implicit pool: `PmapPool`, `MCPmapPool`, `PmapPool_proofs` (`parallel.ts`)

`Start` is a call reaching the dispatcher: it borrows two buffers if it is on a typed
array (`Borrow`), grows the pool, refs its workers and overwrites their resolvers.
`Deliver` is a reply or error event: it settles whichever chunk the entry holds, unrefs
the worker, and when the call is complete assembles the result and returns the buffers
(`Settle`). `DisposeWorkers` starts a new generation of workers; those of the old one
may still be computing, and writing to shared buffers. `Finishes`, `Dies` and `Closes`
are the threads; a function whose source does not evaluate kills its worker, because
evaluation is outside the worker's `try` (76).

How the program uses `pmap` is a constant. A `careful` client awaits every call and
calls `disposeWorkers()` after a rejection; a `sequential` one only awaits; an
`overlapping` one does neither. The properties hold of careful clients; the others
lead to the disagreements below.

### Sort: `Psort` (`parallel.ts`)

Each behaviour is one call: `Init` chooses the strategy, the concurrency and the
input. The three radix kinds differ in the map from bit patterns to keys (`ToKey`,
`FromKey`). In the parallel radix sort `Histogram`, `PrefixSum`, `Scatter` (one step
per element, the workers interleaved) and `NextPass` follow the rounds; `Offset` is
the prefix sum in its two-loop order. Chunk-and-merge keeps the binary heap of
`kWayMerge` as it is (`SiftDown`, `Heapify`, `Pop`); sample sort has its splitters,
bucket search and regrouping. The reference is `NativeSort`, the stable sort.

### Locks: `AtomicWord`, `Permits`, `Mutex`, `Semaphore` and `Locks_proofs` (`parallel.ts`)

`Permits` is the abstract object: agents take a permit while one is free and give
back the one they hold. `AtomicWord` declares what both locks share, the word and the
place of each agent, so that `Locks_proofs` can extend both. `Mutex` and `Semaphore`
have one action for each `Atomics` operation of the code, so that other agents may run
between a failed `compareExchange` and `waitAsync`, between the store and `notify`, and
between a load and the exchange. The semaphore's word wraps at `Half` (2^31 in the code).

### Reactive core: `Signals`, `MCSignals`, `Signals_proofs` (`signals.ts`)

The call stack is a variable: a frame for each running effect, compute function,
batch, untrack and flush. `Set` marks everything a change reaches and flushes
outside a batch; `GetDirty` enters a compute function and `ComputeReturns` leaves
it; `FlushSnapshots`, `FlushRuns`, `FlushSkips` and `FlushReturns` are the loops of
`flush()`; `CreateEffect`, `EffectReturns`, `Dispose`, the batch and untrack pairs
are their namesakes; `Throw`, `Unwinds` and `Catches` are exceptions, through each
`finally`. User functions are the most general the constants allow: at each step a
running function picks any operation it may perform, returns or throws. A derived
value is the record of what its function read, the strongest function there is, so a
stale value cannot be hidden by a coincidence of results. `_subs` is the inverse of
`deps` and is not kept; the order in which subscribers are visited is left open,
which covers insertion order. `MCSignals` holds client programs.

## The runs

| run | instance | distinct states | what it shows |
|---|---|---|---|
| `thread_pool` | 2 workers, 1 client, ring of 1, 2 batches of up to 2 tasks, 1 refused thread, `warm(1)`, 1 round of idle tasks | 715 653 | counts exact, one waker, idle tasks run before exit, every task runs, `drop()` returns, `TaskPool` implemented |
| `run_queues` | 2 workers, 4 nodes, batches of up to 3, ring of 2, indices modulo 16 starting at 15 | 1 483 876 | one consumer per queue, every node run exactly once and never lost |
| `isolated_install` | root and 3 entries: a cycle, a shared download, a preinstall script and two others, an optional entry, 1 failure anywhere, 1 retry | 184 838 | the count is exact, tasks have one owner, `InstallPlan` implemented, the install ends |
| `isolated_install_hangs` | the same, with a tarball URL that is refused | - | an install that never ends (disagreement 1) |
| `global_store` | 2 processes, 5 installs, 2 failing system calls, 1 crash, 1 damaged entry | 2 894 400 | an entry that exists is complete, successes resolve, nothing leaks unless its removal fails, `--force` replaces |
| `worker_pool` | 2 workers, 3 calls, no worker faults | 3 213 | `CallService` implemented, no ready worker idle beside a queue, counts exact, every call settles |
| `worker_pool_faults` | 2 workers, 3 calls, one uncloneable, 2 worker errors | 31 487 | what survives faults: own results, no call held twice |
| `pmap_pool` | calls of 2, 2 and 1 chunks, two typed, one that throws, one that does not parse, 3 generations, careful client | 3 273 | own results, exclusive buffers, process kept alive, awaiting is a barrier |
| `psort` | up to 3 workers, 5 elements, 3 comparator keys, 2 digits of base 2 | 656 173 | each strategy is the stable sort for every input, split and interleaving; scatter slots are disjoint |
| `mutex` | 4 agents | 1 031 | a single permit implemented, no lost wake-up, progress |
| `semaphore` | 4 agents, 2 permits, word of 3 bits | 103 437 | `Permits` implemented, no lost wake-up |
| `signals` | the diamond, 2 values, 4 operations, one derived and one effect that throw | 3 773 878 | no glitch, effects up to date, disposal final, batches defer, every exit restores the bookkeeping |

**Why the bounds are enough.** *Thread pool:* one worker can wake while the other
falls asleep, is spawned or is being refused; a ring of one makes a batch of two
spill, so that a worker asks for help and the other steals; two batches let a
notification meet one that nobody has consumed. *Run queues:* a batch of three
overflows a ring of two, and four nodes leave one to steal meanwhile; the indices
wrap after the first push. *Installer:* the cycle root-2 must not block while 2 waits
for 3; two waiters on one download are the least that can be handed out in order;
one failure reaches each failing path in turn, and the retry both its outcomes.
*Store:* five installs allow an eligible run, an ineligible one on its link and two
racing `--force` runs after it; two failing calls let a task that fails also fail to
remove its tree, or a loser of a race both of its trees. *Worker pool:* two workers and three calls are the
least with a full pool and a non-empty queue, in which a reply and an error of
different workers compete for one call. *pmap:* two calls share both workers, a third
uses a prefix of the list, and three generations let a pool be disposed, refilled and
disposed again while old threads run; `SabPoolMax` is below the number of buffers, so
that the cap is met. *Sort:* five elements over three workers give full, short and
single-element chunks, ties across chunks and digits, equal splitters and empty
buckets; two digits are the least in which an unstable pass can undo another.
*Locks:* four agents let one hold, one be woken, one arrive and one sleep.
*Signals:* four operations allow a change inside a batch inside an effect of a nested
flush. Every cap is a constant marked `bound` or named `Max...`, and stands in a
guard.

## Fairness and deadlock

* `ThreadPool`: weak fairness of every step of a thread that is inside a call or a
  worker, and of the ten-second timeout of a first sleep: threads are scheduled and
  callbacks return. Nobody has to schedule or to drop the pool. A spurious wake-up is
  never needed.
* `RunQueues`: weak fairness of each worker.
* `IsolatedInstall`: weak fairness of a task's steps, of downloads (the HTTP client
  times out), of the main thread and of wake-ups; strong fairness of scripts, whose
  exit is only noticed while the main thread is in its event loop.
* `WorkerPool!FairSpec`: weak fairness of the event handlers of each worker, as the
  event loop delivers every event, and of `WorkerReplies`, as user functions return.
  Nothing forces `run()`, `dispose()`, a worker's death or its close.
* `PmapPool`: the same for `Deliver` and for `Finishes`/`Dies`.
* `Mutex`, `Semaphore`: weak fairness of an agent's steps once it has asked for a lock.
  Which sleeper `notify` wakes is not assumed fair, so what is claimed is that
  somebody gets in, not each one: an agent may be overtaken for ever.
* `GlobalStore`, `Signals`, `Psort`: safety only. Processes may be killed anywhere, and
  effects that write may keep each other going for ever.

Deadlock is checked for the locks and the run queues. Elsewhere a program that has
made its calls, or an install that has returned, is done, and the configurations say
`CHECK_DEADLOCK FALSE`. Memory is sequentially consistent throughout.

## The proofs

TLC checks the instances above; the following hold for every value of the constants
that the named assumptions admit.

**`IsolatedInstall_proofs`.** `CountIsExact`, `OwnersAlternate` and `Refinement`, for
every dependency graph, every kind of entry and any number of failures and retries.
`PendingExact` is not inductive: a path that lowers the count must be known to settle
an entry that was not settled before. `Inv` adds where each entry is. `Lists`: it is
in at most one of the installer's queue, the batch being drained, the waiters being
called and the waiters of one package, and what it looks like there. `Stages`: an entry
the loop has not reached is fresh, a blocked one is with the main thread. `Downloads`: a
package on its way has somebody waiting for it. The count itself is by cardinalities:
an action either leaves the unsettled entries and the open downloads alone, or moves
one member across. For the refinement each step of an entry maps to `Open`, `Settle` or
a stutter, and no step leaves `Done`.

**`GlobalStore_proofs`.** `EntriesAreComplete`, `SuccessIsSuccess`, `CacheStaysClean`
and `ForceWorks`, for any set of processes and any bounds. `Ownership` says which trees
a task may write at each stage, `Finished` that a staging tree on its way to the final
path is complete and that a task which ends has tried to remove its trees, `Paid` (an
invariant of its own on top) that a tree which stayed has cost a fault, `Reliance` that an entry
somebody relied on is missing only between the two renames of a `--force` install, and
`Replacing` that a `--force` install on its way out has removed what it found.

**`ThreadPool_proofs`.** `OneAtATime`, for any number of threads, clients and tasks.
The status of waking has one owner at a time: the notified word until a worker takes
it up, that worker until it passes it on or gives it back. `OneWaker` is inductive with
the shapes of the word and of a worker's locals; one lemma covers the many steps that
touch neither. `CountsAreExact` adds `Control`, which says where a thread continues
after an event (`Placed`): without it a worker that returns from a join event could
come back to the run loop and be missing from the count. A step either enters no count
(`PathKeeps`, once for all of them) or moves one thread in or out of one (`ReserveKeeps`,
`SpawnPath`, `RefusedPath`, `UnregisterPath`, `IdlePath`); the one argument about numbers
is that a worker whose spawn is refused is counted beside the refused thread, so it can
never find that it was the last. `IdleTasksAreRun` adds `Served`: before shutdown every
registered worker still works, so idle tasks are given only to workers that will come
to the last drain of their run loop. `TasksRunOnce` is the refinement of `TaskPool`.
Waiting tasks are counted as positions, so that a step which moves some is an equation
between cardinalities of finite sets (`OnePlaceMore`, `OnePlaceChanges`); each action
either is `Calm` or has a lemma that says which step of `TaskPool` it is. Two facts beside
the counts are needed. `Ledger`: a worker looks in the queue or in another buffer only with
an empty buffer of its own (what it brings back overwrites it), and the queue does not run
dry under its one consumer. `Linked`: a thief always finds a worker on the stack, because
`join()` takes the stack away only when nobody works any more (`Ending`: its event is
signalled by the last one out, after shutdown, when the count cannot rise again). It is
assumed that the clients are finitely many.

**`RunQueues_proofs`.** `SingleConsumer`, for any number of workers, nodes and slots.
The bit `IS_CONSUMING` is set exactly while one worker is in the consuming section;
it follows from the compare-exchange of `Acquire` alone, whatever chains and rings hold.

`NoNodeRunsTwice` and `NoNodeLost`, likewise for any constants, but under `NoLap`:
`Capacity * (NodeCount + 1) + NodeCount < IndexSize`. The code's claim of a stolen half is a
compare-exchange of `head`, a 32-bit index that wraps. A thief that sleeps between its
load and its exchange while `head` goes once round succeeds on a stale copy: with
`IndexSize = 4`, `Capacity = 2` and `NodeCount = 6` TLC finds 33 states to a node that runs
twice. `NoLap` excludes that by bounding the tasks of a behaviour: a node that leaves the
queues lets the indices of a ring advance by `Capacity` at most (`Mark`, `Limit`). With the
code's 2^32 and 256 that is some 16 million tasks from the start; of longer behaviours these
two theorems say nothing. The run's instance satisfies `NoLap` (14 < 16) while its indices
pass zero. `RunQueuesAssumption` asks for a
ring of two slots at least, so that an overflow has a half to move; the code's has 256.

Neither property is inductive. `Sound` conjoins `Types`, with `Placed`, `Chains` and
`Locally`. `Where` maps each place, also the ones in the middle of an operation (what a
worker has taken from a stack and not yet stored, what it has stored and not yet published,
an overflow on its way), to its set of nodes, and `Placed` says that these sets divide the
nodes. A step then moves nodes between two or three places of one worker and one queue
(`Between`, `Consumes`) and leaves all others alone (`FarStay`). `Chains` says that a list
comes back to none of its nodes: popping one removes exactly that one from what hangs on the
stack. `Locally` relates a worker's locals to its ring: what a thief copied is what the
victim's ring holds as long as its head is unchanged (`ThiefOK`), what is left of a batch
is linked in order (`BatchOK`), no index is ahead of what it may be (`RingOK`). What hangs on a
pointer is defined as the least closed set of nodes (`Reach`), so no recursion is
involved; that the nodes listed one after the other are that set (`ListIsChain`) is by the
least counterexample in the interval. TLC has evaluated the parts of `Sound` on every state of a
smaller instance (3 nodes, indices below 12, starting at 11).

**`Locks_proofs`, the mutex.** `MutexExcludes`, `LockIsHandedOver` and
`MutexIsOnePermit` for any set of agents, infinite ones included. `MutexInv` conjoins
`MutexTypeOK`, `MutualExclusion` and `FreeLockWakes` and is inductive as it stands:
exclusion needs the second conjunct of `MutualExclusion` (the word says whether somebody
holds), and no wake-up is lost because an agent enters `asleep` only while the word is 1,
that is, while a holder exists who will pass through `notify`.

**`Locks_proofs`, the semaphore.** `SemaphoreConserves`, `PermitsAreHandedOver` and
`SemaphoreIsPermits` under `Fits`: finitely many agents, and fewer initial permits than
2^31. The second is needed, see disagreement 15. `Inv` adds that a value to be exchanged is positive. The
counting argument is by cardinalities of the sets of holders and of agents on their
way (`Trying`).

**`WorkerPool_proofs`.** `TypeCorrect`, `AnswersAreOwn` and `CallsAreHeldOnce` for every
number of workers and calls, every set of uncloneable ones and any number of worker errors. `OwnAnswer`
is not inductive: a reply settles the call its id is pending for, so one has to know
that an id means the same call wherever it occurs. `IdInv` says so of `pending`, of
the messages the workers hold and of the replies on their way, and that all ids in use
are below `nextId`; `DrainFacts` shows that the ids a drain hands out are new. `HeldOnce`
becomes inductive with the fact that a pending call has been made (`Held`), and
`DrainHolds` shows that a drain moves calls from the front of the queue into `pending`
without copying any. `NeverIdle`, `SignalsAreExact` and `Refinement` (the pool implements
`CallService`) hold when no argument is uncloneable and no worker dies (`Uncloneable = {}`
and `MaxErrors = 0`, the hypothesis of the run; disagreements 11 to 13 show that faults
refute them). `Tracked` says that the waiting promises are exactly those of the queued
and pending calls: `DrainPlaces` shows that a drain loses none and invents none. From it
follow the count of the signals (the map of pending ids is a bijection onto the waiting
calls that are not queued), that `dispose()` rejects everybody who waits, and that a
reply settles a promise that still waits. `DrainConserves` is the argument that a drain
stops only for want of calls or of idle workers.

**`PmapPool_proofs`.** `ResultsAreOwn`, `BuffersAreApart`, `WorkersAreRefed` and
`AwaitedIsBarrier`, for any calls of any widths, any functions that throw or do not
parse, any number of disposals and any cap of the free list, for a program that awaits
each call and disposes of the workers after a rejection (`Client = "careful"`;
disagreements 9 and 10 show what happens to others). A reply says nothing of the call it
answers, so the invariant is about the workers: `Lanes` says that a worker of the current
pool is idle, or executes the chunk of the call in its entry and nothing else, or has
sent the one reply to it, and that what the workers of earlier pools execute has been
rejected. `Progress` says that a chunk that counts as done was done by the function of
its own call. `Apart` and `Buffers` follow each buffer: free, or of one call that is
pending or rejected; `ReturnedFacts` is the arithmetic of the capped free list.

**`Signals_proofs`.** All five properties of the run, for any numbers of signals,
derived signals and effects and without a bound on operations. `CallsLeaveNothing` and
`BatchesDefer` hold of every program. Their invariant `Orderly` reads the call stack:
`Nested` says that the target and the batch depth are those the frames stand for,
`RunsAreOnStack` that the effects marked running are those with a frame, each with one,
`FlushesAreOutside` that no batch is open below a flush, and `PendingIsHeld` that what is
pending waits for a batch to end or for the flush on top. Five moves of the stack cover
all actions (`Pushes`, `Pops`, `Retops`, `Launches`, `Stays`; `Moves` says which action
makes which), and each part is proved once per move.

`GlitchFree` assumes `Acyclic`: no derived signal depends on itself, without which its
function calls itself for ever. `Glitchless` strengthens it to the functions under way:
what one of them has read is current and what it reads from is not marked, because only
reads happen above it (`ComputesNest`); a clean reader of what a set reaches is reached
too, since the marks are closed under it.

`DisposalDetaches` and `EffectsSettle` assume `Layered`: signals and effects have levels,
a function reads nothing above its own level, and an effect sets, creates and disposes of
only what is above it. Disagreement 14 is what happens otherwise: its programs, two
effects that set what the other reads and one that disposes itself, have no such levels.
The program of the run has (a, c, d, e1, b, e2 in this order), and so has every program
whose effects do not write. `Ascending` says that effects run above those whose changes
woke them and that no snapshot or pending effect is below an effect under way, so that
whoever acts is above all the others on the stack (`ActorIsHighest`): it cannot dispose
of an effect under way, and what it sets was read by none of them. With that, `Settling`
is inductive: an effect is fresh unless it is scheduled, what is scheduled is pending or
in a snapshot, and what runs is not scheduled.

Not provable here and left to TLC: all liveness (`EveryTaskRuns`,
`DropReturnsUndisturbed`, `EveryNodeRuns`, `InstallEnds`, `EveryCallSettles`,
`SomeoneGetsIn`), and `Psort`, whose correctness is an induction over its input. The
latter's `SortsStably` and `ScatterDisjoint` are the only invariants without a theorem: its
module is written with recursive operators, as the radix passes are.

## Disagreements between code and documentation

The first is the counterexample of a run; the others can be reproduced with the
configuration named (`tlc -config X.cfg M` reports the violation).

1. **A refused tarball URL can hang an install** (`PackageManagerEnqueue.rs:404`, run
   `isolated_install_hangs`, `NeverWaitsForEver`). The entry is listed as a waiter
   before the URL is refused; the next entry of the package finds the list and waits for
   a download that nobody starts. `runTasks.rs:720` describes this very hazard for
   downloads that fail later.
2. **`drop()` of a thread pool can hang** (`ThreadPool.rs:1462`, `ThreadPoolDrop.cfg`,
   `DropReturns`). If the last notification has not been consumed when `shutdown()`
   swaps the event, it reads `NOTIFIED` and makes no futex call: a second sleeper
   stays asleep. 1449-1450 says it wakes any threads currently waiting.
   `DropReturnsUndisturbed` is what does hold.
3. **A pool can be freed while a worker still notifies it** (`ThreadPool.rs:974-992`,
   `ThreadPoolFreed.cfg`, `PoolOutlivesUse`). The joiner leaves when the count is zero;
   the worker that lowered it has yet to touch `join_event`.
4. **Idle tasks may wait** (`ThreadPool.rs:302`, `ThreadPoolIdle.cfg`, `IdleTasksRun`).
   `wake_for_idle_events()` wakes every sleeper, but one token is all they find: the
   others go back to sleep without looking at their idle queue.
5. **A refused thread wedges an empty pool** (`ThreadPool.rs:831`, the exception `Wedged`
   of `EveryTaskRuns`). The count is undone and the notification is not: every later
   `notify()` returns early and nobody is ever spawned.
6. **The final path can be missing for a moment** (`Installer.rs:2450`,
   `GlobalStoreMissing.cfg`, `NeverMissing`): `--force` takes two renames, the comment
   says never.
7. **A failed install is not always done again** (`Installer.rs:408`,
   `GlobalStoreStale.cfg`, `FailedIsReinstalled`): a tree built in the project outlives
   the failure with its `package.json`, by which the next install takes it for
   installed.
8. **Losing a race can be a failure** (`Installer.rs:2476`, `GlobalStoreRace.cfg`,
   `OnlyFaultsFail`): the loser of the first rename of a `--force` race reports an
   error, the loser of the second does not.
9. **Concurrent `pmap` calls mix results** (`parallel.ts:565`, `MCPmapPoolOverlap.cfg`,
   `OwnResult`). Dispatching overwrites the resolvers of busy workers;
   `src/docs/parabun/lib/parallel.mdx:9` promises each map its own.
10. **The process may exit during a call, and a rejection is no barrier** (231,
    `MCPmapPoolRefs.cfg`, `InFlightIsRefed`; 572, `MCPmapPoolRetry.cfg`,
    `AwaitIsBarrier`): each reply unrefs its worker whatever else it holds, and
    `Promise.all` rejects while other chunks still execute.
11. **A dead worker strands calls** (`parallel.ts:1033`, `WorkerPoolHangs.cfg`,
    `EveryCallSettles`). `onerror` leaves `initOk` as it was and does not drain the
    queue, although 1073 says "fail fast — queueing forever is worse".
12. **An uncloneable argument costs a worker** (`parallel.ts:1088`,
    `WorkerPoolUncloneable.cfg`, `WorkersReused`). `run()` marks the worker busy before
    `postMessage` throws and never undoes it; 890-891 calls workers persistent and
    reused. An error of one worker costs the others too (`WorkerPoolStranded.cfg`):
    `onerror` rejects their calls, and their replies return at 1018 before they are freed.
13. **Counts go stale after a worker error** (`parallel.ts:1036`,
    `WorkerPoolStaleSignals.cfg`, `SignalsExact`): `onerror` clears `pending` without
    `syncPoolSignals()`.
14. **Effects can be lost** (`SettlesUpToDate` of `Signals`; `signals.ts:6` says an effect
    re-runs on any change). After a throw the rest of the snapshot stays marked
    scheduled and is ignored (`signals.ts:28`, `MCSignalsLost.cfg`); a change made by an
    effect to what it has itself read is missed, because `_markDirty` ignores an effect
    that runs (171, `MCSignalsLoop.cfg`). And an effect that disposes itself
    re-subscribes (192, `MCSignalsSelfDispose.cfg`, `DisposedIsDetached`).
15. **2^31 permits or more are none** (`parallel.ts:1331`, `SemaphoreWide.cfg`,
    `PermitsConserved`, with the width scaled down): the constructor accepts a count
    that wraps negative.

Noticed while reading, not model-checked: `pmap` ignores `concurrency` for plain
arrays (`parallel.ts:381`); `parallel.mdx` documents an argument order and members of a
pool that do not exist; `nextPow2` (269) does not terminate above 2^30 bytes; `preduce`
merges without awaiting reducers, and folds `initialValue` into each chunk (694, 802).

## What is left out

* Everywhere: weak memory. The models are sequentially consistent; what the orderings
  named in the Rust code add or lack is not examined.
* Thread pool: `do_()` and `each()`, which schedule a batch and wait for it. The only
  caller of `schedule_inside_thread_pool` schedules onto another pool, so in
  `ThreadPool` the workers' own run queues stay empty; `RunQueues` has them. The
  timeout of a join event only makes its one waiter look again.
* Run queues: nodes are not scheduled twice. `ThreadPool` and `RunQueues` are checked
  side by side, not composed.
* Installer: git checkouts, patch tasks that run on their own, how the store's graph is
  built, and the hoisted installer. A tarball that is buffered and one that streams
  differ only in when the extraction is counted: both are kept. A run has one failure.
* Store: Windows paths and junctions, copying as against linking of files, and a cache
  on another file system.
* Worker pool: `map` and `reduce`, which issue `run`s. A `postMessage` that throws in
  `drainQueue()` does so inside `onmessage`, as an uncaught exception of the main
  thread: the model goes on, which presumes a program that handles it. A user module
  that ends its thread silently, without an error event, is not modelled.
  `syncPoolSignals()` sets its three signals one after the other, each running its
  subscribers; here that is one step, and what a subscriber sees in between is not
  examined.
* Implicit pool: the choice between running inline and on workers, the probe and its
  moving average, `preduce`'s fold, the size classes of buffers, and `entry.busy`,
  which is written and never read.
* Sort: the size thresholds between strategies, and a worker that fails meanwhile.
  Digits have 2 values rather than 256 and keys 2 digits; that 64-bit keys are kept as
  two words (`radixSort64`, 1734-1827) is not modelled.
* Locks: an agent terminated in the middle of an operation, `unlock()` by one that does
  not hold the lock, `release()` beyond what was acquired, and a holder that locks
  again: the mutex is documented as non-reentrant.
* Reactive core: what a cleanup function does to signals, `set()` inside compute
  functions, `subscribe()`, values that are not tracked. `set()` with an equal value is
  a no-op in the code and is left out.
* **Not modelled.** Most of the repository is the engine: parsers, printers, the
  bundler, CSS, the Node file-system layer, HTTP/2, SQL and test tooling, about a
  million lines of which each file is larger than everything above. They transform
  data or speak protocols defined elsewhere; what they share between threads goes
  through the thread pool modelled here. The remaining libraries (adapters, gate, MCP
  client, assistant, hardware, numeric, formats, npm builds) are listed in
  `PROJECT.json`, each with its reason.

## The plan

Done: the locks, the worker pool with its abstract service, the implicit pool, the
sort, the reactive core; the thread pool with its queues, the isolated installer and
the shared store; proofs of every safety property but those of `Psort`.

What would come next, in this order:

1. `Gate`: the server's permits (`js/bun/llm/serve.ts` 138-163), which should refine
   `Permits` in FIFO order, with requests that fail, stream or are aborted.
2. `Connection`: the MCP client and its transports (`js/bun/mcp.ts` 87-270): every
   request settles exactly once across answers, close and exit.
3. `Turns`: the assistant (`js/bun/assistant.ts` 1108-1230): turns, `ask()` and scheduled
   prompts do not interleave in the history, an interrupt stops the turn it was meant
   for, close stops everything.
4. `Adapters` (`js/bun/signals.ts` 317-857): no value after dispose, no older answer over
   a newer one.
5. The installer on several entries of the shared store: `IsolatedInstall` with one
   `GlobalStore` per entry.

Proofs: a bound on how far indices move during one steal in place of `NoLap`, which would
carry the theorems of the run queues to behaviours of any length.
