----------------------------- MODULE RunQueues -----------------------------
(***************************************************************************)
(* The queues under the thread pool, node by node (threading/ThreadPool.rs,*)
(* mod node): Queue, an intrusive stack many threads push to and one at a  *)
(* time consumes, with the nodes it took but did not use kept in cache; and*)
(* Buffer, the ring a worker pushes to and pops from while others steal.   *)
(* A worker pops as Thread::pop does, runs the node, and may schedule more *)
(* nodes from the task (schedule_inside_thread_pool).                      *)
(*                                                                         *)
(* Every atomic access another thread can observe is a step; a failed CAS  *)
(* is the reload that follows it.  Memory is sequentially consistent.      *)
(***************************************************************************)
EXTENDS Integers, FiniteSets

CONSTANTS
  Workers,     \* registered threads of the pool
  NodeCount,   \* bound: nodes scheduled in a behaviour
  MaxList,     \* bound: nodes in one batch
  Capacity,    \* CAPACITY of the ring, a power of two (256 in the code)
  IndexSize,   \* 2^32 in the code: the indices wrap
  Start        \* the indices when the behaviour starts, after an earlier one emptied the rings

Nodes == 1 .. NodeCount
Null  == 0
Pool  == 0                            \* the queue of the pool; w is the run_queue of worker w
Queues == Workers \cup {Pool}
Index == 0 .. IndexSize - 1

ASSUME RunQueuesAssumption ==
  /\ Workers \subseteq Nat \ {0} /\ IsFiniteSet(Workers)
  /\ {NodeCount, MaxList, Capacity, IndexSize} \subseteq Nat \ {0}
  /\ Capacity > 1     \* half of a full ring is moved: "migrate >= 1"
  /\ IndexSize % Capacity = 0 /\ Capacity < IndexSize /\ Start \in Index

VARIABLES
  next,     \* node.next of every node
  stack,    \* PTR_MASK part of Queue.stack
  flags,    \* its low bits: "HAS_CACHE" and "IS_CONSUMING"
  cache,    \* Queue.cache, owned by whoever set IS_CONSUMING
  array, head, tail,   \* the ring of each worker
  fresh,    \* nodes never scheduled are fresh .. NodeCount
  runs,     \* how often each node was run
  pc,       \* where each worker is
  reg       \* its locals: q, node, pushed, todo, victim, from, to, first, last

vars == <<next, stack, flags, cache, array, head, tail, fresh, runs, pc, reg>>
queue == <<stack, flags, cache>>
ring  == <<array, head, tail>>

Slot(i) == i % Capacity
Plus(i, n)  == (i + n) % IndexSize
Minus(i, j) == (i - j + IndexSize) % IndexSize     \* wrapping_sub

NoReg == [q |-> Pool, node |-> Null, pushed |-> 0, todo |-> {}, victim |-> Null,
          from |-> 0, to |-> 0, first |-> Null, last |-> Null]

Init ==
  /\ next = [n \in Nodes |-> Null] /\ fresh = 1 /\ runs = [n \in Nodes |-> 0]
  /\ stack = [q \in Queues |-> Null] /\ flags = [q \in Queues |-> {}]
  /\ cache = [q \in Queues |-> Null]
  /\ array = [w \in Workers |-> [s \in 0 .. Capacity - 1 |-> Null]]
  /\ head = [w \in Workers |-> Start] /\ tail = [w \in Workers |-> Start]
  /\ pc = [w \in Workers |-> "pop"] /\ reg = [w \in Workers |-> NoReg]

Goto(w, l) == pc' = [pc EXCEPT ![w] = l]
Result(w, n) == reg' = [reg EXCEPT ![w] = [NoReg EXCEPT !.node = n]] /\ Goto(w, "run")

-----------------------------------------------------------------------------
(* Scheduling: a batch is a chain of fresh nodes.                            *)

Chained(k) == [n \in Nodes |-> IF n \in fresh .. fresh + k - 2 THEN n + 1 ELSE next[n]]

\* Queue.push puts the chain first .. last on the stack of q; the bits stay.
PushTo(q, first, last, links) ==
  /\ next' = [links EXCEPT ![last] = stack[q]]
  /\ stack' = [stack EXCEPT ![q] = first]

\* schedule() from a thread outside the pool.
Schedule(k) ==
  /\ fresh + k - 1 <= NodeCount
  /\ PushTo(Pool, fresh, fresh + k - 1, Chained(k))
  /\ fresh' = fresh + k
  /\ UNCHANGED <<flags, cache, ring, runs, pc, reg>>

\* schedule_inside_thread_pool() from the task w runs: first the worker's own ring.
ScheduleInside(w, k) ==
  /\ pc[w] = "run" /\ fresh + k - 1 <= NodeCount
  /\ next' = Chained(k) /\ fresh' = fresh + k
  /\ reg' = [reg EXCEPT ![w].first = fresh, ![w].last = fresh + k - 1, ![w].from = head[w]]
  /\ Goto(w, "fill")
  /\ UNCHANGED <<queue, ring, runs>>

\* Buffer.push with head loaded as reg.from: store what fits, and publish the tail in the next step.
\* The chain of a list ends in null, so walking it stops at the last node of the batch.
Least(m, n) == IF m < n THEN m ELSE n
Fits(w) == Least(reg[w].last - reg[w].first + 1, Capacity - Minus(tail[w], reg[w].from))

\* The ring of w with f[0], f[1] .. f[k-1] stored from index i on.
Stored(w, i, f, k) ==
  [s \in 0 .. Capacity - 1 |-> LET d == (s - Slot(i) + Capacity) % Capacity
                               IN IF d < k THEN f[d] ELSE array[w][s]]

BufferFill(w) ==
  /\ pc[w] = "fill" /\ Fits(w) > 0
  /\ array' = [array EXCEPT ![w] =
       Stored(w, tail[w], [d \in 0 .. Capacity - 1 |-> reg[w].first + d], Fits(w))]
  /\ reg' = [reg EXCEPT ![w].pushed = Fits(w)]
  /\ Goto(w, "fill_publish")
  /\ UNCHANGED <<next, queue, head, tail, fresh, runs>>

BufferPublish(w) ==
  /\ pc[w] = "fill_publish"
  /\ tail' = [tail EXCEPT ![w] = Plus(@, reg[w].pushed)]
  /\ LET rest == reg[w].first + reg[w].pushed IN
       IF rest > reg[w].last THEN Result(w, reg[w].node)
       ELSE reg' = [reg EXCEPT ![w].first = rest, ![w].from = head[w]] /\ Goto(w, "fill")
  /\ UNCHANGED <<next, queue, array, head, fresh, runs>>

\* The ring was full when head was loaded: claim its older half, link it before what is left
\* of the list, and give all of it back as overflow; a failed CAS reloads head and tries again.
BufferOverflow(w) ==
  /\ pc[w] = "fill" /\ Fits(w) = 0
  /\ LET h == reg[w].from
         migrate == Capacity \div 2
         Moved(i) == array[w][Slot(h + i)]
         links == [n \in Nodes |->
           IF \E i \in 0 .. migrate - 2 : Moved(i) = n
             THEN Moved((CHOOSE i \in 0 .. migrate - 2 : Moved(i) = n) + 1)
           ELSE IF n = Moved(migrate - 1) THEN reg[w].first
           ELSE IF n = reg[w].last THEN Null ELSE next[n]]
     IN IF head[w] = h
          THEN /\ head' = [head EXCEPT ![w] = Plus(h, migrate)]
               /\ next' = links
               /\ reg' = [reg EXCEPT ![w].first = Moved(0)]
               /\ Goto(w, "overflow")
          ELSE reg' = [reg EXCEPT ![w].from = head[w]] /\ UNCHANGED <<head, next, pc>>
  /\ UNCHANGED <<queue, array, tail, fresh, runs>>

\* run_buffer.push failed: the overflow goes to the worker's run_queue.
PushOverflow(w) ==
  /\ pc[w] = "overflow"
  /\ PushTo(w, reg[w].first, reg[w].last, next)
  /\ Result(w, reg[w].node)
  /\ UNCHANGED <<flags, cache, ring, fresh, runs>>

-----------------------------------------------------------------------------
(* Thread::pop: own ring, own run_queue, the pool's queue, then every worker *)
(* once: its run_queue, and half its ring.                                   *)

PopBuffer(w) ==
  /\ pc[w] = "pop"
  /\ IF head[w] # tail[w]
       THEN head' = [head EXCEPT ![w] = Plus(@, 1)] /\ Result(w, array[w][Slot(head[w])])
       ELSE reg' = [reg EXCEPT ![w] = [NoReg EXCEPT !.q = w]] /\ Goto(w, "acquire") /\ UNCHANGED head
  /\ UNCHANGED <<next, queue, array, tail, fresh, runs>>

\* A source had nothing: on to the next one.
NextSource(w) ==
  CASE reg[w].victim = Null /\ reg[w].q # Pool ->
         reg' = [reg EXCEPT ![w].q = Pool] /\ Goto(w, "acquire")
    [] reg[w].victim = Null /\ reg[w].q = Pool ->
         reg' = [reg EXCEPT ![w].todo = Workers] /\ Goto(w, "scan")
    [] OTHER -> Goto(w, IF reg[w].victim = w THEN "scan" ELSE "steal_head") /\ UNCHANGED reg

\* The cursor `target` decides the order of the victims: any order here.
Scan(w) ==
  /\ pc[w] = "scan"
  /\ IF reg[w].todo = {}
       THEN reg' = [reg EXCEPT ![w] = NoReg] /\ Goto(w, "pop")
       ELSE \E v \in reg[w].todo :
              /\ reg' = [reg EXCEPT ![w].victim = v, ![w].q = v, ![w].todo = @ \ {v}]
              /\ Goto(w, "acquire")
  /\ UNCHANGED <<next, queue, ring, fresh, runs>>

\* Mutant: two consumers at a time.
MutUnavailable(q) == "HAS_CACHE" \notin flags[q] /\ stack[q] = Null
Unavailable(q) == "IS_CONSUMING" \in flags[q] \/ ("HAS_CACHE" \notin flags[q] /\ stack[q] = Null)

\* try_acquire_consumer: taken, empty, or ours, together with the stack when nothing is cached.
Acquire(w) ==
  /\ pc[w] = "acquire"
  /\ LET q == reg[w].q IN
     IF Unavailable(q)
       THEN NextSource(w) /\ UNCHANGED queue
       ELSE /\ flags' = [flags EXCEPT ![q] = {"HAS_CACHE", "IS_CONSUMING"}]
            /\ stack' = [stack EXCEPT ![q] = IF "HAS_CACHE" \in flags[q] THEN @ ELSE Null]
            /\ reg' = [reg EXCEPT ![w].first = IF cache[q] # Null THEN cache[q] ELSE stack[q],
                                  ![w].pushed = 0]
            /\ Goto(w, "take") /\ UNCHANGED cache
  /\ UNCHANGED <<next, ring, fresh, runs>>

\* Consumer.pop: the cached chain, or the nodes pushed meanwhile.
Popped(w) == IF reg[w].first # Null THEN reg[w].first ELSE stack[reg[w].q]
TakeIt(w) == stack' = IF reg[w].first # Null THEN stack ELSE [stack EXCEPT ![reg[w].q] = Null]

\* consume(): fill the ring beyond its tail.
Take(w) ==
  /\ pc[w] = "take"
  /\ IF reg[w].pushed < Capacity /\ Popped(w) # Null
       THEN /\ TakeIt(w)
            /\ array' = [array EXCEPT ![w] = Stored(w, tail[w] + reg[w].pushed, [d \in {0} |-> Popped(w)], 1)]
            /\ reg' = [reg EXCEPT ![w].first = next[Popped(w)], ![w].pushed = @ + 1]
            /\ UNCHANGED pc
       ELSE Goto(w, "extra") /\ UNCHANGED <<stack, array, reg>>
  /\ UNCHANGED <<next, flags, cache, head, tail, fresh, runs>>

\* One more node to return, or the last one stored; then the tail is published.
Extra(w) ==
  /\ pc[w] = "extra"
  /\ LET r == reg[w] IN
     CASE Popped(w) # Null ->
            TakeIt(w) /\ reg' = [reg EXCEPT ![w].first = next[Popped(w)], ![w].node = Popped(w)]
       [] Popped(w) = Null /\ r.pushed > 0 ->
            /\ reg' = [reg EXCEPT ![w].pushed = r.pushed - 1,
                                  ![w].node = array[w][Slot(tail[w] + r.pushed - 1)]]
            /\ UNCHANGED stack
       [] OTHER -> UNCHANGED <<reg, stack>>
  /\ Goto(w, "publish")
  /\ UNCHANGED <<next, flags, cache, ring, fresh, runs>>

Publish(w) ==
  /\ pc[w] = "publish"
  /\ tail' = [tail EXCEPT ![w] = Plus(@, reg[w].pushed)]
  /\ Goto(w, "release")
  /\ UNCHANGED <<next, queue, array, head, fresh, runs, reg>>

\* Mutants: the rest of the chain is dropped; the queue stays locked while something is cached.
MutKept(w) == Null
Kept(w) == reg[w].first
MutBitsLeft(w) == IF Kept(w) = Null THEN {} ELSE {"HAS_CACHE", "IS_CONSUMING"}
BitsLeft(w) == IF Kept(w) = Null THEN {} ELSE {"HAS_CACHE"}

\* release_consumer keeps the rest of the chain in cache, and the bit that says so.
Release(w) ==
  /\ pc[w] = "release"
  /\ LET r == reg[w] IN
     /\ cache' = [cache EXCEPT ![r.q] = Kept(w)]
     /\ flags' = [flags EXCEPT ![r.q] = BitsLeft(w)]
     /\ IF r.node # Null THEN Result(w, r.node) ELSE NextSource(w)
  /\ UNCHANGED <<next, stack, ring, fresh, runs>>

\* steal(): load head, load tail, copy half, and claim it by moving the victim's head.
StealHead(w) ==
  /\ pc[w] = "steal_head"
  /\ reg' = [reg EXCEPT ![w].from = head[reg[w].victim]] /\ Goto(w, "steal_tail")
  /\ UNCHANGED <<next, queue, ring, fresh, runs>>

StealTail(w) ==
  /\ pc[w] = "steal_tail"
  /\ LET size == Minus(tail[reg[w].victim], reg[w].from)
         half == size - size \div 2
     IN IF size > Capacity THEN Goto(w, "steal_head") /\ UNCHANGED reg
        ELSE IF half = 0 THEN Goto(w, "scan") /\ UNCHANGED reg
        ELSE reg' = [reg EXCEPT ![w].pushed = half] /\ Goto(w, "steal_copy")
  /\ UNCHANGED <<next, queue, ring, fresh, runs>>

StealCopy(w) ==
  /\ pc[w] = "steal_copy"
  /\ LET r == reg[w]
         copy == [d \in 0 .. Capacity - 1 |-> array[r.victim][Slot(r.from + d)]]
     IN array' = [array EXCEPT ![w] = Stored(w, tail[w], copy, r.pushed)]
  /\ Goto(w, "steal_claim")
  /\ UNCHANGED <<next, queue, head, tail, fresh, runs, reg>>

\* Mutant: the claim is a store instead of a compare-exchange.
MutUnmoved(w) == TRUE
Unmoved(w) == head[reg[w].victim] = reg[w].from

StealClaim(w) ==
  /\ pc[w] = "steal_claim"
  /\ LET r == reg[w] IN
     IF Unmoved(w)
       THEN /\ head' = [head EXCEPT ![r.victim] = Plus(@, r.pushed)]
            /\ reg' = [reg EXCEPT ![w].pushed = @ - 1,
                                  ![w].node = array[w][Slot(tail[w] + r.pushed - 1)]]
            /\ Goto(w, "steal_publish")
       ELSE Goto(w, "steal_head") /\ UNCHANGED <<head, reg>>
  /\ UNCHANGED <<next, queue, array, tail, fresh, runs>>

StealPublish(w) ==
  /\ pc[w] = "steal_publish"
  /\ tail' = [tail EXCEPT ![w] = Plus(@, reg[w].pushed)]
  /\ Result(w, reg[w].node)
  /\ UNCHANGED <<next, queue, array, head, fresh, runs>>

\* The callback returns, and the worker looks for the next node.
Run(w) ==
  /\ pc[w] = "run"
  /\ runs' = [runs EXCEPT ![reg[w].node] = @ + 1]
  /\ reg' = [reg EXCEPT ![w] = NoReg] /\ Goto(w, "pop")
  /\ UNCHANGED <<next, queue, ring, fresh>>

-----------------------------------------------------------------------------
WorkerStep(w) ==
  \/ BufferFill(w) \/ BufferPublish(w) \/ BufferOverflow(w) \/ PushOverflow(w)
  \/ PopBuffer(w) \/ Scan(w) \/ Acquire(w) \/ Take(w) \/ Extra(w) \/ Publish(w) \/ Release(w)
  \/ StealHead(w) \/ StealTail(w) \/ StealCopy(w) \/ StealClaim(w) \/ StealPublish(w) \/ Run(w)

Next ==
  \/ \E k \in 1 .. MaxList : Schedule(k)
  \/ \E w \in Workers, k \in 1 .. MaxList : ScheduleInside(w, k)
  \/ \E w \in Workers : WorkerStep(w)

\* Every worker keeps taking steps; nobody has to schedule.
Spec == Init /\ [][Next]_vars /\ \A w \in Workers : WF_vars(WorkerStep(w))

-----------------------------------------------------------------------------
(* Properties *)

Consuming(w) == pc[w] \in {"take", "extra", "publish", "release"}

\* The cache of a queue and the chain taken from it belong to one worker at a time,
\* the one that set IS_CONSUMING.
OneConsumer ==
  \A q \in Queues :
    /\ \A v, w \in Workers : Consuming(v) /\ Consuming(w) /\ reg[v].q = q /\ reg[w].q = q => v = w
    /\ "IS_CONSUMING" \in flags[q] <=> \E w \in Workers : Consuming(w) /\ reg[w].q = q

\* No node is run twice, whoever popped, consumed or stole it and however the indices wrap.
RunOnce == \A n \in Nodes : runs[n] <= 1

\* What hangs on a pointer: the least set that holds its target and follows the next links.
Closed(links, S) == \A n \in S : links[n] \in S \cup {Null}
Reach(links, p) == {n \in Nodes : \A S \in SUBSET Nodes : {p} \ {Null} \subseteq S /\ Closed(links, S) => n \in S}
Hanging(p) == Reach(next, p)

InRing(w) == {array[w][Slot(head[w] + i)] : i \in 0 .. Minus(tail[w], head[w]) - 1}

\* Between operations every scheduled node is in exactly one place: run already, being run,
\* in one ring, or hanging on one stack or cache.  None is lost and none is in two queues.
AtRest == \A w \in Workers : pc[w] \in {"pop", "scan", "run"}
Places(n) ==
  Cardinality({w \in Workers : pc[w] = "run" /\ reg[w].node = n})
  + Cardinality({w \in Workers : n \in InRing(w)})
  + Cardinality({q \in Queues : n \in Hanging(stack[q])})
  + Cardinality({q \in Queues : n \in Hanging(cache[q])})
NothingLost == AtRest => \A n \in 1 .. fresh - 1 : runs[n] + Places(n) = 1

\* Every scheduled node is run in the end, as long as the workers keep popping.
EveryNodeRuns == (fresh > NodeCount) ~> (\A n \in Nodes : runs[n] = 1)
=============================================================================
