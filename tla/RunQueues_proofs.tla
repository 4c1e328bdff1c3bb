-------------------------- MODULE RunQueues_proofs --------------------------
(***************************************************************************)
(* The queues under the thread pool, for every set of workers, ring size   *)
(* and number of nodes: a queue has one consumer at a time; and, as long   *)
(* as no index of a ring comes all the way round (NoLap), no node is run   *)
(* twice and none is lost.                                                 *)
(*                                                                         *)
(* The first invariant, Inv, is about the bits of the queues alone.  The   *)
(* second, Sound, says where every node is: Where maps each place (the     *)
(* hand, ring and chain of a worker, the stack and cache of a queue, the   *)
(* nodes not scheduled yet and those that ran) to its nodes, and Placed    *)
(* that every node is in exactly one.  What keeps it so are the chains,    *)
(* which come back to none of their nodes (Chains), and what each worker   *)
(* knows of its ring, its batch and its victim (Locally).                  *)
(***************************************************************************)
EXTENDS RunQueues, FiniteSetTheorems, WellFoundedInduction, TLAPS


Fields == {"q", "node", "pushed", "todo", "victim", "from", "to", "first", "last"}

\* What the proof needs of the shapes of the variables.
Shapes ==
  /\ DOMAIN pc = Workers /\ DOMAIN reg = Workers
  /\ \A w \in Workers :
       DOMAIN reg[w] = Fields /\ reg[w].q \in Queues /\ reg[w].todo \subseteq Workers
  /\ flags \in [Queues -> SUBSET {"HAS_CACHE", "IS_CONSUMING"}]

Inv == Shapes /\ OneConsumer

\* The chains and rings never matter: an action that leaves every queue's bits alone keeps the
\* invariant when its worker consumes the same queue after it, or none before and after.
Quiet(w) ==
  /\ flags' = flags
  /\ DOMAIN pc' = Workers /\ DOMAIN reg' = Workers
  /\ \A v \in Workers \ {w} : pc'[v] = pc[v] /\ reg'[v] = reg[v]
  /\ DOMAIN reg'[w] = Fields /\ reg'[w].q \in Queues /\ reg'[w].todo \subseteq Workers
  /\ Consuming(w)' <=> Consuming(w)
  /\ Consuming(w) => reg'[w].q = reg[w].q

\* A quiet action keeps the invariant.
LEMMA QuietKeeps == ASSUME Inv, NEW w \in Workers, Quiet(w) PROVE Inv'
<1> USE DEF Inv, Quiet, Consuming
<1>1. Shapes'
  BY DEF Shapes
<1>2. \A v \in Workers : /\ Consuming(v)' <=> Consuming(v)
                         /\ Consuming(v) => reg'[v].q = reg[v].q
  BY DEF Shapes
<1>3. OneConsumer'
  BY <1>2 DEF OneConsumer
<1> QED BY <1>1, <1>3

\* At the start nobody consumes and no bit is set.
LEMMA Initially == Init => Inv
<1> SUFFICES ASSUME Init PROVE Inv
  OBVIOUS
<1>1. Shapes
  BY DEF Init, Shapes, NoReg, Fields, Queues
<1>2. OneConsumer
  BY DEF Init, OneConsumer, Consuming
<1> QED BY <1>1, <1>2 DEF Inv

\* Taking IS_CONSUMING makes the one consumer of a queue that had none.
LEMMA AcquireKeeps == ASSUME Inv, NEW w \in Workers, Acquire(w) PROVE Inv'
<1> DEFINE q == reg[w].q
<1>0. pc[w] = "acquire" /\ q \in Queues
  BY DEF Acquire, Inv, Shapes
<1>1. CASE Unavailable(q)
  <2>1. NextSource(w) /\ flags' = flags
    BY <1>1 DEF Acquire, queue
  <2>2. Quiet(w)
    BY <2>1, <1>0 DEF NextSource, Goto, Quiet, Consuming, Inv, Shapes, Fields, Queues
  <2> QED BY <2>2, QuietKeeps
<1>2. CASE ~Unavailable(q)
  <2>1. "IS_CONSUMING" \notin flags[q]
    BY <1>2 DEF Unavailable
  <2>2. /\ flags' = [flags EXCEPT ![q] = {"HAS_CACHE", "IS_CONSUMING"}]
        /\ pc' = [pc EXCEPT ![w] = "take"]
        /\ reg' = [reg EXCEPT ![w].first = IF cache[q] # Null THEN cache[q] ELSE stack[q],
                              ![w].pushed = 0]
    BY <1>2 DEF Acquire, Goto
  <2>3. /\ reg'[w].q = q /\ pc'[w] = "take"
        /\ \A v \in Workers \ {w} : pc'[v] = pc[v] /\ reg'[v] = reg[v]
        /\ DOMAIN reg' = Workers /\ DOMAIN pc' = Workers /\ DOMAIN reg'[w] = Fields
        /\ reg'[w].todo = reg[w].todo
    BY <2>2 DEF Inv, Shapes, Fields
  <2>4. Shapes'
    BY <2>2, <2>3, <1>0 DEF Inv, Shapes
  <2>5. \A v \in Workers : Consuming(v)' /\ reg'[v].q = q => v = w
    BY <2>1, <2>3, <1>0 DEF Inv, OneConsumer, Consuming
  <2>6. OneConsumer'
    <3>1. "IS_CONSUMING" \in flags'[q] /\ Consuming(w)'
      BY <2>2, <2>3 DEF Inv, Shapes, Consuming
    <3>2. \A p \in Queues \ {q} : flags'[p] = flags[p]
      BY <2>2 DEF Inv, Shapes
    <3>3. \A p \in Queues \ {q} : \A v \in Workers :
            Consuming(v)' /\ reg'[v].q = p <=> Consuming(v) /\ reg[v].q = p
      BY <2>3, <1>0 DEF Consuming
    <3>4. ASSUME NEW p \in Queues
          PROVE  /\ \A v, u \in Workers :
                      Consuming(v)' /\ Consuming(u)' /\ reg'[v].q = p /\ reg'[u].q = p => v = u
                 /\ "IS_CONSUMING" \in flags'[p] <=> \E v \in Workers : Consuming(v)' /\ reg'[v].q = p
      <4>1. CASE p = q
        BY ONLY <2>3, <2>5, <3>1, <4>1, w \in Workers
      <4>2. CASE p # q
        <5>1. /\ \A v, u \in Workers :
                   Consuming(v) /\ Consuming(u) /\ reg[v].q = p /\ reg[u].q = p => v = u
              /\ "IS_CONSUMING" \in flags[p] <=> \E v \in Workers : Consuming(v) /\ reg[v].q = p
          BY DEF Inv, OneConsumer
        <5> QED BY ONLY <3>2, <3>3, <4>2, <5>1, p \in Queues
      <4> QED BY <4>1, <4>2
    <3> QED BY ONLY <3>4 DEF OneConsumer
  <2> QED BY <2>4, <2>6 DEF Inv
<1> QED BY <1>1, <1>2

\* Giving the bit back leaves the queue without a consumer.
LEMMA ReleaseKeeps == ASSUME Inv, NEW w \in Workers, Release(w) PROVE Inv'
<1> DEFINE q == reg[w].q
<1>1. /\ pc[w] = "release" /\ q \in Queues
      /\ flags' = [flags EXCEPT ![q] = BitsLeft(w)]
  BY DEF Release, Inv, Shapes
<1>2. BitsLeft(w) \in SUBSET {"HAS_CACHE"}
  BY DEF BitsLeft
<1>3. Result(w, reg[w].node) \/ NextSource(w)
  BY DEF Release
<1>4. /\ pc'[w] \notin {"take", "extra", "publish", "release"}
      /\ \A v \in Workers \ {w} : pc'[v] = pc[v] /\ reg'[v] = reg[v]
      /\ DOMAIN reg' = Workers /\ DOMAIN pc' = Workers
      /\ DOMAIN reg'[w] = Fields /\ reg'[w].q \in Queues /\ reg'[w].todo \subseteq Workers
  <2>1. CASE Result(w, reg[w].node)
    BY <2>1 DEF Result, Goto, NoReg, Inv, Shapes, Fields, Queues
  <2>2. CASE NextSource(w)
    BY <2>2 DEF NextSource, Goto, Inv, Shapes, Fields, Queues
  <2> QED BY <1>3, <2>1, <2>2
<1>5. Shapes'
  BY <1>1, <1>2, <1>4 DEF Inv, Shapes
<1>6. \A v \in Workers : Consuming(v) /\ reg[v].q = q => v = w
  BY <1>1 DEF Inv, OneConsumer, Consuming
<1>7. OneConsumer'
  BY <1>1, <1>2, <1>4, <1>6 DEF Inv, OneConsumer, Consuming, Shapes
<1> QED BY <1>5, <1>7 DEF Inv

\* What a consumer does in between leaves the bits and the consumer alone.
LEMMA ConsumerKeeps ==
  ASSUME Inv, NEW w \in Workers, Take(w) \/ Extra(w) \/ Publish(w) PROVE Inv'
<1>1. CASE Take(w)
  <2>1. /\ pc[w] = "take" /\ flags' = flags
        /\ \/ pc' = pc
           \/ pc' = [pc EXCEPT ![w] = "extra"]
        /\ \/ reg' = [reg EXCEPT ![w].first = next[Popped(w)], ![w].pushed = @ + 1]
           \/ reg' = reg
    BY <1>1 DEF Take, Goto
  <2>2. /\ \A v \in Workers : pc'[v] = pc[v] \/ (v = w /\ pc'[v] = "extra")
        /\ \A v \in Workers \ {w} : pc'[v] = pc[v]
    BY <2>1 DEF Inv, Shapes
  <2>3. /\ \A v \in Workers \ {w} : reg'[v] = reg[v]
        /\ DOMAIN reg' = Workers /\ DOMAIN pc' = Workers
    BY <2>1 DEF Inv, Shapes
  <2>4. reg'[w].q = reg[w].q /\ reg'[w].todo = reg[w].todo /\ DOMAIN reg'[w] = Fields
    BY <2>1 DEF Inv, Shapes, Fields
  <2>5. Quiet(w)
    BY <2>1, <2>2, <2>3, <2>4 DEF Quiet, Consuming, Inv, Shapes
  <2> QED BY <2>5, QuietKeeps
<1>2. CASE Extra(w)
  <2>1. /\ pc[w] = "extra" /\ flags' = flags /\ pc' = [pc EXCEPT ![w] = "publish"]
        /\ \/ reg' = [reg EXCEPT ![w].first = next[Popped(w)], ![w].node = Popped(w)]
           \/ reg' = [reg EXCEPT ![w].pushed = reg[w].pushed - 1,
                                 ![w].node = array[w][Slot(tail[w] + reg[w].pushed - 1)]]
           \/ reg' = reg
    BY <1>2 DEF Extra, Goto
  <2>2. pc'[w] = "publish" /\ \A v \in Workers \ {w} : pc'[v] = pc[v]
    BY <2>1 DEF Inv, Shapes
  <2>3. /\ \A v \in Workers \ {w} : reg'[v] = reg[v]
        /\ DOMAIN reg' = Workers /\ DOMAIN pc' = Workers
    BY <2>1 DEF Inv, Shapes
  <2>4. reg'[w].q = reg[w].q /\ reg'[w].todo = reg[w].todo /\ DOMAIN reg'[w] = Fields
    BY <2>1 DEF Inv, Shapes, Fields
  <2>5. Quiet(w)
    BY <2>1, <2>2, <2>3, <2>4 DEF Quiet, Consuming, Inv, Shapes
  <2> QED BY <2>5, QuietKeeps
<1>3. CASE Publish(w)
  BY <1>3, QuietKeeps DEF Publish, Goto, Quiet, Consuming, Inv, Shapes, queue
<1> QED BY <1>1, <1>2, <1>3

\* The steps on the rings, and those of a worker that only looks, touch no bit.
LEMMA RingKeeps ==
  ASSUME Inv, NEW w \in Workers,
         \/ BufferFill(w) \/ BufferPublish(w) \/ BufferOverflow(w) \/ PushOverflow(w)
         \/ PopBuffer(w) \/ Scan(w) \/ Run(w)
         \/ StealHead(w) \/ StealTail(w) \/ StealCopy(w) \/ StealClaim(w) \/ StealPublish(w)
         \/ \E k \in 1 .. MaxList : ScheduleInside(w, k)
  PROVE  Inv'
<1> USE DEF Goto, Result, NoReg, Quiet, Consuming, Inv, Shapes, Fields, Queues, queue
<1>1. CASE BufferFill(w)
  BY <1>1, QuietKeeps DEF BufferFill
<1>2. CASE BufferPublish(w)
  BY <1>2, QuietKeeps DEF BufferPublish
<1>3. CASE BufferOverflow(w)
  BY <1>3, QuietKeeps DEF BufferOverflow
<1>4. CASE PushOverflow(w)
  BY <1>4, QuietKeeps DEF PushOverflow
<1>5. CASE PopBuffer(w)
  BY <1>5, QuietKeeps DEF PopBuffer
<1>6. CASE Scan(w)
  <2>1. CASE reg[w].todo = {}
    BY <1>6, <2>1, QuietKeeps DEF Scan
  <2>2. CASE reg[w].todo # {}
    <3>1. PICK v \in reg[w].todo :
            /\ reg' = [reg EXCEPT ![w].victim = v, ![w].q = v, ![w].todo = @ \ {v}]
            /\ pc' = [pc EXCEPT ![w] = "acquire"]
      BY <1>6, <2>2 DEF Scan
    <3>2. /\ reg'[w].q = v /\ reg'[w].todo = reg[w].todo \ {v}
          /\ DOMAIN reg'[w] = Fields /\ DOMAIN reg' = Workers
          /\ \A u \in Workers \ {w} : reg'[u] = reg[u]
      BY <3>1
    <3>3. Quiet(w)
      BY <1>6, <3>1, <3>2 DEF Scan
    <3> QED BY <3>3, QuietKeeps
  <2> QED BY <2>1, <2>2
<1>7. CASE Run(w)
  BY <1>7, QuietKeeps DEF Run
<1>8. CASE StealHead(w)
  BY <1>8, QuietKeeps DEF StealHead
<1>9. CASE StealTail(w)
  BY <1>9, QuietKeeps DEF StealTail
<1>10. CASE StealCopy(w)
  BY <1>10, QuietKeeps DEF StealCopy
<1>11. CASE StealClaim(w)
  BY <1>11, QuietKeeps DEF StealClaim
<1>12. CASE StealPublish(w)
  BY <1>12, QuietKeeps DEF StealPublish
<1>13. CASE \E k \in 1 .. MaxList : ScheduleInside(w, k)
  <2>1. PICK k \in 1 .. MaxList : ScheduleInside(w, k)
    BY <1>13
  <2>2. /\ DOMAIN reg' = Workers /\ \A v \in Workers \ {w} : reg'[v] = reg[v]
        /\ reg'[w] = [reg[w] EXCEPT !.first = fresh, !.last = fresh + k - 1, !.from = head[w]]
    BY <2>1 DEF ScheduleInside
  <2>3. reg'[w].q = reg[w].q /\ reg'[w].todo = reg[w].todo /\ DOMAIN reg'[w] = Fields
    BY <2>2
  <2>4. Quiet(w)
    BY <2>1, <2>2, <2>3 DEF ScheduleInside
  <2> QED BY <2>4, QuietKeeps
<1> QED
  BY <1>1, <1>2, <1>3, <1>4, <1>5, <1>6, <1>7, <1>8, <1>9, <1>10, <1>11, <1>12, <1>13

\* A push from outside touches no bit and no worker.
LEMMA ScheduleKeeps == ASSUME Inv, NEW k \in 1 .. MaxList, Schedule(k) PROVE Inv'
BY DEF Schedule, Inv, Shapes, OneConsumer, Consuming

\* Every step keeps the invariant.
LEMMA Steps == Inv /\ [Next]_vars => Inv'
<1> SUFFICES ASSUME Inv, [Next]_vars PROVE Inv'
  OBVIOUS
<1>1. ASSUME NEW k \in 1 .. MaxList, Schedule(k) PROVE Inv'
  BY <1>1, ScheduleKeeps
<1>2. ASSUME NEW w \in Workers, NEW k \in 1 .. MaxList, ScheduleInside(w, k) PROVE Inv'
  BY <1>2, RingKeeps
<1>3. ASSUME NEW w \in Workers, WorkerStep(w) PROVE Inv'
  BY <1>3, AcquireKeeps, ReleaseKeeps, ConsumerKeeps, RingKeeps DEF WorkerStep
<1>4. CASE UNCHANGED vars
  BY <1>4 DEF vars, Inv, Shapes, OneConsumer, Consuming, queue
<1> QED BY <1>1, <1>2, <1>3, <1>4 DEF Next

\* IS_CONSUMING is a lock: no two workers hold the chain and the cache of one queue, and the
\* bit is set exactly while one does.
THEOREM SingleConsumer == Spec => []OneConsumer
<1>1. Inv => OneConsumer
  BY DEF Inv
<1> QED BY <1>1, Initially, Steps, PTL DEF Spec
-----------------------------------------------------------------------------
(* Where every node is.                                                      *)

\* Indices counted from Start: they only grow, and wrap at IndexSize.
Pos(i) == Minus(i, Start)
HeadAt(w) == Pos(head[w])
TailAt(w) == Pos(tail[w])
Cell(j) == Slot(Start + j)
At(w, j) == array[w][Cell(j)]

\* Nodes a worker has stored in its ring and not published.
Storing == {"take", "extra", "publish", "fill_publish", "steal_publish"}
Ahead(w) == IF pc[w] \in Storing THEN reg[w].pushed ELSE 0
EndAt(w) == TailAt(w) + Ahead(w)
Occupied(w) == HeadAt(w) .. EndAt(w) - 1

Chaining(w) == Consuming(w) \/ pc[w] = "overflow"

Hand(w) == {reg[w].node} \ {Null}
Ring(w) == {At(w, j) : j \in Occupied(w)}
Chain(w) ==
  IF Chaining(w) THEN Hanging(reg[w].first)
  ELSE IF pc[w] = "fill" THEN reg[w].first .. reg[w].last
  ELSE IF pc[w] = "fill_publish" THEN reg[w].first + reg[w].pushed .. reg[w].last
  ELSE {}
Stacked(q) == Hanging(stack[q])
Cached(q) == IF "IS_CONSUMING" \in flags[q] THEN {} ELSE Hanging(cache[q])
New == fresh .. NodeCount
Done == {n \in Nodes : runs[n] # 0}

Spots == ({"hand", "ring", "chain"} \X Workers) \cup ({"stack", "cache"} \X Queues)
         \cup ({"new", "done"} \X {Pool})
Where == [s \in Spots |->
  CASE s[1] = "hand" -> Hand(s[2]) [] s[1] = "ring" -> Ring(s[2]) [] s[1] = "chain" -> Chain(s[2])
    [] s[1] = "stack" -> Stacked(s[2]) [] s[1] = "cache" -> Cached(s[2])
    [] s[1] = "new" -> New [] s[1] = "done" -> Done]

\* Every node is in exactly one place.
Apart(f) == \A s, t \in DOMAIN f : s # t => f[s] \cap f[t] = {}
Whole(f) == \A n \in Nodes : \E s \in DOMAIN f : n \in f[s]
Placed == Apart(Where) /\ Whole(Where)

-----------------------------------------------------------------------------
(* What the shapes of the variables are.                                     *)

Labels == {"pop", "acquire", "scan", "take", "extra", "publish", "release", "steal_head", "steal_tail",
           "steal_copy", "steal_claim", "steal_publish", "run", "fill", "fill_publish", "overflow"}
Regs == [q : Queues, node : Nodes \cup {Null}, pushed : 0 .. Capacity, todo : SUBSET Workers,
         victim : Workers \cup {Null}, from : Index, to : {0}, first : Nodes \cup {Null},
         last : Nodes \cup {Null}]

Types ==
  /\ next \in [Nodes -> Nodes \cup {Null}]
  /\ stack \in [Queues -> Nodes \cup {Null}] /\ cache \in [Queues -> Nodes \cup {Null}]
  /\ flags \in [Queues -> SUBSET {"HAS_CACHE", "IS_CONSUMING"}]
  /\ array \in [Workers -> [0 .. Capacity - 1 -> Nodes \cup {Null}]]
  /\ head \in [Workers -> Index] /\ tail \in [Workers -> Index]
  /\ fresh \in 1 .. NodeCount + 1 /\ runs \in [Nodes -> {0, 1}]
  /\ pc \in [Workers -> Labels] /\ reg \in [Workers -> Regs]

\* A chain comes back to none of its nodes.
Proper(p) == \A n \in Hanging(p) : n \notin Hanging(next[n])

Chains ==
  /\ \A q \in Queues :
       /\ Proper(stack[q])
       /\ "IS_CONSUMING" \notin flags[q] =>
            Proper(cache[q]) /\ ("HAS_CACHE" \in flags[q] <=> cache[q] # Null)
  /\ \A w \in Workers : Chaining(w) => Proper(reg[w].first)
  /\ \A n \in New : next[n] = Null

\* The nodes that have left every queue.
Taken == {n \in Nodes : runs[n] # 0 \/ \E w \in Workers : reg[w].node = n}

Unstored(w) ==
  IF pc[w] = "fill" THEN reg[w].last - reg[w].first + 1
  ELSE IF pc[w] = "fill_publish" THEN reg[w].last - reg[w].first - reg[w].pushed + 1
  ELSE 0

RingOK(w) ==
  /\ HeadAt(w) <= TailAt(w) /\ EndAt(w) <= HeadAt(w) + Capacity
  /\ (IF pc[w] \in {"take", "extra"} THEN TailAt(w) ELSE EndAt(w)) + Unstored(w)
       <= Capacity * Cardinality(Taken) + fresh - 1
  /\ \A i, j \in Occupied(w) : At(w, i) \in Nodes /\ (At(w, i) = At(w, j) => i = j)

Stealing == {"steal_head", "steal_tail", "steal_copy", "steal_claim"}
Searching == {"acquire", "scan", "take", "extra", "publish", "steal_publish"} \cup Stealing
EmptyHanded == {"pop", "acquire", "scan", "take", "extra"} \cup Stealing
Handing == {"run", "fill", "fill_publish", "overflow", "steal_publish"}

HandOK(w) ==
  /\ pc[w] \in EmptyHanded => reg[w].node = Null
  /\ pc[w] \in Handing => reg[w].node # Null
  /\ pc[w] = "publish" /\ reg[w].node = Null => reg[w].pushed = 0
  /\ pc[w] \in Searching \/ (pc[w] = "release" /\ reg[w].node = Null) => head[w] = tail[w]

ThiefOK(w) ==
  LET v == reg[w].victim
      at == Pos(reg[w].from)
  IN /\ pc[w] \in Stealing => v \in Workers \ {w}
     /\ pc[w] \in Stealing \ {"steal_head"} => at <= HeadAt(v)
     /\ pc[w] \in {"steal_copy", "steal_claim"} => reg[w].pushed > 0 /\ at + reg[w].pushed <= TailAt(v)
     /\ pc[w] = "steal_claim" /\ head[v] = reg[w].from =>
          \A i \in 0 .. reg[w].pushed - 1 : At(w, TailAt(w) + i) = At(v, at + i)

BatchOK(w) ==
  LET r == reg[w]
  IN /\ pc[w] \in {"fill", "fill_publish"} =>
          /\ r.first \in Nodes /\ r.last \in Nodes /\ r.last < fresh
          /\ \A n \in Chain(w) : next[n] = IF n = r.last THEN Null ELSE n + 1
     /\ pc[w] = "fill" => r.first <= r.last /\ Pos(r.from) <= HeadAt(w)
           /\ TailAt(w) <= Pos(r.from) + Capacity
     /\ pc[w] = "fill_publish" => r.pushed > 0 /\ r.first + r.pushed <= r.last + 1
     /\ pc[w] = "overflow" => r.last \in Hanging(r.first) /\ next[r.last] = Null

Locally == \A w \in Workers : RingOK(w) /\ HandOK(w) /\ ThiefOK(w) /\ BatchOK(w)
Sound == Types /\ Chains /\ Locally /\ Placed

\* No index comes round within the behaviour: NodeCount tasks move it by less than a whole turn.
NoLap == Capacity * (NodeCount + 1) + NodeCount < IndexSize
-----------------------------------------------------------------------------
(* Arithmetic of the indices.                                                *)

\* An index has one quotient and one remainder.
LEMMA Remainder ==
  ASSUME NEW c \in Nat \ {0}, NEW k \in Int, NEW r \in 0 .. c - 1
  PROVE  (c * k + r) % c = r
<1> DEFINE a == c * k + r
           m == a \div c
           s == a % c
<1>1. a \in Int /\ m \in Int /\ s \in 0 .. c - 1 /\ a = c * m + s
  OBVIOUS
<1> HIDE DEF m, s
<1>2. c * (k - m) = s - r
  BY <1>1
<1>3. CASE k = m
  BY <1>1, <1>3
<1>4. CASE k > m
  <2>1. c * (k - m) >= c
    BY <1>1, <1>4
  <2> QED BY <1>1, <1>2, <2>1
<1>5. CASE k < m
  <2>1. c * (k - m) <= -c
    BY <1>1, <1>5
  <2> QED BY <1>1, <1>2, <2>1
<1> QED BY <1>1, <1>3, <1>4, <1>5 DEF s

\* Every integer has a quotient and a remainder.
LEMMA Quotient ==
  ASSUME NEW a \in Int, NEW c \in Nat \ {0}
  PROVE  a % c \in 0 .. c - 1 /\ \E k \in Int : a = c * k + (a % c)
<1>1. a \div c \in Int /\ a = c * (a \div c) + (a % c) /\ a % c \in 0 .. c - 1
  OBVIOUS
<1> QED BY <1>1

\* A whole turn of the indices is a number of turns of the ring.
LEMMA Turn ==
  ASSUME NEW a \in Int
  PROVE  Slot(a + IndexSize) = Slot(a) /\ Slot(a) \in 0 .. Capacity - 1
<1>1. Capacity \in Nat \ {0} /\ IndexSize \in Nat /\ IndexSize % Capacity = 0
  BY RunQueuesAssumption
<1>2. PICK m \in Int : IndexSize = Capacity * m
  <2>1. IndexSize \in Int /\ IndexSize % Capacity = 0
    BY <1>1
  <2>2. \E m \in Int : IndexSize = Capacity * m + (IndexSize % Capacity)
    BY <1>1, <2>1, Quotient, Zenon
  <2>3. PICK m \in Int : IndexSize = Capacity * m + 0
    BY <2>1, <2>2
  <2>4. IndexSize = Capacity * m
    BY <1>1, <2>3
  <2> QED BY <2>4
<1>3. PICK k \in Int : a = Capacity * k + (a % Capacity)
  BY <1>1, Quotient
<1>4. (a % Capacity) \in 0 .. Capacity - 1
  BY <1>1
<1>5. a + IndexSize = Capacity * (k + m) + (a % Capacity)
  <2> DEFINE s == a % Capacity
  <2>1. a = Capacity * k + s /\ s \in Int
    BY <1>1, <1>3, <1>4
  <2> HIDE DEF s
  <2>2. a + IndexSize = Capacity * (k + m) + s
    BY <1>1, <1>2, <2>1
  <2> QED BY <2>2 DEF s
<1>6. (a + IndexSize) % Capacity = a % Capacity
  <2>1. k + m \in Int
    OBVIOUS
  <2>2. (Capacity * (k + m) + (a % Capacity)) % Capacity = a % Capacity
    BY <1>1, <1>4, <2>1, Remainder
  <2> QED BY <1>5, <2>2
<1> QED BY <1>4, <1>6 DEF Slot

\* The remainder of an index that left its range by less than a turn.
LEMMA OneTurn ==
  ASSUME NEW a \in Int, -IndexSize <= a, a < 2 * IndexSize
  PROVE  a % IndexSize = IF a < 0 THEN a + IndexSize ELSE IF a < IndexSize THEN a ELSE a - IndexSize
<1>1. IndexSize \in Nat \ {0}
  BY RunQueuesAssumption
<1>2. CASE a < 0
  <2>1. (IndexSize * (-1) + (a + IndexSize)) % IndexSize = a + IndexSize
    BY <1>1, <1>2, Remainder
  <2> QED BY <1>1, <1>2, <2>1
<1>3. CASE a >= 0 /\ a < IndexSize
  <2>1. (IndexSize * 0 + a) % IndexSize = a
    BY <1>1, <1>3, Remainder
  <2> QED BY <1>1, <1>3, <2>1
<1>4. CASE a >= IndexSize
  <2>1. (IndexSize * 1 + (a - IndexSize)) % IndexSize = a - IndexSize
    BY <1>1, <1>4, Remainder
  <2> QED BY <1>1, <1>4, <2>1
<1> QED BY <1>1, <1>2, <1>3, <1>4

\* The position of an index, and what Plus and Minus do to it.
LEMMA Position ==
  ASSUME NEW i \in Index
  PROVE  Pos(i) \in Index /\ Pos(i) = IF i >= Start THEN i - Start ELSE i - Start + IndexSize
<1>1. IndexSize \in Nat \ {0} /\ Start \in Index /\ i \in Int /\ Start \in Int
  BY RunQueuesAssumption DEF Index
<1>2. i - Start + IndexSize \in Int /\ i - Start + IndexSize >= 0
      /\ i - Start + IndexSize < 2 * IndexSize
  BY <1>1 DEF Index
<1>3. (i - Start + IndexSize) % IndexSize
        = IF i >= Start THEN i - Start ELSE i - Start + IndexSize
  BY <1>1, <1>2, OneTurn
<1> QED BY <1>1, <1>3 DEF Pos, Minus, Index

\* A position belongs to one index.
LEMMA SamePosition ==
  ASSUME NEW i \in Index, NEW j \in Index, Pos(i) = Pos(j)
  PROVE  i = j
BY Position, RunQueuesAssumption DEF Index

\* Positions are counted from Start.
LEMMA StartPosition == Pos(Start) = 0
BY Position, RunQueuesAssumption DEF Index

\* Plus moves the position on, as long as it does not come round.
LEMMA Advance ==
  ASSUME NEW i \in Index, NEW n \in Nat, Pos(i) + n < IndexSize
  PROVE  Plus(i, n) \in Index /\ Pos(Plus(i, n)) = Pos(i) + n
<1>1. IndexSize \in Nat \ {0} /\ Start \in Index
  BY RunQueuesAssumption
<1>2. Pos(i) = IF i >= Start THEN i - Start ELSE i - Start + IndexSize
  BY Position
<1>3. i + n \in Int /\ i + n >= 0 /\ i + n < 2 * IndexSize
  BY <1>1, <1>2 DEF Index
<1>4. Plus(i, n) = IF i + n < IndexSize THEN i + n ELSE i + n - IndexSize
  <2>1. (i + n) % IndexSize = IF i + n < 0 THEN i + n + IndexSize
                              ELSE IF i + n < IndexSize THEN i + n ELSE i + n - IndexSize
    <3> DEFINE a == i + n
    <3>1. a \in Int /\ a >= 0 /\ -IndexSize <= a /\ a < 2 * IndexSize
      BY <1>1, <1>3
    <3> HIDE DEF a
    <3>2. a % IndexSize = IF a < 0 THEN a + IndexSize ELSE IF a < IndexSize THEN a ELSE a - IndexSize
      BY <3>1, OneTurn
    <3> QED BY <1>1, <1>3, <3>2 DEF a, Index
  <2> QED BY <1>1, <1>3, <2>1 DEF Plus
<1>5. Plus(i, n) \in Index
  BY <1>1, <1>3, <1>4 DEF Index
<1>6. Pos(Plus(i, n)) = IF Plus(i, n) >= Start THEN Plus(i, n) - Start
                        ELSE Plus(i, n) - Start + IndexSize
  BY <1>5, Position
<1> QED BY <1>1, <1>2, <1>4, <1>5, <1>6 DEF Index

\* wrapping_sub is the distance of two positions, whichever index has wrapped.
LEMMA Distance ==
  ASSUME NEW i \in Index, NEW j \in Index, Pos(j) <= Pos(i)
  PROVE  Minus(i, j) = Pos(i) - Pos(j)
<1>1. IndexSize \in Nat \ {0} /\ Start \in Index
  BY RunQueuesAssumption
<1>2. i - j + IndexSize \in Int /\ i - j + IndexSize >= 0 /\ i - j + IndexSize < 2 * IndexSize
  BY <1>1 DEF Index
<1>3. Minus(i, j) = IF i >= j THEN i - j ELSE i - j + IndexSize
  BY <1>1, <1>2, OneTurn DEF Minus, Index
<1> QED BY <1>1, <1>3, Position DEF Index

\* The cell of an index is the cell of its position.
LEMMA CellOf ==
  ASSUME NEW i \in Index, NEW d \in Int
  PROVE  Slot(i + d) = Cell(Pos(i) + d)
<1>1. IndexSize \in Nat \ {0} /\ Start \in Index /\ i \in Int /\ Start \in Int /\ Pos(i) \in Int
  BY RunQueuesAssumption, Position DEF Index
<1>2. CASE i >= Start
  BY <1>1, <1>2, Position DEF Cell
<1>3. CASE i < Start
  <2>1. Start + (Pos(i) + d) = (i + d) + IndexSize
    BY <1>1, <1>3, Position
  <2>2. Slot((i + d) + IndexSize) = Slot(i + d)
    BY <1>1, Turn
  <2> QED BY <2>1, <2>2 DEF Cell
<1> QED BY <1>1, <1>2, <1>3

\* A cell is a remainder of the ring.
LEMMA CellAt ==
  ASSUME NEW j \in Int
  PROVE  Cell(j) \in 0 .. Capacity - 1 /\ \E k \in Int : Start + j = Capacity * k + Cell(j)
<1>1. Capacity \in Nat \ {0} /\ Start + j \in Int
  BY RunQueuesAssumption DEF Index
<1>2. /\ (Start + j) % Capacity \in 0 .. Capacity - 1
      /\ \E k \in Int : Start + j = Capacity * k + ((Start + j) % Capacity)
  BY <1>1, Quotient
<1> QED BY <1>2 DEF Cell, Slot

\* Stored writes the cells from a position on, and no other.
LEMMA StoredAt ==
  ASSUME NEW w \in Workers, NEW i \in Int, NEW p \in Int, Slot(i) = Cell(p), NEW f,
         NEW k \in 0 .. Capacity
  PROVE  /\ \A d \in 0 .. k - 1 : Stored(w, i, f, k)[Cell(p + d)] = f[d]
         /\ \A d \in k .. Capacity - 1 : Stored(w, i, f, k)[Cell(p + d)] = array[w][Cell(p + d)]
<1>1. Capacity \in Nat \ {0} /\ Start \in Int
  BY RunQueuesAssumption DEF Index
<1> DEFINE g == Stored(w, i, f, k)
           D(s) == (s - Slot(i) + Capacity) % Capacity
<1>2. \A s \in 0 .. Capacity - 1 : g[s] = IF D(s) < k THEN f[D(s)] ELSE array[w][s]
  BY DEF Stored
<1> HIDE DEF g
<1>3. ASSUME NEW d \in 0 .. Capacity - 1 PROVE Cell(p + d) \in 0 .. Capacity - 1 /\ D(Cell(p + d)) = d
  <2>1. PICK m \in Int : Start + p = Capacity * m + Cell(p)
    BY CellAt
  <2>2. PICK n \in Int : Start + (p + d) = Capacity * n + Cell(p + d)
    BY CellAt
  <2>3. Cell(p) \in 0 .. Capacity - 1 /\ Cell(p + d) \in 0 .. Capacity - 1
    BY CellAt
  <2>4. Cell(p + d) - Slot(i) + Capacity = Capacity * (m - n + 1) + d
    <3> DEFINE x == Cell(p)
               y == Cell(p + d)
    <3>1. Slot(i) = x /\ x \in Int /\ y \in Int /\ Start + p = Capacity * m + x
          /\ Start + (p + d) = Capacity * n + y
      BY <2>1, <2>2, <2>3
    <3> HIDE DEF x, y
    <3>2. y - x = Capacity * (m - n) + d
      BY <1>1, <3>1
    <3>3. y - x + Capacity = Capacity * (m - n + 1) + d
      BY <1>1, <3>1, <3>2
    <3> QED BY <3>1, <3>3 DEF x, y
  <2>5. (Capacity * (m - n + 1) + d) % Capacity = d
    BY <1>1, Remainder
  <2> QED BY <2>3, <2>4, <2>5
<1>4. \A d \in 0 .. Capacity - 1 :
        g[Cell(p + d)] = IF d < k THEN f[d] ELSE array[w][Cell(p + d)]
  BY <1>2, <1>3
<1> QED BY <1>1, <1>4 DEF g
-----------------------------------------------------------------------------
(* What hangs on a pointer.                                                  *)

Links == [Nodes -> Nodes \cup {Null}]
ProperIn(links, p) == \A n \in Reach(links, p) : n \notin Reach(links, links[n])

\* Null marks the end of a chain and is no node.
LEMMA NullIsNoNode == Null \notin Nodes
BY DEF Null, Nodes

\* A chain lies in every closed set that holds its first node.
LEMMA ReachLeast ==
  ASSUME NEW links, NEW p, NEW S \in SUBSET Nodes, {p} \ {Null} \subseteq S, Closed(links, S)
  PROVE  Reach(links, p) \subseteq S
BY DEF Reach

\* A chain is a closed set of nodes that holds its first node.
LEMMA ReachClosed ==
  ASSUME NEW links \in Links, NEW p \in Nodes \cup {Null}
  PROVE  /\ Reach(links, p) \subseteq Nodes
         /\ {p} \ {Null} \subseteq Reach(links, p)
         /\ Closed(links, Reach(links, p))
         /\ p = Null => Reach(links, p) = {}
<1>1. Reach(links, p) \subseteq Nodes /\ {p} \ {Null} \subseteq Reach(links, p)
  BY DEF Reach
<1>2. ASSUME NEW n \in Reach(links, p), links[n] # Null
      PROVE  links[n] \in Reach(links, p)
  <2>1. n \in Nodes /\ links[n] \in Nodes
    BY <1>1, <1>2 DEF Links
  <2>2. ASSUME NEW S \in SUBSET Nodes, {p} \ {Null} \subseteq S, Closed(links, S)
        PROVE  links[n] \in S
    <3>1. n \in S
      BY <1>2, <2>2 DEF Reach
    <3> QED BY <1>2, <2>2, <3>1 DEF Closed
  <2> QED BY <2>1, <2>2 DEF Reach
<1>3. Closed(links, Reach(links, p))
  BY <1>2 DEF Closed
<1>4. p = Null => Reach(links, p) = {}
  <2>1. {} \in SUBSET Nodes /\ Closed(links, {})
    BY DEF Closed
  <2> QED BY <2>1 DEF Reach
<1> QED BY <1>1, <1>3, <1>4

\* A chain is its first node and the chain after it.
LEMMA ReachNext ==
  ASSUME NEW links \in Links, NEW p \in Nodes
  PROVE  Reach(links, p) = {p} \cup Reach(links, links[p])
<1>1. links[p] \in Nodes \cup {Null}
  BY DEF Links
<1> DEFINE S == {p} \cup Reach(links, links[p])
<1>2. S \in SUBSET Nodes /\ {p} \ {Null} \subseteq S
  BY <1>1, ReachClosed
<1>3. Closed(links, S)
  BY <1>1, ReachClosed DEF Closed
<1>4. Reach(links, p) \subseteq S
  BY <1>2, <1>3, ReachLeast
<1>5. p \in Reach(links, p) /\ Closed(links, Reach(links, p)) /\ Reach(links, p) \in SUBSET Nodes
  BY ReachClosed, NullIsNoNode
<1>6. {links[p]} \ {Null} \subseteq Reach(links, p)
  BY <1>5 DEF Closed
<1>7. Reach(links, links[p]) \subseteq Reach(links, p)
  BY <1>5, <1>6, ReachLeast
<1> QED BY <1>4, <1>5, <1>7

\* The chain from a node of a chain lies in that chain.
LEMMA ReachSub ==
  ASSUME NEW links \in Links, NEW p \in Nodes \cup {Null}, NEW n \in Reach(links, p)
  PROVE  /\ Reach(links, n) \subseteq Reach(links, p)
         /\ Reach(links, links[n]) \subseteq Reach(links, p)
         /\ n \in Nodes /\ links[n] \in Nodes \cup {Null}
<1>1. Reach(links, p) \in SUBSET Nodes /\ Closed(links, Reach(links, p)) /\ n \in Nodes
  BY ReachClosed
<1>2. {n} \ {Null} \subseteq Reach(links, p) /\ {links[n]} \ {Null} \subseteq Reach(links, p)
  BY <1>1 DEF Closed
<1>3. Reach(links, n) \subseteq Reach(links, p) /\ Reach(links, links[n]) \subseteq Reach(links, p)
  BY <1>1, <1>2, ReachLeast
<1> QED BY <1>1, <1>3 DEF Links

\* Links elsewhere do not matter.
LEMMA ReachFrame ==
  ASSUME NEW a \in Links, NEW b \in Links, NEW p \in Nodes \cup {Null},
         \A n \in Reach(a, p) : b[n] = a[n]
  PROVE  Reach(b, p) = Reach(a, p)
<1>1. /\ Reach(a, p) \in SUBSET Nodes /\ Reach(b, p) \in SUBSET Nodes
      /\ {p} \ {Null} \subseteq Reach(a, p) /\ {p} \ {Null} \subseteq Reach(b, p)
      /\ Closed(a, Reach(a, p)) /\ Closed(b, Reach(b, p))
  BY ReachClosed
<1>2. Closed(b, Reach(a, p))
  BY <1>1 DEF Closed
<1>3. Reach(b, p) \subseteq Reach(a, p)
  BY <1>1, <1>2, ReachLeast
<1>4. Closed(a, Reach(b, p))
  BY <1>1, <1>3 DEF Closed
<1>5. Reach(a, p) \subseteq Reach(b, p)
  BY <1>1, <1>4, ReachLeast
<1> QED BY <1>3, <1>5

\* Links elsewhere do not make a chain come back to its nodes.
LEMMA ProperFrame ==
  ASSUME NEW a \in Links, NEW b \in Links, NEW p \in Nodes \cup {Null},
         \A n \in Reach(a, p) : b[n] = a[n], ProperIn(a, p)
  PROVE  ProperIn(b, p)
<1>1. Reach(b, p) = Reach(a, p)
  BY ReachFrame
<1>2. ASSUME NEW n \in Reach(a, p) PROVE n \notin Reach(b, b[n])
  <2>1. Reach(a, a[n]) \subseteq Reach(a, p) /\ a[n] \in Nodes \cup {Null}
    BY ReachSub
  <2>2. \A m \in Reach(a, a[n]) : b[m] = a[m]
    BY <2>1
  <2>3. Reach(b, a[n]) = Reach(a, a[n])
    BY <2>1, <2>2, ReachFrame
  <2> QED BY <2>3 DEF ProperIn
<1> QED BY <1>1, <1>2 DEF ProperIn

\* The empty chain comes back to nothing.
LEMMA ProperNull == ASSUME NEW links \in Links PROVE ProperIn(links, Null)
BY ReachClosed DEF ProperIn

\* Taking the first node off a chain.
LEMMA ProperNext ==
  ASSUME NEW links \in Links, NEW p \in Nodes, ProperIn(links, p)
  PROVE  /\ links[p] \in Nodes \cup {Null} /\ ProperIn(links, links[p])
         /\ Reach(links, links[p]) = Reach(links, p) \ {p} /\ p \in Reach(links, p)
BY ReachNext DEF ProperIn, Links

\* Putting one chain before another.
LEMMA Joined ==
  ASSUME NEW a \in Links, NEW first \in Nodes, NEW last \in Reach(a, first), a[last] = Null,
         NEW top \in Nodes \cup {Null}, Reach(a, first) \cap Reach(a, top) = {},
         ProperIn(a, first), ProperIn(a, top), NEW b \in Links,
         b[last] = top, \A n \in Nodes \ {last} : b[n] = a[n]
  PROVE  Reach(b, first) = Reach(a, first) \cup Reach(a, top) /\ ProperIn(b, first)
<1> DEFINE F == Reach(a, first)
           T == Reach(a, top)
<1>1. /\ F \in SUBSET Nodes /\ T \in SUBSET Nodes /\ first \in F /\ last \in Nodes
      /\ {top} \ {Null} \subseteq T /\ Closed(a, F) /\ Closed(a, T)
  BY ReachClosed, NullIsNoNode
<1>2. b[last] = top /\ \A n \in Nodes \ {last} : b[n] = a[n]
  OBVIOUS
<1>3. \A n \in T : b[n] = a[n]
  BY <1>1, <1>2
<1>4. Reach(b, top) = T
  BY <1>3, ReachFrame
<1>5. ASSUME NEW x \in F PROVE Reach(b, x) \subseteq Reach(a, x) \cup T
  <2>1. x \in Nodes /\ Reach(a, x) \in SUBSET Nodes /\ Closed(a, Reach(a, x)) /\ x \in Reach(a, x)
    BY <1>1, ReachClosed, NullIsNoNode
  <2>2. Closed(b, Reach(a, x) \cup T)
    BY <1>1, <1>2, <1>3, <2>1 DEF Closed
  <2> QED BY <1>1, <2>1, <2>2, ReachLeast
<1>6. F \subseteq Reach(b, first)
  <2>1. /\ Reach(b, first) \in SUBSET Nodes /\ first \in Reach(b, first)
        /\ Closed(b, Reach(b, first))
    BY ReachClosed, NullIsNoNode
  <2>2. Closed(a, Reach(b, first) \cap F)
    BY <1>1, <1>2, <2>1 DEF Closed
  <2>3. F \subseteq Reach(b, first) \cap F
    BY <1>1, <2>1, <2>2, ReachLeast
  <2> QED BY <2>3
<1>7. T \subseteq Reach(b, first)
  <2>1. Reach(b, b[last]) \subseteq Reach(b, first)
    BY <1>6, ReachSub
  <2> QED BY <1>2, <1>4, <2>1
<1>8. ASSUME NEW n \in F \cup T PROVE n \notin Reach(b, b[n])
  <2>1. CASE n = last
    BY <1>2, <1>4, <2>1
  <2>2. CASE n \in F \ {last}
    <3>1. a[n] \in Nodes \cup {Null} /\ n \notin Reach(a, a[n]) /\ n \notin T
      BY <1>1, <2>2 DEF ProperIn, Links
    <3>2. CASE a[n] = Null
      BY <1>1, <1>2, <2>2, <3>2, ReachClosed
    <3>3. CASE a[n] # Null
      BY <1>1, <1>2, <1>5, <2>2, <3>1, <3>3 DEF Closed
    <3> QED BY <3>2, <3>3
  <2>3. CASE n \in T
    <3>1. ProperIn(b, top)
      BY <1>3, ProperFrame
    <3> QED BY <2>3, <1>4, <3>1 DEF ProperIn
  <2> QED BY <2>1, <2>2, <2>3
<1>9. Reach(b, first) = F \cup T
  BY <1>1, <1>5, <1>6, <1>7
<1> QED BY <1>8, <1>9 DEF ProperIn

-----------------------------------------------------------------------------
Below == {s \in Nat \X Nat : s[1] < s[2]}

\* Every set of naturals has a least member.
LEMMA LeastOf ==
  ASSUME NEW S \in SUBSET Nat, S # {}
  PROVE  \E m \in S : \A n \in S : m <= n
<1>1. IsWellFoundedOn(Below, Nat)
  BY NatLessThanWellFounded DEF OpToRel, Below
<1>2. PICK m \in S : \A n \in S : <<n, m>> \notin Below
  BY <1>1, WFMin
<1>3. \A n \in S : ~(n < m)
  BY <1>2 DEF Below
<1> QED BY <1>3

\* c lists k different nodes, each linked to the next one.
Listed(links, k, c) ==
  /\ c \in [1 .. k -> Nodes] /\ \A i, j \in 1 .. k : c[i] = c[j] => i = j
  /\ \A i \in 1 .. k - 1 : links[c[i]] = c[i + 1]
  /\ links[c[k]] = Null

\* Nodes linked one after the other are a chain of exactly these.
LEMMA ListIsChain ==
  ASSUME NEW links \in Links, NEW k \in Nat \ {0}, NEW c, Listed(links, k, c)
  PROVE  Reach(links, c[1]) = {c[i] : i \in 1 .. k} /\ ProperIn(links, c[1])
<1> SUFFICES ASSUME c \in [1 .. k -> Nodes], \A i, j \in 1 .. k : c[i] = c[j] => i = j,
                    \A i \in 1 .. k - 1 : links[c[i]] = c[i + 1], links[c[k]] = Null
             PROVE  Reach(links, c[1]) = {c[i] : i \in 1 .. k} /\ ProperIn(links, c[1])
  BY DEF Listed
<1> DEFINE From(i) == {c[j] : j \in i .. k}
<1>1. ASSUME NEW i \in 1 .. k PROVE Reach(links, c[i]) \subseteq From(i)
  <2>1. From(i) \in SUBSET Nodes /\ c[i] \in From(i)
    OBVIOUS
  <2>2. ASSUME NEW j \in i .. k PROVE links[c[j]] \in From(i) \cup {Null}
    <3>1. CASE j = k
      BY <3>1
    <3>2. CASE j < k
      <4>1. j \in 1 .. k - 1 /\ j + 1 \in i .. k
        BY ONLY <3>2, i \in 1 .. k, j \in i .. k, k \in Nat \ {0}
      <4>2. links[c[j]] = c[j + 1]
        BY <4>1
      <4>3. c[j + 1] \in From(i)
        BY ONLY <4>1
      <4> QED BY ONLY <4>2, <4>3
    <3>3. j = k \/ j < k
      BY ONLY i \in 1 .. k, j \in i .. k, k \in Nat \ {0}
    <3> QED BY ONLY <3>1, <3>2, <3>3
  <2>3. Closed(links, From(i))
    BY <2>2 DEF Closed
  <2> QED BY <2>1, <2>3, ReachLeast
<1>2. ASSUME NEW i \in 1 .. k PROVE c[i] \in Reach(links, c[1])
  <2> DEFINE S == {j \in 1 .. k : c[j] \notin Reach(links, c[1])}
  <2> SUFFICES ASSUME S # {} PROVE FALSE
    OBVIOUS
  <2>1. PICK m \in S : \A j \in S : m <= j
    <3>1. S \in SUBSET Nat
      OBVIOUS
    <3> QED BY <3>1, LeastOf
  <2>2. c[1] \in Reach(links, c[1]) /\ Closed(links, Reach(links, c[1]))
    BY ReachClosed, NullIsNoNode
  <2>3. m # 1 /\ m - 1 \in 1 .. k - 1 /\ m - 1 \notin S
    BY <2>1, <2>2
  <2>4. c[m - 1] \in Reach(links, c[1]) /\ links[c[m - 1]] = c[m]
    BY <2>3
  <2>5. c[m] \in Nodes /\ c[m] # Null
    BY NullIsNoNode
  <2> QED BY <2>1, <2>2, <2>4, <2>5 DEF Closed
<1>3. Reach(links, c[1]) = From(1)
  BY <1>1, <1>2
<1>4. ASSUME NEW i \in 1 .. k PROVE c[i] \notin Reach(links, links[c[i]])
  <2>1. CASE i = k
    BY <2>1, ReachClosed
  <2>2. CASE i < k
    BY <1>1, <2>2
  <2> QED BY <2>1, <2>2
<1> QED BY <1>3, <1>4 DEF ProperIn
-----------------------------------------------------------------------------
(* Every node is in exactly one place: what a move must show.                *)

\* The places, one by one, before a step.
LEMMA WhereIs ==
  /\ DOMAIN Where = Spots
  /\ \A w \in Workers : /\ <<"hand", w>> \in Spots /\ Where[<<"hand", w>>] = Hand(w)
                        /\ <<"ring", w>> \in Spots /\ Where[<<"ring", w>>] = Ring(w)
                        /\ <<"chain", w>> \in Spots /\ Where[<<"chain", w>>] = Chain(w)
  /\ \A q \in Queues : /\ <<"stack", q>> \in Spots /\ Where[<<"stack", q>>] = Stacked(q)
                       /\ <<"cache", q>> \in Spots /\ Where[<<"cache", q>>] = Cached(q)
  /\ <<"new", Pool>> \in Spots /\ Where[<<"new", Pool>>] = New
  /\ <<"done", Pool>> \in Spots /\ Where[<<"done", Pool>>] = Done
BY DEF Where, Spots

\* The places, one by one, after a step.
LEMMA WhereNext ==
  /\ DOMAIN Where' = Spots
  /\ \A w \in Workers : /\ <<"hand", w>> \in Spots /\ Where'[<<"hand", w>>] = Hand(w)'
                        /\ <<"ring", w>> \in Spots /\ Where'[<<"ring", w>>] = Ring(w)'
                        /\ <<"chain", w>> \in Spots /\ Where'[<<"chain", w>>] = Chain(w)'
  /\ \A q \in Queues : /\ <<"stack", q>> \in Spots /\ Where'[<<"stack", q>>] = Stacked(q)'
                       /\ <<"cache", q>> \in Spots /\ Where'[<<"cache", q>>] = Cached(q)'
  /\ <<"new", Pool>> \in Spots /\ Where'[<<"new", Pool>>] = New'
  /\ <<"done", Pool>> \in Spots /\ Where'[<<"done", Pool>>] = Done'
BY DEF Where, Spots

\* Every place belongs to a worker, a queue or the pool.
LEMMA SpotKinds ==
  ASSUME NEW s \in Spots
  PROVE  \/ \E w \in Workers : s \in {<<"hand", w>>, <<"ring", w>>, <<"chain", w>>}
         \/ \E q \in Queues : s \in {<<"stack", q>>, <<"cache", q>>}
         \/ s \in {<<"new", Pool>>, <<"done", Pool>>}
BY DEF Spots

\* The places of M exchange nodes, the others keep theirs.
Exchange(f, g, M) ==
  /\ \A s \in DOMAIN f \ M : g[s] = f[s]
  /\ \A s, t \in M : s # t => g[s] \cap g[t] = {}
  /\ \A s \in M : \A n \in g[s] : \E t \in M : n \in f[t]
  /\ \A s \in M : \A n \in f[s] : \E t \in M : n \in g[t]

\* An exchange leaves every node in one place.
LEMMA Exchanged ==
  ASSUME NEW f, NEW g, DOMAIN g = DOMAIN f, NEW M \in SUBSET DOMAIN f, Exchange(f, g, M),
         Apart(f), Whole(f)
  PROVE  Apart(g) /\ Whole(g)
<1>1. ASSUME NEW s \in DOMAIN f, NEW t \in DOMAIN f, s # t, NEW n \in g[s], n \in g[t] PROVE FALSE
  <2>1. CASE s \in M /\ t \in M
    BY <1>1, <2>1 DEF Exchange
  <2>2. CASE s \in M /\ t \notin M
    BY <1>1, <2>2 DEF Exchange, Apart
  <2>3. CASE s \notin M /\ t \in M
    BY <1>1, <2>3 DEF Exchange, Apart
  <2>4. CASE s \notin M /\ t \notin M
    BY <1>1, <2>4 DEF Exchange, Apart
  <2> QED BY <2>1, <2>2, <2>3, <2>4
<1>2. ASSUME NEW n \in Nodes PROVE \E s \in DOMAIN f : n \in g[s]
  <2>1. PICK s \in DOMAIN f : n \in f[s]
    BY DEF Whole
  <2> QED BY <2>1 DEF Exchange
<1> QED BY <1>1, <1>2 DEF Apart, Whole

\* A step that leaves every place but those of M as it was.
LEMMA OthersStay ==
  ASSUME NEW M \in SUBSET Spots,
         \A w \in Workers : /\ <<"hand", w>> \in M \/ Hand(w)' = Hand(w)
                            /\ <<"ring", w>> \in M \/ Ring(w)' = Ring(w)
                            /\ <<"chain", w>> \in M \/ Chain(w)' = Chain(w),
         \A q \in Queues : /\ <<"stack", q>> \in M \/ Stacked(q)' = Stacked(q)
                           /\ <<"cache", q>> \in M \/ Cached(q)' = Cached(q),
         <<"new", Pool>> \in M \/ New' = New,
         <<"done", Pool>> \in M \/ Done' = Done
  PROVE  \A s \in DOMAIN Where \ M : Where'[s] = Where[s]
<1> SUFFICES ASSUME NEW s \in Spots, s \notin M PROVE Where'[s] = Where[s]
  BY WhereIs
<1>1. ASSUME NEW w \in Workers, s \in {<<"hand", w>>, <<"ring", w>>, <<"chain", w>>}
      PROVE  Where'[s] = Where[s]
  BY <1>1, WhereIs, WhereNext
<1>2. ASSUME NEW q \in Queues, s \in {<<"stack", q>>, <<"cache", q>>} PROVE Where'[s] = Where[s]
  BY <1>2, WhereIs, WhereNext
<1>3. CASE s \in {<<"new", Pool>>, <<"done", Pool>>}
  BY <1>3, WhereIs, WhereNext
<1> QED BY <1>1, <1>2, <1>3, SpotKinds

\* A step that moves nothing leaves every node in one place.
LEMMA NothingMoves ==
  ASSUME Placed, \A s \in DOMAIN Where \ {} : Where'[s] = Where[s]
  PROVE  Placed'
<1>1. Exchange(Where, Where', {}) /\ DOMAIN Where' = DOMAIN Where
  BY WhereIs, WhereNext DEF Exchange
<1> QED BY <1>1, Exchanged DEF Placed

\* So does one that moves nodes between two places,
LEMMA TwoMove ==
  ASSUME Placed, NEW a \in Spots, NEW b \in Spots,
         \A s \in DOMAIN Where \ {a, b} : Where'[s] = Where[s],
         a # b, Where'[a] \cap Where'[b] = {},
         Where'[a] \cup Where'[b] = Where[a] \cup Where[b]
  PROVE  Placed'
<1>1. Exchange(Where, Where', {a, b}) /\ DOMAIN Where' = DOMAIN Where /\ {a, b} \in SUBSET DOMAIN Where
  BY WhereIs, WhereNext DEF Exchange
<1> QED BY <1>1, Exchanged DEF Placed

\* and between three.
LEMMA ThreeMove ==
  ASSUME Placed, NEW a \in Spots, NEW b \in Spots, NEW c \in Spots,
         \A s \in DOMAIN Where \ {a, b, c} : Where'[s] = Where[s],
         a # b, b # c, a # c, Where'[a] \cap Where'[b] = {}, Where'[b] \cap Where'[c] = {},
         Where'[a] \cap Where'[c] = {},
         Where'[a] \cup Where'[b] \cup Where'[c] = Where[a] \cup Where[b] \cup Where[c]
  PROVE  Placed'
<1>1. Exchange(Where, Where', {a, b, c}) /\ DOMAIN Where' = DOMAIN Where
      /\ {a, b, c} \in SUBSET DOMAIN Where
  BY WhereIs, WhereNext DEF Exchange
<1> QED BY <1>1, Exchanged DEF Placed
-----------------------------------------------------------------------------
(* What a step of one worker leaves alone.                                   *)

\* What the constants are.
LEMMA Constants ==
  /\ Capacity \in Nat /\ Capacity > 1 /\ NodeCount \in Nat \ {0} /\ IndexSize \in Nat \ {0}
  /\ Workers \subseteq Nat \ {0} /\ IsFiniteSet(Workers) /\ Pool \notin Workers /\ Pool \in Queues
  /\ Workers \subseteq Queues /\ Start \in Index /\ Null \notin Nodes /\ Null \notin Workers
  /\ Nodes = 1 .. NodeCount /\ Index = 0 .. IndexSize - 1 /\ Null = 0 /\ Nodes \subseteq Nat
BY RunQueuesAssumption DEF Pool, Queues, Null, Nodes, Index

\* The nodes that have left the queues are finitely many.
LEMMA TakenBound ==
  /\ Taken \subseteq Nodes /\ IsFiniteSet(Taken) /\ Cardinality(Taken) \in Nat
  /\ Cardinality(Taken) <= NodeCount
<1>1. IsFiniteSet(Nodes) /\ Cardinality(Nodes) = NodeCount
  BY Constants, FS_Interval
<1>2. Taken \in SUBSET Nodes
  BY DEF Taken
<1>3. IsFiniteSet(Taken) /\ Cardinality(Taken) <= Cardinality(Nodes)
  BY <1>1, <1>2, FS_Subset
<1> QED BY <1>1, <1>2, <1>3, FS_CardinalityType

\* The same after a step.
LEMMA TakenBoundNext ==
  /\ Taken' \subseteq Nodes /\ IsFiniteSet(Taken') /\ Cardinality(Taken') \in Nat
  /\ Cardinality(Taken') <= NodeCount
<1>1. IsFiniteSet(Nodes) /\ Cardinality(Nodes) = NodeCount
  BY Constants, FS_Interval
<1>2. Taken' \in SUBSET Nodes
  BY DEF Taken
<1>3. IsFiniteSet(Taken') /\ Cardinality(Taken') <= Cardinality(Nodes)
  BY <1>1, <1>2, FS_Subset
<1> QED BY <1>1, <1>2, <1>3, FS_CardinalityType

\* More nodes taken count for more.
LEMMA TakenGrows ==
  ASSUME Taken \subseteq Taken'
  PROVE  Cardinality(Taken) <= Cardinality(Taken')
BY TakenBound, TakenBoundNext, FS_Subset

\* Multiples of the ring's size keep their order.
LEMMA Room ==
  ASSUME NEW n \in Nat, NEW m \in Nat, n <= m
  PROVE  Capacity * n \in Nat /\ Capacity * n <= Capacity * m
<1>1. Capacity \in Nat
  BY Constants
<1>2. Capacity * m - Capacity * n = Capacity * (m - n) /\ m - n \in Nat
  BY <1>1
<1>3. Capacity * (m - n) \in Nat /\ Capacity * n \in Nat /\ Capacity * m \in Nat
  BY <1>1, <1>2
<1> QED BY <1>2, <1>3

\* What the locals of a worker are.
LEMMA Locals ==
  ASSUME NEW r \in Regs
  PROVE  /\ r.pushed \in 0 .. Capacity /\ r.pushed \in Nat /\ r.from \in Index /\ r.q \in Queues
         /\ r.first \in Nat /\ r.last \in Nat /\ r.node \in Nodes \cup {Null}
         /\ r.first \in Nodes \cup {Null} /\ r.last \in Nodes \cup {Null}
         /\ r.victim \in Workers \cup {Null}
         /\ Pos(r.from) \in Nat
<1>1. /\ r.pushed \in 0 .. Capacity /\ r.from \in Index /\ r.q \in Queues
      /\ r.node \in Nodes \cup {Null} /\ r.victim \in Workers \cup {Null}
      /\ r.first \in Nodes \cup {Null} /\ r.last \in Nodes \cup {Null}
  BY DEF Regs
<1>2. Pos(r.from) \in Index
  BY <1>1, Position
<1> QED BY <1>1, <1>2, Constants

\* Indices and positions are numbers.
LEMMA IndexNat == ASSUME NEW i \in Index PROVE i \in Nat /\ Pos(i) \in Nat /\ Pos(i) \in Index
BY Position, Constants

\* No position has come round: the positions of a ring are in order and below IndexSize.
LEMMA Numbers ==
  ASSUME NoLap, Sound, NEW w \in Workers
  PROVE  /\ HeadAt(w) \in Nat /\ TailAt(w) \in Nat /\ Ahead(w) \in 0 .. Capacity
         /\ HeadAt(w) <= TailAt(w) /\ EndAt(w) <= HeadAt(w) + Capacity /\ EndAt(w) < IndexSize
         /\ EndAt(w) = TailAt(w) + Ahead(w) /\ EndAt(w) \in Nat
         /\ reg[w] \in Regs /\ pc[w] \in Labels /\ head[w] \in Index /\ tail[w] \in Index
<1>1. reg[w] \in Regs /\ pc[w] \in Labels /\ head[w] \in Index /\ tail[w] \in Index
      /\ fresh \in 1 .. NodeCount + 1
  BY DEF Sound, Types
<1>2. HeadAt(w) \in Nat /\ TailAt(w) \in Nat /\ Ahead(w) \in 0 .. Capacity
  <2>1. reg[w].pushed \in 0 .. Capacity
    BY <1>1, Locals
  <2>2. Ahead(w) \in 0 .. Capacity
    BY <2>1, Constants DEF Ahead
  <2> QED BY <1>1, <2>2, IndexNat DEF HeadAt, TailAt
<1>3. HeadAt(w) <= TailAt(w) /\ EndAt(w) <= HeadAt(w) + Capacity
  BY DEF Sound, Locally, RingOK
<1>4. Unstored(w) \in Int /\ Unstored(w) >= 0
  <2>1. reg[w].pushed \in 0 .. Capacity
    BY <1>1 DEF Regs
  <2>2. CASE pc[w] = "fill"
    BY <2>2, Constants DEF Unstored, Sound, Locally, BatchOK
  <2>3. CASE pc[w] = "fill_publish"
    <3>1. reg[w].first + reg[w].pushed <= reg[w].last + 1
      BY <2>3 DEF Sound, Locally, BatchOK
    <3> QED BY <1>1, <2>3, <3>1, Locals DEF Unstored
  <2>4. CASE pc[w] \notin {"fill", "fill_publish"}
    BY <2>4 DEF Unstored
  <2> QED BY <2>2, <2>3, <2>4
<1>5. EndAt(w) < IndexSize
  <2> DEFINE C == Capacity * Cardinality(Taken)
  <2>1. (IF pc[w] \in {"take", "extra"} THEN TailAt(w) ELSE EndAt(w)) + Unstored(w) <= C + fresh - 1
    BY DEF Sound, Locally, RingOK
  <2>2. C \in Nat /\ C <= Capacity * NodeCount /\ Capacity * NodeCount \in Nat
    BY TakenBound, Room, Constants
  <2>3. Capacity * (NodeCount + 1) = Capacity * NodeCount + Capacity
    BY Constants
  <2> HIDE DEF C
  <2> QED BY <1>1, <1>2, <1>4, <2>1, <2>2, <2>3, Constants DEF EndAt, NoLap
<1> QED BY <1>1, <1>2, <1>3, <1>5 DEF EndAt

\* What every step of w does to the others.
Step(w) ==
  /\ Types'
  /\ \A v \in Workers \ {w} : /\ pc'[v] = pc[v] /\ reg'[v] = reg[v]
                              /\ array'[v] = array[v] /\ tail'[v] = tail[v]
  /\ \A v \in Workers : HeadAt(v) <= HeadAt(v)' /\ TailAt(v) <= TailAt(v)'
  /\ \A j \in HeadAt(w) .. TailAt(w) - 1 : At(w, j)' = At(w, j)
  /\ fresh <= fresh' /\ Taken \subseteq Taken'
  /\ \A v \in Workers \ {w} : \A n \in Chain(v) : next'[n] = next[n]

\* A step of w leaves the rings of the others as they are, unless it claims from them.
LEMMA RingStays ==
  ASSUME NoLap, Sound, NEW w \in Queues, Step(w), NEW v \in Workers \ {w}, head'[v] = head[v]
  PROVE  RingOK(v)' /\ Ring(v)' = Ring(v) /\ Occupied(v)' = Occupied(v)
<1>1. /\ pc'[v] = pc[v] /\ reg'[v] = reg[v] /\ array'[v] = array[v] /\ tail'[v] = tail[v]
  BY DEF Step
<1>2. HeadAt(v)' = HeadAt(v) /\ TailAt(v)' = TailAt(v) /\ EndAt(v)' = EndAt(v)
      /\ Unstored(v)' = Unstored(v) /\ \A j \in Int : At(v, j)' = At(v, j)
  BY <1>1 DEF HeadAt, TailAt, EndAt, Ahead, Unstored, At
<1>3. Occupied(v)' = Occupied(v) /\ Occupied(v) \subseteq Int
  BY <1>2, Numbers DEF Occupied
<1>4. Ring(v)' = Ring(v)
  BY <1>2, <1>3 DEF Ring
<1>5. Capacity * Cardinality(Taken) + fresh - 1 <= Capacity * Cardinality(Taken') + fresh' - 1
  <2>1. Cardinality(Taken) <= Cardinality(Taken') /\ Cardinality(Taken) \in Nat
        /\ Cardinality(Taken') \in Nat
    BY TakenGrows, TakenBound, TakenBoundNext DEF Step
  <2>2. /\ Capacity * Cardinality(Taken) <= Capacity * Cardinality(Taken')
        /\ Capacity * Cardinality(Taken) \in Nat /\ Capacity * Cardinality(Taken') \in Nat
    BY <2>1, Room
  <2>3. fresh \in Int /\ fresh' \in Int /\ fresh <= fresh'
    BY Constants DEF Step, Sound, Types
  <2> QED BY <2>2, <2>3
<1>6. (IF pc'[v] \in {"take", "extra"} THEN TailAt(v)' ELSE EndAt(v)') + Unstored(v)'
        <= Capacity * Cardinality(Taken') + fresh' - 1
  <2>1. (IF pc[v] \in {"take", "extra"} THEN TailAt(v) ELSE EndAt(v)) + Unstored(v)
          <= Capacity * Cardinality(Taken) + fresh - 1
    BY DEF Sound, Locally, RingOK
  <2>2. /\ Capacity * Cardinality(Taken) \in Int /\ Capacity * Cardinality(Taken') \in Int
        /\ fresh \in Int /\ fresh' \in Int
    BY TakenBound, TakenBoundNext, Room, Constants DEF Step, Sound, Types
  <2>3. TailAt(v) \in Int /\ EndAt(v) \in Int /\ Unstored(v) \in Int
    BY Numbers, Locals DEF Unstored
  <2> DEFINE a == (IF pc[v] \in {"take", "extra"} THEN TailAt(v) ELSE EndAt(v)) + Unstored(v)
             b == Capacity * Cardinality(Taken) + fresh - 1
             c == Capacity * Cardinality(Taken') + fresh' - 1
  <2>4. a \in Int /\ b \in Int /\ c \in Int
    BY <2>2, <2>3
  <2>5. a <= b /\ b <= c
    BY <1>5, <2>1
  <2> HIDE DEF a, b, c
  <2>6. a <= c
    BY <2>4, <2>5
  <2> QED BY <1>1, <1>2, <2>6 DEF a, c
<1>7. \A i, j \in Occupied(v)' : At(v, i)' \in Nodes /\ (At(v, i)' = At(v, j)' => i = j)
  BY <1>2, <1>3 DEF Sound, Locally, RingOK
<1>8. HeadAt(v)' <= TailAt(v)' /\ EndAt(v)' <= HeadAt(v)' + Capacity
  BY <1>2, Numbers
<1>9. RingOK(v)'
  BY <1>6, <1>7, <1>8 DEF RingOK
<1> QED BY <1>3, <1>4, <1>9

\* It leaves what the others have in hand.
LEMMA HandStays ==
  ASSUME NoLap, Sound, NEW w \in Queues, Step(w), NEW v \in Workers \ {w}, head'[v] = head[v]
  PROVE  HandOK(v)' /\ Hand(v)' = Hand(v)
BY DEF Step, Sound, Locally, HandOK, Hand

\* What a thief copied stays valid until it sees that the head has moved.
LEMMA ThiefStays ==
  ASSUME NoLap, Sound, NEW w \in Queues, Step(w), NEW u \in Workers \ {w}
  PROVE  ThiefOK(u)'
<1>0. PICK v, at : v = reg[u].victim /\ at = Pos(reg[u].from)
  OBVIOUS
<1>1. pc'[u] = pc[u] /\ reg'[u] = reg[u] /\ array'[u] = array[u] /\ tail'[u] = tail[u]
  BY DEF Step
<1>2. ThiefOK(u)
  BY DEF Sound, Locally
<1>3. CASE pc[u] \notin Stealing
  BY <1>1, <1>3 DEF ThiefOK, Stealing
<1>4. CASE pc[u] \in Stealing
  <2>1. v \in Workers \ {u} /\ reg[u].from \in Index /\ at \in Nat /\ reg[u].pushed \in Nat
    BY <1>0, <1>2, <1>4, Numbers, Locals DEF ThiefOK
  <2>2. /\ HeadAt(v) <= HeadAt(v)' /\ TailAt(v) <= TailAt(v)'
        /\ HeadAt(v) \in Nat /\ TailAt(v) \in Nat /\ HeadAt(v)' \in Nat /\ TailAt(v)' \in Nat
    <3>1. head'[v] \in Index /\ tail'[v] \in Index
      BY <2>1 DEF Step, Types
    <3>2. HeadAt(v) <= HeadAt(v)' /\ TailAt(v) <= TailAt(v)'
      BY <2>1 DEF Step
    <3>3. HeadAt(v)' \in Nat /\ TailAt(v)' \in Nat
      BY <3>1, IndexNat DEF HeadAt, TailAt
    <3> QED BY <2>1, <3>2, <3>3, Numbers
  <2>3. pc[u] \in Stealing \ {"steal_head"} => at <= HeadAt(v)'
    BY <1>0, <1>2, <2>1, <2>2 DEF ThiefOK
  <2>4. pc[u] \in {"steal_copy", "steal_claim"} =>
          reg[u].pushed > 0 /\ at + reg[u].pushed <= TailAt(v) /\ at + reg[u].pushed <= TailAt(v)'
    BY <1>0, <1>2, <2>1, <2>2 DEF ThiefOK
  <2>5. ASSUME pc[u] = "steal_claim", head'[v] = reg[u].from,
               NEW i \in 0 .. reg[u].pushed - 1
        PROVE  At(u, TailAt(u) + i)' = At(v, at + i)'
    <3>1. HeadAt(v)' = at
      BY <1>0, <2>5 DEF HeadAt
    <3>2. HeadAt(v) = at /\ head[v] = reg[u].from
      <4>1. HeadAt(v) = at
        BY <1>0, <1>2, <2>1, <2>2, <2>5, <3>1 DEF ThiefOK, Stealing
      <4> QED BY <1>0, <2>1, <4>1, SamePosition, Numbers DEF HeadAt
    <3>3. At(u, TailAt(u) + i) = At(v, at + i)
      BY <1>0, <1>2, <2>5, <3>2 DEF ThiefOK
    <3>4. At(u, TailAt(u) + i)' = At(u, TailAt(u) + i)
      BY <1>1 DEF At, TailAt
    <3>5. at + i \in HeadAt(v) .. TailAt(v) - 1
      BY <2>1, <2>2, <2>4, <2>5, <3>2
    <3>6. At(v, at + i)' = At(v, at + i)
      <4>1. CASE v = w
        <5>1. \A j \in HeadAt(w) .. TailAt(w) - 1 : At(w, j)' = At(w, j)
          BY DEF Step
        <5>2. array'[w][Cell(at + i)] = array[w][Cell(at + i)]
          BY <3>5, <4>1, <5>1 DEF At
        <5> QED BY <1>1, <4>1, <5>2 DEF At
      <4>2. CASE v # w
        BY <1>1, <2>1, <4>2 DEF Step, At
      <4> QED BY <4>1, <4>2
    <3> QED BY <3>3, <3>4, <3>6
  <2> QED BY <1>0, <1>1, <2>1, <2>3, <2>4, <2>5 DEF ThiefOK
<1> QED BY <1>3, <1>4

\* The chains the others hold stay what they are.
LEMMA BatchStays ==
  ASSUME NoLap, Sound, NEW w \in Queues, Step(w), NEW v \in Workers \ {w}
  PROVE  /\ BatchOK(v)' /\ Chain(v)' = Chain(v)
         /\ Chaining(v)' => Chaining(v) /\ Proper(reg[v].first)'
<1>1. /\ pc'[v] = pc[v] /\ reg'[v] = reg[v] /\ tail'[v] = tail[v]
      /\ \A n \in Chain(v) : next'[n] = next[n]
      /\ next \in Links /\ next' \in Links /\ reg[v].first \in Nodes \cup {Null}
  BY Numbers DEF Step, Sound, Types, Links, Regs
<1>2. CASE Chaining(v)
  <2>1. Chain(v) = Reach(next, reg[v].first)
    BY <1>2 DEF Chain, Hanging
  <2>2. Reach(next', reg[v].first) = Reach(next, reg[v].first)
    BY <1>1, <2>1, ReachFrame
  <2>3. Chaining(v)' /\ Chain(v)' = Chain(v)
    BY <1>1, <1>2, <2>1, <2>2 DEF Chain, Chaining, Consuming, Hanging
  <2>4. ProperIn(next, reg[v].first)
    BY <1>2 DEF Sound, Chains, Proper, ProperIn, Hanging
  <2>5. ProperIn(next', reg[v].first)
    BY <1>1, <2>1, <2>4, ProperFrame
  <2>6. Proper(reg[v].first)'
    BY <1>1, <2>5 DEF Proper, ProperIn, Hanging
  <2>7. BatchOK(v)'
    BY <1>1, <1>2, <2>1, <2>2 DEF Sound, Locally, BatchOK, Chaining, Consuming, Hanging
  <2> QED BY <1>2, <2>3, <2>6, <2>7
<1>3. CASE ~Chaining(v)
  <2>1. ~Chaining(v)' /\ Chain(v)' = Chain(v)
    BY <1>1, <1>3 DEF Chain, Chaining, Consuming
  <2>2. pc[v] = "fill" => Pos(reg[v].from) <= HeadAt(v)' /\ TailAt(v)' = TailAt(v)
    <3>1. HeadAt(v) <= HeadAt(v)' /\ HeadAt(v) \in Int /\ HeadAt(v)' \in Int /\ Pos(reg[v].from) \in Int
      <4>1. head'[v] \in Index
        BY DEF Step, Types
      <4>2. HeadAt(v)' \in Nat
        BY <4>1, IndexNat DEF HeadAt
      <4>3. HeadAt(v) <= HeadAt(v)'
        BY DEF Step
      <4> QED BY <4>2, <4>3, Numbers, Locals
    <3>2. pc[v] = "fill" => Pos(reg[v].from) <= HeadAt(v)
      BY DEF Sound, Locally, BatchOK
    <3>3. TailAt(v)' = TailAt(v)
      BY <1>1 DEF TailAt
    <3> QED BY <3>1, <3>2, <3>3
  <2>3. fresh' \in Int /\ fresh \in Int /\ fresh <= fresh'
    BY Constants DEF Step, Sound, Types
  <2>4. BatchOK(v)
    BY DEF Sound, Locally
  <2>5. pc[v] # "overflow"
    BY <1>3 DEF Chaining
  <2>6. reg[v].last \in Nodes /\ reg[v].last < fresh => reg[v].last < fresh'
    BY <2>3, Constants
  <2>7. BatchOK(v)'
    BY <1>1, <2>1, <2>2, <2>4, <2>5, <2>6 DEF BatchOK
  <2> QED BY <2>1, <2>7
<1> QED BY <1>2, <1>3
-----------------------------------------------------------------------------
(* What is left to show of a step: its own worker and the queues it touches. *)

\* A stack that is not pushed to keeps its nodes.
LEMMA StackStays ==
  ASSUME Sound, next' \in Links, NEW q \in Queues, stack'[q] = stack[q],
         \A n \in Stacked(q) : next'[n] = next[n]
  PROVE  Stacked(q)' = Stacked(q) /\ Proper(stack[q])'
<1>1. next \in Links /\ stack[q] \in Nodes \cup {Null} /\ ProperIn(next, stack[q])
  BY DEF Sound, Types, Links, Chains, Proper, ProperIn, Hanging
<1>2. \A n \in Reach(next, stack[q]) : next'[n] = next[n]
  BY DEF Stacked, Hanging
<1>3. Reach(next', stack[q]) = Reach(next, stack[q]) /\ ProperIn(next', stack[q])
  BY <1>1, <1>2, ReachFrame, ProperFrame
<1> QED BY <1>3 DEF Stacked, Hanging, Proper, ProperIn

\* What Chains says of the cache of q.
CacheOK(q) ==
  "IS_CONSUMING" \notin flags[q] => Proper(cache[q]) /\ ("HAS_CACHE" \in flags[q] <=> cache[q] # Null)

\* A cache that nobody writes keeps its nodes.
LEMMA CacheStays ==
  ASSUME Sound, next' \in Links, NEW q \in Queues, cache'[q] = cache[q], flags'[q] = flags[q],
         \A n \in Cached(q) : next'[n] = next[n]
  PROVE  Cached(q)' = Cached(q) /\ CacheOK(q)'
<1>1. CASE "IS_CONSUMING" \in flags[q]
  BY <1>1 DEF Cached, CacheOK
<1>2. CASE "IS_CONSUMING" \notin flags[q]
  <2>1. /\ next \in Links /\ cache[q] \in Nodes \cup {Null} /\ ProperIn(next, cache[q])
        /\ "HAS_CACHE" \in flags[q] <=> cache[q] # Null
    BY <1>2 DEF Sound, Types, Links, Chains, Proper, ProperIn, Hanging
  <2>2. \A n \in Reach(next, cache[q]) : next'[n] = next[n]
    BY <1>2 DEF Cached, Hanging
  <2>3. Reach(next', cache[q]) = Reach(next, cache[q]) /\ ProperIn(next', cache[q])
    BY <2>1, <2>2, ReachFrame, ProperFrame
  <2> QED BY <1>2, <2>1, <2>3 DEF Cached, CacheOK, Hanging, Proper, ProperIn
<1> QED BY <1>1, <1>2

Own(w) ==
  /\ RingOK(w)' /\ HandOK(w)' /\ ThiefOK(w)' /\ BatchOK(w)'
  /\ Chaining(w)' => Proper(reg[w].first)'

\* A step of w on the queues of Q: what is left to show is about w and Q.
LEMMA Settles ==
  ASSUME NoLap, Sound, NEW w \in Queues, Step(w), \A v \in Workers \ {w} : head'[v] = head[v],
         w \in Workers => Own(w),
         NEW Q \in SUBSET Queues,
         \A q \in Queues \ Q : /\ stack'[q] = stack[q] /\ cache'[q] = cache[q] /\ flags'[q] = flags[q]
                               /\ \A n \in Stacked(q) \cup Cached(q) : next'[n] = next[n],
         \A q \in Q : Proper(stack[q])' /\ CacheOK(q)',
         \A n \in New' : next'[n] = Null
  PROVE  /\ Types' /\ Chains' /\ Locally'
         /\ \A v \in Workers \ {w} : Hand(v)' = Hand(v) /\ Ring(v)' = Ring(v) /\ Chain(v)' = Chain(v)
         /\ \A q \in Queues \ Q : Stacked(q)' = Stacked(q) /\ Cached(q)' = Cached(q)
<1>1. Types' /\ next' \in Links
  BY DEF Step, Types, Links
<1>2. \A v \in Workers \ {w} :
        /\ RingOK(v)' /\ HandOK(v)' /\ ThiefOK(v)' /\ BatchOK(v)'
        /\ Chaining(v)' => Proper(reg[v].first)'
        /\ Hand(v)' = Hand(v) /\ Ring(v)' = Ring(v) /\ Chain(v)' = Chain(v)
  BY RingStays, HandStays, ThiefStays, BatchStays
<1>3. \A q \in Queues \ Q :
        Stacked(q)' = Stacked(q) /\ Cached(q)' = Cached(q) /\ Proper(stack[q])' /\ CacheOK(q)'
  BY <1>1, StackStays, CacheStays
<1>4. Locally'
  BY <1>2 DEF Locally, Own
<1>5. Chains'
  <2>1. \A q \in Queues : Proper(stack[q])' /\ CacheOK(q)'
    BY <1>3
  <2>2. \A v \in Workers : Chaining(v)' => Proper(reg[v].first)'
    BY <1>2 DEF Own
  <2> QED BY <2>1, <2>2 DEF Chains, CacheOK
<1> QED BY <1>1, <1>2, <1>3, <1>4, <1>5

\* A step that moves nothing between the places.
LEMMA Unmoving ==
  ASSUME Placed, NEW w \in Workers, Hand(w)' = Hand(w), Ring(w)' = Ring(w), Chain(w)' = Chain(w),
         \A v \in Workers \ {w} : Hand(v)' = Hand(v) /\ Ring(v)' = Ring(v) /\ Chain(v)' = Chain(v),
         \A q \in Queues : Stacked(q)' = Stacked(q) /\ Cached(q)' = Cached(q),
         fresh' = fresh, runs' = runs
  PROVE  Placed'
<1>1. {} \in SUBSET Spots /\ New' = New /\ Done' = Done
  BY DEF New, Done
<1>2. \A v \in Workers : Hand(v)' = Hand(v) /\ Ring(v)' = Ring(v) /\ Chain(v)' = Chain(v)
  OBVIOUS
<1>3. \A s \in DOMAIN Where \ {} : Where'[s] = Where[s]
  BY <1>1, <1>2, OthersStay
<1> QED BY <1>3, NothingMoves

\* A node that has been taken stays taken.
LEMMA TakenStays ==
  ASSUME NEW w \in Workers, runs' = runs, \A v \in Workers \ {w} : reg'[v] = reg[v],
         reg[w].node = Null \/ reg'[w].node = reg[w].node
  PROVE  Taken \subseteq Taken'
<1> SUFFICES ASSUME NEW n \in Nodes, runs[n] # 0 \/ \E v \in Workers : reg[v].node = n
             PROVE  runs[n] # 0 \/ \E v \in Workers : reg'[v].node = n
  BY DEF Taken
<1>1. CASE runs[n] # 0
  BY <1>1
<1>2. ASSUME NEW v \in Workers, reg[v].node = n PROVE \E u \in Workers : reg'[u].node = n
  BY <1>2, NullIsNoNode
<1> QED BY <1>1, <1>2

\* A step of w that leaves rings, links and tasks alone.
LEMMA Steady ==
  ASSUME Sound, NEW w \in Workers, NEW l \in Labels, NEW r \in Regs,
         pc' = [pc EXCEPT ![w] = l], reg' = [reg EXCEPT ![w] = r],
         UNCHANGED <<next, array, head, tail, fresh, runs>>,
         reg[w].node = Null \/ r.node = reg[w].node,
         stack' \in [Queues -> Nodes \cup {Null}], cache' \in [Queues -> Nodes \cup {Null}],
         flags' \in [Queues -> SUBSET {"HAS_CACHE", "IS_CONSUMING"}]
  PROVE  /\ Step(w) /\ reg'[w] = r /\ pc'[w] = l
         /\ \A v \in Workers : HeadAt(v)' = HeadAt(v) /\ TailAt(v)' = TailAt(v)
         /\ \A v \in Workers : \A j : At(v, j)' = At(v, j)
<1>1. /\ reg'[w] = r /\ pc'[w] = l
      /\ \A v \in Workers \ {w} : reg'[v] = reg[v] /\ pc'[v] = pc[v]
  BY DEF Sound, Types
<1>2. Types'
  BY <1>1 DEF Sound, Types
<1>3. Taken \subseteq Taken'
  BY <1>1, TakenStays
<1>4. /\ \A v \in Workers : HeadAt(v)' = HeadAt(v) /\ TailAt(v)' = TailAt(v)
      /\ \A v \in Workers : \A j : At(v, j)' = At(v, j)
  BY DEF HeadAt, TailAt, At
<1>5. /\ \A v \in Workers : HeadAt(v) \in Nat /\ TailAt(v) \in Nat
      /\ fresh \in Nat
  BY IndexNat, Constants DEF Sound, Types, HeadAt, TailAt
<1>6. Step(w)
  BY <1>1, <1>2, <1>3, <1>4, <1>5 DEF Step, At
<1> QED BY <1>1, <1>4, <1>6

\* How far the ring of w reaches once it has stored what it holds, and how far it may.
Mark(w) == (IF pc[w] \in {"take", "extra"} THEN TailAt(w) ELSE EndAt(w)) + Unstored(w)
Limit == Capacity * Cardinality(Taken) + fresh - 1

\* The bound of the positions never falls.
LEMMA LimitGrows ==
  ASSUME Sound, NEW w \in Queues, Step(w)
  PROVE  Limit \in Int /\ Limit' \in Int /\ Limit + (fresh' - fresh) <= Limit' /\ Limit <= Limit'
<1>1. /\ Cardinality(Taken) <= Cardinality(Taken') /\ Cardinality(Taken) \in Nat
      /\ Cardinality(Taken') \in Nat
  BY TakenGrows, TakenBound, TakenBoundNext DEF Step
<1>2. /\ Capacity * Cardinality(Taken) <= Capacity * Cardinality(Taken')
      /\ Capacity * Cardinality(Taken) \in Nat /\ Capacity * Cardinality(Taken') \in Nat
  BY <1>1, Room
<1>3. fresh \in Int /\ fresh' \in Int /\ fresh <= fresh'
  BY Constants DEF Step, Sound, Types
<1> QED BY <1>2, <1>3 DEF Limit

\* A node that leaves the queues pays for a turn of the ring.
LEMMA LimitGains ==
  ASSUME Sound, NEW w \in Queues, Step(w), NEW n \in Taken', n \notin Taken
  PROVE  Limit \in Int /\ Limit' \in Int /\ Limit + Capacity <= Limit'
<1>1. /\ IsFiniteSet(Taken) /\ Cardinality(Taken) \in Nat /\ Cardinality(Taken') \in Nat
      /\ IsFiniteSet(Taken')
  BY TakenBound, TakenBoundNext
<1>2. IsFiniteSet(Taken \cup {n}) /\ Cardinality(Taken \cup {n}) = Cardinality(Taken) + 1
  BY <1>1, FS_AddElement
<1>3. Taken \cup {n} \subseteq Taken'
  BY DEF Step
<1>4. Cardinality(Taken) + 1 <= Cardinality(Taken')
  BY <1>1, <1>2, <1>3, FS_Subset
<1>5. Capacity * (Cardinality(Taken) + 1) <= Capacity * Cardinality(Taken')
  BY <1>1, <1>4, Room
<1>6. Capacity * (Cardinality(Taken) + 1) = Capacity * Cardinality(Taken) + Capacity
  BY <1>1, Constants
<1>7. Capacity * Cardinality(Taken) \in Nat /\ Capacity * Cardinality(Taken') \in Nat
  BY <1>1, Room
<1>8. fresh \in Int /\ fresh' \in Int /\ fresh <= fresh' /\ Capacity \in Int
  BY Constants DEF Step, Sound, Types
<1> QED BY <1>5, <1>6, <1>7, <1>8 DEF Limit

\* The parts of RingOK.
LEMMA RingParts ==
  ASSUME NEW w \in Workers
  PROVE  RingOK(w) <=> /\ HeadAt(w) <= TailAt(w) /\ EndAt(w) <= HeadAt(w) + Capacity
                       /\ Mark(w) <= Limit
                       /\ \A i, j \in Occupied(w) : At(w, i) \in Nodes /\ (At(w, i) = At(w, j) => i = j)
BY DEF RingOK, Mark, Limit

\* The measure of a ring is a number.
LEMMA MarkNumber ==
  ASSUME NoLap, Sound, NEW w \in Workers
  PROVE  Mark(w) \in Int /\ Unstored(w) \in Int
<1>1. Unstored(w) \in Int
  BY Numbers, Locals DEF Unstored
<1> QED BY <1>1, Numbers DEF Mark

\* A step that leaves the occupied cells of its worker's ring as they are.
LEMMA RingSame ==
  ASSUME NoLap, Sound, NEW w \in Workers, Step(w), HeadAt(w)' = HeadAt(w),
         TailAt(w) <= TailAt(w)', EndAt(w)' = EndAt(w), TailAt(w)' \in Nat,
         \A j \in Occupied(w) : At(w, j)' = At(w, j),
         Mark(w)' \in Int, Mark(w)' <= Mark(w)
  PROVE  RingOK(w)' /\ Ring(w)' = Ring(w) /\ Occupied(w)' = Occupied(w)
<1>1. Occupied(w)' = Occupied(w)
  BY DEF Occupied
<1>2. Ring(w)' = Ring(w)
  BY <1>1 DEF Ring
<1>3. RingOK(w)
  BY DEF Sound, Locally
<1>4. Mark(w)' <= Limit'
  <2>1. Mark(w) <= Limit /\ Mark(w) \in Int
    BY <1>3, RingParts, MarkNumber
  <2>2. Limit \in Int /\ Limit' \in Int /\ Limit <= Limit'
    BY LimitGrows, Constants
  <2> QED BY <2>1, <2>2
<1>5. \A i, j \in Occupied(w)' : At(w, i)' \in Nodes /\ (At(w, i)' = At(w, j)' => i = j)
  BY <1>1, <1>3, RingParts
<1>6. HeadAt(w)' <= TailAt(w)' /\ EndAt(w)' <= HeadAt(w)' + Capacity
  BY Numbers
<1>7. RingOK(w)'
  BY <1>4, <1>5, <1>6 DEF RingOK, Mark, Limit
<1> QED BY <1>1, <1>2, <1>7
-----------------------------------------------------------------------------
(* The steps that move no node.                                              *)

\* A step of a worker that holds nothing and looks for a source.
LEMMA Search ==
  ASSUME NoLap, Sound, NEW w \in Workers, NEW l, NEW r \in Regs,
         pc' = [pc EXCEPT ![w] = l], reg' = [reg EXCEPT ![w] = r],
         UNCHANGED <<next, queue, ring, fresh, runs>>,
         pc[w] \in {"pop", "acquire", "scan"} \cup Stealing, reg[w].node = Null, head[w] = tail[w],
         l \in {"pop", "acquire", "scan"} \cup Stealing, r.node = Null, ThiefOK(w)'
  PROVE  Sound'
<1>1. l \in Labels /\ queue' = queue /\ ring' = ring
  BY DEF Labels, Stealing
<1>2. /\ Step(w) /\ reg'[w] = r /\ pc'[w] = l
      /\ \A v \in Workers : HeadAt(v)' = HeadAt(v) /\ TailAt(v)' = TailAt(v)
      /\ \A v \in Workers : \A j : At(v, j)' = At(v, j)
      /\ stack' = stack /\ cache' = cache /\ flags' = flags /\ head' = head /\ tail' = tail
  <2>1. stack' = stack /\ cache' = cache /\ flags' = flags /\ array' = array /\ head' = head
        /\ tail' = tail
    BY <1>1 DEF queue, ring
  <2>2. stack \in [Queues -> Nodes \cup {Null}] /\ cache \in [Queues -> Nodes \cup {Null}]
        /\ flags \in [Queues -> SUBSET {"HAS_CACHE", "IS_CONSUMING"}]
    BY DEF Sound, Types
  <2> QED BY <1>1, <2>1, <2>2, Steady
<1>3. /\ pc[w] \notin Storing /\ l \notin Storing /\ ~Chaining(w) /\ ~Chaining(w)'
      /\ pc[w] \notin {"fill", "fill_publish"} /\ l \notin {"fill", "fill_publish"}
  BY <1>2 DEF Storing, Stealing, Chaining, Consuming
<1>4. /\ Ahead(w) = 0 /\ Ahead(w)' = 0 /\ Unstored(w) = 0 /\ Unstored(w)' = 0
      /\ Chain(w) = {} /\ Chain(w)' = {}
  BY <1>2, <1>3 DEF Ahead, Unstored, Chain
<1>5. RingOK(w)' /\ Ring(w)' = Ring(w)
  <2>1. EndAt(w)' = EndAt(w) /\ EndAt(w) = TailAt(w) /\ TailAt(w)' = TailAt(w) /\ TailAt(w) \in Nat
    BY <1>2, <1>4, Numbers DEF EndAt
  <2>2. Mark(w)' = Mark(w) /\ Mark(w) \in Int
    BY <1>2, <1>4, <2>1 DEF Mark
  <2> QED BY <1>2, <2>1, <2>2, RingSame
<1>6. HandOK(w)' /\ Hand(w)' = Hand(w)
  BY <1>2, <1>3 DEF HandOK, Hand, Handing, Stealing
<1>7. BatchOK(w)'
  BY <1>2, <1>3 DEF BatchOK, Chaining
<1>8. Own(w)
  BY <1>3, <1>5, <1>6, <1>7 DEF Own
<1>9. /\ Types' /\ Chains' /\ Locally'
      /\ \A v \in Workers \ {w} : Hand(v)' = Hand(v) /\ Ring(v)' = Ring(v) /\ Chain(v)' = Chain(v)
      /\ \A q \in Queues \ {} : Stacked(q)' = Stacked(q) /\ Cached(q)' = Cached(q)
  <2>1. \A n \in New' : next'[n] = Null
    BY DEF New, Sound, Chains
  <2>2. w \in Queues
    BY Constants
  <2> QED BY <1>2, <1>8, <2>1, <2>2, Settles
<1>10. Placed'
  BY <1>4, <1>5, <1>6, <1>9, Unmoving DEF Sound
<1> QED BY <1>9, <1>10 DEF Sound

\* The locals of a worker that starts over.
LEMMA NoRegIsReg == NoReg \in Regs /\ NoReg.node = Null /\ NoReg.victim = Null
BY Constants DEF NoReg, Regs, Queues

\* A worker that holds nothing has an empty ring.
LEMMA Empty ==
  ASSUME Sound, NEW w \in Workers, pc[w] \in {"acquire", "scan"} \cup Stealing
  PROVE  reg[w].node = Null /\ head[w] = tail[w]
BY DEF Sound, Locally, HandOK, EmptyHanded, Searching, Stealing

\* The next victim, or the end of the search.
LEMMA ScanSound == ASSUME NoLap, Sound, NEW w \in Workers, Scan(w) PROVE Sound'
<1>1. pc[w] = "scan" /\ reg[w].node = Null /\ head[w] = tail[w] /\ reg[w] \in Regs
  BY Empty, Numbers DEF Scan
<1>2. CASE reg[w].todo = {}
  <2>1. reg' = [reg EXCEPT ![w] = NoReg] /\ pc' = [pc EXCEPT ![w] = "pop"]
    BY <1>2 DEF Scan, Goto
  <2>2. pc'[w] = "pop"
    BY <2>1 DEF Sound, Types
  <2>3. ThiefOK(w)'
    BY <2>2 DEF ThiefOK, Stealing
  <2> QED BY <1>1, <2>1, <2>3, NoRegIsReg, Search DEF Scan
<1>3. CASE reg[w].todo # {}
  <2>1. PICK v \in reg[w].todo :
          /\ reg' = [reg EXCEPT ![w].victim = v, ![w].q = v, ![w].todo = @ \ {v}]
          /\ pc' = [pc EXCEPT ![w] = "acquire"]
    BY <1>3 DEF Scan, Goto
  <2> DEFINE r == [reg[w] EXCEPT !.victim = v, !.q = v, !.todo = @ \ {v}]
  <2>2. v \in Workers /\ v \in Queues /\ r \in Regs /\ r.node = reg[w].node
    BY <1>1, Constants DEF Regs
  <2>3. reg' = [reg EXCEPT ![w] = r]
    BY <2>1 DEF Sound, Types
  <2>4. pc'[w] = "acquire"
    BY <2>1 DEF Sound, Types
  <2>5. ThiefOK(w)'
    BY <2>4 DEF ThiefOK, Stealing
  <2> QED BY <1>1, <2>1, <2>2, <2>3, <2>5, Search DEF Scan
<1> QED BY <1>2, <1>3

\* Where a worker goes on when a source had nothing.
LEMMA NextSourceIs ==
  ASSUME Sound, NEW w \in Workers, NextSource(w)
  PROVE  \E l \in {"acquire", "scan", "steal_head"}, r \in Regs :
           /\ pc' = [pc EXCEPT ![w] = l] /\ reg' = [reg EXCEPT ![w] = r] /\ r.node = reg[w].node
           /\ l = "steal_head" => r.victim \in Workers \ {w}
<1>1. reg[w] \in Regs /\ reg \in [Workers -> Regs]
  BY DEF Sound, Types
<1>2. CASE reg[w].victim = Null /\ reg[w].q # Pool
  <2> DEFINE r == [reg[w] EXCEPT !.q = Pool]
  <2>1. r \in Regs /\ r.node = reg[w].node
    BY <1>1, Constants DEF Regs
  <2>2. reg' = [reg EXCEPT ![w] = r] /\ pc' = [pc EXCEPT ![w] = "acquire"]
    BY <1>2, <1>1 DEF NextSource, Goto
  <2> QED BY <2>1, <2>2
<1>3. CASE reg[w].victim = Null /\ reg[w].q = Pool
  <2> DEFINE r == [reg[w] EXCEPT !.todo = Workers]
  <2>1. r \in Regs /\ r.node = reg[w].node
    BY <1>1, Constants DEF Regs
  <2>2. reg' = [reg EXCEPT ![w] = r] /\ pc' = [pc EXCEPT ![w] = "scan"]
    BY <1>3, <1>1 DEF NextSource, Goto
  <2> QED BY <2>1, <2>2
<1>4. CASE reg[w].victim # Null
  <2>1. reg' = [reg EXCEPT ![w] = reg[w]]
        /\ pc' = [pc EXCEPT ![w] = IF reg[w].victim = w THEN "scan" ELSE "steal_head"]
    BY <1>4, <1>1 DEF NextSource, Goto
  <2>2. reg[w].victim \in Workers
    BY <1>1, <1>4, Locals
  <2> QED BY <1>1, <2>1, <2>2
<1> QED BY <1>2, <1>3, <1>4

\* A thief loads the victim's head.
LEMMA StealHeadSound == ASSUME NoLap, Sound, NEW w \in Workers, StealHead(w) PROVE Sound'
<1>1. /\ pc[w] = "steal_head" /\ reg[w].node = Null /\ head[w] = tail[w] /\ reg[w] \in Regs
      /\ reg[w].victim \in Workers \ {w} /\ head[reg[w].victim] \in Index
  <2>1. pc[w] = "steal_head"
    BY DEF StealHead
  <2>2. reg[w].victim \in Workers \ {w}
    BY <2>1 DEF Sound, Locally, ThiefOK, Stealing
  <2> QED BY <2>1, <2>2, Empty, Numbers DEF Stealing
<1> DEFINE v == reg[w].victim
           r == [reg[w] EXCEPT !.from = head[v]]
<1>2. r \in Regs /\ r.node = Null /\ r.victim = v /\ r.from = head[v]
  BY <1>1 DEF Regs
<1>3. reg' = [reg EXCEPT ![w] = r] /\ pc' = [pc EXCEPT ![w] = "steal_tail"]
      /\ UNCHANGED <<next, queue, ring, fresh, runs>>
  BY DEF StealHead, Goto, Sound, Types
<1>4. reg'[w] = r /\ pc'[w] = "steal_tail" /\ head' = head
  BY <1>3 DEF Sound, Types, ring
<1>5. ThiefOK(w)'
  <2>1. reg'[w].victim = v /\ reg'[w].from = head[v]
    BY <1>2, <1>4
  <2>2. HeadAt(v) \in Nat
    BY <1>1, Numbers
  <2>3. Pos(head[v]) <= Pos(head'[v])
    BY <1>4, <2>2 DEF HeadAt
  <2> QED BY <1>1, <1>4, <2>1, <2>3 DEF ThiefOK, Stealing, HeadAt
<1> QED BY <1>1, <1>2, <1>3, <1>5, Search DEF Stealing

\* It loads the tail after the head, and takes half of what is between.
LEMMA StealTailSound == ASSUME NoLap, Sound, NEW w \in Workers, StealTail(w) PROVE Sound'
<1> DEFINE v == reg[w].victim
           size == Minus(tail[v], reg[w].from)
           half == size - size \div 2
<1>1. /\ pc[w] = "steal_tail" /\ reg[w].node = Null /\ head[w] = tail[w] /\ reg[w] \in Regs
      /\ v \in Workers \ {w} /\ reg[w].from \in Index /\ Pos(reg[w].from) <= HeadAt(v)
  <2>1. pc[w] = "steal_tail"
    BY DEF StealTail
  <2>2. v \in Workers \ {w} /\ Pos(reg[w].from) <= HeadAt(v)
    BY <2>1 DEF Sound, Locally, ThiefOK, Stealing
  <2> QED BY <2>1, <2>2, Empty, Numbers, Locals DEF Stealing
<1>2. size = TailAt(v) - Pos(reg[w].from) /\ size \in Nat
  <2>1. HeadAt(v) <= TailAt(v) /\ HeadAt(v) \in Nat /\ TailAt(v) \in Nat /\ tail[v] \in Index
        /\ Pos(reg[w].from) \in Nat
    BY <1>1, Numbers, IndexNat
  <2>2. Pos(reg[w].from) <= Pos(tail[v])
    BY <1>1, <2>1 DEF TailAt
  <2> QED BY <1>1, <2>1, <2>2, Distance DEF TailAt
<1>3. UNCHANGED <<next, queue, ring, fresh, runs>>
  BY DEF StealTail
<1>4. CASE size > Capacity \/ half = 0
  <2> DEFINE l == IF size > Capacity THEN "steal_head" ELSE "scan"
  <2>1. reg' = [reg EXCEPT ![w] = reg[w]] /\ pc' = [pc EXCEPT ![w] = l]
    BY <1>4 DEF StealTail, Goto, Sound, Types
  <2>2. reg'[w] = reg[w] /\ pc'[w] = l
    BY <2>1 DEF Sound, Types
  <2>3. ThiefOK(w)'
    BY <1>1, <2>2 DEF ThiefOK, Stealing
  <2> QED BY <1>1, <1>3, <2>1, <2>3, Search DEF Stealing
<1>5. CASE ~(size > Capacity) /\ half # 0
  <2> DEFINE r == [reg[w] EXCEPT !.pushed = half]
  <2>1. reg' = [reg EXCEPT ![w] = r] /\ pc' = [pc EXCEPT ![w] = "steal_copy"]
    BY <1>5 DEF StealTail, Goto, Sound, Types
  <2>2. half \in 0 .. Capacity /\ half > 0 /\ half <= size
    BY <1>2, <1>5, Constants
  <2> HIDE DEF half, size
  <2>3. r \in Regs /\ r.node = Null /\ r.victim = v /\ r.from = reg[w].from /\ r.pushed = half
    BY <1>1, <2>2 DEF Regs
  <2>4. reg'[w] = r /\ pc'[w] = "steal_copy" /\ head' = head /\ tail' = tail
    BY <1>3, <2>1 DEF Sound, Types, ring
  <2>5. ThiefOK(w)'
    <3>1. /\ reg'[w].victim = v /\ reg'[w].from = reg[w].from /\ reg'[w].pushed = half
      BY <2>3, <2>4
    <3>2. Pos(reg[w].from) + half <= TailAt(v)
      <4>1. TailAt(v) \in Int /\ Pos(reg[w].from) \in Int
        BY <1>1, Numbers, IndexNat
      <4> QED BY <1>2, <2>2, <4>1
    <3>3. Pos(reg[w].from) <= Pos(head'[v]) /\ Pos(reg[w].from) + half <= Pos(tail'[v])
      BY <1>1, <2>4, <3>2 DEF HeadAt, TailAt
    <3> QED BY <1>1, <2>2, <2>4, <3>1, <3>3 DEF ThiefOK, Stealing, HeadAt, TailAt
  <2> QED BY <1>1, <1>3, <2>1, <2>3, <2>5, Search DEF Stealing
<1> QED BY <1>4, <1>5
-----------------------------------------------------------------------------
(* Publishing the tail: the nodes stored ahead of it are in the ring already.*)

\* Moving the tail over the nodes stored ahead of it leaves the ring as it is.
LEMMA Published ==
  ASSUME NoLap, Sound, NEW w \in Workers, pc[w] \in {"publish", "fill_publish", "steal_publish"},
         NEW l \in Labels \ (Storing \cup {"extra", "take"}), NEW r \in Regs, r.node = reg[w].node,
         pc' = [pc EXCEPT ![w] = l], reg' = [reg EXCEPT ![w] = r],
         tail' = [tail EXCEPT ![w] = Plus(@, reg[w].pushed)],
         UNCHANGED <<next, queue, array, head, fresh, runs>>
  PROVE  /\ Step(w) /\ reg'[w] = r /\ pc'[w] = l /\ head' = head
         /\ TailAt(w)' = EndAt(w) /\ HeadAt(w)' = HeadAt(w) /\ Hand(w)' = Hand(w)
         /\ stack' = stack /\ cache' = cache /\ flags' = flags
         /\ reg[w].pushed = 0 => tail'[w] = tail[w]
         /\ Unstored(w)' \in Int /\ Unstored(w)' <= Unstored(w) => RingOK(w)' /\ Ring(w)' = Ring(w)
<1>1. /\ reg'[w] = r /\ pc'[w] = l
      /\ \A v \in Workers \ {w} : reg'[v] = reg[v] /\ pc'[v] = pc[v] /\ tail'[v] = tail[v]
      /\ tail'[w] = Plus(tail[w], reg[w].pushed)
      /\ stack' = stack /\ cache' = cache /\ flags' = flags
  BY DEF Sound, Types, queue
<1>2. Ahead(w) = reg[w].pushed /\ Ahead(w)' = 0 /\ reg[w].pushed \in Nat
  BY <1>1, Numbers, Locals DEF Ahead, Storing
<1>3. TailAt(w)' = EndAt(w) /\ tail'[w] \in Index
  <2>1. TailAt(w) + reg[w].pushed < IndexSize /\ tail[w] \in Index
    BY <1>2, Numbers
  <2>2. Plus(tail[w], reg[w].pushed) \in Index
        /\ Pos(Plus(tail[w], reg[w].pushed)) = Pos(tail[w]) + reg[w].pushed
    BY <1>2, <2>1, Advance DEF TailAt
  <2> QED BY <1>1, <1>2, <2>2 DEF TailAt, EndAt
<1>4. EndAt(w)' = EndAt(w) /\ HeadAt(w)' = HeadAt(w) /\ \A v \in Workers : \A j : At(v, j)' = At(v, j)
  <2>1. EndAt(w)' = TailAt(w)' + 0
    BY <1>2 DEF EndAt
  <2>2. EndAt(w) \in Nat
    BY Numbers
  <2> QED BY <1>3, <2>1, <2>2 DEF HeadAt, At
<1>5. Types'
  <2>1. tail' \in [Workers -> Index]
    BY <1>1, <1>3 DEF Sound, Types
  <2> QED BY <1>1, <2>1 DEF Sound, Types
<1>6. Step(w)
  <2>1. Taken \subseteq Taken'
    BY <1>1, TakenStays
  <2>2. \A v \in Workers : HeadAt(v) <= HeadAt(v)' /\ TailAt(v) <= TailAt(v)'
    <3> SUFFICES ASSUME NEW v \in Workers PROVE HeadAt(v) <= HeadAt(v)' /\ TailAt(v) <= TailAt(v)'
      OBVIOUS
    <3>1. HeadAt(v)' = HeadAt(v) /\ HeadAt(v) \in Nat /\ TailAt(v) \in Nat
      BY Numbers DEF HeadAt
    <3>2. CASE v = w
      BY <1>2, <1>3, <3>1, <3>2, Numbers
    <3>3. CASE v # w
      BY <1>1, <3>1, <3>3 DEF TailAt
    <3> QED BY <3>1, <3>2, <3>3
  <2>3. fresh \in Nat
    BY Constants DEF Sound, Types
  <2> QED BY <1>1, <1>4, <1>5, <2>1, <2>2, <2>3 DEF Step
<1>7. reg[w].pushed = 0 => tail'[w] = tail[w]
  <2>1. reg[w].pushed = 0 => TailAt(w)' = TailAt(w)
    BY <1>2, <1>3, Numbers
  <2> QED BY <1>3, <2>1, SamePosition, Numbers DEF TailAt
<1>8. Hand(w)' = Hand(w)
  BY <1>1 DEF Hand
<1>9. ASSUME Unstored(w)' \in Int, Unstored(w)' <= Unstored(w) PROVE RingOK(w)' /\ Ring(w)' = Ring(w)
  <2>1. Mark(w)' \in Int /\ Mark(w)' <= Mark(w)
    <3>1. Mark(w)' = EndAt(w)' + Unstored(w)'
      BY <1>1 DEF Mark
    <3>2. Mark(w) = EndAt(w) + Unstored(w)
      BY DEF Mark
    <3> QED BY <1>4, <1>9, <3>1, <3>2, MarkNumber, Numbers
  <2>2. TailAt(w) <= TailAt(w)' /\ TailAt(w)' \in Nat
    BY <1>2, <1>3, Numbers
  <2> QED BY <1>4, <1>6, <2>1, <2>2, RingSame
<1> QED BY <1>1, <1>3, <1>4, <1>6, <1>7, <1>8, <1>9

\* A step that leaves links, queues and tasks alone and moves nothing.
LEMMA Rests ==
  ASSUME NoLap, Sound, NEW w \in Workers, Step(w), Own(w), head' = head,
         Hand(w)' = Hand(w), Ring(w)' = Ring(w), Chain(w)' = Chain(w),
         stack' = stack, cache' = cache, flags' = flags, next' = next, fresh' = fresh, runs' = runs
  PROVE  Sound'
<1>1. /\ Types' /\ Chains' /\ Locally'
      /\ \A v \in Workers \ {w} : Hand(v)' = Hand(v) /\ Ring(v)' = Ring(v) /\ Chain(v)' = Chain(v)
      /\ \A q \in Queues \ {} : Stacked(q)' = Stacked(q) /\ Cached(q)' = Cached(q)
  <2>1. \A n \in New' : next'[n] = Null
    BY DEF New, Sound, Chains
  <2>2. w \in Queues
    BY Constants
  <2> QED BY <2>1, <2>2, Settles
<1>2. Placed'
  BY <1>1, Unmoving DEF Sound
<1> QED BY <1>1, <1>2 DEF Sound

\* A consumer publishes what it stored.
LEMMA PublishSound == ASSUME NoLap, Sound, NEW w \in Workers, Publish(w) PROVE Sound'
<1>1. /\ pc[w] = "publish" /\ reg[w] \in Regs
      /\ reg' = [reg EXCEPT ![w] = reg[w]] /\ pc' = [pc EXCEPT ![w] = "release"]
      /\ tail' = [tail EXCEPT ![w] = Plus(@, reg[w].pushed)]
      /\ UNCHANGED <<next, queue, array, head, fresh, runs>>
  BY DEF Publish, Goto, Sound, Types
<1>2. "release" \in Labels \ (Storing \cup {"extra", "take"})
  BY DEF Labels, Storing
<1>3. /\ Step(w) /\ reg'[w] = reg[w] /\ pc'[w] = "release" /\ head' = head
      /\ TailAt(w)' = EndAt(w) /\ HeadAt(w)' = HeadAt(w) /\ Hand(w)' = Hand(w)
      /\ stack' = stack /\ cache' = cache /\ flags' = flags
      /\ reg[w].pushed = 0 => tail'[w] = tail[w]
      /\ Unstored(w)' \in Int /\ Unstored(w)' <= Unstored(w) => RingOK(w)' /\ Ring(w)' = Ring(w)
  BY <1>1, <1>2, Published
<1>4. Unstored(w) = 0 /\ Unstored(w)' = 0
  BY <1>1, <1>3 DEF Unstored
<1>5. Chaining(w) /\ Chaining(w)' /\ Chain(w)' = Chain(w)
  BY <1>1, <1>3 DEF Chaining, Consuming, Chain, Hanging
<1>6. Proper(reg[w].first)'
  BY <1>1, <1>3, <1>5 DEF Sound, Chains, Proper, Hanging
<1>7. HandOK(w)'
  BY <1>1, <1>3 DEF Sound, Locally, HandOK, EmptyHanded, Handing, Searching, Stealing
<1>8. ThiefOK(w)' /\ BatchOK(w)'
  BY <1>3 DEF ThiefOK, BatchOK, Stealing
<1>9. Own(w)
  BY <1>3, <1>4, <1>6, <1>7, <1>8 DEF Own
<1> QED BY <1>1, <1>3, <1>4, <1>5, <1>9, Rests

\* The locals of a worker that has found its node.
LEMMA ResultReg ==
  ASSUME NEW n \in Nodes \cup {Null}, NEW r, r = [NoReg EXCEPT !.node = n]
  PROVE  r \in Regs /\ r.node = n
BY NoRegIsReg DEF NoReg, Regs

\* A thief publishes what it claimed, but for the node it runs.
LEMMA StealPublishSound == ASSUME NoLap, Sound, NEW w \in Workers, StealPublish(w) PROVE Sound'
<1> DEFINE r == [NoReg EXCEPT !.node = reg[w].node]
<1>1. /\ pc[w] = "steal_publish" /\ reg[w] \in Regs
      /\ reg' = [reg EXCEPT ![w] = r] /\ pc' = [pc EXCEPT ![w] = "run"]
      /\ tail' = [tail EXCEPT ![w] = Plus(@, reg[w].pushed)]
      /\ UNCHANGED <<next, queue, array, head, fresh, runs>>
  BY DEF StealPublish, Result, Goto, Sound, Types
<1>2. "run" \in Labels \ (Storing \cup {"extra", "take"})
  BY DEF Labels, Storing
<1>3. r \in Regs /\ r.node = reg[w].node
  BY <1>1, Locals, ResultReg
<1>4. /\ Step(w) /\ reg'[w] = r /\ pc'[w] = "run" /\ head' = head
      /\ TailAt(w)' = EndAt(w) /\ HeadAt(w)' = HeadAt(w) /\ Hand(w)' = Hand(w)
      /\ stack' = stack /\ cache' = cache /\ flags' = flags
      /\ Unstored(w)' \in Int /\ Unstored(w)' <= Unstored(w) => RingOK(w)' /\ Ring(w)' = Ring(w)
  BY <1>1, <1>2, <1>3, Published
<1> HIDE DEF r
<1>5. Unstored(w) = 0 /\ Unstored(w)' = 0
  BY <1>1, <1>4 DEF Unstored
<1>6. ~Chaining(w) /\ ~Chaining(w)' /\ Chain(w)' = Chain(w)
  BY <1>1, <1>4 DEF Chaining, Consuming, Chain
<1>7. HandOK(w)'
  BY <1>1, <1>3, <1>4 DEF Sound, Locally, HandOK, EmptyHanded, Handing, Searching, Stealing
<1>8. ThiefOK(w)' /\ BatchOK(w)'
  BY <1>4 DEF ThiefOK, BatchOK, Stealing
<1>9. Own(w)
  BY <1>4, <1>5, <1>6, <1>7, <1>8 DEF Own
<1> QED BY <1>1, <1>4, <1>5, <1>6, <1>9, Rests

\* A worker publishes the part of its batch that fitted.
LEMMA BufferPublishSound == ASSUME NoLap, Sound, NEW w \in Workers, BufferPublish(w) PROVE Sound'
<1> DEFINE rest == reg[w].first + reg[w].pushed
<1>1. /\ pc[w] = "fill_publish" /\ reg[w] \in Regs
      /\ tail' = [tail EXCEPT ![w] = Plus(@, reg[w].pushed)]
      /\ UNCHANGED <<next, queue, array, head, fresh, runs>>
  BY DEF BufferPublish, Sound, Types
<1>2. "run" \in Labels \ (Storing \cup {"extra", "take"})
      /\ "fill" \in Labels \ (Storing \cup {"extra", "take"})
  BY DEF Labels, Storing
<1>3. /\ reg[w].first \in Nodes /\ reg[w].last \in Nodes /\ reg[w].last < fresh
      /\ \A n \in Chain(w) : next[n] = IF n = reg[w].last THEN Null ELSE n + 1
      /\ reg[w].pushed > 0 /\ rest <= reg[w].last + 1 /\ reg[w].node # Null
      /\ reg[w].pushed \in Nat /\ rest \in Nat /\ reg[w].last \in Nat
  <2>1. reg[w].pushed \in Nat /\ reg[w].last \in Nat /\ reg[w].first \in Nat
    BY <1>1, Locals
  <2> QED BY <1>1, <2>1 DEF Sound, Locally, BatchOK, HandOK, Handing
<1>4. Chain(w) = rest .. reg[w].last /\ ~Chaining(w) /\ Unstored(w) = reg[w].last - rest + 1
  <2>1. Unstored(w) = reg[w].last - reg[w].first - reg[w].pushed + 1
    BY <1>1 DEF Unstored
  <2>2. reg[w].first \in Int
    BY <1>1, Locals
  <2> QED BY <1>1, <1>3, <2>1, <2>2 DEF Chain, Chaining, Consuming
<1>5. CASE rest > reg[w].last
  <2> DEFINE r == [NoReg EXCEPT !.node = reg[w].node]
  <2>1. reg' = [reg EXCEPT ![w] = r] /\ pc' = [pc EXCEPT ![w] = "run"]
    BY <1>5 DEF BufferPublish, Result, Goto
  <2>2. r \in Regs /\ r.node = reg[w].node
    BY <1>1, Locals, ResultReg
  <2>3. /\ Step(w) /\ reg'[w] = r /\ pc'[w] = "run" /\ head' = head
        /\ Hand(w)' = Hand(w) /\ stack' = stack /\ cache' = cache /\ flags' = flags
        /\ Unstored(w)' \in Int /\ Unstored(w)' <= Unstored(w) => RingOK(w)' /\ Ring(w)' = Ring(w)
    BY <1>1, <1>2, <2>1, <2>2, Published
  <2> HIDE DEF r
  <2>4. Unstored(w)' = 0 /\ Unstored(w) = 0 /\ ~Chaining(w)' /\ Chain(w)' = Chain(w)
    <3>1. Unstored(w)' = 0 /\ ~Chaining(w)' /\ Chain(w)' = {}
      BY <2>3 DEF Unstored, Chaining, Consuming, Chain
    <3> QED BY <1>3, <1>4, <1>5, <3>1
  <2>5. HandOK(w)'
    BY <1>3, <2>2, <2>3 DEF HandOK, EmptyHanded, Handing, Searching, Stealing
  <2>6. ThiefOK(w)' /\ BatchOK(w)'
    BY <2>3 DEF ThiefOK, BatchOK, Stealing
  <2>7. Own(w)
    BY <2>3, <2>4, <2>5, <2>6 DEF Own
  <2> QED BY <1>1, <2>3, <2>4, <2>7, Rests
<1>6. CASE rest <= reg[w].last
  <2> DEFINE r == [reg[w] EXCEPT !.first = rest, !.from = head[w]]
  <2>0. ~(rest > reg[w].last)
    BY <1>3, <1>6
  <2>1. reg' = [reg EXCEPT ![w] = r] /\ pc' = [pc EXCEPT ![w] = "fill"]
    BY <2>0 DEF BufferPublish, Goto, Sound, Types
  <2>2. rest \in Nodes /\ head[w] \in Index
    <3>1. reg[w].first >= 1 /\ reg[w].first \in Int /\ reg[w].last <= NodeCount
      BY <1>3, Constants DEF Nodes
    <3>2. rest >= 1 /\ rest <= NodeCount
      BY <1>3, <1>6, <3>1, Constants
    <3> QED BY <1>3, <3>2, Constants, Numbers
  <2>3. /\ r \in Regs /\ r.node = reg[w].node /\ r.first = rest /\ r.from = head[w]
        /\ r.last = reg[w].last
    BY <1>1, <2>2 DEF Regs
  <2> HIDE DEF r, rest
  <2>4. /\ Step(w) /\ reg'[w] = r /\ pc'[w] = "fill" /\ head' = head /\ TailAt(w)' = EndAt(w)
        /\ Hand(w)' = Hand(w) /\ stack' = stack /\ cache' = cache /\ flags' = flags
        /\ Unstored(w)' \in Int /\ Unstored(w)' <= Unstored(w) => RingOK(w)' /\ Ring(w)' = Ring(w)
    <3>1. r \in Regs /\ r.node = reg[w].node /\ pc[w] \in {"publish", "fill_publish", "steal_publish"}
      BY <1>1, <2>3
    <3> QED BY ONLY ZenonT(60), <1>1, <1>2, <2>1, <2>3, <3>1, NoLap, Sound, w \in Workers, Published
  <2>5. Unstored(w)' = reg[w].last - rest + 1 /\ ~Chaining(w)' /\ Chain(w)' = Chain(w)
    BY <1>4, <2>3, <2>4 DEF Unstored, Chaining, Consuming, Chain
  <2>6. HandOK(w)'
    BY <1>3, <2>3, <2>4 DEF HandOK, EmptyHanded, Handing, Searching, Stealing
  <2>7. ThiefOK(w)'
    BY <2>4 DEF ThiefOK, Stealing
  <2>8. BatchOK(w)'
    <3>1. HeadAt(w)' = HeadAt(w) /\ HeadAt(w) = Pos(head[w]) /\ HeadAt(w) \in Nat
          /\ EndAt(w) <= HeadAt(w) + Capacity
      BY <2>4, Numbers DEF HeadAt
    <3>2. Pos(reg'[w].from) = HeadAt(w)
      BY <2>3, <2>4, <3>1
    <3>3. fresh' = fresh /\ next' = next
      BY <1>1
    <3>4. reg'[w].first = rest /\ reg'[w].last = reg[w].last
      BY <2>3, <2>4
    <3>5. Pos(reg'[w].from) <= HeadAt(w)' /\ TailAt(w)' <= Pos(reg'[w].from) + Capacity
      BY <2>4, <3>1, <3>2
    <3> QED BY <1>3, <1>6, <2>2, <2>4, <2>5, <3>3, <3>4, <3>5 DEF BatchOK
  <2>9. Own(w)
    <3>1. Unstored(w)' \in Int /\ Unstored(w)' <= Unstored(w)
      BY <1>3, <1>4, <2>5
    <3> QED BY <2>4, <2>5, <2>6, <2>7, <2>8, <3>1 DEF Own
  <2>10. Ring(w)' = Ring(w)
    BY <1>3, <1>4, <2>4, <2>5
  <2> QED BY <1>1, <2>4, <2>5, <2>9, <2>10, Rests
<1> QED BY <1>3, <1>5, <1>6
-----------------------------------------------------------------------------
(* Writing the ring, running a node, and popping one.                        *)

\* What Stored writes is a ring again.
LEMMA StoredType ==
  ASSUME Types, NEW w \in Workers, NEW i \in Int, NEW f, NEW k \in 0 .. Capacity,
         \A d \in 0 .. k - 1 : f[d] \in Nodes \cup {Null}
  PROVE  Stored(w, i, f, k) \in [0 .. Capacity - 1 -> Nodes \cup {Null}]
<1>0. Capacity \in Nat \ {0}
  BY Constants
<1>1. Slot(i) \in Int /\ Capacity \in Nat \ {0}
  <2>1. Slot(i) \in 0 .. Capacity - 1
    BY Turn
  <2> QED BY <1>0, <2>1
<1>2. ASSUME NEW s \in 0 .. Capacity - 1
      PROVE  Stored(w, i, f, k)[s] \in Nodes \cup {Null}
  <2> DEFINE d == (s - Slot(i) + Capacity) % Capacity
  <2>1. d \in 0 .. Capacity - 1
    BY <1>1
  <2>2. Stored(w, i, f, k)[s] = IF d < k THEN f[d] ELSE array[w][s]
    BY DEF Stored
  <2>3. array[w][s] \in Nodes \cup {Null}
    <3>1. array \in [Workers -> [0 .. Capacity - 1 -> Nodes \cup {Null}]]
      BY ONLY Types DEF Types
    <3> QED BY ONLY <3>1, w \in Workers, s \in 0 .. Capacity - 1
  <2> HIDE DEF d
  <2> QED BY <2>1, <2>2, <2>3
<1> QED BY <1>2 DEF Stored

\* A step of w that writes cells of its ring beyond the tail.
Writing(w, l, r, a) ==
  /\ l \in Labels /\ r \in Regs /\ a \in [0 .. Capacity - 1 -> Nodes \cup {Null}]
  /\ pc' = [pc EXCEPT ![w] = l] /\ reg' = [reg EXCEPT ![w] = r] /\ array' = [array EXCEPT ![w] = a]
  /\ UNCHANGED <<next, head, tail, fresh, runs, cache, flags>>
  /\ stack' \in [Queues -> Nodes \cup {Null}]
  /\ reg[w].node = Null \/ r.node = reg[w].node
  /\ \A j \in HeadAt(w) .. TailAt(w) - 1 : a[Cell(j)] = At(w, j)

\* A step that stores nodes beyond the tail of its worker's ring.
LEMMA Writes ==
  ASSUME Sound, NEW w \in Workers, NEW l, NEW r, NEW a, Writing(w, l, r, a)
  PROVE  /\ Step(w) /\ reg'[w] = r /\ pc'[w] = l
         /\ \A v \in Workers : HeadAt(v)' = HeadAt(v) /\ TailAt(v)' = TailAt(v)
         /\ \A j : At(w, j)' = a[Cell(j)]
         /\ \A v \in Workers \ {w} : \A j : At(v, j)' = At(v, j)
<1>0. /\ l \in Labels /\ r \in Regs /\ a \in [0 .. Capacity - 1 -> Nodes \cup {Null}]
      /\ pc' = [pc EXCEPT ![w] = l] /\ reg' = [reg EXCEPT ![w] = r] /\ array' = [array EXCEPT ![w] = a]
      /\ UNCHANGED <<next, head, tail, fresh, runs, cache, flags>>
      /\ stack' \in [Queues -> Nodes \cup {Null}]
      /\ reg[w].node = Null \/ r.node = reg[w].node
      /\ \A j \in HeadAt(w) .. TailAt(w) - 1 : a[Cell(j)] = At(w, j)
  BY DEF Writing
<1>1. /\ reg'[w] = r /\ pc'[w] = l /\ array'[w] = a
      /\ \A v \in Workers \ {w} : reg'[v] = reg[v] /\ pc'[v] = pc[v] /\ array'[v] = array[v]
  BY <1>0 DEF Sound, Types
<1>2. Types'
  <2>1. array' \in [Workers -> [0 .. Capacity - 1 -> Nodes \cup {Null}]]
    BY <1>0 DEF Sound, Types
  <2> QED BY <1>0, <1>1, <2>1 DEF Sound, Types
<1>3. Taken \subseteq Taken'
  BY <1>0, <1>1, TakenStays
<1>4. /\ \A v \in Workers : HeadAt(v)' = HeadAt(v) /\ TailAt(v)' = TailAt(v)
      /\ \A j : At(w, j)' = a[Cell(j)]
      /\ \A v \in Workers \ {w} : \A j : At(v, j)' = At(v, j)
  BY <1>0, <1>1 DEF HeadAt, TailAt, At
<1>5. /\ \A v \in Workers : HeadAt(v) \in Nat /\ TailAt(v) \in Nat
      /\ fresh \in Nat
  BY IndexNat, Constants DEF Sound, Types, HeadAt, TailAt
<1>6. Step(w)
  BY <1>0, <1>1, <1>2, <1>3, <1>4, <1>5 DEF Step
<1> QED BY <1>1, <1>4, <1>6

\* A thief copies cells that the victim may lose meanwhile.
LEMMA StealCopySound == ASSUME NoLap, Sound, NEW w \in Workers, StealCopy(w) PROVE Sound'
<1> DEFINE v == reg[w].victim
           copy == [d \in 0 .. Capacity - 1 |-> array[v][Slot(reg[w].from + d)]]
           a == Stored(w, tail[w], copy, reg[w].pushed)
<1>1. /\ pc[w] = "steal_copy" /\ reg[w].node = Null /\ head[w] = tail[w] /\ reg[w] \in Regs
      /\ v \in Workers \ {w} /\ reg[w].from \in Index /\ reg[w].pushed \in 0 .. Capacity
      /\ Pos(reg[w].from) <= HeadAt(v) /\ reg[w].pushed > 0
      /\ Pos(reg[w].from) + reg[w].pushed <= TailAt(v)
  <2>1. pc[w] = "steal_copy"
    BY DEF StealCopy
  <2>2. /\ v \in Workers \ {w} /\ Pos(reg[w].from) <= HeadAt(v)
        /\ reg[w].pushed > 0 /\ Pos(reg[w].from) + reg[w].pushed <= TailAt(v)
    BY <2>1 DEF Sound, Locally, ThiefOK, Stealing
  <2> QED BY <2>1, <2>2, Empty, Numbers, Locals DEF Stealing
<1>2. /\ reg' = [reg EXCEPT ![w] = reg[w]] /\ pc' = [pc EXCEPT ![w] = "steal_claim"]
      /\ array' = [array EXCEPT ![w] = a]
      /\ UNCHANGED <<next, head, tail, fresh, runs, cache, flags, stack>>
  BY DEF StealCopy, Goto, Sound, Types, queue
<1>3. \A d \in 0 .. Capacity - 1 : copy[d] = At(v, Pos(reg[w].from) + d) /\ copy[d] \in Nodes
      \cup {Null}
  <2> SUFFICES ASSUME NEW d \in 0 .. Capacity - 1
               PROVE  copy[d] = At(v, Pos(reg[w].from) + d) /\ copy[d] \in Nodes \cup {Null}
    OBVIOUS
  <2>1. Slot(reg[w].from + d) = Cell(Pos(reg[w].from) + d)
    BY <1>1, CellOf
  <2>2. reg[w].from + d \in Int
    BY <1>1, IndexNat
  <2>3. Slot(reg[w].from + d) \in 0 .. Capacity - 1
    BY <2>2, Turn
  <2>4. array[v] \in [0 .. Capacity - 1 -> Nodes \cup {Null}]
    BY <1>1 DEF Sound, Types
  <2> QED BY <2>1, <2>3, <2>4 DEF At
<1>4. /\ tail[w] \in Int /\ TailAt(w) \in Int /\ Slot(tail[w]) = Cell(TailAt(w))
      /\ HeadAt(w) = TailAt(w)
  <2>1. tail[w] \in Index
    BY Numbers
  <2>2. Slot(tail[w] + 0) = Cell(Pos(tail[w]) + 0)
    BY <2>1, CellOf
  <2>3. tail[w] \in Nat /\ Pos(tail[w]) \in Nat
    BY <2>1, IndexNat
  <2> QED BY <1>1, <2>2, <2>3 DEF TailAt, HeadAt
<1>5. a \in [0 .. Capacity - 1 -> Nodes \cup {Null}]
  <2>1. \A d \in 0 .. reg[w].pushed - 1 : copy[d] \in Nodes \cup {Null}
    BY <1>1, <1>3, Constants
  <2> HIDE DEF copy
  <2> QED BY <1>1, <1>4, <2>1, StoredType DEF Sound
<1>6. \A d \in 0 .. reg[w].pushed - 1 : a[Cell(TailAt(w) + d)] = copy[d]
  <2> HIDE DEF copy
  <2> QED BY <1>1, <1>4, StoredAt
<1>7. "steal_claim" \in Labels /\ stack' \in [Queues -> Nodes \cup {Null}]
  BY <1>2 DEF Labels, Sound, Types
<1>8. \A j \in HeadAt(w) .. TailAt(w) - 1 : a[Cell(j)] = At(w, j)
  BY <1>4
<1> HIDE DEF a, copy, v
<1>16. Writing(w, "steal_claim", reg[w], a)
  BY <1>1, <1>2, <1>5, <1>7, <1>8 DEF Writing
<1>9. /\ Step(w) /\ reg'[w] = reg[w] /\ pc'[w] = "steal_claim"
      /\ \A u \in Workers : HeadAt(u)' = HeadAt(u) /\ TailAt(u)' = TailAt(u)
      /\ \A j : At(w, j)' = a[Cell(j)]
      /\ \A u \in Workers \ {w} : \A j : At(u, j)' = At(u, j)
  BY <1>16, Writes
<1>10. /\ Ahead(w) = 0 /\ Ahead(w)' = 0 /\ Unstored(w) = 0 /\ Unstored(w)' = 0
       /\ Chain(w) = {} /\ Chain(w)' = {} /\ ~Chaining(w)'
  BY <1>1, <1>9 DEF Ahead, Storing, Unstored, Chain, Chaining, Consuming
<1>11. RingOK(w)' /\ Ring(w)' = Ring(w)
  <2>1. EndAt(w) = TailAt(w) /\ EndAt(w)' = TailAt(w) /\ TailAt(w)' = TailAt(w)
        /\ HeadAt(w)' = HeadAt(w)
    BY <1>4, <1>9, <1>10 DEF EndAt
  <2>2. Mark(w)' = TailAt(w) /\ Mark(w) = TailAt(w)
    BY <1>1, <1>4, <1>9, <1>10, <2>1 DEF Mark
  <2>3. Occupied(w) = {}
    BY <1>4, <2>1 DEF Occupied
  <2> QED BY <1>4, <1>9, <2>1, <2>2, <2>3, Numbers, RingSame
<1>12. HandOK(w)' /\ Hand(w)' = Hand(w)
  BY <1>1, <1>2, <1>9 DEF HandOK, Hand, Handing, Stealing
<1>13. ThiefOK(w)'
  <2>1. /\ reg'[w].victim = v /\ reg'[w].from = reg[w].from /\ reg'[w].pushed = reg[w].pushed
    BY <1>9 DEF v
  <2>3. PICK u, at, t : u = v /\ at = Pos(reg[w].from) /\ t = TailAt(w)
    OBVIOUS
  <2>2. HeadAt(u)' = HeadAt(u) /\ TailAt(u)' = TailAt(u) /\ u = reg'[w].victim /\ u \in Workers \ {w}
    BY <1>1, <1>9, <2>1, <2>3
  <2>4. ASSUME NEW i \in 0 .. reg[w].pushed - 1
        PROVE  At(w, t + i)' = At(u, at + i)'
    <3>1. At(w, t + i)' = copy[i]
      BY <1>6, <1>9, <2>3
    <3>2. i \in 0 .. Capacity - 1
      BY <1>1, Constants
    <3>3. At(u, at + i)' = At(u, at + i)
      BY <1>9, <2>2
    <3> QED BY <1>3, <2>3, <3>1, <3>2, <3>3
  <2>5. /\ u \in Workers \ {w} /\ at <= HeadAt(u)' /\ reg'[w].pushed > 0
              /\ at + reg'[w].pushed <= TailAt(u)'
        /\ u = reg'[w].victim /\ at = Pos(reg'[w].from)
        /\ \A i \in 0 .. reg'[w].pushed - 1 : At(w, TailAt(w) + i)' = At(u, at + i)'
    <3>1. TailAt(w)' = t
      BY <1>9, <2>3
    <3> QED BY <1>1, <2>1, <2>2, <2>3, <2>4, <3>1
  <2> QED BY <1>9, <2>5 DEF ThiefOK
<1>14. BatchOK(w)'
  BY <1>9 DEF BatchOK
<1>15. Own(w)
  BY <1>10, <1>11, <1>12, <1>13, <1>14 DEF Own
<1> QED BY <1>2, <1>9, <1>10, <1>11, <1>12, <1>15, Rests

\* No node is in two places.
LEMMA SpotsApart ==
  ASSUME Sound, NEW s \in Spots, NEW t \in Spots, s # t
  PROVE  Where[s] \cap Where[t] = {}
BY WhereIs DEF Sound, Placed, Apart

\* A node in a queue has not been taken yet.
LEMMA NotTaken ==
  ASSUME Sound, NEW s \in Spots, \A w \in Workers : s # <<"hand", w>>, s # <<"done", Pool>>,
         NEW n \in Nodes, n \in Where[s]
  PROVE  n \notin Taken /\ runs[n] = 0 /\ \A w \in Workers : reg[w].node # n
<1>1. Apart(Where) /\ runs \in [Nodes -> {0, 1}]
  BY DEF Sound, Placed, Types
<1>2. runs[n] = 0
  <2>1. n \notin Where[<<"done", Pool>>]
    BY <1>1, WhereIs DEF Apart
  <2> QED BY <1>1, <2>1, WhereIs DEF Done
<1>3. ASSUME NEW w \in Workers PROVE reg[w].node # n
  <2>1. n \notin Where[<<"hand", w>>]
    BY <1>1, WhereIs DEF Apart
  <2>2. n # Null
    BY NullIsNoNode
  <2> QED BY <2>1, <2>2, WhereIs DEF Hand
<1> QED BY <1>2, <1>3 DEF Taken
\* A node that ran is done.
LEMMA RunSound == ASSUME NoLap, Sound, NEW w \in Workers, Run(w) PROVE Sound'
<1> DEFINE n == reg[w].node
<1>1. /\ pc[w] = "run" /\ reg[w] \in Regs /\ n \in Nodes
      /\ runs' = [runs EXCEPT ![n] = @ + 1] /\ reg' = [reg EXCEPT ![w] = NoReg]
      /\ pc' = [pc EXCEPT ![w] = "pop"]
      /\ UNCHANGED <<next, stack, flags, cache, array, head, tail, fresh>>
  <2>1. pc[w] = "run" /\ reg[w] \in Regs
    BY Numbers DEF Run
  <2>2. n \in Nodes
    BY <2>1, Locals DEF Sound, Locally, HandOK, Handing
  <2> QED BY <2>1, <2>2 DEF Run, Goto, queue, ring
<1>2. /\ reg'[w] = NoReg /\ pc'[w] = "pop"
      /\ \A v \in Workers \ {w} : reg'[v] = reg[v] /\ pc'[v] = pc[v]
  BY <1>1 DEF Sound, Types
<1>3. runs[n] = 0
  <2>1. runs \in [Nodes -> {0, 1}]
    BY DEF Sound, Types
  <2>2. n \in Hand(w)
    BY <1>1, NullIsNoNode DEF Hand
  <2>3. n \notin Done
    <3>1. <<"hand", w>> \in Spots /\ <<"done", Pool>> \in Spots /\ <<"hand", w>> # <<"done", Pool>>
      BY WhereIs
    <3>2. Where[<<"hand", w>>] \cap Where[<<"done", Pool>>] = {}
      BY <3>1, SpotsApart
    <3> QED BY <2>2, <3>2, WhereIs
  <2> QED BY <1>1, <2>1, <2>3 DEF Done
<1>4. runs' \in [Nodes -> {0, 1}] /\ runs'[n] = 1 /\ \A m \in Nodes \ {n} : runs'[m] = runs[m]
  BY <1>1, <1>3 DEF Sound, Types
<1> HIDE DEF n
<1>5. Types'
  <2>1. reg' \in [Workers -> Regs] /\ pc' \in [Workers -> Labels]
    BY <1>1, NoRegIsReg DEF Sound, Types, Labels
  <2> QED BY <1>1, <1>4, <2>1 DEF Sound, Types
<1>6. Taken \subseteq Taken'
  <2> SUFFICES ASSUME NEW m \in Nodes, runs[m] # 0 \/ \E v \in Workers : reg[v].node = m
               PROVE  runs'[m] # 0 \/ \E v \in Workers : reg'[v].node = m
    BY DEF Taken
  <2>1. CASE m = n
    BY <1>4, <2>1
  <2>2. CASE m # n
    BY <1>2, <1>4, <2>2 DEF n
  <2> QED BY <2>1, <2>2
<1>7. /\ \A v \in Workers : HeadAt(v)' = HeadAt(v) /\ TailAt(v)' = TailAt(v)
      /\ \A v \in Workers : \A j : At(v, j)' = At(v, j)
  BY <1>1 DEF HeadAt, TailAt, At
<1>8. Step(w)
  <2>1. /\ \A v \in Workers : HeadAt(v) \in Nat /\ TailAt(v) \in Nat
        /\ fresh \in Nat
    BY IndexNat, Constants DEF Sound, Types, HeadAt, TailAt
  <2> QED BY <1>1, <1>2, <1>5, <1>6, <1>7, <2>1 DEF Step, At
<1>9. /\ Ahead(w) = 0 /\ Ahead(w)' = 0 /\ Unstored(w) = 0 /\ Unstored(w)' = 0
      /\ Chain(w) = {} /\ Chain(w)' = {} /\ ~Chaining(w)'
  BY <1>1, <1>2 DEF Ahead, Storing, Unstored, Chain, Chaining, Consuming
<1>10. RingOK(w)' /\ Ring(w)' = Ring(w)
  <2>1. EndAt(w)' = EndAt(w) /\ EndAt(w) = TailAt(w) /\ TailAt(w)' = TailAt(w) /\ TailAt(w) \in Nat
    BY <1>7, <1>9, Numbers DEF EndAt
  <2>2. Mark(w)' = TailAt(w) /\ Mark(w) = TailAt(w)
    BY <1>1, <1>2, <1>7, <1>9, <2>1 DEF Mark
  <2> QED BY <1>7, <1>8, <2>1, <2>2, RingSame
<1>11. HandOK(w)' /\ ThiefOK(w)' /\ BatchOK(w)'
  BY <1>2, NoRegIsReg DEF HandOK, ThiefOK, BatchOK, Handing, Searching, Stealing
<1>12. /\ Types' /\ Chains' /\ Locally'
       /\ \A v \in Workers \ {w} : Hand(v)' = Hand(v) /\ Ring(v)' = Ring(v) /\ Chain(v)' = Chain(v)
       /\ \A q \in Queues \ {} : Stacked(q)' = Stacked(q) /\ Cached(q)' = Cached(q)
  <2>1. \A m \in New' : next'[m] = Null
    BY <1>1 DEF New, Sound, Chains
  <2>2. w \in Queues /\ Own(w)
    BY <1>9, <1>10, <1>11, Constants DEF Own
  <2> QED BY <1>1, <1>8, <2>1, <2>2, Settles
<1>13. Placed'
  <2> DEFINE a == <<"hand", w>>
             b == <<"done", Pool>>
  <2>1. a \in Spots /\ b \in Spots /\ a # b
    BY WhereIs
  <2>2. New' = New
    BY <1>1 DEF New
  <2>3. \A v \in Workers : /\ <<"hand", v>> \in {a, b} \/ Hand(v)' = Hand(v)
                           /\ Ring(v)' = Ring(v) /\ Chain(v)' = Chain(v)
    BY <1>9, <1>10, <1>12
  <2>4. \A s \in DOMAIN Where \ {a, b} : Where'[s] = Where[s]
    BY <1>12, <2>1, <2>2, <2>3, OthersStay
  <2>5. Hand(w) = {n} /\ Hand(w)' = {} /\ Done' = Done \cup {n}
    BY <1>1, <1>2, <1>4, NoRegIsReg, NullIsNoNode DEF Hand, Done, n
  <2>6. /\ Where[a] = Hand(w) /\ Where[b] = Done /\ Where'[a] = Hand(w)' /\ Where'[b] = Done'
    BY WhereIs, WhereNext
  <2> HIDE DEF a, b
  <2>7. Where'[a] \cap Where'[b] = {} /\ Where'[a] \cup Where'[b] = Where[a] \cup Where[b]
    BY <2>5, <2>6
  <2> QED BY <2>1, <2>4, <2>7, TwoMove DEF Sound
<1> QED BY <1>12, <1>13 DEF Sound

\* A worker takes the oldest node of its own ring.
LEMMA PopBufferSound == ASSUME NoLap, Sound, NEW w \in Workers, PopBuffer(w) PROVE Sound'
<1>1. pc[w] = "pop" /\ reg[w].node = Null /\ reg[w] \in Regs
      /\ UNCHANGED <<next, queue, array, tail, fresh, runs>>
  BY Numbers DEF PopBuffer, Sound, Locally, HandOK, EmptyHanded
<1>2. CASE head[w] = tail[w]
  <2> DEFINE r == [NoReg EXCEPT !.q = w]
  <2>1. reg' = [reg EXCEPT ![w] = r] /\ pc' = [pc EXCEPT ![w] = "acquire"] /\ head' = head
    BY <1>2 DEF PopBuffer, Goto
  <2>2. r \in Regs /\ r.node = Null
    BY NoRegIsReg, Constants DEF NoReg, Regs
  <2>3. pc'[w] = "acquire"
    BY <2>1 DEF Sound, Types
  <2>4. ThiefOK(w)'
    BY <2>3 DEF ThiefOK, Stealing
  <2>5. UNCHANGED <<next, queue, ring, fresh, runs>>
    BY <1>1, <2>1 DEF ring
  <2> QED BY <1>1, <1>2, <2>1, <2>2, <2>4, <2>5, Search
<1>3. CASE head[w] # tail[w]
  <2> DEFINE n == array[w][Slot(head[w])]
             r == [NoReg EXCEPT !.node = n]
  <2>1. /\ head' = [head EXCEPT ![w] = Plus(@, 1)]
        /\ reg' = [reg EXCEPT ![w] = r] /\ pc' = [pc EXCEPT ![w] = "run"]
        /\ UNCHANGED <<next, stack, flags, cache, array, tail, fresh, runs>>
    BY <1>3 DEF PopBuffer, Result, Goto, queue
  <2>2. /\ HeadAt(w) \in Nat /\ TailAt(w) \in Nat /\ HeadAt(w) < TailAt(w) /\ head[w] \in Index
        /\ EndAt(w) = TailAt(w) /\ Ahead(w) = 0 /\ TailAt(w) < IndexSize
              /\ TailAt(w) <= HeadAt(w) + Capacity
    <3>1. Ahead(w) = 0
      BY <1>1 DEF Ahead, Storing
    <3>2. HeadAt(w) # TailAt(w)
      BY <1>3, SamePosition, Numbers DEF HeadAt, TailAt
    <3> QED BY <3>1, <3>2, Numbers
  <2>3. n = At(w, HeadAt(w))
    <3>1. Slot(head[w] + 0) = Cell(Pos(head[w]) + 0)
      BY <2>2, CellOf
    <3>2. head[w] + 0 = head[w] /\ Pos(head[w]) + 0 = Pos(head[w])
      BY <2>2, IndexNat
    <3> QED BY <3>1, <3>2 DEF At, HeadAt
  <2>4. n \in Nodes /\ n \in Ring(w)
    <3>1. HeadAt(w) \in Occupied(w)
      BY <2>2 DEF Occupied
    <3> QED BY <2>3, <3>1 DEF Sound, Locally, RingOK, Ring
  <2>5. r \in Regs /\ r.node = n
    BY <2>4, ResultReg
  <2> HIDE DEF n, r
  <2>6. /\ reg'[w] = r /\ pc'[w] = "run" /\ head'[w] = Plus(head[w], 1)
        /\ \A v \in Workers \ {w} : reg'[v] = reg[v] /\ pc'[v] = pc[v] /\ head'[v] = head[v]
    BY <2>1 DEF Sound, Types
  <2>7. head'[w] \in Index /\ HeadAt(w)' = HeadAt(w) + 1
    <3>1. Pos(head[w]) + 1 < IndexSize
      BY <2>2, Constants DEF HeadAt
    <3>2. Plus(head[w], 1) \in Index /\ Pos(Plus(head[w], 1)) = Pos(head[w]) + 1
      BY <2>2, <3>1, Advance
    <3> QED BY <2>6, <3>2 DEF HeadAt
  <2>8. Types'
    <3>1. head' \in [Workers -> Index]
      BY <2>1, <2>6, <2>7 DEF Sound, Types
    <3>2. reg' \in [Workers -> Regs] /\ pc' \in [Workers -> Labels]
      BY <2>1, <2>5 DEF Sound, Types, Labels
    <3> QED BY <2>1, <3>1, <3>2 DEF Sound, Types
  <2>9. Taken \subseteq Taken'
    BY <1>1, <2>1, <2>6, TakenStays
  <2>10. TailAt(w)' = TailAt(w) /\ \A v \in Workers : \A j : At(v, j)' = At(v, j)
    BY <2>1 DEF TailAt, At
  <2>11. Step(w)
    <3>1. \A v \in Workers : HeadAt(v) <= HeadAt(v)' /\ TailAt(v) <= TailAt(v)'
      <4> SUFFICES ASSUME NEW v \in Workers PROVE HeadAt(v) <= HeadAt(v)' /\ TailAt(v) <= TailAt(v)'
        OBVIOUS
      <4>1. TailAt(v)' = TailAt(v) /\ HeadAt(v) \in Nat /\ TailAt(v) \in Nat
        BY <2>1, Numbers DEF TailAt
      <4>2. CASE v = w
        BY <2>7, <4>1, <4>2
      <4>3. CASE v # w
        BY <2>6, <4>1, <4>3 DEF HeadAt
      <4> QED BY <4>1, <4>2, <4>3
    <3>2. fresh \in Nat
      BY Constants DEF Sound, Types
    <3> QED BY <2>1, <2>6, <2>8, <2>9, <2>10, <3>1, <3>2 DEF Step
  <2>12. /\ Ahead(w)' = 0 /\ Unstored(w) = 0 /\ Unstored(w)' = 0
         /\ Chain(w) = {} /\ Chain(w)' = {} /\ ~Chaining(w)'
    BY <1>1, <2>6 DEF Ahead, Storing, Unstored, Chain, Chaining, Consuming
  <2>13. EndAt(w)' = EndAt(w)
    BY <2>2, <2>10, <2>12 DEF EndAt
  <2>14. /\ Occupied(w) = HeadAt(w) .. TailAt(w) - 1 /\ Occupied(w)' = HeadAt(w) + 1 .. TailAt(w) - 1
         /\ \A i, j \in Occupied(w) : At(w, i) \in Nodes /\ (At(w, i) = At(w, j) => i = j)
    BY <2>2, <2>7, <2>13 DEF Occupied, Sound, Locally, RingOK
  <2>15. Ring(w)' = Ring(w) \ {n}
    <3>1. Ring(w)' = {At(w, j) : j \in HeadAt(w) + 1 .. TailAt(w) - 1}
      BY <2>10, <2>14 DEF Ring
    <3>2. Occupied(w) = {HeadAt(w)} \cup (HeadAt(w) + 1 .. TailAt(w) - 1)
      BY <2>2, <2>14
    <3>3. HeadAt(w) \notin HeadAt(w) + 1 .. TailAt(w) - 1
      BY <2>2
    <3> QED BY <2>3, <2>14, <3>1, <3>2, <3>3 DEF Ring
  <2>16. RingOK(w)'
    <3>1. Mark(w)' = TailAt(w) /\ Mark(w) = TailAt(w)
      BY <1>1, <2>2, <2>6, <2>10, <2>12, <2>13 DEF Mark
    <3>2. Mark(w) <= Limit /\ Limit \in Int /\ Limit' \in Int /\ Limit <= Limit'
      BY <2>11, RingParts, LimitGrows, Constants DEF Sound, Locally
    <3>3. Mark(w)' <= Limit'
      BY <2>2, <3>1, <3>2
    <3>4. \A i, j \in Occupied(w)' : At(w, i)' \in Nodes /\ (At(w, i)' = At(w, j)' => i = j)
      <4>1. Occupied(w)' \subseteq Occupied(w)
        BY <2>2, <2>14
      <4> QED BY <2>10, <2>14, <4>1
    <3>5. HeadAt(w)' <= TailAt(w)' /\ EndAt(w)' <= HeadAt(w)' + Capacity
      BY <2>2, <2>7, <2>10, <2>13, Constants
    <3> QED BY <3>3, <3>4, <3>5 DEF RingOK, Mark, Limit
  <2>17. HandOK(w)' /\ ThiefOK(w)' /\ BatchOK(w)'
    BY <2>4, <2>5, <2>6, NullIsNoNode DEF HandOK, ThiefOK, BatchOK, EmptyHanded, Searching, Stealing
  <2>18. /\ Types' /\ Chains' /\ Locally'
         /\ \A v \in Workers \ {w} : Hand(v)' = Hand(v) /\ Ring(v)' = Ring(v) /\ Chain(v)' = Chain(v)
         /\ \A q \in Queues \ {} : Stacked(q)' = Stacked(q) /\ Cached(q)' = Cached(q)
    <3>1. \A m \in New' : next'[m] = Null
      BY <2>1 DEF New, Sound, Chains
    <3>2. w \in Queues /\ Own(w)
      BY <2>12, <2>16, <2>17, Constants DEF Own
    <3> QED BY <2>1, <2>6, <2>11, <3>1, <3>2, Settles
  <2>19. Placed'
    <3> DEFINE a == <<"ring", w>>
               b == <<"hand", w>>
    <3>1. a \in Spots /\ b \in Spots /\ a # b
      BY WhereIs
    <3>2. New' = New /\ Done' = Done
      BY <2>1 DEF New, Done
    <3>3. \A v \in Workers : /\ <<"hand", v>> \in {a, b} \/ Hand(v)' = Hand(v)
                             /\ <<"ring", v>> \in {a, b} \/ Ring(v)' = Ring(v)
                             /\ Chain(v)' = Chain(v)
      BY <2>12, <2>18
    <3>4. \A s \in DOMAIN Where \ {a, b} : Where'[s] = Where[s]
      BY <2>18, <3>1, <3>2, <3>3, OthersStay
    <3>5. Hand(w) = {} /\ Hand(w)' = {n}
      BY <1>1, <2>4, <2>5, <2>6, NullIsNoNode DEF Hand
    <3>6. /\ Where[a] = Ring(w) /\ Where[b] = Hand(w) /\ Where'[a] = Ring(w)' /\ Where'[b] = Hand(w)'
      BY WhereIs, WhereNext
    <3> HIDE DEF a, b
    <3>7. Where'[a] \cap Where'[b] = {} /\ Where'[a] \cup Where'[b] = Where[a] \cup Where[b]
      BY <2>4, <2>15, <3>5, <3>6
    <3> QED BY <3>1, <3>4, <3>7, TwoMove DEF Sound
  <2> QED BY <2>18, <2>19 DEF Sound
<1> QED BY <1>2, <1>3
-----------------------------------------------------------------------------
(* What a consumer moves: between the queue, its chain, its ring and hand.   *)

Near(w, q) == {<<"hand", w>>, <<"ring", w>>, <<"chain", w>>, <<"stack", q>>, <<"cache", q>>}

\* Only the places of w and q can change.
LEMMA FarStay ==
  ASSUME NEW w \in Workers, NEW q \in Queues,
         \A v \in Workers \ {w} : Hand(v)' = Hand(v) /\ Ring(v)' = Ring(v) /\ Chain(v)' = Chain(v),
         \A p \in Queues \ {q} : Stacked(p)' = Stacked(p) /\ Cached(p)' = Cached(p),
         fresh' = fresh, runs' = runs,
         NEW M \in SUBSET Near(w, q), \A s \in Near(w, q) \ M : Where'[s] = Where[s]
  PROVE  M \in SUBSET Spots /\ \A s \in DOMAIN Where \ M : Where'[s] = Where[s]
<1>1. New' = New /\ Done' = Done
  BY DEF New, Done
<1>2. M \in SUBSET Spots
  BY WhereIs DEF Near
<1>3. \A v \in Workers : /\ <<"hand", v>> \in M \/ Hand(v)' = Hand(v)
                         /\ <<"ring", v>> \in M \/ Ring(v)' = Ring(v)
                         /\ <<"chain", v>> \in M \/ Chain(v)' = Chain(v)
  <2> SUFFICES ASSUME NEW v \in Workers
               PROVE  /\ <<"hand", v>> \in M \/ Hand(v)' = Hand(v)
                      /\ <<"ring", v>> \in M \/ Ring(v)' = Ring(v)
                      /\ <<"chain", v>> \in M \/ Chain(v)' = Chain(v)
    OBVIOUS
  <2>1. CASE v = w
    BY <2>1, WhereIs, WhereNext DEF Near
  <2>2. CASE v # w
    BY <2>2
  <2> QED BY <2>1, <2>2
<1>4. \A p \in Queues : /\ <<"stack", p>> \in M \/ Stacked(p)' = Stacked(p)
                        /\ <<"cache", p>> \in M \/ Cached(p)' = Cached(p)
  <2> SUFFICES ASSUME NEW p \in Queues
               PROVE  /\ <<"stack", p>> \in M \/ Stacked(p)' = Stacked(p)
                      /\ <<"cache", p>> \in M \/ Cached(p)' = Cached(p)
    OBVIOUS
  <2>1. CASE p = q
    BY <2>1, WhereIs, WhereNext DEF Near
  <2>2. CASE p # q
    BY <2>2
  <2> QED BY <2>1, <2>2
<1> QED BY <1>1, <1>2, <1>3, <1>4, OthersStay

\* A step of w on the queue q that moves nodes between a, b and c.
LEMMA Consumes ==
  ASSUME NoLap, Sound, NEW w \in Workers, Step(w), Own(w), head' = head, next' = next, fresh' = fresh,
         runs' = runs, NEW q \in Queues,
         \A p \in Queues \ {q} : stack'[p] = stack[p] /\ cache'[p] = cache[p] /\ flags'[p] = flags[p],
         Proper(stack[q])', CacheOK(q)',
         NEW a \in Near(w, q), NEW b \in Near(w, q), NEW c \in Near(w, q), a # b, b # c, a # c,
         \A s \in Near(w, q) \ {a, b, c} : Where'[s] = Where[s],
         Where'[a] \cap Where'[b] = {}, Where'[b] \cap Where'[c] = {}, Where'[a] \cap Where'[c] = {},
         Where'[a] \cup Where'[b] \cup Where'[c] = Where[a] \cup Where[b] \cup Where[c]
  PROVE  Sound'
<1>1. /\ Types' /\ Chains' /\ Locally'
      /\ \A v \in Workers \ {w} : Hand(v)' = Hand(v) /\ Ring(v)' = Ring(v) /\ Chain(v)' = Chain(v)
      /\ \A p \in Queues \ {q} : Stacked(p)' = Stacked(p) /\ Cached(p)' = Cached(p)
  <2>1. \A n \in New' : next'[n] = Null
    BY DEF New, Sound, Chains
  <2>2. w \in Queues /\ {q} \in SUBSET Queues
    BY Constants
  <2> QED BY <2>1, <2>2, Settles
<1>2. /\ {a, b, c} \in SUBSET Spots
      /\ \A s \in DOMAIN Where \ {a, b, c} : Where'[s] = Where[s]
  <2>1. {a, b, c} \in SUBSET Near(w, q)
    OBVIOUS
  <2> QED BY <1>1, <2>1, FarStay
<1>3. a \in Spots /\ b \in Spots /\ c \in Spots /\ Placed
  BY <1>2 DEF Sound
<1>4. Placed'
  BY <1>2, <1>3, ThreeMove
<1> QED BY <1>1, <1>4 DEF Sound

\* The places of a worker and of a queue, before and after.
LEMMA NearIs ==
  ASSUME NEW w \in Workers, NEW q \in Queues
  PROVE  /\ Where[<<"hand", w>>] = Hand(w) /\ Where'[<<"hand", w>>] = Hand(w)'
         /\ Where[<<"ring", w>>] = Ring(w) /\ Where'[<<"ring", w>>] = Ring(w)'
         /\ Where[<<"chain", w>>] = Chain(w) /\ Where'[<<"chain", w>>] = Chain(w)'
         /\ Where[<<"stack", q>>] = Stacked(q) /\ Where'[<<"stack", q>>] = Stacked(q)'
         /\ Where[<<"cache", q>>] = Cached(q) /\ Where'[<<"cache", q>>] = Cached(q)'
         /\ Near(w, q) \subseteq Spots
BY WhereIs, WhereNext DEF Near

\* These places share no node.
LEMMA NearApart ==
  ASSUME Sound, NEW w \in Workers, NEW q \in Queues
  PROVE  /\ Hand(w) \cap Ring(w) = {} /\ Hand(w) \cap Chain(w) = {} /\ Hand(w) \cap Stacked(q) = {}
         /\ Hand(w) \cap Cached(q) = {} /\ Ring(w) \cap Chain(w) = {} /\ Ring(w) \cap Stacked(q) = {}
         /\ Ring(w) \cap Cached(q) = {} /\ Chain(w) \cap Stacked(q) = {} /\ Chain(w) \cap Cached(q) = {}
         /\ Stacked(q) \cap Cached(q) = {}
<1>1. \A s, t \in Near(w, q) : s # t => Where[s] \cap Where[t] = {}
  BY NearIs, SpotsApart
<1> DEFINE h == <<"hand", w>>
           r == <<"ring", w>>
           c == <<"chain", w>>
           s == <<"stack", q>>
           k == <<"cache", q>>
<1>2. /\ h \in Near(w, q) /\ r \in Near(w, q) /\ c \in Near(w, q) /\ s \in Near(w, q)
            /\ k \in Near(w, q)
      /\ h # r /\ h # c /\ h # s /\ h # k /\ r # c /\ r # s /\ r # k /\ c # s /\ c # k /\ s # k
  BY DEF Near
<1>3. /\ Where[h] = Hand(w) /\ Where[r] = Ring(w) /\ Where[c] = Chain(w) /\ Where[s] = Stacked(q)
      /\ Where[k] = Cached(q)
  BY NearIs
<1> HIDE DEF h, r, c, s, k
<1> QED BY <1>1, <1>2, <1>3

\* One worker has the chain and the cache of a queue.
LEMMA Consumer ==
  ASSUME Sound, OneConsumer, NEW w \in Workers, Consuming(w)
  PROVE  /\ reg[w] \in Regs /\ reg[w].q \in Queues /\ "IS_CONSUMING" \in flags[reg[w].q]
         /\ Cached(reg[w].q) = {}
         /\ Chain(w) = Reach(next, reg[w].first) /\ ProperIn(next, reg[w].first)
         /\ next \in Links /\ reg[w].first \in Nodes \cup {Null}
         /\ ProperIn(next, stack[reg[w].q]) /\ stack[reg[w].q] \in Nodes \cup {Null}
         /\ Stacked(reg[w].q) = Reach(next, stack[reg[w].q])
<1>1. reg[w] \in Regs /\ next \in Links /\ Chaining(w)
  BY DEF Sound, Types, Links, Chaining
<1>2. reg[w].q \in Queues /\ reg[w].first \in Nodes \cup {Null}
  BY <1>1, Locals
<1>3. "IS_CONSUMING" \in flags[reg[w].q]
  BY <1>2 DEF OneConsumer
<1>4. Cached(reg[w].q) = {}
  BY <1>3 DEF Cached
<1>5. Chain(w) = Reach(next, reg[w].first) /\ ProperIn(next, reg[w].first)
  BY <1>1 DEF Chain, Hanging, Sound, Chains, Proper, ProperIn
<1>6. /\ ProperIn(next, stack[reg[w].q]) /\ stack[reg[w].q] \in Nodes \cup {Null}
      /\ Stacked(reg[w].q) = Reach(next, stack[reg[w].q])
  BY <1>2 DEF Stacked, Hanging, Sound, Chains, Proper, ProperIn, Types
<1> QED BY <1>1, <1>2, <1>3, <1>4, <1>5, <1>6

\* The rest of a consumer's chain becomes the cache.
LEMMA ReleaseSound == ASSUME NoLap, Sound, OneConsumer, NEW w \in Workers, Release(w) PROVE Sound'
<1>0. PICK q, f : q = reg[w].q /\ f = reg[w].first
  OBVIOUS
<1>1. pc[w] = "release" /\ Consuming(w) /\ reg[w] \in Regs
  BY Numbers DEF Release, Consuming
<1>2. /\ q \in Queues /\ "IS_CONSUMING" \in flags[q] /\ Cached(q) = {}
      /\ Chain(w) = Reach(next, f) /\ ProperIn(next, f) /\ next \in Links /\ f \in Nodes \cup {Null}
      /\ ProperIn(next, stack[q])
  BY <1>0, <1>1, Consumer
<1>3. /\ cache' = [cache EXCEPT ![q] = f]
      /\ flags' = [flags EXCEPT ![q] = IF f = Null THEN {} ELSE {"HAS_CACHE"}]
      /\ UNCHANGED <<next, stack, array, head, tail, fresh, runs>>
  BY <1>0 DEF Release, Kept, BitsLeft, ring
<1>4. PICK l \in {"run", "acquire", "scan", "steal_head"}, r \in Regs :
        /\ pc' = [pc EXCEPT ![w] = l] /\ reg' = [reg EXCEPT ![w] = r] /\ r.node = reg[w].node
        /\ l = "run" <=> reg[w].node # Null
        /\ l = "steal_head" => r.victim \in Workers \ {w}
  <2>1. CASE reg[w].node # Null
    <3> DEFINE r == [NoReg EXCEPT !.node = reg[w].node]
    <3>1. pc' = [pc EXCEPT ![w] = "run"] /\ reg' = [reg EXCEPT ![w] = r]
      BY <2>1 DEF Release, Result, Goto
    <3>2. r \in Regs /\ r.node = reg[w].node
      BY <1>1, Locals, ResultReg
    <3> HIDE DEF r
    <3> QED BY <2>1, <3>1, <3>2
  <2>2. CASE reg[w].node = Null
    <3>1. NextSource(w)
      BY <2>2 DEF Release
    <3>2. PICK l \in {"acquire", "scan", "steal_head"}, r \in Regs :
           /\ pc' = [pc EXCEPT ![w] = l] /\ reg' = [reg EXCEPT ![w] = r] /\ r.node = reg[w].node
           /\ l = "steal_head" => r.victim \in Workers \ {w}
      BY <3>1, NextSourceIs
    <3> QED BY <2>2, <3>2
  <2> QED BY <2>1, <2>2
<1>5. /\ cache' \in [Queues -> Nodes \cup {Null}]
      /\ flags' \in [Queues -> SUBSET {"HAS_CACHE", "IS_CONSUMING"}]
      /\ stack' \in [Queues -> Nodes \cup {Null}]
      /\ cache'[q] = f /\ flags'[q] = (IF f = Null THEN {} ELSE {"HAS_CACHE"})
      /\ \A p \in Queues \ {q} : stack'[p] = stack[p] /\ cache'[p] = cache[p] /\ flags'[p] = flags[p]
      /\ l \in Labels
  BY <1>2, <1>3, <1>4 DEF Sound, Types, Labels
<1>6. /\ Step(w) /\ reg'[w] = r /\ pc'[w] = l
      /\ \A v \in Workers : HeadAt(v)' = HeadAt(v) /\ TailAt(v)' = TailAt(v)
      /\ \A v \in Workers : \A j : At(v, j)' = At(v, j)
  BY <1>3, <1>4, <1>5, Steady
<1>7. /\ Ahead(w) = 0 /\ Ahead(w)' = 0 /\ Unstored(w) = 0 /\ Unstored(w)' = 0 /\ ~Chaining(w)'
      /\ Chain(w)' = {}
  BY <1>1, <1>4, <1>6 DEF Ahead, Storing, Unstored, Chaining, Consuming, Chain
<1>8. RingOK(w)' /\ Ring(w)' = Ring(w)
  <2>1. EndAt(w)' = EndAt(w) /\ EndAt(w) = TailAt(w) /\ TailAt(w)' = TailAt(w) /\ TailAt(w) \in Nat
    BY <1>6, <1>7, Numbers DEF EndAt
  <2>2. Mark(w)' = TailAt(w) /\ Mark(w) = TailAt(w)
    BY <1>1, <1>4, <1>6, <1>7, <2>1 DEF Mark
  <2> QED BY <1>6, <2>1, <2>2, RingSame
<1>9. HandOK(w)' /\ Hand(w)' = Hand(w)
  BY <1>1, <1>3, <1>4, <1>6 DEF Sound, Locally, HandOK, Hand, EmptyHanded, Handing, Searching, Stealing
<1>10. ThiefOK(w)' /\ BatchOK(w)'
  BY <1>4, <1>6 DEF ThiefOK, BatchOK, Stealing
<1>11. Own(w)
  BY <1>7, <1>8, <1>9, <1>10 DEF Own
<1>12. Proper(stack[q])' /\ CacheOK(q)'
  <2>1. ProperIn(next', stack'[q]) /\ ProperIn(next', cache'[q])
    BY <1>2, <1>3, <1>5
  <2>2. "HAS_CACHE" \in flags'[q] <=> cache'[q] # Null
    BY <1>5
  <2> QED BY <2>1, <2>2 DEF Proper, ProperIn, Hanging, CacheOK
<1>13. /\ Cached(q)' = Chain(w) /\ Stacked(q)' = Stacked(q)
  BY <1>2, <1>3, <1>5 DEF Cached, Stacked, Hanging
<1> DEFINE a == <<"chain", w>>
           b == <<"cache", q>>
           c == <<"stack", q>>
<1>14. /\ a \in Near(w, q) /\ b \in Near(w, q) /\ c \in Near(w, q) /\ a # b /\ b # c /\ a # c
       /\ \A s \in Near(w, q) \ {a, b, c} : s \in {<<"hand", w>>, <<"ring", w>>}
  BY DEF Near
<1>15. /\ Where[a] = Chain(w) /\ Where'[a] = {} /\ Where[b] = {} /\ Where'[b] = Chain(w)
       /\ Where'[c] = Stacked(q) /\ Where[c] = Stacked(q)
       /\ \A s \in Near(w, q) \ {a, b, c} : Where'[s] = Where[s]
  BY <1>2, <1>7, <1>8, <1>9, <1>13, <1>14, NearIs
<1>16. Chain(w) \cap Stacked(q) = {}
  BY <1>2, NearApart
<1> HIDE DEF a, b, c
<1>17. /\ Where'[a] \cap Where'[b] = {} /\ Where'[b] \cap Where'[c] = {}
             /\ Where'[a] \cap Where'[c] = {}
       /\ Where'[a] \cup Where'[b] \cup Where'[c] = Where[a] \cup Where[b] \cup Where[c]
  BY <1>15, <1>16
<1> QED BY <1>2, <1>3, <1>5, <1>6, <1>11, <1>12, <1>14, <1>15, <1>17, Consumes
\* The cache, or else the stack, becomes the chain of the consumer.
LEMMA AcquireSound == ASSUME NoLap, Sound, OneConsumer, NEW w \in Workers, Acquire(w) PROVE Sound'
<1>0. PICK q : q = reg[w].q
  OBVIOUS
<1>1. pc[w] = "acquire" /\ reg[w] \in Regs /\ q \in Queues /\ reg[w].node = Null /\ head[w] = tail[w]
      /\ UNCHANGED <<next, array, head, tail, fresh, runs>>
  BY <1>0, Numbers, Locals, Empty DEF Acquire, ring
<1>2. CASE Unavailable(q)
  <2>1. NextSource(w) /\ UNCHANGED <<next, queue, ring, fresh, runs>>
    BY <1>0, <1>2 DEF Acquire, queue
  <2>2. PICK l \in {"acquire", "scan", "steal_head"}, r \in Regs :
          /\ pc' = [pc EXCEPT ![w] = l] /\ reg' = [reg EXCEPT ![w] = r] /\ r.node = reg[w].node
          /\ l = "steal_head" => r.victim \in Workers \ {w}
    BY <2>1, NextSourceIs
  <2>3. pc'[w] = l /\ reg'[w] = r
    BY <2>2 DEF Sound, Types
  <2>4. ThiefOK(w)'
    BY <2>2, <2>3 DEF ThiefOK, Stealing
  <2> QED BY <1>1, <2>1, <2>2, <2>4, Search DEF Stealing
<1>3. CASE ~Unavailable(q)
  <2> DEFINE f == IF cache[q] # Null THEN cache[q] ELSE stack[q]
             r == [reg[w] EXCEPT !.first = f, !.pushed = 0]
  <2>1. "IS_CONSUMING" \notin flags[q] /\ ("HAS_CACHE" \in flags[q] <=> cache[q] # Null)
        /\ ProperIn(next, cache[q]) /\ ProperIn(next, stack[q]) /\ next \in Links
        /\ cache[q] \in Nodes \cup {Null} /\ stack[q] \in Nodes \cup {Null}
        /\ Cached(q) = Reach(next, cache[q]) /\ Stacked(q) = Reach(next, stack[q])
    BY <1>1, <1>3 DEF Unavailable, Sound, Chains, Proper, ProperIn, Hanging, Types, Links, Cached,
       Stacked
  <2>2. /\ flags' = [flags EXCEPT ![q] = {"HAS_CACHE", "IS_CONSUMING"}]
        /\ stack' = [stack EXCEPT ![q] = IF cache[q] # Null THEN stack[q] ELSE Null]
        /\ reg' = [reg EXCEPT ![w] = r] /\ pc' = [pc EXCEPT ![w] = "take"] /\ cache' = cache
    <3>1. reg \in [Workers -> Regs]
      BY DEF Sound, Types
    <3> QED BY <1>0, <1>3, <2>1, <3>1 DEF Acquire, Goto
  <2>3. f \in Nodes \cup {Null} /\ r \in Regs /\ r.node = reg[w].node /\ r.first = f /\ r.pushed = 0
    <3>1. f \in Nodes \cup {Null} /\ 0 \in 0 .. Capacity
      BY <2>1, Constants
    <3> HIDE DEF f
    <3> QED BY <1>1, <3>1 DEF Regs
  <2> HIDE DEF r
  <2>4. /\ stack' \in [Queues -> Nodes \cup {Null}] /\ cache' \in [Queues -> Nodes \cup {Null}]
        /\ flags' \in [Queues -> SUBSET {"HAS_CACHE", "IS_CONSUMING"}]
        /\ flags'[q] = {"HAS_CACHE", "IS_CONSUMING"}
        /\ stack'[q] = (IF cache[q] # Null THEN stack[q] ELSE Null)
        /\ \A p \in Queues \ {q} : stack'[p] = stack[p] /\ cache'[p] = cache[p] /\ flags'[p] = flags[p]
        /\ "take" \in Labels
    BY <1>1, <2>2 DEF Sound, Types, Labels
  <2>5. /\ Step(w) /\ reg'[w] = r /\ pc'[w] = "take"
        /\ \A v \in Workers : HeadAt(v)' = HeadAt(v) /\ TailAt(v)' = TailAt(v)
        /\ \A v \in Workers : \A j : At(v, j)' = At(v, j)
    BY <1>1, <2>2, <2>3, <2>4, Steady
  <2>6. /\ Ahead(w) = 0 /\ Ahead(w)' = 0 /\ Unstored(w) = 0 /\ Unstored(w)' = 0
        /\ Chain(w) = {} /\ Chain(w)' = Reach(next, f) /\ ProperIn(next, f)
    BY <1>1, <2>1, <2>3, <2>5 DEF Ahead, Storing, Unstored, Chaining, Consuming, Chain, Hanging
  <2>7. RingOK(w)' /\ Ring(w)' = Ring(w)
    <3>1. EndAt(w)' = EndAt(w) /\ EndAt(w) = TailAt(w) /\ TailAt(w)' = TailAt(w) /\ TailAt(w) \in Nat
      BY <2>5, <2>6, Numbers DEF EndAt
    <3>2. Mark(w)' = TailAt(w) /\ Mark(w) = TailAt(w)
      BY <1>1, <2>5, <2>6, <3>1 DEF Mark
    <3> QED BY <2>5, <3>1, <3>2, RingSame
  <2>8. HandOK(w)' /\ Hand(w)' = Hand(w)
    BY <1>1, <2>3, <2>5 DEF HandOK, Hand, EmptyHanded, Handing, Searching, Stealing
  <2>9. ThiefOK(w)' /\ BatchOK(w)'
    BY <2>5 DEF ThiefOK, BatchOK, Stealing
  <2>10. Proper(reg[w].first)'
    <3>1. ProperIn(next', reg'[w].first)
      BY <1>1, <2>3, <2>5, <2>6
    <3> QED BY <3>1 DEF Proper, ProperIn, Hanging
  <2>11. Own(w)
    BY <2>7, <2>8, <2>9, <2>10 DEF Own
  <2>12. Proper(stack[q])' /\ CacheOK(q)'
    <3>1. ProperIn(next', stack'[q])
      BY <1>1, <2>1, <2>4, ProperNull
    <3> QED BY <2>4, <3>1 DEF Proper, ProperIn, Hanging, CacheOK
  <2>13. /\ Cached(q)' = {} /\ Stacked(q)' = (IF cache[q] # Null THEN Stacked(q) ELSE {})
         /\ Chain(w)' = (IF cache[q] # Null THEN Cached(q) ELSE Stacked(q))
         /\ cache[q] = Null => Cached(q) = {}
    BY <1>1, <2>1, <2>4, <2>6, ReachClosed DEF Cached, Stacked, Hanging
  <2> DEFINE a == <<"chain", w>>
             b == <<"cache", q>>
             c == <<"stack", q>>
  <2>14. /\ a \in Near(w, q) /\ b \in Near(w, q) /\ c \in Near(w, q) /\ a # b /\ b # c /\ a # c
         /\ \A s \in Near(w, q) \ {a, b, c} : s \in {<<"hand", w>>, <<"ring", w>>}
    BY DEF Near
  <2>15. /\ Where[a] = Chain(w) /\ Where'[a] = Chain(w)' /\ Where[b] = Cached(q)
               /\ Where'[b] = Cached(q)'
         /\ Where[c] = Stacked(q) /\ Where'[c] = Stacked(q)'
         /\ \A s \in Near(w, q) \ {a, b, c} : Where'[s] = Where[s]
    BY <1>1, <2>7, <2>8, <2>14, NearIs
  <2>16. Stacked(q) \cap Cached(q) = {}
    BY <1>1, NearApart
  <2> HIDE DEF a, b, c
  <2>17. /\ Where'[a] \cap Where'[b] = {} /\ Where'[b] \cap Where'[c] = {}
               /\ Where'[a] \cap Where'[c] = {}
         /\ Where'[a] \cup Where'[b] \cup Where'[c] = Where[a] \cup Where[b] \cup Where[c]
    BY <2>6, <2>13, <2>15, <2>16
  <2> QED BY <1>1, <2>4, <2>5, <2>11, <2>12, <2>14, <2>15, <2>17, Consumes
<1> QED BY <1>2, <1>3

\* What Consumer.pop takes, from the chain or else from the stack, and what it leaves.
LEMMA Popping ==
  ASSUME Sound, OneConsumer, NEW w \in Workers, Consuming(w), NEW q, q = reg[w].q,
         NEW n \in Nodes, n = Popped(w), TakeIt(w), next' = next, flags' = flags, cache' = cache,
         reg'[w].first = next[n], Chaining(w)'
  PROVE  /\ q \in Queues /\ stack' \in [Queues -> Nodes \cup {Null}]
         /\ \A p \in Queues \ {q} : stack'[p] = stack[p] /\ cache'[p] = cache[p] /\ flags'[p] = flags[p]
         /\ Proper(stack[q])' /\ CacheOK(q)' /\ Proper(reg[w].first)'
         /\ Cached(q) = {} /\ Cached(q)' = {}
         /\ Chain(w)' \cap Stacked(q)' = {} /\ n \notin Chain(w)' \cup Stacked(q)'
         /\ Chain(w)' \cup Stacked(q)' \cup {n} = Chain(w) \cup Stacked(q)
<1>1. /\ q \in Queues /\ "IS_CONSUMING" \in flags[q] /\ Cached(q) = {}
      /\ Chain(w) = Reach(next, reg[w].first) /\ ProperIn(next, reg[w].first) /\ next \in Links
      /\ reg[w].first \in Nodes \cup {Null} /\ stack[q] \in Nodes \cup {Null}
      /\ ProperIn(next, stack[q]) /\ Stacked(q) = Reach(next, stack[q])
  BY Consumer
<1>2. /\ next[n] \in Nodes \cup {Null} /\ Chain(w)' = Reach(next, next[n])
      /\ Stacked(q)' = Reach(next, stack'[q])
  BY <1>1 DEF Links, Chain, Hanging, Stacked
<1>3. Cached(q)' = {} /\ CacheOK(q)'
  BY <1>1 DEF Cached, CacheOK
<1>4. Chain(w) \cap Stacked(q) = {}
  BY <1>1, NearApart
<1>5. CASE reg[w].first # Null
  <2>1. n = reg[w].first /\ stack' = stack
    BY <1>5 DEF Popped, TakeIt
  <2>2. /\ ProperIn(next, next[n]) /\ Reach(next, next[n]) = Chain(w) \ {n} /\ n \in Chain(w)
    BY <1>1, <2>1, ProperNext
  <2>3. Proper(stack[q])' /\ Proper(reg[w].first)'
    BY <1>1, <2>1, <2>2 DEF Proper, ProperIn, Hanging
  <2>4. stack' \in [Queues -> Nodes \cup {Null}] /\ \A p \in Queues \ {q} : stack'[p] = stack[p]
    BY <2>1 DEF Sound, Types
  <2> QED BY <1>1, <1>2, <1>3, <1>4, <2>1, <2>2, <2>3, <2>4
<1>6. CASE reg[w].first = Null
  <2>1. n = stack[q] /\ stack' = [stack EXCEPT ![q] = Null]
    BY <1>6 DEF Popped, TakeIt
  <2>2. /\ ProperIn(next, next[n]) /\ Reach(next, next[n]) = Stacked(q) \ {n} /\ n \in Stacked(q)
    BY <1>1, <2>1, ProperNext
  <2>3. /\ stack' \in [Queues -> Nodes \cup {Null}] /\ \A p \in Queues \ {q} : stack'[p] = stack[p]
        /\ stack'[q] = Null
    BY <1>1, <2>1 DEF Sound, Types
  <2>4. ProperIn(next, Null) /\ Reach(next, Null) = {}
    BY <1>1, ProperNull, ReachClosed
  <2>5. Proper(stack[q])' /\ Proper(reg[w].first)'
    BY <2>2, <2>3, <2>4 DEF Proper, ProperIn, Hanging
  <2>6. Chain(w) = {}
    BY <1>1, <1>6, <2>4
  <2> QED BY SMTT(60), <1>1, <1>2, <1>3, <2>1, <2>2, <2>3, <2>4, <2>5, <2>6
<1> QED BY <1>5, <1>6
\* One more node, or the last one stored, goes into the consumer's hand.
LEMMA ExtraSound == ASSUME NoLap, Sound, OneConsumer, NEW w \in Workers, Extra(w) PROVE Sound'
<1>0. PICK q, n, p : q = reg[w].q /\ n = Popped(w) /\ p = reg[w].pushed
  OBVIOUS
<1>1. /\ pc[w] = "extra" /\ Consuming(w) /\ reg[w] \in Regs /\ reg[w].node = Null /\ head[w] = tail[w]
      /\ pc' = [pc EXCEPT ![w] = "publish"] /\ p \in 0 .. Capacity /\ p \in Nat
      /\ UNCHANGED <<next, flags, cache, array, head, tail, fresh, runs>>
  BY <1>0, Numbers, Locals DEF Extra, Goto, ring, Consuming, Sound, Locally, HandOK, EmptyHanded,
     Searching
<1>2. /\ q \in Queues /\ Cached(q) = {} /\ reg[w].first \in Nodes \cup {Null}
      /\ stack[q] \in Nodes \cup {Null} /\ n \in Nodes \cup {Null} /\ next \in Links
      /\ Chain(w) = Reach(next, reg[w].first) /\ ProperIn(next, reg[w].first)
      /\ ProperIn(next, stack[q])
  BY <1>0, <1>1, Consumer DEF Popped
<1>3. /\ Ahead(w) = p /\ EndAt(w) = TailAt(w) + p /\ Unstored(w) = 0 /\ Mark(w) = TailAt(w)
      /\ TailAt(w) = HeadAt(w) /\ TailAt(w) \in Nat /\ EndAt(w) <= HeadAt(w) + Capacity
      /\ Occupied(w) = TailAt(w) .. TailAt(w) + p - 1 /\ Mark(w) <= Limit
      /\ \A i, j \in Occupied(w) : At(w, i) \in Nodes /\ (At(w, i) = At(w, j) => i = j)
  <2>1. Ahead(w) = p /\ Unstored(w) = 0 /\ TailAt(w) = HeadAt(w)
    BY <1>0, <1>1 DEF Ahead, Storing, Unstored, TailAt, HeadAt
  <2>2. EndAt(w) = TailAt(w) + p /\ TailAt(w) \in Nat /\ EndAt(w) <= HeadAt(w) + Capacity
    BY <2>1, Numbers
  <2>3. RingOK(w)
    BY DEF Sound, Locally
  <2> QED BY <1>1, <2>1, <2>2, <2>3 DEF RingOK, Mark, Limit, Occupied
\* What each of the three cases comes to: the node in hand and what is still to publish.
<1>4. PICK m \in Nodes \cup {Null}, k \in 0 .. Capacity, r \in Regs :
        /\ reg' = [reg EXCEPT ![w] = r] /\ r.node = m /\ r.pushed = k
        /\ \/ /\ n # Null /\ m = n /\ k = p /\ r.first = next[n] /\ TakeIt(w)
           \/ /\ n = Null /\ p > 0 /\ k = p - 1 /\ m = At(w, TailAt(w) + p - 1) /\ m \in Ring(w)
              /\ r.first = reg[w].first /\ stack' = stack
           \/ n = Null /\ p = 0 /\ k = 0 /\ m = Null /\ r.first = reg[w].first /\ stack' = stack
  <2>0. reg \in [Workers -> Regs]
    BY DEF Sound, Types
  <2>1. CASE n # Null
    <3> DEFINE r == [reg[w] EXCEPT !.first = next[n], !.node = n]
    <3>1. next[n] \in Nodes \cup {Null} /\ n \in Nodes
      BY <1>2, <2>1 DEF Links
    <3>2. r \in Regs /\ r.node = n /\ r.pushed = p /\ r.first = next[n]
      BY <1>0, <1>1, <3>1 DEF Regs
    <3>3. reg' = [reg EXCEPT ![w] = r] /\ TakeIt(w)
      BY <1>0, <2>0, <2>1 DEF Extra
    <3> HIDE DEF r
    <3> QED BY <1>1, <2>1, <3>1, <3>2, <3>3
  <2>2. CASE n = Null /\ p > 0
    <3> DEFINE m == At(w, TailAt(w) + p - 1)
               r == [reg[w] EXCEPT !.pushed = p - 1, !.node = m]
    <3>1. m \in Nodes /\ m \in Ring(w)
      <4>1. TailAt(w) + p - 1 \in Occupied(w)
        BY <1>1, <1>3, <2>2
      <4> QED BY <1>3, <4>1 DEF Ring
    <3>2. array[w][Slot(tail[w] + p - 1)] = m
      <4>1. Slot(tail[w] + (p - 1)) = Cell(Pos(tail[w]) + (p - 1))
        <5>1. p - 1 \in Int /\ tail[w] \in Index
          BY <1>1, Numbers
        <5> QED BY <5>1, CellOf
      <4>2. tail[w] + (p - 1) = tail[w] + p - 1 /\ Pos(tail[w]) + (p - 1) = Pos(tail[w]) + p - 1
        <5>1. tail[w] \in Nat /\ Pos(tail[w]) \in Nat
          BY Numbers, IndexNat
        <5> QED BY <1>1, <5>1
      <4> QED BY <4>1, <4>2 DEF At, TailAt
    <3>3. reg' = [reg EXCEPT ![w] = r] /\ stack' = stack
      BY <1>0, <2>0, <2>2, <3>2 DEF Extra
    <3>4. p - 1 \in 0 .. Capacity
      BY <1>1, <2>2, Constants
    <3> HIDE DEF m
    <3>5. r \in Regs /\ r.node = m /\ r.pushed = p - 1 /\ r.first = reg[w].first
      BY <1>1, <3>1, <3>4 DEF Regs
    <3> HIDE DEF r
    <3> QED BY <2>2, <3>1, <3>3, <3>4, <3>5 DEF m
  <2>3. CASE n = Null /\ p = 0
    <3>1. reg' = reg /\ stack' = stack
      BY <1>0, <2>3 DEF Extra
    <3>2. reg' = [reg EXCEPT ![w] = reg[w]]
      BY <2>0, <3>1
    <3>3. 0 \in 0 .. Capacity
      BY Constants
    <3> QED BY <1>0, <1>1, <2>3, <3>1, <3>2, <3>3
  <2> QED BY <1>1, <2>1, <2>2, <2>3
<1>5. /\ Step(w) /\ reg'[w] = r /\ pc'[w] = "publish"
      /\ \A v \in Workers : HeadAt(v)' = HeadAt(v) /\ TailAt(v)' = TailAt(v)
      /\ \A v \in Workers : \A j : At(v, j)' = At(v, j)
  <2>1. "publish" \in Labels /\ flags' \in [Queues -> SUBSET {"HAS_CACHE", "IS_CONSUMING"}]
        /\ cache' \in [Queues -> Nodes \cup {Null}]
    BY <1>1 DEF Labels, Sound, Types
  <2>2. stack' \in [Queues -> Nodes \cup {Null}]
    <3>1. stack \in [Queues -> Nodes \cup {Null}]
      BY DEF Sound, Types
    <3> QED BY <1>4, <3>1 DEF TakeIt
  <2> QED BY <1>1, <1>4, <2>1, <2>2, Steady
<1>6. /\ Chaining(w)' /\ Unstored(w)' = 0 /\ Ahead(w)' = k /\ EndAt(w)' = TailAt(w) + k
      /\ Mark(w)' = TailAt(w) + k /\ Occupied(w)' = TailAt(w) .. TailAt(w) + k - 1 /\ k \in Nat
            /\ k <= p
      /\ Hand(w) = {} /\ Hand(w)' = {m} \ {Null} /\ Chain(w)' = Reach(next, r.first)
  <2>1. Ahead(w)' = k /\ Unstored(w)' = 0 /\ Chaining(w)' /\ Hand(w)' = {m} \ {Null} /\ Hand(w) = {}
    BY <1>1, <1>4, <1>5 DEF Ahead, Storing, Unstored, Chaining, Consuming, Hand
  <2>2. EndAt(w)' = TailAt(w) + k /\ k \in Nat /\ k <= p
    BY <1>1, <1>4, <1>5, <2>1, Constants DEF EndAt
  <2>3. Mark(w)' = TailAt(w) + k
    BY <1>3, <1>5, <2>1, <2>2 DEF Mark
  <2>4. Occupied(w)' = TailAt(w) .. TailAt(w) + k - 1
    BY <1>3, <1>5, <2>2 DEF Occupied
  <2>5. Chain(w)' = Reach(next, r.first)
    BY <1>1, <1>4, <1>5, <2>1 DEF Chain, Hanging
  <2> QED BY <2>1, <2>2, <2>3, <2>4, <2>5
<1>7. m # Null => m \in Taken' /\ m \notin Taken
  <2> SUFFICES ASSUME m # Null PROVE m \in Taken' /\ m \notin Taken
    OBVIOUS
  <2>1. m \in Nodes /\ m \in Taken'
    BY <1>4, <1>5 DEF Taken
  <2>2. \E s \in {<<"ring", w>>, <<"chain", w>>, <<"stack", q>>} : m \in Where[s]
    <3>1. CASE n # Null /\ m = n
      <4>1. n \in Chain(w) \cup Stacked(q)
        <5>1. n \in Nodes
          BY <1>2, <3>1
        <5>2. n \in Reach(next, n)
          BY <1>2, <5>1, ReachNext
        <5> QED BY <1>0, <1>2, <5>2 DEF Popped, Stacked, Hanging
      <4> QED BY <1>2, <3>1, <4>1, NearIs
    <3>2. CASE m \in Ring(w)
      BY <1>2, <3>2, NearIs
    <3> QED BY <1>4, <3>1, <3>2
  <2>3. PICK s \in {<<"ring", w>>, <<"chain", w>>, <<"stack", q>>} : m \in Where[s]
    BY <2>2
  <2>4. s \in Spots /\ (\A v \in Workers : s # <<"hand", v>>) /\ s # <<"done", Pool>>
    <3>1. <<"ring", w>> \in Spots /\ <<"chain", w>> \in Spots /\ <<"stack", q>> \in Spots
      BY <1>2, WhereIs
    <3>2. s \in Spots
      BY <2>3, <3>1
    <3>3. s[1] \in {"ring", "chain", "stack"}
      BY <2>3
    <3>4. (\A v \in Workers : s # <<"hand", v>>) /\ s # <<"done", Pool>>
      BY <3>3
    <3> QED BY <3>2, <3>4
  <2> QED BY <2>1, <2>3, <2>4, NotTaken
<1>8. RingOK(w)'
  <2>1. Mark(w)' <= Limit'
    <3>1. CASE m = Null
      <4>1. k = 0
        BY <1>3, <1>4, <3>1, NullIsNoNode DEF Ring
      <4>2. Limit \in Int /\ Limit' \in Int /\ Limit <= Limit'
        BY <1>5, LimitGrows, Constants
      <4> QED BY <1>3, <1>6, <4>1, <4>2
    <3>2. CASE m # Null
      <4>1. Limit \in Int /\ Limit' \in Int /\ Limit + Capacity <= Limit'
        BY <1>5, <1>7, <3>2, LimitGains, Constants
      <4>2. k <= Capacity
        BY <1>1, <1>6, Constants
      <4> QED BY <1>3, <1>6, <4>1, <4>2, Constants
    <3> QED BY <3>1, <3>2
  <2>2. \A i, j \in Occupied(w)' : At(w, i)' \in Nodes /\ (At(w, i)' = At(w, j)' => i = j)
    <3>1. Occupied(w)' \subseteq Occupied(w)
      BY <1>1, <1>3, <1>6
    <3> QED BY <1>3, <1>5, <3>1
  <2>3. HeadAt(w)' <= TailAt(w)' /\ EndAt(w)' <= HeadAt(w)' + Capacity
    BY <1>1, <1>3, <1>5, <1>6, Constants
  <2> QED BY <2>1, <2>2, <2>3 DEF RingOK, Mark, Limit
<1>9. HandOK(w)'
  <2>1. m = Null => k = 0
    BY <1>4, <1>3, NullIsNoNode DEF Ring
  <2> QED BY <1>1, <1>4, <1>5, <2>1 DEF HandOK, EmptyHanded, Handing, Searching, Stealing
<1>10. ThiefOK(w)' /\ BatchOK(w)'
  BY <1>5 DEF ThiefOK, BatchOK, Stealing
<1> DEFINE a == <<"hand", w>>
           b == <<"chain", w>>
           c == <<"stack", q>>
           d == <<"ring", w>>
           e == <<"cache", q>>
<1>11. /\ Where[a] = Hand(w) /\ Where'[a] = Hand(w)' /\ Where[b] = Chain(w) /\ Where'[b] = Chain(w)'
       /\ Where[c] = Stacked(q) /\ Where'[c] = Stacked(q)' /\ Where[d] = Ring(w) /\ Where'[d] = Ring(w)'
       /\ Where[e] = Cached(q) /\ Where'[e] = Cached(q)'
  BY <1>2, NearIs
<1>12. /\ a \in Near(w, q) /\ b \in Near(w, q) /\ c \in Near(w, q) /\ d \in Near(w, q)
       /\ a # b /\ b # c /\ a # c /\ a # d /\ b # d /\ c # d
       /\ \A s \in Near(w, q) : s \in {a, b, c, d, e}
  BY DEF Near
<1>13. Ring(w)' = {At(w, j) : j \in TailAt(w) .. TailAt(w) + k - 1}
  BY <1>5, <1>6 DEF Ring
<1>14. CASE n # Null
  <2>1. m = n /\ n \in Nodes /\ k = p /\ r.first = next[n] /\ TakeIt(w)
    BY <1>2, <1>4, <1>14
  <2>2. reg'[w].first = next[n] /\ next' = next /\ flags' = flags /\ cache' = cache
    BY <1>1, <1>5, <2>1
  <2>8. Chaining(w)' /\ Consuming(w) /\ q = reg[w].q /\ n = Popped(w)
    BY <1>0, <1>1, <1>6
  <2>3. /\ \A u \in Queues \ {q} : stack'[u] = stack[u] /\ cache'[u] = cache[u] /\ flags'[u] = flags[u]
        /\ Proper(stack[q])' /\ CacheOK(q)' /\ Proper(reg[w].first)'
        /\ Cached(q) = {} /\ Cached(q)' = {}
        /\ Chain(w)' \cap Stacked(q)' = {} /\ n \notin Chain(w)' \cup Stacked(q)'
        /\ Chain(w)' \cup Stacked(q)' \cup {n} = Chain(w) \cup Stacked(q)
    BY <2>1, <2>2, <2>8, Popping
  <2>4. Ring(w)' = Ring(w)
    BY <1>3, <1>13, <2>1 DEF Ring
  <2>5. Own(w)
    BY <1>8, <1>9, <1>10, <2>3 DEF Own
  <2>6. Hand(w) = {} /\ Hand(w)' = {n}
    BY <1>6, <2>1, NullIsNoNode
  <2> HIDE DEF a, b, c, d, e
  <2>9. \A s \in Near(w, q) \ {a, b, c} : Where'[s] = Where[s]
    BY <1>11, <1>12, <2>3, <2>4
  <2>7. /\ Where'[a] \cap Where'[b] = {} /\ Where'[b] \cap Where'[c] = {}
              /\ Where'[a] \cap Where'[c] = {}
        /\ Where'[a] \cup Where'[b] \cup Where'[c] = Where[a] \cup Where[b] \cup Where[c]
    BY <1>11, <2>3, <2>6
  <2>10. /\ Step(w) /\ head' = head /\ next' = next /\ fresh' = fresh /\ runs' = runs /\ q \in Queues
         /\ a \in Near(w, q) /\ b \in Near(w, q) /\ c \in Near(w, q) /\ a # b /\ b # c /\ a # c
    BY <1>1, <1>2, <1>5, <1>12
  <2> QED BY ONLY <2>3, <2>5, <2>7, <2>9, <2>10, NoLap, Sound, w \in Workers, Consumes
<1>15. CASE n = Null
  <2>1. stack' = stack /\ r.first = reg[w].first
    BY <1>4, <1>15
  <2>2. /\ \A u \in Queues \ {q} : stack'[u] = stack[u] /\ cache'[u] = cache[u] /\ flags'[u] = flags[u]
        /\ Stacked(q)' = Stacked(q) /\ Cached(q)' = Cached(q) /\ Chain(w)' = Chain(w)
        /\ Proper(stack[q])' /\ CacheOK(q)'
    <3>1. /\ \A u \in Queues \ {q} : stack'[u] = stack[u] /\ cache'[u] = cache[u]
                /\ flags'[u] = flags[u]
          /\ Stacked(q)' = Stacked(q) /\ Cached(q)' = Cached(q) /\ Chain(w)' = Chain(w)
      BY <1>1, <1>2, <1>6, <2>1 DEF Stacked, Cached, Hanging
    <3>2. Proper(stack[q])' /\ CacheOK(q)'
      BY <1>1, <1>2, <2>1 DEF Proper, ProperIn, Hanging, CacheOK, Sound, Chains
    <3> QED BY <3>1, <3>2
  <2>3. Proper(reg[w].first)'
    BY <1>1, <1>2, <1>5, <2>1 DEF Proper, ProperIn, Hanging
  <2>4. Own(w)
    BY <1>8, <1>9, <1>10, <2>3 DEF Own
  <2>5. Ring(w)' \cup Hand(w)' = Ring(w) /\ Ring(w)' \cap Hand(w)' = {}
    <3>1. CASE p = 0
      <4>1. k = 0 /\ m = Null
        BY <1>4, <1>15, <3>1
      <4> QED BY <1>3, <1>6, <1>13, <3>1, <4>1 DEF Ring
    <3>2. CASE p > 0
      <4>1. k = p - 1 /\ m = At(w, TailAt(w) + p - 1) /\ m \in Ring(w)
        BY <1>4, <1>15, <3>2
      <4>2. /\ TailAt(w) .. TailAt(w) + p - 1 = (TailAt(w) .. TailAt(w) + k - 1)
                  \cup {TailAt(w) + p - 1}
            /\ TailAt(w) + p - 1 \notin TailAt(w) .. TailAt(w) + k - 1
        BY <1>1, <1>3, <3>2, <4>1
      <4>3. Ring(w) = Ring(w)' \cup {m}
        <5>1. Ring(w) = {At(w, j) : j \in (TailAt(w) .. TailAt(w) + k - 1) \cup {TailAt(w) + p - 1}}
          BY <1>3, <4>2 DEF Ring
        <5> QED BY <1>13, <4>1, <5>1
      <4>5. m \notin Ring(w)'
        <5>1. \A j \in TailAt(w) .. TailAt(w) + k - 1 :
                j \in Occupied(w) /\ TailAt(w) + p - 1 \in Occupied(w) /\ j # TailAt(w) + p - 1
          BY <1>3, <4>2
        <5> QED BY <1>3, <1>13, <4>1, <5>1
      <4>4. m # Null
        BY <1>3, <4>1, NullIsNoNode DEF Ring
      <4> QED BY <1>6, <4>3, <4>4, <4>5
    <3> QED BY <1>1, <3>1, <3>2
  <2> HIDE DEF a, b, c, d, e
  <2>6. Hand(w) = {} /\ Chain(w) \cap Ring(w) = {}
    BY <1>2, <1>6, NearApart
  <2>7. /\ \A s \in Near(w, q) \ {a, b, d} : Where'[s] = Where[s]
        /\ Where'[a] \cap Where'[b] = {} /\ Where'[b] \cap Where'[d] = {}
              /\ Where'[a] \cap Where'[d] = {}
        /\ Where'[a] \cup Where'[b] \cup Where'[d] = Where[a] \cup Where[b] \cup Where[d]
    BY <1>11, <1>12, <2>2, <2>5, <2>6
  <2> QED BY <1>1, <1>2, <1>5, <1>12, <2>2, <2>4, <2>7, Consumes
<1> QED BY <1>14, <1>15
-----------------------------------------------------------------------------
\* A turn of the ring comes back to the same cell.
LEMMA CellTurn == ASSUME NEW j \in Int PROVE Cell(j + Capacity) = Cell(j)
<1>1. Capacity \in Nat \ {0} /\ Start \in Int
  BY RunQueuesAssumption DEF Index
<1> DEFINE r == Cell(j)
<1>2. PICK k \in Int : Start + j = Capacity * k + r
  BY CellAt
<1>3. r \in 0 .. Capacity - 1
  BY CellAt
<1> HIDE DEF r
<1>4. Start + (j + Capacity) = Capacity * (k + 1) + r
  BY <1>1, <1>2, <1>3
<1>5. (Capacity * (k + 1) + r) % Capacity = r
  BY <1>1, <1>3, Remainder
<1> QED BY <1>4, <1>5 DEF Cell, Slot, r

\* What was stored less than a turn before is still there.
LEMMA StoredBefore ==
  ASSUME NEW w \in Workers, NEW i \in Int, NEW p \in Int, Slot(i) = Cell(p), NEW f,
         NEW k \in 0 .. Capacity, NEW j \in Int, j < p, p + k <= j + Capacity
  PROVE  Stored(w, i, f, k)[Cell(j)] = array[w][Cell(j)]
<1>1. Capacity \in Nat
  BY Constants
<1> DEFINE d == j + Capacity - p
<1>2. d \in k .. Capacity - 1 /\ p + d = j + Capacity
  BY <1>1
<1>3. Stored(w, i, f, k)[Cell(p + d)] = array[w][Cell(p + d)]
  BY <1>2, StoredAt
<1> QED BY <1>2, <1>3, CellTurn

\* A consumer stores one node beyond its tail.
LEMMA TakeSound == ASSUME NoLap, Sound, OneConsumer, NEW w \in Workers, Take(w) PROVE Sound'
<1>0. PICK q, n, p : q = reg[w].q /\ n = Popped(w) /\ p = reg[w].pushed
  OBVIOUS
<1>1. /\ pc[w] = "take" /\ Consuming(w) /\ reg[w] \in Regs /\ reg[w].node = Null /\ head[w] = tail[w]
      /\ p \in 0 .. Capacity /\ p \in Nat /\ tail[w] \in Index /\ tail[w] \in Nat
      /\ UNCHANGED <<next, flags, cache, head, tail, fresh, runs>>
  BY <1>0, Numbers, IndexNat, Locals
     DEF Take, Consuming, Sound, Locally, HandOK, EmptyHanded, Searching
<1>2. /\ q \in Queues /\ Cached(q) = {} /\ reg[w].first \in Nodes \cup {Null}
      /\ stack[q] \in Nodes \cup {Null} /\ n \in Nodes \cup {Null} /\ next \in Links
      /\ Chain(w) = Reach(next, reg[w].first) /\ ProperIn(next, reg[w].first)
  BY <1>0, <1>1, Consumer DEF Popped
<1>3. /\ Ahead(w) = p /\ EndAt(w) = TailAt(w) + p /\ Unstored(w) = 0 /\ Mark(w) = TailAt(w)
      /\ TailAt(w) = HeadAt(w) /\ TailAt(w) \in Nat
      /\ Occupied(w) = TailAt(w) .. TailAt(w) + p - 1 /\ Mark(w) <= Limit
      /\ \A i, j \in Occupied(w) : At(w, i) \in Nodes /\ (At(w, i) = At(w, j) => i = j)
  <2>1. Ahead(w) = p /\ Unstored(w) = 0 /\ TailAt(w) = HeadAt(w)
    BY <1>0, <1>1 DEF Ahead, Storing, Unstored, TailAt, HeadAt
  <2>2. EndAt(w) = TailAt(w) + p /\ TailAt(w) \in Nat
    BY <2>1, Numbers
  <2>3. RingOK(w)
    BY DEF Sound, Locally
  <2> QED BY <1>1, <2>1, <2>2, <2>3 DEF RingOK, Mark, Limit, Occupied
<1>4. CASE ~(p < Capacity /\ n # Null)
  <2>1. /\ reg' = [reg EXCEPT ![w] = reg[w]] /\ pc' = [pc EXCEPT ![w] = "extra"]
        /\ UNCHANGED <<stack, array>>
    BY <1>0, <1>4 DEF Take, Goto, Sound, Types
  <2>2. /\ Step(w) /\ reg'[w] = reg[w] /\ pc'[w] = "extra"
        /\ \A v \in Workers : HeadAt(v)' = HeadAt(v) /\ TailAt(v)' = TailAt(v)
        /\ \A v \in Workers : \A j : At(v, j)' = At(v, j)
    <3>1. "extra" \in Labels /\ flags' \in [Queues -> SUBSET {"HAS_CACHE", "IS_CONSUMING"}]
          /\ cache' \in [Queues -> Nodes \cup {Null}] /\ stack' \in [Queues -> Nodes \cup {Null}]
      BY <1>1, <2>1 DEF Labels, Sound, Types
    <3> QED BY <1>1, <2>1, <3>1, Steady
  <2>3. Ahead(w)' = p /\ Unstored(w)' = 0 /\ Chain(w)' = Chain(w) /\ Chaining(w)
    BY <1>0, <1>1, <2>2 DEF Ahead, Storing, Unstored, Chain, Chaining, Consuming, Hanging
  <2>4. RingOK(w)' /\ Ring(w)' = Ring(w)
    <3>1. EndAt(w)' = EndAt(w) /\ TailAt(w)' = TailAt(w)
      BY <1>3, <2>2, <2>3 DEF EndAt
    <3>2. Mark(w)' = TailAt(w)
      BY <1>3, <2>2, <2>3 DEF Mark
    <3> QED BY <1>3, <2>2, <3>1, <3>2, RingSame
  <2>5. HandOK(w)' /\ Hand(w)' = Hand(w)
    BY <1>1, <2>2 DEF HandOK, Hand, EmptyHanded, Handing, Searching, Stealing
  <2>6. ThiefOK(w)' /\ BatchOK(w)'
    BY <2>2 DEF ThiefOK, BatchOK, Stealing
  <2>7. Proper(reg[w].first)'
    BY <1>1, <1>2, <2>2 DEF Proper, ProperIn, Hanging
  <2>8. Own(w)
    BY <2>4, <2>5, <2>6, <2>7 DEF Own
  <2> QED BY <1>1, <2>1, <2>2, <2>3, <2>4, <2>5, <2>8, Rests
<1>5. CASE p < Capacity /\ n # Null
  <2> DEFINE f == [d \in {0} |-> n]
             a == Stored(w, tail[w] + p, f, 1)
             r == [reg[w] EXCEPT !.first = next[n], !.pushed = p + 1]
  <2>1. /\ TakeIt(w) /\ array' = [array EXCEPT ![w] = a] /\ pc' = [pc EXCEPT ![w] = "take"]
        /\ reg' = [reg EXCEPT ![w] = r]
    <3>1. /\ TakeIt(w) /\ array' = [array EXCEPT ![w] = a] /\ pc' = pc
          /\ reg' = [reg EXCEPT ![w].first = next[n], ![w].pushed = @ + 1]
      BY <1>0, <1>5 DEF Take
    <3>2. pc = [pc EXCEPT ![w] = "take"]
      BY <1>0, <1>1 DEF Take, Sound, Types
    <3>3. reg' = [reg EXCEPT ![w] = r]
      BY ONLY <1>0, <3>1
    <3> QED BY ONLY <3>1, <3>2, <3>3
  <2>2. n \in Nodes /\ next[n] \in Nodes \cup {Null} /\ p + 1 \in 0 .. Capacity /\ p + 1 \in Nat
        /\ 1 \in 0 .. Capacity
    BY <1>1, <1>2, <1>5, Constants DEF Links
  <2>3. r \in Regs /\ r.node = reg[w].node /\ r.first = next[n] /\ r.pushed = p + 1
    BY <1>1, <2>2 DEF Regs
  <2>4. /\ tail[w] + p \in Int /\ TailAt(w) + p \in Int /\ Slot(tail[w] + p) = Cell(TailAt(w) + p)
    BY <1>1, <1>3, CellOf DEF TailAt
  <2>5. a \in [0 .. Capacity - 1 -> Nodes \cup {Null}]
    <3>1. \A d \in 0 .. 1 - 1 : f[d] \in Nodes \cup {Null}
      BY <2>2
    <3> HIDE DEF f
    <3> QED BY <2>2, <2>4, <3>1, StoredType DEF Sound
  <2>6. a[Cell(TailAt(w) + p)] = n
    <3>1. f[0] = n
      OBVIOUS
    <3> HIDE DEF f
    <3>2. \A d \in 0 .. 1 - 1 : a[Cell(TailAt(w) + p + d)] = f[d]
      BY <2>2, <2>4, StoredAt
    <3>3. a[Cell(TailAt(w) + p + 0)] = f[0]
      BY <3>2
    <3>4. TailAt(w) + p + 0 = TailAt(w) + p
      BY <2>4
    <3> QED BY <3>1, <3>3, <3>4
  <2>7. \A j \in Occupied(w) : a[Cell(j)] = At(w, j)
    <3> SUFFICES ASSUME NEW j \in Occupied(w) PROVE a[Cell(j)] = At(w, j)
      OBVIOUS
    <3>1. j \in Int /\ j < TailAt(w) + p /\ TailAt(w) + p + 1 <= j + Capacity
      BY <1>1, <1>3, <1>5, Constants
    <3> HIDE DEF f
    <3> QED BY <2>2, <2>4, <3>1, StoredBefore DEF At
  <2> HIDE DEF a, f, r
  <2>8. /\ Step(w) /\ reg'[w] = r /\ pc'[w] = "take"
        /\ \A v \in Workers : HeadAt(v)' = HeadAt(v) /\ TailAt(v)' = TailAt(v)
        /\ \A j : At(w, j)' = a[Cell(j)]
    <3>1. \A j \in HeadAt(w) .. TailAt(w) - 1 : a[Cell(j)] = At(w, j)
      BY <1>3
    <3>2. stack' \in [Queues -> Nodes \cup {Null}] /\ "take" \in Labels
      <4>1. stack \in [Queues -> Nodes \cup {Null}]
        BY DEF Sound, Types
      <4> QED BY <2>1, <4>1 DEF TakeIt, Labels
    <3>3. UNCHANGED <<next, head, tail, fresh, runs, cache, flags>> /\ reg[w].node = Null
      BY <1>1
    <3>4. Writing(w, "take", r, a)
      BY <2>1, <2>3, <2>5, <3>1, <3>2, <3>3 DEF Writing
    <3> QED BY <3>4, Writes
  <2>9. /\ Chaining(w)' /\ Unstored(w)' = 0 /\ Ahead(w)' = p + 1 /\ EndAt(w)' = TailAt(w) + (p + 1)
        /\ Mark(w)' = TailAt(w) /\ Occupied(w)' = TailAt(w) .. TailAt(w) + p
        /\ Hand(w)' = Hand(w)
    <3>1. Ahead(w)' = p + 1 /\ Unstored(w)' = 0 /\ Chaining(w)' /\ Hand(w)' = Hand(w)
      BY <2>3, <2>8 DEF Ahead, Storing, Unstored, Chaining, Consuming, Hand
    <3>2. EndAt(w)' = TailAt(w) + (p + 1) /\ Mark(w)' = TailAt(w)
      BY <1>3, <2>8, <3>1 DEF EndAt, Mark
    <3>3. TailAt(w) + (p + 1) - 1 = TailAt(w) + p
      BY <1>1, <1>3
    <3>4. HeadAt(w)' = TailAt(w)
      BY <1>3, <2>8
    <3>5. Occupied(w)' = TailAt(w) .. TailAt(w) + (p + 1) - 1
      BY <1>1, <1>3, <3>2, <3>4 DEF Occupied
    <3> QED BY <3>1, <3>2, <3>3, <3>5
  <2>10. reg'[w].first = next[n] /\ next' = next /\ flags' = flags /\ cache' = cache
    BY <1>1, <2>3, <2>8
  <2>11. Chaining(w)' /\ Consuming(w) /\ q = reg[w].q /\ n = Popped(w)
    BY <1>0, <1>1, <2>9
  <2>12. /\ \A u \in Queues \ {q} : stack'[u] = stack[u] /\ cache'[u] = cache[u] /\ flags'[u] = flags[u]
         /\ Proper(stack[q])' /\ CacheOK(q)' /\ Proper(reg[w].first)'
         /\ Cached(q) = {} /\ Cached(q)' = {}
         /\ Chain(w)' \cap Stacked(q)' = {} /\ n \notin Chain(w)' \cup Stacked(q)'
         /\ Chain(w)' \cup Stacked(q)' \cup {n} = Chain(w) \cup Stacked(q)
    BY <2>1, <2>2, <2>10, <2>11, Popping
  <2>13. n \notin Ring(w)
    <3>1. n \in Chain(w) \cup Stacked(q)
      BY <2>12
    <3> QED BY <1>2, <3>1, NearApart
  <2>14. /\ \A j \in Occupied(w) : At(w, j)' = At(w, j) /\ j # TailAt(w) + p
         /\ At(w, TailAt(w) + p)' = n
         /\ Occupied(w)' = Occupied(w) \cup {TailAt(w) + p}
    <3>1. \A j \in Occupied(w) : At(w, j)' = At(w, j)
      BY <2>7, <2>8
    <3>2. array'[w][Cell(TailAt(w) + p)] = n
      <4>1. PICK t : t = TailAt(w) + p
        OBVIOUS
      <4>2. At(w, t)' = n
        BY <2>6, <2>8, <4>1
      <4> QED BY <4>1, <4>2 DEF At
    <3>3. At(w, TailAt(w) + p)' = n
      BY <2>8, <3>2 DEF At
    <3>4. /\ \A j \in Occupied(w) : j # TailAt(w) + p
          /\ Occupied(w)' = Occupied(w) \cup {TailAt(w) + p}
      BY <1>1, <1>3, <2>9
    <3> QED BY <3>1, <3>3, <3>4
  <2>15. PICK t, O : t = TailAt(w) + p /\ O = Occupied(w)
    OBVIOUS
  <2>16. /\ \A j \in O : At(w, j)' = At(w, j) /\ j # t
         /\ At(w, t)' = n /\ Occupied(w)' = O \cup {t}
         /\ \A i, j \in O : At(w, i) \in Nodes /\ (At(w, i) = At(w, j) => i = j)
         /\ \A j \in O : At(w, j) # n
         /\ Ring(w) = {At(w, j) : j \in O}
    <3>1. At(w, t)' = n
      <4>1. array'[w][Cell(TailAt(w) + p)] = n
        BY <2>8, <2>14 DEF At
      <4> QED BY <2>15, <4>1 DEF At
    <3>2. \A j \in O : At(w, j) # n
      BY <2>13, <2>15 DEF Ring
    <3> QED BY <1>3, <2>14, <2>15, <3>1, <3>2 DEF Ring
  <2>17. Ring(w)' = Ring(w) \cup {n} /\ Ring(w)' = {At(w, j)' : j \in O \cup {t}}
    <3>1. Ring(w)' = {At(w, j)' : j \in O \cup {t}}
      BY <2>16 DEF Ring
    <3> QED BY <2>16, <3>1
  <2>18. RingOK(w)'
    <3>1. Mark(w)' <= Limit'
      <4>1. Limit \in Int /\ Limit' \in Int /\ Limit <= Limit'
        BY <2>8, LimitGrows, Constants
      <4> QED BY <1>3, <2>9, <4>1
    <3>2. \A i, j \in Occupied(w)' : At(w, i)' \in Nodes /\ (At(w, i)' = At(w, j)' => i = j)
      BY <2>2, <2>16
    <3>3. HeadAt(w)' <= TailAt(w)' /\ EndAt(w)' <= HeadAt(w)' + Capacity
      BY <1>1, <1>3, <1>5, <2>8, <2>9, Constants
    <3> QED BY <3>1, <3>2, <3>3 DEF RingOK, Mark, Limit
  <2>19. HandOK(w)' /\ ThiefOK(w)' /\ BatchOK(w)'
    BY <1>1, <2>3, <2>8 DEF HandOK, ThiefOK, BatchOK, EmptyHanded, Handing, Searching, Stealing
  <2>20. Own(w)
    BY <2>12, <2>18, <2>19 DEF Own
  <2> DEFINE x == <<"ring", w>>
             b == <<"chain", w>>
             c == <<"stack", q>>
             d == <<"hand", w>>
             e == <<"cache", q>>
  <2>21. /\ Where[x] = Ring(w) /\ Where'[x] = Ring(w)' /\ Where[b] = Chain(w) /\ Where'[b] = Chain(w)'
         /\ Where[c] = Stacked(q) /\ Where'[c] = Stacked(q)' /\ Where[d] = Hand(w)
               /\ Where'[d] = Hand(w)'
         /\ Where[e] = Cached(q) /\ Where'[e] = Cached(q)'
    BY <1>2, NearIs
  <2>22. /\ x \in Near(w, q) /\ b \in Near(w, q) /\ c \in Near(w, q) /\ x # b /\ b # c /\ x # c
         /\ \A s \in Near(w, q) : s \in {x, b, c, d, e}
    BY DEF Near
  <2>23. Ring(w) \cap Chain(w) = {} /\ Ring(w) \cap Stacked(q) = {}
    BY <1>2, NearApart
  <2> HIDE DEF x, b, c, d, e
  <2>24. \A s \in Near(w, q) \ {x, b, c} : Where'[s] = Where[s]
    BY <2>9, <2>12, <2>21, <2>22
  <2>25. /\ Where'[x] \cap Where'[b] = {} /\ Where'[b] \cap Where'[c] = {}
               /\ Where'[x] \cap Where'[c] = {}
         /\ Where'[x] \cup Where'[b] \cup Where'[c] = Where[x] \cup Where[b] \cup Where[c]
    BY <2>12, <2>17, <2>21, <2>23
  <2> QED BY <1>1, <1>2, <2>8, <2>12, <2>20, <2>22, <2>24, <2>25, Consumes
<1> QED BY <1>4, <1>5
-----------------------------------------------------------------------------
(* Filling the own ring, and claiming what another one holds.                *)

\* A step of w that moves nodes between two of its own places and touches no queue.
LEMMA Between ==
  ASSUME NoLap, Sound, NEW w \in Workers, Step(w), Own(w), \A v \in Workers \ {w} : head'[v] = head[v],
         stack' = stack, cache' = cache, flags' = flags, fresh' = fresh, runs' = runs,
         \A q \in Queues : \A n \in Stacked(q) \cup Cached(q) : next'[n] = next[n],
         \A n \in New' : next'[n] = Null,
         NEW a \in {<<"hand", w>>, <<"ring", w>>, <<"chain", w>>},
         NEW b \in {<<"hand", w>>, <<"ring", w>>, <<"chain", w>>}, a # b,
         \A s \in {<<"hand", w>>, <<"ring", w>>, <<"chain", w>>} \ {a, b} : Where'[s] = Where[s],
         Where'[a] \cap Where'[b] = {}, Where'[a] \cup Where'[b] = Where[a] \cup Where[b]
  PROVE  Sound'
<1>1. /\ Types' /\ Chains' /\ Locally'
      /\ \A v \in Workers \ {w} : Hand(v)' = Hand(v) /\ Ring(v)' = Ring(v) /\ Chain(v)' = Chain(v)
      /\ \A p \in Queues \ {} : Stacked(p)' = Stacked(p) /\ Cached(p)' = Cached(p)
  <2>1. w \in Queues
    BY Constants
  <2> QED BY <2>1, Settles
<1>2. w \in Queues /\ a \in Near(w, w) /\ b \in Near(w, w) /\ {a, b} \in SUBSET Near(w, w)
  BY Constants DEF Near
<1>3. \A s \in Near(w, w) \ {a, b} : Where'[s] = Where[s]
  <2> SUFFICES ASSUME NEW s \in Near(w, w) \ {a, b} PROVE Where'[s] = Where[s]
    OBVIOUS
  <2>1. CASE s \in {<<"hand", w>>, <<"ring", w>>, <<"chain", w>>}
    BY <2>1
  <2>2. CASE s \in {<<"stack", w>>, <<"cache", w>>}
    <3>1. Stacked(w)' = Stacked(w) /\ Cached(w)' = Cached(w)
      BY <1>1, <1>2
    <3>2. /\ Where[<<"stack", w>>] = Stacked(w) /\ Where'[<<"stack", w>>] = Stacked(w)'
          /\ Where[<<"cache", w>>] = Cached(w) /\ Where'[<<"cache", w>>] = Cached(w)'
      BY <1>2, NearIs
    <3> QED BY <2>2, <3>1, <3>2
  <2> QED BY <2>1, <2>2 DEF Near
<1>4. {a, b} \in SUBSET Spots /\ \A s \in DOMAIN Where \ {a, b} : Where'[s] = Where[s]
  <2>1. \A p \in Queues \ {w} : Stacked(p)' = Stacked(p) /\ Cached(p)' = Cached(p)
    BY <1>1
  <2> QED BY <1>1, <1>2, <1>3, <2>1, FarStay
<1>5. a \in Spots /\ b \in Spots /\ Placed
  BY <1>4 DEF Sound
<1>6. Placed'
  BY <1>4, <1>5, TwoMove
<1> QED BY <1>1, <1>6 DEF Sound

\* A worker's places share no node.
LEMMA OwnApart ==
  ASSUME Sound, NEW w \in Workers
  PROVE  Ring(w) \cap Chain(w) = {} /\ Hand(w) \cap Chain(w) = {} /\ Hand(w) \cap Ring(w) = {}
BY NearApart, Constants

\* What is known of a batch being stored.
LEMMA Batch ==
  ASSUME NoLap, Sound, NEW w \in Workers, pc[w] = "fill"
  PROVE  /\ reg[w] \in Regs /\ reg[w].node # Null /\ reg[w].from \in Index
         /\ reg[w].first \in Nodes /\ reg[w].last \in Nodes /\ reg[w].last < fresh
         /\ reg[w].first \in Nat /\ reg[w].last \in Nat /\ reg[w].first <= reg[w].last
         /\ Chain(w) = reg[w].first .. reg[w].last /\ ~Chaining(w) /\ Chain(w) \subseteq Nodes
         /\ \A n \in Chain(w) : next[n] = IF n = reg[w].last THEN Null ELSE n + 1
         /\ Ahead(w) = 0 /\ EndAt(w) = TailAt(w) /\ Unstored(w) = reg[w].last - reg[w].first + 1
         /\ Pos(reg[w].from) \in Nat /\ Pos(reg[w].from) <= HeadAt(w)
         /\ TailAt(w) <= Pos(reg[w].from) + Capacity
         /\ Minus(tail[w], reg[w].from) = TailAt(w) - Pos(reg[w].from)
<1>1. reg[w] \in Regs /\ reg[w].from \in Index /\ reg[w].first \in Nat /\ reg[w].last \in Nat
      /\ Pos(reg[w].from) \in Nat
  BY Numbers, Locals
<1>2. /\ reg[w].first \in Nodes /\ reg[w].last \in Nodes /\ reg[w].last < fresh
      /\ reg[w].first <= reg[w].last /\ reg[w].node # Null
      /\ \A n \in Chain(w) : next[n] = IF n = reg[w].last THEN Null ELSE n + 1
      /\ Pos(reg[w].from) <= HeadAt(w) /\ TailAt(w) <= Pos(reg[w].from) + Capacity
  BY DEF Sound, Locally, BatchOK, HandOK, Handing
<1>3. Chain(w) = reg[w].first .. reg[w].last /\ ~Chaining(w) /\ Ahead(w) = 0
      /\ Unstored(w) = reg[w].last - reg[w].first + 1
  BY DEF Chain, Chaining, Consuming, Ahead, Storing, Unstored
<1>4. EndAt(w) = TailAt(w)
  BY <1>3, Numbers DEF EndAt
<1>5. Chain(w) \subseteq Nodes
  BY <1>1, <1>2, <1>3, Constants
<1>6. Minus(tail[w], reg[w].from) = TailAt(w) - Pos(reg[w].from)
  <2>1. HeadAt(w) <= TailAt(w) /\ HeadAt(w) \in Nat /\ TailAt(w) \in Nat /\ tail[w] \in Index
    BY Numbers
  <2>2. Pos(reg[w].from) <= Pos(tail[w])
    BY <1>1, <1>2, <2>1 DEF TailAt
  <2> QED BY <1>1, <2>1, <2>2, Distance DEF TailAt
<1> QED BY <1>1, <1>2, <1>3, <1>4, <1>5, <1>6

\* What fits of a batch is stored beyond the tail.
LEMMA BufferFillSound == ASSUME NoLap, Sound, NEW w \in Workers, BufferFill(w) PROVE Sound'
<1>0. PICK i, k, z, t : i = reg[w].first /\ k = Fits(w) /\ z = reg[w].last /\ t = TailAt(w)
  OBVIOUS
<1>1. /\ pc[w] = "fill" /\ k > 0 /\ pc' = [pc EXCEPT ![w] = "fill_publish"]
      /\ UNCHANGED <<next, stack, flags, cache, head, tail, fresh, runs>>
  BY <1>0 DEF BufferFill, Goto, queue
<1>2. /\ reg[w] \in Regs /\ reg[w].node # Null /\ i \in Nodes /\ z \in Nodes /\ z < fresh
      /\ i \in Nat /\ z \in Nat /\ i <= z
      /\ Chain(w) = i .. z /\ ~Chaining(w) /\ Chain(w) \subseteq Nodes
      /\ \A n \in Chain(w) : next[n] = IF n = z THEN Null ELSE n + 1
      /\ Ahead(w) = 0 /\ EndAt(w) = t /\ Unstored(w) = z - i + 1
  BY <1>0, <1>1, Batch
<1>3. /\ HeadAt(w) \in Nat /\ t \in Nat /\ HeadAt(w) <= t /\ tail[w] \in Index /\ tail[w] \in Nat
  BY <1>0, Numbers, IndexNat
<1>4. k \in Nat /\ k <= z - i + 1 /\ k <= Capacity /\ t + k <= HeadAt(w) + Capacity
  <2>1. /\ Pos(reg[w].from) \in Nat /\ Pos(reg[w].from) <= HeadAt(w)
        /\ Minus(tail[w], reg[w].from) = t - Pos(reg[w].from)
    BY <1>0, <1>1, Batch
  <2>2. k = Least(z - i + 1, Capacity - (t - Pos(reg[w].from)))
    BY <1>0, <2>1 DEF Fits
  <2>3. k <= z - i + 1 /\ k <= Capacity - (t - Pos(reg[w].from)) /\ k \in Int
    <3> DEFINE a == z - i + 1
               b == Capacity - (t - Pos(reg[w].from))
    <3>1. a \in Int /\ b \in Int
      BY <1>2, <1>3, <2>1, Constants
    <3> HIDE DEF a, b
    <3>2. k = Least(a, b)
      BY <2>2 DEF a, b
    <3>3. k <= a /\ k <= b /\ k \in Int
      BY ONLY <3>1, <3>2 DEF Least
    <3> QED BY ONLY <3>3 DEF a, b
  <2>4. t - Pos(reg[w].from) >= 0
    BY <1>3, <2>1
  <2> QED BY <1>1, <1>2, <1>3, <2>1, <2>3, <2>4, Constants
<1> DEFINE f == [d \in 0 .. Capacity - 1 |-> i + d]
           a == Stored(w, tail[w], f, k)
           r == [reg[w] EXCEPT !.pushed = k]
<1>5. reg' = [reg EXCEPT ![w] = r] /\ array' = [array EXCEPT ![w] = a]
  BY <1>0 DEF BufferFill, Sound, Types
<1>6. k \in 0 .. Capacity /\ r \in Regs /\ r.node = reg[w].node /\ r.first = i /\ r.last = z
      /\ r.pushed = k
  <2>1. k \in 0 .. Capacity
    BY <1>4, Constants
  <2> QED BY <1>0, <1>2, <2>1 DEF Regs
<1>7. \A d \in 0 .. k - 1 : f[d] = i + d /\ f[d] \in Chain(w) /\ f[d] \in Nodes
  <2> SUFFICES ASSUME NEW d \in 0 .. k - 1 PROVE f[d] = i + d /\ f[d] \in Chain(w)
    BY <1>2
  <2>1. d \in 0 .. Capacity - 1
    BY <1>4, Constants
  <2>2. f[d] = i + d
    BY <2>1
  <2>3. i + d \in i .. z
    BY <1>2, <1>4
  <2> QED BY <1>2, <2>2, <2>3
<1>8. tail[w] \in Int /\ t \in Int /\ Slot(tail[w]) = Cell(t)
  <2>1. Slot(tail[w] + 0) = Cell(Pos(tail[w]) + 0)
    BY <1>3, CellOf
  <2>2. tail[w] + 0 = tail[w] /\ Pos(tail[w]) + 0 = Pos(tail[w])
    BY <1>3, IndexNat
  <2> QED BY <1>0, <1>3, <2>1, <2>2 DEF TailAt
<1> HIDE DEF f
<1>9. a \in [0 .. Capacity - 1 -> Nodes \cup {Null}]
  BY <1>6, <1>7, <1>8, StoredType DEF Sound
<1>10. \A d \in 0 .. k - 1 : a[Cell(t + d)] = i + d
  BY <1>6, <1>7, <1>8, StoredAt
<1>11. \A j \in HeadAt(w) .. t - 1 : a[Cell(j)] = At(w, j)
  <2> SUFFICES ASSUME NEW j \in HeadAt(w) .. t - 1 PROVE a[Cell(j)] = At(w, j)
    OBVIOUS
  <2>1. j \in Int /\ j < t /\ t + k <= j + Capacity
    BY <1>3, <1>4, Constants
  <2> QED BY <1>6, <1>8, <2>1, StoredBefore DEF At
<1> HIDE DEF a, r
<1>12. /\ Step(w) /\ reg'[w] = r /\ pc'[w] = "fill_publish"
       /\ \A v \in Workers : HeadAt(v)' = HeadAt(v) /\ TailAt(v)' = TailAt(v)
       /\ \A j : At(w, j)' = a[Cell(j)]
  <2>1. "fill_publish" \in Labels /\ stack' \in [Queues -> Nodes \cup {Null}]
    BY <1>1 DEF Labels, Sound, Types
  <2>2. Writing(w, "fill_publish", r, a)
    BY <1>0, <1>1, <1>5, <1>6, <1>9, <1>11, <2>1 DEF Writing
  <2> QED BY <2>2, Writes
<1>13. /\ HeadAt(w)' = HeadAt(w) /\ TailAt(w)' = t /\ Ahead(w)' = k /\ EndAt(w)' = t + k
       /\ Unstored(w)' = z - i - k + 1 /\ Chain(w)' = i + k .. z /\ ~Chaining(w)'
       /\ Hand(w)' = Hand(w) /\ Occupied(w) = HeadAt(w) .. t - 1
             /\ Occupied(w)' = HeadAt(w) .. t + k - 1
  <2>1. HeadAt(w)' = HeadAt(w) /\ TailAt(w)' = t
    BY <1>0, <1>12
  <2>2. /\ Ahead(w)' = k /\ Unstored(w)' = z - i - k + 1 /\ Chain(w)' = i + k .. z /\ ~Chaining(w)'
        /\ Hand(w)' = Hand(w)
    BY <1>6, <1>12 DEF Ahead, Storing, Unstored, Chain, Chaining, Consuming, Hand
  <2>3. EndAt(w)' = t + k
    BY <2>1, <2>2 DEF EndAt
  <2>4. Occupied(w) = HeadAt(w) .. t - 1
    BY <1>2 DEF Occupied
  <2>5. Occupied(w)' = HeadAt(w) .. t + k - 1
    BY <1>3, <1>4, <2>1, <2>3 DEF Occupied
  <2> QED BY <2>1, <2>2, <2>3, <2>4, <2>5
<1>14. PICK h, O : h = HeadAt(w) /\ O = Occupied(w)
  OBVIOUS
<1>15. /\ \A j \in O : At(w, j)' = At(w, j)
       /\ \A j \in t .. t + k - 1 : At(w, j)' = i + (j - t)
       /\ Occupied(w)' = O \cup (t .. t + k - 1) /\ O = h .. t - 1
       /\ \A j \in O : At(w, j) \in Nodes /\ \A m \in O : At(w, j) = At(w, m) => j = m
       /\ Ring(w) = {At(w, j) : j \in O}
       /\ \A j \in O : At(w, j) \notin i .. z
  <2>1. \A j \in O : At(w, j)' = At(w, j)
    BY <1>11, <1>12, <1>13, <1>14
  <2>2. \A j \in t .. t + k - 1 : At(w, j)' = i + (j - t)
    <3> SUFFICES ASSUME NEW j \in t .. t + k - 1 PROVE At(w, j)' = i + (j - t)
      OBVIOUS
    <3>1. j - t \in 0 .. k - 1 /\ t + (j - t) = j
      BY <1>3, <1>4
    <3>2. a[Cell(t + (j - t))] = i + (j - t)
      BY <1>10, <3>1
    <3> QED BY <1>12, <3>1, <3>2
  <2>3. Occupied(w)' = O \cup (t .. t + k - 1) /\ O = h .. t - 1
    BY <1>3, <1>4, <1>13, <1>14
  <2>4. \A j \in O : At(w, j) \in Nodes /\ \A m \in O : At(w, j) = At(w, m) => j = m
    BY <1>14 DEF Sound, Locally, RingOK
  <2>5. Ring(w) = {At(w, j) : j \in O}
    BY <1>14 DEF Ring
  <2>6. Ring(w) \cap (i .. z) = {}
    BY <1>2, OwnApart
  <2> QED BY <2>1, <2>2, <2>3, <2>4, <2>5, <2>6
<1>16. RingOK(w)'
  <2>1. Mark(w)' <= Limit'
    <3>1. Mark(w) <= Limit /\ Limit \in Int /\ Limit' \in Int /\ Limit <= Limit'
      BY <1>12, RingParts, LimitGrows, Constants DEF Sound, Locally
    <3>2. Mark(w)' = (t + k) + (z - i - k + 1)
      BY <1>12, <1>13 DEF Mark
    <3>3. Mark(w) = t + (z - i + 1)
      BY <1>1, <1>2 DEF Mark
    <3> QED BY <1>2, <1>3, <1>4, <3>1, <3>2, <3>3
  <2>2. \A m, j \in Occupied(w)' : At(w, m)' \in Nodes /\ (At(w, m)' = At(w, j)' => m = j)
    <3> SUFFICES ASSUME NEW m \in Occupied(w)', NEW j \in Occupied(w)'
                 PROVE  At(w, m)' \in Nodes /\ (At(w, m)' = At(w, j)' => m = j)
      OBVIOUS
    <3>1. \A x \in t .. t + k - 1 : At(w, x)' \in i .. z /\ At(w, x)' \in Nodes
          /\ At(w, x)' = i + (x - t)
      <4> SUFFICES ASSUME NEW x \in t .. t + k - 1 PROVE At(w, x)' \in i .. z /\ At(w, x)' = i + (x - t)
        BY <1>2
      <4>1. At(w, x)' = i + (x - t)
        BY <1>15
      <4>2. i + (x - t) \in i .. z
        BY <1>2, <1>3, <1>4
      <4> QED BY <4>1, <4>2
    <3>2. CASE m \in O /\ j \in O
      BY <1>15, <3>2
    <3>3. CASE m \in O /\ j \in t .. t + k - 1
      BY <1>15, <3>1, <3>3
    <3>4. CASE m \in t .. t + k - 1 /\ j \in O
      BY <1>15, <3>1, <3>4
    <3>5. CASE m \in t .. t + k - 1 /\ j \in t .. t + k - 1
      <4>1. At(w, m)' = i + (m - t) /\ At(w, j)' = i + (j - t) /\ At(w, m)' \in Nodes
        BY <3>1, <3>5
      <4>2. i + (m - t) = i + (j - t) => m = j
        BY <1>2, <1>3, <1>4, <3>5
      <4> QED BY <4>1, <4>2
    <3> QED BY <1>15, <3>2, <3>3, <3>4, <3>5
  <2>3. HeadAt(w)' <= TailAt(w)' /\ EndAt(w)' <= HeadAt(w)' + Capacity
    BY <1>3, <1>4, <1>13
  <2> QED BY <2>1, <2>2, <2>3 DEF RingOK, Mark, Limit
<1>17. Ring(w)' = Ring(w) \cup (i .. i + k - 1)
  <2>1. Ring(w)' = {At(w, j)' : j \in O \cup (t .. t + k - 1)}
    BY <1>15 DEF Ring
  <2>2. {At(w, j)' : j \in t .. t + k - 1} = i .. i + k - 1
    <3>1. \A j \in t .. t + k - 1 : At(w, j)' = i + (j - t) /\ i + (j - t) \in i .. i + k - 1
      BY <1>2, <1>3, <1>4, <1>15
    <3>2. \A n \in i .. i + k - 1 : t + (n - i) \in t .. t + k - 1 /\ i + ((t + (n - i)) - t) = n
      BY <1>2, <1>3, <1>4
    <3> QED BY <1>15, <3>1, <3>2
  <2>3. {At(w, j)' : j \in O} = Ring(w)
    BY <1>15
  <2> QED BY <2>1, <2>2, <2>3
<1>18. HandOK(w)' /\ ThiefOK(w)'
  BY <1>2, <1>6, <1>12 DEF HandOK, ThiefOK, EmptyHanded, Searching, Stealing
<1>19. BatchOK(w)'
  <2>1. Chain(w)' \subseteq Chain(w) /\ i + k <= z + 1
    BY <1>2, <1>4, <1>13
  <2>2. /\ reg'[w].first = i /\ reg'[w].last = z /\ reg'[w].pushed = k /\ pc'[w] = "fill_publish"
        /\ fresh' = fresh /\ next' = next
    BY <1>1, <1>6, <1>12
  <2> QED BY <1>1, <1>2, <2>1, <2>2 DEF BatchOK
<1>20. Own(w)
  BY <1>13, <1>16, <1>18, <1>19 DEF Own
<1> DEFINE x == <<"ring", w>>
           y == <<"chain", w>>
           W == {<<"hand", w>>, <<"ring", w>>, <<"chain", w>>}
<1>21. /\ Where[x] = Ring(w) /\ Where'[x] = Ring(w)' /\ Where[y] = Chain(w) /\ Where'[y] = Chain(w)'
       /\ x \in W /\ y \in W /\ x # y
       /\ \A s \in W \ {x, y} : Where'[s] = Where[s]
  BY <1>13, WhereIs, WhereNext
<1>22. /\ Where'[x] \cap Where'[y] = {} /\ Where'[x] \cup Where'[y] = Where[x] \cup Where[y]
  <2>1. (i .. i + k - 1) \cup (i + k .. z) = i .. z /\ (i .. i + k - 1) \cap (i + k .. z) = {}
    BY <1>2, <1>4
  <2>2. Ring(w) \cap (i .. z) = {}
    BY <1>2, OwnApart
  <2> HIDE DEF x, y
  <2> QED BY <1>2, <1>13, <1>17, <1>21, <2>1, <2>2
<1>23. /\ \A n \in New' : next'[n] = Null
       /\ \A q \in Queues : \A n \in Stacked(q) \cup Cached(q) : next'[n] = next[n]
  BY <1>1 DEF New, Sound, Chains
<1> HIDE DEF x, y
<1>24. /\ Step(w) /\ Own(w) /\ \A v \in Workers \ {w} : head'[v] = head[v]
       /\ stack' = stack /\ cache' = cache /\ flags' = flags /\ fresh' = fresh /\ runs' = runs
  BY <1>1, <1>12, <1>20
<1> QED BY ONLY ZenonT(60), <1>21, <1>22, <1>23, <1>24, NoLap, Sound, w \in Workers, Between
\* A claim that succeeds: the copied nodes are the thief's, the last one in its hand.
LEMMA ClaimSound ==
  ASSUME NoLap, Sound, NEW w \in Workers, StealClaim(w), Unmoved(w)
  PROVE  Sound'
<1>0. PICK v, p, at, t : v = reg[w].victim /\ p = reg[w].pushed /\ at = Pos(reg[w].from)
      /\ t = TailAt(w)
  OBVIOUS
<1>1. /\ pc[w] = "steal_claim" /\ reg[w] \in Regs /\ reg[w].node = Null /\ head[w] = tail[w]
      /\ v \in Workers \ {w} /\ head[v] = reg[w].from /\ p > 0 /\ p \in 0 .. Capacity /\ p \in Nat
      /\ HeadAt(v) = at /\ at + p <= TailAt(v)
      /\ \A i \in 0 .. p - 1 : At(w, t + i) = At(v, at + i)
      /\ UNCHANGED <<next, stack, flags, cache, array, tail, fresh, runs>>
  <2>1. pc[w] = "steal_claim" /\ ThiefOK(w) /\ UNCHANGED <<next, stack, flags, cache, array, tail,
        fresh, runs>>
    BY DEF StealClaim, Sound, Locally, queue
  <2>2. v \in Workers \ {w} /\ head[v] = reg[w].from
    BY <1>0, <2>1 DEF ThiefOK, Stealing, Unmoved
  <2>3. p > 0 /\ at + p <= TailAt(v) /\ \A i \in 0 .. p - 1 : At(w, t + i) = At(v, at + i)
    BY <1>0, <2>1, <2>2 DEF ThiefOK
  <2>4. reg[w] \in Regs /\ p \in 0 .. Capacity /\ p \in Nat /\ HeadAt(v) = at
    BY <1>0, <2>2, Numbers, Locals DEF HeadAt
  <2> QED BY <2>1, <2>2, <2>3, <2>4, Empty DEF Stealing
<1>2. /\ HeadAt(w) = t /\ t \in Nat /\ at \in Nat /\ EndAt(w) = t /\ Ahead(w) = 0 /\ Unstored(w) = 0
      /\ Mark(w) = t /\ Mark(w) <= Limit /\ Ring(w) = {} /\ Hand(w) = {} /\ Chain(w) = {}
            /\ ~Chaining(w)
  <2>1. HeadAt(w) = t /\ t \in Nat /\ at \in Nat
    BY <1>0, <1>1, Numbers DEF HeadAt, TailAt
  <2>2. /\ Ahead(w) = 0 /\ Unstored(w) = 0 /\ Chain(w) = {} /\ ~Chaining(w) /\ Hand(w) = {}
    BY <1>1 DEF Ahead, Storing, Unstored, Chain, Chaining, Consuming, Hand
  <2>3. EndAt(w) = t
    BY <1>0, <2>1, <2>2 DEF EndAt
  <2>4. Mark(w) = t /\ Mark(w) <= Limit
    BY <1>1, <2>1, <2>2, <2>3, RingParts DEF Mark, Sound, Locally
  <2>5. Ring(w) = {}
    BY <2>1, <2>3 DEF Ring, Occupied
  <2> QED BY <2>1, <2>2, <2>3, <2>4, <2>5
<1>3. PICK e : e = EndAt(v)
  OBVIOUS
<1>4. /\ TailAt(v) \in Nat /\ e \in Nat /\ TailAt(v) <= e /\ e < IndexSize /\ e <= at + Capacity
      /\ Occupied(v) = at .. e - 1
      /\ \A i, j \in at .. e - 1 : At(v, i) \in Nodes /\ (At(v, i) = At(v, j) => i = j)
  <2>1. /\ TailAt(v) \in Nat /\ e \in Nat /\ TailAt(v) <= e /\ e < IndexSize /\ e <= at + Capacity
    BY <1>1, <1>3, Numbers
  <2>2. Occupied(v) = at .. e - 1 /\ RingOK(v)
    BY <1>1, <1>3 DEF Occupied, Sound, Locally
  <2> QED BY <2>1, <2>2 DEF RingOK
<1> DEFINE n == array[w][Slot(tail[w] + p - 1)]
           r == [reg[w] EXCEPT !.pushed = p - 1, !.node = n]
<1>5. /\ head' = [head EXCEPT ![v] = Plus(@, p)] /\ reg' = [reg EXCEPT ![w] = r]
      /\ pc' = [pc EXCEPT ![w] = "steal_publish"]
  <2>1. reg \in [Workers -> Regs]
    BY DEF Sound, Types
  <2> QED BY <1>0, <2>1 DEF StealClaim, Goto
<1>6. n = At(v, at + (p - 1)) /\ n \in Nodes
  <2>1. tail[w] \in Index /\ tail[w] \in Nat /\ Pos(tail[w]) \in Nat /\ p - 1 \in Int
    BY <1>1, Numbers, IndexNat
  <2>2. Slot(tail[w] + (p - 1)) = Cell(Pos(tail[w]) + (p - 1))
    BY <2>1, CellOf
  <2>3. tail[w] + (p - 1) = tail[w] + p - 1 /\ p - 1 \in 0 .. p - 1
    BY <1>1, <2>1
  <2>4. n = At(w, t + (p - 1))
    BY <1>0, <2>2, <2>3 DEF At, TailAt
  <2>5. at + (p - 1) \in at .. e - 1
    BY <1>1, <1>2, <1>4
  <2> QED BY <1>1, <1>4, <2>3, <2>4, <2>5
<1> HIDE DEF n
<1>7. r \in Regs /\ r.node = n /\ r.pushed = p - 1
  <2>1. p - 1 \in 0 .. Capacity
    BY <1>1, Constants
  <2> QED BY <1>1, <1>6, <2>1 DEF Regs
<1> HIDE DEF r
<1>8. /\ reg'[w] = r /\ pc'[w] = "steal_publish" /\ head'[v] = Plus(head[v], p)
      /\ \A u \in Workers \ {w} : reg'[u] = reg[u] /\ pc'[u] = pc[u]
      /\ \A u \in Workers \ {v} : head'[u] = head[u]
  BY <1>1, <1>5 DEF Sound, Types
<1>9. head'[v] \in Index /\ HeadAt(v)' = at + p
  <2>1. head[v] \in Index /\ Pos(head[v]) = at
    BY <1>1, Numbers DEF HeadAt
  <2>2. Pos(head[v]) + p < IndexSize
    BY <1>1, <1>2, <1>4, <2>1, Constants
  <2>3. Plus(head[v], p) \in Index /\ Pos(Plus(head[v], p)) = Pos(head[v]) + p
    BY <1>1, <2>1, <2>2, Advance
  <2>4. Pos(head'[v]) = at + p
    BY <1>8, <2>1, <2>3
  <2> QED BY <1>8, <2>3, <2>4 DEF HeadAt
<1>10. Types'
  <2>1. head' \in [Workers -> Index]
    BY <1>1, <1>5, <1>8, <1>9 DEF Sound, Types
  <2>2. reg' \in [Workers -> Regs] /\ pc' \in [Workers -> Labels]
    BY <1>5, <1>7 DEF Sound, Types, Labels
  <2> QED BY <1>1, <2>1, <2>2 DEF Sound, Types
<1>11. /\ \A u \in Workers : TailAt(u)' = TailAt(u) /\ \A j : At(u, j)' = At(u, j)
       /\ \A u \in Workers \ {v} : HeadAt(u)' = HeadAt(u)
  BY <1>1, <1>8 DEF TailAt, At, HeadAt
<1>12. Step(w)
  <2>1. Taken \subseteq Taken'
    BY <1>1, <1>8, TakenStays
  <2>2. \A u \in Workers : HeadAt(u) <= HeadAt(u)' /\ TailAt(u) <= TailAt(u)'
    <3> SUFFICES ASSUME NEW u \in Workers PROVE HeadAt(u) <= HeadAt(u)' /\ TailAt(u) <= TailAt(u)'
      OBVIOUS
    <3>1. HeadAt(u) \in Nat /\ TailAt(u) \in Nat
      BY Numbers
    <3>2. CASE u = v
      BY <1>1, <1>2, <1>9, <1>11, <3>1, <3>2
    <3>3. CASE u # v
      BY <1>11, <3>1, <3>3
    <3> QED BY <3>2, <3>3
  <2>3. fresh \in Nat
    BY Constants DEF Sound, Types
  <2> QED BY <1>1, <1>8, <1>10, <1>11, <2>1, <2>2, <2>3 DEF Step
<1>13. /\ Ahead(w)' = p - 1 /\ EndAt(w)' = t + (p - 1) /\ Unstored(w)' = 0 /\ Mark(w)' = t + (p - 1)
       /\ Occupied(w)' = t .. t + (p - 1) - 1 /\ Chain(w)' = {} /\ ~Chaining(w)' /\ Hand(w)' = {n}
       /\ HeadAt(w)' = t /\ TailAt(w)' = t
  <2>1. HeadAt(w)' = t /\ TailAt(w)' = t
    BY <1>0, <1>1, <1>2, <1>11
  <2>2. Ahead(w)' = p - 1 /\ Unstored(w)' = 0 /\ Chain(w)' = {} /\ ~Chaining(w)'
    BY <1>7, <1>8 DEF Ahead, Storing, Unstored, Chain, Chaining, Consuming
  <2>3. Hand(w)' = {n}
    BY <1>6, <1>7, <1>8, NullIsNoNode DEF Hand
  <2>4. EndAt(w)' = t + (p - 1)
    BY <2>1, <2>2 DEF EndAt
  <2>5. Mark(w)' = t + (p - 1)
    BY <1>1, <1>2, <1>8, <2>2, <2>4 DEF Mark
  <2>6. Occupied(w)' = t .. t + (p - 1) - 1
    BY <1>1, <1>2, <2>1, <2>4 DEF Occupied
  <2> QED BY <2>1, <2>2, <2>3, <2>4, <2>5, <2>6
<1>14. n \in Taken' /\ n \notin Taken
  <2>1. n \in Taken'
    BY <1>6, <1>7, <1>8 DEF Taken
  <2>2. n \in Ring(v)
    <3>1. at + (p - 1) \in Occupied(v)
      BY <1>1, <1>2, <1>4
    <3> QED BY <1>6, <3>1 DEF Ring
  <2>3. /\ <<"ring", v>> \in Spots /\ Where[<<"ring", v>>] = Ring(v)
        /\ (\A u \in Workers : <<"ring", v>> # <<"hand", u>>) /\ <<"ring", v>> # <<"done", Pool>>
    BY <1>1, WhereIs
  <2> QED BY <1>6, <2>1, <2>2, <2>3, NotTaken
<1>15. RingOK(w)'
  <2>1. Mark(w)' <= Limit'
    <3>1. Limit \in Int /\ Limit' \in Int /\ Limit + Capacity <= Limit'
      BY <1>12, <1>14, LimitGains, Constants
    <3> QED BY <1>1, <1>2, <1>13, <3>1, Constants
  <2>2. \A i, j \in Occupied(w)' : At(w, i)' \in Nodes /\ (At(w, i)' = At(w, j)' => i = j)
    <3> SUFFICES ASSUME NEW i \in t .. t + (p - 1) - 1, NEW j \in t .. t + (p - 1) - 1
                 PROVE  At(w, i)' \in Nodes /\ (At(w, i)' = At(w, j)' => i = j)
      BY <1>13
    <3>0. p \in Nat /\ t \in Nat /\ at \in Nat /\ e \in Nat /\ p > 0 /\ at + p <= e
      BY <1>1, <1>2, <1>4
    <3>1. /\ i - t \in 0 .. p - 1 /\ j - t \in 0 .. p - 1 /\ t + (i - t) = i /\ t + (j - t) = j
          /\ at + (i - t) \in at .. e - 1 /\ at + (j - t) \in at .. e - 1
          /\ at + (i - t) = at + (j - t) => i = j
      BY <3>0
    <3>2. At(w, i) = At(v, at + (i - t)) /\ At(w, j) = At(v, at + (j - t))
      BY <1>1, <3>1
    <3> QED BY <1>4, <1>11, <3>1, <3>2
  <2>3. HeadAt(w)' <= TailAt(w)' /\ EndAt(w)' <= HeadAt(w)' + Capacity
    BY <1>1, <1>2, <1>13, Constants
  <2> QED BY <2>1, <2>2, <2>3 DEF RingOK, Mark, Limit
<1>16. Ring(w)' = {At(v, j) : j \in at .. at + (p - 1) - 1}
  <2>1. Ring(w)' = {At(w, j) : j \in t .. t + (p - 1) - 1}
    BY <1>11, <1>13 DEF Ring
  <2>2. \A j \in t .. t + (p - 1) - 1 :
          At(w, j) = At(v, at + (j - t)) /\ at + (j - t) \in at .. at + (p - 1) - 1
    <3> SUFFICES ASSUME NEW j \in t .. t + (p - 1) - 1
                 PROVE At(w, j) = At(v, at + (j - t)) /\ at + (j - t) \in at .. at + (p - 1) - 1
      OBVIOUS
    <3>1. j - t \in 0 .. p - 1 /\ t + (j - t) = j /\ at + (j - t) \in at .. at + (p - 1) - 1
      BY <1>1, <1>2
    <3> QED BY <1>1, <3>1
  <2>3. \A j \in at .. at + (p - 1) - 1 : t + (j - at) \in t .. t + (p - 1) - 1
        /\ at + ((t + (j - at)) - t) = j
    BY <1>1, <1>2
  <2> QED BY <2>1, <2>2, <2>3
<1>17. /\ EndAt(v)' = e /\ Occupied(v)' = at + p .. e - 1 /\ Chain(v)' = Chain(v) /\ Hand(v)' = Hand(v)
       /\ Ring(v)' = {At(v, j) : j \in at + p .. e - 1} /\ Unstored(v)' = Unstored(v)
  <2>1. EndAt(v)' = e /\ Hand(v)' = Hand(v) /\ Unstored(v)' = Unstored(v)
    BY <1>1, <1>3, <1>8, <1>11 DEF EndAt, Ahead, Hand, Unstored
  <2>2. Occupied(v)' = at + p .. e - 1
    BY <1>9, <2>1 DEF Occupied
  <2>3. Ring(v)' = {At(v, j) : j \in at + p .. e - 1}
    BY <1>1, <1>11, <2>2 DEF Ring
  <2>4. Chain(v)' = Chain(v)
    BY <1>1, <1>12, BatchStays, Constants
  <2> QED BY <2>1, <2>2, <2>3, <2>4
<1>18. RingOK(v)'
  <2>1. Mark(v)' <= Limit'
    <3>1. Mark(v)' = Mark(v)
      BY <1>1, <1>3, <1>8, <1>11, <1>17 DEF Mark
    <3>2. Mark(v) <= Limit /\ Mark(v) \in Int
      BY <1>1, RingParts, MarkNumber DEF Sound, Locally
    <3>3. Limit \in Int /\ Limit' \in Int /\ Limit <= Limit'
      BY <1>12, LimitGrows, Constants
    <3> QED BY <3>1, <3>2, <3>3
  <2>2. \A i, j \in Occupied(v)' : At(v, i)' \in Nodes /\ (At(v, i)' = At(v, j)' => i = j)
    <3>1. at + p .. e - 1 \subseteq at .. e - 1
      BY <1>1, <1>2, <1>4
    <3> QED BY <1>1, <1>4, <1>11, <1>17, <3>1
  <2>3. HeadAt(v)' <= TailAt(v)' /\ EndAt(v)' <= HeadAt(v)' + Capacity
    BY <1>1, <1>2, <1>4, <1>9, <1>11, <1>17, Constants
  <2> QED BY <2>1, <2>2, <2>3 DEF RingOK, Mark, Limit
<1>19. HandOK(v)'
  <2>1. head[v] # tail[v]
    <3>1. HeadAt(v) # TailAt(v)
      BY <1>1, <1>2, <1>4
    <3> QED BY <3>1 DEF HeadAt, TailAt
  <2>2. HandOK(v)
    BY <1>1 DEF Sound, Locally
  <2> QED BY <1>1, <1>8, <2>1, <2>2 DEF HandOK
<1>20. HandOK(w)' /\ ThiefOK(w)' /\ BatchOK(w)'
  <2>1. reg'[w].node # Null /\ head'[w] = tail'[w]
    BY <1>1, <1>6, <1>7, <1>8, NullIsNoNode
  <2> QED BY <1>8, <2>1 DEF HandOK, ThiefOK, BatchOK, EmptyHanded, Searching, Stealing
<1>21. \A u \in Workers \ {w} :
         /\ RingOK(u)' /\ HandOK(u)' /\ ThiefOK(u)' /\ BatchOK(u)'
         /\ Chaining(u)' => Proper(reg[u].first)'
         /\ Hand(u)' = Hand(u) /\ Chain(u)' = Chain(u) /\ (u # v => Ring(u)' = Ring(u))
  <2> SUFFICES ASSUME NEW u \in Workers \ {w}
               PROVE  /\ RingOK(u)' /\ HandOK(u)' /\ ThiefOK(u)' /\ BatchOK(u)'
                      /\ Chaining(u)' => Proper(reg[u].first)'
                      /\ Hand(u)' = Hand(u) /\ Chain(u)' = Chain(u) /\ (u # v => Ring(u)' = Ring(u))
    OBVIOUS
  <2>1. w \in Queues
    BY Constants
  <2>2. ThiefOK(u)' /\ BatchOK(u)' /\ Chain(u)' = Chain(u) /\ (Chaining(u)' => Proper(reg[u].first)')
    BY <1>12, <2>1, ThiefStays, BatchStays
  <2>3. CASE u = v
    BY <1>17, <1>18, <1>19, <2>2, <2>3
  <2>4. CASE u # v
    BY <1>8, <1>12, <2>1, <2>2, <2>4, RingStays, HandStays
  <2> QED BY <2>3, <2>4
<1>22. Locally'
  BY <1>15, <1>20, <1>21 DEF Locally
<1>23. /\ \A q \in Queues : /\ Stacked(q)' = Stacked(q) /\ Cached(q)' = Cached(q)
                            /\ Proper(stack[q])' /\ CacheOK(q)'
       /\ \A m \in New' : next'[m] = Null
  <2>1. next' \in Links
    BY <1>10 DEF Types, Links
  <2> QED BY <1>1, <2>1, StackStays, CacheStays DEF New, Sound, Chains
<1>24. Chains'
  <2>1. \A u \in Workers : Chaining(u)' => Proper(reg[u].first)'
    BY <1>13, <1>21
  <2> QED BY <1>23, <2>1 DEF Chains, CacheOK
<1> DEFINE a == <<"ring", v>>
           b == <<"ring", w>>
           c == <<"hand", w>>
<1>25. a \in Spots /\ b \in Spots /\ c \in Spots /\ a # b /\ b # c /\ a # c
       /\ {a, b, c} \in SUBSET Spots
  BY <1>1, WhereIs
<1>26. \A s \in DOMAIN Where \ {a, b, c} : Where'[s] = Where[s]
  <2>1. \A u \in Workers : /\ <<"hand", u>> \in {a, b, c} \/ Hand(u)' = Hand(u)
                           /\ <<"ring", u>> \in {a, b, c} \/ Ring(u)' = Ring(u)
                           /\ Chain(u)' = Chain(u)
    <3> SUFFICES ASSUME NEW u \in Workers
                 PROVE  /\ <<"hand", u>> \in {a, b, c} \/ Hand(u)' = Hand(u)
                        /\ <<"ring", u>> \in {a, b, c} \/ Ring(u)' = Ring(u)
                        /\ Chain(u)' = Chain(u)
      OBVIOUS
    <3>1. CASE u = w
      BY <1>2, <1>13, <3>1
    <3>2. CASE u # w
      <4>1. Hand(u)' = Hand(u) /\ Chain(u)' = Chain(u) /\ (u # v => Ring(u)' = Ring(u))
        BY <1>21, <3>2
      <4>2. u = v => <<"ring", u>> \in {a, b, c}
        OBVIOUS
      <4> HIDE DEF a, b, c
      <4> QED BY <4>1, <4>2
    <3> QED BY <3>1, <3>2
  <2>2. New' = New /\ Done' = Done
    BY <1>1 DEF New, Done
  <2> QED BY <1>23, <1>25, <2>1, <2>2, OthersStay
<1>27. /\ Where[a] = Ring(v) /\ Where'[a] = Ring(v)' /\ Where[b] = Ring(w) /\ Where'[b] = Ring(w)'
       /\ Where[c] = Hand(w) /\ Where'[c] = Hand(w)'
  BY <1>1, WhereIs, WhereNext
<1> HIDE DEF a, b, c
<1>28. /\ Where'[a] \cap Where'[b] = {} /\ Where'[b] \cap Where'[c] = {}
             /\ Where'[a] \cap Where'[c] = {}
       /\ Where'[a] \cup Where'[b] \cup Where'[c] = Where[a] \cup Where[b] \cup Where[c]
  <2> DEFINE A == at + p .. e - 1
             B == at .. at + (p - 1) - 1
             z == at + (p - 1)
  <2>1. A \cup B \cup {z} = at .. e - 1 /\ A \cap B = {} /\ z \notin A /\ z \notin B
    BY <1>1, <1>2, <1>4
  <2> HIDE DEF A, B, z
  <2>2. Ring(v) = {At(v, j) : j \in A \cup B \cup {z}}
    BY <1>4, <2>1 DEF Ring
  <2>3. Ring(v)' = {At(v, j) : j \in A} /\ Ring(w)' = {At(v, j) : j \in B} /\ n = At(v, z)
    BY <1>6, <1>16, <1>17 DEF A, B, z
  <2>4. \A i, j \in A \cup B \cup {z} : At(v, i) = At(v, j) => i = j
    BY <1>4, <2>1
  <2>5. Ring(v)' \cap Ring(w)' = {} /\ n \notin Ring(v)' /\ n \notin Ring(w)'
    BY <2>1, <2>3, <2>4
  <2>6. Ring(v)' \cup Ring(w)' \cup {n} = Ring(v)
    BY <2>2, <2>3
  <2> QED BY <1>2, <1>13, <1>27, <2>5, <2>6
<1>29. Placed'
  BY <1>25, <1>26, <1>28, ThreeMove DEF Sound
<1> QED BY <1>10, <1>22, <1>24, <1>29 DEF Sound

\* A claim takes the copied nodes from the victim, or fails when its head has moved.
LEMMA StealClaimSound == ASSUME NoLap, Sound, NEW w \in Workers, StealClaim(w) PROVE Sound'
<1>1. CASE Unmoved(w)
  BY <1>1, ClaimSound
<1>2. CASE ~Unmoved(w)
  <2>1. /\ pc[w] = "steal_claim" /\ reg[w].node = Null /\ head[w] = tail[w] /\ reg[w] \in Regs
        /\ reg' = [reg EXCEPT ![w] = reg[w]] /\ pc' = [pc EXCEPT ![w] = "steal_head"]
        /\ UNCHANGED <<next, queue, ring, fresh, runs>>
    BY <1>2, Empty, Numbers DEF StealClaim, Goto, ring, Stealing, Sound, Types
  <2>2. reg'[w] = reg[w] /\ pc'[w] = "steal_head"
    BY <2>1 DEF Sound, Types
  <2>3. ThiefOK(w)'
    BY <2>1, <2>2 DEF Sound, Locally, ThiefOK, Stealing
  <2> QED BY <2>1, <2>3, Search DEF Stealing
<1> QED BY <1>1, <1>2
-----------------------------------------------------------------------------
(* Overflowing: half of a full ring goes before the batch, all of it to the  *)
(* run queue.                                                                *)

\* What a worker has to itself is in no queue, in no other chain and not new.
LEMMA OwnOnly ==
  ASSUME Sound, NEW w \in Workers, NEW n \in Ring(w) \cup Chain(w)
  PROVE  /\ \A v \in Workers \ {w} : n \notin Chain(v)
         /\ \A q \in Queues : n \notin Stacked(q) \cup Cached(q)
         /\ n \notin New
<1>1. PICK s \in {<<"ring", w>>, <<"chain", w>>} : s \in Spots /\ n \in Where[s]
  BY WhereIs
<1>2. \A t \in Spots : t # s => n \notin Where[t]
  BY <1>1, SpotsApart
<1>3. ASSUME NEW v \in Workers \ {w} PROVE n \notin Chain(v)
  <2>1. <<"chain", v>> \in Spots /\ Where[<<"chain", v>>] = Chain(v)
    BY WhereIs
  <2>2. <<"chain", v>> # s
    BY <1>1
  <2> QED BY <1>2, <2>1, <2>2
<1>4. ASSUME NEW q \in Queues PROVE n \notin Stacked(q) \cup Cached(q)
  <2>1. /\ <<"stack", q>> \in Spots /\ Where[<<"stack", q>>] = Stacked(q)
        /\ <<"cache", q>> \in Spots /\ Where[<<"cache", q>>] = Cached(q)
    BY WhereIs
  <2>2. <<"stack", q>> # s /\ <<"cache", q>> # s
    BY <1>1
  <2> QED BY <1>2, <2>1, <2>2
<1>5. n \notin New
  <2>1. <<"new", Pool>> \in Spots /\ Where[<<"new", Pool>>] = New /\ <<"new", Pool>> # s
    BY <1>1, WhereIs
  <2> QED BY <1>2, <2>1
<1> QED BY <1>3, <1>4, <1>5

\* The overflow goes before the stack of the worker's queue.
LEMMA PushOverflowSound == ASSUME NoLap, Sound, NEW w \in Workers, PushOverflow(w) PROVE Sound'
<1>0. PICK first, last, top : first = reg[w].first /\ last = reg[w].last /\ top = stack[w]
  OBVIOUS
<1> DEFINE r == [NoReg EXCEPT !.node = reg[w].node]
<1>1. /\ pc[w] = "overflow" /\ reg[w] \in Regs
      /\ next' = [next EXCEPT ![last] = top] /\ stack' = [stack EXCEPT ![w] = first]
      /\ reg' = [reg EXCEPT ![w] = r] /\ pc' = [pc EXCEPT ![w] = "run"]
      /\ UNCHANGED <<flags, cache, array, head, tail, fresh, runs>>
  BY <1>0, Numbers DEF PushOverflow, PushTo, Result, Goto, ring
<1>2. /\ next \in Links /\ first \in Nodes \cup {Null} /\ Chain(w) = Reach(next, first) /\ Chaining(w)
      /\ ProperIn(next, first) /\ last \in Chain(w) /\ next[last] = Null /\ reg[w].node # Null
  <2>1. next \in Links /\ first \in Nodes \cup {Null} /\ Chaining(w)
    BY <1>0, <1>1, Locals DEF Sound, Types, Links, Chaining
  <2>2. Chain(w) = Reach(next, first)
    BY <1>0, <2>1 DEF Chain, Hanging
  <2>3. ProperIn(next, first)
    BY <1>0, <2>1 DEF Sound, Chains, Proper, ProperIn, Hanging
  <2>4. last \in Chain(w) /\ next[last] = Null /\ reg[w].node # Null
    BY <1>0, <1>1, <2>2 DEF Sound, Locally, BatchOK, HandOK, Handing, Hanging
  <2> QED BY <2>1, <2>2, <2>3, <2>4
<1>3. /\ w \in Queues /\ top \in Nodes \cup {Null} /\ Stacked(w) = Reach(next, top)
            /\ ProperIn(next, top)
  BY <1>0, Constants DEF Sound, Types, Chains, Proper, ProperIn, Hanging, Stacked
<1>4. /\ first \in Nodes /\ last \in Nodes /\ Chain(w) \cap Stacked(w) = {}
  <2>1. first # Null /\ last \in Nodes
    BY <1>2, ReachClosed
  <2> QED BY <1>2, <1>3, <2>1, NearApart
<1>5. next' \in Links /\ \A n \in Nodes : n # last => next'[n] = next[n]
  BY <1>1, <1>2, <1>3, <1>4 DEF Links
<1>6. Reach(next', first) = Chain(w) \cup Stacked(w) /\ ProperIn(next', first)
  <2>1. /\ last \in Reach(next, first) /\ Reach(next, first) \cap Reach(next, top) = {}
        /\ next[last] = Null /\ first \in Nodes /\ top \in Nodes \cup {Null} /\ next \in Links
        /\ next' \in Links /\ ProperIn(next, first) /\ ProperIn(next, top)
    BY <1>2, <1>3, <1>4, <1>5
  <2>2. next'[last] = top /\ \A n \in Nodes \ {last} : next'[n] = next[n]
    BY <1>1, <1>2, <1>4, <1>5 DEF Links
  <2>3. Reach(next', first) = Reach(next, first) \cup Reach(next, top) /\ ProperIn(next', first)
    BY <2>1, <2>2, Joined
  <2> QED BY <1>2, <1>3, <2>3
<1>7. r \in Regs /\ r.node = reg[w].node
  BY <1>1, Locals, ResultReg
<1> HIDE DEF r
<1>8. /\ reg'[w] = r /\ pc'[w] = "run" /\ stack'[w] = first
      /\ \A v \in Workers \ {w} : reg'[v] = reg[v] /\ pc'[v] = pc[v]
      /\ \A q \in Queues \ {w} : stack'[q] = stack[q]
  BY <1>1, <1>3 DEF Sound, Types
<1>9. Types'
  <2>1. stack' \in [Queues -> Nodes \cup {Null}] /\ next' \in [Nodes -> Nodes \cup {Null}]
    BY <1>1, <1>3, <1>4, <1>5 DEF Sound, Types, Links
  <2>2. reg' \in [Workers -> Regs] /\ pc' \in [Workers -> Labels]
    BY <1>1, <1>7 DEF Sound, Types, Labels
  <2> QED BY <1>1, <2>1, <2>2 DEF Sound, Types
<1>10. \A v \in Workers : /\ HeadAt(v)' = HeadAt(v) /\ TailAt(v)' = TailAt(v)
                          /\ HeadAt(v) \in Nat /\ TailAt(v) \in Nat /\ \A j : At(v, j)' = At(v, j)
  BY <1>1, Numbers DEF HeadAt, TailAt, At
<1>11. /\ \A v \in Workers \ {w} : \A n \in Chain(v) : next'[n] = next[n]
       /\ \A q \in Queues : \A n \in Stacked(q) \cup Cached(q) : next'[n] = next[n]
       /\ \A n \in New' : next'[n] = Null
  <2>1. /\ \A v \in Workers \ {w} : last \notin Chain(v)
        /\ \A q \in Queues : last \notin Stacked(q) \cup Cached(q)
        /\ last \notin New
    BY <1>2, OwnOnly
  <2>2. \A n : n # last => next'[n] = next[n]
    BY <1>1, <1>2, <1>4 DEF Links
  <2>3. \A n \in New : next[n] = Null
    BY DEF Sound, Chains
  <2>4. New' = New
    BY <1>1 DEF New
  <2> QED BY <2>1, <2>2, <2>3, <2>4
<1>12. Step(w)
  <2>1. Taken \subseteq Taken'
    BY <1>1, <1>7, <1>8, TakenStays
  <2>2. fresh \in Nat
    BY Constants DEF Sound, Types
  <2> QED BY <1>1, <1>8, <1>9, <1>10, <1>11, <2>1, <2>2 DEF Step
<1>13. /\ Ahead(w) = 0 /\ Ahead(w)' = 0 /\ Unstored(w) = 0 /\ Unstored(w)' = 0
       /\ ~Chaining(w)' /\ Chain(w)' = {} /\ Hand(w)' = Hand(w)
  BY <1>1, <1>7, <1>8 DEF Ahead, Storing, Unstored, Chaining, Consuming, Chain, Hand
<1>14. RingOK(w)' /\ Ring(w)' = Ring(w)
  <2>1. EndAt(w)' = EndAt(w)
    BY <1>10, <1>13 DEF EndAt
  <2>2. Mark(w)' = Mark(w) /\ Mark(w) \in Int
    <3>1. Mark(w)' = EndAt(w)' + Unstored(w)' /\ Mark(w) = EndAt(w) + Unstored(w)
      BY <1>1, <1>8 DEF Mark
    <3> QED BY <1>13, <2>1, <3>1, MarkNumber
  <2>3. TailAt(w) <= TailAt(w)' /\ TailAt(w)' \in Nat
    BY <1>10
  <2>4. Mark(w)' \in Int /\ Mark(w)' <= Mark(w)
    BY <2>2
  <2>5. HeadAt(w)' = HeadAt(w) /\ \A j \in Occupied(w) : At(w, j)' = At(w, j)
    BY <1>10
  <2> QED BY <1>12, <2>1, <2>3, <2>4, <2>5, RingSame
<1>15. HandOK(w)' /\ ThiefOK(w)' /\ BatchOK(w)'
  BY <1>2, <1>7, <1>8 DEF HandOK, ThiefOK, BatchOK, EmptyHanded, Searching, Stealing
<1>16. Own(w)
  BY <1>13, <1>14, <1>15 DEF Own
<1>17. Stacked(w)' = Chain(w) \cup Stacked(w) /\ Proper(stack[w])'
  BY <1>6, <1>8 DEF Stacked, Proper, ProperIn, Hanging
<1>18. Cached(w)' = Cached(w) /\ CacheOK(w)'
  <2>1. \A n \in Cached(w) : next'[n] = next[n]
    BY <1>3, <1>11
  <2>2. cache'[w] = cache[w] /\ flags'[w] = flags[w]
    BY <1>1
  <2> QED BY <1>3, <1>5, <2>1, <2>2, CacheStays
<1>19. /\ Types' /\ Chains' /\ Locally'
       /\ \A v \in Workers \ {w} : Hand(v)' = Hand(v) /\ Ring(v)' = Ring(v) /\ Chain(v)' = Chain(v)
       /\ \A q \in Queues \ {w} : Stacked(q)' = Stacked(q) /\ Cached(q)' = Cached(q)
  <2>1. \A q \in Queues \ {w} :
          /\ stack'[q] = stack[q] /\ cache'[q] = cache[q] /\ flags'[q] = flags[q]
          /\ \A n \in Stacked(q) \cup Cached(q) : next'[n] = next[n]
    BY <1>1, <1>8, <1>11
  <2>2. {w} \in SUBSET Queues /\ \A q \in {w} : Proper(stack[q])' /\ CacheOK(q)'
    BY <1>3, <1>17, <1>18
  <2>3. \A v \in Workers \ {w} : head'[v] = head[v]
    BY <1>1
  <2>4. \A n \in New' : next'[n] = Null
    BY <1>11
  <2> QED BY <1>3, <1>12, <1>16, <2>1, <2>2, <2>3, <2>4, Settles
<1> DEFINE a == <<"chain", w>>
           b == <<"stack", w>>
<1>20. /\ Where[a] = Chain(w) /\ Where'[a] = Chain(w)' /\ Where[b] = Stacked(w)
             /\ Where'[b] = Stacked(w)'
       /\ a \in Spots /\ b \in Spots /\ a # b /\ {a, b} \in SUBSET Near(w, w)
  BY <1>3, WhereIs, WhereNext DEF Near
<1>21. \A s \in Near(w, w) \ {a, b} : Where'[s] = Where[s]
  <2>1. /\ Where[<<"hand", w>>] = Hand(w) /\ Where'[<<"hand", w>>] = Hand(w)'
        /\ Where[<<"ring", w>>] = Ring(w) /\ Where'[<<"ring", w>>] = Ring(w)'
        /\ Where[<<"cache", w>>] = Cached(w) /\ Where'[<<"cache", w>>] = Cached(w)'
    BY <1>3, NearIs
  <2> QED BY <1>13, <1>14, <1>18, <2>1 DEF Near
<1> HIDE DEF a, b
<1>22. \A s \in DOMAIN Where \ {a, b} : Where'[s] = Where[s]
  BY <1>1, <1>3, <1>19, <1>20, <1>21, FarStay
<1>23. Where'[a] \cap Where'[b] = {} /\ Where'[a] \cup Where'[b] = Where[a] \cup Where[b]
  BY <1>13, <1>17, <1>20
<1>24. Placed'
  BY <1>20, <1>22, <1>23, TwoMove DEF Sound
<1> QED BY <1>19, <1>24 DEF Sound
\* A full ring that was not stolen from meanwhile.
LEMMA FullRing ==
  ASSUME NoLap, Sound, NEW w \in Workers, BufferOverflow(w), head[w] = reg[w].from
  PROVE  TailAt(w) = HeadAt(w) + Capacity /\ Occupied(w) = HeadAt(w) .. HeadAt(w) + Capacity - 1
<1>1. pc[w] = "fill" /\ Fits(w) = 0
  BY DEF BufferOverflow
<1>2. /\ HeadAt(w) = Pos(reg[w].from) /\ HeadAt(w) \in Nat /\ TailAt(w) \in Nat
      /\ HeadAt(w) <= TailAt(w) /\ TailAt(w) <= HeadAt(w) + Capacity
      /\ Minus(tail[w], reg[w].from) = TailAt(w) - HeadAt(w)
      /\ reg[w].last - reg[w].first + 1 > 0 /\ EndAt(w) = TailAt(w)
  <2>1. /\ Minus(tail[w], reg[w].from) = TailAt(w) - Pos(reg[w].from) /\ reg[w].first <= reg[w].last
        /\ TailAt(w) <= Pos(reg[w].from) + Capacity /\ EndAt(w) = TailAt(w)
        /\ reg[w].first \in Nat /\ reg[w].last \in Nat
    BY <1>1, Batch
  <2>2. HeadAt(w) = Pos(reg[w].from)
    BY DEF HeadAt
  <2>3. HeadAt(w) \in Nat /\ TailAt(w) \in Nat /\ HeadAt(w) <= TailAt(w)
    BY Numbers
  <2> QED BY <2>1, <2>2, <2>3
<1>3. Capacity - (TailAt(w) - HeadAt(w)) = 0
  <2>1. Least(reg[w].last - reg[w].first + 1, Capacity - (TailAt(w) - HeadAt(w))) = 0
    BY <1>1, <1>2 DEF Fits
  <2> QED BY <1>2, <2>1 DEF Least
<1>4. TailAt(w) = HeadAt(w) + Capacity
  BY <1>2, <1>3, Constants
<1>5. EndAt(w) - 1 = HeadAt(w) + Capacity - 1
  BY <1>2, <1>4, Constants
<1> QED BY <1>4, <1>5 DEF Occupied

\* The links BufferOverflow leaves: the m nodes of f, the batch after them.
Halved(links, f, m, first, last) ==
  [n \in Nodes |->
     IF \E i \in 0 .. m - 2 : f[i] = n THEN f[(CHOOSE i \in 0 .. m - 2 : f[i] = n) + 1]
     ELSE IF n = f[m - 1] THEN first
     ELSE IF n = last THEN Null ELSE links[n]]

\* The older half of a full ring and the rest of the batch, linked into one chain.
\* f lists m different nodes, none of the batch first .. last, which is linked.
Halves(links, m, f, first, last) ==
  /\ f \in [0 .. m - 1 -> Nodes] /\ \A i, j \in 0 .. m - 1 : f[i] = f[j] => i = j
  /\ first \in Nodes /\ last \in Nodes /\ first <= last
  /\ \A n \in first .. last : links[n] = IF n = last THEN Null ELSE n + 1
  /\ \A i \in 0 .. m - 1 : f[i] \notin first .. last

\* Linked so, the nodes of f and the batch are one chain.
LEMMA HalfLinked ==
  ASSUME NEW links \in Links, NEW b \in Links, NEW m \in Nat \ {0}, NEW f, NEW first, NEW last,
         Halves(links, m, f, first, last), b = Halved(links, f, m, first, last)
  PROVE  /\ Reach(b, f[0]) = {f[i] : i \in 0 .. m - 1} \cup (first .. last) /\ ProperIn(b, f[0])
         /\ b[last] = Null /\ f[0] \in Nodes
<1> SUFFICES ASSUME f \in [0 .. m - 1 -> Nodes], \A i, j \in 0 .. m - 1 : f[i] = f[j] => i = j,
                    first \in Nodes, last \in Nodes, first <= last,
                    \A n \in first .. last : links[n] = (IF n = last THEN Null ELSE n + 1),
                    \A i \in 0 .. m - 1 : f[i] \notin first .. last
             PROVE  /\ Reach(b, f[0]) = {f[i] : i \in 0 .. m - 1} \cup (first .. last)
                          /\ ProperIn(b, f[0])
                    /\ b[last] = Null /\ f[0] \in Nodes
  BY DEF Halves
<1>1. first \in Nat /\ last \in Nat /\ first .. last \subseteq Nodes /\ first \in first .. last
      /\ last \in first .. last
  BY Constants
<1>2. \A i \in 0 .. m - 2 : b[f[i]] = f[i + 1]
  <2> SUFFICES ASSUME NEW i \in 0 .. m - 2 PROVE b[f[i]] = f[i + 1]
    OBVIOUS
  <2>1. 0 .. m - 2 \subseteq 0 .. m - 1 /\ i \in 0 .. m - 1
    OBVIOUS
  <2>2. f[i] \in Nodes
    BY <2>1
  <2>3. (CHOOSE j \in 0 .. m - 2 : f[j] = f[i]) = i
    <3> DEFINE c == CHOOSE j \in 0 .. m - 2 : f[j] = f[i]
    <3>1. c \in 0 .. m - 2 /\ f[c] = f[i]
      OBVIOUS
    <3> HIDE DEF c
    <3>2. c \in 0 .. m - 1
      BY <2>1, <3>1
    <3>3. c = i
      BY <2>1, <3>1, <3>2
    <3> QED BY <3>3 DEF c
  <2> QED BY <2>2, <2>3 DEF Halved
<1>3. b[f[m - 1]] = first
  <2>1. m - 1 \in 0 .. m - 1 /\ f[m - 1] \in Nodes
    OBVIOUS
  <2>2. ~ \E i \in 0 .. m - 2 : f[i] = f[m - 1]
    <3> SUFFICES ASSUME NEW i \in 0 .. m - 2, f[i] = f[m - 1] PROVE FALSE
      OBVIOUS
    <3>1. i \in 0 .. m - 1 /\ i # m - 1
      OBVIOUS
    <3> QED BY <2>1, <3>1
  <2> QED BY <2>1, <2>2 DEF Halved
<1>4. \A n \in first .. last : b[n] = IF n = last THEN Null ELSE n + 1
  <2> SUFFICES ASSUME NEW n \in first .. last PROVE b[n] = IF n = last THEN Null ELSE n + 1
    OBVIOUS
  <2>1. ~(\E i \in 0 .. m - 2 : f[i] = n) /\ n # f[m - 1]
    <3>1. 0 .. m - 2 \subseteq 0 .. m - 1 /\ m - 1 \in 0 .. m - 1
      OBVIOUS
    <3> QED BY <3>1
  <2>2. n \in Nodes
    BY <1>1
  <2>3. b[n] = IF n = last THEN Null ELSE links[n]
    BY <2>1, <2>2 DEF Halved
  <2> QED BY <2>3
<1> DEFINE k == m + (last - first + 1)
           c == [i \in 1 .. k |-> IF i <= m THEN f[i - 1] ELSE first + (i - m - 1)]
<1>5. k \in Nat \ {0} /\ k > m /\ 1 \in 1 .. k /\ k \in Int
  BY <1>1
<1>6. /\ \A i \in 1 .. m : i \in 1 .. k /\ i - 1 \in 0 .. m - 1 /\ c[i] = f[i - 1]
      /\ \A i \in m + 1 .. k : i \in 1 .. k /\ first + (i - m - 1) \in first .. last
                               /\ c[i] = first + (i - m - 1)
      /\ 1 .. k = (1 .. m) \cup (m + 1 .. k)
  <2>1. /\ \A i \in 1 .. m : i \in 1 .. k /\ i - 1 \in 0 .. m - 1 /\ i <= m
        /\ \A i \in m + 1 .. k : i \in 1 .. k /\ first + (i - m - 1) \in first .. last /\ ~(i <= m)
        /\ 1 .. k = (1 .. m) \cup (m + 1 .. k)
    BY <1>1, <1>5
  <2> HIDE DEF k
  <2> QED BY <2>1
<1>7. c \in [1 .. k -> Nodes]
  <2> HIDE DEF k
  <2>1. \A i \in 1 .. k : c[i] \in Nodes
    <3> HIDE DEF c
    <3> QED BY <1>1, <1>6
  <2> QED BY <2>1
<1> HIDE DEF c, k
<1>8. \A i, j \in 1 .. k : c[i] = c[j] => i = j
  <2> SUFFICES ASSUME NEW i \in 1 .. k, NEW j \in 1 .. k, c[i] = c[j] PROVE i = j
    OBVIOUS
  <2>1. CASE i \in 1 .. m /\ j \in 1 .. m
    <3>1. i - 1 \in 0 .. m - 1 /\ j - 1 \in 0 .. m - 1 /\ f[i - 1] = f[j - 1]
      BY <1>6, <2>1
    <3>2. i - 1 = j - 1
      BY <3>1
    <3> QED BY <2>1, <3>2
  <2>2. CASE i \in 1 .. m /\ j \in m + 1 .. k
    <3>1. c[i] \notin first .. last /\ c[j] \in first .. last
      BY <1>6, <2>2
    <3> QED BY <3>1
  <2>3. CASE i \in m + 1 .. k /\ j \in 1 .. m
    <3>1. c[j] \notin first .. last /\ c[i] \in first .. last
      BY <1>6, <2>3
    <3> QED BY <3>1
  <2>4. CASE i \in m + 1 .. k /\ j \in m + 1 .. k
    <3>1. first + (i - m - 1) = first + (j - m - 1)
      BY <1>6, <2>4
    <3> QED BY <1>1, <1>5, <2>4, <3>1
  <2> QED BY <1>6, <2>1, <2>2, <2>3, <2>4
<1>9. \A i \in 1 .. k - 1 : b[c[i]] = c[i + 1]
  <2> SUFFICES ASSUME NEW i \in 1 .. k - 1 PROVE b[c[i]] = c[i + 1]
    OBVIOUS
  <2>1. CASE i < m
    <3>1. i \in 1 .. m /\ i + 1 \in 1 .. m /\ i - 1 \in 0 .. m - 2 /\ (i + 1) - 1 = (i - 1) + 1
      BY <2>1
    <3> QED BY <1>2, <1>6, <3>1
  <2>2. CASE i = m
    <3>1. m \in 1 .. m /\ m + 1 \in m + 1 .. k /\ first + ((m + 1) - m - 1) = first
      BY <1>1, <1>5
    <3>2. c[m] = f[m - 1] /\ c[m + 1] = first + ((m + 1) - m - 1)
      BY <1>6, <3>1
    <3> QED BY <1>3, <2>2, <3>1, <3>2
  <2>3. CASE i > m
    <3>1. i \in m + 1 .. k /\ i + 1 \in m + 1 .. k
      BY <1>5, <2>3
    <3>2. /\ c[i] = first + (i - m - 1) /\ c[i + 1] = first + ((i + 1) - m - 1)
          /\ first + (i - m - 1) \in first .. last
      BY <1>6, <3>1
    <3>3. first + (i - m - 1) # last /\ first + ((i + 1) - m - 1) = (first + (i - m - 1)) + 1
      <4>1. i < m + (last - first + 1) /\ i \in Int
        BY <1>5 DEF k
      <4> QED BY <1>1, <4>1
    <3> QED BY <1>4, <3>2, <3>3
  <2> QED BY <2>1, <2>2, <2>3
<1>10. b[c[k]] = Null /\ b[last] = Null
  <2>1. k \in m + 1 .. k /\ first + (k - m - 1) = last
    BY <1>1, <1>5 DEF k
  <2>2. c[k] = last
    BY <1>6, <2>1
  <2> QED BY <1>1, <1>4, <2>2
<1>11. Reach(b, c[1]) = {c[i] : i \in 1 .. k} /\ ProperIn(b, c[1])
  <2>1. Listed(b, k, c)
    BY <1>7, <1>8, <1>9, <1>10 DEF Listed
  <2>2. b \in Links /\ k \in Nat \ {0}
    BY <1>5
  <2> QED BY ONLY <2>1, <2>2, ListIsChain
<1>12. c[1] = f[0] /\ f[0] \in Nodes
  <2>1. 1 \in 1 .. m /\ 1 - 1 = 0 /\ 0 \in 0 .. m - 1
    OBVIOUS
  <2>2. c[1] = f[1 - 1]
    BY <1>6, <2>1
  <2> QED BY <2>1, <2>2
<1>13. {c[i] : i \in 1 .. k} = {f[i] : i \in 0 .. m - 1} \cup (first .. last)
  <2>1. \A i \in 0 .. m - 1 : i + 1 \in 1 .. m /\ (i + 1) - 1 = i
    OBVIOUS
  <2>2. \A i \in 0 .. m - 1 : i + 1 \in 1 .. k /\ c[i + 1] = f[i]
    <3> SUFFICES ASSUME NEW i \in 0 .. m - 1 PROVE i + 1 \in 1 .. k /\ c[i + 1] = f[i]
      OBVIOUS
    <3>1. i + 1 \in 1 .. m /\ (i + 1) - 1 = i
      BY <2>1
    <3>2. i + 1 \in 1 .. k /\ c[i + 1] = f[(i + 1) - 1]
      BY <1>6, <3>1
    <3> QED BY <3>1, <3>2
  <2>3. \A n \in first .. last : n - first + m + 1 \in m + 1 .. k
        /\ first + ((n - first + m + 1) - m - 1) = n
    BY <1>1, <1>5 DEF k
  <2>4. \A n \in first .. last : n - first + m + 1 \in 1 .. k /\ c[n - first + m + 1] = n
    <3> SUFFICES ASSUME NEW n \in first .. last
                 PROVE n - first + m + 1 \in 1 .. k /\ c[n - first + m + 1] = n
      OBVIOUS
    <3> DEFINE i == n - first + m + 1
    <3>1. i \in m + 1 .. k /\ first + (i - m - 1) = n
      BY <2>3
    <3> HIDE DEF i
    <3>2. i \in 1 .. k /\ c[i] = n
      BY <1>6, <3>1
    <3> QED BY <3>2 DEF i
  <2>5. \A i \in 1 .. k : c[i] \in {f[j] : j \in 0 .. m - 1} \cup (first .. last)
    BY <1>6
  <2>6. \A n \in {f[j] : j \in 0 .. m - 1} \cup (first .. last) : n \in {c[i] : i \in 1 .. k}
    <3>1. ASSUME NEW j \in 0 .. m - 1 PROVE f[j] \in {c[i] : i \in 1 .. k}
      BY ONLY <2>2, j \in 0 .. m - 1
    <3>2. ASSUME NEW n \in first .. last PROVE n \in {c[i] : i \in 1 .. k}
      BY ONLY <2>4, n \in first .. last
    <3> QED BY ONLY <3>1, <3>2
  <2> QED BY ONLY <2>5, <2>6
<1> QED BY <1>10, <1>11, <1>12, <1>13
\* Every place is a set of nodes.
LEMMA AllNodes ==
  ASSUME NoLap, Sound
  PROVE  /\ \A v \in Workers : Chain(v) \subseteq Nodes
         /\ \A q \in Queues : Stacked(q) \cup Cached(q) \subseteq Nodes
         /\ New \subseteq Nodes
<1>1. ASSUME NEW v \in Workers PROVE Chain(v) \subseteq Nodes
  <2>1. Hanging(reg[v].first) \subseteq Nodes
    BY DEF Hanging, Reach
  <2>2. CASE pc[v] = "fill"
    BY <2>2, Batch
  <2>3. CASE pc[v] = "fill_publish"
    <3>1. /\ Chain(v) = reg[v].first + reg[v].pushed .. reg[v].last /\ reg[v].first \in Nodes
          /\ reg[v].last \in Nodes /\ reg[v].pushed \in Nat
      BY <2>3, Numbers, Locals DEF Chain, Chaining, Consuming, Sound, Locally, BatchOK
    <3> QED BY <3>1, Constants
  <2> QED BY <2>1, <2>2, <2>3 DEF Chain
<1>2. \A q \in Queues : Stacked(q) \cup Cached(q) \subseteq Nodes
  BY DEF Stacked, Cached, Hanging, Reach
<1>3. New \subseteq Nodes
  BY Constants DEF New, Sound, Types
<1> QED BY <1>1, <1>2, <1>3

\* The older half is claimed.
LEMMA HalfSound ==
  ASSUME NoLap, Sound, NEW w \in Workers, BufferOverflow(w), head[w] = reg[w].from
  PROVE  Sound'
<1>0. PICK h, m, i, z, O, C : /\ h = HeadAt(w) /\ m = Capacity \div 2 /\ i = reg[w].first
      /\ z = reg[w].last
                              /\ O = Occupied(w) /\ C = Chain(w)
  OBVIOUS
<1>1. /\ pc[w] = "fill" /\ UNCHANGED <<stack, flags, cache, array, tail, fresh, runs>>
      /\ reg[w] \in Regs /\ reg[w].node # Null /\ i \in Nodes /\ z \in Nodes /\ i \in Nat
            /\ z \in Nat /\ i <= z
      /\ C = i .. z /\ C \subseteq Nodes /\ ~Chaining(w)
      /\ \A n \in i .. z : next[n] = IF n = z THEN Null ELSE n + 1
      /\ Ahead(w) = 0 /\ EndAt(w) = TailAt(w) /\ Unstored(w) = z - i + 1
  <2>1. pc[w] = "fill" /\ UNCHANGED <<stack, flags, cache, array, tail, fresh, runs>>
    BY DEF BufferOverflow, queue
  <2> QED BY <1>0, <2>1, Batch
<1>2. /\ m \in Nat \ {0} /\ m <= Capacity /\ h \in Nat /\ TailAt(w) = h + Capacity
      /\ O = h .. h + Capacity - 1 /\ head[w] \in Index /\ h + m < IndexSize
  <2>1. m \in Nat \ {0} /\ m <= Capacity
    BY <1>0, Constants
  <2>2. h \in Nat /\ TailAt(w) < IndexSize /\ head[w] \in Index
    BY <1>0, <1>1, Numbers
  <2>3. TailAt(w) = h + Capacity /\ O = h .. h + Capacity - 1
    BY <1>0, FullRing
  <2> QED BY <2>1, <2>2, <2>3, Constants
<1> DEFINE f == [d \in 0 .. m - 1 |-> At(w, h + d)]
<1>3. /\ \A d \in 0 .. m - 1 : array[w][Slot(reg[w].from + d)] = f[d] /\ h + d \in O
            /\ f[d] = At(w, h + d)
      /\ \A j, k \in O : At(w, j) \in Nodes /\ (At(w, j) = At(w, k) => j = k)
  <2>1. ASSUME NEW d \in 0 .. m - 1
        PROVE  array[w][Slot(reg[w].from + d)] = f[d] /\ h + d \in O /\ f[d] = At(w, h + d)
    <3>1. d \in Int /\ h + d \in O
      BY <1>2, Constants
    <3>2. Slot(head[w] + d) = Cell(Pos(head[w]) + d)
      BY <1>2, <3>1, CellOf
    <3> QED BY <1>0, <3>1, <3>2 DEF At, HeadAt
  <2>2. \A j, k \in O : At(w, j) \in Nodes /\ (At(w, j) = At(w, k) => j = k)
    BY <1>0 DEF Sound, Locally, RingOK
  <2> QED BY <2>1, <2>2
<1>4. /\ f \in [0 .. m - 1 -> Nodes] /\ \A d, e \in 0 .. m - 1 : f[d] = f[e] => d = e
      /\ \A d \in 0 .. m - 1 : f[d] \notin i .. z /\ f[d] \in Ring(w)
  <2>1. Ring(w) \cap (i .. z) = {} /\ Ring(w) = {At(w, j) : j \in O}
    BY <1>0, <1>1, OwnApart DEF Ring
  <2>2. \A d \in 0 .. m - 1 : f[d] \in Nodes /\ f[d] \in Ring(w)
    BY <1>3, <2>1
  <2>3. \A d, e \in 0 .. m - 1 : h + d = h + e => d = e
    BY <1>2
  <2>4. \A d, e \in 0 .. m - 1 : f[d] = f[e] => d = e
    BY <1>3, <2>3
  <2> QED BY <2>1, <2>2, <2>4
<1>5. next' = [n \in Nodes |->
         IF \E d \in 0 .. m - 2 : f[d] = n THEN f[(CHOOSE d \in 0 .. m - 2 : f[d] = n) + 1]
         ELSE IF n = f[m - 1] THEN i ELSE IF n = z THEN Null ELSE next[n]]
  <2> DEFINE g(d) == array[w][Slot(reg[w].from + d)]
  <2>1. next' = [n \in Nodes |->
           IF \E d \in 0 .. m - 2 : g(d) = n THEN g((CHOOSE d \in 0 .. m - 2 : g(d) = n) + 1)
           ELSE IF n = g(m - 1) THEN i ELSE IF n = z THEN Null ELSE next[n]]
    BY <1>0 DEF BufferOverflow
  <2> HIDE DEF g
  <2>2. \A d \in 0 .. m - 1 : g(d) = f[d]
    BY <1>3 DEF g
  <2> HIDE DEF f
  <2>3. 0 .. m - 2 \subseteq 0 .. m - 1 /\ m - 1 \in 0 .. m - 1
        /\ \A d \in 0 .. m - 2 : d + 1 \in 0 .. m - 1
    BY <1>2
  <2>4. ASSUME NEW n \in Nodes
        PROVE  (IF \E d \in 0 .. m - 2 : g(d) = n THEN g((CHOOSE d \in 0 .. m - 2 : g(d) = n) + 1)
                ELSE IF n = g(m - 1) THEN i ELSE IF n = z THEN Null ELSE next[n])
               = (IF \E d \in 0 .. m - 2 : f[d] = n THEN f[(CHOOSE d \in 0 .. m - 2 : f[d] = n) + 1]
                  ELSE IF n = f[m - 1] THEN i ELSE IF n = z THEN Null ELSE next[n])
    <3>1. \A d \in 0 .. m - 2 : g(d) = n <=> f[d] = n
      BY <2>2, <2>3
    <3>2. (CHOOSE d \in 0 .. m - 2 : g(d) = n) = (CHOOSE d \in 0 .. m - 2 : f[d] = n)
      BY <3>1
    <3>3. CASE \E d \in 0 .. m - 2 : f[d] = n
      <4> DEFINE d == CHOOSE e \in 0 .. m - 2 : f[e] = n
      <4>1. d \in 0 .. m - 2
        BY <3>3
      <4> HIDE DEF d
      <4>2. g(d + 1) = f[d + 1]
        BY <2>2, <2>3, <4>1
      <4>3. \E e \in 0 .. m - 2 : g(e) = n
        BY <3>1, <3>3
      <4> QED BY <3>2, <3>3, <4>2, <4>3 DEF d
    <3>4. CASE ~ \E d \in 0 .. m - 2 : f[d] = n
      BY <2>2, <2>3, <3>1, <3>4
    <3> QED BY <3>3, <3>4
  <2> QED BY <2>1, <2>4
<1> HIDE DEF f
<1>6. next \in Links /\ next' \in Links
  <2>1. next \in Links
    BY DEF Sound, Types, Links
  <2>2. ASSUME NEW n \in Nodes PROVE next'[n] \in Nodes \cup {Null}
    <3>1. CASE \E d \in 0 .. m - 2 : f[d] = n
      <4> DEFINE d == CHOOSE e \in 0 .. m - 2 : f[e] = n
      <4>1. d \in 0 .. m - 2
        BY <3>1
      <4> HIDE DEF d
      <4>2. d + 1 \in 0 .. m - 1
        BY <1>2, <4>1
      <4>3. f[d + 1] \in Nodes
        BY <1>4, <4>2
      <4> QED BY <1>5, <3>1, <4>3 DEF d
    <3>2. CASE ~ \E d \in 0 .. m - 2 : f[d] = n
      BY <1>1, <1>5, <2>1, <3>2 DEF Links
    <3> QED BY <3>1, <3>2
  <2>3. next' = [n \in Nodes |-> next'[n]]
    BY <1>5
  <2> QED BY <2>1, <2>2, <2>3 DEF Links
<1>7. /\ Reach(next', f[0]) = {f[d] : d \in 0 .. m - 1} \cup (i .. z) /\ ProperIn(next', f[0])
      /\ next'[z] = Null /\ f[0] \in Nodes
  <2>1. Halves(next, m, f, i, z)
    BY <1>1, <1>4 DEF Halves
  <2>2. next' = Halved(next, f, m, i, z)
    BY <1>5 DEF Halved
  <2>3. m \in Nat \ {0} /\ next \in Links /\ next' \in Links
    BY <1>2, <1>6
  <2> QED BY ONLY <2>1, <2>2, <2>3, HalfLinked
<1>8. \A n \in Nodes : (\A d \in 0 .. m - 1 : f[d] # n) /\ n # z => next'[n] = next[n]
  <2>1. 0 .. m - 2 \subseteq 0 .. m - 1 /\ m - 1 \in 0 .. m - 1
    BY <1>2
  <2> QED BY <1>5, <2>1
<1> DEFINE r == [reg[w] EXCEPT !.first = f[0]]
<1>9. /\ reg' = [reg EXCEPT ![w] = r] /\ pc' = [pc EXCEPT ![w] = "overflow"]
      /\ head' = [head EXCEPT ![w] = Plus(head[w], m)]
  <2>1. array[w][Slot(reg[w].from + 0)] = f[0]
    <3>1. 0 \in 0 .. m - 1
      BY <1>2
    <3> QED BY <1>3, <3>1
  <2> QED BY <1>0, <2>1 DEF BufferOverflow, Goto, Sound, Types
<1>10. r \in Regs /\ r.first = f[0] /\ r.last = z /\ r.node = reg[w].node
  BY <1>0, <1>1, <1>7 DEF Regs
<1> HIDE DEF r
<1>11. /\ reg'[w] = r /\ pc'[w] = "overflow" /\ head'[w] = Plus(head[w], m)
       /\ \A v \in Workers \ {w} : reg'[v] = reg[v] /\ pc'[v] = pc[v] /\ head'[v] = head[v]
  BY <1>9 DEF Sound, Types
<1>12. head'[w] \in Index /\ HeadAt(w)' = h + m
  <2>1. Pos(head[w]) = h
    BY <1>0 DEF HeadAt
  <2>2. Plus(head[w], m) \in Index /\ Pos(Plus(head[w], m)) = h + m
    BY <1>2, <2>1, Advance
  <2> QED BY <1>11, <2>2 DEF HeadAt
<1>13. Types'
  <2>1. head' \in [Workers -> Index]
    BY <1>9, <1>11, <1>12 DEF Sound, Types
  <2>2. reg' \in [Workers -> Regs] /\ pc' \in [Workers -> Labels]
    BY <1>9, <1>10 DEF Sound, Types, Labels
  <2>3. next' \in [Nodes -> Nodes \cup {Null}]
    BY <1>6 DEF Links
  <2> QED BY <1>1, <2>1, <2>2, <2>3 DEF Sound, Types
<1>14. \A v \in Workers : /\ TailAt(v)' = TailAt(v) /\ TailAt(v) \in Nat /\ HeadAt(v) \in Nat
                          /\ HeadAt(v) <= HeadAt(v)' /\ \A j : At(v, j)' = At(v, j)
  <2> SUFFICES ASSUME NEW v \in Workers
               PROVE  /\ TailAt(v)' = TailAt(v) /\ TailAt(v) \in Nat /\ HeadAt(v) \in Nat
                      /\ HeadAt(v) <= HeadAt(v)' /\ \A j : At(v, j)' = At(v, j)
    OBVIOUS
  <2>1. /\ TailAt(v)' = TailAt(v) /\ TailAt(v) \in Nat /\ HeadAt(v) \in Nat
        /\ \A j : At(v, j)' = At(v, j)
    BY <1>1, Numbers DEF TailAt, At
  <2>2. CASE v = w
    <3>1. HeadAt(v) <= HeadAt(v)'
      BY <1>0, <1>2, <1>12, <2>2
    <3> QED BY <2>1, <3>1
  <2>3. CASE v # w
    <3>1. HeadAt(v)' = HeadAt(v)
      BY <1>11, <2>3 DEF HeadAt
    <3> QED BY <2>1, <3>1
  <2> QED BY <2>2, <2>3
<1>15. /\ \A v \in Workers \ {w} : \A n \in Chain(v) : next'[n] = next[n]
       /\ \A q \in Queues : \A n \in Stacked(q) \cup Cached(q) : next'[n] = next[n]
       /\ \A n \in New' : next'[n] = Null
  <2> DEFINE Own2 == Ring(w) \cup Chain(w)
  <2>1. \A n \in Nodes : n \notin Own2 => next'[n] = next[n]
    <3>1. z \in Own2 /\ \A d \in 0 .. m - 1 : f[d] \in Own2
      BY <1>0, <1>1, <1>4
    <3> HIDE DEF Own2
    <3> QED BY <1>8, <3>1
  <2>2. \A n \in Own2 : /\ \A v \in Workers \ {w} : n \notin Chain(v)
                        /\ \A q \in Queues : n \notin Stacked(q) \cup Cached(q)
                        /\ n \notin New
    BY OwnOnly
  <2> HIDE DEF Own2
  <2>3. /\ \A v \in Workers : Chain(v) \subseteq Nodes
        /\ \A q \in Queues : Stacked(q) \cup Cached(q) \subseteq Nodes
        /\ New \subseteq Nodes
    BY AllNodes
  <2>4. New' = New /\ \A n \in New : next[n] = Null
    BY <1>1 DEF New, Sound, Chains
  <2> QED BY <2>1, <2>2, <2>3, <2>4
<1>16. Step(w)
  <2>1. Taken \subseteq Taken'
    BY <1>1, <1>10, <1>11, TakenStays
  <2>2. fresh \in Nat
    BY Constants DEF Sound, Types
  <2> QED BY <1>1, <1>11, <1>13, <1>14, <1>15, <2>1, <2>2 DEF Step
<1>17. /\ Ahead(w)' = 0 /\ EndAt(w)' = TailAt(w) /\ Unstored(w)' = 0 /\ Chaining(w)'
             /\ Hand(w)' = Hand(w)
       /\ Chain(w)' = {f[d] : d \in 0 .. m - 1} \cup C /\ Occupied(w)' = h + m .. h + Capacity - 1
       /\ TailAt(w)' = TailAt(w)
  <2>1. Ahead(w)' = 0 /\ Unstored(w)' = 0 /\ Chaining(w)' /\ Hand(w)' = Hand(w)
    BY <1>10, <1>11 DEF Ahead, Storing, Unstored, Chaining, Hand
  <2>2. TailAt(w)' = TailAt(w) /\ TailAt(w) \in Nat
    BY <1>14
  <2>3. EndAt(w)' = TailAt(w)
    BY <2>1, <2>2 DEF EndAt
  <2>4. Chain(w)' = Reach(next', f[0])
    BY <1>10, <1>11, <2>1 DEF Chain, Hanging
  <2>5. Occupied(w)' = h + m .. h + Capacity - 1
    <3>1. EndAt(w)' - 1 = h + Capacity - 1
      BY <1>2, <2>3, Constants
    <3> QED BY <1>12, <3>1 DEF Occupied
  <2> QED BY <1>1, <1>7, <2>1, <2>2, <2>3, <2>4, <2>5
<1>18. RingOK(w)'
  <2>1. Mark(w)' <= Limit'
    <3>1. Mark(w)' = TailAt(w) + 0
      BY <1>11, <1>17 DEF Mark
    <3>2. Mark(w) = TailAt(w) + (z - i + 1)
      BY <1>1 DEF Mark
    <3>3. Mark(w) <= Limit /\ Mark(w) \in Int
      BY RingParts, MarkNumber DEF Sound, Locally
    <3>4. Limit \in Int /\ Limit' \in Int /\ Limit <= Limit'
      BY <1>16, LimitGrows, Constants
    <3>5. TailAt(w) \in Nat
      BY <1>14
    <3> QED BY <1>1, <3>1, <3>2, <3>3, <3>4, <3>5
  <2>2. \A j, k \in Occupied(w)' : At(w, j)' \in Nodes /\ (At(w, j)' = At(w, k)' => j = k)
    <3>1. Occupied(w)' \subseteq O
      BY <1>2, <1>17
    <3> QED BY <1>3, <1>14, <3>1
  <2>3. HeadAt(w)' <= TailAt(w)' /\ EndAt(w)' <= HeadAt(w)' + Capacity
    BY <1>2, <1>12, <1>17, Constants
  <2> QED BY <2>1, <2>2, <2>3 DEF RingOK, Mark, Limit
<1>19. HandOK(w)' /\ ThiefOK(w)' /\ BatchOK(w)'
  <2>1. HandOK(w)' /\ ThiefOK(w)'
    BY <1>1, <1>10, <1>11 DEF HandOK, ThiefOK, EmptyHanded, Searching, Stealing
  <2>2. Hanging(reg[w].first)' = Reach(next', f[0])
    BY <1>10, <1>11 DEF Hanging
  <2>3. z \in i .. z
    BY <1>1
  <2> QED BY <1>7, <1>10, <1>11, <2>1, <2>2, <2>3 DEF BatchOK
<1>20. Own(w)
  <2>1. Proper(reg[w].first)'
    BY <1>7, <1>10, <1>11 DEF Proper, ProperIn, Hanging
  <2> QED BY <1>18, <1>19, <2>1 DEF Own
<1> DEFINE a == <<"ring", w>>
           b == <<"chain", w>>
           W == {<<"hand", w>>, <<"ring", w>>, <<"chain", w>>}
<1>21. /\ Where[a] = Ring(w) /\ Where'[a] = Ring(w)' /\ Where[b] = C /\ Where'[b] = Chain(w)'
       /\ a \in W /\ b \in W /\ a # b /\ \A s \in W \ {a, b} : Where'[s] = Where[s]
  BY <1>0, <1>17, WhereIs, WhereNext
<1>22. Where'[a] \cap Where'[b] = {} /\ Where'[a] \cup Where'[b] = Where[a] \cup Where[b]
  <2> DEFINE A == h .. h + m - 1
             B == h + m .. h + Capacity - 1
  <2>1. O = A \cup B /\ A \cap B = {}
    BY <1>2, Constants
  <2>2. Ring(w) = {At(w, j) : j \in O} /\ Ring(w)' = {At(w, j) : j \in B}
    BY <1>0, <1>14, <1>17 DEF Ring
  <2>3. {f[d] : d \in 0 .. m - 1} = {At(w, j) : j \in A}
    <3>1. \A d \in 0 .. m - 1 : h + d \in A
      BY <1>2
    <3>2. \A j \in A : j - h \in 0 .. m - 1 /\ h + (j - h) = j
      BY <1>2
    <3> HIDE DEF A
    <3>3. \A j \in A : j - h \in 0 .. m - 1 /\ f[j - h] = At(w, j)
      BY <1>3, <3>2
    <3> QED BY <1>3, <3>1, <3>3
  <2> HIDE DEF A, B
  <2>4. \A j, k \in A \cup B : At(w, j) = At(w, k) => j = k
    BY <1>3, <2>1
  <2>5. Ring(w)' \cap {f[d] : d \in 0 .. m - 1} = {} /\ Ring(w)'
        \cup {f[d] : d \in 0 .. m - 1} = Ring(w)
    BY <2>1, <2>2, <2>3, <2>4
  <2>6. Ring(w) \cap C = {}
    BY <1>0, OwnApart
  <2> HIDE DEF a, b
  <2> QED BY <1>17, <1>21, <2>5, <2>6
<1> HIDE DEF a, b
<1>23. \A v \in Workers \ {w} : head'[v] = head[v]
  BY <1>11
<1>24. /\ Step(w) /\ stack' = stack /\ cache' = cache /\ flags' = flags /\ fresh' = fresh
       /\ runs' = runs
  BY <1>1, <1>16
<1> QED BY ONLY ZenonT(60), <1>15, <1>20, <1>21, <1>22, <1>23, <1>24, NoLap, Sound, w \in Workers, Between

\* Half of a full ring is claimed, or the thieves have made room.
LEMMA BufferOverflowSound == ASSUME NoLap, Sound, NEW w \in Workers, BufferOverflow(w) PROVE Sound'
<1>1. CASE head[w] = reg[w].from
  BY <1>1, HalfSound
<1>2. CASE head[w] # reg[w].from
  <2> DEFINE r == [reg[w] EXCEPT !.from = head[w]]
  <2>1. /\ pc[w] = "fill" /\ pc' = [pc EXCEPT ![w] = "fill"] /\ reg' = [reg EXCEPT ![w] = r]
        /\ UNCHANGED <<next, stack, flags, cache, array, head, tail, fresh, runs>>
    BY <1>2 DEF BufferOverflow, queue, Sound, Types
  <2>2. head[w] \in Index /\ reg[w] \in Regs /\ reg[w].node # Null
    BY <2>1, Numbers, Batch
  <2>3. /\ r \in Regs /\ r.from = head[w] /\ r.first = reg[w].first /\ r.last = reg[w].last
        /\ r.node = reg[w].node /\ "fill" \in Labels
    BY <2>2 DEF Regs, Labels
  <2> HIDE DEF r
  <2>4. /\ Step(w) /\ reg'[w] = r /\ pc'[w] = "fill"
        /\ HeadAt(w)' = HeadAt(w) /\ TailAt(w)' = TailAt(w) /\ \A j : At(w, j)' = At(w, j)
    <3>1. /\ stack' \in [Queues -> Nodes \cup {Null}] /\ cache' \in [Queues -> Nodes \cup {Null}]
          /\ flags' \in [Queues -> SUBSET {"HAS_CACHE", "IS_CONSUMING"}]
      BY <2>1 DEF Sound, Types
    <3> QED BY <2>1, <2>3, <3>1, Steady
  <2>5. /\ Ahead(w)' = 0 /\ Ahead(w) = 0 /\ Unstored(w)' = Unstored(w) /\ ~Chaining(w)'
        /\ Chain(w)' = Chain(w) /\ Hand(w)' = Hand(w)
    BY <2>1, <2>3, <2>4 DEF Ahead, Storing, Unstored, Chaining, Consuming, Chain, Hand
  <2>6. /\ HeadAt(w) \in Nat /\ TailAt(w) \in Nat /\ HeadAt(w) <= TailAt(w)
        /\ TailAt(w) <= HeadAt(w) + Capacity
    <3>1. EndAt(w) = TailAt(w)
      BY <2>1, Batch
    <3> QED BY <3>1, Numbers
  <2>7. RingOK(w)' /\ Ring(w)' = Ring(w)
    <3>1. EndAt(w)' = EndAt(w)
      BY <2>4, <2>5 DEF EndAt
    <3>2. Mark(w)' = Mark(w) /\ Mark(w) \in Int
      BY <2>1, <2>4, <2>5, <3>1, MarkNumber DEF Mark
    <3>3. Mark(w)' \in Int /\ Mark(w)' <= Mark(w) /\ TailAt(w) <= TailAt(w)' /\ TailAt(w)' \in Nat
      BY <2>4, <2>6, <3>2
    <3> QED BY <2>4, <3>1, <3>3, RingSame
  <2>8. HandOK(w)' /\ ThiefOK(w)'
    BY <2>2, <2>3, <2>4 DEF HandOK, ThiefOK, EmptyHanded, Searching, Stealing
  <2>9. BatchOK(w)'
    <3>1. Pos(r.from) = HeadAt(w)
      BY <2>3 DEF HeadAt
    <3>2. Pos(r.from) <= HeadAt(w)' /\ TailAt(w)' <= Pos(r.from) + Capacity
      BY <2>4, <2>6, <3>1
    <3>3. /\ r.first \in Nodes /\ r.last \in Nodes /\ r.last < fresh /\ r.first <= r.last
          /\ \A n \in Chain(w) : next[n] = IF n = r.last THEN Null ELSE n + 1
      BY <2>1, <2>3, Batch
    <3>4. fresh' = fresh /\ next' = next
      BY <2>1
    <3> QED BY <2>4, <2>5, <3>2, <3>3, <3>4 DEF BatchOK
  <2>10. Own(w)
    BY <2>5, <2>7, <2>8, <2>9 DEF Own
  <2> QED BY <2>1, <2>4, <2>5, <2>7, <2>10, Rests
<1> QED BY <1>1, <1>2
-----------------------------------------------------------------------------
(* Scheduling: new nodes get a place.                                        *)

\* A batch of k new nodes, linked.
LEMMA NewBatch ==
  ASSUME Sound, NEW k \in Nat \ {0}, fresh + k - 1 <= NodeCount, NEW f, f = fresh
  PROVE  /\ f \in Nat \ {0} /\ f \in Nodes /\ f + k - 1 \in Nodes /\ f .. f + k - 1 \subseteq Nodes
         /\ f + k \in 1 .. NodeCount + 1
         /\ New = (f .. f + k - 1) \cup (f + k .. NodeCount)
               /\ (f .. f + k - 1) \cap (f + k .. NodeCount) = {}
         /\ Chained(k) \in Links
         /\ \A n \in f .. f + k - 1 : Chained(k)[n] = IF n = f + k - 1 THEN Null ELSE n + 1
         /\ \A n \in Nodes \ (f .. f + k - 1) : Chained(k)[n] = next[n]
         /\ \A n \in f + k .. NodeCount : next[n] = Null /\ Chained(k)[n] = Null
<1>1. /\ f \in Nat \ {0} /\ f \in Nodes /\ f + k - 1 \in Nodes /\ f .. f + k - 1 \subseteq Nodes
      /\ f + k \in 1 .. NodeCount + 1
      /\ New = (f .. f + k - 1) \cup (f + k .. NodeCount)
            /\ (f .. f + k - 1) \cap (f + k .. NodeCount) = {}
      /\ f + k .. NodeCount \subseteq Nodes
  <2>1. f \in 1 .. NodeCount + 1 /\ NodeCount \in Nat /\ f + k - 1 <= NodeCount
    BY Constants DEF Sound, Types
  <2>2. New = f .. NodeCount
    BY DEF New
  <2> QED BY <2>1, <2>2, Constants
<1>2. next \in Links /\ \A n \in New : next[n] = Null
  BY DEF Sound, Types, Links, Chains
<1>3. \A n \in f .. f + k - 2 : n \in f .. f + k - 1 /\ n + 1 \in Nodes /\ n # f + k - 1
  BY <1>1, Constants
<1>4. \A n \in f .. f + k - 1 : n \notin f .. f + k - 2 => n = f + k - 1
  BY <1>1
<1>5. Chained(k) = [n \in Nodes |-> IF n \in f .. f + k - 2 THEN n + 1 ELSE next[n]]
  BY DEF Chained
<1>6. Chained(k) \in Links
  BY <1>2, <1>3, <1>5 DEF Links
<1>7. \A n \in Nodes \ (f .. f + k - 1) : Chained(k)[n] = next[n]
  BY <1>3, <1>5
<1>8. \A n \in f .. f + k - 1 : Chained(k)[n] = IF n = f + k - 1 THEN Null ELSE n + 1
  <2> SUFFICES ASSUME NEW n \in f .. f + k - 1
               PROVE  Chained(k)[n] = IF n = f + k - 1 THEN Null ELSE n + 1
    OBVIOUS
  <2>1. n \in Nodes /\ next[n] = Null
    BY <1>1, <1>2
  <2>2. CASE n \in f .. f + k - 2
    BY <1>3, <1>5, <2>1, <2>2
  <2>3. CASE n \notin f .. f + k - 2
    BY <1>4, <1>5, <2>1, <2>3
  <2> QED BY <2>2, <2>3
<1>9. \A n \in f + k .. NodeCount : next[n] = Null /\ Chained(k)[n] = Null
  BY <1>1, <1>2, <1>7
<1> QED BY <1>1, <1>6, <1>7, <1>8, <1>9

\* A new node is in no queue and no chain.
LEMMA NewOnly ==
  ASSUME Sound, NEW n \in New
  PROVE  /\ \A v \in Workers : n \notin Chain(v)
         /\ \A q \in Queues : n \notin Stacked(q) \cup Cached(q)
<1>1. <<"new", Pool>> \in Spots /\ Where[<<"new", Pool>>] = New
  BY WhereIs
<1>2. \A t \in Spots : t # <<"new", Pool>> => n \notin Where[t]
  BY <1>1, SpotsApart
<1>3. ASSUME NEW v \in Workers PROVE n \notin Chain(v)
  <2>1. <<"chain", v>> \in Spots /\ Where[<<"chain", v>>] = Chain(v) /\ <<"chain", v>> # <<"new", Pool>>
    BY WhereIs
  <2> QED BY <1>2, <2>1
<1>4. ASSUME NEW q \in Queues PROVE n \notin Stacked(q) \cup Cached(q)
  <2>1. /\ <<"stack", q>> \in Spots /\ Where[<<"stack", q>>] = Stacked(q)
        /\ <<"cache", q>> \in Spots /\ Where[<<"cache", q>>] = Cached(q)
        /\ <<"stack", q>> # <<"new", Pool>> /\ <<"cache", q>> # <<"new", Pool>>
    BY WhereIs
  <2> QED BY <1>2, <2>1
<1> QED BY <1>3, <1>4

\* A batch from the task w runs: w is about to store it.
LEMMA ScheduleInsideSound ==
  ASSUME NoLap, Sound, NEW w \in Workers, NEW k \in 1 .. MaxList, ScheduleInside(w, k)
  PROVE  Sound'
<1>0. PICK f, z : f = fresh /\ z = f + k - 1
  OBVIOUS
<1> DEFINE r == [reg[w] EXCEPT !.first = f, !.last = z, !.from = head[w]]
<1>1. /\ pc[w] = "run" /\ next' = Chained(k) /\ fresh' = f + k /\ pc' = [pc EXCEPT ![w] = "fill"]
      /\ reg' = [reg EXCEPT ![w] = r] /\ fresh + k - 1 <= NodeCount
      /\ UNCHANGED <<stack, flags, cache, array, head, tail, runs>>
  BY <1>0 DEF ScheduleInside, Goto, Sound, Types, queue, ring
<1>2. k \in Nat \ {0}
  BY RunQueuesAssumption
<1>3. /\ f \in Nat \ {0} /\ f \in Nodes /\ z \in Nodes /\ f .. z \subseteq Nodes /\ z \in Nat
      /\ f + k \in 1 .. NodeCount + 1
      /\ New = (f .. z) \cup (f + k .. NodeCount) /\ (f .. z) \cap (f + k .. NodeCount) = {}
      /\ next' \in Links
      /\ \A n \in f .. z : next'[n] = IF n = z THEN Null ELSE n + 1
      /\ \A n \in Nodes \ (f .. z) : next'[n] = next[n]
      /\ \A n \in f + k .. NodeCount : next'[n] = Null
  BY <1>0, <1>1, <1>2, NewBatch, Constants
<1>4. reg[w] \in Regs /\ head[w] \in Index /\ reg[w].node # Null
  BY <1>1, Numbers DEF Sound, Locally, HandOK, Handing
<1>5. r \in Regs /\ r.first = f /\ r.last = z /\ r.from = head[w] /\ r.node = reg[w].node
  BY <1>3, <1>4 DEF Regs
<1> HIDE DEF r
<1>6. /\ reg'[w] = r /\ pc'[w] = "fill"
      /\ \A v \in Workers \ {w} : reg'[v] = reg[v] /\ pc'[v] = pc[v]
  BY <1>1 DEF Sound, Types
<1>7. Types'
  <2>1. reg' \in [Workers -> Regs] /\ pc' \in [Workers -> Labels]
    BY <1>1, <1>5 DEF Sound, Types, Labels
  <2>2. next' \in [Nodes -> Nodes \cup {Null}] /\ fresh' \in 1 .. NodeCount + 1
    BY <1>1, <1>3 DEF Links
  <2> QED BY <1>1, <2>1, <2>2 DEF Sound, Types
<1>8. \A v \in Workers : /\ HeadAt(v)' = HeadAt(v) /\ TailAt(v)' = TailAt(v)
                         /\ HeadAt(v) \in Nat /\ TailAt(v) \in Nat /\ \A j : At(v, j)' = At(v, j)
  BY <1>1, Numbers DEF HeadAt, TailAt, At
<1>9. /\ \A v \in Workers \ {w} : \A n \in Chain(v) : next'[n] = next[n]
      /\ \A q \in Queues : \A n \in Stacked(q) \cup Cached(q) : next'[n] = next[n]
      /\ New' = f + k .. NodeCount /\ \A n \in New' : next'[n] = Null
  <2>1. New' = f + k .. NodeCount
    BY <1>1 DEF New
  <2>2. \A n \in f .. z : n \in New
    BY <1>3
  <2>3. \A n \in Nodes : n \notin New => next'[n] = next[n]
    BY <1>3, <2>2
  <2> QED BY <1>3, <2>1, <2>3, NewOnly, AllNodes
<1>10. Step(w)
  <2>1. Taken \subseteq Taken'
    BY <1>1, <1>5, <1>6, TakenStays
  <2>2. fresh <= fresh'
    BY <1>0, <1>1, <1>2, <1>3
  <2> QED BY <1>1, <1>6, <1>7, <1>8, <1>9, <2>1, <2>2 DEF Step
<1>11. /\ Ahead(w) = 0 /\ Ahead(w)' = 0 /\ Unstored(w) = 0 /\ Unstored(w)' = z - f + 1
       /\ Chain(w) = {} /\ Chain(w)' = f .. z /\ ~Chaining(w)' /\ Hand(w)' = Hand(w)
  BY <1>1, <1>5, <1>6 DEF Ahead, Storing, Unstored, Chaining, Consuming, Chain, Hand
<1>12. EndAt(w)' = EndAt(w) /\ Occupied(w)' = Occupied(w) /\ Ring(w)' = Ring(w)
  <2>1. EndAt(w)' = EndAt(w)
    BY <1>8, <1>11 DEF EndAt
  <2>2. Occupied(w)' = Occupied(w)
    BY <1>8, <2>1 DEF Occupied
  <2> QED BY <1>8, <2>1, <2>2 DEF Ring
<1>13. RingOK(w)'
  <2>1. Mark(w)' <= Limit'
    <3>1. Mark(w) <= Limit /\ Mark(w) \in Int
      BY RingParts, MarkNumber DEF Sound, Locally
    <3>2. Limit \in Int /\ Limit' \in Int /\ Limit + (fresh' - fresh) <= Limit'
      BY <1>10, LimitGrows, Constants
    <3>3. Mark(w) = EndAt(w) + 0 /\ Mark(w)' = EndAt(w) + (z - f + 1) /\ EndAt(w) \in Nat
      BY <1>1, <1>6, <1>11, <1>12, Numbers DEF Mark
    <3>4. fresh' - fresh = k /\ z - f + 1 = k
      BY <1>0, <1>1, <1>2, <1>3
    <3> QED BY <1>2, <3>1, <3>2, <3>3, <3>4
  <2>2. \A i, j \in Occupied(w)' : At(w, i)' \in Nodes /\ (At(w, i)' = At(w, j)' => i = j)
    BY <1>8, <1>12 DEF Sound, Locally, RingOK
  <2>3. HeadAt(w)' <= TailAt(w)' /\ EndAt(w)' <= HeadAt(w)' + Capacity
    BY <1>8, <1>12, Numbers
  <2> QED BY <2>1, <2>2, <2>3 DEF RingOK, Mark, Limit
<1>14. HandOK(w)' /\ ThiefOK(w)'
  BY <1>4, <1>5, <1>6 DEF HandOK, ThiefOK, EmptyHanded, Searching, Stealing
<1>15. BatchOK(w)'
  <2>1. Pos(r.from) = HeadAt(w)
    BY <1>5 DEF HeadAt
  <2>2. Pos(r.from) <= HeadAt(w)' /\ TailAt(w)' <= Pos(r.from) + Capacity
    <3>1. EndAt(w) = TailAt(w)
      BY <1>8, <1>11 DEF EndAt
    <3>2. TailAt(w) <= HeadAt(w) + Capacity
      BY <3>1, Numbers
    <3> QED BY <1>8, <2>1, <3>2
  <2>3. z < fresh' /\ f <= z
    BY <1>0, <1>1, <1>2, <1>3
  <2> QED BY <1>3, <1>5, <1>6, <1>11, <2>2, <2>3 DEF BatchOK
<1>16. Own(w)
  BY <1>11, <1>13, <1>14, <1>15 DEF Own
<1>17. /\ Types' /\ Chains' /\ Locally'
       /\ \A v \in Workers \ {w} : Hand(v)' = Hand(v) /\ Ring(v)' = Ring(v) /\ Chain(v)' = Chain(v)
       /\ \A q \in Queues \ {} : Stacked(q)' = Stacked(q) /\ Cached(q)' = Cached(q)
  <2>1. \A q \in Queues \ {} :
          /\ stack'[q] = stack[q] /\ cache'[q] = cache[q] /\ flags'[q] = flags[q]
          /\ \A n \in Stacked(q) \cup Cached(q) : next'[n] = next[n]
    BY <1>1, <1>9
  <2>2. {} \in SUBSET Queues /\ w \in Queues /\ \A q \in {} : Proper(stack[q])' /\ CacheOK(q)'
    BY Constants
  <2>3. \A v \in Workers \ {w} : head'[v] = head[v]
    BY <1>1
  <2>4. \A n \in New' : next'[n] = Null
    BY <1>9
  <2> QED BY <1>10, <1>16, <2>1, <2>2, <2>3, <2>4, Settles
<1> DEFINE a == <<"new", Pool>>
           b == <<"chain", w>>
<1>18. /\ a \in Spots /\ b \in Spots /\ a # b /\ Where[a] = New /\ Where'[a] = New'
       /\ Where[b] = Chain(w) /\ Where'[b] = Chain(w)' /\ {a, b} \in SUBSET Spots
  BY WhereIs, WhereNext
<1>19. \A s \in DOMAIN Where \ {a, b} : Where'[s] = Where[s]
  <2>1. \A v \in Workers : /\ <<"hand", v>> \in {a, b} \/ Hand(v)' = Hand(v)
                           /\ <<"ring", v>> \in {a, b} \/ Ring(v)' = Ring(v)
                           /\ <<"chain", v>> \in {a, b} \/ Chain(v)' = Chain(v)
    <3> SUFFICES ASSUME NEW v \in Workers
                 PROVE  /\ Hand(v)' = Hand(v) /\ Ring(v)' = Ring(v)
                        /\ <<"chain", v>> \in {a, b} \/ Chain(v)' = Chain(v)
      OBVIOUS
    <3>1. CASE v = w
      BY <1>11, <1>12, <3>1
    <3>2. CASE v # w
      BY <1>17, <3>2
    <3> QED BY <3>1, <3>2
  <2>2. \A q \in Queues : /\ <<"stack", q>> \in {a, b} \/ Stacked(q)' = Stacked(q)
                          /\ <<"cache", q>> \in {a, b} \/ Cached(q)' = Cached(q)
    BY <1>17
  <2>3. Done' = Done /\ <<"new", Pool>> \in {a, b}
    BY <1>1 DEF Done
  <2> QED BY <1>18, <2>1, <2>2, <2>3, OthersStay
<1> HIDE DEF a, b
<1>20. Where'[a] \cap Where'[b] = {} /\ Where'[a] \cup Where'[b] = Where[a] \cup Where[b]
  BY <1>3, <1>9, <1>11, <1>18
<1>21. Placed'
  BY <1>18, <1>19, <1>20, TwoMove DEF Sound
<1> QED BY <1>17, <1>21 DEF Sound
\* A batch from outside the pool: its chain goes before the stack of the pool.
LEMMA ScheduleSound == ASSUME NoLap, Sound, NEW k \in 1 .. MaxList, Schedule(k) PROVE Sound'
<1>0. PICK f, z, top, a : f = fresh /\ z = f + k - 1 /\ top = stack[Pool] /\ a = Chained(k)
  OBVIOUS
<1>1. /\ next' = [a EXCEPT ![z] = top] /\ stack' = [stack EXCEPT ![Pool] = f] /\ fresh' = f + k
      /\ fresh + k - 1 <= NodeCount
      /\ UNCHANGED <<flags, cache, array, head, tail, runs, pc, reg>>
  BY <1>0 DEF Schedule, PushTo, ring
<1>2. k \in Nat \ {0} /\ Pool \in Queues
  BY RunQueuesAssumption DEF Queues
<1>3. /\ f \in Nat \ {0} /\ f \in Nodes /\ z \in Nodes /\ f .. z \subseteq Nodes /\ z \in Nat
      /\ f + k \in 1 .. NodeCount + 1
      /\ New = (f .. z) \cup (f + k .. NodeCount) /\ (f .. z) \cap (f + k .. NodeCount) = {}
      /\ a \in Links
      /\ \A n \in f .. z : a[n] = IF n = z THEN Null ELSE n + 1
      /\ \A n \in Nodes \ (f .. z) : a[n] = next[n]
      /\ \A n \in f + k .. NodeCount : a[n] = Null
  BY <1>0, <1>1, <1>2, NewBatch, Constants
<1>4. /\ next \in Links /\ top \in Nodes \cup {Null} /\ Stacked(Pool) = Reach(next, top)
      /\ ProperIn(next, top)
  BY <1>0, <1>2 DEF Sound, Types, Links, Chains, Stacked, Proper, ProperIn, Hanging
<1>5. \A n \in f .. z : /\ \A v \in Workers : n \notin Chain(v)
                        /\ \A q \in Queues : n \notin Stacked(q) \cup Cached(q)
  BY <1>3, NewOnly
<1>6. Reach(a, f) = f .. z /\ ProperIn(a, f)
  <2> DEFINE c == [i \in 1 .. k |-> f + (i - 1)]
  <2>1. \A i \in 1 .. k : c[i] = f + (i - 1) /\ f + (i - 1) \in f .. z /\ (f + (i - 1) = z => i = k)
    BY <1>0, <1>2, <1>3
  <2>2. c \in [1 .. k -> Nodes]
    BY <1>3, <2>1
  <2> HIDE DEF c
  <2>3. \A i, j \in 1 .. k : c[i] = c[j] => i = j
    <3>1. \A i, j \in 1 .. k : f + (i - 1) = f + (j - 1) => i = j
      BY <1>3
    <3> QED BY <2>1, <3>1
  <2>4. \A i \in 1 .. k - 1 : a[c[i]] = c[i + 1]
    <3> SUFFICES ASSUME NEW i \in 1 .. k - 1 PROVE a[c[i]] = c[i + 1]
      OBVIOUS
    <3>1. i \in 1 .. k /\ i + 1 \in 1 .. k /\ i # k /\ (f + (i - 1)) + 1 = f + ((i + 1) - 1)
      BY <1>2, <1>3
    <3>2. c[i] = f + (i - 1) /\ c[i] \in f .. z /\ c[i] # z /\ c[i + 1] = f + ((i + 1) - 1)
      BY <2>1, <3>1
    <3> QED BY <1>3, <3>1, <3>2
  <2>5. a[c[k]] = Null /\ c[1] = f
    <3>1. k \in 1 .. k /\ 1 \in 1 .. k /\ f + (k - 1) = z /\ f + (1 - 1) = f
      BY <1>0, <1>2, <1>3
    <3>2. c[k] = z /\ c[1] = f /\ z \in f .. z
      BY <2>1, <3>1
    <3> QED BY <1>3, <3>2
  <2>6. {c[i] : i \in 1 .. k} = f .. z
    <3>1. \A n \in f .. z : n - f + 1 \in 1 .. k /\ f + ((n - f + 1) - 1) = n
      BY <1>0, <1>2, <1>3
    <3>2. \A n \in f .. z : n - f + 1 \in 1 .. k /\ c[n - f + 1] = n
      BY <2>1, <3>1
    <3> QED BY <2>1, <3>2
  <2>7. Listed(a, k, c)
    BY <2>2, <2>3, <2>4, <2>5 DEF Listed
  <2>8. Reach(a, c[1]) = {c[i] : i \in 1 .. k} /\ ProperIn(a, c[1])
    BY <1>2, <1>3, <2>7, ListIsChain
  <2> QED BY <2>5, <2>6, <2>8
<1>7. Reach(a, top) = Stacked(Pool) /\ ProperIn(a, top)
  <2>1. \A n \in Reach(next, top) : a[n] = next[n]
    <3>1. Stacked(Pool) \subseteq Nodes
      BY <1>2, AllNodes
    <3>2. \A n \in Stacked(Pool) : n \notin f .. z
      BY <1>2, <1>5
    <3> QED BY <1>3, <1>4, <3>1, <3>2
  <2> QED BY <1>3, <1>4, <2>1, ReachFrame, ProperFrame
<1>8. /\ next' \in Links /\ next'[z] = top /\ \A n \in Nodes \ {z} : next'[n] = a[n]
      /\ \A n \in Nodes \ (f .. z) : next'[n] = next[n] /\ z \in f .. z
  <2>1. z \in f .. z
    BY <1>0, <1>2, <1>3
  <2> QED BY <1>1, <1>3, <1>4, <2>1 DEF Links
<1>9. Reach(next', f) = (f .. z) \cup Stacked(Pool) /\ ProperIn(next', f)
  <2>1. z \in Reach(a, f) /\ a[z] = Null /\ Reach(a, f) \cap Reach(a, top) = {}
    <3>1. z \in f .. z
      BY <1>0, <1>2, <1>3
    <3> QED BY <1>2, <1>3, <1>5, <1>6, <1>7, <3>1
  <2>2. Reach(next', f) = Reach(a, f) \cup Reach(a, top) /\ ProperIn(next', f)
    <3>1. /\ a \in Links /\ f \in Nodes /\ z \in Nodes /\ top \in Nodes \cup {Null} /\ next' \in Links
          /\ ProperIn(a, f) /\ ProperIn(a, top) /\ next'[z] = top
          /\ \A n \in Nodes \ {z} : next'[n] = a[n]
      BY <1>3, <1>4, <1>6, <1>7, <1>8
    <3> QED BY ONLY <2>1, <3>1, Joined
  <2> QED BY <1>6, <1>7, <2>2
<1>10. Types'
  <2>1. next' \in [Nodes -> Nodes \cup {Null}] /\ fresh' \in 1 .. NodeCount + 1
    BY <1>1, <1>3, <1>8 DEF Links
  <2>2. stack' \in [Queues -> Nodes \cup {Null}]
    BY <1>1, <1>3 DEF Sound, Types
  <2> QED BY <1>1, <2>1, <2>2 DEF Sound, Types
<1>11. /\ stack'[Pool] = f /\ \A q \in Queues \ {Pool} : stack'[q] = stack[q]
       /\ \A v \in Workers : /\ HeadAt(v)' = HeadAt(v) /\ TailAt(v)' = TailAt(v)
                             /\ HeadAt(v) \in Nat /\ TailAt(v) \in Nat
       /\ \A v, j : At(v, j)' = At(v, j)
  <2>1. stack'[Pool] = f /\ \A q \in Queues \ {Pool} : stack'[q] = stack[q]
    BY <1>1, <1>2 DEF Sound, Types
  <2>2. \A v \in Workers : /\ HeadAt(v)' = HeadAt(v) /\ TailAt(v)' = TailAt(v)
                           /\ HeadAt(v) \in Nat /\ TailAt(v) \in Nat
    BY <1>1, Numbers DEF HeadAt, TailAt
  <2>3. \A v, j : At(v, j)' = At(v, j)
    BY <1>1 DEF At
  <2> QED BY <2>1, <2>2, <2>3
<1>12. /\ \A v \in Workers : \A n \in Chain(v) : next'[n] = next[n]
       /\ \A q \in Queues : \A n \in Stacked(q) \cup Cached(q) : next'[n] = next[n]
       /\ New' = f + k .. NodeCount /\ \A n \in New' : next'[n] = Null
  <2>1. New' = f + k .. NodeCount
    BY <1>1 DEF New
  <2>2. \A n \in New' : n \in Nodes /\ n \notin f .. z /\ n # z
    <3>1. z \in f .. z /\ New \subseteq Nodes
      BY <1>8, AllNodes, <1>0, <1>2, <1>3
    <3> QED BY <1>3, <2>1, <3>1
  <2>3. \A n \in New' : next'[n] = Null
    BY <1>3, <1>8, <2>1, <2>2
  <2>4. /\ \A v \in Workers : \A n \in Chain(v) : n \in Nodes \ (f .. z)
        /\ \A q \in Queues : \A n \in Stacked(q) \cup Cached(q) : n \in Nodes \ (f .. z)
    BY <1>5, AllNodes
  <2> QED BY <1>8, <2>1, <2>3, <2>4
<1>13. Step(Pool)
  <2>1. Taken \subseteq Taken'
    BY <1>1 DEF Taken
  <2>2. fresh <= fresh'
    BY <1>0, <1>1, <1>2, <1>3
  <2> QED BY <1>1, <1>10, <1>11, <1>12, <2>1, <2>2 DEF Step
<1>14. Stacked(Pool)' = (f .. z) \cup Stacked(Pool) /\ Proper(stack[Pool])'
  BY <1>9, <1>11 DEF Stacked, Proper, ProperIn, Hanging
<1>15. Cached(Pool)' = Cached(Pool) /\ CacheOK(Pool)'
  BY <1>1, <1>2, <1>8, <1>12, CacheStays
<1>16. /\ Types' /\ Chains' /\ Locally'
       /\ \A v \in Workers : Hand(v)' = Hand(v) /\ Ring(v)' = Ring(v) /\ Chain(v)' = Chain(v)
       /\ \A q \in Queues \ {Pool} : Stacked(q)' = Stacked(q) /\ Cached(q)' = Cached(q)
  <2>1. \A q \in Queues \ {Pool} :
          /\ stack'[q] = stack[q] /\ cache'[q] = cache[q] /\ flags'[q] = flags[q]
          /\ \A n \in Stacked(q) \cup Cached(q) : next'[n] = next[n]
    BY <1>1, <1>11, <1>12
  <2>2. {Pool} \in SUBSET Queues /\ \A q \in {Pool} : Proper(stack[q])' /\ CacheOK(q)'
    BY <1>2, <1>14, <1>15
  <2>3. (\A v \in Workers \ {Pool} : head'[v] = head[v]) /\ (Pool \in Workers => Own(Pool))
    BY <1>1, Constants
  <2>4. \A n \in New' : next'[n] = Null
    BY <1>12
  <2>5. \A v \in Workers \ {Pool} : Hand(v)' = Hand(v) /\ Ring(v)' = Ring(v) /\ Chain(v)' = Chain(v)
    BY <1>2, <1>13, <2>1, <2>2, <2>3, <2>4, Settles
  <2>6. Types' /\ Chains' /\ Locally' /\ \A q \in Queues \ {Pool} : Stacked(q)' = Stacked(q)
        /\ Cached(q)' = Cached(q)
    BY <1>2, <1>13, <2>1, <2>2, <2>3, <2>4, Settles
  <2> QED BY <2>5, <2>6, Constants
<1> DEFINE b == <<"new", Pool>>
           c == <<"stack", Pool>>
<1>17. /\ b \in Spots /\ c \in Spots /\ b # c /\ Where[b] = New /\ Where'[b] = New'
       /\ Where[c] = Stacked(Pool) /\ Where'[c] = Stacked(Pool)' /\ {b, c} \in SUBSET Spots
  BY <1>2, WhereIs, WhereNext
<1>18. \A s \in DOMAIN Where \ {b, c} : Where'[s] = Where[s]
  <2>1. \A v \in Workers : /\ <<"hand", v>> \in {b, c} \/ Hand(v)' = Hand(v)
                           /\ <<"ring", v>> \in {b, c} \/ Ring(v)' = Ring(v)
                           /\ <<"chain", v>> \in {b, c} \/ Chain(v)' = Chain(v)
    BY <1>16
  <2>2. \A q \in Queues : /\ <<"stack", q>> \in {b, c} \/ Stacked(q)' = Stacked(q)
                          /\ <<"cache", q>> \in {b, c} \/ Cached(q)' = Cached(q)
    BY <1>15, <1>16
  <2>3. Done' = Done /\ <<"new", Pool>> \in {b, c}
    BY <1>1 DEF Done
  <2> QED BY <1>17, <2>1, <2>2, <2>3, OthersStay
<1> HIDE DEF b, c
<1>19. Where'[b] \cap Where'[c] = {} /\ Where'[b] \cup Where'[c] = Where[b] \cup Where[c]
  <2>1. New' = f + k .. NodeCount /\ New = (f .. z) \cup New' /\ (f .. z) \cap New' = {}
    BY <1>3, <1>12
  <2>2. New \cap Stacked(Pool) = {}
    BY <1>2, NewOnly
  <2> QED BY <1>14, <1>17, <2>1, <2>2
<1>20. Placed'
  BY <1>17, <1>18, <1>19, TwoMove DEF Sound
<1> QED BY <1>16, <1>20 DEF Sound
-----------------------------------------------------------------------------
(* The two theorems.                                                         *)

\* At the start every node is new.
LEMMA FirstSound == Init => Sound
<1> SUFFICES ASSUME Init PROVE Sound
  OBVIOUS
<1>1. Types
  <2>1. Start \in Index /\ NoReg \in Regs /\ NodeCount \in Nat \ {0}
    BY Constants, NoRegIsReg
  <2> QED BY <2>1 DEF Init, Types, Labels
<1>2. next \in Links /\ \A n \in Nodes : next[n] = Null
  BY DEF Init, Links
<1>3. Hanging(Null) = {} /\ Proper(Null)
  BY <1>2, ReachClosed DEF Hanging, Proper
<1>4. Chains
  <2>1. \A w \in Workers : ~Chaining(w)
    BY DEF Init, Chaining, Consuming
  <2>2. New \subseteq Nodes
    BY Constants DEF Init, New
  <2> QED BY <1>2, <1>3, <2>1, <2>2 DEF Init, Chains
<1>5. ASSUME NEW w \in Workers
      PROVE  /\ HeadAt(w) = 0 /\ TailAt(w) = 0 /\ EndAt(w) = 0 /\ Occupied(w) = {} /\ Unstored(w) = 0
             /\ Ring(w) = {} /\ Chain(w) = {} /\ Hand(w) = {} /\ pc[w] = "pop" /\ reg[w] = NoReg
             /\ head[w] = tail[w]
  <2>1. pc[w] = "pop" /\ reg[w] = NoReg /\ head[w] = Start /\ tail[w] = Start
    BY DEF Init
  <2>2. HeadAt(w) = 0 /\ TailAt(w) = 0
    BY <2>1, StartPosition DEF HeadAt, TailAt
  <2>3. /\ Unstored(w) = 0 /\ Ahead(w) = 0 /\ Chain(w) = {} /\ Hand(w) = {}
    BY <2>1, NoRegIsReg DEF Unstored, Ahead, Storing, Chain, Chaining, Consuming, Hand
  <2>4. EndAt(w) = 0
    BY <2>2, <2>3 DEF EndAt
  <2>5. Occupied(w) = {}
    BY <2>2, <2>4 DEF Occupied
  <2> QED BY <2>1, <2>2, <2>3, <2>4, <2>5 DEF Ring
<1>6. Locally
  <2> SUFFICES ASSUME NEW w \in Workers PROVE RingOK(w) /\ HandOK(w) /\ ThiefOK(w) /\ BatchOK(w)
    BY DEF Locally
  <2>1. RingOK(w)
    <3>1. Capacity * Cardinality(Taken) \in Nat /\ fresh = 1
      BY TakenBound, Room DEF Init
    <3>2. pc[w] = "pop" /\ EndAt(w) + Unstored(w) = 0
      BY <1>5
    <3> QED BY <1>5, <3>1, <3>2, Constants DEF RingOK
  <2> QED BY <1>5, <2>1, NoRegIsReg DEF HandOK, ThiefOK, BatchOK, Handing, Searching, Stealing
<1>7. /\ Where[<<"new", Pool>>] = Nodes
      /\ \A s \in Spots \ {<<"new", Pool>>} : Where[s] = {}
  <2>1. New = Nodes /\ Done = {}
    BY Constants DEF Init, New, Done
  <2>2. \A q \in Queues : Stacked(q) = {} /\ Cached(q) = {}
    BY <1>3 DEF Init, Stacked, Cached
  <2> SUFFICES ASSUME NEW s \in Spots, s # <<"new", Pool>> PROVE Where[s] = {}
    BY <2>1, WhereIs
  <2>3. ASSUME NEW w \in Workers, s \in {<<"hand", w>>, <<"ring", w>>, <<"chain", w>>}
        PROVE Where[s] = {}
    BY <1>5, <2>3, WhereIs
  <2>4. ASSUME NEW q \in Queues, s \in {<<"stack", q>>, <<"cache", q>>} PROVE Where[s] = {}
    BY <2>2, <2>4, WhereIs
  <2>5. CASE s = <<"done", Pool>>
    BY <2>1, <2>5, WhereIs
  <2> QED BY <2>3, <2>4, <2>5, SpotKinds
<1>8. Placed
  BY <1>7, WhereIs DEF Placed, Apart, Whole
<1> QED BY <1>1, <1>4, <1>6, <1>8 DEF Sound

\* Every step keeps every node in one place.
LEMMA StepsSound == NoLap /\ Inv /\ Sound /\ [Next]_vars => Sound'
<1> SUFFICES ASSUME NoLap, Inv, Sound, [Next]_vars PROVE Sound'
  OBVIOUS
<1>0. OneConsumer
  BY DEF Inv
<1>1. ASSUME NEW k \in 1 .. MaxList, Schedule(k) PROVE Sound'
  BY <1>1, ScheduleSound
<1>2. ASSUME NEW w \in Workers, NEW k \in 1 .. MaxList, ScheduleInside(w, k) PROVE Sound'
  BY <1>2, ScheduleInsideSound
<1>3. ASSUME NEW w \in Workers, WorkerStep(w) PROVE Sound'
  <2>1. CASE BufferFill(w) \/ BufferPublish(w) \/ BufferOverflow(w) \/ PushOverflow(w)
    BY <2>1, BufferFillSound, BufferPublishSound, BufferOverflowSound, PushOverflowSound
  <2>2. CASE PopBuffer(w) \/ Scan(w) \/ Run(w)
    BY <2>2, PopBufferSound, ScanSound, RunSound
  <2>3. CASE Acquire(w) \/ Take(w) \/ Extra(w) \/ Publish(w) \/ Release(w)
    BY <1>0, <2>3, AcquireSound, TakeSound, ExtraSound, PublishSound, ReleaseSound
  <2>4. CASE StealHead(w) \/ StealTail(w) \/ StealCopy(w) \/ StealClaim(w) \/ StealPublish(w)
    BY <2>4, StealHeadSound, StealTailSound, StealCopySound, StealClaimSound, StealPublishSound
  <2> QED BY <1>3, <2>1, <2>2, <2>3, <2>4 DEF WorkerStep
<1>4. CASE UNCHANGED vars
  <2>1. /\ UNCHANGED <<next, stack, flags, cache, array, head, tail, fresh, runs, pc, reg>>
    BY <1>4 DEF vars
  <2>2. Types'
    BY <2>1 DEF Sound, Types
  <2>3. Chains'
    BY <2>1 DEF Sound, Chains, Proper, Hanging, Chaining, Consuming, New
  <2>4. /\ \A w \in Workers : /\ HeadAt(w)' = HeadAt(w) /\ TailAt(w)' = TailAt(w)
              /\ EndAt(w)' = EndAt(w)
                              /\ Occupied(w)' = Occupied(w) /\ Unstored(w)' = Unstored(w)
                              /\ Chain(w)' = Chain(w) /\ Hand(w)' = Hand(w) /\ Ring(w)' = Ring(w)
        /\ \A w, j : At(w, j)' = At(w, j)
        /\ Taken' = Taken /\ Done' = Done /\ New' = New
        /\ \A q \in Queues : Stacked(q)' = Stacked(q) /\ Cached(q)' = Cached(q)
    <3>1. \A w, j : At(w, j)' = At(w, j)
      BY <2>1 DEF At
    <3>2. \A w \in Workers : HeadAt(w)' = HeadAt(w) /\ TailAt(w)' = TailAt(w) /\ Ahead(w)' = Ahead(w)
      BY <2>1 DEF HeadAt, TailAt, Ahead
    <3>3. \A w \in Workers : EndAt(w)' = EndAt(w) /\ Occupied(w)' = Occupied(w)
      BY <3>2 DEF EndAt, Occupied
    <3>4. \A w \in Workers : Ring(w)' = Ring(w)
      BY <3>1, <3>3 DEF Ring
    <3>5. \A w \in Workers : Unstored(w)' = Unstored(w) /\ Chain(w)' = Chain(w) /\ Hand(w)' = Hand(w)
      BY <2>1 DEF Unstored, Chain, Chaining, Consuming, Hanging, Hand
    <3>6. /\ Taken' = Taken /\ Done' = Done /\ New' = New
          /\ \A q \in Queues : Stacked(q)' = Stacked(q) /\ Cached(q)' = Cached(q)
      BY <2>1 DEF Taken, Done, New, Stacked, Cached, Hanging
    <3> QED BY <3>1, <3>2, <3>3, <3>4, <3>5, <3>6
  <2>5. Locally'
    <3> SUFFICES ASSUME NEW w \in Workers PROVE RingOK(w)' /\ HandOK(w)' /\ ThiefOK(w)' /\ BatchOK(w)'
      BY DEF Locally
    <3>1. RingOK(w) /\ HandOK(w) /\ ThiefOK(w) /\ BatchOK(w)
      BY DEF Sound, Locally
    <3>2. RingOK(w)'
      BY <2>1, <2>4, <3>1 DEF RingOK
    <3>3. HandOK(w)'
      BY <2>1, <3>1 DEF HandOK
    <3>4. ThiefOK(w)'
      BY <2>1, <3>1 DEF ThiefOK, HeadAt, TailAt, At
    <3>5. BatchOK(w)'
      BY <2>1, <2>4, <3>1 DEF BatchOK, Hanging
    <3> QED BY <3>2, <3>3, <3>4, <3>5
  <2>6. Placed'
    <3>1. {} \in SUBSET Spots
      OBVIOUS
    <3>2. \A s \in DOMAIN Where \ {} : Where'[s] = Where[s]
      BY <2>4, <3>1, OthersStay
    <3> QED BY <3>2, NothingMoves DEF Sound
  <2> QED BY <2>2, <2>3, <2>5, <2>6 DEF Sound
<1> QED BY <1>1, <1>2, <1>3, <1>4 DEF Next

\* A node is in one place.
LEMMA OnePlace ==
  ASSUME Sound, NEW n \in Nodes
  PROVE  \E s \in Spots : \A t \in Spots : n \in Where[t] <=> t = s
<1>1. PICK s \in Spots : n \in Where[s]
  BY WhereIs DEF Sound, Placed, Whole
<1>2. \A t \in Spots : t # s => n \notin Where[t]
  BY <1>1, SpotsApart
<1> QED BY <1>1, <1>2

\* The members of S whose place of kind k is s.
Owners(S, k, s) == {x \in S : s = <<k, x>>}

\* Between operations the places are the ones NothingLost counts.
LEMMA Resting ==
  ASSUME NoLap, Inv, Sound, AtRest, NEW n \in Nodes, NEW s \in Spots,
         \A t \in Spots : n \in Where[t] <=> t = s
  PROVE  /\ {w \in Workers : pc[w] = "run" /\ reg[w].node = n} = Owners(Workers, "hand", s)
         /\ {w \in Workers : n \in InRing(w)} = Owners(Workers, "ring", s)
         /\ {q \in Queues : n \in Hanging(stack[q])} = Owners(Queues, "stack", s)
         /\ {q \in Queues : n \in Hanging(cache[q])} = Owners(Queues, "cache", s)
         /\ \A w \in Workers : s # <<"chain", w>>
         /\ runs[n] = (IF s = <<"done", Pool>> THEN 1 ELSE 0)
         /\ n < fresh => s # <<"new", Pool>>
<1>1. \A w \in Workers : pc[w] \in {"pop", "scan", "run"} /\ ~Consuming(w) /\ ~Chaining(w)
  BY DEF AtRest, Consuming, Chaining
<1>2. \A w \in Workers : (pc[w] = "run" /\ reg[w].node = n) <=> s = <<"hand", w>>
  <2> SUFFICES ASSUME NEW w \in Workers PROVE (pc[w] = "run" /\ reg[w].node = n) <=> s = <<"hand", w>>
    OBVIOUS
  <2>1. n \in Hand(w) <=> s = <<"hand", w>>
    BY WhereIs
  <2>2. n \in Hand(w) <=> reg[w].node = n
    BY NullIsNoNode DEF Hand
  <2>3. reg[w].node = n => pc[w] = "run"
    BY <1>1, NullIsNoNode DEF Sound, Locally, HandOK, EmptyHanded
  <2> QED BY <2>1, <2>2, <2>3
<1>3. \A w \in Workers : n \in InRing(w) <=> s = <<"ring", w>>
  <2> SUFFICES ASSUME NEW w \in Workers PROVE n \in InRing(w) <=> s = <<"ring", w>>
    OBVIOUS
  <2>0. PICK h, t : h = HeadAt(w) /\ t = TailAt(w)
    OBVIOUS
  <2>1. /\ h \in Nat /\ t \in Nat /\ h <= t /\ head[w] \in Index /\ tail[w] \in Index
        /\ h = Pos(head[w]) /\ t = Pos(tail[w])
    BY <2>0, Numbers DEF HeadAt, TailAt
  <2>2. Minus(tail[w], head[w]) = t - h
    BY <2>1, Distance
  <2>3. Occupied(w) = h .. t - 1
    <3>1. Ahead(w) = 0
      BY <1>1 DEF Ahead, Storing
    <3>2. EndAt(w) = t
      BY <2>0, <2>1, <3>1 DEF EndAt
    <3> QED BY <2>0, <3>2 DEF Occupied
  <2>4. \A i \in 0 .. t - h - 1 : array[w][Slot(head[w] + i)] = At(w, h + i)
    <3> SUFFICES ASSUME NEW i \in 0 .. t - h - 1 PROVE array[w][Slot(head[w] + i)] = At(w, h + i)
      OBVIOUS
    <3>1. Slot(head[w] + i) = Cell(h + i)
      BY <2>1, CellOf
    <3> QED BY <3>1 DEF At
  <2>5. InRing(w) = {At(w, h + i) : i \in 0 .. t - h - 1}
    BY <2>2, <2>4 DEF InRing
  <2>6. /\ \A i \in 0 .. t - h - 1 : h + i \in h .. t - 1
        /\ \A j \in h .. t - 1 : j - h \in 0 .. t - h - 1 /\ h + (j - h) = j
    BY <2>1
  <2>7. InRing(w) = Ring(w)
    BY <2>3, <2>5, <2>6 DEF Ring
  <2> QED BY <2>7, WhereIs
<1>4. \A q \in Queues : n \in Hanging(stack[q]) <=> s = <<"stack", q>>
  BY WhereIs DEF Stacked
<1>5. \A q \in Queues : n \in Hanging(cache[q]) <=> s = <<"cache", q>>
  <2>1. \A q \in Queues : "IS_CONSUMING" \notin flags[q]
    BY <1>1 DEF Inv, OneConsumer
  <2>2. \A q \in Queues : Cached(q) = Hanging(cache[q])
    BY <2>1 DEF Cached
  <2> QED BY <2>2, WhereIs
<1>6. \A w \in Workers : s # <<"chain", w>>
  <2>1. \A w \in Workers : Chain(w) = {}
    BY <1>1 DEF Chain
  <2> QED BY <2>1, WhereIs
<1>7. runs[n] = (IF s = <<"done", Pool>> THEN 1 ELSE 0)
  <2>1. runs[n] \in {0, 1}
    BY DEF Sound, Types
  <2>2. n \in Done <=> s = <<"done", Pool>>
    BY WhereIs
  <2> QED BY <2>1, <2>2 DEF Done
<1>8. n < fresh => s # <<"new", Pool>>
  <2>1. n \in New <=> s = <<"new", Pool>>
    BY WhereIs
  <2>2. fresh \in Int /\ n \in Int
    BY Constants DEF Sound, Types
  <2> QED BY <2>1, <2>2 DEF New
<1> QED BY <1>2, <1>3, <1>4, <1>5, <1>6, <1>7, <1>8 DEF Owners

\* How many members of S are the one a place of one kind belongs to.
LEMMA CountOne ==
  ASSUME NEW S, NEW k, NEW s
  PROVE  /\ (\E x \in S : s = <<k, x>>) => Cardinality(Owners(S, k, s)) = 1
         /\ (\A x \in S : s # <<k, x>>) => Cardinality(Owners(S, k, s)) = 0
<1>1. ASSUME NEW x \in S, s = <<k, x>> PROVE Cardinality(Owners(S, k, s)) = 1
  <2>1. Owners(S, k, s) = {x}
    BY <1>1 DEF Owners
  <2> QED BY <2>1, FS_Singleton
<1>2. ASSUME \A x \in S : s # <<k, x>> PROVE Cardinality(Owners(S, k, s)) = 0
  <2>1. Owners(S, k, s) = {}
    BY <1>2 DEF Owners
  <2> QED BY <2>1, FS_EmptySet
<1> QED BY <1>1, <1>2

\* Places counts the one place of a node.
LEMMA NothingLostWhenSound == NoLap /\ Inv /\ Sound => NothingLost
<1> SUFFICES ASSUME NoLap, Inv, Sound, AtRest, NEW n \in 1 .. fresh - 1 PROVE runs[n] + Places(n) = 1
  BY DEF NothingLost
<1>1. n \in Nodes /\ n < fresh
  BY Constants DEF Sound, Types
<1>2. PICK s \in Spots : \A t \in Spots : n \in Where[t] <=> t = s
  BY <1>1, OnePlace
<1> DEFINE H == Cardinality(Owners(Workers, "hand", s))
           R == Cardinality(Owners(Workers, "ring", s))
           S == Cardinality(Owners(Queues, "stack", s))
           C == Cardinality(Owners(Queues, "cache", s))
<1>3. /\ Places(n) = H + R + S + C /\ runs[n] = (IF s = <<"done", Pool>> THEN 1 ELSE 0)
      /\ s # <<"new", Pool>> /\ \A w \in Workers : s # <<"chain", w>>
  BY <1>1, <1>2, Resting DEF Places
<1>4. /\ (\E w \in Workers : s = <<"hand", w>>) => H = 1
      /\ (\A w \in Workers : s # <<"hand", w>>) => H = 0
      /\ (\E w \in Workers : s = <<"ring", w>>) => R = 1
      /\ (\A w \in Workers : s # <<"ring", w>>) => R = 0
      /\ (\E q \in Queues : s = <<"stack", q>>) => S = 1
      /\ (\A q \in Queues : s # <<"stack", q>>) => S = 0
      /\ (\E q \in Queues : s = <<"cache", q>>) => C = 1
      /\ (\A q \in Queues : s # <<"cache", q>>) => C = 0
  BY CountOne
<1> HIDE DEF H, R, S, C
<1>5. ASSUME NEW w \in Workers, s = <<"hand", w>> PROVE runs[n] = 0 /\ H = 1 /\ R = 0 /\ S = 0 /\ C = 0
  BY <1>3, <1>4, <1>5
<1>6. ASSUME NEW w \in Workers, s = <<"ring", w>> PROVE runs[n] = 0 /\ H = 0 /\ R = 1 /\ S = 0 /\ C = 0
  BY <1>3, <1>4, <1>6
<1>7. ASSUME NEW q \in Queues, s = <<"stack", q>> PROVE runs[n] = 0 /\ H = 0 /\ R = 0 /\ S = 1 /\ C = 0
  BY <1>3, <1>4, <1>7
<1>8. ASSUME NEW q \in Queues, s = <<"cache", q>> PROVE runs[n] = 0 /\ H = 0 /\ R = 0 /\ S = 0 /\ C = 1
  BY <1>3, <1>4, <1>8
<1>9. ASSUME s = <<"done", Pool>> PROVE runs[n] = 1 /\ H = 0 /\ R = 0 /\ S = 0 /\ C = 0
  BY <1>3, <1>4, <1>9
<1>10. \/ \E w \in Workers : s = <<"hand", w>> \/ s = <<"ring", w>>
       \/ \E q \in Queues : s = <<"stack", q>> \/ s = <<"cache", q>>
       \/ s = <<"done", Pool>>
  BY <1>3, SpotKinds
<1> QED BY <1>3, <1>5, <1>6, <1>7, <1>8, <1>9, <1>10

\* No node is run twice, whoever popped, consumed or stole it, as long as no index of a ring
\* comes round to a value a thief may still hold.
THEOREM NoNodeRunsTwice == ASSUME NoLap PROVE Spec => []RunOnce
<1>1. Sound => RunOnce
  BY DEF Sound, Types, RunOnce
<1>2. Init => Inv /\ Sound
  BY Initially, FirstSound
<1>3. Inv /\ Sound /\ [Next]_vars => (Inv /\ Sound)'
  BY Steps, StepsSound
<1> QED BY <1>1, <1>2, <1>3, PTL DEF Spec

\* Between operations every scheduled node is in exactly one place: none is lost on the way from
\* queue to queue, and none is in two.
THEOREM NoNodeLost == ASSUME NoLap PROVE Spec => []NothingLost
<1>1. Inv /\ Sound => NothingLost
  BY NothingLostWhenSound
<1>2. Init => Inv /\ Sound
  BY Initially, FirstSound
<1>3. Inv /\ Sound /\ [Next]_vars => (Inv /\ Sound)'
  BY Steps, StepsSound
<1> QED BY <1>1, <1>2, <1>3, PTL DEF Spec
=============================================================================
