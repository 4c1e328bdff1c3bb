--------------------------- MODULE PmapPool_proofs ---------------------------
(* Proofs about PmapPool for every set of calls, of any widths, for a      *)
(* program that awaits each call and disposes of the workers after a       *)
(* rejection (Client = "careful").                                         *)
EXTENDS PmapPool, FiniteSetTheorems, TLAPS

ChunkStates == {Waiting, Failed} \cup {Done(c) : c \in Calls}
Messages == [call : Calls, ok : BOOLEAN]
Promises == {"uncalled", "pending", "resolved", "rejected"}

Shapes ==
    /\ gen \in 1..MaxGens
    /\ holder \in [Workers -> Calls \cup {None}]
    /\ refd \in [Workers -> BOOLEAN]
    /\ thread \in [Workers -> {"running", "died", "closed"}]
    /\ executing \in [Workers -> SUBSET Calls]
    /\ replies \in [Workers -> Seq(Messages)]
    /\ chunk = [c \in Calls |-> chunk[c]]
    /\ \A c \in Calls : chunk[c] \in [Chunks(c) -> ChunkStates]
    /\ promise \in [Calls -> Promises]
    /\ result = [c \in Calls |-> result[c]]
    /\ tainted \in BOOLEAN

(* A worker of the current pool is idle, or executes the chunk of the call *)
(* in its entry, or has sent the reply to it: never anything of another    *)
(* call.  That call is the pending one or, in a tainted pool, a rejected   *)
(* one.                                                                    *)
Idle(w) == executing[w] = {} /\ replies[w] = <<>>
Serves(w) ==
    /\ holder[w] \in Calls /\ w[2] \in Chunks(holder[w])
    /\ promise[holder[w]] = IF tainted THEN "rejected" ELSE "pending"
    /\ ~tainted => chunk[holder[w]][w[2]] = Waiting
Executes(w) == executing[w] = {holder[w]} /\ replies[w] = <<>> /\ refd[w]
Answers(w) ==
    /\ executing[w] = {}
    /\ replies[w] # <<>> /\ Tail(replies[w]) = <<>>
    /\ Head(replies[w]).call = holder[w]
    /\ Head(replies[w]).ok => <<holder[w], w[2]>> \in computed
Lane(w) == Idle(w) \/ (Serves(w) /\ (Executes(w) \/ Answers(w)))

(* Workers of later pools are untouched; those of earlier ones execute     *)
(* only chunks of rejected calls.                                          *)
Lanes == \A w \in Workers :
    /\ w[1] > gen => Idle(w)
    /\ w[1] = gen => Lane(w)
    /\ w[1] < gen => \A c \in executing[w] : promise[c] = "rejected"

(* At most one call is pending, none in a tainted pool. *)
Sole == \A c \in Pending : ~tainted /\ \A d \in Pending : d = c

(* A chunk that is done was done by the function of its own call. *)
Progress == \A c \in Pending : \A i \in Chunks(c) :
    \/ chunk[c][i] = Waiting
    \/ chunk[c][i] = Done(c) /\ <<c, i>> \in computed

(* The buffers: those of unsettled and rejected calls are nobody else's.   *)
Owned == {c \in Calls : promise[c] \in {"pending", "rejected"}}
Buffers ==
    /\ made \in Nat
    /\ sabs \in [Calls -> SUBSET (1..made)]
    /\ sabPool \in SUBSET (1..made)
    /\ \A c \in Calls : \/ sabs[c] = {}
                        \/ \E a, b \in 1..made : sabs[c] = {a, b}
    /\ \A c \in Calls : promise[c] = "uncalled" => sabs[c] = {}
Room == IsFiniteSet(sabPool) /\ Cardinality(sabPool) <= SabPoolMax
Apart == \A c \in Owned :
    /\ sabs[c] \cap sabPool = {}
    /\ \A d \in Owned \ {c} : sabs[c] \cap sabs[d] = {}

Inv ==
    /\ Client = "careful"
    /\ Shapes /\ Lanes /\ Sole /\ Progress /\ OwnResult
    /\ Buffers /\ Room /\ Apart

LEMMA WorkerPairs ==
    \A w \in Workers : w = <<w[1], w[2]>> /\ w[1] \in 1..MaxGens /\ w[2] \in Nat
BY WidthAssumption DEF Workers, Index

LEMMA MineAreWorkers ==
    ASSUME NEW c \in Calls, gen \in 1..MaxGens
    PROVE  /\ Mine(c) \subseteq Workers
           /\ \A i \in Chunks(c) : <<gen, i>> \in Workers
           /\ \A w \in Workers : w \in Mine(c) <=> w[1] = gen /\ w[2] \in Chunks(c)
<1>1. \A i \in Chunks(c) : i \in Index
  BY WidthAssumption DEF Chunks, Index
<1>2. \A i \in Chunks(c) : <<gen, i>> \in Workers
  BY <1>1 DEF Workers
<1>3. QED
  BY <1>2, WorkerPairs DEF Mine

LEMMA InitInv == Client = "careful" /\ Init => Inv
<1> SUFFICES ASSUME Client = "careful", Init PROVE Inv
  OBVIOUS
<1> USE DEF Init
<1>1. Shapes
  <2>1. Waiting \in ChunkStates
    BY DEF ChunkStates
  <2>2. \A c \in Calls : chunk[c] = [i \in Chunks(c) |-> Waiting]
    OBVIOUS
  <2>3. \A c \in Calls : chunk[c] \in [Chunks(c) -> ChunkStates]
    BY <2>1, <2>2
  <2>4. gen \in 1..MaxGens
    BY ClientAssumption
  <2>5. chunk = [c \in Calls |-> chunk[c]] /\ result = [c \in Calls |-> result[c]]
    OBVIOUS
  <2>6. executing \in [Workers -> SUBSET Calls] /\ replies \in [Workers -> Seq(Messages)]
    <3>1. <<>> \in Seq(Messages)
      OBVIOUS
    <3>2. QED
      BY <3>1
  <2>7. promise \in [Calls -> Promises] /\ tainted \in BOOLEAN
    BY DEF Promises
  <2>8. refd \in [Workers -> BOOLEAN]
    BY Zenon
  <2>9. holder \in [Workers -> Calls \cup {None}]
    OBVIOUS
  <2>10. thread \in [Workers -> {"running", "died", "closed"}]
    OBVIOUS
  <2>11. QED
    BY <2>3, <2>4, <2>5, <2>6, <2>7, <2>8, <2>9, <2>10 DEF Shapes
<1>2. Lanes
  <2>1. \A w \in Workers : ~(w[1] < gen)
    BY WorkerPairs
  <2>2. QED
    BY <2>1 DEF Lanes, Lane, Idle
<1>3. Sole /\ Progress /\ OwnResult
  BY DEF Sole, Progress, OwnResult, Pending
<1>4. Buffers /\ Apart
  BY DEF Buffers, Apart, Owned
<1>5. Room
  BY FS_EmptySet, ClientAssumption DEF Room
<1>6. QED
  BY <1>1, <1>2, <1>3, <1>4, <1>5 DEF Inv

-----------------------------------------------------------------------------
(* The start of a call. *)

(* A careful program starts a call only on idle workers. *)
LEMMA StartsOnIdle ==
    ASSUME Inv, NEW c \in Calls, Start(c)
    PROVE  /\ Pending = {} /\ tainted = FALSE
           /\ \A w \in Workers : w[1] = gen => Idle(w)
<1>1. Pending = {} /\ ~tainted
  BY DEF Start, MayStart, Inv
<1>2. \A w \in Workers : ~Serves(w)
  BY <1>1 DEF Serves, Pending
<1>3. QED
  BY <1>1, <1>2 DEF Inv, Lanes, Lane, Shapes

LEMMA StartShapes ==
    ASSUME Inv, NEW c \in Calls, Start(c)
    PROVE  Shapes'
<1> USE DEF Inv, Shapes, Start
<1>1. chunk'[c] \in [Chunks(c) -> ChunkStates]
  BY DEF ChunkStates
<1>2. \A d \in Calls : chunk'[d] \in [Chunks(d) -> ChunkStates]
  BY <1>1
<1>3. chunk' = [d \in Calls |-> chunk'[d]]
  OBVIOUS
<1>4. holder' \in [Workers -> Calls \cup {None}]
  OBVIOUS
<1>5. refd' \in [Workers -> BOOLEAN]
  BY Zenon DEF Refs
<1>6. executing' \in [Workers -> SUBSET Calls]
  OBVIOUS
<1>7. promise' \in [Calls -> Promises] /\ tainted' \in BOOLEAN
  BY DEF Promises
<1>8. QED
  BY <1>2, <1>3, <1>4, <1>5, <1>6, <1>7

LEMMA StartLanes ==
    ASSUME Inv, NEW c \in Calls, Start(c)
    PROVE  Lanes'
<1>0. gen \in 1..MaxGens /\ gen' = gen
  BY DEF Inv, Shapes, Start
<1>1. SUFFICES ASSUME NEW w \in Workers
      PROVE  /\ w[1] > gen => Idle(w)'
             /\ w[1] = gen => Lane(w)'
             /\ w[1] < gen => \A d \in executing'[w] : promise'[d] = "rejected"
  BY <1>0 DEF Lanes
<1>2. w[1] \in Nat
  BY WorkerPairs
<1>3. CASE w \notin Mine(c)
  <2>1. executing'[w] = executing[w] /\ replies'[w] = replies[w]
    BY <1>3 DEF Start
  <2>2. w[1] > gen => Idle(w)'
    BY <2>1, <1>0 DEF Inv, Lanes, Idle
  <2>3. w[1] = gen => Lane(w)'
    BY <2>1, StartsOnIdle DEF Idle, Lane
  <2>4. ASSUME w[1] < gen, NEW d \in executing'[w] PROVE promise'[d] = "rejected"
    <3>1. promise[d] = "rejected" /\ promise[c] = "uncalled"
      BY <2>1, <2>4 DEF Inv, Lanes, Start
    <3>2. d # c
      BY <3>1
    <3>3. QED
      BY <3>1, <3>2 DEF Start, Inv, Shapes
  <2>5. QED
    BY <2>2, <2>3, <2>4
<1>4. CASE w \in Mine(c)
  <2>1. w[1] = gen /\ w[2] \in Chunks(c) /\ w = <<gen, w[2]>>
    BY <1>0, <1>4, MineAreWorkers, WorkerPairs
  <2>2. Idle(w)
    BY <2>1, StartsOnIdle
  <2>3. holder'[w] = c /\ refd'[w] /\ replies'[w] = <<>>
    BY <1>4, <2>2 DEF Start, Refs, Idle
  <2>4. executing'[w] = {c} \/ executing'[w] = {}
    BY <1>4, <2>2 DEF Start, Idle
  <2>5. Serves(w)'
    <3>1. promise'[c] = IF tainted' THEN "rejected" ELSE "pending"
      BY StartsOnIdle DEF Start, Inv, Shapes
    <3>2. ~tainted' => chunk'[c][w[2]] = Waiting
      BY <2>1, StartsOnIdle DEF Start, Inv, Shapes
    <3>3. QED
      BY <2>1, <2>3, <3>1, <3>2 DEF Serves
  <2>6. Lane(w)'
    BY <2>3, <2>4, <2>5 DEF Lane, Idle, Executes
  <2>7. QED
    BY <2>1, <2>6, <1>2
<1>5. QED
  BY <1>3, <1>4

LEMMA StartCalls ==
    ASSUME Inv, NEW c \in Calls, Start(c)
    PROVE  Sole' /\ Progress' /\ OwnResult'
<1>1. \A d \in Calls : d # c => promise'[d] = promise[d]
  BY DEF Start, Inv, Shapes
<1>2. Pending = {} /\ tainted = FALSE
  BY StartsOnIdle
<1>3. Pending' \subseteq {c}
  BY <1>1, <1>2 DEF Pending
<1>4. promise'[c] = "pending" =>
        /\ ~tainted'
        /\ \A i \in Chunks(c) : chunk'[c][i] = Waiting
  BY <1>2 DEF Start, Inv, Shapes
<1>5. promise'[c] # "resolved" /\ result' = result
  BY DEF Start, Inv, Shapes
<1>6. Sole'
  BY <1>3, <1>4 DEF Sole, Pending
<1>7. Progress'
  BY <1>3, <1>4 DEF Progress, Pending
<1>8. OwnResult'
  BY <1>1, <1>5 DEF OwnResult, Inv
<1>9. QED
  BY <1>6, <1>7, <1>8

(* Borrowed buffers come from the free list or are new. *)
LEMMA BorrowFacts ==
    ASSUME Inv, NEW c \in Calls, promise[c] = "uncalled", Borrow(c)
    PROVE  /\ made' \in Nat /\ made <= made'
           /\ sabs' \in [Calls -> SUBSET (1..made')]
           /\ \A d \in Calls : d # c => sabs'[d] = sabs[d]
           /\ sabs'[c] = {} \/ \E a, b \in 1..made' : sabs'[c] = {a, b}
           /\ sabPool' = sabPool \ sabs'[c]
           /\ \A x \in sabs'[c] : x \in sabPool \/ x > made
<1> USE DEF Inv, Buffers
<1>1. CASE c \notin Typed
  BY <1>1 DEF Borrow, sabVars
<1>2. CASE c \in Typed
  <2>1. PICK in \in sabPool \cup {made + 1} :
          \E out \in (sabPool \ {in}) \cup {(IF in \in sabPool THEN made ELSE made + 1) + 1} :
            /\ made' = IF out \in sabPool THEN IF in \in sabPool THEN made ELSE made + 1
                       ELSE (IF in \in sabPool THEN made ELSE made + 1) + 1
            /\ sabPool' = sabPool \ {in, out}
            /\ sabs' = [sabs EXCEPT ![c] = {in, out}]
    BY <1>2 DEF Borrow
  <2>2. PICK out \in (sabPool \ {in}) \cup {(IF in \in sabPool THEN made ELSE made + 1) + 1} :
            /\ made' = IF out \in sabPool THEN IF in \in sabPool THEN made ELSE made + 1
                       ELSE (IF in \in sabPool THEN made ELSE made + 1) + 1
            /\ sabPool' = sabPool \ {in, out}
            /\ sabs' = [sabs EXCEPT ![c] = {in, out}]
    BY <2>1
  <2>3. sabs'[c] = {in, out}
    BY <2>2
  <2>4. /\ made' \in Nat /\ made <= made' /\ in \in 1..made' /\ out \in 1..made'
        /\ in \in sabPool \/ in > made
        /\ out \in sabPool \/ out > made
    BY <2>2
  <2>5. sabs' \in [Calls -> SUBSET (1..made')]
    BY <2>2, <2>4
  <2>6. QED
    BY <2>2, <2>3, <2>4, <2>5
<1>3. QED
  BY <1>1, <1>2

LEMMA StartBuffers ==
    ASSUME Inv, NEW c \in Calls, Start(c)
    PROVE  Buffers' /\ Room' /\ Apart'
<1>0. promise[c] = "uncalled" /\ Borrow(c) /\ promise'[c] # "uncalled"
  BY DEF Start, Inv, Shapes
<1>1. \A d \in Calls : d # c => promise'[d] = promise[d]
  BY DEF Start, Inv, Shapes
<1>2. /\ made' \in Nat /\ made <= made'
      /\ sabs' \in [Calls -> SUBSET (1..made')]
      /\ \A d \in Calls : d # c => sabs'[d] = sabs[d]
      /\ sabs'[c] = {} \/ \E a, b \in 1..made' : sabs'[c] = {a, b}
      /\ sabPool' = sabPool \ sabs'[c]
      /\ \A x \in sabs'[c] : x \in sabPool \/ x > made
  BY <1>0, BorrowFacts
<1>3. made \in Nat /\ 1..made \subseteq 1..made'
  BY <1>2 DEF Inv, Buffers
<1>4. Buffers'
  <2>1. sabPool' \in SUBSET (1..made')
    BY <1>2, <1>3 DEF Inv, Buffers
  <2>2. \A d \in Calls : \/ sabs'[d] = {}
                         \/ \E a, b \in 1..made' : sabs'[d] = {a, b}
    BY <1>2, <1>3 DEF Inv, Buffers
  <2>3. \A d \in Calls : promise'[d] = "uncalled" => sabs'[d] = {}
    BY <1>0, <1>1, <1>2 DEF Inv, Buffers
  <2>4. QED
    BY <1>2, <2>1, <2>2, <2>3 DEF Buffers
<1>5. Room'
  BY <1>2, FS_Subset, FS_CardinalityType, ClientAssumption DEF Inv, Room
<1>6. Apart'
  <2>1. \A d \in Owned' : d = c \/ d \in Owned
    BY <1>1 DEF Owned
  <2>2. c \notin Owned
    BY <1>0 DEF Owned
  <2>3. \A d \in Owned : sabs'[d] \cap sabs'[c] = {} /\ sabs'[d] \cap sabPool' = {}
    <3> SUFFICES ASSUME NEW d \in Owned
                 PROVE sabs'[d] \cap sabs'[c] = {} /\ sabs'[d] \cap sabPool' = {}
      OBVIOUS
    <3>1. d \in Calls /\ d # c /\ sabs'[d] = sabs[d]
      BY <2>2, <1>2 DEF Owned
    <3>2. sabs[d] \cap sabPool = {} /\ sabs[d] \subseteq 1..made
      BY <3>1 DEF Inv, Apart, Buffers
    <3>3. \A x \in sabs[d] : ~(x > made)
      BY <3>2, <1>3
    <3>4. QED
      BY <1>2, <3>1, <3>2, <3>3
  <2>4. \A d \in Owned, e \in Owned : d # e => sabs'[d] \cap sabs'[e] = {}
    BY <1>2, <2>2 DEF Inv, Apart, Owned
  <2>5. QED
    BY <1>2, <2>1, <2>3, <2>4 DEF Apart
<1>7. QED
  BY <1>4, <1>5, <1>6

-----------------------------------------------------------------------------
(* A reply is handled: it answers the call in the entry. *)

Chunked(c, i, v) == [chunk[c] EXCEPT ![i] = v]

LEMMA DeliverFacts ==
    ASSUME Inv, NEW w \in Workers, Deliver(w)
    PROVE  /\ Serves(w) /\ holder[w] \in Calls /\ w[2] \in Chunks(holder[w])
           /\ \E v \in {Done(holder[w]), Failed} :
                /\ Settle(holder[w], Chunked(holder[w], w[2], v))
                /\ v = Done(holder[w]) => <<holder[w], w[2]>> \in computed
<1>1. Serves(w) /\ Answers(w)
  BY DEF Deliver, Inv, Lanes, Lane, Idle, Executes
<1>2. holder[w] \in Calls /\ w[2] \in Chunks(holder[w]) /\ holder[w] # None
  BY <1>1, ClientAssumption DEF Serves
<1> DEFINE c == holder[w]
           r == Head(replies[w])
           v == IF r.ok THEN Done(r.call) ELSE Failed
<1>3. Settle(c, [chunk[c] EXCEPT ![w[2]] = v])
  BY <1>2 DEF Deliver
<1>4. v \in {Done(c), Failed} /\ (v = Done(c) => <<c, w[2]>> \in computed)
  <2>1. r.call = c /\ (r.ok => <<c, w[2]>> \in computed)
    BY <1>1 DEF Answers
  <2>2. Failed # Done(c)
    BY DEF Failed, Done
  <2>3. QED
    BY <2>1, <2>2
<1>5. QED
  BY <1>1, <1>2, <1>3, <1>4 DEF Chunked

(* What handling one reply of call c can do. *)
Waits(c, chunks) ==
    /\ UNCHANGED <<promise, result, sabVars, tainted>>
    /\ promise[c] = "pending" => ~AllOk(chunks) /\ ~AnyFailed(chunks)
Rejects(c) ==
    /\ promise[c] = "pending" /\ promise' = [promise EXCEPT ![c] = "rejected"]
    /\ tainted' = TRUE
    /\ UNCHANGED <<result, sabVars>>
Resolves(c, chunks) ==
    /\ promise[c] = "pending" /\ promise' = [promise EXCEPT ![c] = "resolved"]
    /\ AllOk(chunks)
    /\ result' = [result EXCEPT ![c] = Assembled(c, chunks)]
    /\ sabPool' = Returned(sabs[c])
    /\ UNCHANGED <<sabs, made, tainted>>

LEMMA SettleCases ==
    ASSUME NEW c, NEW chunks, Settle(c, chunks)
    PROVE  /\ chunk' = [chunk EXCEPT ![c] = chunks]
           /\ Waits(c, chunks) \/ Rejects(c) \/ Resolves(c, chunks)
BY DEF Settle, Waits, Rejects, Resolves

LEMMA DeliverShapes ==
    ASSUME Inv, NEW w \in Workers, Deliver(w)
    PROVE  Shapes'
<1> USE DEF Inv, Shapes
<1> DEFINE c == holder[w]
<1>1. PICK v \in {Done(c), Failed} : Settle(c, Chunked(c, w[2], v))
  BY DeliverFacts
<1>2. c \in Calls /\ w[2] \in Chunks(c)
  BY DeliverFacts
<1>3. v \in ChunkStates
  BY <1>2 DEF ChunkStates
<1>4. chunk' = [chunk EXCEPT ![c] = Chunked(c, w[2], v)]
  BY <1>1, SettleCases
<1>5. Chunked(c, w[2], v) \in [Chunks(c) -> ChunkStates]
  BY <1>2, <1>3 DEF Chunked
<1>6. \A d \in Calls : chunk'[d] \in [Chunks(d) -> ChunkStates]
  BY <1>2, <1>4, <1>5
<1>7. chunk' = [d \in Calls |-> chunk'[d]]
  BY <1>4
<1>8. promise' \in [Calls -> Promises]
  <2>1. \A p \in {"rejected", "resolved"} :
           [promise EXCEPT ![c] = p] \in [Calls -> Promises]
    BY <1>2 DEF Promises
  <2>2. QED
    BY <1>1, <2>1, SettleCases DEF Waits, Rejects, Resolves
<1>9. tainted' \in BOOLEAN
  BY <1>1, SettleCases DEF Waits, Rejects, Resolves
<1>10. result' = [d \in Calls |-> result'[d]]
  BY <1>1, SettleCases DEF Waits, Rejects, Resolves
<1>11. gen' = gen /\ thread' = thread /\ executing' = executing
  BY DEF Deliver
<1>12. holder' \in [Workers -> Calls \cup {None}]
  BY DEF Deliver
<1>13. refd' \in [Workers -> BOOLEAN]
  BY Zenon DEF Deliver
<1>14. replies' \in [Workers -> Seq(Messages)]
  BY DEF Deliver
<1>15. QED
  BY <1>6, <1>7, <1>8, <1>9, <1>10, <1>11, <1>12, <1>13, <1>14

LEMMA DeliverCalls ==
    ASSUME Inv, NEW w \in Workers, Deliver(w)
    PROVE  Sole' /\ Progress' /\ OwnResult'
<1> DEFINE c == holder[w]
<1>1. PICK v \in {Done(c), Failed} :
        /\ Settle(c, Chunked(c, w[2], v))
        /\ v = Done(c) => <<c, w[2]>> \in computed
  BY DeliverFacts
<1> DEFINE row == Chunked(c, w[2], v)
<1>2. c \in Calls /\ w[2] \in Chunks(c) /\ computed' = computed
  BY DeliverFacts DEF Deliver
<1>3. chunk[c] \in [Chunks(c) -> ChunkStates]
  BY <1>2 DEF Inv, Shapes
<1>4. /\ chunk'[c] = row
      /\ \A d \in Calls \ {c} : chunk'[d] = chunk[d]
  BY <1>1, <1>2, SettleCases DEF Inv, Shapes
<1>5. row = [chunk[c] EXCEPT ![w[2]] = v] /\ DOMAIN row = Chunks(c)
  BY <1>3 DEF Chunked
<1> HIDE DEF row
<1>6. ASSUME promise[c] = "pending", NEW i \in Chunks(c)
      PROVE  \/ row[i] = Waiting \/ row[i] = Failed
             \/ row[i] = Done(c) /\ <<c, i>> \in computed
  BY <1>1, <1>2, <1>3, <1>5, <1>6 DEF Inv, Progress, Pending
<1>7. CASE Waits(c, row)
  <2>1. Pending' = Pending /\ tainted' = tainted
    BY <1>7 DEF Waits, Pending
  <2>2. promise[c] = "pending" => \A i \in Chunks(c) : row[i] # Failed
    <3>1. Failed.state = "failed"
      BY DEF Failed
    <3>2. QED
      BY <1>5, <1>7, <3>1 DEF Waits, AnyFailed
  <2>3. Progress'
    <3> SUFFICES ASSUME NEW d \in Pending, NEW i \in Chunks(d)
                 PROVE  \/ chunk'[d][i] = Waiting
                        \/ chunk'[d][i] = Done(d) /\ <<d, i>> \in computed'
      BY <2>1 DEF Progress
    <3>1. CASE d = c
      BY <3>1, <1>2, <1>4, <1>6, <2>2 DEF Pending
    <3>2. CASE d # c
      BY <3>2, <1>2, <1>4 DEF Inv, Progress, Pending
    <3>3. QED
      BY <3>1, <3>2
  <2>4. Sole' /\ OwnResult'
    BY <2>1, <1>7 DEF Waits, Inv, Sole, OwnResult
  <2>5. QED
    BY <2>3, <2>4
<1>8. CASE Rejects(c)
  <2>1. Pending' = {}
    BY <1>2, <1>8 DEF Rejects, Pending, Inv, Shapes, Sole
  <2>2. OwnResult'
    BY <1>8 DEF Rejects, Inv, OwnResult, Shapes
  <2>3. QED
    BY <2>1, <2>2 DEF Sole, Progress
<1>9. CASE Resolves(c, row)
  <2>1. Pending' = {}
    BY <1>2, <1>9 DEF Resolves, Pending, Inv, Shapes, Sole
  <2>2. \A i \in Chunks(c) : row[i] = Done(c) /\ <<c, i>> \in computed
    <3>1. Waiting.state # "ok" /\ Failed.state # "ok"
      BY DEF Waiting, Failed
    <3>2. QED
      BY <1>5, <1>6, <1>9, <3>1 DEF Resolves, AllOk
  <2>3. \A i \in Chunks(c) : Assembled(c, row)[i] = c
    BY <2>2 DEF Assembled, Done
  <2>4. result'[c] = Assembled(c, row) /\ \A d \in Calls \ {c} : result'[d] = result[d]
    BY <1>2, <1>9 DEF Resolves, Inv, Shapes
  <2>5. \A d \in Calls \ {c} : promise'[d] = promise[d]
    BY <1>9 DEF Resolves, Inv, Shapes
  <2>6. OwnResult'
    BY <2>3, <2>4, <2>5 DEF Inv, OwnResult
  <2>7. QED
    BY <2>1, <2>6 DEF Sole, Progress
<1>10. QED
  BY <1>1, <1>7, <1>8, <1>9, SettleCases DEF row


LEMMA DeliverLanes ==
    ASSUME Inv, NEW w \in Workers, Deliver(w)
    PROVE  Lanes'
<1> DEFINE c == holder[w]
<1>1. PICK v \in {Done(c), Failed} : Settle(c, Chunked(c, w[2], v))
  BY DeliverFacts
<1> DEFINE row == Chunked(c, w[2], v)
<1>2. c \in Calls /\ w[2] \in Chunks(c) /\ w[1] = gen /\ gen' = gen
  BY DeliverFacts DEF Deliver
<1>3. /\ row = [chunk[c] EXCEPT ![w[2]] = v] /\ DOMAIN chunk[c] = Chunks(c)
      /\ DOMAIN row = Chunks(c)
      /\ chunk'[c] = row
      /\ \A d \in Calls \ {c} : chunk'[d] = chunk[d]
  BY <1>1, <1>2, SettleCases DEF Inv, Shapes, Chunked
<1> HIDE DEF row
<1>4. ASSUME promise[c] = "pending"
      PROVE  tainted = FALSE /\ \A d \in Pending : d = c
  BY <1>2, <1>4 DEF Inv, Shapes, Sole, Pending
<1>5. SUFFICES ASSUME NEW u \in Workers
      PROVE  /\ u[1] > gen => Idle(u)'
             /\ u[1] = gen => Lane(u)'
             /\ u[1] < gen => \A d \in executing'[u] : promise'[d] = "rejected"
  BY <1>2 DEF Lanes
<1>6. u[1] \in Nat /\ gen \in Nat /\ u = <<u[1], u[2]>> /\ w = <<w[1], w[2]>>
  BY WorkerPairs DEF Inv, Shapes
<1>7. CASE u = w
  <2>1. Answers(w)
    BY DEF Deliver, Inv, Lanes, Lane, Idle, Executes
  <2>2. executing'[w] = {} /\ replies'[w] = <<>>
    BY <2>1 DEF Answers, Deliver, Inv, Shapes
  <2>3. QED
    BY <1>7, <2>2, <1>2, <1>6 DEF Lane, Idle
<1>8. CASE u # w
  <2>1. /\ executing'[u] = executing[u] /\ replies'[u] = replies[u] /\ computed' = computed
        /\ holder'[u] = holder[u] /\ refd'[u] = refd[u]
    BY <1>8 DEF Deliver, Inv, Shapes
  <2>2. u[1] > gen => Idle(u)'
    BY <2>1 DEF Inv, Lanes, Idle
  <2>3. ASSUME u[1] < gen, NEW d \in executing'[u] PROVE promise'[d] = "rejected"
    <3>1. promise[d] = "rejected" /\ d \in Calls
      BY <2>1, <2>3 DEF Inv, Lanes, Shapes
    <3>2. promise[c] = "pending" => d # c
      BY <3>1
    <3>3. QED
      BY ZenonT(60), <3>1, <3>2, <1>1, SettleCases DEF Waits, Rejects, Resolves, Inv, Shapes, row
  <2>4. ASSUME u[1] = gen PROVE Lane(u)'
    <3>1. CASE Idle(u)
      BY <3>1, <2>1 DEF Lane, Idle
    <3>2. CASE Serves(u) /\ (Executes(u) \/ Answers(u))
      <4>1. /\ holder[u] \in Calls /\ u[2] \in Chunks(holder[u])
            /\ promise[holder[u]] = IF tainted THEN "rejected" ELSE "pending"
            /\ ~tainted => chunk[holder[u]][u[2]] = Waiting
        BY <3>2 DEF Serves
      <4>2. u[2] # w[2]
        BY <1>2, <1>6, <1>8, <2>4
      <4>3. chunk'[holder[u]][u[2]] = chunk[holder[u]][u[2]]
        BY <1>2, <1>3, <4>1, <4>2
      <4>4. Serves(u)'
        <5>1. CASE Waits(c, row)
          BY <5>1, <2>1, <4>1, <4>3 DEF Waits, Serves
        <5>2. CASE Rejects(c)
          <6>1. holder[u] = c
            BY <1>4, <4>1, <5>2 DEF Rejects, Pending
          <6>2. promise'[c] = "rejected" /\ tainted' = TRUE
            BY <1>2, <5>2 DEF Rejects, Inv, Shapes
          <6>3. QED
            BY <2>1, <4>1, <6>1, <6>2 DEF Serves
        <5>3. CASE Resolves(c, row)
          <6>1. holder[u] = c /\ ~tainted
            BY <1>4, <4>1, <5>3 DEF Resolves, Pending
          <6>2. row[u[2]] = Waiting
            BY <1>2, <1>3, <4>1, <4>2, <6>1
          <6>3. Waiting.state # "ok"
            BY DEF Waiting
          <6>4. QED
            BY <1>3, <4>1, <5>3, <6>1, <6>2, <6>3 DEF Resolves, AllOk
        <5>4. QED
          BY <1>1, <5>1, <5>2, <5>3, SettleCases DEF row
      <4>5. Executes(u)' \/ Answers(u)'
        BY <2>1, <3>2 DEF Executes, Answers
      <4>6. QED
        BY <4>4, <4>5 DEF Lane
    <3>3. QED
      BY <2>4, <3>1, <3>2 DEF Inv, Lanes, Lane
  <2>5. QED
    BY <2>2, <2>3, <2>4
<1>9. QED
  BY <1>7, <1>8

(* Two buffers at most go back, and no more than the free list has room for. *)
LEMMA ReturnedFacts ==
    ASSUME Inv, NEW c \in Calls
    PROVE  /\ sabPool \subseteq Returned(sabs[c]) /\ Returned(sabs[c]) \subseteq sabPool \cup sabs[c]
           /\ IsFiniteSet(Returned(sabs[c])) /\ Cardinality(Returned(sabs[c])) <= SabPoolMax
<1> DEFINE S == sabs[c]
           room == SabPoolMax - Cardinality(sabPool)
<1>1. IsFiniteSet(sabPool) /\ Cardinality(sabPool) \in Nat /\ room \in Nat
  BY FS_CardinalityType, ClientAssumption DEF Inv, Room
<1>2. \A T : IsFiniteSet(T) /\ Cardinality(T) <= room =>
         IsFiniteSet(sabPool \cup T) /\ Cardinality(sabPool \cup T) <= SabPoolMax
  <2> SUFFICES ASSUME NEW T, IsFiniteSet(T), Cardinality(T) <= room
               PROVE  IsFiniteSet(sabPool \cup T) /\ Cardinality(sabPool \cup T) <= SabPoolMax
    OBVIOUS
  <2>1. Cardinality(sabPool \cup T) =
          Cardinality(sabPool) + Cardinality(T) - Cardinality(sabPool \cap T)
    BY <1>1, FS_Union
  <2>2. IsFiniteSet(sabPool \cup T)
    BY <1>1, FS_Union
  <2>3. Cardinality(sabPool \cap T) \in Nat /\ Cardinality(T) \in Nat
    BY <1>1, FS_CardinalityType, FS_Subset
  <2>4. QED
    BY <1>1, <2>1, <2>2, <2>3, ClientAssumption
<1>3. \A a : IsFiniteSet({a}) /\ Cardinality({a}) = 1
  BY FS_Singleton
<1>4. IsFiniteSet({}) /\ Cardinality({}) = 0
  BY FS_EmptySet
<1>5. IsFiniteSet(S) /\ Cardinality(S) \in 0..2
  <2>1. CASE S = {}
    BY <2>1, <1>4
  <2>2. CASE \E a, b : S = {a, b}
    <3>1. PICK a, b : S = {a, b}
      BY <2>2
    <3>2. S = {a} \cup {b}
      BY <3>1
    <3>3. CASE a = b
      <4>1. S = {a}
        BY <3>1, <3>3
      <4>2. IsFiniteSet(S) /\ Cardinality(S) = 1
        BY <4>1, <1>3
      <4>3. QED
        BY <4>2
    <3>4. CASE a # b
      <4>1. Cardinality({a} \cup {b}) = Cardinality({a}) + 1 /\ IsFiniteSet({a} \cup {b})
        BY <1>3, <3>4, FS_AddElement
      <4>2. IsFiniteSet(S) /\ Cardinality(S) = 2
        BY <3>2, <4>1, <1>3
      <4>3. QED
        BY <4>2
    <3>5. QED
      BY <3>3, <3>4
  <2>3. QED
    BY <2>1, <2>2 DEF Inv, Buffers
<1>6. CASE Cardinality(S) <= room
  BY <1>2, <1>5, <1>6 DEF Returned
<1>7. CASE ~(Cardinality(S) <= room)
  <2>1. \E T \in SUBSET S : Cardinality(T) = room
    <3>1. room = 0 \/ room = 1
      BY <1>1, <1>5, <1>7
    <3>2. S # {}
      BY <1>1, <1>4, <1>7
    <3>3. PICK a : a \in S
      BY <3>2
    <3>4. QED
      BY <3>1, <3>3, <1>3, <1>4
  <2>2. PICK T \in SUBSET S : Returned(S) = sabPool \cup T /\ Cardinality(T) = room
    BY <1>7, <2>1 DEF Returned
  <2>3. IsFiniteSet(T)
    BY <1>5, FS_Subset
  <2>4. QED
    BY <1>1, <1>2, <2>2, <2>3
<1>8. QED
  BY <1>6, <1>7

LEMMA DeliverBuffers ==
    ASSUME Inv, NEW w \in Workers, Deliver(w)
    PROVE  Buffers' /\ Room' /\ Apart'
<1> DEFINE c == holder[w]
<1>1. PICK v \in {Done(c), Failed} : Settle(c, Chunked(c, w[2], v))
  BY DeliverFacts
<1> DEFINE row == Chunked(c, w[2], v)
<1>2. c \in Calls
  BY DeliverFacts
<1>3. sabs' = sabs /\ made' = made
  BY <1>1, SettleCases DEF Waits, Rejects, Resolves, sabVars
<1>4. \A d \in Calls : promise'[d] = "uncalled" => promise[d] = "uncalled"
  BY ZenonT(60), <1>1, <1>2, SettleCases DEF Waits, Rejects, Resolves, Inv, Shapes
<1>5. Owned' \subseteq Owned
  BY ZenonT(60), <1>1, <1>2, SettleCases DEF Waits, Rejects, Resolves, Inv, Shapes, Owned
<1>6. CASE sabPool' = sabPool
  BY <1>3, <1>4, <1>5, <1>6 DEF Inv, Buffers, Room, Apart
<1>7. CASE Resolves(c, row)
  <2>1. Owned' \subseteq Owned \ {c} /\ c \in Owned
    BY <1>2, <1>7 DEF Resolves, Inv, Shapes, Owned
  <2>2. sabPool' = Returned(sabs[c])
    BY <1>7 DEF Resolves
  <2>3. Room' /\ sabPool' \subseteq sabPool \cup sabs[c]
    BY <1>2, <2>2, ReturnedFacts DEF Room
  <2>4. Buffers'
    BY <1>2, <1>3, <1>4, <2>3 DEF Inv, Buffers
  <2>5. Apart'
    BY <1>3, <2>1, <2>3 DEF Inv, Apart
  <2>6. QED
    BY <2>3, <2>4, <2>5
<1>8. QED
  BY <1>1, <1>6, <1>7, SettleCases DEF Waits, Rejects, sabVars


-----------------------------------------------------------------------------
(* A worker finishes a chunk, or dies of one. *)

LEMMA ReplyLanes ==
    ASSUME Inv, NEW w \in Workers, NEW d \in executing[w], NEW ok \in BOOLEAN,
           executing'[w] \subseteq executing[w] \ {d},
           replies' = [replies EXCEPT ![w] = Append(@, [call |-> d, ok |-> ok])],
           \A u \in Workers \ {w} : executing'[u] = executing[u],
           computed \subseteq computed', ok => <<d, w[2]>> \in computed',
           UNCHANGED <<gen, tainted, holder, refd, chunk, promise>>
    PROVE  Lanes'
<1>1. SUFFICES ASSUME NEW u \in Workers
      PROVE  /\ u[1] > gen => Idle(u)'
             /\ u[1] = gen => Lane(u)'
             /\ u[1] < gen => \A e \in executing'[u] : promise'[e] = "rejected"
  BY DEF Lanes
<1>2. u[1] \in Nat /\ gen \in Nat
  BY WorkerPairs DEF Inv, Shapes
<1>3. CASE u # w
  <2>1. executing'[u] = executing[u] /\ replies'[u] = replies[u]
    BY <1>3 DEF Inv, Shapes
  <2>2. Idle(u) => Idle(u)'
    BY <2>1 DEF Idle
  <2>3. Serves(u) => Serves(u)'
    BY DEF Serves
  <2>4. (Executes(u) => Executes(u)') /\ (Answers(u) => Answers(u)')
    BY <2>1 DEF Executes, Answers
  <2>5. Lane(u) => Lane(u)'
    BY <2>2, <2>3, <2>4 DEF Lane
  <2>6. QED
    BY <2>1, <2>2, <2>5 DEF Inv, Lanes
<1>4. CASE u = w
  <2>1. ~(u[1] > gen)
    BY <1>4 DEF Inv, Lanes, Idle
  <2>2. ASSUME u[1] = gen PROVE Lane(u)'
    <3>1. Serves(w) /\ Executes(w)
      BY <1>4, <2>2 DEF Inv, Lanes, Lane, Idle, Answers
    <3>2. d = holder[w] /\ executing'[w] = {} /\ replies[w] = <<>>
      BY <3>1 DEF Executes
    <3>3. replies'[w] = <<[call |-> d, ok |-> ok]>>
      <4>1. replies'[w] = Append(replies[w], [call |-> d, ok |-> ok])
        BY DEF Inv, Shapes
      <4>2. QED
        BY <3>2, <4>1
    <3>4. Answers(w)'
      BY <3>2, <3>3 DEF Answers
    <3>5. Serves(w)'
      BY <3>1 DEF Serves
    <3>6. QED
      BY <1>4, <3>4, <3>5 DEF Lane
  <2>3. u[1] < gen => \A e \in executing'[u] : promise'[e] = "rejected"
    BY <1>4 DEF Inv, Lanes
  <2>4. QED
    BY <1>2, <2>1, <2>2, <2>3
<1>5. QED
  BY <1>3, <1>4

LEMMA FinishesInv ==
    ASSUME Inv, NEW w \in Workers, NEW d \in Calls, Finishes(w, d)
    PROVE  Inv'
<1>1. PICK ok \in BOOLEAN :
        /\ computed' = IF ok THEN computed \cup {<<d, w[2]>>} ELSE computed
        /\ replies' = [replies EXCEPT ![w] = Append(@, [call |-> d, ok |-> ok])]
  BY DEF Finishes
<1>2. /\ d \in executing[w] /\ executing' = [executing EXCEPT ![w] = @ \ {d}]
      /\ UNCHANGED <<poolVars, holder, refd, thread, chunk, promise, result, sabVars>>
  BY DEF Finishes
<1>3. Shapes'
  <2>1. [call |-> d, ok |-> ok] \in Messages
    BY DEF Messages
  <2>2. replies' \in [Workers -> Seq(Messages)]
    BY <1>1, <2>1 DEF Inv, Shapes
  <2>3. executing' \in [Workers -> SUBSET Calls]
    BY <1>2 DEF Inv, Shapes
  <2>4. QED
    BY <1>2, <2>2, <2>3 DEF Inv, Shapes, poolVars
<1>4. Lanes'
  BY <1>1, <1>2, ReplyLanes DEF Inv, Shapes, poolVars
<1>5. Sole' /\ Progress' /\ OwnResult'
  BY <1>1, <1>2 DEF Inv, Sole, Progress, OwnResult, Pending, poolVars
<1>6. Buffers' /\ Room' /\ Apart'
  BY <1>2 DEF Inv, Buffers, Room, Apart, Owned, sabVars
<1>7. QED
  BY <1>3, <1>4, <1>5, <1>6 DEF Inv

LEMMA DiesInv ==
    ASSUME Inv, NEW w \in Workers, NEW d \in Calls, Dies(w, d)
    PROVE  Inv'
<1>1. /\ d \in executing[w] /\ executing' = [executing EXCEPT ![w] = {}]
      /\ thread' = [thread EXCEPT ![w] = "died"]
      /\ replies' = [replies EXCEPT ![w] = Append(@, [call |-> d, ok |-> FALSE])]
      /\ UNCHANGED <<poolVars, holder, refd, computed, chunk, promise, result, sabVars>>
  BY DEF Dies
<1>2. Shapes'
  <2>1. [call |-> d, ok |-> FALSE] \in Messages
    BY DEF Messages
  <2>2. replies' \in [Workers -> Seq(Messages)]
    BY <1>1, <2>1 DEF Inv, Shapes
  <2>3. /\ executing' \in [Workers -> SUBSET Calls]
        /\ thread' \in [Workers -> {"running", "died", "closed"}]
    BY <1>1 DEF Inv, Shapes
  <2>4. QED
    BY <1>1, <2>2, <2>3 DEF Inv, Shapes, poolVars
<1>3. Lanes'
  <2>1. /\ executing'[w] = {}
        /\ \A u \in Workers \ {w} : executing'[u] = executing[u]
    BY <1>1 DEF Inv, Shapes
  <2>2. QED
    BY <1>1, <2>1, ReplyLanes DEF poolVars
<1>4. Sole' /\ Progress' /\ OwnResult'
  BY <1>1 DEF Inv, Sole, Progress, OwnResult, Pending, poolVars
<1>5. Buffers' /\ Room' /\ Apart'
  BY <1>1 DEF Inv, Buffers, Room, Apart, Owned, sabVars
<1>6. QED
  BY <1>2, <1>3, <1>4, <1>5 DEF Inv

-----------------------------------------------------------------------------
(* The pool is disposed of: what its workers still execute has been        *)
(* rejected, because no call is pending.                                   *)
LEMMA DisposeInv ==
    ASSUME Inv, DisposeWorkers
    PROVE  Inv'
<1>1. /\ Pending = {} /\ gen < MaxGens /\ gen' = gen + 1 /\ tainted' = FALSE
      /\ UNCHANGED <<holder, refd, workerVars, chunk, promise, result, sabVars>>
  BY DEF Inv, DisposeWorkers
<1>2. gen \in Nat /\ gen' \in 1..MaxGens
  BY <1>1, ClientAssumption DEF Inv, Shapes
<1>3. Shapes'
  BY <1>1, <1>2 DEF Inv, Shapes, workerVars
<1>4. Lanes'
  <2> SUFFICES ASSUME NEW u \in Workers
      PROVE  /\ u[1] > gen' => Idle(u)'
             /\ u[1] = gen' => Lane(u)'
             /\ u[1] < gen' => \A e \in executing'[u] : promise'[e] = "rejected"
    BY DEF Lanes
  <2>1. u[1] \in Nat
    BY WorkerPairs
  <2>2. u[1] > gen => Idle(u)'
    BY <1>1 DEF Inv, Lanes, Idle, workerVars
  <2>3. u[1] < gen => \A e \in executing'[u] : promise'[e] = "rejected"
    BY <1>1 DEF Inv, Lanes, workerVars
  <2>4. ASSUME u[1] = gen, NEW e \in executing'[u] PROVE promise'[e] = "rejected"
    <3>1. Serves(u) /\ Executes(u)
      BY <1>1, <2>4 DEF Inv, Lanes, Lane, Idle, Answers, workerVars
    <3>2. e = holder[u] /\ holder[u] \in Calls
      BY <1>1, <2>4, <3>1 DEF Executes, Serves, workerVars
    <3>3. promise[e] # "pending"
      BY <1>1, <3>2 DEF Pending
    <3>4. QED
      BY <1>1, <3>1, <3>2, <3>3 DEF Serves
  <2>5. QED
    BY <1>1, <1>2, <2>1, <2>2, <2>3, <2>4 DEF Lane
<1>5. Sole' /\ Progress' /\ OwnResult'
  BY <1>1 DEF Inv, Sole, Progress, OwnResult, Pending
<1>6. Buffers' /\ Room' /\ Apart'
  BY <1>1 DEF Inv, Buffers, Room, Apart, Owned, sabVars
<1>7. QED
  BY <1>3, <1>4, <1>5, <1>6 DEF Inv

LEMMA NextInv == Inv /\ [Next]_vars => Inv'
<1> SUFFICES ASSUME Inv, [Next]_vars PROVE Inv'
  OBVIOUS
<1>0. Client = "careful"
  BY DEF Inv
<1>1. ASSUME NEW c \in Calls, Start(c) PROVE Inv'
  BY <1>0, <1>1, StartShapes, StartLanes, StartCalls, StartBuffers DEF Inv
<1>2. ASSUME NEW w \in Workers, Deliver(w) PROVE Inv'
  BY <1>0, <1>2, DeliverShapes, DeliverLanes, DeliverCalls, DeliverBuffers DEF Inv
<1>3. ASSUME NEW w \in Workers, Closes(w) PROVE Inv'
  <2>1. Shapes'
    BY <1>3 DEF Closes, Inv, Shapes, poolVars
  <2>2. Lanes'
    BY <1>3 DEF Closes, Inv, Lanes, Lane, Idle, Serves, Executes, Answers, poolVars
  <2>3. Sole' /\ Progress' /\ OwnResult'
    BY <1>3 DEF Closes, Inv, Sole, Progress, OwnResult, Pending, poolVars
  <2>4. Buffers' /\ Room' /\ Apart'
    BY <1>3 DEF Closes, Inv, Buffers, Room, Apart, Owned, sabVars
  <2>5. QED
    BY <1>0, <2>1, <2>2, <2>3, <2>4 DEF Inv
<1>4. ASSUME NEW w \in Workers, NEW c \in Calls, Finishes(w, c) \/ Dies(w, c) PROVE Inv'
  BY <1>4, FinishesInv, DiesInv
<1>5. CASE DisposeWorkers
  BY <1>5, DisposeInv
<1>6. CASE UNCHANGED vars
  <2> USE <1>6 DEF vars, poolVars, workerVars, sabVars
  <2>1. Shapes'
    BY DEF Inv, Shapes
  <2>2. Lanes'
    BY DEF Inv, Lanes, Lane, Idle, Serves, Executes, Answers
  <2>3. Sole' /\ Progress' /\ OwnResult'
    BY DEF Inv, Sole, Progress, OwnResult, Pending
  <2>4. Buffers' /\ Room' /\ Apart'
    BY DEF Inv, Buffers, Room, Apart, Owned
  <2>5. QED
    BY <1>0, <2>1, <2>2, <2>3, <2>4 DEF Inv
<1>7. QED
  BY <1>1, <1>2, <1>3, <1>4, <1>5, <1>6 DEF Next

LEMMA InvCorrect == Client = "careful" /\ Spec => []Inv
<1>1. QED
  BY InitInv, NextInv, PTL DEF Spec

-----------------------------------------------------------------------------
(* Whatever the chunks, and whichever workers throw, die or close, a pmap  *)
(* that resolves holds the output of its own function on every chunk.      *)
THEOREM ResultsAreOwn == Client = "careful" /\ Spec => []OwnResult
<1>1. Inv => OwnResult
  BY DEF Inv
<1>2. QED
  BY <1>1, InvCorrect, PTL

(* A buffer that some worker may still write to, one of a terminated pool  *)
(* included, is neither in the free list nor lent to another call.         *)
THEOREM BuffersAreApart == Client = "careful" /\ Spec => []SabExclusive
<1>1. Inv => SabExclusive
  <2> SUFFICES ASSUME Inv, NEW w \in Workers, NEW c \in executing[w]
               PROVE  sabs[c] \cap (sabPool \cup UNION {sabs[d] : d \in Pending \ {c}}) = {}
    BY DEF SabExclusive
  <2>1. c \in Calls
    BY DEF Inv, Shapes
  <2>2. promise[c] \in {"pending", "rejected"}
    <3>1. w[1] \in Nat /\ gen \in Nat
      BY WorkerPairs DEF Inv, Shapes
    <3>2. CASE w[1] < gen
      BY <3>2 DEF Inv, Lanes
    <3>3. CASE w[1] = gen
      BY ZenonT(60), <3>3 DEF Inv, Lanes, Lane, Idle, Serves, Executes, Answers
    <3>4. CASE w[1] > gen
      BY <3>4 DEF Inv, Lanes, Idle
    <3>5. QED
      BY <3>1, <3>2, <3>3, <3>4
  <2>3. c \in Owned /\ Pending \subseteq Owned
    BY <2>1, <2>2 DEF Owned, Pending
  <2>4. sabs[c] \cap sabPool = {} /\ \A d \in Pending \ {c} : sabs[c] \cap sabs[d] = {}
    BY <2>3 DEF Inv, Apart
  <2>5. QED
    BY <2>4
<1>2. QED
  BY <1>1, InvCorrect, PTL

(* The process cannot exit while a worker of the pool holds a chunk.       *)
THEOREM WorkersAreRefed == Client = "careful" /\ Spec => []InFlightIsRefed
<1>1. Inv => InFlightIsRefed
  BY DEF Inv, Lanes, Lane, Idle, Executes, Answers, InFlightIsRefed
<1>2. QED
  BY <1>1, InvCorrect, PTL

(* Two pmaps awaited one after the other are a barrier: the second starts  *)
(* on workers that have nothing left of the first.                         *)
THEOREM AwaitedIsBarrier == Client = "careful" /\ Spec => AwaitIsBarrier
<1> DEFINE Barrier == \A c \in Calls :
        promise[c] = "uncalled" /\ promise'[c] # "uncalled" =>
            \A w \in Mine(c) : executing[w] = {} /\ replies[w] = <<>>
<1>1. ASSUME Inv, [Next]_vars PROVE Barrier
  <2> USE <1>1
  <2> SUFFICES ASSUME NEW c \in Calls, promise[c] = "uncalled", promise'[c] # "uncalled",
                      NEW w \in Mine(c)
               PROVE  executing[w] = {} /\ replies[w] = <<>>
    OBVIOUS
  <2>1. ASSUME NEW u \in Workers, Deliver(u) PROVE FALSE
    <3>1. \E v \in {Done(holder[u]), Failed} : Settle(holder[u], Chunked(holder[u], u[2], v))
      BY <2>1, DeliverFacts
    <3>2. QED
      BY ZenonT(60), <3>1, SettleCases DEF Waits, Rejects, Resolves, Inv, Shapes
  <2>2. PICK d \in Calls : Start(d)
    BY <2>1 DEF Next, Closes, Finishes, Dies, DisposeWorkers, vars
  <2>3. d = c
    BY <2>2 DEF Start, Inv, Shapes
  <2>4. w \in Workers /\ w[1] = gen
    BY MineAreWorkers DEF Inv, Shapes
  <2>5. QED
    BY <2>2, <2>3, <2>4, StartsOnIdle DEF Idle
<1>2. Inv /\ [Next]_vars => [Barrier]_vars
  BY <1>1
<1>3. Client = "careful" /\ Spec => [][Barrier]_vars
  BY <1>2, InvCorrect, PTL DEF Spec
<1>4. QED
  BY <1>3 DEF AwaitIsBarrier

=============================================================================
