-------------------------------- MODULE Psort --------------------------------
(***************************************************************************)
(* psort() of @lyku/para-parallel, src/js/bun/parallel.ts: the LSD radix   *)
(* sort of typed arrays, with its histogram and scatter phases fanned out  *)
(* over workers that share four buffers, and the two comparator sorts of   *)
(* plain arrays, chunk-and-merge and sample sort.                          *)
(*                                                                         *)
(* A run is one call: the strategy, the number of workers and the input    *)
(* are chosen in Init.  Workers proceed in any order; a scatter is one     *)
(* step per element, because the workers write the same output buffer.     *)
(* With one worker the main thread sorts alone.                            *)
(*                                                                         *)
(* Scaled: a digit has Base values instead of 256, a key Digits digits     *)
(* instead of 1 to 8, a sample Oversample elements per worker instead of   *)
(* 16; the size thresholds that choose the serial sorts are dropped.       *)
(* Worker failures belong to PmapPool.                                     *)
(***************************************************************************)
EXTENDS Integers, Sequences, FiniteSets, SequencesExt

CONSTANTS
    MaxWorkers,   \* largest concurrency
    MaxLength,    \* longest input
    SortKeys,     \* what the comparator looks at
    Base, Digits, \* shape of a radix key
    Oversample

ASSUME SizesAssumption ==
    /\ MaxWorkers \in Nat \ {0} /\ MaxLength \in Nat /\ SortKeys \subseteq Int
    /\ Base \in Nat \ {0, 1} /\ Digits \in Nat \ {0} /\ Oversample \in Nat \ {0}

VARIABLES
    strategy,  \* "merge", "sample", or the radix kind "u32", "i32", "f32"
    P,         \* concurrency
    input,
    phase,     \* what the main thread awaits
    replied,   \* the workers whose promise of this round has resolved
    pass,      \* radix: the digit being sorted
    inBuf, outBuf,  \* radix: inSab and outSab
    hist, offs,     \* radix: histSab and the workers' next slots
    taken,     \* radix: worker |-> elements of its chunk scattered
    parts,     \* what the workers returned
    heap,      \* kWayMerge's heap
    result

vars == <<strategy, P, input, phase, replied, pass, inBuf, outBuf, hist, offs,
          taken, parts, heap, result>>
radixVars == <<pass, inBuf, outBuf, hist, offs, taken>>
callVars == <<strategy, P, input>>

Kinds == {"u32", "i32", "f32"}
Procs == 0 .. P - 1
Buckets == 0 .. Base - 1
N == Len(input)

-----------------------------------------------------------------------------
(* Chunks: ceil(N / P) elements each, the last ones shorter or empty. *)

ChunkSize == (N + P - 1) \div P
Lo(w) == w * ChunkSize + 1
Hi(w) == IF Lo(w) + ChunkSize - 1 < N THEN Lo(w) + ChunkSize - 1 ELSE N
Count(w) == Hi(w) - Lo(w) + 1
(* The comparator sorts stop handing out chunks at the end of the array. *)
Busy == {w \in Procs : Lo(w) <= N}

-----------------------------------------------------------------------------
(* Radix keys: bit patterns whose unsigned order is the order of values.   *)

Width == Base ^ Digits
Half == Width \div 2
FlipSign(u) == (u + Half) % Width
Invert(u) == Width - 1 - u
ToKey(u) == CASE strategy = "u32" -> u
              [] strategy = "i32" -> FlipSign(u)
              [] strategy = "f32" -> IF u < Half THEN FlipSign(u) ELSE Invert(u)
FromKey(k) == CASE strategy = "u32" -> k
                [] strategy = "i32" -> FlipSign(k)
                [] strategy = "f32" -> IF k < Half THEN Invert(k) ELSE FlipSign(k)
DigitAt(k, p) == (k \div Base ^ p) % Base
Digit(k) == DigitAt(k, pass)

(* One pass of the serial sorts: counting sort by digit p. *)
SlotOf(s, p, i) ==
    1 + Cardinality({j \in DOMAIN s :
            \/ DigitAt(s[j], p) < DigitAt(s[i], p)
            \/ DigitAt(s[j], p) = DigitAt(s[i], p) /\ j < i})
SerialPass(s, p) ==
    [slot \in DOMAIN s |-> s[CHOOSE i \in DOMAIN s : SlotOf(s, p, i) = slot]]

-----------------------------------------------------------------------------
(* Comparator sorts.  Items carry their position, so that a stable order   *)
(* is a total one; the comparator sees the key only.                       *)

Item(i) == [key |-> input[i], at |-> i]
Chunk(w) == [j \in 1 .. Count(w) |-> Item(Lo(w) + j - 1)]
Precedes(x, y) == x.key < y.key \/ (x.key = y.key /\ x.at < y.at)
(* Array.prototype.sort, which is stable. *)
NativeSort(s) ==
    [i \in DOMAIN s |-> CHOOSE x \in ToSet(s) :
        Cardinality({y \in ToSet(s) : Precedes(y, x)}) = i - 1]

(* bucketize: the binary search for the first splitter above x. *)
BucketOf(x, splitters) == Cardinality({i \in DOMAIN splitters :
                                          splitters[i].key <= x.key})
SampleCount == IF N < P * Oversample THEN N ELSE P * Oversample
Splitters ==
    LET samples == NativeSort([i \in 1 .. SampleCount |->
                                  Item(((i - 1) * N) \div SampleCount + 1)])
    IN [i \in 1 .. P - 1 |-> samples[(i * SampleCount) \div P + 1]]
Bucketized(w) ==
    [b \in Procs |-> SelectSeq(Chunk(w), LAMBDA x : BucketOf(x, Splitters) = b)]
Concat(f) == FlattenSeq([i \in 1 .. Cardinality(DOMAIN f) |-> f[i - 1]])

(* Mutant: ties are left to the shape of the heap. *)
MutLess(a, b) == a.v.key < b.v.key
(* A tie goes to the chunk that comes first in the input. *)
Less(a, b) == a.v.key < b.v.key \/ (a.v.key = b.v.key /\ a.chunk < b.chunk)
Swap(s, i, j) == [s EXCEPT ![i] = s[j], ![j] = s[i]]
RECURSIVE SiftDown(_, _)
SiftDown(h, i) ==
    LET kids == {j \in {2 * i, 2 * i + 1} : j <= Len(h) /\ Less(h[j], h[i])}
    IN IF kids = {} THEN h
       ELSE LET least == CHOOSE j \in kids : \A k \in kids : ~Less(h[k], h[j])
            IN SiftDown(Swap(h, i, least), least)
RECURSIVE Heapify(_, _)
Heapify(h, i) == IF i = 0 THEN h ELSE Heapify(SiftDown(h, i), i - 1)
Entry(c, pos) == [v |-> parts[c][pos], chunk |-> c, pos |-> pos]

-----------------------------------------------------------------------------
Inputs(S) == UNION {[1 .. n -> S] : n \in 2 .. MaxLength}

(* No worker's share ends before it starts: the thresholds keep P far      *)
(* below the square root of N.                                             *)
Splits == (P - 1) * ChunkSize <= N

Init ==
    /\ strategy \in Kinds \cup {"merge", "sample"}
    /\ input \in IF strategy \in Kinds THEN Inputs(0 .. Width - 1)
                 ELSE Inputs(SortKeys)
    /\ P \in 1 .. MaxWorkers
    /\ P <= N /\ (strategy \in Kinds => Splits)
    /\ phase = "called" /\ replied = {}
    /\ pass = 0 /\ inBuf = <<>> /\ outBuf = <<>>
    /\ hist = <<>> /\ offs = <<>> /\ taken = <<>>
    /\ parts = <<>> /\ heap = <<>> /\ result = <<>>

-----------------------------------------------------------------------------
(* radixSortTyped, and the comparator sort of the main thread *)

SerialRadix ==
    /\ phase = "called" /\ strategy \in Kinds /\ P = 1
    /\ LET keys == [i \in 1 .. N |-> ToKey(input[i])]
           passes[p \in 0 .. Digits] ==
               IF p = 0 THEN keys ELSE SerialPass(passes[p - 1], p - 1)
       IN result' = [i \in 1 .. N |-> FromKey(passes[Digits][i])]
    /\ phase' = "done"
    /\ UNCHANGED <<callVars, replied, radixVars, parts, heap>>

SerialNative ==
    /\ phase = "called" /\ strategy \notin Kinds /\ P = 1
    /\ result' = NativeSort([i \in 1 .. N |-> Item(i)])
    /\ phase' = "done"
    /\ UNCHANGED <<callVars, replied, radixVars, parts, heap>>

-----------------------------------------------------------------------------
(* parallelRadixSortU32 *)

Zeroed == [w \in Procs |-> [b \in Buckets |-> 0]]
StartRadix ==
    /\ phase = "called" /\ strategy \in Kinds /\ P > 1
    /\ inBuf' = [i \in 1 .. N |-> ToKey(input[i])]
    /\ outBuf' = [i \in 1 .. N |-> 0]
    /\ hist' = Zeroed
    /\ phase' = "histogram"
    /\ UNCHANGED <<callVars, replied, pass, offs, taken, parts, heap, result>>

Counted(w, b) == Cardinality({i \in Lo(w) .. Hi(w) : Digit(inBuf[i]) = b})
Histogram(w) ==
    /\ phase = "histogram" /\ w \in Procs \ replied
    /\ hist' = [hist EXCEPT ![w] = [b \in Buckets |-> @[b] + Counted(w, b)]]
    /\ replied' = replied \cup {w}
    /\ UNCHANGED <<callVars, phase, pass, inBuf, outBuf, offs, taken, parts,
                   heap, result>>

(* Bucket by bucket, and within a bucket worker by worker. *)
Before(w, b, v, c) == c < b \/ (c = b /\ v < w)
(* Mutant: every worker starts at the beginning of the bucket. *)
MutOffset(w, b) ==
    1 + MapThenSumSet(LAMBDA x : hist[x[1]][x[2]],
            {x \in Procs \X Buckets : x[2] < b})
Offset(w, b) ==
    1 + MapThenSumSet(LAMBDA x : hist[x[1]][x[2]],
            {x \in Procs \X Buckets : Before(w, b, x[1], x[2])})
PrefixSum ==
    /\ phase = "histogram" /\ replied = Procs
    /\ offs' = [w \in Procs |-> [b \in Buckets |-> Offset(w, b)]]
    /\ taken' = [w \in Procs |-> 0]
    /\ phase' = "scatter" /\ replied' = {}
    /\ UNCHANGED <<callVars, pass, inBuf, outBuf, hist, parts, heap, result>>

Scatter(w) ==
    /\ phase = "scatter" /\ w \in Procs /\ taken[w] < Count(w)
    /\ LET v == inBuf[Lo(w) + taken[w]]
       IN /\ outBuf' = [outBuf EXCEPT ![offs[w][Digit(v)]] = v]
          /\ offs' = [offs EXCEPT ![w][Digit(v)] = @ + 1]
    /\ taken' = [taken EXCEPT ![w] = @ + 1]
    /\ UNCHANGED <<callVars, phase, replied, pass, inBuf, hist, parts, heap, result>>

ScatterReplies(w) ==
    /\ phase = "scatter" /\ w \in Procs \ replied /\ taken[w] = Count(w)
    /\ replied' = replied \cup {w}
    /\ UNCHANGED <<callVars, phase, radixVars, parts, heap, result>>

NextPass ==
    /\ phase = "scatter" /\ replied = Procs
    /\ inBuf' = outBuf /\ outBuf' = inBuf
    /\ pass' = pass + 1
    /\ hist' = Zeroed
    /\ phase' = IF pass' < Digits THEN "histogram" ELSE "assemble"
    /\ replied' = {}
    /\ UNCHANGED <<callVars, offs, taken, parts, heap, result>>

FinishRadix ==
    /\ phase = "assemble"
    /\ result' = [i \in 1 .. N |-> FromKey(inBuf[i])]
    /\ phase' = "done"
    /\ UNCHANGED <<callVars, replied, radixVars, parts, heap>>

-----------------------------------------------------------------------------
(* chunkMergeSort and kWayMerge: one step per element popped. *)

StartMerge ==
    /\ phase = "called" /\ strategy = "merge" /\ P > 1
    /\ parts' = [w \in Busy |-> <<>>]
    /\ phase' = "sort"
    /\ UNCHANGED <<callVars, replied, radixVars, heap, result>>

SortChunk(w) ==
    /\ phase = "sort" /\ strategy = "merge" /\ w \in Busy \ replied
    /\ parts' = [parts EXCEPT ![w] = NativeSort(Chunk(w))]
    /\ replied' = replied \cup {w}
    /\ UNCHANGED <<callVars, phase, radixVars, heap, result>>

BuildHeap ==
    /\ phase = "sort" /\ strategy = "merge" /\ replied = Busy
    /\ LET h == [i \in 1 .. Cardinality(Busy) |-> Entry(i - 1, 1)]
       IN heap' = Heapify(h, Len(h) \div 2)
    /\ phase' = "merge"
    /\ UNCHANGED <<callVars, replied, radixVars, parts, result>>

Pop ==
    /\ phase = "merge" /\ heap # <<>>
    /\ result' = Append(result, heap[1].v)
    /\ LET top == heap[1]
           more == top.pos < Len(parts[top.chunk])
           h == IF more THEN [heap EXCEPT ![1] = Entry(top.chunk, top.pos + 1)]
                ELSE Front([heap EXCEPT ![1] = heap[Len(heap)]])
       IN heap' = IF h = <<>> THEN h ELSE SiftDown(h, 1)
    /\ UNCHANGED <<callVars, phase, replied, radixVars, parts>>

FinishMerge ==
    /\ phase = "merge" /\ heap = <<>>
    /\ phase' = "done"
    /\ UNCHANGED <<callVars, replied, radixVars, parts, heap, result>>

-----------------------------------------------------------------------------
(* sampleSort *)

StartSample ==
    /\ phase = "called" /\ strategy = "sample" /\ P > 1
    /\ parts' = [w \in Busy |-> <<>>]
    /\ phase' = "bucketize"
    /\ UNCHANGED <<callVars, replied, radixVars, heap, result>>

Bucketize(w) ==
    /\ phase = "bucketize" /\ w \in Busy \ replied
    /\ parts' = [parts EXCEPT ![w] = Bucketized(w)]
    /\ replied' = replied \cup {w}
    /\ UNCHANGED <<callVars, phase, radixVars, heap, result>>

(* Bucket b of every slice, in slice order. *)
Regroup ==
    /\ phase = "bucketize" /\ replied = Busy
    /\ parts' = [b \in Procs |-> Concat([w \in Busy |-> parts[w][b]])]
    /\ phase' = "sort" /\ replied' = {}
    /\ UNCHANGED <<callVars, radixVars, heap, result>>

(* An empty bucket is not dispatched. *)
Full == {b \in Procs : parts[b] # <<>>}
SortBucket(b) ==
    /\ phase = "sort" /\ strategy = "sample" /\ b \in Full \ replied
    /\ parts' = [parts EXCEPT ![b] = NativeSort(parts[b])]
    /\ replied' = replied \cup {b}
    /\ UNCHANGED <<callVars, phase, radixVars, heap, result>>

FinishSample ==
    /\ phase = "sort" /\ strategy = "sample" /\ replied = Full
    /\ result' = Concat(parts)
    /\ phase' = "done"
    /\ UNCHANGED <<callVars, replied, radixVars, parts, heap>>

-----------------------------------------------------------------------------
Next ==
    \/ SerialRadix \/ SerialNative
    \/ StartRadix \/ PrefixSum \/ NextPass \/ FinishRadix
    \/ StartMerge \/ BuildHeap \/ Pop \/ FinishMerge
    \/ StartSample \/ Regroup \/ FinishSample
    \/ \E w \in Procs : \/ Histogram(w) \/ Scatter(w) \/ ScatterReplies(w)
                        \/ SortChunk(w) \/ Bucketize(w) \/ SortBucket(w)

Spec == Init /\ [][Next]_vars

-----------------------------------------------------------------------------
(* The number a bit pattern stands for, -0 just below +0. *)
Value(u) == CASE strategy = "u32" -> u
              [] strategy = "i32" -> IF u < Half THEN u ELSE u - Width
              [] strategy = "f32" -> IF u < Half THEN u ELSE Half - 1 - u

(* The call returns what one stable sort of the whole input returns: for a *)
(* typed array its values in numeric order, otherwise the same items with  *)
(* ties in input order, whatever the split, the samples and the order in   *)
(* which workers answer.                                                   *)
SortsStably ==
    phase = "done" =>
        IF strategy \in Kinds
        THEN LET keyed == [i \in 1 .. N |-> [key |-> Value(input[i]), at |-> i]]
             IN result = [i \in 1 .. N |-> input[NativeSort(keyed)[i].at]]
        ELSE result = NativeSort([i \in 1 .. N |-> Item(i)])

(* During a scatter the slots the workers have still to fill, bucket by    *)
(* bucket, are disjoint and inside the array: no element is overwritten by *)
(* another worker although none takes a lock.                              *)
ScatterDisjoint ==
    phase = "scatter" =>
        LET Left(w, b) == Cardinality({i \in Lo(w) + taken[w] .. Hi(w) :
                                          Digit(inBuf[i]) = b})
            Slots(x) == offs[x[1]][x[2]] .. offs[x[1]][x[2]] + Left(x[1], x[2]) - 1
        IN \A x, y \in Procs \X Buckets :
              /\ Slots(x) \subseteq 1 .. N
              /\ x # y => Slots(x) \cap Slots(y) = {}

=============================================================================
