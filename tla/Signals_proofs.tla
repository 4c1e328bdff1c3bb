---------------------------- MODULE Signals_proofs ----------------------------
(* Proofs about Signals for every number of signals, derived signals and   *)
(* effects and every client program: what an outermost call leaves behind, *)
(* glitch freedom, disposal and the values that effects settle on.         *)
EXTENDS Signals, SequenceTheorems, WellFoundedInduction, TLAPS

-----------------------------------------------------------------------------
(* The call stack, as a sequence of frames s with the innermost first.     *)

Frames ==
  {f \in [kind : {"effect", "compute", "batch", "untrack", "flush"},
          who : Nodes \cup {None}, prev : Nodes \cup {None},
          todo : SUBSET Effects, rethrow : BOOLEAN] :
     /\ f.kind = "effect" => f.who \in Effects
     /\ f.kind = "compute" => f.who \in Computeds}

User(f) == f.kind \in {"effect", "compute"}

On(s) == {s[i] : i \in 1..Len(s)}

(* The frames of s with a frame that runs above them.                      *)
Above(s) == {p \in On(s) \X On(s) :
                \E i, j \in 1..Len(s) : i < j /\ p = <<s[i], s[j]>>}

LEMMA PushStack ==
  ASSUME NEW S, NEW s \in Seq(S), NEW f \in S
  PROVE  /\ <<f>> \o s \in Seq(S)
         /\ <<f>> \o s # <<>>
         /\ Len(<<f>> \o s) = Len(s) + 1
         /\ (<<f>> \o s)[1] = f
         /\ \A i \in 2..(Len(s) + 1) : (<<f>> \o s)[i] = s[i - 1]
         /\ \A i \in 1..Len(s) : (<<f>> \o s)[i + 1] = s[i]
         /\ Head(<<f>> \o s) = f
         /\ Tail(<<f>> \o s) = s
<1>1. <<f>> \in Seq(S) /\ Len(<<f>>) = 1 /\ <<f>>[1] = f
  OBVIOUS
<1>2. <<f>> \o s \in Seq(S)
  BY <1>1
<1>3. Len(<<f>> \o s) = Len(s) + 1
  BY <1>1, ConcatProperties
<1>4. (<<f>> \o s)[1] = f
  BY <1>1, ConcatProperties
<1>5. \A i \in 2..(Len(s) + 1) : (<<f>> \o s)[i] = s[i - 1]
  BY <1>1, ConcatProperties
<1>6. \A i \in 1..Len(s) : (<<f>> \o s)[i + 1] = s[i]
  BY <1>5
<1>7. <<f>> \o s # <<>>
  BY <1>3
<1>8. Head(<<f>> \o s) = f
  BY <1>2, <1>4, <1>7
<1>9. Tail(<<f>> \o s) = s
  <2>1. Tail(<<f>> \o s) \in Seq(S) /\ Len(Tail(<<f>> \o s)) = Len(s)
    BY <1>2, <1>3, <1>7, HeadTailProperties
  <2>2. \A i \in 1..Len(s) : Tail(<<f>> \o s)[i] = s[i]
    BY <1>2, <1>3, <1>6, <1>7, HeadTailProperties
  <2>3. QED
    BY <2>1, <2>2, SeqEqual
<1>10. QED
  BY <1>2, <1>3, <1>4, <1>5, <1>6, <1>7, <1>8, <1>9

LEMMA PopStack ==
  ASSUME NEW S, NEW s \in Seq(S), s # <<>>
  PROVE  /\ Head(s) \in S /\ Tail(s) \in Seq(S)
         /\ s = <<Head(s)>> \o Tail(s)
<1>1. Head(s) \in S /\ Tail(s) \in Seq(S) /\ Len(Tail(s)) = Len(s) - 1
  BY HeadTailProperties
<1>2. \A i \in 1..Len(Tail(s)) : Tail(s)[i] = s[i + 1]
  BY HeadTailProperties
<1> DEFINE t == <<Head(s)>> \o Tail(s)
<1>3. /\ t \in Seq(S) /\ Len(t) = Len(Tail(s)) + 1 /\ t[1] = Head(s)
      /\ \A i \in 2..(Len(Tail(s)) + 1) : t[i] = Tail(s)[i - 1]
  BY <1>1, PushStack
<1>4. Len(t) = Len(s) /\ Head(s) = s[1] /\ Len(s) \in Nat
  BY <1>1, <1>3
<1>5. \A i \in 1..Len(s) : t[i] = s[i]
  BY <1>1, <1>2, <1>3, <1>4
<1>6. s = t
  BY <1>3, <1>4, <1>5, SeqEqual
<1>7. QED
  BY <1>1, <1>6

(* What is on the stack after a push, and what runs above what.            *)
LEMMA PushFrames ==
  ASSUME NEW S, NEW s \in Seq(S), NEW f \in S
  PROVE  /\ On(<<f>> \o s) = {f} \cup On(s)
         /\ Above(<<f>> \o s) = Above(s) \cup {<<f, g>> : g \in On(s)}
<1> DEFINE t == <<f>> \o s
<1>1. /\ Len(t) = Len(s) + 1 /\ Len(s) \in Nat /\ t[1] = f
      /\ \A i \in 2..(Len(s) + 1) : t[i] = s[i - 1]
      /\ \A i \in 1..Len(s) : t[i + 1] = s[i]
  BY PushStack
<1> HIDE DEF t
<1>2. On(t) = {f} \cup On(s)
  <2>1. \A i \in 1..Len(t) : t[i] = f \/ \E j \in 1..Len(s) : t[i] = s[j]
    <3> TAKE i \in 1..Len(t)
    <3>1. CASE i = 1
      BY <1>1, <3>1
    <3>2. CASE i # 1
      <4>1. i \in 2..(Len(s) + 1) /\ i - 1 \in 1..Len(s)
        BY <1>1, <3>2
      <4>2. QED
        BY <1>1, <4>1
    <3>3. QED
      BY <3>1, <3>2
  <2>2. 1 \in 1..Len(t) /\ \A i \in 1..Len(s) : i + 1 \in 1..Len(t)
    BY <1>1
  <2>3. QED
    BY <1>1, <2>1, <2>2 DEF On
<1>3. ASSUME NEW p \in Above(t) PROVE p \in Above(s) \cup {<<f, g>> : g \in On(s)}
  <2>1. PICK i, j \in 1..Len(t) : i < j /\ p = <<t[i], t[j]>>
    BY <1>3 DEF Above
  <2>2. j - 1 \in 1..Len(s) /\ t[j] = s[j - 1]
    BY <1>1, <2>1
  <2>3. CASE i = 1
    BY <1>1, <2>1, <2>2, <2>3 DEF On
  <2>4. CASE i # 1
    <3>1. i - 1 \in 1..Len(s) /\ t[i] = s[i - 1] /\ i - 1 < j - 1
      BY <1>1, <2>1, <2>4
    <3>2. p \in On(s) \X On(s)
      BY <2>1, <2>2, <3>1 DEF On
    <3>3. QED
      BY <2>1, <2>2, <3>1, <3>2 DEF Above
  <2>5. QED
    BY <2>3, <2>4
<1>4. ASSUME NEW p \in Above(s) PROVE p \in Above(t)
  <2>1. PICK i, j \in 1..Len(s) : i < j /\ p = <<s[i], s[j]>>
    BY <1>4 DEF Above
  <2>2. /\ i + 1 \in 1..Len(t) /\ j + 1 \in 1..Len(t) /\ i + 1 < j + 1
        /\ p = <<t[i + 1], t[j + 1]>>
    BY <1>1, <2>1
  <2>3. p \in On(t) \X On(t)
    BY <2>2 DEF On
  <2>4. QED
    BY <2>2, <2>3 DEF Above
<1>5. ASSUME NEW g \in On(s) PROVE <<f, g>> \in Above(t)
  <2>1. PICK j \in 1..Len(s) : g = s[j]
    BY DEF On
  <2>2. 1 \in 1..Len(t) /\ j + 1 \in 1..Len(t) /\ 1 < j + 1 /\ <<f, g>> = <<t[1], t[j + 1]>>
    BY <1>1, <2>1
  <2>3. <<f, g>> \in On(t) \X On(t)
    BY <2>2 DEF On
  <2>4. QED
    BY <2>2, <2>3 DEF Above
<1>6. Above(t) = Above(s) \cup {<<f, g>> : g \in On(s)}
  BY <1>3, <1>4, <1>5
<1>7. QED
  BY <1>2, <1>6 DEF t

LEMMA EmptyFrames == On(<<>>) = {} /\ Above(<<>>) = {}
BY DEF On, Above

LEMMA FramesOfStack ==
  ASSUME NEW S, NEW s \in Seq(S)
  PROVE  /\ On(s) \subseteq S /\ Above(s) \subseteq On(s) \X On(s)
         /\ s = <<>> <=> On(s) = {}
<1>1. On(s) \subseteq S /\ Above(s) \subseteq On(s) \X On(s)
  BY ElementOfSeq DEF On, Above
<1>2. ASSUME s # <<>> PROVE On(s) # {}
  <2>1. Head(s) \in S /\ Tail(s) \in Seq(S) /\ s = <<Head(s)>> \o Tail(s)
    BY <1>2, PopStack
  <2>2. On(<<Head(s)>> \o Tail(s)) = {Head(s)} \cup On(Tail(s))
    BY <2>1, PushFrames
  <2>3. QED
    BY <2>1, <2>2
<1>3. QED
  BY <1>1, <1>2, EmptyFrames

LEMMA LeastNatural ==
  ASSUME NEW T, T \subseteq Nat, T # {}
  PROVE  \E m \in T : \A k \in T : m <= k
<1>1. PICK m \in T : \A k \in T : ~(<<k, m>> \in OpToRel(<, Nat))
  BY NatLessThanWellFounded, WFMin
<1>2. \A k \in T : ~(k < m)
  BY <1>1 DEF OpToRel
<1>3. QED
  BY <1>2

-----------------------------------------------------------------------------
(* The shape of the stack s when t is the current target and n the batch   *)
(* depth: every frame restores what was in force when it was entered.      *)

(* The target a frame puts in force.                                       *)
Sets(f) == CASE User(f) -> f.who
             [] f.kind = "untrack" -> None
             [] OTHER -> f.prev

(* The target in force above frame i.                                      *)
Over(s, t, i) == IF i = 1 THEN t ELSE s[i - 1].prev

TargetsChain(s, t) ==
  /\ \A i \in 1..Len(s) : Over(s, t, i) = Sets(s[i])
  /\ \A i \in 1..(Len(s) + 1) : Over(s, t, i) # None =>
        \E k \in i..Len(s) : /\ User(s[k]) /\ s[k].who = Over(s, t, i)
                             /\ \A j \in i..(k - 1) : ~User(s[j])

IsBatch(f) == IF f.kind = "batch" THEN 1 ELSE 0

(* d[i] counts the batches among frame i and those below it.               *)
DepthCounts(s, n) ==
  \E d \in [1..(Len(s) + 1) -> Nat] :
    /\ d[1] = n
    /\ \A i \in 1..Len(s) : d[i] = d[i + 1] + IsBatch(s[i])
    /\ \A i \in 1..(Len(s) + 1) : d[i] = 0 <=> \A k \in i..Len(s) : s[k].kind # "batch"

LEMMA ChainPush ==
  ASSUME NEW s \in Seq(Frames), NEW t, TargetsChain(s, t),
         NEW f \in Frames, f.prev = t
  PROVE  TargetsChain(<<f>> \o s, Sets(f))
<1> DEFINE r == <<f>> \o s
<1>1. /\ Len(r) = Len(s) + 1 /\ Len(s) \in Nat /\ r[1] = f
      /\ \A i \in 2..(Len(s) + 1) : r[i] = s[i - 1]
      /\ \A i \in 1..Len(s) : r[i + 1] = s[i]
  BY PushStack
<1> HIDE DEF r
<1>2. \A i \in 2..(Len(s) + 2) : Over(r, Sets(f), i) = Over(s, t, i - 1)
  <2> TAKE i \in 2..(Len(s) + 2)
  <2>1. CASE i = 2
    BY <1>1, <2>1 DEF Over
  <2>2. CASE i # 2
    <3>1. i - 1 \in 2..(Len(s) + 1)
      BY <1>1, <2>2
    <3>2. r[i - 1] = s[(i - 1) - 1] /\ i # 1 /\ i - 1 # 1
      BY <1>1, <3>1
    <3>3. QED
      BY <3>2 DEF Over
  <2>3. QED
    BY <2>1, <2>2
<1>3. ASSUME NEW i \in 1..Len(r) PROVE Over(r, Sets(f), i) = Sets(r[i])
  <2>1. CASE i = 1
    BY <1>1, <2>1 DEF Over
  <2>2. CASE i # 1
    <3>1. i \in 2..(Len(s) + 1) /\ i \in 2..(Len(s) + 2) /\ i - 1 \in 1..Len(s)
      BY <1>1, <2>2
    <3>2. QED
      BY <1>1, <1>2, <3>1 DEF TargetsChain
  <2>3. QED
    BY <2>1, <2>2
<1>4. ASSUME NEW i \in 2..(Len(s) + 2), Over(r, Sets(f), i) # None
      PROVE  \E k \in i..Len(r) : /\ User(r[k]) /\ r[k].who = Over(r, Sets(f), i)
                                  /\ \A j \in i..(k - 1) : ~User(r[j])
  <2>1. i - 1 \in 1..(Len(s) + 1)
    BY <1>1
  <2>2. PICK k \in (i - 1)..Len(s) : /\ User(s[k]) /\ s[k].who = Over(s, t, i - 1)
                                     /\ \A j \in (i - 1)..(k - 1) : ~User(s[j])
    BY <1>2, <1>4, <2>1 DEF TargetsChain
  <2>3. k + 1 \in i..Len(r) /\ r[k + 1] = s[k]
    BY <1>1, <2>1
  <2>4. \A j \in i..((k + 1) - 1) : ~User(r[j])
    <3> TAKE j \in i..((k + 1) - 1)
    <3>1. j - 1 \in (i - 1)..(k - 1) /\ j \in 2..(Len(s) + 1)
      BY <1>1, <2>1
    <3>2. QED
      BY <1>1, <2>2, <3>1
  <2>5. QED
    BY <1>2, <2>2, <2>3, <2>4
<1>5. ASSUME Sets(f) # None
      PROVE  \E k \in 1..Len(r) : /\ User(r[k]) /\ r[k].who = Sets(f)
                                  /\ \A j \in 1..(k - 1) : ~User(r[j])
  <2>1. CASE User(f)
    <3>1. 1 \in 1..Len(r) /\ User(r[1]) /\ r[1].who = Sets(f)
      <4>1. 1 \in 1..Len(r) /\ Sets(f) = f.who
        BY <1>1, <2>1 DEF Sets, User
      <4>2. QED
        BY <1>1, <2>1, <4>1
    <3>2. \A j \in 1..(1 - 1) : ~User(r[j])
      OBVIOUS
    <3>3. QED
      BY <3>1, <3>2
  <2>2. CASE ~User(f)
    <3>1. Sets(f) = t
      <4>1. f.kind # "untrack"
        BY <1>5, <2>2 DEF Sets
      <4>2. QED
        BY <2>2, <4>1 DEF Sets
    <3>2. 2 \in 2..(Len(s) + 2) /\ Over(r, Sets(f), 2) = t
      BY <1>1 DEF Over
    <3>3. PICK k \in 2..Len(r) : /\ User(r[k]) /\ r[k].who = Sets(f)
                                 /\ \A j \in 2..(k - 1) : ~User(r[j])
      BY <1>4, <1>5, <3>1, <3>2
    <3>4. \A j \in 1..(k - 1) : ~User(r[j])
      BY <1>1, <2>2, <3>3
    <3>5. QED
      BY <3>3, <3>4
  <2>3. QED
    BY <2>1, <2>2
<1>6. ASSUME NEW i \in 1..(Len(r) + 1), Over(r, Sets(f), i) # None
      PROVE  \E k \in i..Len(r) : /\ User(r[k]) /\ r[k].who = Over(r, Sets(f), i)
                                  /\ \A j \in i..(k - 1) : ~User(r[j])
  <2>1. CASE i = 1
    BY <1>5, <1>6, <2>1 DEF Over
  <2>2. CASE i # 1
    <3>1. i \in 2..(Len(s) + 2)
      BY <1>1, <2>2
    <3>2. QED
      BY <1>4, <1>6, <3>1
  <2>3. QED
    BY <2>1, <2>2
<1>7. TargetsChain(r, Sets(f))
  BY <1>3, <1>6 DEF TargetsChain
<1>8. QED
  BY <1>7 DEF r

LEMMA ChainPop ==
  ASSUME NEW s \in Seq(Frames), NEW f \in Frames, NEW t,
         TargetsChain(<<f>> \o s, t)
  PROVE  t = Sets(f) /\ TargetsChain(s, f.prev)
<1> DEFINE r == <<f>> \o s
<1>1. /\ Len(r) = Len(s) + 1 /\ Len(s) \in Nat /\ r[1] = f
      /\ \A i \in 2..(Len(s) + 1) : r[i] = s[i - 1]
      /\ \A i \in 1..Len(s) : r[i + 1] = s[i]
  BY PushStack
<1>2. TargetsChain(r, t)
  OBVIOUS
<1> HIDE DEF r
<1>3. t = Sets(f)
  <2>1. 1 \in 1..Len(r)
    BY <1>1
  <2>2. QED
    BY <1>1, <1>2, <2>1 DEF TargetsChain, Over
<1>4. \A i \in 1..(Len(s) + 1) : Over(s, f.prev, i) = Over(r, t, i + 1)
  <2> TAKE i \in 1..(Len(s) + 1)
  <2>1. CASE i = 1
    BY <1>1, <2>1 DEF Over
  <2>2. CASE i # 1
    <3>1. i \in 2..(Len(s) + 1) /\ i + 1 # 1 /\ (i + 1) - 1 = i
      BY <1>1, <2>2
    <3>2. QED
      BY <1>1, <2>2, <3>1 DEF Over
  <2>3. QED
    BY <2>1, <2>2
<1>5. ASSUME NEW i \in 1..Len(s) PROVE Over(s, f.prev, i) = Sets(s[i])
  <2>1. i + 1 \in 1..Len(r) /\ r[i + 1] = s[i] /\ i \in 1..(Len(s) + 1)
    BY <1>1
  <2>2. QED
    BY <1>2, <1>4, <2>1 DEF TargetsChain
<1>6. ASSUME NEW i \in 1..(Len(s) + 1), Over(s, f.prev, i) # None
      PROVE  \E k \in i..Len(s) : /\ User(s[k]) /\ s[k].who = Over(s, f.prev, i)
                                  /\ \A j \in i..(k - 1) : ~User(s[j])
  <2>1. i + 1 \in 1..(Len(r) + 1)
    BY <1>1
  <2>2. PICK k \in (i + 1)..Len(r) : /\ User(r[k]) /\ r[k].who = Over(r, t, i + 1)
                                     /\ \A j \in (i + 1)..(k - 1) : ~User(r[j])
    BY <1>2, <1>4, <1>6, <2>1 DEF TargetsChain
  <2>3. k - 1 \in i..Len(s) /\ k \in 2..(Len(s) + 1) /\ r[k] = s[k - 1]
    BY <1>1, <2>1
  <2>4. \A j \in i..((k - 1) - 1) : ~User(s[j])
    <3> TAKE j \in i..((k - 1) - 1)
    <3>1. j + 1 \in (i + 1)..(k - 1) /\ j \in 1..Len(s)
      BY <1>1, <2>3
    <3>2. QED
      BY <1>1, <2>2, <3>1
  <2>5. QED
    BY <1>4, <2>2, <2>3, <2>4
<1>7. QED
  BY <1>3, <1>5, <1>6 DEF TargetsChain

LEMMA DepthPush ==
  ASSUME NEW s \in Seq(Frames), NEW n \in Nat, DepthCounts(s, n), NEW f \in Frames
  PROVE  DepthCounts(<<f>> \o s, n + IsBatch(f))
<1> DEFINE r == <<f>> \o s
<1>1. /\ Len(r) = Len(s) + 1 /\ Len(s) \in Nat /\ r[1] = f
      /\ \A i \in 2..(Len(s) + 1) : r[i] = s[i - 1]
      /\ \A i \in 1..Len(s) : r[i + 1] = s[i]
  BY PushStack
<1>2. PICK d \in [1..(Len(s) + 1) -> Nat] :
        /\ d[1] = n
        /\ \A i \in 1..Len(s) : d[i] = d[i + 1] + IsBatch(s[i])
        /\ \A i \in 1..(Len(s) + 1) :
              d[i] = 0 <=> \A k \in i..Len(s) : s[k].kind # "batch"
  BY DEF DepthCounts
<1> HIDE DEF r
<1> DEFINE e == [i \in 1..(Len(r) + 1) |-> IF i = 1 THEN n + IsBatch(f) ELSE d[i - 1]]
<1>3. e \in [1..(Len(r) + 1) -> Nat]
  BY <1>1 DEF IsBatch
<1>4. e[1] = n + IsBatch(f) /\ \A i \in 1..(Len(s) + 1) : e[i + 1] = d[i]
  BY <1>1
<1> HIDE DEF e
<1>5. ASSUME NEW i \in 1..Len(r) PROVE e[i] = e[i + 1] + IsBatch(r[i])
  <2>1. CASE i = 1
    BY <1>1, <1>2, <1>4, <2>1
  <2>2. CASE i # 1
    <3>1. i - 1 \in 1..Len(s) /\ r[i] = s[i - 1] /\ (i - 1) + 1 = i
      BY <1>1, <2>2
    <3>2. e[i] = d[i - 1] /\ e[i + 1] = d[i]
      BY <1>1, <1>4, <3>1
    <3>3. QED
      BY <1>2, <3>1, <3>2
  <2>3. QED
    BY <2>1, <2>2
<1>6. ASSUME NEW i \in 2..(Len(r) + 1)
      PROVE  e[i] = 0 <=> \A k \in i..Len(r) : r[k].kind # "batch"
  <2>1. i - 1 \in 1..(Len(s) + 1) /\ e[i] = d[i - 1]
    BY <1>1, <1>4
  <2>2. (\A k \in i..Len(r) : r[k].kind # "batch")
          <=> (\A k \in (i - 1)..Len(s) : s[k].kind # "batch")
    <3>1. \A k \in i..Len(r) : k - 1 \in (i - 1)..Len(s) /\ r[k] = s[k - 1]
      BY <1>1
    <3>2. \A k \in (i - 1)..Len(s) : k + 1 \in i..Len(r) /\ r[k + 1] = s[k]
      BY <1>1
    <3>3. QED
      BY <3>1, <3>2
  <2>3. QED
    BY <1>2, <2>1, <2>2
<1>7. e[1] = 0 <=> \A k \in 1..Len(r) : r[k].kind # "batch"
  <2>1. n + IsBatch(f) = 0 <=> n = 0 /\ f.kind # "batch"
    BY DEF IsBatch
  <2>2. 1 \in 1..(Len(s) + 1) /\ 2 \in 2..(Len(r) + 1) /\ e[2] = n
    BY <1>1, <1>2, <1>4
  <2>3. n = 0 <=> \A k \in 2..Len(r) : r[k].kind # "batch"
    BY <1>6, <2>2
  <2>4. \A k \in 1..Len(r) : k = 1 \/ k \in 2..Len(r)
    BY <1>1
  <2>5. 1 \in 1..Len(r) /\ \A k \in 2..Len(r) : k \in 1..Len(r)
    BY <1>1
  <2>6. QED
    BY <1>1, <1>4, <2>1, <2>3, <2>4, <2>5
<1>8. \A i \in 1..(Len(r) + 1) : e[i] = 0 <=> \A k \in i..Len(r) : r[k].kind # "batch"
  <2>1. \A i \in 1..(Len(r) + 1) : i = 1 \/ i \in 2..(Len(r) + 1)
    BY <1>1
  <2>2. QED
    BY <1>6, <1>7, <2>1
<1>9. DepthCounts(r, n + IsBatch(f))
  BY <1>3, <1>4, <1>5, <1>8 DEF DepthCounts
<1>10. QED
  BY <1>9 DEF r

LEMMA DepthPop ==
  ASSUME NEW s \in Seq(Frames), NEW f \in Frames, NEW n,
         DepthCounts(<<f>> \o s, n)
  PROVE  /\ n \in Nat
         /\ n = 0 <=> \A g \in On(<<f>> \o s) : g.kind # "batch"
         /\ \E m \in Nat : n = m + IsBatch(f) /\ DepthCounts(s, m)
<1> DEFINE r == <<f>> \o s
<1>1. /\ Len(r) = Len(s) + 1 /\ Len(s) \in Nat /\ r[1] = f
      /\ \A i \in 2..(Len(s) + 1) : r[i] = s[i - 1]
      /\ \A i \in 1..Len(s) : r[i + 1] = s[i]
  BY PushStack
<1>2. PICK e \in [1..(Len(r) + 1) -> Nat] :
        /\ e[1] = n
        /\ \A i \in 1..Len(r) : e[i] = e[i + 1] + IsBatch(r[i])
        /\ \A i \in 1..(Len(r) + 1) :
              e[i] = 0 <=> \A k \in i..Len(r) : r[k].kind # "batch"
  BY DEF DepthCounts
<1> HIDE DEF r
<1>3. n \in Nat
  <2>1. 1 \in 1..(Len(r) + 1)
    BY <1>1
  <2>2. QED
    BY <1>2, <2>1
<1>4. n = 0 <=> \A g \in On(r) : g.kind # "batch"
  <2>1. 1 \in 1..(Len(r) + 1)
    BY <1>1
  <2>2. n = 0 <=> \A k \in 1..Len(r) : r[k].kind # "batch"
    BY <1>2, <2>1
  <2>3. QED
    BY <2>2 DEF On
<1> DEFINE d == [i \in 1..(Len(s) + 1) |-> e[i + 1]]
<1>5. d \in [1..(Len(s) + 1) -> Nat] /\ \A i \in 1..(Len(s) + 1) : d[i] = e[i + 1]
  BY <1>1
<1> HIDE DEF d
<1>6. ASSUME NEW i \in 1..Len(s) PROVE d[i] = d[i + 1] + IsBatch(s[i])
  <2>1. i + 1 \in 1..Len(r) /\ r[i + 1] = s[i] /\ i + 1 \in 1..(Len(s) + 1)
    BY <1>1
  <2>2. QED
    BY <1>1, <1>2, <1>5, <2>1
<1>7. ASSUME NEW i \in 1..(Len(s) + 1)
      PROVE  d[i] = 0 <=> \A k \in i..Len(s) : s[k].kind # "batch"
  <2>1. i + 1 \in 1..(Len(r) + 1) /\ d[i] = e[i + 1]
    BY <1>1, <1>5
  <2>2. (\A k \in (i + 1)..Len(r) : r[k].kind # "batch")
          <=> (\A k \in i..Len(s) : s[k].kind # "batch")
    <3>1. \A k \in (i + 1)..Len(r) : k - 1 \in i..Len(s) /\ r[k] = s[k - 1]
      BY <1>1
    <3>2. \A k \in i..Len(s) : k + 1 \in (i + 1)..Len(r) /\ r[k + 1] = s[k]
      BY <1>1
    <3>3. QED
      BY <3>1, <3>2
  <2>3. QED
    BY <1>2, <2>1, <2>2
<1>8. d[1] \in Nat /\ n = d[1] + IsBatch(f)
  BY SMTT(60), <1>1, <1>2, <1>5
<1>9. DepthCounts(s, d[1])
  BY <1>5, <1>6, <1>7 DEF DepthCounts
<1>10. QED
  BY <1>3, <1>4, <1>8, <1>9 DEF r

LEMMA DepthOfEmpty ==
  ASSUME NEW n
  PROVE  DepthCounts(<<>>, n) <=> n = 0
<1>1. ASSUME DepthCounts(<<>>, n) PROVE n = 0
  BY <1>1 DEF DepthCounts
<1>2. DepthCounts(<<>>, 0)
  <2> DEFINE d == [i \in 1..1 |-> 0]
  <2>1. Len(<<>>) = 0 /\ 1..(Len(<<>>) + 1) = {1} /\ 1..Len(<<>>) = {}
    OBVIOUS
  <2>2. d \in [1..(Len(<<>>) + 1) -> Nat] /\ d[1] = 0
    BY <2>1
  <2>3. \A i \in 1..(Len(<<>>) + 1) : i = 1 /\ i..Len(<<>>) = {}
    BY <2>1
  <2> HIDE DEF d
  <2>4. QED
    BY <2>1, <2>2, <2>3 DEF DepthCounts
<1>3. QED
  BY <1>1, <1>2

LEMMA ChainOfEmpty ==
  ASSUME NEW t
  PROVE  TargetsChain(<<>>, t) <=> t = None
BY DEF TargetsChain, Over

-----------------------------------------------------------------------------
(* What the steps do to the stack, the target and the depth.               *)

TypeOK ==
  /\ val \in [States -> Values]
  /\ dirty \in [Computeds -> BOOLEAN]
  /\ DOMAIN cached = Computeds
  /\ deps \in [Nodes -> SUBSET Signals]
  /\ DOMAIN seen = Nodes
  /\ live \in [Effects -> {"new", "live", "disposed"}]
  /\ scheduled \in [Effects -> BOOLEAN]
  /\ running \in [Effects -> BOOLEAN]
  /\ cleanup \in [Effects -> BOOLEAN]
  /\ handles \subseteq Effects
  /\ pending \subseteq Effects
  /\ currentTarget \in Nodes \cup {None}
  /\ stack \in Seq(Frames)
  /\ throwing \in BOOLEAN
  /\ thrown \in BOOLEAN

(* The batch depth and the target are those the stack stands for.          *)
Nested == TargetsChain(stack, currentTarget) /\ DepthCounts(stack, batchDepth)

Pushes(f) ==
  /\ f \in Frames /\ f.prev = currentTarget
  /\ stack' = <<f>> \o stack
  /\ currentTarget' = Sets(f)
  /\ batchDepth' = batchDepth + IsBatch(f)
Pops ==
  /\ stack # <<>>
  /\ stack' = Tail(stack)
  /\ currentTarget' = Top.prev
  /\ batchDepth' = batchDepth - IsBatch(Top)
Retops(f) ==
  /\ stack # <<>>
  /\ f \in Frames /\ f.kind = "flush" /\ f.prev = Top.prev
  /\ stack' = <<f>> \o Tail(stack)
  /\ currentTarget' = Top.prev
  /\ batchDepth' = batchDepth - IsBatch(Top)
(* A flush takes an effect from its snapshot and runs it.                  *)
Launches(f, g) ==
  /\ stack # <<>> /\ Top.kind = "flush"
  /\ f \in Frames /\ f.kind = "flush" /\ f.prev = Top.prev
  /\ g \in Frames /\ g.kind = "effect" /\ g.prev = currentTarget
  /\ stack' = <<g>> \o (<<f>> \o Tail(stack))
  /\ currentTarget' = g.who
  /\ batchDepth' = batchDepth
Stays == UNCHANGED <<stack, currentTarget, batchDepth>>

LEMMA PoppedFrames ==
  ASSUME stack \in Seq(Frames), stack # <<>>
  PROVE  /\ Top \in Frames /\ Tail(stack) \in Seq(Frames)
         /\ stack = <<Top>> \o Tail(stack)
         /\ On(stack) = {Top} \cup On(Tail(stack))
         /\ Above(stack) = Above(Tail(stack)) \cup {<<Top, g>> : g \in On(Tail(stack))}
<1>1. /\ Top \in Frames /\ Tail(stack) \in Seq(Frames)
      /\ stack = <<Top>> \o Tail(stack)
  BY PopStack DEF Top
<1>2. /\ On(<<Top>> \o Tail(stack)) = {Top} \cup On(Tail(stack))
      /\ Above(<<Top>> \o Tail(stack))
            = Above(Tail(stack)) \cup {<<Top, g>> : g \in On(Tail(stack))}
  BY ZenonT(60), <1>1, PushFrames
<1>3. QED
  BY <1>1, <1>2

(* The top frame put the present target in force.                          *)
LEMMA TopFacts ==
  ASSUME stack \in Seq(Frames), Nested
  PROVE  /\ batchDepth \in Nat
         /\ batchDepth = 0 <=> \A g \in On(stack) : g.kind # "batch"
         /\ stack = <<>> => currentTarget = None
         /\ stack # <<>> =>
              /\ currentTarget = Sets(Top)
              /\ TargetsChain(Tail(stack), Top.prev)
              /\ batchDepth - IsBatch(Top) \in Nat
              /\ DepthCounts(Tail(stack), batchDepth - IsBatch(Top))
<1>1. CASE stack = <<>>
  BY <1>1, DepthOfEmpty, ChainOfEmpty, EmptyFrames DEF Nested
<1>2. CASE stack # <<>>
  <2>1. /\ Top \in Frames /\ Tail(stack) \in Seq(Frames)
        /\ stack = <<Top>> \o Tail(stack)
    BY <1>2, PoppedFrames
  <2>2. currentTarget = Sets(Top) /\ TargetsChain(Tail(stack), Top.prev)
    <3>1. TargetsChain(<<Top>> \o Tail(stack), currentTarget)
      BY <2>1 DEF Nested
    <3>2. QED
      BY <2>1, <3>1, ChainPop
  <2>3. DepthCounts(<<Top>> \o Tail(stack), batchDepth)
    BY <2>1 DEF Nested
  <2>4. /\ batchDepth \in Nat
        /\ batchDepth = 0 <=> \A g \in On(<<Top>> \o Tail(stack)) : g.kind # "batch"
        /\ \E m \in Nat : batchDepth = m + IsBatch(Top) /\ DepthCounts(Tail(stack), m)
    BY <2>1, <2>3, DepthPop
  <2>5. PICK m \in Nat : batchDepth = m + IsBatch(Top) /\ DepthCounts(Tail(stack), m)
    BY <2>4
  <2>6. m = batchDepth - IsBatch(Top)
    BY <2>4, <2>5 DEF IsBatch
  <2>7. QED
    BY <1>2, <2>1, <2>2, <2>4, <2>5, <2>6
<1>3. QED
  BY <1>1, <1>2

LEMMA MovesNest ==
  ASSUME TypeOK, Nested,
         \/ \E f \in Frames : Pushes(f) \/ Retops(f)
         \/ \E f, g \in Frames : Launches(f, g)
         \/ Pops \/ Stays
  PROVE  stack' \in Seq(Frames) /\ Nested'
<1> USE DEF TypeOK
<1>1. ASSUME NEW f \in Frames, Pushes(f) PROVE stack' \in Seq(Frames) /\ Nested'
  <2>1. stack' \in Seq(Frames)
    BY <1>1, PushStack DEF Pushes
  <2>2. TargetsChain(<<f>> \o stack, Sets(f))
    BY <1>1, ChainPush DEF Pushes, Nested
  <2>3. DepthCounts(<<f>> \o stack, batchDepth + IsBatch(f))
    BY <1>1, DepthPush, TopFacts DEF Pushes, Nested
  <2>4. QED
    BY <1>1, <2>1, <2>2, <2>3 DEF Pushes, Nested
<1>2. ASSUME Pops PROVE stack' \in Seq(Frames) /\ Nested'
  BY <1>2, TopFacts, PoppedFrames DEF Pops, Nested
<1>3. ASSUME NEW f \in Frames, stack # <<>>, f.kind = "flush", f.prev = Top.prev
      PROVE  /\ <<f>> \o Tail(stack) \in Seq(Frames)
             /\ TargetsChain(<<f>> \o Tail(stack), Top.prev)
             /\ DepthCounts(<<f>> \o Tail(stack), batchDepth - IsBatch(Top))
  <2>1. Tail(stack) \in Seq(Frames) /\ TargetsChain(Tail(stack), f.prev)
    BY <1>3, TopFacts, PoppedFrames
  <2>2. Sets(f) = Top.prev /\ IsBatch(f) = 0
    BY <1>3 DEF Sets, User, IsBatch
  <2>3. TargetsChain(<<f>> \o Tail(stack), Sets(f))
    BY <2>1, ChainPush
  <2>4. /\ batchDepth - IsBatch(Top) \in Nat
        /\ DepthCounts(Tail(stack), batchDepth - IsBatch(Top))
    BY <1>3, TopFacts
  <2>5. DepthCounts(<<f>> \o Tail(stack), (batchDepth - IsBatch(Top)) + IsBatch(f))
    BY <2>1, <2>4, DepthPush
  <2>6. <<f>> \o Tail(stack) \in Seq(Frames)
    BY <2>1, PushStack
  <2>7. QED
    BY <2>2, <2>3, <2>4, <2>5, <2>6
<1>4. ASSUME NEW f \in Frames, Retops(f) PROVE stack' \in Seq(Frames) /\ Nested'
  BY <1>3, <1>4 DEF Retops, Nested
<1>5. ASSUME NEW f \in Frames, NEW g \in Frames, Launches(f, g)
      PROVE  stack' \in Seq(Frames) /\ Nested'
  <2> DEFINE s == <<f>> \o Tail(stack)
  <2>1. /\ s \in Seq(Frames) /\ TargetsChain(s, Top.prev)
        /\ DepthCounts(s, batchDepth - IsBatch(Top))
    BY <1>3, <1>5 DEF Launches
  <2>2. Top.prev = currentTarget /\ IsBatch(Top) = 0 /\ batchDepth \in Nat
    BY <1>5, TopFacts DEF Launches, Sets, User, IsBatch
  <2>3. Sets(g) = g.who /\ IsBatch(g) = 0
    BY <1>5 DEF Launches, Sets, User, IsBatch
  <2>4. TargetsChain(s, currentTarget) /\ DepthCounts(s, batchDepth)
    BY <2>1, <2>2
  <2> HIDE DEF s
  <2>5. TargetsChain(<<g>> \o s, Sets(g))
    BY <1>5, <2>1, <2>4, ChainPush DEF Launches
  <2>6. DepthCounts(<<g>> \o s, batchDepth + IsBatch(g))
    BY <2>1, <2>2, <2>4, DepthPush
  <2>7. <<g>> \o s \in Seq(Frames)
    BY <2>1, PushStack
  <2>8. stack' = <<g>> \o s /\ currentTarget' = Sets(g) /\ batchDepth' = batchDepth + IsBatch(g)
    BY <1>5, <2>2, <2>3 DEF Launches, s
  <2>9. QED
    BY <2>5, <2>6, <2>7, <2>8 DEF Nested
<1>6. ASSUME Stays PROVE stack' \in Seq(Frames) /\ Nested'
  BY <1>6 DEF Stays, Nested
<1>7. QED
  BY <1>1, <1>2, <1>4, <1>5, <1>6

LEMMA FrameTyped ==
  ASSUME TypeOK, NEW todo \in SUBSET Effects, NEW r \in BOOLEAN
  PROVE  /\ \A k \in {"batch", "untrack", "flush"} :
              Frame(k, None, todo, r) \in Frames
         /\ \A e \in Effects : Frame("effect", e, todo, r) \in Frames
         /\ \A c \in Computeds : Frame("compute", c, todo, r) \in Frames
<1>1. currentTarget \in Nodes \cup {None}
  BY DEF TypeOK
<1>2. QED
  BY <1>1 DEF Frame, Frames, Nodes

(* A flush keeps its frame but for the snapshot. *)
LEMMA SnapshotTyped ==
  ASSUME TypeOK, stack # <<>>, NEW T \in SUBSET Effects
  PROVE  /\ [Top EXCEPT !.todo = T] \in Frames
         /\ [Top EXCEPT !.todo = T].kind = Top.kind
         /\ [Top EXCEPT !.todo = T].who = Top.who
         /\ [Top EXCEPT !.todo = T].prev = Top.prev
         /\ [Top EXCEPT !.todo = T].todo = T
         /\ [Top EXCEPT !.todo = T].rethrow = Top.rethrow
<1>1. Top \in Frames
  BY PoppedFrames DEF TypeOK
<1>2. QED
  BY <1>1 DEF Frames

LEMMA Moves ==
  ASSUME TypeOK, Nested
  PROVE  /\ \A x \in Signals : GetClean(x) => Stays
         /\ \A x \in Signals :
              GetDirty(x) => Pushes(Frame("compute", x, {}, FALSE))
         /\ ComputeReturns => Pops
         /\ \A s \in States, v \in Values :
              Set(s, v) => IF Notifies(s) THEN Pushes(FlushFrame) ELSE Stays
         /\ FlushSnapshots => Retops([Top EXCEPT !.todo = pending])
         /\ FlushReturns => Pops
         /\ \A e \in Effects :
              FlushRuns(e) => Launches([Top EXCEPT !.todo = @ \ {e}],
                                       Frame("effect", e, {}, FALSE))
         /\ \A e \in Effects : FlushSkips(e) => Retops([Top EXCEPT !.todo = @ \ {e}])
         /\ \A e \in Effects :
              CreateEffect(e) => Pushes(Frame("effect", e, {}, FALSE))
         /\ \A e \in Effects : Dispose(e) => Stays
         /\ \A w \in BOOLEAN : EffectReturns(w) => Pops
         /\ BatchEnters => Pushes(Frame("batch", None, {}, FALSE))
         /\ BatchLeaves => IF batchDepth = 1
                           THEN Retops(Frame("flush", None, {}, throwing)) ELSE Pops
         /\ UntrackEnters => Pushes(Frame("untrack", None, {}, FALSE))
         /\ UntrackLeaves => Pops
         /\ Throw => Stays
         /\ Unwinds => Pops
         /\ Catches => Stays
         /\ UNCHANGED vars => Stays
<1>1. /\ batchDepth \in Nat
      /\ stack # <<>> => /\ Top \in Frames /\ Top.todo \in SUBSET Effects
                         /\ currentTarget = Sets(Top)
  BY TopFacts, PoppedFrames DEF TypeOK, Frames
<1>2. FALSE \in BOOLEAN /\ throwing \in BOOLEAN /\ {} \in SUBSET Effects
  BY DEF TypeOK
<1>3. stack # <<>> /\ Top.kind \in {"flush", "batch"} => currentTarget = Top.prev
  BY <1>1 DEF Sets, User
<1>4. stack # <<>> => IsBatch(Top) = IF Top.kind = "batch" THEN 1 ELSE 0
  BY DEF IsBatch
<1>5. ASSUME NEW k, NEW w, Frame(k, w, {}, FALSE) \in Frames,
             Push(Frame(k, w, {}, FALSE)),
             currentTarget' = Sets(Frame(k, w, {}, FALSE)),
             batchDepth' = batchDepth + IsBatch(Frame(k, w, {}, FALSE))
      PROVE  Pushes(Frame(k, w, {}, FALSE))
  BY <1>5 DEF Pushes, Push, Frame
<1>6. \A w : /\ Sets(Frame("compute", w, {}, FALSE)) = w
               /\ Sets(Frame("effect", w, {}, FALSE)) = w
               /\ Sets(Frame("untrack", w, {}, FALSE)) = None
               /\ Sets(Frame("batch", w, {}, FALSE)) = currentTarget
               /\ Sets(Frame("flush", w, {}, FALSE)) = currentTarget
               /\ IsBatch(Frame("batch", w, {}, FALSE)) = 1
               /\ \A k \in {"compute", "effect", "untrack", "flush"} :
                    batchDepth = batchDepth + IsBatch(Frame(k, w, {}, FALSE))
  BY <1>1 DEF Sets, User, IsBatch, Frame
<1>7. ASSUME NEW x \in Signals, GetClean(x) PROVE Stays
  BY <1>7 DEF GetClean, Stays
<1>8. ASSUME NEW x \in Signals, GetDirty(x)
      PROVE  Pushes(Frame("compute", x, {}, FALSE))
  <2>1. Frame("compute", x, {}, FALSE) \in Frames
    BY <1>2, <1>8, FrameTyped DEF GetDirty
  <2>2. /\ Push(Frame("compute", x, {}, FALSE))
        /\ currentTarget' = x /\ batchDepth' = batchDepth
    BY <1>8 DEF GetDirty
  <2>3. QED
    BY <1>5, <1>6, <2>1, <2>2
<1>9. ASSUME ComputeReturns PROVE Pops
  BY <1>1, <1>4, <1>9 DEF ComputeReturns, Pops
<1>10. ASSUME NEW s \in States, NEW v \in Values, Set(s, v)
       PROVE  IF Notifies(s) THEN Pushes(FlushFrame) ELSE Stays
  <2>1. UNCHANGED <<batchDepth, currentTarget>>
    BY <1>10 DEF Set
  <2>2. ASSUME Notifies(s) PROVE Pushes(FlushFrame)
    <3>1. Push(FlushFrame)
      BY <1>10, <2>2 DEF Set
    <3>2. Frame("flush", None, {}, FALSE) \in Frames
      BY <1>2, FrameTyped
    <3>3. QED
      BY <1>5, <1>6, <2>1, <3>1, <3>2 DEF FlushFrame
  <2>3. ASSUME ~Notifies(s) PROVE Stays
    BY <1>10, <2>1, <2>3 DEF Set, Stays
  <2>4. QED
    BY <2>2, <2>3
<1>11. ASSUME FlushSnapshots PROVE Retops([Top EXCEPT !.todo = pending])
  <2>1. pending \in SUBSET Effects
    BY DEF TypeOK
  <2>2. QED
    BY <1>1, <1>3, <1>4, <1>11, <2>1, SnapshotTyped DEF FlushSnapshots, Retops
<1>12. ASSUME FlushReturns PROVE Pops
  BY <1>1, <1>3, <1>4, <1>12 DEF FlushReturns, Pops
<1>13. ASSUME NEW e \in Effects, FlushRuns(e)
       PROVE  Launches([Top EXCEPT !.todo = @ \ {e}], Frame("effect", e, {}, FALSE))
  <2>1. stack # <<>> /\ Top.todo \ {e} \in SUBSET Effects
    BY <1>1, <1>13 DEF FlushRuns
  <2>2. Frame("effect", e, {}, FALSE) \in Frames
    BY <1>2, FrameTyped
  <2>3. QED
    <3> DEFINE f == [Top EXCEPT !.todo = Top.todo \ {e}]
               g == Frame("effect", e, {}, FALSE)
    <3>1. f \in Frames /\ f.kind = "flush" /\ f.prev = Top.prev
      BY <1>13, <2>1, SnapshotTyped DEF FlushRuns
    <3>2. g.kind = "effect" /\ g.prev = currentTarget /\ g.who = e
      BY DEF Frame
    <3>3. /\ stack' = <<g>> \o (<<f>> \o Tail(stack)) /\ Top.kind = "flush"
          /\ currentTarget' = e /\ batchDepth' = batchDepth
      BY <1>13 DEF FlushRuns, RunFrom
    <3> HIDE DEF f, g
    <3>4. Launches(f, g)
      BY <2>1, <2>2, <3>1, <3>2, <3>3 DEF Launches, g
    <3>5. QED
      BY <3>4 DEF f, g
<1>14. ASSUME NEW e \in Effects, FlushSkips(e)
       PROVE  Retops([Top EXCEPT !.todo = @ \ {e}])
  <2>1. stack # <<>> /\ Top.todo \ {e} \in SUBSET Effects
    BY <1>1, <1>14 DEF FlushSkips
  <2>2. QED
    <3> DEFINE f == [Top EXCEPT !.todo = Top.todo \ {e}]
    <3>1. f \in Frames /\ f.kind = "flush" /\ f.prev = Top.prev
      BY <1>14, <2>1, SnapshotTyped DEF FlushSkips
    <3>2. /\ stack' = <<f>> \o Tail(stack) /\ Top.kind = "flush"
          /\ currentTarget' = currentTarget /\ batchDepth' = batchDepth
      BY <1>14 DEF FlushSkips
    <3> HIDE DEF f
    <3>3. Retops(f)
      BY <1>1, <1>3, <1>4, <2>1, <3>1, <3>2 DEF Retops
    <3>4. QED
      BY <3>3 DEF f
<1>15. ASSUME NEW e \in Effects, CreateEffect(e)
       PROVE  Pushes(Frame("effect", e, {}, FALSE))
  <2>1. Frame("effect", e, {}, FALSE) \in Frames
    BY <1>2, FrameTyped
  <2>2. QED
    BY <1>5, <1>6, <1>15, <2>1 DEF CreateEffect, RunFrom, Push
<1>16. ASSUME NEW e \in Effects, Dispose(e) PROVE Stays
  BY <1>16 DEF Dispose, Stays
<1>17. ASSUME NEW w \in BOOLEAN, EffectReturns(w) PROVE Pops
  BY <1>1, <1>4, <1>17 DEF EffectReturns, Pops
<1>18. ASSUME BatchEnters PROVE Pushes(Frame("batch", None, {}, FALSE))
  <2>1. Frame("batch", None, {}, FALSE) \in Frames
    BY <1>2, FrameTyped
  <2>2. QED
    BY <1>5, <1>6, <1>18, <2>1 DEF BatchEnters
<1>19. ASSUME BatchLeaves
       PROVE  IF batchDepth = 1
              THEN Retops(Frame("flush", None, {}, throwing)) ELSE Pops
  <2>1. Frame("flush", None, {}, throwing) \in Frames
    BY <1>2, FrameTyped
  <2>2. ASSUME batchDepth = 1 PROVE Retops(Frame("flush", None, {}, throwing))
    <3>1. /\ Frame("flush", None, {}, throwing).kind = "flush"
          /\ Frame("flush", None, {}, throwing).prev = currentTarget
      BY DEF Frame
    <3>2. QED
      BY <1>3, <1>4, <1>19, <2>1, <2>2, <3>1 DEF BatchLeaves, Retops
  <2>3. ASSUME batchDepth # 1 PROVE Pops
    BY <1>1, <1>3, <1>4, <1>19, <2>3 DEF BatchLeaves, Pops
  <2>4. QED
    BY <2>2, <2>3
<1>20. ASSUME UntrackEnters PROVE Pushes(Frame("untrack", None, {}, FALSE))
  <2>1. Frame("untrack", None, {}, FALSE) \in Frames
    BY <1>2, FrameTyped
  <2>2. QED
    BY <1>5, <1>6, <1>20, <2>1 DEF UntrackEnters
<1>21. ASSUME UntrackLeaves PROVE Pops
  BY <1>1, <1>4, <1>21 DEF UntrackLeaves, Pops
<1>22. ASSUME Throw PROVE Stays
  BY <1>22 DEF Throw, Stays
<1>23. ASSUME Unwinds PROVE Pops
  BY <1>1, <1>3, <1>4, <1>23 DEF Unwinds, Pops
<1>24. ASSUME Catches PROVE Stays
  BY <1>24 DEF Catches, Stays
<1>25. ASSUME UNCHANGED vars PROVE Stays
  BY <1>25 DEF vars, Stays
<1>26. QED
  BY <1>7, <1>8, <1>9, <1>10, <1>11, <1>12, <1>13, <1>14, <1>15, <1>16, <1>17,
     <1>18, <1>19, <1>20, <1>21, <1>22, <1>23, <1>24, <1>25

LEMMA NextNests ==
  ASSUME TypeOK, Nested, [Next]_vars
  PROVE  stack' \in Seq(Frames) /\ Nested'
<1> DEFINE Moved == \/ \E f \in Frames : Pushes(f) \/ Retops(f)
                    \/ \E f, g \in Frames : Launches(f, g)
                    \/ Pops \/ Stays
<1>1. \A f : (Pushes(f) => f \in Frames) /\ (Retops(f) => f \in Frames)
  BY DEF Pushes, Retops
<1>2. \A f, g : Launches(f, g) => f \in Frames /\ g \in Frames
  BY DEF Launches
<1>3. Moved
  BY <1>1, <1>2, Moves, Zenon DEF Next
<1>4. QED
  BY <1>3, MovesNest

(* What is on the stack after each move. *)
LEMMA MoveFrames ==
  ASSUME TypeOK
  PROVE  /\ \A f : Pushes(f) =>
              /\ On(stack)' = {f} \cup On(stack)
              /\ Above(stack)' = Above(stack) \cup {<<f, g>> : g \in On(stack)}
         /\ Pops =>
              /\ On(stack) = {Top} \cup On(stack)'
              /\ Above(stack) = Above(stack)' \cup {<<Top, g>> : g \in On(stack)'}
         /\ \A f : Retops(f) =>
              /\ On(stack)' = {f} \cup On(Tail(stack))
              /\ Above(stack)' = Above(Tail(stack)) \cup {<<f, g>> : g \in On(Tail(stack))}
         /\ \A f, g : Launches(f, g) =>
              /\ On(stack)' = {f, g} \cup On(Tail(stack))
              /\ Above(stack)' = Above(Tail(stack))
                                   \cup {<<f, h>> : h \in On(Tail(stack))}
                                   \cup {<<g, h>> : h \in {f} \cup On(Tail(stack))}
         /\ Stays => On(stack)' = On(stack) /\ Above(stack)' = Above(stack)
<1>1. stack \in Seq(Frames)
  BY DEF TypeOK
<1>2. stack # <<>> => Tail(stack) \in Seq(Frames)
  BY <1>1, PoppedFrames
<1>3. ASSUME NEW f, Pushes(f)
      PROVE  /\ On(stack)' = {f} \cup On(stack)
             /\ Above(stack)' = Above(stack) \cup {<<f, g>> : g \in On(stack)}
  <2>1. f \in Frames /\ stack' = <<f>> \o stack
    BY <1>3 DEF Pushes
  <2>2. /\ On(<<f>> \o stack) = {f} \cup On(stack)
        /\ Above(<<f>> \o stack) = Above(stack) \cup {<<f, g>> : g \in On(stack)}
    BY <1>1, <2>1, PushFrames
  <2>3. QED
    BY <2>1, <2>2
<1>4. ASSUME Pops
      PROVE  /\ On(stack) = {Top} \cup On(stack)'
             /\ Above(stack) = Above(stack)' \cup {<<Top, g>> : g \in On(stack)'}
  <2>1. stack # <<>> /\ stack' = Tail(stack)
    BY <1>4 DEF Pops
  <2>2. QED
    BY <1>1, <2>1, PoppedFrames
<1>5. ASSUME NEW f, Retops(f)
      PROVE  /\ On(stack)' = {f} \cup On(Tail(stack))
             /\ Above(stack)' = Above(Tail(stack)) \cup {<<f, g>> : g \in On(Tail(stack))}
  <2>1. f \in Frames /\ stack' = <<f>> \o Tail(stack) /\ Tail(stack) \in Seq(Frames)
    BY <1>2, <1>5 DEF Retops
  <2>2. /\ On(<<f>> \o Tail(stack)) = {f} \cup On(Tail(stack))
        /\ Above(<<f>> \o Tail(stack))
              = Above(Tail(stack)) \cup {<<f, g>> : g \in On(Tail(stack))}
    <3> DEFINE r == Tail(stack)
    <3>1. f \in Frames /\ r \in Seq(Frames)
      BY <2>1
    <3> HIDE DEF r
    <3>2. /\ On(<<f>> \o r) = {f} \cup On(r)
          /\ Above(<<f>> \o r) = Above(r) \cup {<<f, g>> : g \in On(r)}
      BY <3>1, PushFrames
    <3>3. QED
      BY <3>2 DEF r
  <2>3. QED
    BY <2>1, <2>2
<1>6. ASSUME NEW f, NEW g, Launches(f, g)
      PROVE  /\ On(stack)' = {f, g} \cup On(Tail(stack))
             /\ Above(stack)' = Above(Tail(stack))
                                  \cup {<<f, h>> : h \in On(Tail(stack))}
                                  \cup {<<g, h>> : h \in {f} \cup On(Tail(stack))}
  <2> DEFINE s == <<f>> \o Tail(stack)
  <2>1. f \in Frames /\ g \in Frames /\ stack' = <<g>> \o s /\ Tail(stack) \in Seq(Frames)
    BY <1>2, <1>6 DEF Launches
  <2>2. /\ s \in Seq(Frames)
        /\ On(s) = {f} \cup On(Tail(stack))
        /\ Above(s) = Above(Tail(stack)) \cup {<<f, h>> : h \in On(Tail(stack))}
    <3> DEFINE r == Tail(stack)
    <3>1. f \in Frames /\ r \in Seq(Frames)
      BY <2>1
    <3> HIDE DEF r
    <3>2. /\ On(<<f>> \o r) = {f} \cup On(r)
          /\ Above(<<f>> \o r) = Above(r) \cup {<<f, h>> : h \in On(r)}
      BY <3>1, PushFrames
    <3>3. <<f>> \o r \in Seq(Frames)
      BY <3>1, PushStack
    <3>4. QED
      BY <3>2, <3>3 DEF r
  <2> HIDE DEF s
  <2>3. /\ On(<<g>> \o s) = {g} \cup On(s)
        /\ Above(<<g>> \o s) = Above(s) \cup {<<g, h>> : h \in On(s)}
    BY <2>1, <2>2, PushFrames
  <2>4. QED
    BY <2>1, <2>2, <2>3
<1>7. Stays => On(stack)' = On(stack) /\ Above(stack)' = Above(stack)
  BY DEF Stays
<1>8. QED
  BY <1>3, <1>4, <1>5, <1>6, <1>7

LEMMA RunTyped ==
  ASSUME TypeOK, NEW e \in Effects, NEW rest, RunFrom(e, rest)
  PROVE  /\ scheduled' \in [Effects -> BOOLEAN] /\ running' \in [Effects -> BOOLEAN]
         /\ cleanup' \in [Effects -> BOOLEAN] /\ deps' \in [Nodes -> SUBSET Signals]
         /\ DOMAIN seen' = Nodes /\ currentTarget' \in Nodes \cup {None}
BY DEF RunFrom, TypeOK, Nodes

LEMMA NextTyped ==
  ASSUME TypeOK, Nested, [Next]_vars
  PROVE  TypeOK'
<1>1. stack' \in Seq(Frames)
  BY NextNests
<1>2. stack # <<>> => /\ Top.prev \in Nodes \cup {None}
                      /\ Top.kind = "effect" => Top.who \in Effects
                      /\ Top.kind = "compute" => Top.who \in Computeds
                      /\ Top.rethrow \in BOOLEAN
  BY PoppedFrames DEF Frames, TypeOK
<1>3. ASSUME NEW x \in Signals
      PROVE  Track(x) \in [Nodes -> SUBSET Signals]
  BY DEF Track, TypeOK
<1>4. ASSUME NEW x \in Signals, GetClean(x) PROVE TypeOK'
  BY <1>1, <1>3, <1>4 DEF GetClean, TypeOK, computedVars, effectVars, exceptionVars
<1>5. ASSUME NEW x \in Signals, GetDirty(x) PROVE TypeOK'
  BY <1>1, <1>3, <1>5 DEF GetDirty, TypeOK, computedVars, effectVars, exceptionVars, Nodes
<1>6. ASSUME ComputeReturns PROVE TypeOK'
  BY <1>1, <1>2, <1>6 DEF ComputeReturns, TypeOK, effectVars, exceptionVars
<1>7. ASSUME NEW s \in States, NEW v \in Values, Set(s, v) PROVE TypeOK'
  <2>1. PICK M \in SUBSET Computeds :
          /\ dirty' = [c \in Computeds |-> dirty[c] \/ c \in M]
          /\ LET E == {e \in Effects \cap Readers(M \cup {s}) : Schedulable(e)}
             IN  /\ scheduled' = [e \in Effects |-> scheduled[e] \/ e \in E]
                 /\ pending' = pending \cup E
    BY <1>7 DEF Set
  <2>2. dirty' \in [Computeds -> BOOLEAN] /\ scheduled' \in [Effects -> BOOLEAN]
    BY <2>1, Zenon DEF TypeOK
  <2>3. pending' \subseteq Effects
    BY <2>1 DEF TypeOK
  <2>4. val' \in [States -> Values]
    BY <1>7 DEF Set, TypeOK
  <2>5. UNCHANGED <<cached, deps, seen, live, running, cleanup, handles, currentTarget,
                    throwing, thrown>>
    BY <1>7 DEF Set, exceptionVars
  <2>6. QED
    BY <1>1, <2>2, <2>3, <2>4, <2>5 DEF TypeOK
<1>8. ASSUME FlushSnapshots \/ FlushReturns PROVE TypeOK'
  BY <1>1, <1>2, <1>8 DEF FlushSnapshots, FlushReturns, TypeOK, computedVars,
     effectVars, exceptionVars
<1>9. ASSUME NEW e \in Effects, FlushRuns(e) \/ CreateEffect(e) PROVE TypeOK'
  <2>1. PICK rest : RunFrom(e, rest)
    BY <1>9 DEF FlushRuns, CreateEffect
  <2>2. /\ live' \in [Effects -> {"new", "live", "disposed"}]
        /\ UNCHANGED <<val, computedVars, handles, pending, exceptionVars>>
    BY <1>9 DEF FlushRuns, CreateEffect, TypeOK
  <2>3. QED
    BY <1>1, <2>1, <2>2, RunTyped DEF TypeOK, computedVars, exceptionVars
<1>10. ASSUME NEW e \in Effects, FlushSkips(e) \/ Dispose(e) PROVE TypeOK'
  BY <1>1, <1>10 DEF FlushSkips, Dispose, TypeOK, computedVars, effectVars,
     exceptionVars, Nodes
<1>11. ASSUME NEW w \in BOOLEAN, EffectReturns(w) PROVE TypeOK'
  BY <1>1, <1>2, <1>11 DEF EffectReturns, TypeOK, computedVars, exceptionVars
<1>12. ASSUME BatchEnters \/ BatchLeaves \/ UntrackEnters \/ UntrackLeaves PROVE TypeOK'
  BY <1>1, <1>2, <1>12 DEF BatchEnters, BatchLeaves, UntrackEnters, UntrackLeaves,
     TypeOK, computedVars, effectVars, exceptionVars
<1>13. ASSUME Throw \/ Unwinds \/ Catches PROVE TypeOK'
  BY <1>1, <1>2, <1>13 DEF Throw, Unwinds, Catches, TypeOK, computedVars,
     effectVars, exceptionVars
<1>14. ASSUME UNCHANGED vars PROVE TypeOK'
  BY <1>14 DEF vars, TypeOK, computedVars, effectVars, exceptionVars
<1>15. QED
  BY <1>4, <1>5, <1>6, <1>7, <1>8, <1>9, <1>10, <1>11, <1>12, <1>13, <1>14 DEF Next

-----------------------------------------------------------------------------
(* What an outermost call leaves behind.                                   *)

(* The running effects are those with a frame, and each has one frame.     *)
RunsAreOnStack ==
  /\ \A f \in On(stack) : f.kind = "effect" => running[f.who]
  /\ \A e \in Effects : running[e] => \E f \in On(stack) : f.kind = "effect" /\ f.who = e
  /\ \A p \in Above(stack) :
        p[1].kind = "effect" /\ p[2].kind = "effect" => p[1].who # p[2].who
  /\ \A e \in Effects : live[e] = "new" => ~running[e]

(* No batch is open below a flush.                                         *)
FlushesAreOutside ==
  \A p \in Above(stack) : p[1].kind = "flush" => p[2].kind # "batch"

(* Pending effects wait for the end of a batch or for the flush that is    *)
(* about to take them.                                                     *)
PendingIsHeld ==
  pending # {} =>
    \/ batchDepth # 0
    \/ stack # <<>> /\ Top.kind = "flush" /\ Top.todo = {} /\ ~throwing

Orderly == TypeOK /\ Nested /\ RunsAreOnStack /\ FlushesAreOutside /\ PendingIsHeld

LEMMA StackTyped ==
  ASSUME TypeOK
  PROVE  /\ On(stack) \subseteq Frames /\ Above(stack) \subseteq On(stack) \X On(stack)
         /\ stack = <<>> <=> On(stack) = {}
         /\ stack # <<>> => /\ Top \in On(stack)
                            /\ On(stack) = {Top} \cup On(Tail(stack))
                            /\ Above(stack) = Above(Tail(stack))
                                                \cup {<<Top, g>> : g \in On(Tail(stack))}
                            /\ On(Tail(stack)) \subseteq Frames
<1>1. stack \in Seq(Frames)
  BY DEF TypeOK
<1>2. /\ On(stack) \subseteq Frames /\ Above(stack) \subseteq On(stack) \X On(stack)
      /\ stack = <<>> <=> On(stack) = {}
  BY <1>1, FramesOfStack
<1>3. QED
  BY <1>1, <1>2, PoppedFrames

(* A flush on top runs outside every batch.                                *)
LEMMA FlushIsOutside ==
  ASSUME TypeOK, Nested, FlushesAreOutside, stack # <<>>, Top.kind = "flush"
  PROVE  batchDepth = 0 /\ \A g \in On(stack) : g.kind # "batch"
<1>1. ASSUME NEW g \in On(Tail(stack)) PROVE g.kind # "batch"
  <2>1. <<Top, g>> \in Above(stack)
    BY StackTyped
  <2>2. <<Top, g>>[1].kind = "flush" => <<Top, g>>[2].kind # "batch"
    BY <2>1 DEF FlushesAreOutside
  <2>3. QED
    BY <2>2
<1>2. \A g \in On(stack) : g.kind # "batch"
  BY <1>1, StackTyped
<1>3. QED
  BY <1>2, TopFacts DEF TypeOK

LEMMA RunsKept ==
  ASSUME TypeOK, RunsAreOnStack, UNCHANGED running,
         \A e \in Effects : live'[e] = "new" => live[e] = "new",
         \/ \E f : Pushes(f) /\ f.kind # "effect"
         \/ Pops /\ Top.kind # "effect"
         \/ \E f : Retops(f) /\ Top.kind # "effect"
         \/ Stays
  PROVE  RunsAreOnStack'
<1>1. \A e \in Effects : live'[e] = "new" => ~running'[e]
  BY DEF RunsAreOnStack
<1>2. ASSUME NEW f, Pushes(f), f.kind # "effect" PROVE RunsAreOnStack'
  <2>1. /\ On(stack)' = {f} \cup On(stack)
        /\ Above(stack)' = Above(stack) \cup {<<f, g>> : g \in On(stack)}
    BY <1>2, MoveFrames
  <2>2. QED
    BY <1>1, <1>2, <2>1 DEF RunsAreOnStack
<1>3. ASSUME Pops, Top.kind # "effect" PROVE RunsAreOnStack'
  <2>1. /\ On(stack) = {Top} \cup On(stack)'
        /\ Above(stack) = Above(stack)' \cup {<<Top, g>> : g \in On(stack)'}
    BY <1>3, MoveFrames
  <2>2. QED
    BY <1>1, <1>3, <2>1 DEF RunsAreOnStack
<1>4. ASSUME NEW f, Retops(f), Top.kind # "effect" PROVE RunsAreOnStack'
  <2>1. /\ On(stack)' = {f} \cup On(Tail(stack))
        /\ Above(stack)' = Above(Tail(stack)) \cup {<<f, g>> : g \in On(Tail(stack))}
    BY <1>4, MoveFrames
  <2>2. /\ stack # <<>> /\ f.kind = "flush"
        /\ On(stack) = {Top} \cup On(Tail(stack))
        /\ Above(Tail(stack)) \subseteq Above(stack)
    BY <1>4, StackTyped DEF Retops
  <2>3. QED
    BY <1>1, <1>4, <2>1, <2>2 DEF RunsAreOnStack
<1>5. ASSUME Stays PROVE RunsAreOnStack'
  <2>1. On(stack)' = On(stack) /\ Above(stack)' = Above(stack)
    BY <1>5, MoveFrames
  <2>2. QED
    BY <1>1, <2>1 DEF RunsAreOnStack
<1>6. QED
  BY <1>2, <1>3, <1>4, <1>5

LEMMA RunsStart ==
  ASSUME TypeOK, RunsAreOnStack, NEW e \in Effects, ~running[e],
         running' = [running EXCEPT ![e] = TRUE],
         live'[e] # "new",
         \A x \in Effects : live'[x] = "new" => live[x] = "new",
         NEW g, g.kind = "effect", g.who = e,
         Pushes(g) \/ \E f : Launches(f, g)
  PROVE  RunsAreOnStack'
<1>1. \A x \in Effects : live'[x] = "new" => ~running'[x]
  BY DEF RunsAreOnStack, TypeOK
<1>2. /\ \A x \in Effects : running'[x] <=> running[x] \/ x = e
      /\ \A h \in On(stack) : h.kind = "effect" => h.who \in Effects /\ h.who # e
  <2>1. \A h \in On(stack) : h.kind = "effect" => h.who \in Effects
    BY StackTyped DEF Frames
  <2>2. QED
    BY <2>1 DEF RunsAreOnStack, TypeOK
<1>3. CASE Pushes(g)
  <2>1. /\ On(stack)' = {g} \cup On(stack)
        /\ Above(stack)' = Above(stack) \cup {<<g, h>> : h \in On(stack)}
    BY <1>3, MoveFrames
  <2>2. QED
    BY <1>1, <1>2, <2>1 DEF RunsAreOnStack
<1>4. ASSUME NEW f, Launches(f, g) PROVE RunsAreOnStack'
  <2>1. /\ On(stack)' = {f, g} \cup On(Tail(stack))
        /\ Above(stack)' = Above(Tail(stack))
                             \cup {<<f, h>> : h \in On(Tail(stack))}
                             \cup {<<g, h>> : h \in {f} \cup On(Tail(stack))}
    BY <1>4, MoveFrames
  <2>2. /\ stack # <<>> /\ f.kind = "flush" /\ Top.kind = "flush"
        /\ On(stack) = {Top} \cup On(Tail(stack))
        /\ Above(Tail(stack)) \subseteq Above(stack)
    BY <1>4, StackTyped DEF Launches
  <2>3. /\ \A h \in On(stack)' : h.kind = "effect" => h = g \/ h \in On(stack)
        /\ \A h \in On(stack) : h.kind = "effect" => h \in On(stack)'
    BY <2>1, <2>2
  <2>4. \A p \in Above(stack)' : p[1].kind = "effect" /\ p[2].kind = "effect" =>
            p \in Above(stack) \/ (p[1] = g /\ p[2] \in On(stack))
    <3> TAKE p \in Above(stack)'
    <3>1. CASE p \in Above(Tail(stack))
      BY <2>2, <3>1
    <3>2. CASE p \in {<<f, h>> : h \in On(Tail(stack))}
      BY <2>2, <3>2
    <3>3. CASE p \in {<<g, h>> : h \in {f} \cup On(Tail(stack))}
      BY <2>2, <3>3
    <3>4. QED
      BY <2>1, <3>1, <3>2, <3>3
  <2>5. \A h \in On(stack)' : h.kind = "effect" => running'[h.who]
    BY <1>2, <2>3 DEF RunsAreOnStack
  <2>6. ASSUME NEW x \in Effects, running'[x]
        PROVE  \E h \in On(stack)' : h.kind = "effect" /\ h.who = x
    <3>1. CASE x = e
      BY <2>1, <3>1
    <3>2. CASE running[x]
      BY <2>3, <3>2 DEF RunsAreOnStack
    <3>3. QED
      BY <1>2, <2>6, <3>1, <3>2
  <2>7. \A p \in Above(stack)' :
            p[1].kind = "effect" /\ p[2].kind = "effect" => p[1].who # p[2].who
    BY <1>2, <2>4 DEF RunsAreOnStack
  <2>8. QED
    BY <1>1, <2>5, <2>6, <2>7 DEF RunsAreOnStack
<1>5. QED
  BY <1>3, <1>4

LEMMA RunsEnd ==
  ASSUME TypeOK, RunsAreOnStack, Pops, Top.kind = "effect", UNCHANGED live,
         running' = [running EXCEPT ![Top.who] = FALSE]
  PROVE  RunsAreOnStack'
<1>1. /\ On(stack) = {Top} \cup On(stack)'
      /\ Above(stack) = Above(stack)' \cup {<<Top, g>> : g \in On(stack)'}
  BY MoveFrames
<1>2. Top.who \in Effects
  BY <1>1, StackTyped DEF Frames
<1>3. \A h \in On(stack)' : h.kind = "effect" => h.who # Top.who /\ h.who \in Effects
  <2>1. ASSUME NEW h \in On(stack)', h.kind = "effect" PROVE h.who # Top.who
    <3>1. <<Top, h>> \in Above(stack)
      BY <1>1
    <3>2. /\ <<Top, h>>[1].kind = "effect" /\ <<Top, h>>[2].kind = "effect"
             => <<Top, h>>[1].who # <<Top, h>>[2].who
      BY <3>1 DEF RunsAreOnStack
    <3>3. QED
      BY <2>1, <3>2
  <2>2. \A h \in On(stack)' : h.kind = "effect" => h.who \in Effects
    BY <1>1, StackTyped DEF Frames
  <2>3. QED
    BY <2>1, <2>2
<1>4. /\ \A h \in On(stack)' : h.kind = "effect" => running'[h.who]
      /\ \A e \in Effects : live'[e] = "new" => ~running'[e]
  BY <1>1, <1>2, <1>3 DEF RunsAreOnStack, TypeOK
<1>5. ASSUME NEW e \in Effects, running'[e]
      PROVE  \E f \in On(stack)' : f.kind = "effect" /\ f.who = e
  <2>1. e # Top.who /\ running[e]
    BY <1>2, <1>5 DEF TypeOK
  <2>2. QED
    BY <1>1, <2>1 DEF RunsAreOnStack
<1>6. \A p \in Above(stack)' :
        p[1].kind = "effect" /\ p[2].kind = "effect" => p[1].who # p[2].who
  BY <1>1 DEF RunsAreOnStack
<1>7. QED
  BY <1>4, <1>5, <1>6 DEF RunsAreOnStack

LEMMA DepthIsZero ==
  ASSUME NEW s \in Seq(Frames), NEW n, DepthCounts(s, n)
  PROVE  n = 0 <=> \A g \in On(s) : g.kind # "batch"
<1>1. CASE s = <<>>
  BY <1>1, DepthOfEmpty, EmptyFrames
<1>2. CASE s # <<>>
  <2>1. Head(s) \in Frames /\ Tail(s) \in Seq(Frames) /\ s = <<Head(s)>> \o Tail(s)
    BY <1>2, PopStack
  <2> DEFINE f == Head(s)
             r == Tail(s)
  <2>2. f \in Frames /\ r \in Seq(Frames) /\ s = <<f>> \o r
    BY <2>1
  <2> HIDE DEF f, r
  <2>3. n = 0 <=> \A g \in On(<<f>> \o r) : g.kind # "batch"
    BY <2>2, DepthPop
  <2>4. QED
    BY <2>2, <2>3
<1>3. QED
  BY <1>1, <1>2

LEMMA FlushesKept ==
  ASSUME TypeOK, Nested, FlushesAreOutside,
         \/ \E f : Pushes(f) /\ (f.kind = "flush" => batchDepth = 0)
         \/ \E f : Retops(f) /\ batchDepth - IsBatch(Top) = 0
         \/ \E f, g : Launches(f, g)
         \/ Pops
         \/ Stays
  PROVE  FlushesAreOutside'
<1>1. /\ batchDepth = 0 <=> \A g \in On(stack) : g.kind # "batch"
      /\ stack # <<>> => /\ Above(Tail(stack)) \subseteq Above(stack)
                         /\ Tail(stack) \in Seq(Frames)
                         /\ DepthCounts(Tail(stack), batchDepth - IsBatch(Top))
  BY TopFacts, StackTyped, PoppedFrames DEF TypeOK
<1>2. ASSUME NEW f, Pushes(f), f.kind = "flush" => batchDepth = 0
      PROVE  FlushesAreOutside'
  <2>1. Above(stack)' = Above(stack) \cup {<<f, g>> : g \in On(stack)}
    BY <1>2, MoveFrames
  <2>2. QED
    BY <1>1, <1>2, <2>1 DEF FlushesAreOutside
<1>3. ASSUME stack # <<>>, batchDepth - IsBatch(Top) = 0
      PROVE  /\ \A g \in On(Tail(stack)) : g.kind # "batch"
             /\ \A p \in Above(Tail(stack)) : p[1].kind = "flush" => p[2].kind # "batch"
  <2>1. \A g \in On(Tail(stack)) : g.kind # "batch"
    BY <1>1, <1>3, DepthIsZero
  <2>2. QED
    BY <1>1, <1>3, <2>1 DEF FlushesAreOutside
<1>4. ASSUME NEW f, Retops(f), batchDepth - IsBatch(Top) = 0 PROVE FlushesAreOutside'
  <2>1. Above(stack)' = Above(Tail(stack)) \cup {<<f, g>> : g \in On(Tail(stack))}
    BY <1>4, MoveFrames
  <2>2. stack # <<>>
    BY <1>4 DEF Retops
  <2>3. QED
    BY <1>3, <1>4, <2>1, <2>2 DEF FlushesAreOutside
<1>5. ASSUME NEW f, NEW g, Launches(f, g) PROVE FlushesAreOutside'
  <2>1. /\ stack # <<>> /\ Top.kind = "flush" /\ f.kind = "flush" /\ g.kind = "effect"
        /\ Above(stack)' = Above(Tail(stack))
                             \cup {<<f, h>> : h \in On(Tail(stack))}
                             \cup {<<g, h>> : h \in {f} \cup On(Tail(stack))}
    BY <1>5, MoveFrames DEF Launches
  <2>2. batchDepth - IsBatch(Top) = 0
    BY <2>1, FlushIsOutside DEF IsBatch
  <2>3. QED
    BY <1>3, <2>1, <2>2 DEF FlushesAreOutside
<1>6. ASSUME Pops PROVE FlushesAreOutside'
  <2>1. Above(stack)' \subseteq Above(stack)
    BY <1>6, MoveFrames
  <2>2. QED
    BY <2>1 DEF FlushesAreOutside
<1>7. ASSUME Stays PROVE FlushesAreOutside'
  BY <1>7, MoveFrames DEF FlushesAreOutside
<1>8. QED
  BY <1>2, <1>4, <1>5, <1>6, <1>7

(* A change nobody reads marks nothing. *)
LEMMA UnreadMarksNothing ==
  ASSUME TypeOK, NEW s \in States, NEW M \in SUBSET Computeds, Marked(M, s),
         Readers({s}) = {}
  PROVE  Readers(M \cup {s}) = {}
<1>1. {} \cup {s} = {s}
  OBVIOUS
<1>2. Closed({}, s)
  BY <1>1 DEF Closed
<1>3. M = {}
  BY <1>2 DEF Marked
<1>4. QED
  BY <1>1, <1>3

LEMMA UserHolds ==
  ASSUME PendingIsHeld, UserTurn, pending # {}
  PROVE  batchDepth # 0
BY DEF PendingIsHeld, UserTurn

LEMMA InitOrderly == Init => Orderly
<1> SUFFICES ASSUME Init PROVE Orderly
  OBVIOUS
<1>1. /\ currentTarget = None /\ batchDepth = 0 /\ stack = <<>> /\ pending = {}
      /\ running = [e \in Effects |-> FALSE]
  BY DEF Init
<1>2. TypeOK
  <2>1. stack \in Seq(Frames)
    BY <1>1
  <2>2. QED
    BY <2>1, ProgramAssumption DEF Init, TypeOK
<1>3. Nested
  BY <1>1, ChainOfEmpty, DepthOfEmpty DEF Nested
<1>4. On(stack) = {} /\ Above(stack) = {}
  BY <1>1, EmptyFrames
<1>5. QED
  BY <1>1, <1>2, <1>3, <1>4 DEF Orderly, RunsAreOnStack, FlushesAreOutside, PendingIsHeld

LEMMA NextOrderly ==
  ASSUME Orderly, [Next]_vars
  PROVE  Orderly'
<1> USE DEF Orderly
<1>1. TypeOK' /\ Nested'
  BY NextTyped, NextNests DEF TypeOK
<1>2. batchDepth \in Nat /\ (pending # {} /\ UserTurn => batchDepth # 0)
  BY TopFacts, UserHolds DEF TypeOK
<1> DEFINE Good == RunsAreOnStack' /\ FlushesAreOutside' /\ PendingIsHeld'
<1>3. ASSUME NEW x \in Signals, GetClean(x) PROVE Good
  <2>1. /\ Stays /\ UNCHANGED <<running, live, pending, stack, batchDepth, throwing>>
        /\ UserTurn
    BY <1>3, Moves DEF GetClean, effectVars, exceptionVars
  <2>2. PendingIsHeld'
    BY <1>2, <2>1 DEF PendingIsHeld
  <2>3. QED
    BY <2>1, <2>2, RunsKept, FlushesKept
<1>4. ASSUME NEW x \in Signals, GetDirty(x) PROVE Good
  <2> DEFINE f == Frame("compute", x, {}, FALSE)
  <2>1. Pushes(f) /\ UserTurn /\ UNCHANGED <<running, live, pending, batchDepth>>
    BY <1>4, Moves DEF GetDirty, effectVars
  <2>2. f.kind = "compute"
    BY DEF Frame
  <2> HIDE DEF f
  <2>3. PendingIsHeld'
    BY <1>2, <2>1 DEF PendingIsHeld
  <2>4. QED
    BY <2>1, <2>2, <2>3, RunsKept, FlushesKept
<1>5. ASSUME ComputeReturns PROVE Good
  <2>1. /\ Pops /\ Top.kind = "compute"
        /\ UNCHANGED <<running, live, pending, batchDepth>>
    BY <1>5, Moves DEF ComputeReturns, effectVars
  <2>2. PendingIsHeld'
    BY <2>1 DEF PendingIsHeld
  <2>3. QED
    BY <2>1, <2>2, RunsKept, FlushesKept
<1>6. ASSUME NEW s \in States, NEW v \in Values, Set(s, v) PROVE Good
  <2>1. PICK M \in SUBSET Computeds :
          /\ Marked(M, s)
          /\ pending' = pending \cup {e \in Effects \cap Readers(M \cup {s}) : Schedulable(e)}
    BY <1>6 DEF Set
  <2>2. /\ UserTurn /\ UNCHANGED <<running, live, batchDepth, throwing>>
        /\ IF Notifies(s) THEN Pushes(FlushFrame) ELSE Stays
    BY <1>6, Moves DEF Set, exceptionVars
  <2>3. /\ FlushFrame.kind = "flush" /\ FlushFrame.todo = {}
    BY DEF FlushFrame, Frame
  <2>4. PendingIsHeld'
    <3>1. CASE batchDepth # 0
      BY <2>2, <3>1 DEF PendingIsHeld
    <3>2. CASE Notifies(s)
      <4>1. /\ stack' = <<FlushFrame>> \o stack /\ FlushFrame \in Frames
            /\ stack \in Seq(Frames)
        BY <2>2, <3>2 DEF Pushes, TypeOK
      <4>2. stack' # <<>> /\ Head(stack') = FlushFrame
        BY <4>1, PushStack
      <4>3. ~throwing'
        BY <2>2 DEF UserTurn
      <4>4. QED
        BY <2>3, <4>2, <4>3 DEF PendingIsHeld, Top
    <3>3. CASE batchDepth = 0 /\ ~Notifies(s)
      <4>1. pending = {}
        BY <1>2, <2>2, <3>3
      <4>2. Readers({s}) = {}
        BY <3>3 DEF Notifies
      <4>3. pending' = {}
        BY <2>1, <4>1, <4>2, UnreadMarksNothing
      <4>4. QED
        BY <4>3 DEF PendingIsHeld
    <3>4. QED
      BY <3>1, <3>2, <3>3
  <2>5. RunsAreOnStack'
    BY <2>2, <2>3, RunsKept
  <2>6. FlushesAreOutside'
    BY <2>2, <2>3, FlushesKept DEF Notifies
  <2>7. QED
    BY <2>4, <2>5, <2>6
<1>7. ASSUME FlushSnapshots PROVE Good
  <2>1. /\ Retops([Top EXCEPT !.todo = pending]) /\ stack # <<>> /\ Top.kind = "flush"
        /\ pending' = {} /\ UNCHANGED <<running, live>>
    BY <1>7, Moves DEF FlushSnapshots
  <2>2. batchDepth - IsBatch(Top) = 0
    BY <2>1, FlushIsOutside DEF IsBatch
  <2>3. QED
    BY <2>1, <2>2, RunsKept, FlushesKept DEF PendingIsHeld
<1>8. ASSUME FlushReturns PROVE Good
  <2>1. /\ Pops /\ Top.kind = "flush" /\ pending' = {} /\ UNCHANGED <<running, live>>
    BY <1>8, Moves DEF FlushReturns, effectVars
  <2>2. QED
    BY <2>1, RunsKept, FlushesKept DEF PendingIsHeld
<1>9. ASSUME NEW e \in Effects, FlushRuns(e) PROVE Good
  <2> DEFINE g == Frame("effect", e, {}, FALSE)
  <2>1. PICK f : Launches(f, g)
    BY <1>9, Moves
  <2>2. g.kind = "effect" /\ g.who = e
    BY DEF Frame
  <2>3. /\ stack # <<>> /\ Top.kind = "flush" /\ Top.todo # {}
        /\ ~running[e] /\ live[e] = "live" /\ UNCHANGED <<live, pending>>
        /\ running' = [running EXCEPT ![e] = TRUE]
    BY <1>9 DEF FlushRuns, RunFrom, Runnable
  <2> HIDE DEF g
  <2>4. RunsAreOnStack'
    BY <2>1, <2>2, <2>3, RunsStart
  <2>5. FlushesAreOutside'
    BY <2>1, FlushesKept
  <2>6. PendingIsHeld'
    BY <2>3, FlushIsOutside DEF PendingIsHeld
  <2>7. QED
    BY <2>4, <2>5, <2>6
<1>10. ASSUME NEW e \in Effects, FlushSkips(e) PROVE Good
  <2>1. /\ Retops([Top EXCEPT !.todo = @ \ {e}]) /\ stack # <<>> /\ Top.kind = "flush"
        /\ Top.todo # {} /\ UNCHANGED <<pending, running, live>>
    BY <1>10, Moves DEF FlushSkips, effectVars
  <2>2. batchDepth = 0 /\ batchDepth - IsBatch(Top) = 0
    BY <2>1, FlushIsOutside DEF IsBatch
  <2>3. pending = {}
    BY <2>1, <2>2 DEF PendingIsHeld
  <2>4. QED
    BY <2>1, <2>2, <2>3, RunsKept, FlushesKept DEF PendingIsHeld
<1>11. ASSUME NEW e \in Effects, CreateEffect(e) PROVE Good
  <2> DEFINE g == Frame("effect", e, {}, FALSE)
  <2>1. Pushes(g)
    BY <1>11, Moves
  <2>2. g.kind = "effect" /\ g.who = e
    BY DEF Frame
  <2>3. /\ UserTurn /\ live[e] = "new" /\ live' = [live EXCEPT ![e] = "live"]
        /\ UNCHANGED <<pending, batchDepth>>
        /\ running' = [running EXCEPT ![e] = TRUE]
    BY <1>11 DEF CreateEffect, RunFrom
  <2> HIDE DEF g
  <2>4. /\ live'[e] # "new" /\ ~running[e]
        /\ \A x \in Effects : live'[x] = "new" => live[x] = "new"
    BY <2>3 DEF TypeOK, RunsAreOnStack
  <2>5. RunsAreOnStack'
    BY <2>1, <2>2, <2>3, <2>4, RunsStart
  <2>6. FlushesAreOutside'
    BY <2>1, <2>2, FlushesKept
  <2>7. PendingIsHeld'
    BY <1>2, <2>3 DEF PendingIsHeld
  <2>8. QED
    BY <2>5, <2>6, <2>7
<1>12. ASSUME NEW e \in Effects, Dispose(e) PROVE Good
  <2>1. /\ Stays /\ UserTurn /\ pending' \subseteq pending
        /\ UNCHANGED <<running, batchDepth>>
        /\ \A x \in Effects : live'[x] = "new" => live[x] = "new"
    BY <1>12, Moves DEF Dispose, TypeOK
  <2>2. PendingIsHeld'
    BY <1>2, <2>1 DEF PendingIsHeld
  <2>3. QED
    BY <2>1, <2>2, RunsKept, FlushesKept
<1>13. ASSUME NEW w \in BOOLEAN, EffectReturns(w) PROVE Good
  <2>1. /\ Pops /\ Top.kind = "effect" /\ UNCHANGED <<live, pending, batchDepth>>
        /\ running' = [running EXCEPT ![Top.who] = FALSE]
    BY <1>13, Moves DEF EffectReturns
  <2>2. PendingIsHeld'
    BY <2>1 DEF PendingIsHeld
  <2>3. QED
    BY <2>1, <2>2, RunsEnd, FlushesKept
<1>14. ASSUME BatchEnters PROVE Good
  <2> DEFINE f == Frame("batch", None, {}, FALSE)
  <2>1. Pushes(f) /\ batchDepth' = batchDepth + 1 /\ UNCHANGED <<running, live>>
    BY <1>14, Moves DEF BatchEnters, effectVars
  <2>2. f.kind = "batch"
    BY DEF Frame
  <2> HIDE DEF f
  <2>3. PendingIsHeld'
    BY <1>2, <2>1 DEF PendingIsHeld
  <2>4. QED
    BY <2>1, <2>2, <2>3, RunsKept, FlushesKept
<1>15. ASSUME BatchLeaves PROVE Good
  <2>1. /\ stack # <<>> /\ Top.kind = "batch" /\ batchDepth' = batchDepth - 1
        /\ UNCHANGED <<running, live, pending>>
    BY <1>15 DEF BatchLeaves, effectVars
  <2>2. IsBatch(Top) = 1 /\ batchDepth - 1 \in Nat
    BY <2>1, TopFacts DEF IsBatch, TypeOK
  <2>3. CASE batchDepth = 1
    <3> DEFINE f == Frame("flush", None, {}, throwing)
    <3>1. Retops(f) /\ ~throwing'
      BY <1>15, <2>3, Moves DEF BatchLeaves
    <3>2. f.kind = "flush" /\ f.todo = {}
      BY DEF Frame
    <3> HIDE DEF f
    <3>3. stack' # <<>> /\ Head(stack') = f
      <4>1. Tail(stack) \in Seq(Frames) /\ f \in Frames /\ stack' = <<f>> \o Tail(stack)
        BY <2>1, <3>1, PoppedFrames DEF Retops, TypeOK
      <4> DEFINE r == Tail(stack)
      <4>2. r \in Seq(Frames) /\ f \in Frames /\ stack' = <<f>> \o r
        BY <4>1
      <4> HIDE DEF r
      <4>3. <<f>> \o r # <<>> /\ Head(<<f>> \o r) = f
        BY <4>2, PushStack
      <4>4. QED
        BY <4>2, <4>3
    <3>4. PendingIsHeld'
      BY <3>1, <3>2, <3>3 DEF PendingIsHeld, Top
    <3>5. QED
      BY <2>1, <2>2, <2>3, <3>1, <3>4, RunsKept, FlushesKept
  <2>4. CASE batchDepth # 1
    <3>1. Pops
      BY <1>15, <2>4, Moves
    <3>2. PendingIsHeld'
      BY <1>2, <2>1, <2>2, <2>4 DEF PendingIsHeld
    <3>3. QED
      BY <2>1, <3>1, <3>2, RunsKept, FlushesKept
  <2>5. QED
    BY <2>3, <2>4
<1>16. ASSUME UntrackEnters PROVE Good
  <2> DEFINE f == Frame("untrack", None, {}, FALSE)
  <2>1. Pushes(f) /\ UserTurn /\ UNCHANGED <<running, live, pending, batchDepth>>
    BY <1>16, Moves DEF UntrackEnters, effectVars
  <2>2. f.kind = "untrack"
    BY DEF Frame
  <2> HIDE DEF f
  <2>3. PendingIsHeld'
    BY <1>2, <2>1 DEF PendingIsHeld
  <2>4. QED
    BY <2>1, <2>2, <2>3, RunsKept, FlushesKept
<1>17. ASSUME UntrackLeaves PROVE Good
  <2>1. /\ Pops /\ Top.kind = "untrack"
        /\ UNCHANGED <<running, live, pending, batchDepth>>
    BY <1>17, Moves DEF UntrackLeaves, effectVars
  <2>2. PendingIsHeld'
    BY <2>1 DEF PendingIsHeld
  <2>3. QED
    BY <2>1, <2>2, RunsKept, FlushesKept
<1>18. ASSUME Throw PROVE Good
  <2>1. Stays /\ UserTurn /\ UNCHANGED <<running, live, pending, batchDepth>>
    BY <1>18, Moves DEF Throw, effectVars
  <2>2. PendingIsHeld'
    BY <1>2, <2>1 DEF PendingIsHeld
  <2>3. QED
    BY <2>1, <2>2, RunsKept, FlushesKept
<1>19. ASSUME Unwinds PROVE Good
  <2>1. /\ Pops /\ throwing /\ UNCHANGED <<live, pending, batchDepth>>
        /\ running' = IF Top.kind = "effect" THEN [running EXCEPT ![Top.who] = FALSE]
                      ELSE running
    BY <1>19, Moves DEF Unwinds
  <2>2. PendingIsHeld'
    BY <2>1 DEF PendingIsHeld
  <2>3. RunsAreOnStack'
    <3>1. CASE Top.kind = "effect"
      BY <2>1, <3>1, RunsEnd
    <3>2. CASE Top.kind # "effect"
      BY <2>1, <3>2, RunsKept
    <3>3. QED
      BY <3>1, <3>2
  <2>4. QED
    BY <2>1, <2>2, <2>3, FlushesKept
<1>20. ASSUME Catches PROVE Good
  <2>1. /\ Stays /\ throwing /\ UNCHANGED <<running, live, pending, batchDepth>>
    BY <1>20, Moves DEF Catches, effectVars
  <2>2. PendingIsHeld'
    BY <2>1 DEF PendingIsHeld
  <2>3. QED
    BY <2>1, <2>2, RunsKept, FlushesKept
<1>21. ASSUME UNCHANGED vars PROVE Good
  <2>1. Stays /\ UNCHANGED <<running, live, pending, batchDepth, throwing, stack>>
    BY <1>21, Moves DEF vars, effectVars, exceptionVars
  <2>2. PendingIsHeld'
    BY <2>1 DEF PendingIsHeld, Top
  <2>3. QED
    BY <2>1, <2>2, RunsKept, FlushesKept
<1> HIDE DEF Good
<1>22. Good
  BY <1>3, <1>4, <1>5, <1>6, <1>7, <1>8, <1>9, <1>10, <1>11, <1>12, <1>13, <1>14,
     <1>15, <1>16, <1>17, <1>18, <1>19, <1>20, <1>21 DEF Next
<1>23. QED
  BY <1>1, <1>22 DEF Good

LEMMA AlwaysOrderly == Spec => []Orderly
<1>1. Orderly /\ [Next]_vars => Orderly'
  BY NextOrderly
<1>2. QED
  BY <1>1, InitOrderly, PTL DEF Spec

(* When the outermost call has returned or thrown, no effect is pending,   *)
(* no batch is open, no target tracks and nothing runs: for every program  *)
(* and wherever its functions throw.                                       *)
THEOREM CallsLeaveNothing == Spec => []RestIsQuiet
<1>1. ASSUME Orderly PROVE RestIsQuiet
  <2> SUFFICES ASSUME AtRest PROVE /\ pending = {} /\ batchDepth = 0
                                   /\ currentTarget = None
                                   /\ \A e \in Effects : ~running[e]
    BY DEF RestIsQuiet
  <2>1. stack = <<>> /\ On(stack) = {}
    BY EmptyFrames DEF AtRest
  <2>2. batchDepth = 0 /\ currentTarget = None
    BY <1>1, <2>1, DepthOfEmpty, ChainOfEmpty DEF Orderly, Nested
  <2>3. pending = {}
    BY <1>1, <2>1, <2>2 DEF Orderly, PendingIsHeld
  <2>4. \A e \in Effects : ~running[e]
    BY <1>1, <2>1 DEF Orderly, RunsAreOnStack
  <2>5. QED
    BY <2>2, <2>3, <2>4
<1>2. QED
  BY <1>1, AlwaysOrderly, PTL

(* Only a flush and the constructor of an effect run one.                  *)
LEMMA RunsBegin ==
  ASSUME Orderly, [Next]_vars, NEW e \in Effects, ~running[e], running'[e]
  PROVE  \/ live[e] = "new"
         \/ stack # <<>> /\ Top.kind = "flush"
<1>1. ASSUME NEW x \in Effects, FlushRuns(x)
      PROVE  stack # <<>> /\ Top.kind = "flush"
  BY <1>1 DEF FlushRuns
<1>2. ASSUME NEW x \in Effects, CreateEffect(x) PROVE live[e] = "new"
  BY <1>2 DEF CreateEffect, RunFrom, Orderly, TypeOK
<1>3. ASSUME (\E w \in BOOLEAN : EffectReturns(w)) \/ Unwinds PROVE FALSE
  BY <1>3 DEF EffectReturns, Unwinds, Orderly, TypeOK
<1>4. ASSUME \/ \E x \in Signals : GetClean(x) \/ GetDirty(x)
             \/ ComputeReturns
             \/ \E s \in States, v \in Values : Set(s, v)
             \/ FlushSnapshots \/ FlushReturns
             \/ \E x \in Effects : FlushSkips(x) \/ Dispose(x)
             \/ BatchEnters \/ BatchLeaves \/ UntrackEnters \/ UntrackLeaves
             \/ Throw \/ Catches
             \/ UNCHANGED vars
      PROVE  FALSE
  <2>1. UNCHANGED running
    BY <1>4 DEF GetClean, GetDirty, ComputeReturns, Set, FlushSnapshots, FlushReturns,
       FlushSkips, Dispose, BatchEnters, BatchLeaves, UntrackEnters, UntrackLeaves,
       Throw, Catches, effectVars, vars
  <2>2. QED
    BY <2>1
<1>5. QED
  BY <1>1, <1>2, <1>3, <1>4 DEF Next

(* No effect re-runs while a batch is open, however deep the batch is      *)
(* nested in other batches, effects and flushes.                           *)
THEOREM BatchesDefer == Spec => BatchDefersRuns
<1> DEFINE Deferred == \A e \in Effects :
              live[e] = "live" /\ ~running[e] /\ running'[e] => batchDepth = 0
<1>1. ASSUME Orderly, [Next]_vars PROVE Deferred
  <2> SUFFICES ASSUME NEW e \in Effects, live[e] = "live", ~running[e], running'[e]
               PROVE  batchDepth = 0
    OBVIOUS
  <2>1. stack # <<>> /\ Top.kind = "flush"
    BY <1>1, RunsBegin
  <2>2. QED
    BY <1>1, <2>1, FlushIsOutside DEF Orderly
<1>2. Orderly /\ [Next]_vars => [Deferred]_vars
  BY <1>1
<1>3. QED
  BY <1>2, AlwaysOrderly, PTL DEF Spec, BatchDefersRuns

-----------------------------------------------------------------------------
(* Glitch freedom.                                                         *)

(* The function whose frame is the innermost, above the other functions.   *)
LEMMA BodyFacts ==
  ASSUME TypeOK
  PROVE  \/ Body = None /\ \A f \in On(stack) : ~User(f)
         \/ \E g \in On(stack) :
              /\ User(g) /\ Body = g.who
              /\ \A h \in On(stack) : User(h) => h = g \/ <<g, h>> \in Above(stack)
<1> DEFINE user == {i \in DOMAIN stack : stack[i].kind \in {"effect", "compute"}}
<1>1. DOMAIN stack = 1..Len(stack)
  BY LenProperties DEF TypeOK
<1>2. user = {i \in 1..Len(stack) : User(stack[i])}
  BY <1>1 DEF User
<1>3. Body = IF user = {} THEN None
             ELSE stack[CHOOSE i \in user : \A j \in user : i <= j].who
  BY DEF Body
<1> HIDE DEF user
<1>4. CASE user = {}
  BY <1>2, <1>3, <1>4 DEF On
<1>5. CASE user # {}
  <2> DEFINE k == CHOOSE i \in user : \A j \in user : i <= j
  <2>1. user \subseteq Nat
    BY <1>2
  <2>2. k \in user /\ \A j \in user : k <= j
    BY <1>5, <2>1, LeastNatural
  <2>3. Body = stack[k].who
    BY <1>3, <1>5
  <2> HIDE DEF k
  <2>4. k \in 1..Len(stack) /\ User(stack[k]) /\ stack[k] \in On(stack)
    BY <1>2, <2>2 DEF On
  <2>5. ASSUME NEW h \in On(stack), User(h)
        PROVE  h = stack[k] \/ <<stack[k], h>> \in Above(stack)
    <3>1. PICK j \in 1..Len(stack) : h = stack[j]
      BY DEF On
    <3>2. j \in user
      BY <1>2, <2>5, <3>1
    <3>3. CASE j = k
      BY <3>1, <3>3
    <3>4. CASE j # k
      <4>1. k < j
        BY <2>1, <2>2, <3>2, <3>4
      <4>2. <<stack[k], h>> \in On(stack) \X On(stack)
        BY <2>4
      <4>3. QED
        BY <2>4, <3>1, <4>1, <4>2 DEF Above
    <3>5. QED
      BY <3>3, <3>4
  <2>6. QED
    BY <2>3, <2>4, <2>5
<1>6. QED
  BY <1>4, <1>5

(* The target is the function that executes, unless it reads untracked.    *)
LEMMA TargetIsBody ==
  ASSUME TypeOK, Nested, currentTarget # None
  PROVE  /\ currentTarget = Body
         /\ \E g \in On(stack) : User(g) /\ g.who = currentTarget
<1>1. 1 \in 1..(Len(stack) + 1) /\ Over(stack, currentTarget, 1) = currentTarget
  BY LenProperties DEF TypeOK, Over
<1>2. PICK k \in 1..Len(stack) : /\ User(stack[k]) /\ stack[k].who = currentTarget
                                 /\ \A j \in 1..(k - 1) : ~User(stack[j])
  BY <1>1 DEF Nested, TargetsChain
<1> DEFINE user == {i \in DOMAIN stack : stack[i].kind \in {"effect", "compute"}}
<1>3. DOMAIN stack = 1..Len(stack) /\ Len(stack) \in Nat
  BY LenProperties DEF TypeOK
<1>4. k \in user
  BY <1>2, <1>3 DEF User
<1>5. \A j \in user : k <= j
  <2> TAKE j \in user
  <2>1. j \in 1..Len(stack) /\ User(stack[j])
    BY <1>3 DEF User
  <2>2. QED
    BY <1>2, <1>3, <2>1
<1>6. Body = IF user = {} THEN None
             ELSE stack[CHOOSE i \in user : \A j \in user : i <= j].who
  BY DEF Body
<1>7. user \subseteq Nat
  BY <1>3
<1> HIDE DEF user
<1>8. (CHOOSE i \in user : \A j \in user : i <= j) = k
  <2> DEFINE m == CHOOSE i \in user : \A j \in user : i <= j
  <2>1. m \in user /\ \A j \in user : m <= j
    BY <1>4, <1>5
  <2> HIDE DEF m
  <2>2. m <= k /\ k <= m /\ m \in Nat /\ k \in Nat
    BY <1>4, <1>5, <1>7, <2>1
  <2>3. m = k
    BY <2>2
  <2>4. QED
    BY <2>3 DEF m
<1>9. currentTarget = Body
  <2> DEFINE m == CHOOSE i \in user : \A j \in user : i <= j
  <2>1. Body = stack[m].who
    BY <1>4, <1>6
  <2>2. m = k
    BY <1>8
  <2> HIDE DEF m
  <2>3. QED
    BY <1>2, <2>1, <2>2
<1>10. QED
  BY <1>2, <1>9 DEF On

(* The target a frame restores is a function that waits below it.          *)
LEMMA PrevIsOn ==
  ASSUME TypeOK, Nested, NEW f \in On(stack), f.prev # None
  PROVE  \E g \in On(stack) : User(g) /\ g.who = f.prev
<1>1. PICK i \in 1..Len(stack) : f = stack[i]
  BY DEF On
<1>2. Len(stack) \in Nat
  BY LenProperties DEF TypeOK
<1>3. /\ i + 1 \in 1..(Len(stack) + 1)
      /\ Over(stack, currentTarget, i + 1) = f.prev
  BY <1>1, <1>2 DEF Over
<1>4. PICK k \in (i + 1)..Len(stack) : User(stack[k]) /\ stack[k].who = f.prev
  BY <1>3 DEF Nested, TargetsChain
<1>5. k \in 1..Len(stack)
  BY <1>2, <1>4
<1>6. QED
  BY <1>4, <1>5 DEF On

(* f holds values that its reader n depends on and that are current.       *)
Fresh(n, f) ==
  \A x \in DOMAIN f : /\ x \in deps[n]
                      /\ f[x] = Value(x)
                      /\ x \in Computeds => ~dirty[x]

(* No derived signal depends on itself: its function would call itself     *)
(* without end.                                                            *)
Ranks(rank) ==
  /\ rank \in [Computeds -> Nat]
  /\ \A c \in Computeds : \A x \in Reads[c] \cap Computeds : rank[x] < rank[c]
Acyclic == \E rank \in [Computeds -> Nat] : Ranks(rank)

(* A function of a derived signal only reads: above it run the functions   *)
(* of what it depends on, and untracked reads.                             *)
ComputesNest(rank) ==
  \A p \in Above(stack) : p[2].kind = "compute" =>
    /\ p[1].kind \in {"compute", "untrack"}
    /\ p[1].kind = "compute" => rank[p[1].who] < rank[p[2].who]

CleanIsFresh == \A c \in Computeds : ~dirty[c] => Fresh(c, cached[c])

(* So is what a function under way has read, and who asked for its value   *)
(* depends on it already.                                                  *)
ComputingIsFresh ==
  \A f \in On(stack) : f.kind = "compute" =>
    /\ dirty[f.who]
    /\ Fresh(f.who, seen[f.who])
    /\ f.prev # None => f.who \in deps[f.prev]

Glitchless(rank) == ComputesNest(rank) /\ CleanIsFresh /\ ComputingIsFresh

NoComputes == \A f \in On(stack) : f.kind # "compute"

LEMMA ComputesAreOver ==
  ASSUME TypeOK, NEW rank, ComputesNest(rank),
         \/ Body \notin Computeds
         \/ stack # <<>> /\ Top.kind \notin {"compute", "untrack"}
  PROVE  NoComputes
<1> SUFFICES ASSUME NEW h \in On(stack), h.kind = "compute" PROVE FALSE
  BY DEF NoComputes
<1>1. \A g : <<g, h>> \in Above(stack) => g.kind \in {"compute", "untrack"}
  <2> TAKE g
  <2>1. HAVE <<g, h>> \in Above(stack)
  <2>2. <<g, h>>[2].kind = "compute" => <<g, h>>[1].kind \in {"compute", "untrack"}
    BY <2>1 DEF ComputesNest
  <2>3. QED
    BY <2>2
<1>2. \A g \in On(stack) : g.kind = "compute" => g.who \in Computeds
  BY StackTyped DEF Frames
<1>3. CASE Body \notin Computeds
  <2>1. User(h)
    BY DEF User
  <2>2. PICK g \in On(stack) : /\ User(g) /\ Body = g.who
                               /\ h = g \/ <<g, h>> \in Above(stack)
    BY <2>1, BodyFacts
  <2>3. g.kind = "compute"
    BY <1>1, <2>2 DEF User
  <2>4. QED
    BY <1>2, <1>3, <2>2, <2>3
<1>4. CASE stack # <<>> /\ Top.kind \notin {"compute", "untrack"}
  <2>1. <<Top, h>> \in Above(stack)
    BY <1>4, StackTyped
  <2>2. QED
    BY <1>1, <1>4, <2>1
<1>5. QED
  BY <1>3, <1>4

(* A function reads below every derived signal that is being computed.     *)
LEMMA ReadsBelow ==
  ASSUME TypeOK, NEW rank, Ranks(rank), ComputesNest(rank),
         NEW x \in Computeds, MayRead(x), NEW f \in On(stack), f.kind = "compute"
  PROVE  rank[x] < rank[f.who]
<1>1. User(f) /\ f.who \in Computeds
  BY StackTyped DEF User, Frames
<1>2. PICK g \in On(stack) : /\ User(g) /\ Body = g.who
                             /\ f = g \/ <<g, f>> \in Above(stack)
  BY <1>1, BodyFacts
<1>3. CASE f = g
  <2>1. Body # None /\ x \in Reads[f.who]
    BY <1>1, <1>2, <1>3, KindsAssumption DEF MayRead, Nodes
  <2>2. QED
    BY <1>1, <2>1 DEF Ranks
<1>4. CASE <<g, f>> \in Above(stack)
  <2>1. <<g, f>>[2].kind = "compute" =>
          /\ <<g, f>>[1].kind \in {"compute", "untrack"}
          /\ <<g, f>>[1].kind = "compute" => rank[<<g, f>>[1].who] < rank[<<g, f>>[2].who]
    BY <1>4 DEF ComputesNest
  <2>2. g.kind = "compute" /\ rank[g.who] < rank[f.who]
    BY <1>2, <2>1 DEF User
  <2>3. g.who \in Computeds
    BY <2>2, StackTyped DEF Frames
  <2>4. x \in Reads[g.who]
    BY <1>2, <2>3, KindsAssumption DEF MayRead, Nodes
  <2>5. rank[x] < rank[g.who] /\ rank[x] \in Nat /\ rank[g.who] \in Nat /\ rank[f.who] \in Nat
    BY <1>1, <2>3, <2>4 DEF Ranks
  <2>6. QED
    BY <2>2, <2>5
<1>5. QED
  BY <1>2, <1>3, <1>4

(* Steps that only read, return from untracked code or unwind.             *)
LEMMA ReadingKeepsGlitchless ==
  ASSUME TypeOK, NEW rank, Glitchless(rank),
         UNCHANGED <<val, dirty, cached, deps, seen>>,
         \/ \E f : Pushes(f) /\ f.kind = "untrack"
         \/ Pops
         \/ Stays
  PROVE  Glitchless(rank)'
<1> USE DEF Glitchless
<1>1. CleanIsFresh'
  BY DEF CleanIsFresh, Fresh, Value
<1>2. ASSUME NEW f, Pushes(f), f.kind = "untrack" PROVE ComputesNest(rank)'
  <2>1. Above(stack)' = Above(stack) \cup {<<f, g>> : g \in On(stack)}
    BY <1>2, MoveFrames
  <2>2. QED
    BY <1>2, <2>1 DEF ComputesNest
<1>3. ASSUME Pops \/ Stays PROVE ComputesNest(rank)'
  <2>1. Above(stack)' \subseteq Above(stack)
    BY <1>3, MoveFrames
  <2>2. QED
    BY <2>1 DEF ComputesNest
<1>4. \A g \in On(stack)' : g.kind = "compute" => g \in On(stack)
  BY MoveFrames
<1>5. ComputingIsFresh'
  BY <1>4 DEF ComputingIsFresh, Fresh, Value
<1>6. QED
  BY <1>1, <1>2, <1>3, <1>5

(* Steps taken while nothing is being computed.                            *)
LEMMA ActingKeepsGlitchless ==
  ASSUME TypeOK, TypeOK', NEW rank, NoComputes, CleanIsFresh',
         \/ \E f : Pushes(f) /\ f.kind # "compute"
         \/ \E f : Retops(f)
         \/ \E f, g : Launches(f, g)
         \/ Pops
         \/ Stays
  PROVE  Glitchless(rank)'
<1>1. stack # <<>> => On(Tail(stack)) \subseteq On(stack)
  BY StackTyped
<1>2. ASSUME NEW f, Pushes(f), f.kind # "compute" PROVE NoComputes'
  BY <1>2, MoveFrames DEF NoComputes
<1>3. ASSUME NEW f, Retops(f) PROVE NoComputes'
  <2>1. On(stack)' = {f} \cup On(Tail(stack)) /\ stack # <<>> /\ f.kind = "flush"
    BY <1>3, MoveFrames DEF Retops
  <2>2. QED
    BY <1>1, <2>1 DEF NoComputes
<1>4. ASSUME NEW f, NEW g, Launches(f, g) PROVE NoComputes'
  <2>1. /\ On(stack)' = {f, g} \cup On(Tail(stack))
        /\ stack # <<>> /\ f.kind = "flush" /\ g.kind = "effect"
    BY <1>4, MoveFrames DEF Launches
  <2>2. QED
    BY <1>1, <2>1 DEF NoComputes
<1>5. ASSUME Pops \/ Stays PROVE NoComputes'
  BY <1>5, MoveFrames DEF NoComputes
<1>6. NoComputes'
  BY <1>2, <1>3, <1>4, <1>5
<1>7. ComputingIsFresh'
  BY <1>6 DEF ComputingIsFresh, NoComputes
<1>8. ComputesNest(rank)'
  <2>1. stack' \in Seq(Frames)
    BY DEF TypeOK
  <2>2. Above(stack)' \subseteq On(stack)' \X On(stack)'
    BY <2>1, FramesOfStack
  <2>3. QED
    BY <1>6, <2>2 DEF ComputesNest, NoComputes
<1>9. QED
  BY <1>7, <1>8 DEF Glitchless, CleanIsFresh

LEMMA CleanKept ==
  ASSUME CleanIsFresh, UNCHANGED <<val, dirty, cached>>,
         \A c \in Computeds : deps[c] \subseteq deps'[c]
  PROVE  CleanIsFresh'
BY DEF CleanIsFresh, Fresh, Value

(* A clean reader of what a change reaches is reached too.                 *)
LEMMA SetKeepsClean ==
  ASSUME TypeOK, CleanIsFresh, NEW s \in States, NEW v \in Values, Set(s, v)
  PROVE  CleanIsFresh'
<1>1. PICK M \in SUBSET Computeds :
        /\ Marked(M, s)
        /\ dirty' = [c \in Computeds |-> dirty[c] \/ c \in M]
  BY DEF Set
<1>2. /\ val' = [val EXCEPT ![s] = v]
      /\ UNCHANGED <<cached, deps>>
  BY DEF Set
<1>3. \A c \in Computeds : c \in Readers(M \cup {s}) /\ ~dirty[c] => c \in M
  BY <1>1 DEF Marked, Closed
<1>4. ASSUME NEW c \in Computeds, ~dirty'[c], NEW x \in DOMAIN cached[c]
      PROVE  /\ x \in deps[c] /\ cached[c][x] = Value(x)'
             /\ x \in Computeds => ~dirty'[x]
  <2>1. ~dirty[c] /\ c \notin M
    BY <1>1, <1>4
  <2>2. x \in deps[c] /\ cached[c][x] = Value(x) /\ (x \in Computeds => ~dirty[x])
    BY <1>4, <2>1 DEF CleanIsFresh, Fresh
  <2>3. x \notin M \cup {s}
    BY <1>3, <2>1, <2>2 DEF Readers, Nodes
  <2>4. x \in Computeds => ~dirty'[x]
    BY <1>1, <2>2, <2>3
  <2>5. Value(x)' = Value(x)
    BY <1>2, <2>3 DEF Value, TypeOK
  <2>6. QED
    BY <2>2, <2>4, <2>5
<1>5. QED
  BY <1>2, <1>4 DEF CleanIsFresh, Fresh

(* The target tracks a clean value that it reads.                          *)
LEMMA GetCleanKeepsGlitchless ==
  ASSUME TypeOK, NEW rank, Glitchless(rank), NEW x \in Signals, GetClean(x)
  PROVE  Glitchless(rank)'
<1> USE DEF Glitchless
<1>1. /\ currentTarget \in Nodes
      /\ x \in Computeds => ~dirty[x]
      /\ deps' = [deps EXCEPT ![currentTarget] = @ \cup {x}]
      /\ seen' = [seen EXCEPT ![currentTarget] = With(@, x, Value(x))]
      /\ UNCHANGED <<val, dirty, cached, stack>>
  BY DEF GetClean, Track, TypeOK, computedVars
<1>2. \A n \in Nodes : deps[n] \subseteq deps'[n]
  BY <1>1 DEF TypeOK
<1>3. CleanIsFresh'
  BY <1>1, <1>2, CleanKept DEF Nodes
<1>4. ComputesNest(rank)'
  BY <1>1 DEF ComputesNest
<1>5. ASSUME NEW f \in On(stack), f.kind = "compute"
      PROVE  /\ dirty'[f.who] /\ Fresh(f.who, seen[f.who])'
             /\ f.prev # None => f.who \in deps'[f.prev]
  <2>1. f.who \in Nodes /\ f.prev \in Nodes \cup {None}
    BY <1>5, StackTyped DEF Frames, Nodes
  <2>2. /\ dirty[f.who] /\ Fresh(f.who, seen[f.who])
        /\ f.prev # None => f.who \in deps[f.prev]
    BY <1>5 DEF ComputingIsFresh
  <2>3. \A y : Value(y)' = Value(y)
    BY <1>1 DEF Value
  <2>4. Fresh(f.who, seen[f.who])'
    <3>1. CASE f.who = currentTarget
      <4>1. seen'[f.who] = With(seen[f.who], x, Value(x)) /\ x \in deps'[f.who]
        BY <1>1, <3>1 DEF TypeOK
      <4>2. QED
        BY <1>1, <1>2, <2>1, <2>2, <2>3, <4>1 DEF Fresh, With
    <3>2. CASE f.who # currentTarget
      <4>1. seen'[f.who] = seen[f.who]
        BY <1>1, <2>1, <3>2 DEF TypeOK
      <4>2. QED
        BY <1>1, <1>2, <2>1, <2>2, <2>3, <4>1 DEF Fresh
    <3>3. QED
      BY <3>1, <3>2
  <2>5. f.prev # None => f.who \in deps'[f.prev]
    BY <1>2, <2>1, <2>2
  <2>6. QED
    BY <1>1, <2>2, <2>4, <2>5
<1>6. ComputingIsFresh'
  BY <1>1, <1>5 DEF ComputingIsFresh
<1>7. QED
  BY <1>3, <1>4, <1>6

LEMMA GetDirtyKeepsGlitchless ==
  ASSUME TypeOK, Nested, NEW rank, Ranks(rank), Glitchless(rank),
         NEW x \in Signals, GetDirty(x)
  PROVE  Glitchless(rank)'
<1> USE DEF Glitchless
<1> DEFINE f == Frame("compute", x, {}, FALSE)
<1>1. /\ MayRead(x) /\ x \in Computeds /\ dirty[x]
      /\ deps' = [Track(x) EXCEPT ![x] = {}]
      /\ seen' = [seen EXCEPT ![x] = Nothing]
      /\ UNCHANGED <<val, dirty, cached>>
  BY DEF GetDirty, computedVars
<1>2. Pushes(f) /\ f.kind = "compute" /\ f.who = x /\ f.prev = currentTarget
  BY Moves DEF Frame
<1> HIDE DEF f
<1>3. /\ On(stack)' = {f} \cup On(stack)
      /\ Above(stack)' = Above(stack) \cup {<<f, g>> : g \in On(stack)}
  BY <1>2, MoveFrames
<1>4. \A g \in On(stack) : g.kind = "compute" => rank[x] < rank[g.who] /\ g.who # x
  <2>1. ASSUME NEW g \in On(stack), g.kind = "compute"
        PROVE  rank[x] < rank[g.who] /\ g.who # x
    <3>1. rank[x] < rank[g.who] /\ rank[x] \in Nat
      BY <1>1, <2>1, ReadsBelow DEF Ranks
    <3>2. QED
      BY <3>1
  <2>2. QED
    BY <2>1
<1>5. ComputesNest(rank)'
  <2>1. ASSUME NEW p \in Above(stack)', p[2].kind = "compute"
        PROVE  /\ p[1].kind \in {"compute", "untrack"}
               /\ p[1].kind = "compute" => rank[p[1].who] < rank[p[2].who]
    <3>1. CASE p \in Above(stack)
      BY <2>1, <3>1 DEF ComputesNest
    <3>2. ASSUME NEW g \in On(stack), p = <<f, g>>
          PROVE  /\ p[1].kind \in {"compute", "untrack"}
                 /\ p[1].kind = "compute" => rank[p[1].who] < rank[p[2].who]
      BY <1>2, <1>4, <2>1, <3>2
    <3>3. QED
      BY <1>3, <3>1, <3>2
  <2>2. QED
    BY <2>1 DEF ComputesNest
<1>6. \A n \in Nodes : n # x => deps[n] \subseteq deps'[n] /\ seen'[n] = seen[n]
  BY <1>1 DEF Track, TypeOK, Nodes
<1>7. currentTarget # None /\ currentTarget # x => x \in deps'[currentTarget]
  BY <1>1 DEF Track, TypeOK, Nodes
<1>8. currentTarget # x
  <2>1. SUFFICES ASSUME currentTarget = x PROVE FALSE
    OBVIOUS
  <2>2. PICK g \in On(stack) : User(g) /\ g.who = x
    BY <1>1, <2>1, TargetIsBody, KindsAssumption DEF Signals
  <2>3. g.kind = "compute"
    BY <1>1, <2>2, StackTyped, KindsAssumption DEF User, Frames
  <2>4. QED
    BY <1>4, <2>2, <2>3
<1>9. \A y : Value(y)' = Value(y)
  BY <1>1 DEF Value
<1>10. CleanIsFresh'
  <2>1. ASSUME NEW c \in Computeds, ~dirty'[c] PROVE Fresh(c, cached[c])'
    <3>1. c # x /\ Fresh(c, cached[c]) /\ deps[c] \subseteq deps'[c]
      BY <1>1, <1>6, <2>1 DEF CleanIsFresh, Nodes
    <3>2. QED
      BY <1>1, <1>9, <3>1 DEF Fresh
  <2>2. QED
    BY <2>1 DEF CleanIsFresh
<1>11. Fresh(x, seen[x])'
  <2>1. seen'[x] = Nothing
    BY <1>1 DEF TypeOK, Nodes
  <2>2. DOMAIN (seen'[x]) = {}
    BY <2>1 DEF Nothing
  <2>3. QED
    BY <2>2 DEF Fresh
<1>12. ASSUME NEW g \in On(stack), g.kind = "compute"
       PROVE  /\ dirty'[g.who] /\ Fresh(g.who, seen[g.who])'
              /\ g.prev # None => g.who \in deps'[g.prev]
  <2>1. g.who \in Nodes /\ g.prev \in Nodes \cup {None} /\ g.who # x
    BY <1>4, <1>12, StackTyped DEF Frames, Nodes
  <2>2. /\ dirty[g.who] /\ Fresh(g.who, seen[g.who])
        /\ g.prev # None => g.who \in deps[g.prev]
    BY <1>12 DEF ComputingIsFresh
  <2>3. Fresh(g.who, seen[g.who])'
    BY <1>1, <1>6, <1>9, <2>1, <2>2 DEF Fresh
  <2>4. ASSUME g.prev # None PROVE g.who \in deps'[g.prev]
    <3>1. PICK h \in On(stack) : User(h) /\ h.who = g.prev
      BY <2>4, PrevIsOn
    <3>2. g.prev # x
      <4>1. SUFFICES ASSUME g.prev = x PROVE FALSE
        OBVIOUS
      <4>2. h.kind = "compute"
        BY <1>1, <3>1, <4>1, StackTyped, KindsAssumption DEF User, Frames
      <4>3. QED
        BY <1>4, <3>1, <4>1, <4>2
    <3>3. QED
      BY <1>6, <2>1, <2>2, <2>4, <3>2
  <2>5. QED
    BY <1>1, <2>2, <2>3, <2>4
<1>13. ComputingIsFresh'
  BY <1>1, <1>2, <1>3, <1>7, <1>8, <1>11, <1>12 DEF ComputingIsFresh
<1>14. QED
  BY <1>5, <1>10, <1>13

(* A computed value is passed to the function that asked for it.           *)
LEMMA ReturnedIsFresh ==
  ASSUME TypeOK, Nested, NEW rank, Ranks(rank), Glitchless(rank), ComputeReturns
  PROVE  /\ \A n \in Nodes : \A f : Fresh(n, f) => Fresh(n, f)'
         /\ \A n \in Nodes : n # Top.who /\ Fresh(n, seen[n]) => Fresh(n, seen[n])'
<1> USE DEF Glitchless
<1>a. PICK me, up : me = Top.who /\ up = Top.prev
  OBVIOUS
<1>0. Pops
  BY Moves
<1>1. /\ stack # <<>> /\ Top.kind = "compute" /\ Pops
      /\ cached' = [cached EXCEPT ![me] = seen[me]]
      /\ dirty' = [dirty EXCEPT ![me] = FALSE]
      /\ seen' = IF up = None THEN seen
                 ELSE [seen EXCEPT ![up] = With(@, me, seen[me])]
      /\ UNCHANGED <<val, deps>>
  BY <1>a, <1>0 DEF ComputeReturns
<1>2. /\ Top \in On(stack) /\ On(stack) = {Top} \cup On(stack)'
      /\ Above(stack) = Above(stack)' \cup {<<Top, g>> : g \in On(stack)'}
  BY <1>1, MoveFrames, StackTyped
<1>3. /\ me \in Computeds /\ me \in Nodes /\ me \notin States /\ me \in Signals
      /\ up \in Nodes \cup {None}
  BY <1>a, <1>1, <1>2, StackTyped, KindsAssumption DEF Frames, Nodes, Signals
<1>4. /\ dirty[me] /\ Fresh(me, seen[me])
      /\ up # None => me \in deps[up]
  BY <1>a, <1>1, <1>2 DEF ComputingIsFresh
<1>5. \A x : x # me => Value(x)' = Value(x) \/ (x \notin States /\ x \notin Computeds)
  BY <1>1 DEF Value, TypeOK
<1>6. Value(me)' = seen[me] /\ ~dirty'[me] /\ cached'[me] = seen[me]
  <2>1. cached'[me] = seen[me] /\ dirty'[me] = FALSE
    BY <1>1, <1>3 DEF TypeOK
  <2>2. QED
    BY <1>3, <2>1 DEF Value
<1>7. \A c \in Computeds : c # me => dirty'[c] = dirty[c] /\ cached'[c] = cached[c]
  BY <1>1 DEF TypeOK
(* Whatever is fresh does not hold me, which is dirty. *)
<1>8. ASSUME NEW n \in Nodes, NEW f, Fresh(n, f)
      PROVE  Fresh(n, f)'
  <2>1. ASSUME NEW x \in DOMAIN f
        PROVE  x \in deps'[n] /\ f[x] = Value(x)' /\ (x \in Computeds => ~dirty'[x])
    <3>1. x \in deps[n] /\ f[x] = Value(x) /\ (x \in Computeds => ~dirty[x])
      BY <1>8, <2>1 DEF Fresh
    <3>2. x # me /\ x \in Signals
      BY <1>3, <1>4, <3>1 DEF TypeOK
    <3>3. Value(x)' = Value(x)
      BY <1>5, <3>2 DEF Signals
    <3>4. QED
      BY <1>1, <1>7, <3>1, <3>2, <3>3
  <2>2. QED
    BY <2>1 DEF Fresh
<1>9. ASSUME NEW n \in Nodes, n # me, Fresh(n, seen[n]) PROVE Fresh(n, seen[n])'
  <2>1. CASE n = up /\ up # None
    <3>1. seen'[n] = With(seen[n], me, seen[me]) /\ me \in deps'[n]
      BY <1>1, <1>4, <2>1 DEF TypeOK
    <3>2. Fresh(n, seen[n])
      BY <1>9
    <3>3. \A x \in DOMAIN seen[n] : /\ x \in deps'[n]
                                    /\ seen[n][x] = Value(x)'
                                    /\ x \in Computeds => ~dirty'[x]
      BY <1>8, <3>2 DEF Fresh
    <3>4. DOMAIN (seen'[n]) = DOMAIN seen[n] \cup {me}
      BY <3>1 DEF With
    <3>5. ASSUME NEW x \in DOMAIN seen[n] \cup {me}
          PROVE  /\ x \in deps'[n] /\ seen'[n][x] = Value(x)'
                 /\ x \in Computeds => ~dirty'[x]
      <4>1. CASE x = me
        BY <1>6, <3>1, <4>1 DEF With
      <4>2. CASE x # me
        <5>1. x \in DOMAIN seen[n] /\ seen'[n][x] = seen[n][x]
          BY <3>1, <3>5, <4>2 DEF With
        <5>2. QED
          BY <3>3, <5>1
      <4>3. QED
        BY <4>1, <4>2
    <3>6. QED
      BY <3>4, <3>5 DEF Fresh
  <2>2. CASE ~(n = up /\ up # None)
    <3>1. seen'[n] = seen[n]
      BY <1>1, <2>2 DEF TypeOK
    <3>2. \A x \in DOMAIN seen[n] : /\ x \in deps'[n]
                                    /\ seen[n][x] = Value(x)'
                                    /\ x \in Computeds => ~dirty'[x]
      BY <1>8, <1>9 DEF Fresh
    <3>3. QED
      BY <3>1, <3>2 DEF Fresh
  <2>3. QED
    BY <2>1, <2>2
<1>10. QED
  BY <1>a, <1>8, <1>9

LEMMA ComputeReturnsKeepsGlitchless ==
  ASSUME TypeOK, Nested, NEW rank, Ranks(rank), Glitchless(rank), ComputeReturns
  PROVE  Glitchless(rank)'
<1> USE DEF Glitchless
<1>a. PICK me : me = Top.who
  OBVIOUS
<1>0. Pops
  BY Moves
<1>1. /\ stack # <<>> /\ Top.kind = "compute"
      /\ cached' = [cached EXCEPT ![me] = seen[me]]
      /\ dirty' = [dirty EXCEPT ![me] = FALSE]
      /\ UNCHANGED <<val, deps>>
  BY <1>a DEF ComputeReturns
<1>2. /\ Top \in On(stack) /\ On(stack) = {Top} \cup On(stack)'
      /\ Above(stack) = Above(stack)' \cup {<<Top, g>> : g \in On(stack)'}
  BY <1>0, <1>1, MoveFrames, StackTyped
<1>3. me \in Computeds /\ me \in Nodes
  BY <1>a, <1>1, <1>2, StackTyped DEF Frames, Nodes
<1>4. Fresh(me, seen[me])
  BY <1>a, <1>1, <1>2 DEF ComputingIsFresh
<1>5. cached'[me] = seen[me]
  BY <1>1, <1>3 DEF TypeOK
<1>7. \A c \in Computeds : c # me => dirty'[c] = dirty[c] /\ cached'[c] = cached[c]
  BY <1>1 DEF TypeOK
<1>8. /\ \A n \in Nodes : \A f : Fresh(n, f) => Fresh(n, f)'
      /\ \A n \in Nodes : n # me /\ Fresh(n, seen[n]) => Fresh(n, seen[n])'
  BY <1>a, ReturnedIsFresh
<1>9. CleanIsFresh'
  <2>1. ASSUME NEW c \in Computeds, ~dirty'[c] PROVE Fresh(c, cached[c])'
    <3>1. CASE c = me
      BY <1>3, <1>4, <1>5, <1>8, <3>1 DEF Fresh
    <3>2. CASE c # me
      <4>1. Fresh(c, cached[c]) /\ c \in Nodes
        BY <1>7, <2>1, <3>2 DEF CleanIsFresh, Nodes
      <4>2. Fresh(c, cached[c])
        BY <4>1
      <4>3. QED
        BY <1>7, <1>8, <3>2, <4>1 DEF Fresh
    <3>3. QED
      BY <3>1, <3>2
  <2>2. QED
    BY <2>1 DEF CleanIsFresh
<1>10. ComputesNest(rank)'
  <2>1. Above(stack)' \subseteq Above(stack)
    BY <1>2
  <2>2. QED
    BY <2>1 DEF ComputesNest
<1>11. ASSUME NEW g \in On(stack)', g.kind = "compute"
       PROVE  /\ dirty'[g.who] /\ Fresh(g.who, seen[g.who])'
              /\ g.prev # None => g.who \in deps'[g.prev]
  <2>1. g \in On(stack) /\ g.who \in Computeds /\ g.who \in Nodes
    BY <1>2, <1>11, StackTyped DEF Frames, Nodes
  <2>2. /\ dirty[g.who] /\ Fresh(g.who, seen[g.who])
        /\ g.prev # None => g.who \in deps[g.prev]
    BY <1>11, <2>1 DEF ComputingIsFresh
  <2>3. g.who # me
    <3>1. <<Top, g>> \in Above(stack)
      BY <1>2
    <3>2. <<Top, g>>[1].kind = "compute" /\ <<Top, g>>[2].kind = "compute" =>
            rank[<<Top, g>>[1].who] < rank[<<Top, g>>[2].who]
      BY <3>1 DEF ComputesNest
    <3>3. rank[me] < rank[g.who] /\ rank[me] \in Nat
      BY <1>a, <1>1, <1>3, <1>11, <3>2 DEF Ranks
    <3>4. QED
      BY <3>3
  <2>4. dirty'[g.who]
    BY <1>7, <2>1, <2>2, <2>3
  <2>5. Fresh(g.who, seen[g.who])'
    BY <1>8, <2>1, <2>2, <2>3
  <2>6. QED
    BY <1>1, <2>2, <2>4, <2>5
<1>12. ComputingIsFresh'
  BY <1>11 DEF ComputingIsFresh
<1>13. QED
  BY <1>9, <1>10, <1>12

LEMMA InitGlitchless == ASSUME Init, NEW rank PROVE Glitchless(rank)
<1>1. On(stack) = {} /\ Above(stack) = {}
  BY EmptyFrames DEF Init
<1>2. CleanIsFresh
  BY DEF Init, CleanIsFresh
<1>3. QED
  BY <1>1, <1>2 DEF Glitchless, ComputesNest, ComputingIsFresh

LEMMA NextGlitchless ==
  ASSUME Orderly, Orderly', [Next]_vars, NEW rank, Ranks(rank), Glitchless(rank)
  PROVE  Glitchless(rank)'
<1> USE DEF Orderly
<1>1. ComputesNest(rank) /\ CleanIsFresh
  BY DEF Glitchless
<1>2. ASSUME NEW x \in Signals, GetClean(x) PROVE Glitchless(rank)'
  BY <1>2, GetCleanKeepsGlitchless
<1>3. ASSUME NEW x \in Signals, GetDirty(x) PROVE Glitchless(rank)'
  BY <1>3, GetDirtyKeepsGlitchless
<1>4. ASSUME ComputeReturns PROVE Glitchless(rank)'
  BY <1>4, ComputeReturnsKeepsGlitchless
<1>5. ASSUME \/ Body \notin Computeds
             \/ stack # <<>> /\ Top.kind \notin {"compute", "untrack"}
      PROVE  NoComputes
  BY <1>1, <1>5, ComputesAreOver
<1>6. ASSUME UNCHANGED <<val, dirty, cached>>,
             \A c \in Computeds : deps'[c] = deps[c]
      PROVE  CleanIsFresh'
  BY <1>1, <1>6, CleanKept
<1>7. ASSUME NEW s \in States, NEW v \in Values, Set(s, v) PROVE Glitchless(rank)'
  <2>1. Body \notin Computeds
    BY <1>7, KindsAssumption DEF Set, MayWrite, Nodes
  <2>2. CleanIsFresh'
    BY <1>1, <1>7, SetKeepsClean
  <2>3. Pushes(FlushFrame) \/ Stays
    BY <1>7, Moves
  <2>4. FlushFrame.kind # "compute"
    BY DEF FlushFrame, Frame
  <2>5. QED
    BY <1>5, <2>1, <2>2, <2>3, <2>4, ActingKeepsGlitchless
<1>8. ASSUME FlushSnapshots \/ FlushReturns PROVE Glitchless(rank)'
  <2>1. /\ stack # <<>> /\ Top.kind = "flush" /\ UNCHANGED <<val, dirty, cached, deps>>
        /\ Retops([Top EXCEPT !.todo = pending]) \/ Pops
    BY <1>8, Moves DEF FlushSnapshots, FlushReturns, computedVars
  <2>2. QED
    BY <1>5, <1>6, <2>1, ActingKeepsGlitchless
<1>9. ASSUME NEW e \in Effects, FlushRuns(e) PROVE Glitchless(rank)'
  <2>1. /\ stack # <<>> /\ Top.kind = "flush" /\ UNCHANGED <<val, dirty, cached>>
        /\ deps' = [deps EXCEPT ![e] = {}]
        /\ \E f, g : Launches(f, g)
    BY <1>9, Moves DEF FlushRuns, RunFrom, computedVars
  <2>2. \A c \in Computeds : deps'[c] = deps[c]
    BY <2>1, KindsAssumption DEF TypeOK, Nodes
  <2>3. QED
    BY <1>5, <1>6, <2>1, <2>2, ActingKeepsGlitchless
<1>10. ASSUME NEW e \in Effects, FlushSkips(e) PROVE Glitchless(rank)'
  <2>1. /\ stack # <<>> /\ Top.kind = "flush" /\ UNCHANGED <<val, dirty, cached, deps>>
        /\ \E f : Retops(f)
    BY <1>10, Moves DEF FlushSkips, computedVars
  <2>2. QED
    BY <1>5, <1>6, <2>1, ActingKeepsGlitchless
<1>11. ASSUME NEW e \in Effects, CreateEffect(e) PROVE Glitchless(rank)'
  <2> DEFINE f == Frame("effect", e, {}, FALSE)
  <2>1. /\ UNCHANGED <<val, dirty, cached>>
        /\ deps' = [deps EXCEPT ![e] = {}]
        /\ Pushes(f) /\ f.kind # "compute"
    BY <1>11, Moves DEF CreateEffect, RunFrom, computedVars, Frame
  <2> HIDE DEF f
  <2>2. \A c \in Computeds : deps'[c] = deps[c]
    BY <2>1, KindsAssumption DEF TypeOK, Nodes
  <2>3. Body \notin Computeds
    BY <1>11, KindsAssumption DEF CreateEffect, MayOwn, Nodes
  <2>4. QED
    BY <1>5, <1>6, <2>1, <2>2, <2>3, ActingKeepsGlitchless
<1>12. ASSUME NEW e \in Effects, Dispose(e) PROVE Glitchless(rank)'
  <2>1. /\ UNCHANGED <<val, dirty, cached>>
        /\ deps' = [deps EXCEPT ![e] = {}]
        /\ Stays
    BY <1>12, Moves DEF Dispose, computedVars
  <2>2. \A c \in Computeds : deps'[c] = deps[c]
    BY <2>1, KindsAssumption DEF TypeOK, Nodes
  <2>3. Body \notin Computeds
    BY <1>12, KindsAssumption DEF Dispose, MayOwn, Nodes
  <2>4. QED
    BY <1>5, <1>6, <2>1, <2>2, <2>3, ActingKeepsGlitchless
<1>13. ASSUME NEW w \in BOOLEAN, EffectReturns(w) PROVE Glitchless(rank)'
  <2>1. /\ stack # <<>> /\ Top.kind = "effect" /\ UNCHANGED <<val, dirty, cached, deps>>
        /\ Pops
    BY <1>13, Moves DEF EffectReturns, computedVars
  <2>2. QED
    BY <1>5, <1>6, <2>1, ActingKeepsGlitchless
<1>14. ASSUME BatchEnters PROVE Glitchless(rank)'
  <2> DEFINE f == Frame("batch", None, {}, FALSE)
  <2>1. /\ UNCHANGED <<val, dirty, cached, deps>> /\ Body \notin Computeds
        /\ Pushes(f) /\ f.kind # "compute"
    BY <1>14, Moves DEF BatchEnters, MayBatch, computedVars, Frame
  <2> HIDE DEF f
  <2>2. QED
    BY <1>5, <1>6, <2>1, ActingKeepsGlitchless
<1>15. ASSUME BatchLeaves PROVE Glitchless(rank)'
  <2>1. /\ stack # <<>> /\ Top.kind = "batch" /\ UNCHANGED <<val, dirty, cached, deps>>
        /\ Retops(Frame("flush", None, {}, throwing)) \/ Pops
    BY <1>15, Moves DEF BatchLeaves, computedVars
  <2>2. QED
    BY <1>5, <1>6, <2>1, ActingKeepsGlitchless
<1>16. ASSUME UntrackEnters PROVE Glitchless(rank)'
  <2> DEFINE f == Frame("untrack", None, {}, FALSE)
  <2>1. /\ UNCHANGED <<val, dirty, cached, deps, seen>>
        /\ Pushes(f) /\ f.kind = "untrack"
    BY <1>16, Moves DEF UntrackEnters, computedVars, Frame
  <2> HIDE DEF f
  <2>2. QED
    BY <2>1, ReadingKeepsGlitchless
<1>17. ASSUME UntrackLeaves \/ Throw \/ Unwinds \/ Catches \/ UNCHANGED vars
       PROVE  Glitchless(rank)'
  <2>1. UNCHANGED <<val, dirty, cached, deps, seen>>
    BY <1>17 DEF UntrackLeaves, Throw, Unwinds, Catches, vars, computedVars
  <2>2. Pops \/ Stays
    BY <1>17, Moves
  <2>3. QED
    BY <2>1, <2>2, ReadingKeepsGlitchless
<1>18. QED
  BY <1>2, <1>3, <1>4, <1>7, <1>8, <1>9, <1>10, <1>11, <1>12, <1>13, <1>14, <1>15,
     <1>16, <1>17 DEF Next

(* At every moment, in the middle of a flush or a batch included, a        *)
(* derived signal that is not marked dirty was computed from the values    *)
(* its inputs have now: for every graph of signals without a cycle.        *)
THEOREM GlitchFree == ASSUME Acyclic PROVE Spec => []DerivedNeverStale
<1>1. PICK rank \in [Computeds -> Nat] : Ranks(rank)
  BY DEF Acyclic
<1> DEFINE Inv == Orderly /\ Glitchless(rank)
<1>2. Init => Inv
  BY InitOrderly, InitGlitchless
<1>3. Inv /\ [Next]_vars => Inv'
  <2>1. ASSUME Inv, [Next]_vars PROVE Orderly'
    BY <2>1, NextOrderly
  <2>2. ASSUME Inv, [Next]_vars PROVE Glitchless(rank)'
    BY <1>1, <2>1, <2>2, NextGlitchless
  <2>3. QED
    BY <2>1, <2>2
<1>4. Inv => DerivedNeverStale
  BY DEF Glitchless, CleanIsFresh, Fresh, DerivedNeverStale
<1> HIDE DEF Inv
<1>5. QED
  BY <1>2, <1>3, <1>4, PTL DEF Spec

-----------------------------------------------------------------------------
(* What disposal and effects come to, in programs with an order.           *)

(* Signals and effects have levels: functions read nothing above their own *)
(* level, and set, create and dispose of only what is above it.            *)
Levels(level) ==
  /\ level \in [Signals \cup Effects -> Nat]
  /\ \A n \in Nodes : \A x \in Reads[n] : level[x] <= level[n]
  /\ \A e \in Effects : \A s \in Writes[e] : level[e] < level[s]
  /\ \A e \in Effects : \A o \in Owns[e] : level[e] < level[o]
Layered == \E level \in [Signals \cup Effects -> Nat] : Levels(level)

(* Effects run above those whose changes woke them, and a snapshot holds   *)
(* none that is below an effect under way.                                 *)
RunsAscend(level) ==
  \A p \in Above(stack) : p[2].kind = "effect" =>
    /\ p[1].kind = "effect" => level[p[2].who] <= level[p[1].who]
    /\ p[1].kind = "flush" => \A e \in p[1].todo : level[p[2].who] <= level[e]

(* Nor is one pending, unless a batch was open before the effect ran.      *)
PendingAscends(level) ==
  \A g \in On(stack) : g.kind = "effect" =>
    \/ \E h \in On(stack) : h.kind = "batch" /\ <<g, h>> \in Above(stack)
    \/ \A e \in pending : level[g.who] <= level[e]

ReadsBound == \A n \in Nodes : deps[n] \subseteq Reads[n]

Ascending(level) == RunsAscend(level) /\ PendingAscends(level) /\ ReadsBound

(* The effect that acts is the highest of those under way.                 *)
LEMMA ActorIsHighest ==
  ASSUME TypeOK, NEW level, Levels(level), RunsAscend(level), NEW n \in Nat,
         \/ Body = None
         \/ Body \in Effects /\ level[Body] < n
  PROVE  \A h \in On(stack) : h.kind = "effect" => h.who \in Effects /\ level[h.who] < n
<1> SUFFICES ASSUME NEW h \in On(stack), h.kind = "effect"
             PROVE  h.who \in Effects /\ level[h.who] < n
  OBVIOUS
<1>1. User(h) /\ h.who \in Effects /\ None \notin Nodes
  BY StackTyped, KindsAssumption DEF User, Frames
<1>2. PICK g \in On(stack) : /\ User(g) /\ Body = g.who
                             /\ h = g \/ <<g, h>> \in Above(stack)
  BY <1>1, BodyFacts
<1>3. g.who \in Nodes /\ (g.kind = "compute" => g.who \in Computeds)
  BY <1>2, StackTyped DEF User, Frames, Nodes
<1>4. g.kind = "effect" /\ Body \in Effects /\ level[Body] < n
  BY <1>1, <1>2, <1>3, KindsAssumption DEF User
<1>5. CASE h = g
  BY <1>1, <1>2, <1>4, <1>5
<1>6. CASE <<g, h>> \in Above(stack)
  <2>1. <<g, h>>[2].kind = "effect" /\ <<g, h>>[1].kind = "effect" =>
          level[<<g, h>>[2].who] <= level[<<g, h>>[1].who]
    BY <1>6 DEF RunsAscend
  <2>2. level[h.who] <= level[Body] /\ level[h.who] \in Nat /\ level[Body] \in Nat
    BY <1>1, <1>2, <1>4, <2>1 DEF Levels
  <2>3. QED
    BY <1>1, <1>4, <2>2
<1>7. QED
  BY <1>2, <1>5, <1>6

(* Nothing changes for a reader below the signal that is set.              *)
LEMMA MarksAscend ==
  ASSUME TypeOK, NEW level, Levels(level), ReadsBound, NEW s \in States,
         NEW M \in SUBSET Computeds, Marked(M, s)
  PROVE  \A n \in Readers(M \cup {s}) : n \in Nodes /\ level[s] <= level[n]
<1> DEFINE N == {c \in M : level[s] <= level[c]}
<1>1. N \subseteq M /\ level[s] \in Nat /\ \A n \in Nodes : level[n] \in Nat
  BY DEF Levels, Signals, Nodes
<1>2. \A n \in Readers(N \cup {s}) : n \in Nodes /\ level[s] <= level[n]
  <2> TAKE n \in Readers(N \cup {s})
  <2>1. n \in Nodes /\ \E x \in deps[n] : x \in N \cup {s}
    BY DEF Readers
  <2>2. PICK x \in deps[n] : x \in N \cup {s}
    BY <2>1
  <2>3. x \in Signals /\ level[x] <= level[n] /\ level[x] \in Nat
    BY <2>1, <2>2 DEF TypeOK, ReadsBound, Levels
  <2>4. level[s] <= level[x]
    BY <1>1, <2>2
  <2>5. QED
    BY <1>1, <2>1, <2>3, <2>4
<1> HIDE DEF N
<1>3. Readers(N \cup {s}) \subseteq Readers(M \cup {s})
  BY <1>1 DEF Readers
<1>4. ASSUME NEW c \in Computeds, c \in Readers(N \cup {s}), ~dirty[c] PROVE c \in N
  <2>1. c \in M
    BY <1>3, <1>4 DEF Marked, Closed
  <2>2. QED
    BY <1>2, <1>4, <2>1 DEF N
<1>5. Closed(N, s)
  BY <1>4 DEF Closed
<1>6. N = M
  BY <1>1, <1>5 DEF Marked
<1>7. QED
  BY <1>2, <1>6

LEMMA RunsAscendKept ==
  ASSUME TypeOK, NEW level, RunsAscend(level),
         \/ \E f : /\ Pushes(f)
                   /\ f.kind = "flush" => f.todo = {}
                   /\ f.kind = "effect" => \A h \in On(stack) :
                        h.kind = "effect" => level[h.who] <= level[f.who]
         \/ \E f : /\ Retops(f)
                   /\ \A h \in On(Tail(stack)) : h.kind = "effect" =>
                        \A e \in f.todo : level[h.who] <= level[e]
         \/ \E f, g : /\ Launches(f, g)
                      /\ \A h \in On(Tail(stack)) : h.kind = "effect" =>
                           \A e \in f.todo \cup {g.who} : level[h.who] <= level[e]
         \/ Pops
         \/ Stays
  PROVE  RunsAscend(level)'
<1> DEFINE Low(p) == p[2].kind = "effect" =>
              /\ p[1].kind = "effect" => level[p[2].who] <= level[p[1].who]
              /\ p[1].kind = "flush" => \A e \in p[1].todo : level[p[2].who] <= level[e]
<1>1. \A p \in Above(stack) : Low(p)
  BY DEF RunsAscend
<1>2. (\A p \in Above(stack)' : Low(p)) => RunsAscend(level)'
  BY DEF RunsAscend
<1>3. stack # <<>> => Above(Tail(stack)) \subseteq Above(stack)
  BY StackTyped
<1>4. ASSUME NEW f, Pushes(f), f.kind = "flush" => f.todo = {},
             f.kind = "effect" => \A h \in On(stack) :
               h.kind = "effect" => level[h.who] <= level[f.who]
      PROVE  \A p \in Above(stack)' : Low(p)
  <2>1. Above(stack)' = Above(stack) \cup {<<f, h>> : h \in On(stack)}
    BY <1>4, MoveFrames
  <2>2. \A h \in On(stack) : Low(<<f, h>>)
    BY <1>4
  <2> HIDE DEF Low
  <2>3. QED
    BY <1>1, <2>1, <2>2
<1>5. ASSUME NEW f, Retops(f), \A h \in On(Tail(stack)) : h.kind = "effect" =>
               \A e \in f.todo : level[h.who] <= level[e]
      PROVE  \A p \in Above(stack)' : Low(p)
  <2>1. /\ Above(stack)' = Above(Tail(stack)) \cup {<<f, h>> : h \in On(Tail(stack))}
        /\ stack # <<>> /\ f.kind = "flush"
    BY <1>5, MoveFrames DEF Retops
  <2>2. \A h \in On(Tail(stack)) : Low(<<f, h>>)
    BY <1>5, <2>1
  <2> HIDE DEF Low
  <2>3. QED
    BY <1>1, <1>3, <2>1, <2>2
<1>6. ASSUME NEW f, NEW g, Launches(f, g),
             \A h \in On(Tail(stack)) : h.kind = "effect" =>
               \A e \in f.todo \cup {g.who} : level[h.who] <= level[e]
      PROVE  \A p \in Above(stack)' : Low(p)
  <2>1. /\ Above(stack)' = Above(Tail(stack)) \cup {<<f, h>> : h \in On(Tail(stack))}
                             \cup {<<g, h>> : h \in {f} \cup On(Tail(stack))}
        /\ stack # <<>> /\ f.kind = "flush" /\ g.kind = "effect"
    BY <1>6, MoveFrames DEF Launches
  <2>2. \A h \in On(Tail(stack)) : Low(<<f, h>>) /\ Low(<<g, h>>)
    BY <1>6, <2>1
  <2>3. Low(<<g, f>>)
    BY <2>1
  <2> HIDE DEF Low
  <2>4. QED
    BY <1>1, <1>3, <2>1, <2>2, <2>3
<1>7. ASSUME Pops \/ Stays PROVE \A p \in Above(stack)' : Low(p)
  <2>1. Above(stack)' \subseteq Above(stack)
    BY <1>7, MoveFrames
  <2> HIDE DEF Low
  <2>2. QED
    BY <1>1, <2>1
<1> HIDE DEF Low
<1>8. QED
  BY <1>2, <1>4, <1>5, <1>6, <1>7

LEMMA PendingAscendsKept ==
  ASSUME Orderly, NEW level, PendingAscends(level),
         \A e \in pending' \ pending : \A h \in On(stack) :
           h.kind = "effect" => level[h.who] <= level[e],
         \/ \E f : Pushes(f) /\ (f.kind = "effect" => UserTurn /\ pending' = pending)
         \/ \E f : Retops(f) /\ Top.kind # "effect"
         \/ \E f, g : Launches(f, g) /\ Top.todo # {} /\ pending' = pending
         \/ Pops
         \/ Stays
  PROVE  PendingAscends(level)'
<1> USE DEF Orderly
<1> SUFFICES ASSUME NEW g \in On(stack)', g.kind = "effect"
             PROVE  \/ \E h \in On(stack)' : h.kind = "batch" /\ <<g, h>> \in Above(stack)'
                    \/ \A e \in pending' : level[g.who] <= level[e]
  BY DEF PendingAscends
<1>1. ASSUME g \in On(stack), \A h \in On(stack) : <<g, h>> \in Above(stack) /\ h.kind = "batch" =>
               h \in On(stack)' /\ <<g, h>> \in Above(stack)'
      PROVE  \/ \E h \in On(stack)' : h.kind = "batch" /\ <<g, h>> \in Above(stack)'
             \/ \A e \in pending' : level[g.who] <= level[e]
  <2>1. CASE \A e \in pending : level[g.who] <= level[e]
    <3>1. \A e \in pending' \ pending : level[g.who] <= level[e]
      BY <1>1
    <3>2. QED
      BY <2>1, <3>1
  <2>2. CASE \E h \in On(stack) : h.kind = "batch" /\ <<g, h>> \in Above(stack)
    BY <1>1, <2>2
  <2>3. QED
    BY <1>1, <2>1, <2>2 DEF PendingAscends
<1> DEFINE Good == \/ \E h \in On(stack)' : h.kind = "batch" /\ <<g, h>> \in Above(stack)'
                   \/ \A e \in pending' : level[g.who] <= level[e]
<1>2. ASSUME NEW f, Pushes(f), f.kind = "effect" => UserTurn /\ pending' = pending PROVE Good
  <2>1. /\ On(stack)' = {f} \cup On(stack)
        /\ Above(stack)' = Above(stack) \cup {<<f, h>> : h \in On(stack)}
    BY <1>2, MoveFrames
  <2>2. CASE g \in On(stack)
    BY <1>1, <2>1, <2>2
  <2>3. CASE g = f
    <3>1. UserTurn /\ pending' = pending
      BY <1>2, <2>3
    <3>2. pending # {} => \E h \in On(stack) : h.kind = "batch"
      BY <3>1, UserHolds, TopFacts DEF TypeOK
    <3>3. QED
      BY <2>1, <2>3, <3>1, <3>2
  <2>4. QED
    BY <2>1, <2>2, <2>3
<1>3. ASSUME Pops PROVE Good
  <2>1. /\ On(stack) = {Top} \cup On(stack)' /\ stack # <<>>
        /\ Above(stack) = Above(stack)' \cup {<<Top, h>> : h \in On(stack)'}
    BY <1>3, MoveFrames DEF Pops
  <2>2. g # Top
    <3>1. SUFFICES ASSUME g = Top PROVE FALSE
      OBVIOUS
    <3>2. <<Top, g>> \in Above(stack)
      BY <2>1
    <3>3. <<Top, g>>[1].kind = "effect" /\ <<Top, g>>[2].kind = "effect" =>
            <<Top, g>>[1].who # <<Top, g>>[2].who
      BY <3>2 DEF RunsAreOnStack
    <3>4. QED
      BY <3>1, <3>3
  <2>3. ASSUME NEW h \in On(stack), <<g, h>> \in Above(stack)
        PROVE  h \in On(stack)' /\ <<g, h>> \in Above(stack)'
    <3>1. <<g, h>> \in Above(stack)'
      BY <2>1, <2>2, <2>3
    <3>2. Above(stack)' \subseteq On(stack)' \X On(stack)'
      <4>1. stack' \in Seq(Frames)
        BY <1>3, MovesNest
      <4>2. QED
        BY <4>1, FramesOfStack
    <3>3. QED
      BY <3>1, <3>2
  <2>4. QED
    BY <1>1, <2>1, <2>3
<1>4. ASSUME stack # <<>>, Top.kind # "effect", g \in On(Tail(stack)),
             On(Tail(stack)) \subseteq On(stack)',
             Above(Tail(stack)) \subseteq Above(stack)'
      PROVE  Good
  <2>1. /\ g \in On(stack)
        /\ Above(stack) = Above(Tail(stack)) \cup {<<Top, h>> : h \in On(Tail(stack))}
        /\ Above(Tail(stack)) \subseteq On(Tail(stack)) \X On(Tail(stack))
    BY <1>4, StackTyped, PoppedFrames, FramesOfStack DEF TypeOK
  <2>2. ASSUME NEW h \in On(stack), <<g, h>> \in Above(stack)
        PROVE  h \in On(stack)' /\ <<g, h>> \in Above(stack)'
    <3>1. <<g, h>> \in Above(Tail(stack))
      BY <1>4, <2>1, <2>2
    <3>2. QED
      BY <1>4, <2>1, <3>1
  <2>3. QED
    BY <1>1, <2>1, <2>2
<1>5. ASSUME NEW f, Retops(f), Top.kind # "effect" PROVE Good
  <2>1. /\ On(stack)' = {f} \cup On(Tail(stack)) /\ stack # <<>> /\ f.kind = "flush"
        /\ Above(stack)' = Above(Tail(stack)) \cup {<<f, h>> : h \in On(Tail(stack))}
    BY <1>5, MoveFrames DEF Retops
  <2>2. g \in On(Tail(stack))
    BY <2>1
  <2>3. QED
    BY <1>4, <1>5, <2>1, <2>2
<1>6. ASSUME NEW f, NEW k, Launches(f, k), Top.todo # {}, pending' = pending PROVE Good
  <2>1. stack # <<>> /\ Top.kind = "flush"
    BY <1>6 DEF Launches
  <2>2. batchDepth = 0
    BY <2>1, FlushIsOutside
  <2>3. pending = {}
    BY <1>6, <2>1, <2>2 DEF PendingIsHeld
  <2>4. QED
    BY <1>6, <2>3
<1>7. ASSUME Stays PROVE Good
  <2>1. On(stack)' = On(stack) /\ Above(stack)' = Above(stack)
    BY <1>7, MoveFrames
  <2>2. QED
    BY <1>1, <2>1
<1>8. QED
  BY <1>2, <1>3, <1>5, <1>6, <1>7

(* A function depends on what it may read.                                 *)
LEMMA NextReadsBound ==
  ASSUME Orderly, [Next]_vars, ReadsBound
  PROVE  ReadsBound'
<1> USE DEF Orderly
<1>1. ASSUME NEW x \in Signals, MayRead(x)
      PROVE  \A n \in Nodes : Track(x)[n] \subseteq Reads[n]
  <2>1. CASE currentTarget = None
    BY <2>1 DEF Track, ReadsBound
  <2>2. CASE currentTarget # None
    <3>1. currentTarget = Body /\ x \in Reads[currentTarget]
      BY <1>1, <2>2, TargetIsBody DEF MayRead
    <3>2. QED
      BY <2>2, <3>1 DEF Track, ReadsBound, TypeOK
  <2>3. QED
    BY <2>1, <2>2
<1>2. ASSUME NEW x \in Signals, GetClean(x) PROVE ReadsBound'
  BY <1>1, <1>2 DEF GetClean, ReadsBound
<1>3. ASSUME NEW x \in Signals, GetDirty(x) PROVE ReadsBound'
  <2>1. MayRead(x) /\ deps' = [Track(x) EXCEPT ![x] = {}] /\ DOMAIN Track(x) = Nodes
    BY <1>3 DEF GetDirty, Track, TypeOK
  <2>2. \A n \in Nodes : deps'[n] \subseteq Reads[n]
    BY <1>1, <2>1
  <2>3. QED
    BY <2>2 DEF ReadsBound
<1>4. ASSUME NEW e \in Effects, deps' = [deps EXCEPT ![e] = {}] PROVE ReadsBound'
  <2>1. \A n \in Nodes : deps'[n] \subseteq deps[n]
    BY <1>4 DEF TypeOK
  <2>2. QED
    BY <2>1 DEF ReadsBound
<1>5. ASSUME NEW e \in Effects, FlushRuns(e) \/ CreateEffect(e) \/ Dispose(e) PROVE ReadsBound'
  BY <1>4, <1>5 DEF FlushRuns, CreateEffect, Dispose, RunFrom
<1>6. ASSUME \/ ComputeReturns
             \/ \E s \in States, v \in Values : Set(s, v)
             \/ FlushSnapshots \/ FlushReturns
             \/ \E e \in Effects : FlushSkips(e)
             \/ \E w \in BOOLEAN : EffectReturns(w)
             \/ BatchEnters \/ BatchLeaves \/ UntrackEnters \/ UntrackLeaves
             \/ Throw \/ Unwinds \/ Catches
             \/ UNCHANGED vars
      PROVE  ReadsBound'
  <2>1. UNCHANGED deps
    BY <1>6 DEF ComputeReturns, Set, FlushSnapshots, FlushReturns, FlushSkips,
       EffectReturns, BatchEnters, BatchLeaves, UntrackEnters, UntrackLeaves,
       Throw, Unwinds, Catches, vars
  <2>2. QED
    BY <2>1 DEF ReadsBound
<1>7. QED
  BY <1>2, <1>3, <1>5, <1>6 DEF Next

(* What a change adds to pending is above every effect under way.          *)
LEMMA SetAscends ==
  ASSUME Orderly, NEW level, Levels(level), Ascending(level),
         NEW s \in States, NEW v \in Values, Set(s, v)
  PROVE  /\ \A h \in On(stack) :
              h.kind = "effect" => h.who \in Effects /\ level[h.who] < level[s]
         /\ \A e \in pending' \ pending : e \in Effects /\ level[s] <= level[e]
<1>1. level[s] \in Nat /\ TypeOK /\ RunsAscend(level) /\ ReadsBound
  BY DEF Levels, Signals, Orderly, Ascending
<1>2. Body = None \/ (Body \in Effects /\ level[Body] < level[s])
  BY DEF Set, MayWrite, Levels
<1>3. PICK M \in SUBSET Computeds :
        /\ Marked(M, s)
        /\ pending' = pending \cup {e \in Effects \cap Readers(M \cup {s}) : Schedulable(e)}
  BY DEF Set
<1>4. \A n \in Readers(M \cup {s}) : level[s] <= level[n]
  BY <1>1, <1>3, MarksAscend
<1>5. QED
  BY <1>1, <1>2, <1>3, <1>4, ActorIsHighest

LEMMA NextAscends ==
  ASSUME Orderly, [Next]_vars, NEW level, Levels(level), Ascending(level)
  PROVE  RunsAscend(level)' /\ PendingAscends(level)'
<1> USE DEF Orderly
<1>1. RunsAscend(level) /\ PendingAscends(level) /\ ReadsBound
  BY DEF Ascending
<1>2. \A e \in Effects : level[e] \in Nat
  BY DEF Levels
<1> DEFINE Good == RunsAscend(level)' /\ PendingAscends(level)'
(* No effect is under way below a snapshot that it is not below.           *)
<1>3. ASSUME stack # <<>>, Top.kind = "flush",
             NEW h \in On(Tail(stack)), h.kind = "effect"
      PROVE  \A e \in Top.todo : level[h.who] <= level[e]
  <2>1. <<Top, h>> \in Above(stack)
    BY <1>3, StackTyped
  <2>2. <<Top, h>>[2].kind = "effect" /\ <<Top, h>>[1].kind = "flush" =>
          \A e \in <<Top, h>>[1].todo : level[<<Top, h>>[2].who] <= level[e]
    BY <1>1, <2>1 DEF RunsAscend
  <2>3. QED
    BY <1>3, <2>2
<1>4. ASSUME NEW f, Pushes(f), f.kind \notin {"effect", "flush"}, UNCHANGED pending PROVE Good
  BY <1>1, <1>4, RunsAscendKept, PendingAscendsKept
<1>5. ASSUME Pops \/ Stays, pending' \subseteq pending PROVE Good
  BY <1>1, <1>5, RunsAscendKept, PendingAscendsKept
<1>6. ASSUME NEW x \in Signals, GetClean(x) PROVE Good
  BY <1>5, <1>6, Moves DEF GetClean, effectVars
<1>7. ASSUME NEW x \in Signals, GetDirty(x) PROVE Good
  <2> DEFINE f == Frame("compute", x, {}, FALSE)
  <2>1. Pushes(f) /\ f.kind = "compute" /\ UNCHANGED pending
    BY <1>7, Moves DEF GetDirty, Frame, effectVars
  <2> HIDE DEF f
  <2>2. QED
    BY <1>4, <2>1
<1>8. ASSUME NEW s \in States, NEW v \in Values, Set(s, v) PROVE Good
  <2>1. \A e \in pending' \ pending : \A h \in On(stack) :
          h.kind = "effect" => level[h.who] <= level[e]
    <3> TAKE e \in pending' \ pending
    <3> TAKE h \in On(stack)
    <3>1. HAVE h.kind = "effect"
    <3>2. h.who \in Effects /\ e \in Effects /\ level[h.who] < level[s] /\ level[s] <= level[e]
      BY <1>8, <3>1, SetAscends
    <3>3. level[s] \in Nat /\ level[e] \in Nat /\ level[h.who] \in Nat
      BY <1>2, <3>2 DEF Levels, Signals
    <3>4. QED
      BY <3>2, <3>3
  <2>2. FlushFrame.kind = "flush" /\ FlushFrame.todo = {}
    BY DEF FlushFrame, Frame
  <2>3. Pushes(FlushFrame) \/ Stays
    BY <1>8, Moves
  <2>4. RunsAscend(level)'
    BY <1>1, <2>2, <2>3, RunsAscendKept
  <2>5. PendingAscends(level)'
    BY <1>1, <2>1, <2>2, <2>3, PendingAscendsKept
  <2>6. QED
    BY <2>4, <2>5
<1>9. ASSUME NEW f, Retops(f), stack # <<>>, Top.kind # "effect", pending' \subseteq pending,
             \A h \in On(Tail(stack)) : h.kind = "effect" =>
               \A e \in f.todo : level[h.who] <= level[e]
      PROVE  Good
  BY <1>1, <1>9, RunsAscendKept, PendingAscendsKept
<1>10. ASSUME FlushSnapshots PROVE Good
  <2> DEFINE f == [Top EXCEPT !.todo = pending]
  <2>1. stack # <<>> /\ Top.kind = "flush" /\ pending' = {} /\ Retops(f)
    BY <1>10, Moves DEF FlushSnapshots
  <2>2. \A h \in On(stack) : h.kind # "batch" /\ h \in Frames
    BY <2>1, FlushIsOutside, StackTyped
  <2>3. Top \in Frames /\ On(Tail(stack)) \subseteq On(stack)
    BY <2>1, StackTyped
  <2>4. f.todo = pending
    BY <2>3 DEF Frames
  <2>5. \A h \in On(Tail(stack)) : h.kind = "effect" =>
          \A e \in pending : level[h.who] <= level[e]
    BY <1>1, <2>2, <2>3 DEF PendingAscends
  <2> HIDE DEF f
  <2>6. QED
    BY <1>9, <2>1, <2>4, <2>5
<1>11. ASSUME FlushReturns PROVE Good
  BY <1>5, <1>11, Moves DEF FlushReturns, effectVars
<1>12. ASSUME NEW e \in Effects, FlushRuns(e) PROVE Good
  <2> DEFINE f == [Top EXCEPT !.todo = @ \ {e}]
             g == Frame("effect", e, {}, FALSE)
  <2>1. /\ stack # <<>> /\ Top.kind = "flush" /\ e \in Top.todo /\ pending' = pending
        /\ Launches(f, g)
    BY <1>12, Moves DEF FlushRuns
  <2>2. Top \in Frames
    BY <2>1, StackTyped
  <2>3. f.todo = Top.todo \ {e} /\ g.who = e
    BY <2>2 DEF Frames, Frame
  <2>4. \A h \in On(Tail(stack)) : h.kind = "effect" =>
          \A x \in f.todo \cup {g.who} : level[h.who] <= level[x]
    BY <1>3, <2>1, <2>3
  <2> HIDE DEF f, g
  <2>5. QED
    BY <1>1, <2>1, <2>4, RunsAscendKept, PendingAscendsKept
<1>13. ASSUME NEW e \in Effects, FlushSkips(e) PROVE Good
  <2> DEFINE f == [Top EXCEPT !.todo = @ \ {e}]
  <2>1. /\ stack # <<>> /\ Top.kind = "flush" /\ pending' = pending /\ Retops(f)
    BY <1>13, Moves DEF FlushSkips, effectVars
  <2>2. Top \in Frames
    BY <2>1, StackTyped
  <2>3. f.todo = Top.todo \ {e}
    BY <2>2 DEF Frames
  <2> HIDE DEF f
  <2>4. QED
    BY <1>3, <1>9, <2>1, <2>3
<1>14. ASSUME NEW e \in Effects, CreateEffect(e) PROVE Good
  <2> DEFINE f == Frame("effect", e, {}, FALSE)
  <2>1. Pushes(f) /\ f.kind = "effect" /\ f.who = e /\ UserTurn /\ pending' = pending
    BY <1>14, Moves DEF CreateEffect, Frame
  <2>2. Body = None \/ (Body \in Effects /\ level[Body] < level[e])
    BY <1>14 DEF CreateEffect, MayOwn, Levels
  <2>3. \A h \in On(stack) : h.kind = "effect" => h.who \in Effects /\ level[h.who] < level[e]
    BY <1>1, <1>2, <2>2, ActorIsHighest
  <2> HIDE DEF f
  <2>4. \A h \in On(stack) : h.kind = "effect" => level[h.who] <= level[f.who]
    BY <1>2, <2>1, <2>3 DEF Levels
  <2>5. QED
    BY <1>1, <2>1, <2>4, RunsAscendKept, PendingAscendsKept
<1>15. ASSUME NEW e \in Effects, Dispose(e) PROVE Good
  BY <1>5, <1>15, Moves DEF Dispose
<1>16. ASSUME NEW w \in BOOLEAN, EffectReturns(w) PROVE Good
  BY <1>5, <1>16, Moves DEF EffectReturns
<1>17. ASSUME BatchEnters PROVE Good
  <2> DEFINE f == Frame("batch", None, {}, FALSE)
  <2>1. Pushes(f) /\ f.kind = "batch" /\ UNCHANGED pending
    BY <1>17, Moves DEF BatchEnters, Frame, effectVars
  <2> HIDE DEF f
  <2>2. QED
    BY <1>4, <2>1
<1>18. ASSUME BatchLeaves PROVE Good
  <2> DEFINE f == Frame("flush", None, {}, throwing)
  <2>1. stack # <<>> /\ Top.kind = "batch" /\ pending' = pending /\ (Retops(f) \/ Pops)
    BY <1>18, Moves DEF BatchLeaves, effectVars
  <2>2. f.todo = {}
    BY DEF Frame
  <2> HIDE DEF f
  <2>3. QED
    BY <1>5, <1>9, <2>1, <2>2
<1>19. ASSUME UntrackEnters PROVE Good
  <2> DEFINE f == Frame("untrack", None, {}, FALSE)
  <2>1. Pushes(f) /\ f.kind = "untrack" /\ UNCHANGED pending
    BY <1>19, Moves DEF UntrackEnters, Frame, effectVars
  <2> HIDE DEF f
  <2>2. QED
    BY <1>4, <2>1
<1>20. ASSUME \/ ComputeReturns \/ UntrackLeaves \/ Throw \/ Unwinds \/ Catches
              \/ UNCHANGED vars
       PROVE  Good
  <2>1. Pops \/ Stays
    BY <1>20, Moves
  <2>2. UNCHANGED pending
    BY <1>20 DEF ComputeReturns, UntrackLeaves, Throw, Unwinds, Catches, vars, effectVars
  <2>3. QED
    BY <1>5, <2>1, <2>2
<1> HIDE DEF Good
<1>21. Good
  BY <1>6, <1>7, <1>8, <1>10, <1>11, <1>12, <1>13, <1>14, <1>15, <1>16, <1>17, <1>18,
     <1>19, <1>20 DEF Next
<1>22. QED
  BY <1>21 DEF Good

LEMMA InitAscending == ASSUME Init, NEW level PROVE Ascending(level)
<1>1. On(stack) = {} /\ Above(stack) = {}
  BY EmptyFrames DEF Init
<1>2. ReadsBound
  BY DEF Init, ReadsBound
<1>3. QED
  BY <1>1, <1>2 DEF Ascending, RunsAscend, PendingAscends

(* A disposed effect depends on nothing, holds no cleanup function and     *)
(* does not run.                                                           *)
Detached ==
  /\ \A e \in Effects : live[e] = "disposed" => deps[e] = {} /\ ~cleanup[e]
  /\ \A f \in On(stack) : f.kind = "effect" => live[f.who] = "live"

LEMMA NextDetached ==
  ASSUME Orderly, [Next]_vars, NEW level, Levels(level), Ascending(level), Detached
  PROVE  Detached'
<1> USE DEF Orderly
<1>1. RunsAscend(level) /\ \A e \in Effects : level[e] \in Nat
  BY DEF Ascending, Levels
<1>2. stack # <<>> => Top \in On(stack) /\ Top \in Frames /\ On(Tail(stack)) \subseteq On(stack)
  BY StackTyped
<1>3. currentTarget \in Effects => live[currentTarget] = "live"
  <2> SUFFICES ASSUME currentTarget \in Effects PROVE live[currentTarget] = "live"
    OBVIOUS
  <2>1. PICK g \in On(stack) : User(g) /\ g.who = currentTarget
    BY TargetIsBody, KindsAssumption DEF Nodes
  <2>2. g.kind = "effect"
    BY <2>1, StackTyped, KindsAssumption DEF User, Frames
  <2>3. QED
    BY <2>1, <2>2 DEF Detached
<1>4. ASSUME \A e \in Effects : live'[e] = "disposed" => live[e] = "disposed",
             \A e \in Effects : live[e] = "disposed" => deps'[e] = deps[e] \/ deps'[e] = {},
             \A e \in Effects : live[e] = "disposed" => cleanup'[e] = cleanup[e] \/ ~cleanup'[e],
             \A f \in On(stack)' : f.kind = "effect" => live'[f.who] = "live"
      PROVE  Detached'
  BY <1>4 DEF Detached
<1>5. ASSUME UNCHANGED live, \A f \in On(stack)' : f \in On(stack) \/ f.kind # "effect"
      PROVE  /\ \A e \in Effects : live'[e] = "disposed" => live[e] = "disposed"
             /\ \A f \in On(stack)' : f.kind = "effect" => live'[f.who] = "live"
  BY <1>5 DEF Detached
<1>6. ASSUME NEW x, MayRead(x) PROVE \A e \in Effects : live[e] = "disposed" => Track(x)[e] = deps[e]
  BY <1>3 DEF Track, TypeOK, Nodes
<1>7. ASSUME NEW x \in Signals, GetClean(x) PROVE Detached'
  <2>1. Stays /\ UNCHANGED <<live, cleanup>> /\ deps' = Track(x) /\ MayRead(x)
    BY <1>7, Moves DEF GetClean, effectVars
  <2>2. On(stack)' = On(stack)
    BY <2>1, MoveFrames
  <2>3. QED
    BY <1>4, <1>5, <1>6, <2>1, <2>2
<1>8. ASSUME NEW x \in Signals, GetDirty(x) PROVE Detached'
  <2> DEFINE f == Frame("compute", x, {}, FALSE)
  <2>1. /\ Pushes(f) /\ f.kind = "compute" /\ UNCHANGED <<live, cleanup>> /\ MayRead(x)
        /\ deps' = [Track(x) EXCEPT ![x] = {}] /\ DOMAIN Track(x) = Nodes
    BY <1>8, Moves DEF GetDirty, Frame, effectVars, Track, TypeOK
  <2> HIDE DEF f
  <2>2. On(stack)' = {f} \cup On(stack)
    BY <2>1, MoveFrames
  <2>3. \A e \in Effects : live[e] = "disposed" => deps'[e] = deps[e] \/ deps'[e] = {}
    BY <1>6, <2>1 DEF Nodes
  <2>4. QED
    BY <1>4, <1>5, <2>1, <2>2, <2>3
<1>9. ASSUME NEW e \in Effects, live'[e] = "live",
             \A x \in Effects : live'[x] = live[x] \/ live'[x] = "live",
             deps' = [deps EXCEPT ![e] = {}],
             cleanup' = [cleanup EXCEPT ![e] = FALSE],
             \A f \in On(stack)' : f \in On(stack) \/ f.kind # "effect" \/ f.who = e
      PROVE  Detached'
  <2>1. /\ \A x \in Effects : live'[x] = "disposed" => live[x] = "disposed"
        /\ \A x \in Effects : deps'[x] = deps[x] \/ deps'[x] = {}
    BY <1>9 DEF TypeOK, Nodes
  <2>2. \A x \in Effects : cleanup'[x] = cleanup[x] \/ ~cleanup'[x]
    BY <1>9 DEF TypeOK
  <2>3. ASSUME NEW f \in On(stack)', f.kind = "effect" PROVE live'[f.who] = "live"
    <3>1. CASE f.who = e
      BY <1>9, <3>1
    <3>2. CASE f.who # e
      <4>1. f \in On(stack) /\ live[f.who] = "live" /\ f.who \in Effects
        BY <1>9, <2>3, <3>2, StackTyped DEF Detached, Frames
      <4>2. QED
        BY <1>9, <4>1
    <3>3. QED
      BY <3>1, <3>2
  <2>4. QED
    BY <1>4, <2>1, <2>2, <2>3
<1>10. ASSUME NEW e \in Effects, FlushRuns(e) PROVE Detached'
  <2> DEFINE f == [Top EXCEPT !.todo = @ \ {e}]
             g == Frame("effect", e, {}, FALSE)
  <2>1. /\ stack # <<>> /\ Launches(f, g) /\ g.who = e
        /\ UNCHANGED live /\ live[e] = "live"
        /\ deps' = [deps EXCEPT ![e] = {}] /\ cleanup' = [cleanup EXCEPT ![e] = FALSE]
    BY <1>10, Moves DEF FlushRuns, RunFrom, Runnable, Frame
  <2> HIDE DEF f, g
  <2>2. On(stack)' = {f, g} \cup On(Tail(stack)) /\ f.kind = "flush"
    BY <2>1, MoveFrames DEF Launches
  <2>3. QED
    BY <1>2, <1>9, <2>1, <2>2
<1>11. ASSUME NEW e \in Effects, CreateEffect(e) PROVE Detached'
  <2> DEFINE f == Frame("effect", e, {}, FALSE)
  <2>1. /\ Pushes(f) /\ f.who = e
        /\ live' = [live EXCEPT ![e] = "live"]
        /\ deps' = [deps EXCEPT ![e] = {}] /\ cleanup' = [cleanup EXCEPT ![e] = FALSE]
    BY <1>11, Moves DEF CreateEffect, RunFrom, Frame
  <2> HIDE DEF f
  <2>2. On(stack)' = {f} \cup On(stack)
    BY <2>1, MoveFrames
  <2>3. live'[e] = "live" /\ \A x \in Effects : live'[x] = live[x] \/ live'[x] = "live"
    BY <2>1 DEF TypeOK
  <2>4. QED
    BY <1>9, <2>1, <2>2, <2>3
(* Who disposes of an effect runs below it, so that it is not under way.   *)
<1>12. ASSUME NEW e \in Effects, Dispose(e) PROVE Detached'
  <2>1. /\ live' = [live EXCEPT ![e] = "disposed"]
        /\ deps' = [deps EXCEPT ![e] = {}] /\ cleanup' = [cleanup EXCEPT ![e] = FALSE]
        /\ Stays
    BY <1>12, Moves DEF Dispose
  <2>2. Body = None \/ (Body \in Effects /\ level[Body] < level[e])
    BY <1>12 DEF Dispose, MayOwn, Levels
  <2>3. \A h \in On(stack) : h.kind = "effect" => h.who \in Effects /\ level[h.who] < level[e]
    BY <1>1, <2>2, ActorIsHighest
  <2>4. \A h \in On(stack) : h.kind = "effect" => h.who \in Effects /\ h.who # e
    BY <1>1, <2>3
  <2>5. On(stack)' = On(stack)
    BY <2>1, MoveFrames
  <2>6. \A f \in On(stack)' : f.kind = "effect" => live'[f.who] = "live"
    BY <2>1, <2>4, <2>5 DEF Detached, TypeOK
  <2>7. ASSUME NEW x \in Effects, live'[x] = "disposed" PROVE deps'[x] = {} /\ ~cleanup'[x]
    <3>1. CASE x = e
      BY <2>1, <3>1 DEF TypeOK, Nodes
    <3>2. CASE x # e
      <4>1. live[x] = "disposed" /\ deps'[x] = deps[x]
        BY <2>1, <2>7, <3>2 DEF TypeOK, Nodes
      <4>2. cleanup'[x] = cleanup[x]
        BY <2>1, <3>2 DEF TypeOK
      <4>3. QED
        BY <4>1, <4>2 DEF Detached
    <3>3. QED
      BY <3>1, <3>2
  <2>8. QED
    BY <2>6, <2>7 DEF Detached
<1>13. ASSUME NEW w \in BOOLEAN, EffectReturns(w) PROVE Detached'
  <2>1. /\ stack # <<>> /\ Top.kind = "effect" /\ Pops /\ UNCHANGED <<live, deps>>
        /\ cleanup' = [cleanup EXCEPT ![Top.who] = w]
    BY <1>13, Moves DEF EffectReturns
  <2>2. live[Top.who] = "live"
    BY <1>2, <2>1 DEF Detached
  <2>3. On(stack)' \subseteq On(stack)
    BY <2>1, MoveFrames
  <2>4. \A e \in Effects : live[e] = "disposed" => cleanup'[e] = cleanup[e]
    BY <2>1, <2>2 DEF TypeOK
  <2>5. QED
    BY <1>4, <1>5, <2>1, <2>3, <2>4
<1>14. ASSUME UNCHANGED <<live, deps, cleanup>>,
              \/ \E f : Pushes(f) /\ f.kind # "effect"
              \/ \E f : Retops(f)
              \/ Pops
              \/ Stays
       PROVE  Detached'
  <2>1. \A f \in On(stack)' : f \in On(stack) \/ f.kind # "effect"
    <3>1. ASSUME NEW f, Pushes(f), f.kind # "effect"
          PROVE  \A h \in On(stack)' : h \in On(stack) \/ h.kind # "effect"
      BY <3>1, MoveFrames
    <3>2. ASSUME NEW f, Retops(f)
          PROVE  \A h \in On(stack)' : h \in On(stack) \/ h.kind # "effect"
      BY <1>2, <3>2, MoveFrames DEF Retops
    <3>3. ASSUME Pops \/ Stays
          PROVE  \A h \in On(stack)' : h \in On(stack) \/ h.kind # "effect"
      BY <3>3, MoveFrames
    <3>4. QED
      BY <1>14, <3>1, <3>2, <3>3
  <2>2. QED
    BY <1>4, <1>5, <1>14, <2>1
<1>15. ASSUME \/ \E s \in States, v \in Values : Set(s, v)
              \/ BatchEnters \/ UntrackEnters
       PROVE  Detached'
  <2>1. UNCHANGED <<live, deps, cleanup>>
    BY <1>15 DEF Set, BatchEnters, UntrackEnters, effectVars
  <2>2. Frame("batch", None, {}, FALSE).kind # "effect"
    BY DEF Frame
  <2>3. Frame("untrack", None, {}, FALSE).kind # "effect"
    BY DEF Frame
  <2>4. FlushFrame.kind # "effect"
    BY DEF Frame, FlushFrame
  <2>5. (\E f : Pushes(f) /\ f.kind # "effect") \/ Stays
    BY <1>15, <2>2, <2>3, <2>4, Moves
  <2>6. QED
    BY <1>14, <2>1, <2>5
<1>16. ASSUME \/ ComputeReturns \/ FlushSnapshots \/ FlushReturns
              \/ \E e \in Effects : FlushSkips(e)
              \/ BatchLeaves \/ UntrackLeaves
              \/ Throw \/ Unwinds \/ Catches
              \/ UNCHANGED vars
       PROVE  Detached'
  <2>1. UNCHANGED <<live, deps, cleanup>>
    BY <1>16 DEF ComputeReturns, FlushSnapshots, FlushReturns, FlushSkips, BatchLeaves,
       UntrackLeaves, Throw, Unwinds, Catches, vars, effectVars
  <2>2. (\E f : Retops(f)) \/ Pops \/ Stays
    BY <1>16, Moves
  <2>3. QED
    BY <1>14, <2>1, <2>2
<1>17. QED
  BY <1>7, <1>8, <1>10, <1>11, <1>12, <1>13, <1>15, <1>16 DEF Next

(* A disposed effect subscribes to nothing and its cleanup has run, also   *)
(* when it was disposed of while it waited in a snapshot: in every program *)
(* in which effects create and dispose only of effects above them.         *)
THEOREM DisposalDetaches == ASSUME Layered PROVE Spec => []DisposedIsDetached
<1>1. PICK level \in [Signals \cup Effects -> Nat] : Levels(level)
  BY DEF Layered
<1> DEFINE Inv == Orderly /\ Ascending(level) /\ Detached
<1>2. Init => Inv
  <2>1. Init => Detached
    BY EmptyFrames DEF Init, Detached
  <2>2. QED
    BY <2>1, InitOrderly, InitAscending
<1>3. Inv /\ [Next]_vars => Inv'
  <2> SUFFICES ASSUME Inv, [Next]_vars PROVE Inv'
    OBVIOUS
  <2>1. Orderly' /\ ReadsBound'
    BY NextOrderly, NextReadsBound DEF Ascending
  <2>2. RunsAscend(level)' /\ PendingAscends(level)'
    BY <1>1, NextAscends
  <2>3. Detached'
    BY <1>1, NextDetached
  <2>4. QED
    BY <2>1, <2>2, <2>3 DEF Ascending
<1>4. Inv => DisposedIsDetached
  BY DEF Detached, DisposedIsDetached
<1> HIDE DEF Inv
<1>5. QED
  BY <1>2, <1>3, <1>4, PTL DEF Spec

(* An effect is fresh unless it is scheduled; what is scheduled is pending *)
(* or in the snapshot of a flush under way; what runs is not scheduled.    *)
RunsUnscheduled == \A e \in Effects : running[e] => ~scheduled[e]
NoneThrows == ~throwing /\ \A f \in On(stack) : ~f.rethrow
EffectsAreFresh == \A e \in Effects : live[e] = "live" /\ ~scheduled[e] => Fresh(e, seen[e])
ScheduledIsHeld ==
  \A e \in Effects : live[e] = "live" /\ scheduled[e] =>
    e \in pending \/ \E f \in On(stack) : f.kind = "flush" /\ e \in f.todo

Settling ==
  RunsUnscheduled /\ (~thrown => NoneThrows /\ EffectsAreFresh /\ ScheduledIsHeld)

LEMMA NextRunsUnscheduled ==
  ASSUME Orderly, [Next]_vars, RunsUnscheduled
  PROVE  RunsUnscheduled'
<1> USE DEF Orderly
<1>1. ASSUME NEW s \in States, NEW v \in Values, Set(s, v) PROVE RunsUnscheduled'
  <2>1. PICK M \in SUBSET Computeds :
          scheduled' = [e \in Effects |->
             scheduled[e] \/ e \in {x \in Effects \cap Readers(M \cup {s}) : Schedulable(x)}]
    BY <1>1 DEF Set
  <2>2. UNCHANGED running
    BY <1>1 DEF Set
  <2>3. \A e \in Effects : running[e] => ~scheduled'[e]
    BY <2>1 DEF RunsUnscheduled, Schedulable
  <2>4. QED
    BY <2>2, <2>3 DEF RunsUnscheduled
<1>2. ASSUME NEW e \in Effects, FlushRuns(e) \/ CreateEffect(e) PROVE RunsUnscheduled'
  <2>1. /\ scheduled' = [scheduled EXCEPT ![e] = FALSE]
        /\ running' = [running EXCEPT ![e] = TRUE]
    BY <1>2 DEF FlushRuns, CreateEffect, RunFrom
  <2>2. ~scheduled'[e] /\ \A x \in Effects : x # e =>
          scheduled'[x] = scheduled[x] /\ running'[x] = running[x]
    BY <2>1 DEF TypeOK
  <2>3. QED
    BY <2>2 DEF RunsUnscheduled
<1>3. ASSUME (\E w \in BOOLEAN : EffectReturns(w)) \/ Unwinds PROVE RunsUnscheduled'
  <2>1. UNCHANGED scheduled
    BY <1>3 DEF EffectReturns, Unwinds
  <2>2. UNCHANGED running \/ \E e : running' = [running EXCEPT ![e] = FALSE]
    BY <1>3 DEF EffectReturns, Unwinds
  <2>3. \A x \in Effects : running'[x] => running[x]
    BY <2>2 DEF TypeOK
  <2>4. QED
    BY <2>1, <2>3 DEF RunsUnscheduled
<1>4. ASSUME \/ \E x \in Signals : GetClean(x) \/ GetDirty(x)
             \/ ComputeReturns
             \/ FlushSnapshots \/ FlushReturns
             \/ \E e \in Effects : FlushSkips(e) \/ Dispose(e)
             \/ BatchEnters \/ BatchLeaves \/ UntrackEnters \/ UntrackLeaves
             \/ Throw \/ Catches
             \/ UNCHANGED vars
      PROVE  RunsUnscheduled'
  <2>1. UNCHANGED <<scheduled, running>>
    BY <1>4 DEF GetClean, GetDirty, ComputeReturns, FlushSnapshots, FlushReturns,
       FlushSkips, Dispose, BatchEnters, BatchLeaves, UntrackEnters, UntrackLeaves,
       Throw, Catches, vars, effectVars
  <2>2. QED
    BY <2>1 DEF RunsUnscheduled
<1>5. QED
  BY <1>1, <1>2, <1>3, <1>4 DEF Next

LEMMA NextNoneThrows ==
  ASSUME Orderly, [Next]_vars, NoneThrows, ~thrown'
  PROVE  NoneThrows'
<1> USE DEF Orderly
<1>1. stack # <<>> => /\ Top \in Frames /\ Top \in On(stack) /\ ~Top.rethrow
                      /\ On(Tail(stack)) \subseteq On(stack)
  BY StackTyped DEF NoneThrows
<1>2. ASSUME ~throwing',
             \/ \E f : Pushes(f) /\ ~f.rethrow
             \/ \E f : Retops(f) /\ ~f.rethrow
             \/ \E f, g : Launches(f, g) /\ ~f.rethrow /\ ~g.rethrow
             \/ Pops
             \/ Stays
      PROVE  NoneThrows'
  <2>1. ASSUME NEW f, Pushes(f), ~f.rethrow PROVE \A h \in On(stack)' : ~h.rethrow
    BY <2>1, MoveFrames DEF NoneThrows
  <2>2. ASSUME NEW f, Retops(f), ~f.rethrow PROVE \A h \in On(stack)' : ~h.rethrow
    BY <1>1, <2>2, MoveFrames DEF NoneThrows, Retops
  <2>3. ASSUME NEW f, NEW g, Launches(f, g), ~f.rethrow, ~g.rethrow
        PROVE  \A h \in On(stack)' : ~h.rethrow
    <3>1. On(stack)' = {f, g} \cup On(Tail(stack)) /\ stack # <<>>
      BY <2>3, MoveFrames DEF Launches
    <3>2. QED
      BY <1>1, <2>3, <3>1 DEF NoneThrows
  <2>4. ASSUME Pops \/ Stays PROVE \A h \in On(stack)' : ~h.rethrow
    BY <2>4, MoveFrames DEF NoneThrows
  <2>5. QED
    BY <1>2, <2>1, <2>2, <2>3, <2>4 DEF NoneThrows
<1>3. \A k, w, t : ~Frame(k, w, t, FALSE).rethrow
  BY DEF Frame
<1>4. ASSUME NEW x \in Signals, GetDirty(x) PROVE NoneThrows'
  <2>1. Pushes(Frame("compute", x, {}, FALSE)) /\ ~throwing'
    BY <1>4, Moves DEF GetDirty, NoneThrows, exceptionVars
  <2>2. QED
    BY <1>2, <1>3, <2>1
<1>5. ASSUME NEW s \in States, NEW v \in Values, Set(s, v) PROVE NoneThrows'
  <2>1. (Pushes(FlushFrame) \/ Stays) /\ ~throwing'
    BY <1>5, Moves DEF Set, NoneThrows, exceptionVars
  <2>2. ~FlushFrame.rethrow
    BY <1>3 DEF FlushFrame
  <2>3. QED
    BY <1>2, <2>1, <2>2
<1>6. ASSUME FlushSnapshots PROVE NoneThrows'
  <2> DEFINE f == [Top EXCEPT !.todo = pending]
  <2>1. Retops(f) /\ ~throwing' /\ stack # <<>>
    BY <1>6, Moves DEF FlushSnapshots, NoneThrows, exceptionVars
  <2>2. ~f.rethrow
    BY <1>1, <2>1 DEF Frames
  <2> HIDE DEF f
  <2>3. QED
    BY <1>2, <2>1, <2>2
<1>7. ASSUME FlushReturns PROVE NoneThrows'
  BY <1>1, <1>2, <1>7, Moves DEF FlushReturns
<1>8. ASSUME NEW e \in Effects, FlushRuns(e) \/ FlushSkips(e) PROVE NoneThrows'
  <2> DEFINE f == [Top EXCEPT !.todo = @ \ {e}]
             g == Frame("effect", e, {}, FALSE)
  <2>1. (Launches(f, g) \/ Retops(f)) /\ ~throwing' /\ stack # <<>>
    <3>1. Launches(f, g) \/ Retops(f)
      BY <1>8, Moves
    <3>2. ~throwing' /\ stack # <<>>
      BY <1>8 DEF FlushRuns, FlushSkips, NoneThrows, exceptionVars
    <3>3. QED
      BY <3>1, <3>2
  <2>2. ~f.rethrow /\ ~g.rethrow
    BY <1>1, <1>3, <2>1 DEF Frames
  <2> HIDE DEF f, g
  <2>3. QED
    BY <1>2, <2>1, <2>2
<1>9. ASSUME NEW e \in Effects, CreateEffect(e) PROVE NoneThrows'
  <2>1. Pushes(Frame("effect", e, {}, FALSE)) /\ ~throwing'
    BY <1>9, Moves DEF CreateEffect, NoneThrows, exceptionVars
  <2>2. QED
    BY <1>2, <1>3, <2>1
<1>10. ASSUME BatchEnters PROVE NoneThrows'
  <2>1. Pushes(Frame("batch", None, {}, FALSE)) /\ ~throwing'
    BY <1>10, Moves DEF BatchEnters, NoneThrows, exceptionVars
  <2>2. QED
    BY <1>2, <1>3, <2>1
<1>11. ASSUME UntrackEnters PROVE NoneThrows'
  <2>1. Pushes(Frame("untrack", None, {}, FALSE)) /\ ~throwing'
    BY <1>11, Moves DEF UntrackEnters, NoneThrows, exceptionVars
  <2>2. QED
    BY <1>2, <1>3, <2>1
<1>12. ASSUME BatchLeaves PROVE NoneThrows'
  <2>1. (Retops(Frame("flush", None, {}, throwing)) \/ Pops) /\ ~throwing' /\ throwing = FALSE
    BY <1>12, Moves DEF BatchLeaves, NoneThrows, TypeOK
  <2>2. ~Frame("flush", None, {}, throwing).rethrow
    BY <2>1 DEF Frame
  <2>3. QED
    BY <1>2, <2>1, <2>2
<1>13. ASSUME \/ \E x \in Signals : GetClean(x)
              \/ ComputeReturns
              \/ \E e \in Effects : Dispose(e)
              \/ \E w \in BOOLEAN : EffectReturns(w)
              \/ UntrackLeaves
              \/ UNCHANGED vars
       PROVE  NoneThrows'
  <2>1. ~throwing'
    BY <1>13 DEF GetClean, ComputeReturns, Dispose, EffectReturns, UntrackLeaves, vars,
       NoneThrows, exceptionVars
  <2>2. Pops \/ Stays
    BY <1>13, Moves
  <2>3. QED
    BY <1>2, <2>1, <2>2
<1>14. ~Throw /\ ~Unwinds /\ ~Catches
  BY DEF Throw, Unwinds, Catches, NoneThrows
<1>15. QED
  BY <1>4, <1>5, <1>6, <1>7, <1>8, <1>9, <1>10, <1>11, <1>12, <1>13, <1>14 DEF Next

(* A set reaches no effect that runs: what reads the signal is above it.   *)
LEMMA SetKeepsEffectsFresh ==
  ASSUME Orderly, NEW level, Levels(level), Ascending(level), EffectsAreFresh,
         NEW s \in States, NEW v \in Values, Set(s, v)
  PROVE  EffectsAreFresh'
<1> USE DEF Orderly
<1>1. PICK M \in SUBSET Computeds :
        /\ Marked(M, s)
        /\ dirty' = [c \in Computeds |-> dirty[c] \/ c \in M]
        /\ scheduled' = [e \in Effects |->
             scheduled[e] \/ e \in {x \in Effects \cap Readers(M \cup {s}) : Schedulable(x)}]
  BY DEF Set
<1>2. /\ val' = [val EXCEPT ![s] = v]
      /\ UNCHANGED <<cached, deps, seen, live>>
  BY DEF Set
<1>3. ReadsBound /\ level[s] \in Nat /\ \A e \in Effects : level[e] \in Nat
  BY DEF Ascending, Levels, Signals
<1>4. ASSUME NEW e \in Effects, live[e] = "live", ~scheduled'[e]
      PROVE  /\ ~scheduled[e] /\ e \notin Readers(M \cup {s})
  <2>1. ~scheduled[e] /\ ~(e \in Readers(M \cup {s}) /\ Schedulable(e))
    BY <1>1, <1>4
  <2>2. SUFFICES ASSUME e \in Readers(M \cup {s}) PROVE FALSE
    BY <2>1
  <2>3. running[e]
    BY <1>4, <2>1, <2>2 DEF Schedulable
  <2>4. PICK h \in On(stack) : h.kind = "effect" /\ h.who = e
    BY <2>3 DEF RunsAreOnStack
  <2>5. level[e] < level[s]
    BY <2>4, SetAscends
  <2>6. level[s] <= level[e]
    BY <1>1, <1>3, <2>2, MarksAscend
  <2>7. QED
    BY <1>3, <2>5, <2>6
<1>5. ASSUME NEW e \in Effects, live'[e] = "live", ~scheduled'[e],
             NEW x \in DOMAIN seen'[e]
      PROVE  /\ x \in deps'[e] /\ seen'[e][x] = Value(x)'
             /\ x \in Computeds => ~dirty'[x]
  <2>1. ~scheduled[e] /\ e \notin Readers(M \cup {s}) /\ live[e] = "live"
    BY <1>2, <1>4, <1>5
  <2>2. x \in deps[e] /\ seen[e][x] = Value(x) /\ (x \in Computeds => ~dirty[x])
    BY <1>2, <1>5, <2>1 DEF EffectsAreFresh, Fresh
  <2>3. x \notin M \cup {s}
    BY <2>1, <2>2 DEF Readers, Nodes
  <2>4. x \in Computeds => ~dirty'[x]
    BY <1>1, <2>2, <2>3
  <2>5. Value(x)' = Value(x)
    BY <1>2, <2>3 DEF Value, TypeOK
  <2>6. QED
    BY <1>2, <2>2, <2>4, <2>5
<1>6. QED
  BY <1>5 DEF EffectsAreFresh, Fresh

LEMMA NextEffectsAreFresh ==
  ASSUME Orderly, [Next]_vars, NEW level, Levels(level), Ascending(level),
         NEW rank, Ranks(rank), Glitchless(rank), NoneThrows, EffectsAreFresh
  PROVE  EffectsAreFresh'
<1> USE DEF Orderly
<1>1. ASSUME UNCHANGED <<val, dirty, cached>>,
             \A e \in Effects : live'[e] = "live" /\ ~scheduled'[e] =>
               \/ seen'[e] = Nothing
               \/ /\ live[e] = "live" /\ ~scheduled[e] /\ seen'[e] = seen[e]
                  /\ deps[e] \subseteq deps'[e]
      PROVE  EffectsAreFresh'
  <2> SUFFICES ASSUME NEW e \in Effects, live'[e] = "live", ~scheduled'[e]
               PROVE  Fresh(e, seen[e])'
    BY DEF EffectsAreFresh
  <2>1. CASE seen'[e] = Nothing
    <3>1. DOMAIN seen'[e] = {}
      BY <2>1 DEF Nothing
    <3>2. QED
      BY <3>1 DEF Fresh
  <2>2. CASE /\ live[e] = "live" /\ ~scheduled[e] /\ seen'[e] = seen[e]
             /\ deps[e] \subseteq deps'[e]
    <3>1. Fresh(e, seen[e])
      BY <2>2 DEF EffectsAreFresh
    <3>2. \A x : Value(x)' = Value(x)
      BY <1>1 DEF Value
    <3>3. QED
      BY <1>1, <2>2, <3>1, <3>2 DEF Fresh
  <2>3. QED
    BY <1>1, <2>1, <2>2
<1>2. ASSUME NEW x \in Signals, GetClean(x) PROVE EffectsAreFresh'
  <2>1. /\ currentTarget \in Nodes
        /\ x \in Computeds => ~dirty[x]
        /\ deps' = [deps EXCEPT ![currentTarget] = @ \cup {x}]
        /\ seen' = [seen EXCEPT ![currentTarget] = With(@, x, Value(x))]
        /\ UNCHANGED <<val, dirty, cached, live, scheduled>>
    BY <1>2 DEF GetClean, Track, TypeOK, computedVars, effectVars
  <2>2. \A y : Value(y)' = Value(y)
    BY <2>1 DEF Value
  <2>3. ASSUME NEW e \in Effects, live'[e] = "live", ~scheduled'[e]
        PROVE  Fresh(e, seen[e])'
    <3>1. Fresh(e, seen[e]) /\ e \in Nodes
      BY <2>1, <2>3 DEF EffectsAreFresh, Nodes
    <3>2. CASE e = currentTarget
      <4>1. /\ seen'[e] = With(seen[e], x, Value(x))
            /\ deps'[e] = deps[e] \cup {x}
        BY <2>1, <3>1, <3>2 DEF TypeOK
      <4>2. QED
        BY <2>1, <2>2, <3>1, <4>1 DEF Fresh, With
    <3>3. CASE e # currentTarget
      <4>1. seen'[e] = seen[e] /\ deps'[e] = deps[e]
        BY <2>1, <3>1, <3>3 DEF TypeOK
      <4>2. QED
        BY <2>1, <2>2, <3>1, <4>1 DEF Fresh
    <3>4. QED
      BY <3>2, <3>3
  <2>4. QED
    BY <2>3 DEF EffectsAreFresh
<1>3. ASSUME NEW x \in Signals, GetDirty(x) PROVE EffectsAreFresh'
  <2>1. /\ UNCHANGED <<val, dirty, cached, live, scheduled>> /\ x \in Computeds
        /\ deps' = [Track(x) EXCEPT ![x] = {}] /\ seen' = [seen EXCEPT ![x] = Nothing]
    BY <1>3 DEF GetDirty, computedVars, effectVars
  <2>2. \A e \in Effects : seen'[e] = seen[e] /\ deps[e] \subseteq deps'[e]
    BY <2>1, KindsAssumption DEF Track, TypeOK, Nodes
  <2>3. QED
    BY <1>1, <2>1, <2>2
<1>4. ASSUME ComputeReturns PROVE EffectsAreFresh'
  <2>1. stack # <<>> /\ Top.kind = "compute" /\ UNCHANGED <<live, scheduled>>
    BY <1>4 DEF ComputeReturns, effectVars
  <2>2. Top.who \in Computeds
    BY <2>1, StackTyped DEF Frames
  <2>3. \A n \in Nodes : n # Top.who /\ Fresh(n, seen[n]) => Fresh(n, seen[n])'
    BY <1>4, ReturnedIsFresh
  <2>4. \A e \in Effects : Fresh(e, seen[e]) => Fresh(e, seen[e])'
    BY <2>2, <2>3, KindsAssumption DEF Nodes
  <2>5. QED
    BY <2>1, <2>4 DEF EffectsAreFresh
<1>5. ASSUME NEW s \in States, NEW v \in Values, Set(s, v) PROVE EffectsAreFresh'
  BY <1>5, SetKeepsEffectsFresh
<1>6. ASSUME NEW e \in Effects, FlushRuns(e) \/ CreateEffect(e) PROVE EffectsAreFresh'
  <2>1. /\ UNCHANGED <<val, dirty, cached>>
        /\ scheduled' = [scheduled EXCEPT ![e] = FALSE]
        /\ deps' = [deps EXCEPT ![e] = {}]
        /\ seen' = [seen EXCEPT ![e] = Nothing]
        /\ live' = live \/ live' = [live EXCEPT ![e] = "live"]
    BY <1>6 DEF FlushRuns, CreateEffect, RunFrom, computedVars
  <2>2. seen'[e] = Nothing /\ \A x \in Effects : x # e =>
          /\ live'[x] = live[x] /\ scheduled'[x] = scheduled[x]
          /\ seen'[x] = seen[x] /\ deps'[x] = deps[x]
    BY <2>1 DEF TypeOK, Nodes
  <2>3. QED
    BY <1>1, <2>1, <2>2
<1>7. ASSUME NEW e \in Effects, Dispose(e) PROVE EffectsAreFresh'
  <2>1. /\ UNCHANGED <<val, dirty, cached, seen, scheduled>>
        /\ deps' = [deps EXCEPT ![e] = {}]
        /\ live' = [live EXCEPT ![e] = "disposed"]
    BY <1>7 DEF Dispose, computedVars
  <2>2. live'[e] = "disposed" /\ \A x \in Effects : x # e =>
          live'[x] = live[x] /\ deps'[x] = deps[x]
    BY <2>1 DEF TypeOK, Nodes
  <2>3. QED
    BY <1>1, <2>1, <2>2
<1>8. ASSUME \/ FlushSnapshots \/ FlushReturns
             \/ \E e \in Effects : FlushSkips(e)
             \/ \E w \in BOOLEAN : EffectReturns(w)
             \/ BatchEnters \/ BatchLeaves \/ UntrackEnters \/ UntrackLeaves
             \/ Throw \/ Unwinds \/ Catches
             \/ UNCHANGED vars
      PROVE  EffectsAreFresh'
  <2>1. UNCHANGED <<val, dirty, cached, deps, seen, live, scheduled>>
    BY <1>8 DEF FlushSnapshots, FlushReturns, FlushSkips, EffectReturns, BatchEnters,
       BatchLeaves, UntrackEnters, UntrackLeaves, Throw, Unwinds, Catches, vars,
       effectVars, computedVars
  <2>2. QED
    BY <1>1, <2>1
<1>9. QED
  BY <1>2, <1>3, <1>4, <1>5, <1>6, <1>7, <1>8 DEF Next

LEMMA NextScheduledIsHeld ==
  ASSUME Orderly, [Next]_vars, NoneThrows, RunsUnscheduled, ScheduledIsHeld
  PROVE  ScheduledIsHeld'
<1> USE DEF Orderly
<1>1. stack # <<>> => /\ Top \in Frames /\ Top \in On(stack)
                      /\ On(stack) = {Top} \cup On(Tail(stack))
  BY StackTyped
<1> DEFINE Held(e) == e \in pending \/ \E f \in On(stack) : f.kind = "flush" /\ e \in f.todo
<1>2. ASSUME \A e \in Effects : live'[e] = "live" /\ scheduled'[e] =>
               Held(e)' \/ (live[e] = "live" /\ scheduled[e]),
             \A e \in Effects : live[e] = "live" /\ scheduled[e] /\ Held(e) =>
               Held(e)' \/ ~(live'[e] = "live" /\ scheduled'[e])
      PROVE  ScheduledIsHeld'
  <2>1. \A e \in Effects : live[e] = "live" /\ scheduled[e] => Held(e)
    BY DEF ScheduledIsHeld
  <2>2. (\A e \in Effects : live'[e] = "live" /\ scheduled'[e] => Held(e)') => ScheduledIsHeld'
    BY DEF ScheduledIsHeld
  <2> HIDE DEF Held
  <2>3. QED
    BY <1>2, <2>1, <2>2
<1>3. ASSUME pending \subseteq pending', \A f \in On(stack) : f.kind = "flush" => f \in On(stack)'
      PROVE  \A e \in Effects : Held(e) => Held(e)'
  BY <1>3
<1>4. ASSUME \/ \E f : Pushes(f)
             \/ Pops /\ Top.kind # "flush"
             \/ \E f : Retops(f) /\ Top.kind # "flush"
             \/ Stays
      PROVE  \A f \in On(stack) : f.kind = "flush" => f \in On(stack)'
  <2>1. ASSUME NEW f, Pushes(f) PROVE On(stack) \subseteq On(stack)'
    BY <2>1, MoveFrames
  <2>2. ASSUME Pops PROVE On(stack) = {Top} \cup On(stack)'
    BY <2>2, MoveFrames
  <2>3. ASSUME NEW f, Retops(f) PROVE On(stack) = {Top} \cup On(Tail(stack)) /\ On(Tail(stack)) \subseteq On(stack)'
    BY <1>1, <2>3, MoveFrames DEF Retops
  <2>4. ASSUME Stays PROVE On(stack)' = On(stack)
    BY <2>4, MoveFrames
  <2>5. QED
    BY <1>4, <2>1, <2>2, <2>3, <2>4
<1>5. ASSUME UNCHANGED <<live, scheduled>>, pending \subseteq pending',
             \/ \E f : Pushes(f)
             \/ Pops /\ Top.kind # "flush"
             \/ \E f : Retops(f) /\ Top.kind # "flush"
             \/ Stays
      PROVE  ScheduledIsHeld'
  <2>1. \A e \in Effects : Held(e) => Held(e)'
    BY <1>3, <1>4, <1>5
  <2> HIDE DEF Held
  <2>2. QED
    BY <1>2, <1>5, <2>1
<1>6. ASSUME NEW s \in States, NEW v \in Values, Set(s, v) PROVE ScheduledIsHeld'
  <2>1. PICK M \in SUBSET Computeds :
          LET E == {e \in Effects \cap Readers(M \cup {s}) : Schedulable(e)}
          IN  /\ scheduled' = [e \in Effects |-> scheduled[e] \/ e \in E]
              /\ pending' = pending \cup E
    BY <1>6 DEF Set
  <2>2. (Pushes(FlushFrame) \/ Stays) /\ UNCHANGED live
    BY <1>6, Moves DEF Set
  <2>3. pending \subseteq pending' /\ \A e \in Effects : scheduled'[e] => scheduled[e] \/ e \in pending'
    BY <2>1
  <2>4. \A e \in Effects : Held(e) => Held(e)'
    BY <1>3, <1>4, <2>2, <2>3
  <2> HIDE DEF Held
  <2>5. \A e \in Effects : live'[e] = "live" /\ scheduled'[e] =>
          Held(e)' \/ (live[e] = "live" /\ scheduled[e])
    <3> TAKE e \in Effects
    <3>1. HAVE live'[e] = "live" /\ scheduled'[e]
    <3>2. live[e] = "live"
      BY <2>2, <3>1
    <3>3. scheduled[e] \/ e \in pending'
      BY <2>3, <3>1
    <3>4. CASE e \in pending'
      BY <3>4 DEF Held
    <3>5. CASE scheduled[e]
      BY <3>2, <3>5
    <3>6. QED
      BY <3>3, <3>4, <3>5
  <2>6. QED
    BY <1>2, <2>4, <2>5
<1>7. ASSUME FlushSnapshots PROVE ScheduledIsHeld'
  <2> DEFINE f == [Top EXCEPT !.todo = pending]
  <2>1. /\ stack # <<>> /\ Top.kind = "flush" /\ Top.todo = {} /\ Retops(f)
        /\ UNCHANGED <<live, scheduled>>
    BY <1>7, Moves DEF FlushSnapshots
  <2>2. f.todo = pending
    BY <1>1, <2>1 DEF Frames
  <2> HIDE DEF f
  <2>3. On(stack)' = {f} \cup On(Tail(stack)) /\ f.kind = "flush"
    BY <2>1, MoveFrames DEF Retops
  <2>4. \A e \in Effects : Held(e) => Held(e)'
    BY <1>1, <2>1, <2>2, <2>3
  <2> HIDE DEF Held
  <2>5. QED
    BY <1>2, <2>1, <2>4
<1>8. ASSUME FlushReturns PROVE ScheduledIsHeld'
  <2>1. /\ stack # <<>> /\ Top.kind = "flush" /\ Top.todo = {} /\ Pops
        /\ UNCHANGED <<live, scheduled, pending>>
    BY <1>8, Moves DEF FlushReturns, effectVars
  <2>2. On(stack) = {Top} \cup On(stack)'
    BY <2>1, MoveFrames
  <2>3. \A e \in Effects : Held(e) => Held(e)'
    BY <2>1, <2>2
  <2> HIDE DEF Held
  <2>4. QED
    BY <1>2, <2>1, <2>3
(* What leaves a snapshot is run, or is disposed of or running already.    *)
<1>9. ASSUME NEW e \in Effects, stack # <<>>, Top.kind = "flush", UNCHANGED <<live, pending>>,
             \A x \in Effects : x # e => scheduled'[x] = scheduled[x],
             live[e] = "live" => ~scheduled'[e],
             On(Tail(stack)) \subseteq On(stack)',
             \E f \in On(stack)' : f.kind = "flush" /\ f.todo = Top.todo \ {e}
      PROVE  ScheduledIsHeld'
  <2>1. \A x \in Effects : x # e /\ Held(x) => Held(x)'
    BY <1>1, <1>9
  <2> HIDE DEF Held
  <2>2. \A x \in Effects : live'[x] = "live" /\ scheduled'[x] =>
          x # e /\ live[x] = "live" /\ scheduled[x]
    BY <1>9
  <2>3. QED
    BY <1>2, <2>1, <2>2
<1>10. ASSUME NEW e \in Effects, FlushRuns(e) PROVE ScheduledIsHeld'
  <2> DEFINE f == [Top EXCEPT !.todo = @ \ {e}]
             g == Frame("effect", e, {}, FALSE)
  <2>1. /\ stack # <<>> /\ Top.kind = "flush" /\ UNCHANGED <<live, pending>>
        /\ scheduled' = [scheduled EXCEPT ![e] = FALSE]
        /\ Launches(f, g)
    BY <1>10, Moves DEF FlushRuns, RunFrom
  <2>2. f.todo = Top.todo \ {e}
    BY <1>1, <2>1 DEF Frames
  <2> HIDE DEF f, g
  <2>3. On(stack)' = {f, g} \cup On(Tail(stack)) /\ f.kind = "flush"
    BY <2>1, MoveFrames DEF Launches
  <2>4. ~scheduled'[e] /\ \A x \in Effects : x # e => scheduled'[x] = scheduled[x]
    BY <2>1 DEF TypeOK
  <2>5. QED
    BY <1>9, <2>1, <2>2, <2>3, <2>4
<1>11. ASSUME NEW e \in Effects, FlushSkips(e) PROVE ScheduledIsHeld'
  <2> DEFINE f == [Top EXCEPT !.todo = @ \ {e}]
  <2>1. /\ stack # <<>> /\ Top.kind = "flush" /\ UNCHANGED <<live, pending, scheduled>>
        /\ live[e] = "live" => running[e]
        /\ Retops(f)
    BY <1>11, Moves DEF FlushSkips, Runnable, effectVars
  <2>2. f.todo = Top.todo \ {e}
    BY <1>1, <2>1 DEF Frames
  <2> HIDE DEF f
  <2>3. On(stack)' = {f} \cup On(Tail(stack)) /\ f.kind = "flush"
    BY <2>1, MoveFrames DEF Retops
  <2>4. live[e] = "live" => ~scheduled'[e]
    BY <2>1 DEF RunsUnscheduled
  <2>5. QED
    BY <1>9, <2>1, <2>2, <2>3, <2>4
<1>12. ASSUME NEW e \in Effects, CreateEffect(e) PROVE ScheduledIsHeld'
  <2>1. /\ Pushes(Frame("effect", e, {}, FALSE)) /\ UNCHANGED pending
        /\ scheduled' = [scheduled EXCEPT ![e] = FALSE]
        /\ live' = [live EXCEPT ![e] = "live"]
    BY <1>12, Moves DEF CreateEffect, RunFrom
  <2>2. ~scheduled'[e] /\ \A x \in Effects : x # e =>
          scheduled'[x] = scheduled[x] /\ live'[x] = live[x]
    BY <2>1 DEF TypeOK
  <2>3. \A x \in Effects : Held(x) => Held(x)'
    BY <1>3, <1>4, <2>1
  <2> HIDE DEF Held
  <2>4. QED
    BY <1>2, <2>2, <2>3
<1>13. ASSUME NEW e \in Effects, Dispose(e) PROVE ScheduledIsHeld'
  <2>1. /\ Stays /\ pending' = pending \ {e} /\ UNCHANGED scheduled
        /\ live' = [live EXCEPT ![e] = "disposed"]
    BY <1>13, Moves DEF Dispose
  <2>2. live'[e] # "live" /\ \A x \in Effects : x # e => live'[x] = live[x]
    BY <2>1 DEF TypeOK
  <2>3. On(stack)' = On(stack)
    BY <2>1, MoveFrames
  <2>4. \A x \in Effects : x # e /\ Held(x) => Held(x)'
    BY <2>1, <2>3
  <2> HIDE DEF Held
  <2>5. QED
    BY <1>2, <2>1, <2>2, <2>4
<1>14. ASSUME \/ \E x \in Signals : GetClean(x) \/ GetDirty(x)
              \/ BatchEnters \/ UntrackEnters
              \/ UNCHANGED vars
       PROVE  ScheduledIsHeld'
  <2>1. UNCHANGED <<live, scheduled, pending>>
    BY <1>14 DEF GetClean, GetDirty, BatchEnters, UntrackEnters, vars, effectVars
  <2>2. (\E f : Pushes(f)) \/ Stays
    BY <1>14, Moves
  <2>3. QED
    BY <1>5, <2>1, <2>2
<1>15. ASSUME \/ ComputeReturns
              \/ \E w \in BOOLEAN : EffectReturns(w)
              \/ BatchLeaves \/ UntrackLeaves
       PROVE  ScheduledIsHeld'
  <2>1. UNCHANGED <<live, scheduled, pending>> /\ stack # <<>> /\ Top.kind # "flush"
    BY <1>15 DEF ComputeReturns, EffectReturns, BatchLeaves, UntrackLeaves, effectVars
  <2>2. (\E f : Retops(f)) \/ Pops
    BY <1>15, Moves
  <2>3. QED
    BY <1>5, <2>1, <2>2
<1>16. ASSUME Throw PROVE ScheduledIsHeld'
  <2>1. UNCHANGED <<live, scheduled, pending>> /\ Stays
    BY <1>16, Moves DEF Throw, effectVars
  <2>2. QED
    BY <1>5, <2>1
<1>17. ~Unwinds /\ ~Catches
  BY DEF Unwinds, Catches, NoneThrows
<1>18. QED
  BY <1>6, <1>7, <1>8, <1>10, <1>11, <1>12, <1>13, <1>14, <1>15, <1>16, <1>17 DEF Next

LEMMA NextSettling ==
  ASSUME Orderly, [Next]_vars, NEW level, Levels(level), Ascending(level),
         NEW rank, Ranks(rank), Glitchless(rank), Settling
  PROVE  Settling'
<1>1. RunsUnscheduled'
  BY NextRunsUnscheduled DEF Settling
<1>2. ~thrown' => ~thrown
  <2>1. ASSUME \/ \E x \in Signals : GetClean(x) \/ GetDirty(x)
               \/ ComputeReturns
               \/ \E s \in States, v \in Values : Set(s, v)
               \/ FlushSnapshots \/ FlushReturns
               \/ \E e \in Effects : FlushRuns(e) \/ FlushSkips(e)
               \/ \E e \in Effects : CreateEffect(e) \/ Dispose(e)
               \/ \E w \in BOOLEAN : EffectReturns(w)
               \/ BatchEnters \/ BatchLeaves \/ UntrackEnters \/ UntrackLeaves
               \/ Unwinds \/ Catches
               \/ UNCHANGED vars
        PROVE  UNCHANGED thrown
    BY <2>1 DEF GetClean, GetDirty, ComputeReturns, Set, FlushSnapshots, FlushReturns,
       FlushRuns, FlushSkips, CreateEffect, Dispose, EffectReturns, BatchEnters,
       BatchLeaves, UntrackEnters, UntrackLeaves, Unwinds, Catches, vars, exceptionVars
  <2>2. Throw => thrown'
    BY DEF Throw
  <2>3. QED
    BY <2>1, <2>2 DEF Next
<1>3. ASSUME ~thrown' PROVE NoneThrows' /\ EffectsAreFresh' /\ ScheduledIsHeld'
  <2>1. NoneThrows /\ EffectsAreFresh /\ ScheduledIsHeld /\ RunsUnscheduled
    BY <1>2, <1>3 DEF Settling
  <2>2. QED
    BY <1>3, <2>1, NextNoneThrows, NextEffectsAreFresh, NextScheduledIsHeld
<1>4. QED
  BY <1>1, <1>3 DEF Settling

(* As long as nothing has thrown, whenever the outermost call returns      *)
(* every live effect has last run with the values its signals have: for    *)
(* every acyclic program whose effects set only what is above them.        *)
THEOREM EffectsSettle == ASSUME Acyclic, Layered PROVE Spec => []EffectsUpToDate
<1>1. PICK rank \in [Computeds -> Nat] : Ranks(rank)
  BY DEF Acyclic
<1>2. PICK level \in [Signals \cup Effects -> Nat] : Levels(level)
  BY DEF Layered
<1> DEFINE Inv == Orderly /\ Glitchless(rank) /\ Ascending(level) /\ Settling
<1>3. Init => Inv
  <2>1. ASSUME Init PROVE Settling
    <3>1. On(stack) = {} /\ ~throwing
      BY <2>1, EmptyFrames DEF Init
    <3>2. RunsUnscheduled /\ ScheduledIsHeld /\ EffectsAreFresh
      BY <2>1 DEF Init, RunsUnscheduled, ScheduledIsHeld, EffectsAreFresh
    <3>3. QED
      BY <3>1, <3>2 DEF Settling, NoneThrows
  <2>2. QED
    BY <2>1, InitOrderly, InitGlitchless, InitAscending
<1>4. Inv /\ [Next]_vars => Inv'
  <2> SUFFICES ASSUME Inv, [Next]_vars PROVE Inv'
    OBVIOUS
  <2>1. Orderly'
    BY NextOrderly
  <2>2. Glitchless(rank)'
    BY <1>1, <2>1, NextGlitchless
  <2>3. Ascending(level)'
    BY <1>2, NextAscends, NextReadsBound DEF Ascending
  <2>4. Settling'
    BY <1>1, <1>2, NextSettling
  <2>5. QED
    BY <2>1, <2>2, <2>3, <2>4
<1>5. Inv => EffectsUpToDate
  <2> SUFFICES ASSUME Inv, ~thrown, AtRest, NEW e \in Effects, live[e] = "live"
               PROVE  \A x \in DOMAIN seen[e] : /\ seen[e][x] = Value(x)
                                                /\ x \in Computeds => ~dirty[x]
    BY DEF EffectsUpToDate, SettlesUpToDate
  <2>1. stack = <<>> /\ On(stack) = {}
    BY EmptyFrames DEF AtRest
  <2>2. batchDepth = 0
    BY <2>1, DepthOfEmpty DEF Orderly, Nested
  <2>3. pending = {}
    BY <2>1, <2>2 DEF Orderly, PendingIsHeld
  <2>4. ~scheduled[e]
    BY <2>1, <2>3 DEF Settling, ScheduledIsHeld
  <2>5. Fresh(e, seen[e])
    BY <2>4 DEF Settling, EffectsAreFresh
  <2>6. QED
    BY <2>5 DEF Fresh
<1> HIDE DEF Inv
<1>6. QED
  BY <1>3, <1>4, <1>5, PTL DEF Spec
=============================================================================
