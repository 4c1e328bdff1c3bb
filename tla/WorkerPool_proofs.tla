------------------------- MODULE WorkerPool_proofs -------------------------
(***************************************************************************)
(* Proofs about WorkerPool for every number of workers, calls and faults.  *)
(* OwnAnswer is not inductive: it rests on what ids mean.  IdInv says that *)
(* every run message in a worker, and every reply on its way back, carries *)
(* an id handed out before, and that if the id is still pending it is      *)
(* pending for that message's call.                                        *)
(***************************************************************************)
EXTENDS WorkerPool, SequenceTheorems, FiniteSetTheorems, TLAPS

USE SizeAssumption, CallsAssumption, ErrorsAssumption

(* A message or reply with this id and call can only settle that call. *)
IdMeans(id, c) ==
    \/ id \in 1..Size /\ c = NoCall
    \/ /\ id \in (Size + 1)..(nextId - 1)
       /\ id \in DOMAIN pending => pending[id] = c

IdInv ==
    /\ nextId > Size
    /\ DOMAIN pending \subseteq (Size + 1)..(nextId - 1)
    /\ \A w \in AllWorkers : \A m \in running[w] : IdMeans(m.id, m.call)
    /\ \A w \in AllWorkers : \A i \in 1..Len(outbox[w]) :
          outbox[w][i].kind = "message" => IdMeans(outbox[w][i].id, outbox[w][i].call)

IInv == TypeOK /\ IdInv /\ OwnAnswer

LEMMA InitIInv == Init => IInv
<1> SUFFICES ASSUME Init PROVE IInv
  OBVIOUS
<1>1. TypeOK
  <2>1. pending \in [DOMAIN pending -> Calls] /\ DOMAIN pending \subseteq Ids
    BY DEF Init
  <2>2. running \in [AllWorkers -> SUBSET Messages]
    BY DEF Init, AllWorkers, Messages, InitMsg, Ids
  <2>3. outbox \in [AllWorkers -> Seq(Events)] /\ queue \in Seq(Calls)
    BY DEF Init
  <2>4. workers \in SUBSET AllWorkers /\ nextId \in Ids
    BY DEF Init, Ids
  <2>6. /\ busy \in [AllWorkers -> BOOLEAN]
        /\ initOk \in [AllWorkers -> {"null", "true", "false"}]
        /\ disposed \in BOOLEAN
    BY Zenon DEF Init
  <2>5. /\ promise \in [Calls -> PromiseStates]
        /\ answer \in [Calls -> Calls \cup {NoCall}]
        /\ thread \in [AllWorkers -> {"running", "died", "closed"}]
        /\ errors \in 0..MaxErrors
    BY DEF Init, PromiseStates
  <2> QED BY <2>1, <2>2, <2>3, <2>4, <2>5, <2>6 DEF TypeOK
<1>2. IdInv
  BY DEF Init, IdInv, IdMeans, AllWorkers, InitMsg
<1>3. OwnAnswer
  BY DEF Init, OwnAnswer
<1> QED BY <1>1, <1>2, <1>3 DEF IInv

(* The head of a worker's outbox is one of its events, and dropping it     *)
(* leaves the others.                                                      *)
LEMMA ReceivesFacts ==
    ASSUME TypeOK, NEW w \in AllWorkers, Receives(w)
    PROVE  /\ Event(w) \in Events
           /\ Len(outbox[w]) >= 1 /\ Event(w) = outbox[w][1]
           /\ outbox' \in [AllWorkers -> Seq(Events)]
           /\ \A v \in AllWorkers : \A i \in 1..Len(outbox'[v]) :
                \E j \in 1..Len(outbox[v]) : outbox'[v][i] = outbox[v][j]
<1>1. outbox[w] \in Seq(Events) /\ outbox[w] # <<>>
  BY DEF TypeOK, Receives
<1>2. outbox' = [outbox EXCEPT ![w] = Tail(outbox[w])]
  BY DEF Receives
<1>3. /\ Tail(outbox[w]) \in Seq(Events)
      /\ Len(Tail(outbox[w])) = Len(outbox[w]) - 1
      /\ \A i \in 1..Len(Tail(outbox[w])) : Tail(outbox[w])[i] = outbox[w][i + 1]
      /\ Len(outbox[w]) \in Nat /\ Len(outbox[w]) >= 1
  BY <1>1
<1>4. ASSUME NEW v \in AllWorkers, NEW i \in 1..Len(outbox'[v])
      PROVE  \E j \in 1..Len(outbox[v]) : outbox'[v][i] = outbox[v][j]
  <2>1. CASE v = w
    <3>1. outbox'[v] = Tail(outbox[w])
      BY <1>2, <2>1 DEF TypeOK
    <3>2. i + 1 \in 1..Len(outbox[v]) /\ outbox'[v][i] = outbox[v][i + 1]
      BY <3>1, <1>3, <2>1
    <3> QED BY <3>2
  <2>2. CASE v # w
    BY <1>2, <2>2 DEF TypeOK
  <2> QED BY <2>1, <2>2
<1>5. outbox' \in [AllWorkers -> Seq(Events)]
  BY <1>2, <1>3 DEF TypeOK
<1>6. Event(w) \in Events /\ Event(w) = outbox[w][1]
  BY <1>1 DEF Event
<1> QED BY <1>3, <1>4, <1>5, <1>6

-----------------------------------------------------------------------------
(* Ids keep their meaning through a step that only hands out new ids,      *)
(* keeps or drops pending entries, and puts into workers and outboxes only *)
(* messages that already have a meaning.                                   *)
LEMMA IdInvStep ==
    ASSUME TypeOK, IdInv,
           nextId' \in Nat, nextId' >= nextId,
           DOMAIN pending' \subseteq (Size + 1)..(nextId' - 1),
           \A i \in DOMAIN pending' :
               i >= nextId \/ (i \in DOMAIN pending /\ pending'[i] = pending[i]),
           \A w \in AllWorkers : \A m \in running'[w] :
               m \in running[w] \/ IdMeans(m.id, m.call)',
           \A w \in AllWorkers : \A i \in 1..Len(outbox'[w]) :
               \/ \E j \in 1..Len(outbox[w]) : outbox'[w][i] = outbox[w][j]
               \/ (outbox[w][i].kind = "message" =>
                     IdMeans(outbox[w][i].id, outbox[w][i].call))'
    PROVE  IdInv'
<1>1. ASSUME NEW id, NEW c, IdMeans(id, c)
      PROVE  \/ id \in 1..Size /\ c = NoCall
             \/ /\ id \in (Size + 1)..(nextId' - 1)
                /\ id \in DOMAIN pending' => pending'[id] = c
  BY <1>1 DEF IdMeans, TypeOK, Ids
<1>2. \A w \in AllWorkers : \A m \in running'[w] : IdMeans(m.id, m.call)'
  BY <1>1 DEF IdInv, IdMeans
<1>3. ASSUME NEW w \in AllWorkers, NEW i \in 1..Len(outbox'[w]),
             outbox'[w][i].kind = "message"
      PROVE  IdMeans(outbox[w][i].id, outbox[w][i].call)'
  <2>1. CASE \E j \in 1..Len(outbox[w]) : outbox'[w][i] = outbox[w][j]
    <3>1. PICK j \in 1..Len(outbox[w]) : outbox'[w][i] = outbox[w][j]
      BY <2>1
    <3>2. IdMeans(outbox[w][j].id, outbox[w][j].call)
      BY <3>1, <1>3 DEF IdInv
    <3>3. IdMeans(outbox'[w][i].id, outbox'[w][i].call)
      BY <3>1, <3>2
    <3> QED BY <1>1, <3>3 DEF IdMeans
  <2> QED BY <2>1, <1>3
<1>4. nextId' > Size
  BY DEF IdInv, TypeOK, Ids
<1> QED BY <1>2, <1>3, <1>4 DEF IdInv

(* In particular when it hands out no id. *)
LEMMA IdInvKept ==
    ASSUME TypeOK, IdInv, nextId' = nextId,
           \A i \in DOMAIN pending' : i \in DOMAIN pending /\ pending'[i] = pending[i],
           \A w \in AllWorkers : \A m \in running'[w] : m \in running[w],
           \A w \in AllWorkers : \A i \in 1..Len(outbox'[w]) :
               \E j \in 1..Len(outbox[w]) : outbox'[w][i] = outbox[w][j]
    PROVE  IdInv'
<1>1. nextId' \in Nat /\ nextId' >= nextId
  BY DEF TypeOK, Ids
<1>2. DOMAIN pending' \subseteq (Size + 1)..(nextId' - 1)
  BY DEF IdInv
<1> QED BY <1>1, <1>2, IdInvStep

(* What a drain does to the ids: n fresh ones, each posted with the call   *)
(* it is stored for.                                                       *)
LEMMA DrainFacts ==
    ASSUME TypeOK, IdInv,
           NEW b \in [AllWorkers -> BOOLEAN],
           NEW D \in SUBSET (DOMAIN pending),
           NEW n \in 0..Len(queue), NEW f \in [1..n -> AllWorkers],
           DrainQueue(b, Restrict(pending, D), n, f)
    PROVE  /\ queue' \in Seq(Calls)
           /\ busy' \in [AllWorkers -> BOOLEAN]
           /\ nextId' \in Ids /\ nextId' >= nextId
           /\ pending' \in [DOMAIN pending' -> Calls]
           /\ DOMAIN pending' \subseteq (Size + 1)..(nextId' - 1)
           /\ DOMAIN pending' \subseteq Ids
           /\ \A i \in DOMAIN pending' :
                i >= nextId \/ (i \in DOMAIN pending /\ pending'[i] = pending[i])
           /\ running' \in [AllWorkers -> SUBSET Messages]
           /\ \A w \in AllWorkers : \A m \in running'[w] :
                m \in running[w] \/ IdMeans(m.id, m.call)'
<1> DEFINE p == Restrict(pending, D)
           New == nextId..(nextId + n - 1)
<1>1. /\ DOMAIN p = D /\ \A i \in D : p[i] = pending[i]
      /\ D \subseteq (Size + 1)..(nextId - 1)
  BY DEF Restrict, IdInv
<1>2. /\ nextId' = nextId + n /\ nextId \in Ids /\ nextId > Size
      /\ nextId' \in Ids /\ nextId' >= nextId
  BY DEF DrainQueue, TypeOK, IdInv, Ids
<1>3. queue' \in Seq(Calls)
  BY SubSeqProperties DEF DrainQueue, TypeOK
<1>4. busy' \in [AllWorkers -> BOOLEAN]
  BY Zenon DEF DrainQueue
<1>5. pending' = [i \in D \cup New |-> IF i \in D THEN p[i] ELSE queue[i - nextId + 1]]
  BY <1>1 DEF DrainQueue
<1>6. \A i \in New : i - nextId + 1 \in 1..n /\ queue[i - nextId + 1] \in Calls
  BY <1>2 DEF TypeOK, Ids
<1>7. \A i \in D : p[i] \in Calls
  BY <1>1 DEF TypeOK
<1>8. /\ DOMAIN pending' = D \cup New
      /\ pending' \in [DOMAIN pending' -> Calls]
      /\ \A i \in D : pending'[i] = pending[i]
      /\ \A i \in New : pending'[i] = queue[i - nextId + 1]
  <2> HIDE DEF p
  <2>1. D \cap New = {}
    BY <1>1, <1>2 DEF Ids
  <2> QED BY <1>1, <1>5, <1>6, <1>7, <2>1
<1>9. /\ DOMAIN pending' \subseteq (Size + 1)..(nextId' - 1)
      /\ DOMAIN pending' \subseteq Ids
  <2> HIDE DEF p
  <2> QED BY SMTT(60), <1>1, <1>2, <1>8 DEF Ids
<1>10. ASSUME NEW i \in DOMAIN pending'
       PROVE  i >= nextId \/ (i \in DOMAIN pending /\ pending'[i] = pending[i])
  <2> HIDE DEF p
  <2> QED BY <1>2, <1>8 DEF Ids
<1>11. ASSUME NEW w \in AllWorkers, NEW m \in running'[w]
       PROVE  m \in running[w]
              \/ \E j \in 1..n : m = RunMsg(nextId + j - 1, queue[j])
  <2>1. running'[w] = Received(w, {RunMsg(nextId + i - 1, queue[i]) :
             i \in {j \in 1..n : f[j] = w /\ ~PostThrows(w, queue[j])}})
    BY DEF DrainQueue
  <2> QED BY <2>1 DEF Received
<1>12. ASSUME NEW j \in 1..n
       PROVE  /\ RunMsg(nextId + j - 1, queue[j]) \in Messages
              /\ nextId + j - 1 \in (Size + 1)..(nextId' - 1)
              /\ pending'[nextId + j - 1] = queue[j]
  <2>1. nextId + j - 1 \in New /\ (nextId + j - 1) - nextId + 1 = j
    BY <1>2 DEF Ids
  <2>2. queue[j] \in Calls /\ pending'[nextId + j - 1] = queue[j]
    BY <1>6, <1>8, <2>1
  <2>3. nextId + j - 1 \in (Size + 1)..(nextId' - 1) /\ nextId + j - 1 \in Ids
    BY <1>2 DEF Ids
  <2>4. RunMsg(nextId + j - 1, queue[j]) \in Messages
    BY <2>2, <2>3 DEF RunMsg, Messages
  <2> QED BY <2>2, <2>3, <2>4
<1>13. running' \in [AllWorkers -> SUBSET Messages]
  <2>1. \A w \in AllWorkers : running'[w] \subseteq Messages
    BY <1>11, <1>12 DEF TypeOK
  <2>2. running' = [w \in AllWorkers |-> running'[w]]
    BY DEF DrainQueue
  <2> QED BY <2>1, <2>2
<1>14. \A w \in AllWorkers : \A m \in running'[w] :
          m \in running[w] \/ IdMeans(m.id, m.call)'
  BY <1>11, <1>12 DEF RunMsg, IdMeans
<1> QED BY <1>2, <1>3, <1>4, <1>8, <1>9, <1>10, <1>13, <1>14

-----------------------------------------------------------------------------
(* Settling calls by rejection keeps the promises typed and resolves none. *)
LEMMA RejectFacts ==
    ASSUME TypeOK, OwnAnswer, NEW S, promise' = Reject(S), UNCHANGED answer
    PROVE  promise' \in [Calls -> PromiseStates] /\ OwnAnswer'
BY DEF Reject, TypeOK, PromiseStates, OwnAnswer

LEMMA RunStep ==
    ASSUME IInv, NEW c \in Calls, Run(c)
    PROVE  IInv'
<1> USE DEF IInv
<1>1. CASE RunRejects(c)
  <2>1. TypeOK'
    BY <1>1 DEF RunRejects, TypeOK, PromiseStates, workerVars
  <2>2. IdInv'
    BY <1>1, IdInvKept DEF RunRejects, workerVars
  <2>3. OwnAnswer'
    BY <1>1 DEF RunRejects, OwnAnswer, TypeOK
  <2> QED BY <2>1, <2>2, <2>3
<1>2. CASE RunDispatches(c)
  <2>1. PICK w \in workers :
           /\ busy' = [busy EXCEPT ![w] = TRUE]
           /\ \/ promise' = [promise EXCEPT ![c] = "rejected"] /\ running' = running
              \/ /\ promise' = [promise EXCEPT ![c] = "waiting"]
                 /\ running' = [running EXCEPT ![w] = Received(w, {RunMsg(nextId, c)})]
    BY <1>2 DEF RunDispatches
  <2>2. /\ nextId' = nextId + 1 /\ nextId \in Ids /\ nextId > Size
        /\ pending' = [i \in DOMAIN pending \cup {nextId} |->
                         IF i = nextId THEN c ELSE pending[i]]
        /\ w \in AllWorkers
        /\ UNCHANGED <<workers, initOk, queue, disposed, answer, outbox, thread, errors>>
    BY <1>2 DEF RunDispatches, TypeOK, IdInv
  <2>3. DOMAIN pending \subseteq (Size + 1)..(nextId - 1)
    BY DEF IdInv
  <2>4. /\ DOMAIN pending' \subseteq (Size + 1)..(nextId' - 1)
        /\ DOMAIN pending' \subseteq Ids
        /\ pending' \in [DOMAIN pending' -> Calls]
        /\ \A i \in DOMAIN pending' :
             i >= nextId \/ (i \in DOMAIN pending /\ pending'[i] = pending[i])
        /\ pending'[nextId] = c
    BY <2>2, <2>3 DEF Ids, TypeOK
  <2>5. \A v \in AllWorkers : running'[v] \subseteq running[v] \cup {RunMsg(nextId, c)}
    <3>1. running \in [AllWorkers -> SUBSET Messages]
      BY DEF TypeOK
    <3> QED BY <2>1, <2>2, <3>1 DEF Received
  <2>6. running' \in [AllWorkers -> SUBSET Messages]
    <3>1. RunMsg(nextId, c) \in Messages
      BY <2>2 DEF RunMsg, Messages
    <3>2. Received(w, {RunMsg(nextId, c)}) \in SUBSET Messages
      BY <2>2, <3>1 DEF Received, TypeOK
    <3> QED BY <2>1, <2>2, <3>2 DEF TypeOK
  <2>7. busy' \in [AllWorkers -> BOOLEAN]
    BY Zenon, <2>1, <2>2 DEF TypeOK
  <2>8. promise' \in [Calls -> PromiseStates] /\ OwnAnswer'
    BY ZenonT(60), <2>1, <2>2 DEF TypeOK, PromiseStates, OwnAnswer
  <2>9. TypeOK'
    BY <2>2, <2>4, <2>6, <2>7, <2>8 DEF TypeOK, Ids
  <2>10. \A v \in AllWorkers : \A m \in running'[v] :
            m \in running[v] \/ IdMeans(m.id, m.call)'
    BY <2>2, <2>4, <2>5 DEF RunMsg, IdMeans, Ids
  <2>11. \A v \in AllWorkers : \A i \in 1..Len(outbox'[v]) :
            \E j \in 1..Len(outbox[v]) : outbox'[v][i] = outbox[v][j]
    BY <2>2
  <2>12. IdInv'
    <3>1. nextId' \in Nat /\ nextId' >= nextId
      BY <2>2 DEF Ids
    <3> QED BY <2>4, <2>10, <2>11, <3>1, IdInvStep
  <2> QED BY <2>8, <2>9, <2>12
<1>3. CASE RunQueues(c)
  <2>1. queue' \in Seq(Calls) /\ promise' \in [Calls -> PromiseStates]
    BY <1>3 DEF RunQueues, TypeOK, PromiseStates
  <2>2. TypeOK'
    BY <1>3, <2>1 DEF RunQueues, TypeOK, workerVars
  <2>3. IdInv'
    BY <1>3, IdInvKept DEF RunQueues, workerVars
  <2>4. OwnAnswer'
    BY <1>3 DEF RunQueues, OwnAnswer, TypeOK
  <2> QED BY <2>2, <2>3, <2>4
<1> QED BY <1>1, <1>2, <1>3 DEF Run

LEMMA OnMessageStep ==
    ASSUME IInv, NEW w \in AllWorkers, OnMessage(w)
    PROVE  IInv'
<1> USE DEF IInv
<1>1. /\ Event(w) \in Events
      /\ Len(outbox[w]) >= 1 /\ Event(w) = outbox[w][1]
      /\ outbox' \in [AllWorkers -> Seq(Events)]
      /\ \A v \in AllWorkers : \A i \in 1..Len(outbox'[v]) :
           \E j \in 1..Len(outbox[v]) : outbox'[v][i] = outbox[v][j]
  BY ReceivesFacts DEF OnMessage, OnInitFailure, OnInitSuccess, OnRunReply, OnStaleReply
<1>2. CASE OnInitFailure(w)
  <2>1. /\ UNCHANGED <<workers, busy, nextId, pending, disposed, answer, running,
                       thread, errors>>
        /\ initOk' \in [AllWorkers -> {"null", "true", "false"}]
    BY <1>2 DEF OnInitFailure, TypeOK
  <2>2. queue' \in Seq(Calls) /\ promise' \in [Calls -> PromiseStates] /\ OwnAnswer'
    <3>1. CASE promise' = Reject(Range(queue)) /\ queue' = <<>>
      BY <2>1, <3>1, RejectFacts
    <3>2. CASE UNCHANGED <<promise, queue>>
      BY <2>1, <3>2 DEF TypeOK, OwnAnswer
    <3> QED BY <1>2, <3>1, <3>2 DEF OnInitFailure
  <2>3. TypeOK'
    BY <1>1, <2>1, <2>2 DEF TypeOK
  <2>4. IdInv'
    BY <1>1, <2>1, IdInvKept
  <2> QED BY <2>2, <2>3, <2>4
<1>3. CASE OnInitSuccess(w)
  <2> DEFINE b == [busy EXCEPT ![w] = FALSE]
  <2>a. PICK n \in 0..Len(queue) : \E f \in [1..n -> Idle(b, initOk')] :
           DrainQueue(b, pending, n, f)
    BY <1>3 DEF OnInitSuccess
  <2>1. PICK f \in [1..n -> Idle(b, initOk')] : DrainQueue(b, pending, n, f)
    BY <2>a
  <2>2. f \in [1..n -> AllWorkers]
    BY DEF Idle, TypeOK
  <2>3. b \in [AllWorkers -> BOOLEAN]
    BY Zenon DEF TypeOK
  <2>4. pending = Restrict(pending, DOMAIN pending)
    BY DEF Restrict, TypeOK
  <2> HIDE DEF b
  <2>5. DrainQueue(b, Restrict(pending, DOMAIN pending), n, f)
    BY <2>1, <2>4
  <2>6. /\ queue' \in Seq(Calls)
        /\ busy' \in [AllWorkers -> BOOLEAN]
        /\ nextId' \in Ids /\ nextId' >= nextId
        /\ pending' \in [DOMAIN pending' -> Calls]
        /\ DOMAIN pending' \subseteq (Size + 1)..(nextId' - 1)
        /\ DOMAIN pending' \subseteq Ids
        /\ \A i \in DOMAIN pending' :
             i >= nextId \/ (i \in DOMAIN pending /\ pending'[i] = pending[i])
        /\ running' \in [AllWorkers -> SUBSET Messages]
        /\ \A v \in AllWorkers : \A m \in running'[v] :
             m \in running[v] \/ IdMeans(m.id, m.call)'
    BY <2>2, <2>3, <2>5, DrainFacts
  <2>7. /\ UNCHANGED <<workers, disposed, promise, answer, thread, errors>>
        /\ initOk' \in [AllWorkers -> {"null", "true", "false"}]
    BY <1>3 DEF OnInitSuccess, TypeOK
  <2>8. TypeOK'
    BY <1>1, <2>6, <2>7 DEF TypeOK
  <2>9. IdInv'
    BY <1>1, <2>6, IdInvStep DEF Ids
  <2> QED BY <2>7, <2>8, <2>9 DEF OwnAnswer
<1>4. CASE OnRunReply(w)
  <2> DEFINE b == [busy EXCEPT ![w] = FALSE]
             id == Event(w).id
             D == DOMAIN pending \ {id}
  <2> DEFINE Effect(n, f) ==
           /\ DrainQueue(b, Restrict(pending, D), n, f)
           /\ \/ UNCHANGED <<promise, answer>>
              \/ /\ promise' = [promise EXCEPT ![pending[id]] =
                                  IF Event(w).ok THEN "resolved" ELSE "rejected"]
                 /\ answer' = IF Event(w).ok
                              THEN [answer EXCEPT ![pending[id]] = Event(w).call]
                              ELSE answer
  <2>a. PICK n \in 0..Len(queue) : \E f \in [1..n -> Idle(b, initOk)] : Effect(n, f)
    BY <1>4 DEF OnRunReply
  <2>1. PICK f \in [1..n -> Idle(b, initOk)] : Effect(n, f)
    BY <2>a
  <2>2. f \in [1..n -> AllWorkers]
    BY DEF Idle, TypeOK
  <2>3. b \in [AllWorkers -> BOOLEAN]
    BY Zenon DEF TypeOK
  <2>4. D \subseteq DOMAIN pending
    OBVIOUS
  <2>5. id \in DOMAIN pending /\ pending[id] = Event(w).call
    <3>1. id \in DOMAIN pending /\ outbox[w][1].kind = "message" /\ outbox[w][1].id = id
      BY <1>1, <1>4 DEF OnRunReply
    <3>2. IdMeans(outbox[w][1].id, outbox[w][1].call)
      BY <1>1, <3>1 DEF IdInv, TypeOK
    <3>3. IdMeans(id, Event(w).call)
      BY <1>1, <3>2
    <3>4. id \in (Size + 1)..(nextId - 1)
      BY <3>1 DEF IdInv
    <3> QED BY <3>1, <3>3, <3>4 DEF IdMeans, TypeOK, Ids
  <2>6. /\ UNCHANGED <<workers, initOk, disposed, thread, errors>>
    BY <1>4 DEF OnRunReply
  <2> HIDE DEF b, id, D
  <2>7. /\ queue' \in Seq(Calls)
        /\ busy' \in [AllWorkers -> BOOLEAN]
        /\ nextId' \in Ids /\ nextId' >= nextId
        /\ pending' \in [DOMAIN pending' -> Calls]
        /\ DOMAIN pending' \subseteq (Size + 1)..(nextId' - 1)
        /\ DOMAIN pending' \subseteq Ids
        /\ \A i \in DOMAIN pending' :
             i >= nextId \/ (i \in DOMAIN pending /\ pending'[i] = pending[i])
        /\ running' \in [AllWorkers -> SUBSET Messages]
        /\ \A v \in AllWorkers : \A m \in running'[v] :
             m \in running[v] \/ IdMeans(m.id, m.call)'
    BY <2>1, <2>2, <2>3, <2>4, DrainFacts
  <2>8. /\ promise' \in [Calls -> PromiseStates]
        /\ answer' \in [Calls -> Calls \cup {NoCall}]
        /\ OwnAnswer'
    <3>1. pending[id] \in Calls
      BY <2>5 DEF TypeOK
    <3>2. CASE UNCHANGED <<promise, answer>>
      BY <3>2 DEF TypeOK, OwnAnswer
    <3>3. CASE /\ promise' = [promise EXCEPT ![pending[id]] = "resolved"]
               /\ answer' = [answer EXCEPT ![pending[id]] = pending[id]]
      BY <3>1, <3>3 DEF TypeOK, OwnAnswer, PromiseStates
    <3>4. CASE /\ promise' = [promise EXCEPT ![pending[id]] = "rejected"]
               /\ answer' = answer
      BY <3>1, <3>4 DEF TypeOK, OwnAnswer, PromiseStates
    <3> QED BY <2>1, <2>5, <3>2, <3>3, <3>4
  <2>9. TypeOK'
    BY <1>1, <2>6, <2>7, <2>8 DEF TypeOK
  <2>10. IdInv'
    BY <1>1, <2>7, IdInvStep DEF Ids
  <2> QED BY <2>8, <2>9, <2>10
<1>5. CASE OnStaleReply(w)
  <2>1. UNCHANGED <<workers, busy, initOk, nextId, pending, queue, disposed,
                    signals, promise, answer, running, thread, errors>>
    BY <1>5 DEF OnStaleReply
  <2>2. TypeOK'
    BY <1>1, <2>1 DEF TypeOK
  <2>3. IdInv'
    BY <1>1, <2>1, IdInvKept
  <2> QED BY <2>1, <2>2, <2>3 DEF OwnAnswer
<1> QED BY <1>2, <1>3, <1>4, <1>5 DEF OnMessage

LEMMA OnErrorStep ==
    ASSUME IInv, NEW w \in AllWorkers, OnError(w)
    PROVE  IInv'
<1> USE DEF IInv
<1>1. /\ outbox' \in [AllWorkers -> Seq(Events)]
      /\ \A v \in AllWorkers : \A i \in 1..Len(outbox'[v]) :
           \E j \in 1..Len(outbox[v]) : outbox'[v][i] = outbox[v][j]
  BY ReceivesFacts DEF OnError
<1>2. /\ UNCHANGED <<workers, initOk, nextId, queue, disposed, signals, answer,
                     running, thread, errors>>
      /\ DOMAIN pending' = {}
      /\ pending' \in [DOMAIN pending' -> Calls]
  BY DEF OnError
<1>3. busy' \in [AllWorkers -> BOOLEAN]
  BY Zenon DEF OnError, TypeOK
<1>4. promise' \in [Calls -> PromiseStates] /\ OwnAnswer'
  BY <1>2, RejectFacts DEF OnError
<1>5. TypeOK'
  BY <1>1, <1>2, <1>3, <1>4 DEF TypeOK
<1>6. IdInv'
  BY <1>1, <1>2, IdInvKept
<1> QED BY <1>4, <1>5, <1>6

LEMMA DisposeStep ==
    ASSUME IInv, Dispose
    PROVE  IInv'
<1> USE DEF IInv
<1>1. /\ UNCHANGED <<busy, initOk, nextId, answer, thread, errors>>
      /\ disposed' = TRUE /\ workers' = {} /\ queue' = <<>>
      /\ running' = [w \in AllWorkers |-> {}]
      /\ outbox' = [w \in AllWorkers |-> <<>>]
      /\ DOMAIN pending' = {}
      /\ pending' \in [DOMAIN pending' -> Calls]
  BY DEF Dispose
<1>2. promise' \in [Calls -> PromiseStates] /\ OwnAnswer'
  BY <1>1, RejectFacts DEF Dispose
<1>3. /\ running' \in [AllWorkers -> SUBSET Messages]
      /\ outbox' \in [AllWorkers -> Seq(Events)]
      /\ \A w \in AllWorkers : Len(outbox'[w]) = 0
  BY <1>1
<1>4. TypeOK'
  BY <1>1, <1>2, <1>3 DEF TypeOK
<1>5. IdInv'
  BY <1>1, <1>3, IdInvKept
<1> QED BY <1>2, <1>4, <1>5

LEMMA WorkerStep ==
    ASSUME IInv, NEW w \in AllWorkers,
           WorkerReplies(w) \/ WorkerDies(w) \/ WorkerCloses(w)
    PROVE  IInv'
<1> USE DEF IInv
<1>1. ASSUME NEW e \in Events, outbox' = [outbox EXCEPT ![w] = Append(@, e)]
      PROVE  /\ outbox' \in [AllWorkers -> Seq(Events)]
             /\ \A v \in AllWorkers : \A i \in 1..Len(outbox'[v]) :
                  \/ \E j \in 1..Len(outbox[v]) : outbox'[v][i] = outbox[v][j]
                  \/ outbox'[v][i] = e
  <2>1. outbox \in [AllWorkers -> Seq(Events)]
    BY DEF TypeOK
  <2>2. /\ Append(outbox[w], e) \in Seq(Events)
        /\ Len(Append(outbox[w], e)) = Len(outbox[w]) + 1
        /\ \A i \in 1..Len(outbox[w]) : Append(outbox[w], e)[i] = outbox[w][i]
        /\ Append(outbox[w], e)[Len(outbox[w]) + 1] = e
        /\ Len(outbox[w]) \in Nat
    BY <2>1
  <2>3. outbox' \in [AllWorkers -> Seq(Events)]
    BY <1>1, <2>1, <2>2
  <2>4. ASSUME NEW v \in AllWorkers, NEW i \in 1..Len(outbox'[v])
        PROVE  \/ \E j \in 1..Len(outbox[v]) : outbox'[v][i] = outbox[v][j]
               \/ outbox'[v][i] = e
    <3>1. CASE v = w
      <4>1. outbox'[v] = Append(outbox[w], e)
        BY <1>1, <2>1, <3>1
      <4>2. i \in 1..Len(outbox[w]) \/ i = Len(outbox[w]) + 1
        BY <2>2, <4>1
      <4> QED BY <2>2, <3>1, <4>1, <4>2
    <3>2. CASE v # w
      BY <1>1, <2>1, <3>2
    <3> QED BY <3>1, <3>2
  <2> QED BY <2>3, <2>4
<1>2. CASE WorkerReplies(w)
  <2>1. PICK m \in running[w], ok \in BOOLEAN :
           /\ running' = [running EXCEPT ![w] = @ \ {m}]
           /\ outbox' = [outbox EXCEPT ![w] = Append(@, Reply(m, ok))]
    BY <1>2 DEF WorkerReplies
  <2>2. /\ UNCHANGED <<workers, busy, nextId, pending, queue, initOk, disposed,
                       promise, answer, thread, errors>>
    BY <1>2 DEF WorkerReplies, dispatchVars, callVars
  <2>3. m \in Messages /\ IdMeans(m.id, m.call)
    BY DEF TypeOK, IdInv
  <2>4. Reply(m, ok) \in Events
    BY <2>3 DEF Reply, Events, Messages, Ids
  <2>5. /\ running' \in [AllWorkers -> SUBSET Messages]
        /\ \A v \in AllWorkers : \A x \in running'[v] : x \in running[v]
    BY <2>1 DEF TypeOK
  <2>6. TypeOK'
    BY <1>1, <2>1, <2>2, <2>4, <2>5 DEF TypeOK
  <2>7. \A v \in AllWorkers : \A i \in 1..Len(outbox'[v]) :
           \/ \E j \in 1..Len(outbox[v]) : outbox'[v][i] = outbox[v][j]
           \/ outbox'[v][i].id = m.id /\ outbox'[v][i].call = m.call
    BY <1>1, <2>1, <2>4 DEF Reply
  <2>8. \A v \in AllWorkers : \A i \in 1..Len(outbox'[v]) :
           \/ \E j \in 1..Len(outbox[v]) : outbox'[v][i] = outbox[v][j]
           \/ (outbox[v][i].kind = "message" =>
                 IdMeans(outbox[v][i].id, outbox[v][i].call))'
    BY <2>2, <2>3, <2>7 DEF IdMeans
  <2>9. IdInv'
    <3>1. nextId' \in Nat /\ nextId' >= nextId
      BY <2>2 DEF TypeOK, Ids
    <3>2. DOMAIN pending' \subseteq (Size + 1)..(nextId' - 1)
      BY <2>2 DEF IdInv
    <3> QED BY <2>2, <2>5, <2>8, <3>1, <3>2, IdInvStep
  <2> QED BY <2>2, <2>6, <2>9 DEF OwnAnswer
<1>3. CASE WorkerDies(w)
  <2>1. /\ UNCHANGED <<workers, busy, nextId, pending, queue, initOk, disposed,
                       promise, answer>>
        /\ running' = [running EXCEPT ![w] = {}]
        /\ outbox' = [outbox EXCEPT ![w] = Append(@, ErrorEvent)]
        /\ thread' = [thread EXCEPT ![w] = "died"]
        /\ errors < MaxErrors /\ errors' = errors + 1
    BY <1>3 DEF WorkerDies, dispatchVars, callVars
  <2>2. ErrorEvent \in Events /\ ErrorEvent.kind # "message"
    BY DEF ErrorEvent, Events
  <2>3. /\ running' \in [AllWorkers -> SUBSET Messages]
        /\ \A v \in AllWorkers : \A x \in running'[v] : x \in running[v]
        /\ thread' \in [AllWorkers -> {"running", "died", "closed"}]
        /\ errors' \in 0..MaxErrors
    BY <2>1 DEF TypeOK
  <2>4. TypeOK'
    BY <1>1, <2>1, <2>2, <2>3 DEF TypeOK
  <2>5. \A v \in AllWorkers : \A i \in 1..Len(outbox'[v]) :
           \/ \E j \in 1..Len(outbox[v]) : outbox'[v][i] = outbox[v][j]
           \/ (outbox[v][i].kind = "message" =>
                 IdMeans(outbox[v][i].id, outbox[v][i].call))'
    BY <1>1, <2>1, <2>2
  <2>6. IdInv'
    <3>1. nextId' \in Nat /\ nextId' >= nextId
      BY <2>1 DEF TypeOK, Ids
    <3>2. DOMAIN pending' \subseteq (Size + 1)..(nextId' - 1)
      BY <2>1 DEF IdInv
    <3> QED BY <2>1, <2>3, <2>5, <3>1, <3>2, IdInvStep
  <2> QED BY <2>1, <2>4, <2>6 DEF OwnAnswer
<1>4. CASE WorkerCloses(w)
  <2>1. /\ UNCHANGED <<workers, busy, nextId, pending, queue, initOk, disposed,
                       promise, answer, running, outbox, errors>>
        /\ thread' \in [AllWorkers -> {"running", "died", "closed"}]
    BY <1>4 DEF WorkerCloses, dispatchVars, callVars, TypeOK
  <2>2. TypeOK'
    BY <2>1 DEF TypeOK
  <2>3. IdInv'
    BY <2>1, IdInvKept
  <2> QED BY <2>1, <2>2, <2>3 DEF OwnAnswer
<1> QED BY <1>2, <1>3, <1>4

LEMMA NextIInv == IInv /\ [Next]_vars => IInv'
<1> SUFFICES ASSUME IInv, [Next]_vars PROVE IInv'
  OBVIOUS
<1>1. CASE Next
  BY <1>1, RunStep, OnMessageStep, OnErrorStep, DisposeStep, WorkerStep DEF Next
<1>2. CASE UNCHANGED vars
  BY <1>2 DEF vars, IInv, TypeOK, IdInv, IdMeans, OwnAnswer
<1> QED BY <1>1, <1>2

THEOREM IInvCorrect == Spec => []IInv
<1> QED BY InitIInv, NextIInv, PTL DEF Spec

(* Every variable keeps its type, for any number of workers and calls and  *)
(* any faults.                                                             *)
THEOREM TypeCorrect == Spec => []TypeOK
<1>1. IInv => TypeOK
  BY DEF IInv
<1> QED BY <1>1, IInvCorrect, PTL

(* A promise that run() returned resolves only with the result of its own  *)
(* call: however workers interleave, fail or die, no reply is taken for    *)
(* the reply of another call.                                              *)
THEOREM AnswersAreOwn == Spec => []OwnAnswer
<1>1. IInv => OwnAnswer
  BY DEF IInv
<1> QED BY <1>1, IInvCorrect, PTL

-----------------------------------------------------------------------------
(* HeldOnce needs one thing more to be inductive: a call that is pending   *)
(* has been made, so a new one cannot be among them.                       *)
Held ==
    /\ \A i, j \in 1..Len(queue) : queue[i] = queue[j] => i = j
    /\ \A i, j \in DOMAIN pending : pending[i] = pending[j] => i = j
    /\ \A i \in 1..Len(queue) : \A j \in DOMAIN pending : queue[i] # pending[j]
    /\ \A i \in 1..Len(queue) : promise[queue[i]] = "waiting"
    /\ \A j \in DOMAIN pending : promise[pending[j]] # "uncalled"

LEMMA HeldIsHeldOnce == ASSUME TypeOK, Held PROVE HeldOnce
<1>1. DOMAIN queue = 1..Len(queue)
  BY DEF TypeOK
<1>2. \A c \in Range(queue) : \E i \in 1..Len(queue) : c = queue[i]
  BY <1>1 DEF Range
<1>3. \A c \in Range(pending) : \E j \in DOMAIN pending : c = pending[j]
  BY DEF Range
<1>4. IsInjective(queue) /\ IsInjective(pending)
  BY <1>1 DEF Held, IsInjective
<1>5. Range(queue) \cap Range(pending) = {}
  BY <1>2, <1>3 DEF Held
<1> QED BY <1>2, <1>4, <1>5 DEF Held, HeldOnce

(* Steps that hand nothing over: what they drop they drop altogether.      *)
LEMMA HeldKept ==
    ASSUME TypeOK, Held,
           queue' = queue \/ queue' = <<>>,
           pending' = pending \/ DOMAIN pending' = {},
           \A i \in 1..Len(queue') : promise'[queue'[i]] = "waiting",
           \A c \in Calls : promise[c] # "uncalled" => promise'[c] # "uncalled"
    PROVE  Held'
<1>1. \A i \in 1..Len(queue') : queue' = queue
  OBVIOUS
<1>2. \A j \in DOMAIN pending' : pending' = pending /\ pending[j] \in Calls
  BY DEF TypeOK
<1> QED BY <1>1, <1>2 DEF Held

LEMMA RejectKeeps ==
    ASSUME TypeOK, NEW S, promise' = Reject(S), NEW c \in Calls
    PROVE  /\ promise[c] # "uncalled" => promise'[c] # "uncalled"
           /\ c \notin S => promise'[c] = promise[c]
BY DEF Reject, TypeOK

(* A drain takes calls from the front of the queue into pending.           *)
LEMMA DrainHolds ==
    ASSUME TypeOK, IdInv, Held, NEW b,
           NEW D \in SUBSET (DOMAIN pending), NEW n \in 0..Len(queue), NEW f,
           DrainQueue(b, Restrict(pending, D), n, f),
           \A c \in Calls : promise'[c] = promise[c]
             \/ (promise'[c] # "uncalled" /\ \E j \in DOMAIN pending \ D : c = pending[j])
    PROVE  Held'
<1> DEFINE New == nextId..(nextId + n - 1)
<1>1. /\ queue \in Seq(Calls) /\ Len(queue) \in Nat
      /\ \A i \in 1..Len(queue) : queue[i] \in Calls
      /\ \A j \in DOMAIN pending : pending[j] \in Calls
      /\ nextId \in Int /\ \A j \in DOMAIN pending : j \in Int /\ j < nextId
  BY DEF TypeOK, IdInv, Ids
<1>2. \A i \in 1..Len(queue') : i + n \in 1..Len(queue) /\ queue'[i] = queue[i + n]
  <2>1. queue' = SubSeq(queue, n + 1, Len(queue))
    BY DEF DrainQueue
  <2>2. /\ Len(queue') = IF n + 1 <= Len(queue) THEN Len(queue) - (n + 1) + 1 ELSE 0
        /\ \A i \in 1..Len(queue) - (n + 1) + 1 : queue'[i] = queue[(n + 1) + i - 1]
    BY <1>1, <2>1, SubSeqProperties
  <2> QED BY <1>1, <2>2
<1>3. /\ DOMAIN pending' = D \cup New
      /\ \A j \in D : pending'[j] = pending[j]
      /\ \A j \in New : j - nextId + 1 \in 1..n /\ pending'[j] = queue[j - nextId + 1]
  <2>1. DOMAIN Restrict(pending, D) = D /\ \A j \in D : Restrict(pending, D)[j] = pending[j]
    BY DEF Restrict
  <2>2. pending' = [j \in D \cup New |->
                      IF j \in D THEN Restrict(pending, D)[j] ELSE queue[j - nextId + 1]]
    BY <2>1 DEF DrainQueue
  <2>3. D \cap New = {}
    BY <1>1
  <2>4. \A j \in New : j - nextId + 1 \in 1..n
    BY <1>1
  <2> QED BY <2>1, <2>2, <2>3, <2>4
<1> HIDE DEF New
<1>4. \A j \in New : j \in Int /\ j - nextId + 1 \in 1..Len(queue) /\ j \notin D
  BY <1>1, <1>3 DEF New
<1>5. \A i \in 1..Len(queue) : promise'[queue[i]] = "waiting"
  BY <1>1 DEF Held
<1>6. \A i, j \in 1..Len(queue') : queue'[i] = queue'[j] => i = j
  BY <1>1, <1>2 DEF Held
<1>7. ASSUME NEW i \in DOMAIN pending', NEW j \in DOMAIN pending', pending'[i] = pending'[j]
      PROVE  i = j
  <2>1. CASE i \in D /\ j \in D
    BY <1>3, <1>7, <2>1 DEF Held
  <2>2. CASE i \in New /\ j \in New
    <3>1. i - nextId + 1 = j - nextId + 1
      BY <1>3, <1>4, <1>7, <2>2 DEF Held
    <3> QED BY <1>1, <1>4, <2>2, <3>1
  <2>3. CASE (i \in D /\ j \in New) \/ (i \in New /\ j \in D)
    BY <1>3, <1>4, <1>7, <2>3 DEF Held
  <2>4. i \in D \cup New /\ j \in D \cup New
    BY <1>3
  <2> QED BY <2>1, <2>2, <2>3, <2>4
<1>8. ASSUME NEW i \in 1..Len(queue'), NEW j \in DOMAIN pending', queue'[i] = pending'[j]
      PROVE  FALSE
  <2>1. CASE j \in D
    BY <1>2, <1>3, <1>8, <2>1 DEF Held
  <2>2. CASE j \in New
    <3>1. i + n = j - nextId + 1
      BY <1>2, <1>3, <1>4, <1>8, <2>2 DEF Held
    <3> QED BY <1>1, <1>3, <1>4, <2>2, <3>1
  <2> QED BY <1>3, <2>1, <2>2
<1>9. \A j \in DOMAIN pending' : promise'[pending'[j]] # "uncalled"
  <2>1. \A j \in D : promise'[pending'[j]] # "uncalled"
    BY <1>1, <1>3 DEF Held
  <2>2. \A j \in New : promise'[pending'[j]] # "uncalled"
    BY <1>3, <1>4, <1>5
  <2> QED BY <1>3, <2>1, <2>2
<1> QED BY <1>2, <1>5, <1>6, <1>7, <1>8, <1>9 DEF Held

LEMMA RunHolds == ASSUME IInv, Held, NEW c \in Calls, Run(c) PROVE Held'
<1> USE DEF IInv
<1>1. promise[c] = "uncalled" /\ promise'[c] # "uncalled"
  BY DEF Run, RunRejects, RunDispatches, RunQueues, TypeOK
<1>2. \A x \in Calls \ {c} : promise'[x] = promise[x]
  BY DEF Run, RunRejects, RunDispatches, RunQueues, TypeOK
<1>3. /\ Len(queue) \in Nat /\ \A i \in 1..Len(queue) : queue[i] \in Calls \ {c}
      /\ \A j \in DOMAIN pending : pending[j] \in Calls \ {c}
  BY <1>1 DEF TypeOK, Held
<1>4. CASE RunRejects(c)
  BY <1>1, <1>2, <1>3, <1>4 DEF RunRejects, Held
<1>5. CASE RunDispatches(c)
  <2>1. /\ queue' = queue /\ DOMAIN pending' = DOMAIN pending \cup {nextId}
        /\ pending'[nextId] = c
        /\ \A j \in DOMAIN pending \ {nextId} : pending'[j] = pending[j]
    BY <1>5 DEF RunDispatches
  <2>2. nextId \notin DOMAIN pending
    BY DEF IdInv, TypeOK, Ids
  <2> QED BY <1>1, <1>2, <1>3, <2>1, <2>2 DEF Held
<1>6. CASE RunQueues(c)
  <2>1. /\ pending' = pending /\ queue' = Append(queue, c)
        /\ promise' = [promise EXCEPT ![c] = "waiting"]
    BY <1>6 DEF RunQueues
  <2>2. /\ Len(queue') = Len(queue) + 1 /\ queue'[Len(queue) + 1] = c
        /\ \A i \in 1..Len(queue) : queue'[i] = queue[i]
    BY <2>1 DEF TypeOK
  <2>3. promise'[c] = "waiting"
    BY <2>1 DEF TypeOK
  <2>4. \A i \in 1..Len(queue') : i \in 1..Len(queue) \/ i = Len(queue) + 1
    BY <1>3, <2>2
  <2> QED BY <1>1, <1>2, <1>3, <2>1, <2>2, <2>3, <2>4 DEF Held
<1> QED BY <1>4, <1>5, <1>6 DEF Run

LEMMA EventHolds ==
    ASSUME IInv, Held, NEW w \in AllWorkers, OnMessage(w) \/ OnError(w) PROVE Held'
<1> USE DEF IInv
<1>1. CASE OnInitFailure(w)
  <2>1. pending' = pending
    BY <1>1 DEF OnInitFailure
  <2>2. CASE promise' = Reject(Range(queue)) /\ queue' = <<>>
    BY <2>1, <2>2, RejectKeeps, HeldKept
  <2>3. CASE UNCHANGED <<promise, queue>>
    BY <2>1, <2>3 DEF Held
  <2> QED BY <1>1, <2>2, <2>3 DEF OnInitFailure
<1>2. CASE OnInitSuccess(w)
  <2> DEFINE b == [busy EXCEPT ![w] = FALSE]
             D == DOMAIN pending
  <2>1. PICK n \in 0..Len(queue) : \E f : DrainQueue(b, pending, n, f)
    BY <1>2 DEF OnInitSuccess
  <2>2. PICK f : DrainQueue(b, pending, n, f)
    BY <2>1
  <2>3. pending = Restrict(pending, D)
    BY DEF Restrict, TypeOK
  <2>4. D \in SUBSET (DOMAIN pending)
    OBVIOUS
  <2>5. \A c \in Calls : promise'[c] = promise[c]
          \/ (promise'[c] # "uncalled" /\ \E j \in DOMAIN pending \ D : c = pending[j])
    BY <1>2 DEF OnInitSuccess
  <2> HIDE DEF b, D
  <2>6. DrainQueue(b, Restrict(pending, D), n, f)
    BY <2>2, <2>3
  <2> QED BY <2>4, <2>5, <2>6, DrainHolds
<1>3. CASE OnRunReply(w)
  <2> DEFINE b == [busy EXCEPT ![w] = FALSE]
             id == Event(w).id
             D == DOMAIN pending \ {id}
             Effect(n, f) ==
               /\ DrainQueue(b, Restrict(pending, D), n, f)
               /\ \/ promise' = promise
                  \/ promise' = [promise EXCEPT ![pending[id]] =
                                   IF Event(w).ok THEN "resolved" ELSE "rejected"]
  <2>1. id \in DOMAIN pending /\ \E n \in 0..Len(queue) : \E f : Effect(n, f)
    BY <1>3 DEF OnRunReply
  <2>2. PICK n \in 0..Len(queue) : \E f : Effect(n, f)
    BY <2>1
  <2>3. PICK f : Effect(n, f)
    BY <2>2
  <2>4. id \in DOMAIN pending \ D /\ D \in SUBSET (DOMAIN pending)
    BY <2>1
  <2> HIDE DEF b, id, D
  <2>5. \A c \in Calls : promise'[c] = promise[c]
          \/ (promise'[c] # "uncalled" /\ \E j \in DOMAIN pending \ D : c = pending[j])
    BY <2>3, <2>4 DEF TypeOK
  <2>6. DrainQueue(b, Restrict(pending, D), n, f)
    BY <2>3
  <2> QED BY <2>4, <2>5, <2>6, DrainHolds
<1>4. CASE OnStaleReply(w)
  BY <1>4 DEF OnStaleReply, Held
<1>5. CASE OnError(w)
  <2>1. queue' = queue /\ DOMAIN pending' = {} /\ promise' = Reject(Range(pending))
    BY <1>5 DEF OnError
  <2>2. \A i \in 1..Len(queue) : queue[i] \in Calls /\ queue[i] \notin Range(pending)
    BY DEF Held, Range, TypeOK
  <2>3. \A i \in 1..Len(queue') : promise'[queue'[i]] = "waiting"
    BY <2>1, <2>2, RejectKeeps DEF Held
  <2> QED BY <2>1, <2>3, RejectKeeps, HeldKept
<1> QED BY <1>1, <1>2, <1>3, <1>4, <1>5 DEF OnMessage

LEMMA StepHolds == IInv /\ Held /\ [Next]_vars => Held'
<1> SUFFICES ASSUME IInv, Held, [Next]_vars PROVE Held'
  OBVIOUS
<1>1. ASSUME Dispose PROVE Held'
  BY <1>1 DEF Dispose, Held
<1>2. ASSUME NEW w \in AllWorkers, WorkerReplies(w) \/ WorkerDies(w) \/ WorkerCloses(w)
      PROVE  Held'
  BY <1>2 DEF WorkerReplies, WorkerDies, WorkerCloses, dispatchVars, callVars, Held
<1>3. CASE UNCHANGED vars
  BY <1>3 DEF vars, Held
<1> QED BY <1>1, <1>2, <1>3, RunHolds, EventHolds DEF Next

(* Whatever workers die and arguments fail to be cloned, run(), drains,    *)
(* replies, errors and dispose() never queue or post a call twice.         *)
THEOREM CallsAreHeldOnce == Spec => []HeldOnce
<1>1. Init => Held
  BY DEF Init, Held
<1>2. IInv /\ Held => HeldOnce
  BY HeldIsHeldOnce DEF IInv
<1> QED BY <1>1, <1>2, IInvCorrect, StepHolds, PTL DEF Spec

-----------------------------------------------------------------------------
(* Without worker-level errors and uncloneable arguments nothing that      *)
(* drainQueue() posts throws, and no error event is on its way.            *)
Calm ==
    /\ Uncloneable = {} /\ MaxErrors = 0
    /\ \A w \in AllWorkers : thread[w] = "running"
    /\ \A w \in AllWorkers : \A i \in 1..Len(outbox[w]) : outbox[w][i].kind = "message"

(* Then the waiting promises are those of the queued and pending calls.    *)
Tracked ==
    /\ \A j \in DOMAIN pending : promise[pending[j]] = "waiting"
    /\ \A c \in Calls : promise[c] = "waiting" =>
         \/ \E i \in 1..Len(queue) : queue[i] = c
         \/ \E j \in DOMAIN pending : pending[j] = c

(* The signals hold what the last turn left. *)
Synced == signals = [workersCount |-> Cardinality({w \in workers : initOk[w] = "true"}),
                     queued       |-> Len(queue),
                     inflight     |-> Cardinality(DOMAIN pending)]

CInv == IInv /\ Held /\ Calm /\ Tracked /\ Synced /\ NoIdleWhileQueued

LEMMA InitCInv == Uncloneable = {} /\ MaxErrors = 0 /\ Init => CInv
<1> SUFFICES ASSUME Uncloneable = {}, MaxErrors = 0, Init PROVE CInv
  OBVIOUS
<1>1. IInv /\ Held
  BY InitIInv DEF Init, Held
<1>2. Calm /\ Tracked /\ NoIdleWhileQueued
  BY DEF Init, Calm, Tracked, NoIdleWhileQueued
<1>3. Synced
  <2>1. {w \in workers : initOk[w] = "true"} = {} /\ DOMAIN pending = {} /\ Len(queue) = 0
    BY DEF Init
  <2>2. Cardinality({}) = 0
    BY FS_EmptySet
  <2> QED BY <2>1, <2>2 DEF Synced, Init
<1> QED BY <1>1, <1>2, <1>3 DEF CInv

LEMMA NothingThrows ==
    ASSUME TypeOK, Calm, NEW w \in AllWorkers, NEW c
    PROVE  ~PostThrows(w, c) /\ \A S : Received(w, S) = running[w] \cup S
BY DEF Calm, PostThrows, Received

(* A drain loses no call and invents none. *)
LEMMA DrainPlaces ==
    ASSUME TypeOK, IdInv, NEW b,
           NEW D \in SUBSET (DOMAIN pending), NEW n \in 0..Len(queue), NEW f,
           DrainQueue(b, Restrict(pending, D), n, f)
    PROVE  /\ \A i \in 1..Len(queue) :
                \/ \E k \in 1..Len(queue') : queue'[k] = queue[i]
                \/ \E j \in DOMAIN pending' : pending'[j] = queue[i]
           /\ \A j \in D : j \in DOMAIN pending' /\ pending'[j] = pending[j]
           /\ \A j \in DOMAIN pending' :
                \/ j \in D /\ pending'[j] = pending[j]
                \/ \E i \in 1..Len(queue) : pending'[j] = queue[i]
<1> DEFINE New == nextId..(nextId + n - 1)
<1>1. /\ queue \in Seq(Calls) /\ Len(queue) \in Nat /\ nextId \in Int
      /\ \A j \in DOMAIN pending : j \in Int /\ j < nextId
  BY DEF TypeOK, IdInv, Ids
<1>2. /\ Len(queue') = Len(queue) - n
      /\ \A k \in 1..Len(queue') : queue'[k] = queue[k + n]
  <2>1. queue' = SubSeq(queue, n + 1, Len(queue))
    BY DEF DrainQueue
  <2>2. /\ Len(queue') = IF n + 1 <= Len(queue) THEN Len(queue) - (n + 1) + 1 ELSE 0
        /\ \A i \in 1..Len(queue) - (n + 1) + 1 : queue'[i] = queue[(n + 1) + i - 1]
    BY <1>1, <2>1, SubSeqProperties
  <2> QED BY <1>1, <2>2
<1>3. /\ DOMAIN pending' = D \cup New
      /\ \A j \in D : pending'[j] = pending[j]
      /\ \A j \in New : j - nextId + 1 \in 1..n /\ pending'[j] = queue[j - nextId + 1]
  <2>1. DOMAIN Restrict(pending, D) = D /\ \A j \in D : Restrict(pending, D)[j] = pending[j]
    BY DEF Restrict
  <2>2. pending' = [j \in D \cup New |->
                      IF j \in D THEN Restrict(pending, D)[j] ELSE queue[j - nextId + 1]]
    BY <2>1 DEF DrainQueue
  <2>3. D \cap New = {}
    BY <1>1
  <2>4. \A j \in New : j - nextId + 1 \in 1..n
    BY <1>1
  <2> QED BY <2>1, <2>2, <2>3, <2>4
<1>4. ASSUME NEW i \in 1..Len(queue)
      PROVE  \/ \E k \in 1..Len(queue') : queue'[k] = queue[i]
             \/ \E j \in DOMAIN pending' : pending'[j] = queue[i]
  <2>1. CASE i <= n
    <3>1. nextId + i - 1 \in New /\ (nextId + i - 1) - nextId + 1 = i
      BY <1>1, <2>1
    <3>2. nextId + i - 1 \in DOMAIN pending' /\ pending'[nextId + i - 1] = queue[i]
      BY <1>3, <3>1
    <3> QED BY <3>2
  <2>2. CASE i > n
    <3>1. i - n \in 1..Len(queue') /\ (i - n) + n = i
      BY <1>1, <1>2, <2>2
    <3> QED BY <1>2, <3>1
  <2> QED BY <1>1, <2>1, <2>2
<1>5. ASSUME NEW j \in DOMAIN pending'
      PROVE  \/ j \in D /\ pending'[j] = pending[j]
             \/ \E i \in 1..Len(queue) : pending'[j] = queue[i]
  <2> HIDE DEF New
  <2> QED BY <1>1, <1>3
<1> QED BY <1>3, <1>4, <1>5

(* A drain in which nothing throws goes on while there are an idle worker  *)
(* and a queued call.                                                      *)
LEMMA DrainConserves ==
    ASSUME TypeOK, Calm, workers' = workers,
           NEW b, NEW p, NEW ok, NEW n \in 0..Len(queue),
           NEW f \in [1..n -> Idle(b, ok)],
           DrainRounds(n, f, Idle(b, ok)), DrainQueue(b, p, n, f), initOk' = ok
    PROVE  ~DrainThrows(n, f) /\ NoIdleWhileQueued'
<1>1. Idle(b, ok) \subseteq AllWorkers
  BY DEF Idle, TypeOK
<1>2. ~DrainThrows(n, f)
  BY <1>1, NothingThrows DEF DrainThrows
<1>3. CASE n = Len(queue)
  <2>1. queue' = SubSeq(queue, Len(queue) + 1, Len(queue)) /\ queue \in Seq(Calls)
    BY <1>3 DEF DrainQueue, TypeOK
  <2>2. Len(queue') = 0 /\ queue' \in Seq(Calls)
    BY <2>1, SubSeqProperties
  <2>3. queue' = <<>>
    BY <2>2
  <2> QED BY <1>2, <2>3 DEF NoIdleWhileQueued
<1>4. CASE Range(f) = Idle(b, ok)
  <2>1. busy' = [w \in AllWorkers |-> b[w] \/ w \in Idle(b, ok)]
    BY <1>4 DEF DrainQueue
  <2>2. \A w \in workers : initOk'[w] = "true" => busy'[w]
    BY <2>1 DEF Idle, TypeOK
  <2> QED BY <1>2, <2>2 DEF NoIdleWhileQueued, Idle
<1> QED BY <1>2, <1>3, <1>4 DEF DrainRounds, DrainThrows

LEMMA CalmReceives ==
    ASSUME TypeOK, Calm, NEW w \in AllWorkers, Receives(w), thread' = thread
    PROVE  Calm' /\ Event(w).kind = "message"
<1>1. /\ Len(outbox[w]) >= 1 /\ Event(w) = outbox[w][1] /\ Len(outbox[w]) \in Nat
      /\ \A v \in AllWorkers : \A i \in 1..Len(outbox'[v]) :
           \E j \in 1..Len(outbox[v]) : outbox'[v][i] = outbox[v][j]
  BY ReceivesFacts DEF TypeOK
<1>2. 1 \in 1..Len(outbox[w])
  BY <1>1
<1> QED BY <1>1, <1>2 DEF Calm

LEMMA RunCalm ==
    ASSUME CInv, NEW c \in Calls, Run(c)
    PROVE  Calm' /\ Tracked' /\ Synced' /\ NoIdleWhileQueued'
<1> USE DEF CInv, IInv
<1>1. promise[c] = "uncalled" /\ \A x \in Calls \ {c} : promise'[x] = promise[x]
  BY DEF Run, RunRejects, RunDispatches, RunQueues, TypeOK
<1>2. /\ Len(queue) \in Nat /\ \A i \in 1..Len(queue) : queue[i] \in Calls
      /\ \A j \in DOMAIN pending : pending[j] \in Calls \ {c}
  BY <1>1 DEF TypeOK, Held
<1>3. CASE RunRejects(c)
  <2>1. UNCHANGED <<workers, busy, initOk, pending, queue, signals, outbox, thread>>
    BY <1>3 DEF RunRejects, workerVars
  <2>2. promise'[c] # "waiting"
    BY <1>3 DEF RunRejects, TypeOK
  <2>3. Tracked'
    BY <1>1, <1>2, <2>1, <2>2 DEF Tracked
  <2> QED BY <2>1, <2>3 DEF Calm, Synced, NoIdleWhileQueued, Idle
<1>4. CASE RunDispatches(c)
  <2>1. UNCHANGED <<workers, initOk, queue, outbox, thread>>
    BY <1>4 DEF RunDispatches
  <2>2. PICK w \in workers : /\ First(w, Idle(busy, initOk))
                            /\ busy' = [busy EXCEPT ![w] = TRUE]
                            /\ \/ PostThrows(w, c)
                               \/ promise' = [promise EXCEPT ![c] = "waiting"] /\ SyncPoolSignals
    BY <1>4 DEF RunDispatches
  <2>3. promise'[c] = "waiting" /\ SyncPoolSignals
    BY <2>2, NothingThrows DEF TypeOK
  <2>4. Synced'
    BY <2>3 DEF SyncPoolSignals, Synced
  <2>5. /\ DOMAIN pending' = DOMAIN pending \cup {nextId} /\ pending'[nextId] = c
        /\ \A j \in DOMAIN pending \ {nextId} : pending'[j] = pending[j]
    BY <1>4 DEF RunDispatches
  <2>6. nextId \notin DOMAIN pending
    BY DEF IdInv, TypeOK, Ids
  <2>7. Tracked'
    BY <1>1, <1>2, <2>1, <2>3, <2>5, <2>6 DEF Tracked
  <2>8. \A v \in workers : ~busy'[v] => ~busy[v]
    BY <2>2 DEF TypeOK
  <2>9. NoIdleWhileQueued'
    BY <2>1, <2>8 DEF NoIdleWhileQueued, Idle
  <2> QED BY <2>1, <2>4, <2>7, <2>9 DEF Calm
<1>5. CASE RunQueues(c)
  <2>1. /\ UNCHANGED <<workers, busy, initOk, pending, outbox, thread>>
        /\ queue' = Append(queue, c) /\ promise'[c] = "waiting"
        /\ Idle(busy, initOk) = {} /\ SyncPoolSignals
    BY <1>5 DEF RunQueues, TypeOK, workerVars
  <2>2. /\ Len(queue') = Len(queue) + 1 /\ queue'[Len(queue) + 1] = c
        /\ \A i \in 1..Len(queue) : queue'[i] = queue[i]
    BY <2>1 DEF TypeOK
  <2>3. \A i \in 1..Len(queue) : i \in 1..Len(queue')
    BY <1>2, <2>2
  <2>4. Len(queue) + 1 \in 1..Len(queue')
    BY <1>2, <2>2
  <2>5. Tracked'
    BY <1>1, <1>2, <2>1, <2>2, <2>3, <2>4 DEF Tracked
  <2>6. Synced'
    BY <2>1 DEF SyncPoolSignals, Synced
  <2>7. NoIdleWhileQueued'
    BY <2>1 DEF NoIdleWhileQueued, Idle
  <2> QED BY <2>1, <2>5, <2>6, <2>7 DEF Calm
<1> QED BY <1>3, <1>4, <1>5 DEF Run

LEMMA InitFailureCalm ==
    ASSUME CInv, NEW w \in AllWorkers, OnInitFailure(w)
    PROVE  Calm' /\ Tracked' /\ Synced' /\ NoIdleWhileQueued'
<1> USE DEF CInv, IInv
<1>1. UNCHANGED <<workers, busy, pending, thread>> /\ initOk' = [initOk EXCEPT ![w] = "false"]
  BY DEF OnInitFailure
<1>2. Calm'
  BY <1>1, CalmReceives DEF OnInitFailure
<1>3. Synced'
  BY DEF OnInitFailure, SyncPoolSignals, Synced
<1>4. queue' = queue \/ queue' = <<>>
  BY DEF OnInitFailure
<1>5. NoIdleWhileQueued'
  <2>1. \A v \in workers : initOk'[v] = "true" => initOk[v] = "true"
    BY <1>1 DEF TypeOK
  <2> QED BY <1>1, <1>4, <2>1 DEF NoIdleWhileQueued, Idle
<1>6. Tracked'
  <2>1. CASE UNCHANGED <<promise, queue>>
    BY <1>1, <2>1 DEF Tracked
  <2>2. CASE promise' = Reject(Range(queue)) /\ queue' = <<>>
    <3>1. \A c \in Calls : promise'[c] = IF c \in Range(queue) /\ promise[c] = "waiting"
                                        THEN "rejected" ELSE promise[c]
      BY <2>2 DEF Reject
    <3>2. \A i \in 1..Len(queue) : queue[i] \in Range(queue)
      BY DEF Range, TypeOK
    <3>3. ASSUME NEW j \in DOMAIN pending PROVE promise'[pending[j]] = "waiting"
      <4>1. pending[j] \in Calls
        BY DEF TypeOK
      <4>2. pending[j] \notin Range(queue)
        BY SMTT(60) DEF Held, Range, TypeOK
      <4> QED BY <3>1, <4>1, <4>2 DEF Tracked
    <3> QED BY <1>1, <3>1, <3>2, <3>3 DEF Tracked
  <2> QED BY <2>1, <2>2 DEF OnInitFailure
<1> QED BY <1>2, <1>3, <1>5, <1>6

LEMMA InitSuccessCalm ==
    ASSUME CInv, NEW w \in AllWorkers, OnInitSuccess(w)
    PROVE  Calm' /\ Tracked' /\ Synced' /\ NoIdleWhileQueued'
<1> USE DEF CInv, IInv
<1>1. UNCHANGED <<workers, promise, thread>>
  BY DEF OnInitSuccess
<1>2. Calm'
  BY <1>1, CalmReceives DEF OnInitSuccess
<1> DEFINE b == [busy EXCEPT ![w] = FALSE]
           ok == [initOk EXCEPT ![w] = "true"]
           Drains(n, f) ==
             /\ DrainRounds(n, f, Idle(b, ok)) /\ DrainQueue(b, pending, n, f)
             /\ DrainThrows(n, f) \/ SyncPoolSignals
<1>3. initOk' = ok
  BY DEF OnInitSuccess
<1>4. \E n \in 0..Len(queue) : \E f \in [1..n -> Idle(b, ok)] : Drains(n, f)
  BY DEF OnInitSuccess
<1>5. PICK n \in 0..Len(queue) : \E f \in [1..n -> Idle(b, ok)] : Drains(n, f)
  BY <1>4
<1>6. PICK f \in [1..n -> Idle(b, ok)] : Drains(n, f)
  BY <1>5
<1>7. pending = Restrict(pending, DOMAIN pending)
  BY DEF Restrict, TypeOK
<1> HIDE DEF b, ok
<1>8. ~DrainThrows(n, f) /\ NoIdleWhileQueued'
  BY <1>1, <1>3, <1>6, DrainConserves
<1>9. Synced'
  BY <1>6, <1>8 DEF SyncPoolSignals, Synced
<1>10. DrainQueue(b, Restrict(pending, DOMAIN pending), n, f)
  BY <1>6, <1>7
<1>11. /\ \A i \in 1..Len(queue) :
            \/ \E k \in 1..Len(queue') : queue'[k] = queue[i]
            \/ \E j \in DOMAIN pending' : pending'[j] = queue[i]
       /\ \A j \in DOMAIN pending : j \in DOMAIN pending' /\ pending'[j] = pending[j]
       /\ \A j \in DOMAIN pending' :
            \/ j \in DOMAIN pending /\ pending'[j] = pending[j]
            \/ \E i \in 1..Len(queue) : pending'[j] = queue[i]
  BY <1>10, DrainPlaces
<1>12. Tracked'
  <2>1. \A j \in DOMAIN pending' : promise'[pending'[j]] = "waiting"
    BY <1>1, <1>11 DEF Tracked, Held
  <2>2. ASSUME NEW c \in Calls, promise'[c] = "waiting"
        PROVE  \/ \E i \in 1..Len(queue') : queue'[i] = c
               \/ \E j \in DOMAIN pending' : pending'[j] = c
    BY <1>1, <1>11, <2>2 DEF Tracked
  <2> QED BY <2>1, <2>2 DEF Tracked
<1> QED BY <1>2, <1>8, <1>9, <1>12

(* A reply settles the call its id is pending for, with that call's own    *)
(* result, and drains the queue.                                           *)
LEMMA RunReplyFacts ==
    ASSUME CInv, NEW w \in AllWorkers, OnRunReply(w)
    PROVE  LET id == Event(w).id IN
           /\ id \in DOMAIN pending /\ pending[id] \in Calls
           /\ promise[pending[id]] = "waiting"
           /\ promise' = [promise EXCEPT ![pending[id]] =
                             IF Event(w).ok THEN "resolved" ELSE "rejected"]
           /\ answer' = IF Event(w).ok THEN [answer EXCEPT ![pending[id]] = pending[id]]
                        ELSE answer
           /\ disposed' = disposed
           /\ Synced' /\ NoIdleWhileQueued'
           /\ \E b, n, f : /\ n \in 0..Len(queue)
                          /\ DrainQueue(b, Restrict(pending, DOMAIN pending \ {id}), n, f)
<1> USE DEF CInv, IInv
<1>1. /\ Event(w).kind = "message" /\ Event(w).id \in DOMAIN pending
      /\ UNCHANGED <<workers, initOk, disposed, thread, errors>>
  BY DEF OnRunReply
<1>2. Event(w).call = pending[Event(w).id]
  <2>1. /\ Len(outbox[w]) >= 1 /\ Len(outbox[w]) \in Nat /\ Event(w) = outbox[w][1]
    BY ReceivesFacts DEF OnRunReply, TypeOK
  <2>2. IdMeans(Event(w).id, Event(w).call)
    <3>1. 1 \in 1..Len(outbox[w])
      BY <2>1
    <3> QED BY <1>1, <2>1, <3>1 DEF IdInv
  <2>3. Event(w).id \in (Size + 1)..(nextId - 1)
    BY <1>1 DEF IdInv
  <2> QED BY <1>1, <2>2, <2>3 DEF IdMeans, TypeOK, Ids
<1>3. pending[Event(w).id] \in Calls /\ promise[pending[Event(w).id]] = "waiting"
  BY <1>1 DEF TypeOK, Tracked
<1> DEFINE b == [busy EXCEPT ![w] = FALSE]
           id == Event(w).id
           p == Restrict(pending, DOMAIN pending \ {id})
           c == pending[id]
           Drains(n, f) ==
             /\ DrainRounds(n, f, Idle(b, initOk)) /\ DrainQueue(b, p, n, f)
             /\ IF DrainThrows(n, f) \/ promise[c] # "waiting"
                THEN UNCHANGED <<promise, answer>>
                ELSE /\ promise' = [promise EXCEPT ![c] =
                                      IF Event(w).ok THEN "resolved" ELSE "rejected"]
                     /\ answer' = IF Event(w).ok THEN [answer EXCEPT ![c] = Event(w).call]
                                  ELSE answer
             /\ IF DrainThrows(n, f) THEN UNCHANGED signals ELSE SyncPoolSignals
<1>4. \E n \in 0..Len(queue) : \E f \in [1..n -> Idle(b, initOk)] : Drains(n, f)
  BY DEF OnRunReply
<1>5. PICK n \in 0..Len(queue) : \E f \in [1..n -> Idle(b, initOk)] : Drains(n, f)
  BY <1>4
<1>6. PICK f \in [1..n -> Idle(b, initOk)] : Drains(n, f)
  BY <1>5
<1> HIDE DEF b, p
<1>7. ~DrainThrows(n, f) /\ NoIdleWhileQueued'
  BY <1>1, <1>6, DrainConserves
<1>8. Synced'
  BY <1>6, <1>7 DEF SyncPoolSignals, Synced
<1>9. DrainQueue(b, Restrict(pending, DOMAIN pending \ {id}), n, f)
  BY <1>6 DEF p
<1>10. /\ promise' = [promise EXCEPT ![c] = IF Event(w).ok THEN "resolved" ELSE "rejected"]
       /\ answer' = IF Event(w).ok THEN [answer EXCEPT ![c] = c] ELSE answer
  BY <1>2, <1>3, <1>6, <1>7
<1> QED BY <1>1, <1>3, <1>7, <1>8, <1>9, <1>10

LEMMA RunReplyCalm ==
    ASSUME CInv, NEW w \in AllWorkers, OnRunReply(w)
    PROVE  Calm' /\ Tracked' /\ Synced' /\ NoIdleWhileQueued'
<1> USE DEF CInv, IInv
<1> DEFINE id == Event(w).id
           c == pending[id]
           D == DOMAIN pending \ {id}
<1>1. /\ id \in DOMAIN pending /\ c \in Calls
      /\ promise' = [promise EXCEPT ![c] = IF Event(w).ok THEN "resolved" ELSE "rejected"]
      /\ Synced' /\ NoIdleWhileQueued'
  BY RunReplyFacts
<1>2. PICK b, n, f : n \in 0..Len(queue) /\ DrainQueue(b, Restrict(pending, D), n, f)
  BY RunReplyFacts
<1>3. Calm'
  BY CalmReceives DEF OnRunReply
<1> HIDE DEF id
<1>4. D \in SUBSET (DOMAIN pending)
  OBVIOUS
<1> HIDE DEF D
<1>5. /\ \A i \in 1..Len(queue) :
            \/ \E k \in 1..Len(queue') : queue'[k] = queue[i]
            \/ \E j \in DOMAIN pending' : pending'[j] = queue[i]
      /\ \A j \in D : j \in DOMAIN pending' /\ pending'[j] = pending[j]
      /\ \A j \in DOMAIN pending' :
            \/ j \in D /\ pending'[j] = pending[j]
            \/ \E i \in 1..Len(queue) : pending'[j] = queue[i]
  BY <1>2, <1>4, DrainPlaces
<1>6. /\ promise'[c] # "waiting"
      /\ \A x \in Calls \ {c} : promise'[x] = promise[x]
  BY <1>1 DEF TypeOK
<1>7. /\ \A i \in 1..Len(queue) : queue[i] \in Calls \ {c}
      /\ \A j \in D : pending[j] \in Calls \ {c}
  <2>1. \A i \in 1..Len(queue) : queue[i] \in Calls
    BY DEF TypeOK
  <2> QED BY <1>1, <2>1 DEF Held, TypeOK, D
<1>8. \A j \in DOMAIN pending' : promise'[pending'[j]] = "waiting"
  BY <1>5, <1>6, <1>7 DEF Tracked, Held, D
<1>9. ASSUME NEW x \in Calls, promise'[x] = "waiting"
      PROVE  \/ \E i \in 1..Len(queue') : queue'[i] = x
             \/ \E j \in DOMAIN pending' : pending'[j] = x
  <2>1. x # c /\ promise[x] = "waiting"
    BY <1>6, <1>9
  <2>2. CASE \E i \in 1..Len(queue) : queue[i] = x
    BY <1>5, <2>2
  <2>3. CASE \E j \in DOMAIN pending : pending[j] = x
    BY <1>5, <2>1, <2>3 DEF D
  <2> QED BY <2>1, <2>2, <2>3 DEF Tracked
<1>10. Tracked'
  BY <1>8, <1>9 DEF Tracked
<1> QED BY <1>1, <1>3, <1>10

LEMMA DisposeCalm ==
    ASSUME CInv, Dispose
    PROVE  /\ Calm' /\ Tracked' /\ Synced' /\ NoIdleWhileQueued'
           /\ promise' = [c \in Calls |-> IF promise[c] = "waiting" THEN "rejected" ELSE promise[c]]
<1> USE DEF CInv, IInv
<1>1. /\ DOMAIN pending' = {} /\ queue' = <<>> /\ thread' = thread
      /\ outbox' = [w \in AllWorkers |-> <<>>] /\ SyncPoolSignals
      /\ promise' = Reject(Range(pending) \cup Range(queue))
  BY DEF Dispose
<1>2. \A c \in Calls : promise[c] = "waiting" => c \in Range(pending) \cup Range(queue)
  <2>1. /\ \A i \in 1..Len(queue) : queue[i] \in Range(queue)
        /\ \A j \in DOMAIN pending : pending[j] \in Range(pending)
    BY DEF Range, TypeOK
  <2> QED BY <2>1 DEF Tracked
<1>3. promise' = [c \in Calls |-> IF promise[c] = "waiting" THEN "rejected" ELSE promise[c]]
  BY <1>1, <1>2 DEF Reject
<1>4. Tracked'
  BY <1>1, <1>3 DEF Tracked
<1>5. Calm'
  BY <1>1 DEF Calm
<1>6. Synced' /\ NoIdleWhileQueued'
  BY <1>1 DEF SyncPoolSignals, Synced, NoIdleWhileQueued
<1> QED BY <1>3, <1>4, <1>5, <1>6

LEMMA NoErrorEvents == ASSUME CInv, NEW w \in AllWorkers PROVE ~OnError(w)
BY CalmReceives, ReceivesFacts DEF CInv, IInv, OnError, Calm, TypeOK

LEMMA WorkerCalm ==
    ASSUME CInv, NEW w \in AllWorkers, WorkerReplies(w) \/ WorkerDies(w) \/ WorkerCloses(w)
    PROVE  /\ Calm' /\ Tracked' /\ Synced' /\ NoIdleWhileQueued'
           /\ UNCHANGED <<promise, answer, disposed>>
<1> USE DEF CInv, IInv
<1>1. WorkerReplies(w)
  BY DEF WorkerDies, WorkerCloses, Calm, TypeOK
<1>2. UNCHANGED <<workers, busy, initOk, pending, queue, disposed, signals, promise,
                  answer, thread>>
  BY <1>1 DEF WorkerReplies, dispatchVars, callVars
<1>3. PICK m \in running[w], ok \in BOOLEAN : outbox' = [outbox EXCEPT ![w] = Append(@, Reply(m, ok))]
  BY <1>1 DEF WorkerReplies
<1>4. Calm'
  <2> SUFFICES ASSUME NEW v \in AllWorkers, NEW i \in 1..Len(outbox'[v])
               PROVE  outbox'[v][i].kind = "message"
    BY <1>2 DEF Calm
  <2>1. CASE v # w
    BY <1>3, <2>1 DEF Calm, TypeOK
  <2>2. CASE v = w
    <3>1. outbox'[w] = Append(outbox[w], Reply(m, ok)) /\ outbox[w] \in Seq(Events)
      BY <1>3 DEF TypeOK
    <3>2. i \in 1..Len(outbox[w]) \/ outbox'[w][i] = Reply(m, ok)
      BY <2>2, <3>1
    <3>3. i \in 1..Len(outbox[w]) => outbox'[w][i] = outbox[w][i]
      BY <3>1
    <3> QED BY <2>2, <3>2, <3>3 DEF Calm, Reply
  <2> QED BY <2>1, <2>2
<1>5. Tracked' /\ Synced' /\ NoIdleWhileQueued'
  BY <1>2 DEF Tracked, Synced, NoIdleWhileQueued, Idle
<1> QED BY <1>2, <1>4, <1>5

LEMMA NextCInv == CInv /\ [Next]_vars => CInv'
<1> SUFFICES ASSUME CInv, [Next]_vars PROVE CInv'
  OBVIOUS
<1>1. IInv' /\ Held'
  BY NextIInv, StepHolds DEF CInv
<1> DEFINE Rest == Calm /\ Tracked /\ Synced /\ NoIdleWhileQueued
<1>2. ASSUME NEW c \in Calls, Run(c) PROVE Rest'
  BY <1>2, RunCalm
<1>3. ASSUME NEW w \in AllWorkers, OnMessage(w) PROVE Rest'
  <2>1. CASE OnStaleReply(w)
    <3>1. UNCHANGED <<workers, busy, initOk, pending, queue, signals, promise, thread>>
      BY <2>1 DEF OnStaleReply
    <3>2. Calm'
      BY <2>1, <3>1, CalmReceives DEF OnStaleReply, CInv, IInv
    <3> QED BY <3>1, <3>2 DEF CInv, Tracked, Synced, NoIdleWhileQueued, Idle
  <2> QED BY <1>3, <2>1, InitFailureCalm, InitSuccessCalm, RunReplyCalm DEF OnMessage
<1>4. ASSUME Dispose PROVE Rest'
  BY <1>4, DisposeCalm
<1>5. ASSUME NEW w \in AllWorkers, WorkerReplies(w) \/ WorkerDies(w) \/ WorkerCloses(w)
      PROVE  Rest'
  BY <1>5, WorkerCalm
<1>6. ASSUME UNCHANGED vars PROVE Rest'
  BY <1>6 DEF vars, CInv, Calm, Tracked, Synced, NoIdleWhileQueued, Idle
<1>7. Rest'
  BY <1>2, <1>3, <1>4, <1>5, <1>6, NoErrorEvents DEF Next
<1> QED BY <1>1, <1>7 DEF CInv

LEMMA CInvCorrect == Uncloneable = {} /\ MaxErrors = 0 /\ Spec => []CInv
<1> QED BY InitCInv, NextCInv, PTL DEF Spec

(* When nothing that is posted throws and no worker dies, run() and        *)
(* drainQueue() are work conserving, for any number of workers and calls.  *)
THEOREM NeverIdle == Uncloneable = {} /\ MaxErrors = 0 /\ Spec => []NoIdleWhileQueued
<1>1. CInv => NoIdleWhileQueued
  BY DEF CInv
<1> QED BY <1>1, CInvCorrect, PTL

(* Under the same conditions the signals are exact after every turn: the   *)
(* size of the map of pending ids is the number of waiting calls that are  *)
(* not queued.                                                             *)
THEOREM SignalsAreExact == Uncloneable = {} /\ MaxErrors = 0 /\ Spec => []SignalsExact
<1>1. ASSUME CInv PROVE SignalsExact
  <2> USE <1>1 DEF CInv, IInv
  <2> DEFINE waiting == {c \in Calls : promise[c] = "waiting"}
             Out == waiting \ Range(queue)
  <2>1. DOMAIN pending \subseteq (Size + 1)..(nextId - 1)
    BY DEF IdInv
  <2>2. IsFiniteSet(DOMAIN pending)
    <3>1. Size + 1 \in Int /\ nextId - 1 \in Int
      BY DEF TypeOK, Ids
    <3>2. IsFiniteSet((Size + 1)..(nextId - 1))
      BY <3>1, FS_Interval
    <3> QED BY <2>1, <3>2, FS_Subset
  <2>3. /\ \A c \in Range(queue) : \E i \in 1..Len(queue) : c = queue[i]
        /\ \A i \in 1..Len(queue) : queue[i] \in Range(queue)
    <3>1. DOMAIN queue = 1..Len(queue)
      BY DEF TypeOK
    <3> QED BY <3>1 DEF Range
  <2>4. \A j \in DOMAIN pending : pending[j] \in Out
    BY <2>3 DEF Tracked, Held, TypeOK
  <2>5. \A c \in Out : \E j \in DOMAIN pending : pending[j] = c
    BY <2>3 DEF Tracked
  <2>6. pending \in Bijection(DOMAIN pending, Out)
    <3> HIDE DEF Out
    <3>1. pending \in [DOMAIN pending -> Out]
      BY <2>4 DEF TypeOK
    <3>2. \A i, j \in DOMAIN pending : pending[i] = pending[j] => i = j
      BY DEF Held
    <3> QED BY <2>5, <3>1, <3>2 DEF Bijection, Injection, Surjection, IsInjective
  <2>7. Cardinality(Out) = Cardinality(DOMAIN pending)
    BY <2>2, <2>6, FS_Bijection DEF ExistsBijection
  <2> QED BY <2>7 DEF Synced, SignalsExact
<1> QED BY <1>1, CInvCorrect, PTL

-----------------------------------------------------------------------------
(* The refinement: a turn of the main thread submits, settles or disposes, *)
(* or leaves the promises alone.                                           *)
LEMMA StepRefines == CInv /\ [Next]_vars => [Service!Next]_(Service!vars)
<1> SUFFICES ASSUME CInv, [Next]_vars PROVE [Service!Next]_(Service!vars)
  OBVIOUS
<1> USE DEF CInv, IInv
<1>1. ASSUME NEW c \in Calls, Run(c) PROVE Service!Submit(c)
  <2>1. promise[c] = "uncalled" /\ UNCHANGED <<answer, disposed>>
    BY <1>1 DEF Run, RunRejects, RunDispatches, RunQueues, workerVars
  <2>2. \E st \in {"waiting", "rejected"} :
          (disposed => st = "rejected") /\ promise' = [promise EXCEPT ![c] = st]
    BY <1>1 DEF Run, RunRejects, RunDispatches, RunQueues
  <2> QED BY <2>1, <2>2 DEF Service!Submit
<1>2. ASSUME NEW w \in AllWorkers, OnInitFailure(w) PROVE [Service!Next]_(Service!vars)
  <2>1. UNCHANGED <<answer, disposed>>
    BY <1>2 DEF OnInitFailure
  <2>2. CASE promise' = promise
    BY <2>1, <2>2 DEF Service!vars
  <2>3. CASE promise' = Reject(Range(queue))
    <3> DEFINE S == {c \in Range(queue) \cap Calls : promise[c] = "waiting"}
    <3>1. promise' = [c \in Calls |-> IF c \in S THEN "rejected" ELSE promise[c]]
      BY <2>3 DEF Reject
    <3>2. S \subseteq Service!Waiting /\ S \in SUBSET Calls
      BY DEF Service!Waiting
    <3> HIDE DEF S
    <3>3. CASE S = {}
      <4>1. promise' = promise
        BY <3>1, <3>3 DEF TypeOK
      <4> QED BY <2>1, <4>1 DEF Service!vars
    <3>4. CASE S # {}
      BY <2>1, <3>1, <3>2, <3>4 DEF Service!RejectSome, Service!Next
    <3> QED BY <3>3, <3>4
  <2> QED BY <1>2, <2>2, <2>3 DEF OnInitFailure
<1>3. ASSUME NEW w \in AllWorkers, OnInitSuccess(w) \/ OnStaleReply(w)
      PROVE  UNCHANGED Service!vars
  BY <1>3 DEF OnInitSuccess, OnStaleReply, Service!vars
<1>4. ASSUME NEW w \in AllWorkers, OnRunReply(w) PROVE Service!Next
  <2> DEFINE c == pending[Event(w).id]
  <2>1. /\ c \in Calls /\ promise[c] = "waiting" /\ disposed' = disposed
        /\ promise' = [promise EXCEPT ![c] = IF Event(w).ok THEN "resolved" ELSE "rejected"]
        /\ answer' = IF Event(w).ok THEN [answer EXCEPT ![c] = c] ELSE answer
    BY <1>4, RunReplyFacts
  <2> HIDE DEF c
  <2>2. c \in Service!Waiting
    BY <2>1 DEF Service!Waiting
  <2>3. CASE Event(w).ok
    BY <2>1, <2>2, <2>3 DEF Service!Resolve, Service!Next
  <2>4. CASE ~Event(w).ok
    <3>1. promise' = [x \in Calls |-> IF x \in {c} THEN "rejected" ELSE promise[x]]
      BY <2>1, <2>4 DEF TypeOK
    <3>2. Service!RejectSome({c})
      BY <2>1, <2>2, <2>4, <3>1 DEF Service!RejectSome
    <3> QED BY <2>1, <3>2 DEF Service!Next
  <2> QED BY <2>3, <2>4
<1>5. ASSUME Dispose PROVE Service!Dispose
  <2>1. ~disposed /\ disposed' = TRUE /\ answer' = answer
    BY <1>5 DEF Dispose
  <2> QED BY <1>5, <2>1, DisposeCalm DEF Service!Dispose, Service!Waiting
<1>6. ASSUME NEW w \in AllWorkers, WorkerReplies(w) \/ WorkerDies(w) \/ WorkerCloses(w)
      PROVE  UNCHANGED Service!vars
  BY <1>6, WorkerCalm DEF Service!vars
<1>7. CASE UNCHANGED vars
  BY <1>7 DEF vars, Service!vars
<1>8. ASSUME NEW c \in Calls, Service!Submit(c) PROVE Service!Next
  BY <1>8 DEF Service!Next
<1>9. ASSUME Service!Dispose PROVE Service!Next
  BY <1>9 DEF Service!Next
<1> QED
  BY <1>1, <1>2, <1>3, <1>4, <1>5, <1>6, <1>7, <1>8, <1>9, NoErrorEvents DEF Next, OnMessage

(* The pool implements the service its callers see: without worker-level   *)
(* errors and uncloneable arguments every promise settles at most once,    *)
(* with its own result, and dispose() leaves no caller waiting.            *)
THEOREM Refinement ==
    Uncloneable = {} /\ MaxErrors = 0 /\ Spec => ImplementsService
<1>1. Init => Service!Init
  BY DEF Init, Service!Init
<1> QED BY <1>1, CInvCorrect, StepRefines, PTL DEF Spec, ImplementsService, Service!Spec
=============================================================================
