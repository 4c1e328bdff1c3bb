----------------------------- MODULE WorkerPool -----------------------------
(***************************************************************************)
(* The user-managed worker pool of @lyku/para-parallel: the object pool()  *)
(* of src/js/bun/parallel.ts returns.  A fixed array of workers preloads a *)
(* user module; run() posts a call to the first idle worker or queues it;  *)
(* replies come back by message id, in any order across workers.           *)
(*                                                                         *)
(* One action is one turn of the main thread (a run(), a dispose(), one    *)
(* message or error event) or one step of a worker.  Message ids are kept  *)
(* because the reply of a call is found by id alone.  A worker's event     *)
(* loop is the external side: what it may do is reply to a message it      *)
(* holds, or die of an uncaught error (web_worker.rs terminates it).       *)
(***************************************************************************)
EXTENDS Integers, Sequences, FiniteSets, Functions

CONSTANTS
    Size,         \* number of workers, opts.size
    Calls,        \* the run() calls the program makes, each once
    NoCall,       \* the "call" of an init message, and of no answer
    Uncloneable,  \* the calls whose arguments postMessage cannot clone
    MaxErrors     \* bound on the worker-level errors of a behaviour

ASSUME SizeAssumption == Size \in Nat \ {0}
ASSUME CallsAssumption == NoCall \notin Calls /\ Uncloneable \subseteq Calls
ASSUME ErrorsAssumption == MaxErrors \in Nat

AllWorkers == 1..Size

VARIABLES
    workers,   \* the workers still in the array: all of them until dispose()
    busy,      \* entry.busy
    initOk,    \* entry.initOk: null, true, false
    nextId,    \* the next message id
    pending,   \* id |-> call, the calls posted and not yet answered
    queue,     \* the calls waiting for an idle worker, oldest first
    disposed,  \* dispose() has run
    signals,   \* the diagnostic signals workersCount, queued, inflight
    promise,   \* call |-> the state of the promise run() returned
    answer,    \* call |-> the call whose result resolved that promise
    running,   \* worker |-> the messages it has received and not answered
    outbox,    \* worker |-> its events the main thread has not handled
    thread,    \* worker |-> running, died of an error, or closed
    errors     \* worker-level errors so far

callVars == <<promise, answer>>
dispatchVars == <<busy, nextId, pending, queue>>
workerVars == <<running, outbox, thread, errors>>
vars == <<workers, busy, initOk, nextId, pending, queue, disposed, signals,
          promise, answer, running, outbox, thread, errors>>

InitMsg(w) == [id |-> w, type |-> "init", call |-> NoCall]
(* Mutant: nextId read again after its increment. *)
MutRunMsg(id, c) == [id |-> id + 1, type |-> "run", call |-> c]

RunMsg(id, c) == [id |-> id, type |-> "run", call |-> c]
Reply(m, ok) == [kind |-> "message", id |-> m.id, ok |-> ok, call |-> m.call]
ErrorEvent == [kind |-> "error", id |-> 0, ok |-> FALSE, call |-> NoCall]

-----------------------------------------------------------------------------
(* makeWorker() gives the i-th worker message id i for its init message.   *)

Init ==
    /\ workers = AllWorkers
    /\ busy = [w \in AllWorkers |-> TRUE]
    /\ initOk = [w \in AllWorkers |-> "null"]
    /\ nextId = Size + 1
    /\ pending = [i \in {} |-> NoCall]
    /\ queue = <<>>
    /\ disposed = FALSE
    /\ signals = [workersCount |-> 0, queued |-> 0, inflight |-> 0]
    /\ promise = [c \in Calls |-> "uncalled"]
    /\ answer = [c \in Calls |-> NoCall]
    /\ running = [w \in AllWorkers |-> {InitMsg(w)}]
    /\ outbox = [w \in AllWorkers |-> <<>>]
    /\ thread = [w \in AllWorkers |-> "running"]
    /\ errors = 0

(* Mutant: the entries are dropped without rejecting their promises. *)
MutReject(S) == promise

(* A promise settles once; settling it again has no effect. *)
Reject(S) == [c \in Calls |-> IF c \in S /\ promise[c] = "waiting"
                              THEN "rejected" ELSE promise[c]]

(* Mutant: the signals are refreshed before the turn's updates. *)
MutSyncPoolSignals ==
    signals' = [workersCount |-> Cardinality({w \in workers' : initOk'[w] = "true"}),
                queued       |-> Len(queue),
                inflight     |-> Cardinality(DOMAIN pending)]

(* syncPoolSignals() at the end of a turn.  The code sets the three signals *)
(* one after the other, and each set() runs its subscribers: one step here, *)
(* as the properties speak of ends of turns.                                *)
SyncPoolSignals ==
    signals' = [workersCount |-> Cardinality({w \in workers' : initOk'[w] = "true"}),
                queued       |-> Len(queue'),
                inflight     |-> Cardinality(DOMAIN pending')]

Idle(b, ok) == {w \in workers : ok[w] = "true" /\ ~b[w]}
First(w, S) == w \in S /\ \A v \in S : w <= v
AllInitsFailed(ok) == \A w \in workers : ok[w] = "false"

(* postMessage: throws on arguments it cannot clone and on a closed        *)
(* worker; what it posts to a thread that has died is dropped.             *)
PostThrows(w, c) == c \in Uncloneable \/ thread[w] = "closed"
Received(w, S) == IF thread[w] = "running" THEN running[w] \cup S ELSE running[w]

-----------------------------------------------------------------------------
(* run(): rejects at once, posts to the first idle worker, or queues.      *)

RunRejects(c) ==
    /\ promise[c] = "uncalled"
    /\ disposed \/ AllInitsFailed(initOk)
    /\ promise' = [promise EXCEPT ![c] = "rejected"]
    /\ UNCHANGED <<workers, busy, initOk, nextId, pending, queue, disposed,
                   signals, answer, workerVars>>

(* When postMessage throws, the promise executor rejects: the worker is    *)
(* already marked busy, the call is already in pending, and the signals    *)
(* are not refreshed.                                                      *)
RunDispatches(c) ==
    /\ promise[c] = "uncalled"
    /\ ~disposed /\ ~AllInitsFailed(initOk)
    /\ nextId' = nextId + 1
    /\ pending' = [i \in DOMAIN pending \cup {nextId} |->
                     IF i = nextId THEN c ELSE pending[i]]
    /\ UNCHANGED <<workers, initOk, queue, disposed, answer, outbox, thread, errors>>
    /\ \E w \in workers :
        /\ First(w, Idle(busy, initOk))
        /\ busy' = [busy EXCEPT ![w] = TRUE]
        /\ IF PostThrows(w, c)
           THEN /\ promise' = [promise EXCEPT ![c] = "rejected"]
                /\ UNCHANGED <<running, signals>>
           ELSE /\ promise' = [promise EXCEPT ![c] = "waiting"]
                /\ running' = [running EXCEPT ![w] = Received(w, {RunMsg(nextId, c)})]
                /\ SyncPoolSignals

RunQueues(c) ==
    /\ promise[c] = "uncalled"
    /\ ~disposed /\ ~AllInitsFailed(initOk)
    /\ Idle(busy, initOk) = {}
    /\ queue' = Append(queue, c)
    /\ promise' = [promise EXCEPT ![c] = "waiting"]
    /\ UNCHANGED <<workers, busy, initOk, nextId, pending, disposed, answer,
                   workerVars>>
    /\ SyncPoolSignals

-----------------------------------------------------------------------------
(* drainQueue(): each round takes the first idle worker and the oldest     *)
(* call.  f is the sequence of workers its n rounds choose; a round whose  *)
(* postMessage throws is the last one.                                     *)

(* Mutant: the queue is not drained. *)
MutDrainRounds(n, f, idle) == n = 0

DrainRounds(n, f, idle) ==
    /\ \A i, j \in 1..n : i < j => f[i] < f[j]
    /\ \A i \in 1..n : \A v \in idle \ Range(f) : f[i] < v
    /\ \A i \in 1..(n - 1) : ~PostThrows(f[i], queue[i])
    /\ \/ n = Len(queue)
       \/ Range(f) = idle
       \/ n > 0 /\ PostThrows(f[n], queue[n])

DrainThrows(n, f) == n > 0 /\ PostThrows(f[n], queue[n])

(* Mutant: the calls handed to workers are left in the queue. *)
MutDrainQueue(b, p, n, f) ==
    /\ queue' = queue
    /\ busy' = [w \in AllWorkers |-> b[w] \/ w \in Range(f)]
    /\ nextId' = nextId + n
    /\ pending' = [i \in DOMAIN p \cup nextId..(nextId + n - 1) |->
                     IF i \in DOMAIN p THEN p[i] ELSE queue[i - nextId + 1]]
    /\ UNCHANGED running

(* drainQueue() from busy flags b and pending calls p. *)
DrainQueue(b, p, n, f) ==
    /\ queue' = SubSeq(queue, n + 1, Len(queue))
    /\ busy' = [w \in AllWorkers |-> b[w] \/ w \in Range(f)]
    /\ nextId' = nextId + n
    /\ pending' = [i \in DOMAIN p \cup nextId..(nextId + n - 1) |->
                     IF i \in DOMAIN p THEN p[i] ELSE queue[i - nextId + 1]]
    /\ running' = [w \in AllWorkers |-> Received(w,
           {RunMsg(nextId + i - 1, queue[i]) :
                i \in {j \in 1..n : f[j] = w /\ ~PostThrows(w, queue[j])}})]

-----------------------------------------------------------------------------
(* onmessage of worker w, one disjunct per branch.                         *)

Event(w) == Head(outbox[w])
Receives(w) == /\ w \in workers
               /\ outbox[w] # <<>>
               /\ outbox' = [outbox EXCEPT ![w] = Tail(@)]

OnInitFailure(w) ==
    /\ Receives(w)
    /\ Event(w).kind = "message" /\ Event(w).id = w /\ ~Event(w).ok
    /\ initOk' = [initOk EXCEPT ![w] = "false"]
    /\ IF AllInitsFailed(initOk')
       THEN promise' = Reject(Range(queue)) /\ queue' = <<>>
       ELSE UNCHANGED <<promise, queue>>
    /\ UNCHANGED <<workers, busy, nextId, pending, disposed, answer, running,
                   thread, errors>>
    /\ SyncPoolSignals

OnInitSuccess(w) ==
    /\ Receives(w)
    /\ Event(w).kind = "message" /\ Event(w).id = w /\ Event(w).ok
    /\ initOk' = [initOk EXCEPT ![w] = "true"]
    /\ UNCHANGED <<workers, disposed, promise, answer, thread, errors>>
    /\ LET b == [busy EXCEPT ![w] = FALSE]
           idle == Idle(b, initOk')
       IN \E n \in 0..Len(queue) : \E f \in [1..n -> idle] :
            /\ DrainRounds(n, f, idle)
            /\ DrainQueue(b, pending, n, f)
            /\ IF DrainThrows(n, f) THEN UNCHANGED signals ELSE SyncPoolSignals

(* The reply to a run: the worker is freed, the queue drained, and only    *)
(* then the promise settled, so that a throw in drainQueue skips it.       *)
OnRunReply(w) ==
    /\ Receives(w)
    /\ Event(w).kind = "message" /\ Event(w).id # w /\ Event(w).id \in DOMAIN pending
    /\ UNCHANGED <<workers, initOk, disposed, thread, errors>>
    /\ LET b == [busy EXCEPT ![w] = FALSE]
           p == Restrict(pending, DOMAIN pending \ {Event(w).id})
           c == pending[Event(w).id]
           idle == Idle(b, initOk)
       IN \E n \in 0..Len(queue) : \E f \in [1..n -> idle] :
            /\ DrainRounds(n, f, idle)
            /\ DrainQueue(b, p, n, f)
            /\ IF DrainThrows(n, f) \/ promise[c] # "waiting"
               THEN UNCHANGED <<promise, answer>>
               ELSE /\ promise' = [promise EXCEPT ![c] =
                                     IF Event(w).ok THEN "resolved" ELSE "rejected"]
                    /\ answer' = IF Event(w).ok THEN [answer EXCEPT ![c] = Event(w).call]
                                 ELSE answer
            /\ IF DrainThrows(n, f) THEN UNCHANGED signals ELSE SyncPoolSignals

(* A reply nobody waits for returns before the worker is freed. *)
OnStaleReply(w) ==
    /\ Receives(w)
    /\ Event(w).kind = "message" /\ Event(w).id # w /\ Event(w).id \notin DOMAIN pending
    /\ UNCHANGED <<workers, busy, initOk, nextId, pending, queue, disposed,
                   signals, promise, answer, running, thread, errors>>

OnMessage(w) == OnInitFailure(w) \/ OnInitSuccess(w) \/ OnRunReply(w) \/ OnStaleReply(w)

(* onerror of worker w: every pending call is rejected, whichever worker   *)
(* it runs on; the queue is not drained, the signals not refreshed.        *)
OnError(w) ==
    /\ Receives(w)
    /\ Event(w).kind = "error"
    /\ busy' = [busy EXCEPT ![w] = FALSE]
    /\ pending' = [i \in {} |-> NoCall]
    /\ promise' = Reject(Range(pending))
    /\ UNCHANGED <<workers, initOk, nextId, queue, disposed, signals, answer,
                   running, thread, errors>>

(* dispose().  No event of a terminated worker is delivered. *)
Dispose ==
    /\ ~disposed
    /\ disposed' = TRUE
    /\ workers' = {}
    /\ promise' = Reject(Range(pending) \cup Range(queue))
    /\ pending' = [i \in {} |-> NoCall]
    /\ queue' = <<>>
    /\ running' = [w \in AllWorkers |-> {}]
    /\ outbox' = [w \in AllWorkers |-> <<>>]
    /\ UNCHANGED <<busy, initOk, nextId, answer, thread, errors>>
    /\ SyncPoolSignals

-----------------------------------------------------------------------------
(* The worker thread: it answers the messages it holds, in the order their *)
(* async handlers finish; a failing import or function answers ok: false.  *)

WorkerReplies(w) == \E m \in running[w], ok \in BOOLEAN :
    /\ running' = [running EXCEPT ![w] = @ \ {m}]
    /\ outbox' = [outbox EXCEPT ![w] = Append(@, Reply(m, ok))]
    /\ UNCHANGED <<workers, dispatchVars, initOk, disposed, signals, callVars,
                   thread, errors>>

(* An uncaught error in the user's module posts an error event and ends    *)
(* the thread.                                                             *)
WorkerDies(w) ==
    /\ errors < MaxErrors
    /\ thread[w] = "running" /\ w \in workers
    /\ thread' = [thread EXCEPT ![w] = "died"]
    /\ running' = [running EXCEPT ![w] = {}]
    /\ outbox' = [outbox EXCEPT ![w] = Append(@, ErrorEvent)]
    /\ errors' = errors + 1
    /\ UNCHANGED <<workers, dispatchVars, initOk, disposed, signals, callVars>>

(* Its close task runs on the main thread after its last event. *)
WorkerCloses(w) ==
    /\ thread[w] = "died" /\ outbox[w] = <<>>
    /\ thread' = [thread EXCEPT ![w] = "closed"]
    /\ UNCHANGED <<workers, dispatchVars, initOk, disposed, signals, callVars,
                   running, outbox, errors>>

-----------------------------------------------------------------------------
Run(c) == RunRejects(c) \/ RunDispatches(c) \/ RunQueues(c)

Next ==
    \/ \E c \in Calls : Run(c)
    \/ \E w \in AllWorkers : OnMessage(w) \/ OnError(w)
    \/ Dispose
    \/ \E w \in AllWorkers : WorkerReplies(w) \/ WorkerDies(w) \/ WorkerCloses(w)

(* The event loop delivers every event, and user functions return. *)
Fairness == \A w \in AllWorkers : /\ WF_vars(OnMessage(w) \/ OnError(w))
                                  /\ WF_vars(WorkerReplies(w))

Spec == Init /\ [][Next]_vars
FairSpec == Spec /\ Fairness

-----------------------------------------------------------------------------
Ids == Nat \ {0}
PromiseStates == {"uncalled", "waiting", "resolved", "rejected"}
Messages == [id : Ids, type : {"init", "run"}, call : Calls \cup {NoCall}]
Events == [kind : {"message", "error"}, id : Nat, ok : BOOLEAN,
           call : Calls \cup {NoCall}]

(* Every variable has the shape its declaration says. *)
TypeOK ==
    /\ workers \in SUBSET AllWorkers
    /\ busy \in [AllWorkers -> BOOLEAN]
    /\ initOk \in [AllWorkers -> {"null", "true", "false"}]
    /\ nextId \in Ids
    /\ DOMAIN pending \subseteq Ids
    /\ pending \in [DOMAIN pending -> Calls]
    /\ queue \in Seq(Calls)
    /\ disposed \in BOOLEAN
    /\ promise \in [Calls -> PromiseStates]
    /\ answer \in [Calls -> Calls \cup {NoCall}]
    /\ running \in [AllWorkers -> SUBSET Messages]
    /\ outbox \in [AllWorkers -> Seq(Events)]
    /\ thread \in [AllWorkers -> {"running", "died", "closed"}]
    /\ errors \in 0..MaxErrors

(* The calls whose run is still under way on worker w: its message is with *)
(* the worker, or its reply is on the way back.                            *)
RunsInFlight(w) ==
    {m.id : m \in {x \in running[w] : x.type = "run"}} \cup
    {outbox[w][i].id : i \in {j \in 1..Len(outbox[w]) :
                                 outbox[w][j].kind = "message" /\ outbox[w][j].call # NoCall}}

(* Whatever order replies, errors and queue drains come in, a promise that *)
(* resolves carries the result of its own call: ids are never reused, so a *)
(* reply cannot settle the promise of another run().                       *)
OwnAnswer == \A c \in Calls : promise[c] = "resolved" => answer[c] = c

(* Between run(), drainQueue(), onmessage, onerror and dispose() no call    *)
(* is duplicated: it is queued once or pending under one id, never both,   *)
(* and a queued call has not settled, whatever faults came before.         *)
HeldOnce ==
    /\ IsInjective(queue) /\ IsInjective(pending)
    /\ Range(queue) \cap Range(pending) = {}
    /\ \A c \in Range(queue) : promise[c] = "waiting"

(* run() and drainQueue() are work conserving: a call never waits in the   *)
(* queue while a ready worker is idle.                                     *)
NoIdleWhileQueued == queue # <<>> => Idle(busy, initOk) = {}

(* A live worker that initialised is busy only on account of a pending     *)
(* call whose reply will free it: it is never taken out of use.            *)
WorkersReused ==
    \A w \in workers : initOk[w] = "true" /\ busy[w] /\ thread[w] = "running" =>
        RunsInFlight(w) \cap DOMAIN pending # {}

(* PoolSignals: after every turn inflight is the number of unsettled run    *)
(* requests given to workers, queued the number waiting, workersCount the  *)
(* number of workers that are ready.                                       *)
SignalsExact ==
    LET waiting == {c \in Calls : promise[c] = "waiting"}
    IN signals = [workersCount |-> Cardinality({w \in workers : initOk[w] = "true"}),
                  queued       |-> Len(queue),
                  inflight     |-> Cardinality(waiting \ Range(queue))]

(* Every run() settles: with an answer, or rejected rather than queued     *)
(* forever.                                                                *)
EveryCallSettles == \A c \in Calls :
    promise[c] = "waiting" ~> promise[c] \in {"resolved", "rejected"}

-----------------------------------------------------------------------------
Service == INSTANCE CallService

(* While no worker fails and all arguments can be cloned, in whatever order *)
(* messages arrive and callers call, the pool behaves towards its callers  *)
(* like the abstract service: each promise settles at most once, with its  *)
(* own result; dispose() leaves no caller waiting.                         *)
ImplementsService == Service!Spec
=============================================================================
