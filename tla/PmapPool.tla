------------------------------ MODULE PmapPool ------------------------------
(***************************************************************************)
(* The implicit worker pool behind pmap and preduce, src/js/bun/           *)
(* parallel.ts: one persistent list of workers that every call shares, and *)
(* a free list of SharedArrayBuffers that typed-array calls borrow from.   *)
(*                                                                         *)
(* A call cuts its input into Width chunks and posts chunk i to worker i.  *)
(* Each worker entry holds the resolve and reject of the chunk posted      *)
(* last; a reply carries nothing that says which call it answers (id is    *)
(* the chunk's index), so it settles whatever the entry holds.             *)
(*                                                                         *)
(* entry.busy is written and never read, and is left out.  A call here     *)
(* starts where it reaches the dispatcher: the serial fallbacks and the    *)
(* adaptive probe run on the caller's thread and share nothing.            *)
(***************************************************************************)
EXTENDS Naturals, Sequences, FiniteSets, FiniteSetsExt

CONSTANTS
    Calls,      \* pmap and preduce calls
    Width,      \* call |-> its number of chunks
    Typed,      \* the calls on typed arrays
    Throwing,   \* the calls whose function may throw in a worker
    Unparsable, \* the calls whose function source does not evaluate
    MaxGens,    \* bound on disposeWorkers(), plus one
    SabPoolMax, \* SAB_POOL_MAX
    Client,     \* how the program calls: "careful", "sequential", "overlapping"
    None

ASSUME WidthAssumption == Width \in [Calls -> Nat \ {0}]
ASSUME ClientAssumption ==
    /\ Typed \subseteq Calls /\ None \notin Calls
    /\ MaxGens \in Nat \ {0} /\ SabPoolMax \in Nat
    /\ Client \in {"careful", "sequential", "overlapping"}

Index == UNION {1..Width[c] : c \in Calls}
Workers == (1..MaxGens) \X Index    \* <<generation, index in pmapPool>>
Sabs == 1..(2 * Cardinality(Calls))

VARIABLES
    gen,        \* generation of pmapPool: the disposals so far, plus one
    size,       \* pmapPool.length
    holder,     \* worker |-> the call whose chunk entry.resolve settles
    refd,       \* worker |-> it keeps the event loop alive
    thread,     \* worker |-> "running", "died", "closed"
    executing,  \* worker |-> the calls whose chunk it holds
    replies,    \* worker |-> messages on their way to the main thread
    computed,   \* the chunks whose output has been written
    chunk,      \* call |-> chunk |-> how its promise stands
    promise,    \* call |-> the promise its caller holds
    result,     \* call |-> chunk |-> the call whose output the result holds
    sabs,       \* call |-> the buffers its messages refer to
    sabPool,    \* sabPool
    made,       \* buffers allocated so far
    tainted     \* a call has been rejected since the pool was last disposed

poolVars == <<gen, size, tainted>>
workerVars == <<thread, executing, replies, computed>>
sabVars == <<sabs, sabPool, made>>
vars == <<poolVars, holder, refd, workerVars, chunk, promise, result, sabVars>>

Chunks(c) == 1..Width[c]
Waiting == [state |-> "waiting", from |-> None]
Done(from) == [state |-> "ok", from |-> from]
Failed == [state |-> "failed", from |-> None]

Init ==
    /\ gen = 1
    /\ size = 0
    /\ holder = [w \in Workers |-> None]
    /\ refd = [w \in Workers |-> FALSE]
    /\ thread = [w \in Workers |-> "running"]
    /\ executing = [w \in Workers |-> {}]
    /\ replies = [w \in Workers |-> <<>>]
    /\ computed = {}
    /\ chunk = [c \in Calls |-> [i \in Chunks(c) |-> Waiting]]
    /\ promise = [c \in Calls |-> "uncalled"]
    /\ result = [c \in Calls |-> [i \in Chunks(c) |-> None]]
    /\ sabs = [c \in Calls |-> {}]
    /\ sabPool = {}
    /\ made = 0
    /\ tainted = FALSE

Pending == {c \in Calls : promise[c] = "pending"}

-----------------------------------------------------------------------------
(* A call reaches the dispatcher.  A careful program awaits each call and  *)
(* disposes of the workers after a rejection before it calls again; a      *)
(* sequential one only awaits; an overlapping one does neither.            *)

MayStart == CASE Client = "careful" -> Pending = {} /\ ~tainted
              [] Client = "sequential" -> Pending = {}
              [] Client = "overlapping" -> TRUE

(* The workers of the call, once ensurePool() has grown the pool. *)
Mine(c) == {<<gen, i>> : i \in Chunks(c)}

(* Mutant: the workers are not referenced for the time of the call. *)
MutRefs(c) == refd
Refs(c) == [w \in Workers |-> refd[w] \/ w \in Mine(c)]

(* borrowSab twice: an input and an output buffer. *)
Borrow(c) ==
    IF c \notin Typed THEN UNCHANGED sabVars
    ELSE \E in \in sabPool \cup {made + 1} :
         LET made1 == IF in \in sabPool THEN made ELSE made + 1
         IN \E out \in (sabPool \ {in}) \cup {made1 + 1} :
            /\ made' = IF out \in sabPool THEN made1 ELSE made1 + 1
            /\ sabPool' = sabPool \ {in, out}
            /\ sabs' = [sabs EXCEPT ![c] = {in, out}]

(* postMessage to a closed worker throws, which rejects the chunk and with *)
(* it the call; one to a worker that has died but not closed is dropped.   *)
Start(c) ==
    /\ promise[c] = "uncalled" /\ MayStart
    /\ Borrow(c)
    /\ size' = Max({size, Width[c]})
    /\ refd' = Refs(c)
    /\ holder' = [w \in Workers |-> IF w \in Mine(c) THEN c ELSE holder[w]]
    /\ executing' = [w \in Workers |->
           IF w \in Mine(c) /\ thread[w] = "running" THEN executing[w] \cup {c}
           ELSE executing[w]]
    /\ chunk' = [chunk EXCEPT ![c] = [i \in Chunks(c) |->
           IF thread[<<gen, i>>] = "closed" THEN Failed ELSE Waiting]]
    /\ LET throws == \E i \in Chunks(c) : thread[<<gen, i>>] = "closed"
       IN /\ promise' = [promise EXCEPT ![c] = IF throws THEN "rejected" ELSE "pending"]
          /\ tainted' = (tainted \/ throws)
    /\ UNCHANGED <<gen, thread, replies, computed, result>>

-----------------------------------------------------------------------------
(* The main thread handles a message or an error event of worker w.        *)

(* returnSab: as many of S as the free list has room for. *)
Returned(S) ==
    LET room == SabPoolMax - Cardinality(sabPool)
    IN IF Cardinality(S) <= room THEN sabPool \cup S
       ELSE sabPool \cup (CHOOSE T \in SUBSET S : Cardinality(T) = room)

(* Mutant: the call settles with its first chunk. *)
MutAllOk(chunks) == \E i \in DOMAIN chunks : chunks[i].state = "ok"
(* Promise.all over the chunks. *)
AllOk(chunks) == \A i \in DOMAIN chunks : chunks[i].state = "ok"
AnyFailed(chunks) == \E i \in DOMAIN chunks : chunks[i].state = "failed"

(* What the dispatcher assembles: typed calls read the output buffer,      *)
(* others the replies.  A typed call's reply has no output, so that        *)
(* assembling it throws.                                                   *)
Assembled(c, chunks) == [i \in Chunks(c) |->
    IF c \notin Typed THEN chunks[i].from
    ELSE IF <<c, i>> \in computed THEN c ELSE None]
AssemblyThrows(c, chunks) ==
    c \notin Typed /\ \E i \in Chunks(c) : chunks[i].from \in Typed

(* Mutant: the buffers go back to the free list on a rejection too. *)
MutSettle(c, chunks) ==
    /\ chunk' = [chunk EXCEPT ![c] = chunks]
    /\ UNCHANGED <<sabs, made>>
    /\ IF promise[c] # "pending" \/ ~(AllOk(chunks) \/ AnyFailed(chunks))
       THEN UNCHANGED <<promise, result, sabPool, tainted>>
       ELSE /\ promise' = [promise EXCEPT ![c] =
                              IF AnyFailed(chunks) THEN "rejected" ELSE "resolved"]
            /\ tainted' = (tainted \/ AnyFailed(chunks))
            /\ result' = [result EXCEPT ![c] = Assembled(c, chunks)]
            /\ sabPool' = Returned(sabs[c])

Settle(c, chunks) ==
    /\ chunk' = [chunk EXCEPT ![c] = chunks]
    /\ IF promise[c] # "pending" \/ ~(AllOk(chunks) \/ AnyFailed(chunks))
       THEN UNCHANGED <<promise, result, sabVars, tainted>>
       ELSE IF AnyFailed(chunks) \/ AssemblyThrows(c, chunks)
       THEN /\ promise' = [promise EXCEPT ![c] = "rejected"]
            /\ tainted' = TRUE
            /\ UNCHANGED <<result, sabVars>>
       ELSE /\ promise' = [promise EXCEPT ![c] = "resolved"]
            /\ result' = [result EXCEPT ![c] = Assembled(c, chunks)]
            /\ sabPool' = Returned(sabs[c])
            /\ UNCHANGED <<sabs, made, tainted>>

(* onmessage and onerror of the entry. *)
Deliver(w) ==
    /\ w[1] = gen /\ replies[w] # <<>>
    /\ replies' = [replies EXCEPT ![w] = Tail(@)]
    /\ holder' = [holder EXCEPT ![w] = None]
    /\ refd' = [refd EXCEPT ![w] = FALSE]
    /\ LET c == holder[w]
           r == Head(replies[w])
       IN IF c = None
          THEN UNCHANGED <<chunk, promise, result, sabVars, tainted>>
          ELSE Settle(c, [chunk[c] EXCEPT ![w[2]] = IF r.ok THEN Done(r.call) ELSE Failed])
    /\ UNCHANGED <<gen, size, thread, executing, computed>>

(* The promises of calls in flight are left as they are. *)
DisposeWorkers ==
    /\ gen < MaxGens
    /\ Client = "overlapping" \/ Pending = {}
    /\ gen' = gen + 1
    /\ size' = 0
    /\ tainted' = FALSE
    /\ UNCHANGED <<holder, refd, workerVars, chunk, promise, result, sabVars>>

-----------------------------------------------------------------------------
(* The worker threads.  terminate() is asynchronous: a worker of an older  *)
(* generation may still finish a chunk, but its reply is never handled.    *)
(* Async functions finish in any order.                                    *)

Finishes(w, c) ==
    /\ c \in executing[w] \ Unparsable
    /\ executing' = [executing EXCEPT ![w] = @ \ {c}]
    /\ \E ok \in {TRUE} \cup (IF c \in Throwing THEN {FALSE} ELSE {}) :
        /\ computed' = IF ok THEN computed \cup {<<c, w[2]>>} ELSE computed
        /\ replies' = [replies EXCEPT ![w] = Append(@, [call |-> c, ok |-> ok])]
    /\ UNCHANGED <<poolVars, holder, refd, thread, chunk, promise, result, sabVars>>

(* The source is evaluated outside the handler's try: the rejection is     *)
(* unhandled, posts an error event and ends the thread.                    *)
Dies(w, c) ==
    /\ c \in executing[w] \cap Unparsable
    /\ thread' = [thread EXCEPT ![w] = "died"]
    /\ executing' = [executing EXCEPT ![w] = {}]
    /\ replies' = [replies EXCEPT ![w] = Append(@, [call |-> c, ok |-> FALSE])]
    /\ UNCHANGED <<poolVars, holder, refd, computed, chunk, promise, result, sabVars>>

Closes(w) ==
    /\ thread[w] = "died" /\ replies[w] = <<>>
    /\ thread' = [thread EXCEPT ![w] = "closed"]
    /\ UNCHANGED <<poolVars, holder, refd, executing, replies, computed, chunk,
                   promise, result, sabVars>>

-----------------------------------------------------------------------------
Next ==
    \/ \E c \in Calls : Start(c)
    \/ \E w \in Workers : Deliver(w) \/ Closes(w)
    \/ \E w \in Workers, c \in Calls : Finishes(w, c) \/ Dies(w, c)
    \/ DisposeWorkers

(* Functions return, and the event loop delivers. *)
Fairness == \A w \in Workers :
    /\ WF_vars(Deliver(w))
    /\ WF_vars(\E c \in Calls : Finishes(w, c) \/ Dies(w, c))

Spec == Init /\ [][Next]_vars /\ Fairness

-----------------------------------------------------------------------------
(* Every variable has the shape its declaration says; the free list keeps  *)
(* to its cap.                                                             *)
TypeOK ==
    /\ gen \in 1..MaxGens /\ size \in Nat
    /\ holder \in [Workers -> Calls \cup {None}]
    /\ refd \in [Workers -> BOOLEAN]
    /\ thread \in [Workers -> {"running", "died", "closed"}]
    /\ executing \in [Workers -> SUBSET Calls]
    /\ promise \in [Calls -> {"uncalled", "pending", "resolved", "rejected"}]
    /\ sabs \in [Calls -> SUBSET Sabs]
    /\ sabPool \in SUBSET Sabs /\ Cardinality(sabPool) <= SabPoolMax
    /\ made \in 0..(2 * Cardinality(Calls))
    /\ tainted \in BOOLEAN

(* A call resolves with the output of its own function on every chunk. *)
OwnResult == \A c \in Calls : promise[c] = "resolved" =>
    \A i \in Chunks(c) : result[c][i] = c

(* No buffer a worker may still write to is free or lent to another call,  *)
(* terminated workers included.                                            *)
SabExclusive == \A c \in UNION {executing[w] : w \in Workers} :
    sabs[c] \cap (sabPool \cup UNION {sabs[d] : d \in Pending \ {c}}) = {}

(* A worker that holds a chunk of the current pool keeps the process       *)
(* alive, so that it cannot exit in the middle of a call.                  *)
InFlightIsRefed == \A w \in Workers :
    w[1] = gen /\ executing[w] # {} => refd[w]

(* Awaiting a call is a barrier: when a call starts, the workers it uses   *)
(* have finished all they were given before.                               *)
AwaitIsBarrier == [][\A c \in Calls :
    promise[c] = "uncalled" /\ promise'[c] # "uncalled" =>
        \A w \in Mine(c) : executing[w] = {} /\ replies[w] = <<>>]_vars

=============================================================================
