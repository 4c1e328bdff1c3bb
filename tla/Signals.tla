------------------------------- MODULE Signals -------------------------------
(***************************************************************************)
(* The reactive core of @lyku/para-signals, src/js/bun/signals.ts: state   *)
(* signals, derived (computed) signals, effects, batch() and flush().      *)
(*                                                                         *)
(* Everything is synchronous and re-entrant: set() notifies, notification  *)
(* flushes, a flush runs effects, and an effect may set, create, dispose   *)
(* or batch before it returns.  The call stack is therefore part of the    *)
(* state.  User code is the most general client the constants allow: its   *)
(* frames pick the next operation freely, return, or throw.  Compute       *)
(* functions only read, return or throw.                                   *)
(*                                                                         *)
(* A computed value is what its function read: the strongest function of   *)
(* its inputs.  A signal's _subs is the inverse of its readers' _deps, so  *)
(* only deps is kept.  The order in which subscribers are marked and a     *)
(* snapshot is drained is left open.                                       *)
(***************************************************************************)
EXTENDS Naturals, Sequences, FiniteSets, SequencesExt

CONSTANTS
    States,     \* state signals
    Computeds,  \* derived signals
    Effects,    \* effects
    Values,     \* values of a state signal
    InitValue,  \* the value every state signal starts with
    Reads,      \* node |-> the signals its function may read
    Writes,     \* effect |-> the state signals its function may set
    Owns,       \* effect |-> the effects its function may create or dispose
    Throws,     \* nodes whose function may throw
    None,       \* no current target
    MaxOps      \* bound on the set, dispose, batch and throw operations

Signals == States \cup Computeds
Nodes == Computeds \cup Effects

ASSUME KindsAssumption ==
    /\ States \cap Nodes = {} /\ Computeds \cap Effects = {}
    /\ None \notin Signals \cup Nodes
ASSUME ProgramAssumption ==
    /\ InitValue \in Values /\ MaxOps \in Nat
    /\ Reads \in [Nodes -> SUBSET Signals]
    /\ Writes \in [Effects -> SUBSET States]
    /\ Owns \in [Effects -> SUBSET Effects]
    /\ Throws \subseteq Nodes

VARIABLES
    val,            \* state signal |-> _value
    dirty,          \* computed |-> _dirty
    cached,         \* computed |-> _cached
    deps,           \* node |-> _deps
    seen,           \* node |-> the signals its last run read, with their values
    live,           \* effect |-> "new", "live", "disposed"
    scheduled,      \* effect |-> _scheduled
    running,        \* effect |-> _running
    cleanup,        \* effect |-> it holds a cleanup function
    handles,        \* the effects whose disposer effect() has returned
    pending,        \* pendingEffects
    batchDepth,
    currentTarget,
    stack,          \* the frames under execution, innermost first
    throwing,       \* an exception is propagating
    thrown,         \* history: an exception has been thrown
    ops             \* operations used so far

effectVars == <<live, scheduled, running, cleanup, handles, pending>>
computedVars == <<dirty, cached>>
exceptionVars == <<throwing, thrown>>
vars == <<val, dirty, cached, deps, seen, live, scheduled, running, cleanup,
          handles, pending, batchDepth, currentTarget, stack, throwing, thrown,
          ops>>

Frame(kind, who, todo, rethrow) ==
    [kind |-> kind, who |-> who, prev |-> currentTarget, todo |-> todo,
     rethrow |-> rethrow]
FlushFrame == Frame("flush", None, {}, FALSE)
Push(f) == stack' = <<f>> \o stack
Top == Head(stack)
AtRest == stack = <<>> /\ ~throwing

(* User code runs at top level and in the frames of functions it wrote. *)
UserTurn == ~throwing /\ (stack # <<>> => Top.kind # "flush")
(* The effect or computed whose function is executing, None at top level. *)
Body == LET user == {i \in DOMAIN stack : stack[i].kind \in {"effect", "compute"}}
        IN IF user = {} THEN None
           ELSE stack[CHOOSE i \in user : \A j \in user : i <= j].who
MayWrite(s) == Body # None => Body \in Effects /\ s \in Writes[Body]
MayOwn(e) == Body # None => Body \in Effects /\ e \in Owns[Body]
MayRead(x) == Body # None => x \in Reads[Body]
MayBatch == Body \notin Computeds
Op == ops < MaxOps /\ ops' = ops + 1

Value(x) == IF x \in States THEN val[x] ELSE cached[x]
Nothing == [x \in {} |-> None]
With(f, x, v) == [y \in DOMAIN f \cup {x} |-> IF y = x THEN v ELSE f[y]]

Init ==
    /\ val = [s \in States |-> InitValue]
    /\ dirty = [c \in Computeds |-> TRUE]
    /\ cached = [c \in Computeds |-> Nothing]
    /\ deps = [n \in Nodes |-> {}]
    /\ seen = [n \in Nodes |-> Nothing]
    /\ live = [e \in Effects |-> "new"]
    /\ scheduled = [e \in Effects |-> FALSE]
    /\ running = [e \in Effects |-> FALSE]
    /\ cleanup = [e \in Effects |-> FALSE]
    /\ handles = {}
    /\ pending = {}
    /\ batchDepth = 0
    /\ currentTarget = None
    /\ stack = <<>>
    /\ throwing = FALSE /\ thrown = FALSE
    /\ ops = 0

-----------------------------------------------------------------------------
(* get(): the current target tracks x, then peek() recomputes it if dirty. *)

Track(x) == IF currentTarget = None THEN deps
            ELSE [deps EXCEPT ![currentTarget] = @ \cup {x}]

GetClean(x) ==
    /\ UserTurn /\ MayRead(x)
    /\ currentTarget # None \* a read outside any function leaves no trace
    /\ x \in Computeds => ~dirty[x]
    /\ deps' = Track(x)
    /\ seen' = [seen EXCEPT ![currentTarget] = With(@, x, Value(x))]
    /\ UNCHANGED <<val, computedVars, effectVars, batchDepth, currentTarget,
                   stack, exceptionVars, ops>>

(* _recompute() drops the old dependencies and runs the compute function. *)
GetDirty(x) ==
    /\ UserTurn /\ MayRead(x)
    /\ x \in Computeds /\ dirty[x]
    /\ deps' = [Track(x) EXCEPT ![x] = {}]
    /\ seen' = [seen EXCEPT ![x] = Nothing]
    /\ currentTarget' = x
    /\ Push(Frame("compute", x, {}, FALSE))
    /\ UNCHANGED <<val, computedVars, effectVars, batchDepth, exceptionVars, ops>>

ComputeReturns ==
    /\ ~throwing /\ stack # <<>> /\ Top.kind = "compute"
    /\ LET me == Top.who
       IN /\ cached' = [cached EXCEPT ![me] = seen[me]]
          /\ dirty' = [dirty EXCEPT ![me] = FALSE]
          /\ seen' = IF Top.prev = None THEN seen
                     ELSE [seen EXCEPT ![Top.prev] = With(@, me, seen[me])]
    /\ currentTarget' = Top.prev
    /\ stack' = Tail(stack)
    /\ UNCHANGED <<val, deps, effectVars, batchDepth, exceptionVars, ops>>

-----------------------------------------------------------------------------
(* set() and _markDirty().  M is the set of clean computeds the mark of s  *)
(* reaches, directly or through one another.                               *)

Readers(S) == {n \in Nodes : deps[n] \cap S # {}}
(* Mutant: only the signal's own readers are marked. *)
MutClosed(M, s) == {c \in Computeds : c \in Readers({s}) /\ ~dirty[c]} \subseteq M
Closed(M, s) == {c \in Computeds : c \in Readers(M \cup {s}) /\ ~dirty[c]} \subseteq M
Marked(M, s) == Closed(M, s) /\ \A N \in SUBSET M : Closed(N, s) => N = M

(* EffectImpl._markDirty ignores an effect that runs or is scheduled. *)
Schedulable(e) == live[e] = "live" /\ ~running[e] /\ ~scheduled[e]

(* Mutant: _notify() flushes in a batch too. *)
MutNotifies(s) == Readers({s}) # {}
(* _notify() flushes at once outside any batch. *)
Notifies(s) == Readers({s}) # {} /\ batchDepth = 0

Set(s, v) ==
    /\ UserTurn /\ MayWrite(s)
    /\ Op
    /\ v # val[s]
    /\ val' = [val EXCEPT ![s] = v]
    /\ \E M \in SUBSET Computeds :
        /\ Marked(M, s)
        /\ dirty' = [c \in Computeds |-> dirty[c] \/ c \in M]
        /\ LET E == {e \in Effects \cap Readers(M \cup {s}) : Schedulable(e)}
           IN /\ scheduled' = [e \in Effects |-> scheduled[e] \/ e \in E]
              /\ pending' = pending \cup E
    /\ IF Notifies(s) THEN Push(FlushFrame)
       ELSE UNCHANGED stack
    /\ UNCHANGED <<cached, deps, seen, live, running, cleanup, handles, batchDepth,
                   currentTarget, exceptionVars>>

-----------------------------------------------------------------------------
(* flush(): snapshot pendingEffects, run each, until none is pending.      *)

FlushSnapshots ==
    /\ ~throwing /\ stack # <<>> /\ Top.kind = "flush" /\ Top.todo = {}
    /\ pending # {}
    /\ pending' = {}
    /\ stack' = <<[Top EXCEPT !.todo = pending]>> \o Tail(stack)
    /\ UNCHANGED <<val, computedVars, deps, seen, live, scheduled, running,
                   cleanup, handles, batchDepth, currentTarget, exceptionVars, ops>>

FlushReturns ==
    /\ ~throwing /\ stack # <<>> /\ Top.kind = "flush" /\ Top.todo = {}
    /\ pending = {}
    /\ throwing' = Top.rethrow
    /\ stack' = Tail(stack)
    /\ UNCHANGED <<val, computedVars, deps, seen, effectVars, batchDepth,
                   currentTarget, thrown, ops>>

(* Mutant: _run() leaves _scheduled set. *)
MutRunFrom(e, rest) ==
    /\ UNCHANGED scheduled
    /\ running' = [running EXCEPT ![e] = TRUE]
    /\ cleanup' = [cleanup EXCEPT ![e] = FALSE]
    /\ deps' = [deps EXCEPT ![e] = {}]
    /\ seen' = [seen EXCEPT ![e] = Nothing]
    /\ currentTarget' = e
    /\ stack' = <<Frame("effect", e, {}, FALSE)>> \o rest

(* _run() from the caller's rest of the stack: the old cleanup is called,  *)
(* the old dependencies dropped, the function entered.                     *)
RunFrom(e, rest) ==
    /\ scheduled' = [scheduled EXCEPT ![e] = FALSE]
    /\ running' = [running EXCEPT ![e] = TRUE]
    /\ cleanup' = [cleanup EXCEPT ![e] = FALSE]
    /\ deps' = [deps EXCEPT ![e] = {}]
    /\ seen' = [seen EXCEPT ![e] = Nothing]
    /\ currentTarget' = e
    /\ stack' = <<Frame("effect", e, {}, FALSE)>> \o rest

(* Mutant: neither flush() nor _run() tests _disposed. *)
MutRunnable(e) == ~running[e]
Runnable(e) == live[e] = "live" /\ ~running[e]

FlushRuns(e) ==
    /\ ~throwing /\ stack # <<>> /\ Top.kind = "flush" /\ e \in Top.todo
    /\ Runnable(e)
    /\ RunFrom(e, <<[Top EXCEPT !.todo = @ \ {e}]>> \o Tail(stack))
    /\ UNCHANGED <<val, computedVars, live, handles, pending, batchDepth, exceptionVars, ops>>

FlushSkips(e) ==
    /\ ~throwing /\ stack # <<>> /\ Top.kind = "flush" /\ e \in Top.todo
    /\ ~Runnable(e)
    /\ stack' = <<[Top EXCEPT !.todo = @ \ {e}]>> \o Tail(stack)
    /\ UNCHANGED <<val, computedVars, deps, seen, effectVars, batchDepth,
                   currentTarget, exceptionVars, ops>>

-----------------------------------------------------------------------------
(* effect(): the constructor runs the function at once, batch or not; the  *)
(* disposer exists once that first run has returned.                       *)
CreateEffect(e) ==
    /\ UserTurn /\ MayOwn(e)
    /\ live[e] = "new"
    /\ live' = [live EXCEPT ![e] = "live"]
    /\ RunFrom(e, stack)
    /\ UNCHANGED <<val, computedVars, handles, pending, batchDepth, exceptionVars, ops>>

Constructing == Len(stack) > 1 => stack[2].kind # "flush"

(* The function returns, with a cleanup function or without. *)
EffectReturns(withCleanup) ==
    /\ ~throwing /\ stack # <<>> /\ Top.kind = "effect"
    /\ cleanup' = [cleanup EXCEPT ![Top.who] = withCleanup]
    /\ running' = [running EXCEPT ![Top.who] = FALSE]
    /\ handles' = IF Constructing THEN handles \cup {Top.who} ELSE handles
    /\ currentTarget' = Top.prev
    /\ stack' = Tail(stack)
    /\ UNCHANGED <<val, computedVars, deps, seen, live, scheduled, pending,
                   batchDepth, exceptionVars, ops>>

Dispose(e) ==
    /\ UserTurn /\ MayOwn(e)
    /\ Op
    /\ live[e] = "live" /\ e \in handles
    /\ live' = [live EXCEPT ![e] = "disposed"]
    /\ cleanup' = [cleanup EXCEPT ![e] = FALSE]
    /\ deps' = [deps EXCEPT ![e] = {}]
    /\ pending' = pending \ {e}
    /\ UNCHANGED <<val, computedVars, seen, scheduled, running, handles, batchDepth,
                   currentTarget, stack, exceptionVars>>

BatchEnters ==
    /\ UserTurn /\ MayBatch
    /\ Op
    /\ batchDepth' = batchDepth + 1
    /\ Push(Frame("batch", None, {}, FALSE))
    /\ UNCHANGED <<val, computedVars, deps, seen, effectVars, currentTarget, exceptionVars>>

(* Mutant: batch() without its finally: a throw skips the decrement. *)
MutBatchLeaves ==
    /\ stack # <<>> /\ Top.kind = "batch"
    /\ batchDepth' = IF throwing THEN batchDepth ELSE batchDepth - 1
    /\ IF batchDepth = 1 /\ ~throwing
       THEN stack' = <<FlushFrame>> \o Tail(stack)
       ELSE stack' = Tail(stack)
    /\ UNCHANGED <<val, computedVars, deps, seen, effectVars, currentTarget,
                   exceptionVars, ops>>

(* The finally clause of batch(), after a return or during a throw. *)
BatchLeaves ==
    /\ stack # <<>> /\ Top.kind = "batch"
    /\ batchDepth' = batchDepth - 1
    /\ IF batchDepth = 1
       THEN /\ stack' = <<Frame("flush", None, {}, throwing)>> \o Tail(stack)
            /\ throwing' = FALSE
       ELSE stack' = Tail(stack) /\ UNCHANGED throwing
    /\ UNCHANGED <<val, computedVars, deps, seen, effectVars, currentTarget, thrown, ops>>

(* untrack() reads without a target; its finally clause restores it. *)
UntrackEnters ==
    /\ UserTurn /\ currentTarget # None
    /\ Op
    /\ currentTarget' = None
    /\ Push(Frame("untrack", None, {}, FALSE))
    /\ UNCHANGED <<val, computedVars, deps, seen, effectVars, batchDepth, exceptionVars>>

UntrackLeaves ==
    /\ ~throwing /\ stack # <<>> /\ Top.kind = "untrack"
    /\ currentTarget' = Top.prev
    /\ stack' = Tail(stack)
    /\ UNCHANGED <<val, computedVars, deps, seen, effectVars, batchDepth,
                   exceptionVars, ops>>

-----------------------------------------------------------------------------
(* Exceptions: thrown by a function, propagated through the finally        *)
(* clauses, caught by an enclosing function or by the top level.           *)

Throw ==
    /\ UserTurn /\ Body \in Throws
    /\ Op
    /\ throwing' = TRUE /\ thrown' = TRUE
    /\ UNCHANGED <<val, computedVars, deps, seen, effectVars, batchDepth,
                   currentTarget, stack>>

Unwinds ==
    /\ throwing /\ stack # <<>> /\ Top.kind # "batch"
    /\ currentTarget' = IF Top.kind = "flush" THEN currentTarget ELSE Top.prev
    /\ running' = IF Top.kind = "effect" THEN [running EXCEPT ![Top.who] = FALSE]
                  ELSE running
    /\ stack' = Tail(stack)
    /\ UNCHANGED <<val, computedVars, deps, seen, live, scheduled, cleanup,
                   handles, pending, batchDepth, exceptionVars, ops>>

Catches ==
    /\ throwing /\ (stack # <<>> => Top.kind \in {"effect", "batch", "untrack"})
    /\ throwing' = FALSE
    /\ UNCHANGED <<val, computedVars, deps, seen, effectVars, batchDepth,
                   currentTarget, stack, thrown, ops>>

-----------------------------------------------------------------------------
Next ==
    \/ \E x \in Signals : GetClean(x) \/ GetDirty(x)
    \/ ComputeReturns
    \/ \E s \in States, v \in Values : Set(s, v)
    \/ FlushSnapshots \/ FlushReturns
    \/ \E e \in Effects : FlushRuns(e) \/ FlushSkips(e)
    \/ \E e \in Effects : CreateEffect(e) \/ Dispose(e)
    \/ \E withCleanup \in BOOLEAN : EffectReturns(withCleanup)
    \/ BatchEnters \/ BatchLeaves \/ UntrackEnters \/ UntrackLeaves
    \/ Throw \/ Unwinds \/ Catches

Spec == Init /\ [][Next]_vars

-----------------------------------------------------------------------------
(* Glitch freedom: at every moment, in the middle of a flush or a batch    *)
(* included, a derived signal that is not marked dirty equals its function *)
(* of the current values, so that a read never sees a mix of old and new.  *)
DerivedNeverStale ==
    \A c \in Computeds : ~dirty[c] =>
        \A x \in DOMAIN cached[c] : /\ cached[c][x] = Value(x)
                                    /\ x \in Computeds => ~dirty[x]

(* An effect re-runs on any dep change: when the outermost call returns,   *)
(* every live effect has last run with the values its signals now have.    *)
SettlesUpToDate ==
    AtRest => \A e \in Effects : live[e] = "live" =>
        \A x \in DOMAIN seen[e] : /\ seen[e][x] = Value(x)
                                  /\ x \in Computeds => ~dirty[x]

(* So it is as long as nothing threw: no change is lost to nested flushes, *)
(* batches, disposals or effects created on the way.                       *)
EffectsUpToDate == ~thrown => SettlesUpToDate

(* When the outermost call has returned or thrown, nothing is left over:   *)
(* no pending effect, no open batch, no tracking target, nothing running.  *)
RestIsQuiet ==
    AtRest => /\ pending = {} /\ batchDepth = 0 /\ currentTarget = None
              /\ \A e \in Effects : ~running[e]

(* dispose() detaches for good, also when the effect waits in a snapshot:  *)
(* at rest a disposed effect subscribes to nothing and its last cleanup    *)
(* function has run.                                                       *)
DisposedIsDetached ==
    AtRest => \A e \in Effects : live[e] = "disposed" => deps[e] = {} /\ ~cleanup[e]

(* batch() coalesces: no effect re-runs before the outermost batch ends,   *)
(* and it runs once its writes have all been made.                         *)
BatchDefersRuns ==
    [][\A e \in Effects :
        live[e] = "live" /\ ~running[e] /\ running'[e] => batchDepth = 0]_vars
=============================================================================
