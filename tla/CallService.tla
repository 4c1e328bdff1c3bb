----------------------------- MODULE CallService -----------------------------
(***************************************************************************)
(* What pool() of src/js/bun/parallel.ts promises its caller, without      *)
(* workers, ids or queues: run() returns a promise that settles at most    *)
(* once, with the result of that very call or with a rejection; dispose()  *)
(* rejects at one stroke every call still waiting, and each later run().   *)
(***************************************************************************)
CONSTANTS Calls, NoCall

VARIABLES promise, answer, disposed

vars == <<promise, answer, disposed>>

Init == /\ promise = [c \in Calls |-> "uncalled"]
        /\ answer = [c \in Calls |-> NoCall]
        /\ disposed = FALSE

Waiting == {c \in Calls : promise[c] = "waiting"}

(* run(): the call waits, or is rejected at once; a disposed pool rejects. *)
Submit(c) ==
    /\ promise[c] = "uncalled"
    /\ \E st \in {"waiting", "rejected"} :
        /\ disposed => st = "rejected"
        /\ promise' = [promise EXCEPT ![c] = st]
    /\ UNCHANGED <<answer, disposed>>

Resolve(c) ==
    /\ c \in Waiting
    /\ promise' = [promise EXCEPT ![c] = "resolved"]
    /\ answer' = [answer EXCEPT ![c] = c]
    /\ UNCHANGED disposed

(* A failure may take several calls with it. *)
RejectSome(S) ==
    /\ S \subseteq Waiting /\ S # {}
    /\ promise' = [c \in Calls |-> IF c \in S THEN "rejected" ELSE promise[c]]
    /\ UNCHANGED <<answer, disposed>>

Dispose ==
    /\ ~disposed
    /\ disposed' = TRUE
    /\ promise' = [c \in Calls |-> IF c \in Waiting THEN "rejected" ELSE promise[c]]
    /\ UNCHANGED answer

Next == \/ \E c \in Calls : Submit(c) \/ Resolve(c)
        \/ \E S \in SUBSET Calls : RejectSome(S)
        \/ Dispose

Spec == Init /\ [][Next]_vars
=============================================================================
