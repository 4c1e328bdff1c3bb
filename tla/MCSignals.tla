------------------------------ MODULE MCSignals ------------------------------
(* Client programs for Signals: which signals each function may touch.     *)
EXTENDS Signals

CONSTANTS a, b, c, d, e1, e2

(* A diamond: d reads a directly and through c.  e1 sets b, which only the *)
(* other effect reads, so that writes from effects have an order.          *)
MCReads == (c :> {a}) @@ (d :> {a, c}) @@ (e1 :> {d}) @@ (e2 :> {b, c})
MCWrites == (e1 :> {b}) @@ (e2 :> {})
MCOwns == (e1 :> {e2}) @@ (e2 :> {})

(* The same effects without derived signals, each setting what the other   *)
(* reads.                                                                  *)
LoopReads == (e1 :> {a}) @@ (e2 :> {b})
LoopWrites == (e1 :> {b}) @@ (e2 :> {a})

(* Independent effects, and one that may dispose itself. *)
FlatReads == (e1 :> {a}) @@ (e2 :> {a})
NoEffects == (e1 :> {}) @@ (e2 :> {})
SelfOwns == (e1 :> {e1}) @@ (e2 :> {})
=============================================================================
