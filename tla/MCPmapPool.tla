----------------------------- MODULE MCPmapPool -----------------------------
(* Bounded instances of PmapPool.                                          *)
EXTENDS PmapPool, TLC

CONSTANTS c1, c2, c3

(* Two calls on two workers, one that uses only the first of them. *)
MCWidth == (c1 :> 2) @@ (c2 :> 2) @@ (c3 :> 1)
=============================================================================
