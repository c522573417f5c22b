---------------------------- MODULE MCProcessor -----------------------------
(* Processor.tla for TLC: an edge that is reported twice, and another one.   *)
EXTENDS Processor, TLC

CONSTANTS c1, c2, c3, e1, e2

MCEdgeOf == (c1 :> e1) @@ (c2 :> e1) @@ (c3 :> e2)
=============================================================================
