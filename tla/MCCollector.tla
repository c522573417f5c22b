---------------------------- MODULE MCCollector ----------------------------
(* Collector.tla for TLC: one flow more than a batch holds, two connections *)
(* of one flow, and one event that a filter matches.                        *)
EXTENDS Collector, TLC

CONSTANTS c1, c2, c3, c4, n1, k1, k2, k3

MCKeyOf == (c1 :> k1) @@ (c2 :> k2) @@ (c3 :> k3) @@ (c4 :> k1) @@ (n1 :> k1)
=============================================================================
