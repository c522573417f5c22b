--------------------------- MODULE MCServiceIndex ---------------------------
(* ServiceIndex.tla for TLC.                                                *)
EXTENDS ServiceIndex, TLC

CONSTANTS s1, v1, e1, p1, p2, w1, w2

\* One endpoint; two endpoints of different workloads.
OneWorkload == p1 :> {w1}
TwoWorkloads == (p1 :> {w1}) @@ (p2 :> {w2})
=============================================================================
