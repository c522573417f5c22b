---------------------------- MODULE MCPodIndex -----------------------------
(* PodIndex.tla for TLC: a pod with an owner and one without, which may get  *)
(* the same address one after the other, and a host-network pod.            *)
EXTENDS PodIndex, TLC

CONSTANTS a, b, h, r1, n1, i1, i2, na

MCOwner == (a :> r1) @@ (b :> None) @@ (h :> None)
MCNodeIP == n1 :> na
MCHome == h :> n1
=============================================================================
