----------------------------- MODULE MCPipeline -----------------------------
(* Pipeline.tla for TLC.  A pod at a calls a Service at v, served by a pod   *)
(* at b; a host-network pod calls b from its node's address n; so does an    *)
(* outside peer at x, and an ignored agent at g.                             *)
EXTENDS Pipeline, TLC

CONSTANTS a, b, v, n, x, g, m, ua, uh, eph, bad

W(ns, name, kind) == [ns |-> ns, name |-> name, kind |-> kind]
Web   == W("shop", "web", "Deployment")
Cart  == W("shop", "cart", "StatefulSet")
Host  == W("mon", "exporter", "DaemonSet")
Agent == W("mon", "agent", "Deployment")
NodeN == W("", "node-1", "node")

MCHolder ==
  (a :> Web) @@ (b :> Cart) @@ (v :> Cart) @@ (n :> NodeN) @@ (g :> Agent) @@ (x :> None)
MCFormer == (a :> {}) @@ (b :> {Web}) @@ (v :> {}) @@ (n :> {}) @@ (g :> {}) @@ (x :> {})
MCPodOf == (ua :> Web) @@ (uh :> Host)
MCL7 == [addr \in {a, b, v, n, g, x} |-> IF addr = v THEN "http" ELSE None]

C(from, to, at, host) == [from |-> from, to |-> to, at |-> at, port |-> 80, host |-> host]
c1 == C(a, v, b, "cart.shop")
c2 == C(n, b, b, None)
c3 == C(x, b, b, None)
c4 == C(g, b, b, None)
c5 == C(a, x, None, "pay.example")
c6 == C(a, m, None, None)
MCConn == {c1, c2, c3, c4, c5, c6}

I(c, outbound, uid) == [conn |-> c, ev |-> Half(c, outbound, uid)]

\* What the two nodes send: with pids reused, without, and with a bad record.
MCBatch ==
  {<<I(c1, TRUE, uh), I(c2, TRUE, uh)>>, <<I(c2, TRUE, None), I(c5, TRUE, ua)>>,
   <<I(c1, FALSE, None), bad, I(c3, FALSE, None)>>, <<I(c4, TRUE, None)>>}
MCRule == {[ns |-> "mon", name |-> "agent"], [ns |-> "kube", name |-> Star]}
=============================================================================
