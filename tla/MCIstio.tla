------------------------------ MODULE MCIstio -------------------------------
(* Istio.tla for TLC.                                                        *)
EXTENDS Istio, TLC

CONSTANTS e1, e2, v1, v2, range, h1, h2

R(hosts, addresses, status) ==
  [hosts |-> hosts, addresses |-> addresses, status |-> status, other |-> "ports"]
A(ip, host) == [ip |-> ip, host |-> host]

\* An allocated VIP; two, one with a host of its own; a declared one among a
\* range; both sources for one VIP; nothing that can be bound.
MCRevision ==
  {R(<<h1>>, <<>>, <<A(v1, None)>>),
   R(<<h1, h2>>, <<>>, <<A(v1, h1), A(v2, h2)>>),
   R(<<h2>>, <<range, v2>>, <<>>),
   R(<<h1>>, <<v1>>, <<A(v1, h2)>>),
   R(<<>>, <<v1>>, <<A(v2, None)>>)}
=============================================================================
