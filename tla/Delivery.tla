------------------------------ MODULE Delivery ------------------------------
(***************************************************************************)
(* What a collector promises about the connections it accepts, without     *)
(* saying how: a connection is accepted once, and leaves the node at most  *)
(* once, either acknowledged by the processor (sent) or counted as dropped.*)
(* internal/collector/sender.go calls this "an outage costs data, never    *)
(* node memory": losing data is allowed, losing track of it is not.        *)
(* Collector.tla is shown to implement this specification.                 *)
(***************************************************************************)
CONSTANT Conn           \* the connection events of a behaviour

VARIABLES accepted,     \* connections folded into the aggregator so far
          sent,         \* connections in a batch the processor acknowledged
          dropped       \* connections in a batch counted as dropped

vars == <<accepted, sent, dropped>>

Pending == accepted \ (sent \cup dropped)

Init == accepted = {} /\ sent = {} /\ dropped = {}

Accept(c) ==
  /\ c \in Conn \ accepted
  /\ accepted' = accepted \cup {c}
  /\ UNCHANGED <<sent, dropped>>

Deliver(batch) ==
  /\ batch # {}
  /\ batch \subseteq Pending
  /\ sent' = sent \cup batch
  /\ UNCHANGED <<accepted, dropped>>

Drop(batch) ==
  /\ batch # {}
  /\ batch \subseteq Pending
  /\ dropped' = dropped \cup batch
  /\ UNCHANGED <<accepted, sent>>

Next ==
  \/ \E c \in Conn : Accept(c)
  \/ \E batch \in SUBSET Conn : Deliver(batch)
  \/ \E batch \in SUBSET Conn : Drop(batch)

Spec == Init /\ [][Next]_vars
=============================================================================
