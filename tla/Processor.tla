----------------------------- MODULE Processor -----------------------------
(***************************************************************************)
(* The life of a processor: runProcessor's start, the goroutines of its    *)
(* error group, the Report handlers, the sinks and the shutdown.           *)
(*                                                                         *)
(* A call carries one edge.  How the edge is found is Pipeline.tla; the    *)
(* deduper is reduced to the set of edges it has recorded, within one      *)
(* window (Dedup.tla has the times).  The gRPC server, the Kafka client    *)
(* and errgroup are external.                                              *)
(***************************************************************************)
EXTENDS Naturals, FiniteSets

CONSTANTS
  Call,        \* Report calls
  EdgeOf,      \* the edge each call carries
  MaxBuffered  \* kafkaMaxBuffered

ASSUME BufferAssumption == MaxBuffered \in Nat

Edge == {EdgeOf[c] : c \in Call}

VARIABLES
  conf,        \* the configuration read at start
  main,        \* where runProcessor is
  group,       \* goroutines of the error group: "none", "run" or "done"
  istio,       \* the detached ServiceEntry resolver: "off", "enabled" or "run"
  cancelled,   \* the group's context
  cause,       \* what cancelled it: a signal, or the first member that failed
  synced,      \* Controller.syncedChan
  ready,       \* what /readyz reports
  server,      \* the gRPC server: "none", "open", "stopping", "stopped"
  stop,        \* the shutdown goroutine: "wait", "graceful", "drain", "flush", "done"
  call,        \* each Report call: "new", "allow", "log", "produce", "done"
  seen,        \* edges the deduper has recorded
  logged,      \* edges written to stdout
  kafka,       \* the Kafka client: "none", "unchecked", "open", "closed"
  buffer,      \* edges the producer holds
  acked,       \* edges a broker accepted
  counted      \* edges reported to onErr: buffer_full or produce

lifeVars == <<conf, main, group, istio, cancelled, cause, synced, ready, stop>>
sinkVars == <<logged, kafka, buffer, acked, counted>>
vars == <<lifeVars, server, call, seen, sinkVars>>

Member == {"telemetry", "resolver", "serve", "stopper", "sweep"}
Early  == {"telemetry", "resolver"}

\* What Load reads; a Kafka section that is on but fails its checks is "bad".
Conf == [stdout : BOOLEAN, kafka : {"off", "bad", "on"}]

Init ==
  /\ conf \in Conf
  /\ main = "load" /\ group = [m \in Member |-> "none"] /\ istio \in {"off", "enabled"}
  /\ cancelled = FALSE /\ cause = "none"
  /\ synced = FALSE /\ ready = FALSE
  /\ server = "none" /\ stop = "wait"
  /\ call = [c \in Call |-> "new"] /\ seen = {}
  /\ logged = {} /\ kafka = "none" /\ buffer = {} /\ acked = {} /\ counted = {}

-----------------------------------------------------------------------------
(* runProcessor.                                                           *)

\* EmitConfig.Validate
Valid(c) == (c.stdout \/ c.kafka # "off") /\ c.kafka # "bad"

Exit ==
  /\ main' = "exited"
  /\ UNCHANGED <<conf, group, istio, cancelled, cause, synced, ready, stop,
                 server, call, seen, sinkVars>>

\* The early returns: an invalid or unreadable file, a bad ignore rule, no
\* cluster configuration.
LoadFails == main = "load" /\ Exit

\* The telemetry server and the resolver start, and the ServiceEntry resolver
\* when it is enabled.
Load ==
  /\ main = "load" /\ Valid(conf)
  /\ main' = "sync"
  /\ group' = [m \in Member |-> IF m \in Early THEN "run" ELSE "none"]
  /\ istio' = IF istio = "enabled" THEN "run" ELSE "off"
  /\ UNCHANGED <<conf, cancelled, cause, synced, ready, stop, server, call, seen, sinkVars>>

\* The select on ctx.Done and syncDone.
AwaitCancelled ==
  /\ main = "sync" /\ cancelled
  /\ main' = "wait"
  /\ UNCHANGED <<conf, group, istio, cancelled, cause, synced, ready, stop,
                 server, call, seen, sinkVars>>

\* Wrong on purpose: the sinks and the server do not wait for the cache.
AwaitNothing ==
  /\ main = "sync"
  /\ main' = "sinks"
  /\ kafka' = IF conf.kafka = "on" THEN "unchecked" ELSE "none"
  /\ UNCHANGED <<conf, group, istio, cancelled, cause, synced, ready, stop,
                 server, call, seen, logged, buffer, acked, counted>>

AwaitSync ==
  /\ main = "sync" /\ synced
  /\ main' = "sinks"
  /\ kafka' = IF conf.kafka = "on" THEN "unchecked" ELSE "none"
  /\ UNCHANGED <<conf, group, istio, cancelled, cause, synced, ready, stop,
                 server, call, seen, logged, buffer, acked, counted>>

\* buildSinks: Kafka.Check fails, or its context is cancelled or times out; the
\* client is closed and runProcessor returns without waiting for the group.
BuildSinksFails ==
  /\ main = "sinks" /\ kafka = "unchecked"
  /\ main' = "exited" /\ kafka' = "closed"
  /\ UNCHANGED <<conf, group, istio, cancelled, cause, synced, ready, stop,
                 server, call, seen, logged, buffer, acked, counted>>

BuildSinks ==
  /\ main = "sinks"
  /\ main' = "listen"
  /\ kafka' = IF kafka = "unchecked" THEN "open" ELSE "none"
  /\ UNCHANGED <<conf, group, istio, cancelled, cause, synced, ready, stop,
                 server, call, seen, logged, buffer, acked, counted>>

ListenFails == main = "listen" /\ Exit

\* The server is created and the last three goroutines are spawned; none of
\* them has run yet.
Spawn ==
  /\ main = "listen"
  /\ main' = "ready"
  /\ group' = [m \in Member |-> IF m \in Early THEN group[m] ELSE "run"]
  /\ UNCHANGED <<conf, istio, cancelled, cause, synced, ready, stop,
                 server, call, seen, sinkVars>>

\* ready.Store(true): the shutdown goroutine may have stored false before.
StoreReady ==
  /\ main = "ready"
  /\ main' = "wait" /\ ready' = TRUE
  /\ UNCHANGED <<conf, group, istio, cancelled, cause, synced, stop,
                 server, call, seen, sinkVars>>

\* g.Wait returns once every goroutine of the group has.
Wait == main = "wait" /\ (\A m \in Member : group[m] # "run") /\ Exit

Main ==
  \/ LoadFails \/ Load \/ AwaitCancelled \/ AwaitSync \/ BuildSinksFails \/ BuildSinks
  \/ ListenFails \/ Spawn \/ StoreReady \/ Wait

-----------------------------------------------------------------------------
(* The error group.                                                        *)

Alive == main # "exited"

\* SIGTERM or SIGINT.
Signal ==
  /\ Alive /\ main # "load" /\ ~cancelled
  /\ cancelled' = TRUE /\ cause' = "signal"
  /\ UNCHANGED <<conf, main, group, istio, synced, ready, stop, server, call, seen, sinkVars>>

\* A member returns an error, which cancels the context for all: the metrics
\* address is taken, informers do not sync, accepting connections fails.
Fail(m) ==
  /\ Alive /\ m \in {"telemetry", "resolver", "serve"} /\ group[m] = "run"
  /\ m = "resolver" => ~synced
  /\ group' = [group EXCEPT ![m] = "done"]
  /\ cancelled' = TRUE /\ cause' = IF cause = "none" THEN m ELSE cause
  /\ UNCHANGED <<conf, main, istio, synced, ready, stop, server, call, seen, sinkVars>>

\* Controller.Run has synced the informers.
Sync ==
  /\ Alive /\ group["resolver"] = "run" /\ ~synced
  /\ synced' = TRUE
  /\ UNCHANGED <<conf, main, group, istio, cancelled, cause, ready, stop,
                 server, call, seen, sinkVars>>

\* Wrong on purpose: the metrics server does not watch the context.
LeaveNoTelemetry(m) ==
  /\ Alive /\ m \in {"resolver", "sweep"} /\ group[m] = "run" /\ cancelled
  /\ group' = [group EXCEPT ![m] = "done"]
  /\ UNCHANGED <<conf, main, istio, cancelled, cause, synced, ready, stop,
                 server, call, seen, sinkVars>>

\* telemetry.Serve, Controller.Run and sweepLoop return on cancellation.
Leave(m) ==
  /\ Alive /\ m \in {"telemetry", "resolver", "sweep"} /\ group[m] = "run" /\ cancelled
  /\ group' = [group EXCEPT ![m] = "done"]
  /\ UNCHANGED <<conf, main, istio, cancelled, cause, synced, ready, stop,
                 server, call, seen, sinkVars>>

\* Wrong on purpose: the ServiceEntry resolver is started in the group.
IstioStopsGroup ==
  /\ Alive /\ istio = "run"
  /\ istio' = "off"
  /\ cancelled' = TRUE /\ cause' = IF cause = "none" THEN "istio" ELSE cause
  /\ UNCHANGED <<conf, main, group, synced, ready, stop, server, call, seen, sinkVars>>

\* IstioController.Run fails (no CRD, no RBAC) or sees the cancellation; it is
\* not in the group.
IstioStops ==
  /\ Alive /\ istio = "run"
  /\ istio' = "off"
  /\ UNCHANGED <<conf, main, group, cancelled, cause, synced, ready, stop,
                 server, call, seen, sinkVars>>

\* srv.Serve: accepts calls, unless the server was stopped before it ran.
Serve ==
  /\ Alive /\ group["serve"] = "run" /\ server = "none"
  /\ server' = "open"
  /\ UNCHANGED <<lifeVars, call, seen, sinkVars>>

\* Serve returns once the server is stopping; an error when it had not started.
ServeReturns ==
  /\ Alive /\ group["serve"] = "run" /\ server \in {"stopping", "stopped"}
  /\ group' = [group EXCEPT !["serve"] = "done"]
  /\ UNCHANGED <<conf, main, istio, cancelled, cause, synced, ready, stop,
                 server, call, seen, sinkVars>>

-----------------------------------------------------------------------------
(* Report handlers and sinks.                                              *)

InFlight == {c \in Call : call[c] \in {"allow", "log", "produce"}}

Accept(c) ==
  /\ Alive /\ server = "open" /\ group["serve"] = "run" /\ call[c] = "new"
  /\ call' = [call EXCEPT ![c] = "allow"]
  /\ UNCHANGED <<lifeVars, server, seen, sinkVars>>

\* Deduper.Allow: a second sighting ends the handling.
Allow(c) ==
  /\ Alive /\ call[c] = "allow"
  /\ call' = [call EXCEPT ![c] = IF EdgeOf[c] \in seen THEN "done" ELSE "log"]
  /\ seen' = seen \cup {EdgeOf[c]}
  /\ UNCHANGED <<lifeVars, server, sinkVars>>

\* emit.Multi, stdout first.
Log(c) ==
  /\ Alive /\ call[c] = "log"
  /\ call' = [call EXCEPT ![c] = IF conf.kafka = "on" THEN "produce" ELSE "done"]
  /\ logged' = IF conf.stdout THEN logged \cup {EdgeOf[c]} ELSE logged
  /\ UNCHANGED <<lifeVars, server, seen, kafka, buffer, acked, counted>>

\* Wrong on purpose: an edge that does not fit is dropped without a word.
OverflowSilent(e) == counted

\* ErrMaxBuffered reaches the callback.
Overflow(e) == counted \cup {e}

\* The client takes a record while it is open and its buffer has room.
Fits == kafka = "open" /\ Cardinality(buffer) < MaxBuffered

\* Kafka.Emit, TryProduce: never blocks; a closed client fails the record.
Produce(c) ==
  /\ Alive /\ call[c] = "produce"
  /\ call' = [call EXCEPT ![c] = "done"]
  /\ buffer' = IF Fits THEN buffer \cup {EdgeOf[c]} ELSE buffer
  /\ counted' = IF Fits THEN counted ELSE Overflow(EdgeOf[c])
  /\ UNCHANGED <<lifeVars, server, seen, logged, kafka, acked>>

\* A broker accepts a record, or the client gives it up.
Ack(e) ==
  /\ Alive /\ kafka = "open" /\ e \in buffer
  /\ buffer' = buffer \ {e} /\ acked' = acked \cup {e}
  /\ UNCHANGED <<lifeVars, server, call, seen, logged, kafka, counted>>

Refuse(e) ==
  /\ Alive /\ kafka = "open" /\ e \in buffer
  /\ buffer' = buffer \ {e} /\ counted' = counted \cup {e}
  /\ UNCHANGED <<lifeVars, server, call, seen, logged, kafka, acked>>

-----------------------------------------------------------------------------
(* The shutdown goroutine.                                                 *)

\* Wrong on purpose: readiness is not withdrawn.
WithdrawNever ==
  /\ Alive /\ group["stopper"] = "run" /\ stop = "wait" /\ cancelled
  /\ stop' = "graceful"
  /\ UNCHANGED <<conf, main, group, istio, cancelled, cause, synced, ready, server,
                 call, seen, sinkVars>>

\* ready.Store(false).
Withdraw ==
  /\ Alive /\ group["stopper"] = "run" /\ stop = "wait" /\ cancelled
  /\ ready' = FALSE /\ stop' = "graceful"
  /\ UNCHANGED <<conf, main, group, istio, cancelled, cause, synced, server,
                 call, seen, sinkVars>>

\* GracefulStop closes the listeners and waits.
StopAccepting ==
  /\ Alive /\ stop = "graceful"
  /\ server' = "stopping" /\ stop' = "drain"
  /\ UNCHANGED <<conf, main, group, istio, cancelled, cause, synced, ready,
                 call, seen, sinkVars>>

\* GracefulStop returns: every handler has.
Drained ==
  /\ Alive /\ stop = "drain" /\ InFlight = {}
  /\ server' = "stopped" /\ stop' = "flush"
  /\ UNCHANGED <<conf, main, group, istio, cancelled, cause, synced, ready, call, seen, sinkVars>>

StopperDone ==
  /\ stop' = "done" /\ group' = [group EXCEPT !["stopper"] = "done"]
  /\ UNCHANGED <<conf, main, istio, cancelled, cause, synced, ready, server,
                 call, seen, logged, acked>>

\* Kafka.Close: Flush returns when nothing is buffered or when
\* kafkaFlushTimeout is over; the client then fails what is left.
CloseSink ==
  /\ Alive /\ stop = "flush"
  /\ kafka' = IF kafka = "open" THEN "closed" ELSE kafka
  /\ counted' = counted \cup buffer /\ buffer' = {}
  /\ StopperDone

Stopper == Withdraw \/ StopAccepting \/ Drained \/ CloseSink

-----------------------------------------------------------------------------
Handler(c) == Allow(c) \/ Log(c) \/ Produce(c)

Next ==
  \/ Main
  \/ Signal \/ (\E m \in Member : Fail(m) \/ Leave(m)) \/ Sync \/ IstioStops
  \/ Serve \/ ServeReturns
  \/ \E c \in Call : Accept(c) \/ Handler(c)
  \/ \E e \in Edge : Ack(e) \/ Refuse(e)
  \/ Stopper

Spec == Init /\ [][Next]_vars

\* Runnable goroutines run, and runProcessor's own steps are bounded by
\* timeouts; nothing is assumed of the cluster, the brokers or the clients.
FairSpec ==
  /\ Spec
  /\ WF_vars(Main) /\ WF_vars(Stopper)
  /\ WF_vars(Serve \/ ServeReturns)
  /\ \A m \in Member : WF_vars(Leave(m))
  /\ \A c \in Call : WF_vars(Handler(c))

-----------------------------------------------------------------------------
\* Types of all variables.
TypeOK ==
  /\ conf \in Conf
  /\ main \in {"load", "sync", "sinks", "listen", "ready", "wait", "exited"}
  /\ group \in [Member -> {"none", "run", "done"}] /\ istio \in {"off", "enabled", "run"}
  /\ cancelled \in BOOLEAN /\ synced \in BOOLEAN /\ ready \in BOOLEAN
  /\ cause \in {"none", "signal", "telemetry", "resolver", "serve"}
  /\ server \in {"none", "open", "stopping", "stopped"}
  /\ stop \in {"wait", "graceful", "drain", "flush", "done"}
  /\ call \in [Call -> {"new", "allow", "log", "produce", "done"}]
  /\ seen \subseteq Edge /\ logged \subseteq Edge
  /\ kafka \in {"none", "unchecked", "open", "closed"}
  /\ buffer \subseteq Edge /\ acked \subseteq Edge /\ counted \subseteq Edge

\* runProcessor's comments: the replica is announced only once the cache is warm
\* and the sinks are checked, and a record is handled only between that and the
\* closing of the sinks, since GracefulStop leaves no Handle call behind.
WarmOnly ==
  /\ ready => synced /\ kafka # "unchecked"
  /\ InFlight # {} => synced /\ (conf.kafka = "on" <=> kafka = "open")

\* No edge is lost silently: one the deduper has recorded is with a handler, or
\* was written to stdout, and is in the producer's buffer, accepted by a broker
\* or counted as failed, in one of these only, as the configuration says; and
\* the buffer never exceeds its limit.
NoSilentLoss ==
  /\ \A e \in seen :
       \/ \E c \in InFlight : EdgeOf[c] = e
       \/ /\ conf.stdout => e \in logged
          /\ conf.kafka = "on" => e \in buffer \cup acked \cup counted
  /\ buffer \cap acked = {} /\ buffer \cap counted = {} /\ acked \cap counted = {}
  /\ Cardinality(buffer) <= MaxBuffered

\* A processor that has begun to serve exits only after a signal or the failure
\* of a member of the group, never because the ServiceEntry resolver failed, and
\* leaves no call half handled and no edge in the buffer: everything the deduper
\* recorded was delivered or counted.
CleanExit ==
  main = "exited" /\ group["serve"] # "none" =>
    /\ cause \in {"signal", "telemetry", "resolver", "serve"}
    /\ InFlight = {} /\ buffer = {}
    /\ conf.stdout => seen \subseteq logged
    /\ conf.kafka = "on" => seen \subseteq acked \cup counted

\* A cancelled processor exits, whatever state it was in and even if no broker
\* ever answers and the informers never sync.
Exits == cancelled ~> main = "exited"

\* A replica that has announced itself withdraws before it turns calls away: once
\* the group is cancelled /readyz says no while the server still accepts.  (A
\* ready.Store(true) that comes after the shutdown's ready.Store(false) stays
\* until the processor exits; main = "wait" leaves it out.)
Withdrawn ==
  (ready /\ cancelled /\ stop = "wait" /\ main = "wait")
    ~> (~ready /\ Alive /\ server \in {"none", "open"})
=============================================================================
