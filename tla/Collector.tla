----------------------------- MODULE Collector -----------------------------
(***************************************************************************)
(* The node collector from the aggregator to the wire: three goroutines    *)
(* over one mutex-protected map and one bounded channel.                   *)
(*                                                                         *)
(*   reader   Collector.Run: reads an event, filters it, folds it into the *)
(*            aggregator and flushes when MaxBatch flows are held;         *)
(*   ticker   Collector.flushLoop: flushes every FlushInterval;            *)
(*   sender   Sender.Run: takes one batch at a time and retries it.        *)
(*                                                                         *)
(* A flow record is represented by the set of connections folded into it,  *)
(* and a batch, the aggregator or the queue by the union of its records,   *)
(* so the number of records in a set S of connections is the number of     *)
(* flow keys of S.  Record fields, timers' lengths, the backoff's doubling *)
(* and the `failing' log latch are left out: no guard reads them.          *)
(***************************************************************************)
EXTENDS Naturals, Sequences, FiniteSets

CONSTANTS
  Conn,        \* connection events that can arrive during a behaviour
  Noise,       \* those that fail to decode or match a node-local filter
  Key,         \* flow keys (flowKey: canonical endpoints, port, pod UID ...)
  KeyOf,       \* the flow key of each connection
  MaxBatch,    \* Config.MaxBatch
  QueueSize    \* capacity of Sender.queue

ASSUME ConnAssumption == IsFiniteSet(Conn) /\ Noise \subseteq Conn
ASSUME KeyAssumption  == KeyOf \in [Conn -> Key]
ASSUME SizeAssumption == MaxBatch \in Nat \ {0} /\ QueueSize \in Nat \ {0}

VARIABLES
  read,        \* connections read from the ring buffer so far
  filtered,    \* the ones dropped by the node-local pipeline
  agg,         \* Aggregator.flows
  pc,          \* where each flushing goroutine is
  out,         \* flush's `records': drained, not yet cut into a batch
  cur,         \* the batch a goroutine is inside Enqueue with
  queue,       \* Sender.queue, oldest first
  spc,         \* where the sender goroutine is
  inflight,    \* the batch inside Sender.send
  sent,        \* connections counted in RecordsSent
  dropped,     \* connections counted in RecordsDropped
  cancelled,   \* the process context is done
  closed       \* the probe is closed: Read returns ErrClosed

aggVars    == <<read, filtered, agg>>
flushVars  == <<pc, out, cur>>
senderVars == <<spc, inflight, sent>>
stopVars   == <<cancelled, closed>>
vars == <<aggVars, flushVars, queue, senderVars, dropped, stopVars>>

Flushers == {"reader", "ticker"}

Flows(S) == {KeyOf[c] : c \in S}

Init ==
  /\ read = {} /\ filtered = {} /\ agg = {}
  /\ pc = [f \in Flushers |-> "idle"]
  /\ out = [f \in Flushers |-> {}]
  /\ cur = [f \in Flushers |-> {}]
  /\ queue = <<>>
  /\ spc = "idle" /\ inflight = {} /\ sent = {}
  /\ dropped = {}
  /\ cancelled = FALSE /\ closed = FALSE

-----------------------------------------------------------------------------
(* The reader goroutine.                                                   *)

\* Collector.handle on an event that does not decode or that a filter matches.
HandleNoise(c) ==
  /\ pc["reader"] = "idle" /\ ~closed
  /\ c \in Noise \ read
  /\ read' = read \cup {c}
  /\ filtered' = filtered \cup {c}
  /\ UNCHANGED <<agg, flushVars, queue, senderVars, dropped, stopVars>>

\* Wrong on purpose: the reader flushes one flow too late.
MustFlushLate(n) == n > MaxBatch

\* Whether the number of flows Add returned makes handle call flush.
MustFlush(n) == n >= MaxBatch

\* Collector.handle on any other event: Aggregator.Add under its lock, and the
\* size check on what it returned.
Handle(c) ==
  /\ pc["reader"] = "idle" /\ ~closed
  /\ c \in Conn \ (Noise \cup read)
  /\ read' = read \cup {c}
  /\ agg' = agg \cup {c}
  /\ pc' = [pc EXCEPT !["reader"] =
              IF MustFlush(Cardinality(Flows(agg'))) THEN "drain" ELSE "idle"]
  /\ UNCHANGED <<filtered, out, cur, queue, senderVars, dropped, stopVars>>

\* Collector.Run returns once Read reports the closed ring buffer.
ReaderStop ==
  /\ pc["reader"] = "idle" /\ closed
  /\ pc' = [pc EXCEPT !["reader"] = "done"]
  /\ UNCHANGED <<aggVars, out, cur, queue, senderVars, dropped, stopVars>>

-----------------------------------------------------------------------------
(* The ticker goroutine: its select takes either ready case.               *)

Tick ==
  /\ pc["ticker"] = "idle"
  /\ pc' = [pc EXCEPT !["ticker"] = "drain"]
  /\ UNCHANGED <<aggVars, out, cur, queue, senderVars, dropped, stopVars>>

TickerStop ==
  /\ pc["ticker"] = "idle" /\ cancelled
  /\ pc' = [pc EXCEPT !["ticker"] = "done"]
  /\ UNCHANGED <<aggVars, out, cur, queue, senderVars, dropped, stopVars>>

-----------------------------------------------------------------------------
(* Collector.flush and Sender.Enqueue, run by either flusher.              *)

\* Wrong on purpose: the map is read but not replaced.
DrainKeeps(f) ==
  /\ pc[f] = "drain"
  /\ out' = [out EXCEPT ![f] = agg]
  /\ pc' = [pc EXCEPT ![f] = "cut"]
  /\ UNCHANGED <<aggVars, cur, queue, senderVars, dropped, stopVars>>

\* Aggregator.Drain: take the whole map under the lock.
Drain(f) ==
  /\ pc[f] = "drain"
  /\ out' = [out EXCEPT ![f] = agg]
  /\ agg' = {}
  /\ pc' = [pc EXCEPT ![f] = "cut"]
  /\ UNCHANGED <<read, filtered, cur, queue, senderVars, dropped, stopVars>>

\* flush's loop body: the next min(len(records), MaxBatch) records, in the
\* order the map happened to be ranged over.
Cut(f) ==
  /\ pc[f] = "cut" /\ out[f] # {}
  /\ \E K \in SUBSET Flows(out[f]) :
       /\ \/ K = Flows(out[f]) /\ Cardinality(K) <= MaxBatch
          \/ Cardinality(K) = MaxBatch
       /\ cur' = [cur EXCEPT ![f] = {c \in out[f] : KeyOf[c] \in K}]
       /\ out' = [out EXCEPT ![f] = {c \in @ : KeyOf[c] \notin K}]
  /\ pc' = [pc EXCEPT ![f] = "send"]
  /\ UNCHANGED <<aggVars, queue, senderVars, dropped, stopVars>>

\* Wrong on purpose: a one-shot timer where the code has a ticker.
FlushDoneOnce(f) ==
  /\ pc[f] = "cut" /\ out[f] = {}
  /\ pc' = [pc EXCEPT ![f] = IF f = "ticker" THEN "done" ELSE "idle"]
  /\ UNCHANGED <<aggVars, out, cur, queue, senderVars, dropped, stopVars>>

FlushDone(f) ==
  /\ pc[f] = "cut" /\ out[f] = {}
  /\ pc' = [pc EXCEPT ![f] = "idle"]
  /\ UNCHANGED <<aggVars, out, cur, queue, senderVars, dropped, stopVars>>

\* Wrong on purpose: a plain channel send, which blocks while the queue is full.
TrySendBlocking(f) ==
  /\ pc[f] = "send"
  /\ Len(queue) < QueueSize
  /\ queue' = Append(queue, cur[f])
  /\ cur' = [cur EXCEPT ![f] = {}]
  /\ pc' = [pc EXCEPT ![f] = "cut"]
  /\ UNCHANGED <<aggVars, out, senderVars, dropped, stopVars>>

\* Enqueue's first select: send if there is room, otherwise go on to evict.
TrySend(f) ==
  /\ pc[f] = "send"
  /\ \/ /\ Len(queue) < QueueSize
        /\ queue' = Append(queue, cur[f])
        /\ cur' = [cur EXCEPT ![f] = {}]
        /\ pc' = [pc EXCEPT ![f] = "cut"]
     \/ /\ Len(queue) = QueueSize
        /\ pc' = [pc EXCEPT ![f] = "evict"]
        /\ UNCHANGED <<queue, cur>>
  /\ UNCHANGED <<aggVars, out, senderVars, dropped, stopVars>>

\* Enqueue's second select: drop whatever is at the head by now, if anything.
Evict(f) ==
  /\ pc[f] = "evict"
  /\ \/ /\ queue # <<>>
        /\ dropped' = dropped \cup Head(queue)
        /\ queue' = Tail(queue)
     \/ /\ queue = <<>>
        /\ UNCHANGED <<queue, dropped>>
  /\ pc' = [pc EXCEPT ![f] = "send"]
  /\ UNCHANGED <<aggVars, out, cur, senderVars, stopVars>>

-----------------------------------------------------------------------------
(* Sender.Run and Sender.send.                                             *)

SenderRecv ==
  /\ spc = "idle" /\ queue # <<>>
  /\ inflight' = Head(queue)
  /\ queue' = Tail(queue)
  /\ spc' = "call"
  /\ UNCHANGED <<aggVars, flushVars, sent, dropped, stopVars>>

SenderStop ==
  /\ spc = "idle" /\ cancelled
  /\ spc' = "done"
  /\ UNCHANGED <<aggVars, flushVars, queue, inflight, sent, dropped, stopVars>>

ReportOK ==
  /\ spc = "call"
  /\ sent' = sent \cup inflight
  /\ inflight' = {}
  /\ spc' = "idle"
  /\ UNCHANGED <<aggVars, flushVars, queue, dropped, stopVars>>

\* Report failed or timed out while the process is stopping: send returns.
ReportAborted ==
  /\ spc = "call" /\ cancelled
  /\ spc' = "done"
  /\ UNCHANGED <<aggVars, flushVars, queue, inflight, sent, dropped, stopVars>>

\* Wrong on purpose: the batch is counted dropped but the loop goes on with it.
ReportErrorNoReturn ==
  /\ spc = "call" /\ ~cancelled
  /\ \/ /\ Len(queue) = QueueSize
        /\ dropped' = dropped \cup inflight
     \/ /\ Len(queue) # QueueSize
        /\ UNCHANGED dropped
  /\ spc' = "backoff"
  /\ UNCHANGED <<aggVars, flushVars, queue, inflight, sent, stopVars>>

\* Wrong on purpose: the batch is given up without being counted.
ReportErrorUncounted ==
  /\ spc = "call" /\ ~cancelled
  /\ \/ /\ Len(queue) = QueueSize
        /\ inflight' = {}
        /\ spc' = "idle"
     \/ /\ Len(queue) # QueueSize
        /\ spc' = "backoff"
        /\ UNCHANGED inflight
  /\ UNCHANGED <<aggVars, flushVars, queue, dropped, sent, stopVars>>

\* Report failed or timed out: give the batch up once the queue is full.
ReportError ==
  /\ spc = "call" /\ ~cancelled
  /\ \/ /\ Len(queue) = QueueSize
        /\ dropped' = dropped \cup inflight
        /\ inflight' = {}
        /\ spc' = "idle"
     \/ /\ Len(queue) # QueueSize
        /\ spc' = "backoff"
        /\ UNCHANGED <<dropped, inflight>>
  /\ UNCHANGED <<aggVars, flushVars, queue, sent, stopVars>>

\* The backoff timer fires: the same batch is reported again.
Retry ==
  /\ spc = "backoff"
  /\ spc' = "call"
  /\ UNCHANGED <<aggVars, flushVars, queue, inflight, sent, dropped, stopVars>>

BackoffAborted ==
  /\ spc = "backoff" /\ cancelled
  /\ spc' = "done"
  /\ UNCHANGED <<aggVars, flushVars, queue, inflight, sent, dropped, stopVars>>

-----------------------------------------------------------------------------
(* Shutdown: a signal or a failing goroutine of the error group cancels the *)
(* context, and the group's closer then closes the probe.                  *)

Cancel ==
  /\ ~cancelled
  /\ cancelled' = TRUE
  /\ UNCHANGED <<aggVars, flushVars, queue, senderVars, dropped, closed>>

CloseSource ==
  /\ cancelled /\ ~closed
  /\ closed' = TRUE
  /\ UNCHANGED <<aggVars, flushVars, queue, senderVars, dropped, cancelled>>

-----------------------------------------------------------------------------
Flush(f) == Drain(f) \/ Cut(f) \/ FlushDone(f) \/ TrySend(f) \/ Evict(f)

Reader == (\E c \in Conn : HandleNoise(c) \/ Handle(c)) \/ ReaderStop
Ticker == Tick \/ TickerStop
Report == ReportOK \/ ReportError \/ ReportAborted
Sender == SenderRecv \/ SenderStop \/ Report \/ Retry \/ BackoffAborted

Next ==
  \/ Reader
  \/ Ticker
  \/ \E f \in Flushers : Flush(f)
  \/ Sender
  \/ Cancel
  \/ CloseSource

Spec == Init /\ [][Next]_vars

\* The Go scheduler runs every runnable goroutine, the ticker keeps firing, a
\* Report call returns within its timeout and a select that stays ready is
\* taken; nothing is assumed of the network or of the processor.  The strong
\* fairness is that of select, which picks uniformly among ready cases: a
\* goroutine that keeps finding ctx.Done ready takes it in the end.
GoFairness ==
  /\ \A f \in Flushers : WF_vars(Flush(f))
  /\ WF_vars(ReaderStop) /\ WF_vars(Tick) /\ SF_vars(TickerStop)
  /\ WF_vars(SenderRecv) /\ SF_vars(SenderStop)
  /\ WF_vars(Report) /\ WF_vars(Retry \/ BackoffAborted)
  /\ WF_vars(CloseSource)

FairSpec == Spec /\ GoFairness

-----------------------------------------------------------------------------
(* Properties.                                                             *)

QueueOf(q) == UNION {q[i] : i \in DOMAIN q}

PileName == {"filtered", "agg", "out reader", "out ticker", "cur reader",
             "cur ticker", "queue", "inflight", "sent", "dropped"}

Piles ==
  [p \in PileName |->
     CASE p = "filtered"   -> filtered
       [] p = "agg"        -> agg
       [] p = "out reader" -> out["reader"]
       [] p = "out ticker" -> out["ticker"]
       [] p = "cur reader" -> cur["reader"]
       [] p = "cur ticker" -> cur["ticker"]
       [] p = "queue"      -> QueueOf(queue)
       [] p = "inflight"   -> inflight
       [] p = "sent"       -> sent
       [] p = "dropped"    -> dropped]

\* Types of all variables.
TypeOK ==
  /\ read \subseteq Conn /\ filtered \subseteq Noise /\ agg \subseteq Conn
  /\ pc \in [Flushers -> {"idle", "drain", "cut", "send", "evict", "done"}]
  /\ out \in [Flushers -> SUBSET Conn]
  /\ cur \in [Flushers -> SUBSET Conn]
  /\ queue \in Seq(SUBSET Conn)
  /\ spc \in {"idle", "call", "backoff", "done"}
  /\ inflight \subseteq Conn /\ sent \subseteq Conn /\ dropped \subseteq Conn
  /\ cancelled \in BOOLEAN /\ closed \in BOOLEAN

Disjoint(P) == \A p, q \in DOMAIN P : p # q => P[p] \cap P[q] = {}

\* No connection is lost, duplicated, or counted twice between the reader, the
\* ticker and the sender: every connection read is in exactly one place, and
\* no two queued batches share one.  (handle, Add, Drain, flush, Enqueue, send)
Accounted ==
  /\ read = UNION {Piles[p] : p \in PileName}
  /\ Disjoint(Piles)
  /\ Disjoint(queue)

Fits(S) == Cardinality(Flows(S)) <= MaxBatch

\* An outage never costs node memory: the aggregator, each goroutine's drained
\* records, the batch being sent and every queued batch hold at most MaxBatch
\* records each, and at most QueueSize batches are queued, however the two
\* flushers and the sender interleave.
Bounded ==
  /\ Fits(agg) /\ Fits(inflight)
  /\ \A f \in Flushers : Fits(out[f] \cup cur[f])
  /\ Len(queue) <= QueueSize
  /\ \A i \in DOMAIN queue : Fits(queue[i])

\* A flush never takes more than one batch: the splitting loop of flush runs at
\* most once, because the reader drains before the map can exceed MaxBatch.
OneBatchPerFlush ==
  \A f \in Flushers : pc[f] \in {"send", "evict"} => out[f] = {} /\ cur[f] # {}

\* Every connection gets out of the aggregator and of the flushing goroutines,
\* whatever the sender and the processor do, since Enqueue never blocks: once no
\* more arrive, none is left behind for good.
Flushed ==
  <>[](cancelled \/ read = filtered \cup QueueOf(queue) \cup inflight \cup sent \cup dropped)

\* While the processor answers now and then (a batch retried for ever is
\* acknowledged in the end), every connection read is settled: acknowledged,
\* counted as dropped or filtered, unless the process stops.
Settled ==
  SF_vars(ReportOK) => <>[](cancelled \/ read = filtered \cup sent \cup dropped)

\* Cancellation stops all three goroutines, even when the queue is full and
\* nobody receives from it any more.
Stops ==
  cancelled ~> (pc = [f \in Flushers |-> "done"] /\ spc = "done")

\* The collector implements the delivery contract.
Contract == INSTANCE Delivery WITH accepted <- read \ filtered
ImplementsDelivery == Contract!Spec

=============================================================================
