------------------------------ MODULE Pipeline ------------------------------
(***************************************************************************)
(* One Report call in the processor: each record becomes an event, both    *)
(* its ends are looked up in the workload cache, and the resulting edge is *)
(* dropped or handed to the deduper (Dedup.tla goes on from there).        *)
(*                                                                         *)
(* Enrich takes the cache's lock once per lookup, so informer handlers may *)
(* change any entry between two lookups of one record: the cache is        *)
(* changed freely here, between right entries, gaps and entries of an      *)
(* earlier holder.  Report handlers share nothing but that cache, so one   *)
(* is enough; a batch may be reported any number of times.                 *)
(*                                                                         *)
(* A workload is a namespace, a name and a kind.  All traffic is TCP.      *)
(***************************************************************************)
EXTENDS Sequences

CONSTANTS
  Address,     \* addresses of pods, nodes, Services and outside peers
  Infra,       \* loopback, link-local and AWS-reserved addresses
  UID,         \* pod UIDs
  Holder,      \* the identity of each address; None outside the cluster
  Former,      \* identities each address may still be cached with
  PodOf,       \* the workload of each pod UID
  L7,          \* the protocol declared for each address; None for none
  Conn,        \* connections (see Half)
  Rule,        \* the compiled ignore list
  Batch,       \* batches the collectors send: sequences of items
  Star,        \* "*" as a segment of an ignore rule
  Ephemeral,   \* a caller's source port
  Malformed,   \* a record toEvent rejects
  None

VARIABLES
  byIP, byUID, byPort, \* Cache
  todo,                \* records of the Report call not handled yet
  job                  \* the record Handle works on, None between two records

cache == <<byIP, byUID, byPort>>
vars == <<cache, todo, job>>

External(name) == [ns |-> "", name |-> name, kind |-> "external"]
IsExternal(w) == w.kind = "external"

-----------------------------------------------------------------------------
(* What the collectors report.                                             *)

\* ConnectionEvent.Canonical: accepted records are mirrored and swapped back.
Canonical(e) ==
  IF e.outbound THEN e
  ELSE [e EXCEPT !.src = e.dst, !.dst = e.src, !.sport = e.dport, !.dport = e.sport]

\* What the probe sees of connection c, dialled by "from" to "to" and accepted
\* at "at" (a Service's address is translated on the way), and what handle
\* attaches to it: a pod UID and a DNS name, to outbound records only.
Half(c, outbound, uid) ==
  Canonical(
    [src   |-> IF outbound THEN c.from ELSE c.at,
     dst   |-> IF outbound THEN c.to ELSE c.from,
     sport |-> IF outbound THEN Ephemeral ELSE c.port,
     dport |-> IF outbound THEN c.port ELSE Ephemeral,
     outbound |-> outbound,
     uid  |-> IF outbound THEN uid ELSE None,
     host |-> IF outbound THEN c.host ELSE None])

\* IsLoopback, IsSelfEdge, IsAWSReserved and IsLinkLocal.
Filtered(e) == e.src = e.dst \/ e.src \in Infra \/ e.dst \in Infra

\* The records of a connection that reach the processor.  Each end is traced
\* only in the cluster; the UID may be missing, or that of a process which had
\* the caller's pid before (PidCache.tla).
Item ==
  {[conn |-> c, ev |-> Half(c, outbound, uid)] :
     c \in Conn, outbound \in BOOLEAN, uid \in UID \cup {None}}
Traced(i) ==
  /\ ~Filtered(i.ev)
  /\ IF i.ev.outbound THEN Holder[i.conn.from] # None
     ELSE i.conn.at # None /\ Holder[i.conn.at] # None
Sent == {i \in Item : Traced(i)}

-----------------------------------------------------------------------------
(* The ignore list.                                                        *)

\* Compile rejects the rule that would match everything.
Compiles(rules) == \A r \in rules : ~(r.ns = Star /\ r.name = Star)

\* globToRegexp, for whole segments and literal ones.
Glob(g, s) == g = Star \/ g = s

ShouldIgnore(w) == \E r \in Rule : Glob(r.ns, w.ns) /\ Glob(r.name, w.name)

ShouldIgnoreCall(call) == ShouldIgnore(call.source) \/ ShouldIgnore(call.dest)

ASSUME PipelineAssumption ==
  /\ Compiles(Rule)
  /\ DOMAIN Holder = Address /\ DOMAIN L7 = Address /\ DOMAIN PodOf = UID
  /\ DOMAIN Former = Address
  /\ Batch \subseteq Seq(Sent \cup {Malformed})

\* Endpoints are addresses; only the cache's misses make outside identities.
ASSUME IdentityAssumption ==
  /\ \A c \in Conn : {c.from, c.to} \subseteq Address \cup Infra /\ c.at \in Address \cup {None}
  /\ None \notin Address
  /\ \A a \in Address : Holder[a] # None => ~IsExternal(Holder[a])
  /\ \A u \in UID : PodOf[u] # None

-----------------------------------------------------------------------------
Init ==
  /\ byIP = Holder /\ byUID = PodOf /\ byPort = L7
  /\ todo = <<>> /\ job = None

\* The ends of an edge for which a cache (ip, uid, port) has the right entries.
SettledEnds(e, ip, uid, port) ==
  {end \in {"source", "dest"} :
     IF end = "source"
     THEN ip[e.src] = Holder[e.src] /\ (e.uid # None => uid[e.uid] = PodOf[e.uid])
     ELSE ip[e.dst] = Holder[e.dst] /\ port[e.dst] = L7[e.dst]}

\* Upsert, Delete, UpsertUID, DeleteUID, UpsertPort and DeletePort by the
\* informer handlers.  An end does not stay settled across a wrong entry.
Cached ==
  /\ \/ /\ \E a \in Address : \E w \in Former[a] \cup {Holder[a], None} :
             w # byIP[a] /\ byIP' = [byIP EXCEPT ![a] = w]
        /\ UNCHANGED <<byUID, byPort>>
     \/ /\ \E u \in UID : \E w \in {PodOf[u], None} :
             w # byUID[u] /\ byUID' = [byUID EXCEPT ![u] = w]
        /\ UNCHANGED <<byIP, byPort>>
     \/ /\ \E a \in Address : \E p \in {L7[a], None} :
             p # byPort[a] /\ byPort' = [byPort EXCEPT ![a] = p]
        /\ UNCHANGED <<byIP, byUID>>
  /\ job' = IF job = None THEN None
            ELSE [job EXCEPT !.settled = @ \cap SettledEnds(job.item.ev, byIP', byUID', byPort')]
  /\ UNCHANGED todo

-----------------------------------------------------------------------------
(* Server.Report and Pipeline.Handle.                                      *)

Report(b) ==
  /\ todo = <<>> /\ job = None
  /\ todo' = b
  /\ UNCHANGED <<cache, job>>

\* Wrong on purpose: a bad record fails the call, and the collector sends the
\* batch again.
SkipInvalidFails ==
  /\ job = None /\ todo # <<>> /\ Head(todo) = Malformed
  /\ UNCHANGED vars

\* toEvent rejects the record: it is counted and the batch goes on.
SkipInvalid ==
  /\ job = None /\ todo # <<>> /\ Head(todo) = Malformed
  /\ todo' = Tail(todo)
  /\ UNCHANGED <<cache, job>>

WorkloadForIP(a) == IF byIP[a] # None THEN byIP[a] ELSE External(a)

\* Wrong on purpose: any source with a pod UID is looked up by UID.
NeedsUIDAlways(e, source) == e.uid # None

\* Only a node or an outside identity is refined by UID.
NeedsUID(e, source) == e.uid # None /\ (source.kind = "node" \/ IsExternal(source))

\* Enrich's first lookup, the source by its address.
EnrichSource ==
  /\ job = None /\ todo # <<>> /\ Head(todo) # Malformed
  /\ LET e == Head(todo).ev
         source == WorkloadForIP(e.src)
     IN  job' = [item |-> Head(todo),
                 at |-> IF NeedsUID(e, source) THEN "uid" ELSE "port",
                 source |-> source, l7 |-> None, dest |-> None,
                 settled |-> SettledEnds(e, byIP, byUID, byPort)]
  /\ todo' = Tail(todo)
  /\ UNCHANGED cache

At(stage) == job # None /\ job.at = stage
Ev == job.item.ev

EnrichUID ==
  /\ At("uid")
  /\ job' = [job EXCEPT !.at = "port",
               !.source = IF byUID[Ev.uid] # None THEN byUID[Ev.uid] ELSE @]
  /\ UNCHANGED <<cache, todo>>

EnrichPort ==
  /\ At("port")
  /\ job' = [job EXCEPT !.at = "dest", !.l7 = byPort[Ev.dst]]
  /\ UNCHANGED <<cache, todo>>

\* A destination unknown to the cluster takes the name its caller resolved.
Named(w, e) == IF IsExternal(w) /\ e.host # None THEN External(e.host) ELSE w

EnrichDest ==
  /\ At("dest")
  /\ job' = [job EXCEPT !.at = "decide", !.dest = Named(WorkloadForIP(Ev.dst), Ev)]
  /\ UNCHANGED <<cache, todo>>

Call == [source |-> job.source, dest |-> job.dest, port |-> Ev.dport, l7 |-> job.l7]

\* Wrong on purpose: the rule looks at the local end of an accepted socket.
IsReversedDuplicateLocal(e, call) == ~e.outbound /\ ~IsExternal(call.dest)

\* Wrong on purpose: every accepted record counts as a duplicate.
IsReversedDuplicateAll(e, call) == ~e.outbound

\* The caller's own node reports the call.
IsReversedDuplicate(e, call) == ~e.outbound /\ ~IsExternal(call.source)

Drop ==
  /\ At("decide")
  /\ IsReversedDuplicate(Ev, Call) \/ ShouldIgnoreCall(Call)
  /\ job' = None
  /\ UNCHANGED <<cache, todo>>

\* appProtocol: never empty, the L4 name where no protocol is declared.
AppProtocol(l7) == IF l7 # None THEN l7 ELSE "tcp"

\* The edge goes to the deduper; "out" is what a sink writes of it.
Hand ==
  /\ At("decide")
  /\ ~IsReversedDuplicate(Ev, Call) /\ ~ShouldIgnoreCall(Call)
  /\ job' = [job EXCEPT !.at = "handed"]
  /\ UNCHANGED <<cache, todo>>

Out == [Call EXCEPT !.l7 = AppProtocol(Call.l7)]

Return ==
  /\ At("handed")
  /\ job' = None
  /\ UNCHANGED <<cache, todo>>

Handle == EnrichSource \/ EnrichUID \/ EnrichPort \/ EnrichDest \/ Drop \/ Hand \/ Return

Next ==
  \/ Cached
  \/ \E b \in Batch : Report(b)
  \/ SkipInvalid
  \/ Handle

Spec == Init /\ [][Next]_vars

\* A handler that can run is run.
FairSpec == Spec /\ WF_vars(SkipInvalid \/ Handle)

-----------------------------------------------------------------------------
Identity ==
  {External(a) : a \in Address} \cup {External(c.host) : c \in {d \in Conn : d.host # None}}
    \cup ({Holder[a] : a \in Address} \ {None}) \cup (UNION {Former[a] : a \in Address})
    \cup {PodOf[u] : u \in UID}

Job ==
  [item : Sent, at : {"uid", "port", "dest", "decide", "handed"},
   source : Identity, l7 : {L7[a] : a \in Address} \cup {None},
   dest : Identity \cup {None}, settled : SUBSET {"source", "dest"}]

ASSUME NoneAssumption == None \notin Job

\* Types of all variables; an edge handed on is complete.
TypeOK ==
  /\ DOMAIN byIP = Address /\ DOMAIN byUID = UID /\ DOMAIN byPort = Address
  /\ \A a \in Address : byIP[a] \in Former[a] \cup {Holder[a], None}
  /\ \A u \in UID : byUID[u] \in {PodOf[u], None}
  /\ \A a \in Address : byPort[a] \in {L7[a], None}
  /\ todo \in Seq(Sent \cup {Malformed})
  /\ job \in Job \cup {None}
  /\ job # None /\ job.at \in {"decide", "handed"} => job.dest \in Identity

\* Who really called: the workload of the address, and behind a node's address
\* the pod whose UID came with the record.
TrueSource(i) ==
  LET w == Holder[i.conn.from]
  IN  IF w = None THEN External(i.conn.from)
      ELSE IF w.kind = "node" /\ i.ev.uid # None THEN PodOf[i.ev.uid] ELSE w

TrueDest(i) ==
  LET to == IF i.ev.outbound THEN i.conn.to ELSE i.conn.at
  IN  IF Holder[to] # None THEN Holder[to]
      ELSE External(IF i.conn.host # None THEN i.conn.host ELSE to)

TrueL7(i) == AppProtocol(L7[IF i.ev.outbound THEN i.conn.to ELSE i.conn.at])

\* Each end of a reported edge whose cache entries stayed right during the
\* handling is the true one, whatever happens to the other end in between: the
\* caller first, with the port it called, never displaced by a stale pod UID or
\* covered by a DNS name.  (Canonical, Enrich, WorkloadForIP)
TrueEnds ==
  At("handed") =>
    /\ Out.port = job.item.conn.port
    /\ "source" \in job.settled => Out.source = TrueSource(job.item)
    /\ "dest" \in job.settled =>
         Out.dest = TrueDest(job.item) /\ Out.l7 = TrueL7(job.item)

\* A record of an accepted connection is reported only for a caller the cache
\* does not know, so a call inside the cluster is not reported by both ends
\* unless the caller's entry was missing.  (IsReversedDuplicate)
NoMirror ==
  At("handed") /\ ~Ev.outbound =>
    /\ IsExternal(Out.source)
    /\ "source" \in job.settled => Holder[job.item.conn.from] = None

\* The only records that do not become edges are malformed ones, ones with an
\* ignored end, and those of calls the caller's own node reports.
NothingElseDropped ==
  [][(At("decide") /\ job' = None /\ job.settled = {"source", "dest"}) =>
       \/ ~Ev.outbound /\ Holder[job.item.conn.from] # None
       \/ ShouldIgnore(TrueSource(job.item)) \/ ShouldIgnore(TrueDest(job.item))]_vars

\* Every Report call returns: no record, malformed or not, holds up the batch.
Answered == (todo # <<>>) ~> (todo = <<>>)
=============================================================================
