---------------------------- MODULE ServiceIndex ----------------------------
(***************************************************************************)
(* The workload resolver's Service side: the Service and EndpointSlice     *)
(* handlers and the start-up pass reindexAllClusterIPs, which map each     *)
(* ClusterIP to the workload behind it and each ip:port to its protocol.   *)
(*                                                                         *)
(* Three goroutines run here: the Service informer's handlers, the slice   *)
(* informer's handlers and Controller.Run.  All three end in               *)
(* syncServiceClusterIPs, which reads two listers and the pod addresses    *)
(* (Derive) and only then takes the cache's lock (Write): other goroutines *)
(* run in between.  The pod handlers are PodIndex.tla; here the cache's    *)
(* pod addresses follow the cluster one by one, in any order.              *)
(*                                                                         *)
(* Every Service and slice has one port, and that port declares a          *)
(* recognised protocol: an entry without one is never indexed, so byPort   *)
(* is the set of indexed addresses.                                        *)
(***************************************************************************)
EXTENDS Naturals, Sequences, FiniteSets, SequencesExt

CONSTANTS
  Service,    \* Service names
  Slice,      \* EndpointSlice names
  Label,      \* what slices may be labelled with: Services, None for no label
  VIP,        \* ClusterIPs
  PodIP,      \* pod addresses
  Runs,       \* the pod-owned workloads whose pods may get each pod address
  MaxChanges, \* bound: changes of the cluster in a behaviour
  None

ASSUME ServiceAssumption ==
  /\ IsFiniteSet(Service) /\ IsFiniteSet(Slice)
  /\ VIP \cap PodIP = {} /\ None \notin VIP \cup PodIP
  /\ DOMAIN Runs = PodIP /\ \A ip \in PodIP : None \notin Runs[ip]
  /\ Label \subseteq Service \cup {None}
  /\ MaxChanges \in Nat

VARIABLES
  phase,   \* Controller.Run: "start", "synced", "reindex", "ready"
  svc,     \* Service indexer
  slice,   \* EndpointSlice indexer
  owner,   \* workload of the pod at each pod address, as the pod indexer has it
  pods,    \* Cache.byIP on pod addresses
  byIP,    \* Cache.byIP on ClusterIPs
  byPort,  \* Cache.byPort: the addresses that have an entry
  queue,   \* notifications waiting for the two kinds of handlers
  work,    \* what each goroutine is in the middle of
  changes  \* cluster changes since the informers listed

cluster == <<svc, slice, owner, changes>>
vars == <<phase, pods, byIP, byPort, queue, work, cluster>>

\* A deleted or not yet created object has live = FALSE.  A headless or
\* ExternalName Service has vip = None.
NoSvc   == [live |-> FALSE, vip |-> None]
NoSlice == [live |-> FALSE, of |-> None, ips |-> {}]
SvcObject   == [live : {TRUE}, vip : VIP \cup {None}] \cup {NoSvc}
SliceObject == [live : {TRUE}, of : Label, ips : SUBSET PodIP] \cup {NoSlice}

\* "svc" and "slice" are informer goroutines, "run" is Controller.Run.
Goroutine == {"svc", "slice", "run"}

\* Nothing to evict, no Service to sync, no derived mapping to write.
Idle == [evict |-> {}, todo |-> <<>>, out |-> None]

Workload == UNION {Runs[ip] : ip \in PodIP}
ServiceOf(s) == [kind |-> "Service", of |-> s]
Identity == Workload \cup {ServiceOf(s) : s \in Service} \cup {None}

\* A Service to sync, and a mapping to write.
Item    == [svc : Service, get : BOOLEAN, vip : VIP \cup {None}]
Mapping == [vip : VIP, wl : Identity]

ASSUME NoneAssumption == None \notin Mapping

\* Two live Services never have the same ClusterIP.
Allocated(services) ==
  \A s, t \in Service :
    services[s].vip = services[t].vip => s = t \/ services[s].vip = None

\* The cluster is as it was before the processor started.
Init ==
  /\ phase = "start"
  /\ svc \in [Service -> SvcObject] /\ Allocated(svc)
  /\ slice \in [Slice -> SliceObject]
  /\ owner \in [PodIP -> Workload \cup {None}]
  /\ \A ip \in PodIP : owner[ip] \in Runs[ip] \cup {None}
  /\ pods = [ip \in PodIP |-> None] /\ byIP = [v \in VIP |-> None]
  /\ byPort = {}
  /\ queue = [k \in {"svc", "slice"} |-> <<>>]
  /\ work = [g \in Goroutine |-> Idle]
  /\ changes = 0

-----------------------------------------------------------------------------
(* The cluster and client-go (external).                                   *)

Event(name, old, new) == [name |-> name, old |-> old, new |-> new]

\* What happens to the cluster before the informers list is in Init.
Change ==
  /\ phase # "start"
  /\ changes < MaxChanges /\ changes' = changes + 1

Notify(k, event) == queue' = [queue EXCEPT ![k] = Append(@, event)]

\* Create, change or delete a Service.
ChangeSvc(s, obj) ==
  /\ Change
  /\ obj # svc[s]
  /\ svc' = [svc EXCEPT ![s] = obj]
  /\ Allocated(svc')
  /\ Notify("svc", Event(s, svc[s], obj))
  /\ UNCHANGED <<phase, slice, owner, pods, byIP, byPort, work>>

ChangeSlice(e, obj) ==
  /\ Change
  /\ obj # slice[e]
  /\ slice' = [slice EXCEPT ![e] = obj]
  /\ Notify("slice", Event(e, slice[e], obj))
  /\ UNCHANGED <<phase, svc, owner, pods, byIP, byPort, work>>

ChangePod(ip, w) ==
  /\ Change
  /\ owner[ip] # w
  /\ owner' = [owner EXCEPT ![ip] = w]
  /\ UNCHANGED <<phase, svc, slice, pods, byIP, byPort, queue, work>>

\* The pod handlers catch up on one address.
HandlePod(ip) ==
  /\ phase # "start"
  /\ pods[ip] # owner[ip]
  /\ pods' = [pods EXCEPT ![ip] = owner[ip]]
  /\ UNCHANGED <<phase, byIP, byPort, queue, work, cluster>>

LiveSvc == {s \in Service : svc[s].live}
LiveSlice == {e \in Slice : slice[e].live}
Added(objects, live, none) == {Event(n, none, objects[n]) : n \in live}
Replayed(objects, live) == {Event(n, objects[n], objects[n]) : n \in live}

\* The informers of phase 2 have listed: their indexers are filled and
\* HasSynced holds, but the add events only wait for their handlers.
Start ==
  /\ phase = "start" /\ phase' = "synced"
  /\ \E q \in SetToSeqs(Added(svc, LiveSvc, NoSvc)),
        r \in SetToSeqs(Added(slice, LiveSlice, NoSlice)) :
       queue' = [svc |-> q, slice |-> r]
  /\ UNCHANGED <<pods, byIP, byPort, work, cluster>>

\* resyncPeriod: an update event for every object held.
Resync(k) ==
  /\ phase # "start" /\ queue[k] = <<>>
  /\ \E q \in SetToSeqs(IF k = "svc" THEN Replayed(svc, LiveSvc)
                         ELSE Replayed(slice, LiveSlice)) :
       /\ q # <<>>
       /\ queue' = [queue EXCEPT ![k] = q]
  /\ UNCHANGED <<phase, pods, byIP, byPort, work, cluster>>

-----------------------------------------------------------------------------
(* syncServiceClusterIPs.                                                  *)

\* A Service to sync: with the object in hand (get = FALSE), or by name, to be
\* looked up in the lister (syncServiceForSlice).
Sync(s, obj)   == [svc |-> s, get |-> FALSE, vip |-> obj.vip]
SyncByName(s)  == [svc |-> s, get |-> TRUE, vip |-> None]

\* Wrong on purpose: the identity of a Service is one of its workloads.
ServiceWorkloadFirst(s, store) ==
  LET found == {store[ip] : ip \in UNION {slice[e].ips : e \in {x \in LiveSlice : slice[x].of = s}}}
                 \ {None}
  IN  IF found = {} THEN None ELSE CHOOSE w \in found : TRUE

\* serviceWorkload over the slices that carry the Service's name.
ServiceWorkload(s, store) ==
  LET found == {store[ip] : ip \in UNION {slice[e].ips : e \in {x \in LiveSlice : slice[x].of = s}}}
                 \ {None}
  IN  IF found = {} THEN None
      ELSE IF Cardinality(found) > 1 THEN ServiceOf(s)
      ELSE CHOOSE w \in found : TRUE

\* Wrong on purpose: headless Services are not left out.
DerivedHeadless(item) ==
  [vip |-> IF item.get THEN svc[item.svc].vip ELSE item.vip,
   wl |-> ServiceWorkload(item.svc, pods)]

\* What syncServiceClusterIPs is about to do, or nothing when the Service is not
\* in the lister or has no ClusterIP.
Derived(item) ==
  LET vip == IF item.get THEN svc[item.svc].vip ELSE item.vip
  IN  IF vip = None THEN None
      ELSE [vip |-> vip, wl |-> ServiceWorkload(item.svc, pods)]

\* Listing the slices and looking their addresses up.
Derive(g) ==
  /\ work[g].evict = {} /\ work[g].out = None /\ work[g].todo # <<>>
  /\ work' = [work EXCEPT ![g].out = Derived(Head(work[g].todo)),
                          ![g].todo = Tail(@)]
  /\ UNCHANGED <<phase, pods, byIP, byPort, queue, cluster>>

\* Cache.Upsert, or Cache.Delete when no endpoint resolves.
Write(g) ==
  /\ work[g].out # None
  /\ byIP' = [byIP EXCEPT ![work[g].out.vip] = work[g].out.wl]
  /\ work' = [work EXCEPT ![g].out = None]
  /\ UNCHANGED <<phase, pods, byPort, queue, cluster>>

-----------------------------------------------------------------------------
(* The handlers; each takes the next notification of its kind.             *)

SvcKeys(obj) == {obj.vip} \ {None}

Next1(k) == Head(queue[k])
Taken(k) == queue' = [queue EXCEPT ![k] = Tail(@)]

\* Wrong on purpose: all keys of the old revision are evicted after indexing.
StaleAll(old, new) == old

\* Wrong on purpose: the keys the new revision lost are kept.
StaleNone(old, new) == {}

\* reindexPorts: the keys to evict once the new ones are written.
Stale(old, new) == old \ new

OnService ==
  /\ queue["svc"] # <<>> /\ work["svc"] = Idle
  /\ LET ev == Next1("svc")
     IN  /\ ~ev.old.live /\ ev.new.live
         /\ byPort' = byPort \cup SvcKeys(ev.new)
         /\ work' = [work EXCEPT !["svc"].todo = <<Sync(ev.name, ev.new)>>]
  /\ Taken("svc")
  /\ UNCHANGED <<phase, pods, byIP, cluster>>

OnServiceUpdate ==
  /\ queue["svc"] # <<>> /\ work["svc"] = Idle
  /\ LET ev == Next1("svc")
     IN  /\ ev.old.live /\ ev.new.live
         /\ byPort' = byPort \cup SvcKeys(ev.new)
         /\ work' = [work EXCEPT !["svc"].evict = Stale(SvcKeys(ev.old), SvcKeys(ev.new)),
                                 !["svc"].todo = <<Sync(ev.name, ev.new)>>]
  /\ Taken("svc")
  /\ UNCHANGED <<phase, pods, byIP, cluster>>

\* The port entries go, and the ClusterIPs with them.
OnServiceDelete ==
  /\ queue["svc"] # <<>> /\ work["svc"] = Idle
  /\ LET ev == Next1("svc")
     IN  /\ ~ev.new.live
         /\ byPort' = byPort \ SvcKeys(ev.old)
         /\ byIP' = [v \in VIP |-> IF v \in SvcKeys(ev.old) THEN None ELSE byIP[v]]
  /\ Taken("svc")
  /\ UNCHANGED <<phase, pods, work, cluster>>

\* The Service a slice label names; a slice without the label names none.
Named(label) == IF label = None THEN <<>> ELSE <<SyncByName(label)>>

OnEndpointSlice ==
  /\ queue["slice"] # <<>> /\ work["slice"] = Idle
  /\ LET ev == Next1("slice")
     IN  /\ ~ev.old.live /\ ev.new.live
         /\ byPort' = byPort \cup ev.new.ips
         /\ work' = [work EXCEPT !["slice"].todo = Named(ev.new.of)]
  /\ Taken("slice")
  /\ UNCHANGED <<phase, pods, byIP, cluster>>

\* A changed label concerns the Service it named before, too.
OnEndpointSliceUpdate ==
  /\ queue["slice"] # <<>> /\ work["slice"] = Idle
  /\ LET ev == Next1("slice")
         before == IF ev.old.of = ev.new.of THEN <<>> ELSE Named(ev.old.of)
     IN  /\ ev.old.live /\ ev.new.live
         /\ byPort' = byPort \cup ev.new.ips
         /\ work' = [work EXCEPT !["slice"].evict = Stale(ev.old.ips, ev.new.ips),
                                 !["slice"].todo = Named(ev.new.of) \o before]
  /\ Taken("slice")
  /\ UNCHANGED <<phase, pods, byIP, cluster>>

OnEndpointSliceDelete ==
  /\ queue["slice"] # <<>> /\ work["slice"] = Idle
  /\ LET ev == Next1("slice")
     IN  /\ ~ev.new.live
         /\ byPort' = byPort \ ev.old.ips
         /\ work' = [work EXCEPT !["slice"].todo = Named(ev.old.of)]
  /\ Taken("slice")
  /\ UNCHANGED <<phase, pods, byIP, cluster>>

\* The second half of an update: reindexPorts drops the stale keys and
\* onServiceUpdate the ClusterIPs the Service no longer has.
Evict(g) ==
  /\ work[g].evict # {}
  /\ byPort' = byPort \ work[g].evict
  /\ byIP' = [v \in VIP |-> IF v \in work[g].evict THEN None ELSE byIP[v]]
  /\ work' = [work EXCEPT ![g].evict = {}]
  /\ UNCHANGED <<phase, pods, queue, cluster>>

\* reindexAllClusterIPs: list the Services once and sync each.
ReindexAll ==
  /\ phase = "synced" /\ phase' = "reindex"
  /\ \E list \in SetToSeqs({Sync(s, svc[s]) : s \in LiveSvc}) :
       work' = [work EXCEPT !["run"].todo = list]
  /\ UNCHANGED <<pods, byIP, byPort, queue, cluster>>

\* close(c.syncedChan)
Synced ==
  /\ phase = "reindex" /\ work["run"] = Idle /\ phase' = "ready"
  /\ UNCHANGED <<pods, byIP, byPort, queue, work, cluster>>

-----------------------------------------------------------------------------
Cluster ==
  \/ \E s \in Service, obj \in SvcObject : ChangeSvc(s, obj)
  \/ \E e \in Slice, obj \in SliceObject : ChangeSlice(e, obj)
  \/ \E ip \in PodIP : \E w \in Runs[ip] \cup {None} : ChangePod(ip, w)

Handle(g) ==
  \/ g = "svc" /\ (OnService \/ OnServiceUpdate \/ OnServiceDelete)
  \/ g = "slice" /\ (OnEndpointSlice \/ OnEndpointSliceUpdate \/ OnEndpointSliceDelete)
  \/ g = "run" /\ (ReindexAll \/ Synced)
  \/ Evict(g) \/ Derive(g) \/ Write(g)

Next ==
  \/ Cluster
  \/ \E ip \in PodIP : HandlePod(ip)
  \/ Start
  \/ \E k \in {"svc", "slice"} : Resync(k)
  \/ \E g \in Goroutine : Handle(g)

Spec == Init /\ [][Next]_vars

\* Handler goroutines are scheduled and the resync timer keeps firing; the
\* cluster may stop changing at any time.
FairSpec ==
  /\ Spec
  /\ WF_vars(Start)
  /\ WF_vars(\E ip \in PodIP : HandlePod(ip))
  /\ \A k \in {"svc", "slice"} : WF_vars(Resync(k))
  /\ \A g \in Goroutine : WF_vars(Handle(g))

-----------------------------------------------------------------------------
SvcEvent   == [name : Service, old : SvcObject, new : SvcObject]
SliceEvent == [name : Slice, old : SliceObject, new : SliceObject]
Work == [evict : SUBSET (VIP \cup PodIP), todo : Seq(Item), out : Mapping \cup {None}]

\* Types of all variables; a headless Service never has a mapping to write.
TypeOK ==
  /\ phase \in {"start", "synced", "reindex", "ready"}
  /\ svc \in [Service -> SvcObject] /\ slice \in [Slice -> SliceObject]
  /\ owner \in [PodIP -> Workload \cup {None}]
  /\ pods \in [PodIP -> Workload \cup {None}]
  /\ byIP \in [VIP -> Identity] /\ byPort \subseteq VIP \cup PodIP
  /\ queue \in [{"svc", "slice"} -> Seq(SvcEvent \cup SliceEvent)]
  /\ queue["svc"] \in Seq(SvcEvent) /\ queue["slice"] \in Seq(SliceEvent)
  /\ work \in [Goroutine -> Work]

Exposed(v) == \E s \in LiveSvc : v \in SvcKeys(svc[s])

\* reindexPorts' promise: a ClusterIP whose Service keeps it through every
\* revision handled so far or still queued has its protocol at every instant, in
\* the middle of an update or a resync too.
NoGap ==
  phase # "start" =>
    \A v \in VIP :
      /\ Exposed(v)
      /\ \A i \in DOMAIN queue["svc"] :
           v \in SvcKeys(queue["svc"][i].old) <=> v \in SvcKeys(queue["svc"][i].new)
      => v \in byPort

\* Once the notifications of a kind are handled, no address keeps a protocol
\* that no object of that kind declares for it.
NoStalePort ==
  /\ queue["svc"] = <<>> /\ work["svc"].evict = {}
       => \A v \in VIP \cap byPort : Exposed(v)
  /\ queue["slice"] = <<>> /\ work["slice"].evict = {}
       => \A ip \in PodIP \cap byPort : \E e \in LiveSlice : ip \in slice[e].ips

\* The workloads of a Service's endpoints, as the cluster has them.
Backing(s) ==
  {owner[ip] : ip \in UNION {slice[e].ips : e \in {x \in LiveSlice : slice[x].of = s}}} \ {None}

\* Every ClusterIP in use is with the workload behind it, and every address a
\* Service or a slice declares has its protocol.
Right ==
  /\ \A s \in Service : \A v \in SvcKeys(svc[s]) :
       /\ v \in byPort
       /\ Backing(s) = {} => byIP[v] = None
       /\ \A w \in Workload : Backing(s) = {w} => byIP[v] = w
       /\ Cardinality(Backing(s)) > 1 => byIP[v] = ServiceOf(s)
  /\ \A e \in Slice : slice[e].ips \subseteq byPort

\* Once the cluster is quiet, every ClusterIP in use ends up and stays with the
\* single workload behind it, with the Service when there are several, unmapped
\* when there is none, and the protocols with their addresses.  No order of the
\* three goroutines' steps prevents it.
Converges == <>[]Right

\* onServiceDelete's comment: a deleted Service leaves no ClusterIP identity
\* behind once its notifications are handled and no handler is running.
NoStaleVIP ==
  queue["svc"] = <<>> /\ queue["slice"] = <<>> /\ (\A g \in Goroutine : work[g] = Idle)
    => \A v \in VIP : byIP[v] # None => Exposed(v)
=============================================================================
