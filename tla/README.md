# TLA+ verification of network-sniffer

TLA+ models of the network sniffer, the TLC configurations that check them and
TLAPS proofs of the main results. Paths are relative to the repository root
(`src/` in `PROJECT.json`). `PROJECT.json` lists every run, mutant, theorem,
finding and hazard, and maps each definition to the lines it models.

    tlc -config MCCollector.cfg MCCollector     # any run: cfg + module of PROJECT.json
    tlapm CollectorProofs.tla                   # any proof module

## 1. Inventory

A **collector** runs on every node; a **processor** runs in a few replicas.

| Component | State | Operations | Hard behaviour |
| --- | --- | --- | --- |
| connection probe (`bpf/sniffer.c`, `internal/bpf`) | `pid_by_sock`, `events` ring, attached links | `handle_tcp_connect`, `handle_set_state`, `New`, `Close` | reused `struct sock` addresses, sockets that never see `TCP_CLOSE`, LRU eviction, full ring, connects before attach |
| collector pipeline (`internal/collector`) | `Aggregator.flows`, `Sender.queue`, batch in flight | `Run/handle`, `flushLoop/flush`, `Enqueue`, `Sender.Run/send` | three goroutines, non-atomic eviction, retries against a dead processor, shutdown |
| DNS naming (`bpf/sniffer.c`, `decode/dns.go`, `dnscache`, `collector.go`) | `dns_events` ring, `Cache.entries`, `flow.hostname` | `handle_dns_ingress`, `RunDNS/handleDNS`, `Put`, `Lookup`, `Sweep` | two unordered rings, stale clock reads, full cache |
| pod, node, owner index (`resolver/k8s_linux.go`) | `Cache.byIP`, `Cache.byUID`, listers | two-phase `Run`, `onPod`, `onPodDelete`, `onNode`, `onNodeDelete`, `ResolveTopOwner` | watches of different kinds are unordered, addresses are reused, host network |
| Service index (`resolver/endpoints*.go`) | `Cache.byIP` (ClusterIPs), `Cache.byPort` | six handlers, `syncServiceClusterIPs`, `reindexAllClusterIPs` | read, compute, write on three goroutines; `HasSynced` |
| deduper (`internal/dedup`) | `Deduper.seen` | `Allow`, `Sweep` | concurrent handlers with times read before the lock, stale ticks |
| pid to pod UID (`collector.go`, `resolver/pid.go`, `cgroup.go`) | `pidUIDs`, `pidUIDsSince` | `podUID`, `PodUIDForPID`, `ParsePodUID` | pids are reused, records wait in the ring |
| processor pipeline (`internal/processor`, `enrich`, `ignore`) | none besides the resolver cache | `Report`, `toEvent`, `Handle`, `Enrich`, `ShouldIgnoreCall` | three or four lookups of one record under separate locks |
| processor life cycle (`cmd/sniffer/processor_linux.go`) | error group, readiness flag, gRPC server | `runProcessor`, shutdown goroutine | start failures, signals at any moment, graceful stop |
| sinks (`internal/emit`) | Kafka producer buffer | `Emit`, `Check`, `Close` | full buffer after the deduper recorded the edge |
| Istio resolver (`resolver/istio*.go`) | `Cache.byIP` (VIPs) | `Run`, `onServiceEntry`, `onServiceEntryDelete` | shared VIPs, skipped revisions, tombstones |
| configuration, telemetry, decoding, transforms, wire API | none, or as `PROJECT.json` says | | |

The probe's rings feed `Collector.Run` and `RunDNS`; `Sender.send` calls the
processor's `Report`; `Report` calls `Pipeline.Handle`, which reads the resolver
cache that the informers' handlers write, and asks the deduper before it emits.

What makes each part correct: the probe never attributes a connection to the
wrong process or direction; the collector accounts for every connection and
bounds its memory; a hostname belongs to a recent answer for the address; the
indexes follow the cluster and heal by themselves; an edge names its true ends,
is reported by one of them only, is neither repeated within the window nor
hidden, and is never lost without being counted; the processor serves only with
a warm cache and always stops when it is told to.

## 2. Modules

| Module | Models | Run module | Proofs |
| --- | --- | --- | --- |
| `Delivery` | abstract contract: accepted, then sent or dropped, once | through `Collector` | `CollectorProofs` |
| `Collector` | reader, ticker, sender, shutdown | `MCCollector` | `CollectorProofs` |
| `Dedup` | `Allow`, `Sweep`, the sweep ticker | itself | `DedupProofs` |
| `Probe` | both eBPF connection programs, the map, the ring, attach and close, `Canonical` | itself | `ProbeProofs` |
| `PidCache` | `podUID`, its map and the procfs read | `MCPidCache` | `CollectorProofs` |
| `Pipeline` | one `Report` call: `toEvent`, `Enrich`, duplicates, ignore rules | `MCPipeline` | `PipelineProofs` |
| `Processor` | `runProcessor`, its goroutines, the sinks, shutdown | `MCProcessor` | `ProcessorProofs` |
| `PodIndex` | `Run`'s phases, pod and node handlers, owner lookups | `MCPodIndex` | `PodIndexProofs` |
| `ServiceIndex` | Service and slice handlers, start-up pass | `MCServiceIndex` | `ServiceIndexProofs` |
| `Istio` | ServiceEntry informer, parsing, handlers | `MCIstio` | `ProcessorProofs` |
| `DNSNaming` | DNS capture, cache, lookup, flow names | `MCDNSNaming` | `DNSNamingProofs` |

How the modules meet: `Probe` ends where a record is read, `PidCache` and
`DNSNaming` say what UID and name it gets, `Collector` carries it to a `Report`
call, `Pipeline` turns it into an edge using the cache that `PodIndex`,
`ServiceIndex` and `Istio` maintain, `Dedup` decides whether it is new and
`Processor` what becomes of it. `Pipeline` takes from the others only what they
show: a UID may be a predecessor's, an entry may be right, missing or stale.

Operators whose comment begins "Wrong on purpose" are mutants: faulty versions
of the definition that follows them, used to show that a property can fail.
No specification uses them.

**Collector.** One action per critical section or select. A flow record is
represented by the set of connections folded into it, so "no record lost" is a
statement about connections. `pc` has one program counter for each flusher
(`drain`, `cut`, `send`, `evict`), `spc` one for the sender. The reader is stuck
in its own `flush` while it flushes, as in the code. Timer lengths and the
backoff's doubling are left out: a timer may fire at any time. Whether a failed
or timed-out `Report` was processed is left open; `sent` means acknowledged.

**Dedup.** Real time is `clock`; a handler keeps the time it read in `now` until
`Allow` gets the lock. The ticker's channel holds one tick.

**Probe.** `caller` and `lost` are the truth about a socket, invisible to the
programs. A full LRU map evicts exactly one entry, any of those it holds: the
kernel's order is approximate. The model allows `Close` and a new start at any
time, with sockets in any state, so connections that straddle a restart occur.

**PodIndex.** The initial cluster is arbitrary. The pod and node indexers are
the cluster as the informers have it; each change queues a notification that a
handler takes later. ReplicaSets and Jobs also have an API state (`setApi`),
because what matters is how far their watch (`setSeen`) lags behind the pods'.
`ListOwners` is phase 1's lists; `Start` is the later moment at which
`WaitForCacheSync` returns and phase 2 begins, so a set created in between
exists but need not be in the lister. A pod may be first seen with its address
already set, and completes only after it had one: the handlers never look at the
phase, so a pod rejected before is like one that waits. No two pods share a name: a recreated pod is another pod, and its
predecessor's deletion is always delivered (section 5 says what a relist can do).
`ResolveTopOwner` walks at most `MaxOwnerDepth` rounds through listers that may
lag behind the pod; owner chains have at most one intermediate set. A resync is
modelled when the queue is empty, which keeps queues finite; a resync behind
other notifications is the same events later.

**ServiceIndex.** The initial cluster is arbitrary. `Derive` and `Write` are the
two halves of `syncServiceClusterIPs`, run by the Service handlers, the slice
handlers and `Run`; listing the slices and looking their addresses up is one
step. `Evict` is the second half of an update. `Start` stands for the moment
`HasSynced` holds: indexers filled, add events queued, no handler run. The pod
handlers are reduced to "the cache follows the indexer, one address at a time".
Every port declares a recognised protocol, so `byPort` is a set of addresses.

**DNSNaming.** A message is a name, one or two addresses and a TTL. `DecodeDNS`
returns any prefix of the answers, which covers truncation, malformed tails and
non-answers. One connection event is under way at a time. `handle` takes two
locks, the cache's to look the name up (`LookUp`) and the aggregator's to add the
event (`Add`); answers may be stored and flows drained in between. `FlushFull` is
the reader's own flush of a full batch; the number of flows to other
destinations is left open, so it may follow any event. `learned`, `recent` and
`shown` are history: the last answer stored for each address, the names that were
current for the connection in hand since it was read, and those that were current
for the connections of each flow.

**PidCache.** `proc` is what procfs would say of each pid, a pod's cgroup path in
one of its spellings, a host process or nothing; it may change between any two
steps, a reused pid being one change. `left` and `given` are history: when
procfs stopped giving an answer, and what `podUID` answered last.

**Pipeline.** One action per cache lookup, because `Enrich` takes the lock once
for each. `job` is the record `Handle` works on. Between two lookups any entry
may become right, missing or stale (`Cached`); `settled` is history: the ends of
the edge whose entries have been right since the record was begun. Handlers share
only the cache, so one handler is enough. `Half` is what the probe and `handle`
make of a connection seen from either end, with a Service's address translated
in between.

**Processor.** `main` is where `runProcessor` is; `group` holds the five goroutines
of the error group, `istio` the detached one. The deduper is a set within one
window, an edge is a model value, and the configuration is arbitrary, an invalid
one included. Every early return is an action (`LoadFails`, `BuildSinksFails`,
`ListenFails`), each member that can return an error may (`Fail`), and a signal may come at any
point. `AwaitCancelled` and `AwaitSync` are the two cases of the select. The
shutdown goroutine withdraws readiness (`Withdraw`) before it stops accepting
calls (`StopAccepting`); `runProcessor`'s own `ready.Store(true)` may come after
either.

**Istio.** The informer holds trimmed copies and may skip revisions; a deletion
carries the last copy seen, wrapped in a tombstone or not. A handler parses the
object and then writes VIP by VIP. `given` is history: VIPs an update took away.

## 3. Runs

With two workers every run finishes in about two minutes or less. Deadlock checking is off where the
modelled part really stops: a process ends, or a cluster model with no object
left and its bound used up has nothing to do.

| Run | Checks | Bounds |
| --- | --- | --- |
| `MCCollector` | `Accounted`, `Bounded`, `OneBatchPerFlush`, `ImplementsDelivery`, `Flushed`, `Stops`, `Settled`, processor possibly down for ever | 4 connections on 3 keys and a filtered one, batches of 2, queue of 1 |
| `MCDedup` | `TypeOK`, `NoEarlyRepeat`, `SuppressedIsCovered`, `ExpiredGoes` | 2 handlers, 2 keys, window 2, clock to 4 |
| `MCProbe` | `TypeOK`, `EntryIsLive`, `OutboundIsTrue`, `OrientedUnlessLost` | 2 addresses, 2 processes, map and ring of 1 |
| `MCPidCache` | `AsOfRecent` | 2 pids, 1 pod, TTL 2, ring of 1, clock to 3 |
| `MCDNSNaming` | `TypeOK`, `NameLasts`, `NameIsFresh`, `RefusedOnlyWhenFull` | 2 names, 2 addresses, 1 entry, TTLs below and above the clamp, 2 messages, clock to 4 |
| `MCPipeline` | `TrueEnds`, `NoMirror`, `NothingElseDropped`, `Answered` | 6 connections between a pod, a Service, a node, an ignored agent and the outside, 4 batches in any order and number, any cache contents |
| `MCProcessor` | `WarmOnly`, `NoSilentLoss`, `CleanExit`, `Exits`, `Withdrawn` | every configuration, 3 calls of which 2 carry one edge, buffer of 1 |
| `MCPodIndex` | `TypeOK`, `UIDIndexExact`, `NoStaleAddress`, `OwnersFirst`, `Heals` | 3 pods (one host-network), 2 addresses, 1 set, 1 node, walk of 2, any initial cluster, 1 change besides the creation and deletion of the set |
| `MCServiceIndex` | `TypeOK`, `NoGap`, `NoStalePort`, `Converges` | 1 Service, 1 slice, 2 endpoints of different workloads, any initial cluster, 1 change |
| `MCIstio` | `NoOrphanVIP`, `Heals` | 2 entries with 5 possible contents, 2 VIPs, any initial cluster, 2 changes |

`MCDNSNaming` treats names and addresses as symmetric and `MCPidCache` pids; runs
with a liveness property use no symmetry. The type invariants of `Collector`,
`PidCache`, `Pipeline`, `Processor` and `Istio` are proved (section 4) and not run
again.

Why the bounds are enough: a queue and a map of one entry make every full-queue
and eviction path happen with two actors; because the initial cluster of
`PodIndex` is arbitrary (completed pods that share their address with a running
one included), one change that races with the start-up lists, the owner watch
and the resyncs is enough for an address to be evicted under its new holder;
sets come and go without using up that change, so a set created after the owner
lists and a pod created under it meet a lister that lacks the set; in
`MCServiceIndex` a resync supplies the second concurrent handler and is what
exercises `NoGap`, there being one ClusterIP to gain, keep or lose (two Services
that hand a ClusterIP over are beyond what the run can afford, and so are two
slices beside two workloads: two slices that share one address were checked
apart, with `Slice = {e1, e2}`, `PodIP = {p1}` and one workload, 979,071 states, no
error); two changes let a ServiceEntry take over a VIP
and the other one go; a pid that changes once after each of two reads, with a
clock that passes one TTL, lets an entry be cached, used, outlive its process
and expire; `Cached` leaves the pipeline no assumption on the cache, so longer
batches and more handlers add nothing new; a producer buffer of one edge
overflows with two calls and the third is a duplicate at any stage of the first;
a clock that reaches two windows lets an entry be recorded, expire, be swept and
be recorded again.

What two of the properties of `MCProcessor` leave out: `Withdrawn` says that a
cancelled processor which had announced itself is marked not ready before the
server stops accepting calls; it leaves out a processor cancelled just before
`runProcessor`'s last step, whose `ready.Store(true)` may come after the
withdrawal and then stands until `Exits` ends the process. `CleanExit` also says what may end a processor after
it started serving: a signal, or a failure of a member of the group, never of
the Istio resolver.

Two further runs are expected to **fail**: they state what a comment says, and TLC
shows a behaviour of the code that contradicts it (`PROJECT.json`, "findings",
quotes both sides):

| Run | What TLC shows |
| --- | --- |
| `MCPodIndexNode` | deleting a host-network pod unmaps its node's address until the next node event or resync |
| `MCServiceIndexDelete` | a slice handler restores the ClusterIP of a Service deleted meanwhile, for good |

### Fairness

`Collector`: weak fairness for every goroutine step, because the Go scheduler
runs what is runnable and a `Report` returns within its timeout; strong fairness
for the `ctx.Done` cases, because `select` picks at random among ready cases. The
network owes nothing; `Settled` alone takes as its hypothesis that a call
repeated for ever succeeds at some point. `Dedup`: time passes, the ticker fires,
the sweep loop is scheduled. `Pipeline`: the handler goroutine is scheduled.
`Processor`: goroutines that can run do, and what `runProcessor` does itself is
bounded by timeouts (`Kafka.Check`, `Flush`); nothing is assumed of the cluster
(`Sync` may never happen), the brokers (`Ack`, `Refuse`), the clients or signals.
`PodIndex`, `ServiceIndex`, `Istio`: watches deliver, handlers run, the
resync timer keeps firing (`resyncPeriod`); the cluster may stop changing at any
time, and must for `<>[]` to say anything, which the change bound ensures.

## 4. Proofs

Every invariant, every action property and the refinement that a run checks is
also a theorem, for every value of the constants that satisfies the named
`ASSUME`s of the component's module. Those say:
- which sets are finite (connections, pods, nodes, Services, slices,
  ServiceEntries; names, addresses and workloads need not be), that sizes and
  lifetimes are numbers, positive where the code's constants are, and that `None`
  is not a datum;
- in `Pipeline`, that endpoints are addresses or filtered ones, and that no
  workload of the cluster is called external (`IdentityAssumption`);
- in `PodIndex`, that a node's address is not in the pod network
  (`AddressAssumption`, the comment of `onNode`), and that the owner walk is at
  least two rounds long (`DepthAssumption`; `maxOwnerDepth` is 10);
- in `Istio`, that hosts, addresses and statuses are lists.

The inductive invariants were checked by TLC on the runs' instances before they
were proved. In each module `TypeCorrect` is the type invariant.

**CollectorProofs.** `TypeCorrect`, `NothingLost` (`Accounted`), `MemoryBounded`
(`Bounded`), `NeverSplits` (`OneBatchPerFlush`) and `Refinement` (`Collector`
implements `Delivery`). `Bounded` is not inductive: that a drained map fits one
batch needs `RoomForOne` (unless the reader is about to drain, the map has room
for one more flow), which rests on the reader being its only writer;
`HandsEmpty` and `NoEmptyBatch` say which hands can hold records at which
program counter. `Accounted` is proved from two lemmas about ten piles:
`Move` (taking a set from one pile to another keeps the piles disjoint and their
union) and `Grow` (a new connection enters one pile); every action is one of the
two. `QueueAppend` and `QueueTail` carry them over to the queue.

**DedupProofs.** `TypeCorrect`, `WindowHolds` (`NoEarlyRepeat`), `NothingHidden`
(`SuppressedIsCovered`). The strengthening: an entry that exists is the last
allowed time (`SeenIsLast`), and one that was evicted is over in real time
(`EvictedIsOver`), since a sweep's time is never ahead of the clock.

**ProbeProofs.** `TypeCorrect`, `NoLeakedEntry` (`EntryIsLive`),
`NoPhantomOutbound` (`OutboundIsTrue`), `Oriented` (`OrientedUnlessLost`). The
strengthening: a connecting socket without an entry has a recorded reason
(`MissingIsLost`), there are no entries while the fentry is detached
(`DetachedIsEmpty`), and every event in the ring and every delivered record is
truthful.

**CollectorProofs, `PidCache`.** `PidTypeCorrect` and `NeverStale` (`AsOfRecent`),
for any pids, pods and TTL. An answer is recent because the cache is: the strengthening
`EntriesTrue` says that every entry of the map procfs gives now, or stopped giving
no earlier than `since`, so it was true less than TTL before any time at which
the map is still in use. It needs the whole map to expire at once, as it does,
and the time of a record to be read before the lookup.

**PipelineProofs.** `EndsTrue` (`TrueEnds`), `NeverMirrored` (`NoMirror`) and
`OnlyDuplicatesDropped` (`NothingElseDropped`). The properties speak of the edge
handed on; the strengthening says, at each lookup, what the earlier ones have
contributed: the entries of a settled end are right now (`SettledNow`), so the
source (`UIDPending`, `SourceKnown`) and then the protocol and the destination
(`DestKnown`) are the true ones as soon as they have been looked up, and what has
passed the reversed-duplicate rule satisfies it (`Kept`). `RecordShape` and `Truth`
say once what either node makes of a connection.

**ProcessorProofs.** `HandledOnlyWarm` (`WarmOnly`), `NoEdgeLost` (`NoSilentLoss`)
and `ExitIsClean` (`CleanExit`), for any calls and any buffer. `Starting`,
`Unspawned` and `Serving` say what has been done at each point of `runProcessor`,
`Stopping` what each step of the shutdown goroutine has achieved. `Owners` says
which edges a handler still has in hand and `Ledger` where every other recorded
edge went; with `BufferBound` they turn "every handler has returned, the buffer is
flushed" into "every edge is delivered or counted".

**ProcessorProofs, `Istio`.** `IstioTypeCorrect` and `NoVIPOrphaned` (`NoOrphanVIP`).
A VIP may be written long after its entry changed, so what is still to be
written must be covered too: whatever a queued notification (`QueueCovered`) or the
handler in progress (`WorkCovered`) will set is bound by an entry that is held, was
given up by an update, or is deleted again by a notification further back. That
the parser returns only VIPs with hosts (`ParseType`) rests on `PickedType`, what a
loop with `continue` appends.

**DNSNamingProofs.** `NamesLast` (`NameLasts`), `NamesAreFresh` (`NameIsFresh`) and
`RefusalsAreDue` (`RefusedOnlyWhenFull`). A sweep and `Put` look only at an entry's
expiry: `Stored` bounds it from both sides by the time the answer was read, and
`Missing` says that an address without an entry had its minimum time. For
`NameIsFresh`, `Seen` says that the name current for the connection in hand is
recorded at every moment, and `Carried` that the name `handle` takes from one lock
to the other is among those recorded, although a newer answer may have replaced
it by the time it is added.

**PodIndexProofs.** `UIDsExact` (`UIDIndexExact`), `NoForgottenAddress`
(`NoStaleAddress`) and `OwnersAreKnown` (`OwnersFirst`). The last notification
queued for a pod tells the truth about it (`LastIsTrue`); an address about to be
indexed is held, was moved away from, or is evicted by a deletion further back
(`Claims`); a set in phase 1's owner lists stays in the listers while it exists
(`OwnersSeen`). What `ResolveTopOwner` returns is computed for any depth limit by
`Walk`: a round that changes nothing ends the walk, by the least round at which
it would differ.

**ServiceIndexProofs.** `ProtocolsWithoutGap` (`NoGap`) and `NoForgottenPort`
(`NoStalePort`). `byPort` follows the cluster as it was when the last handled
notification was queued, so the invariant (`SvcSound`, `SliceSound`) says that
there is a history: a sequence of clusters, one per queued notification, that
leads from the handled one to the present one. Entries not about to be evicted
are exactly the ClusterIPs of the handled cluster; a ClusterIP that no queued
notification adds or removes is the same in the whole history, by its least
change. That no two Services share a ClusterIP in any of these clusters
(`Allocated`) makes it safe to evict a key without asking who else has it. Pod
addresses satisfy one direction only, since two slices may share one.

Only model-checked are the liveness properties (`Flushed`, `Stops`, `Settled`,
`ExpiredGoes`, `Answered`, `Exits`, `Withdrawn`, both `Heals`, `Converges`): the
prover has no fairness or `ENABLED` reasoning. Induction over data is out of its
reach as a rule, too; the three places that need one (`Walk`, `PickedType`, the
histories) take the least number at which the claim fails instead.

## 5. Not modelled

- Formatting and encoding: `emit.Encode`, `decode.Decode`, TLS and SASL options,
  generated code, the YAML of the configuration, metric registration.
- Informer transforms, which drop fields no handler reads (the one for
  ServiceEntries is in `Istio`, because the parser depends on it).
- Text matching: the regular expression of `cgroup.go` is a pod and a spelling;
  ignore rules have literal segments and whole-segment wildcards, no prefixes.
- Owner chains longer than pod, set, workload, and cycles: Kubernetes'
  controllers do not make them; the walk is bounded in any case.
- Two Services that pass a ClusterIP on, and `Istio`'s writes beside `ServiceIndex`
  on one address: the state spaces are too large together, and Istio allocates
  VIPs from a range of its own.
- The dedup key ignores the application protocol; the queue-depth gauge is set by
  two goroutines. Neither affects what is modelled.

Divergences between text and code that no run checks:
- `Enqueue` finds the queue full in one select and evicts in the next, so a batch
  may be dropped although the sender has just made room (`sender.go:45`: "when
  the queue is full").
- a pod created with its ReplicaSet after start-up may be handled before the
  ReplicaSet watch delivered the set, and resolves to the ReplicaSet until its
  next event or resync (`k8s_linux.go:130`: "always resolve to the correct
  top-level workload"); `Heals` covers the recovery, with the set in the cluster
  and missing from the lister when the pod is handled.
- a pod informer that relists may see the deletion and the recreation of one pod
  name (a StatefulSet's, say) as a single update; the update handler ignores the
  old object (`k8s_linux.go:134`), so the old pod's UID and addresses stay indexed
  until the process restarts or the addresses are written again. `PodIndex` names
  pods by UID and leaves this out; `UIDIndexExact` and `NoStaleAddress` hold for
  deletions that are delivered as such.
- a flow keeps the first hostname it got until it is flushed, though a newer
  answer arrived, and a newer answer may also be stored between the lookup and
  the add (`aggregate.go:70`; `README.md:118`: "the name resolved most recently").
  `NameIsFresh` states what does hold: the name was current while one of the
  flow's own connections was being handled.
- a processor cancelled between the start of the shutdown goroutine and
  `ready.Store(true)` (`processor_linux.go:162`) may store it after the shutdown
  goroutine's `ready.Store(false)` (`:145`), and answers ready until it exits.
- `handle` looks a name up when the event is read, so an answer that arrived
  after the connect may name it (`collector.go:116`: "before the connect").
- an LRU eviction of a connection in progress reverses its record instead of only
  losing the pid (`bpf/sniffer.c:94`, `:153`); `OrientedUnlessLost` states exactly
  which records can be affected.
- the resolver may report itself synced while the ClusterIP of an existing Service
  is not mapped yet, because `HasSynced` does not wait for pod handlers
  (`k8s_linux.go:181-184`); `Converges` covers the recovery.
- a VIP that an update takes away from a ServiceEntry stays mapped, as does an
  address a living pod gives up (`istio_linux.go:82`, `k8s_linux.go:221`);
  `NoOrphanVIP` and `NoStaleAddress` except exactly these.
- a signal that arrives before `srv.Serve` runs makes `Serve` return
  `ErrServerStopped`, and the processor exits with an error although it stopped
  as asked.

## 6. Plan

All safety properties of the runs are proved. What could be added:
1. the safety halves of the liveness properties as theorems, such as the step of
   `Heals` and `Converges`: once the queues are empty and a resync is handled, the
   index is right, and no later resync makes it wrong;
2. a contract of the resolver cache that `PodIndex`, `ServiceIndex` and `Istio`
   implement and `Pipeline` uses, in place of `Cached`.
