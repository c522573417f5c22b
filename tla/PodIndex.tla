------------------------------ MODULE PodIndex ------------------------------
(***************************************************************************)
(* The workload resolver's pod, node and owner side: Controller.Run's two  *)
(* start phases and the handlers onPod, onPodDelete, onNode, onNodeDelete, *)
(* which maintain Cache.byIP and Cache.byUID.                              *)
(*                                                                         *)
(* client-go is external.  An informer keeps an indexer (what the listers  *)
(* read) and hands each change to its handlers through a queue, in order,  *)
(* on a goroutine of its own; the indexer is ahead of the handlers, the    *)
(* kinds are not ordered with each other, and a resync queues an update    *)
(* for every object held.  The pod and node indexers stand for the cluster *)
(* itself; ReplicaSets also have an API state, since what matters is how   *)
(* late their watch is compared with the pods'.                            *)
(*                                                                         *)
(* A pod is identified by its UID, has at most one address and at most one *)
(* controlling owner (a ReplicaSet or a Job, called a set here).  No two   *)
(* pods have the same name: a relist after a broken watch would hand over  *)
(* the deletion of a pod and the creation of its namesake as one update,   *)
(* whose old object Controller.Run's UpdateFunc ignores, and the UID and   *)
(* addresses of the first pod would stay.                                  *)
(***************************************************************************)
EXTENDS Naturals, Sequences, FiniteSets, SequencesExt

CONSTANTS
  Pod,         \* pod UIDs; a deleted one never comes back
  HostNetwork, \* the pods with spec.hostNetwork
  Set,         \* ReplicaSets and Jobs
  Owner,       \* the controlling owner of each pod: a set, or None
  PodIP,       \* pod network addresses
  Node,        \* nodes
  NodeIP,      \* the InternalIP of each node
  Home,        \* the node each host-network pod runs on
  MaxOwnerDepth, \* maxOwnerDepth
  MaxChanges,  \* bound: changes of the cluster in a behaviour
  None

ASSUME PodAssumption ==
  /\ IsFiniteSet(Pod) /\ IsFiniteSet(Node)
  /\ HostNetwork \subseteq Pod
  /\ Owner \in [Pod -> Set \cup {None}] /\ None \notin Set
  /\ Home \in [HostNetwork -> Node]

\* onNode's comment: a node address never collides with a pod address.
ASSUME AddressAssumption ==
  /\ \A n \in Node : NodeIP[n] \notin PodIP
  /\ None \notin PodIP /\ \A n \in Node : NodeIP[n] # None

\* Deep enough for a pod, its set and the owner of that.
ASSUME DepthAssumption == MaxOwnerDepth \in Nat /\ MaxOwnerDepth >= 2

ASSUME BoundAssumption == MaxChanges \in Nat

VARIABLES
  phase,       \* Controller.Run: "owners" until phase 1 has listed the owners,
               \* "listed" until it has seen that and phase 2 runs, then "all"
  setApi,      \* sets that exist
  setSeen,     \* sets in the ReplicaSet and Job indexers
  pod,         \* pod indexer; "st" says whether the object is there
  podQ,        \* pod notifications not handled yet
  node,        \* node indexer
  nodeQ,       \* node notifications not handled yet
  byIP, byUID, \* Cache
  early,       \* history: sets in phase 1's owner lists
  moved,       \* history: addresses a pod left while it lived
  changes      \* cluster changes since the processor started

clusterVars == <<setApi, pod, node, moved, changes>>
vars == <<phase, early, setSeen, podQ, nodeQ, byIP, byUID, clusterVars>>

Address == PodIP \cup {NodeIP[n] : n \in Node}

\* Workloads, up to what tells them apart here.
TopOf(s)  == [kind |-> "Deployment", of |-> s]   \* or CronJob, Rollout ...
SetOf(s)  == [kind |-> "ReplicaSet", of |-> s]
PodOf(p)  == [kind |-> "Pod", of |-> p]
NodeOf(n) == [kind |-> "node", of |-> n]
Workloads == {TopOf(s) : s \in Set} \cup {SetOf(s) : s \in Set} \cup {PodOf(p) : p \in Pod}
Machines  == {NodeOf(n) : n \in Node}

ASSUME NoneAssumption == None \notin Workloads \cup Machines

\* st: not created yet, in the indexer, or deleted for good.
Objects == [st : {"new", "live", "gone"}, ip : Address \cup {None}, done : BOOLEAN]
NewPod == [st |-> "new", ip |-> None, done |-> FALSE]
Live == {p \in Pod : pod[p].st = "live"}
Holders(ip) == {p \in Live \ HostNetwork : pod[p].ip = ip}

\* A running pod's address is its own; a host-network pod has its node's.  A pod
\* that has completed had an address: to the handlers, which never look at the
\* phase, one rejected before is no different from one waiting for its address.
Addressed(pods) ==
  \A p \in Pod : IF pods[p].ip = None THEN ~pods[p].done ELSE
    IF p \in HostNetwork THEN pods[p].ip = NodeIP[Home[p]]
    ELSE /\ pods[p].ip \in PodIP
         /\ \A q \in Pod \ {p} : pods[q].ip = pods[p].ip => pods[p].done \/ pods[q].done

\* The cluster is as it was before the processor started.
Init ==
  /\ phase = "owners"
  /\ setApi \in SUBSET Set /\ setSeen = {} /\ early = {}
  /\ pod \in [Pod -> {NewPod} \cup {obj \in Objects : obj.st = "live"}]
  /\ Addressed(pod)
  /\ podQ = <<>>
  /\ node \in SUBSET Node /\ nodeQ = <<>>
  /\ byIP = [a \in Address |-> None] /\ byUID = [p \in Pod |-> None]
  /\ moved = {} /\ changes = 0

-----------------------------------------------------------------------------
(* The cluster (external): each change reaches the indexer and, once the   *)
(* informer runs, queues a notification.                                   *)

Change == changes < MaxChanges /\ changes' = changes + 1

Notify(q, event) == IF phase = "all" THEN Append(q, event) ELSE q

SetEvent(p, obj) == [type |-> "set", pod |-> p, obj |-> obj]
DelEvent(p, obj) == [type |-> "delete", pod |-> p, obj |-> obj]

\* A set is created and deleted at most once, which bounds these two.
CreateSet(s) ==
  /\ s \notin setApi /\ \A p \in Pod : Owner[p] = s => pod[p].st = "new"
  /\ setApi' = setApi \cup {s}
  /\ UNCHANGED <<phase, early, setSeen, pod, podQ, node, nodeQ, byIP, byUID, moved, changes>>

\* Background garbage collection removes an owner before its pods.
DeleteSet(s) ==
  /\ s \in setApi /\ \E p \in Pod : Owner[p] = s /\ pod[p].st # "new"
  /\ setApi' = setApi \ {s}
  /\ UNCHANGED <<phase, early, setSeen, pod, podQ, node, nodeQ, byIP, byUID, moved, changes>>

\* The ReplicaSet or Job watch catches up on one set.
WatchSet(s) ==
  /\ phase # "owners"
  /\ (s \in setApi) # (s \in setSeen)
  /\ setSeen' = IF s \in setApi THEN setSeen \cup {s} ELSE setSeen \ {s}
  /\ UNCHANGED <<phase, early, podQ, nodeQ, byIP, byUID, clusterVars>>

StorePod(p, obj) ==
  /\ pod' = [pod EXCEPT ![p] = obj]
  /\ podQ' = Notify(podQ, SetEvent(p, obj))
  /\ UNCHANGED <<phase, early, setApi, setSeen, node, nodeQ, byIP, byUID>>

\* A pod gets an address no other running pod has; one that completed or is
\* being torn down still shows the address it no longer has.
Free(p, ip) ==
  IF p \in HostNetwork THEN ip = NodeIP[Home[p]]
  ELSE ip \in PodIP /\ \A q \in Holders(ip) : pod[q].done

\* A pod that was created while the watch was broken is first seen by the list
\* that follows, and may have its address by then.
CreatePod(p, ip) ==
  /\ Change
  /\ pod[p].st = "new" /\ (Owner[p] = None \/ Owner[p] \in setApi)
  /\ ip = None \/ Free(p, ip)
  /\ StorePod(p, [st |-> "live", ip |-> ip, done |-> FALSE])
  /\ UNCHANGED moved

AssignIP(p, ip) ==
  /\ Change
  /\ p \in Live /\ pod[p].ip = None /\ Free(p, ip)
  /\ StorePod(p, [pod[p] EXCEPT !.ip = ip])
  /\ UNCHANGED moved

\* The pod's sandbox is recreated with another address.
MovePod(p, ip) ==
  /\ Change
  /\ p \in Live \ HostNetwork /\ pod[p].ip # None /\ ~pod[p].done
  /\ ip \in PodIP /\ Holders(ip) = {}
  /\ StorePod(p, [pod[p] EXCEPT !.ip = ip])
  /\ moved' = moved \cup {pod[p].ip}

FinishPod(p) ==
  /\ Change
  /\ p \in Live /\ pod[p].ip # None /\ ~pod[p].done
  /\ StorePod(p, [pod[p] EXCEPT !.done = TRUE])
  /\ UNCHANGED moved

DeletePod(p) ==
  /\ Change
  /\ p \in Live
  /\ pod' = [pod EXCEPT ![p].st = "gone"]
  /\ podQ' = Notify(podQ, DelEvent(p, pod[p]))
  /\ UNCHANGED <<phase, early, setApi, setSeen, node, nodeQ, byIP, byUID, moved>>

AddNode(n) ==
  /\ Change
  /\ n \notin node
  /\ node' = node \cup {n}
  /\ nodeQ' = Notify(nodeQ, [type |-> "set", node |-> n])
  /\ UNCHANGED <<phase, early, setApi, setSeen, pod, podQ, byIP, byUID, moved>>

DeleteNode(n) ==
  /\ Change
  /\ n \in node
  /\ node' = node \ {n}
  /\ nodeQ' = Notify(nodeQ, [type |-> "delete", node |-> n])
  /\ UNCHANGED <<phase, early, setApi, setSeen, pod, podQ, byIP, byUID, moved>>

-----------------------------------------------------------------------------
(* Controller.Run.                                                         *)

PodList  == {SetEvent(p, pod[p]) : p \in Live}
NodeList == {[type |-> "set", node |-> n] : n \in node}

\* Wrong on purpose: phase 2 does not wait for the owner lists.
ListOwnersNoWait ==
  /\ phase = "owners"
  /\ phase' = "listed"
  /\ early' = setApi
  /\ UNCHANGED <<setSeen, podQ, nodeQ, byIP, byUID, clusterVars>>

\* Phase 1: the ReplicaSet and Job informers have their lists.
ListOwners ==
  /\ phase = "owners"
  /\ phase' = "listed"
  /\ setSeen' = setApi /\ early' = setApi
  /\ UNCHANGED <<podQ, nodeQ, byIP, byUID, clusterVars>>

\* WaitForCacheSync has seen the owner lists in and phase 2 lists pods and nodes,
\* in no particular order.  Sets created since the owner lists reach the listers
\* through their watch, before or after this.
Start ==
  /\ phase = "listed"
  /\ phase' = "all"
  /\ podQ' \in SetToSeqs(PodList)
  /\ nodeQ' \in SetToSeqs(NodeList)
  /\ UNCHANGED <<early, setSeen, byIP, byUID, clusterVars>>

\* resyncPeriod: the informers replay what they hold.
ResyncPods ==
  /\ phase = "all" /\ podQ = <<>> /\ Live # {}
  /\ podQ' \in SetToSeqs(PodList)
  /\ UNCHANGED <<phase, early, setSeen, nodeQ, byIP, byUID, clusterVars>>

ResyncNodes ==
  /\ phase = "all" /\ nodeQ = <<>> /\ node # {}
  /\ nodeQ' \in SetToSeqs(NodeList)
  /\ UNCHANGED <<phase, early, setSeen, podQ, byIP, byUID, clusterVars>>

-----------------------------------------------------------------------------
(* The handlers.                                                           *)

\* listerOwnerLookup.GetController reads the listers, not the object of the
\* event; None where it misses, has no controller or the kind is not watched.
GetController(w) ==
  CASE w.kind = "Pod" /\ w.of \in Live /\ Owner[w.of] # None -> SetOf(Owner[w.of])
    [] w.kind = "ReplicaSet" /\ w.of \in setSeen -> TopOf(w.of)
    [] OTHER -> None

\* One round of the walk; the first miss ends it.
Up(w) == IF GetController(w) = None THEN w ELSE GetController(w)

ResolveTopOwner(w) ==
  LET after[n \in 0..MaxOwnerDepth] == IF n = 0 THEN w ELSE Up(after[n - 1])
  IN  after[MaxOwnerDepth]

Resolve(p) == ResolveTopOwner(PodOf(p))

\* podIPs: none before the pod has an address.
PodIPs(obj) == {obj.ip} \ {None}

\* Wrong on purpose: host-network pods are indexed by address too.
IndexedIPsAll(p, obj) == PodIPs(obj)

\* The addresses onPod indexes.
IndexedIPs(p, obj) == IF p \in HostNetwork THEN {} ELSE PodIPs(obj)

\* Wrong on purpose: a pod that is indexed already is not resolved again.
OnPodOnce ==
  /\ podQ # <<>> /\ Head(podQ).type = "set"
  /\ LET p == Head(podQ).pod
         w == IF byUID[p] = None THEN Resolve(p) ELSE byUID[p]
     IN  /\ byUID' = [byUID EXCEPT ![p] = w]
         /\ byIP' = [a \in Address |->
                       IF a \in IndexedIPs(p, Head(podQ).obj) THEN w ELSE byIP[a]]
  /\ podQ' = Tail(podQ)
  /\ UNCHANGED <<phase, early, setSeen, nodeQ, clusterVars>>

OnPod ==
  /\ podQ # <<>> /\ Head(podQ).type = "set"
  /\ LET p == Head(podQ).pod
         w == Resolve(p)
     IN  /\ byUID' = [byUID EXCEPT ![p] = w]
         /\ byIP' = [a \in Address |->
                       IF a \in IndexedIPs(p, Head(podQ).obj) THEN w ELSE byIP[a]]
  /\ podQ' = Tail(podQ)
  /\ UNCHANGED <<phase, early, setSeen, nodeQ, clusterVars>>

\* Wrong on purpose: the UID of a deleted pod stays in the index.
OnPodDeleteKeepsUID ==
  /\ podQ # <<>> /\ Head(podQ).type = "delete"
  /\ byIP' = [a \in Address |-> IF a \in PodIPs(Head(podQ).obj) THEN None ELSE byIP[a]]
  /\ podQ' = Tail(podQ)
  /\ UNCHANGED <<phase, early, setSeen, nodeQ, byUID, clusterVars>>

\* Wrong on purpose: the address of a deleted pod stays in the index.
OnPodDeleteKeepsIP ==
  /\ podQ # <<>> /\ Head(podQ).type = "delete"
  /\ byUID' = [byUID EXCEPT ![Head(podQ).pod] = None]
  /\ podQ' = Tail(podQ)
  /\ UNCHANGED <<phase, early, setSeen, nodeQ, byIP, clusterVars>>

\* onPodDelete: every address of the object, whoever it maps to by now.
OnPodDelete ==
  /\ podQ # <<>> /\ Head(podQ).type = "delete"
  /\ byIP' = [a \in Address |-> IF a \in PodIPs(Head(podQ).obj) THEN None ELSE byIP[a]]
  /\ byUID' = [byUID EXCEPT ![Head(podQ).pod] = None]
  /\ podQ' = Tail(podQ)
  /\ UNCHANGED <<phase, early, setSeen, nodeQ, clusterVars>>

OnNode ==
  /\ nodeQ # <<>> /\ Head(nodeQ).type = "set"
  /\ byIP' = [byIP EXCEPT ![NodeIP[Head(nodeQ).node]] = NodeOf(Head(nodeQ).node)]
  /\ nodeQ' = Tail(nodeQ)
  /\ UNCHANGED <<phase, early, setSeen, podQ, byUID, clusterVars>>

OnNodeDelete ==
  /\ nodeQ # <<>> /\ Head(nodeQ).type = "delete"
  /\ byIP' = [byIP EXCEPT ![NodeIP[Head(nodeQ).node]] = None]
  /\ nodeQ' = Tail(nodeQ)
  /\ UNCHANGED <<phase, early, setSeen, podQ, byUID, clusterVars>>

-----------------------------------------------------------------------------
Cluster ==
  \/ \E s \in Set : CreateSet(s) \/ DeleteSet(s)
  \/ \E p \in Pod :
       \/ FinishPod(p) \/ DeletePod(p)
       \/ \E ip \in Address \cup {None} : CreatePod(p, ip)
       \/ \E ip \in Address : AssignIP(p, ip) \/ MovePod(p, ip)
  \/ \E n \in Node : AddNode(n) \/ DeleteNode(n)

Watch == \E s \in Set : WatchSet(s)
PodHandler == OnPod \/ OnPodDelete
NodeHandler == OnNode \/ OnNodeDelete

Next ==
  \/ Cluster
  \/ ListOwners \/ Start
  \/ Watch
  \/ ResyncPods \/ ResyncNodes
  \/ PodHandler \/ NodeHandler

Spec == Init /\ [][Next]_vars

\* Watches deliver, handler goroutines are scheduled and the resync timer keeps
\* firing; the cluster may stop changing at any time.
FairSpec ==
  /\ Spec
  /\ WF_vars(ListOwners) /\ WF_vars(Start)
  /\ \A s \in Set : WF_vars(WatchSet(s))
  /\ WF_vars(ResyncPods) /\ WF_vars(ResyncNodes)
  /\ WF_vars(PodHandler) /\ WF_vars(NodeHandler)

-----------------------------------------------------------------------------
PodEvent  == [type : {"set", "delete"}, pod : Pod, obj : Objects]
NodeEvent == [type : {"set", "delete"}, node : Node]

\* Types of all variables; an address of a node never maps to a workload, so no
\* traffic to a node is reported as traffic to one of its host-network pods.
TypeOK ==
  /\ phase \in {"owners", "listed", "all"}
  /\ early \subseteq Set /\ setApi \subseteq Set /\ setSeen \subseteq Set /\ node \subseteq Node
  /\ pod \in [Pod -> Objects] /\ podQ \in Seq(PodEvent) /\ nodeQ \in Seq(NodeEvent)
  /\ byUID \in [Pod -> Workloads \cup {None}]
  /\ byIP \in [Address -> Workloads \cup Machines \cup {None}]
  /\ \A a \in PodIP : byIP[a] \notin Machines
  /\ \A n \in Node : byIP[NodeIP[n]] \notin Workloads
  /\ moved \subseteq Address /\ changes \in 0..MaxChanges

Waiting(p) == \E i \in DOMAIN podQ : podQ[i].pod = p

\* Every pod whose notifications are handled is indexed by UID exactly while it
\* exists: no deleted pod keeps its UID, no live pod misses it.
UIDIndexExact ==
  phase = "all" => \A p \in Pod : ~Waiting(p) => (byUID[p] # None <=> p \in Live)

\* An address maps to a workload only while some pod object has it or a
\* notification that settles it is on its way, except for an address that a
\* living pod gave up: onPod never evicts the previous one.
NoStaleAddress ==
  \A a \in PodIP : byIP[a] # None =>
    \/ a \in moved
    \/ \E p \in Live : pod[p].ip = a
    \/ \E i \in DOMAIN podQ : podQ[i].type = "delete" /\ podQ[i].obj.ip = a

\* What the two phases buy: a pod whose owner was in phase 1's lists is never
\* indexed under that set while the set exists.
OwnersFirst ==
  \A p \in Pod :
    Owner[p] \in early \cap setApi => byUID[p] # SetOf(Owner[p])

\* Every live pod whose address is its own maps to its top-level owner, by UID
\* and by address, and every node's address to the node.
Right ==
  /\ \A p \in Live :
       /\ byUID[p] = Resolve(p)
       /\ Owner[p] \in setApi => byUID[p] = TopOf(Owner[p])
       /\ p \notin HostNetwork /\ pod[p].ip # None /\ Holders(pod[p].ip) = {p}
            => byIP[pod[p].ip] = byUID[p]
  /\ \A n \in node : byIP[NodeIP[n]] = NodeOf(n)

\* Once the cluster is quiet, the watches and a resync bring every live pod and
\* every node to its right identity for good, whatever order events came in.
Heals == <>[]Right

\* What onPod's comment relies on: while a node exists and its events are
\* handled, its address resolves to the Node.
NodeResolves ==
  \A n \in Node :
    phase = "all" /\ nodeQ = <<>> /\ n \in node => byIP[NodeIP[n]] = NodeOf(n)
=============================================================================
