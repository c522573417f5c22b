--------------------------- MODULE PodIndexProofs ---------------------------
(***************************************************************************)
(* Proofs about PodIndex.tla for every cluster: any pods, sets, nodes and  *)
(* addresses, any depth limit of the owner walk that reaches a set's owner *)
(* and any number of changes.                                              *)
(***************************************************************************)
EXTENDS PodIndex, FiniteSetTheorems, WellFoundedInduction, TLAPS

(***************************************************************************)
(* The inductive invariant.  UIDIndexExact and NoStaleAddress speak of a   *)
(* queue that is empty for a pod or an address; to survive the handling of *)
(* a notification they need to know what the queue says meanwhile: the     *)
(* last notification of a pod tells the truth about it (LastIsTrue), and   *)
(* an address a notification is about to index is somebody's, or was moved *)
(* away from, or a deletion behind it in the queue takes it out again      *)
(* (Claims).  OwnersFirst rests on the listers: a set of phase 1's lists   *)
(* stays in them while it exists (OwnersSeen).                             *)
(***************************************************************************)
\* Nothing is queued or indexed before phase 2.
Before ==
  phase # "all" =>
    /\ podQ = <<>> /\ nodeQ = <<>>
    /\ \A p \in Pod : byUID[p] = None
    /\ \A a \in Address : byIP[a] = None

\* A pod that is not on the host network has an address of the pod network, and
\* one that is not created yet has none.
PodNetwork ==
  /\ \A p \in Pod : pod[p].st = "new" => pod[p].ip = None
  /\ \A p \in Pod \ HostNetwork : pod[p].ip \in PodIP \cup {None}
  /\ \A i \in DOMAIN podQ :
       podQ[i].pod \notin HostNetwork => podQ[i].obj.ip \in PodIP \cup {None}

LastFor(q, i, p) ==
  /\ i \in DOMAIN q /\ q[i].pod = p
  /\ \A j \in DOMAIN q : i < j => q[j].pod # p

LastIsTrue ==
  \A p \in Pod : \A i \in DOMAIN podQ :
    LastFor(podQ, i, p) => (podQ[i].type = "set" <=> p \in Live)

\* Deletion of address a behind position i of the queue q.
Behind(q, i, a) ==
  \E j \in DOMAIN q : i < j /\ q[j].type = "delete" /\ q[j].obj.ip = a

Claims ==
  \A i \in DOMAIN podQ :
    podQ[i].type = "set" /\ podQ[i].obj.ip # None =>
      \/ podQ[i].obj.ip \in moved
      \/ podQ[i].pod \in Live /\ pod[podQ[i].pod].ip = podQ[i].obj.ip
      \/ Behind(podQ, i, podQ[i].obj.ip)

OwnersSeen ==
  /\ early \cap setApi \subseteq setSeen
  /\ \A s \in early \ setApi : \E p \in Pod : Owner[p] = s /\ pod[p].st # "new"

IInv ==
  /\ TypeOK
  /\ UIDIndexExact
  /\ NoStaleAddress
  /\ OwnersFirst
  /\ Before
  /\ PodNetwork
  /\ LastIsTrue
  /\ Claims
  /\ OwnersSeen

-----------------------------------------------------------------------------
(* Lemmas on the operators of the model.                                   *)

\* A nonempty set of numbers has a least one.
LEMMA Least ==
  ASSUME NEW T \in SUBSET Nat, T # {}
  PROVE  \E x \in T : \A y \in T : x <= y
<1> DEFINE R == OpToRel(<, Nat)
<1>1. IsWellFoundedOn(R, Nat)
  BY NatLessThanWellFounded
<1>2. \A x, y \in Nat : y < x => <<y, x>> \in R
  BY DEF OpToRel
<1> HIDE DEF R
<1>3. PICK x \in T : \A y \in T : ~(<<y, x>> \in R)
  BY <1>1, WFMin
<1>4. \A y \in T : ~(y < x)
  BY <1>2, <1>3
<1> QED
  BY <1>3, <1>4

\* The walk of ResolveTopOwner is over after two rounds when the third changes
\* nothing, whatever the depth limit.
LEMMA Walk ==
  ASSUME NEW w, Up(Up(Up(w))) = Up(Up(w))
  PROVE  ResolveTopOwner(w) = Up(Up(w))
<1> DEFINE D == 0..MaxOwnerDepth
           g == [n \in D |-> IF n = 0 THEN w ELSE IF n = 1 THEN Up(w) ELSE Up(Up(w))]
           after[n \in D] == IF n = 0 THEN w ELSE Up(after[n - 1])
<1>1. g = [n \in D |-> IF n = 0 THEN w ELSE Up(g[n - 1])]
  <2> SUFFICES ASSUME NEW n \in D PROVE g[n] = IF n = 0 THEN w ELSE Up(g[n - 1])
    OBVIOUS
  <2>1. CASE n = 0
    BY <2>1
  <2>2. CASE n = 1
    BY <2>2, DepthAssumption
  <2>3. CASE n = 2
    BY <2>3, DepthAssumption
  <2>4. CASE n > 2
    BY <2>4, DepthAssumption
  <2> QED
    BY <2>1, <2>2, <2>3, <2>4, DepthAssumption
<1>2. \E f : f = [n \in D |-> IF n = 0 THEN w ELSE Up(f[n - 1])]
  BY <1>1
<1>3. after = [n \in D |-> IF n = 0 THEN w ELSE Up(after[n - 1])]
  BY <1>2
<1>4. ResolveTopOwner(w) = after[MaxOwnerDepth]
  BY DEF ResolveTopOwner
<1> HIDE DEF after
<1>5. \A n \in D : after[n] = IF n = 0 THEN w ELSE Up(after[n - 1])
  BY <1>3
<1>6. \A n \in D : g[n] = IF n = 0 THEN w ELSE Up(g[n - 1])
  BY <1>1
<1>7. D \subseteq Nat /\ \A n \in D : n # 0 => n - 1 \in D
  BY DepthAssumption
<1>8. after[MaxOwnerDepth] = g[MaxOwnerDepth]
  <2> DEFINE Wrong == {n \in D : after[n] # g[n]}
  <2> HIDE DEF D, g
  <2> SUFFICES Wrong = {}
    BY DepthAssumption DEF D
  <2> SUFFICES ASSUME Wrong # {} PROVE FALSE
    OBVIOUS
  <2>1. PICK n \in Wrong : \A k \in Wrong : n <= k
    <3> HIDE DEF Wrong
    <3>1. Wrong \in SUBSET Nat
      BY <1>7 DEF Wrong
    <3> QED
      BY <3>1, Least
  <2>2. n \in D /\ n # 0
    BY <1>5, <1>6, <2>1
  <2>3. n - 1 \in D /\ ~(n <= n - 1)
    BY <1>7, <2>2
  <2>4. after[n - 1] = g[n - 1]
    BY <2>1, <2>3
  <2>5. after[n] = g[n]
    BY <1>5, <1>6, <2>2, <2>4
  <2> QED
    BY <2>1, <2>5
<1> QED
  BY <1>4, <1>8, DepthAssumption

-----------------------------------------------------------------------------
\* A list of a finite set is a sequence in which every element occurs.
LEMMA Listing ==
  ASSUME NEW S, IsFiniteSet(S), NEW q \in SetToSeqs(S)
  PROVE  /\ q \in Seq(S)
         /\ \A x \in S : \E i \in DOMAIN q : q[i] = x
<1> DEFINE n == Cardinality(S)
<1>1. n \in Nat
  BY FS_CardinalityType
<1>2. q \in [1..n -> S] /\ \A i, j \in 1..n : i # j => q[i] # q[j]
  BY DEF SetToSeqs
<1>3. q \in Injection(1..n, S)
  BY <1>2 DEF Injection, IsInjective
<1>4. Cardinality(1..n) = n
  BY <1>1, FS_Interval
<1>5. q \in Surjection(1..n, S)
  BY <1>3, <1>4, FS_Injection
<1> HIDE DEF n
<1> QED
  BY <1>1, <1>2, <1>5 DEF Surjection

\* The lists the informers hand over.
LEMMA ListsFinite == node \subseteq Node => IsFiniteSet(PodList) /\ IsFiniteSet(NodeList)
<1> SUFFICES ASSUME node \subseteq Node PROVE IsFiniteSet(PodList) /\ IsFiniteSet(NodeList)
  OBVIOUS
<1>1. IsFiniteSet(Live) /\ IsFiniteSet(node)
  BY FS_Subset, PodAssumption DEF Live
<1> DEFINE f == [p \in Live |-> SetEvent(p, pod[p])]
           g == [n \in node |-> [type |-> "set", node |-> n]]
<1>2. f \in Surjection(Live, PodList)
  BY DEF Surjection, PodList
<1>3. g \in Surjection(node, NodeList)
  BY DEF Surjection, NodeList
<1>4. IsFiniteSet(PodList)
  BY <1>1, <1>2, FS_Surjection
<1>5. IsFiniteSet(NodeList)
  BY <1>1, <1>3, FS_Surjection
<1> QED
  BY <1>4, <1>5

\* What GetController finds one level up.
LEMMA UpFacts ==
  /\ \A s \in Set : Up(TopOf(s)) = TopOf(s)
  /\ \A s \in Set : Up(SetOf(s)) = IF s \in setSeen THEN TopOf(s) ELSE SetOf(s)
  /\ \A p \in Pod : Up(PodOf(p)) =
       IF p \in Live /\ Owner[p] # None THEN SetOf(Owner[p]) ELSE PodOf(p)
<1>1. \A s \in Set : TopOf(s) # None /\ SetOf(s) # None
  BY NoneAssumption DEF Workloads
<1>2. \A s \in Set : GetController(TopOf(s)) = None
  BY DEF GetController, TopOf
<1>3. \A s \in Set : GetController(SetOf(s)) = IF s \in setSeen THEN TopOf(s) ELSE None
  BY DEF GetController, SetOf
<1>4. \A p \in Pod : GetController(PodOf(p)) =
        IF p \in Live /\ Owner[p] # None THEN SetOf(Owner[p]) ELSE None
  BY DEF GetController, PodOf
<1>5. \A p \in Pod : Owner[p] # None => Owner[p] \in Set
  BY PodAssumption
<1> QED
  BY <1>1, <1>2, <1>3, <1>4, <1>5 DEF Up

\* Where resolving a pod ends: at the pod when it or its owner is unknown, at
\* its set when that is not in the listers, and above the set otherwise.
LEMMA ResolveFact ==
  ASSUME NEW p \in Pod
  PROVE  Resolve(p) = IF p \notin Live \/ Owner[p] = None THEN PodOf(p)
                      ELSE IF Owner[p] \in setSeen THEN TopOf(Owner[p]) ELSE SetOf(Owner[p])
<1>1. Owner[p] # None => Owner[p] \in Set
  BY PodAssumption
<1>2. Up(Up(PodOf(p))) = IF p \notin Live \/ Owner[p] = None THEN PodOf(p)
                         ELSE IF Owner[p] \in setSeen THEN TopOf(Owner[p]) ELSE SetOf(Owner[p])
  BY <1>1, UpFacts
<1>3. Up(Up(Up(PodOf(p)))) = Up(Up(PodOf(p)))
  BY <1>1, <1>2, UpFacts
<1> QED
  BY <1>2, <1>3, Walk DEF Resolve

\* It is a workload, and not the pod's set when the listers have that.
LEMMA ResolveType ==
  ASSUME NEW p \in Pod
  PROVE  /\ Resolve(p) \in Workloads /\ Resolve(p) # None
         /\ Owner[p] \in setSeen => Resolve(p) # SetOf(Owner[p])
<1>1. Owner[p] # None => Owner[p] \in Set
  BY PodAssumption
<1>2. Resolve(p) \in Workloads
  BY <1>1, ResolveFact DEF Workloads
<1>3. PodOf(p) # SetOf(Owner[p]) /\ TopOf(Owner[p]) # SetOf(Owner[p])
  BY DEF PodOf, SetOf, TopOf
<1> QED
  BY <1>2, <1>3, ResolveFact, NoneAssumption

-----------------------------------------------------------------------------
(* The queue of pod notifications.                                         *)

\* The positions of a queue after a notification is added or taken.
LEMMA AppendAt ==
  ASSUME NEW q \in Seq(PodEvent), NEW e \in PodEvent
  PROVE  /\ Append(q, e) \in Seq(PodEvent)
         /\ Len(q) \in Nat /\ DOMAIN q = 1..Len(q) /\ DOMAIN Append(q, e) = 1..(Len(q) + 1)
         /\ \A i \in DOMAIN q : Append(q, e)[i] = q[i]
         /\ Append(q, e)[Len(q) + 1] = e
  OBVIOUS

LEMMA TailAt ==
  ASSUME NEW q \in Seq(PodEvent), q # <<>>
  PROVE  /\ Tail(q) \in Seq(PodEvent) /\ Head(q) = q[1] /\ q[1] \in PodEvent
         /\ Len(q) \in Nat \ {0} /\ DOMAIN q = 1..Len(q) /\ DOMAIN Tail(q) = 1..(Len(q) - 1)
         /\ \A i \in DOMAIN Tail(q) : i + 1 \in DOMAIN q /\ Tail(q)[i] = q[i + 1]
         /\ \A i \in DOMAIN q : i # 1 => i - 1 \in DOMAIN Tail(q) /\ Tail(q)[i - 1] = q[i]
<1> DEFINE E == PodEvent
<1> HIDE DEF E
<1>1. q \in Seq(E)
  BY DEF E
<1>2. /\ Tail(q) \in Seq(E) /\ Head(q) = q[1] /\ q[1] \in E
      /\ Len(q) \in Nat \ {0} /\ DOMAIN q = 1..Len(q) /\ Len(Tail(q)) = Len(q) - 1
      /\ DOMAIN Tail(q) = 1..(Len(q) - 1)
  BY <1>1
<1>3. \A i \in 1..(Len(q) - 1) : Tail(q)[i] = q[i + 1]
  BY <1>1, <1>2
<1> QED
  BY <1>2, <1>3 DEF E

\* The last notification of a pod after a notification is added.
LEMMA LastAppend ==
  ASSUME NEW q \in Seq(PodEvent), NEW e \in PodEvent, NEW p, NEW i, LastFor(Append(q, e), i, p)
  PROVE  \/ i = Len(q) + 1 /\ e.pod = p
         \/ e.pod # p /\ i \in DOMAIN q /\ LastFor(q, i, p)
<1> DEFINE r == Append(q, e)
<1>1. /\ Len(q) \in Nat /\ DOMAIN q = 1..Len(q) /\ DOMAIN r = 1..(Len(q) + 1)
      /\ \A k \in DOMAIN q : r[k] = q[k]
      /\ r[Len(q) + 1] = e
  BY AppendAt
<1> HIDE DEF r
<1>2. i \in DOMAIN r /\ r[i].pod = p /\ \A j \in DOMAIN r : i < j => r[j].pod # p
  BY DEF LastFor, r
<1>3. CASE i = Len(q) + 1
  BY <1>1, <1>2, <1>3
<1>4. CASE i # Len(q) + 1
  <2>1. i \in DOMAIN q /\ i < Len(q) + 1
    BY <1>1, <1>2, <1>4
  <2>2. e.pod # p
    BY <1>1, <1>2, <2>1
  <2>3. LastFor(q, i, p)
    BY <1>1, <1>2, <2>1 DEF LastFor
  <2> QED
    BY <2>1, <2>2, <2>3
<1> QED
  BY <1>3, <1>4

\* The last notification of a pod after one is taken, and the one that was the
\* only one left.
LEMMA LastTail ==
  ASSUME NEW q \in Seq(PodEvent), q # <<>>, NEW p
  PROVE  /\ \A i : LastFor(Tail(q), i, p) =>
              i \in DOMAIN Tail(q) /\ i + 1 \in DOMAIN q /\ Tail(q)[i] = q[i + 1] /\ LastFor(q, i + 1, p)
         /\ q[1].pod = p /\ (\A i \in DOMAIN Tail(q) : Tail(q)[i].pod # p) => LastFor(q, 1, p)
<1> DEFINE r == Tail(q)
<1>1. /\ Len(q) \in Nat \ {0} /\ DOMAIN q = 1..Len(q) /\ DOMAIN r = 1..(Len(q) - 1)
      /\ \A i \in DOMAIN r : i + 1 \in DOMAIN q /\ r[i] = q[i + 1]
      /\ \A i \in DOMAIN q : i # 1 => i - 1 \in DOMAIN r /\ r[i - 1] = q[i]
  BY TailAt
<1> HIDE DEF r
<1>2. ASSUME NEW i, LastFor(r, i, p)
      PROVE  i \in DOMAIN r /\ i + 1 \in DOMAIN q /\ r[i] = q[i + 1] /\ LastFor(q, i + 1, p)
  <2>1. i \in DOMAIN r /\ r[i].pod = p /\ \A j \in DOMAIN r : i < j => r[j].pod # p
    BY <1>2 DEF LastFor
  <2>2. i + 1 \in DOMAIN q /\ q[i + 1].pod = p
    BY <1>1, <2>1
  <2>3. ASSUME NEW j \in DOMAIN q, i + 1 < j PROVE q[j].pod # p
    <3>1. j # 1 /\ j - 1 \in DOMAIN r /\ i < j - 1
      BY <1>1, <2>1, <2>3
    <3> QED
      BY <1>1, <2>1, <3>1
  <2> QED
    BY <1>1, <2>1, <2>2, <2>3 DEF LastFor
<1>3. ASSUME q[1].pod = p, \A i \in DOMAIN r : r[i].pod # p PROVE LastFor(q, 1, p)
  <2>1. ASSUME NEW j \in DOMAIN q, 1 < j PROVE q[j].pod # p
    BY <1>1, <1>3, <2>1
  <2> QED
    BY <1>1, <1>3, <2>1 DEF LastFor
<1> QED
  BY <1>2, <1>3 DEF r

-----------------------------------------------------------------------------
(* The steps.                                                              *)

\* What the cluster's changes of a pod have in common: the pod becomes obj, and
\* the notification e of it is queued when the informer runs.
PodStep(p, obj, e) ==
  /\ obj \in Objects /\ obj.st # "new" /\ e \in PodEvent /\ e.pod = p
  /\ pod' = [pod EXCEPT ![p] = obj] /\ podQ' = Notify(podQ, e)
  /\ e.type = "set" <=> obj.st = "live"
  /\ e.obj.ip = obj.ip
  /\ p \notin HostNetwork => obj.ip \in PodIP \cup {None}
  /\ moved \subseteq moved' /\ moved' \subseteq Address
  /\ pod[p].ip \in {None, obj.ip} \cup moved'
  /\ changes' \in 0..MaxChanges
  /\ UNCHANGED <<phase, early, setApi, setSeen, node, nodeQ, byIP, byUID>>

LEMMA PodStepInv ==
  ASSUME IInv, NEW p \in Pod, NEW obj, NEW e, PodStep(p, obj, e)
  PROVE  IInv'
<1>1. /\ obj \in Objects /\ obj.st # "new" /\ e \in PodEvent /\ e.pod = p
      /\ e.type = "set" <=> obj.st = "live"
      /\ e.obj.ip = obj.ip
      /\ p \notin HostNetwork => obj.ip \in PodIP \cup {None}
      /\ moved \subseteq moved' /\ moved' \subseteq Address
      /\ pod[p].ip \in {None, obj.ip} \cup moved'
      /\ changes' \in 0..MaxChanges
      /\ UNCHANGED <<phase, early, setApi, setSeen, node, nodeQ, byIP, byUID>>
  BY DEF PodStep
<1>2. /\ pod' \in [Pod -> Objects] /\ pod'[p] = obj
      /\ \A r \in Pod \ {p} : pod'[r] = pod[r]
  BY DEF PodStep, IInv, TypeOK
<1>3. /\ \A r \in Pod \ {p} : r \in Live' <=> r \in Live
      /\ p \in Live' <=> obj.st = "live"
  BY <1>2 DEF Live
<1>4. podQ \in Seq(PodEvent)
  BY DEF IInv, TypeOK
<1>5. phase = "all" => podQ' = Append(podQ, e)
  BY DEF PodStep, Notify
<1>6. phase # "all" => podQ' = <<>> /\ podQ = <<>>
  BY DEF PodStep, Notify, IInv, Before
<1>7. /\ Append(podQ, e) \in Seq(PodEvent)
      /\ Len(podQ) \in Nat /\ DOMAIN podQ = 1..Len(podQ)
      /\ DOMAIN Append(podQ, e) = 1..(Len(podQ) + 1)
      /\ \A i \in DOMAIN podQ : Append(podQ, e)[i] = podQ[i]
      /\ Append(podQ, e)[Len(podQ) + 1] = e
  BY <1>1, <1>4, AppendAt
<1>8. /\ DOMAIN podQ \subseteq DOMAIN podQ' /\ \A i \in DOMAIN podQ : podQ'[i] = podQ[i]
      /\ \A i \in DOMAIN podQ' : i \in DOMAIN podQ \/ (i = Len(podQ) + 1 /\ podQ'[i] = e)
      /\ phase = "all" => Len(podQ) + 1 \in DOMAIN podQ' /\ podQ'[Len(podQ) + 1] = e
      /\ \A i \in DOMAIN podQ : i < Len(podQ) + 1
  <2>1. CASE phase = "all"
    BY <1>5, <1>7, <2>1
  <2>2. CASE phase # "all"
    BY <1>6, <2>2
  <2> QED
    BY <2>1, <2>2
<1>9. TypeOK'
  <2>1. podQ' \in Seq(PodEvent)
    BY <1>5, <1>6, <1>7
  <2> QED
    BY <1>1, <1>2, <2>1 DEF IInv, TypeOK
<1>10. Before'
  BY <1>1, <1>6 DEF IInv, Before
<1>11. PodNetwork'
  <2>1. \A r \in Pod \ HostNetwork : pod'[r].ip \in PodIP \cup {None}
    BY <1>1, <1>2 DEF IInv, PodNetwork
  <2>2. \A i \in DOMAIN podQ' :
          podQ'[i].pod \notin HostNetwork => podQ'[i].obj.ip \in PodIP \cup {None}
    BY <1>1, <1>8 DEF IInv, PodNetwork
  <2>3. \A r \in Pod : pod'[r].st = "new" => pod'[r].ip = None
    BY <1>1, <1>2 DEF IInv, PodNetwork
  <2> QED
    BY <2>1, <2>2, <2>3 DEF PodNetwork
<1>12. LastIsTrue'
  <2> SUFFICES ASSUME NEW r \in Pod, NEW i \in DOMAIN podQ', LastFor(podQ', i, r)
               PROVE  podQ'[i].type = "set" <=> r \in Live'
    BY DEF LastIsTrue
  <2>1. phase = "all"
    BY <1>6
  <2>2. \/ i = Len(podQ) + 1 /\ e.pod = r
        \/ e.pod # r /\ i \in DOMAIN podQ /\ LastFor(podQ, i, r)
    BY <1>1, <1>4, <1>5, <2>1, LastAppend
  <2>3. CASE i = Len(podQ) + 1 /\ e.pod = r
    BY <1>1, <1>3, <1>8, <2>1, <2>3
  <2>4. CASE e.pod # r /\ i \in DOMAIN podQ /\ LastFor(podQ, i, r)
    <3>1. podQ[i].type = "set" <=> r \in Live
      BY <2>4 DEF IInv, LastIsTrue
    <3> QED
      BY <1>1, <1>3, <1>8, <2>4, <3>1
  <2> QED
    BY <2>2, <2>3, <2>4
<1>13. UIDIndexExact'
  <2> SUFFICES ASSUME phase = "all", NEW r \in Pod, ~Waiting(r)'
               PROVE  byUID[r] # None <=> r \in Live'
    BY <1>1 DEF UIDIndexExact
  <2>1. r # p
    BY <1>1, <1>8 DEF Waiting
  <2>2. ~Waiting(r)
    BY <1>8 DEF Waiting
  <2> QED
    BY <1>3, <2>1, <2>2 DEF IInv, UIDIndexExact
<1>14. ASSUME NEW a, a # None,
              \/ a \in moved
              \/ \E r \in Live : pod[r].ip = a
              \/ \E i \in DOMAIN podQ : podQ[i].type = "delete" /\ podQ[i].obj.ip = a
       PROVE  phase = "all" =>
              \/ a \in moved'
              \/ \E r \in Live' : pod'[r].ip = a
              \/ \E i \in DOMAIN podQ' : podQ'[i].type = "delete" /\ podQ'[i].obj.ip = a
  <2>1. CASE a \in moved
    BY <1>1, <2>1
  <2>2. CASE \E i \in DOMAIN podQ : podQ[i].type = "delete" /\ podQ[i].obj.ip = a
    BY <1>8, <2>2
  <2>3. ASSUME NEW r \in Live, pod[r].ip = a, r # p
        PROVE  r \in Live' /\ pod'[r].ip = a
    BY <1>2, <1>3, <2>3 DEF Live
  <2>4. ASSUME phase = "all", p \in Live, pod[p].ip = a
        PROVE  \/ a \in moved'
               \/ p \in Live' /\ pod'[p].ip = a
               \/ \E i \in DOMAIN podQ' : podQ'[i].type = "delete" /\ podQ'[i].obj.ip = a
    <3>1. CASE a \in moved'
      BY <3>1
    <3>2. CASE a \notin moved' /\ obj.st = "live"
      BY <1>1, <1>2, <1>3, <1>14, <2>4, <3>2
    <3>3. CASE a \notin moved' /\ obj.st # "live"
      <4>1. e.type = "delete" /\ e.obj.ip = a
        BY <1>1, <1>14, <2>4, <3>3 DEF PodEvent
      <4> QED
        BY <1>8, <2>4, <4>1
    <3> QED
      BY <3>1, <3>2, <3>3
  <2> QED
    BY <1>14, <2>1, <2>2, <2>3, <2>4
<1>15. NoStaleAddress'
  <2> SUFFICES ASSUME NEW a \in PodIP, byIP[a] # None
               PROVE  \/ a \in moved'
                      \/ \E r \in Live' : pod'[r].ip = a
                      \/ \E i \in DOMAIN podQ' : podQ'[i].type = "delete" /\ podQ'[i].obj.ip = a
    BY <1>1 DEF NoStaleAddress
  <2>1. a # None /\ phase = "all"
    BY AddressAssumption DEF IInv, Before, Address
  <2> QED
    BY <1>14, <2>1 DEF IInv, NoStaleAddress
<1>16. Claims'
  <2> SUFFICES ASSUME NEW i \in DOMAIN podQ', podQ'[i].type = "set", podQ'[i].obj.ip # None
               PROVE  \/ podQ'[i].obj.ip \in moved'
                      \/ podQ'[i].pod \in Live' /\ pod'[podQ'[i].pod].ip = podQ'[i].obj.ip
                      \/ Behind(podQ', i, podQ'[i].obj.ip)
    BY DEF Claims
  <2>0. phase = "all"
    BY <1>6
  <2>1. CASE i = Len(podQ) + 1
    BY <1>1, <1>2, <1>3, <1>7, <1>8, <2>1
  <2>2. CASE i \in DOMAIN podQ
    <3> DEFINE a == podQ[i].obj.ip
               r == podQ[i].pod
    <3>1. podQ'[i] = podQ[i] /\ r \in Pod
      <4>1. podQ[i] \in PodEvent
        BY <1>4, <2>2
      <4> QED
        BY <1>8, <2>2, <4>1 DEF PodEvent
    <3>2. a \in moved \/ (r \in Live /\ pod[r].ip = a) \/ Behind(podQ, i, a)
      BY <2>2, <3>1 DEF IInv, Claims
    <3>3. Behind(podQ, i, a) => Behind(podQ', i, a)
      BY <1>8, <3>1 DEF Behind
    <3>4. r # p /\ r \in Live /\ pod[r].ip = a => r \in Live' /\ pod'[r].ip = a
      BY <1>2, <1>3, <3>1
    <3>5. r = p /\ p \in Live /\ pod[p].ip = a =>
            a \in moved' \/ (p \in Live' /\ pod'[p].ip = a) \/ Behind(podQ', i, a)
      <4> SUFFICES ASSUME r = p, p \in Live, pod[p].ip = a, a \notin moved', ~(p \in Live' /\ pod'[p].ip = a)
                   PROVE  Behind(podQ', i, a)
        OBVIOUS
      <4>1. obj.ip = a
        BY <1>1, <3>1
      <4>2. obj.st # "live"
        BY <1>2, <1>3, <4>1
      <4>3. e.type = "delete" /\ e.obj.ip = a
        BY <1>1, <4>1, <4>2 DEF PodEvent
      <4> QED
        BY <1>8, <2>0, <2>2, <3>1, <4>3 DEF Behind
    <3> QED
      BY <1>1, <3>1, <3>2, <3>3, <3>4, <3>5
  <2> QED
    BY <1>8, <2>1, <2>2
<1>17. OwnersFirst' /\ OwnersSeen'
  BY <1>1, <1>2 DEF IInv, OwnersFirst, OwnersSeen
<1> QED
  BY <1>9, <1>10, <1>11, <1>12, <1>13, <1>15, <1>16, <1>17 DEF IInv

\* A list or a resync: every live pod, and no other, has one notification.
LEMMA ListStepInv ==
  ASSUME IInv, podQ = <<>>, podQ' \in SetToSeqs(PodList), nodeQ' \in Seq(NodeEvent),
         phase' = "all", UNCHANGED <<early, setSeen, byIP, byUID, clusterVars>>,
         \A r \in Pod \ Live : byUID[r] = None
  PROVE  IInv'
<1>1. UNCHANGED <<early, setSeen, byIP, byUID, setApi, pod, node, moved, changes>>
  BY DEF clusterVars
<1>2. Live' = Live
  BY <1>1 DEF Live
<1>3. node \subseteq Node /\ pod \in [Pod -> Objects]
  BY DEF IInv, TypeOK
<1>4. podQ' \in Seq(PodList) /\ \A x \in PodList : \E i \in DOMAIN podQ' : podQ'[i] = x
  BY <1>3, ListsFinite, Listing
<1>5. \A i \in DOMAIN podQ' : podQ'[i] \in PodList
  BY <1>4
<1>6. \A i \in DOMAIN podQ' : /\ podQ'[i].type = "set" /\ podQ'[i].pod \in Live
                              /\ podQ'[i].obj = pod[podQ'[i].pod]
  BY <1>5 DEF PodList, SetEvent
<1>7. \A r \in Live : \E i \in DOMAIN podQ' : podQ'[i].pod = r
  <2> SUFFICES ASSUME NEW r \in Live PROVE \E i \in DOMAIN podQ' : podQ'[i].pod = r
    OBVIOUS
  <2>1. SetEvent(r, pod[r]) \in PodList
    BY DEF PodList
  <2>2. PICK i \in DOMAIN podQ' : podQ'[i] = SetEvent(r, pod[r])
    BY <1>4, <2>1
  <2> QED
    BY <2>2 DEF SetEvent
<1>8. TypeOK'
  <2>1. PodList \subseteq PodEvent
    BY <1>3 DEF PodList, PodEvent, SetEvent, Live
  <2>2. podQ' \in Seq(PodEvent)
    BY <1>4, <2>1
  <2> QED
    BY <1>1, <2>2 DEF IInv, TypeOK
<1>9. UIDIndexExact'
  <2> SUFFICES ASSUME NEW r \in Pod, ~Waiting(r)' PROVE byUID[r] # None <=> r \in Live
    BY <1>1, <1>2 DEF UIDIndexExact
  <2>1. r \notin Live
    BY <1>7 DEF Waiting
  <2> QED
    BY <2>1
<1>10. NoStaleAddress'
  BY <1>1, <1>2 DEF IInv, NoStaleAddress
<1>11. Before'
  BY DEF Before
<1>12. PodNetwork'
  BY <1>1, <1>6 DEF IInv, PodNetwork, Live
<1>13. LastIsTrue'
  BY <1>2, <1>6 DEF LastIsTrue, LastFor
<1>14. Claims'
  BY <1>1, <1>2, <1>6 DEF Claims
<1>15. OwnersFirst' /\ OwnersSeen'
  BY <1>1 DEF IInv, OwnersFirst, OwnersSeen
<1> QED
  BY <1>8, <1>9, <1>10, <1>11, <1>12, <1>13, <1>14, <1>15 DEF IInv

\* What a pod handler finds when it takes a notification, and leaves behind.
LEMMA TakeStep ==
  ASSUME IInv, podQ # <<>>, podQ' = Tail(podQ), UNCHANGED <<phase, clusterVars>>
  PROVE  /\ Head(podQ) \in PodEvent /\ podQ' \in Seq(PodEvent) /\ phase = "all"
         /\ PodNetwork' /\ LastIsTrue' /\ Claims' /\ Live' = Live
         /\ \A r \in Pod : r # Head(podQ).pod /\ ~Waiting(r)' => ~Waiting(r)
         /\ \A r \in Pod : r = Head(podQ).pod /\ ~Waiting(r)' =>
              (Head(podQ).type = "set" <=> r \in Live)
         /\ Head(podQ).pod \notin HostNetwork => Head(podQ).obj.ip \in PodIP \cup {None}
         /\ \A i \in DOMAIN podQ : i # 1 => \E k \in DOMAIN podQ' : podQ'[k] = podQ[i]
         /\ Head(podQ).type = "set" /\ Head(podQ).obj.ip # None =>
              \/ Head(podQ).obj.ip \in moved
              \/ Head(podQ).pod \in Live /\ pod[Head(podQ).pod].ip = Head(podQ).obj.ip
              \/ \E k \in DOMAIN podQ' : podQ'[k].type = "delete" /\ podQ'[k].obj.ip = Head(podQ).obj.ip
<1>1. UNCHANGED <<setApi, pod, node, moved, changes>> /\ Live' = Live
  BY DEF clusterVars, Live
<1>2. podQ \in Seq(PodEvent)
  BY DEF IInv, TypeOK
<1>3. /\ podQ' \in Seq(PodEvent) /\ Head(podQ) = podQ[1] /\ podQ[1] \in PodEvent
      /\ Len(podQ) \in Nat \ {0} /\ DOMAIN podQ = 1..Len(podQ) /\ DOMAIN podQ' = 1..(Len(podQ) - 1)
      /\ \A i \in DOMAIN podQ' : i + 1 \in DOMAIN podQ /\ podQ'[i] = podQ[i + 1]
      /\ \A i \in DOMAIN podQ : i # 1 => i - 1 \in DOMAIN podQ' /\ podQ'[i - 1] = podQ[i]
  BY <1>2, TailAt
<1>4. 1 \in DOMAIN podQ
  BY <1>3
<1>5. phase = "all"
  BY DEF IInv, Before
<1>6. PodNetwork'
  BY <1>1, <1>3 DEF IInv, PodNetwork
<1>7. LastIsTrue'
  <2> SUFFICES ASSUME NEW r \in Pod, NEW i \in DOMAIN podQ', LastFor(podQ', i, r)
               PROVE  podQ'[i].type = "set" <=> r \in Live
    BY <1>1 DEF LastIsTrue
  <2>1. i + 1 \in DOMAIN podQ /\ podQ'[i] = podQ[i + 1] /\ LastFor(podQ, i + 1, r)
    BY <1>2, LastTail
  <2> QED
    BY <2>1 DEF IInv, LastIsTrue
<1>8. ASSUME NEW i \in DOMAIN podQ, NEW a, Behind(podQ, i, a)
      PROVE  \E k \in DOMAIN podQ' : i - 1 < k /\ podQ'[k].type = "delete" /\ podQ'[k].obj.ip = a
  <2>1. PICK j \in DOMAIN podQ : i < j /\ podQ[j].type = "delete" /\ podQ[j].obj.ip = a
    BY <1>8 DEF Behind
  <2>2. j # 1 /\ i - 1 < j - 1
    BY <1>3, <2>1
  <2> QED
    BY <1>3, <2>1, <2>2
<1>9. Claims'
  <2> SUFFICES ASSUME NEW i \in DOMAIN podQ', podQ'[i].type = "set", podQ'[i].obj.ip # None
               PROVE  \/ podQ'[i].obj.ip \in moved
                      \/ podQ'[i].pod \in Live /\ pod[podQ'[i].pod].ip = podQ'[i].obj.ip
                      \/ Behind(podQ', i, podQ'[i].obj.ip)
    BY <1>1 DEF Claims
  <2>1. i + 1 \in DOMAIN podQ /\ podQ'[i] = podQ[i + 1] /\ (i + 1) - 1 = i
    BY <1>3
  <2>2. \/ podQ'[i].obj.ip \in moved
        \/ podQ'[i].pod \in Live /\ pod[podQ'[i].pod].ip = podQ'[i].obj.ip
        \/ Behind(podQ, i + 1, podQ'[i].obj.ip)
    BY <2>1 DEF IInv, Claims
  <2>3. Behind(podQ, i + 1, podQ'[i].obj.ip) => Behind(podQ', i, podQ'[i].obj.ip)
    <3> SUFFICES ASSUME Behind(podQ, i + 1, podQ'[i].obj.ip) PROVE Behind(podQ', i, podQ'[i].obj.ip)
      OBVIOUS
    <3>1. \E k \in DOMAIN podQ' : (i + 1) - 1 < k /\ podQ'[k].type = "delete"
                                  /\ podQ'[k].obj.ip = podQ'[i].obj.ip
      BY <1>8, <2>1
    <3> QED
      BY <2>1, <3>1 DEF Behind
  <2> QED
    BY <2>2, <2>3
<1>10. \A r \in Pod : r # Head(podQ).pod /\ ~Waiting(r)' => ~Waiting(r)
  <2> SUFFICES ASSUME NEW r \in Pod, r # podQ[1].pod, ~Waiting(r)', NEW i \in DOMAIN podQ
               PROVE  podQ[i].pod # r
    BY <1>3 DEF Waiting
  <2>1. CASE i = 1
    BY <2>1
  <2>2. CASE i # 1
    BY <1>3, <2>2 DEF Waiting
  <2> QED
    BY <2>1, <2>2
<1>11. \A r \in Pod : r = Head(podQ).pod /\ ~Waiting(r)' => (Head(podQ).type = "set" <=> r \in Live)
  <2> SUFFICES ASSUME NEW r \in Pod, podQ[1].pod = r, ~Waiting(r)'
               PROVE  podQ[1].type = "set" <=> r \in Live
    BY <1>3
  <2>1. LastFor(podQ, 1, r)
    BY <1>2, LastTail DEF Waiting
  <2> QED
    BY <1>4, <2>1 DEF IInv, LastIsTrue
<1>12. Head(podQ).pod \notin HostNetwork => Head(podQ).obj.ip \in PodIP \cup {None}
  BY <1>3, <1>4 DEF IInv, PodNetwork
<1>13. \A i \in DOMAIN podQ : i # 1 => \E k \in DOMAIN podQ' : podQ'[k] = podQ[i]
  BY <1>3
<1>14. Head(podQ).type = "set" /\ Head(podQ).obj.ip # None =>
         \/ Head(podQ).obj.ip \in moved
         \/ Head(podQ).pod \in Live /\ pod[Head(podQ).pod].ip = Head(podQ).obj.ip
         \/ \E k \in DOMAIN podQ' : podQ'[k].type = "delete" /\ podQ'[k].obj.ip = Head(podQ).obj.ip
  BY <1>3, <1>4, <1>8 DEF IInv, Claims
<1> QED
  BY <1>1, <1>3, <1>5, <1>6, <1>7, <1>9, <1>10, <1>11, <1>12, <1>13, <1>14

LEMMA OnPodInv ==
  ASSUME IInv, OnPod
  PROVE  IInv'
<1> DEFINE ev == Head(podQ)
           p == ev.pod
           w == Resolve(p)
<1>1. /\ podQ # <<>> /\ ev.type = "set" /\ podQ' = Tail(podQ)
      /\ UNCHANGED <<phase, early, setSeen, nodeQ>> /\ UNCHANGED clusterVars
      /\ byUID' = [byUID EXCEPT ![p] = w]
      /\ byIP' = [a \in Address |-> IF a \in IndexedIPs(p, ev.obj) THEN w ELSE byIP[a]]
  BY DEF OnPod
<1>2. UNCHANGED <<setApi, pod, node, moved, changes>>
  BY <1>1 DEF clusterVars
<1>3. /\ ev \in PodEvent /\ podQ' \in Seq(PodEvent) /\ phase = "all"
      /\ PodNetwork' /\ LastIsTrue' /\ Claims' /\ Live' = Live
      /\ \A r \in Pod : r # p /\ ~Waiting(r)' => ~Waiting(r)
      /\ \A r \in Pod : r = p /\ ~Waiting(r)' => (ev.type = "set" <=> r \in Live)
      /\ p \notin HostNetwork => ev.obj.ip \in PodIP \cup {None}
      /\ \A i \in DOMAIN podQ : i # 1 => \E k \in DOMAIN podQ' : podQ'[k] = podQ[i]
      /\ ev.type = "set" /\ ev.obj.ip # None =>
           \/ ev.obj.ip \in moved
           \/ p \in Live /\ pod[p].ip = ev.obj.ip
           \/ \E k \in DOMAIN podQ' : podQ'[k].type = "delete" /\ podQ'[k].obj.ip = ev.obj.ip
  BY <1>1, TakeStep
<1>4. podQ[1] = ev
  BY <1>1 DEF IInv, TypeOK
<1> HIDE DEF ev
<1>5. p \in Pod
  BY <1>3 DEF PodEvent
<1>6. /\ w \in Workloads /\ w # None
      /\ Owner[p] \in setSeen => w # SetOf(Owner[p])
  BY <1>5, ResolveType
<1> HIDE DEF w, p
<1>7. byUID' \in [Pod -> Workloads \cup {None}] /\ byUID'[p] = w
      /\ \A r \in Pod \ {p} : byUID'[r] = byUID[r]
  BY <1>1, <1>5, <1>6 DEF IInv, TypeOK
<1>8. IndexedIPs(p, ev.obj) \subseteq PodIP \cap {ev.obj.ip} /\ None \notin IndexedIPs(p, ev.obj)
  BY <1>3 DEF IndexedIPs, PodIPs
<1> DEFINE J == IndexedIPs(p, ev.obj)
<1> HIDE DEF J
<1>9. /\ DOMAIN byIP' = Address
      /\ \A a \in Address : byIP'[a] = IF a \in J THEN w ELSE byIP[a]
  BY <1>1 DEF J
<1>10. TypeOK'
  <2>1. byIP' \in [Address -> Workloads \cup Machines \cup {None}]
    BY <1>1, <1>6 DEF IInv, TypeOK
  <2>2. \A a \in PodIP : byIP'[a] \notin Machines
    <3>1. w \notin Machines
      BY <1>6 DEF Workloads, Machines, NodeOf, TopOf, SetOf, PodOf
    <3> QED
      BY <1>9, <3>1 DEF IInv, TypeOK, Address
  <2>3. \A n \in Node : byIP'[NodeIP[n]] \notin Workloads
    <3>1. \A n \in Node : NodeIP[n] \in Address /\ NodeIP[n] \notin J
      BY <1>8, AddressAssumption DEF J, Address
    <3> QED
      BY <1>9, <3>1 DEF IInv, TypeOK
  <2> QED
    BY <1>1, <1>2, <1>3, <1>7, <2>1, <2>2, <2>3 DEF IInv, TypeOK
<1>11. UIDIndexExact'
  <2> SUFFICES ASSUME NEW r \in Pod, ~Waiting(r)' PROVE byUID'[r] # None <=> r \in Live
    BY <1>3 DEF UIDIndexExact
  <2>1. CASE r = p
    BY <1>1, <1>3, <1>6, <1>7, <2>1
  <2>2. CASE r # p
    BY <1>3, <1>7, <2>2 DEF IInv, UIDIndexExact
  <2> QED
    BY <2>1, <2>2
<1>12. NoStaleAddress'
  <2> SUFFICES ASSUME NEW a \in PodIP, byIP'[a] # None
               PROVE  \/ a \in moved
                      \/ \E r \in Live : pod[r].ip = a
                      \/ \E i \in DOMAIN podQ' : podQ'[i].type = "delete" /\ podQ'[i].obj.ip = a
    BY <1>2, <1>3 DEF NoStaleAddress
  <2>1. CASE a \in J
    <3>1. a = ev.obj.ip /\ a # None
      BY <1>8, <2>1 DEF J
    <3> QED
      BY <1>1, <1>3, <3>1
  <2>2. CASE a \notin J
    <3>1. byIP[a] # None
      BY <1>9, <2>2 DEF Address
    <3>2. \/ a \in moved
          \/ \E r \in Live : pod[r].ip = a
          \/ \E i \in DOMAIN podQ : podQ[i].type = "delete" /\ podQ[i].obj.ip = a
      BY <3>1 DEF IInv, NoStaleAddress
    <3>3. \A i \in DOMAIN podQ : podQ[i].type = "delete" => i # 1
      BY <1>1, <1>4
    <3> QED
      BY <1>3, <3>2, <3>3
  <2> QED
    BY <2>1, <2>2
<1>13. Before'
  BY <1>1, <1>3 DEF Before
<1>14. OwnersSeen'
  BY <1>1, <1>2 DEF IInv, OwnersSeen
<1>15. OwnersFirst'
  <2> SUFFICES ASSUME NEW r \in Pod, Owner[r] \in early \cap setApi PROVE byUID'[r] # SetOf(Owner[r])
    BY <1>1, <1>2 DEF OwnersFirst
  <2>1. CASE r = p
    BY <1>6, <1>7, <2>1 DEF IInv, OwnersSeen
  <2>2. CASE r # p
    BY <1>7, <2>2 DEF IInv, OwnersFirst
  <2> QED
    BY <2>1, <2>2
<1> QED
  BY <1>3, <1>10, <1>11, <1>12, <1>13, <1>14, <1>15 DEF IInv

LEMMA OnPodDeleteInv ==
  ASSUME IInv, OnPodDelete
  PROVE  IInv'
<1> DEFINE ev == Head(podQ)
           p == ev.pod
<1>1. /\ podQ # <<>> /\ ev.type = "delete" /\ podQ' = Tail(podQ)
      /\ UNCHANGED <<phase, early, setSeen, nodeQ>> /\ UNCHANGED clusterVars
      /\ byUID' = [byUID EXCEPT ![p] = None]
      /\ byIP' = [a \in Address |-> IF a \in PodIPs(ev.obj) THEN None ELSE byIP[a]]
  BY DEF OnPodDelete
<1>2. UNCHANGED <<setApi, pod, node, moved, changes>>
  BY <1>1 DEF clusterVars
<1>3. /\ ev \in PodEvent /\ podQ' \in Seq(PodEvent) /\ phase = "all"
      /\ PodNetwork' /\ LastIsTrue' /\ Claims' /\ Live' = Live
      /\ \A r \in Pod : r # p /\ ~Waiting(r)' => ~Waiting(r)
      /\ \A r \in Pod : r = p /\ ~Waiting(r)' => (ev.type = "set" <=> r \in Live)
      /\ \A i \in DOMAIN podQ : i # 1 => \E k \in DOMAIN podQ' : podQ'[k] = podQ[i]
  BY <1>1, TakeStep
<1>4. podQ[1] = ev
  BY <1>1 DEF IInv, TypeOK
<1> HIDE DEF ev
<1>5. p \in Pod
  BY <1>3 DEF PodEvent
<1> HIDE DEF p
<1>6. byUID' \in [Pod -> Workloads \cup {None}] /\ byUID'[p] = None
      /\ \A r \in Pod \ {p} : byUID'[r] = byUID[r]
  BY <1>1, <1>5 DEF IInv, TypeOK
<1>7. \A a \in Address : byIP'[a] = IF a = ev.obj.ip THEN None ELSE byIP[a]
  <2>1. None \notin Address
    BY AddressAssumption DEF Address
  <2> QED
    BY <1>1, <2>1 DEF PodIPs
<1>8. TypeOK'
  <2>1. byIP' \in [Address -> Workloads \cup Machines \cup {None}]
    BY <1>1 DEF IInv, TypeOK
  <2>2. \A a \in PodIP : byIP'[a] \notin Machines
    BY <1>7, NoneAssumption DEF IInv, TypeOK, Address
  <2>3. \A n \in Node : byIP'[NodeIP[n]] \notin Workloads
    <3>1. \A n \in Node : NodeIP[n] \in Address
      BY DEF Address
    <3> QED
      BY <1>7, <3>1, NoneAssumption DEF IInv, TypeOK
  <2> QED
    BY <1>1, <1>2, <1>3, <1>6, <2>1, <2>2, <2>3 DEF IInv, TypeOK
<1>9. UIDIndexExact'
  <2> SUFFICES ASSUME NEW r \in Pod, ~Waiting(r)' PROVE byUID'[r] # None <=> r \in Live
    BY <1>3 DEF UIDIndexExact
  <2>1. CASE r = p
    BY <1>1, <1>3, <1>6, <2>1
  <2>2. CASE r # p
    BY <1>1, <1>3, <1>6, <2>2 DEF IInv, UIDIndexExact
  <2> QED
    BY <2>1, <2>2
<1>10. NoStaleAddress'
  <2> SUFFICES ASSUME NEW a \in PodIP, byIP'[a] # None
               PROVE  \/ a \in moved
                      \/ \E r \in Live : pod[r].ip = a
                      \/ \E i \in DOMAIN podQ' : podQ'[i].type = "delete" /\ podQ'[i].obj.ip = a
    BY <1>2, <1>3 DEF NoStaleAddress
  <2>1. a # ev.obj.ip /\ byIP[a] # None
    BY <1>7 DEF Address
  <2>2. \/ a \in moved
        \/ \E r \in Live : pod[r].ip = a
        \/ \E i \in DOMAIN podQ : podQ[i].type = "delete" /\ podQ[i].obj.ip = a
    BY <2>1 DEF IInv, NoStaleAddress
  <2>3. \A i \in DOMAIN podQ : podQ[i].obj.ip = a => i # 1
    BY <1>4, <2>1
  <2> QED
    BY <1>3, <2>2, <2>3
<1>11. Before'
  BY <1>1, <1>3 DEF Before
<1>12. OwnersSeen'
  BY <1>1, <1>2 DEF IInv, OwnersSeen
<1>13. OwnersFirst'
  <2> SUFFICES ASSUME NEW r \in Pod, Owner[r] \in early \cap setApi PROVE byUID'[r] # SetOf(Owner[r])
    BY <1>1, <1>2 DEF OwnersFirst
  <2>1. SetOf(Owner[r]) # None
    BY NoneAssumption DEF Workloads, IInv, TypeOK
  <2> QED
    BY <1>6, <2>1 DEF IInv, OwnersFirst
<1> QED
  BY <1>3, <1>8, <1>9, <1>10, <1>11, <1>12, <1>13 DEF IInv

\* The parts about the pods' notifications, for a step that leaves those alone.
LEMMA SamePods ==
  ASSUME IInv, UNCHANGED <<phase, pod, podQ, byUID, moved>>
  PROVE  UIDIndexExact' /\ PodNetwork' /\ LastIsTrue' /\ Claims' /\ Live' = Live
<1>1. Live' = Live
  BY DEF Live
<1> QED
  BY <1>1 DEF IInv, UIDIndexExact, PodNetwork, LastIsTrue, Claims, Waiting

\* A node handler writes only the address of a node.
LEMMA NodeHandlerInv ==
  ASSUME IInv, OnNode \/ OnNodeDelete
  PROVE  IInv'
<1>1. /\ nodeQ # <<>> /\ nodeQ' = Tail(nodeQ)
      /\ UNCHANGED <<phase, early, setSeen, podQ, byUID, setApi, pod, node, moved, changes>>
  BY DEF OnNode, OnNodeDelete, clusterVars
<1> DEFINE E == NodeEvent
           n == Head(nodeQ).node
<1>2. Head(nodeQ) \in NodeEvent /\ nodeQ' \in Seq(NodeEvent)
  <2>1. nodeQ \in Seq(E)
    BY DEF IInv, TypeOK
  <2> HIDE DEF E
  <2>2. Head(nodeQ) \in E /\ Tail(nodeQ) \in Seq(E)
    BY <1>1, <2>1
  <2> QED
    BY <1>1, <2>2 DEF E
<1>3. n \in Node
  BY <1>2 DEF NodeEvent
<1>4. PICK w \in Machines \cup {None} : byIP' = [byIP EXCEPT ![NodeIP[n]] = w]
  BY <1>3 DEF OnNode, OnNodeDelete, Machines
<1> HIDE DEF n
<1>5. /\ NodeIP[n] \in Address /\ NodeIP[n] \notin PodIP
      /\ \A a \in PodIP : a \in Address
  BY <1>3, AddressAssumption DEF Address
<1>6. /\ byIP' \in [Address -> Workloads \cup Machines \cup {None}]
      /\ \A a \in Address : byIP'[a] = IF a = NodeIP[n] THEN w ELSE byIP[a]
  BY <1>4, <1>5 DEF IInv, TypeOK
<1>7. \A a \in PodIP : byIP'[a] = byIP[a]
  BY <1>5, <1>6
<1>8. TypeOK'
  <2>1. w \notin Workloads
    BY <1>4, NoneAssumption DEF Workloads, Machines, NodeOf, TopOf, SetOf, PodOf
  <2>2. \A m \in Node : NodeIP[m] \in Address
    BY DEF Address
  <2>3. \A m \in Node : byIP'[NodeIP[m]] \notin Workloads
    BY <1>6, <2>1, <2>2 DEF IInv, TypeOK
  <2> QED
    BY <1>1, <1>2, <1>6, <1>7, <2>3 DEF IInv, TypeOK
<1>9. UIDIndexExact' /\ PodNetwork' /\ LastIsTrue' /\ Claims' /\ Live' = Live
  BY <1>1, SamePods
<1>10. NoStaleAddress'
  BY <1>1, <1>7, <1>9 DEF IInv, NoStaleAddress
<1>11. Before'
  BY <1>1 DEF IInv, Before
<1>12. OwnersFirst' /\ OwnersSeen'
  BY <1>1 DEF IInv, OwnersFirst, OwnersSeen
<1> QED
  BY <1>8, <1>9, <1>10, <1>11, <1>12 DEF IInv

\* A change of the nodes or of the sets, or progress of a watch.
LEMMA OtherInv ==
  ASSUME IInv, UNCHANGED <<phase, pod, podQ, byIP, byUID, moved>>,
         nodeQ' \in Seq(NodeEvent), phase # "all" => nodeQ' = <<>>,
         node' \subseteq Node, changes' \in 0..MaxChanges,
         early' \subseteq Set, setApi' \subseteq Set, setSeen' \subseteq Set,
         OwnersFirst', OwnersSeen'
  PROVE  IInv'
<1>1. UIDIndexExact' /\ PodNetwork' /\ LastIsTrue' /\ Claims' /\ Live' = Live
  BY SamePods
<1>2. TypeOK'
  BY DEF IInv, TypeOK
<1>3. NoStaleAddress'
  BY <1>1 DEF IInv, NoStaleAddress
<1>4. Before'
  BY DEF IInv, Before
<1> QED
  BY <1>1, <1>2, <1>3, <1>4 DEF IInv

LEMMA InitIInv == Init => IInv
<1> SUFFICES ASSUME Init PROVE IInv
  OBVIOUS
<1>1. pod \in [Pod -> Objects]
  <2>1. NewPod \in Objects
    BY DEF NewPod, Objects
  <2> QED
    BY <2>1 DEF Init
<1>2. \A a \in Address : byIP[a] = None
  BY DEF Init
<1>3. TypeOK
  <2>1. \A a \in PodIP : byIP[a] \notin Machines
    BY <1>2, NoneAssumption DEF Address
  <2>2. \A n \in Node : byIP[NodeIP[n]] \notin Workloads
    BY <1>2, NoneAssumption DEF Address
  <2> QED
    BY <1>1, <2>1, <2>2, BoundAssumption DEF Init, TypeOK
<1>4. UIDIndexExact
  BY DEF Init, UIDIndexExact
<1>5. NoStaleAddress
  BY <1>2 DEF NoStaleAddress, Address
<1>6. OwnersFirst /\ OwnersSeen
  BY DEF Init, OwnersFirst, OwnersSeen
<1>7. Before
  BY <1>2 DEF Init, Before
<1>8. PodNetwork
  <2>1. \A p \in Pod : pod[p].st = "new" => pod[p].ip = None
    <3> SUFFICES ASSUME NEW p \in Pod, pod[p].st = "new" PROVE pod[p].ip = None
      OBVIOUS
    <3>1. pod[p] = NewPod \/ pod[p].st = "live"
      BY DEF Init
    <3> QED
      BY <3>1 DEF NewPod
  <2>2. \A p \in Pod \ HostNetwork : pod[p].ip \in PodIP \cup {None}
    BY DEF Init, Addressed
  <2> QED
    BY <2>1, <2>2 DEF Init, PodNetwork
<1>9. LastIsTrue /\ Claims
  BY DEF Init, LastIsTrue, Claims
<1> QED
  BY <1>3, <1>4, <1>5, <1>6, <1>7, <1>8, <1>9 DEF IInv

\* A created pod, one that gets, changes or loses its address, a finished or a
\* deleted one.
LEMMA PodActionsInv ==
  ASSUME IInv, NEW p \in Pod,
         \/ FinishPod(p) \/ DeletePod(p)
         \/ \E ip \in Address \cup {None} : CreatePod(p, ip)
         \/ \E ip \in Address : AssignIP(p, ip) \/ MovePod(p, ip)
  PROVE  IInv'
<1>1. pod[p] \in Objects /\ moved \subseteq Address /\ changes \in 0..MaxChanges
  BY DEF IInv, TypeOK
<1>2. p \notin HostNetwork => pod[p].ip \in PodIP \cup {None}
  BY DEF IInv, PodNetwork
<1>3. Change => changes' \in 0..MaxChanges
  BY <1>1, BoundAssumption DEF Change
<1>4. ASSUME NEW ip \in Address \cup {None}, CreatePod(p, ip) PROVE IInv'
  <2> DEFINE obj == [st |-> "live", ip |-> ip, done |-> FALSE]
             e == SetEvent(p, obj)
  <2>1. obj \in Objects /\ obj.st = "live" /\ obj.ip = ip
    BY DEF Objects
  <2>2. e \in PodEvent /\ e.pod = p /\ e.type = "set" /\ e.obj = obj
    BY <2>1 DEF PodEvent, SetEvent
  <2>3. /\ pod' = [pod EXCEPT ![p] = obj] /\ podQ' = Notify(podQ, e)
        /\ UNCHANGED <<phase, early, setApi, setSeen, node, nodeQ, byIP, byUID>>
        /\ moved' = moved /\ Change
        /\ p \notin HostNetwork => ip \in PodIP \cup {None}
    BY <1>4 DEF CreatePod, StorePod, Free
  <2>4. pod[p].ip = None
    BY <1>4 DEF CreatePod, IInv, PodNetwork
  <2> HIDE DEF obj, e
  <2>5. PodStep(p, obj, e)
    BY <1>1, <1>3, <2>1, <2>2, <2>3, <2>4 DEF PodStep
  <2> QED
    BY <2>5, PodStepInv
<1>5. ASSUME NEW ip \in Address, AssignIP(p, ip) PROVE IInv'
  <2> DEFINE obj == [pod[p] EXCEPT !.ip = ip]
             e == SetEvent(p, obj)
  <2>1. obj \in Objects /\ obj.st = "live" /\ obj.ip = ip /\ pod[p].ip = None
    BY <1>1, <1>5 DEF AssignIP, Live, Objects
  <2>2. e \in PodEvent /\ e.pod = p /\ e.type = "set" /\ e.obj = obj
    BY <2>1 DEF PodEvent, SetEvent
  <2>3. /\ pod' = [pod EXCEPT ![p] = obj] /\ podQ' = Notify(podQ, e)
        /\ UNCHANGED <<phase, early, setApi, setSeen, node, nodeQ, byIP, byUID>>
        /\ moved' = moved /\ Change
        /\ p \notin HostNetwork => ip \in PodIP
    BY <1>5 DEF AssignIP, StorePod, Free
  <2> HIDE DEF obj, e
  <2>4. PodStep(p, obj, e)
    BY <1>1, <1>3, <2>1, <2>2, <2>3 DEF PodStep
  <2> QED
    BY <2>4, PodStepInv
<1>6. ASSUME NEW ip \in Address, MovePod(p, ip) PROVE IInv'
  <2> DEFINE obj == [pod[p] EXCEPT !.ip = ip]
             e == SetEvent(p, obj)
  <2>1. obj \in Objects /\ obj.st = "live" /\ obj.ip = ip /\ ip \in PodIP
    BY <1>1, <1>6 DEF MovePod, Live, Objects
  <2>2. e \in PodEvent /\ e.pod = p /\ e.type = "set" /\ e.obj = obj
    BY <2>1 DEF PodEvent, SetEvent
  <2>3. /\ pod' = [pod EXCEPT ![p] = obj] /\ podQ' = Notify(podQ, e)
        /\ UNCHANGED <<phase, early, setApi, setSeen, node, nodeQ, byIP, byUID>>
        /\ moved' = moved \cup {pod[p].ip} /\ Change
    BY <1>6 DEF MovePod, StorePod
  <2>4. pod[p].ip \in Address
    BY <1>1, <1>6 DEF MovePod, Objects
  <2> HIDE DEF obj, e
  <2>5. PodStep(p, obj, e)
    BY <1>1, <1>3, <2>1, <2>2, <2>3, <2>4 DEF PodStep
  <2> QED
    BY <2>5, PodStepInv
<1>7. CASE FinishPod(p)
  <2> DEFINE obj == [pod[p] EXCEPT !.done = TRUE]
             e == SetEvent(p, obj)
  <2>1. obj \in Objects /\ obj.st = "live" /\ obj.ip = pod[p].ip
    BY <1>1, <1>7 DEF FinishPod, Live, Objects
  <2>2. e \in PodEvent /\ e.pod = p /\ e.type = "set" /\ e.obj = obj
    BY <2>1 DEF PodEvent, SetEvent
  <2>3. /\ pod' = [pod EXCEPT ![p] = obj] /\ podQ' = Notify(podQ, e)
        /\ UNCHANGED <<phase, early, setApi, setSeen, node, nodeQ, byIP, byUID>>
        /\ moved' = moved /\ Change
    BY <1>7 DEF FinishPod, StorePod
  <2> HIDE DEF obj, e
  <2>4. PodStep(p, obj, e)
    BY <1>1, <1>2, <1>3, <2>1, <2>2, <2>3 DEF PodStep
  <2> QED
    BY <2>4, PodStepInv
<1>8. CASE DeletePod(p)
  <2> DEFINE obj == [pod[p] EXCEPT !.st = "gone"]
             e == DelEvent(p, pod[p])
  <2>1. obj \in Objects /\ obj.st = "gone" /\ obj.ip = pod[p].ip
    BY <1>1 DEF Objects
  <2>2. e \in PodEvent /\ e.pod = p /\ e.type = "delete" /\ e.obj = pod[p]
    BY <1>1 DEF PodEvent, DelEvent
  <2>3. /\ pod' = [pod EXCEPT ![p] = obj] /\ podQ' = Notify(podQ, e)
        /\ UNCHANGED <<phase, early, setApi, setSeen, node, nodeQ, byIP, byUID>>
        /\ moved' = moved /\ Change
    BY <1>8 DEF DeletePod
  <2> HIDE DEF obj, e
  <2>4. PodStep(p, obj, e)
    BY <1>1, <1>2, <1>3, <2>1, <2>2, <2>3 DEF PodStep
  <2> QED
    BY <2>4, PodStepInv
<1> QED
  BY <1>4, <1>5, <1>6, <1>7, <1>8

LEMMA IInvStep == IInv /\ [Next]_vars => IInv'
<1> SUFFICES ASSUME IInv, [Next]_vars PROVE IInv'
  OBVIOUS
<1>1. /\ early \subseteq Set /\ setApi \subseteq Set /\ setSeen \subseteq Set
      /\ node \subseteq Node /\ nodeQ \in Seq(NodeEvent) /\ changes \in 0..MaxChanges
  BY DEF IInv, TypeOK
<1>2. phase # "all" => nodeQ = <<>>
  BY DEF IInv, Before
<1>3. Change => changes' \in 0..MaxChanges
  BY <1>1, BoundAssumption DEF Change
<1>4. ASSUME NEW s \in Set, CreateSet(s) PROVE IInv'
  <2>1. /\ UNCHANGED <<phase, early, setSeen, pod, podQ, node, nodeQ, byIP, byUID, moved, changes>>
        /\ s \notin setApi /\ setApi' = setApi \cup {s}
    BY <1>4 DEF CreateSet
  <2>2. s \notin early
    BY <1>4 DEF CreateSet, IInv, OwnersSeen
  <2>3. OwnersFirst' /\ OwnersSeen'
    BY <2>1, <2>2 DEF IInv, OwnersFirst, OwnersSeen
  <2> QED
    BY <1>1, <1>2, <2>1, <2>3, OtherInv
<1>5. ASSUME NEW s \in Set, DeleteSet(s) PROVE IInv'
  <2>1. /\ UNCHANGED <<phase, early, setSeen, pod, podQ, node, nodeQ, byIP, byUID, moved, changes>>
        /\ setApi' = setApi \ {s}
        /\ \E p \in Pod : Owner[p] = s /\ pod[p].st # "new"
    BY <1>5 DEF DeleteSet
  <2>2. OwnersFirst' /\ OwnersSeen'
    BY <2>1 DEF IInv, OwnersFirst, OwnersSeen
  <2> QED
    BY <1>1, <1>2, <2>1, <2>2, OtherInv
<1>6. ASSUME NEW s \in Set, WatchSet(s) PROVE IInv'
  <2>1. /\ UNCHANGED <<phase, early, podQ, nodeQ, byIP, byUID, setApi, pod, node, moved, changes>>
        /\ setSeen' = IF s \in setApi THEN setSeen \cup {s} ELSE setSeen \ {s}
    BY <1>6 DEF WatchSet, clusterVars
  <2>2. OwnersFirst' /\ OwnersSeen'
    BY <2>1 DEF IInv, OwnersFirst, OwnersSeen
  <2>3. setSeen' \subseteq Set
    BY <1>1, <2>1
  <2> QED
    BY <1>1, <1>2, <2>1, <2>2, <2>3, OtherInv
<1>7. ASSUME NEW n \in Node, AddNode(n) \/ DeleteNode(n) PROVE IInv'
  <2>1. /\ UNCHANGED <<phase, early, setApi, setSeen, pod, podQ, byIP, byUID, moved>>
        /\ node' \subseteq Node /\ Change
    BY <1>1, <1>7 DEF AddNode, DeleteNode
  <2>2. PICK e \in NodeEvent : nodeQ' = Notify(nodeQ, e)
    <3>1. \A t \in {"set", "delete"} : [type |-> t, node |-> n] \in NodeEvent
      BY DEF NodeEvent
    <3> QED
      BY <1>7, <3>1 DEF AddNode, DeleteNode
  <2>3. nodeQ' \in Seq(NodeEvent) /\ (phase # "all" => nodeQ' = <<>>)
    BY <1>1, <1>2, <2>2 DEF Notify
  <2>4. OwnersFirst' /\ OwnersSeen'
    BY <2>1 DEF IInv, OwnersFirst, OwnersSeen
  <2> QED
    BY <1>1, <1>3, <2>1, <2>3, <2>4, OtherInv
<1>8. ASSUME NEW p \in Pod,
             \/ FinishPod(p) \/ DeletePod(p)
             \/ \E ip \in Address \cup {None} : CreatePod(p, ip)
             \/ \E ip \in Address : AssignIP(p, ip) \/ MovePod(p, ip)
      PROVE  IInv'
  BY <1>8, PodActionsInv
<1>9. CASE ListOwners
  <2>1. /\ phase = "owners" /\ phase' = "listed" /\ setSeen' = setApi /\ early' = setApi
        /\ UNCHANGED <<podQ, nodeQ, byIP, byUID, setApi, pod, node, moved, changes>>
    BY <1>9 DEF ListOwners, clusterVars
  <2>2. podQ = <<>> /\ nodeQ = <<>> /\ (\A p \in Pod : byUID[p] = None)
        /\ (\A a \in Address : byIP[a] = None)
    BY <2>1 DEF IInv, Before
  <2>3. Live' = Live
    BY <2>1 DEF Live
  <2>4. TypeOK'
    BY <1>1, <2>1 DEF IInv, TypeOK
  <2>5. UIDIndexExact' /\ Before'
    BY <2>1, <2>2 DEF UIDIndexExact, Before
  <2>6. NoStaleAddress'
    BY <2>1, <2>2 DEF NoStaleAddress, Address
  <2>7. PodNetwork' /\ LastIsTrue' /\ Claims'
    BY <2>1, <2>2 DEF IInv, PodNetwork, LastIsTrue, Claims
  <2>8. OwnersSeen'
    BY <2>1 DEF OwnersSeen
  <2>9. OwnersFirst'
    <3>1. \A s \in Set : SetOf(s) # None
      BY NoneAssumption DEF Workloads
    <3> QED
      BY <1>1, <2>1, <2>2, <3>1 DEF OwnersFirst
  <2> QED
    BY <2>4, <2>5, <2>6, <2>7, <2>8, <2>9 DEF IInv
<1>10. NodeList \subseteq NodeEvent
  BY <1>1 DEF NodeList, NodeEvent
<1>11. CASE Start
  <2>1. /\ phase = "listed" /\ phase' = "all"
        /\ podQ' \in SetToSeqs(PodList) /\ nodeQ' \in SetToSeqs(NodeList)
        /\ UNCHANGED <<early, setSeen, byIP, byUID, clusterVars>>
    BY <1>11 DEF Start
  <2>2. podQ = <<>> /\ \A p \in Pod : byUID[p] = None
    BY <2>1 DEF IInv, Before
  <2>3. nodeQ' \in Seq(NodeList)
    BY <1>1, <2>1, ListsFinite, Listing
  <2>4. nodeQ' \in Seq(NodeEvent)
    BY <1>10, <2>3
  <2> QED
    BY <2>1, <2>2, <2>4, ListStepInv
<1>12. CASE ResyncPods
  <2>1. /\ phase = "all" /\ phase' = "all" /\ podQ = <<>>
        /\ podQ' \in SetToSeqs(PodList) /\ nodeQ' = nodeQ
        /\ UNCHANGED <<early, setSeen, byIP, byUID, clusterVars>>
    BY <1>12 DEF ResyncPods
  <2>2. \A r \in Pod \ Live : byUID[r] = None
    BY <2>1 DEF IInv, UIDIndexExact, Waiting
  <2> QED
    BY <1>1, <2>1, <2>2, ListStepInv
<1>13. CASE ResyncNodes
  <2>1. /\ phase = "all" /\ nodeQ' \in SetToSeqs(NodeList)
        /\ UNCHANGED <<phase, early, setSeen, podQ, byIP, byUID, setApi, pod, node, moved, changes>>
    BY <1>13 DEF ResyncNodes, clusterVars
  <2>2. nodeQ' \in Seq(NodeList)
    BY <1>1, <2>1, ListsFinite, Listing
  <2>3. nodeQ' \in Seq(NodeEvent)
    BY <1>10, <2>2
  <2>4. OwnersFirst' /\ OwnersSeen'
    BY <2>1 DEF IInv, OwnersFirst, OwnersSeen
  <2> QED
    BY <1>1, <2>1, <2>3, <2>4, OtherInv
<1>14. CASE OnPod
  BY <1>14, OnPodInv
<1>15. CASE OnPodDelete
  BY <1>15, OnPodDeleteInv
<1>16. CASE OnNode \/ OnNodeDelete
  BY <1>16, NodeHandlerInv
<1>17. CASE UNCHANGED vars
  <2>1. UNCHANGED <<phase, early, setSeen, podQ, nodeQ, byIP, byUID, setApi, pod, node, moved, changes>>
    BY <1>17 DEF vars, clusterVars
  <2>2. OwnersFirst' /\ OwnersSeen'
    BY <2>1 DEF IInv, OwnersFirst, OwnersSeen
  <2> QED
    BY <1>1, <1>2, <2>1, <2>2, OtherInv
<1> QED
  BY <1>4, <1>5, <1>6, <1>7, <1>8, <1>9, <1>11, <1>12, <1>13, <1>14, <1>15, <1>16, <1>17
     DEF Next, Cluster, Watch, PodHandler, NodeHandler

LEMMA Invariance == Spec => []IInv
  BY InitIInv, IInvStep, PTL DEF Spec

LEMMA IInvParts == IInv => TypeOK /\ UIDIndexExact /\ NoStaleAddress /\ OwnersFirst
  BY DEF IInv

-----------------------------------------------------------------------------
\* Every state is well typed; an address of a node never maps to a workload, nor
\* one of the pod network to a node (onPod leaves host-network pods out).
THEOREM TypeCorrect == Spec => []TypeOK
  BY Invariance, IInvParts, PTL

\* In whatever order lists, resyncs, changes and handlers interleave, a pod
\* whose notifications are handled is in byUID exactly while it exists (onPod,
\* onPodDelete).
THEOREM UIDsExact == Spec => []UIDIndexExact
  BY Invariance, IInvParts, PTL

\* An address of the pod network never maps to a workload that nobody will take
\* out again, but for one a living pod moved away from (onPod, onPodDelete).
THEOREM NoForgottenAddress == Spec => []NoStaleAddress
  BY Invariance, IInvParts, PTL

\* Syncing the owners before the pods is enough: a pod is never indexed under a
\* set of the owner lists that still exists (Controller.Run, ResolveTopOwner).
THEOREM OwnersAreKnown == Spec => []OwnersFirst
  BY Invariance, IInvParts, PTL
=============================================================================
