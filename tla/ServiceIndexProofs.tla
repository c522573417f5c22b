------------------------- MODULE ServiceIndexProofs -------------------------
(***************************************************************************)
(* Proofs about ServiceIndex.tla for any Services, slices, addresses and   *)
(* workloads and any number of changes.                                    *)
(***************************************************************************)
EXTENDS ServiceIndex, FiniteSetTheorems, WellFoundedInduction, TLAPS

(***************************************************************************)
(* The inductive invariant.  A handler sees one revision after the other,  *)
(* so byPort follows the cluster as it was when the last handled           *)
(* notification was queued.  A queue spells the way from there to the      *)
(* present: h[0] is the cluster as handled, each notification leads from   *)
(* h[i-1] to h[i], and the last one is the indexer's content.  No two      *)
(* Services share a ClusterIP in any of them, which is what makes it safe  *)
(* to evict a key without asking who else has it.                          *)
(***************************************************************************)
Notifications(Name, Object) == [name : Name, old : Object, new : Object]

Histories(Name, Object, q) == [0..Len(q) -> [Name -> Object]]

History(Name, Object, q, cur, h) ==
  /\ q \in Seq(Notifications(Name, Object))
  /\ h \in Histories(Name, Object, q)
  /\ h[Len(q)] = cur
  /\ \A i \in 1..Len(q) :
       /\ q[i].old = h[i - 1][q[i].name]
       /\ h[i] = [h[i - 1] EXCEPT ![q[i].name] = q[i].new]

\* A ClusterIP has a port entry that is not being evicted exactly if a Service
\* has it in the cluster as handled.
SvcHistory(h) ==
  /\ \A i \in 0..Len(queue["svc"]) : Allocated(h[i])
  /\ History(Service, SvcObject, queue["svc"], svc, h)
  /\ \A v \in VIP :
       v \in byPort /\ v \notin work["svc"].evict <=> \E s \in Service : h[0][s].vip = v

SvcSound ==
  phase # "start" =>
    \E h \in Histories(Service, SvcObject, queue["svc"]) : SvcHistory(h)

\* A pod address with an entry that is not being evicted belongs to a slice in
\* the cluster as handled; two slices may share an address, and the deletion of
\* one takes the entry of the other until the next resync.
SliceHistory(h) ==
  /\ History(Slice, SliceObject, queue["slice"], slice, h)
  /\ \A ip \in PodIP :
       ip \in byPort /\ ip \notin work["slice"].evict => \E e \in Slice : ip \in h[0][e].ips

SliceSound ==
  phase # "start" =>
    \E h \in Histories(Slice, SliceObject, queue["slice"]) : SliceHistory(h)

\* Nothing is queued or indexed before the informers have listed.
Before ==
  phase = "start" =>
    /\ queue["svc"] = <<>> /\ queue["slice"] = <<>>
    /\ byPort = {}
    /\ \A g \in Goroutine : work[g] = Idle

\* Each goroutine evicts keys of its own kind only, and Controller.Run none.
Evictions ==
  /\ work["svc"].evict \subseteq VIP
  /\ work["slice"].evict \subseteq PodIP
  /\ work["run"].evict = {}

IInv ==
  /\ TypeOK
  /\ Allocated(svc)
  /\ Before
  /\ Evictions
  /\ SvcSound
  /\ SliceSound

-----------------------------------------------------------------------------
(* Lemmas on queues and their histories.                                   *)

\* A nonempty set of numbers has a least one.
LEMMA Least ==
  ASSUME NEW T \in SUBSET Nat, T # {}
  PROVE  \E x \in T : \A y \in T : x <= y
<1> DEFINE R == OpToRel(<, Nat)
<1>1. IsWellFoundedOn(R, Nat)
  BY NatLessThanWellFounded
<1>2. \A x, y \in Nat : y < x => <<y, x>> \in R
  BY DEF OpToRel
<1> HIDE DEF R
<1>3. PICK x \in T : \A y \in T : ~(<<y, x>> \in R)
  BY <1>1, WFMin
<1>4. \A y \in T : ~(y < x)
  BY <1>2, <1>3
<1> QED
  BY <1>3, <1>4

\* A list of a finite set is a sequence in which every element occurs once.
LEMMA Listing ==
  ASSUME NEW S, IsFiniteSet(S), NEW q \in SetToSeqs(S)
  PROVE  /\ q \in Seq(S)
         /\ \A x \in S : \E i \in 1..Len(q) : q[i] = x
         /\ \A i, j \in 1..Len(q) : i # j => q[i] # q[j]
<1> DEFINE n == Cardinality(S)
<1>1. n \in Nat
  BY FS_CardinalityType
<1>2. q \in [1..n -> S] /\ \A i, j \in 1..n : i # j => q[i] # q[j]
  BY DEF SetToSeqs
<1>3. q \in Injection(1..n, S)
  BY <1>2 DEF Injection, IsInjective
<1>4. Cardinality(1..n) = n
  BY <1>1, FS_Interval
<1>5. q \in Surjection(1..n, S)
  BY <1>3, <1>4, FS_Injection
<1> HIDE DEF n
<1>6. q \in Seq(S) /\ Len(q) = n
  BY <1>1, <1>2
<1> QED
  BY <1>2, <1>5, <1>6 DEF Surjection

\* The positions of a queue after a notification is added or taken.
LEMMA AppendAt ==
  ASSUME NEW E, NEW q \in Seq(E), NEW e \in E
  PROVE  /\ Append(q, e) \in Seq(E)
         /\ Len(q) \in Nat /\ Len(Append(q, e)) = Len(q) + 1
         /\ \A i \in 1..Len(q) : Append(q, e)[i] = q[i]
         /\ Append(q, e)[Len(q) + 1] = e
  OBVIOUS

LEMMA TailAt ==
  ASSUME NEW E, NEW q \in Seq(E), q # <<>>
  PROVE  /\ Tail(q) \in Seq(E) /\ Head(q) = q[1] /\ q[1] \in E
         /\ Len(q) \in Nat \ {0} /\ Len(Tail(q)) = Len(q) - 1
         /\ \A i \in 1..(Len(q) - 1) : Tail(q)[i] = q[i + 1]
  OBVIOUS

\* What a history consists of.
LEMMA HistoryFacts ==
  ASSUME NEW N, NEW O, NEW q, NEW cur, NEW h, History(N, O, q, cur, h)
  PROVE  /\ q \in Seq(Notifications(N, O)) /\ Len(q) \in Nat
         /\ h \in [0..Len(q) -> [N -> O]] /\ h[0] \in [N -> O]
         /\ h[Len(q)] = cur /\ cur \in [N -> O]
         /\ \A i \in 1..Len(q) : /\ q[i].old = h[i - 1][q[i].name]
                                 /\ h[i] = [h[i - 1] EXCEPT ![q[i].name] = q[i].new]
<1> DEFINE E == Notifications(N, O)
<1>1. q \in Seq(E) /\ h \in [0..Len(q) -> [N -> O]] /\ h[Len(q)] = cur
  BY DEF History, Histories
<1> HIDE DEF E
<1>2. Len(q) \in Nat /\ 0 \in 0..Len(q) /\ Len(q) \in 0..Len(q)
  BY <1>1
<1>3. h[0] \in [N -> O] /\ h[Len(q)] \in [N -> O]
  BY <1>1, <1>2
<1> QED
  BY <1>1, <1>2, <1>3 DEF History, E

\* A change of the cluster prolongs the history.
LEMMA HistoryAppend ==
  ASSUME NEW N, NEW O, NEW q, NEW cur, NEW h, History(N, O, q, cur, h), NEW n \in N, NEW o \in O
  PROVE  LET ev == Event(n, cur[n], o)
             new == [cur EXCEPT ![n] = o]
         IN  \E g : /\ History(N, O, Append(q, ev), new, g)
                    /\ \A i \in 0..Len(q) : g[i] = h[i]
                    /\ g[Len(q) + 1] = new
<1> DEFINE E == Notifications(N, O)
           ev == Event(n, cur[n], o)
           m == Len(q)
           r == Append(q, ev)
           new == [cur EXCEPT ![n] = o]
           g == [i \in 0..(m + 1) |-> IF i = m + 1 THEN new ELSE h[i]]
<1>0. /\ q \in Seq(E) /\ m \in Nat /\ h \in [0..m -> [N -> O]] /\ h[m] = cur /\ cur \in [N -> O]
      /\ \A i \in 1..m : /\ q[i].old = h[i - 1][q[i].name]
                         /\ h[i] = [h[i - 1] EXCEPT ![q[i].name] = q[i].new]
  BY HistoryFacts
<1>v. ev \in E /\ ev.name = n /\ ev.old = cur[n] /\ ev.new = o
  BY <1>0 DEF Event, Notifications
<1>2. new \in [N -> O]
  BY <1>0
<1> HIDE DEF E, ev
<1>1. /\ r \in Seq(E) /\ Len(r) = m + 1
      /\ \A i \in 1..m : r[i] = q[i]
      /\ r[m + 1] = ev
  BY <1>0, <1>v, AppendAt
<1> HIDE DEF m, r, new
<1>4. g \in [0..(m + 1) -> [N -> O]]
  BY <1>0, <1>2
<1>5. (\A i \in 0..m : g[i] = h[i]) /\ g[m + 1] = new
  BY <1>0
<1> HIDE DEF g
<1>6. ASSUME NEW i \in 1..(m + 1)
      PROVE  r[i].old = g[i - 1][r[i].name] /\ g[i] = [g[i - 1] EXCEPT ![r[i].name] = r[i].new]
  <2>1. CASE i = m + 1
    <3>1. r[i] = ev /\ g[i] = new /\ g[i - 1] = cur
      BY <2>1, <1>0, <1>1, <1>5
    <3> QED
      BY <3>1, <1>v DEF new
  <2>2. CASE i # m + 1
    <3>1. i \in 1..m /\ i - 1 \in 0..m /\ i \in 0..m
      BY <2>2, <1>0
    <3>2. r[i] = q[i] /\ g[i] = h[i] /\ g[i - 1] = h[i - 1]
      BY <3>1, <1>1, <1>5
    <3> QED
      BY <3>1, <3>2, <1>0
  <2> QED
    BY <2>1, <2>2
<1>7. History(N, O, r, new, g)
  BY <1>1, <1>4, <1>5, <1>6 DEF History, Histories, E
<1> QED
  BY <1>5, <1>7 DEF m, r, new, ev

\* Handling a notification moves the beginning of the history.
LEMMA HistoryTail ==
  ASSUME NEW N, NEW O, NEW q, NEW cur, NEW h, History(N, O, q, cur, h), q # <<>>
  PROVE  /\ Head(q).name \in N /\ Head(q).old = h[0][Head(q).name]
         /\ \E g : /\ History(N, O, Tail(q), cur, g)
                   /\ \A i \in 0..Len(Tail(q)) : i + 1 \in 0..Len(q) /\ g[i] = h[i + 1]
                   /\ g[0] = [h[0] EXCEPT ![Head(q).name] = Head(q).new]
<1> DEFINE E == Notifications(N, O)
           m == Len(q)
           r == Tail(q)
           g == [i \in 0..(m - 1) |-> h[i + 1]]
<1>2. /\ q \in Seq(E) /\ h \in [0..m -> [N -> O]] /\ h[m] = cur
      /\ \A i \in 1..m : /\ q[i].old = h[i - 1][q[i].name]
                         /\ h[i] = [h[i - 1] EXCEPT ![q[i].name] = q[i].new]
  BY DEF History, Histories
<1> HIDE DEF E
<1>1. /\ m \in Nat \ {0} /\ r \in Seq(E) /\ Len(r) = m - 1 /\ Head(q) = q[1] /\ q[1] \in E
      /\ \A i \in 1..(m - 1) : r[i] = q[i + 1]
  BY <1>2, TailAt
<1> HIDE DEF m, r
<1>4. g \in [0..(m - 1) -> [N -> O]]
  BY <1>1, <1>2
<1>5. \A i \in 0..(m - 1) : i + 1 \in 0..m /\ g[i] = h[i + 1]
  BY <1>1
<1> HIDE DEF g
<1>6. ASSUME NEW i \in 1..(m - 1)
      PROVE  r[i].old = g[i - 1][r[i].name] /\ g[i] = [g[i - 1] EXCEPT ![r[i].name] = r[i].new]
  <2>1. i + 1 \in 1..m /\ i \in 0..(m - 1) /\ i - 1 \in 0..(m - 1) /\ (i + 1) - 1 = i /\ (i - 1) + 1 = i
    BY <1>1
  <2>2. r[i] = q[i + 1] /\ g[i] = h[i + 1] /\ g[i - 1] = h[i]
    BY <2>1, <1>1, <1>5
  <2>3. /\ q[i + 1].old = h[(i + 1) - 1][q[i + 1].name]
        /\ h[i + 1] = [h[(i + 1) - 1] EXCEPT ![q[i + 1].name] = q[i + 1].new]
    BY <2>1, <1>2
  <2> QED
    BY <2>1, <2>2, <2>3
<1>7. g[m - 1] = cur
  BY <1>1, <1>2, <1>5
<1>8. History(N, O, r, cur, g)
  BY <1>1, <1>4, <1>6, <1>7 DEF History, Histories, E
<1>9. 1 \in 1..m /\ 0 \in 0..(m - 1) /\ 1 - 1 = 0 /\ 0 + 1 = 1
  BY <1>1
<1>10. g[0] = h[1]
  BY <1>5, <1>9
<1>11. q[1].old = h[0][q[1].name] /\ h[1] = [h[0] EXCEPT ![q[1].name] = q[1].new]
  BY <1>2, <1>9
<1>12. q[1].name \in N
  BY <1>1 DEF E, Notifications
<1> QED
  BY <1>1, <1>5, <1>8, <1>10, <1>11, <1>12 DEF m, r

\* An informer's indexer.
Indexer(Name, Object, cur) == IsFiniteSet(Name) /\ cur \in [Name -> Object]

\* The adds of the first list lead from an empty cluster to the present one.
LEMMA HistoryList ==
  ASSUME NEW N, NEW O, NEW cur, Indexer(N, O, cur), NEW none \in O,
         NEW live \in SUBSET N, \A n \in N \ live : cur[n] = none,
         NEW q \in SetToSeqs(Added(cur, live, none))
  PROVE  \E h : /\ History(N, O, q, cur, h)
                /\ \A n \in N : h[0][n] = none
                /\ \A i \in 0..Len(q) : \A n \in N : h[i][n] \in {none, cur[n]}
<1> DEFINE S == Added(cur, live, none)
           m == Len(q)
           Done(i, n) == \E j \in 1..m : j <= i /\ q[j].name = n
           h == [i \in 0..m |-> [n \in N |-> IF Done(i, n) THEN cur[n] ELSE none]]
<1>0. IsFiniteSet(N) /\ cur \in [N -> O]
  BY DEF Indexer
<1>1. IsFiniteSet(S)
  <2> DEFINE f == [n \in live |-> Event(n, none, cur[n])]
  <2>1. f \in Surjection(live, S)
    BY DEF Surjection, Added
  <2>2. IsFiniteSet(live)
    BY <1>0, FS_Subset
  <2> QED
    BY <2>1, <2>2, FS_Surjection
<1>2. /\ q \in Seq(S)
      /\ \A x \in S : \E i \in 1..m : q[i] = x
      /\ \A i, j \in 1..m : i # j => q[i] # q[j]
  BY <1>1, Listing
<1>3. m \in Nat /\ \A i \in 1..m : q[i] \in S
  BY <1>2
<1>4. \A i \in 1..m : /\ q[i].name \in live /\ q[i].old = none /\ q[i].new = cur[q[i].name]
                      /\ q[i] = Event(q[i].name, none, cur[q[i].name])
  BY <1>3 DEF Added, Event
<1>5. \A i, j \in 1..m : i # j => q[i].name # q[j].name
  BY <1>2, <1>4
<1>6. \A n \in live : \E i \in 1..m : q[i].name = n
  <2> SUFFICES ASSUME NEW n \in live PROVE \E i \in 1..m : q[i].name = n
    OBVIOUS
  <2>1. Event(n, none, cur[n]) \in S
    BY DEF Added
  <2>2. PICK i \in 1..m : q[i] = Event(n, none, cur[n])
    BY <1>2, <2>1
  <2> QED
    BY <2>2 DEF Event
<1> HIDE DEF m, S
<1>7. h \in [0..m -> [N -> O]]
  BY <1>0
<1>8. \A i \in 0..m : \A n \in N : h[i][n] = IF Done(i, n) THEN cur[n] ELSE none
  OBVIOUS
<1>9. \A n \in N : h[0][n] = none
  <2>1. 0 \in 0..m /\ \A n \in N : ~Done(0, n)
    BY <1>3
  <2> QED
    BY <2>1
<1>10. h[m] = cur
  <2>1. m \in 0..m
    BY <1>3
  <2>2. \A n \in N : h[m][n] = cur[n]
    <3> SUFFICES ASSUME NEW n \in N PROVE h[m][n] = cur[n]
      OBVIOUS
    <3>1. CASE n \in live
      <4>1. Done(m, n)
        BY <3>1, <1>3, <1>6
      <4> QED
        BY <2>1, <4>1
    <3>2. CASE n \notin live
      BY <2>1, <3>2, <1>8
    <3> QED
      BY <3>1, <3>2
  <2>3. h[m] \in [N -> O]
    BY <2>1, <1>7
  <2> HIDE DEF h
  <2> QED
    BY <1>0, <2>2, <2>3
<1>11. ASSUME NEW i \in 1..m
       PROVE  q[i].old = h[i - 1][q[i].name] /\ h[i] = [h[i - 1] EXCEPT ![q[i].name] = q[i].new]
  <2>1. i \in 0..m /\ i - 1 \in 0..m
    BY <1>3
  <2>2. q[i].name \in N /\ ~Done(i - 1, q[i].name) /\ Done(i, q[i].name)
    BY <1>3, <1>4, <1>5
  <2>3. \A n \in N : n # q[i].name => (Done(i, n) <=> Done(i - 1, n))
    BY <1>3
  <2>4. q[i].old = h[i - 1][q[i].name] /\ h[i][q[i].name] = q[i].new
    BY <2>1, <2>2, <1>4, <1>8
  <2>5. \A n \in N : n # q[i].name => h[i][n] = h[i - 1][n]
    BY <2>1, <2>3, <1>8
  <2>6. h[i] \in [N -> O] /\ h[i - 1] \in [N -> O]
    BY <2>1, <1>7
  <2> HIDE DEF h, Done
  <2> QED
    BY <2>2, <2>4, <2>5, <2>6
<1>14. q \in Seq(Notifications(N, O))
  <2>0. \A n \in N : Event(n, none, cur[n]) \in Notifications(N, O)
    BY <1>0 DEF Event, Notifications
  <2>1. \A i \in 1..m : q[i] \in Notifications(N, O)
    BY <1>4, <2>0
  <2>2. q \in [1..m -> Notifications(N, O)]
    BY <1>2, <2>1 DEF m
  <2> QED
    BY <1>3, <2>2
<1>12. History(N, O, q, cur, h)
  BY <1>7, <1>10, <1>11, <1>14 DEF History, Histories, m
<1>13. \A i \in 0..m : \A n \in N : h[i][n] \in {none, cur[n]}
  BY <1>8
<1> HIDE DEF h
<1> QED
  BY <1>7, <1>9, <1>12, <1>13 DEF m

\* A resync changes nothing.
LEMMA HistoryResync ==
  ASSUME NEW N, NEW O, NEW cur, Indexer(N, O, cur),
         NEW live \in SUBSET N, NEW q \in SetToSeqs(Replayed(cur, live))
  PROVE  \E h : History(N, O, q, cur, h) /\ \A i \in 0..Len(q) : h[i] = cur
<1> DEFINE S == Replayed(cur, live)
           m == Len(q)
           h == [i \in 0..m |-> cur]
<1>0. IsFiniteSet(N) /\ cur \in [N -> O]
  BY DEF Indexer
<1>1. IsFiniteSet(S)
  <2> DEFINE f == [n \in live |-> Event(n, cur[n], cur[n])]
  <2>1. f \in Surjection(live, S)
    BY DEF Surjection, Replayed
  <2>2. IsFiniteSet(live)
    BY <1>0, FS_Subset
  <2> QED
    BY <2>1, <2>2, FS_Surjection
<1>2. q \in Seq(S)
  BY <1>1, Listing
<1>3. m \in Nat /\ \A i \in 1..m : q[i] \in S
  BY <1>2
<1>4. \A i \in 1..m : /\ q[i].name \in N /\ q[i].old = cur[q[i].name] /\ q[i].new = cur[q[i].name]
  BY <1>3 DEF Replayed, Event
<1> HIDE DEF m
<1>5. h \in [0..m -> [N -> O]] /\ \A i \in 0..m : h[i] = cur
  BY <1>0
<1>6. m \in 0..m /\ \A i \in 1..m : i \in 0..m /\ i - 1 \in 0..m
  BY <1>3
<1> HIDE DEF h
<1>8. q \in Seq(Notifications(N, O))
  <2>1. \A n \in N : Event(n, cur[n], cur[n]) \in Notifications(N, O)
    BY <1>0 DEF Event, Notifications
  <2>2. \A i \in 1..m : q[i] \in Notifications(N, O)
    BY <1>3, <2>1 DEF Replayed
  <2>3. q \in [1..m -> Notifications(N, O)]
    BY <1>2, <2>2 DEF m
  <2> QED
    BY <1>3, <2>3
<1>7. History(N, O, q, cur, h)
  BY <1>4, <1>5, <1>6, <1>8 DEF History, Histories, m
<1> QED
  BY <1>5, <1>7 DEF m

-----------------------------------------------------------------------------
(* Types.                                                                  *)

\* The parts of Services and slices, absent ones included.
LEMMA ObjectFacts ==
  /\ \A o \in SvcObject : /\ o.vip \in VIP \cup {None} /\ o.live \in BOOLEAN
                          /\ ~o.live => o.vip = None
  /\ \A o \in SliceObject : /\ o.of \in Label \cup {None} /\ o.ips \subseteq PodIP
                            /\ o.live \in BOOLEAN /\ (~o.live => o.ips = {})
<1>1. ASSUME NEW o \in SvcObject
      PROVE  o.vip \in VIP \cup {None} /\ o.live \in BOOLEAN /\ (~o.live => o.vip = None)
  <2>1. CASE o \in [live : {TRUE}, vip : VIP \cup {None}]
    <3>1. o.live = TRUE /\ o.vip \in VIP \cup {None}
      BY <2>1
    <3> QED
      BY <3>1
  <2>2. CASE o = NoSvc
    BY <2>2 DEF NoSvc
  <2> QED
    BY <2>1, <2>2 DEF SvcObject
<1>2. ASSUME NEW o \in SliceObject
      PROVE  /\ o.of \in Label \cup {None} /\ o.ips \subseteq PodIP
             /\ o.live \in BOOLEAN /\ (~o.live => o.ips = {})
  <2>1. CASE o \in [live : {TRUE}, of : Label, ips : SUBSET PodIP]
    <3>1. o.live = TRUE /\ o.of \in Label /\ o.ips \subseteq PodIP
      BY <2>1
    <3> QED
      BY <3>1
  <2>2. CASE o = NoSlice
    BY <2>2 DEF NoSlice
  <2> QED
    BY <2>1, <2>2 DEF SliceObject
<1> QED
  BY <1>1, <1>2

LEMMA NoObject ==
  /\ \A o \in SvcObject : ~o.live => o = NoSvc
  /\ \A o \in SliceObject : ~o.live => o = NoSlice
<1>1. ASSUME NEW o \in SvcObject, ~o.live PROVE o = NoSvc
  <2>1. ASSUME o \in [live : {TRUE}, vip : VIP \cup {None}] PROVE o.live = TRUE
    BY <2>1
  <2> QED
    BY <1>1, <2>1 DEF SvcObject
<1>2. ASSUME NEW o \in SliceObject, ~o.live PROVE o = NoSlice
  <2>1. ASSUME o \in [live : {TRUE}, of : Label, ips : SUBSET PodIP] PROVE o.live = TRUE
    BY <2>1
  <2> QED
    BY <1>2, <2>1 DEF SliceObject
<1> QED
  BY <1>1, <1>2

\* A finite set's lists when the set is an image of live names.
LEMMA ListType ==
  ASSUME NEW N, IsFiniteSet(N), NEW live \in SUBSET N, NEW E, NEW f \in [live -> E],
         NEW q \in SetToSeqs({f[n] : n \in live})
  PROVE  q \in Seq(E)
<1> DEFINE S == {f[n] : n \in live}
<1>1. f \in Surjection(live, S)
  BY DEF Surjection
<1>2. IsFiniteSet(live)
  BY FS_Subset
<1>3. IsFiniteSet(S)
  BY <1>1, <1>2, FS_Surjection
<1>4. q \in Seq(S)
  BY <1>3, Listing
<1>5. S \subseteq E
  OBVIOUS
<1> HIDE DEF S
<1>6. q \in [1..Len(q) -> S] /\ Len(q) \in Nat
  BY <1>4
<1>7. q \in [1..Len(q) -> E]
  BY <1>5, <1>6
<1> QED
  BY <1>6, <1>7

\* What the informers list and replay.
LEMMA QueueTypes ==
  ASSUME TypeOK
  PROVE  /\ \A q \in SetToSeqs(Added(svc, LiveSvc, NoSvc)) : q \in Seq(SvcEvent)
         /\ \A q \in SetToSeqs(Replayed(svc, LiveSvc)) : q \in Seq(SvcEvent)
         /\ \A q \in SetToSeqs(Added(slice, LiveSlice, NoSlice)) : q \in Seq(SliceEvent)
         /\ \A q \in SetToSeqs(Replayed(slice, LiveSlice)) : q \in Seq(SliceEvent)
<1>t. /\ svc \in [Service -> SvcObject] /\ slice \in [Slice -> SliceObject]
      /\ NoSvc \in SvcObject /\ NoSlice \in SliceObject
      /\ LiveSvc \subseteq Service /\ LiveSlice \subseteq Slice
      /\ IsFiniteSet(Service) /\ IsFiniteSet(Slice)
  BY ServiceAssumption DEF TypeOK, SvcObject, SliceObject, LiveSvc, LiveSlice
<1>e. /\ \A n \in Service : \A a, b \in SvcObject : Event(n, a, b) \in SvcEvent
      /\ \A n \in Slice : \A a, b \in SliceObject : Event(n, a, b) \in SliceEvent
  BY DEF Event, SvcEvent, SliceEvent
<1>1. ASSUME NEW q \in SetToSeqs(Added(svc, LiveSvc, NoSvc)) PROVE q \in Seq(SvcEvent)
  <2> DEFINE f == [n \in LiveSvc |-> Event(n, NoSvc, svc[n])]
  <2>1. f \in [LiveSvc -> SvcEvent]
    BY <1>t, <1>e
  <2>2. q \in SetToSeqs({f[n] : n \in LiveSvc})
    BY DEF Added
  <2> HIDE DEF f
  <2> QED
    BY <1>t, <2>1, <2>2, ListType
<1>2. ASSUME NEW q \in SetToSeqs(Replayed(svc, LiveSvc)) PROVE q \in Seq(SvcEvent)
  <2> DEFINE f == [n \in LiveSvc |-> Event(n, svc[n], svc[n])]
  <2>1. f \in [LiveSvc -> SvcEvent]
    BY <1>t, <1>e
  <2>2. q \in SetToSeqs({f[n] : n \in LiveSvc})
    BY DEF Replayed
  <2> HIDE DEF f
  <2> QED
    BY <1>t, <2>1, <2>2, ListType
<1>3. ASSUME NEW q \in SetToSeqs(Added(slice, LiveSlice, NoSlice)) PROVE q \in Seq(SliceEvent)
  <2> DEFINE f == [n \in LiveSlice |-> Event(n, NoSlice, slice[n])]
  <2>1. f \in [LiveSlice -> SliceEvent]
    BY <1>t, <1>e
  <2>2. q \in SetToSeqs({f[n] : n \in LiveSlice})
    BY DEF Added
  <2> HIDE DEF f
  <2> QED
    BY <1>t, <2>1, <2>2, ListType
<1>4. ASSUME NEW q \in SetToSeqs(Replayed(slice, LiveSlice)) PROVE q \in Seq(SliceEvent)
  <2> DEFINE f == [n \in LiveSlice |-> Event(n, slice[n], slice[n])]
  <2>1. f \in [LiveSlice -> SliceEvent]
    BY <1>t, <1>e
  <2>2. q \in SetToSeqs({f[n] : n \in LiveSlice})
    BY DEF Replayed
  <2> HIDE DEF f
  <2> QED
    BY <1>t, <2>1, <2>2, ListType
<1> QED
  BY <1>1, <1>2, <1>3, <1>4

\* The list of Services reindexAllClusterIPs works through.
LEMMA ReindexType ==
  ASSUME TypeOK, NEW list \in SetToSeqs({Sync(s, svc[s]) : s \in LiveSvc})
  PROVE  list \in Seq(Item)
<1> DEFINE f == [s \in LiveSvc |-> Sync(s, svc[s])]
<1>1. LiveSvc \subseteq Service /\ IsFiniteSet(Service)
  BY ServiceAssumption DEF LiveSvc
<1>2. \A s \in Service : svc[s].vip \in VIP \cup {None}
  BY ObjectFacts DEF TypeOK
<1>3. f \in [LiveSvc -> Item]
  BY <1>1, <1>2 DEF Sync, Item
<1>4. list \in SetToSeqs({f[n] : n \in LiveSvc})
  OBVIOUS
<1> HIDE DEF f
<1> QED
  BY <1>1, <1>3, <1>4, ListType

\* What syncServiceClusterIPs derives is a mapping of a ClusterIP, or nothing.
LEMMA DerivedType ==
  ASSUME TypeOK, NEW item \in Item
  PROVE  Derived(item) \in Mapping \cup {None}
<1>1. item.svc \in Service /\ item.vip \in VIP \cup {None} /\ svc[item.svc].vip \in VIP \cup {None}
  BY ObjectFacts DEF TypeOK, Item
<1>2. ServiceWorkload(item.svc, pods) \in Identity
  <2> DEFINE ips == UNION {slice[e].ips : e \in {x \in LiveSlice : slice[x].of = item.svc}}
             found == {pods[ip] : ip \in ips} \ {None}
  <2>1. \A e \in Slice : slice[e].ips \subseteq PodIP
    BY ObjectFacts DEF TypeOK
  <2>2. ips \subseteq PodIP
    BY <2>1 DEF LiveSlice
  <2>3. found \subseteq Workload
    BY <2>2 DEF TypeOK
  <2>4. ServiceWorkload(item.svc, pods) =
          IF found = {} THEN None
          ELSE IF Cardinality(found) > 1 THEN ServiceOf(item.svc)
          ELSE CHOOSE w \in found : TRUE
    BY DEF ServiceWorkload
  <2> HIDE DEF found
  <2>5. found # {} => (CHOOSE w \in found : TRUE) \in Workload
    BY <2>3
  <2> QED
    BY <1>1, <2>4, <2>5 DEF Identity
<1> QED
  BY <1>1, <1>2 DEF Derived, Mapping

\* What the handlers queue up for themselves.
LEMMA ItemTypes ==
  ASSUME NEW s \in Service, NEW obj \in SvcObject, NEW label \in Label \cup {None}
  PROVE  <<Sync(s, obj)>> \in Seq(Item) /\ Named(label) \in Seq(Item)
<1>1. Sync(s, obj) \in Item
  BY ObjectFacts DEF Sync, Item
<1>2. label # None => SyncByName(label) \in Item
  BY ServiceAssumption DEF SyncByName, Item
<1> QED
  BY <1>1, <1>2 DEF Named

\* Two lists, and a list put in the place of one of the two.
LEMMA QueueType ==
  ASSUME TypeOK, NEW q \in Seq(SvcEvent), NEW r \in Seq(SliceEvent)
  PROVE  /\ [svc |-> q, slice |-> r] \in [{"svc", "slice"} -> Seq(SvcEvent \cup SliceEvent)]
         /\ [queue EXCEPT !["svc"] = q] \in [{"svc", "slice"} -> Seq(SvcEvent \cup SliceEvent)]
         /\ [queue EXCEPT !["slice"] = r] \in [{"svc", "slice"} -> Seq(SvcEvent \cup SliceEvent)]
         /\ [queue EXCEPT !["svc"] = q]["svc"] = q
         /\ [queue EXCEPT !["svc"] = q]["slice"] = queue["slice"]
         /\ [queue EXCEPT !["slice"] = r]["slice"] = r
         /\ [queue EXCEPT !["slice"] = r]["svc"] = queue["svc"]
<1> DEFINE A == SvcEvent
           B == SliceEvent
<1>1. queue \in [{"svc", "slice"} -> Seq(A \cup B)] /\ q \in Seq(A) /\ r \in Seq(B)
  BY DEF TypeOK
<1> HIDE DEF A, B
<1>2. q \in Seq(A \cup B) /\ r \in Seq(A \cup B)
  <2>1. /\ Len(q) \in Nat /\ q \in [1..Len(q) -> A]
        /\ Len(r) \in Nat /\ r \in [1..Len(r) -> B]
    BY <1>1
  <2>2. q \in [1..Len(q) -> A \cup B] /\ r \in [1..Len(r) -> A \cup B]
    BY <2>1
  <2> QED
    BY <2>1, <2>2
<1>3. [svc |-> q, slice |-> r] \in [{"svc", "slice"} -> Seq(A \cup B)]
  BY <1>2
<1> QED
  BY <1>1, <1>2, <1>3 DEF A, B

QueueOK(q) ==
  /\ q \in [{"svc", "slice"} -> Seq(SvcEvent \cup SliceEvent)]
  /\ q["svc"] \in Seq(SvcEvent) /\ q["slice"] \in Seq(SliceEvent)

LEMMA QueuesOK ==
  ASSUME TypeOK
  PROVE  /\ \A q \in Seq(SvcEvent) : QueueOK([queue EXCEPT !["svc"] = q])
         /\ \A r \in Seq(SliceEvent) : QueueOK([queue EXCEPT !["slice"] = r])
         /\ \A q \in Seq(SvcEvent), r \in Seq(SliceEvent) : QueueOK([svc |-> q, slice |-> r])
<1>1. queue["svc"] \in Seq(SvcEvent) /\ queue["slice"] \in Seq(SliceEvent)
  BY DEF TypeOK
<1>2. ASSUME NEW q \in Seq(SvcEvent), NEW r \in Seq(SliceEvent)
      PROVE  /\ QueueOK([queue EXCEPT !["svc"] = q]) /\ QueueOK([queue EXCEPT !["slice"] = r])
             /\ QueueOK([svc |-> q, slice |-> r])
  <2>1. [svc |-> q, slice |-> r]["svc"] = q /\ [svc |-> q, slice |-> r]["slice"] = r
    OBVIOUS
  <2> QED
    BY <1>1, <2>1, QueueType DEF QueueOK
<1> QED
  BY <1>1, <1>2

\* The notification a handler takes.
LEMMA Taking ==
  ASSUME TypeOK
  PROVE  /\ queue["svc"] # <<>> => Next1("svc") \in SvcEvent /\ Tail(queue["svc"]) \in Seq(SvcEvent)
         /\ queue["slice"] # <<>> => Next1("slice") \in SliceEvent /\ Tail(queue["slice"]) \in Seq(SliceEvent)
<1> DEFINE A == SvcEvent
           B == SliceEvent
<1>1. queue["svc"] \in Seq(A) /\ queue["slice"] \in Seq(B)
  BY DEF TypeOK
<1> HIDE DEF A, B
<1>2. /\ queue["svc"] # <<>> => Head(queue["svc"]) \in A /\ Tail(queue["svc"]) \in Seq(A)
      /\ queue["slice"] # <<>> => Head(queue["slice"]) \in B /\ Tail(queue["slice"]) \in Seq(B)
  BY <1>1
<1> QED
  BY <1>2 DEF A, B, Next1

\* A goroutine's work in hand.
LEMMA WorkType ==
  ASSUME TypeOK, NEW g \in Goroutine, NEW keys \in SUBSET (VIP \cup PodIP),
         NEW t \in Seq(Item), NEW o \in Mapping \cup {None}
  PROVE  /\ [work EXCEPT ![g].evict = keys] \in [Goroutine -> Work]
         /\ [work EXCEPT ![g].todo = t] \in [Goroutine -> Work]
         /\ [work EXCEPT ![g].out = o] \in [Goroutine -> Work]
         /\ [work EXCEPT ![g].out = o, ![g].todo = t] \in [Goroutine -> Work]
         /\ [work EXCEPT ![g].evict = keys, ![g].todo = t] \in [Goroutine -> Work]
<1>1. work \in [Goroutine -> Work]
  BY DEF TypeOK
<1> DEFINE T == Seq(Item)
           M == Mapping \cup {None}
           K == SUBSET (VIP \cup PodIP)
<1>2. Work = [evict : K, todo : T, out : M]
  BY DEF Work
<1> HIDE DEF T, M, K
<1>3. keys \in K /\ t \in T /\ o \in M
  BY DEF K, T, M
<1> QED
  BY <1>1, <1>2, <1>3

\* A notification of a change is queued, or one is taken.
LEMMA QueueSteps ==
  ASSUME TypeOK
  PROVE  /\ \A n \in Service : \A a, b \in SvcObject :
              LET q == Append(queue["svc"], Event(n, a, b))
              IN  q \in Seq(SvcEvent) /\ (Notify("svc", Event(n, a, b)) => queue' = [queue EXCEPT !["svc"] = q])
         /\ \A n \in Slice : \A a, b \in SliceObject :
              LET q == Append(queue["slice"], Event(n, a, b))
              IN  q \in Seq(SliceEvent) /\ (Notify("slice", Event(n, a, b)) => queue' = [queue EXCEPT !["slice"] = q])
         /\ \A k \in {"svc", "slice"} : Taken(k) => queue' = [queue EXCEPT ![k] = Tail(queue[k])]
<1> DEFINE A == SvcEvent
           B == SliceEvent
<1>1. queue["svc"] \in Seq(A) /\ queue["slice"] \in Seq(B) /\ DOMAIN queue = {"svc", "slice"}
  BY DEF TypeOK
<1>2. /\ \A n \in Service : \A a, b \in SvcObject : Event(n, a, b) \in A
      /\ \A n \in Slice : \A a, b \in SliceObject : Event(n, a, b) \in B
  BY DEF Event, SvcEvent, SliceEvent
<1> HIDE DEF A, B
<1>3. /\ \A n \in Service : \A a, b \in SvcObject : Append(queue["svc"], Event(n, a, b)) \in Seq(A)
      /\ \A n \in Slice : \A a, b \in SliceObject : Append(queue["slice"], Event(n, a, b)) \in Seq(B)
  BY <1>1, <1>2
<1> QED
  BY <1>1, <1>3 DEF Notify, Taken, A, B

\* Types survive every step.
LEMMA TypeStep == TypeOK /\ [Next]_vars => TypeOK'
<1> SUFFICES ASSUME TypeOK, [Next]_vars PROVE TypeOK'
  OBVIOUS
<1>t. /\ phase \in {"start", "synced", "reindex", "ready"}
      /\ svc \in [Service -> SvcObject] /\ slice \in [Slice -> SliceObject]
      /\ owner \in [PodIP -> Workload \cup {None}] /\ pods \in [PodIP -> Workload \cup {None}]
      /\ byIP \in [VIP -> Identity] /\ byPort \subseteq VIP \cup PodIP
      /\ QueueOK(queue) /\ work \in [Goroutine -> Work]
  BY DEF TypeOK, QueueOK
<1>w. {} \in SUBSET (VIP \cup PodIP) /\ <<>> \in Seq(Item) /\ None \in Mapping \cup {None}
  OBVIOUS
<1>g. "svc" \in Goroutine /\ "slice" \in Goroutine /\ "run" \in Goroutine
  BY DEF Goroutine
<1>n. None \in Identity
  BY DEF Identity
<1>s. ASSUME queue["svc"] # <<>>
      PROVE  /\ Next1("svc").name \in Service
             /\ Next1("svc").old \in SvcObject /\ Next1("svc").new \in SvcObject
             /\ SvcKeys(Next1("svc").old) \subseteq VIP /\ SvcKeys(Next1("svc").new) \subseteq VIP
             /\ Taken("svc") => QueueOK(queue')
  <2>1. Next1("svc") \in SvcEvent /\ Tail(queue["svc"]) \in Seq(SvcEvent)
    BY <1>s, Taking
  <2>2. /\ Next1("svc").name \in Service
        /\ Next1("svc").old \in SvcObject /\ Next1("svc").new \in SvcObject
    BY <2>1 DEF SvcEvent
  <2>3. /\ SvcKeys(Next1("svc").old) \subseteq VIP /\ SvcKeys(Next1("svc").new) \subseteq VIP
    BY <2>2, ObjectFacts DEF SvcKeys
  <2>4. Taken("svc") => queue' = [queue EXCEPT !["svc"] = Tail(queue["svc"])]
    BY QueueSteps
  <2>5. Taken("svc") => QueueOK(queue')
    BY <2>1, <2>4, QueuesOK
  <2> QED
    BY <2>2, <2>3, <2>5
<1>e. ASSUME queue["slice"] # <<>>
      PROVE  /\ Next1("slice").name \in Slice
             /\ Next1("slice").old \in SliceObject /\ Next1("slice").new \in SliceObject
             /\ Next1("slice").old.ips \subseteq PodIP /\ Next1("slice").new.ips \subseteq PodIP
             /\ Named(Next1("slice").old.of) \in Seq(Item) /\ Named(Next1("slice").new.of) \in Seq(Item)
             /\ Taken("slice") => QueueOK(queue')
  <2>1. Next1("slice") \in SliceEvent /\ Tail(queue["slice"]) \in Seq(SliceEvent)
    BY <1>e, Taking
  <2>2. /\ Next1("slice").name \in Slice
        /\ Next1("slice").old \in SliceObject /\ Next1("slice").new \in SliceObject
    BY <2>1 DEF SliceEvent
  <2>3. /\ Next1("slice").old.ips \subseteq PodIP /\ Next1("slice").new.ips \subseteq PodIP
        /\ Next1("slice").old.of \in Label \cup {None} /\ Next1("slice").new.of \in Label \cup {None}
    BY <2>2, ObjectFacts
  <2>4. Taken("slice") => queue' = [queue EXCEPT !["slice"] = Tail(queue["slice"])]
    BY QueueSteps
  <2>5. Taken("slice") => QueueOK(queue')
    BY <2>1, <2>4, QueuesOK
  <2>6. \A label \in Label \cup {None} : Named(label) \in Seq(Item)
    <3> SUFFICES ASSUME NEW label \in Label \cup {None} PROVE Named(label) \in Seq(Item)
      OBVIOUS
    <3>1. label # None => SyncByName(label) \in Item
      BY ServiceAssumption DEF SyncByName, Item
    <3> QED
      BY <3>1 DEF Named
  <2> QED
    BY <2>2, <2>3, <2>5, <2>6
<1> USE DEF cluster
<1>1. ASSUME NEW s \in Service, NEW obj \in SvcObject, ChangeSvc(s, obj) PROVE TypeOK'
  <2>1. /\ svc' = [svc EXCEPT ![s] = obj] /\ Notify("svc", Event(s, svc[s], obj))
        /\ UNCHANGED <<phase, slice, owner, pods, byIP, byPort, work>>
    BY <1>1 DEF ChangeSvc
  <2>2. svc' \in [Service -> SvcObject] /\ svc[s] \in SvcObject
    BY <2>1, <1>t
  <2>3. QueueOK(queue')
    BY <2>1, <2>2, QueueSteps, QueuesOK
  <2> QED
    BY <2>1, <2>2, <2>3, <1>t DEF TypeOK, QueueOK
<1>2. ASSUME NEW e \in Slice, NEW obj \in SliceObject, ChangeSlice(e, obj) PROVE TypeOK'
  <2>1. /\ slice' = [slice EXCEPT ![e] = obj] /\ Notify("slice", Event(e, slice[e], obj))
        /\ UNCHANGED <<phase, svc, owner, pods, byIP, byPort, work>>
    BY <1>2 DEF ChangeSlice
  <2>2. slice' \in [Slice -> SliceObject] /\ slice[e] \in SliceObject
    BY <2>1, <1>t
  <2>3. QueueOK(queue')
    BY <2>1, <2>2, QueueSteps, QueuesOK
  <2> QED
    BY <2>1, <2>2, <2>3, <1>t DEF TypeOK, QueueOK
<1>3. ASSUME NEW ip \in PodIP, NEW w \in Runs[ip] \cup {None}, ChangePod(ip, w) PROVE TypeOK'
  <2>1. w \in Workload \cup {None}
    BY DEF Workload
  <2>2. owner' \in [PodIP -> Workload \cup {None}]
    BY <1>3, <2>1, <1>t DEF ChangePod
  <2> QED
    BY <1>3, <2>2, <1>t DEF ChangePod, TypeOK
<1>4. ASSUME NEW ip \in PodIP, HandlePod(ip) PROVE TypeOK'
  <2>1. pods' \in [PodIP -> Workload \cup {None}]
    BY <1>4, <1>t DEF HandlePod
  <2> QED
    BY <1>4, <2>1, <1>t DEF HandlePod, TypeOK
<1>5. CASE Start
  <2>1. PICK q \in SetToSeqs(Added(svc, LiveSvc, NoSvc)),
             r \in SetToSeqs(Added(slice, LiveSlice, NoSlice)) : queue' = [svc |-> q, slice |-> r]
    BY <1>5 DEF Start
  <2>2. QueueOK(queue')
    BY <2>1, QueueTypes, QueuesOK
  <2> QED
    BY <1>5, <2>2, <1>t DEF Start, TypeOK, QueueOK
<1>6. ASSUME NEW k \in {"svc", "slice"}, Resync(k) PROVE TypeOK'
  <2>1. PICK q \in SetToSeqs(IF k = "svc" THEN Replayed(svc, LiveSvc) ELSE Replayed(slice, LiveSlice)) :
          queue' = [queue EXCEPT ![k] = q]
    BY <1>6 DEF Resync
  <2>2. QueueOK(queue')
    BY <2>1, QueueTypes, QueuesOK
  <2> QED
    BY <1>6, <2>2, <1>t DEF Resync, TypeOK, QueueOK
<1>7. CASE OnService
  <2>1. /\ queue["svc"] # <<>> /\ Taken("svc")
        /\ byPort' = byPort \cup SvcKeys(Next1("svc").new)
        /\ work' = [work EXCEPT !["svc"].todo = <<Sync(Next1("svc").name, Next1("svc").new)>>]
        /\ UNCHANGED <<phase, pods, byIP, svc, slice, owner>>
    BY <1>7 DEF OnService
  <2>2. work' \in [Goroutine -> Work]
    BY <2>1, <1>s, <1>g, ItemTypes, WorkType
  <2> QED
    BY <2>1, <2>2, <1>s, <1>t DEF TypeOK, QueueOK
<1>8. CASE OnServiceUpdate
  <2>1. /\ queue["svc"] # <<>> /\ Taken("svc")
        /\ byPort' = byPort \cup SvcKeys(Next1("svc").new)
        /\ work' = [work EXCEPT !["svc"].evict = SvcKeys(Next1("svc").old) \ SvcKeys(Next1("svc").new),
                                !["svc"].todo = <<Sync(Next1("svc").name, Next1("svc").new)>>]
        /\ UNCHANGED <<phase, pods, byIP, svc, slice, owner>>
    BY <1>8 DEF OnServiceUpdate, Stale
  <2>2. SvcKeys(Next1("svc").old) \ SvcKeys(Next1("svc").new) \in SUBSET (VIP \cup PodIP)
    BY <2>1, <1>s
  <2>3. work' \in [Goroutine -> Work]
    BY <2>1, <2>2, <1>s, <1>g, ItemTypes, WorkType
  <2> QED
    BY <2>1, <2>3, <1>s, <1>t DEF TypeOK, QueueOK
<1>9. CASE OnServiceDelete
  <2>1. /\ queue["svc"] # <<>> /\ Taken("svc")
        /\ byPort' = byPort \ SvcKeys(Next1("svc").old)
        /\ byIP' = [v \in VIP |-> IF v \in SvcKeys(Next1("svc").old) THEN None ELSE byIP[v]]
        /\ UNCHANGED <<phase, pods, work, svc, slice, owner>>
    BY <1>9 DEF OnServiceDelete
  <2>2. byIP' \in [VIP -> Identity]
    BY <2>1, <1>t, <1>n
  <2> QED
    BY <2>1, <2>2, <1>s, <1>t DEF TypeOK, QueueOK
<1>10. CASE OnEndpointSlice
  <2>1. /\ queue["slice"] # <<>> /\ Taken("slice")
        /\ byPort' = byPort \cup Next1("slice").new.ips
        /\ work' = [work EXCEPT !["slice"].todo = Named(Next1("slice").new.of)]
        /\ UNCHANGED <<phase, pods, byIP, svc, slice, owner>>
    BY <1>10 DEF OnEndpointSlice
  <2>2. work' \in [Goroutine -> Work]
    BY <2>1, <1>e, <1>g, WorkType
  <2> QED
    BY <2>1, <2>2, <1>e, <1>t DEF TypeOK, QueueOK
<1>11. CASE OnEndpointSliceUpdate
  <2> DEFINE before == IF Next1("slice").old.of = Next1("slice").new.of THEN <<>>
                       ELSE Named(Next1("slice").old.of)
             t == Named(Next1("slice").new.of) \o before
             keys == Next1("slice").old.ips \ Next1("slice").new.ips
  <2>1. /\ queue["slice"] # <<>> /\ Taken("slice")
        /\ byPort' = byPort \cup Next1("slice").new.ips
        /\ work' = [work EXCEPT !["slice"].evict = keys, !["slice"].todo = t]
        /\ UNCHANGED <<phase, pods, byIP, svc, slice, owner>>
    BY <1>11 DEF OnEndpointSliceUpdate, Stale
  <2>2. keys \in SUBSET (VIP \cup PodIP)
    BY <2>1, <1>e
  <2>3. t \in Seq(Item)
    <3> DEFINE A == Item
    <3>1. Named(Next1("slice").new.of) \in Seq(A) /\ Named(Next1("slice").old.of) \in Seq(A)
      BY <2>1, <1>e
    <3> HIDE DEF A
    <3>2. before \in Seq(A)
      BY <3>1
    <3>3. t \in Seq(A)
      BY <3>1, <3>2
    <3> QED
      BY <3>3 DEF A
  <2> HIDE DEF t, keys
  <2>4. work' \in [Goroutine -> Work]
    BY <2>1, <2>2, <2>3, <1>g, WorkType
  <2> QED
    BY <2>1, <2>4, <1>e, <1>t DEF TypeOK, QueueOK
<1>12. CASE OnEndpointSliceDelete
  <2>1. /\ queue["slice"] # <<>> /\ Taken("slice")
        /\ byPort' = byPort \ Next1("slice").old.ips
        /\ work' = [work EXCEPT !["slice"].todo = Named(Next1("slice").old.of)]
        /\ UNCHANGED <<phase, pods, byIP, svc, slice, owner>>
    BY <1>12 DEF OnEndpointSliceDelete
  <2>2. work' \in [Goroutine -> Work]
    BY <2>1, <1>e, <1>g, WorkType
  <2> QED
    BY <2>1, <2>2, <1>e, <1>t DEF TypeOK, QueueOK
<1>13. CASE ReindexAll
  <2>1. PICK list \in SetToSeqs({Sync(s, svc[s]) : s \in LiveSvc}) :
          work' = [work EXCEPT !["run"].todo = list]
    BY <1>13 DEF ReindexAll
  <2>2. work' \in [Goroutine -> Work]
    BY <2>1, <1>g, ReindexType, WorkType
  <2> QED
    BY <1>13, <2>2, <1>t DEF ReindexAll, TypeOK, QueueOK
<1>14. CASE Synced
  BY <1>14, <1>t DEF Synced, TypeOK, QueueOK
<1>15. ASSUME NEW g \in Goroutine, Evict(g) PROVE TypeOK'
  <2>1. byIP' \in [VIP -> Identity]
    BY <1>15, <1>t, <1>n DEF Evict
  <2>2. work' \in [Goroutine -> Work]
    BY <1>15, <1>w, WorkType DEF Evict
  <2> QED
    BY <1>15, <2>1, <2>2, <1>t DEF Evict, TypeOK, QueueOK
<1>16. ASSUME NEW g \in Goroutine, Derive(g) PROVE TypeOK'
  <2> DEFINE A == Item
             todo == work[g].todo
  <2>1. todo \in Seq(A) /\ todo # <<>>
    BY <1>16, <1>t DEF Derive, Work
  <2> HIDE DEF A, todo
  <2>2. Head(todo) \in A /\ Tail(todo) \in Seq(A)
    BY <2>1
  <2>3. Derived(Head(todo)) \in Mapping \cup {None}
    BY <2>2, DerivedType DEF A
  <2>4. work' = [work EXCEPT ![g].out = Derived(Head(todo)), ![g].todo = Tail(todo)]
    BY <1>16, <1>t DEF Derive, todo
  <2>5. work' \in [Goroutine -> Work]
    BY <2>2, <2>3, <2>4, WorkType DEF A
  <2> QED
    BY <1>16, <2>5, <1>t DEF Derive, TypeOK, QueueOK
<1>17. ASSUME NEW g \in Goroutine, Write(g) PROVE TypeOK'
  <2>1. work[g].out \in Mapping
    BY <1>17, <1>t DEF Write, Work
  <2>2. byIP' \in [VIP -> Identity]
    BY <1>17, <2>1, <1>t DEF Write, Mapping
  <2>3. work' \in [Goroutine -> Work]
    BY <1>17, <1>w, WorkType DEF Write
  <2> QED
    BY <1>17, <2>2, <2>3, <1>t DEF Write, TypeOK, QueueOK
<1>18. CASE UNCHANGED vars
  BY <1>18, <1>t DEF vars, TypeOK, QueueOK
<1> QED
  BY <1>1, <1>2, <1>3, <1>4, <1>5, <1>6, <1>7, <1>8, <1>9, <1>10, <1>11, <1>12, <1>13, <1>14,
     <1>15, <1>16, <1>17, <1>18 DEF Next, Cluster, Handle

-----------------------------------------------------------------------------
(* The port index follows the histories.                                   *)

\* A step that changes neither the Services nor their port entries.
LEMMA SvcSame ==
  ASSUME SvcSound, phase # "start", svc' = svc, queue'["svc"] = queue["svc"],
         \A v \in VIP : v \in byPort' /\ v \notin work'["svc"].evict
                          <=> v \in byPort /\ v \notin work["svc"].evict
  PROVE  SvcSound'
<1>1. PICK h \in Histories(Service, SvcObject, queue["svc"]) : SvcHistory(h)
  BY DEF SvcSound
<1>2. SvcHistory(h)'
  BY <1>1 DEF SvcHistory
<1> QED
  BY <1>1, <1>2 DEF SvcSound

\* A step that changes neither the slices nor their port entries.
LEMMA SliceSame ==
  ASSUME SliceSound, phase # "start", slice' = slice, queue'["slice"] = queue["slice"],
         \A ip \in PodIP : ip \in byPort' /\ ip \notin work'["slice"].evict
                             => ip \in byPort /\ ip \notin work["slice"].evict
  PROVE  SliceSound'
<1>1. PICK h \in Histories(Slice, SliceObject, queue["slice"]) : SliceHistory(h)
  BY DEF SliceSound
<1>2. SliceHistory(h)'
  BY <1>1 DEF SliceHistory
<1> QED
  BY <1>1, <1>2 DEF SliceSound

\* A change of the cluster.
LEMMA SvcChanged ==
  ASSUME TypeOK, SvcSound, NEW s \in Service, NEW obj \in SvcObject, ChangeSvc(s, obj)
  PROVE  SvcSound'
<1> DEFINE q == queue["svc"]
           ev == Event(s, svc[s], obj)
           new == [svc EXCEPT ![s] = obj]
<1>1. /\ svc' = new /\ Allocated(new) /\ phase # "start"
      /\ Notify("svc", ev) /\ byPort' = byPort /\ work' = work
  BY DEF ChangeSvc, Change
<1>2. queue'["svc"] = Append(q, ev)
  BY <1>1 DEF Notify, TypeOK
<1>3. /\ svc \in [Service -> SvcObject] /\ q \in Seq(SvcEvent) /\ ev \in SvcEvent
      /\ ev.name = s /\ ev.old = svc[s] /\ ev.new = obj
  BY DEF TypeOK, Event, SvcEvent
<1>4. PICK h \in Histories(Service, SvcObject, q) : SvcHistory(h)
  BY <1>1 DEF SvcSound
<1>5. History(Service, SvcObject, q, svc, h)
  BY <1>4 DEF SvcHistory
<1>6. PICK g :
        /\ History(Service, SvcObject, Append(q, ev), new, g)
        /\ \A i \in 0..Len(q) : g[i] = h[i]
        /\ g[Len(q) + 1] = new
  BY <1>5, HistoryAppend
<1>7. Len(q) \in Nat /\ Len(Append(q, ev)) = Len(q) + 1
  BY <1>3, AppendAt
<1>8. \A i \in 0..Len(q) : Allocated(h[i])
  BY <1>4 DEF SvcHistory
<1>9. \A i \in 0..Len(Append(q, ev)) : Allocated(g[i])
  <2> SUFFICES ASSUME NEW i \in 0..Len(Append(q, ev)) PROVE Allocated(g[i])
    OBVIOUS
  <2>1. i \in 0..Len(q) \/ i = Len(q) + 1
    BY <1>7
  <2> QED
    BY <2>1, <1>1, <1>6, <1>8
<1>10. g[0] = h[0]
  BY <1>6, <1>7
<1>11. SvcHistory(g)'
  BY <1>1, <1>2, <1>4, <1>6, <1>9, <1>10 DEF SvcHistory
<1>12. g \in Histories(Service, SvcObject, Append(q, ev))
  BY <1>6 DEF History
<1> QED
  BY <1>2, <1>11, <1>12 DEF SvcSound

LEMMA SliceChanged ==
  ASSUME TypeOK, SliceSound, NEW e \in Slice, NEW obj \in SliceObject, ChangeSlice(e, obj)
  PROVE  SliceSound'
<1> DEFINE q == queue["slice"]
           ev == Event(e, slice[e], obj)
           new == [slice EXCEPT ![e] = obj]
<1>1. /\ slice' = new /\ phase # "start"
      /\ Notify("slice", ev) /\ byPort' = byPort /\ work' = work
  BY DEF ChangeSlice, Change
<1>2. queue'["slice"] = Append(q, ev)
  BY <1>1 DEF Notify, TypeOK
<1>3. /\ slice \in [Slice -> SliceObject] /\ q \in Seq(SliceEvent) /\ ev \in SliceEvent
      /\ ev.name = e /\ ev.old = slice[e] /\ ev.new = obj
  BY DEF TypeOK, Event, SliceEvent
<1>4. PICK h \in Histories(Slice, SliceObject, q) : SliceHistory(h)
  BY <1>1 DEF SliceSound
<1>5. History(Slice, SliceObject, q, slice, h)
  BY <1>4 DEF SliceHistory
<1>6. PICK g :
        /\ History(Slice, SliceObject, Append(q, ev), new, g)
        /\ \A i \in 0..Len(q) : g[i] = h[i]
  BY <1>5, HistoryAppend
<1>7. Len(q) \in Nat
  BY <1>3, AppendAt
<1>8. g[0] = h[0]
  BY <1>6, <1>7
<1>9. SliceHistory(g)'
  BY <1>1, <1>2, <1>4, <1>6, <1>8 DEF SliceHistory
<1>10. g \in Histories(Slice, SliceObject, Append(q, ev))
  BY <1>6 DEF History
<1> QED
  BY <1>2, <1>9, <1>10 DEF SliceSound

\* A Service handler takes a notification: the new revision's key is in, the old
\* one's out or being evicted, the others as before.
LEMMA SvcTaken ==
  ASSUME TypeOK, SvcSound, phase # "start", queue["svc"] # <<>>, work["svc"].evict = {},
         svc' = svc, Taken("svc"),
         \A v \in VIP : v \in byPort' /\ v \notin work'["svc"].evict
           <=> v = Next1("svc").new.vip \/ (v \in byPort /\ v # Next1("svc").old.vip)
  PROVE  SvcSound'
<1> DEFINE q == queue["svc"]
           ev == Next1("svc")
<1>1. queue'["svc"] = Tail(q)
  BY DEF Taken, TypeOK
<1>2. q \in Seq(SvcEvent) /\ q # <<>>
  BY DEF TypeOK
<1>3. ev \in SvcEvent /\ Head(q) = ev
  BY Taking DEF Next1
<1>4. PICK h \in Histories(Service, SvcObject, q) : SvcHistory(h)
  BY DEF SvcSound
<1>5. History(Service, SvcObject, q, svc, h)
  BY <1>4 DEF SvcHistory
<1>6. PICK g :
        /\ History(Service, SvcObject, Tail(q), svc, g)
        /\ \A i \in 0..Len(Tail(q)) : i + 1 \in 0..Len(q) /\ g[i] = h[i + 1]
        /\ g[0] = [h[0] EXCEPT ![ev.name] = ev.new]
        /\ ev.old = h[0][ev.name]
  <2> HIDE DEF q
  <2> QED
    BY <1>2, <1>3, <1>5, HistoryTail
<1>7. 0 \in 0..Len(q) /\ h[0] \in [Service -> SvcObject]
  BY <1>5, HistoryFacts
<1>8. (\A i \in 0..Len(q) : Allocated(h[i])) /\ Allocated(h[0])
  BY <1>4, <1>7 DEF SvcHistory
<1>9. \A i \in 0..Len(Tail(q)) : Allocated(g[i])
  BY <1>6, <1>8
<1>10. ev.name \in Service
  BY <1>3 DEF SvcEvent
<1>11. ASSUME NEW v \in VIP
       PROVE  v = ev.new.vip \/ (v \in byPort /\ v # ev.old.vip) <=> \E s \in Service : g[0][s].vip = v
  <2>1. v \in byPort <=> \E s \in Service : h[0][s].vip = v
    BY <1>4 DEF SvcHistory
  <2>2. v # None
    BY ServiceAssumption
  <2>3. \A s \in Service : g[0][s] = IF s = ev.name THEN ev.new ELSE h[0][s]
    BY <1>6, <1>7, <1>10
  <2>4. ASSUME NEW s \in Service, h[0][s].vip = v, v # ev.old.vip PROVE s # ev.name
    BY <2>4, <1>6
  <2>5. ASSUME NEW s \in Service, s # ev.name, h[0][s].vip = v PROVE v # ev.old.vip
    BY <2>5, <2>2, <1>6, <1>8, <1>10 DEF Allocated
  <2> QED
    BY <2>1, <2>3, <2>4, <2>5, <1>10
<1>12. SvcHistory(g)'
  BY <1>1, <1>6, <1>9, <1>11 DEF SvcHistory
<1>13. g \in Histories(Service, SvcObject, Tail(q))
  BY <1>6 DEF History
<1> QED
  BY <1>1, <1>12, <1>13 DEF SvcSound

\* A slice handler takes a notification.
LEMMA SliceTaken ==
  ASSUME TypeOK, SliceSound, phase # "start", queue["slice"] # <<>>, work["slice"].evict = {},
         slice' = slice, Taken("slice"),
         \A ip \in PodIP : ip \in byPort' /\ ip \notin work'["slice"].evict
           => ip \in Next1("slice").new.ips \/ (ip \in byPort /\ ip \notin Next1("slice").old.ips)
  PROVE  SliceSound'
<1> DEFINE q == queue["slice"]
           ev == Next1("slice")
<1>1. queue'["slice"] = Tail(q)
  BY DEF Taken, TypeOK
<1>2. q \in Seq(SliceEvent) /\ q # <<>>
  BY DEF TypeOK
<1>3. ev \in SliceEvent /\ Head(q) = ev
  BY Taking DEF Next1
<1>4. PICK h \in Histories(Slice, SliceObject, q) : SliceHistory(h)
  BY DEF SliceSound
<1>5. History(Slice, SliceObject, q, slice, h)
  BY <1>4 DEF SliceHistory
<1>6. PICK g :
        /\ History(Slice, SliceObject, Tail(q), slice, g)
        /\ g[0] = [h[0] EXCEPT ![ev.name] = ev.new]
        /\ ev.old = h[0][ev.name]
  <2> HIDE DEF q
  <2> QED
    BY <1>2, <1>3, <1>5, HistoryTail
<1>7. h[0] \in [Slice -> SliceObject]
  BY <1>5, HistoryFacts
<1>8. ev.name \in Slice
  BY <1>3 DEF SliceEvent
<1>9. \A e \in Slice : g[0][e] = IF e = ev.name THEN ev.new ELSE h[0][e]
  BY <1>6, <1>7, <1>8
<1>10. ASSUME NEW ip \in PodIP, ip \in ev.new.ips \/ (ip \in byPort /\ ip \notin ev.old.ips)
       PROVE  \E e \in Slice : ip \in g[0][e].ips
  <2>1. CASE ip \in ev.new.ips
    BY <2>1, <1>8, <1>9
  <2>2. CASE ip \in byPort /\ ip \notin ev.old.ips
    <3>1. PICK e \in Slice : ip \in h[0][e].ips
      BY <2>2, <1>4 DEF SliceHistory
    <3> QED
      BY <2>2, <3>1, <1>6, <1>9
  <2> QED
    BY <1>10, <2>1, <2>2
<1>11. SliceHistory(g)'
  BY <1>1, <1>6, <1>10 DEF SliceHistory
<1>12. g \in Histories(Slice, SliceObject, Tail(q))
  BY <1>6 DEF History
<1> QED
  BY <1>1, <1>11, <1>12 DEF SliceSound

-----------------------------------------------------------------------------
(* The invariant.                                                          *)

LEMMA InitIInv == Init => IInv
<1> SUFFICES ASSUME Init PROVE IInv
  OBVIOUS
<1>1. queue["svc"] = <<>> /\ queue["slice"] = <<>> /\ \A g \in Goroutine : work[g] = Idle
  BY DEF Init
<1>2. TypeOK
  <2>1. None \in Workload \cup {None} /\ None \in Identity
    BY DEF Identity
  <2>2. pods \in [PodIP -> Workload \cup {None}] /\ byIP \in [VIP -> Identity]
    BY <2>1 DEF Init
  <2>3. Idle \in Work
    BY DEF Idle, Work
  <2>4. work \in [Goroutine -> Work]
    BY <2>3 DEF Init
  <2>5. queue \in [{"svc", "slice"} -> Seq(SvcEvent \cup SliceEvent)]
    BY DEF Init
  <2> QED
    BY <1>1, <2>2, <2>4, <2>5 DEF Init, TypeOK
<1>3. Evictions
  BY <1>1 DEF Evictions, Goroutine, Idle
<1> QED
  BY <1>1, <1>2, <1>3 DEF IInv, Init, Before, SvcSound, SliceSound

\* The informers list: the histories lead from nothing to the cluster.
LEMMA StartSound ==
  ASSUME IInv, Start PROVE SvcSound' /\ SliceSound'
<1>1. PICK q \in SetToSeqs(Added(svc, LiveSvc, NoSvc)),
           r \in SetToSeqs(Added(slice, LiveSlice, NoSlice)) : queue' = [svc |-> q, slice |-> r]
  BY DEF Start
<1>2. /\ queue'["svc"] = q /\ queue'["slice"] = r
      /\ svc' = svc /\ slice' = slice /\ byPort' = byPort /\ work' = work
  BY <1>1 DEF Start, cluster
<1>3. byPort = {}
  BY DEF IInv, Before, Start
<1>4. /\ svc \in [Service -> SvcObject] /\ slice \in [Slice -> SliceObject]
      /\ NoSvc \in SvcObject /\ NoSlice \in SliceObject
      /\ LiveSvc \in SUBSET Service /\ LiveSlice \in SUBSET Slice
      /\ IsFiniteSet(Service) /\ IsFiniteSet(Slice)
  BY ServiceAssumption DEF IInv, TypeOK, SvcObject, SliceObject, LiveSvc, LiveSlice
<1>i. Indexer(Service, SvcObject, svc) /\ Indexer(Slice, SliceObject, slice)
  BY <1>4 DEF Indexer
<1>5. (\A s \in Service \ LiveSvc : svc[s] = NoSvc) /\ (\A e \in Slice \ LiveSlice : slice[e] = NoSlice)
  BY <1>4, NoObject DEF LiveSvc, LiveSlice
<1>6. SvcSound'
  <2>1. PICK h : /\ History(Service, SvcObject, q, svc, h)
                 /\ \A n \in Service : h[0][n] = NoSvc
                 /\ \A i \in 0..Len(q) : \A n \in Service : h[i][n] \in {NoSvc, svc[n]}
    BY <1>4, <1>5, <1>i, HistoryList
  <2>2. h \in Histories(Service, SvcObject, q)
    BY <2>1 DEF History
  <2>3. Allocated(svc) /\ NoSvc.vip = None
    BY DEF IInv, NoSvc
  <2>4. \A i \in 0..Len(q) : Allocated(h[i])
    <3> SUFFICES ASSUME NEW i \in 0..Len(q), NEW s \in Service, NEW t \in Service,
                        h[i][s].vip = h[i][t].vip, h[i][s].vip # None
                 PROVE  s = t
      BY DEF Allocated
    <3>1. h[i][s] = svc[s] /\ h[i][t] = svc[t]
      BY <2>1, <2>3
    <3> QED
      BY <3>1, <2>3 DEF Allocated
  <2>5. \A v \in VIP : ~\E s \in Service : h[0][s].vip = v
    BY <2>1, <2>3, ServiceAssumption
  <2>6. SvcHistory(h)'
    BY <1>2, <1>3, <2>1, <2>4, <2>5 DEF SvcHistory
  <2> QED
    BY <1>2, <2>2, <2>6 DEF SvcSound
<1>7. SliceSound'
  <2>1. PICK h : History(Slice, SliceObject, r, slice, h)
    BY <1>4, <1>5, <1>i, HistoryList
  <2>2. h \in Histories(Slice, SliceObject, r)
    BY <2>1 DEF History
  <2>3. SliceHistory(h)'
    BY <1>2, <1>3, <2>1 DEF SliceHistory
  <2> QED
    BY <1>2, <2>2, <2>3 DEF SliceSound
<1> QED
  BY <1>6, <1>7

\* A resync: nothing is queued, so the cluster as handled is the present one.
LEMMA ResyncSound ==
  ASSUME IInv, NEW k \in {"svc", "slice"}, Resync(k) PROVE SvcSound' /\ SliceSound'
<1>1. /\ phase # "start" /\ queue[k] = <<>>
      /\ svc' = svc /\ slice' = slice /\ byPort' = byPort /\ work' = work
  BY DEF Resync, cluster
<1>2. /\ svc \in [Service -> SvcObject] /\ slice \in [Slice -> SliceObject]
      /\ LiveSvc \in SUBSET Service /\ LiveSlice \in SUBSET Slice
      /\ IsFiniteSet(Service) /\ IsFiniteSet(Slice) /\ DOMAIN queue = {"svc", "slice"}
  BY ServiceAssumption DEF IInv, TypeOK, LiveSvc, LiveSlice
<1>i. Indexer(Service, SvcObject, svc) /\ Indexer(Slice, SliceObject, slice)
  BY <1>2 DEF Indexer
<1>3. Len(<<>>) = 0
  OBVIOUS
<1>4. CASE k = "svc"
  <2>1. PICK q \in SetToSeqs(Replayed(svc, LiveSvc)) : queue' = [queue EXCEPT !["svc"] = q]
    BY <1>4 DEF Resync
  <2>2. queue'["svc"] = q /\ queue'["slice"] = queue["slice"]
    BY <2>1, <1>2
  <2>3. PICK g \in Histories(Service, SvcObject, queue["svc"]) : SvcHistory(g)
    BY <1>1 DEF IInv, SvcSound
  <2>4. g[0] = svc
    BY <1>1, <1>3, <1>4, <2>3 DEF SvcHistory, History
  <2>5. PICK h : History(Service, SvcObject, q, svc, h) /\ \A i \in 0..Len(q) : h[i] = svc
    BY <1>2, <1>i, HistoryResync
  <2>6. h \in Histories(Service, SvcObject, q) /\ Len(q) \in Nat
    BY <2>5, HistoryFacts DEF History
  <2>7. Allocated(svc) /\ h[0] = svc
    BY <2>5, <2>6 DEF IInv
  <2>8. SvcHistory(h)'
    BY <1>1, <2>2, <2>3, <2>4, <2>5, <2>7 DEF SvcHistory
  <2>9. SvcSound'
    BY <2>2, <2>6, <2>8 DEF SvcSound
  <2> QED
    BY <1>1, <2>2, <2>9, SliceSame DEF IInv
<1>5. CASE k = "slice"
  <2>1. PICK q \in SetToSeqs(Replayed(slice, LiveSlice)) : queue' = [queue EXCEPT !["slice"] = q]
    BY <1>5 DEF Resync
  <2>2. queue'["slice"] = q /\ queue'["svc"] = queue["svc"]
    BY <2>1, <1>2
  <2>3. PICK g \in Histories(Slice, SliceObject, queue["slice"]) : SliceHistory(g)
    BY <1>1 DEF IInv, SliceSound
  <2>4. g[0] = slice
    BY <1>1, <1>3, <1>5, <2>3 DEF SliceHistory, History
  <2>5. PICK h : History(Slice, SliceObject, q, slice, h) /\ \A i \in 0..Len(q) : h[i] = slice
    BY <1>2, <1>i, HistoryResync
  <2>6. h \in Histories(Slice, SliceObject, q) /\ Len(q) \in Nat
    BY <2>5, HistoryFacts DEF History
  <2>7. h[0] = slice
    BY <2>5, <2>6
  <2>8. SliceHistory(h)'
    BY <1>1, <2>2, <2>3, <2>4, <2>5, <2>7 DEF SliceHistory
  <2>9. SliceSound'
    BY <2>2, <2>6, <2>8 DEF SliceSound
  <2> QED
    BY <1>1, <2>2, <2>9, SvcSame DEF IInv
<1> QED
  BY <1>4, <1>5

\* Every step keeps the invariant.
LEMMA IInvStep == IInv /\ [Next]_vars => IInv'
<1> SUFFICES ASSUME IInv, [Next]_vars PROVE IInv'
  OBVIOUS
<1>i. TypeOK /\ Allocated(svc) /\ Before /\ Evictions /\ SvcSound /\ SliceSound
  BY DEF IInv
<1>t. TypeOK'
  BY <1>i, TypeStep
<1> DEFINE Rest == /\ phase' # "start" /\ Allocated(svc)' /\ Evictions'
                   /\ SvcSound' /\ SliceSound'
<1>r. Rest => IInv'
  BY <1>t DEF IInv, Before
<1>d. VIP \cap PodIP = {} /\ None \notin VIP
  BY ServiceAssumption
<1>g. /\ "svc" \in Goroutine /\ "slice" \in Goroutine /\ "run" \in Goroutine
      /\ work \in [Goroutine -> Work]
      /\ \A g \in Goroutine : DOMAIN work[g] = {"evict", "todo", "out"}
  BY <1>i DEF Goroutine, TypeOK, Work
<1>q. DOMAIN queue = {"svc", "slice"}
  BY <1>i DEF TypeOK
<1>s. ASSUME queue["svc"] # <<>>
      PROVE  /\ phase # "start"
             /\ Next1("svc").old.vip \in VIP \cup {None} /\ Next1("svc").new.vip \in VIP \cup {None}
             /\ ~Next1("svc").old.live => Next1("svc").old.vip = None
             /\ ~Next1("svc").new.live => Next1("svc").new.vip = None
  <2>1. Next1("svc").old \in SvcObject /\ Next1("svc").new \in SvcObject
    BY <1>s, <1>i, Taking DEF SvcEvent
  <2> QED
    BY <1>s, <1>i, <2>1, ObjectFacts DEF Before
<1>e. ASSUME queue["slice"] # <<>>
      PROVE  /\ phase # "start"
             /\ Next1("slice").old.ips \subseteq PodIP /\ Next1("slice").new.ips \subseteq PodIP
             /\ ~Next1("slice").old.live => Next1("slice").old.ips = {}
             /\ ~Next1("slice").new.live => Next1("slice").new.ips = {}
  <2>1. Next1("slice").old \in SliceObject /\ Next1("slice").new \in SliceObject
    BY <1>e, <1>i, Taking DEF SliceEvent
  <2> QED
    BY <1>e, <1>i, <2>1, ObjectFacts DEF Before
<1>k. /\ Taken("svc") => queue'["slice"] = queue["slice"]
      /\ Taken("slice") => queue'["svc"] = queue["svc"]
  BY <1>q DEF Taken
<1>b. ASSUME NEW g \in Goroutine, work[g] # Idle PROVE phase # "start"
  BY <1>b, <1>i DEF Before
<1> USE DEF cluster
<1>1. ASSUME NEW s \in Service, NEW obj \in SvcObject, ChangeSvc(s, obj) PROVE Rest
  <2>1. /\ phase # "start" /\ phase' = phase /\ Allocated(svc') /\ work' = work /\ byPort' = byPort
        /\ slice' = slice /\ Notify("svc", Event(s, svc[s], obj))
    BY <1>1 DEF ChangeSvc, Change
  <2>2. queue'["slice"] = queue["slice"]
    BY <2>1, <1>q DEF Notify
  <2>3. SvcSound'
    BY <1>1, <1>i, SvcChanged
  <2>4. SliceSound'
    BY <2>1, <2>2, <1>i, SliceSame
  <2> QED
    BY <2>1, <2>3, <2>4, <1>i DEF Evictions
<1>2. ASSUME NEW e \in Slice, NEW obj \in SliceObject, ChangeSlice(e, obj) PROVE Rest
  <2>1. /\ phase # "start" /\ phase' = phase /\ work' = work /\ byPort' = byPort
        /\ svc' = svc /\ Notify("slice", Event(e, slice[e], obj))
    BY <1>2 DEF ChangeSlice, Change
  <2>2. queue'["svc"] = queue["svc"]
    BY <2>1, <1>q DEF Notify
  <2>3. SliceSound'
    BY <1>2, <1>i, SliceChanged
  <2>4. SvcSound'
    BY <2>1, <2>2, <1>i, SvcSame
  <2> QED
    BY <2>1, <2>3, <2>4, <1>i DEF Evictions
<1>3. ASSUME phase # "start", phase' # "start",
             UNCHANGED <<svc, slice, byPort, queue>>, \A g \in Goroutine : work'[g].evict = work[g].evict
      PROVE  Rest
  <2>1. SvcSound' /\ SliceSound'
    BY <1>3, <1>i, <1>g, SvcSame, SliceSame
  <2> QED
    BY <1>3, <2>1, <1>i, <1>g DEF Evictions
<1>4. ASSUME NEW ip \in PodIP, NEW w, ChangePod(ip, w) PROVE Rest
  BY <1>4, <1>3 DEF ChangePod, Change
<1>5. ASSUME NEW ip \in PodIP, HandlePod(ip) PROVE Rest
  BY <1>5, <1>3 DEF HandlePod
<1>6. ASSUME Start PROVE Rest
  <2>1. phase' = "synced" /\ svc' = svc /\ work' = work
    BY <1>6 DEF Start
  <2> QED
    BY <1>6, <2>1, <1>i, StartSound DEF Evictions
<1>7. ASSUME NEW k \in {"svc", "slice"}, Resync(k) PROVE Rest
  <2>1. phase # "start" /\ phase' = phase /\ svc' = svc /\ work' = work
    BY <1>7 DEF Resync
  <2> QED
    BY <1>7, <2>1, <1>i, ResyncSound DEF Evictions
\* The Service handlers share what they do to slices: nothing.
<1>8. ASSUME queue["svc"] # <<>>, work["svc"] = Idle, Taken("svc"), UNCHANGED <<phase, svc, slice>>,
             work'["svc"].evict \subseteq VIP,
             \A g \in {"slice", "run"} : work'[g].evict = work[g].evict,
             \A ip \in PodIP : ip \in byPort' <=> ip \in byPort,
             \A v \in VIP : v \in byPort' /\ v \notin work'["svc"].evict
               <=> v = Next1("svc").new.vip \/ (v \in byPort /\ v # Next1("svc").old.vip)
      PROVE  Rest
  <2>1. phase # "start" /\ work["svc"].evict = {}
    BY <1>8, <1>s DEF Idle
  <2>2. SvcSound'
    BY <1>8, <2>1, <1>i, SvcTaken
  <2>3. SliceSound'
    BY <1>8, <2>1, <1>i, <1>k, SliceSame
  <2> QED
    BY <1>8, <2>1, <2>2, <2>3, <1>i DEF Evictions
<1>9. ASSUME OnService PROVE Rest
  <2>1. /\ queue["svc"] # <<>> /\ work["svc"] = Idle /\ Taken("svc") /\ UNCHANGED <<phase, svc, slice>>
        /\ ~Next1("svc").old.live
        /\ byPort' = byPort \cup SvcKeys(Next1("svc").new)
        /\ work' = [work EXCEPT !["svc"].todo = <<Sync(Next1("svc").name, Next1("svc").new)>>]
    BY <1>9 DEF OnService
  <2>2. \A g \in Goroutine : work'[g].evict = work[g].evict
    BY <2>1, <1>g
  <2>3. work["svc"].evict = {} /\ work'["svc"].evict = {}
    BY <2>1, <2>2, <1>g DEF Idle
  <2>4. \A g \in {"slice", "run"} : work'[g].evict = work[g].evict
    BY <2>2, <1>g
  <2>5. /\ Next1("svc").old.vip = None /\ Next1("svc").new.vip \in VIP \cup {None}
    BY <2>1, <1>s
  <2>6. /\ \A ip \in PodIP : ip \in byPort' <=> ip \in byPort
        /\ \A v \in VIP : v \in byPort' /\ v \notin work'["svc"].evict
               <=> v = Next1("svc").new.vip \/ (v \in byPort /\ v # Next1("svc").old.vip)
    BY <2>1, <2>3, <2>5, <1>d DEF SvcKeys
  <2> QED
    BY <2>1, <2>3, <2>4, <2>6, <1>8
<1>10. ASSUME OnServiceUpdate PROVE Rest
  <2> DEFINE keys == SvcKeys(Next1("svc").old) \ SvcKeys(Next1("svc").new)
  <2>1. /\ queue["svc"] # <<>> /\ work["svc"] = Idle /\ Taken("svc") /\ UNCHANGED <<phase, svc, slice>>
        /\ byPort' = byPort \cup SvcKeys(Next1("svc").new)
        /\ work' = [work EXCEPT !["svc"].evict = keys,
                                !["svc"].todo = <<Sync(Next1("svc").name, Next1("svc").new)>>]
    BY <1>10 DEF OnServiceUpdate, Stale
  <2>2. work'["svc"].evict = keys /\ \A g \in {"slice", "run"} : work'[g].evict = work[g].evict
    <3> HIDE DEF keys
    <3> QED
      BY <2>1, <1>g
  <2>5. Next1("svc").old.vip \in VIP \cup {None} /\ Next1("svc").new.vip \in VIP \cup {None}
    BY <2>1, <1>s
  <2>6. /\ \A ip \in PodIP : ip \in byPort' <=> ip \in byPort
        /\ \A v \in VIP : v \in byPort' /\ v \notin keys
               <=> v = Next1("svc").new.vip \/ (v \in byPort /\ v # Next1("svc").old.vip)
        /\ keys \subseteq VIP
    BY <2>1, <2>5, <1>d DEF SvcKeys
  <2> QED
    BY <2>1, <2>2, <2>6, <1>8
<1>11. ASSUME OnServiceDelete PROVE Rest
  <2>1. /\ queue["svc"] # <<>> /\ work["svc"] = Idle /\ Taken("svc") /\ UNCHANGED <<phase, svc, slice>>
        /\ ~Next1("svc").new.live
        /\ byPort' = byPort \ SvcKeys(Next1("svc").old)
        /\ work' = work
    BY <1>11 DEF OnServiceDelete
  <2>3. work'["svc"].evict = {} /\ \A g \in {"slice", "run"} : work'[g].evict = work[g].evict
    BY <2>1 DEF Idle
  <2>5. Next1("svc").new.vip = None /\ Next1("svc").old.vip \in VIP \cup {None}
    BY <2>1, <1>s
  <2>6. /\ \A ip \in PodIP : ip \in byPort' <=> ip \in byPort
        /\ \A v \in VIP : v \in byPort' /\ v \notin work'["svc"].evict
               <=> v = Next1("svc").new.vip \/ (v \in byPort /\ v # Next1("svc").old.vip)
    BY <2>1, <2>3, <2>5, <1>d DEF SvcKeys
  <2> QED
    BY <2>1, <2>3, <2>6, <1>8
\* The slice handlers leave the Services' entries alone.
<1>12. ASSUME queue["slice"] # <<>>, work["slice"] = Idle, Taken("slice"), UNCHANGED <<phase, svc, slice>>,
              work'["slice"].evict \subseteq PodIP,
              \A g \in {"svc", "run"} : work'[g].evict = work[g].evict,
              \A v \in VIP : v \in byPort' <=> v \in byPort,
              \A ip \in PodIP : ip \in byPort' /\ ip \notin work'["slice"].evict
                => ip \in Next1("slice").new.ips \/ (ip \in byPort /\ ip \notin Next1("slice").old.ips)
       PROVE  Rest
  <2>1. phase # "start" /\ work["slice"].evict = {}
    BY <1>12, <1>e DEF Idle
  <2>2. SliceSound'
    BY <1>12, <2>1, <1>i, SliceTaken
  <2>3. SvcSound'
    BY <1>12, <2>1, <1>i, <1>k, SvcSame
  <2> QED
    BY <1>12, <2>1, <2>2, <2>3, <1>i DEF Evictions
<1>13. ASSUME OnEndpointSlice PROVE Rest
  <2>1. /\ queue["slice"] # <<>> /\ work["slice"] = Idle /\ Taken("slice") /\ UNCHANGED <<phase, svc, slice>>
        /\ ~Next1("slice").old.live
        /\ byPort' = byPort \cup Next1("slice").new.ips
        /\ work' = [work EXCEPT !["slice"].todo = Named(Next1("slice").new.of)]
    BY <1>13 DEF OnEndpointSlice
  <2>2. \A g \in Goroutine : work'[g].evict = work[g].evict
    BY <2>1, <1>g
  <2>3. work'["slice"].evict = {} /\ \A g \in {"svc", "run"} : work'[g].evict = work[g].evict
    BY <2>1, <2>2, <1>g DEF Idle
  <2>5. Next1("slice").old.ips = {} /\ Next1("slice").new.ips \subseteq PodIP
    BY <2>1, <1>e
  <2>6. /\ \A v \in VIP : v \in byPort' <=> v \in byPort
        /\ \A ip \in PodIP : ip \in byPort' /\ ip \notin work'["slice"].evict
             => ip \in Next1("slice").new.ips \/ (ip \in byPort /\ ip \notin Next1("slice").old.ips)
    BY <2>1, <2>5, <1>d
  <2> QED
    BY <2>1, <2>3, <2>6, <1>12
<1>14. ASSUME OnEndpointSliceUpdate PROVE Rest
  <2> DEFINE keys == Next1("slice").old.ips \ Next1("slice").new.ips
             before == IF Next1("slice").old.of = Next1("slice").new.of THEN <<>>
                       ELSE Named(Next1("slice").old.of)
             t == Named(Next1("slice").new.of) \o before
  <2>1. /\ queue["slice"] # <<>> /\ work["slice"] = Idle /\ Taken("slice") /\ UNCHANGED <<phase, svc, slice>>
        /\ byPort' = byPort \cup Next1("slice").new.ips
        /\ work' = [work EXCEPT !["slice"].evict = keys, !["slice"].todo = t]
    BY <1>14 DEF OnEndpointSliceUpdate, Stale
  <2>2. work'["slice"].evict = keys /\ \A g \in {"svc", "run"} : work'[g].evict = work[g].evict
    <3> HIDE DEF keys, t
    <3> QED
      BY <2>1, <1>g
  <2>5. Next1("slice").old.ips \subseteq PodIP /\ Next1("slice").new.ips \subseteq PodIP
    BY <2>1, <1>e
  <2>6. /\ \A v \in VIP : v \in byPort' <=> v \in byPort
        /\ \A ip \in PodIP : ip \in byPort' /\ ip \notin keys
             => ip \in Next1("slice").new.ips \/ (ip \in byPort /\ ip \notin Next1("slice").old.ips)
        /\ keys \subseteq PodIP
    BY <2>1, <2>5, <1>d
  <2> QED
    BY <2>1, <2>2, <2>6, <1>12
<1>15. ASSUME OnEndpointSliceDelete PROVE Rest
  <2>1. /\ queue["slice"] # <<>> /\ work["slice"] = Idle /\ Taken("slice") /\ UNCHANGED <<phase, svc, slice>>
        /\ byPort' = byPort \ Next1("slice").old.ips
        /\ work' = [work EXCEPT !["slice"].todo = Named(Next1("slice").old.of)]
    BY <1>15 DEF OnEndpointSliceDelete
  <2>2. \A g \in Goroutine : work'[g].evict = work[g].evict
    BY <2>1, <1>g
  <2>3. work'["slice"].evict = {} /\ \A g \in {"svc", "run"} : work'[g].evict = work[g].evict
    BY <2>1, <2>2, <1>g DEF Idle
  <2>5. Next1("slice").old.ips \subseteq PodIP
    BY <2>1, <1>e
  <2>6. /\ \A v \in VIP : v \in byPort' <=> v \in byPort
        /\ \A ip \in PodIP : ip \in byPort' /\ ip \notin work'["slice"].evict
             => ip \in Next1("slice").new.ips \/ (ip \in byPort /\ ip \notin Next1("slice").old.ips)
    BY <2>1, <2>5, <1>d
  <2> QED
    BY <2>1, <2>3, <2>6, <1>12
<1>16. ASSUME ReindexAll PROVE Rest
  <2>1. \A g \in Goroutine : work'[g].evict = work[g].evict
    BY <1>16, <1>g DEF ReindexAll
  <2> QED
    BY <1>16, <2>1, <1>3 DEF ReindexAll
<1>17. ASSUME Synced PROVE Rest
  BY <1>17, <1>3 DEF Synced
<1>18. ASSUME NEW g \in Goroutine, Evict(g) PROVE Rest
  <2>1. /\ work[g].evict # {} /\ byPort' = byPort \ work[g].evict
        /\ work' = [work EXCEPT ![g].evict = {}] /\ UNCHANGED <<phase, svc, slice, queue>>
    BY <1>18 DEF Evict
  <2>2. phase # "start"
    BY <2>1, <1>b DEF Idle
  <2>3. work'[g].evict = {} /\ \A k \in Goroutine : k # g => work'[k].evict = work[k].evict
    BY <2>1, <1>g
  <2>4. work["svc"].evict \subseteq VIP /\ work["slice"].evict \subseteq PodIP /\ work["run"].evict = {}
    BY <1>i DEF Evictions
  <2>5. g = "svc" \/ g = "slice"
    BY <2>1, <2>4 DEF Goroutine
  <2>6. /\ work'["svc"].evict \subseteq VIP /\ work'["slice"].evict \subseteq PodIP /\ work'["run"].evict = {}
    BY <2>3, <2>4, <2>5, <1>g
  <2>7. \A v \in VIP : v \in byPort' /\ v \notin work'["svc"].evict
                          <=> v \in byPort /\ v \notin work["svc"].evict
    BY <2>1, <2>3, <2>4, <2>5, <1>d, <1>g
  <2>8. \A ip \in PodIP : ip \in byPort' /\ ip \notin work'["slice"].evict
                            => ip \in byPort /\ ip \notin work["slice"].evict
    BY <2>1, <2>3, <2>4, <2>5, <1>d, <1>g
  <2>9. SvcSound' /\ SliceSound'
    BY <2>1, <2>2, <2>7, <2>8, <1>i, SvcSame, SliceSame
  <2> QED
    BY <2>1, <2>2, <2>6, <2>9, <1>i DEF Evictions
<1>19. ASSUME NEW g \in Goroutine, Derive(g) PROVE Rest
  <2>1. /\ work[g].todo # <<>> /\ UNCHANGED <<phase, svc, slice, byPort, queue>>
        /\ work' = [work EXCEPT ![g].out = Derived(Head(work[g].todo)), ![g].todo = Tail(@)]
    BY <1>19 DEF Derive
  <2>2. \A k \in Goroutine : work'[k].evict = work[k].evict
    BY <2>1, <1>g
  <2>3. phase # "start"
    BY <2>1, <1>b DEF Idle
  <2> QED
    BY <2>1, <2>2, <2>3, <1>3
<1>20. ASSUME NEW g \in Goroutine, Write(g) PROVE Rest
  <2>1. /\ work[g].out # None /\ UNCHANGED <<phase, svc, slice, byPort, queue>>
        /\ work' = [work EXCEPT ![g].out = None]
    BY <1>20 DEF Write
  <2>2. \A k \in Goroutine : work'[k].evict = work[k].evict
    BY <2>1, <1>g
  <2>3. phase # "start"
    BY <2>1, <1>b DEF Idle
  <2> QED
    BY <2>1, <2>2, <2>3, <1>3
<1>21. CASE UNCHANGED vars
  BY <1>21, <1>i DEF vars, IInv, TypeOK, Allocated, Before, Evictions,
     SvcSound, SliceSound, SvcHistory, SliceHistory
<1>22. ASSUME Next PROVE Rest
  <2> HIDE DEF Rest
  <2> QED
    BY <1>22, <1>1, <1>2, <1>4, <1>5, <1>6, <1>7, <1>9, <1>10, <1>11, <1>13, <1>14, <1>15, <1>16,
       <1>17, <1>18, <1>19, <1>20 DEF Next, Cluster, Handle
<1> QED
  BY <1>r, <1>21, <1>22

LEMMA Invariance == Spec => []IInv
  BY InitIInv, IInvStep, PTL DEF Spec

-----------------------------------------------------------------------------
(* What follows from the invariant.                                        *)

\* Under an object that keeps its ClusterIP through every queued revision, the
\* cluster as handled has it, too.
LEMMA GapFact == IInv => NoGap
<1> SUFFICES ASSUME IInv, phase # "start", NEW v \in VIP, Exposed(v),
                    \A i \in DOMAIN queue["svc"] :
                      v \in SvcKeys(queue["svc"][i].old) <=> v \in SvcKeys(queue["svc"][i].new)
             PROVE  v \in byPort
  BY DEF NoGap
<1> DEFINE q == queue["svc"]
<1>1. PICK h \in Histories(Service, SvcObject, q) : SvcHistory(h)
  BY DEF IInv, SvcSound
<1>2. History(Service, SvcObject, q, svc, h)
  BY <1>1 DEF SvcHistory
<1>3. /\ Len(q) \in Nat /\ DOMAIN q = 1..Len(q) /\ h[Len(q)] = svc
      /\ h \in [0..Len(q) -> [Service -> SvcObject]]
      /\ \A i \in 1..Len(q) : /\ q[i].old = h[i - 1][q[i].name]
                              /\ h[i] = [h[i - 1] EXCEPT ![q[i].name] = q[i].new]
  <2>1. q \in Seq(SvcEvent)
    BY DEF IInv, TypeOK
  <2> HIDE DEF q
  <2>2. Len(q) \in Nat /\ DOMAIN q = 1..Len(q)
    BY <2>1
  <2> QED
    BY <1>2, <2>2 DEF History, Histories
<1>4. PICK s \in Service : svc[s].vip = v
  BY DEF Exposed, LiveSvc, SvcKeys
<1>5. \A i \in 1..Len(q) : q[i].new.vip = v => q[i].old.vip = v
  BY <1>3, ServiceAssumption DEF SvcKeys
<1> HIDE DEF q
<1> DEFINE T == {k \in 0..Len(q) : h[k][s].vip = v}
<1>6. T \in SUBSET Nat /\ Len(q) \in T
  BY <1>3, <1>4
<1>7. PICK k \in T : \A j \in T : k <= j
  BY <1>6, Least
<1>8. k = 0
  <2> SUFFICES ASSUME k # 0 PROVE FALSE
    OBVIOUS
  <2>1. k \in 1..Len(q) /\ k - 1 \in 0..Len(q) /\ ~(k <= k - 1) /\ h[k][s].vip = v
    BY <1>3, <1>7
  <2>2. q[k].old = h[k - 1][q[k].name] /\ h[k] = [h[k - 1] EXCEPT ![q[k].name] = q[k].new]
    BY <2>1, <1>3
  <2>3. h[k - 1] \in [Service -> SvcObject]
    BY <2>1, <1>3
  <2>4. CASE s = q[k].name
    <3>1. q[k].new.vip = v
      BY <2>1, <2>2, <2>3, <2>4
    <3>2. h[k - 1][s].vip = v
      BY <2>1, <2>2, <2>4, <3>1, <1>5
    <3> QED
      BY <2>1, <3>2, <1>7
  <2>5. CASE s # q[k].name
    <3>1. h[k - 1][s].vip = v
      BY <2>1, <2>2, <2>3, <2>5
    <3> QED
      BY <2>1, <3>1, <1>7
  <2> QED
    BY <2>4, <2>5
<1>9. h[0][s].vip = v
  BY <1>7, <1>8
<1> QED
  BY <1>1, <1>9 DEF SvcHistory

LEMMA StaleFact == IInv => NoStalePort
<1> SUFFICES ASSUME IInv PROVE NoStalePort
  OBVIOUS
<1>0. Len(<<>>) = 0
  OBVIOUS
<1>1. ASSUME queue["svc"] = <<>>, work["svc"].evict = {}, NEW v \in VIP \cap byPort
      PROVE  Exposed(v)
  <2>1. phase # "start"
    BY <1>1 DEF IInv, Before
  <2>2. PICK h \in Histories(Service, SvcObject, queue["svc"]) : SvcHistory(h)
    BY <2>1 DEF IInv, SvcSound
  <2>3. h[0] = svc
    BY <1>0, <1>1, <2>2 DEF SvcHistory, History
  <2>4. PICK s \in Service : svc[s].vip = v
    BY <1>1, <2>2, <2>3 DEF SvcHistory
  <2>5. svc[s] \in SvcObject /\ v # None
    BY ServiceAssumption DEF IInv, TypeOK
  <2>6. svc[s].live
    BY <2>4, <2>5, ObjectFacts
  <2> QED
    BY <2>4, <2>5, <2>6 DEF Exposed, LiveSvc, SvcKeys
<1>2. ASSUME queue["slice"] = <<>>, work["slice"].evict = {}, NEW ip \in PodIP \cap byPort
      PROVE  \E e \in LiveSlice : ip \in slice[e].ips
  <2>1. phase # "start"
    BY <1>2 DEF IInv, Before
  <2>2. PICK h \in Histories(Slice, SliceObject, queue["slice"]) : SliceHistory(h)
    BY <2>1 DEF IInv, SliceSound
  <2>3. h[0] = slice
    BY <1>0, <1>2, <2>2 DEF SliceHistory, History
  <2>4. PICK e \in Slice : ip \in slice[e].ips
    BY <1>2, <2>2, <2>3 DEF SliceHistory
  <2>5. slice[e] \in SliceObject
    BY DEF IInv, TypeOK
  <2>6. slice[e].live
    BY <2>4, <2>5, ObjectFacts
  <2> QED
    BY <2>4, <2>6 DEF LiveSlice
<1> QED
  BY <1>1, <1>2 DEF NoStalePort

\* Every reachable state is well typed: no handler derives a mapping for a
\* headless Service (syncServiceClusterIPs).
THEOREM TypeCorrect == Spec => []TypeOK
<1>1. IInv => TypeOK
  BY DEF IInv
<1> QED
  BY Invariance, <1>1, PTL

\* reindexPorts writes before it evicts: a ClusterIP whose Service keeps it never
\* loses its protocol, for any number of Services, changes and resyncs.
THEOREM ProtocolsWithoutGap == Spec => []NoGap
  BY Invariance, GapFact, PTL

\* A handled queue leaves no protocol behind that no object declares (onService,
\* onEndpointSlice and their updates and deletions).
THEOREM NoForgottenPort == Spec => []NoStalePort
  BY Invariance, StaleFact, PTL
=============================================================================
