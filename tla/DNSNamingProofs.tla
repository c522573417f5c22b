-------------------------- MODULE DNSNamingProofs --------------------------
(***************************************************************************)
(* Proofs about DNSNaming.tla for every set of names and addresses, every  *)
(* choice of TTLs, MinTTL, MaxTTL, cache size and ring size, and any clock *)
(* and number of messages.                                                 *)
(***************************************************************************)
EXTENDS DNSNaming, FiniteSetTheorems, TLAPS

(***************************************************************************)
(* The inductive invariant.  NameLasts speaks of the clock and of what was *)
(* learned last; neither a sweep nor a Put looks at those, only at the     *)
(* expiry of the entry.  Stored ties the two together, and Missing says    *)
(* that an address without an entry has been without a claim to one since  *)
(* its minimum time ran out.  NameIsFresh needs to know that the name      *)
(* handle carries from the cache's lock to the aggregator's was current    *)
(* while the connection was in hand (Carried), and that what is current    *)
(* now is among the names recorded (Seen).                                 *)
(***************************************************************************)
Stored ==
  \A i \in IP : entries[i] # None =>
    /\ learned[i] # None /\ entries[i].name = learned[i].name
    /\ learned[i].at + MinTTL <= entries[i].expires
    /\ entries[i].expires <= learned[i].at + MaxTTL

Missing ==
  \A i \in IP : learned[i] # None /\ entries[i] = None => learned[i].at + MinTTL <= clock

Carried ==
  conn # None =>
    /\ conn.now = None => conn.name = None
    /\ conn.name \notin Unnamed => conn.name \in recent

Seen == Current(learned, conn) \subseteq recent

IInv ==
  /\ TypeOK
  /\ IsFiniteSet(Held(entries))
  /\ Stored
  /\ Missing
  /\ Carried /\ Seen /\ NameIsFresh

-----------------------------------------------------------------------------
(* Lemmas on the operators of the model.                                   *)

\* A message's addresses are a sequence of addresses.
LEMMA AddressesType ==
  ASSUME NEW s \in Addresses
  PROVE  s \in Seq(IP)
<1>1. CASE s \in {<<i>> : i \in IP}
  <2>1. PICK i \in IP : s = <<i>>
    BY <1>1
  <2> QED
    BY <2>1
<1>2. CASE s \in {<<p[1], p[2]>> : p \in {q \in IP \X IP : q[1] # q[2]}}
  <2>1. PICK p \in IP \X IP : s = <<p[1], p[2]>>
    BY <1>2
  <2>2. p[1] \in IP /\ p[2] \in IP
    BY <2>1
  <2> QED
    BY <2>1, <2>2
<1> QED
  BY <1>1, <1>2 DEF Addresses

\* The clamped TTL is between the two limits.
LEMMA ClampRange ==
  ASSUME NEW t \in TTL
  PROVE  Clamp(t) \in Nat /\ MinTTL <= Clamp(t) /\ Clamp(t) <= MaxTTL
  BY TTLAssumption DEF Clamp

\* A sweep keeps every entry that has not expired, as it is, and nothing else.
LEMMA SweptEntries ==
  ASSUME NEW m \in [IP -> Entry \cup {None}], NEW at \in Nat
  PROVE  /\ Swept(m, at) \in [IP -> Entry \cup {None}]
         /\ \A i \in IP : Swept(m, at)[i] # None => Swept(m, at)[i] = m[i]
         /\ \A i \in IP : m[i] # None /\ Swept(m, at)[i] = None => m[i].expires <= at
         /\ Held(Swept(m, at)) \subseteq Held(m)
         /\ Held(Swept(m, at)) = {i \in IP : m[i] # None /\ at < m[i].expires}
<1>1. \A i \in IP : m[i] # None => m[i].expires \in Nat
  BY DEF Entry
<1>2. /\ Swept(m, at) \in [IP -> Entry \cup {None}]
      /\ \A i \in IP : Swept(m, at)[i] # None => Swept(m, at)[i] = m[i]
      /\ \A i \in IP : m[i] # None /\ Swept(m, at)[i] = None => m[i].expires <= at
  BY DEF Swept, Expired
<1>3. \A i \in IP : Swept(m, at)[i] # None <=> m[i] # None /\ ~(m[i].expires <= at)
  BY DEF Swept, Expired
<1>4. Held(Swept(m, at)) = {i \in IP : m[i] # None /\ at < m[i].expires}
  BY <1>1, <1>3 DEF Held
<1> QED
  BY <1>2, <1>4 DEF Held

\* A map with fewer entries than another has no more of them.
LEMMA HeldSubset ==
  ASSUME NEW m, NEW k, IsFiniteSet(Held(m)), Held(k) \subseteq Held(m),
         Cardinality(Held(m)) <= MaxEntries
  PROVE  IsFiniteSet(Held(k)) /\ Cardinality(Held(k)) <= MaxEntries
<1>1. IsFiniteSet(Held(k)) /\ Cardinality(Held(k)) <= Cardinality(Held(m))
  BY FS_Subset
<1>2. Cardinality(Held(k)) \in Nat /\ Cardinality(Held(m)) \in Nat
  BY <1>1, FS_CardinalityType
<1> QED
  BY <1>1, <1>2, SizeAssumption

\* A map that is not full has room for one more.
LEMMA HeldAdd ==
  ASSUME NEW m, NEW k, NEW i, IsFiniteSet(Held(m)), ~Full(m), Held(k) = Held(m) \cup {i}
  PROVE  IsFiniteSet(Held(k)) /\ Cardinality(Held(k)) <= MaxEntries
<1> DEFINE n == Cardinality(Held(m))
           l == Cardinality(Held(k))
<1>1. n \in Nat /\ n < MaxEntries
  BY FS_CardinalityType, SizeAssumption DEF Full
<1>2. IsFiniteSet(Held(k)) /\ (l = n \/ l = n + 1)
  BY FS_AddElement
<1> HIDE DEF n, l
<1>3. l <= MaxEntries
  BY <1>1, <1>2, SizeAssumption
<1> QED
  BY <1>2, <1>3 DEF l

\* What Put's first half returns: the map as it was or swept, with room for the
\* new address when it says so, and full of unexpired entries when it does not.
LEMMA RoomResult ==
  ASSUME NEW m, NEW i \in IP, NEW at \in Nat
  PROVE  /\ Room(i, m, at).map \in {m, Swept(m, at)}
         /\ Room(i, m, at).ok /\ i \notin Held(m) => ~Full(Room(i, m, at).map)
         /\ i \in Held(m) => Room(i, m, at).map = m /\ Room(i, m, at).ok
         /\ ~Room(i, m, at).ok => /\ i \notin Held(m) /\ Room(i, m, at).map = Swept(m, at)
                                  /\ Full(Swept(m, at))
<1>1. CASE i \notin Held(m) /\ Full(m)
  BY <1>1 DEF Room
<1>2. CASE ~(i \notin Held(m) /\ Full(m))
  BY <1>2 DEF Room
<1> QED
  BY <1>1, <1>2

-----------------------------------------------------------------------------
(* The steps.                                                              *)

LEMMA InitIInv == Init => IInv
<1> SUFFICES ASSUME Init PROVE IInv
  OBVIOUS
<1>1. Held(entries) = {}
  BY DEF Init, Held
<1>2. IsFiniteSet(Held(entries)) /\ Cardinality(Held(entries)) <= MaxEntries
  BY <1>1, FS_EmptySet, SizeAssumption
<1>3. TypeOK
  BY <1>2, SizeAssumption DEF Init, TypeOK
<1> QED
  BY <1>2, <1>3 DEF Init, IInv, Stored, Missing, Carried, Seen, Current, NameIsFresh, Unnamed

\* ReadDNS leaves answers for addresses, with TTLs that records carry.
LEMMA ReadType ==
  ASSUME TypeOK, ReadDNS
  PROVE  todo' \in Seq([ip : IP, name : Name, ttl : TTL])
<1> DEFINE m == Head(ring)
<1>1. m \in Message
  BY DEF TypeOK, ReadDNS
<1> HIDE DEF m
<1>2. m.ips \in Seq(IP) /\ m.name \in Name /\ m.ttl \in TTL
  BY <1>1, AddressesType DEF Message
<1>3. PICK n \in 0..Len(m.ips) :
        todo' = [k \in 1..n |-> [ip |-> m.ips[k], name |-> m.name, ttl |-> m.ttl]]
  BY DEF ReadDNS, m
<1>4. n \in Nat /\ \A k \in 1..n : m.ips[k] \in IP
  BY <1>2, <1>3
<1> QED
  BY <1>2, <1>3, <1>4

\* What a Put does to the cache and to what was learned.
LEMMA PutStep ==
  ASSUME IInv, Put
  PROVE  /\ entries' \in [IP -> Entry \cup {None}]
         /\ IsFiniteSet(Held(entries')) /\ Cardinality(Held(entries')) <= MaxEntries
         /\ learned' \in [IP -> Answer \cup {None}]
         /\ \A i \in IP : learned'[i] # None => learned'[i].at <= clock
         /\ Stored' /\ Missing'
         /\ entries'[Head(todo).ip] = None => Full(Swept(entries, putNow))
<1> DEFINE a == Head(todo)
           base == Room(a.ip, entries, putNow).map
           ok == Room(a.ip, entries, putNow).ok
           new == [name |-> a.name, expires |-> putNow + Clamp(a.ttl)]
           ans == [name |-> a.name, at |-> putNow]
<1>1. a \in [ip : IP, name : Name, ttl : TTL]
  <2> DEFINE A == [ip : IP, name : Name, ttl : TTL]
  <2>1. todo # <<>>
    BY DEF Put
  <2>2. todo \in Seq(A)
    BY DEF IInv, TypeOK
  <2> HIDE DEF A
  <2>3. Head(todo) \in A
    BY <2>1, <2>2
  <2> QED
    BY <2>3 DEF A
<1>2. putNow \in Nat /\ clock \in Nat /\ putNow <= clock /\ clock' = clock
  BY DEF IInv, TypeOK, Put
<1>3. IF ok THEN /\ entries' = [base EXCEPT ![a.ip] = new]
                 /\ learned' = [learned EXCEPT ![a.ip] = ans]
            ELSE entries' = base /\ learned' = learned
  BY DEF Put
<1> HIDE DEF a
<1>4. /\ Clamp(a.ttl) \in Nat /\ MinTTL <= Clamp(a.ttl) /\ Clamp(a.ttl) <= MaxTTL
      /\ a.ip \in IP /\ a.name \in Name
  BY <1>1, ClampRange
<1>5. new \in Entry /\ new # None
  BY <1>2, <1>4, NoneAssumption DEF Entry
<1>6. ans \in Answer /\ ans # None
  BY <1>2, <1>4, NoneAssumption DEF Answer
<1>7. entries \in [IP -> Entry \cup {None}]
  BY DEF IInv, TypeOK
<1>8. /\ base \in {entries, Swept(entries, putNow)}
      /\ ok /\ a.ip \notin Held(entries) => ~Full(base)
      /\ a.ip \in Held(entries) => base = entries /\ ok
      /\ ~ok => a.ip \notin Held(entries) /\ base = Swept(entries, putNow) /\ Full(base)
  BY <1>2, <1>4, RoomResult
<1> HIDE DEF base, ok
<1>9. /\ base \in [IP -> Entry \cup {None}]
      /\ \A i \in IP : base[i] # None => base[i] = entries[i]
      /\ \A i \in IP : entries[i] # None /\ base[i] = None => entries[i].expires <= putNow
      /\ Held(base) \subseteq Held(entries)
  BY <1>2, <1>7, <1>8, SweptEntries
<1>10. IsFiniteSet(Held(base)) /\ Cardinality(Held(base)) <= MaxEntries
  BY <1>9, HeldSubset DEF IInv, TypeOK
<1>11. \A i \in IP : entries[i] # None => entries[i].expires \in Nat
  BY <1>7 DEF Entry
<1>12. \A i \in IP : learned[i] # None => learned[i].at \in Nat /\ learned[i].at <= clock
  BY DEF IInv, TypeOK, Answer
<1>13. \A i \in IP : learned[i] # None /\ base[i] = None => learned[i].at + MinTTL <= clock
  <2> SUFFICES ASSUME NEW i \in IP, learned[i] # None, base[i] = None
               PROVE  learned[i].at + MinTTL <= clock
    OBVIOUS
  <2>1. CASE entries[i] = None
    BY <2>1 DEF IInv, Missing
  <2>2. CASE entries[i] # None
    <3>1. learned[i].at + MinTTL <= entries[i].expires /\ entries[i].expires <= putNow
      BY <1>9, <2>2 DEF IInv, Stored
    <3> QED
      BY <1>2, <1>11, <1>12, <2>2, <3>1, TTLAssumption
  <2> QED
    BY <2>1, <2>2
<1>14. CASE ok
  <2>1. entries' = [base EXCEPT ![a.ip] = new] /\ learned' = [learned EXCEPT ![a.ip] = ans]
    BY <1>3, <1>14
  <2>2. entries' \in [IP -> Entry \cup {None}] /\ learned' \in [IP -> Answer \cup {None}]
    BY <1>4, <1>5, <1>6, <1>9, <2>1 DEF IInv, TypeOK
  <2>3. /\ entries'[a.ip] = new /\ learned'[a.ip] = ans
        /\ \A i \in IP \ {a.ip} : entries'[i] = base[i] /\ learned'[i] = learned[i]
    BY <1>4, <1>9, <2>1 DEF IInv, TypeOK
  <2> HIDE DEF new, ans
  <2>4. Held(entries') = Held(base) \cup {a.ip}
    BY <1>4, <1>5, <2>3 DEF Held
  <2>5. IsFiniteSet(Held(entries')) /\ Cardinality(Held(entries')) <= MaxEntries
    <3>1. CASE a.ip \in Held(entries)
      BY <1>8, <1>10, <2>4, <3>1
    <3>2. CASE a.ip \notin Held(entries)
      BY <1>8, <1>10, <1>14, <2>4, <3>2, HeldAdd
    <3> QED
      BY <3>1, <3>2
  <2>6. new.name = ans.name /\ new.expires = ans.at + Clamp(a.ttl) /\ ans.at = putNow
    BY DEF new, ans
  <2>7. \A i \in IP : learned'[i] # None => learned'[i].at <= clock
    BY <1>2, <1>12, <2>3, <2>6
  <2>8. Stored'
    <3> SUFFICES ASSUME NEW i \in IP, entries'[i] # None
                 PROVE  /\ learned'[i] # None /\ entries'[i].name = learned'[i].name
                        /\ learned'[i].at + MinTTL <= entries'[i].expires
                        /\ entries'[i].expires <= learned'[i].at + MaxTTL
      BY DEF Stored
    <3>1. CASE i = a.ip
      BY <1>2, <1>4, <1>6, <2>3, <2>6, <3>1, TTLAssumption
    <3>2. CASE i # a.ip
      BY <1>9, <2>3, <3>2 DEF IInv, Stored
    <3> QED
      BY <3>1, <3>2
  <2>9. Missing'
    BY <1>2, <1>5, <1>13, <2>3 DEF Missing
  <2>10. entries'[Head(todo).ip] # None
    BY <1>5, <2>3 DEF a
  <2> QED
    BY <2>2, <2>5, <2>7, <2>8, <2>9, <2>10
<1>15. CASE ~ok
  <2>1. entries' = base /\ learned' = learned /\ Full(Swept(entries, putNow))
    BY <1>3, <1>8, <1>15
  <2>2. Stored'
    BY <1>9, <2>1 DEF IInv, Stored
  <2>3. Missing'
    BY <1>2, <1>13, <2>1 DEF Missing
  <2> QED
    BY <1>9, <1>10, <1>12, <2>1, <2>2, <2>3 DEF IInv, TypeOK
<1> QED
  BY <1>14, <1>15

\* The cache after flushLoop's sweep, with a time read before it.
LEMMA SweepStep ==
  ASSUME IInv, Sweep
  PROVE  /\ entries' \in [IP -> Entry \cup {None}]
         /\ IsFiniteSet(Held(entries')) /\ Cardinality(Held(entries')) <= MaxEntries
         /\ Stored' /\ Missing'
<1>1. sweepNow \in Nat /\ clock \in Nat /\ sweepNow <= clock /\ clock' = clock
      /\ entries' = Swept(entries, sweepNow) /\ learned' = learned
  BY DEF IInv, TypeOK, Sweep, history
<1>2. entries \in [IP -> Entry \cup {None}]
  BY DEF IInv, TypeOK
<1>3. /\ entries' \in [IP -> Entry \cup {None}]
      /\ \A i \in IP : entries'[i] # None => entries'[i] = entries[i]
      /\ \A i \in IP : entries[i] # None /\ entries'[i] = None => entries[i].expires <= sweepNow
      /\ Held(entries') \subseteq Held(entries)
  BY <1>1, <1>2, SweptEntries
<1>4. IsFiniteSet(Held(entries')) /\ Cardinality(Held(entries')) <= MaxEntries
  BY <1>3, HeldSubset DEF IInv, TypeOK
<1>5. Stored'
  BY <1>1, <1>3 DEF IInv, Stored
<1>6. Missing'
  <2> SUFFICES ASSUME NEW i \in IP, learned[i] # None, entries'[i] = None
               PROVE  learned[i].at + MinTTL <= clock
    BY <1>1 DEF Missing
  <2>1. CASE entries[i] = None
    BY <2>1 DEF IInv, Missing
  <2>2. CASE entries[i] # None
    <3>1. learned[i].at + MinTTL <= entries[i].expires /\ entries[i].expires <= sweepNow
      BY <1>3, <2>2 DEF IInv, Stored
    <3>2. learned[i].at \in Nat /\ entries[i].expires \in Nat
      BY <1>2, <2>2 DEF IInv, TypeOK, Answer, Entry
    <3> QED
      BY <1>1, <3>1, <3>2, TTLAssumption
  <2> QED
    BY <2>1, <2>2
<1> QED
  BY <1>3, <1>4, <1>5, <1>6

\* The names that are current are names.
LEMMA CurrentType ==
  ASSUME NEW l \in [IP -> Answer \cup {None}], NEW c \in Event \cup {None}
  PROVE  Current(l, c) \subseteq Name
<1>1. CASE c # None /\ l[c.ip] # None
  <2>1. l[c.ip] \in Answer
    BY <1>1 DEF Event
  <2> QED
    BY <2>1 DEF Current, Answer
<1> QED
  BY <1>1 DEF Current

\* The name handle finds is the one that is current.
LEMMA LookupResult ==
  ASSUME IInv, LookUp, Lookup(conn.ip, conn.now) \notin Unnamed
  PROVE  Lookup(conn.ip, conn.now) \in Current(learned, conn)
<1> DEFINE i == conn.ip
<1>1. conn # None /\ conn.now \in Nat /\ i \in IP
  BY DEF LookUp, IInv, TypeOK, Event
<1> HIDE DEF i
<1>2. entries[i] # None /\ ~Expired(entries[i], conn.now)
      /\ Lookup(i, conn.now) = entries[i].name
  BY DEF Lookup, Unnamed, i
<1>3. /\ learned[i] # None /\ entries[i].name = learned[i].name
      /\ entries[i].expires <= learned[i].at + MaxTTL
  BY <1>1, <1>2 DEF IInv, Stored
<1>4. entries[i].expires \in Nat /\ learned[i].at \in Nat
  BY <1>1, <1>2, <1>3 DEF IInv, TypeOK, Entry, Answer
<1>5. ~(conn.now >= learned[i].at + MaxTTL)
  BY <1>1, <1>2, <1>3, <1>4, TTLAssumption DEF Expired
<1>6. conn.now # None
  BY <1>1, NoneAssumption
<1>7. Current(learned, conn) = {learned[i].name}
  BY <1>1, <1>3, <1>5, <1>6 DEF Current, i
<1> QED
  BY <1>2, <1>3, <1>7 DEF i

LEMMA IInvStep == IInv /\ [Next]_vars => IInv'
<1> SUFFICES ASSUME IInv, [Next]_vars PROVE IInv'
  OBVIOUS
<1> DEFINE Names == Carried /\ Seen /\ NameIsFresh
<1> USE DEF IInv
<1>1. ASSUME NEW m \in Message, Respond(m) PROVE IInv'
  <2>1. UNCHANGED <<clock, todo, putNow, entries, conn, flows, sweepNow, learned, recent, shown>>
    BY <1>1 DEF Respond, history
  <2>2. ring' \in Seq(Message) /\ Len(ring') <= RingSize
    BY <1>1, SizeAssumption DEF Respond, TypeOK
  <2>3. messages' \in Nat
    BY <1>1 DEF Respond, TypeOK
  <2>4. Names'
    BY <2>1 DEF Carried, Seen, Current, NameIsFresh
  <2> QED
    BY <2>1, <2>2, <2>3, <2>4 DEF TypeOK, Stored, Missing
<1>2. CASE Advance
  <2>1. clock \in Nat /\ clock' = clock + 1
    BY <1>2 DEF Advance, TypeOK
  <2>2. UNCHANGED <<ring, messages, todo, putNow, entries, conn, flows, sweepNow, learned, recent, shown>>
    BY <1>2 DEF Advance, dnsVars, history
  <2>3. \A i \in IP : learned[i] # None => learned[i].at \in Nat
    BY DEF TypeOK, Answer
  <2>4. TypeOK'
    BY <2>1, <2>2, <2>3 DEF TypeOK
  <2>5. Missing'
    BY <2>1, <2>2, <2>3, TTLAssumption DEF Missing
  <2>6. Names'
    BY <2>2 DEF Carried, Seen, Current, NameIsFresh
  <2> QED
    BY <2>2, <2>4, <2>5, <2>6 DEF Stored
<1>3. CASE ReadDNS
  <2>1. UNCHANGED <<clock, messages, entries, conn, flows, sweepNow, learned, recent, shown>>
    BY <1>3 DEF ReadDNS, history
  <2>2. todo' \in Seq([ip : IP, name : Name, ttl : TTL])
    BY <1>3, ReadType
  <2>3. ring' \in Seq(Message) /\ Len(ring') <= RingSize
    BY <1>3, SizeAssumption DEF ReadDNS, TypeOK
  <2>4. putNow' \in 0..clock
    BY <1>3 DEF ReadDNS, TypeOK
  <2>5. Names'
    BY <2>1 DEF Carried, Seen, Current, NameIsFresh
  <2> QED
    BY <2>1, <2>2, <2>3, <2>4, <2>5 DEF TypeOK, Stored, Missing
<1>4. CASE Put
  <2>1. UNCHANGED <<clock, ring, messages, putNow, conn, flows, sweepNow, shown>>
    BY <1>4 DEF Put
  <2>2. todo' \in Seq([ip : IP, name : Name, ttl : TTL])
    <3>1. todo # <<>> /\ todo' = Tail(todo)
      BY <1>4 DEF Put
    <3> QED
      BY <3>1 DEF TypeOK
  <2>3. /\ entries' \in [IP -> Entry \cup {None}]
        /\ IsFiniteSet(Held(entries')) /\ Cardinality(Held(entries')) <= MaxEntries
        /\ learned' \in [IP -> Answer \cup {None}]
        /\ \A i \in IP : learned'[i] # None => learned'[i].at <= clock
        /\ Stored' /\ Missing'
    BY <1>4, PutStep
  <2>4. recent' = recent \cup Current(learned', conn)
    BY <1>4 DEF Put
  <2>5. Current(learned', conn) \subseteq Name
    BY <2>3, CurrentType DEF TypeOK
  <2>6. recent' \subseteq Name
    BY <2>4, <2>5 DEF TypeOK
  <2>7. Names'
    BY <2>1, <2>4 DEF Carried, Seen, NameIsFresh
  <2> QED
    BY <2>1, <2>2, <2>3, <2>6, <2>7 DEF TypeOK
<1>5. ASSUME NEW ip \in IP, Connect(ip) PROVE IInv'
  <2>1. UNCHANGED <<clock, ring, messages, todo, putNow, entries, flows, sweepNow, learned, recent, shown>>
    BY <1>5 DEF Connect, dnsVars, history
  <2>2. conn' \in Event /\ conn'.now = None /\ conn'.name = None
    BY <1>5 DEF Connect, Event
  <2>3. Names'
    BY <2>1, <2>2 DEF Carried, Seen, Current, NameIsFresh, Unnamed
  <2> QED
    BY <2>1, <2>2, <2>3 DEF TypeOK, Stored, Missing
<1>6. CASE Read
  <2>1. UNCHANGED <<clock, ring, messages, todo, putNow, entries, flows, sweepNow, learned, shown>>
    BY <1>6 DEF Read, dnsVars
  <2>2. conn' \in Event /\ conn'.now = clock /\ clock \in Nat /\ conn'.name = conn.name
        /\ conn # None /\ conn.now = None
    BY <1>6 DEF Read, Event, TypeOK
  <2>3. recent' = Current(learned, conn')
    BY <1>6 DEF Read
  <2>4. recent' \subseteq Name
    BY <2>2, <2>3, CurrentType DEF TypeOK
  <2>5. Names'
    BY <2>1, <2>2, <2>3 DEF Carried, Seen, NameIsFresh, Unnamed
  <2> QED
    BY <2>1, <2>2, <2>4, <2>5 DEF TypeOK, Stored, Missing
<1>7. CASE LookUp
  <2>1. UNCHANGED <<clock, ring, messages, todo, putNow, entries, flows, sweepNow, learned, recent, shown>>
    BY <1>7 DEF LookUp, dnsVars, history
  <2>2. conn \in Event /\ conn # None /\ conn.now # None /\ conn.ip \in IP
    BY <1>7 DEF LookUp, TypeOK, Event
  <2> DEFINE n == Lookup(conn.ip, conn.now)
  <2>3. n \in Name \cup {NoName}
    BY <2>2 DEF Lookup, TypeOK, Entry
  <2>4. conn' = [conn EXCEPT !.name = n]
    BY <1>7 DEF LookUp
  <2>5. n \notin Unnamed => n \in Current(learned, conn)
    BY <1>7, LookupResult
  <2> HIDE DEF n
  <2>6. /\ conn' \in Event /\ conn' # None
        /\ conn'.ip = conn.ip /\ conn'.now = conn.now /\ conn'.name = n
    BY <2>2, <2>3, <2>4, NoneAssumption DEF Event
  <2>7. Current(learned', conn') = Current(learned, conn)
    BY <2>1, <2>2, <2>6 DEF Current
  <2>8. Names'
    BY <2>1, <2>2, <2>5, <2>6, <2>7 DEF Carried, Seen, NameIsFresh, Unnamed
  <2> QED
    BY <2>1, <2>2, <2>6, <2>8 DEF TypeOK, Stored, Missing
<1>8. CASE Add
  <2>1. UNCHANGED <<clock, ring, messages, todo, putNow, entries, sweepNow, learned>>
        /\ conn' = None /\ recent' = {}
    BY <1>8 DEF Add, dnsVars
  <2>2. conn # None /\ conn.name # None /\ conn.ip \in IP /\ conn.name \in Name \cup {NoName}
    BY <1>8 DEF Add, TypeOK, Event
  <2>3. flows' \in [IP -> Name \cup {NoName, None}]
    BY <1>8, <2>2 DEF Add, Folded, TypeOK
  <2>4. shown' \in [IP -> SUBSET Name]
    BY <1>8, <2>2 DEF Add, TypeOK
  <2>5. Carried' /\ Seen'
    BY <2>1 DEF Carried, Seen, Current
  <2>6. NameIsFresh'
    <3> SUFFICES ASSUME NEW i \in IP, flows'[i] \notin Unnamed PROVE flows'[i] \in shown'[i]
      BY DEF NameIsFresh
    <3>1. CASE i # conn.ip
      <4>1. flows'[i] = flows[i] /\ shown'[i] = shown[i]
        BY <1>8, <3>1 DEF Add, TypeOK
      <4> QED
        BY <4>1 DEF NameIsFresh
    <3>2. CASE i = conn.ip
      <4>1. flows'[i] = Folded(flows[i], conn.name) /\ shown'[i] = shown[i] \cup recent
        BY <1>8, <3>2 DEF Add, TypeOK
      <4>2. CASE flows[i] \in Unnamed
        <5>1. flows'[i] = conn.name
          BY <4>1, <4>2 DEF Folded, Unnamed
        <5> QED
          BY <2>2, <4>1, <5>1 DEF Carried
      <4>3. CASE flows[i] \notin Unnamed
        <5>1. flows'[i] = flows[i]
          BY <4>1, <4>3 DEF Folded, Unnamed
        <5> QED
          BY <4>1, <4>3, <5>1 DEF NameIsFresh
      <4> QED
        BY <4>2, <4>3
    <3> QED
      BY <3>1, <3>2
  <2> QED
    BY <2>1, <2>3, <2>4, <2>5, <2>6 DEF TypeOK, Stored, Missing
<1>9. ASSUME Drain PROVE (flows' \in [IP -> Name \cup {NoName, None}]
                         /\ shown' \in [IP -> SUBSET Name] /\ NameIsFresh')
  BY <1>9 DEF Drain, NameIsFresh, Unnamed
<1>10. CASE FlushFull
  <2>1. UNCHANGED <<clock, ring, messages, todo, putNow, entries, conn, sweepNow, learned, recent>>
        /\ Drain
    BY <1>10 DEF FlushFull, dnsVars
  <2>2. Carried' /\ Seen'
    BY <2>1 DEF Carried, Seen, Current
  <2> QED
    BY <1>9, <2>1, <2>2 DEF TypeOK, Stored, Missing
<1>11. CASE Flush
  <2>1. UNCHANGED <<clock, ring, messages, todo, putNow, entries, conn, learned, recent>>
        /\ Drain /\ sweepNow' = clock
    BY <1>11 DEF Flush, dnsVars
  <2>2. Carried' /\ Seen'
    BY <2>1 DEF Carried, Seen, Current
  <2> QED
    BY <1>9, <2>1, <2>2 DEF TypeOK, Stored, Missing
<1>12. CASE Sweep
  <2>1. UNCHANGED <<clock, ring, messages, todo, putNow, conn, flows, learned, recent, shown>>
        /\ sweepNow' = None
    BY <1>12 DEF Sweep, dnsVars, history
  <2>2. Names'
    BY <2>1 DEF Carried, Seen, Current, NameIsFresh
  <2> QED
    BY <1>12, <2>1, <2>2, SweepStep DEF TypeOK
<1>13. CASE UNCHANGED vars
  <2>1. Names'
    BY <1>13 DEF vars, dnsVars, history, Carried, Seen, Current, NameIsFresh
  <2> QED
    BY <1>13, <2>1 DEF vars, dnsVars, history, TypeOK, Stored, Missing
<1> QED
  BY <1>1, <1>2, <1>3, <1>4, <1>5, <1>6, <1>7, <1>8, <1>10, <1>11, <1>12, <1>13 DEF Next

LEMMA Invariance == Spec => []IInv
  BY InitIInv, IInvStep, PTL DEF Spec

-----------------------------------------------------------------------------
(* What follows.                                                           *)

\* A stored name is still there, and unexpired, while its minimum time runs.
LEMMA LastsFact == IInv => NameLasts
<1> SUFFICES ASSUME IInv, NEW i \in IP, learned[i] # None, clock < learned[i].at + MinTTL
             PROVE  /\ entries[i] # None /\ entries[i].name = learned[i].name
                    /\ clock < entries[i].expires
  BY DEF NameLasts
<1>1. clock \in Nat /\ learned[i].at \in Nat
  BY DEF IInv, TypeOK, Answer
<1>2. entries[i] # None
  BY <1>1, TTLAssumption DEF IInv, Missing
<1>3. entries[i].name = learned[i].name /\ learned[i].at + MinTTL <= entries[i].expires
  BY <1>2 DEF IInv, Stored
<1>4. entries[i].expires \in Nat
  BY <1>2 DEF IInv, TypeOK, Entry
<1> QED
  BY <1>1, <1>2, <1>3, <1>4, TTLAssumption

\* A step that refuses an answer is a Put that found only unexpired entries.
LEMMA RefusedStep ==
  ASSUME IInv, [Next]_vars, todo # <<>>, todo' # todo, entries'[Head(todo).ip] = None
  PROVE  Cardinality({i \in IP : entries[i] # None /\ putNow < entries[i].expires})
           >= MaxEntries
<1>1. ~ReadDNS
  BY DEF ReadDNS
<1>2. Put
  BY <1>1 DEF Next, vars, dnsVars, Respond, Advance, Connect, Read, LookUp, Add,
                   FlushFull, Flush, Sweep
<1>3. Full(Swept(entries, putNow))
  BY <1>2, PutStep
<1>4. Held(Swept(entries, putNow)) = {i \in IP : entries[i] # None /\ putNow < entries[i].expires}
  BY SweptEntries DEF IInv, TypeOK
<1> QED
  BY <1>3, <1>4 DEF Full

\* Every state is well typed: times that were read lie in the past, the ring
\* never overflows, and the cache never exceeds its limit (Cache.Put).
THEOREM TypeCorrect == Spec => []TypeOK
<1>1. IInv => TypeOK
  BY DEF IInv
<1> QED
  BY <1>1, Invariance, PTL

\* A stored name can be looked up for at least MinTTL, whatever sweeps with old
\* times and Puts for other addresses come in between (Cache.Put, Cache.Sweep).
THEOREM NamesLast == Spec => []NameLasts
  BY Invariance, LastsFact, PTL

\* A flow's name was, for one of its own connections, the last answer stored for
\* the address at some moment of its handling, and less than MaxTTL old when the
\* connection was read (Cache.Lookup, Aggregator.Add, Aggregator.Drain).
THEOREM NamesAreFresh == Spec => []NameIsFresh
<1>1. IInv => NameIsFresh
  BY DEF IInv
<1> QED
  BY <1>1, Invariance, PTL

\* An answer is refused only when the cache is full of unexpired names
\* (Cache.Put sweeps before it gives up).
THEOREM RefusalsAreDue == Spec => RefusedOnlyWhenFull
<1>1. IInv /\ [Next]_vars =>
        [(todo # <<>> /\ todo' # todo /\ entries'[Head(todo).ip] = None)
           => Cardinality({i \in IP : entries[i] # None /\ putNow < entries[i].expires})
                >= MaxEntries]_vars
  BY RefusedStep
<1> QED
  BY <1>1, Invariance, PTL DEF Spec, RefusedOnlyWhenFull
=============================================================================
