----------------------------- MODULE DNSNaming -----------------------------
(***************************************************************************)
(* How an outbound connection gets its destination's hostname: the DNS     *)
(* capture program and its ring buffer, Collector.RunDNS filling           *)
(* dnscache.Cache, Collector.Run looking names up and folding them into    *)
(* the aggregator's flows, and flushLoop draining and sweeping.            *)
(*                                                                         *)
(* The three goroutines read the clock before they take the cache's lock,  *)
(* handle takes the cache's lock and then the aggregator's, and the two    *)
(* ring buffers are not ordered with each other.  A flow is                *)
(* the destination address, everything else of its key being the same; a   *)
(* DNS message is its question name, the addresses it answers and their    *)
(* TTL.  Packets that are not UDP from port 53, or too short for a DNS     *)
(* header, are not captured and do not appear.                             *)
(***************************************************************************)
EXTENDS Naturals, Sequences, FiniteSets

CONSTANTS
  Name, IP,        \* hostnames and addresses
  TTL,             \* TTLs that records carry
  MinTTL, MaxTTL,  \* dnscache.MinTTL and MaxTTL
  MaxEntries,      \* Cache.max
  RingSize,        \* messages dns_events holds
  MaxClock,        \* bound: the clock stops here
  MaxMessages,     \* bound: DNS responses in a behaviour
  None

ASSUME SizeAssumption == MaxEntries \in Nat \ {0} /\ RingSize \in Nat \ {0}
ASSUME TTLAssumption ==
  /\ MinTTL \in Nat \ {0} /\ MaxTTL \in Nat /\ MinTTL <= MaxTTL
  /\ TTL \subseteq Nat
ASSUME BoundAssumption == MaxClock \in Nat /\ MaxMessages \in Nat

NoName == "no name"

\* A cache entry, what was learned with it, and a connection event: its time is
\* None until Run has read the clock, its name until handle has looked it up.
Entry == [name : Name, expires : Nat]
Answer == [name : Name, at : Nat]
Event == [ip : IP, now : Nat \cup {None}, name : Name \cup {NoName, None}]

ASSUME NoneAssumption ==
  None \notin Nat /\ None \notin Name /\ None \notin Entry /\ None \notin Answer /\ None \notin Event
  /\ None # NoName

VARIABLES
  clock,      \* real time
  ring,       \* dns_events
  messages,   \* DNS responses so far
  todo,       \* handleDNS: answers of the message still to be Put
  putNow,     \* the time RunDNS read for that message
  entries,    \* Cache.entries; None where the map has no entry
  conn,       \* the connection event Run is handling, None between two
  flows,      \* Aggregator.flows: the hostname of each flow, None if no flow
  sweepNow,   \* the time flushLoop read for Sweep, None if it is not sweeping
  learned,    \* history: the last answer Put stored for each address
  recent,     \* history: the names that were current for conn since it was read
  shown       \* history: the names that were current for a connection of each flow

dnsVars == <<ring, messages, todo, putNow>>
history == <<learned, recent, shown>>
vars == <<clock, dnsVars, entries, conn, flows, sweepNow, history>>

Init ==
  /\ clock = 0
  /\ ring = <<>> /\ messages = 0
  /\ todo = <<>> /\ putNow = 0
  /\ entries = [i \in IP |-> None]
  /\ conn = None
  /\ flows = [i \in IP |-> None]
  /\ sweepNow = None
  /\ learned = [i \in IP |-> None]
  /\ recent = {}
  /\ shown = [i \in IP |-> {}]

-----------------------------------------------------------------------------
(* The kernel side.                                                        *)

\* One or two distinct addresses, in the order of the message.
Addresses == {<<i>> : i \in IP} \cup {<<p[1], p[2]>> : p \in {q \in IP \X IP : q[1] # q[2]}}
Message == [name : Name, ips : Addresses, ttl : TTL]

\* A DNS response reaches a socket of the node; handle_dns_ingress copies it
\* unless the ring buffer is full.
Respond(m) ==
  /\ messages < MaxMessages /\ messages' = messages + 1
  /\ ring' = IF Len(ring) < RingSize THEN Append(ring, m) ELSE ring
  /\ UNCHANGED <<clock, todo, putNow, entries, conn, flows, sweepNow, history>>

Advance ==
  /\ clock < MaxClock
  /\ clock' = clock + 1
  /\ UNCHANGED <<dnsVars, entries, conn, flows, sweepNow, history>>

-----------------------------------------------------------------------------
(* RunDNS and Cache.Put.                                                   *)

\* ReadDNS, the clock, and DecodeDNS: the answers parsed before the payload was
\* cut or malformed, none for a message that is not a successful answer.
ReadDNS ==
  /\ ring # <<>> /\ todo = <<>>
  /\ \E n \in 0..Len(Head(ring).ips) :
       todo' = [k \in 1..n |-> [ip |-> Head(ring).ips[k], name |-> Head(ring).name,
                                 ttl |-> Head(ring).ttl]]
  /\ putNow' = clock
  /\ ring' = Tail(ring)
  /\ UNCHANGED <<clock, messages, entries, conn, flows, sweepNow, history>>

Held(m) == {i \in IP : m[i] # None}

\* Wrong on purpose: the instant an entry expires still counts as inside.
ExpiredLate(e, at) == e # None /\ e.expires < at

\* !now.Before(e.expires)
Expired(e, at) == e # None /\ e.expires <= at

\* sweepLocked.
Swept(m, at) == [i \in IP |-> IF Expired(m[i], at) THEN None ELSE m[i]]

\* Wrong on purpose: a long TTL is kept as it is.
ClampNoMax(ttl) == IF ttl < MinTTL THEN MinTTL ELSE ttl

\* Wrong on purpose: a short TTL is kept as it is.
ClampNoMin(ttl) == IF ttl > MaxTTL THEN MaxTTL ELSE ttl

\* min(max(ttl, MinTTL), MaxTTL)
Clamp(ttl) == IF ttl < MinTTL THEN MinTTL ELSE IF ttl > MaxTTL THEN MaxTTL ELSE ttl

Full(m) == Cardinality(Held(m)) >= MaxEntries

\* Wrong on purpose: the size is not looked at again after the sweep.
RoomUnchecked(ip, m, at) ==
  IF ip \notin Held(m) /\ Full(m) THEN [map |-> Swept(m, at), ok |-> TRUE]
  ELSE [map |-> m, ok |-> TRUE]

\* Put's first half: sweep when a new address finds the map full, and see
\* whether there is room then.
Room(ip, m, at) ==
  IF ip \notin Held(m) /\ Full(m) THEN [map |-> Swept(m, at), ok |-> ~Full(Swept(m, at))]
  ELSE [map |-> m, ok |-> TRUE]

\* The name of the last answer l knows for connection c, if that answer was less
\* than MaxTTL old when c was read.
Current(l, c) ==
  IF c = None \/ c.now = None \/ l[c.ip] = None \/ c.now >= l[c.ip].at + MaxTTL THEN {}
  ELSE {l[c.ip].name}

\* handleDNS' loop body: Cache.Put of one answer.
Put ==
  /\ todo # <<>>
  /\ LET a == Head(todo)
         room == Room(a.ip, entries, putNow)
     IN  IF room.ok
           THEN /\ entries' = [room.map EXCEPT ![a.ip] =
                                 [name |-> a.name, expires |-> putNow + Clamp(a.ttl)]]
                /\ learned' = [learned EXCEPT ![a.ip] = [name |-> a.name, at |-> putNow]]
           ELSE /\ entries' = room.map
                /\ UNCHANGED learned
  /\ recent' = recent \cup Current(learned', conn)
  /\ todo' = Tail(todo)
  /\ UNCHANGED <<clock, ring, messages, putNow, conn, flows, sweepNow, shown>>

-----------------------------------------------------------------------------
(* Run: an outbound connection event.                                      *)

\* A process connects to ip, the event waits in the ring buffer and is read.
Connect(ip) ==
  /\ conn = None
  /\ conn' = [ip |-> ip, now |-> None, name |-> None]
  /\ UNCHANGED <<clock, dnsVars, entries, flows, sweepNow, history>>

Read ==
  /\ conn # None /\ conn.now = None
  /\ conn' = [conn EXCEPT !.now = clock]
  /\ recent' = Current(learned, conn')
  /\ UNCHANGED <<clock, dnsVars, entries, flows, sweepNow, learned, shown>>

\* Cache.Lookup.
Lookup(ip, at) ==
  IF entries[ip] = None \/ Expired(entries[ip], at) THEN NoName ELSE entries[ip].name

\* handle, under the cache's lock: look the destination up.
LookUp ==
  /\ conn # None /\ conn.now # None /\ conn.name = None
  /\ conn' = [conn EXCEPT !.name = Lookup(conn.ip, conn.now)]
  /\ UNCHANGED <<clock, dnsVars, entries, flows, sweepNow, history>>

\* Add's rule: the first name a flow gets stays.
Folded(flow, name) == IF flow \in {None, NoName} THEN name ELSE flow

\* handle, under the aggregator's lock: add the event to its flow.
Add ==
  /\ conn # None /\ conn.name # None
  /\ flows' = [flows EXCEPT ![conn.ip] = Folded(@, conn.name)]
  /\ shown' = [shown EXCEPT ![conn.ip] = @ \cup recent]
  /\ conn' = None /\ recent' = {}
  /\ UNCHANGED <<clock, dnsVars, entries, sweepNow, learned>>

\* Drain: every flow leaves the map.
Drain ==
  /\ flows' = [i \in IP |-> None]
  /\ shown' = [i \in IP |-> {}]

\* handle, after an Add that filled the batch: how many other flows the map
\* holds is left open.
FlushFull ==
  /\ conn = None /\ \E i \in IP : flows[i] # None
  /\ Drain
  /\ UNCHANGED <<clock, dnsVars, entries, conn, sweepNow, learned, recent>>

-----------------------------------------------------------------------------
(* flushLoop.                                                              *)

\* flush, then time.Now() for Sweep.
Flush ==
  /\ sweepNow = None
  /\ Drain
  /\ sweepNow' = clock
  /\ UNCHANGED <<clock, dnsVars, entries, conn, learned, recent>>

Sweep ==
  /\ sweepNow # None
  /\ entries' = Swept(entries, sweepNow)
  /\ sweepNow' = None
  /\ UNCHANGED <<clock, dnsVars, conn, flows, history>>

-----------------------------------------------------------------------------
Next ==
  \/ \E m \in Message : Respond(m)
  \/ Advance
  \/ ReadDNS \/ Put
  \/ \E ip \in IP : Connect(ip)
  \/ Read \/ LookUp \/ Add \/ FlushFull
  \/ Flush \/ Sweep

Spec == Init /\ [][Next]_vars

-----------------------------------------------------------------------------
\* Types of all variables; times that were read lie in the past, and the cache
\* never holds more than MaxEntries addresses, whatever is answered between two
\* sweeps (Put).
TypeOK ==
  /\ clock \in Nat /\ messages \in Nat
  /\ ring \in Seq(Message) /\ Len(ring) <= RingSize
  /\ todo \in Seq([ip : IP, name : Name, ttl : TTL]) /\ putNow \in 0..clock
  /\ entries \in [IP -> Entry \cup {None}] /\ Cardinality(Held(entries)) <= MaxEntries
  /\ conn \in Event \cup {None} /\ (conn # None => conn.now \in (0..clock) \cup {None})
  /\ recent \subseteq Name /\ shown \in [IP -> SUBSET Name]
  /\ flows \in [IP -> Name \cup {NoName, None}]
  /\ sweepNow \in (0..clock) \cup {None}
  /\ learned \in [IP -> Answer \cup {None}]
  /\ \A i \in IP : learned[i] # None => learned[i].at <= clock

Unnamed == {None, NoName}

\* The name of a flow comes from one of its own connections: at some moment
\* between that connection's reading and its adding, the name was that of the
\* last answer stored for the address, less than MaxTTL old when the connection
\* was read.  A newer answer may come between the lookup and the add, and the
\* flow keeps its first name, but no name lives on in the cache beyond MaxTTL, in
\* an entry that was overwritten, or in a flow that was drained (Put, Lookup,
\* Add, Drain).
NameIsFresh == \A i \in IP : flows[i] \notin Unnamed => flows[i] \in shown[i]

\* A name that was stored can be looked up for at least MinTTL, though sweeps
\* run with times read before it was stored and other addresses compete for
\* the room (Put, Sweep).
NameLasts ==
  \A i \in IP :
    learned[i] # None /\ clock < learned[i].at + MinTTL
      => /\ entries[i] # None /\ entries[i].name = learned[i].name
         /\ clock < entries[i].expires

\* An answer is refused only when MaxEntries unexpired names are held: expired
\* ones that no sweep has met yet never cost a new name (Put).
RefusedOnlyWhenFull ==
  [][(todo # <<>> /\ todo' # todo /\ entries'[Head(todo).ip] = None)
       => Cardinality({i \in IP : entries[i] # None /\ putNow < entries[i].expires})
            >= MaxEntries]_vars
=============================================================================
