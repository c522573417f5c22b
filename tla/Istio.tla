------------------------------- MODULE Istio -------------------------------
(***************************************************************************)
(* The Istio ServiceEntry resolver: IstioController.Run, its two handlers  *)
(* and the parsing of a ServiceEntry into bindings of VIPs to hosts, which *)
(* it writes to the Cache.byIP the other resolvers share.                  *)
(*                                                                         *)
(* client-go is external: an informer stores a trimmed copy of each object *)
(* and queues notifications for one handler goroutine.  A watch that is    *)
(* interrupted lists again, so revisions may be skipped and a deletion may *)
(* arrive as a tombstone.  A handler writes one VIP at a time.             *)
(*                                                                         *)
(* The identity of a VIP is a host in the namespace of its ServiceEntry;   *)
(* each entry has a namespace of its own here.                             *)
(***************************************************************************)
EXTENDS Naturals, Sequences, FiniteSets, SequencesExt

CONSTANTS
  Entry,       \* ServiceEntry objects, by name
  Revision,    \* contents an entry may have: hosts, addresses, status, other
  Host,        \* host names
  Address,     \* what stands where an address is expected
  VIP,         \* addresses that ParseAddr accepts; others are ranges or invalid
  MaxChanges,  \* bound: changes of the cluster in a behaviour
  None         \* an entry that does not exist, a host that is not given

ASSUME IstioAssumption ==
  /\ IsFiniteSet(Entry)
  /\ \A r \in Revision :
       /\ r.hosts \in Seq(Host) /\ r.addresses \in Seq(Address)
       /\ r.status \in Seq([ip : Address, host : Host \cup {None}])
  /\ None \notin Revision \cup Host
  /\ MaxChanges \in Nat

VARIABLES
  running,     \* the informer has listed
  api,         \* the entries of the cluster
  store,       \* the informer's trimmed copies
  queue,       \* notifications not handled yet
  work,        \* what the handler in progress has still to write
  byIP,        \* Cache.byIP on VIPs
  given,       \* history: VIPs that an entry gave up by an update
  changes      \* cluster changes since the start

istioVars == <<running, api, store, queue, work, byIP, given, changes>>

Idle == [op |-> "none", todo |-> <<>>]

IstioInit ==
  /\ running = FALSE
  /\ api \in [Entry -> Revision \cup {None}]
  /\ store = [e \in Entry |-> None]
  /\ queue = <<>> /\ work = Idle
  /\ byIP = [v \in VIP |-> None]
  /\ given = {} /\ changes = 0

-----------------------------------------------------------------------------
(* Parsing.                                                                *)

\* Wrong on purpose: the status is trimmed as well.
TrimServiceEntryStatus(r) == [hosts |-> r.hosts, addresses |-> r.addresses, status |-> <<>>]

\* The informer keeps what the parser reads and no more.
TrimServiceEntry(r) == [hosts |-> r.hosts, addresses |-> r.addresses, status |-> r.status]

\* What the informer may hold.
Trimmed == {TrimServiceEntry(r) : r \in Revision}

ASSUME TrimmedAssumption == None \notin Trimmed

PrimaryHost(r) == IF r.hosts = <<>> THEN None ELSE Head(r.hosts)

HostOf(r, a) == IF a.host = None THEN PrimaryHost(r) ELSE a.host

\* What a loop over s appends that skips the positions outside keep.
Picked(s, keep) ==
  LET out[i \in 0..Len(s)] ==
        IF i = 0 THEN <<>>
        ELSE IF i \in keep THEN Append(out[i - 1], s[i]) ELSE out[i - 1]
  IN  out[Len(s)]

\* Allocated VIPs that have a host; declared ones, unless there is no host at all.
Allocated(r) ==
  Picked(r.status, {i \in DOMAIN r.status : r.status[i].ip \in VIP /\ HostOf(r, r.status[i]) # None})
Declared(r) ==
  IF PrimaryHost(r) = None THEN <<>>
  ELSE Picked(r.addresses, {i \in DOMAIN r.addresses : r.addresses[i] \in VIP})

\* The allocated VIPs first, then the declared ones, both in order; what cannot
\* be parsed or has no host is skipped.
ParseServiceEntryVIPs(e, r) ==
  LET Bind(ip, host) == [ip |-> ip, wl |-> [ns |-> e, name |-> host]]
  IN  [i \in DOMAIN Allocated(r) |-> Bind(Allocated(r)[i].ip, HostOf(r, Allocated(r)[i]))]
        \o [i \in DOMAIN Declared(r) |-> Bind(Declared(r)[i], PrimaryHost(r))]

\* The bindings of an entry, and the VIPs in them; r may be None.
Bindings(e, r) == IF r = None THEN {} ELSE ToSet(ParseServiceEntryVIPs(e, r))
VIPs(e, r) == {b.ip : b \in Bindings(e, r)}

-----------------------------------------------------------------------------
(* The cluster and client-go (external).                                   *)

\* An entry is created, changed or deleted.
Change(e, r) ==
  /\ changes < MaxChanges /\ changes' = changes + 1
  /\ r # api[e]
  /\ api' = [api EXCEPT ![e] = r]
  /\ UNCHANGED <<running, store, queue, work, byIP, given>>

Set(e, r) == [type |-> "set", entry |-> e, obj |-> r, tombstone |-> FALSE]
Delete(e, r, tombstone) == [type |-> "delete", entry |-> e, obj |-> r, tombstone |-> tombstone]

Stored(e) == IF api[e] = None THEN None ELSE TrimServiceEntry(api[e])
Listed == {Set(e, store[e]) : e \in {x \in Entry : store[x] # None}}

\* The watch catches up on one entry; the copy of a deleted one is the last
\* that was seen.
Watch(e) ==
  /\ running /\ store[e] # Stored(e)
  /\ store' = [store EXCEPT ![e] = Stored(e)]
  /\ IF api[e] = None
     THEN \E tombstone \in BOOLEAN : queue' = Append(queue, Delete(e, store[e], tombstone))
     ELSE queue' = Append(queue, Set(e, Stored(e)))
  /\ given' = IF store[e] = None \/ api[e] = None THEN given
              ELSE given \cup (VIPs(e, store[e]) \ VIPs(e, Stored(e)))
  /\ UNCHANGED <<running, api, work, byIP, changes>>

\* resyncPeriod: an update for every entry held.
Resync ==
  /\ running /\ queue = <<>> /\ Listed # {}
  /\ queue' \in SetToSeqs(Listed)
  /\ UNCHANGED <<running, api, store, work, byIP, given, changes>>

-----------------------------------------------------------------------------
(* IstioController.                                                        *)

\* The informer is started and lists; the adds wait for the handler.
Run ==
  /\ ~running /\ running' = TRUE
  /\ store' = [e \in Entry |-> Stored(e)]
  /\ queue' \in SetToSeqs({Set(e, Stored(e)) : e \in {x \in Entry : api[x] # None}})
  /\ UNCHANGED <<api, work, byIP, given, changes>>

\* Wrong on purpose: a tombstone is taken for an unknown type.
AsUnstructuredPlain(event) ==
  IF event.tombstone THEN <<>> ELSE ParseServiceEntryVIPs(event.entry, event.obj)

\* asUnstructured unwraps a tombstone; then the object is parsed.
AsUnstructured(event) == ParseServiceEntryVIPs(event.entry, event.obj)

\* onServiceEntry and onServiceEntryDelete.
Handle ==
  /\ queue # <<>> /\ work = Idle
  /\ work' = LET todo == AsUnstructured(Head(queue))
             IN  IF todo = <<>> THEN Idle ELSE [op |-> Head(queue).type, todo |-> todo]
  /\ queue' = Tail(queue)
  /\ UNCHANGED <<running, api, store, byIP, given, changes>>

\* One Upsert or Delete on the cache.
Write ==
  /\ work # Idle
  /\ LET b == Head(work.todo)
     IN  byIP' = [byIP EXCEPT ![b.ip] = IF work.op = "set" THEN b.wl ELSE None]
  /\ work' = IF Len(work.todo) = 1 THEN Idle ELSE [work EXCEPT !.todo = Tail(@)]
  /\ UNCHANGED <<running, api, store, queue, given, changes>>

-----------------------------------------------------------------------------
IstioNext ==
  \/ \E e \in Entry : \E r \in Revision \cup {None} : Change(e, r)
  \/ \E e \in Entry : Watch(e)
  \/ Resync
  \/ Run \/ Handle \/ Write

IstioSpec == IstioInit /\ [][IstioNext]_istioVars

\* The watch delivers, the handler goroutine is scheduled and the resync timer
\* keeps firing; the cluster may stop changing at any time.
IstioFairSpec ==
  /\ IstioSpec
  /\ WF_istioVars(Run) /\ WF_istioVars(Resync) /\ WF_istioVars(Handle \/ Write)
  /\ \A e \in Entry : WF_istioVars(Watch(e))

-----------------------------------------------------------------------------
Identity == [ns : Entry, name : Host]
Binding == [ip : VIP, wl : Identity]
Notification == [type : {"set", "delete"}, entry : Entry, obj : Trimmed, tombstone : BOOLEAN]

\* Types of all variables; every binding parsed is of a VIP to a host, and a
\* handler in progress has something to write.
IstioTypeOK ==
  /\ running \in BOOLEAN
  /\ api \in [Entry -> Revision \cup {None}] /\ store \in [Entry -> Trimmed \cup {None}]
  /\ queue \in Seq(Notification)
  /\ work \in [op : {"set", "delete", "none"}, todo : Seq(Binding)]
  /\ work # Idle => work.todo # <<>>
  /\ byIP \in [VIP -> Identity \cup {None}] /\ given \subseteq VIP
  /\ changes \in 0..MaxChanges

\* A deletion of v that has not been carried out yet.
Going(v) ==
  \/ work.op = "delete" /\ \E b \in ToSet(work.todo) : b.ip = v
  \/ \E i \in DOMAIN queue :
       queue[i].type = "delete" /\ v \in VIPs(queue[i].entry, queue[i].obj)

\* A VIP has an identity only while some entry the informer holds binds it or
\* its deletion is under way, whatever revisions the watch skipped, except for a
\* VIP an update took away: onServiceEntry has no old object to compare with.
NoOrphanVIP ==
  \A v \in VIP : byIP[v] # None =>
    \/ v \in given
    \/ \E e \in Entry : v \in VIPs(e, store[e])
    \/ Going(v)

\* Every VIP in use has an identity that one of the entries binding it gives it.
Right ==
  \A v \in UNION {VIPs(e, api[e]) : e \in Entry} :
    \E e \in Entry : \E b \in Bindings(e, api[e]) : b.ip = v /\ byIP[v] = b.wl

\* Once the cluster is quiet, every VIP in use ends up with a host of a live
\* entry for good: the deletion of an entry that shared it is repaired by the
\* next resync, and no stale host survives.
Heals == <>[]Right
=============================================================================
