---------------------------- MODULE ProbeProofs ----------------------------
(***************************************************************************)
(* Proofs about Probe.tla for any number of addresses and processes and    *)
(* any sizes of the map and of the ring buffer.                            *)
(***************************************************************************)
EXTENDS Probe, TLAPS

(***************************************************************************)
(* EntryIsLive says an entry belongs to its socket; the converse is needed *)
(* to know that a missing entry is a known loss, and the map must be empty *)
(* while the fentry is detached, since nothing then removes an entry.      *)
(***************************************************************************)
MissingIsLost ==
  \A s \in Sock :
    /\ state[s] = "accepting" => caller[s] = None /\ lost[s] = "no"
    /\ state[s] = "connecting" => caller[s] \in Pid
    /\ state[s] = "connecting" /\ lost[s] = "no" => pidBySock[s] = caller[s]

DetachedIsEmpty == phase # "both" => \A s \in Sock : pidBySock[s] = None

Truthful(e) ==
  /\ e.outbound => e.caller # None /\ e.pid = e.caller
  /\ e.lost = "no" => (e.outbound <=> e.caller # None)

RingTruthful == \A i \in DOMAIN ring : Truthful(ring[i])

RecordsTruthful ==
  \A r \in delivered : Truthful(r.event) /\ (r.src = "local" <=> r.event.outbound)

IInv ==
  /\ TypeOK
  /\ EntryIsLive
  /\ MissingIsLost
  /\ DetachedIsEmpty
  /\ RingTruthful
  /\ RecordsTruthful

-----------------------------------------------------------------------------
\* Appending to and taking from the ring buffer keeps what holds of its events.
LEMMA RingAppend ==
  ASSUME TypeOK, RingTruthful, NEW e \in Event, Truthful(e), Len(ring) < RingSize,
         ring' = Append(ring, e)
  PROVE  ring' \in Seq(Event) /\ Len(ring') <= RingSize /\ RingTruthful'
<1>1. ring \in Seq(Event) /\ Len(ring) \in Nat
  BY DEF TypeOK
<1>2. ring' \in Seq(Event) /\ Len(ring') = Len(ring) + 1
  BY <1>1
<1>3. \A i \in DOMAIN ring' : ring'[i] = e \/ (i \in DOMAIN ring /\ ring'[i] = ring[i])
  BY <1>1
<1>4. RingTruthful'
  <2> SUFFICES ASSUME NEW i \in DOMAIN ring' PROVE Truthful(ring'[i])
    BY DEF RingTruthful, Truthful
  <2>1. CASE ring'[i] = e
    BY <2>1 DEF Truthful
  <2>2. CASE i \in DOMAIN ring /\ ring'[i] = ring[i]
    <3>1. Truthful(ring[i])
      BY <2>2 DEF RingTruthful
    <3> QED
      BY <2>2, <3>1
  <2> QED
    BY <1>3, <2>1, <2>2
<1> QED
  BY <1>1, <1>2, <1>4, SizeAssumption

LEMMA RingTail ==
  ASSUME TypeOK, RingTruthful, ring # <<>>, ring' = Tail(ring)
  PROVE  /\ ring' \in Seq(Event) /\ Len(ring') <= RingSize /\ RingTruthful'
         /\ Head(ring) \in Event /\ Truthful(Head(ring))
<1>1. /\ ring \in Seq(Event) /\ Len(ring) \in Nat \ {0} /\ Len(ring) <= RingSize
      /\ DOMAIN ring = 1..Len(ring)
  BY DEF TypeOK
<1>2. /\ Tail(ring) \in Seq(Event) /\ Len(Tail(ring)) = Len(ring) - 1
      /\ DOMAIN Tail(ring) = 1..(Len(ring) - 1)
      /\ \A i \in 1..(Len(ring) - 1) : Tail(ring)[i] = ring[i + 1]
      /\ Head(ring) = ring[1]
  BY <1>1
<1>3. 1 \in DOMAIN ring /\ Head(ring) \in Event
  BY <1>1, <1>2
<1>4. Truthful(Head(ring))
  BY <1>2, <1>3 DEF RingTruthful
<1>5. RingTruthful'
  <2> SUFFICES ASSUME NEW i \in DOMAIN ring' PROVE Truthful(ring'[i])
    BY DEF RingTruthful, Truthful
  <2>1. i + 1 \in DOMAIN ring /\ ring'[i] = ring[i + 1]
    BY <1>1, <1>2
  <2>2. Truthful(ring[i + 1])
    BY <2>1 DEF RingTruthful
  <2> QED
    BY <2>1, <2>2
<1> QED
  BY <1>1, <1>2, <1>3, <1>4, <1>5, SizeAssumption

\* What handle_set_state writes is truthful.
LEMMA EventTruthful ==
  ASSUME IInv, NEW s \in Sock, state[s] \in {"connecting", "accepting"}
  PROVE  EventOf(s, pidBySock[s]) \in Event /\ Truthful(EventOf(s, pidBySock[s]))
<1> DEFINE e == EventOf(s, pidBySock[s])
<1>1. /\ e.caller = caller[s] /\ e.lost = lost[s] /\ e.pid = pidBySock[s]
      /\ e.outbound = (pidBySock[s] # None)
  BY DEF EventOf
<1>2. e \in Event
  BY DEF EventOf, Event, IInv, TypeOK
<1>3. e.outbound => e.caller # None /\ e.pid = e.caller
  BY <1>1, NoneAssumption DEF IInv, EntryIsLive, MissingIsLost
<1>4. e.lost = "no" => (e.outbound <=> e.caller # None)
  BY <1>1, NoneAssumption DEF IInv, EntryIsLive, MissingIsLost
<1> QED
  BY <1>2, <1>3, <1>4 DEF Truthful

-----------------------------------------------------------------------------
LEMMA IInvInit == Init => IInv
<1> SUFFICES ASSUME Init PROVE IInv
  OBVIOUS
<1>1. ring \in Seq(Event) /\ Len(ring) <= RingSize /\ DOMAIN ring = {}
  BY SizeAssumption DEF Init
<1>2. TypeOK
  BY <1>1 DEF Init, TypeOK, Lost
<1> QED
  BY <1>1, <1>2 DEF Init, IInv, EntryIsLive, MissingIsLost, DetachedIsEmpty,
                    RingTruthful, RecordsTruthful

LEMMA IInvStep == IInv /\ [Next]_vars => IInv'
<1> SUFFICES ASSUME IInv, [Next]_vars PROVE IInv'
  OBVIOUS
<1> DEFINE Kernel == EntryIsLive /\ MissingIsLost /\ DetachedIsEmpty
           Reports == RingTruthful /\ RecordsTruthful
<1> USE NoneAssumption DEF kernelVars
<1>a. ASSUME UNCHANGED ring PROVE ring' \in Seq(Event) /\ Len(ring') <= RingSize /\ RingTruthful'
  BY <1>a DEF IInv, TypeOK, RingTruthful, Truthful
<1>b. ASSUME UNCHANGED delivered PROVE delivered' \subseteq Record /\ RecordsTruthful'
  BY <1>b DEF IInv, TypeOK, RecordsTruthful, Truthful
<1>1. CASE AttachTracepoint
  BY <1>1, <1>a, <1>b DEF AttachTracepoint, IInv, TypeOK, EntryIsLive, MissingIsLost, DetachedIsEmpty
<1>2. CASE AttachFentry
  BY <1>2, <1>a, <1>b DEF AttachFentry, IInv, TypeOK, EntryIsLive, MissingIsLost, DetachedIsEmpty
<1>3. CASE Close
  <2>1. ring' \in Seq(Event) /\ Len(ring') <= RingSize /\ RingTruthful'
    <3>1. ring' = <<>>
      BY <1>3 DEF Close
    <3>2. <<>> \in Seq(Event) /\ Len(<<>>) = 0 /\ DOMAIN <<>> = {}
      OBVIOUS
    <3>3. ring' \in Seq(Event) /\ Len(ring') <= RingSize /\ DOMAIN ring' = {}
      BY <3>1, <3>2, SizeAssumption
    <3> QED
      BY <3>3 DEF RingTruthful
  <2>2. TypeOK' /\ Kernel'
    BY <1>3, <1>b, <2>1 DEF Close, IInv, TypeOK, Lost, EntryIsLive, MissingIsLost, DetachedIsEmpty
  <2> QED
    BY <1>3, <1>b, <2>1, <2>2 DEF Close, IInv
<1>4. ASSUME NEW s \in Sock, NEW p \in Pid, Connect(s, p) PROVE IInv'
  <2>1. CASE phase = "both"
    <3>1. PICK gone \in Evictions(s) :
            /\ pidBySock' = [t \in Sock |-> IF t = s THEN p
                                           ELSE IF t \in gone THEN None ELSE pidBySock[t]]
            /\ lost' = [t \in Sock |-> IF t = s THEN "no"
                                      ELSE IF t \in gone THEN "evicted" ELSE lost[t]]
      BY <1>4, <2>1 DEF Connect
    <3>2. /\ state[s] = "free" /\ state' = [state EXCEPT ![s] = "connecting"]
          /\ caller' = [caller EXCEPT ![s] = p]
          /\ UNCHANGED <<phase, ring, delivered>>
      BY <1>4 DEF Connect
    <3>3. TypeOK'
      BY <1>a, <1>b, <3>1, <3>2 DEF IInv, TypeOK, Lost
    <3>4. EntryIsLive'
      BY <3>1, <3>2 DEF IInv, TypeOK, EntryIsLive
    <3>5. MissingIsLost'
      <4> SUFFICES ASSUME NEW t \in Sock
                   PROVE /\ state'[t] = "accepting" => caller'[t] = None /\ lost'[t] = "no"
                         /\ state'[t] = "connecting" => caller'[t] \in Pid
                         /\ state'[t] = "connecting" /\ lost'[t] = "no" => pidBySock'[t] = caller'[t]
        BY DEF MissingIsLost
      <4>1. CASE t = s
        BY <3>1, <3>2, <4>1 DEF IInv, TypeOK
      <4>2. CASE t # s /\ t \in gone
        <5>1. pidBySock[t] # None
          BY <4>2 DEF Evictions, Held
        <5>2. state[t] = "connecting"
          BY <5>1 DEF IInv, EntryIsLive
        <5> QED
          BY <3>1, <3>2, <4>2, <5>2 DEF IInv, TypeOK, MissingIsLost
      <4>3. CASE t # s /\ t \notin gone
        BY <3>1, <3>2, <4>3 DEF IInv, TypeOK, MissingIsLost
      <4> QED
        BY <4>1, <4>2, <4>3
    <3>6. DetachedIsEmpty'
      BY <2>1, <3>2 DEF DetachedIsEmpty
    <3> QED
      BY <1>a, <1>b, <3>2, <3>3, <3>4, <3>5, <3>6 DEF IInv
  <2>2. CASE phase # "both"
    <3>1. TypeOK' /\ Kernel'
      BY <1>4, <1>a, <1>b, <2>2
         DEF Connect, IInv, TypeOK, Lost, EntryIsLive, MissingIsLost, DetachedIsEmpty
    <3> QED
      BY <1>4, <1>a, <1>b, <3>1 DEF Connect, IInv
  <2> QED
    BY <2>1, <2>2
<1>5. ASSUME NEW s \in Sock, Accept(s) PROVE IInv'
  <2>1. TypeOK' /\ Kernel'
    BY <1>5, <1>a, <1>b
       DEF Accept, IInv, TypeOK, Lost, EntryIsLive, MissingIsLost, DetachedIsEmpty
  <2> QED
    BY <1>5, <1>a, <1>b, <2>1 DEF Accept, IInv
<1>6. ASSUME NEW s \in Sock, NEW reported \in BOOLEAN, Establish(s, reported) PROVE IInv'
  <2>1. /\ state[s] \in {"connecting", "accepting"} /\ state' = [state EXCEPT ![s] = "open"]
        /\ UNCHANGED <<phase, caller, lost, delivered>>
    BY <1>6 DEF Establish
  <2>2. pidBySock' = [pidBySock EXCEPT ![s] = None]
    <3>1. CASE phase = "off"
      BY <1>6, <3>1 DEF Establish, IInv, TypeOK, DetachedIsEmpty
    <3>2. CASE phase # "off"
      BY <1>6, <3>2 DEF Establish
    <3> QED
      BY <3>1, <3>2
  <2>3. Kernel' /\ pidBySock' \in [Sock -> Pid \cup {None}]
    BY <2>1, <2>2 DEF IInv, TypeOK, EntryIsLive, MissingIsLost, DetachedIsEmpty
  <2>4. ring' \in Seq(Event) /\ Len(ring') <= RingSize /\ RingTruthful'
    <3>1. CASE UNCHANGED ring
      BY <1>a, <3>1
    <3>2. CASE Len(ring) < RingSize /\ ring' = Append(ring, EventOf(s, pidBySock[s]))
      BY <2>1, <3>2, EventTruthful, RingAppend DEF IInv
    <3> QED
      BY <1>6, <3>1, <3>2 DEF Establish
  <2>5. TypeOK'
    BY <1>b, <2>1, <2>3, <2>4 DEF IInv, TypeOK
  <2> QED
    BY <1>b, <2>1, <2>3, <2>4, <2>5 DEF IInv
<1>7. ASSUME NEW s \in Sock, CloseSock(s) PROVE IInv'
  <2>1. pidBySock' = [pidBySock EXCEPT ![s] = None]
    BY <1>7 DEF CloseSock, IInv, TypeOK, DetachedIsEmpty
  <2>2. TypeOK' /\ Kernel'
    BY <1>7, <1>a, <1>b, <2>1
       DEF CloseSock, IInv, TypeOK, EntryIsLive, MissingIsLost, DetachedIsEmpty
  <2> QED
    BY <1>7, <1>a, <1>b, <2>2 DEF CloseSock, IInv
<1>8. ASSUME NEW s \in Sock, TimeWait(s) PROVE IInv'
  <2>1. TypeOK' /\ Kernel'
    BY <1>8, <1>a, <1>b
       DEF TimeWait, IInv, TypeOK, EntryIsLive, MissingIsLost, DetachedIsEmpty
  <2> QED
    BY <1>8, <1>a, <1>b, <2>1 DEF TimeWait, IInv
<1>9. CASE Read
  <2>1. /\ ring # <<>> /\ ring' = Tail(ring)
        /\ delivered' = delivered \cup {Canonical(Head(ring))}
        /\ UNCHANGED <<phase, state, caller, lost, pidBySock>>
    BY <1>9 DEF Read
  <2>2. /\ ring' \in Seq(Event) /\ Len(ring') <= RingSize /\ RingTruthful'
        /\ Head(ring) \in Event /\ Truthful(Head(ring))
    BY <2>1, RingTail DEF IInv
  <2>3. Canonical(Head(ring)) \in Record
    BY <2>2 DEF Canonical, Record
  <2>4. TypeOK'
    BY <2>1, <2>2, <2>3 DEF IInv, TypeOK
  <2>5. RecordsTruthful'
    <3>1. /\ Canonical(Head(ring)).event = Head(ring)
          /\ Canonical(Head(ring)).src = "local" <=> Head(ring).outbound
      BY DEF Canonical
    <3>2. \A r \in delivered' : Truthful(r.event) /\ (r.src = "local" <=> r.event.outbound)
      BY <2>1, <2>2, <3>1 DEF IInv, RecordsTruthful
    <3> QED
      BY <3>2 DEF RecordsTruthful, Truthful
  <2>6. Kernel'
    BY <2>1 DEF IInv, EntryIsLive, MissingIsLost, DetachedIsEmpty
  <2> QED
    BY <2>2, <2>4, <2>5, <2>6 DEF IInv
<1>10. CASE UNCHANGED vars
  <2>1. TypeOK' /\ Kernel'
    BY <1>10, <1>a, <1>b DEF vars, IInv, TypeOK, EntryIsLive, MissingIsLost, DetachedIsEmpty
  <2> QED
    BY <1>10, <1>a, <1>b, <2>1 DEF vars, IInv
<1> QED
  BY <1>1, <1>2, <1>3, <1>4, <1>5, <1>6, <1>7, <1>8, <1>9, <1>10 DEF Next

LEMMA Invariance == Spec => []IInv
  BY IInvInit, IInvStep, PTL DEF Spec

-----------------------------------------------------------------------------
\* Every variable keeps its type.
THEOREM TypeCorrect == Spec => []TypeOK
<1>1. IInv => TypeOK
  BY DEF IInv
<1> QED
  BY <1>1, Invariance, PTL

\* An entry of pid_by_sock always belongs to a socket that is still connecting,
\* however addresses are reused and whenever the probe is attached.
THEOREM NoLeakedEntry == Spec => []EntryIsLive
<1>1. IInv => EntryIsLive
  BY DEF IInv
<1> QED
  BY <1>1, Invariance, PTL

\* No accepted connection is ever reported as outbound, and an outbound record
\* carries the pid of the process that connected (handle_set_state, Canonical).
THEOREM NoPhantomOutbound == Spec => []OutboundIsTrue
<1>1. IInv => OutboundIsTrue
  BY DEF IInv, RecordsTruthful, Truthful, OutboundIsTrue
<1> QED
  BY <1>1, Invariance, PTL

\* Apart from evicted entries and connections older than the probe, every
\* record is oriented from its real caller.
THEOREM Oriented == Spec => []OrientedUnlessLost
<1>1. IInv => OrientedUnlessLost
  <2> SUFFICES ASSUME IInv, NEW r \in delivered, r.event.lost = "no"
               PROVE  r.src = TrueCaller(r.event)
    BY DEF OrientedUnlessLost
  <2>1. r.src \in {"local", "peer"}
    BY DEF IInv, TypeOK, Record
  <2>2. (r.src = "local" <=> r.event.outbound) /\ (r.event.outbound <=> r.event.caller # None)
    BY DEF IInv, RecordsTruthful, Truthful
  <2> QED
    BY <2>1, <2>2 DEF TrueCaller
<1> QED
  BY <1>1, Invariance, PTL
=============================================================================
