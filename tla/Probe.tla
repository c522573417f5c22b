------------------------------- MODULE Probe -------------------------------
(***************************************************************************)
(* The connection probe: the two eBPF programs, the pid_by_sock map that   *)
(* joins them, the ring buffer to userspace, and Loader.New/Close, which   *)
(* attach and detach the programs while sockets are already in use.        *)
(*                                                                         *)
(* The map is keyed by the address of a struct sock, and the kernel reuses *)
(* addresses: a socket that ends in TIME_WAIT is freed without a TCP_CLOSE *)
(* transition.  An event is represented by what userspace decides on (the  *)
(* outbound flag and the pid) together with the truth about the connection *)
(* it reports, which no program can see.                                   *)
(***************************************************************************)
EXTENDS Naturals, Sequences, FiniteSets

CONSTANTS
  Sock,        \* addresses of struct sock
  Pid,         \* processes that connect
  MapSize,     \* max_entries of pid_by_sock
  RingSize,    \* events the ring buffer holds
  None         \* no entry, no process

ASSUME SizeAssumption == MapSize \in Nat \ {0} /\ RingSize \in Nat \ {0}
ASSUME NoneAssumption == None \notin Pid

VARIABLES
  phase,       \* what Loader has attached: nothing, the tracepoint, both
  state,       \* kernel state of the socket at each address
  caller,      \* truth: the process connecting the socket, None if accepted
  lost,        \* truth: why a connecting socket has no map entry
  pidBySock,   \* pid_by_sock
  ring,        \* events
  delivered    \* records handle has decoded and oriented

kernelVars == <<state, caller, lost>>
vars == <<phase, kernelVars, pidBySock, ring, delivered>>

Lost == {"no", "evicted", "before attach"}

Event == [caller : Pid \cup {None}, lost : Lost,
          outbound : BOOLEAN, pid : Pid \cup {None}]

Record == [src : {"local", "peer"}, event : Event]

Init ==
  /\ phase = "off"
  /\ state = [s \in Sock |-> "free"]
  /\ caller = [s \in Sock |-> None]
  /\ lost = [s \in Sock |-> "no"]
  /\ pidBySock = [s \in Sock |-> None]
  /\ ring = <<>>
  /\ delivered = {}

-----------------------------------------------------------------------------
(* Loader.                                                                 *)

\* New: fresh maps, then link.Tracepoint.
AttachTracepoint ==
  /\ phase = "off"
  /\ phase' = "tracepoint"
  /\ UNCHANGED <<kernelVars, pidBySock, ring, delivered>>

\* New: link.AttachTracing for the tcp_connect fentry.
AttachFentry ==
  /\ phase = "tracepoint"
  /\ phase' = "both"
  /\ UNCHANGED <<kernelVars, pidBySock, ring, delivered>>

\* Close, also on a failed attach: the programs and the maps are gone, and with
\* them the identity of every connection in progress.
Close ==
  /\ phase # "off"
  /\ phase' = "off"
  /\ pidBySock' = [s \in Sock |-> None]
  /\ lost' = [s \in Sock |-> IF pidBySock[s] # None THEN "before attach" ELSE lost[s]]
  /\ ring' = <<>>
  /\ UNCHANGED <<state, caller, delivered>>

-----------------------------------------------------------------------------
(* The kernel and the programs it calls.                                   *)

Held(m) == {s \in Sock : m[s] # None}

\* What bpf_map_update_elem may evict from the LRU hash to make room for s.
Evictions(s) ==
  LET full == s \notin Held(pidBySock) /\ Cardinality(Held(pidBySock)) >= MapSize
  IN  {gone \in SUBSET Held(pidBySock) : Cardinality(gone) = IF full THEN 1 ELSE 0}

\* A process connects: handle_tcp_connect runs if the fentry is attached.
Connect(s, p) ==
  /\ state[s] = "free"
  /\ state' = [state EXCEPT ![s] = "connecting"]
  /\ caller' = [caller EXCEPT ![s] = p]
  /\ \/ /\ phase = "both"
        /\ \E gone \in Evictions(s) :
             /\ pidBySock' = [t \in Sock |-> IF t = s THEN p
                                            ELSE IF t \in gone THEN None ELSE pidBySock[t]]
             /\ lost' = [t \in Sock |-> IF t = s THEN "no"
                                       ELSE IF t \in gone THEN "evicted" ELSE lost[t]]
     \/ /\ phase # "both"
        /\ lost' = [lost EXCEPT ![s] = "before attach"]
        /\ UNCHANGED pidBySock
  /\ UNCHANGED <<phase, ring, delivered>>

\* A listening socket's child appears at a free address, about to establish.
Accept(s) ==
  /\ state[s] = "free"
  /\ state' = [state EXCEPT ![s] = "accepting"]
  /\ caller' = [caller EXCEPT ![s] = None]
  /\ lost' = [lost EXCEPT ![s] = "no"]
  /\ UNCHANGED <<phase, pidBySock, ring, delivered>>

\* The event handle_set_state writes, from the entry it looked up.
EventOf(s, entry) ==
  [caller |-> caller[s], lost |-> lost[s], outbound |-> entry # None, pid |-> entry]

\* Wrong on purpose: the entry is consumed only when an event is written, so an
\* early return leaves it behind.
EstablishLateDelete(s, reported) ==
  /\ state[s] \in {"connecting", "accepting"}
  /\ state' = [state EXCEPT ![s] = "open"]
  /\ IF phase # "off" /\ reported /\ Len(ring) < RingSize
       THEN /\ ring' = Append(ring, EventOf(s, pidBySock[s]))
            /\ pidBySock' = [pidBySock EXCEPT ![s] = None]
       ELSE UNCHANGED <<ring, pidBySock>>
  /\ UNCHANGED <<phase, caller, lost, delivered>>

\* The socket reaches ESTABLISHED: handle_set_state consumes the entry, then
\* returns early for a family it does not report or a full ring buffer.
Establish(s, reported) ==
  /\ state[s] \in {"connecting", "accepting"}
  /\ state' = [state EXCEPT ![s] = "open"]
  /\ \/ /\ phase = "off"
        /\ UNCHANGED <<pidBySock, ring>>
     \/ /\ phase # "off"
        /\ pidBySock' = [pidBySock EXCEPT ![s] = None]
        /\ IF reported /\ Len(ring) < RingSize
             THEN ring' = Append(ring, EventOf(s, pidBySock[s]))
             ELSE UNCHANGED ring
  /\ UNCHANGED <<phase, caller, lost, delivered>>

\* Wrong on purpose: nothing is freed for a connect that never establishes.
CloseSockLeaks(s) ==
  /\ state[s] # "free"
  /\ state' = [state EXCEPT ![s] = "free"]
  /\ UNCHANGED <<phase, caller, lost, pidBySock, ring, delivered>>

\* The socket reaches TCP_CLOSE, established or not, and is freed.
CloseSock(s) ==
  /\ state[s] # "free"
  /\ state' = [state EXCEPT ![s] = "free"]
  /\ pidBySock' = IF phase = "off" THEN pidBySock
                                   ELSE [pidBySock EXCEPT ![s] = None]
  /\ UNCHANGED <<phase, caller, lost, ring, delivered>>

\* An established socket ends in TIME_WAIT: freed with no TCP_CLOSE transition.
TimeWait(s) ==
  /\ state[s] = "open"
  /\ state' = [state EXCEPT ![s] = "free"]
  /\ UNCHANGED <<phase, caller, lost, pidBySock, ring, delivered>>

-----------------------------------------------------------------------------
(* Userspace.                                                              *)

\* ConnectionEvent.Canonical: an accepted-side record is mirrored.  The source
\* of the result is the local end exactly when the record is outbound.
Canonical(e) == [src |-> IF e.outbound THEN "local" ELSE "peer", event |-> e]

\* Wrong on purpose: the raw event goes on without being oriented.
ReadRaw ==
  /\ phase = "both" /\ ring # <<>>
  /\ delivered' = delivered \cup {Head(ring)}
  /\ ring' = Tail(ring)
  /\ UNCHANGED <<phase, kernelVars, pidBySock>>

\* Loader.Read and the start of Collector.handle.
Read ==
  /\ phase = "both" /\ ring # <<>>
  /\ delivered' = delivered \cup {Canonical(Head(ring))}
  /\ ring' = Tail(ring)
  /\ UNCHANGED <<phase, kernelVars, pidBySock>>

-----------------------------------------------------------------------------
Next ==
  \/ AttachTracepoint \/ AttachFentry \/ Close
  \/ \E s \in Sock :
       \/ \E p \in Pid : Connect(s, p)
       \/ Accept(s)
       \/ \E reported \in BOOLEAN : Establish(s, reported)
       \/ CloseSock(s)
       \/ TimeWait(s)
  \/ Read

Spec == Init /\ [][Next]_vars

-----------------------------------------------------------------------------
\* Types of all variables.
TypeOK ==
  /\ phase \in {"off", "tracepoint", "both"}
  /\ state \in [Sock -> {"free", "connecting", "accepting", "open"}]
  /\ caller \in [Sock -> Pid \cup {None}]
  /\ lost \in [Sock -> Lost]
  /\ pidBySock \in [Sock -> Pid \cup {None}]
  /\ ring \in Seq(Event) /\ Len(ring) <= RingSize
  /\ delivered \subseteq Record

\* The comment in handle_set_state: an entry always belongs to a live socket
\* still connecting, with the pid that connects it, so a reused address never
\* finds the entry of its predecessor.
EntryIsLive ==
  \A s \in Sock : pidBySock[s] # None =>
    state[s] = "connecting" /\ pidBySock[s] = caller[s]

TrueCaller(e) == IF e.caller = None THEN "peer" ELSE "local"

\* A record marked outbound really was initiated on this node by the pid it
\* carries: no accepted socket is laundered past the reversed-duplicate filter.
OutboundIsTrue ==
  \A r \in delivered :
    r.src = "local" => r.event.caller # None /\ r.event.pid = r.event.caller

\* A record is oriented from the real caller, except for a local connection
\* whose entry was evicted or that connected before the fentry was attached.
OrientedUnlessLost ==
  \A r \in delivered : r.event.lost = "no" => r.src = TrueCaller(r.event)
=============================================================================
