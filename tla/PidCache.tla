------------------------------ MODULE PidCache ------------------------------
(***************************************************************************)
(* The collector's cache of pod UIDs by pid: podUID, and the procfs read   *)
(* behind it (PodUIDForPID, ParsePodUID).                                  *)
(*                                                                         *)
(* The reader goroutine takes a connection record from the ring buffer,    *)
(* reads the clock and asks for the UID of the pid the probe recorded;     *)
(* meanwhile processes exit, move to another cgroup, and pids are reused.  *)
(* Only the reader touches the cache.                                      *)
(***************************************************************************)
EXTENDS Naturals, Sequences

CONSTANTS
  Pid,         \* process ids other than 0
  UID,         \* pod UIDs
  Form,        \* how a cgroup path may write a UID; "dashed" is canonical
  TTL,         \* pidCacheTTL
  RingSize,    \* records the ring buffer holds
  MaxClock,    \* bound: the last instant
  Host, Gone,  \* a process outside all pods; no process
  Absent,      \* no entry in the map
  None         \* pid 0, and the empty UID

Dashed(u) == [uid |-> u, form |-> "dashed"]

\* A process is in a pod's cgroup, on the host, or there is none.
Cgroup == [uid : UID, form : Form]
Process == Cgroup \cup {Host, Gone}

\* What podUID may answer.
Answer == {Dashed(u) : u \in UID} \cup {None}

ASSUME PidAssumption ==
  /\ TTL \in Nat \ {0} /\ RingSize \in Nat /\ MaxClock \in Nat
  /\ None \notin Pid /\ None \notin Nat /\ None \notin {Dashed(u) : u \in UID}
  /\ Absent \notin Answer /\ {Host, Gone} \cap Cgroup = {}

VARIABLES
  clock,       \* now
  proc,        \* the process behind each pid
  ring,        \* pids of connection records not read yet
  conn,        \* the record handle works on and the time read for it, or None
  pidUIDs,     \* the cache; a host or vanished process is cached as None
  since,       \* pidUIDsSince; None is the zero time
  left,        \* history: when procfs last stopped giving each answer for a pid
  given        \* history: the last answer

pidVars == <<clock, proc, ring, conn, pidUIDs, since, left, given>>

PidInit ==
  /\ clock = 0
  /\ proc \in [Pid -> Process]
  /\ ring = <<>> /\ conn = None
  /\ pidUIDs = [p \in Pid |-> Absent] /\ since = None
  /\ left = [p \in Pid |-> [a \in Answer |-> None]]
  /\ given = None

-----------------------------------------------------------------------------
(* procfs.                                                                 *)

\* normalisePodUID: underscores become dashes, missing dashes are put in.
NormalisePodUID(raw) == Dashed(raw.uid)

\* ParsePodUID finds a pod segment, or the process is not in a pod.
ParsePodUID(process) == IF process \in Cgroup THEN NormalisePodUID(process) ELSE None

PodUIDForPID(p) == ParsePodUID(proc[p])

-----------------------------------------------------------------------------
(* The node.                                                               *)

Advance ==
  /\ clock < MaxClock /\ clock' = clock + 1
  /\ UNCHANGED <<proc, ring, conn, pidUIDs, since, left, given>>

\* A process starts, exits or is moved to another cgroup; the pid may get a new
\* process at once.
Change(p, process) ==
  /\ process # proc[p]
  /\ proc' = [proc EXCEPT ![p] = process]
  /\ left' = IF ParsePodUID(process) = PodUIDForPID(p) THEN left
             ELSE [left EXCEPT ![p][PodUIDForPID(p)] = clock]
  /\ UNCHANGED <<clock, ring, conn, pidUIDs, since, given>>

\* A record of an outbound connection; None is one without process context.
Connect(p) ==
  /\ Len(ring) < RingSize
  /\ p # None => proc[p] # Gone
  /\ ring' = Append(ring, p)
  /\ UNCHANGED <<clock, proc, conn, pidUIDs, since, left, given>>

-----------------------------------------------------------------------------
(* The reader goroutine.                                                   *)

\* Collector.Run: the time is read before the record is handled.
Read ==
  /\ conn = None /\ ring # <<>>
  /\ conn' = [pid |-> Head(ring), now |-> clock]
  /\ ring' = Tail(ring)
  /\ UNCHANGED <<clock, proc, pidUIDs, since, left, given>>

NoProcess ==
  /\ conn # None /\ conn.pid = None
  /\ conn' = None
  /\ UNCHANGED <<clock, proc, ring, pidUIDs, since, left, given>>

\* Wrong on purpose: the map lives one instant longer than pidCacheTTL.
ExpiredLate(now) == since = None \/ now > since + TTL

\* The whole map is thrown away once it is pidCacheTTL old.
Expired(now) == since = None \/ now >= since + TTL

\* The map podUID looks into.
Current(now) == IF Expired(now) THEN [p \in Pid |-> Absent] ELSE pidUIDs

PodUID ==
  /\ conn # None /\ conn.pid # None
  /\ LET p == conn.pid
         cache == Current(conn.now)
         uid == IF cache[p] # Absent THEN cache[p] ELSE PodUIDForPID(p)
     IN  /\ pidUIDs' = [cache EXCEPT ![p] = uid]
         /\ since' = IF Expired(conn.now) THEN conn.now ELSE since
         /\ given' = [pid |-> p, uid |-> uid, now |-> conn.now]
  /\ conn' = None
  /\ UNCHANGED <<clock, proc, ring, left>>

PidNext ==
  \/ Advance
  \/ \E p \in Pid, process \in Process : Change(p, process)
  \/ \E p \in Pid \cup {None} : Connect(p)
  \/ Read \/ NoProcess \/ PodUID

PidSpec == PidInit /\ [][PidNext]_pidVars

-----------------------------------------------------------------------------
\* Types of all variables; the times that were read lie in the past.
PidTypeOK ==
  /\ clock \in Nat
  /\ proc \in [Pid -> Process]
  /\ ring \in Seq(Pid \cup {None})
  /\ conn \in [pid : Pid \cup {None}, now : 0..clock] \cup {None}
  /\ pidUIDs \in [Pid -> Answer \cup {Absent}]
  /\ since \in (0..clock) \cup {None}
  /\ left \in [Pid -> [Answer -> (0..clock) \cup {None}]]
  /\ given \in [pid : Pid, uid : Answer, now : 0..clock] \cup {None}

\* procfs gives answer a for pid p now, or last did later than TTL before t.
AsOf(p, a, t) == PodUIDForPID(p) = a \/ (left[p][a] # None /\ t < left[p][a] + TTL)

\* pidCacheTTL's comment: a result is reused for a bounded time.  An answer,
\* "not a pod" included, was true of the pid less than TTL before the record
\* was read: a process that has had its pid for that long is never taken for
\* its predecessor, however full the ring buffer is and however often the entry
\* is used.  (podUID)
AsOfRecent == given # None => AsOf(given.pid, given.uid, given.now)
=============================================================================
