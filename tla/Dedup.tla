------------------------------- MODULE Dedup -------------------------------
(***************************************************************************)
(* The processor's deduper under concurrent Report handlers and the sweep  *)
(* loop.  A handler reads the clock (p.now()) BEFORE Allow takes the lock, *)
(* and the sweep loop receives a tick stamped when the ticker fired, so    *)
(* both may apply a time that is already in the past, in any order.        *)
(*                                                                         *)
(* An edge is represented by its dedup key; what Emit writes is left out,  *)
(* and so is the early return for a window that is not positive, which the *)
(* binary never configures.                                                *)
(***************************************************************************)
EXTENDS Naturals

CONSTANTS
  Worker,      \* concurrent Report handlers
  Key,         \* dedup keys of service-call edges
  Window,      \* Deduper.window: dedupWindow, a positive constant of the binary
  MaxClock,    \* bound: the clock stops here
  None         \* no entry, no tick

ASSUME WindowAssumption == Window \in Nat \ {0} /\ MaxClock \in Nat
ASSUME NoneAssumption   == None \notin Nat

VARIABLES
  clock,       \* real time
  pc,          \* where each handler is
  key, now,    \* the edge a handler carries and the time it read for it
  seen,        \* Deduper.seen; None where the map has no entry
  tick,        \* the tick waiting in the sweep ticker's channel
  last         \* history: the time recorded by the last allowed sighting

workerVars == <<pc, key, now>>
vars == <<clock, workerVars, seen, tick, last>>

Time == 0..MaxClock

Init ==
  /\ clock = 0
  /\ pc = [w \in Worker |-> "idle"]
  /\ key \in [Worker -> Key] /\ now = [w \in Worker |-> 0]
  /\ seen = [k \in Key |-> None]
  /\ tick = None
  /\ last = [k \in Key |-> None]

-----------------------------------------------------------------------------
\* Wrong on purpose: the time read is rounded up to the next instant.
SightRounded(w, k) ==
  /\ pc[w] = "idle"
  /\ pc' = [pc EXCEPT ![w] = "allow"]
  /\ key' = [key EXCEPT ![w] = k]
  /\ now' = [now EXCEPT ![w] = clock + 1]
  /\ UNCHANGED <<clock, seen, tick, last>>

\* Pipeline.Handle has an edge to report and evaluates p.now().
Sight(w, k) ==
  /\ pc[w] = "idle"
  /\ pc' = [pc EXCEPT ![w] = "allow"]
  /\ key' = [key EXCEPT ![w] = k]
  /\ now' = [now EXCEPT ![w] = clock]
  /\ UNCHANGED <<clock, seen, tick, last>>

\* Wrong on purpose: the instant the window ends still counts as inside it.
RecentInclusive(stamp, at) == stamp # None /\ at < stamp + Window + 1

\* now.Sub(last) < window for an entry that exists; the difference is signed, so
\* a time older than the entry counts as recent.
Recent(stamp, at) == stamp # None /\ at < stamp + Window

\* Deduper.Allow, atomic under its lock.
Allow(w) ==
  /\ pc[w] = "allow"
  /\ \/ /\ Recent(seen[key[w]], now[w])
        /\ pc' = [pc EXCEPT ![w] = "idle"]
        /\ UNCHANGED <<seen, last>>
     \/ /\ ~Recent(seen[key[w]], now[w])
        /\ seen' = [seen EXCEPT ![key[w]] = now[w]]
        /\ last' = [last EXCEPT ![key[w]] = now[w]]
        /\ pc' = [pc EXCEPT ![w] = "emit"]
  /\ UNCHANGED <<clock, key, now, tick>>

\* The allowed edge goes to the sinks and the handler moves on.
Emit(w) ==
  /\ pc[w] = "emit"
  /\ pc' = [pc EXCEPT ![w] = "idle"]
  /\ UNCHANGED <<clock, key, now, seen, tick, last>>

\* The sweep ticker fires; a tick nobody took yet makes it skip this one.
Fire ==
  /\ tick = None
  /\ tick' = clock
  /\ UNCHANGED <<clock, workerVars, seen, last>>

\* Wrong on purpose: entries are evicted one instant before the window ends.
ExpiredEarly(stamp, at) == stamp # None /\ at + 1 >= stamp + Window

\* Wrong on purpose: nothing is ever evicted.
ExpiredNever(stamp, at) == stamp # None /\ at < stamp

\* now.Sub(last) >= window.
Expired(stamp, at) == stamp # None /\ at >= stamp + Window

\* sweepLoop takes the tick and runs Deduper.Sweep under the lock.
Sweep ==
  /\ tick # None
  /\ tick' = None
  /\ seen' = [k \in Key |-> IF Expired(seen[k], tick) THEN None ELSE seen[k]]
  /\ UNCHANGED <<clock, workerVars, last>>

Advance ==
  /\ clock < MaxClock
  /\ clock' = clock + 1
  /\ UNCHANGED <<workerVars, seen, tick, last>>

-----------------------------------------------------------------------------
Next ==
  \/ \E w \in Worker, k \in Key : Sight(w, k)
  \/ \E w \in Worker : Allow(w) \/ Emit(w)
  \/ Fire \/ Sweep
  \/ Advance

Spec == Init /\ [][Next]_vars

\* Time passes, the ticker keeps firing and the sweep loop is scheduled.
FairSpec == Spec /\ WF_vars(Advance) /\ WF_vars(Fire) /\ WF_vars(Sweep)

-----------------------------------------------------------------------------
\* Types of all variables; every recorded time lies in the past.
TypeOK ==
  /\ clock \in Nat
  /\ pc \in [Worker -> {"idle", "allow", "emit"}]
  /\ key \in [Worker -> Key] /\ now \in [Worker -> 0..clock]
  /\ seen \in [Key -> (0..clock) \cup {None}]
  /\ last \in [Key -> (0..clock) \cup {None}]
  /\ tick \in (0..clock) \cup {None}

\* A key is allowed again only once Window has really passed since the time
\* recorded for it, even when a stale sweep or a slow handler intervenes.
NoEarlyRepeat ==
  [][\A w \in Worker :
       (pc[w] = "allow" /\ pc'[w] = "emit" /\ last[key[w]] # None)
         => clock >= last[key[w]] + Window]_vars

\* A sighting is suppressed only when an edge of its key was allowed less than
\* Window before the time the handler read: no edge disappears from the map.
SuppressedIsCovered ==
  [][\A w \in Worker :
       (pc[w] = "allow" /\ pc'[w] = "idle")
         => /\ last[key[w]] # None
            /\ now[w] < last[key[w]] + Window]_vars

\* The map does not keep an expired entry for ever: once the window is over it
\* is evicted or replaced by a new sighting (sweepLoop bounds the memory).
ExpiredGoes ==
  \A k \in Key : \A t \in Time :
    (t + Window <= MaxClock /\ seen[k] = t) ~> (seen[k] # t)
=============================================================================
