---------------------------- MODULE DedupProofs ----------------------------
(***************************************************************************)
(* Proofs about Dedup.tla for any number of handlers, any edges and any    *)
(* window.                                                                 *)
(***************************************************************************)
EXTENDS Dedup, TLAPS

(***************************************************************************)
(* The map alone does not remember an allowed sighting once Sweep evicted  *)
(* it.  The invariant ties the map to the history: a present entry is the  *)
(* last allowed sighting, and an absent one means its window has passed.   *)
(***************************************************************************)
SeenIsLast == \A k \in Key : seen[k] # None => seen[k] = last[k]

EvictedIsOver ==
  \A k \in Key : seen[k] = None /\ last[k] # None => clock >= last[k] + Window

IInv == TypeOK /\ SeenIsLast /\ EvictedIsOver

LEMMA IInvInit == Init => IInv
  BY WindowAssumption, NoneAssumption
     DEF Init, IInv, TypeOK, SeenIsLast, EvictedIsOver

LEMMA TypeStep == TypeOK /\ [Next]_vars => TypeOK'
<1> SUFFICES ASSUME TypeOK, [Next]_vars PROVE TypeOK'
  OBVIOUS
<1> USE WindowAssumption, NoneAssumption DEF TypeOK, workerVars
<1>1. ASSUME NEW w \in Worker, NEW k \in Key, Sight(w, k) PROVE TypeOK'
  BY <1>1 DEF Sight
<1>2. ASSUME NEW w \in Worker, Allow(w) PROVE TypeOK'
  BY <1>2 DEF Allow
<1>3. ASSUME NEW w \in Worker, Emit(w) PROVE TypeOK'
  BY <1>3 DEF Emit
<1>4. CASE Fire
  BY <1>4 DEF Fire
<1>5. CASE Sweep
  BY <1>5 DEF Sweep
<1>6. CASE Advance
  BY <1>6 DEF Advance
<1>7. CASE UNCHANGED vars
  BY <1>7 DEF vars
<1> QED
  BY <1>1, <1>2, <1>3, <1>4, <1>5, <1>6, <1>7 DEF Next

LEMMA IInvStep == IInv /\ [Next]_vars => IInv'
<1> SUFFICES ASSUME IInv, [Next]_vars PROVE (SeenIsLast /\ EvictedIsOver)'
  BY TypeStep DEF IInv
<1> DEFINE Goal == SeenIsLast /\ EvictedIsOver
<1> USE WindowAssumption, NoneAssumption
    DEF IInv, TypeOK, SeenIsLast, EvictedIsOver, workerVars
<1>1. ASSUME NEW w \in Worker, NEW k \in Key, Sight(w, k) PROVE Goal'
  BY <1>1 DEF Sight
<1>2. ASSUME NEW w \in Worker, Allow(w) PROVE Goal'
  <2>1. CASE UNCHANGED <<seen, last>>
    BY <1>2, <2>1 DEF Allow
  <2>2. CASE /\ seen' = [seen EXCEPT ![key[w]] = now[w]]
             /\ last' = [last EXCEPT ![key[w]] = now[w]]
    BY <1>2, <2>2 DEF Allow
  <2> QED
    BY <1>2, <2>1, <2>2 DEF Allow
<1>3. ASSUME NEW w \in Worker, Emit(w) PROVE Goal'
  BY <1>3 DEF Emit
<1>4. CASE Fire
  BY <1>4 DEF Fire
<1>5. CASE Sweep
  <2>1. tick \in 0..clock
    BY <1>5 DEF Sweep
  <2>2. ASSUME NEW k \in Key PROVE seen'[k] = seen[k] \/
                                   (seen'[k] = None /\ seen[k] # None /\ tick >= seen[k] + Window)
    BY <1>5 DEF Sweep, Expired
  <2> QED
    BY <1>5, <2>1, <2>2 DEF Sweep
<1>6. CASE Advance
  BY <1>6 DEF Advance
<1>7. CASE UNCHANGED vars
  BY <1>7 DEF vars
<1> QED
  BY <1>1, <1>2, <1>3, <1>4, <1>5, <1>6, <1>7 DEF Next

LEMMA Invariance == Spec => []IInv
  BY IInvInit, IInvStep, PTL DEF Spec

\* Every recorded time lies in the past, in every behaviour.
THEOREM TypeCorrect == Spec => []TypeOK
<1>1. IInv => TypeOK
  BY DEF IInv
<1> QED
  BY <1>1, Invariance, PTL

\* What one call of Allow decides, from the invariant.
LEMMA AllowStep ==
  ASSUME IInv, [Next]_vars, NEW w \in Worker, pc[w] = "allow", pc'[w] # "allow"
  PROVE  /\ pc'[w] = "emit" /\ last[key[w]] # None
              => clock >= last[key[w]] + Window
         /\ pc'[w] = "idle" => last[key[w]] # None /\ now[w] < last[key[w]] + Window
<1> USE WindowAssumption, NoneAssumption DEF IInv, TypeOK, workerVars
<1>1. Allow(w)
  <2>1. ASSUME NEW v \in Worker, NEW k \in Key, Sight(v, k) PROVE FALSE
    BY <2>1 DEF Sight
  <2>2. ASSUME NEW v \in Worker, Emit(v) PROVE FALSE
    BY <2>2 DEF Emit
  <2>3. ASSUME NEW v \in Worker, Allow(v) PROVE v = w
    BY <2>3 DEF Allow
  <2>4. ~(Fire \/ Sweep \/ Advance \/ UNCHANGED vars)
    BY DEF Fire, Sweep, Advance, vars
  <2> QED
    BY <2>1, <2>2, <2>3, <2>4 DEF Next
<1>2. key[w] \in Key /\ now[w] \in 0..clock
  OBVIOUS
<1>3. CASE Recent(seen[key[w]], now[w])
  BY <1>1, <1>2, <1>3 DEF Allow, Recent, SeenIsLast
<1>4. CASE ~Recent(seen[key[w]], now[w])
  BY <1>1, <1>2, <1>4 DEF Allow, Recent, SeenIsLast, EvictedIsOver
<1> QED
  BY <1>3, <1>4

\* An edge is never allowed again before its window has passed, whatever times
\* the handlers and the sweep loop apply late (Allow and Sweep).
THEOREM WindowHolds == Spec => NoEarlyRepeat
<1>1. IInv /\ [Next]_vars =>
        [\A w \in Worker : (pc[w] = "allow" /\ pc'[w] = "emit" /\ last[key[w]] # None)
           => clock >= last[key[w]] + Window]_vars
  BY AllowStep
<1> QED
  BY <1>1, Invariance, PTL DEF Spec, NoEarlyRepeat

\* A suppressed sighting is always covered by an allowed one less than Window
\* earlier (Allow): suppression never hides an edge.
THEOREM NothingHidden == Spec => SuppressedIsCovered
<1>1. IInv /\ [Next]_vars =>
        [\A w \in Worker : (pc[w] = "allow" /\ pc'[w] = "idle")
           => /\ last[key[w]] # None
              /\ now[w] < last[key[w]] + Window]_vars
  BY AllowStep
<1> QED
  BY <1>1, Invariance, PTL DEF Spec, SuppressedIsCovered
=============================================================================
