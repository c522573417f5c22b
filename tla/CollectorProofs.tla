-------------------------- MODULE CollectorProofs --------------------------
(***************************************************************************)
(* Proofs about Collector.tla for every set of connections, every flow key *)
(* and every MaxBatch and QueueSize, and, at the end, about PidCache.tla,  *)
(* the cache its reader asks for the pod behind a pid.                     *)
(***************************************************************************)
EXTENDS Collector, PidCache, FiniteSetTheorems, TLAPS

(***************************************************************************)
(* The inductive invariant.  Accounted and Bounded are not inductive alone: *)
(* Bounded needs that the map holds fewer than MaxBatch flows whenever the *)
(* reader may add one, and both need to know which piles are empty at each *)
(* program point, since Drain, Cut and SenderRecv overwrite their target.  *)
(***************************************************************************)
HandsEmpty ==
  /\ \A f \in Flushers :
       /\ pc[f] \notin {"cut", "send", "evict"} => out[f] = {}
       /\ pc[f] \notin {"send", "evict"} => cur[f] = {}
  /\ spc = "idle" => inflight = {}

NoEmptyBatch ==
  /\ spc \in {"call", "backoff"} => inflight # {}
  /\ \A i \in DOMAIN queue : queue[i] # {}

RoomForOne == pc["reader"] # "drain" => Cardinality(Flows(agg)) < MaxBatch

IInv ==
  /\ TypeOK
  /\ Accounted
  /\ Bounded
  /\ OneBatchPerFlush
  /\ HandsEmpty
  /\ NoEmptyBatch
  /\ RoomForOne

-----------------------------------------------------------------------------
(* Lemmas on the operators of the model.                                   *)

\* The flows of a finite set of connections are finitely many, and a smaller
\* set of connections has no more of them.
LEMMA FlowsFinite ==
  ASSUME NEW S \in SUBSET Conn
  PROVE  IsFiniteSet(Flows(S)) /\ Cardinality(Flows(S)) \in Nat
<1>1. IsFiniteSet(S)
  BY FS_Subset, ConnAssumption
<1> DEFINE g == [c \in S |-> KeyOf[c]]
<1>2. g \in Surjection(S, Flows(S))
  BY DEF Surjection, Flows
<1>3. IsFiniteSet(Flows(S))
  BY <1>1, <1>2, FS_Surjection
<1> QED
  BY <1>3, FS_CardinalityType

\* Adding one connection adds at most one flow (Aggregator.Add).
LEMMA FlowsAdd ==
  ASSUME NEW S \in SUBSET Conn, NEW c \in Conn
  PROVE  Cardinality(Flows(S \cup {c})) <= Cardinality(Flows(S)) + 1
<1>1. Flows(S \cup {c}) = Flows(S) \cup {KeyOf[c]}
  BY DEF Flows
<1>2. IsFiniteSet(Flows(S)) /\ Cardinality(Flows(S)) \in Nat
  BY FlowsFinite
<1>3. \/ Cardinality(Flows(S) \cup {KeyOf[c]}) = Cardinality(Flows(S))
      \/ Cardinality(Flows(S) \cup {KeyOf[c]}) = Cardinality(Flows(S)) + 1
  BY <1>2, FS_AddElement
<1> DEFINE m == Cardinality(Flows(S))
<1>4. m \in Nat /\ (Cardinality(Flows(S \cup {c})) = m \/ Cardinality(Flows(S \cup {c})) = m + 1)
  BY <1>1, <1>2, <1>3
<1> HIDE DEF m
<1>5. Cardinality(Flows(S \cup {c})) <= m + 1
  BY <1>4
<1> QED
  BY <1>5 DEF m

\* No connections, no flows.
LEMMA FlowsEmpty == Flows({}) = {} /\ Cardinality(Flows({})) = 0 /\ Fits({})
<1>1. Flows({}) = {}
  BY DEF Flows
<1> QED
  BY <1>1, FS_EmptySet, SizeAssumption DEF Fits

\* When the drained records fit in a batch, flush cuts all of them at once.
LEMMA CutTakesAll ==
  ASSUME NEW S \in SUBSET Conn, Fits(S), NEW K \in SUBSET Flows(S),
         (K = Flows(S) /\ Cardinality(K) <= MaxBatch) \/ Cardinality(K) = MaxBatch
  PROVE  K = Flows(S)
<1>1. IsFiniteSet(Flows(S)) /\ Cardinality(Flows(S)) \in Nat
  BY FlowsFinite
<1>2. CASE Cardinality(K) = MaxBatch
  <2>1. Cardinality(K) <= Cardinality(Flows(S))
    BY <1>1, FS_Subset
  <2>2. Cardinality(Flows(S)) = Cardinality(K)
    BY <1>1, <1>2, <2>1, SizeAssumption DEF Fits
  <2> QED
    BY <1>1, <2>2, FS_Subset
<1> QED
  BY <1>2

\* The connections of a queue after a send, and after a receive.
LEMMA QueueAppend ==
  ASSUME NEW q \in Seq(SUBSET Conn), NEW b \in SUBSET Conn,
         Disjoint(q), b \cap QueueOf(q) = {}
  PROVE  /\ QueueOf(Append(q, b)) = QueueOf(q) \cup b
         /\ Disjoint(Append(q, b))
<1>1. Len(q) \in Nat /\ DOMAIN q = 1..Len(q) /\ DOMAIN Append(q, b) = 1..(Len(q) + 1)
  OBVIOUS
<1>2. \A i \in 1..Len(q) : Append(q, b)[i] = q[i]
  OBVIOUS
<1>3. Append(q, b)[Len(q) + 1] = b
  OBVIOUS
<1>4. QueueOf(Append(q, b)) = QueueOf(q) \cup b
  <2>1. 1..(Len(q) + 1) = (1..Len(q)) \cup {Len(q) + 1}
    BY <1>1
  <2> QED
    BY <1>1, <1>2, <1>3, <2>1 DEF QueueOf
<1>5. \A i \in 1..Len(q) : q[i] \cap b = {}
  BY <1>1 DEF QueueOf
<1>6. Disjoint(Append(q, b))
  <2> SUFFICES ASSUME NEW i \in 1..(Len(q) + 1), NEW j \in 1..(Len(q) + 1), i # j
               PROVE  Append(q, b)[i] \cap Append(q, b)[j] = {}
    BY <1>1 DEF Disjoint
  <2>1. CASE i \in 1..Len(q) /\ j \in 1..Len(q)
    BY <1>1, <1>2, <2>1 DEF Disjoint
  <2>2. CASE i = Len(q) + 1
    <3>1. j \in 1..Len(q)
      BY <1>1, <2>2
    <3> QED
      BY <1>2, <1>3, <1>5, <2>2, <3>1
  <2>3. CASE j = Len(q) + 1
    <3>1. i \in 1..Len(q)
      BY <1>1, <2>3
    <3> QED
      BY <1>2, <1>3, <1>5, <2>3, <3>1
  <2> QED
    BY <1>1, <2>1, <2>2, <2>3
<1> QED
  BY <1>4, <1>6

LEMMA QueueTail ==
  ASSUME NEW q \in Seq(SUBSET Conn), q # <<>>, Disjoint(q)
  PROVE  /\ Head(q) \in SUBSET Conn /\ Tail(q) \in Seq(SUBSET Conn)
         /\ Head(q) = q[1] /\ 1 \in DOMAIN q
         /\ Len(Tail(q)) = Len(q) - 1
         /\ \A i \in DOMAIN Tail(q) : i + 1 \in DOMAIN q /\ Tail(q)[i] = q[i + 1]
         /\ Head(q) \subseteq QueueOf(q)
         /\ QueueOf(Tail(q)) = QueueOf(q) \ Head(q)
         /\ Disjoint(Tail(q))
<1>1. /\ Len(q) \in Nat \ {0} /\ DOMAIN q = 1..Len(q) /\ Head(q) = q[1]
      /\ Tail(q) \in Seq(SUBSET Conn) /\ Len(Tail(q)) = Len(q) - 1
      /\ DOMAIN Tail(q) = 1..(Len(q) - 1)
      /\ \A i \in 1..(Len(q) - 1) : Tail(q)[i] = q[i + 1]
  OBVIOUS
<1>2. 1 \in DOMAIN q /\ Head(q) \in SUBSET Conn /\ Head(q) \subseteq QueueOf(q)
  BY <1>1 DEF QueueOf
<1>3. \A i \in DOMAIN Tail(q) : i + 1 \in DOMAIN q /\ Tail(q)[i] = q[i + 1]
  BY <1>1
<1>4. QueueOf(Tail(q)) = QueueOf(q) \ Head(q)
  <2>1. ASSUME NEW x \in QueueOf(Tail(q)) PROVE x \in QueueOf(q) \ Head(q)
    <3>1. PICK i \in DOMAIN Tail(q) : x \in Tail(q)[i]
      BY DEF QueueOf
    <3>2. i + 1 \in DOMAIN q /\ x \in q[i + 1] /\ i + 1 # 1
      BY <1>1, <1>3, <3>1
    <3>3. q[i + 1] \cap q[1] = {}
      BY <1>2, <3>2 DEF Disjoint
    <3> QED
      BY <1>1, <3>2, <3>3 DEF QueueOf
  <2>2. ASSUME NEW x \in QueueOf(q) \ Head(q) PROVE x \in QueueOf(Tail(q))
    <3>1. PICK i \in DOMAIN q : x \in q[i]
      BY DEF QueueOf
    <3>2. i # 1 /\ i - 1 \in DOMAIN Tail(q) /\ Tail(q)[i - 1] = q[i]
      BY <1>1, <3>1
    <3> QED
      BY <3>1, <3>2 DEF QueueOf
  <2> QED
    BY <2>1, <2>2
<1>5. Disjoint(Tail(q))
  <2> SUFFICES ASSUME NEW i \in DOMAIN Tail(q), NEW j \in DOMAIN Tail(q), i # j
               PROVE  Tail(q)[i] \cap Tail(q)[j] = {}
    BY DEF Disjoint
  <2>1. i + 1 # j + 1
    BY <1>1
  <2> QED
    BY <1>3, <2>1 DEF Disjoint
<1> QED
  BY <1>1, <1>2, <1>3, <1>4, <1>5

\* Q is P with the connections S moved from pile a to pile b: the shape of
\* every step but the reader's.
Moved(P, Q, a, b, S) ==
  /\ DOMAIN Q = DOMAIN P /\ a \in DOMAIN P /\ b \in DOMAIN P /\ a # b
  /\ S \subseteq P[a]
  /\ Q[a] = P[a] \ S /\ Q[b] = P[b] \cup S
  /\ \A p \in DOMAIN P \ {a, b} : Q[p] = P[p]

\* Moving connections from one pile to another keeps the piles disjoint and
\* their union what it was.
LEMMA Move ==
  ASSUME NEW P, NEW Q, NEW a, NEW b, NEW S, Moved(P, Q, a, b, S), Disjoint(P)
  PROVE  /\ Disjoint(Q)
         /\ UNION {Q[p] : p \in DOMAIN Q} = UNION {P[p] : p \in DOMAIN P}
<1> USE DEF Moved
<1>1. Disjoint(Q)
  <2> SUFFICES ASSUME NEW p \in DOMAIN P, NEW q \in DOMAIN P, p # q,
                      NEW x, x \in Q[p], x \in Q[q]
               PROVE  FALSE
    BY DEF Disjoint
  <2>1. \A r \in DOMAIN P \ {a, b} : P[r] \cap P[a] = {} /\ P[r] \cap P[b] = {}
    BY DEF Disjoint
  <2>2. P[a] \cap P[b] = {}
    BY DEF Disjoint
  <2>3. CASE p \notin {a, b} /\ q \notin {a, b}
    BY <2>3 DEF Disjoint
  <2>4. CASE p = a
    BY <2>1, <2>2, <2>4
  <2>5. CASE p = b
    BY <2>1, <2>2, <2>5
  <2>6. CASE p \notin {a, b} /\ q \in {a, b}
    BY <2>1, <2>2, <2>6
  <2> QED
    BY <2>3, <2>4, <2>5, <2>6
<1>2. ASSUME NEW x
      PROVE  (\E p \in DOMAIN P : x \in Q[p]) <=> (\E p \in DOMAIN P : x \in P[p])
  <2>1. ASSUME NEW p \in DOMAIN P, x \in Q[p] PROVE \E r \in DOMAIN P : x \in P[r]
    BY <2>1
  <2>2. ASSUME NEW p \in DOMAIN P, x \in P[p] PROVE \E r \in DOMAIN P : x \in Q[r]
    BY <2>2
  <2> QED
    BY <2>1, <2>2
<1> QED
  BY <1>1, <1>2

\* Adding one connection that is in no pile: the reader's step.
LEMMA Grow ==
  ASSUME NEW N, NEW P, NEW Q, DOMAIN P = N, DOMAIN Q = N,
         NEW b \in N, NEW c, Disjoint(P),
         c \notin UNION {P[p] : p \in N},
         Q[b] = P[b] \cup {c},
         \A p \in N \ {b} : Q[p] = P[p]
  PROVE  /\ Disjoint(Q)
         /\ UNION {Q[p] : p \in N} = (UNION {P[p] : p \in N}) \cup {c}
<1>1. Disjoint(Q)
  BY DEF Disjoint
<1>2. ASSUME NEW x
      PROVE  (\E p \in N : x \in Q[p]) <=> (\E p \in N : x \in P[p]) \/ x = c
  <2>1. ASSUME NEW p \in N, x \in Q[p] PROVE (\E r \in N : x \in P[r]) \/ x = c
    BY <2>1
  <2>2. ASSUME NEW p \in N, x \in P[p] PROVE \E r \in N : x \in Q[r]
    BY <2>2
  <2>3. c \in Q[b]
    OBVIOUS
  <2> QED
    BY <2>1, <2>2, <2>3
<1> QED
  BY <1>1, <1>2

-----------------------------------------------------------------------------
(* Each part of the invariant is preserved; one lemma per part.            *)

LEMMA TypeStep == TypeOK /\ [Next]_vars => TypeOK'
<1> SUFFICES ASSUME TypeOK, [Next]_vars PROVE TypeOK'
  OBVIOUS
<1> USE DEF TypeOK, Flushers, aggVars, flushVars, senderVars, stopVars
<1>1. ASSUME NEW c \in Conn, HandleNoise(c) PROVE TypeOK'
  BY <1>1, ConnAssumption DEF HandleNoise
<1>2. ASSUME NEW c \in Conn, Handle(c) PROVE TypeOK'
  BY <1>2 DEF Handle
<1>3. CASE ReaderStop
  BY <1>3 DEF ReaderStop
<1>4. CASE Ticker
  BY <1>4 DEF Ticker, Tick, TickerStop
<1>5. ASSUME NEW f \in Flushers, Drain(f) PROVE TypeOK'
  BY <1>5 DEF Drain
<1>6. ASSUME NEW f \in Flushers, Cut(f) PROVE TypeOK'
  BY <1>6 DEF Cut
<1>7. ASSUME NEW f \in Flushers, FlushDone(f) PROVE TypeOK'
  BY <1>7 DEF FlushDone
<1>8. ASSUME NEW f \in Flushers, TrySend(f) PROVE TypeOK'
  BY <1>8 DEF TrySend
<1>9. ASSUME NEW f \in Flushers, Evict(f) PROVE TypeOK'
  <2>1. CASE queue # <<>>
    <3>1. Head(queue) \in SUBSET Conn /\ Tail(queue) \in Seq(SUBSET Conn)
      BY <2>1
    <3> QED
      BY <1>9, <2>1, <3>1 DEF Evict
  <2>2. CASE queue = <<>>
    BY <1>9, <2>2 DEF Evict
  <2> QED
    BY <2>1, <2>2
<1>10. CASE SenderRecv
  BY <1>10 DEF SenderRecv
<1>11. CASE Report
  BY <1>11 DEF Report, ReportOK, ReportError, ReportAborted
<1>12. CASE SenderStop \/ Retry \/ BackoffAborted
  BY <1>12 DEF SenderStop, Retry, BackoffAborted
<1>13. CASE Cancel \/ CloseSource
  BY <1>13 DEF Cancel, CloseSource
<1>14. CASE UNCHANGED vars
  BY <1>14 DEF vars
<1> QED
  BY <1>1, <1>2, <1>3, <1>4, <1>5, <1>6, <1>7, <1>8, <1>9, <1>10, <1>11,
     <1>12, <1>13, <1>14 DEF Next, Reader, Flush, Sender

\* Type correctness: every variable keeps its type in every behaviour.
THEOREM TypeCorrect == Spec => []TypeOK
<1>1. Init => TypeOK
  <2> SUFFICES ASSUME Init PROVE TypeOK
    OBVIOUS
  <2>1. queue \in Seq(SUBSET Conn)
    BY DEF Init
  <2>2. cancelled \in BOOLEAN /\ closed \in BOOLEAN
    BY DEF Init
  <2> QED
    BY <2>1, <2>2 DEF Init, TypeOK, Flushers
<1> QED
  BY <1>1, TypeStep, PTL DEF Spec

\* What Cut does to a goroutine's records, given that they fit in a batch.
LEMMA CutAll ==
  ASSUME TypeOK, Bounded, NEW f \in Flushers, Cut(f)
  PROVE  /\ cur' = [cur EXCEPT ![f] = out[f]]
         /\ out' = [out EXCEPT ![f] = {}]
<1>1. PICK K \in SUBSET Flows(out[f]) :
        /\ (K = Flows(out[f]) /\ Cardinality(K) <= MaxBatch) \/ Cardinality(K) = MaxBatch
        /\ cur' = [cur EXCEPT ![f] = {c \in out[f] : KeyOf[c] \in K}]
        /\ out' = [out EXCEPT ![f] = {c \in @ : KeyOf[c] \notin K}]
  BY DEF Cut
<1>2. out[f] \in SUBSET Conn /\ cur[f] \in SUBSET Conn
  BY DEF TypeOK
<1>3. Fits(out[f])
  <2>1. Cardinality(Flows(out[f] \cup cur[f])) <= MaxBatch
    BY DEF Bounded, Fits
  <2>2. Flows(out[f]) \in SUBSET Flows(out[f] \cup cur[f])
    BY DEF Flows
  <2>3. IsFiniteSet(Flows(out[f] \cup cur[f])) /\ Cardinality(Flows(out[f] \cup cur[f])) \in Nat
    BY <1>2, FlowsFinite
  <2>4. Cardinality(Flows(out[f])) <= Cardinality(Flows(out[f] \cup cur[f]))
    BY <2>2, <2>3, FS_Subset
  <2>5. Cardinality(Flows(out[f])) \in Nat
    BY <1>2, FlowsFinite
  <2> HIDE DEF Flows
  <2> QED
    BY <2>1, <2>3, <2>4, <2>5, SizeAssumption DEF Fits
<1>4. K = Flows(out[f])
  BY <1>1, <1>2, <1>3, CutTakesAll
<1>5. \A c \in out[f] : KeyOf[c] \in K
  BY <1>4 DEF Flows
<1> QED
  BY <1>1, <1>5, <1>2

\* Which hands are empty at each program point.
LEMMA ShapeStep ==
  IInv /\ [Next]_vars => HandsEmpty' /\ OneBatchPerFlush' /\ NoEmptyBatch'
<1> SUFFICES ASSUME IInv, [Next]_vars
             PROVE  HandsEmpty' /\ OneBatchPerFlush' /\ NoEmptyBatch'
  OBVIOUS
<1> USE DEF IInv, TypeOK, HandsEmpty, OneBatchPerFlush, NoEmptyBatch, Flushers,
            aggVars, flushVars, senderVars, stopVars
<1> DEFINE Shape == HandsEmpty /\ OneBatchPerFlush /\ NoEmptyBatch
<1>1. ASSUME NEW c \in Conn, HandleNoise(c) PROVE Shape'
  BY <1>1 DEF HandleNoise
<1>2. ASSUME NEW c \in Conn, Handle(c) PROVE Shape'
  BY <1>2 DEF Handle
<1>3. CASE ReaderStop
  BY <1>3 DEF ReaderStop
<1>4. CASE Ticker
  BY <1>4 DEF Ticker, Tick, TickerStop
<1>5. ASSUME NEW f \in Flushers, Drain(f) PROVE Shape'
  BY <1>5 DEF Drain
<1>6. ASSUME NEW f \in Flushers, Cut(f) PROVE Shape'
  <2>1. cur' = [cur EXCEPT ![f] = out[f]] /\ out' = [out EXCEPT ![f] = {}]
    BY <1>6, CutAll
  <2>2. /\ pc[f] = "cut" /\ out[f] # {} /\ pc' = [pc EXCEPT ![f] = "send"]
        /\ UNCHANGED <<queue, spc, inflight>>
    BY <1>6 DEF Cut
  <2> QED
    BY <2>1, <2>2
<1>7. ASSUME NEW f \in Flushers, FlushDone(f) PROVE Shape'
  BY <1>7 DEF FlushDone
<1>8. ASSUME NEW f \in Flushers, TrySend(f) PROVE Shape'
  <2>1. CASE Len(queue) < QueueSize
    <3>1. cur[f] # {} /\ cur[f] \in SUBSET Conn
      BY <1>8 DEF TrySend
    <3>2. \A i \in DOMAIN Append(queue, cur[f]) : Append(queue, cur[f])[i] # {}
      BY <3>1
    <3> QED
      BY <1>8, <2>1, <3>2, SizeAssumption DEF TrySend
  <2>2. CASE Len(queue) = QueueSize
    BY <1>8, <2>2, SizeAssumption DEF TrySend
  <2> QED
    BY <1>8, <2>1, <2>2 DEF TrySend
<1>9. ASSUME NEW f \in Flushers, Evict(f) PROVE Shape'
  <2>1. CASE queue # <<>>
    <3>1. \A i \in DOMAIN Tail(queue) : Tail(queue)[i] # {}
      BY <2>1, QueueTail DEF Accounted
    <3> QED
      BY <1>9, <2>1, <3>1 DEF Evict
  <2>2. CASE queue = <<>>
    BY <1>9, <2>2 DEF Evict
  <2> QED
    BY <2>1, <2>2
<1>10. CASE SenderRecv
  <2>1. Head(queue) # {} /\ \A i \in DOMAIN Tail(queue) : Tail(queue)[i] # {}
    BY <1>10, QueueTail DEF Accounted, SenderRecv
  <2> QED
    BY <1>10, <2>1 DEF SenderRecv
<1>11. CASE Report
  BY <1>11 DEF Report, ReportOK, ReportError, ReportAborted
<1>12. CASE SenderStop \/ Retry \/ BackoffAborted
  BY <1>12 DEF SenderStop, Retry, BackoffAborted
<1>13. CASE Cancel \/ CloseSource
  BY <1>13 DEF Cancel, CloseSource
<1>14. CASE UNCHANGED vars
  BY <1>14 DEF vars
<1> QED
  BY <1>1, <1>2, <1>3, <1>4, <1>5, <1>6, <1>7, <1>8, <1>9, <1>10, <1>11,
     <1>12, <1>13, <1>14 DEF Next, Reader, Flush, Sender

\* The reader never lets the map, a batch or the queue grow past its limit.
LEMMA BoundStep == IInv /\ [Next]_vars => Bounded' /\ RoomForOne'
<1> SUFFICES ASSUME IInv, [Next]_vars PROVE Bounded' /\ RoomForOne'
  OBVIOUS
<1> USE DEF IInv, Bounded, RoomForOne, Flushers, aggVars, flushVars, senderVars, stopVars
<1>a. /\ Cardinality(Flows({})) = 0 /\ Fits({}) /\ MaxBatch \in Nat \ {0}
      /\ QueueSize \in Nat \ {0}
  BY FlowsEmpty, SizeAssumption
<1>1. ASSUME NEW c \in Conn, HandleNoise(c) PROVE Bounded' /\ RoomForOne'
  BY <1>1 DEF HandleNoise
<1>2. ASSUME NEW c \in Conn, Handle(c) PROVE Bounded' /\ RoomForOne'
  <2>1. /\ pc["reader"] = "idle" /\ agg' = agg \cup {c}
        /\ pc' = [pc EXCEPT !["reader"] =
                    IF MustFlush(Cardinality(Flows(agg'))) THEN "drain" ELSE "idle"]
        /\ UNCHANGED <<out, cur, queue, inflight>>
    BY <1>2 DEF Handle
  <2>2. agg \in SUBSET Conn /\ agg' \in SUBSET Conn
    BY <2>1 DEF TypeOK
  <2>3. Cardinality(Flows(agg)) \in Nat /\ Cardinality(Flows(agg')) \in Nat
    BY <2>2, FlowsFinite
  <2>4. Cardinality(Flows(agg')) <= Cardinality(Flows(agg)) + 1
    BY <2>1, <2>2, FlowsAdd
  <2>5. Cardinality(Flows(agg)) < MaxBatch
    BY <2>1
  <2>6. Cardinality(Flows(agg')) <= MaxBatch
    BY <2>3, <2>4, <2>5, <1>a
  <2>7. pc'["reader"] # "drain" => Cardinality(Flows(agg')) < MaxBatch
    BY <2>1, <2>3, <1>a DEF MustFlush, TypeOK
  <2> QED
    BY <2>1, <2>6, <2>7 DEF Fits
<1>3. CASE ReaderStop
  BY <1>3 DEF ReaderStop, TypeOK
<1>4. CASE Ticker
  BY <1>4 DEF Ticker, Tick, TickerStop, TypeOK
<1>5. ASSUME NEW f \in Flushers, Drain(f) PROVE Bounded' /\ RoomForOne'
  <2>1. /\ pc[f] = "drain" /\ out' = [out EXCEPT ![f] = agg] /\ agg' = {}
        /\ UNCHANGED <<cur, queue, inflight>>
    BY <1>5 DEF Drain
  <2>2. cur[f] = {}
    BY <2>1 DEF HandsEmpty
  <2>3. \A g \in Flushers : Fits(out'[g] \cup cur'[g])
    BY <2>1, <2>2 DEF TypeOK
  <2>4. Cardinality(Flows(agg')) < MaxBatch /\ Fits(agg')
    BY <1>a, <2>1
  <2> QED
    BY <2>1, <2>3, <2>4 DEF Fits
<1>6. ASSUME NEW f \in Flushers, Cut(f) PROVE Bounded' /\ RoomForOne'
  <2>1. cur' = [cur EXCEPT ![f] = out[f]] /\ out' = [out EXCEPT ![f] = {}]
    BY <1>6, CutAll
  <2>2. /\ pc[f] = "cut" /\ pc' = [pc EXCEPT ![f] = "send"]
        /\ UNCHANGED <<agg, queue, inflight>>
    BY <1>6 DEF Cut
  <2>3. cur[f] = {}
    BY <2>2 DEF HandsEmpty
  <2>4. \A g \in Flushers : Fits(out'[g] \cup cur'[g])
    BY <2>1, <2>3 DEF TypeOK
  <2>5. pc'["reader"] # "drain" => pc["reader"] # "drain"
    BY <2>2 DEF TypeOK
  <2> QED
    BY <2>2, <2>4, <2>5 DEF Fits
<1>7. ASSUME NEW f \in Flushers, FlushDone(f) PROVE Bounded' /\ RoomForOne'
  BY <1>7 DEF FlushDone, TypeOK
<1>8. ASSUME NEW f \in Flushers, TrySend(f) PROVE Bounded' /\ RoomForOne'
  <2>1. pc[f] = "send" /\ UNCHANGED <<agg, out, inflight>>
    BY <1>8 DEF TrySend
  <2>2. pc'["reader"] # "drain" => pc["reader"] # "drain"
    BY <1>8 DEF TrySend, TypeOK
  <2>3. CASE Len(queue) < QueueSize
    <3>1. queue' = Append(queue, cur[f]) /\ cur' = [cur EXCEPT ![f] = {}]
      BY <1>8, <1>a, <2>3 DEF TrySend
    <3>2. out[f] = {} /\ cur[f] \in SUBSET Conn /\ queue \in Seq(SUBSET Conn)
      BY <2>1 DEF OneBatchPerFlush, TypeOK
    <3>3. Fits(cur[f])
      <4>1. out[f] \cup cur[f] = cur[f]
        BY <3>2
      <4> QED
        BY <4>1
    <3>4. Len(queue') <= QueueSize /\ \A i \in DOMAIN queue' : Fits(queue'[i])
      <4>1. \A i \in DOMAIN Append(queue, cur[f]) :
               Append(queue, cur[f])[i] = cur[f] \/ (i \in DOMAIN queue /\ Append(queue, cur[f])[i] = queue[i])
        BY <3>2
      <4>2. Len(queue') <= QueueSize
        BY <1>a, <2>3, <3>1, <3>2
      <4> QED
        BY <3>1, <3>3, <4>1, <4>2
    <3>5. \A g \in Flushers : Fits(out'[g] \cup cur'[g])
      BY <1>a, <2>1, <3>1, <3>2 DEF TypeOK
    <3> QED
      BY <2>1, <2>2, <3>4, <3>5 DEF Fits
  <2>4. CASE Len(queue) = QueueSize
    <3>1. UNCHANGED <<queue, cur>>
      BY <1>8, <1>a, <2>4 DEF TrySend
    <3> QED
      BY <2>1, <2>2, <3>1
  <2> QED
    BY <1>8, <2>3, <2>4 DEF TrySend
<1>b. ASSUME queue # <<>>
      PROVE  /\ Fits(Head(queue)) /\ Len(Tail(queue)) <= QueueSize
             /\ \A i \in DOMAIN Tail(queue) : Fits(Tail(queue)[i])
  <2>1. /\ Head(queue) = queue[1] /\ 1 \in DOMAIN queue
        /\ Len(Tail(queue)) = Len(queue) - 1
        /\ \A i \in DOMAIN Tail(queue) : i + 1 \in DOMAIN queue /\ Tail(queue)[i] = queue[i + 1]
    BY <1>b, QueueTail DEF TypeOK, Accounted
  <2>2. Len(queue) \in Nat
    BY DEF TypeOK
  <2> QED
    BY <1>a, <2>1, <2>2
<1>9. ASSUME NEW f \in Flushers, Evict(f) PROVE Bounded' /\ RoomForOne'
  <2>1. /\ UNCHANGED <<agg, out, cur, inflight>>
        /\ pc[f] = "evict" /\ pc' = [pc EXCEPT ![f] = "send"]
        /\ queue' = queue \/ (queue # <<>> /\ queue' = Tail(queue))
    BY <1>9 DEF Evict
  <2>2. pc'["reader"] # "drain" => pc["reader"] # "drain"
    BY <2>1 DEF TypeOK
  <2> QED
    BY <1>b, <2>1, <2>2
<1>10. CASE SenderRecv
  BY <1>10, <1>b DEF SenderRecv
<1>11. CASE Report
  BY <1>11, <1>a DEF Report, ReportOK, ReportError, ReportAborted
<1>12. CASE SenderStop \/ Retry \/ BackoffAborted
  BY <1>12 DEF SenderStop, Retry, BackoffAborted
<1>13. CASE Cancel \/ CloseSource
  BY <1>13 DEF Cancel, CloseSource
<1>14. CASE UNCHANGED vars
  BY <1>14 DEF vars
<1> QED
  BY <1>1, <1>2, <1>3, <1>4, <1>5, <1>6, <1>7, <1>8, <1>9, <1>10, <1>11,
     <1>12, <1>13, <1>14 DEF Next, Reader, Flush, Sender

\* No step loses or duplicates a connection.
LEMMA AccountedStep == IInv /\ [Next]_vars => Accounted'
<1> SUFFICES ASSUME IInv, [Next]_vars PROVE Accounted'
  OBVIOUS
<1> USE DEF IInv, Flushers, aggVars, flushVars, senderVars, stopVars
<1>a. /\ Disjoint(Piles) /\ DOMAIN Piles = PileName /\ DOMAIN (Piles') = PileName
      /\ read = UNION {Piles[p] : p \in PileName} /\ Disjoint(queue)
  BY DEF Accounted, Piles
<1>b. \A f \in Flushers : cur[f] \cap QueueOf(queue) = {}
  <2>1. /\ Piles["cur reader"] = cur["reader"] /\ Piles["cur ticker"] = cur["ticker"]
        /\ Piles["queue"] = QueueOf(queue)
    BY DEF Piles, PileName
  <2> QED
    BY <1>a, <2>1 DEF Disjoint, PileName
<1>c. ASSUME queue # <<>>
      PROVE  /\ Head(queue) \subseteq QueueOf(queue)
             /\ QueueOf(Tail(queue)) = QueueOf(queue) \ Head(queue)
             /\ Disjoint(Tail(queue))
  BY <1>a, <1>c, QueueTail DEF TypeOK
<1>d. ASSUME UNCHANGED <<read, filtered, agg, out, cur, queue, inflight, sent, dropped>>
      PROVE  Accounted'
  <2>1. Piles' = Piles /\ read' = read /\ queue' = queue
    BY <1>d DEF Piles
  <2> QED
    BY <1>a, <2>1 DEF Accounted, Disjoint
<1>e. ASSUME NEW a, NEW b, NEW S, Moved(Piles, Piles', a, b, S),
             UNCHANGED read, Disjoint(queue')
      PROVE  Accounted'
  <2>1. /\ Disjoint(Piles')
        /\ UNION {Piles'[p] : p \in DOMAIN (Piles')} = UNION {Piles[p] : p \in DOMAIN Piles}
    BY <1>a, <1>e, Move
  <2> QED
    BY <1>a, <1>e, <2>1 DEF Accounted, Disjoint
<1>f. ASSUME NEW b \in PileName, NEW c, c \notin read, Piles'[b] = Piles[b] \cup {c},
             \A p \in PileName \ {b} : Piles'[p] = Piles[p],
             read' = read \cup {c}, UNCHANGED queue
      PROVE  Accounted'
  <2>1. Disjoint(Piles') /\ UNION {Piles'[p] : p \in PileName} = (UNION {Piles[p] : p \in PileName}) \cup {c}
    BY <1>a, <1>f, Grow
  <2> QED
    BY <1>a, <1>f, <2>1 DEF Accounted, Disjoint
<1>1. ASSUME NEW c \in Conn, HandleNoise(c) PROVE Accounted'
  <2>1. /\ Piles'["filtered"] = Piles["filtered"] \cup {c}
        /\ \A p \in PileName \ {"filtered"} : Piles'[p] = Piles[p]
    BY <1>1 DEF HandleNoise, Piles, PileName
  <2> QED
    BY <1>1, <1>f, <2>1 DEF HandleNoise, PileName
<1>2. ASSUME NEW c \in Conn, Handle(c) PROVE Accounted'
  <2>1. /\ Piles'["agg"] = Piles["agg"] \cup {c}
        /\ \A p \in PileName \ {"agg"} : Piles'[p] = Piles[p]
    BY <1>2 DEF Handle, Piles, PileName
  <2> QED
    BY <1>2, <1>f, <2>1 DEF Handle, PileName
<1>3. CASE ReaderStop
  BY <1>3, <1>d DEF ReaderStop
<1>4. CASE Ticker
  BY <1>4, <1>d DEF Ticker, Tick, TickerStop
<1>5. ASSUME NEW f \in Flushers, Drain(f) PROVE Accounted'
  <2> DEFINE o == IF f = "reader" THEN "out reader" ELSE "out ticker"
  <2>1. out[f] = {} /\ out' = [out EXCEPT ![f] = agg] /\ agg' = {}
    BY <1>5 DEF Drain, HandsEmpty
  <2>2. Piles["agg"] = agg /\ Piles[o] = out[f] /\ Piles'["agg"] = {} /\ Piles'[o] = agg
    BY <2>1 DEF Piles, PileName, TypeOK
  <2>3. \A p \in PileName \ {"agg", o} : Piles'[p] = Piles[p]
    BY <1>5, <2>1 DEF Drain, Piles, PileName, TypeOK
  <2>4. o \in PileName /\ o # "agg" /\ "agg" \in PileName
    BY DEF PileName
  <2>5. UNCHANGED <<read, queue>>
    BY <1>5 DEF Drain
  <2> HIDE DEF o
  <2>6. Moved(Piles, Piles', "agg", o, agg)
    BY <1>a, <2>1, <2>2, <2>3, <2>4 DEF Moved
  <2>7. Disjoint(queue')
    BY <1>a, <2>5
  <2> QED
    BY <1>e, <2>5, <2>6, <2>7
<1>6. ASSUME NEW f \in Flushers, Cut(f) PROVE Accounted'
  <2> DEFINE o == IF f = "reader" THEN "out reader" ELSE "out ticker"
             u == IF f = "reader" THEN "cur reader" ELSE "cur ticker"
  <2>1. cur' = [cur EXCEPT ![f] = out[f]] /\ out' = [out EXCEPT ![f] = {}] /\ cur[f] = {}
    BY <1>6, CutAll DEF Cut, HandsEmpty
  <2>2. /\ Piles[o] = out[f] /\ Piles'[o] = {}
        /\ Piles[u] = {} /\ Piles'[u] = out[f]
    BY <2>1 DEF Piles, PileName, TypeOK
  <2>3. \A p \in PileName \ {o, u} : Piles'[p] = Piles[p]
    BY <1>6, <2>1 DEF Cut, Piles, PileName, TypeOK
  <2>4. o \in PileName /\ u \in PileName /\ o # u
    BY DEF PileName
  <2>5. UNCHANGED <<read, queue>>
    BY <1>6 DEF Cut
  <2> HIDE DEF o, u
  <2>6. Moved(Piles, Piles', o, u, out[f])
    BY <1>a, <2>2, <2>3, <2>4 DEF Moved
  <2>7. Disjoint(queue')
    BY <1>a, <2>5
  <2> QED
    BY <1>e, <2>5, <2>6, <2>7
<1>7. ASSUME NEW f \in Flushers, FlushDone(f) PROVE Accounted'
  BY <1>7, <1>d DEF FlushDone
<1>8. ASSUME NEW f \in Flushers, TrySend(f) PROVE Accounted'
  <2> DEFINE u == IF f = "reader" THEN "cur reader" ELSE "cur ticker"
  <2>1. CASE cur' = [cur EXCEPT ![f] = {}] /\ queue' = Append(queue, cur[f])
    <3>1. QueueOf(queue') = QueueOf(queue) \cup cur[f] /\ Disjoint(queue')
      BY <1>a, <1>b, <2>1, QueueAppend DEF TypeOK
    <3>2. /\ Piles["queue"] = QueueOf(queue) /\ Piles'["queue"] = QueueOf(queue) \cup cur[f]
          /\ Piles[u] = cur[f] /\ Piles'[u] = {}
      BY <2>1, <3>1 DEF Piles, PileName, TypeOK
    <3>3. \A p \in PileName \ {u, "queue"} : Piles'[p] = Piles[p]
      BY <1>8, <2>1 DEF TrySend, Piles, PileName, TypeOK
    <3>4. u \in PileName /\ u # "queue" /\ "queue" \in PileName
      BY DEF PileName
    <3>5. UNCHANGED read
      BY <1>8 DEF TrySend
    <3> HIDE DEF u
    <3>6. Moved(Piles, Piles', u, "queue", cur[f])
      BY <1>a, <3>2, <3>3, <3>4 DEF Moved
    <3> QED
      BY <1>e, <3>1, <3>5, <3>6
  <2>2. CASE UNCHANGED <<cur, queue>>
    BY <1>8, <1>d, <2>2 DEF TrySend
  <2> QED
    BY <1>8, <2>1, <2>2 DEF TrySend
<1>9. ASSUME NEW f \in Flushers, Evict(f) PROVE Accounted'
  <2>1. CASE queue # <<>>
    <3>1. dropped' = dropped \cup Head(queue) /\ queue' = Tail(queue)
      BY <1>9, <2>1 DEF Evict
    <3>2. /\ Piles["queue"] = QueueOf(queue) /\ Piles'["queue"] = QueueOf(queue) \ Head(queue)
          /\ Piles["dropped"] = dropped /\ Piles'["dropped"] = dropped \cup Head(queue)
      BY <1>c, <2>1, <3>1 DEF Piles, PileName
    <3>3. \A p \in PileName \ {"queue", "dropped"} : Piles'[p] = Piles[p]
      BY <1>9 DEF Evict, Piles, PileName
    <3>4. UNCHANGED read
      BY <1>9 DEF Evict
    <3>5. "queue" \in PileName /\ "dropped" \in PileName /\ "queue" # "dropped"
      BY DEF PileName
    <3>6. Head(queue) \subseteq Piles["queue"] /\ Disjoint(queue')
      BY <1>c, <2>1, <3>1, <3>2
    <3>7. Moved(Piles, Piles', "queue", "dropped", Head(queue))
      BY <1>a, <3>2, <3>3, <3>5, <3>6 DEF Moved
    <3> QED
      BY <1>e, <3>4, <3>6, <3>7
  <2>2. CASE queue = <<>>
    BY <1>9, <1>d, <2>2 DEF Evict
  <2> QED
    BY <2>1, <2>2
<1>10. CASE SenderRecv
  <2>1. queue # <<>> /\ inflight = {} /\ inflight' = Head(queue) /\ queue' = Tail(queue) /\ read' = read
    BY <1>10 DEF SenderRecv, HandsEmpty
  <2>2. /\ Piles["queue"] = QueueOf(queue) /\ Piles'["queue"] = QueueOf(queue) \ Head(queue)
        /\ Piles["inflight"] = {} /\ Piles'["inflight"] = Head(queue)
    BY <1>c, <2>1 DEF Piles, PileName
  <2>3. \A p \in PileName \ {"queue", "inflight"} : Piles'[p] = Piles[p]
    BY <1>10 DEF SenderRecv, Piles, PileName
  <2>4. "queue" \in PileName /\ "inflight" \in PileName /\ "queue" # "inflight"
    BY DEF PileName
  <2>5. Head(queue) \subseteq Piles["queue"] /\ Disjoint(queue')
    BY <1>c, <2>1, <2>2
  <2>6. Piles'["inflight"] = Piles["inflight"] \cup Head(queue)
    BY <2>2
  <2>7. Moved(Piles, Piles', "queue", "inflight", Head(queue))
    BY <1>a, <2>2, <2>3, <2>4, <2>5, <2>6 DEF Moved
  <2> QED
    BY <1>e, <2>1, <2>5, <2>7
<1>11. CASE Report
  <2>1. CASE ReportOK
    <3>1. /\ Piles["inflight"] = inflight /\ Piles'["inflight"] = {}
          /\ Piles["sent"] = sent /\ Piles'["sent"] = sent \cup inflight
      BY <2>1 DEF ReportOK, Piles, PileName
    <3>2. \A p \in PileName \ {"inflight", "sent"} : Piles'[p] = Piles[p]
      BY <2>1 DEF ReportOK, Piles, PileName
    <3>3. UNCHANGED <<read, queue>>
      BY <2>1 DEF ReportOK
    <3>4. "inflight" \in PileName /\ "sent" \in PileName /\ "inflight" # "sent"
      BY DEF PileName
    <3>5. /\ inflight \subseteq Piles["inflight"] /\ Disjoint(queue')
          /\ Piles'["inflight"] = Piles["inflight"] \ inflight
      BY <1>a, <3>1, <3>3
    <3>6. Moved(Piles, Piles', "inflight", "sent", inflight)
      BY <1>a, <3>1, <3>2, <3>4, <3>5 DEF Moved
    <3> QED
      BY <1>e, <3>3, <3>5, <3>6
  <2>2. CASE ReportError /\ dropped' = dropped \cup inflight /\ inflight' = {}
    <3>1. /\ Piles["inflight"] = inflight /\ Piles'["inflight"] = {}
          /\ Piles["dropped"] = dropped /\ Piles'["dropped"] = dropped \cup inflight
      BY <2>2 DEF Piles, PileName
    <3>2. \A p \in PileName \ {"inflight", "dropped"} : Piles'[p] = Piles[p]
      BY <2>2 DEF ReportError, Piles, PileName
    <3>3. UNCHANGED <<read, queue>>
      BY <2>2 DEF ReportError
    <3>4. "inflight" \in PileName /\ "dropped" \in PileName /\ "inflight" # "dropped"
      BY DEF PileName
    <3>5. /\ inflight \subseteq Piles["inflight"] /\ Disjoint(queue')
          /\ Piles'["inflight"] = Piles["inflight"] \ inflight
      BY <1>a, <3>1, <3>3
    <3>6. Moved(Piles, Piles', "inflight", "dropped", inflight)
      BY <1>a, <3>1, <3>2, <3>4, <3>5 DEF Moved
    <3> QED
      BY <1>e, <3>3, <3>5, <3>6
  <2>3. CASE (ReportError /\ UNCHANGED <<dropped, inflight>>) \/ ReportAborted
    BY <1>d, <2>3 DEF ReportError, ReportAborted
  <2> QED
    BY <1>11, <2>1, <2>2, <2>3 DEF Report, ReportError
<1>12. CASE SenderStop \/ Retry \/ BackoffAborted
  BY <1>12, <1>d DEF SenderStop, Retry, BackoffAborted
<1>13. CASE Cancel \/ CloseSource
  BY <1>13, <1>d DEF Cancel, CloseSource
<1>14. CASE UNCHANGED vars
  BY <1>14, <1>d DEF vars
<1> QED
  BY <1>1, <1>2, <1>3, <1>4, <1>5, <1>6, <1>7, <1>8, <1>9, <1>10, <1>11,
     <1>12, <1>13, <1>14 DEF Next, Reader, Flush, Sender

-----------------------------------------------------------------------------
(* The theorems.                                                           *)

LEMMA IInvInit == Init => IInv
<1> SUFFICES ASSUME Init PROVE IInv
  OBVIOUS
<1>1. TypeOK
  <2>1. queue \in Seq(SUBSET Conn)
    BY DEF Init
  <2>2. cancelled \in BOOLEAN /\ closed \in BOOLEAN
    BY DEF Init
  <2> QED
    BY <2>1, <2>2 DEF Init, TypeOK, Flushers
<1>2. queue = <<>> /\ DOMAIN queue = {} /\ QueueOf(queue) = {}
  BY DEF Init, QueueOf
<1>3. Accounted
  <2>1. \A p \in PileName : Piles[p] = {}
    BY <1>2 DEF Init, Piles, PileName, Flushers
  <2>2. DOMAIN Piles = PileName /\ read = {}
    BY DEF Piles, Init
  <2>3. read = UNION {Piles[p] : p \in PileName}
    BY <2>1, <2>2
  <2>4. Disjoint(Piles)
    BY <2>1, <2>2 DEF Disjoint
  <2>5. Disjoint(queue)
    BY <1>2 DEF Disjoint
  <2> QED
    BY <2>3, <2>4, <2>5 DEF Accounted
<1>4. Bounded /\ RoomForOne
  BY <1>2, FlowsEmpty, SizeAssumption DEF Init, Bounded, RoomForOne, Flushers
<1>5. OneBatchPerFlush /\ HandsEmpty /\ NoEmptyBatch
  BY <1>2 DEF Init, OneBatchPerFlush, HandsEmpty, NoEmptyBatch, Flushers
<1> QED
  BY <1>1, <1>3, <1>4, <1>5 DEF IInv

LEMMA IInvStep == IInv /\ [Next]_vars => IInv'
  BY TypeStep, ShapeStep, BoundStep, AccountedStep DEF IInv

LEMMA Invariance == Spec => []IInv
  BY IInvInit, IInvStep, PTL DEF Spec

\* No interleaving of the reader, the ticker and the sender loses or duplicates
\* a connection: each one read is in exactly one place (Add, Drain, flush,
\* Enqueue and send together conserve records).
THEOREM NothingLost == Spec => []Accounted
<1>1. IInv => Accounted
  BY DEF IInv
<1> QED
  BY <1>1, Invariance, PTL

\* An outage of any length never costs node memory: MaxBatch and QueueSize
\* bound every buffer between the ring buffer and the wire.
THEOREM MemoryBounded == Spec => []Bounded
<1>1. IInv => Bounded
  BY DEF IInv
<1> QED
  BY <1>1, Invariance, PTL

\* flush's splitting loop never runs twice.
THEOREM NeverSplits == Spec => []OneBatchPerFlush
<1>1. IInv => OneBatchPerFlush
  BY DEF IInv
<1> QED
  BY <1>1, Invariance, PTL

\* The collector implements the delivery contract: a connection is accepted
\* once and then acknowledged or counted as dropped at most once, never both.
THEOREM Refinement == Spec => ImplementsDelivery
<1> DEFINE acc == read \ filtered
           Pend == acc \ (sent \cup dropped)
<1>1. Init => Contract!Init
  BY DEF Init, Contract!Init
<1>2. IInv /\ [Next]_vars => [Contract!Next]_(Contract!vars)
  <2> SUFFICES ASSUME IInv, [Next]_vars PROVE [Contract!Next]_(Contract!vars)
    OBVIOUS
  <2> USE DEF aggVars, flushVars, senderVars, stopVars
  <2>a. /\ Piles["filtered"] = filtered /\ Piles["queue"] = QueueOf(queue)
        /\ Piles["inflight"] = inflight /\ Piles["sent"] = sent /\ Piles["dropped"] = dropped
    BY DEF Piles, PileName
  <2>b. Disjoint(Piles) /\ DOMAIN Piles = PileName /\ read = UNION {Piles[p] : p \in PileName}
    BY DEF IInv, Accounted, Piles
  <2>c. inflight \subseteq Pend /\ QueueOf(queue) \subseteq Pend
    <3>1. inflight \subseteq read /\ QueueOf(queue) \subseteq read
      BY <2>a, <2>b DEF PileName
    <3>2. /\ inflight \cap filtered = {} /\ inflight \cap sent = {} /\ inflight \cap dropped = {}
          /\ QueueOf(queue) \cap filtered = {} /\ QueueOf(queue) \cap sent = {}
          /\ QueueOf(queue) \cap dropped = {}
      BY <2>a, <2>b DEF PileName, Disjoint
    <3> QED
      BY <3>1, <3>2
  <2>d. read \subseteq Conn /\ filtered \subseteq Noise /\ filtered \subseteq read
    <3>1. filtered \subseteq read
      BY <2>a, <2>b DEF PileName
    <3> QED
      BY <3>1 DEF IInv, TypeOK
  <2>e. ASSUME UNCHANGED <<read, filtered, sent, dropped>> PROVE UNCHANGED Contract!vars
    BY <2>e DEF Contract!vars
  <2>1. ASSUME NEW c \in Conn, HandleNoise(c) PROVE UNCHANGED Contract!vars
    BY <2>1, <2>d DEF HandleNoise, Contract!vars
  <2>2. ASSUME NEW c \in Conn, Handle(c) PROVE Contract!Next
    <3>1. Contract!Accept(c)
      BY <2>2, <2>d DEF Handle, Contract!Accept
    <3> QED
      BY <3>1 DEF Contract!Next
  <2>3. CASE ReaderStop \/ Ticker
    BY <2>3, <2>e DEF ReaderStop, Ticker, Tick, TickerStop
  <2>4. ASSUME NEW f \in Flushers, Drain(f) \/ Cut(f) \/ FlushDone(f) \/ TrySend(f)
        PROVE  UNCHANGED Contract!vars
    BY <2>4, <2>e DEF Drain, Cut, FlushDone, TrySend
  <2>5. ASSUME NEW f \in Flushers, Evict(f) PROVE Contract!Next \/ UNCHANGED Contract!vars
    <3>1. CASE queue # <<>>
      <4>1. /\ Head(queue) \subseteq Pend /\ Head(queue) # {} /\ Head(queue) \in SUBSET Conn
        BY <2>c, <3>1, QueueTail DEF IInv, TypeOK, Accounted, NoEmptyBatch
      <4>2. Contract!Drop(Head(queue))
        BY <2>5, <3>1, <4>1 DEF Evict, Contract!Drop, Contract!Pending
      <4> QED
        BY <4>1, <4>2 DEF Contract!Next
    <3>2. CASE queue = <<>>
      BY <2>5, <2>e, <3>2 DEF Evict
    <3> QED
      BY <3>1, <3>2
  <2>6. CASE ReportOK
    <3>1. inflight # {} /\ inflight \in SUBSET Conn
      BY <2>6 DEF ReportOK, IInv, NoEmptyBatch, TypeOK
    <3>2. Contract!Deliver(inflight)
      BY <2>6, <2>c, <3>1 DEF ReportOK, Contract!Deliver, Contract!Pending
    <3> QED
      BY <3>1, <3>2 DEF Contract!Next
  <2>7. CASE ReportError
    <3>1. inflight # {} /\ inflight \in SUBSET Conn
      BY <2>7 DEF ReportError, IInv, NoEmptyBatch, TypeOK
    <3>2. CASE dropped' = dropped \cup inflight
      <4>1. Contract!Drop(inflight)
        BY <2>7, <2>c, <3>1, <3>2 DEF ReportError, Contract!Drop, Contract!Pending
      <4> QED
        BY <3>1, <4>1 DEF Contract!Next
    <3>3. CASE UNCHANGED dropped
      BY <2>7, <2>e, <3>3 DEF ReportError
    <3> QED
      BY <2>7, <3>2, <3>3 DEF ReportError
  <2>8. CASE SenderRecv \/ SenderStop \/ ReportAborted \/ Retry \/ BackoffAborted
    BY <2>8, <2>e DEF SenderRecv, SenderStop, ReportAborted, Retry, BackoffAborted
  <2>9. CASE Cancel \/ CloseSource
    BY <2>9, <2>e DEF Cancel, CloseSource
  <2>10. CASE UNCHANGED vars
    BY <2>10, <2>e DEF vars
  <2> QED
    BY <2>1, <2>2, <2>3, <2>4, <2>5, <2>6, <2>7, <2>8, <2>9, <2>10
       DEF Next, Reader, Flush, Sender, Report
<1> QED
  BY <1>1, <1>2, Invariance, PTL DEF Spec, ImplementsDelivery, Contract!Spec

-----------------------------------------------------------------------------
(***************************************************************************)
(* PidCache.tla: AsOfRecent for any number of pids and pods and any        *)
(* pidCacheTTL.                                                            *)
(*                                                                         *)
(* The answer handed out is the entry of the map, so what has to be        *)
(* carried along is how old an entry can be: it was true at some instant   *)
(* that is not before the one at which the map was emptied.                *)
(***************************************************************************)
\* Procfs gives a for p now, or last did at t or later.
TrueSince(p, a, t) == PodUIDForPID(p) = a \/ (left[p][a] # None /\ left[p][a] >= t)

EntriesTrue ==
  \A p \in Pid : pidUIDs[p] # Absent => since # None /\ TrueSince(p, pidUIDs[p], since)

PidIInv == PidTypeOK /\ EntriesTrue /\ AsOfRecent

LEMMA ParseType == \A x \in Process : ParsePodUID(x) \in Answer
  BY DEF Process, ParsePodUID, NormalisePodUID, Answer, Cgroup, Dashed

LEMMA PidInitIInv == PidInit => PidIInv
  BY PidAssumption DEF PidInit, PidIInv, PidTypeOK, EntriesTrue, AsOfRecent

\* The variables keep their types.
LEMMA PidTypeStep == PidTypeOK /\ [PidNext]_pidVars => PidTypeOK'
<1> SUFFICES ASSUME PidTypeOK, [PidNext]_pidVars PROVE PidTypeOK'
  OBVIOUS
<1> USE PidAssumption
<1>1. CASE Advance
  BY <1>1 DEF PidTypeOK, Advance
<1>2. ASSUME NEW p \in Pid, NEW x \in Process, Change(p, x) PROVE PidTypeOK'
  <2>1. PodUIDForPID(p) \in Answer
    BY ParseType DEF PidTypeOK, PodUIDForPID
  <2>2. proc' \in [Pid -> Process]
    BY <1>2 DEF PidTypeOK, Change
  <2>3. left' \in [Pid -> [Answer -> (0..clock) \cup {None}]]
    BY <1>2, <2>1 DEF PidTypeOK, Change
  <2> QED
    BY <1>2, <2>2, <2>3 DEF PidTypeOK, Change
<1>3. ASSUME NEW p \in Pid \cup {None}, Connect(p) PROVE PidTypeOK'
  BY <1>3 DEF PidTypeOK, Connect
<1>4. CASE Read
  BY <1>4 DEF PidTypeOK, Read
<1>5. CASE NoProcess
  BY <1>5 DEF PidTypeOK, NoProcess
<1>6. CASE PodUID
  <2> DEFINE p == conn.pid
             cache == Current(conn.now)
             uid == IF cache[p] # Absent THEN cache[p] ELSE PodUIDForPID(p)
  <2>1. p \in Pid /\ conn.now \in 0..clock
    BY <1>6 DEF PidTypeOK, PodUID
  <2>2. cache \in [Pid -> Answer \cup {Absent}]
    BY DEF PidTypeOK, Current
  <2>3. uid \in Answer
    BY <2>1, <2>2, ParseType DEF PidTypeOK, PodUIDForPID
  <2>4. /\ pidUIDs' = [cache EXCEPT ![p] = uid]
        /\ since' \in {conn.now, since}
        /\ given' = [pid |-> p, uid |-> uid, now |-> conn.now]
        /\ conn' = None
        /\ UNCHANGED <<clock, proc, ring, left>>
    BY <1>6 DEF PodUID
  <2> HIDE DEF p, cache, uid
  <2> QED
    BY <2>1, <2>2, <2>3, <2>4 DEF PidTypeOK
<1>7. CASE UNCHANGED pidVars
  BY <1>7 DEF PidTypeOK, pidVars
<1> QED
  BY <1>1, <1>2, <1>3, <1>4, <1>5, <1>6, <1>7 DEF PidNext

\* No entry becomes older than the map, and no answer becomes untrue of the past.
LEMMA PidIInvStep == PidIInv /\ [PidNext]_pidVars => PidIInv'
<1> SUFFICES ASSUME PidIInv, [PidNext]_pidVars PROVE EntriesTrue' /\ AsOfRecent'
  BY PidTypeStep DEF PidIInv
<1> USE PidAssumption DEF PidIInv
<1>0. PidTypeOK' /\ PidTypeOK
  BY PidTypeStep
<1>1. ASSUME UNCHANGED <<proc, pidUIDs, since, left, given>> PROVE EntriesTrue' /\ AsOfRecent'
  BY <1>1 DEF EntriesTrue, AsOfRecent, TrueSince, AsOf, PodUIDForPID
<1>2. ASSUME NEW p \in Pid, NEW x \in Process, Change(p, x) PROVE EntriesTrue' /\ AsOfRecent'
  \* What stops being true stops now, and no instant of interest is later.
  <2>1. ASSUME NEW q \in Pid, NEW a \in Answer, PodUIDForPID(q) = a
        PROVE  PodUIDForPID(q)' = a \/ left'[q][a] = clock
    <3>1. CASE q = p
      BY <1>0, <1>2, <2>1, <3>1 DEF PidTypeOK, Change, PodUIDForPID
    <3>2. CASE q # p
      BY <1>0, <1>2, <2>1, <3>2 DEF PidTypeOK, Change, PodUIDForPID
    <3> QED BY <3>1, <3>2
  <2>2. ASSUME NEW q \in Pid, NEW a \in Answer
        PROVE  left'[q][a] = left[q][a] \/ left'[q][a] = clock
    BY <1>0, <1>2 DEF PidTypeOK, Change
  <2>3. UNCHANGED <<clock, pidUIDs, since, given>>
    BY <1>2 DEF Change
  <2>4. EntriesTrue'
    <3> SUFFICES ASSUME NEW q \in Pid, pidUIDs[q] # Absent
                 PROVE  since # None /\ TrueSince(q, pidUIDs[q], since)'
      BY <2>3 DEF EntriesTrue
    <3>1. pidUIDs[q] \in Answer /\ since \in 0..clock /\ clock \in Nat /\ clock # None
      BY <1>0 DEF PidTypeOK, EntriesTrue
    <3>2. left[q][pidUIDs[q]] \in (0..clock) \cup {None}
      BY <1>0, <3>1 DEF PidTypeOK
    <3> QED
      BY <2>1, <2>2, <2>3, <3>1, <3>2 DEF EntriesTrue, TrueSince
  <2>5. AsOfRecent'
    <3> SUFFICES ASSUME given # None PROVE AsOf(given.pid, given.uid, given.now)'
      BY <2>3 DEF AsOfRecent
    <3>1. given.pid \in Pid /\ given.uid \in Answer /\ given.now \in 0..clock
            /\ clock \in Nat /\ clock # None
      BY <1>0 DEF PidTypeOK
    <3>2. left[given.pid][given.uid] \in (0..clock) \cup {None}
      BY <1>0, <3>1 DEF PidTypeOK
    <3> QED
      BY <2>1, <2>2, <2>3, <3>1, <3>2 DEF AsOfRecent, AsOf
  <2> QED BY <2>4, <2>5
<1>3. CASE PodUID
  <2> DEFINE p == conn.pid
             cache == Current(conn.now)
             uid == IF cache[p] # Absent THEN cache[p] ELSE PodUIDForPID(p)
             begun == IF Expired(conn.now) THEN conn.now ELSE since
  <2>1. p \in Pid /\ conn.now \in 0..clock /\ clock \in Nat
    BY <1>0, <1>3 DEF PidTypeOK, PodUID
  <2>2. /\ pidUIDs' = [cache EXCEPT ![p] = uid]
        /\ since' = begun
        /\ given' = [pid |-> p, uid |-> uid, now |-> conn.now]
        /\ UNCHANGED <<clock, proc, left>>
    BY <1>3 DEF PodUID
  <2>3. begun \in 0..clock /\ begun # None /\ conn.now < begun + TTL
    BY <1>0, <2>1 DEF PidTypeOK, Expired
  <2>4. cache \in [Pid -> Answer \cup {Absent}]
    BY <1>0 DEF PidTypeOK, Current
  <2>5. \A q \in Pid : cache[q] # Absent => TrueSince(q, cache[q], begun)
    BY DEF EntriesTrue, Current
  <2>6. TrueSince(p, uid, begun)
    BY <2>1, <2>5 DEF TrueSince
  <2>7. uid \in Answer
    BY <1>0, <2>1, <2>4, ParseType DEF PidTypeOK, PodUIDForPID
  <2> HIDE DEF p, cache, uid, begun
  <2>8. EntriesTrue'
    BY <2>1, <2>2, <2>3, <2>4, <2>5, <2>6 DEF EntriesTrue, TrueSince, PodUIDForPID
  <2>9. left[p][uid] \in (0..clock) \cup {None}
    BY <1>0, <2>1, <2>7 DEF PidTypeOK
  <2>10. AsOf(p, uid, conn.now)
    BY <2>1, <2>3, <2>6, <2>9 DEF TrueSince, AsOf
  <2>11. AsOfRecent'
    BY <2>2, <2>10 DEF AsOfRecent, AsOf, PodUIDForPID
  <2> QED BY <2>8, <2>11
<1> QED
  BY <1>1, <1>2, <1>3 DEF PidNext, Advance, Connect, Read, NoProcess, pidVars

\* Every reachable state of the pid cache is well typed.
THEOREM PidTypeCorrect == PidSpec => []PidTypeOK
<1>1. PidIInv => PidTypeOK
  BY DEF PidIInv
<1> QED
  BY <1>1, PidInitIInv, PidIInvStep, PTL DEF PidSpec

\* An answer of podUID was true of its pid less than pidCacheTTL before the
\* record was read, for any pids, pods, cgroup drivers and any positive TTL.
THEOREM NeverStale == PidSpec => []AsOfRecent
<1>1. PidIInv => AsOfRecent
  BY DEF PidIInv
<1> QED
  BY <1>1, PidInitIInv, PidIInvStep, PTL DEF PidSpec
=============================================================================
