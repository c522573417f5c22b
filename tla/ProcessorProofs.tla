-------------------------- MODULE ProcessorProofs --------------------------
(***************************************************************************)
(* Proofs about Processor.tla for every set of Report calls, every edge    *)
(* they carry, every configuration and every kafkaMaxBuffered, and, at the *)
(* end, about Istio.tla, the resolver it runs detached from the others.    *)
(***************************************************************************)
EXTENDS Processor, Istio, FiniteSetTheorems, WellFoundedInduction, TLAPS

(***************************************************************************)
(* The inductive invariant.  The run's three invariants say nothing of the *)
(* points between the steps of runProcessor and of the shutdown goroutine, *)
(* and each of them rests on those: WarmOnly on the order of start         *)
(* (Starting, Unspawned, Serving), CleanExit on what each step of the      *)
(* shutdown has already achieved (Stopping), and NoSilentLoss on which     *)
(* handler owns an edge that is in no sink yet (Owners, Ledger).           *)
(***************************************************************************)
Spawned == group["stopper"] # "none"
Client == IF conf.kafka = "on" THEN "open" ELSE "none"
Emitting == {c \in Call : call[c] \in {"log", "produce"}}

\* What runProcessor has done at each point of its start.
Starting ==
  /\ main \in {"load", "sync", "sinks", "listen"} => ~Spawned
  /\ main = "ready" => Spawned
  /\ main \in {"sinks", "listen"} => synced
  /\ main \in {"load", "sync"} => kafka = "none"
  /\ main = "sinks" => kafka = IF conf.kafka = "on" THEN "unchecked" ELSE "none"
  /\ main = "listen" => kafka = Client
  /\ group["serve"] = "none" <=> group["stopper"] = "none"

\* Before the last goroutines are spawned there is no server and no call.
Unspawned ==
  ~Spawned =>
    /\ ~ready /\ server = "none" /\ stop = "wait"
    /\ InFlight = {} /\ seen = {} /\ buffer = {}

\* Afterwards the cache is warm, and the client stays as buildSinks left it
\* until the shutdown goroutine closes it.
Serving ==
  /\ Spawned => synced
  /\ group["stopper"] = "done" <=> stop = "done"
  /\ Spawned /\ stop # "done" => kafka = Client
  /\ Spawned => kafka # "unchecked"

\* What the shutdown goroutine has achieved at each of its steps.
Stopping ==
  /\ stop # "wait" => cancelled
  /\ stop \in {"drain", "flush", "done"} => server \in {"stopping", "stopped"}
  /\ stop \in {"flush", "done"} => InFlight = {}
  /\ stop = "done" => buffer = {}
  /\ main = "exited" /\ Spawned => stop = "done"
  /\ cancelled => cause # "none"

\* A handler that has passed the deduper is the only owner of its edge.
Owners ==
  /\ \A c \in Emitting : EdgeOf[c] \in seen \ (buffer \cup acked \cup counted)
  /\ \A c, d \in Emitting : EdgeOf[c] = EdgeOf[d] => c = d
  /\ \A c \in Call : call[c] = "produce" =>
       conf.kafka = "on" /\ (conf.stdout => EdgeOf[c] \in logged)

\* Where each recorded edge is.
Ledger ==
  /\ \A e \in seen :
       \/ \E c \in Emitting : EdgeOf[c] = e
       \/ /\ conf.stdout => e \in logged
          /\ conf.kafka = "on" => e \in buffer \cup acked \cup counted
  /\ buffer \cup acked \cup counted \subseteq seen
  /\ buffer \cap acked = {} /\ buffer \cap counted = {} /\ acked \cap counted = {}

BufferBound == IsFiniteSet(buffer) /\ Cardinality(buffer) <= MaxBuffered

IInv ==
  /\ TypeOK
  /\ Starting
  /\ Unspawned
  /\ Serving
  /\ Stopping
  /\ Owners
  /\ Ledger
  /\ BufferBound

-----------------------------------------------------------------------------
\* Every step keeps the types.
LEMMA TypeStep == TypeOK /\ [Next]_vars => TypeOK'
<1> SUFFICES ASSUME TypeOK, [Next]_vars PROVE TypeOK'
  OBVIOUS
<1>1. CASE LoadFails
  BY <1>1 DEF LoadFails, Exit, TypeOK, Edge, Conf, Member, lifeVars, sinkVars
<1>2. CASE Load
  BY <1>2 DEF Load, TypeOK, Edge, Conf, Member, lifeVars, sinkVars
<1>3. CASE AwaitCancelled
  BY <1>3 DEF AwaitCancelled, TypeOK, Edge, Conf, Member, lifeVars, sinkVars
<1>4. CASE AwaitSync
  BY <1>4 DEF AwaitSync, TypeOK, Edge, Conf, Member, lifeVars, sinkVars
<1>5. CASE BuildSinksFails
  BY <1>5 DEF BuildSinksFails, TypeOK, Edge, Conf, Member, lifeVars, sinkVars
<1>6. CASE BuildSinks
  BY <1>6 DEF BuildSinks, TypeOK, Edge, Conf, Member, lifeVars, sinkVars
<1>7. CASE ListenFails
  BY <1>7 DEF ListenFails, Exit, TypeOK, Edge, Conf, Member, lifeVars, sinkVars
<1>8. CASE Spawn
  BY <1>8 DEF Spawn, TypeOK, Edge, Conf, Member, lifeVars, sinkVars
<1>9. CASE StoreReady
  BY <1>9 DEF StoreReady, TypeOK, Edge, Conf, Member, lifeVars, sinkVars
<1>10. CASE Wait
  BY <1>10 DEF Wait, Exit, TypeOK, Edge, Conf, Member, lifeVars, sinkVars
<1>11. CASE Signal
  BY <1>11 DEF Signal, TypeOK, Edge, Conf, Member, lifeVars, sinkVars
<1>12. CASE Sync
  BY <1>12 DEF Sync, TypeOK, Edge, Conf, Member, lifeVars, sinkVars
<1>13. CASE IstioStops
  BY <1>13 DEF IstioStops, TypeOK, Edge, Conf, Member, lifeVars, sinkVars
<1>14. CASE Serve
  BY <1>14 DEF Serve, TypeOK, Edge, Conf, Member, lifeVars, sinkVars
<1>15. CASE ServeReturns
  BY <1>15 DEF ServeReturns, TypeOK, Edge, Conf, Member, lifeVars, sinkVars
<1>16. CASE StopAccepting
  BY <1>16 DEF StopAccepting, TypeOK, Edge, Conf, Member, lifeVars, sinkVars
<1>17. CASE Drained
  BY <1>17 DEF Drained, TypeOK, Edge, Conf, Member, lifeVars, sinkVars
<1>18. CASE CloseSink
  BY <1>18 DEF CloseSink, StopperDone, TypeOK, Edge, Conf, Member, lifeVars, sinkVars
<1>19. ASSUME NEW m \in Member, Fail(m) PROVE TypeOK'
  BY <1>19 DEF Fail, TypeOK, Edge, Conf, Member, lifeVars, sinkVars
<1>20. ASSUME NEW m \in Member, Leave(m) PROVE TypeOK'
  BY <1>20 DEF Leave, TypeOK, Edge, Conf, Member, lifeVars, sinkVars
<1>21. ASSUME NEW c \in Call, Accept(c) PROVE TypeOK'
  BY <1>21 DEF Accept, TypeOK, Edge, Conf, Member, lifeVars, sinkVars
<1>22. ASSUME NEW c \in Call, Allow(c) PROVE TypeOK'
  BY <1>22 DEF Allow, TypeOK, Edge, Conf, Member, lifeVars, sinkVars
<1>23. ASSUME NEW c \in Call, Log(c) PROVE TypeOK'
  BY <1>23 DEF Log, TypeOK, Edge, Conf, Member, lifeVars, sinkVars
<1>24. ASSUME NEW c \in Call, Produce(c) PROVE TypeOK'
  BY <1>24 DEF Produce, Overflow, TypeOK, Edge, Conf, Member, lifeVars, sinkVars
<1>25. ASSUME NEW e \in Edge, Ack(e) PROVE TypeOK'
  BY <1>25 DEF Ack, TypeOK, Edge, Conf, Member, lifeVars, sinkVars
<1>26. ASSUME NEW e \in Edge, Refuse(e) PROVE TypeOK'
  BY <1>26 DEF Refuse, TypeOK, Edge, Conf, Member, lifeVars, sinkVars
<1>27. CASE UNCHANGED vars
  BY <1>27 DEF vars, TypeOK, Edge, Conf, Member, lifeVars, sinkVars
<1>28. CASE Withdraw
  <2>1. UNCHANGED <<conf, main, group, istio, cancelled, cause, synced, server, call, seen, sinkVars>>
    BY <1>28 DEF Withdraw
  <2>2. ready' \in BOOLEAN /\ stop' = "graceful"
    BY <1>28 DEF Withdraw
  <2> QED
    BY <2>1, <2>2 DEF TypeOK, Edge, Conf, Member, lifeVars, sinkVars
<1> QED
  BY <1>1, <1>2, <1>3, <1>4, <1>5, <1>6, <1>7, <1>8, <1>9, <1>10, <1>11,
     <1>12, <1>13, <1>14, <1>15, <1>16, <1>17, <1>18, <1>19, <1>20, <1>21,
     <1>22, <1>23, <1>24, <1>25, <1>26, <1>27, <1>28
  DEF Next, Main, Stopper, Handler

\* Every step of the start, of the group and of the shutdown keeps the order
\* between them.
Life == Starting /\ Unspawned /\ Serving /\ Stopping

LEMMA LifeStep == TypeOK /\ Life /\ [Next]_vars => Life'
<1> SUFFICES ASSUME TypeOK, Life, [Next]_vars PROVE Life'
  OBVIOUS
<1> USE DEF Life, Starting, Unspawned, Serving, Stopping, Spawned, Client, InFlight

<1>1. CASE LoadFails
  BY <1>1 DEF LoadFails, Exit, TypeOK, Conf, Member, lifeVars, sinkVars, Alive
<1>2. CASE Load
  BY <1>2 DEF Load, TypeOK, Conf, Member, lifeVars, sinkVars, Early, Alive
<1>3. CASE AwaitCancelled
  BY <1>3 DEF AwaitCancelled, TypeOK, Conf, Member, lifeVars, sinkVars, Alive
<1>4. CASE AwaitSync
  BY <1>4 DEF AwaitSync, TypeOK, Conf, Member, lifeVars, sinkVars, Alive
<1>5. CASE BuildSinksFails
  BY <1>5 DEF BuildSinksFails, TypeOK, Conf, Member, lifeVars, sinkVars, Alive
<1>6. CASE BuildSinks
  BY <1>6 DEF BuildSinks, TypeOK, Conf, Member, lifeVars, sinkVars, Alive
<1>7. CASE ListenFails
  BY <1>7 DEF ListenFails, Exit, TypeOK, Conf, Member, lifeVars, sinkVars, Alive
<1>8. CASE Spawn
  BY <1>8 DEF Spawn, TypeOK, Conf, Member, lifeVars, sinkVars, Early, Alive
<1>9. CASE StoreReady
  BY <1>9 DEF StoreReady, TypeOK, Conf, Member, lifeVars, sinkVars, Alive
<1>10. CASE Wait
  BY <1>10 DEF Wait, Exit, TypeOK, Conf, Member, lifeVars, sinkVars, Alive
<1>11. CASE Signal
  BY <1>11 DEF Signal, TypeOK, Conf, Member, lifeVars, sinkVars, Alive
<1>12. CASE Sync
  BY <1>12 DEF Sync, TypeOK, Conf, Member, lifeVars, sinkVars, Alive
<1>13. CASE IstioStops
  BY <1>13 DEF IstioStops, TypeOK, Conf, Member, lifeVars, sinkVars, Alive
<1>14. CASE Serve
  BY <1>14 DEF Serve, TypeOK, Conf, Member, lifeVars, sinkVars, Alive
<1>15. CASE ServeReturns
  BY <1>15 DEF ServeReturns, TypeOK, Conf, Member, lifeVars, sinkVars, Alive
<1>16. CASE StopAccepting
  BY <1>16 DEF StopAccepting, TypeOK, Conf, Member, lifeVars, sinkVars, Alive
<1>17. CASE Drained
  BY <1>17 DEF Drained, TypeOK, Conf, Member, lifeVars, sinkVars, Alive
<1>18. CASE CloseSink
  BY <1>18 DEF CloseSink, StopperDone, TypeOK, Conf, Member, lifeVars, sinkVars, Alive
<1>19. ASSUME NEW m \in Member, Fail(m) PROVE Life'
  BY <1>19 DEF Fail, TypeOK, Conf, Member, lifeVars, sinkVars, Alive
<1>20. ASSUME NEW m \in Member, Leave(m) PROVE Life'
  BY <1>20 DEF Leave, TypeOK, Conf, Member, lifeVars, sinkVars, Alive
<1>21. ASSUME NEW c \in Call, Accept(c) PROVE Life'
  BY <1>21 DEF Accept, TypeOK, Conf, Member, lifeVars, sinkVars, Alive
<1>22. ASSUME NEW c \in Call, Allow(c) PROVE Life'
  BY <1>22 DEF Allow, TypeOK, Conf, Member, lifeVars, sinkVars, Alive
<1>23. ASSUME NEW c \in Call, Log(c) PROVE Life'
  BY <1>23 DEF Log, TypeOK, Conf, Member, lifeVars, sinkVars, Alive
<1>24. ASSUME NEW c \in Call, Produce(c) PROVE Life'
  BY <1>24 DEF Produce, Overflow, TypeOK, Conf, Member, lifeVars, sinkVars, Alive
<1>25. ASSUME NEW e \in Edge, Ack(e) PROVE Life'
  BY <1>25 DEF Ack, TypeOK, Conf, Member, lifeVars, sinkVars, Alive
<1>26. ASSUME NEW e \in Edge, Refuse(e) PROVE Life'
  BY <1>26 DEF Refuse, TypeOK, Conf, Member, lifeVars, sinkVars, Alive
<1>27. CASE UNCHANGED vars
  BY <1>27 DEF vars, TypeOK, Conf, Member, lifeVars, sinkVars
<1>28. CASE Withdraw
  BY <1>28 DEF Withdraw, TypeOK, Conf, Member, lifeVars, sinkVars, Alive
<1> QED
  BY <1>1, <1>2, <1>3, <1>4, <1>5, <1>6, <1>7, <1>8, <1>9, <1>10, <1>11,
     <1>12, <1>13, <1>14, <1>15, <1>16, <1>17, <1>18, <1>19, <1>20, <1>21,
     <1>22, <1>23, <1>24, <1>25, <1>26, <1>27, <1>28
  DEF Next, Main, Stopper, Handler

-----------------------------------------------------------------------------
\* The buffer after a record is taken, and after one has left it.
LEMMA BufferAdd ==
  ASSUME IsFiniteSet(buffer), Cardinality(buffer) < MaxBuffered, NEW e
  PROVE  IsFiniteSet(buffer \cup {e}) /\ Cardinality(buffer \cup {e}) <= MaxBuffered
<1>1. Cardinality(buffer) \in Nat
  BY FS_CardinalityType
<1>2. IsFiniteSet(buffer \cup {e})
  BY FS_AddElement
<1>3. \/ Cardinality(buffer \cup {e}) = Cardinality(buffer)
      \/ Cardinality(buffer \cup {e}) = Cardinality(buffer) + 1
  BY FS_AddElement
<1> DEFINE n == Cardinality(buffer)
           k == Cardinality(buffer \cup {e})
<1>4. n \in Nat /\ n < MaxBuffered /\ (k = n \/ k = n + 1)
  BY <1>1, <1>3
<1> HIDE DEF n, k
<1>5. k <= MaxBuffered
  BY <1>4, BufferAssumption
<1> QED
  BY <1>2, <1>5 DEF k

LEMMA BufferRemove ==
  ASSUME IsFiniteSet(buffer), Cardinality(buffer) <= MaxBuffered, NEW e
  PROVE  IsFiniteSet(buffer \ {e}) /\ Cardinality(buffer \ {e}) <= MaxBuffered
<1>1. IsFiniteSet(buffer \ {e}) /\ Cardinality(buffer \ {e}) <= Cardinality(buffer)
  BY FS_Subset
<1>2. Cardinality(buffer) \in Nat /\ Cardinality(buffer \ {e}) \in Nat
  BY <1>1, FS_CardinalityType
<1> QED
  BY <1>1, <1>2, BufferAssumption

\* The actions that touch neither the handlers nor the sinks.
LEMMA OtherSteps ==
  [Next]_vars =>
    \/ \E c \in Call : Accept(c) \/ Allow(c) \/ Log(c) \/ Produce(c)
    \/ \E e \in Edge : Ack(e) \/ Refuse(e)
    \/ CloseSink
    \/ UNCHANGED <<conf, call, seen, logged, buffer, acked, counted>>
  BY DEF Next, Main, Stopper, Handler, LoadFails, Exit, Load, AwaitCancelled, AwaitSync,
         BuildSinksFails, BuildSinks, ListenFails, Spawn, StoreReady, Wait, Signal, Sync,
         IstioStops, Serve, ServeReturns, Withdraw, StopAccepting, Drained, Fail, Leave,
         vars, lifeVars, sinkVars

Books == Owners /\ Ledger /\ BufferBound

\* Every step keeps the books of the edges: who owns each, where it is.
LEMMA BooksStep == IInv /\ [Next]_vars => Books'
<1> SUFFICES ASSUME IInv, [Next]_vars PROVE Books'
  OBVIOUS
<1> USE DEF IInv, Books
<1>1. CASE UNCHANGED <<conf, call, seen, logged, buffer, acked, counted>>
  BY <1>1 DEF Owners, Ledger, BufferBound, Emitting
<1>2. ASSUME NEW c \in Call, Accept(c) PROVE Books'
  <2>1. UNCHANGED <<conf, seen, logged, buffer, acked, counted>> /\ Emitting' = Emitting
    BY <1>2 DEF Accept, Emitting, lifeVars, sinkVars, TypeOK
  <2>2. \A d \in Call : call'[d] = "produce" => call[d] = "produce"
    BY <1>2 DEF Accept, TypeOK
  <2> QED
    BY <2>1, <2>2 DEF Owners, Ledger, BufferBound
<1>3. ASSUME NEW c \in Call, Allow(c) PROVE Books'
  <2>1. UNCHANGED <<conf, logged, buffer, acked, counted>> /\ seen' = seen \cup {EdgeOf[c]}
    BY <1>3 DEF Allow, lifeVars, sinkVars
  <2>2. \A d \in Call : call'[d] = "produce" => call[d] = "produce"
    BY <1>3 DEF Allow, TypeOK
  <2>3. CASE EdgeOf[c] \in seen
    <3>1. Emitting' = Emitting /\ seen' = seen
      BY <1>3, <2>1, <2>3 DEF Allow, Emitting, TypeOK
    <3> QED
      BY <2>1, <2>2, <3>1 DEF Owners, Ledger, BufferBound
  <2>4. CASE EdgeOf[c] \notin seen
    <3>1. Emitting' = Emitting \cup {c}
      BY <1>3, <2>4 DEF Allow, Emitting, TypeOK
    <3>2. EdgeOf[c] \notin buffer \cup acked \cup counted
      BY <2>4 DEF Ledger
    <3>3. Owners'
      BY <2>1, <2>2, <2>4, <3>1, <3>2 DEF Owners
    <3>4. Ledger'
      BY <2>1, <3>1 DEF Ledger
    <3> QED
      BY <2>1, <3>3, <3>4 DEF BufferBound
  <2> QED
    BY <2>3, <2>4
<1>4. ASSUME NEW c \in Call, Log(c) PROVE Books'
  <2>1. /\ UNCHANGED <<conf, seen, buffer, acked, counted>>
        /\ logged \subseteq logged' /\ (conf.stdout => EdgeOf[c] \in logged')
    BY <1>4 DEF Log, lifeVars
  <2>2. c \in Emitting /\ Emitting' \subseteq Emitting /\ Emitting \ {c} \subseteq Emitting'
    BY <1>4 DEF Log, Emitting, TypeOK
  <2>3. conf.kafka = "on" => c \in Emitting'
    BY <1>4 DEF Log, Emitting, TypeOK
  <2>4. \A d \in Call : call'[d] = "produce" => call[d] = "produce" \/ (d = c /\ conf.kafka = "on")
    BY <1>4 DEF Log, TypeOK
  <2>5. Owners'
    BY <2>1, <2>2, <2>4 DEF Owners
  <2>6. Ledger'
    BY <2>1, <2>2, <2>3 DEF Ledger
  <2> QED
    BY <2>1, <2>5, <2>6 DEF BufferBound
<1>5. ASSUME NEW c \in Call, Produce(c) PROVE Books'
  <2>1. UNCHANGED <<conf, seen, logged, acked>>
    BY <1>5 DEF Produce, lifeVars
  <2>2. c \in Emitting /\ Emitting' = Emitting \ {c}
    BY <1>5 DEF Produce, Emitting, TypeOK
  <2>3. \A d \in Call : call'[d] = "produce" => call[d] = "produce" /\ d # c
    BY <1>5 DEF Produce, TypeOK
  <2>4. conf.stdout => EdgeOf[c] \in logged
    BY <1>5 DEF Produce, Owners
  <2>5. EdgeOf[c] \in seen /\ EdgeOf[c] \notin buffer \cup acked \cup counted
    BY <2>2 DEF Owners
  <2>6. \A d \in Emitting' : EdgeOf[d] # EdgeOf[c]
    BY <2>2 DEF Owners
  <2>7. \/ buffer' = buffer \cup {EdgeOf[c]} /\ counted' = counted
        \/ buffer' = buffer /\ counted' = counted \cup {EdgeOf[c]}
    BY <1>5 DEF Produce, Overflow
  <2>8. Owners'
    BY <2>1, <2>2, <2>3, <2>6, <2>7 DEF Owners
  <2>9. Ledger'
    BY <2>1, <2>2, <2>4, <2>5, <2>7 DEF Ledger
  <2>10. BufferBound'
    <3>1. CASE Fits
      BY <1>5, <3>1, BufferAdd DEF Produce, BufferBound, Fits
    <3>2. CASE ~Fits
      BY <1>5, <3>2 DEF Produce, BufferBound
    <3> QED
      BY <3>1, <3>2
  <2> QED
    BY <2>8, <2>9, <2>10
<1>6. ASSUME NEW e \in Edge, Ack(e) \/ Refuse(e) PROVE Books'
  <2>1. UNCHANGED <<conf, call, seen, logged>> /\ e \in buffer /\ buffer' = buffer \ {e}
    BY <1>6 DEF Ack, Refuse, lifeVars
  <2>2. \/ acked' = acked \cup {e} /\ counted' = counted
        \/ acked' = acked /\ counted' = counted \cup {e}
    BY <1>6 DEF Ack, Refuse
  <2>3. buffer' \cup acked' \cup counted' = buffer \cup acked \cup counted
    BY <2>1, <2>2
  <2>4. Owners'
    BY <2>1, <2>3 DEF Owners, Emitting
  <2>5. Ledger'
    BY <2>1, <2>2, <2>3 DEF Ledger, Emitting
  <2>6. BufferBound'
    BY <2>1, BufferRemove DEF BufferBound
  <2> QED
    BY <2>4, <2>5, <2>6
<1>7. CASE CloseSink
  <2>1. /\ UNCHANGED <<conf, call, seen, logged, acked>>
        /\ buffer' = {} /\ counted' = counted \cup buffer
    BY <1>7 DEF CloseSink, StopperDone
  <2>2. buffer' \cup acked' \cup counted' = buffer \cup acked \cup counted
    BY <2>1
  <2>3. Owners'
    BY <2>1, <2>2 DEF Owners, Emitting
  <2>4. Ledger'
    BY <2>1, <2>2 DEF Ledger, Emitting
  <2>5. BufferBound'
    BY <2>1, FS_EmptySet, BufferAssumption DEF BufferBound
  <2> QED
    BY <2>3, <2>4, <2>5
<1> QED
  BY <1>1, <1>2, <1>3, <1>4, <1>5, <1>6, <1>7, OtherSteps

-----------------------------------------------------------------------------
LEMMA InitIInv == Init => IInv
<1> SUFFICES ASSUME Init PROVE IInv
  OBVIOUS
<1>1. TypeOK
  BY DEF Init, TypeOK, Conf, Member
<1>2. InFlight = {} /\ Emitting = {}
  BY DEF Init, InFlight, Emitting
<1>3. Starting /\ Unspawned /\ Serving /\ Stopping
  BY <1>2 DEF Init, Starting, Unspawned, Serving, Stopping, Spawned, Client, Member
<1>4. Owners /\ Ledger
  BY <1>2 DEF Init, Owners, Ledger
<1>5. BufferBound
  BY FS_EmptySet, BufferAssumption DEF Init, BufferBound
<1> QED
  BY <1>1, <1>3, <1>4, <1>5 DEF IInv

LEMMA IInvStep == IInv /\ [Next]_vars => IInv'
  BY TypeStep, LifeStep, BooksStep DEF IInv, Life, Books

LEMMA Invariance == Spec => []IInv
  BY InitIInv, IInvStep, PTL DEF Spec

LEMMA WarmFact == IInv => WarmOnly
<1> SUFFICES ASSUME IInv PROVE WarmOnly
  OBVIOUS
<1>1. ready => synced /\ kafka # "unchecked"
  BY DEF IInv, Unspawned, Serving
<1>2. InFlight # {} => Spawned /\ stop # "done"
  BY DEF IInv, Unspawned, Stopping
<1>3. InFlight # {} => synced /\ kafka = Client
  BY <1>2 DEF IInv, Serving
<1> QED
  BY <1>1, <1>3 DEF WarmOnly, Client

LEMMA LossFact == IInv => NoSilentLoss
<1> SUFFICES ASSUME IInv PROVE NoSilentLoss
  OBVIOUS
<1>1. Emitting \subseteq InFlight
  BY DEF Emitting, InFlight
<1> QED
  BY <1>1 DEF IInv, NoSilentLoss, Ledger, BufferBound

LEMMA ExitFact == IInv => CleanExit
<1> SUFFICES ASSUME IInv, main = "exited", group["serve"] # "none"
             PROVE  /\ cause \in {"signal", "telemetry", "resolver", "serve"}
                    /\ InFlight = {} /\ buffer = {}
                    /\ conf.stdout => seen \subseteq logged
                    /\ conf.kafka = "on" => seen \subseteq acked \cup counted
  BY DEF CleanExit
<1>1. stop = "done"
  BY DEF IInv, Starting, Stopping, Spawned
<1>2. cause # "none" /\ InFlight = {} /\ buffer = {}
  BY <1>1 DEF IInv, Stopping
<1>5. cause \in {"signal", "telemetry", "resolver", "serve"}
  BY <1>2 DEF IInv, TypeOK
<1>3. Emitting = {}
  BY <1>2 DEF Emitting, InFlight
<1>4. \A e \in seen : /\ conf.stdout => e \in logged
                      /\ conf.kafka = "on" => e \in acked \cup counted
  BY <1>2, <1>3 DEF IInv, Ledger
<1> QED
  BY <1>2, <1>4, <1>5

\* Every state of the processor is well typed.
THEOREM TypeCorrect == Spec => []TypeOK
<1>1. IInv => TypeOK
  BY DEF IInv
<1> QED
  BY <1>1, Invariance, PTL

\* A replica announces itself, and handles a record, only with a warm cache and
\* checked sinks that the shutdown has not closed yet (runProcessor's order of
\* start, GracefulStop before Kafka.Close), however the goroutines interleave.
THEOREM HandledOnlyWarm == Spec => []WarmOnly
  BY Invariance, WarmFact, PTL

\* Whatever number of handlers race for the deduper and the producer's buffer,
\* an edge the deduper has recorded is with its handler, delivered or counted,
\* and in one place only; the buffer keeps kafkaMaxBuffered.
THEOREM NoEdgeLost == Spec => []NoSilentLoss
  BY Invariance, LossFact, PTL

\* Once it has served, the processor exits for a reason, with every handler
\* returned and every recorded edge delivered or counted.
THEOREM ExitIsClean == Spec => []CleanExit
  BY Invariance, ExitFact, PTL

-----------------------------------------------------------------------------
(***************************************************************************)
(* Istio.tla: NoOrphanVIP.  A mapping may be written long after its entry  *)
(* changed, so what is still to be written must be covered, too: a VIP     *)
(* that a queued notification or the handler in progress will set is bound *)
(* by an entry the informer holds, was given up by an update, or is taken  *)
(* out again by a deletion behind it in the queue.                         *)
(***************************************************************************)
\* A deletion of v in q behind position i.
Removes(q, i, v) ==
  \E j \in DOMAIN q : i < j /\ q[j].type = "delete" /\ v \in VIPs(q[j].entry, q[j].obj)

Held(v) == v \in given \/ \E e \in Entry : v \in VIPs(e, store[e])

QueueCovered ==
  \A i \in DOMAIN queue : queue[i].type = "set" =>
    \A v \in VIPs(queue[i].entry, queue[i].obj) : Held(v) \/ Removes(queue, i, v)

WorkCovered ==
  work.op = "set" => \A b \in ToSet(work.todo) : Held(b.ip) \/ Removes(queue, 0, b.ip)

NotRunning ==
  ~running => queue = <<>> /\ work = Idle /\ \A v \in VIP : byIP[v] = None

IstioIInv ==
  /\ IstioTypeOK
  /\ NotRunning
  /\ QueueCovered
  /\ WorkCovered
  /\ NoOrphanVIP

-----------------------------------------------------------------------------
\* A nonempty set of numbers has a least one.
LEMMA Least ==
  ASSUME NEW T \in SUBSET Nat, T # {}
  PROVE  \E x \in T : \A y \in T : x <= y
<1> DEFINE R == OpToRel(<, Nat)
<1>1. IsWellFoundedOn(R, Nat)
  BY NatLessThanWellFounded
<1>2. \A x, y \in Nat : y < x => <<y, x>> \in R
  BY DEF OpToRel
<1> HIDE DEF R
<1>3. PICK x \in T : \A y \in T : ~(<<y, x>> \in R)
  BY <1>1, WFMin
<1>4. \A y \in T : ~(y < x)
  BY <1>2, <1>3
<1> QED
  BY <1>3, <1>4

\* An element of a sequence, and what is left without the first one.
LEMMA Element ==
  ASSUME NEW S, NEW s \in Seq(S), NEW i \in DOMAIN s
  PROVE  s[i] \in S
  OBVIOUS

LEMMA Rest ==
  ASSUME NEW S, NEW s \in Seq(S), s # <<>>
  PROVE  /\ Len(s) \in Nat \ {0} /\ DOMAIN s = 1..Len(s)
         /\ Head(s) = s[1] /\ Head(s) \in S
         /\ Tail(s) \in Seq(S) /\ DOMAIN Tail(s) = 1..(Len(s) - 1)
         /\ \A i \in 1..(Len(s) - 1) : Tail(s)[i] = s[i + 1]
         /\ Len(s) # 1 => Tail(s) # <<>>
<1>1. /\ Len(s) \in Nat \ {0} /\ DOMAIN s = 1..Len(s) /\ Head(s) = s[1]
      /\ Tail(s) \in Seq(S) /\ Len(Tail(s)) = Len(s) - 1
      /\ DOMAIN Tail(s) = 1..(Len(s) - 1)
      /\ \A i \in 1..(Len(s) - 1) : Tail(s)[i] = s[i + 1]
  OBVIOUS
<1>2. Len(s) # 1 => Tail(s) # <<>>
  BY <1>1
<1> QED
  BY <1>1, <1>2

\* A list of a finite set is a sequence of its elements.
LEMMA Listing ==
  ASSUME NEW S, IsFiniteSet(S), NEW q \in SetToSeqs(S)
  PROVE  q \in Seq(S)
<1> DEFINE n == Cardinality(S)
<1>1. n \in Nat
  BY FS_CardinalityType
<1>2. q \in [1..n -> S]
  BY DEF SetToSeqs
<1> HIDE DEF n
<1> QED
  BY <1>1, <1>2

\* The loop that skips the positions outside keep appends only elements of s at
\* positions in keep.
LEMMA PickedType ==
  ASSUME NEW S, NEW s \in Seq(S), NEW keep \in SUBSET DOMAIN s
  PROVE  Picked(s, keep) \in Seq({s[i] : i \in keep})
<1> DEFINE D == 0..Len(s)
           K == {s[i] : i \in keep}
           Step(f, i) == IF i \in keep THEN Append(f[i - 1], s[i]) ELSE f[i - 1]
           IsLoop(f, n) == \A i \in 0..n : f[i] = IF i = 0 THEN <<>> ELSE Step(f, i)
           Good == {n \in D : \E f \in [0..n -> Seq(K)] : IsLoop(f, n)}
           Bad == D \ Good
<1>0. Len(s) \in Nat /\ DOMAIN s = 1..Len(s)
  OBVIOUS
<1>1. Bad = {}
  <2> SUFFICES ASSUME Bad # {} PROVE FALSE
    OBVIOUS
  <2>1. Bad \in SUBSET Nat
    BY <1>0
  <2>2. PICK n \in Bad : \A k \in Bad : n <= k
    <3> HIDE DEF Bad
    <3> QED
      BY <2>1, Least
  <2>6. n \notin Good
    BY <2>2
  <2>3. n \in D /\ n \in Nat
    BY <1>0, <2>2
  <2>4. CASE n = 0
    <3> DEFINE f == [i \in 0..0 |-> <<>>]
    <3>1. f \in [0..n -> Seq(K)] /\ IsLoop(f, n)
      BY <2>4
    <3> QED
      BY <2>2, <2>3, <3>1
  <2>5. CASE n # 0
    <3>1. n - 1 \in D /\ ~(n <= n - 1)
      BY <1>0, <2>3, <2>5
    <3>2. n - 1 \in Good
      BY <2>2, <3>1
    <3>3. PICK f \in [0..(n - 1) -> Seq(K)] : IsLoop(f, n - 1)
      BY <3>2
    <3> DEFINE x == Step(f, n)
               g == [i \in 0..n |-> IF i = n THEN x ELSE f[i]]
    <3>4. x \in Seq(K)
      <4>1. f[n - 1] \in Seq(K)
        BY <2>3, <2>5
      <4>2. n \in keep => s[n] \in K
        OBVIOUS
      <4> HIDE DEF K
      <4> QED
        BY <4>1, <4>2
    <3> HIDE DEF K
    <3>5. g \in [0..n -> Seq(K)]
      BY <2>3, <3>4
    <3>6. \A i \in 0..(n - 1) : g[i] = f[i]
      BY <2>3
    <3>7. IsLoop(g, n)
      <4> SUFFICES ASSUME NEW i \in 0..n PROVE g[i] = IF i = 0 THEN <<>> ELSE Step(g, i)
        OBVIOUS
      <4>1. CASE i = n
        <5>1. g[i] = x /\ g[i - 1] = f[i - 1]
          BY <2>3, <2>5, <3>6, <4>1
        <5> QED
          BY <2>5, <4>1, <5>1
      <4>2. CASE i # n
        <5>1. i \in 0..(n - 1) /\ (i # 0 => i - 1 \in 0..(n - 1))
          BY <2>3, <4>2
        <5>2. g[i] = f[i] /\ (i # 0 => g[i - 1] = f[i - 1])
          BY <3>6, <5>1
        <5>3. f[i] = IF i = 0 THEN <<>> ELSE Step(f, i)
          BY <3>3, <5>1
        <5> QED
          BY <5>2, <5>3
      <4> QED
        BY <4>1, <4>2
    <3> HIDE DEF g, IsLoop
    <3>8. \E f1 \in [0..n -> Seq(K)] : IsLoop(f1, n)
      BY <3>5, <3>7
    <3>9. n \in Good
      BY <2>3, <3>8
    <3> HIDE DEF Good
    <3> QED
      BY <2>6, <3>9
  <2> QED
    BY <2>4, <2>5
<1>2. Len(s) \in Good
  <2>1. Len(s) \in D
    BY <1>0
  <2> HIDE DEF Good, D
  <2> QED
    BY <1>1, <2>1
<1>3. PICK g \in [D -> Seq(K)] : IsLoop(g, Len(s))
  BY <1>2
<1> DEFINE out[i \in D] == IF i = 0 THEN <<>>
                           ELSE IF i \in keep THEN Append(out[i - 1], s[i]) ELSE out[i - 1]
<1>4. g = [i \in D |-> IF i = 0 THEN <<>>
                       ELSE IF i \in keep THEN Append(g[i - 1], s[i]) ELSE g[i - 1]]
  BY <1>3
<1>5. \E f : f = [i \in D |-> IF i = 0 THEN <<>>
                              ELSE IF i \in keep THEN Append(f[i - 1], s[i]) ELSE f[i - 1]]
  BY <1>4
<1>6. out = [i \in D |-> IF i = 0 THEN <<>>
                         ELSE IF i \in keep THEN Append(out[i - 1], s[i]) ELSE out[i - 1]]
  BY <1>5
<1>7. Picked(s, keep) = out[Len(s)]
  BY DEF Picked
<1> HIDE DEF out
<1>8. \A i \in D : /\ out[i] = IF i = 0 THEN <<>> ELSE Step(out, i)
                   /\ g[i] = IF i = 0 THEN <<>> ELSE Step(g, i)
  BY <1>3, <1>6
<1>9. out[Len(s)] = g[Len(s)]
  <2> DEFINE Wrong == {n \in D : out[n] # g[n]}
  <2> SUFFICES Wrong = {}
    BY <1>0
  <2> SUFFICES ASSUME Wrong # {} PROVE FALSE
    OBVIOUS
  <2>1. PICK n \in Wrong : \A k \in Wrong : n <= k
    <3>1. Wrong \in SUBSET Nat
      BY <1>0
    <3> HIDE DEF Wrong
    <3> QED
      BY <3>1, Least
  <2>2. n \in D /\ n # 0
    BY <1>8, <2>1
  <2>3. n - 1 \in D /\ ~(n <= n - 1)
    BY <1>0, <2>2
  <2>4. out[n - 1] = g[n - 1]
    BY <2>1, <2>3
  <2>5. out[n] = g[n]
    BY <1>8, <2>2, <2>4
  <2> QED
    BY <2>1, <2>5
<1>10. Picked(s, keep) \in Seq(K)
  <2> HIDE DEF K
  <2>1. Len(s) \in D
    BY <1>0
  <2> QED
    BY <1>3, <1>7, <1>9, <2>1
<1> QED
  BY <1>10

\* What the informer holds is typed like a revision.
LEMMA TrimmedType ==
  ASSUME NEW r \in Trimmed
  PROVE  /\ r # None
         /\ r.hosts \in Seq(Host) /\ r.addresses \in Seq(Address)
         /\ r.status \in Seq([ip : Address, host : Host \cup {None}])
<1>1. PICK x \in Revision : r = TrimServiceEntry(x)
  BY DEF Trimmed
<1>2. r.hosts = x.hosts /\ r.addresses = x.addresses /\ r.status = x.status
  BY <1>1 DEF TrimServiceEntry
<1> QED
  BY <1>2, IstioAssumption, TrimmedAssumption

LEMMA HostType ==
  ASSUME NEW r \in Trimmed
  PROVE  /\ PrimaryHost(r) \in Host \cup {None}
         /\ \A a \in [ip : Address, host : Host \cup {None}] : HostOf(r, a) \in Host \cup {None}
<1>1. PrimaryHost(r) \in Host \cup {None}
  BY TrimmedType DEF PrimaryHost
<1> QED
  BY <1>1 DEF HostOf

\* parseServiceEntryVIPs returns bindings of VIPs to hosts, whatever the entry
\* declares.
LEMMA ParseType ==
  ASSUME NEW e \in Entry, NEW r \in Trimmed
  PROVE  ParseServiceEntryVIPs(e, r) \in Seq(Binding)
<1> DEFINE A == Allocated(r)
           B == Declared(r)
           Bind(ip, host) == [ip |-> ip, wl |-> [ns |-> e, name |-> host]]
           Status == [ip : Address, host : Host \cup {None}]
           Good == {a \in Status : a.ip \in VIP /\ HostOf(r, a) \in Host}
           keep == {i \in DOMAIN r.status : r.status[i].ip \in VIP /\ HostOf(r, r.status[i]) # None}
           kept == {i \in DOMAIN r.addresses : r.addresses[i] \in VIP}
<1>1. A \in Seq(Good)
  <2>1. r.status \in Seq(Status)
    BY TrimmedType
  <2>2. ASSUME NEW i \in keep PROVE r.status[i] \in Good
    <3>1. r.status[i] \in Status
      BY <2>1, Element
    <3>2. HostOf(r, r.status[i]) \in Host \cup {None}
      BY <3>1, HostType
    <3> QED
      BY <3>1, <3>2
  <2>3. A \in Seq({r.status[i] : i \in keep})
    BY <2>1, PickedType DEF Allocated
  <2>4. {r.status[i] : i \in keep} \subseteq Good
    BY <2>2
  <2> HIDE DEF A, Good, keep
  <2> QED
    BY <2>3, <2>4
<1>2. B \in Seq(VIP) /\ (B # <<>> => PrimaryHost(r) \in Host)
  <2>1. CASE PrimaryHost(r) = None
    BY <2>1 DEF Declared
  <2>2. CASE PrimaryHost(r) # None
    <3>1. r.addresses \in Seq(Address)
      BY TrimmedType
    <3>2. {r.addresses[i] : i \in kept} \subseteq VIP
      OBVIOUS
    <3>3. B \in Seq({r.addresses[i] : i \in kept})
      BY <2>2, <3>1, PickedType DEF Declared
    <3> HIDE DEF B, kept
    <3> QED
      BY <2>2, <3>2, <3>3, HostType
  <2> QED
    BY <2>1, <2>2
<1> DEFINE a == [i \in DOMAIN A |-> Bind(A[i].ip, HostOf(r, A[i]))]
           b == [i \in DOMAIN B |-> Bind(B[i], PrimaryHost(r))]
<1>3. ParseServiceEntryVIPs(e, r) = a \o b
  BY DEF ParseServiceEntryVIPs
<1>4. \A ip \in VIP, host \in Host : Bind(ip, host) \in Binding
  BY DEF Binding, Identity
<1> HIDE DEF A, B, Bind
<1>5. a \in Seq(Binding)
  <2>1. Len(A) \in Nat /\ DOMAIN A = 1..Len(A)
    BY <1>1
  <2>2. \A i \in DOMAIN A : A[i] \in Good
    BY <1>1
  <2>3. \A i \in DOMAIN A : Bind(A[i].ip, HostOf(r, A[i])) \in Binding
    BY <1>4, <2>2
  <2> QED
    BY <2>1, <2>3
<1>6. b \in Seq(Binding)
  <2>1. Len(B) \in Nat /\ DOMAIN B = 1..Len(B)
    BY <1>2
  <2>2. \A i \in DOMAIN B : B[i] \in VIP /\ PrimaryHost(r) \in Host
    BY <1>2
  <2>3. \A i \in DOMAIN B : Bind(B[i], PrimaryHost(r)) \in Binding
    BY <1>4, <2>2
  <2> QED
    BY <2>1, <2>3
<1> HIDE DEF a, b
<1> QED
  BY <1>3, <1>5, <1>6

LEMMA VIPsType ==
  ASSUME NEW e \in Entry, NEW r \in Trimmed \cup {None}
  PROVE  VIPs(e, r) \subseteq VIP
<1>1. CASE r = None
  BY <1>1 DEF VIPs, Bindings
<1>2. CASE r # None
  <2>1. ParseServiceEntryVIPs(e, r) \in Seq(Binding)
    BY <1>2, ParseType
  <2>2. ToSet(ParseServiceEntryVIPs(e, r)) \subseteq Binding
    <3> DEFINE s == ParseServiceEntryVIPs(e, r)
    <3> HIDE DEF s
    <3> QED
      BY <2>1 DEF ToSet, s
  <2> QED
    BY <1>2, <2>2 DEF VIPs, Bindings, Binding
<1> QED
  BY <1>1, <1>2

\* What the informer would store for an entry.
LEMMA StoredType ==
  ASSUME IstioTypeOK, NEW e \in Entry
  PROVE  /\ Stored(e) \in Trimmed \cup {None}
         /\ Stored(e) = None <=> api[e] = None
<1>1. CASE api[e] = None
  BY <1>1 DEF Stored
<1>2. CASE api[e] # None
  <2>1. Stored(e) \in Trimmed
    BY <1>2 DEF Stored, Trimmed, IstioTypeOK
  <2> QED
    BY <1>2, <2>1, TrimmedAssumption
<1> QED
  BY <1>1, <1>2

\* A list of what an informer holds: an addition for each of its entries.
LEMMA ListedType ==
  ASSUME NEW s \in [Entry -> Trimmed \cup {None}], NEW live \in SUBSET Entry,
         \A e \in live : s[e] # None,
         NEW q \in SetToSeqs({Set(e, s[e]) : e \in live})
  PROVE  /\ q \in Seq(Notification)
         /\ \A i \in DOMAIN q : \E e \in Entry : q[i].entry = e /\ q[i].obj = s[e] /\ q[i].type = "set"
<1> DEFINE S == {Set(e, s[e]) : e \in live}
           f == [e \in live |-> Set(e, s[e])]
<1>1. IsFiniteSet(S)
  <2>1. f \in Surjection(live, S)
    BY DEF Surjection
  <2>2. IsFiniteSet(live)
    BY IstioAssumption, FS_Subset
  <2> QED
    BY <2>1, <2>2, FS_Surjection
<1>2. q \in Seq(S)
  BY <1>1, Listing
<1>3. \A x \in S : x \in Notification /\ x.type = "set" /\ x.entry \in Entry /\ x.obj = s[x.entry]
  <2> SUFFICES ASSUME NEW e \in live
               PROVE  LET x == Set(e, s[e])
                      IN  x \in Notification /\ x.type = "set" /\ x.entry = e /\ x.obj = s[e]
    OBVIOUS
  <2>1. s[e] \in Trimmed
    OBVIOUS
  <2> QED
    BY <2>1 DEF Set, Notification
<1> HIDE DEF S
<1>4. \A i \in DOMAIN q : q[i] \in S
  BY <1>2
<1> QED
  BY <1>2, <1>3, <1>4

\* The variables keep their types.
LEMMA IstioTypeStep == IstioTypeOK /\ [IstioNext]_istioVars => IstioTypeOK'
<1> SUFFICES ASSUME IstioTypeOK, [IstioNext]_istioVars PROVE IstioTypeOK'
  OBVIOUS
<1>1. ASSUME NEW e \in Entry, NEW r \in Revision \cup {None}, Change(e, r) PROVE IstioTypeOK'
  BY <1>1, IstioAssumption DEF IstioTypeOK, Change
<1>2. ASSUME NEW e \in Entry, Watch(e) PROVE IstioTypeOK'
  <2>1. store' \in [Entry -> Trimmed \cup {None}]
    BY <1>2, StoredType DEF IstioTypeOK, Watch
  <2>2. queue' \in Seq(Notification)
    <3>1. CASE api[e] = None
      <4>1. PICK tombstone \in BOOLEAN : queue' = Append(queue, Delete(e, store[e], tombstone))
        BY <1>2, <3>1 DEF Watch
      <4>2. store[e] \in Trimmed
        BY <1>2, <3>1, StoredType DEF Watch, IstioTypeOK
      <4>3. Delete(e, store[e], tombstone) \in Notification
        BY <4>2 DEF Delete, Notification
      <4> QED
        BY <4>1, <4>3 DEF IstioTypeOK
    <3>2. CASE api[e] # None
      <4>1. queue' = Append(queue, Set(e, Stored(e)))
        BY <1>2, <3>2 DEF Watch
      <4>2. Set(e, Stored(e)) \in Notification
        BY <3>2, StoredType DEF Set, Notification
      <4> QED
        BY <4>1, <4>2 DEF IstioTypeOK
    <3> QED
      BY <3>1, <3>2
  <2>3. given' \subseteq VIP
    <3>1. VIPs(e, store[e]) \subseteq VIP
      BY VIPsType DEF IstioTypeOK
    <3> QED
      BY <1>2, <3>1 DEF Watch, IstioTypeOK
  <2> QED
    BY <1>2, <2>1, <2>2, <2>3 DEF IstioTypeOK, Watch
<1>3. CASE Resync
  <2> DEFINE live == {x \in Entry : store[x] # None}
  <2>1. queue' \in Seq(Notification)
    <3>1. queue' \in SetToSeqs({Set(e, store[e]) : e \in live})
      BY <1>3 DEF Resync, Listed
    <3>2. store \in [Entry -> Trimmed \cup {None}] /\ live \in SUBSET Entry /\ \A e \in live : store[e] # None
      BY DEF IstioTypeOK
    <3> HIDE DEF live
    <3> QED
      BY <3>1, <3>2, ListedType
  <2> QED
    BY <1>3, <2>1 DEF IstioTypeOK, Resync
<1>4. CASE Run
  <2> DEFINE live == {x \in Entry : api[x] # None}
             s == [e \in Entry |-> Stored(e)]
  <2>1. s \in [Entry -> Trimmed \cup {None}] /\ live \in SUBSET Entry /\ \A e \in live : s[e] # None
    BY StoredType DEF IstioTypeOK
  <2>2. queue' \in Seq(Notification)
    <3>1. {Set(e, Stored(e)) : e \in live} = {Set(e, s[e]) : e \in live}
      OBVIOUS
    <3>2. queue' \in SetToSeqs({Set(e, s[e]) : e \in live})
      BY <1>4, <3>1 DEF Run
    <3> HIDE DEF live, s
    <3> QED
      BY <2>1, <3>2, ListedType
  <2>3. store' = s /\ UNCHANGED <<api, work, byIP, given, changes>> /\ running' = TRUE
    BY <1>4 DEF Run
  <2> HIDE DEF s
  <2> QED
    BY <2>1, <2>2, <2>3 DEF IstioTypeOK
<1>5. CASE Handle
  <2>1. Head(queue) \in Notification /\ Tail(queue) \in Seq(Notification)
    BY <1>5 DEF IstioTypeOK, Handle
  <2> DEFINE n == Head(queue)
             todo == AsUnstructured(n)
  <2>2. todo \in Seq(Binding)
    BY <2>1, ParseType DEF AsUnstructured, Notification
  <2>3. n.type \in {"set", "delete"}
    BY <2>1 DEF Notification
  <2>4. /\ work' = IF todo = <<>> THEN Idle ELSE [op |-> n.type, todo |-> todo]
        /\ queue' = Tail(queue) /\ UNCHANGED <<running, api, store, byIP, given, changes>>
    BY <1>5 DEF Handle
  <2> HIDE DEF n, todo
  <2>5. /\ work' \in [op : {"set", "delete", "none"}, todo : Seq(Binding)]
        /\ work' # Idle => work'.todo # <<>>
    BY <2>2, <2>3, <2>4 DEF Idle
  <2> QED
    BY <2>1, <2>4, <2>5 DEF IstioTypeOK
<1>6. CASE Write
  <2> DEFINE b == Head(work.todo)
  <2>1. work.todo \in Seq(Binding) /\ work.todo # <<>>
    BY <1>6 DEF IstioTypeOK, Write
  <2>2. b \in Binding
    BY <2>1
  <2>3. b.ip \in VIP /\ b.wl \in Identity
    BY <2>2 DEF Binding
  <2>4. byIP' \in [VIP -> Identity \cup {None}]
    BY <1>6, <2>3 DEF Write, IstioTypeOK
  <2>5. /\ work' \in [op : {"set", "delete", "none"}, todo : Seq(Binding)]
        /\ work' # Idle => work'.todo # <<>>
    <3>1. CASE Len(work.todo) = 1
      BY <1>6, <3>1 DEF Write, Idle
    <3>2. CASE Len(work.todo) # 1
      <4>1. work' = [work EXCEPT !.todo = Tail(work.todo)]
        BY <1>6, <3>2 DEF Write
      <4>2. Tail(work.todo) \in Seq(Binding) /\ Tail(work.todo) # <<>>
        BY <2>1, <3>2, Rest
      <4>3. work'.todo = Tail(work.todo) /\ work' \in [op : {"set", "delete", "none"}, todo : Seq(Binding)]
        BY <4>1, <4>2 DEF IstioTypeOK
      <4> QED
        BY <4>2, <4>3
    <3> QED
      BY <3>1, <3>2
  <2> QED
    BY <1>6, <2>4, <2>5 DEF IstioTypeOK, Write
<1>7. CASE UNCHANGED istioVars
  BY <1>7 DEF IstioTypeOK, istioVars
<1> QED
  BY <1>1, <1>2, <1>3, <1>4, <1>5, <1>6, <1>7 DEF IstioNext

LEMMA IstioInitIInv == IstioInit => IstioIInv
<1> SUFFICES ASSUME IstioInit PROVE IstioIInv
  OBVIOUS
<1>1. Idle \in [op : {"set", "delete", "none"}, todo : Seq(Binding)]
  BY DEF Idle
<1>2. IstioTypeOK
  <2>1. changes \in 0..MaxChanges /\ queue \in Seq(Notification)
    BY IstioAssumption DEF IstioInit
  <2> QED
    BY <1>1, <2>1 DEF IstioInit, IstioTypeOK
<1>3. work.op = "none"
  BY DEF IstioInit, Idle
<1> QED
  BY <1>2, <1>3 DEF IstioInit, IstioIInv, NotRunning, QueueCovered, WorkCovered, NoOrphanVIP

Covered == NotRunning /\ QueueCovered /\ WorkCovered /\ NoOrphanVIP

\* The watch catches up: a deletion stands behind everything that is queued, and
\* an update either keeps a VIP or gives it up.
LEMMA WatchCovered ==
  ASSUME IstioIInv, NEW e \in Entry, Watch(e)
  PROVE  Covered'
<1> DEFINE n == Len(queue)
<1>0. IstioTypeOK /\ QueueCovered /\ WorkCovered /\ NoOrphanVIP
  BY DEF IstioIInv
<1>1. queue \in Seq(Notification) /\ n \in Nat /\ DOMAIN queue = 1..n
  BY <1>0 DEF IstioTypeOK
<1>2. PICK x : queue' = Append(queue, x)
  BY DEF Watch
<1>3. /\ DOMAIN queue' = 1..(n + 1) /\ queue'[n + 1] = x
      /\ \A i \in 1..n : queue'[i] = queue[i]
  BY <1>1, <1>2
<1>4. ASSUME NEW i \in 0..n, NEW v, Held(v) \/ Removes(queue, i, v)
      PROVE  Held(v)' \/ Removes(queue', i, v)
  <2>1. CASE Removes(queue, i, v)
    BY <1>1, <1>3, <2>1 DEF Removes
  <2>2. CASE v \in given
    BY <2>2 DEF Held, Watch
  <2>3. ASSUME NEW y \in Entry, v \in VIPs(y, store[y]) PROVE Held(v)' \/ Removes(queue', i, v)
    <3>1. CASE y # e
      <4>1. store'[y] = store[y]
        BY <1>0, <3>1 DEF Watch, IstioTypeOK
      <4> QED
        BY <2>3, <4>1 DEF Held
    <3>2. CASE y = e /\ api[e] = None
      <4>1. PICK tombstone \in BOOLEAN : queue' = Append(queue, Delete(e, store[e], tombstone))
        BY <3>2 DEF Watch
      <4>2. queue'[n + 1] = Delete(e, store[e], tombstone)
        BY <1>1, <4>1
      <4>3. queue'[n + 1].type = "delete" /\ queue'[n + 1].entry = e /\ queue'[n + 1].obj = store[e]
        BY <4>2 DEF Delete
      <4>4. n + 1 \in DOMAIN queue' /\ i < n + 1
        BY <1>1, <1>3
      <4> QED
        BY <2>3, <3>2, <4>3, <4>4 DEF Removes
    <3>3. CASE y = e /\ api[e] # None
      <4>1. store[e] # None
        BY <2>3, <3>3 DEF VIPs, Bindings
      <4>2. store'[e] = Stored(e)
        BY <1>0 DEF Watch, IstioTypeOK
      <4>3. given' = given \cup (VIPs(e, store[e]) \ VIPs(e, Stored(e)))
        BY <3>3, <4>1 DEF Watch
      <4> QED
        BY <2>3, <3>3, <4>2, <4>3 DEF Held
    <3> QED
      BY <3>1, <3>2, <3>3
  <2> QED
    BY <1>4, <2>1, <2>2, <2>3 DEF Held
<1>5. NotRunning'
  BY DEF Watch, NotRunning
<1>6. QueueCovered'
  <2> SUFFICES ASSUME NEW i \in DOMAIN queue', queue'[i].type = "set",
                      NEW v \in VIPs(queue'[i].entry, queue'[i].obj)
               PROVE  Held(v)' \/ Removes(queue', i, v)
    BY DEF QueueCovered
  <2>1. CASE i \in 1..n
    <3>1. Held(v) \/ Removes(queue, i, v)
      BY <1>0, <1>1, <1>3, <2>1 DEF QueueCovered
    <3> QED
      BY <1>1, <1>4, <2>1, <3>1
  <2>2. CASE i \notin 1..n
    <3>1. i = n + 1
      BY <1>1, <1>3, <2>2
    <3>2. api[e] # None
      <4> SUFFICES ASSUME api[e] = None PROVE FALSE
        OBVIOUS
      <4>1. PICK tombstone \in BOOLEAN : queue' = Append(queue, Delete(e, store[e], tombstone))
        BY DEF Watch
      <4>2. queue'[i] = Delete(e, store[e], tombstone)
        BY <1>1, <3>1, <4>1
      <4> QED
        BY <4>2 DEF Delete
    <3>3. queue' = Append(queue, Set(e, Stored(e)))
      BY <3>2 DEF Watch
    <3>4. queue'[i] = Set(e, Stored(e))
      BY <1>1, <3>1, <3>3
    <3>5. v \in VIPs(e, Stored(e))
      BY <3>4 DEF Set
    <3>6. store'[e] = Stored(e)
      BY <1>0 DEF Watch, IstioTypeOK
    <3> QED
      BY <3>5, <3>6 DEF Held
  <2> QED
    BY <2>1, <2>2
<1>7. WorkCovered'
  <2> SUFFICES ASSUME work.op = "set", NEW b \in ToSet(work.todo)
               PROVE  Held(b.ip)' \/ Removes(queue', 0, b.ip)
    BY DEF WorkCovered, Watch
  <2>1. Held(b.ip) \/ Removes(queue, 0, b.ip)
    BY <1>0 DEF WorkCovered
  <2> QED
    BY <1>1, <1>4, <2>1
<1>8. NoOrphanVIP'
  <2> SUFFICES ASSUME NEW v \in VIP, byIP[v] # None
               PROVE  Held(v)' \/ Going(v)'
    BY DEF NoOrphanVIP, Watch, Held
  <2>1. Held(v) \/ Going(v)
    BY <1>0 DEF NoOrphanVIP, Held
  <2>2. CASE work.op = "delete" /\ \E b \in ToSet(work.todo) : b.ip = v
    BY <2>2 DEF Going, Watch
  <2>3. CASE Held(v) \/ Removes(queue, 0, v)
    <3>1. Held(v)' \/ Removes(queue', 0, v)
      BY <1>1, <1>4, <2>3
    <3> QED
      BY <3>1 DEF Going, Removes
  <2>4. Going(v) => \/ work.op = "delete" /\ \E b \in ToSet(work.todo) : b.ip = v
                    \/ Removes(queue, 0, v)
    BY <1>1 DEF Going, Removes
  <2> QED
    BY <2>1, <2>2, <2>3, <2>4
<1> QED
  BY <1>5, <1>6, <1>7, <1>8 DEF Covered

\* A list: everything in it is held.
LEMMA ListCovered ==
  ASSUME IstioIInv, Resync \/ Run
  PROVE  Covered'
<1>0. IstioTypeOK /\ NotRunning /\ WorkCovered /\ NoOrphanVIP
  BY DEF IstioIInv
<1>1. /\ queue = <<>> /\ running' /\ UNCHANGED <<work, byIP, given>>
      /\ \A i \in DOMAIN queue' : \E e \in Entry :
           queue'[i].entry = e /\ queue'[i].obj = store'[e]
  <2>1. CASE Resync
    <3> DEFINE live == {x \in Entry : store[x] # None}
    <3>1. queue' \in SetToSeqs({Set(e, store[e]) : e \in live})
      BY <2>1 DEF Resync, Listed
    <3>2. store \in [Entry -> Trimmed \cup {None}] /\ live \in SUBSET Entry /\ \A e \in live : store[e] # None
      BY <1>0 DEF IstioTypeOK
    <3> HIDE DEF live
    <3>3. \A i \in DOMAIN queue' : \E e \in Entry : queue'[i].entry = e /\ queue'[i].obj = store[e]
      BY <3>1, <3>2, ListedType
    <3> QED
      BY <2>1, <3>3 DEF Resync
  <2>2. CASE Run
    <3> DEFINE live == {x \in Entry : api[x] # None}
               s == [e \in Entry |-> Stored(e)]
    <3>1. s \in [Entry -> Trimmed \cup {None}] /\ live \in SUBSET Entry /\ \A e \in live : s[e] # None
      BY <1>0, StoredType DEF IstioTypeOK
    <3>2. {Set(e, Stored(e)) : e \in live} = {Set(e, s[e]) : e \in live}
      OBVIOUS
    <3>3. queue' \in SetToSeqs({Set(e, s[e]) : e \in live}) /\ store' = s
      BY <2>2, <3>2 DEF Run
    <3> HIDE DEF live, s
    <3>4. \A i \in DOMAIN queue' : \E e \in Entry : queue'[i].entry = e /\ queue'[i].obj = s[e]
      BY <3>1, <3>3, ListedType
    <3> QED
      BY <1>0, <2>2, <3>3, <3>4 DEF Run, NotRunning
  <2> QED
    BY <2>1, <2>2
<1>2. \A v : ~Removes(queue, 0, v)
  BY <1>1 DEF Removes
<1>3. QueueCovered'
  BY <1>1 DEF QueueCovered, Held
<1>4. CASE Resync
  <2>1. \A v : Held(v)' <=> Held(v)
    BY <1>4 DEF Held, Resync
  <2>2. WorkCovered'
    BY <1>0, <1>1, <1>2, <2>1 DEF WorkCovered
  <2>3. NoOrphanVIP'
    <3> SUFFICES ASSUME NEW v \in VIP, byIP[v] # None PROVE Held(v)' \/ Going(v)'
      BY <1>1 DEF NoOrphanVIP, Held
    <3>1. Held(v) \/ Going(v)
      BY <1>0 DEF NoOrphanVIP, Held
    <3>2. Going(v) => work.op = "delete" /\ \E b \in ToSet(work.todo) : b.ip = v
      BY <1>1 DEF Going
    <3> QED
      BY <1>1, <2>1, <3>1, <3>2 DEF Going
  <2>4. NotRunning'
    BY <1>1 DEF NotRunning
  <2> QED
    BY <1>3, <2>2, <2>3, <2>4 DEF Covered
<1>5. CASE Run
  <2>1. work' = Idle /\ \A v \in VIP : byIP'[v] = None
    BY <1>0, <1>1, <1>5 DEF Run, NotRunning
  <2>2. work'.op = "none"
    BY <2>1 DEF Idle
  <2> QED
    BY <1>1, <1>3, <2>1, <2>2 DEF Covered, NotRunning, WorkCovered, NoOrphanVIP
<1> QED
  BY <1>4, <1>5

\* The handler takes a notification: what it is about to set was covered, and
\* what it is about to delete stays under way.
LEMMA HandleCovered ==
  ASSUME IstioIInv, Handle
  PROVE  Covered'
<1> DEFINE n == Len(queue)
           h == queue[1]
           todo == AsUnstructured(h)
<1>0. IstioTypeOK /\ NotRunning /\ QueueCovered /\ NoOrphanVIP
  BY DEF IstioIInv
<1>1. /\ queue \in Seq(Notification) /\ n \in Nat \ {0} /\ DOMAIN queue = 1..n
      /\ queue' = Tail(queue) /\ DOMAIN queue' = 1..(n - 1)
      /\ \A i \in 1..(n - 1) : queue'[i] = queue[i + 1]
      /\ h = Head(queue) /\ h \in Notification
  BY <1>0, Rest DEF IstioTypeOK, Handle
<1>2. /\ work = Idle /\ UNCHANGED <<running, store, byIP, given>>
      /\ work' = IF todo = <<>> THEN Idle ELSE [op |-> h.type, todo |-> todo]
  BY <1>1 DEF Handle
<1>3. VIPs(h.entry, h.obj) = {b.ip : b \in ToSet(todo)}
  <2>1. h.obj # None
    BY <1>1, TrimmedAssumption DEF Notification
  <2> QED
    BY <2>1 DEF VIPs, Bindings, AsUnstructured
<1>4. \A v : Held(v)' <=> Held(v)
  BY <1>2 DEF Held
<1>5. ASSUME NEW i \in 0..(n - 1), NEW v, Removes(queue, i + 1, v)
      PROVE  Removes(queue', i, v)
  <2>1. PICK j \in DOMAIN queue : /\ i + 1 < j /\ queue[j].type = "delete"
                                  /\ v \in VIPs(queue[j].entry, queue[j].obj)
    BY <1>5 DEF Removes
  <2>2. j - 1 \in 1..(n - 1) /\ i < j - 1 /\ (j - 1) + 1 = j
    BY <1>1, <2>1
  <2>3. queue'[j - 1] = queue[j]
    BY <1>1, <2>2
  <2> QED
    BY <1>1, <2>1, <2>2, <2>3 DEF Removes
<1>6. work'.op = "set" => h.type = "set" /\ work'.todo = todo
  BY <1>2 DEF Idle
<1>7. h.type = "delete" /\ todo # <<>> => work'.op = "delete" /\ work'.todo = todo
  BY <1>2
<1>8. todo = <<>> => ToSet(todo) = {}
  BY DEF ToSet
<1>9. NotRunning'
  BY <1>0, <1>1, <1>2 DEF NotRunning, Handle
<1>10. QueueCovered'
  <2> SUFFICES ASSUME NEW i \in 1..(n - 1), queue[i + 1].type = "set",
                      NEW v \in VIPs(queue[i + 1].entry, queue[i + 1].obj)
               PROVE  Held(v)' \/ Removes(queue', i, v)
    BY <1>1 DEF QueueCovered
  <2>1. i + 1 \in DOMAIN queue /\ i \in 0..(n - 1)
    BY <1>1
  <2>2. Held(v) \/ Removes(queue, i + 1, v)
    BY <1>0, <2>1 DEF QueueCovered
  <2> QED
    BY <1>4, <1>5, <2>1, <2>2
<1> HIDE DEF todo, h
<1>11. WorkCovered'
  <2> SUFFICES ASSUME work'.op = "set", NEW b \in ToSet(todo)
               PROVE  Held(b.ip)' \/ Removes(queue', 0, b.ip)
    BY <1>6 DEF WorkCovered
  <2>1. b.ip \in VIPs(h.entry, h.obj) /\ 1 \in DOMAIN queue /\ 0 \in 0..(n - 1)
    BY <1>1, <1>3
  <2>2. Held(b.ip) \/ Removes(queue, 1, b.ip)
    BY <1>0, <1>6, <2>1 DEF QueueCovered, h
  <2>3. Removes(queue, 0 + 1, b.ip) => Removes(queue', 0, b.ip)
    BY <1>5, <2>1
  <2> QED
    BY <1>4, <2>2, <2>3
<1>12. NoOrphanVIP'
  <2> SUFFICES ASSUME NEW v \in VIP, byIP[v] # None PROVE Held(v)' \/ Going(v)'
    BY <1>2 DEF NoOrphanVIP, Held
  <2>1. Held(v) \/ Going(v)
    BY <1>0 DEF NoOrphanVIP, Held
  <2>2. ASSUME Going(v) PROVE Going(v)'
    <3>1. PICK i \in DOMAIN queue : queue[i].type = "delete" /\ v \in VIPs(queue[i].entry, queue[i].obj)
      BY <1>2, <2>2 DEF Going, Idle
    <3>2. CASE i = 1
      <4>1. h.type = "delete" /\ \E b \in ToSet(todo) : b.ip = v
        BY <1>3, <3>1, <3>2 DEF h
      <4>2. work'.op = "delete" /\ work'.todo = todo
        BY <1>7, <1>8, <4>1
      <4> QED
        BY <4>1, <4>2 DEF Going
    <3>3. CASE i # 1
      <4>1. i - 1 \in 1..(n - 1) /\ (i - 1) + 1 = i
        BY <1>1, <3>3
      <4>2. queue'[i - 1] = queue[i]
        BY <1>1, <4>1
      <4> QED
        BY <1>1, <3>1, <4>1, <4>2 DEF Going
    <3> QED
      BY <3>2, <3>3
  <2> QED
    BY <1>4, <2>1, <2>2
<1> QED
  BY <1>9, <1>10, <1>11, <1>12 DEF Covered

\* One write on the cache: a VIP that is set was covered, and one whose deletion
\* leaves the list of things to do is gone.
LEMMA WriteCovered ==
  ASSUME IstioIInv, Write
  PROVE  Covered'
<1> DEFINE todo == work.todo
           b == Head(todo)
           new == IF work.op = "set" THEN b.wl ELSE None
<1>0. IstioTypeOK /\ NotRunning /\ QueueCovered /\ WorkCovered /\ NoOrphanVIP
  BY DEF IstioIInv
<1>1. work # Idle /\ work \in [op : {"set", "delete", "none"}, todo : Seq(Binding)] /\ todo # <<>>
  BY <1>0 DEF Write, IstioTypeOK
<1>2. todo \in Seq(Binding)
  BY <1>1
<1>3. /\ Len(todo) \in Nat \ {0} /\ DOMAIN todo = 1..Len(todo)
      /\ b = todo[1] /\ b \in Binding
      /\ DOMAIN Tail(todo) = 1..(Len(todo) - 1)
      /\ \A i \in 1..(Len(todo) - 1) : Tail(todo)[i] = todo[i + 1]
  <2> HIDE DEF todo
  <2> QED
    BY <1>1, <1>2, Rest
<1>4. /\ byIP' = [byIP EXCEPT ![b.ip] = new]
      /\ work' = IF Len(todo) = 1 THEN Idle ELSE [work EXCEPT !.todo = Tail(todo)]
      /\ UNCHANGED <<running, store, queue, given>>
  BY DEF Write
<1>5. b \in ToSet(todo)
  BY <1>3 DEF ToSet
<1>6. ASSUME Len(todo) # 1
      PROVE  work'.op = work.op /\ work'.todo = Tail(todo)
  BY <1>1, <1>4, <1>6
<1>7. ToSet(Tail(todo)) \subseteq ToSet(todo)
  BY <1>3 DEF ToSet
<1>8. \A c \in ToSet(todo) : c = b \/ (Len(todo) # 1 /\ c \in ToSet(Tail(todo)))
  <2> SUFFICES ASSUME NEW i \in 1..Len(todo), i # 1
               PROVE  Len(todo) # 1 /\ todo[i] \in ToSet(Tail(todo))
    BY <1>3 DEF ToSet
  <2>1. i - 1 \in 1..(Len(todo) - 1) /\ (i - 1) + 1 = i /\ Len(todo) # 1
    <3> DEFINE m == Len(todo)
    <3>1. m \in Nat /\ i \in 1..m
      BY <1>3
    <3> HIDE DEF m
    <3>2. i - 1 \in 1..(m - 1) /\ (i - 1) + 1 = i /\ m # 1
      BY <3>1
    <3> QED
      BY <3>2 DEF m
  <2>2. Tail(todo)[i - 1] = todo[i]
    BY <1>3, <2>1
  <2> QED
    BY <1>3, <2>1, <2>2 DEF ToSet
<1>9. b.ip \in VIP /\ byIP \in [VIP -> Identity \cup {None}]
  BY <1>0, <1>3 DEF Binding, IstioTypeOK
<1>10. \A v : Held(v)' <=> Held(v)
  BY <1>4 DEF Held
<1>11. running
  BY <1>0, <1>1 DEF NotRunning
<1> HIDE DEF b, todo, new
<1>12. NotRunning'
  BY <1>4, <1>11 DEF NotRunning
<1>13. QueueCovered'
  BY <1>0, <1>4, <1>10 DEF QueueCovered
<1>14. WorkCovered'
  <2>1. CASE Len(todo) = 1
    <3>1. work'.op = "none"
      BY <1>4, <2>1 DEF Idle
    <3> QED
      BY <3>1 DEF WorkCovered
  <2>2. CASE Len(todo) # 1
    BY <1>0, <1>4, <1>6, <1>7, <1>10, <2>2 DEF WorkCovered, todo
  <2> QED
    BY <2>1, <2>2
<1>15. NoOrphanVIP'
  <2> SUFFICES ASSUME NEW v \in VIP, byIP'[v] # None PROVE Held(v)' \/ Going(v)'
    BY DEF NoOrphanVIP, Held
  <2>1. Removes(queue, 0, v) => Going(v)'
    BY <1>4 DEF Removes, Going
  <2>2. CASE v = b.ip
    <3>1. byIP'[v] = new
      BY <1>4, <1>9, <2>2
    <3>2. work.op = "set"
      BY <3>1 DEF new
    <3>3. Held(v) \/ Removes(queue, 0, v)
      BY <1>0, <1>5, <2>2, <3>2 DEF WorkCovered, todo
    <3> QED
      BY <1>10, <2>1, <3>3
  <2>3. CASE v # b.ip
    <3>1. byIP[v] # None
      BY <1>4, <1>9, <2>3
    <3>2. Held(v) \/ Going(v)
      BY <1>0, <3>1 DEF NoOrphanVIP, Held
    <3>3. ASSUME work.op = "delete", NEW c \in ToSet(todo), c.ip = v PROVE Going(v)'
      <4>1. Len(todo) # 1 /\ c \in ToSet(Tail(todo))
        BY <1>8, <2>3, <3>3
      <4> QED
        BY <1>6, <3>3, <4>1 DEF Going
    <3>4. ASSUME NEW i \in DOMAIN queue, queue[i].type = "delete", v \in VIPs(queue[i].entry, queue[i].obj)
          PROVE  Going(v)'
      BY <1>4, <3>4 DEF Going
    <3> QED
      BY <1>10, <3>2, <3>3, <3>4 DEF Going, todo
  <2> QED
    BY <2>2, <2>3
<1> QED
  BY <1>12, <1>13, <1>14, <1>15 DEF Covered

\* Nothing the argument speaks of changes.
LEMMA IdleCovered ==
  ASSUME IstioIInv, UNCHANGED <<running, store, queue, work, byIP, given>>
  PROVE  Covered'
  BY DEF IstioIInv, Covered, NotRunning, QueueCovered, WorkCovered, NoOrphanVIP, Held, Removes, Going

LEMMA IstioIInvStep == IstioIInv /\ [IstioNext]_istioVars => IstioIInv'
<1> SUFFICES ASSUME IstioIInv, [IstioNext]_istioVars PROVE Covered'
  BY IstioTypeStep DEF IstioIInv, Covered
<1>1. ASSUME NEW e \in Entry, NEW r \in Revision \cup {None}, Change(e, r) PROVE Covered'
  BY <1>1, IdleCovered DEF Change
<1>2. ASSUME NEW e \in Entry, Watch(e) PROVE Covered'
  BY <1>2, WatchCovered
<1>3. CASE Resync \/ Run
  BY <1>3, ListCovered
<1>4. CASE Handle
  BY <1>4, HandleCovered
<1>5. CASE Write
  BY <1>5, WriteCovered
<1>6. CASE UNCHANGED istioVars
  BY <1>6, IdleCovered DEF istioVars
<1> QED
  BY <1>1, <1>2, <1>3, <1>4, <1>5, <1>6 DEF IstioNext

\* Every reachable state of the ServiceEntry resolver is well typed: a handler
\* that has work has bindings of parsed VIPs to hosts left to write.
THEOREM IstioTypeCorrect == IstioSpec => []IstioTypeOK
<1>1. IstioIInv => IstioTypeOK
  BY DEF IstioIInv
<1> QED
  BY <1>1, IstioInitIInv, IstioIInvStep, PTL DEF IstioSpec

\* For any ServiceEntries, hosts and VIPs and any number of changes, a VIP has an
\* identity only while an entry the informer holds binds it, its deletion is
\* under way, or an update gave it up.
THEOREM NoVIPOrphaned == IstioSpec => []NoOrphanVIP
<1>1. IstioIInv => NoOrphanVIP
  BY DEF IstioIInv
<1> QED
  BY <1>1, IstioInitIInv, IstioIInvStep, PTL DEF IstioSpec
=============================================================================
