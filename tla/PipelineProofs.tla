--------------------------- MODULE PipelineProofs ---------------------------
(***************************************************************************)
(* TrueEnds, NoMirror and NothingElseDropped for any cluster, any records  *)
(* and any changes of the cache between two lookups.                       *)
(*                                                                         *)
(* The truth about an end is fixed by the record; what is carried along is *)
(* that an end which is still settled has right entries now, so that each  *)
(* lookup contributes the truth, and what the lookups so far have made of  *)
(* the two ends at each stage.                                             *)
(***************************************************************************)
EXTENDS Pipeline, TLAPS

USE DEF Sent

\* The entries of a settled end are right at this moment.
SettledNow ==
  job # None => job.settled \subseteq SettledEnds(job.item.ev, byIP, byUID, byPort)

\* A lookup by UID is pending only where there is one, and for a settled source
\* only where it will tell the caller.
UIDPending ==
  At("uid") =>
    /\ Ev.uid # None
    /\ "source" \in job.settled => TrueSource(job.item) = PodOf[Ev.uid]

SourceKnown ==
  job # None /\ job.at # "uid" /\ "source" \in job.settled => job.source = TrueSource(job.item)

DestKnown ==
  job # None /\ "dest" \in job.settled =>
    /\ job.at \in {"dest", "decide", "handed"} => job.l7 = L7[Ev.dst]
    /\ job.at \in {"decide", "handed"} => job.dest = TrueDest(job.item)

\* What is handed on has passed the reversed-duplicate rule.
Kept == At("handed") /\ ~Ev.outbound => IsExternal(job.source)

IInv == TypeOK /\ SettledNow /\ UIDPending /\ SourceKnown /\ DestKnown /\ Kept

\* What a record that reaches the processor looks like, whichever end saw it.
LEMMA RecordShape ==
  ASSUME NEW i \in Sent
  PROVE  /\ i.conn \in Conn /\ i.ev.outbound \in BOOLEAN
         /\ i.ev.src = i.conn.from /\ i.ev.src \in Address
         /\ i.ev.dst = (IF i.ev.outbound THEN i.conn.to ELSE i.conn.at)
         /\ i.ev.dst \in Address
         /\ i.ev.dport = i.conn.port
         /\ i.ev.uid \in UID \cup {None}
         /\ i.ev.host = (IF i.ev.outbound THEN i.conn.host ELSE None)
         /\ i.ev.outbound => Holder[i.ev.src] # None
         /\ ~i.ev.outbound => i.ev.uid = None /\ Holder[i.ev.dst] # None
<1>1. PICK c \in Conn, outbound \in BOOLEAN, uid \in UID \cup {None} :
        i = [conn |-> c, ev |-> Half(c, outbound, uid)]
  BY DEF Item
<1>2. Traced(i)
  OBVIOUS
<1>3. CASE outbound
  <2>1. i.ev = [src |-> c.from, dst |-> c.to, sport |-> Ephemeral, dport |-> c.port,
                outbound |-> TRUE, uid |-> uid, host |-> c.host]
    BY <1>1, <1>3 DEF Half, Canonical
  <2>2. i.conn = c
    BY <1>1
  <2>3. /\ i.ev.src = c.from /\ i.ev.dst = c.to /\ i.ev.dport = c.port
        /\ i.ev.uid = uid /\ i.ev.host = c.host /\ i.ev.outbound = TRUE
    BY <2>1
  <2>4. ~Filtered(i.ev) /\ Holder[c.from] # None
    BY <1>2, <2>2, <2>3 DEF Traced
  <2>5. i.ev.src \in Address /\ i.ev.dst \in Address
    BY <2>3, <2>4, IdentityAssumption DEF Filtered
  <2> QED
    BY <2>2, <2>3, <2>4, <2>5
<1>4. CASE ~outbound
  <2>1. i.ev = [src |-> c.from, dst |-> c.at, sport |-> Ephemeral, dport |-> c.port,
                outbound |-> FALSE, uid |-> None, host |-> None]
    BY <1>1, <1>4 DEF Half, Canonical
  <2>2. i.conn = c
    BY <1>1
  <2>3. /\ i.ev.src = c.from /\ i.ev.dst = c.at /\ i.ev.dport = c.port
        /\ i.ev.uid = None /\ i.ev.host = None /\ i.ev.outbound = FALSE
    BY <2>1
  <2>4. ~Filtered(i.ev) /\ c.at # None /\ Holder[c.at] # None
    BY <1>2, <2>2, <2>3 DEF Traced
  <2>5. i.ev.src \in Address /\ i.ev.dst \in Address
    BY <2>3, <2>4, IdentityAssumption DEF Filtered
  <2> QED
    BY <2>2, <2>3, <2>4, <2>5
<1> QED
  BY <1>3, <1>4

\* The truth in terms of the record's own fields.
LEMMA Truth ==
  ASSUME NEW i \in Sent
  PROVE  /\ Holder[i.ev.src] = None => TrueSource(i) = External(i.ev.src)
         /\ Holder[i.ev.src] # None =>
              TrueSource(i) = IF Holder[i.ev.src].kind = "node" /\ i.ev.uid # None
                              THEN PodOf[i.ev.uid] ELSE Holder[i.ev.src]
         /\ Holder[i.ev.dst] # None => TrueDest(i) = Holder[i.ev.dst]
         /\ Holder[i.ev.dst] = None =>
              TrueDest(i) = External(IF i.ev.host # None THEN i.ev.host ELSE i.ev.dst)
         /\ TrueL7(i) = AppProtocol(L7[i.ev.dst])
<1>1. i.ev.src = i.conn.from
  BY RecordShape
<1>2. CASE i.ev.outbound
  <2>1. i.ev.dst = i.conn.to /\ i.ev.host = i.conn.host
    BY <1>2, RecordShape
  <2> QED
    BY <1>1, <1>2, <2>1 DEF TrueSource, TrueDest, TrueL7
<1>3. CASE ~i.ev.outbound
  <2>1. i.ev.dst = i.conn.at /\ Holder[i.ev.dst] # None
    BY <1>3, RecordShape
  <2> QED
    BY <1>1, <1>3, <2>1 DEF TrueSource, TrueDest, TrueL7
<1> QED
  BY <1>2, <1>3

LEMMA InitIInv == Init => IInv
<1> SUFFICES ASSUME Init PROVE IInv
  OBVIOUS
<1> USE DEF Init
<1>1. TypeOK
  BY PipelineAssumption DEF TypeOK
<1> QED
  BY <1>1 DEF IInv, SettledNow, UIDPending, SourceKnown, DestKnown, Kept, At

\* A record made of well-typed parts is a job.
LEMMA JobType ==
  ASSUME NEW i \in Sent, NEW at \in {"uid", "port", "dest", "decide", "handed"},
         NEW source \in Identity, NEW l7 \in {L7[a] : a \in Address} \cup {None},
         NEW dest \in Identity \cup {None}, NEW settled \in SUBSET {"source", "dest"}
  PROVE  [item |-> i, at |-> at, source |-> source, l7 |-> l7, dest |-> dest,
          settled |-> settled] \in Job
  BY DEF Job

\* What WorkloadForIP returns is an identity, and the right one when the entry is.
LEMMA Lookup ==
  ASSUME TypeOK, NEW a \in Address
  PROVE  /\ WorkloadForIP(a) \in Identity
         /\ byIP[a] = Holder[a] =>
              WorkloadForIP(a) = IF Holder[a] # None THEN Holder[a] ELSE External(a)
  BY DEF TypeOK, WorkloadForIP, Identity

\* The variables keep their types.
LEMMA TypeStep == IInv /\ [Next]_vars => TypeOK'
<1> SUFFICES ASSUME IInv, [Next]_vars PROVE TypeOK'
  OBVIOUS
<1>0. TypeOK
  BY DEF IInv
<1>1. CASE Cached
  <2>1. todo' = todo
    BY <1>1 DEF Cached
  <2>2. /\ DOMAIN byIP' = Address /\ DOMAIN byUID' = UID /\ DOMAIN byPort' = Address
        /\ \A a \in Address : byIP'[a] \in Former[a] \cup {Holder[a], None}
        /\ \A u \in UID : byUID'[u] \in {PodOf[u], None}
        /\ \A a \in Address : byPort'[a] \in {L7[a], None}
    BY <1>0, <1>1 DEF Cached, TypeOK
  <2>3. CASE job = None
    BY <1>0, <1>1, <2>1, <2>2, <2>3 DEF Cached, TypeOK
  <2>4. CASE job # None
    <3> DEFINE now == job.settled \cap SettledEnds(job.item.ev, byIP', byUID', byPort')
    <3>1. job' = [job EXCEPT !.settled = now]
      BY <1>1, <2>4 DEF Cached
    <3>2. job \in Job /\ now \in SUBSET {"source", "dest"}
      BY <1>0, <2>4 DEF TypeOK, Job
    <3> HIDE DEF now
    <3>3. job' \in Job /\ job'.at = job.at /\ job'.dest = job.dest
      BY <3>1, <3>2 DEF Job
    <3> QED
      BY <1>0, <2>1, <2>2, <2>4, <3>3 DEF TypeOK
  <2> QED
    BY <2>3, <2>4
<1>2. ASSUME NEW b \in Batch, Report(b) PROVE TypeOK'
  BY <1>0, <1>2, PipelineAssumption DEF Report, TypeOK, cache
<1>3. CASE SkipInvalid
  BY <1>0, <1>3 DEF SkipInvalid, TypeOK, cache
<1>4. CASE EnrichSource
  <2> DEFINE i == Head(todo)
             source == WorkloadForIP(i.ev.src)
             at == IF NeedsUID(i.ev, source) THEN "uid" ELSE "port"
             settled == SettledEnds(i.ev, byIP, byUID, byPort)
  <2>1. i \in Sent
    BY <1>0, <1>4 DEF EnrichSource, TypeOK
  <2>2. source \in Identity
    BY <1>0, <2>1, RecordShape, Lookup
  <2>3. settled \in SUBSET {"source", "dest"}
    BY DEF SettledEnds
  <2>4. /\ job' = [item |-> i, at |-> at, source |-> source, l7 |-> None, dest |-> None,
                    settled |-> settled]
        /\ todo' = Tail(todo) /\ todo # <<>> /\ UNCHANGED cache
    BY <1>4 DEF EnrichSource
  <2>5. at \in {"uid", "port"}
    OBVIOUS
  <2> HIDE DEF i, source, at, settled
  <2>6. job' \in Job /\ job'.at \in {"uid", "port"}
    BY <2>1, <2>2, <2>3, <2>4, <2>5, JobType
  <2> QED
    BY <1>0, <2>4, <2>6 DEF TypeOK, cache
<1>5. ASSUME job' \in Job, job'.at \in {"decide", "handed"} => job'.dest \in Identity,
             UNCHANGED <<cache, todo>>
      PROVE  TypeOK'
  BY <1>0, <1>5 DEF TypeOK, cache
<1>6. CASE EnrichUID
  <2> DEFINE source == IF byUID[Ev.uid] # None THEN byUID[Ev.uid] ELSE job.source
  <2>1. job \in Job /\ job # None /\ Ev.uid # None
    BY <1>0, <1>6 DEF EnrichUID, TypeOK, At, IInv, UIDPending
  <2>2. Ev.uid \in UID
    BY <2>1, RecordShape DEF Job, Ev
  <2>3. source \in Identity
    <3>1. byUID[Ev.uid] \in {PodOf[Ev.uid], None}
      BY <1>0, <2>2 DEF TypeOK
    <3>2. job.source \in Identity
      BY <2>1 DEF Job
    <3>3. PodOf[Ev.uid] \in Identity
      BY <2>2 DEF Identity
    <3> QED
      BY <3>1, <3>2, <3>3
  <2>4. job' = [job EXCEPT !.at = "port", !.source = source]
    BY <1>6 DEF EnrichUID
  <2> HIDE DEF source
  <2>5. job' \in Job /\ job'.at = "port"
    BY <2>1, <2>3, <2>4 DEF Job
  <2> QED
    BY <1>5, <1>6, <2>5 DEF EnrichUID
<1>7. CASE EnrichPort
  <2>1. job \in Job /\ job # None
    BY <1>0, <1>7 DEF EnrichPort, TypeOK, At
  <2>2. Ev.dst \in Address
    BY <2>1, RecordShape DEF Job, Ev
  <2>3. byPort[Ev.dst] \in {L7[a] : a \in Address} \cup {None}
    BY <1>0, <2>2 DEF TypeOK
  <2>4. job' = [job EXCEPT !.at = "dest", !.l7 = byPort[Ev.dst]]
    BY <1>7 DEF EnrichPort
  <2>5. job' \in Job /\ job'.at = "dest"
    BY <2>1, <2>3, <2>4 DEF Job
  <2> QED
    BY <1>5, <1>7, <2>5 DEF EnrichPort
<1>8. CASE EnrichDest
  <2> DEFINE dest == Named(WorkloadForIP(Ev.dst), Ev)
  <2>1. job \in Job /\ job # None
    BY <1>0, <1>8 DEF EnrichDest, TypeOK, At
  <2>2. /\ Ev.dst \in Address /\ job.item \in Sent /\ job.item.conn \in Conn
        /\ Ev.host \in {None, job.item.conn.host}
    BY <2>1, RecordShape DEF Job, Ev
  <2>3. dest \in Identity
    <3>1. WorkloadForIP(Ev.dst) \in Identity
      BY <1>0, <2>2, Lookup
    <3>2. Ev.host # None => External(Ev.host) \in Identity
      BY <2>2 DEF Identity
    <3> QED
      BY <3>1, <3>2 DEF Named
  <2>4. job' = [job EXCEPT !.at = "decide", !.dest = dest]
    BY <1>8 DEF EnrichDest
  <2> HIDE DEF dest
  <2>5. job' \in Job /\ job'.dest = dest
    BY <2>1, <2>3, <2>4 DEF Job
  <2> QED
    BY <1>5, <1>8, <2>3, <2>5 DEF EnrichDest
<1>9. CASE Drop \/ Return
  BY <1>0, <1>9 DEF Drop, Return, TypeOK, cache
<1>10. CASE Hand
  <2>1. job \in Job /\ job # None /\ job.dest \in Identity
    BY <1>0, <1>10 DEF Hand, TypeOK, At
  <2>2. job' \in Job /\ job'.dest = job.dest
    BY <1>10, <2>1 DEF Hand, Job
  <2> QED
    BY <1>5, <1>10, <2>1, <2>2 DEF Hand
<1>11. CASE UNCHANGED vars
  BY <1>0, <1>11 DEF TypeOK, vars, cache
<1> QED
  BY <1>1, <1>2, <1>3, <1>4, <1>6, <1>7, <1>8, <1>9, <1>10, <1>11 DEF Next, Handle

\* A stage of the handling keeps what is known of the two ends and adds to it.
LEMMA IInvStep == IInv /\ [Next]_vars => IInv'
<1> SUFFICES ASSUME IInv, [Next]_vars
             PROVE  (SettledNow /\ UIDPending /\ SourceKnown /\ DestKnown /\ Kept)'
  BY TypeStep DEF IInv
<1> DEFINE Goal == (SettledNow /\ UIDPending /\ SourceKnown /\ DestKnown /\ Kept)'
<1>0. TypeOK /\ TypeOK'
  BY TypeStep DEF IInv
<1>1. ASSUME job' = None PROVE Goal
  BY <1>1 DEF SettledNow, UIDPending, SourceKnown, DestKnown, Kept, At
<1>2. CASE Cached /\ job # None
  <2> DEFINE now == SettledEnds(job.item.ev, byIP', byUID', byPort')
  <2>1. job' = [job EXCEPT !.settled = job.settled \cap now] /\ job \in Job
    BY <1>0, <1>2 DEF Cached, TypeOK
  <2> HIDE DEF now
  <2>2. /\ job'.item = job.item /\ job'.at = job.at /\ job'.source = job.source
        /\ job'.l7 = job.l7 /\ job'.dest = job.dest /\ job'.settled = job.settled \cap now
    BY <2>1 DEF Job
  <2>3. SettledNow'
    BY <2>2 DEF SettledNow, now
  <2> QED
    BY <1>2, <2>2, <2>3 DEF IInv, UIDPending, SourceKnown, DestKnown, Kept, At, Ev
<1>3. CASE EnrichSource
  <2> DEFINE i == Head(todo)
             source == WorkloadForIP(i.ev.src)
             needs == NeedsUID(i.ev, source)
             settled == SettledEnds(i.ev, byIP, byUID, byPort)
  <2>1. /\ job' = [item |-> i, at |-> IF needs THEN "uid" ELSE "port", source |-> source,
                    l7 |-> None, dest |-> None, settled |-> settled]
        /\ UNCHANGED cache
    BY <1>3 DEF EnrichSource
  <2>2. i \in Sent
    BY <1>0, <1>3 DEF EnrichSource, TypeOK
  <2>3. "source" \in settled =>
          source = IF Holder[i.ev.src] # None THEN Holder[i.ev.src] ELSE External(i.ev.src)
    BY <1>0, <2>2, Lookup, RecordShape DEF SettledEnds
  <2>4. needs => i.ev.uid # None
    BY DEF NeedsUID
  <2>5. needs /\ "source" \in settled => TrueSource(i) = PodOf[i.ev.uid]
    <3> SUFFICES ASSUME needs, "source" \in settled PROVE TrueSource(i) = PodOf[i.ev.uid]
      OBVIOUS
    <3>1. i.ev.outbound /\ Holder[i.ev.src] # None /\ i.ev.src \in Address
      BY <2>2, <2>4, RecordShape
    <3>2. Holder[i.ev.src].kind = "node"
      BY <2>3, <3>1, IdentityAssumption DEF NeedsUID
    <3> QED
      BY <2>2, <2>4, <3>1, <3>2, Truth
  <2>6. ~needs /\ "source" \in settled => source = TrueSource(i)
    <3> SUFFICES ASSUME ~needs, "source" \in settled PROVE source = TrueSource(i)
      OBVIOUS
    <3>1. Holder[i.ev.src] # None => ~(Holder[i.ev.src].kind = "node" /\ i.ev.uid # None)
      BY <2>3 DEF NeedsUID
    <3> QED
      BY <2>2, <2>3, <3>1, Truth
  <2> HIDE DEF i, source, needs
  <2>7. SettledNow'
    BY <2>1 DEF SettledNow, cache, SettledEnds
  <2> HIDE DEF settled
  <2>8. /\ job'.item = i /\ job'.source = source /\ job'.settled = settled
        /\ job'.at = IF needs THEN "uid" ELSE "port"
    BY <2>1
  <2> QED
    BY <2>4, <2>5, <2>6, <2>7, <2>8 DEF UIDPending, SourceKnown, DestKnown, Kept, At, Ev
<1>4. ASSUME job # None, job' # None, UNCHANGED cache,
             job'.item = job.item, job'.settled = job.settled
      PROVE  SettledNow'
  BY <1>4 DEF IInv, SettledNow, cache, SettledEnds
<1>5. CASE EnrichUID
  <2> DEFINE source == IF byUID[Ev.uid] # None THEN byUID[Ev.uid] ELSE job.source
  <2>1. job # None /\ job \in Job /\ At("uid") /\ Ev.uid # None
    BY <1>0, <1>5 DEF EnrichUID, At, TypeOK, IInv, UIDPending
  <2>2. job' = [job EXCEPT !.at = "port", !.source = source] /\ UNCHANGED cache
    BY <1>5 DEF EnrichUID
  <2>3. "source" \in job.settled => source = TrueSource(job.item)
    <3> SUFFICES ASSUME "source" \in job.settled PROVE source = TrueSource(job.item)
      OBVIOUS
    <3>1. Ev.uid \in UID
      BY <2>1, RecordShape DEF Job, Ev
    <3>2. byUID[Ev.uid] = PodOf[Ev.uid]
      BY <2>1 DEF IInv, SettledNow, SettledEnds, Ev
    <3> QED
      BY <2>1, <3>1, <3>2, IdentityAssumption DEF IInv, UIDPending
  <2> HIDE DEF source
  <2>4. /\ job'.item = job.item /\ job'.at = "port" /\ job'.source = source
        /\ job'.settled = job.settled
    BY <2>1, <2>2 DEF Job
  <2>5. (job # None)' => SettledNow'
    BY <1>4, <2>1, <2>2, <2>4
  <2> QED
    BY <2>3, <2>4, <2>5 DEF SettledNow, UIDPending, SourceKnown, DestKnown, Kept, At, Ev
<1>6. CASE EnrichPort
  <2>1. job # None /\ job \in Job /\ job.at = "port"
    BY <1>0, <1>6 DEF EnrichPort, At, TypeOK
  <2>2. job' = [job EXCEPT !.at = "dest", !.l7 = byPort[Ev.dst]] /\ UNCHANGED cache
    BY <1>6 DEF EnrichPort
  <2>3. /\ job'.item = job.item /\ job'.at = "dest" /\ job'.source = job.source
        /\ job'.settled = job.settled /\ job'.l7 = byPort[Ev.dst]
    BY <2>1, <2>2 DEF Job
  <2>4. "dest" \in job.settled => byPort[Ev.dst] = L7[Ev.dst]
    BY <2>1 DEF IInv, SettledNow, SettledEnds, Ev
  <2>5. (job # None)' => SettledNow'
    BY <1>4, <2>1, <2>2, <2>3
  <2> QED
    BY <2>1, <2>3, <2>4, <2>5 DEF IInv, SettledNow, UIDPending, SourceKnown, DestKnown, Kept, At, Ev
<1>7. CASE EnrichDest
  <2> DEFINE dest == Named(WorkloadForIP(Ev.dst), Ev)
  <2>1. job # None /\ job \in Job /\ job.at = "dest"
    BY <1>0, <1>7 DEF EnrichDest, At, TypeOK
  <2>2. job' = [job EXCEPT !.at = "decide", !.dest = dest] /\ UNCHANGED cache
    BY <1>7 DEF EnrichDest
  <2>3. "dest" \in job.settled => dest = TrueDest(job.item)
    <3> SUFFICES ASSUME "dest" \in job.settled PROVE dest = TrueDest(job.item)
      OBVIOUS
    <3>1. job.item \in Sent /\ Ev = job.item.ev /\ Ev.dst \in Address
      BY <2>1, RecordShape DEF Job, Ev
    <3>2. byIP[Ev.dst] = Holder[Ev.dst]
      BY <2>1 DEF IInv, SettledNow, SettledEnds, Ev
    <3>3. WorkloadForIP(Ev.dst) = IF Holder[Ev.dst] # None THEN Holder[Ev.dst]
                                  ELSE External(Ev.dst)
      BY <1>0, <3>1, <3>2, Lookup
    <3>4. CASE Holder[Ev.dst] # None
      <4>1. ~IsExternal(Holder[Ev.dst])
        BY <3>1, <3>4, IdentityAssumption
      <4> QED
        BY <3>1, <3>3, <3>4, <4>1, Truth DEF Named
    <3>5. CASE Holder[Ev.dst] = None
      <4>1. IsExternal(External(Ev.dst))
        BY DEF External, IsExternal
      <4>2. dest = External(IF Ev.host # None THEN Ev.host ELSE Ev.dst)
        BY <3>3, <3>5, <4>1 DEF Named
      <4> QED
        BY <3>1, <3>5, <4>2, Truth
    <3> QED
      BY <3>4, <3>5
  <2> HIDE DEF dest
  <2>4. /\ job'.item = job.item /\ job'.at = "decide" /\ job'.source = job.source
        /\ job'.settled = job.settled /\ job'.l7 = job.l7 /\ job'.dest = dest
    BY <2>1, <2>2 DEF Job
  <2>5. (job # None)' => SettledNow'
    BY <1>4, <2>1, <2>2, <2>4
  <2> QED
    BY <2>1, <2>3, <2>4, <2>5 DEF IInv, SettledNow, UIDPending, SourceKnown, DestKnown, Kept, At, Ev
<1>8. CASE Hand
  <2>1. job # None /\ job \in Job /\ job.at = "decide"
    BY <1>0, <1>8 DEF Hand, At, TypeOK
  <2>2. /\ job'.item = job.item /\ job'.at = "handed" /\ job'.source = job.source
        /\ job'.settled = job.settled /\ job'.l7 = job.l7 /\ job'.dest = job.dest
    BY <1>8, <2>1 DEF Hand, Job
  <2>3. ~Ev.outbound => IsExternal(job.source)
    BY <1>8 DEF Hand, IsReversedDuplicate, Call
  <2>4. (job # None)' => SettledNow'
    BY <1>4, <1>8, <2>1, <2>2 DEF Hand
  <2> QED
    BY <2>1, <2>2, <2>3, <2>4 DEF IInv, SettledNow, UIDPending, SourceKnown, DestKnown, Kept, At, Ev
<1>9. CASE UNCHANGED vars
  BY <1>9 DEF vars, cache, IInv, SettledNow, SettledEnds, UIDPending, SourceKnown, DestKnown,
              Kept, At, Ev
<1>10. ASSUME NEW b \in Batch, Report(b) PROVE job' = None
  BY <1>10 DEF Report
<1>11. CASE SkipInvalid \/ Drop \/ Return \/ (Cached /\ job = None)
  BY <1>1, <1>11 DEF SkipInvalid, Drop, Return, Cached
<1> QED
  BY <1>1, <1>2, <1>3, <1>5, <1>6, <1>7, <1>8, <1>9, <1>10, <1>11 DEF Next, Handle

\* Every reachable state of a Report call is well typed, and an edge handed on has
\* both ends.
THEOREM TypeCorrect == Spec => []TypeOK
<1>1. IInv => TypeOK
  BY DEF IInv
<1> QED
  BY <1>1, InitIInv, IInvStep, PTL DEF Spec

LEMMA EndsAreTrue == IInv => TrueEnds
<1> SUFFICES ASSUME IInv, At("handed") PROVE TrueEnds
  BY DEF TrueEnds
<1>1. job # None /\ job \in Job /\ job.at = "handed"
  BY DEF At, IInv, TypeOK
<1>2. job.item \in Sent /\ Ev = job.item.ev
  BY <1>1 DEF Job, Ev
<1>3. /\ Out.source = job.source /\ Out.dest = job.dest /\ Out.port = Ev.dport
      /\ Out.l7 = AppProtocol(job.l7)
  BY DEF Out, Call
<1>4. "source" \in job.settled => job.source = TrueSource(job.item)
  BY <1>1 DEF IInv, SourceKnown
<1>5. "dest" \in job.settled => job.dest = TrueDest(job.item) /\ job.l7 = L7[Ev.dst]
  BY <1>1 DEF IInv, DestKnown
<1>6. Ev.dport = job.item.conn.port /\ TrueL7(job.item) = AppProtocol(L7[Ev.dst])
  BY <1>2, RecordShape, Truth
<1> QED
  BY <1>3, <1>4, <1>5, <1>6 DEF TrueEnds

\* Whatever the informer handlers write between the lookups of one record, each
\* end of a reported edge whose entries stayed right is the true one, with the
\* caller first, its port and the declared protocol; for any cluster and records.
THEOREM EndsTrue == Spec => []TrueEnds
  BY EndsAreTrue, InitIInv, IInvStep, PTL DEF Spec

\* An accepted record is settled outside only if its caller has no identity.
LEMMA OutsideCaller ==
  ASSUME NEW i \in Sent, ~i.ev.outbound
  PROVE  IsExternal(TrueSource(i)) <=> Holder[i.conn.from] = None
<1>1. i.ev.src = i.conn.from /\ i.ev.src \in Address /\ i.ev.uid = None
  BY RecordShape
<1>2. CASE Holder[i.ev.src] = None
  <2>1. TrueSource(i) = External(i.ev.src)
    BY <1>2, Truth
  <2>2. IsExternal(External(i.ev.src))
    BY DEF External, IsExternal
  <2> QED
    BY <1>1, <1>2, <2>1, <2>2
<1>3. CASE Holder[i.ev.src] # None
  <2>1. TrueSource(i) = Holder[i.ev.src]
    BY <1>1, <1>3, Truth
  <2> QED
    BY <1>1, <1>3, <2>1, IdentityAssumption
<1> QED
  BY <1>2, <1>3

LEMMA MirrorsAreDropped == IInv => NoMirror
<1> SUFFICES ASSUME IInv, At("handed"), ~Ev.outbound
             PROVE  /\ IsExternal(Out.source)
                    /\ "source" \in job.settled => Holder[job.item.conn.from] = None
  BY DEF NoMirror
<1>1. job # None /\ job.at = "handed" /\ job.item \in Sent /\ Ev = job.item.ev
  BY DEF At, IInv, TypeOK, Job, Ev
<1>2. IsExternal(job.source) /\ Out.source = job.source
  BY DEF IInv, Kept, Out, Call
<1>3. "source" \in job.settled => job.source = TrueSource(job.item)
  BY <1>1 DEF IInv, SourceKnown
<1> QED
  BY <1>1, <1>2, <1>3, OutsideCaller

\* A call inside the cluster is never reported by its accepting end, unless the
\* cache lost the caller while the record was handled.
THEOREM NeverMirrored == Spec => []NoMirror
  BY MirrorsAreDropped, InitIInv, IInvStep, PTL DEF Spec

LEMMA DropStep ==
  IInv /\ [Next]_vars =>
    [(At("decide") /\ job' = None /\ job.settled = {"source", "dest"}) =>
       \/ ~Ev.outbound /\ Holder[job.item.conn.from] # None
       \/ ShouldIgnore(TrueSource(job.item)) \/ ShouldIgnore(TrueDest(job.item))]_vars
<1> SUFFICES ASSUME IInv, [Next]_vars, At("decide"), job' = None,
                    job.settled = {"source", "dest"}
             PROVE  \/ ~Ev.outbound /\ Holder[job.item.conn.from] # None
                    \/ ShouldIgnore(TrueSource(job.item)) \/ ShouldIgnore(TrueDest(job.item))
  OBVIOUS
<1>1. job \in Job /\ job # None /\ job.at = "decide"
  BY DEF At, IInv, TypeOK
<1>2. job.item \in Sent /\ Ev = job.item.ev /\ Ev.outbound \in BOOLEAN
  BY <1>1, RecordShape DEF Job, Ev
\* A step that keeps a record keeps it different from None.
<1>3. Drop
  <2>1. CASE Cached
    <3> DEFINE now == job.settled \cap SettledEnds(job.item.ev, byIP', byUID', byPort')
    <3>1. job' = [job EXCEPT !.settled = now] /\ now \in SUBSET {"source", "dest"}
      BY <1>1, <2>1 DEF Cached, Job
    <3> HIDE DEF now
    <3>2. job' \in Job
      BY <1>1, <3>1 DEF Job
    <3> QED
      BY <3>2, NoneAssumption
  <2>2. CASE Hand
    <3>1. job' \in Job
      BY <1>1, <2>2 DEF Hand, Job
    <3> QED
      BY <3>1, NoneAssumption
  <2> QED
    BY <1>1, <2>1, <2>2
       DEF Next, Handle, vars, cache, At, Report, SkipInvalid, EnrichSource, EnrichUID,
           EnrichPort, EnrichDest, Return
<1>4. /\ job.source = TrueSource(job.item) /\ job.dest = TrueDest(job.item)
      /\ Call.source = job.source /\ Call.dest = job.dest
  BY <1>1 DEF IInv, SourceKnown, DestKnown, Call
<1>5. CASE IsReversedDuplicate(Ev, Call)
  BY <1>2, <1>4, <1>5, OutsideCaller DEF IsReversedDuplicate
<1>6. CASE ShouldIgnoreCall(Call)
  BY <1>4, <1>6 DEF ShouldIgnoreCall
<1> QED
  BY <1>3, <1>5, <1>6 DEF Drop

\* A record whose entries stayed right is dropped only as the other half of a call
\* inside the cluster or for an ignored end.
THEOREM OnlyDuplicatesDropped == Spec => NothingElseDropped
  BY DropStep, InitIInv, IInvStep, PTL DEF Spec, NothingElseDropped
=============================================================================
