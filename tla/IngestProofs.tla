---------------------------- MODULE IngestProofs ----------------------------
(***************************************************************************)
(* Proofs about Ingest, for any number of producers, any channel capacity, *)
(* batch size and ring size: its variables keep their types (a counter is  *)
(* a natural number, dbCh and the batch stay within their limits), its     *)
(* counters agree, it implements Recorder (every step of Ingest is a step  *)
(* of Recorder or leaves fate and stored alone), a shutdown loses only     *)
(* what is queued, the ring returns its newest records, and it leads the   *)
(* table.                                                                  *)
(***************************************************************************)
EXTENDS Ingest, FiniteSetTheorems, TLAPS

\* Where a producer is handling a packet.
Handling == {"transport", "auth", "parse"} \cup Holding

\* Where only the HEP producers go.
HepPlaces == {"transport", "auth", "parse"}

\* What TypeOK needs to be inductive: the packet in hand has a number and is
\* handled by its own protocol's code, and the writer waits in its select only
\* with room for one more record.
Numbered  == \A p \in Producers : /\ pc[p] \in Handling => packets[p] >= 1
                                  /\ pc[p] \in HepPlaces => p \notin Sip
BatchRoom == wpc = "select" => Len(batch) < BatchSize

TypeInv == TypeOK /\ Numbered /\ BatchRoom

\* The same by what an action can disturb: the producers, the counters, the
\* writer and its channel, the ring, the history, the two flags.
ProducersOK == /\ pc \in [Producers -> Places]
               /\ cur \in [Producers -> Shapes \cup {NoMsg}]
               /\ packets \in [Producers -> 0 .. MaxPackets]
               /\ \A p \in Producers : /\ pc[p] \in Holding => cur[p] \in Shapes
                                       /\ pc[p] \in Handling => packets[p] >= 1
                                       /\ pc[p] \in HepPlaces => p \notin Sip
MetricsOK   == m \in [Fields -> Nat]
WriterOK    == /\ ch \in Seq(Ids) /\ Len(ch) <= Cap
               /\ batch \in Seq(Ids) /\ Len(batch) <= BatchSize
               /\ wpc \in {"select", "insert", "ok", "err", "done"}
               /\ stored \in Seq(Ids)
               /\ BatchRoom
FateOK      == fate \in [Ids -> {"none", "pending", "dropped", "ok", "err"}]
FlagsOK     == cancelled \in BOOLEAN /\ exited \in BOOLEAN /\ stopping \in BOOLEAN

Parts == ProducersOK /\ MetricsOK /\ WriterOK /\ R!RingTypeOK /\ FateOK /\ FlagsOK

\* The type invariant, variable by variable.
LEMMA TypeInvParts == (TypeInv <=> Parts) /\ (TypeInv' <=> Parts')
<1>1. TypeInv => Parts
  <2> SUFFICES ASSUME TypeInv PROVE Parts
    OBVIOUS
  <2>1. ProducersOK
    BY DEF TypeInv, TypeOK, Numbered, ProducersOK
  <2>2. MetricsOK /\ WriterOK /\ R!RingTypeOK /\ FateOK
    BY DEF TypeInv, TypeOK, MetricsOK, WriterOK, FateOK
  <2>3. FlagsOK
    BY DEF TypeInv, TypeOK, FlagsOK
  <2> QED
    BY <2>1, <2>2, <2>3 DEF Parts
<1>2. Parts => TypeInv
  <2> SUFFICES ASSUME Parts PROVE TypeInv
    OBVIOUS
  <2>1. Numbered /\ BatchRoom
    BY DEF Parts, ProducersOK, WriterOK, Numbered
  <2>2. TypeOK
    BY DEF TypeOK, Parts, ProducersOK, MetricsOK, WriterOK, FateOK, FlagsOK
  <2> QED
    BY <2>1, <2>2 DEF TypeInv
<1> QED
  BY <1>1, <1>2, PTL

\* Metrics.Inc changes one counter and leaves the others alone.
LEMMA IncEffect ==
    ASSUME m \in [Fields -> Nat], NEW f \in Fields, NEW d \in Nat, Inc(f, d)
    PROVE  /\ m' \in [Fields -> Nat]
           /\ m'[f] = m[f] + d
           /\ \A g \in Fields \ {f} : m'[g] = m[g]
  BY DEF Inc

\* No counter, no goroutine has moved yet.
LEMMA InitType == Init => TypeInv
<1> SUFFICES ASSUME Init PROVE TypeInv
  OBVIOUS
<1> USE IngestAssumption DEF Init
<1>1. cancelled \in BOOLEAN /\ exited \in BOOLEAN /\ stopping \in BOOLEAN
  OBVIOUS
<1>2. pc \in [Producers -> {"accept", "top"}]
  BY DEF Start
<1>3. pc \in [Producers -> Places] /\ \A p \in Producers : pc[p] \notin Handling
  BY <1>2 DEF Places, Handling, Holding
<1>4. cur \in [Producers -> Shapes \cup {NoMsg}] /\ packets \in [Producers -> 0 .. MaxPackets]
  OBVIOUS
<1>5. R!RingTypeOK
  BY DEF R!RingInit, R!RingTypeOK
<1>6. /\ m \in [Fields -> Nat]
      /\ fate \in [Ids -> {"none", "pending", "dropped", "ok", "err"}]
  OBVIOUS
<1>7. /\ ch \in Seq(Ids) /\ Len(ch) <= Cap
      /\ batch \in Seq(Ids) /\ Len(batch) < BatchSize
      /\ stored \in Seq(Ids)
  OBVIOUS
<1> QED
  BY <1>1, <1>3, <1>4, <1>5, <1>6, <1>7
  DEF TypeInv, TypeOK, Numbered, BatchRoom, Handling, HepPlaces
-----------------------------------------------------------------------------
\* A part of the invariant whose variables do not change is kept.
LEMMA Unchanged ==
    /\ ProducersOK /\ UNCHANGED producerVars => ProducersOK'
    /\ MetricsOK /\ UNCHANGED m => MetricsOK'
    /\ WriterOK /\ UNCHANGED writerVars => WriterOK'
    /\ R!RingTypeOK /\ UNCHANGED ringVars => R!RingTypeOK'
    /\ FateOK /\ UNCHANGED fate => FateOK'
<1>1. ProducersOK /\ UNCHANGED producerVars => ProducersOK'
  BY DEF ProducersOK, producerVars
<1>2. MetricsOK /\ UNCHANGED m => MetricsOK'
  BY DEF MetricsOK
<1>3. WriterOK /\ UNCHANGED writerVars => WriterOK'
  BY DEF WriterOK, writerVars, BatchRoom
<1>4. R!RingTypeOK /\ UNCHANGED ringVars => R!RingTypeOK'
  BY DEF R!RingTypeOK, ringVars
<1>5. FateOK /\ UNCHANGED fate => FateOK'
  BY DEF FateOK
<1> QED
  BY <1>1, <1>2, <1>3, <1>4, <1>5

\* A producer goes to a place where it may be.
LEMMA MoveOK ==
    ASSUME ProducersOK, NEW p \in Producers, NEW place \in Places, Goto(p, place),
           UNCHANGED <<cur, packets>>,
           place \in Holding => cur[p] \in Shapes,
           place \in Handling => packets[p] >= 1,
           place \in HepPlaces => p \notin Sip
    PROVE  ProducersOK'
  BY DEF ProducersOK, Goto

\* After a packet a producer is nowhere in its handling.
LEMMA AfterPacketOK ==
    ASSUME IngestAssumption, NEW p \in Producers, NEW place \in AfterPacket(p)
    PROVE  place \in Places \ Handling
  BY DEF AfterPacket, Places, Handling, Holding

\* A packet is read: it gets the next number.
LEMMA NextPacketOK ==
    ASSUME ProducersOK, IngestAssumption, NEW p \in Producers, NextPacket(p)
    PROVE  /\ packets' \in [Producers -> 0 .. MaxPackets]
           /\ packets'[p] >= 1
           /\ \A q \in Producers \ {p} : packets'[q] = packets[q]
           /\ <<p, packets'[p]>> \in Ids
  BY DEF ProducersOK, NextPacket, Ids

\* The counters that handleHEPPacket picks by transport are counters.
LEMMA TransportFieldOK ==
    ASSUME IngestAssumption, NEW p \in Producers, p \notin Sip
    PROVE  TransportField[Transport[p]] \in {"HEPUDP", "HEPTCP", "HEPTLS"}
  BY DEF Sip, TransportField
-----------------------------------------------------------------------------
\* The steps of a producer that only move it, and may bump one counter.
Bumps(p) == \/ AcceptPeer(p) \/ DenyPeer(p) \/ CheckDone(p) \/ ReadNothing(p)
            \/ HepTransport(p) \/ HepReject(p) \/ HepProto(p)
            \/ CountKind(p) \/ CountStatus(p) \/ BumpMethod(p) \/ QueueFull(p)

\* The small steps move one producer and no packet.
LEMMA BumpsMove ==
    ASSUME TypeInv, NEW p \in Producers, Bumps(p)
    PROVE  /\ UNCHANGED <<cancelled, exited, cur, packets, ringVars, writerVars, fate>>
           /\ \E place \in Places :
                 /\ Goto(p, place)
                 /\ place \in Holding => pc[p] \in Holding
                 /\ place \in Handling => pc[p] \in Handling
                 /\ place \in HepPlaces => pc[p] \in HepPlaces
<1> USE IngestAssumption DEF At
<1> USE DEF Places, Handling, Holding, HepPlaces
<1>1. CASE AcceptPeer(p)
  BY <1>1 DEF AcceptPeer
<1>2. CASE DenyPeer(p)
  BY <1>2 DEF DenyPeer
<1>3. CASE CheckDone(p)
  BY <1>3 DEF CheckDone
<1>4. CASE ReadNothing(p)
  BY <1>4 DEF ReadNothing
<1>5. CASE HepTransport(p)
  BY <1>5 DEF HepTransport
<1>6. CASE HepReject(p)
  BY <1>6, AfterPacketOK DEF HepReject
<1>7. CASE HepProto(p)
  BY <1>7 DEF HepProto
<1>8. CASE CountKind(p)
  BY <1>8 DEF CountKind
<1>9. CASE CountStatus(p)
  BY <1>9 DEF CountStatus
<1>10. CASE BumpMethod(p)
  BY <1>10 DEF BumpMethod
<1>11. CASE QueueFull(p)
  BY <1>11 DEF QueueFull
<1> QED
  BY <1>1, <1>2, <1>3, <1>4, <1>5, <1>6, <1>7, <1>8, <1>9, <1>10, <1>11 DEF Bumps

\* The counters of the accounting; none of these steps bumps one of them.
Ledger == {"MsgsTotal", "DBDrop", "DBOk", "DBErr"}

\* They change at most one counter, and none of those the books use.
LEMMA BumpsCount ==
    ASSUME TypeInv, NEW p \in Producers, Bumps(p)
    PROVE  UNCHANGED m \/ \E f \in Fields \ Ledger : Inc(f, 1)
<1> USE IngestAssumption DEF At, Fields, Ledger
<1>1. CASE AcceptPeer(p) \/ CheckDone(p) \/ ReadNothing(p) \/ QueueFull(p)
  BY <1>1 DEF AcceptPeer, CheckDone, ReadNothing, QueueFull
<1>2. CASE DenyPeer(p)
  BY <1>2 DEF DenyPeer
<1>3. CASE HepTransport(p)
  <2>1. p \notin Sip
    BY <1>3, TypeInvParts DEF Parts, HepTransport, ProducersOK, HepPlaces
  <2>2. TransportField[Transport[p]] \in Fields \ Ledger
    BY <2>1, TransportFieldOK
  <2> QED
    BY <1>3, <2>2 DEF HepTransport
<1>4. CASE HepReject(p)
  BY <1>4 DEF HepReject
<1>5. CASE HepProto(p)
  BY <1>5 DEF HepProto
<1>6. CASE CountKind(p)
  BY <1>6 DEF CountKind
<1>7. CASE CountStatus(p)
  BY <1>7 DEF CountStatus
<1>8. CASE BumpMethod(p)
  BY <1>8 DEF BumpMethod
<1> QED
  BY <1>1, <1>2, <1>3, <1>4, <1>5, <1>6, <1>7, <1>8 DEF Bumps

\* So they keep the types.
LEMMA BumpsType ==
    ASSUME TypeInv, NEW p \in Producers, Bumps(p)
    PROVE  TypeInv'
<1>1. PICK place \in Places : /\ Goto(p, place)
                              /\ place \in Holding => pc[p] \in Holding
                              /\ place \in Handling => pc[p] \in Handling
                              /\ place \in HepPlaces => pc[p] \in HepPlaces
  BY BumpsMove
<1>2. UNCHANGED <<cancelled, exited, cur, packets, ringVars, writerVars, fate>>
  BY BumpsMove
<1>3. ProducersOK'
  <2>1. /\ place \in Holding => cur[p] \in Shapes
        /\ place \in Handling => packets[p] >= 1
        /\ place \in HepPlaces => p \notin Sip
    BY <1>1, TypeInvParts DEF Parts, ProducersOK
  <2>2. ProducersOK /\ UNCHANGED <<cur, packets>>
    BY <1>2, TypeInvParts DEF Parts
  <2> QED
    BY <1>1, <2>1, <2>2, MoveOK
<1>4. MetricsOK'
  <2>1. MetricsOK
    BY TypeInvParts DEF Parts
  <2>2. CASE UNCHANGED m
    BY <2>1, <2>2 DEF MetricsOK
  <2>3. CASE \E f \in Fields : Inc(f, 1)
    BY <2>1, <2>3, IncEffect DEF MetricsOK
  <2> QED
    BY <2>2, <2>3, BumpsCount
<1>5. FlagsOK'
  BY <1>2, TypeInvParts DEF Parts, FlagsOK, writerVars
<1>6. Parts'
  BY <1>2, <1>3, <1>4, <1>5, TypeInvParts, Unchanged DEF Parts
<1> QED
  BY <1>6, TypeInvParts

\* handleHEPPacket's first step: the packet does not decode, or it does.
LEMMA HepReadType ==
    ASSUME TypeInv, NEW p \in Producers, HepBad(p) \/ HepGood(p)
    PROVE  TypeInv'
<1>1. ProducersOK /\ MetricsOK
  BY TypeInvParts DEF Parts
<1>2. /\ UNCHANGED <<cancelled, exited, cur, ringVars, writerVars, fate>>
      /\ NextPacket(p) /\ p \notin Sip
      /\ Inc("HEPErr", 1) \/ Inc("HEPTotal", 1)
      /\ \E place \in Places \ Holding : Goto(p, place)
  <2> USE DEF Places, Handling, Holding
  <2>1. CASE HepBad(p)
    BY <2>1, IngestAssumption, AfterPacketOK DEF HepBad
  <2>2. CASE HepGood(p)
    BY <2>2 DEF HepGood
  <2> QED
    BY <2>1, <2>2
<1>3. ProducersOK'
  <2>1. PICK place \in Places \ Holding : pc' = [pc EXCEPT ![p] = place]
    BY <1>2 DEF Goto
  <2>2. /\ packets' \in [Producers -> 0 .. MaxPackets]
        /\ packets'[p] >= 1
        /\ \A q \in Producers \ {p} : packets'[q] = packets[q]
    BY <1>1, <1>2, IngestAssumption, NextPacketOK
  <2> QED
    BY <1>1, <1>2, <2>1, <2>2 DEF ProducersOK
<1>4. MetricsOK'
  <2>1. "HEPErr" \in Fields /\ "HEPTotal" \in Fields
    BY DEF Fields
  <2> QED
    BY <1>1, <1>2, <2>1, IncEffect DEF MetricsOK
<1>5. FlagsOK'
  BY <1>2, TypeInvParts DEF Parts, FlagsOK, writerVars
<1>6. Parts'
  BY <1>2, <1>3, <1>4, <1>5, TypeInvParts, Unchanged DEF Parts
<1> QED
  BY <1>6, TypeInvParts

\* parseSIP and the count of the message.
LEMMA AcceptType ==
    ASSUME TypeInv, NEW p \in Producers, SipPacket(p) \/ HepMessage(p)
    PROVE  TypeInv'
<1> USE IngestAssumption
<1>1. ProducersOK /\ MetricsOK /\ FateOK
  BY TypeInvParts DEF Parts
<1>2. Accept(p)
  BY DEF SipPacket, HepMessage
<1>3. /\ packets' \in [Producers -> 0 .. MaxPackets]
      /\ packets'[p] >= 1
      /\ \A q \in Producers \ {p} : packets'[q] = packets[q]
  <2>1. CASE SipPacket(p)
    BY <2>1, <1>1, NextPacketOK DEF SipPacket
  <2>2. CASE HepMessage(p)
    BY <2>2, <1>1 DEF HepMessage, At, ProducersOK, Handling
  <2> QED
    BY <2>1, <2>2
<1>4. ProducersOK'
  <2>1. PICK shape \in Shapes : cur' = [cur EXCEPT ![p] = shape]
    BY <1>2 DEF Accept
  <2>2. pc' = [pc EXCEPT ![p] = "kind"]
    BY <1>2 DEF Accept, Goto
  <2> QED
    BY <1>1, <1>3, <2>1, <2>2 DEF ProducersOK, Places, Handling, Holding, HepPlaces
<1>5. MetricsOK'
  <2>1. "MsgsTotal" \in Fields
    BY DEF Fields
  <2> QED
    BY <1>1, <1>2, <2>1, IncEffect DEF MetricsOK, Accept
<1>6. FateOK'
  BY <1>1, <1>2 DEF FateOK, Accept
<1>7. FlagsOK' /\ UNCHANGED <<ringVars, writerVars>>
  BY <1>2, TypeInvParts DEF Parts, FlagsOK, Accept, writerVars
<1>8. Parts'
  BY <1>4, <1>5, <1>6, <1>7, TypeInvParts, Unchanged DEF Parts
<1> QED
  BY <1>8, TypeInvParts

\* The record in hand has an identity.
LEMMA IdOK ==
    ASSUME ProducersOK, NEW p \in Producers, pc[p] \in Handling
    PROVE  Id(p) \in Ids
  BY IngestAssumption DEF ProducersOK, Id, Ids

\* Ring.Push.
LEMMA PushType ==
    ASSUME TypeInv, NEW p \in Producers, PushRecent(p)
    PROVE  TypeInv'
<1> USE IngestAssumption
<1>1. ProducersOK /\ R!RingTypeOK
  BY TypeInvParts DEF Parts
<1>2. Id(p) \in Ids
  BY <1>1, IdOK DEF PushRecent, At, Handling, Holding
<1>3. R!RingTypeOK'
  BY <1>1, <1>2 DEF PushRecent, R!Push, R!RingTypeOK
<1>4. ProducersOK'
  <2>1. /\ pc[p] = "push" /\ Goto(p, "send") /\ UNCHANGED <<cur, packets>>
    BY DEF PushRecent, At
  <2> QED
    BY <1>1, <2>1, MoveOK DEF ProducersOK, Places, Handling, Holding, HepPlaces
<1>5. FlagsOK' /\ UNCHANGED <<m, writerVars, fate>>
  BY TypeInvParts DEF Parts, FlagsOK, PushRecent, writerVars
<1>6. Parts'
  BY <1>3, <1>4, <1>5, TypeInvParts, Unchanged DEF Parts
<1> QED
  BY <1>6, TypeInvParts

\* The send that finds room in dbCh.
LEMMA EnqueueType ==
    ASSUME TypeInv, NEW p \in Producers, Enqueue(p)
    PROVE  TypeInv'
<1> USE IngestAssumption
<1>1. ProducersOK /\ WriterOK
  BY TypeInvParts DEF Parts
<1>2. Id(p) \in Ids
  BY <1>1, IdOK DEF Enqueue, At, Handling, Holding
<1>3. WriterOK'
  BY <1>1, <1>2 DEF Enqueue, WriterOK, BatchRoom
<1>4. ProducersOK'
  <2>1. /\ pc[p] = "send" /\ Goto(p, "after") /\ UNCHANGED <<cur, packets>>
    BY DEF Enqueue, At
  <2> QED
    BY <1>1, <2>1, MoveOK DEF ProducersOK, Places, Handling, Holding, HepPlaces
<1>5. FlagsOK' /\ UNCHANGED <<m, ringVars, fate>>
  BY TypeInvParts DEF Parts, FlagsOK, Enqueue
<1>6. Parts'
  BY <1>3, <1>4, <1>5, TypeInvParts, Unchanged DEF Parts
<1> QED
  BY <1>6, TypeInvParts

\* The send that found none.
LEMMA CountDropType ==
    ASSUME TypeInv, NEW p \in Producers, CountDrop(p)
    PROVE  TypeInv'
<1> USE IngestAssumption
<1>1. ProducersOK /\ MetricsOK /\ FateOK
  BY TypeInvParts DEF Parts
<1>2. MetricsOK'
  <2>1. "DBDrop" \in Fields
    BY DEF Fields
  <2> QED
    BY <1>1, <2>1, IncEffect DEF MetricsOK, CountDrop
<1>3. FateOK'
  BY <1>1 DEF CountDrop, FateOK
<1>4. ProducersOK'
  <2>1. /\ pc[p] = "drop" /\ Goto(p, "after") /\ UNCHANGED <<cur, packets>>
    BY DEF CountDrop, At
  <2> QED
    BY <1>1, <2>1, MoveOK DEF ProducersOK, Places, Handling, Holding, HepPlaces
<1>5. FlagsOK' /\ UNCHANGED <<writerVars, ringVars>>
  BY TypeInvParts DEF Parts, FlagsOK, CountDrop, writerVars
<1>6. Parts'
  BY <1>2, <1>3, <1>4, <1>5, TypeInvParts, Unchanged DEF Parts
<1> QED
  BY <1>6, TypeInvParts

\* The echo, and back to reading.
LEMMA FinishType ==
    ASSUME TypeInv, NEW p \in Producers, Finish(p)
    PROVE  TypeInv'
<1> USE IngestAssumption
<1>1. ProducersOK /\ MetricsOK
  BY TypeInvParts DEF Parts
<1>2. MetricsOK'
  <2>1. "Echoes" \in Fields
    BY DEF Fields
  <2>2. CASE UNCHANGED m
    BY <1>1, <2>2 DEF MetricsOK
  <2>3. CASE Inc("Echoes", 1)
    BY <1>1, <2>1, <2>3, IncEffect DEF MetricsOK
  <2> QED
    BY <2>2, <2>3 DEF Finish
<1>3. ProducersOK'
  <2>1. PICK place \in AfterPacket(p) : Goto(p, place)
    BY DEF Finish
  <2>2. place \in Places \ Handling
    BY <2>1, AfterPacketOK
  <2>3. cur' = [cur EXCEPT ![p] = NoMsg] /\ UNCHANGED packets
    BY DEF Finish
  <2> QED
    BY <1>1, <2>1, <2>2, <2>3 DEF ProducersOK, Goto, Handling, HepPlaces
<1>4. FlagsOK' /\ UNCHANGED <<writerVars, ringVars, fate>>
  BY TypeInvParts DEF Parts, FlagsOK, Finish, writerVars
<1>5. Parts'
  BY <1>2, <1>3, <1>4, TypeInvParts, Unchanged DEF Parts
<1> QED
  BY <1>5, TypeInvParts

\* The steps of the writer.
LEMMA WriterType ==
    ASSUME TypeInv, Receive \/ FlushTick \/ Stop \/ Flushing
    PROVE  TypeInv'
<1> USE IngestAssumption
<1>1. WriterOK /\ MetricsOK /\ FateOK /\ FlagsOK
  BY TypeInvParts DEF Parts
<1>2. UNCHANGED <<cancelled, exited, producerVars, ringVars>>
  BY DEF Receive, FlushTick, Stop, Flushing, TxCommit, TxFail, TxCommitUnheard,
         CountOk, CountErr, CountBatch
<1>3. WriterOK' /\ MetricsOK' /\ FateOK' /\ FlagsOK'
  <2>1. CASE Receive
    <3>1. UNCHANGED <<m, fate, stopping>>
      BY <2>1 DEF Receive
    <3>2. WriterOK'
      <4>1. Head(ch) \in Ids /\ Tail(ch) \in Seq(Ids) /\ Len(Tail(ch)) = Len(ch) - 1
        BY <1>1, <2>1 DEF Receive, WriterOK
      <4>2. Len(batch) < BatchSize /\ Len(batch') = Len(batch) + 1 /\ batch' \in Seq(Ids)
        BY <1>1, <2>1, <4>1 DEF Receive, InSelect, WriterOK, BatchRoom
      <4> QED
        BY <1>1, <2>1, <4>1, <4>2 DEF Receive, WriterOK, BatchRoom
    <3> QED
      BY <1>1, <1>2, <3>1, <3>2 DEF MetricsOK, FateOK, FlagsOK
  <2>2. CASE FlushTick
    BY <1>1, <1>2, <2>2 DEF FlushTick, WriterOK, BatchRoom, MetricsOK, FateOK, FlagsOK
  <2>3. CASE Stop
    <3>1. WriterOK'
      BY <1>1, <2>3 DEF Stop, WriterOK, BatchRoom
    <3>2. MetricsOK' /\ FateOK'
      BY <1>1, <2>3 DEF Stop, MetricsOK, FateOK
    <3>3. FlagsOK'
      BY <1>1, <2>3 DEF Stop, FlagsOK
    <3> QED
      BY <3>1, <3>2, <3>3
  <2>4. CASE TxCommit \/ TxCommitUnheard
    <3>1. WriterOK'
      <4>1. stored \o batch \in Seq(Ids)
        BY <1>1 DEF WriterOK
      <4>2. /\ stored' = stored \o batch /\ wpc' \in {"ok", "err"}
            /\ UNCHANGED <<ch, batch>>
        BY <2>4 DEF TxCommit, TxCommitUnheard
      <4> QED
        BY <1>1, <4>1, <4>2 DEF WriterOK, BatchRoom
    <3>2. MetricsOK' /\ FateOK' /\ FlagsOK'
      BY <1>1, <2>4 DEF TxCommit, TxCommitUnheard, MetricsOK, FateOK, FlagsOK
    <3> QED
      BY <3>1, <3>2
  <2>5. CASE TxFail
    BY <1>1, <2>5 DEF TxFail, WriterOK, BatchRoom, MetricsOK, FateOK, FlagsOK
  <2>6. ASSUME NEW place \in {"ok", "err"}, NEW f \in {"DBOk", "DBErr"},
               NEW verdict \in {"ok", "err"}, CountBatch(place, f, verdict)
        PROVE  WriterOK' /\ MetricsOK' /\ FateOK' /\ FlagsOK'
    <3>1. WriterOK'
      BY <1>1, <2>6 DEF CountBatch, WriterOK, BatchRoom
    <3>2. MetricsOK'
      <4>1. f \in Fields /\ Len(batch) \in Nat
        BY <1>1 DEF Fields, WriterOK
      <4> QED
        BY <1>1, <2>6, <4>1, IncEffect DEF MetricsOK, CountBatch
    <3>3. FateOK'
      BY <1>1, <2>6 DEF CountBatch, FateOK
    <3>4. FlagsOK'
      BY <1>1, <2>6 DEF CountBatch, FlagsOK
    <3> QED
      BY <3>1, <3>2, <3>3, <3>4
  <2> QED
    BY <2>1, <2>2, <2>3, <2>4, <2>5, <2>6 DEF Flushing, CountOk, CountErr
<1>4. Parts'
  BY <1>2, <1>3, TypeInvParts, Unchanged DEF Parts
<1> QED
  BY <1>4, TypeInvParts

\* The signal and the end of the process.
LEMMA StopType ==
    ASSUME TypeInv, Cancel \/ Exit
    PROVE  TypeInv'
<1>1. UNCHANGED <<producerVars, ringVars, m, writerVars, fate>>
  BY DEF Cancel, Exit
<1>2. FlagsOK'
  BY <1>1, TypeInvParts DEF Parts, FlagsOK, Cancel, Exit, writerVars
<1>3. Parts'
  BY <1>1, <1>2, TypeInvParts, Unchanged DEF Parts
<1> QED
  BY <1>3, TypeInvParts

\* Every step keeps the types.
LEMMA NextType ==
    ASSUME TypeInv, [Next]_vars
    PROVE  TypeInv'
<1>1. CASE \E p \in Producers : Work(p) \/ Read(p)
  <2>1. PICK p \in Producers : Work(p) \/ Read(p)
    BY <1>1
  <2>2. \/ Bumps(p) \/ HepMessage(p) \/ PushRecent(p) \/ Enqueue(p) \/ CountDrop(p)
        \/ Finish(p) \/ HepBad(p) \/ HepGood(p) \/ SipPacket(p)
    BY <2>1 DEF Work, Read, Bumps
  <2> QED
    BY <2>2, BumpsType, HepReadType, AcceptType, PushType, EnqueueType, CountDropType,
       FinishType
<1>2. CASE Receive \/ FlushTick \/ Stop \/ Flushing
  BY <1>2, WriterType
<1>3. CASE Cancel \/ Exit
  BY <1>3, StopType
<1>4. CASE UNCHANGED vars
  <2>1. /\ UNCHANGED <<cancelled, exited, stopping>>
        /\ UNCHANGED <<producerVars, ringVars, m, writerVars, fate>>
    BY <1>4 DEF vars, writerVars
  <2>2. FlagsOK'
    BY <2>1, TypeInvParts DEF Parts, FlagsOK
  <2>3. Parts'
    BY <2>1, <2>2, TypeInvParts, Unchanged DEF Parts
  <2> QED
    BY <2>3, TypeInvParts
<1> QED
  BY <1>1, <1>2, <1>3, <1>4 DEF Next

\* The pipeline's variables keep their types: no counter goes negative, the
\* channel never holds more than its capacity, the batch never more than one
\* flush takes, and every queued record belongs to a packet that was read.
THEOREM IngestTypeCorrect == Spec => []TypeOK
<1>1. TypeInv => TypeOK
  BY DEF TypeInv
<1>2. TypeInv /\ [Next]_vars => TypeInv'
  BY NextType
<1> QED
  BY InitType, <1>1, <1>2, PTL DEF Spec
-----------------------------------------------------------------------------
(***************************************************************************)
(* The books of the capture pipeline: Accounting and StoredBounds.         *)
(***************************************************************************)
\* Where a message is counted in MsgsTotal, and neither queued nor dropped.
UnsentPlaces == {"kind", "status", "method", "push", "send", "drop"}

\* StoredBounds is not inductive: while a committed batch waits to be counted,
\* the table is ahead of DBOk by at least that batch.
CommittedAhead == wpc = "ok" => m["DBOk"] + Len(batch) <= Len(stored)

Books == Accounting /\ StoredBounds /\ CommittedAhead

Waiting == Cardinality(Unsent)

\* The lengths and counters the books are about are numbers.
LEMMA Numbers ==
    ASSUME TypeInv
    PROVE  /\ Waiting \in Nat /\ IsFiniteSet(Unsent)
           /\ Len(ch) \in Nat /\ Len(batch) \in Nat /\ Len(stored) \in Nat
           /\ \A f \in Ledger : f \in Fields /\ m[f] \in Nat
           /\ m["MsgsTotal"] \in Nat /\ m["DBDrop"] \in Nat
           /\ m["DBOk"] \in Nat /\ m["DBErr"] \in Nat
<1>1. IsFiniteSet(Unsent)
  BY IngestAssumption, FS_Subset DEF Unsent, AtAny
<1>2. Waiting \in Nat
  BY <1>1, FS_CardinalityType DEF Waiting
<1>3. Len(ch) \in Nat /\ Len(batch) \in Nat /\ Len(stored) \in Nat
  BY DEF TypeInv, TypeOK
<1>4. \A f \in Ledger : f \in Fields /\ m[f] \in Nat
  BY DEF TypeInv, TypeOK, Ledger, Fields
<1> QED
  BY <1>1, <1>2, <1>3, <1>4 DEF Ledger

\* Only the numbers in the books.
LEMMA BookNumbers ==
    ASSUME TypeInv
    PROVE  /\ Waiting \in Nat /\ Len(ch) \in Nat /\ Len(batch) \in Nat
           /\ m["MsgsTotal"] \in Nat /\ m["DBDrop"] \in Nat
           /\ m["DBOk"] \in Nat /\ m["DBErr"] \in Nat
  BY Numbers

\* Accounting, and what it says of the next state, with Waiting by its name.
LEMMA AccountingSum ==
    /\ Accounting <=> m["MsgsTotal"] = Waiting + Len(ch) + Len(batch) + m["DBDrop"]
                                       + m["DBOk"] + m["DBErr"]
    /\ Accounting' <=> m'["MsgsTotal"] = Waiting' + Len(ch') + Len(batch')
                                         + m'["DBDrop"] + m'["DBOk"] + m'["DBErr"]
  BY DEF Accounting, Waiting

\* Counting delta in one field of the ledger leaves the others.
LEMMA LedgerInc ==
    ASSUME TypeInv, NEW f \in Ledger, NEW delta \in Nat, Inc(f, delta)
    PROVE  m'[f] = m[f] + delta /\ \A g \in Ledger \ {f} : m'[g] = m[g]
<1>1. m \in [Fields -> Nat] /\ Ledger \subseteq Fields
  BY Numbers DEF TypeInv, TypeOK
<1> QED
  BY <1>1, IncEffect

\* How a move of one producer changes the number of messages in hand.
LEMMA WaitingMoves ==
    ASSUME TypeInv, NEW p \in Producers, NEW place, Goto(p, place)
    PROVE  /\ (place \in UnsentPlaces <=> pc[p] \in UnsentPlaces) => Waiting' = Waiting
           /\ place \in UnsentPlaces /\ pc[p] \notin UnsentPlaces
                => Waiting' = Waiting + 1
           /\ place \notin UnsentPlaces /\ pc[p] \in UnsentPlaces
                => Waiting' = Waiting - 1
<1>1. pc \in [Producers -> Places] /\ pc' = [pc EXCEPT ![p] = place]
  BY DEF TypeInv, TypeOK, Goto
<1>2. /\ Unsent = {q \in Producers : pc[q] \in UnsentPlaces}
      /\ Unsent' = {q \in Producers : pc'[q] \in UnsentPlaces}
  BY DEF Unsent, AtAny, UnsentPlaces
<1>3. IsFiniteSet(Unsent) /\ Waiting \in Nat
  BY Numbers
<1>4. CASE place \in UnsentPlaces <=> pc[p] \in UnsentPlaces
  <2>1. Unsent' = Unsent
    BY <1>1, <1>2, <1>4
  <2> QED
    BY <1>4, <2>1 DEF Waiting
<1>5. CASE place \in UnsentPlaces /\ pc[p] \notin UnsentPlaces
  <2>1. Unsent' = Unsent \cup {p} /\ p \notin Unsent
    BY <1>1, <1>2, <1>5
  <2> QED
    BY <1>3, <1>5, <2>1, FS_AddElement DEF Waiting
<1>6. CASE place \notin UnsentPlaces /\ pc[p] \in UnsentPlaces
  <2>1. Unsent' = Unsent \ {p} /\ p \in Unsent
    BY <1>1, <1>2, <1>6
  <2> QED
    BY <1>3, <1>6, <2>1, FS_RemoveElement DEF Waiting
<1> QED
  BY <1>4, <1>5, <1>6

\* A step that leaves the channel, the writer, the ledger and the number of
\* messages in hand alone keeps the books.
LEMMA SameBooks ==
    ASSUME Books, UNCHANGED writerVars, Waiting' = Waiting,
           \A f \in Ledger : m'[f] = m[f]
    PROVE  Books'
<1>1. UNCHANGED <<ch, batch, wpc, stored>>
  BY DEF writerVars
<1>2. /\ m'["MsgsTotal"] = m["MsgsTotal"] /\ m'["DBDrop"] = m["DBDrop"]
      /\ m'["DBOk"] = m["DBOk"] /\ m'["DBErr"] = m["DBErr"]
  BY DEF Ledger
<1> QED
  BY <1>1, <1>2 DEF Books, Accounting, StoredBounds, CommittedAhead, Waiting

\* Steps that bump a counter outside the ledger, or none.
LEMMA OtherCounters ==
    ASSUME TypeInv, UNCHANGED m \/ \E f \in Fields \ Ledger : Inc(f, 1)
    PROVE  \A f \in Ledger : m'[f] = m[f]
<1>1. m \in [Fields -> Nat] /\ Ledger \subseteq Fields
  BY Numbers DEF TypeInv, TypeOK
<1>2. CASE UNCHANGED m
  BY <1>2
<1>3. CASE \E f \in Fields \ Ledger : Inc(f, 1)
  BY <1>1, <1>3, IncEffect
<1> QED
  BY <1>2, <1>3
-----------------------------------------------------------------------------
\* The steps of a producer that carry no message across the books.
LEMMA QuietMoves ==
    ASSUME TypeInv, NEW p \in Producers,
           Bumps(p) \/ HepBad(p) \/ HepGood(p) \/ PushRecent(p) \/ Finish(p)
    PROVE  \E place : /\ Goto(p, place)
                      /\ place \in UnsentPlaces <=> pc[p] \in UnsentPlaces
<1> USE IngestAssumption
<1> USE DEF UnsentPlaces, At
<1>1. \A place \in AfterPacket(p) : place \notin UnsentPlaces
  BY AfterPacketOK DEF Handling, Holding
<1>2. CASE AcceptPeer(p) \/ DenyPeer(p) \/ CheckDone(p) \/ ReadNothing(p)
  BY <1>2 DEF AcceptPeer, DenyPeer, CheckDone, ReadNothing
<1>3. CASE HepTransport(p) \/ HepProto(p)
  BY <1>3 DEF HepTransport, HepProto
<1>4. CASE HepReject(p)
  BY <1>1, <1>4 DEF HepReject
<1>5. CASE CountKind(p) \/ CountStatus(p) \/ BumpMethod(p) \/ QueueFull(p)
  BY <1>5 DEF CountKind, CountStatus, BumpMethod, QueueFull
<1>6. CASE HepBad(p) \/ HepGood(p)
  BY <1>1, <1>6 DEF HepBad, HepGood, NextPacket
<1>7. CASE PushRecent(p)
  BY <1>7 DEF PushRecent
<1>8. CASE Finish(p)
  BY <1>1, <1>8 DEF Finish
<1> QED
  BY <1>2, <1>3, <1>4, <1>5, <1>6, <1>7, <1>8 DEF Bumps

\* Steps that neither accept, count nor store a message keep the books.
LEMMA QuietBooks ==
    ASSUME TypeInv, Books, NEW p \in Producers,
           Bumps(p) \/ HepBad(p) \/ HepGood(p) \/ PushRecent(p) \/ Finish(p)
    PROVE  Books'
<1> USE IngestAssumption
<1>1. UNCHANGED writerVars
  <2>1. CASE Bumps(p)
    BY <2>1, BumpsMove
  <2>2. CASE HepBad(p) \/ HepGood(p) \/ PushRecent(p) \/ Finish(p)
    BY <2>2 DEF HepBad, HepGood, PushRecent, Finish
  <2> QED
    BY <2>1, <2>2
<1>2. \A f \in Ledger : m'[f] = m[f]
  <2>1. UNCHANGED m \/ \E f \in Fields \ Ledger : Inc(f, 1)
    <3>1. CASE Bumps(p)
      BY <3>1, BumpsCount
    <3>2. CASE HepBad(p) \/ HepGood(p) \/ PushRecent(p) \/ Finish(p)
      BY <3>2 DEF HepBad, HepGood, PushRecent, Finish, Fields, Ledger
    <3> QED
      BY <3>1, <3>2
  <2> QED
    BY <2>1, OtherCounters
<1>3. \E place : /\ Goto(p, place)
                 /\ place \in UnsentPlaces <=> pc[p] \in UnsentPlaces
  BY QuietMoves
<1>4. Waiting' = Waiting
  BY <1>3, WaitingMoves
<1> QED
  BY <1>1, <1>2, <1>4, SameBooks

\* A message is accepted: one more in MsgsTotal, one more in hand.
LEMMA AcceptBooks ==
    ASSUME TypeInv, Books, NEW p \in Producers, SipPacket(p) \/ HepMessage(p)
    PROVE  Books'
<1>1. Accept(p) /\ pc[p] \in {"read", "parse"}
  BY DEF SipPacket, HepMessage, NextPacket, At
<1>2. Waiting' = Waiting + 1
  BY <1>1, WaitingMoves DEF Accept, UnsentPlaces
<1>3. /\ m'["MsgsTotal"] = m["MsgsTotal"] + 1 /\ m'["DBDrop"] = m["DBDrop"]
      /\ m'["DBOk"] = m["DBOk"] /\ m'["DBErr"] = m["DBErr"]
  <2>1. Inc("MsgsTotal", 1)
    BY <1>1 DEF Accept
  <2> QED
    BY <2>1, LedgerInc DEF Ledger
<1>4. UNCHANGED <<ch, batch, wpc, stored>>
  BY <1>1 DEF Accept, writerVars
<1>5. Accounting'
  <2>1. m["MsgsTotal"] = Waiting + Len(ch) + Len(batch) + m["DBDrop"] + m["DBOk"] + m["DBErr"]
    BY AccountingSum DEF Books
  <2>2. PICK w \in Nat, c \in Nat, b \in Nat, d \in Nat, o \in Nat, e \in Nat :
            /\ w = Waiting /\ c = Len(ch) /\ b = Len(batch)
            /\ d = m["DBDrop"] /\ o = m["DBOk"] /\ e = m["DBErr"]
    BY BookNumbers
  <2>3. (w + c + b + d + o + e) + 1 = (w + 1) + c + b + d + o + e
    OBVIOUS
  <2>4. m'["MsgsTotal"] = Waiting' + Len(ch') + Len(batch') + m'["DBDrop"] + m'["DBOk"] + m'["DBErr"]
    BY <1>2, <1>3, <1>4, <2>1, <2>2, <2>3
  <2> QED
    BY <2>4, AccountingSum
<1>6. StoredBounds' /\ CommittedAhead'
  BY <1>3, <1>4 DEF Books, StoredBounds, CommittedAhead
<1> QED
  BY <1>5, <1>6 DEF Books

\* A record goes from its producer into the channel.
LEMMA EnqueueBooks ==
    ASSUME TypeInv, Books, NEW p \in Producers, Enqueue(p)
    PROVE  Books'
<1>1. Waiting' = Waiting - 1
  BY WaitingMoves DEF Enqueue, At, UnsentPlaces
<1>2. Len(ch') = Len(ch) + 1
  BY DEF Enqueue, TypeInv, TypeOK
<1>3. UNCHANGED <<m, batch, wpc, stored>>
  BY DEF Enqueue
<1>4. Accounting'
  <2>1. m["MsgsTotal"] = Waiting + Len(ch) + Len(batch) + m["DBDrop"] + m["DBOk"] + m["DBErr"]
    BY AccountingSum DEF Books
  <2>2. m["MsgsTotal"] = Waiting' + Len(ch') + Len(batch) + m["DBDrop"] + m["DBOk"] + m["DBErr"]
    BY <1>1, <1>2, <2>1, BookNumbers
  <2> QED
    BY <1>3, <2>2, AccountingSum
<1>5. StoredBounds' /\ CommittedAhead'
  BY <1>3 DEF Books, StoredBounds, CommittedAhead
<1> QED
  BY <1>4, <1>5 DEF Books

\* A record that found no room is counted in DBDrop.
LEMMA DropBooks ==
    ASSUME TypeInv, Books, NEW p \in Producers, CountDrop(p)
    PROVE  Books'
<1>1. Waiting' = Waiting - 1
  BY WaitingMoves DEF CountDrop, At, UnsentPlaces
<1>2. /\ m'["DBDrop"] = m["DBDrop"] + 1 /\ m'["MsgsTotal"] = m["MsgsTotal"]
      /\ m'["DBOk"] = m["DBOk"] /\ m'["DBErr"] = m["DBErr"]
  BY LedgerInc DEF CountDrop, Ledger
<1>3. UNCHANGED <<ch, batch, wpc, stored>>
  BY DEF CountDrop, writerVars
<1>4. Accounting'
  <2>1. m["MsgsTotal"] = Waiting + Len(ch) + Len(batch) + m["DBDrop"] + m["DBOk"] + m["DBErr"]
    BY AccountingSum DEF Books
  <2>2. m["MsgsTotal"] = Waiting' + Len(ch) + Len(batch) + m'["DBDrop"] + m["DBOk"] + m["DBErr"]
    BY <1>1, <1>2, <2>1, BookNumbers
  <2> QED
    BY <1>2, <1>3, <2>2, AccountingSum
<1>5. StoredBounds' /\ CommittedAhead'
  BY <1>2, <1>3 DEF Books, StoredBounds, CommittedAhead
<1> QED
  BY <1>4, <1>5 DEF Books
-----------------------------------------------------------------------------
\* The writer leaves the producers alone, so Waiting too.
LEMMA WaitingKept ==
    ASSUME UNCHANGED pc
    PROVE  Waiting' = Waiting
  BY DEF Waiting, Unsent, AtAny

\* The writer takes a record, or starts the flush of its batch, or stops.
LEMMA SelectBooks ==
    ASSUME TypeInv, Books, Receive \/ FlushTick \/ Stop
    PROVE  Books'
<1>1. /\ wpc = "select" /\ wpc' \in {"select", "insert", "done"}
      /\ UNCHANGED <<pc, m, stored>>
  BY DEF Receive, FlushTick, Stop, InSelect, producerVars
<1>2. PICK d \in {0, 1} : Len(ch') = Len(ch) - d /\ Len(batch') = Len(batch) + d
  <2>1. CASE Receive
    <3>1. Len(Tail(ch)) = Len(ch) - 1 /\ Len(ch) >= 1 /\ Head(ch) \in Ids
      BY <2>1 DEF Receive, TypeInv, TypeOK
    <3>2. Len(batch') = Len(batch) + 1
      BY <2>1, <3>1 DEF Receive, TypeInv, TypeOK
    <3> QED
      BY <2>1, <3>1, <3>2, Numbers DEF Receive
  <2>2. CASE FlushTick \/ Stop
    BY <2>2, Numbers DEF FlushTick, Stop
  <2> QED
    BY <2>1, <2>2
<1>3. Waiting' = Waiting
  BY <1>1, WaitingKept
<1>4. StoredBounds' /\ CommittedAhead'
  BY <1>1, Numbers DEF Books, StoredBounds, CommittedAhead
<1>5. Accounting'
  <2>1. m["MsgsTotal"] = Waiting + Len(ch) + Len(batch) + m["DBDrop"] + m["DBOk"] + m["DBErr"]
    BY AccountingSum DEF Books
  <2>2. m["MsgsTotal"] = Waiting' + Len(ch') + Len(batch') + m["DBDrop"] + m["DBOk"] + m["DBErr"]
    BY <1>2, <1>3, <2>1, BookNumbers
  <2> QED
    BY <1>1, <2>2, AccountingSum
<1> QED
  BY <1>4, <1>5 DEF Books

\* The transaction commits, is heard to commit or not, or fails.
LEMMA TxBooks ==
    ASSUME TypeInv, Books, TxCommit \/ TxFail \/ TxCommitUnheard
    PROVE  Books'
<1>1. wpc = "insert" /\ UNCHANGED <<pc, m, ch, batch>>
  BY DEF TxCommit, TxFail, TxCommitUnheard, Inserting, producerVars
<1>2. Waiting' = Waiting
  BY <1>1, WaitingKept
<1>3. Accounting'
  BY <1>1, <1>2, AccountingSum DEF Books
<1>4. CASE TxCommit \/ TxCommitUnheard
  <2>1. Len(stored') = Len(stored) + Len(batch) /\ wpc' \in {"ok", "err"}
    BY <1>4 DEF TxCommit, TxCommitUnheard, TypeInv, TypeOK
  <2>2. StoredBounds' /\ CommittedAhead'
    BY <1>1, <2>1, Numbers DEF Books, StoredBounds, CommittedAhead
  <2> QED
    BY <1>3, <2>2 DEF Books
<1>5. CASE TxFail
  <2>1. UNCHANGED stored /\ wpc' = "err"
    BY <1>5 DEF TxFail
  <2>2. StoredBounds' /\ CommittedAhead'
    BY <1>1, <2>1, Numbers DEF Books, StoredBounds, CommittedAhead
  <2> QED
    BY <1>3, <2>2 DEF Books
<1> QED
  BY <1>4, <1>5

\* The outcome is counted once for every record of the batch.
LEMMA CountBooks ==
    ASSUME TypeInv, Books, CountOk \/ CountErr
    PROVE  Books'
<1>1. /\ UNCHANGED <<pc, ch, stored>> /\ batch' = << >>
      /\ wpc' \in {"done", "select"} /\ wpc \in {"ok", "err"}
  BY DEF CountOk, CountErr, CountBatch, producerVars
<1>2. Waiting' = Waiting /\ Len(batch') = 0
  BY <1>1, WaitingKept
<1>3. m'["MsgsTotal"] = m["MsgsTotal"] /\ m'["DBDrop"] = m["DBDrop"]
  BY LedgerInc, BookNumbers DEF CountOk, CountErr, CountBatch, Ledger
<1>4. \/ wpc = "ok" /\ m'["DBOk"] = m["DBOk"] + Len(batch) /\ m'["DBErr"] = m["DBErr"]
      \/ m'["DBOk"] = m["DBOk"] /\ m'["DBErr"] = m["DBErr"] + Len(batch)
  BY LedgerInc, BookNumbers DEF CountOk, CountErr, CountBatch, Ledger
<1>5. StoredBounds' /\ CommittedAhead'
  BY <1>1, <1>4, Numbers DEF Books, StoredBounds, CommittedAhead
<1>6. Accounting'
  <2>1. m["MsgsTotal"] = Waiting + Len(ch) + Len(batch) + m["DBDrop"] + m["DBOk"] + m["DBErr"]
    BY AccountingSum DEF Books
  <2>2. PICK w \in Nat, c \in Nat, b \in Nat, d \in Nat, o \in Nat, e \in Nat :
            /\ w = Waiting /\ c = Len(ch) /\ b = Len(batch)
            /\ d = m["DBDrop"] /\ o = m["DBOk"] /\ e = m["DBErr"]
    BY BookNumbers
  <2>3. /\ w + c + b + d + o + e = w + c + 0 + d + (o + b) + e
        /\ w + c + b + d + o + e = w + c + 0 + d + o + (e + b)
    OBVIOUS
  <2>4. m'["MsgsTotal"] = Waiting' + Len(ch') + Len(batch') + m'["DBDrop"] + m'["DBOk"] + m'["DBErr"]
    BY <1>1, <1>2, <1>3, <1>4, <2>1, <2>2, <2>3
  <2> QED
    BY <2>4, AccountingSum
<1> QED
  BY <1>5, <1>6 DEF Books
-----------------------------------------------------------------------------
\* Nothing has been counted, queued or stored at the start.
LEMMA InitBooks == Init => Books
<1> SUFFICES ASSUME Init PROVE Books
  OBVIOUS
<1>1. /\ m["MsgsTotal"] = 0 /\ m["DBDrop"] = 0 /\ m["DBOk"] = 0 /\ m["DBErr"] = 0
      /\ ch = << >> /\ batch = << >> /\ stored = << >> /\ wpc = "select"
  BY DEF Init, Fields
<1>2. Unsent = {}
  BY DEF Init, Start, Unsent, AtAny
<1>3. Cardinality(Unsent) = 0
  BY <1>2, FS_EmptySet
<1> QED
  BY <1>1, <1>3 DEF Books, Accounting, StoredBounds, CommittedAhead

\* Every step keeps the books.
LEMMA NextBooks ==
    ASSUME TypeInv, Books, [Next]_vars
    PROVE  Books'
<1>1. CASE \E p \in Producers : Work(p) \/ Read(p)
  <2>1. PICK p \in Producers : Work(p) \/ Read(p)
    BY <1>1
  <2>2. \/ Bumps(p) \/ HepMessage(p) \/ PushRecent(p) \/ Enqueue(p) \/ CountDrop(p)
        \/ Finish(p) \/ HepBad(p) \/ HepGood(p) \/ SipPacket(p)
    BY <2>1 DEF Work, Read, Bumps
  <2> QED
    BY <2>2, QuietBooks, AcceptBooks, EnqueueBooks, DropBooks
<1>2. CASE Receive \/ FlushTick \/ Stop
  BY <1>2, SelectBooks
<1>3. CASE Flushing
  BY <1>3, TxBooks, CountBooks DEF Flushing
<1>4. CASE Cancel \/ Exit \/ UNCHANGED vars
  <2>1. UNCHANGED <<pc, m>> /\ UNCHANGED writerVars
    BY <1>4 DEF Cancel, Exit, vars, producerVars
  <2>2. Waiting' = Waiting /\ \A f \in Ledger : m'[f] = m[f]
    BY <2>1, WaitingKept
  <2> QED
    BY <2>1, <2>2, SameBooks
<1> QED
  BY <1>1, <1>2, <1>3, <1>4 DEF Next

\* Every message that sipWorker and handleHEPPacket count in MsgsTotal is, at
\* any moment and however the goroutines interleave, in its producer's hands, in
\* dbCh, in the writer's batch, or counted once in DBDrop, DBOk or DBErr; and
\* the rows in captures are those of DBOk, and at most those of DBErr as well.
THEOREM IngestBooksBalance == Spec => [](Accounting /\ StoredBounds)
<1>1. Init => TypeInv /\ Books
  BY InitType, InitBooks
<1>2. TypeInv /\ Books /\ [Next]_vars => TypeInv' /\ Books'
  BY NextType, NextBooks
<1>3. Books => Accounting /\ StoredBounds
  BY DEF Books
<1> QED
  BY <1>1, <1>2, <1>3, PTL DEF Spec
-----------------------------------------------------------------------------
(***************************************************************************)
(* The other counters.  KindAccounting and HepAccounting compare counters  *)
(* that are bumped one after the other, each under its own lock; what makes *)
(* them inductive is who is between two of them.                           *)
(***************************************************************************)
\* The producers that have counted a message and not yet its kind, its method, its
\* status; and the requests that may still be answered by sipWorker.
KindPending   == AtAny({"kind"})
MethodPending == AtAny({"kind", "status", "method"})
OpenResponses == {p \in AtAny({"status"}) : cur[p].kind = "response"}
OpenRequests  == {p \in AtAny(Holding \ {"kind"}) : cur[p].kind = "request"}

KindInv ==
    /\ m["MsgsTotal"] = m["Requests"] + m["Responses"] + Cardinality(KindPending)
    /\ m["MsgsTotal"] = m["Methods"] + Cardinality(MethodPending)
    /\ m["Status2xx"] + m["Status4xx5xx"] + Cardinality(OpenResponses) <= m["Responses"]
    /\ m["Echoes"] + Cardinality(OpenRequests) <= m["Requests"]

\* The same for the packets that handleHEPPacket decodes.  Refused is the number of
\* packets turned away by the allow list; what HEPDeny counts beyond it are
\* connections, each by a goroutine that has left "accept" for good.
TransportPending == AtAny({"transport"})
VerdictPending   == AtAny({"transport", "auth"})
ParsePending     == AtAny({"parse"})
Admitted         == {p \in Streams : pc[p] # "accept"}

ProtoSum == m["HEPSIP"] + m["HEPRTCP"] + m["HEPRTP"] + m["HEPRTCPXR"] + m["HEPOther"]
Refused  == m["HEPTotal"] - m["HEPAuthFail"] - ProtoSum - Cardinality(VerdictPending)

HepInv ==
    /\ \A p \in Producers : pc[p] = "accept" => p \in Streams
    /\ m["HEPTotal"] = m["HEPUDP"] + m["HEPTCP"] + m["HEPTLS"] + Cardinality(TransportPending)
    /\ Refused \in 0 .. m["HEPDeny"]
    /\ m["HEPDeny"] - Refused <= Cardinality(Admitted)
    /\ Sip = {} => m["MsgsTotal"] + Cardinality(ParsePending) = ProtoSum

\* Two sets that differ at most by p.
LEMMA OneMoves ==
    ASSUME NEW A, NEW B, NEW p, IsFiniteSet(A), \A q : q # p => (q \in A <=> q \in B)
    PROVE  /\ Cardinality(A) \in Nat /\ Cardinality(B) \in Nat
           /\ (p \in A <=> p \in B) => Cardinality(B) = Cardinality(A)
           /\ p \notin A /\ p \in B => Cardinality(B) = Cardinality(A) + 1
           /\ p \in A /\ p \notin B => Cardinality(B) = Cardinality(A) - 1
<1>1. Cardinality(A) \in Nat
  BY FS_CardinalityType
<1>2. CASE p \in A <=> p \in B
  <2>1. A = B
    BY <1>2
  <2> QED
    BY <1>1, <1>2, <2>1
<1>3. CASE p \notin A /\ p \in B
  <2>1. B = A \cup {p}
    BY <1>3
  <2>2. Cardinality(B) = Cardinality(A) + 1
    BY <1>3, <2>1, FS_AddElement
  <2> QED
    BY <1>1, <1>3, <2>2
<1>4. CASE p \in A /\ p \notin B
  <2>1. B = A \ {p}
    BY <1>4
  <2>2. Cardinality(B) = Cardinality(A) - 1
    BY <1>4, <2>1, FS_RemoveElement
  <2>3. IsFiniteSet(B)
    BY <2>1, FS_RemoveElement
  <2> QED
    BY <1>1, <1>4, <2>2, <2>3, FS_CardinalityType
<1> QED
  BY <1>2, <1>3, <1>4

\* How a move of one producer changes the number of producers at some places.
LEMMA PlacesMove ==
    ASSUME TypeInv, NEW p \in Producers, NEW place, Goto(p, place), NEW S
    PROVE  /\ Cardinality(AtAny(S)) \in Nat /\ Cardinality(AtAny(S)') \in Nat
           /\ (place \in S <=> pc[p] \in S) => Cardinality(AtAny(S)') = Cardinality(AtAny(S))
           /\ place \in S /\ pc[p] \notin S
                => Cardinality(AtAny(S)') = Cardinality(AtAny(S)) + 1
           /\ place \notin S /\ pc[p] \in S
                => Cardinality(AtAny(S)') = Cardinality(AtAny(S)) - 1
<1>1. IsFiniteSet(AtAny(S))
  BY IngestAssumption, FS_Subset DEF AtAny
<1>2. pc'[p] = place /\ \A q \in Producers \ {p} : pc'[q] = pc[q]
  BY DEF Goto, TypeInv, TypeOK
<1>3. /\ \A q : q # p => (q \in AtAny(S) <=> q \in AtAny(S)')
      /\ p \in AtAny(S) <=> pc[p] \in S
      /\ p \in AtAny(S)' <=> place \in S
  BY <1>2 DEF AtAny
<1> QED
  BY <1>1, <1>3, OneMoves

\* The sets of KindInv when p moves.
LEMMA KindMoves ==
    ASSUME TypeInv, NEW p \in Producers, NEW place, Goto(p, place),
           \A q \in Producers \ {p} : cur'[q] = cur[q]
    PROVE  /\ (p \in OpenResponses <=> p \in OpenResponses')
                => Cardinality(OpenResponses') = Cardinality(OpenResponses)
           /\ p \notin OpenResponses /\ p \in OpenResponses'
                => Cardinality(OpenResponses') = Cardinality(OpenResponses) + 1
           /\ p \in OpenResponses /\ p \notin OpenResponses'
                => Cardinality(OpenResponses') = Cardinality(OpenResponses) - 1
           /\ (p \in OpenRequests <=> p \in OpenRequests')
                => Cardinality(OpenRequests') = Cardinality(OpenRequests)
           /\ p \notin OpenRequests /\ p \in OpenRequests'
                => Cardinality(OpenRequests') = Cardinality(OpenRequests) + 1
           /\ p \in OpenRequests /\ p \notin OpenRequests'
                => Cardinality(OpenRequests') = Cardinality(OpenRequests) - 1
<1>1. IsFiniteSet(OpenResponses) /\ IsFiniteSet(OpenRequests)
  BY IngestAssumption, FS_Subset DEF AtAny, OpenResponses, OpenRequests
<1>2. \A q \in Producers \ {p} : pc'[q] = pc[q]
  BY DEF Goto, TypeInv, TypeOK
<1>3. \A q : q # p => (q \in OpenResponses <=> q \in OpenResponses')
  BY <1>2 DEF AtAny, OpenResponses
<1>4. \A q : q # p => (q \in OpenRequests <=> q \in OpenRequests')
  BY <1>2 DEF AtAny, OpenRequests
<1>5. /\ (p \in OpenResponses <=> p \in OpenResponses')
           => Cardinality(OpenResponses') = Cardinality(OpenResponses)
      /\ p \notin OpenResponses /\ p \in OpenResponses'
           => Cardinality(OpenResponses') = Cardinality(OpenResponses) + 1
      /\ p \in OpenResponses /\ p \notin OpenResponses'
           => Cardinality(OpenResponses') = Cardinality(OpenResponses) - 1
  BY <1>1, <1>3, OneMoves
<1>6. /\ (p \in OpenRequests <=> p \in OpenRequests')
           => Cardinality(OpenRequests') = Cardinality(OpenRequests)
      /\ p \notin OpenRequests /\ p \in OpenRequests'
           => Cardinality(OpenRequests') = Cardinality(OpenRequests) + 1
      /\ p \in OpenRequests /\ p \notin OpenRequests'
           => Cardinality(OpenRequests') = Cardinality(OpenRequests) - 1
  BY <1>1, <1>4, OneMoves
<1> QED
  BY <1>5, <1>6

\* The counters of KindInv.
KindFields == {"MsgsTotal", "Requests", "Responses", "Methods", "Status2xx",
               "Status4xx5xx", "Echoes"}

\* What the counters and the sets of messages in hand are.
LEMMA KindNumbers ==
    ASSUME TypeInv
    PROVE  /\ m["MsgsTotal"] \in Nat /\ m["Requests"] \in Nat /\ m["Responses"] \in Nat
           /\ m["Methods"] \in Nat /\ m["Status2xx"] \in Nat /\ m["Status4xx5xx"] \in Nat
           /\ m["Echoes"] \in Nat
           /\ Cardinality(KindPending) \in Nat /\ Cardinality(MethodPending) \in Nat
           /\ Cardinality(OpenResponses) \in Nat /\ Cardinality(OpenRequests) \in Nat
<1>1. /\ IsFiniteSet(KindPending) /\ IsFiniteSet(MethodPending)
      /\ IsFiniteSet(OpenResponses) /\ IsFiniteSet(OpenRequests)
  BY IngestAssumption, FS_Subset
     DEF AtAny, KindPending, MethodPending, OpenResponses, OpenRequests
<1> QED
  BY <1>1, FS_CardinalityType DEF TypeInv, TypeOK, Fields

\* Metrics.Inc of a field, for every field.
LEMMA OneField ==
    ASSUME TypeInv, NEW f \in Fields, Inc(f, 1)
    PROVE  m'[f] = m[f] + 1 /\ \A g \in Fields \ {f} : m'[g] = m[g]
  BY IncEffect DEF TypeInv, TypeOK

\* A step of p that bumps none of these counters, and moves p among the places
\* before a message is accepted or among those after its method is counted.
LEMMA KindIdle ==
    ASSUME TypeInv, KindInv, NEW p \in Producers, NEW place, Goto(p, place), UNCHANGED cur,
           \A f \in KindFields : m'[f] = m[f],
           \/ pc[p] \notin Holding /\ place \notin Holding
           \/ {pc[p], place} \subseteq {"push", "send", "drop", "after"}
    PROVE  KindInv'
<1>1. pc'[p] = place
  BY DEF Goto, TypeInv, TypeOK
<1>2. /\ Cardinality(KindPending') = Cardinality(KindPending)
      /\ Cardinality(MethodPending') = Cardinality(MethodPending)
  BY PlacesMove DEF KindPending, MethodPending, Holding
<1>3. /\ p \in OpenResponses <=> p \in OpenResponses'
      /\ p \in OpenRequests <=> p \in OpenRequests'
  BY <1>1 DEF OpenResponses, OpenRequests, AtAny, Holding
<1>4. /\ Cardinality(OpenResponses') = Cardinality(OpenResponses)
      /\ Cardinality(OpenRequests') = Cardinality(OpenRequests)
  BY <1>3, KindMoves
<1>5. /\ m'["MsgsTotal"] = m["MsgsTotal"] /\ m'["Requests"] = m["Requests"]
      /\ m'["Responses"] = m["Responses"] /\ m'["Methods"] = m["Methods"]
      /\ m'["Status2xx"] = m["Status2xx"] /\ m'["Status4xx5xx"] = m["Status4xx5xx"]
      /\ m'["Echoes"] = m["Echoes"]
  BY DEF KindFields
<1> QED
  BY <1>2, <1>4, <1>5 DEF KindInv

\* A message is accepted: its kind is still to be counted.
LEMMA KindAccept ==
    ASSUME TypeInv, KindInv, NEW p \in Producers, SipPacket(p) \/ HepMessage(p)
    PROVE  KindInv'
<1>1. Accept(p) /\ Goto(p, "kind") /\ pc[p] \in {"read", "parse"}
  BY DEF SipPacket, HepMessage, NextPacket, At, Accept
<1>2. pc'[p] = "kind" /\ \A q \in Producers \ {p} : cur'[q] = cur[q]
  BY <1>1 DEF Accept, Goto, TypeInv, TypeOK
<1>3. /\ Cardinality(KindPending') = Cardinality(KindPending) + 1
      /\ Cardinality(MethodPending') = Cardinality(MethodPending) + 1
  BY <1>1, PlacesMove DEF KindPending, MethodPending
<1>4. /\ p \notin OpenResponses /\ p \notin OpenResponses'
      /\ p \notin OpenRequests /\ p \notin OpenRequests'
  BY <1>1, <1>2 DEF OpenResponses, OpenRequests, AtAny, Holding
<1>5. /\ Cardinality(OpenResponses') = Cardinality(OpenResponses)
      /\ Cardinality(OpenRequests') = Cardinality(OpenRequests)
  BY <1>1, <1>2, <1>4, KindMoves
<1>6. /\ m'["MsgsTotal"] = m["MsgsTotal"] + 1 /\ m'["Requests"] = m["Requests"]
      /\ m'["Responses"] = m["Responses"] /\ m'["Methods"] = m["Methods"]
      /\ m'["Status2xx"] = m["Status2xx"] /\ m'["Status4xx5xx"] = m["Status4xx5xx"]
      /\ m'["Echoes"] = m["Echoes"]
  BY <1>1, OneField DEF Accept, Fields
<1> QED
  BY <1>3, <1>5, <1>6, KindNumbers DEF KindInv

\* Its kind is counted.
LEMMA KindCount ==
    ASSUME TypeInv, KindInv, NEW p \in Producers, CountKind(p)
    PROVE  KindInv'
<1>1. pc[p] = "kind" /\ Goto(p, "status") /\ cur' = cur
  BY DEF CountKind, At
<1>2. pc'[p] = "status"
  BY <1>1 DEF Goto, TypeInv, TypeOK
<1>3. /\ Cardinality(KindPending') = Cardinality(KindPending) - 1
      /\ Cardinality(MethodPending') = Cardinality(MethodPending)
  BY <1>1, PlacesMove DEF KindPending, MethodPending
<1>4. /\ p \notin OpenResponses /\ p \notin OpenRequests
      /\ p \in OpenResponses' <=> cur[p].kind = "response"
      /\ p \in OpenRequests' <=> cur[p].kind = "request"
  BY <1>1, <1>2 DEF OpenResponses, OpenRequests, AtAny, Holding
<1>5. cur[p].kind \in {"request", "response"}
  BY <1>1, IngestAssumption DEF TypeInv, TypeOK, Holding
<1>6. /\ m'["MsgsTotal"] = m["MsgsTotal"] /\ m'["Methods"] = m["Methods"]
      /\ m'["Status2xx"] = m["Status2xx"] /\ m'["Status4xx5xx"] = m["Status4xx5xx"]
      /\ m'["Echoes"] = m["Echoes"]
  BY OneField DEF CountKind, Fields
<1>7. CASE cur[p].kind = "request"
  <2>1. m'["Requests"] = m["Requests"] + 1 /\ m'["Responses"] = m["Responses"]
    BY <1>7, OneField DEF CountKind, Fields
  <2>2. /\ Cardinality(OpenResponses') = Cardinality(OpenResponses)
        /\ Cardinality(OpenRequests') = Cardinality(OpenRequests) + 1
    BY <1>1, <1>4, <1>7, KindMoves
  <2> QED
    BY <1>3, <1>6, <2>1, <2>2, KindNumbers DEF KindInv
<1>8. CASE cur[p].kind = "response"
  <2>1. m'["Requests"] = m["Requests"] /\ m'["Responses"] = m["Responses"] + 1
    BY <1>8, OneField DEF CountKind, Fields
  <2>2. /\ Cardinality(OpenResponses') = Cardinality(OpenResponses) + 1
        /\ Cardinality(OpenRequests') = Cardinality(OpenRequests)
    BY <1>1, <1>4, <1>8, KindMoves
  <2> QED
    BY <1>3, <1>6, <2>1, <2>2, KindNumbers DEF KindInv
<1> QED
  BY <1>5, <1>7, <1>8

\* Only a response has a status of 200 or more.
LEMMA KindStatus ==
    ASSUME TypeInv, KindInv, NEW p \in Producers, CountStatus(p)
    PROVE  KindInv'
<1>1. pc[p] = "status" /\ Goto(p, "method") /\ cur' = cur
  BY DEF CountStatus, At
<1>2. pc'[p] = "method"
  BY <1>1 DEF Goto, TypeInv, TypeOK
<1>3. /\ Cardinality(KindPending') = Cardinality(KindPending)
      /\ Cardinality(MethodPending') = Cardinality(MethodPending)
  BY <1>1, PlacesMove DEF KindPending, MethodPending
<1>4. /\ p \in OpenResponses <=> cur[p].kind = "response"
      /\ p \notin OpenResponses'
      /\ p \in OpenRequests <=> p \in OpenRequests'
  BY <1>1, <1>2 DEF OpenResponses, OpenRequests, AtAny, Holding
<1>5. Cardinality(OpenRequests') = Cardinality(OpenRequests)
  BY <1>1, <1>4, KindMoves
<1>6. cur[p] \in Shapes
  BY <1>1 DEF TypeInv, TypeOK, Holding
<1>7. /\ cur[p].kind \in {"request", "response"} /\ cur[p].status \in Nat
      /\ cur[p].kind = "request" => cur[p].status = 0
  BY <1>6, IngestAssumption
<1>8. CASE cur[p].status >= 200 /\ (Inc("Status2xx", 1) \/ Inc("Status4xx5xx", 1))
  <2>1. Cardinality(OpenResponses') = Cardinality(OpenResponses) - 1
    BY <1>1, <1>4, <1>7, <1>8, KindMoves
  <2>2. /\ m'["MsgsTotal"] = m["MsgsTotal"] /\ m'["Requests"] = m["Requests"]
        /\ m'["Responses"] = m["Responses"] /\ m'["Methods"] = m["Methods"]
        /\ m'["Echoes"] = m["Echoes"]
    BY <1>8, OneField DEF Fields
  <2>3. m'["Status2xx"] + m'["Status4xx5xx"] = m["Status2xx"] + m["Status4xx5xx"] + 1
    <3>1. \/ m'["Status2xx"] = m["Status2xx"] + 1 /\ m'["Status4xx5xx"] = m["Status4xx5xx"]
          \/ m'["Status2xx"] = m["Status2xx"] /\ m'["Status4xx5xx"] = m["Status4xx5xx"] + 1
      BY <1>8, OneField DEF Fields
    <3> QED
      BY <3>1, KindNumbers
  <2>4. m'["Status2xx"] + m'["Status4xx5xx"] + Cardinality(OpenResponses') <= m'["Responses"]
    BY <2>1, <2>2, <2>3, KindNumbers DEF KindInv
  <2> QED
    BY <1>3, <1>5, <2>2, <2>4 DEF KindInv
<1>9. CASE UNCHANGED m
  <2>1. Cardinality(OpenResponses') \in {Cardinality(OpenResponses), Cardinality(OpenResponses) - 1}
    BY <1>1, <1>4, KindMoves
  <2>2. m["Status2xx"] + m["Status4xx5xx"] + Cardinality(OpenResponses') <= m["Responses"]
    BY <2>1, KindNumbers DEF KindInv
  <2> QED
    BY <1>3, <1>5, <1>9, <2>2 DEF KindInv
<1>10. \/ cur[p].status >= 200 /\ (Inc("Status2xx", 1) \/ Inc("Status4xx5xx", 1))
       \/ UNCHANGED m
  BY <1>7 DEF CountStatus
<1> QED
  BY <1>8, <1>9, <1>10

\* Its method or status is counted.
LEMMA KindMethod ==
    ASSUME TypeInv, KindInv, NEW p \in Producers, BumpMethod(p)
    PROVE  KindInv'
<1>1. pc[p] = "method" /\ Goto(p, "push") /\ cur' = cur
  BY DEF BumpMethod, At
<1>2. pc'[p] = "push"
  BY <1>1 DEF Goto, TypeInv, TypeOK
<1>3. /\ Cardinality(KindPending') = Cardinality(KindPending)
      /\ Cardinality(MethodPending') = Cardinality(MethodPending) - 1
  BY <1>1, PlacesMove DEF KindPending, MethodPending
<1>4. /\ p \in OpenResponses <=> p \in OpenResponses'
      /\ p \in OpenRequests <=> p \in OpenRequests'
  BY <1>1, <1>2 DEF OpenResponses, OpenRequests, AtAny, Holding
<1>5. /\ Cardinality(OpenResponses') = Cardinality(OpenResponses)
      /\ Cardinality(OpenRequests') = Cardinality(OpenRequests)
  BY <1>1, <1>4, KindMoves
<1>6. /\ m'["MsgsTotal"] = m["MsgsTotal"] /\ m'["Requests"] = m["Requests"]
      /\ m'["Responses"] = m["Responses"] /\ m'["Methods"] = m["Methods"] + 1
      /\ m'["Status2xx"] = m["Status2xx"] /\ m'["Status4xx5xx"] = m["Status4xx5xx"]
      /\ m'["Echoes"] = m["Echoes"]
  BY OneField DEF BumpMethod, Fields
<1>7. m["MsgsTotal"] = m'["Methods"] + Cardinality(MethodPending')
  <2>1. m["MsgsTotal"] = m["Methods"] + Cardinality(MethodPending)
    BY DEF KindInv
  <2> QED
    BY <1>3, <1>6, <2>1, KindNumbers
<1> QED
  BY <1>3, <1>5, <1>6, <1>7 DEF KindInv

\* sipWorker answers only a request, once, and is then done with it.
LEMMA KindFinish ==
    ASSUME TypeInv, KindInv, NEW p \in Producers, Finish(p)
    PROVE  KindInv'
<1>1. PICK place \in AfterPacket(p) : Goto(p, place)
  BY DEF Finish
<1>2. pc[p] = "after" /\ place \notin Holding
  BY <1>1, IngestAssumption, AfterPacketOK DEF Finish, At, Handling
<1>3. pc'[p] = place /\ \A q \in Producers \ {p} : cur'[q] = cur[q]
  BY <1>1 DEF Finish, Goto, TypeInv, TypeOK
<1>4. /\ Cardinality(KindPending') = Cardinality(KindPending)
      /\ Cardinality(MethodPending') = Cardinality(MethodPending)
  BY <1>1, <1>2, PlacesMove DEF KindPending, MethodPending, Holding
<1>5. /\ p \notin OpenResponses /\ p \notin OpenResponses' /\ p \notin OpenRequests'
      /\ p \in OpenRequests <=> cur[p].kind = "request"
  BY <1>2, <1>3 DEF OpenResponses, OpenRequests, AtAny, Holding
<1>6. Cardinality(OpenResponses') = Cardinality(OpenResponses)
  BY <1>1, <1>3, <1>5, KindMoves
<1>7. CASE cur[p].kind = "request" /\ Inc("Echoes", 1)
  <2>1. Cardinality(OpenRequests') = Cardinality(OpenRequests) - 1
    BY <1>1, <1>3, <1>5, <1>7, KindMoves
  <2>2. /\ m'["MsgsTotal"] = m["MsgsTotal"] /\ m'["Requests"] = m["Requests"]
        /\ m'["Responses"] = m["Responses"] /\ m'["Methods"] = m["Methods"]
        /\ m'["Status2xx"] = m["Status2xx"] /\ m'["Status4xx5xx"] = m["Status4xx5xx"]
        /\ m'["Echoes"] = m["Echoes"] + 1
    BY <1>7, OneField DEF Fields
  <2>3. m'["Echoes"] + Cardinality(OpenRequests') <= m["Requests"]
    BY <2>1, <2>2, KindNumbers DEF KindInv
  <2> QED
    BY <1>4, <1>6, <2>2, <2>3 DEF KindInv
<1>8. CASE UNCHANGED m
  <2>1. Cardinality(OpenRequests') \in {Cardinality(OpenRequests), Cardinality(OpenRequests) - 1}
    BY <1>1, <1>3, <1>5, KindMoves
  <2>2. m["Echoes"] + Cardinality(OpenRequests') <= m["Requests"]
    BY <2>1, KindNumbers DEF KindInv
  <2> QED
    BY <1>4, <1>6, <1>8, <2>2 DEF KindInv
<1>9. (cur[p].kind = "request" /\ Inc("Echoes", 1)) \/ UNCHANGED m
  BY DEF Finish
<1> QED
  BY <1>7, <1>8, <1>9

\* The writer, main and a stuttering step do not touch these counters.
LEMMA OthersStep ==
    ASSUME TypeInv,
           Receive \/ FlushTick \/ Stop \/ Flushing \/ Cancel \/ Exit \/ UNCHANGED vars
    PROVE  UNCHANGED <<pc, cur, packets>> /\ \A f \in Fields \ {"DBOk", "DBErr"} : m'[f] = m[f]
<1>1. UNCHANGED <<pc, cur, packets>>
  BY DEF Receive, FlushTick, Stop, Flushing, TxCommit, TxFail, TxCommitUnheard, CountOk, CountErr,
         CountBatch, Cancel, Exit, vars, producerVars
<1>2. UNCHANGED m \/ Inc("DBOk", Len(batch)) \/ Inc("DBErr", Len(batch))
  BY DEF Receive, FlushTick, Stop, Flushing, TxCommit, TxFail, TxCommitUnheard, CountOk, CountErr,
         CountBatch, Cancel, Exit, vars
<1>3. \A f \in Fields \ {"DBOk", "DBErr"} : m'[f] = m[f]
  <2>1. m \in [Fields -> Nat] /\ "DBOk" \in Fields /\ "DBErr" \in Fields /\ Len(batch) \in Nat
    BY BookNumbers DEF TypeInv, TypeOK, Fields
  <2>2. CASE UNCHANGED m
    BY <2>2
  <2>3. CASE Inc("DBOk", Len(batch))
    BY <2>1, <2>3, IncEffect
  <2>4. CASE Inc("DBErr", Len(batch))
    BY <2>1, <2>4, IncEffect
  <2> QED
    BY <1>2, <2>2, <2>3, <2>4
<1> QED
  BY <1>1, <1>3

\* Every step keeps the counters by kind in step.
LEMMA KindStep ==
    ASSUME TypeInv, KindInv, [Next]_vars
    PROVE  KindInv'
<1>1. CASE \E p \in Producers : Work(p) \/ Read(p)
  <2>1. PICK p \in Producers : Work(p) \/ Read(p)
    BY <1>1
  <2>2. CASE SipPacket(p) \/ HepMessage(p)
    BY <2>2, KindAccept
  <2>3. CASE CountKind(p) \/ CountStatus(p) \/ BumpMethod(p) \/ Finish(p)
    BY <2>3, KindCount, KindStatus, KindMethod, KindFinish
  <2>4. CASE PushRecent(p) \/ Enqueue(p) \/ QueueFull(p) \/ CountDrop(p)
    <3>1. PICK place : /\ Goto(p, place) /\ UNCHANGED cur
                       /\ {pc[p], place} \subseteq {"push", "send", "drop", "after"}
      BY <2>4 DEF PushRecent, Enqueue, QueueFull, CountDrop, At
    <3>2. UNCHANGED m \/ Inc("DBDrop", 1)
      BY <2>4 DEF PushRecent, Enqueue, QueueFull, CountDrop
    <3>3. \A f \in KindFields : m'[f] = m[f]
      BY <3>2, OneField DEF KindFields, Fields
    <3> QED
      BY <3>1, <3>3, KindIdle
  <2>5. CASE AcceptPeer(p) \/ DenyPeer(p) \/ CheckDone(p) \/ ReadNothing(p)
    <3>1. PICK place : Goto(p, place) /\ UNCHANGED cur /\ pc[p] \notin Holding /\ place \notin Holding
      BY <2>5 DEF AcceptPeer, DenyPeer, CheckDone, ReadNothing, At, Holding
    <3>2. UNCHANGED m \/ Inc("HEPDeny", 1)
      BY <2>5 DEF AcceptPeer, DenyPeer, CheckDone, ReadNothing
    <3>3. \A f \in KindFields : m'[f] = m[f]
      BY <3>2, OneField DEF KindFields, Fields
    <3> QED
      BY <3>1, <3>3, KindIdle
  <2>6. CASE HepBad(p) \/ HepGood(p) \/ HepTransport(p) \/ HepReject(p) \/ HepProto(p)
    <3>1. PICK place : Goto(p, place) /\ UNCHANGED cur /\ pc[p] \notin Holding /\ place \notin Holding
      BY <2>6, IngestAssumption, AfterPacketOK
         DEF HepBad, HepGood, HepTransport, HepReject, HepProto, NextPacket, At, Holding, Handling
    <3>2. PICK f \in Fields \ KindFields : Inc(f, 1)
      <4>1. CASE HepTransport(p)
        <5>1. p \notin Sip
          BY <4>1, TypeInvParts DEF Parts, HepTransport, ProducersOK, HepPlaces, At
        <5>2. TransportField[Transport[p]] \in Fields \ KindFields
          BY <5>1, TransportFieldOK, IngestAssumption DEF Fields, KindFields
        <5> QED
          BY <4>1, <5>2 DEF HepTransport
      <4>2. CASE HepBad(p) \/ HepGood(p) \/ HepReject(p)
        BY <4>2 DEF HepBad, HepGood, HepReject, Fields, KindFields
      <4>3. CASE HepProto(p)
        BY <4>3, IngestAssumption DEF HepProto, Fields, KindFields
      <4> QED
        BY <2>6, <4>1, <4>2, <4>3
    <3>3. \A g \in KindFields : m'[g] = m[g]
      BY <3>2, OneField DEF KindFields, Fields
    <3> QED
      BY <3>1, <3>3, KindIdle
  <2> QED
    BY <2>1, <2>2, <2>3, <2>4, <2>5, <2>6 DEF Work, Read
<1>2. CASE Receive \/ FlushTick \/ Stop \/ Flushing \/ Cancel \/ Exit \/ UNCHANGED vars
  <2>1. UNCHANGED <<pc, cur>> /\ \A f \in KindFields : m'[f] = m[f]
    BY <1>2, OthersStep DEF KindFields, Fields
  <2>2. UNCHANGED <<KindPending, MethodPending, OpenResponses, OpenRequests>>
    BY <2>1 DEF KindPending, MethodPending, OpenResponses, OpenRequests, AtAny
  <2> QED
    BY <2>1, <2>2 DEF KindInv, KindFields
<1> QED
  BY <1>1, <1>2 DEF Next

\* At the start all of them are zero.
LEMMA KindInit == Init => KindInv
<1> SUFFICES ASSUME Init PROVE KindInv
  OBVIOUS
<1>1. /\ m["MsgsTotal"] = 0 /\ m["Requests"] = 0 /\ m["Responses"] = 0 /\ m["Methods"] = 0
      /\ m["Status2xx"] = 0 /\ m["Status4xx5xx"] = 0 /\ m["Echoes"] = 0
  BY DEF Init, Fields
<1>2. KindPending = {} /\ MethodPending = {} /\ OpenResponses = {} /\ OpenRequests = {}
  BY DEF Init, Start, KindPending, MethodPending, OpenResponses, OpenRequests, AtAny, Holding
<1> QED
  BY <1>1, <1>2, FS_EmptySet DEF KindInv

\* However many goroutines bump them, /metrics shows a request or a response for
\* each message but those whose goroutine is just between the two counters, a method
\* likewise, no more final statuses than responses and no more echoes than requests.
THEOREM MessageCountersAgree == Spec => []KindAccounting
<1>1. TypeInv /\ KindInv => KindAccounting
  <2> SUFFICES ASSUME TypeInv, KindInv PROVE KindAccounting
    OBVIOUS
  <2>1. /\ m["Status2xx"] + m["Status4xx5xx"] <= m["Responses"]
        /\ m["Echoes"] <= m["Requests"]
    BY KindNumbers DEF KindInv
  <2> QED
    BY <2>1 DEF KindInv, KindAccounting, KindPending, MethodPending
<1>2. Init => TypeInv /\ KindInv
  BY InitType, KindInit
<1>3. TypeInv /\ KindInv /\ [Next]_vars => TypeInv' /\ KindInv'
  BY NextType, KindStep
<1> QED
  BY <1>1, <1>2, <1>3, PTL DEF Spec
-----------------------------------------------------------------------------
\* The counters of HepInv.
HepFields == {"MsgsTotal", "HEPTotal", "HEPUDP", "HEPTCP", "HEPTLS", "HEPAuthFail", "HEPDeny",
              "HEPSIP", "HEPRTCP", "HEPRTP", "HEPRTCPXR", "HEPOther"}
ProtoFields == {"HEPSIP", "HEPRTCP", "HEPRTP", "HEPRTCPXR", "HEPOther"}

\* What the HEP counters and the sets of packets in hand are.
LEMMA HepNumbers ==
    ASSUME TypeInv
    PROVE  /\ m["MsgsTotal"] \in Nat /\ m["HEPTotal"] \in Nat /\ m["HEPUDP"] \in Nat
           /\ m["HEPTCP"] \in Nat /\ m["HEPTLS"] \in Nat /\ m["HEPAuthFail"] \in Nat
           /\ m["HEPDeny"] \in Nat /\ ProtoSum \in Nat /\ Refused \in Int
           /\ Cardinality(TransportPending) \in Nat /\ Cardinality(VerdictPending) \in Nat
           /\ Cardinality(ParsePending) \in Nat /\ Cardinality(Admitted) \in Nat
<1>1. /\ IsFiniteSet(TransportPending) /\ IsFiniteSet(VerdictPending)
      /\ IsFiniteSet(ParsePending) /\ IsFiniteSet(Admitted)
  BY IngestAssumption, FS_Subset
     DEF AtAny, TransportPending, VerdictPending, ParsePending, Admitted, Streams
<1>2. /\ Cardinality(TransportPending) \in Nat /\ Cardinality(VerdictPending) \in Nat
      /\ Cardinality(ParsePending) \in Nat /\ Cardinality(Admitted) \in Nat
  BY <1>1, FS_CardinalityType
<1>3. \A f \in HepFields : m[f] \in Nat
  BY DEF TypeInv, TypeOK, Fields, HepFields
<1>4. ProtoSum \in Nat
  BY <1>3 DEF ProtoSum, HepFields
<1>5. /\ m["MsgsTotal"] \in Nat /\ m["HEPTotal"] \in Nat /\ m["HEPUDP"] \in Nat
      /\ m["HEPTCP"] \in Nat /\ m["HEPTLS"] \in Nat /\ m["HEPAuthFail"] \in Nat
      /\ m["HEPDeny"] \in Nat
  BY <1>3 DEF HepFields
<1>6. Refused \in Int
  BY <1>2, <1>4, <1>5 DEF Refused
<1> QED
  BY <1>2, <1>4, <1>5, <1>6

\* The sets of HepInv when p moves: nobody goes back to "accept".
LEMMA HepMoves ==
    ASSUME TypeInv, HepInv, NEW p \in Producers, NEW place, Goto(p, place), place # "accept"
    PROVE  /\ \A q \in Producers : pc'[q] = "accept" => q \in Streams
           /\ pc[p] # "accept" => Cardinality(Admitted') = Cardinality(Admitted)
           /\ pc[p] = "accept" => Cardinality(Admitted') = Cardinality(Admitted) + 1
<1>1. pc'[p] = place /\ \A q \in Producers \ {p} : pc'[q] = pc[q]
  BY DEF Goto, TypeInv, TypeOK
<1>2. IsFiniteSet(Admitted)
  BY IngestAssumption, FS_Subset DEF Admitted, Streams
<1>3. \A q : q # p => (q \in Admitted <=> q \in Admitted')
  BY <1>1 DEF Admitted, Streams
<1>4. /\ pc[p] # "accept" => (p \in Admitted <=> p \in Admitted')
      /\ pc[p] = "accept" => p \notin Admitted /\ p \in Admitted'
  BY <1>1 DEF Admitted, HepInv
<1>5. \A q \in Producers : pc'[q] = "accept" => q \in Streams
  BY <1>1 DEF HepInv
<1> QED
  BY <1>2, <1>3, <1>4, <1>5, OneMoves

\* One protocol counter, or none, is bumped.
LEMMA ProtoMoves ==
    ASSUME TypeInv
    PROVE  /\ (\A f \in ProtoFields : m'[f] = m[f]) => ProtoSum' = ProtoSum
           /\ \A f \in ProtoFields : Inc(f, 1) => ProtoSum' = ProtoSum + 1
<1>1. /\ m["HEPSIP"] \in Nat /\ m["HEPRTCP"] \in Nat /\ m["HEPRTP"] \in Nat
      /\ m["HEPRTCPXR"] \in Nat /\ m["HEPOther"] \in Nat
  BY DEF TypeInv, TypeOK, Fields
<1>2. ASSUME NEW f \in ProtoFields, Inc(f, 1) PROVE ProtoSum' = ProtoSum + 1
  <2>1. m'[f] = m[f] + 1 /\ \A g \in ProtoFields \ {f} : m'[g] = m[g]
    BY <1>2, OneField DEF ProtoFields, Fields
  <2> QED
    BY <1>1, <2>1 DEF ProtoFields, ProtoSum
<1>3. ASSUME \A f \in ProtoFields : m'[f] = m[f] PROVE ProtoSum' = ProtoSum
  BY <1>3 DEF ProtoFields, ProtoSum
<1> QED
  BY <1>2, <1>3

\* A step of p outside handleHEPPacket that bumps none of these counters.
LEMMA HepIdle ==
    ASSUME TypeInv, HepInv, NEW p \in Producers, NEW place, Goto(p, place),
           \A f \in HepFields : m'[f] = m[f],
           pc[p] \notin HepPlaces, place \notin HepPlaces, place # "accept"
    PROVE  HepInv'
<1>1. /\ Cardinality(TransportPending') = Cardinality(TransportPending)
      /\ Cardinality(VerdictPending') = Cardinality(VerdictPending)
      /\ Cardinality(ParsePending') = Cardinality(ParsePending)
  BY PlacesMove DEF TransportPending, VerdictPending, ParsePending, HepPlaces
<1>2. /\ \A q \in Producers : pc'[q] = "accept" => q \in Streams
      /\ Cardinality(Admitted') \in {Cardinality(Admitted), Cardinality(Admitted) + 1}
  BY HepMoves
<1>3. /\ m'["MsgsTotal"] = m["MsgsTotal"] /\ m'["HEPTotal"] = m["HEPTotal"]
      /\ m'["HEPUDP"] = m["HEPUDP"] /\ m'["HEPTCP"] = m["HEPTCP"] /\ m'["HEPTLS"] = m["HEPTLS"]
      /\ m'["HEPAuthFail"] = m["HEPAuthFail"] /\ m'["HEPDeny"] = m["HEPDeny"]
      /\ ProtoSum' = ProtoSum
  BY ProtoMoves DEF HepFields, ProtoFields
<1>4. Refused' = Refused
  BY <1>1, <1>3 DEF Refused
<1>5. m["HEPDeny"] - Refused <= Cardinality(Admitted')
  BY <1>2, HepNumbers DEF HepInv
<1> QED
  BY <1>1, <1>2, <1>3, <1>4, <1>5 DEF HepInv

\* A packet decodes.
LEMMA HepDecoded ==
    ASSUME TypeInv, HepInv, NEW p \in Producers, HepGood(p)
    PROVE  HepInv'
<1>1. pc[p] = "read" /\ Goto(p, "transport") /\ Inc("HEPTotal", 1)
  BY DEF HepGood, NextPacket, At
<1>2. /\ Cardinality(TransportPending') = Cardinality(TransportPending) + 1
      /\ Cardinality(VerdictPending') = Cardinality(VerdictPending) + 1
      /\ Cardinality(ParsePending') = Cardinality(ParsePending)
  BY <1>1, PlacesMove DEF TransportPending, VerdictPending, ParsePending
<1>3. /\ \A q \in Producers : pc'[q] = "accept" => q \in Streams
      /\ Cardinality(Admitted') = Cardinality(Admitted)
  BY <1>1, HepMoves
<1>4. /\ m'["HEPTotal"] = m["HEPTotal"] + 1 /\ m'["MsgsTotal"] = m["MsgsTotal"]
      /\ m'["HEPUDP"] = m["HEPUDP"] /\ m'["HEPTCP"] = m["HEPTCP"] /\ m'["HEPTLS"] = m["HEPTLS"]
      /\ m'["HEPAuthFail"] = m["HEPAuthFail"] /\ m'["HEPDeny"] = m["HEPDeny"]
      /\ \A f \in ProtoFields : m'[f] = m[f]
  BY <1>1, OneField DEF Fields, ProtoFields
<1>5. ProtoSum' = ProtoSum
  BY <1>4, ProtoMoves
<1>6. Refused' = Refused
  BY <1>2, <1>4, <1>5, HepNumbers DEF Refused
<1>7. m'["HEPTotal"] = m["HEPUDP"] + m["HEPTCP"] + m["HEPTLS"] + Cardinality(TransportPending')
  <2>1. m["HEPTotal"] = m["HEPUDP"] + m["HEPTCP"] + m["HEPTLS"] + Cardinality(TransportPending)
    BY DEF HepInv
  <2> QED
    BY <1>2, <1>4, <2>1, HepNumbers
<1> QED
  BY <1>2, <1>3, <1>4, <1>5, <1>6, <1>7 DEF HepInv

\* Its transport is counted.
LEMMA HepTransported ==
    ASSUME TypeInv, HepInv, NEW p \in Producers, HepTransport(p)
    PROVE  HepInv'
<1> DEFINE f == TransportField[Transport[p]]
<1>1. pc[p] = "transport" /\ Goto(p, "auth") /\ Inc(f, 1)
  BY DEF HepTransport, At
<1>2. f \in {"HEPUDP", "HEPTCP", "HEPTLS"}
  <2>1. p \notin Sip
    BY <1>1, TypeInvParts DEF Parts, ProducersOK, HepPlaces
  <2> QED
    BY <2>1, TransportFieldOK, IngestAssumption
<1> HIDE DEF f
<1>3. /\ Cardinality(TransportPending') = Cardinality(TransportPending) - 1
      /\ Cardinality(VerdictPending') = Cardinality(VerdictPending)
      /\ Cardinality(ParsePending') = Cardinality(ParsePending)
  BY <1>1, PlacesMove DEF TransportPending, VerdictPending, ParsePending
<1>4. /\ \A q \in Producers : pc'[q] = "accept" => q \in Streams
      /\ Cardinality(Admitted') = Cardinality(Admitted)
  BY <1>1, HepMoves
<1>5. m'[f] = m[f] + 1 /\ \A g \in Fields \ {f} : m'[g] = m[g]
  BY <1>1, <1>2, OneField DEF Fields
<1>6. /\ m'["HEPTotal"] = m["HEPTotal"] /\ m'["MsgsTotal"] = m["MsgsTotal"]
      /\ m'["HEPAuthFail"] = m["HEPAuthFail"] /\ m'["HEPDeny"] = m["HEPDeny"]
      /\ \A g \in ProtoFields : m'[g] = m[g]
  BY <1>2, <1>5 DEF Fields, ProtoFields
<1>7. m'["HEPUDP"] + m'["HEPTCP"] + m'["HEPTLS"] = m["HEPUDP"] + m["HEPTCP"] + m["HEPTLS"] + 1
  <2>1. \A g \in {"HEPUDP", "HEPTCP", "HEPTLS"} : m'[g] = IF g = f THEN m[g] + 1 ELSE m[g]
    BY <1>5 DEF Fields
  <2> QED
    BY <1>2, <2>1, HepNumbers
<1>8. ProtoSum' = ProtoSum
  BY <1>6, ProtoMoves
<1>9. Refused' = Refused
  BY <1>3, <1>6, <1>8 DEF Refused
<1>10. m["HEPTotal"] = m'["HEPUDP"] + m'["HEPTCP"] + m'["HEPTLS"] + Cardinality(TransportPending')
  <2>1. m["HEPTotal"] = m["HEPUDP"] + m["HEPTCP"] + m["HEPTLS"] + Cardinality(TransportPending)
    BY DEF HepInv
  <2> QED
    BY <1>3, <1>7, <2>1, HepNumbers
<1> QED
  BY <1>3, <1>4, <1>6, <1>8, <1>9, <1>10 DEF HepInv

\* It is turned away: Refused counts it if the allow list did that.
LEMMA HepRejected ==
    ASSUME TypeInv, HepInv, NEW p \in Producers, HepReject(p)
    PROVE  HepInv'
<1>1. PICK place \in AfterPacket(p) : Goto(p, place)
  BY DEF HepReject
<1>2. pc[p] = "auth" /\ place \notin HepPlaces /\ place # "accept"
  BY <1>1, IngestAssumption DEF AfterPacket, HepReject, At, HepPlaces
<1>3. /\ Cardinality(TransportPending') = Cardinality(TransportPending)
      /\ Cardinality(VerdictPending') = Cardinality(VerdictPending) - 1
      /\ Cardinality(ParsePending') = Cardinality(ParsePending)
  BY <1>1, <1>2, PlacesMove DEF TransportPending, VerdictPending, ParsePending, HepPlaces
<1>4. /\ \A q \in Producers : pc'[q] = "accept" => q \in Streams
      /\ Cardinality(Admitted') = Cardinality(Admitted)
  BY <1>1, <1>2, HepMoves
<1>5. PICK f \in {"HEPAuthFail", "HEPDeny"} : Inc(f, 1)
  BY DEF HepReject
<1>6. m'[f] = m[f] + 1 /\ \A g \in Fields \ {f} : m'[g] = m[g]
  BY <1>5, OneField DEF Fields
<1>7. /\ m'["HEPTotal"] = m["HEPTotal"] /\ m'["MsgsTotal"] = m["MsgsTotal"]
      /\ m'["HEPUDP"] = m["HEPUDP"] /\ m'["HEPTCP"] = m["HEPTCP"] /\ m'["HEPTLS"] = m["HEPTLS"]
      /\ \A g \in ProtoFields : m'[g] = m[g]
  BY <1>5, <1>6 DEF Fields, ProtoFields
<1>8. ProtoSum' = ProtoSum
  BY <1>7, ProtoMoves
<1>9. \/ Refused' = Refused /\ m'["HEPDeny"] = m["HEPDeny"]
      \/ Refused' = Refused + 1 /\ m'["HEPDeny"] = m["HEPDeny"] + 1
  <2>1. CASE f = "HEPAuthFail"
    <3>1. m'["HEPAuthFail"] = m["HEPAuthFail"] + 1 /\ m'["HEPDeny"] = m["HEPDeny"]
      BY <1>6, <2>1 DEF Fields
    <3> QED
      BY <1>3, <1>7, <1>8, <3>1, HepNumbers DEF Refused
  <2>2. CASE f = "HEPDeny"
    <3>1. m'["HEPAuthFail"] = m["HEPAuthFail"] /\ m'["HEPDeny"] = m["HEPDeny"] + 1
      BY <1>6, <2>2 DEF Fields
    <3> QED
      BY <1>3, <1>7, <1>8, <3>1, HepNumbers DEF Refused
  <2> QED
    BY <1>5, <2>1, <2>2
<1>10. /\ Refused' \in 0 .. m'["HEPDeny"]
       /\ m'["HEPDeny"] - Refused' <= Cardinality(Admitted)
  BY <1>9, HepNumbers DEF HepInv
<1> QED
  BY <1>3, <1>4, <1>7, <1>8, <1>10 DEF HepInv

\* It is let in and its protocol counted.
LEMMA HepCounted ==
    ASSUME TypeInv, HepInv, NEW p \in Producers, HepProto(p)
    PROVE  HepInv'
<1>1. pc[p] = "auth" /\ Goto(p, "parse")
  BY DEF HepProto, At
<1>2. PICK f \in ProtoFields : Inc(f, 1)
  BY IngestAssumption DEF HepProto, ProtoFields
<1>3. /\ Cardinality(TransportPending') = Cardinality(TransportPending)
      /\ Cardinality(VerdictPending') = Cardinality(VerdictPending) - 1
      /\ Cardinality(ParsePending') = Cardinality(ParsePending) + 1
  BY <1>1, PlacesMove DEF TransportPending, VerdictPending, ParsePending
<1>4. /\ \A q \in Producers : pc'[q] = "accept" => q \in Streams
      /\ Cardinality(Admitted') = Cardinality(Admitted)
  BY <1>1, HepMoves
<1>5. /\ m'["HEPTotal"] = m["HEPTotal"] /\ m'["MsgsTotal"] = m["MsgsTotal"]
      /\ m'["HEPUDP"] = m["HEPUDP"] /\ m'["HEPTCP"] = m["HEPTCP"] /\ m'["HEPTLS"] = m["HEPTLS"]
      /\ m'["HEPAuthFail"] = m["HEPAuthFail"] /\ m'["HEPDeny"] = m["HEPDeny"]
  BY <1>2, OneField DEF Fields, ProtoFields
<1>6. ProtoSum' = ProtoSum + 1
  BY <1>2, ProtoMoves
<1>7. Refused' = Refused
  BY <1>3, <1>5, <1>6, HepNumbers DEF Refused
<1>8. Sip = {} => m["MsgsTotal"] + Cardinality(ParsePending') = ProtoSum'
  <2>1. Sip = {} => m["MsgsTotal"] + Cardinality(ParsePending) = ProtoSum
    BY DEF HepInv
  <2>2. m["MsgsTotal"] + (Cardinality(ParsePending) + 1)
          = (m["MsgsTotal"] + Cardinality(ParsePending)) + 1
    BY HepNumbers
  <2> QED
    BY <1>3, <1>6, <2>1, <2>2
<1> QED
  BY <1>3, <1>4, <1>5, <1>7, <1>8 DEF HepInv

\* A message is accepted.
LEMMA HepAccepted ==
    ASSUME TypeInv, HepInv, NEW p \in Producers, SipPacket(p) \/ HepMessage(p)
    PROVE  HepInv'
<1>1. /\ Goto(p, "kind") /\ Inc("MsgsTotal", 1)
      /\ (pc[p] = "read" /\ p \in Sip) \/ pc[p] = "parse"
  BY DEF SipPacket, HepMessage, NextPacket, At, Accept
<1>2. /\ Cardinality(TransportPending') = Cardinality(TransportPending)
      /\ Cardinality(VerdictPending') = Cardinality(VerdictPending)
  BY <1>1, PlacesMove DEF TransportPending, VerdictPending
<1>3. /\ \A q \in Producers : pc'[q] = "accept" => q \in Streams
      /\ Cardinality(Admitted') = Cardinality(Admitted)
  BY <1>1, HepMoves
<1>4. /\ m'["HEPTotal"] = m["HEPTotal"] /\ m'["MsgsTotal"] = m["MsgsTotal"] + 1
      /\ m'["HEPUDP"] = m["HEPUDP"] /\ m'["HEPTCP"] = m["HEPTCP"] /\ m'["HEPTLS"] = m["HEPTLS"]
      /\ m'["HEPAuthFail"] = m["HEPAuthFail"] /\ m'["HEPDeny"] = m["HEPDeny"]
      /\ \A f \in ProtoFields : m'[f] = m[f]
  BY <1>1, OneField DEF Fields, ProtoFields
<1>5. ProtoSum' = ProtoSum
  BY <1>4, ProtoMoves
<1>6. Refused' = Refused
  BY <1>2, <1>4, <1>5 DEF Refused
<1>7. Sip = {} => m'["MsgsTotal"] + Cardinality(ParsePending') = ProtoSum
  <2> SUFFICES ASSUME Sip = {} PROVE m'["MsgsTotal"] + Cardinality(ParsePending') = ProtoSum
    OBVIOUS
  <2>1. Cardinality(ParsePending') = Cardinality(ParsePending) - 1
    BY <1>1, PlacesMove DEF ParsePending
  <2> QED
    BY <1>4, <2>1, HepNumbers DEF HepInv
<1> QED
  BY <1>2, <1>3, <1>4, <1>5, <1>6, <1>7 DEF HepInv

\* A connection is refused, once.
LEMMA HepDenied ==
    ASSUME TypeInv, HepInv, NEW p \in Producers, DenyPeer(p)
    PROVE  HepInv'
<1>1. pc[p] = "accept" /\ Goto(p, "done") /\ Inc("HEPDeny", 1)
  BY DEF DenyPeer, At
<1>2. /\ Cardinality(TransportPending') = Cardinality(TransportPending)
      /\ Cardinality(VerdictPending') = Cardinality(VerdictPending)
      /\ Cardinality(ParsePending') = Cardinality(ParsePending)
  BY <1>1, PlacesMove DEF TransportPending, VerdictPending, ParsePending
<1>3. /\ \A q \in Producers : pc'[q] = "accept" => q \in Streams
      /\ Cardinality(Admitted') = Cardinality(Admitted) + 1
  BY <1>1, HepMoves
<1>4. /\ m'["HEPTotal"] = m["HEPTotal"] /\ m'["MsgsTotal"] = m["MsgsTotal"]
      /\ m'["HEPUDP"] = m["HEPUDP"] /\ m'["HEPTCP"] = m["HEPTCP"] /\ m'["HEPTLS"] = m["HEPTLS"]
      /\ m'["HEPAuthFail"] = m["HEPAuthFail"] /\ m'["HEPDeny"] = m["HEPDeny"] + 1
      /\ \A f \in ProtoFields : m'[f] = m[f]
  BY <1>1, OneField DEF Fields, ProtoFields
<1>5. ProtoSum' = ProtoSum
  BY <1>4, ProtoMoves
<1>6. Refused' = Refused
  BY <1>2, <1>4, <1>5 DEF Refused
<1>7. Refused \in 0 .. m'["HEPDeny"] /\ m'["HEPDeny"] - Refused <= Cardinality(Admitted')
  BY <1>3, <1>4, HepNumbers DEF HepInv
<1> QED
  BY <1>2, <1>3, <1>4, <1>5, <1>6, <1>7 DEF HepInv

\* Every step keeps the HEP counters in step.
LEMMA HepStep ==
    ASSUME TypeInv, HepInv, [Next]_vars
    PROVE  HepInv'
<1>1. CASE \E p \in Producers : Work(p) \/ Read(p)
  <2>1. PICK p \in Producers : Work(p) \/ Read(p)
    BY <1>1
  <2>2. CASE SipPacket(p) \/ HepMessage(p) \/ DenyPeer(p)
    BY <2>2, HepAccepted, HepDenied
  <2>3. CASE HepGood(p) \/ HepTransport(p) \/ HepReject(p) \/ HepProto(p)
    BY <2>3, HepDecoded, HepTransported, HepRejected, HepCounted
  <2>4. CASE AcceptPeer(p) \/ CheckDone(p) \/ ReadNothing(p)
    <3>1. PICK place : /\ Goto(p, place) /\ pc[p] \notin HepPlaces /\ place \notin HepPlaces
                       /\ place # "accept"
      BY <2>4 DEF AcceptPeer, CheckDone, ReadNothing, At, HepPlaces
    <3>2. \A f \in HepFields : m'[f] = m[f]
      BY <2>4 DEF AcceptPeer, CheckDone, ReadNothing
    <3> QED
      BY <3>1, <3>2, HepIdle
  <2>5. CASE HepBad(p) \/ Finish(p)
    <3>1. PICK place : /\ Goto(p, place) /\ pc[p] \notin HepPlaces /\ place \notin HepPlaces
                       /\ place # "accept"
      BY <2>5, IngestAssumption DEF AfterPacket, HepBad, Finish, NextPacket, At, HepPlaces
    <3>2. \A f \in HepFields : m'[f] = m[f]
      BY <2>5, OneField DEF HepBad, Finish, HepFields, Fields
    <3> QED
      BY <3>1, <3>2, HepIdle
  <2>6. CASE CountKind(p) \/ CountStatus(p) \/ BumpMethod(p)
    <3>1. PICK place : /\ Goto(p, place) /\ pc[p] \notin HepPlaces /\ place \notin HepPlaces
                       /\ place # "accept"
      BY <2>6 DEF CountKind, CountStatus, BumpMethod, At, HepPlaces
    <3>2. UNCHANGED m \/ \E f \in Fields \ HepFields : Inc(f, 1)
      BY <2>6 DEF CountKind, CountStatus, BumpMethod, Fields, HepFields
    <3>3. \A f \in HepFields : m'[f] = m[f]
      BY <3>2, OneField DEF HepFields, Fields
    <3> QED
      BY <3>1, <3>3, HepIdle
  <2>7. CASE PushRecent(p) \/ Enqueue(p) \/ QueueFull(p) \/ CountDrop(p)
    <3>1. PICK place : /\ Goto(p, place) /\ pc[p] \notin HepPlaces /\ place \notin HepPlaces
                       /\ place # "accept"
      BY <2>7 DEF PushRecent, Enqueue, QueueFull, CountDrop, At, HepPlaces
    <3>2. UNCHANGED m \/ Inc("DBDrop", 1)
      BY <2>7 DEF PushRecent, Enqueue, QueueFull, CountDrop
    <3>3. \A f \in HepFields : m'[f] = m[f]
      BY <3>2, OneField DEF HepFields, Fields
    <3> QED
      BY <3>1, <3>3, HepIdle
  <2> QED
    BY <2>1, <2>2, <2>3, <2>4, <2>5, <2>6, <2>7 DEF Work, Read
<1>2. CASE Receive \/ FlushTick \/ Stop \/ Flushing \/ Cancel \/ Exit \/ UNCHANGED vars
  <2>1. pc' = pc /\ \A f \in HepFields : m'[f] = m[f]
    BY <1>2, OthersStep DEF HepFields, Fields
  <2>2. UNCHANGED <<TransportPending, VerdictPending, ParsePending, Admitted>>
    BY <2>1 DEF TransportPending, VerdictPending, ParsePending, Admitted, AtAny
  <2>3. UNCHANGED <<ProtoSum, Refused>>
    BY <2>1, <2>2 DEF ProtoSum, Refused, HepFields
  <2> QED
    BY <2>1, <2>2, <2>3 DEF HepInv, HepFields
<1> QED
  BY <1>1, <1>2 DEF Next

\* At the start all of them are zero.
LEMMA HepInit == Init => HepInv
<1> SUFFICES ASSUME Init PROVE HepInv
  OBVIOUS
<1>1. \A f \in HepFields : m[f] = 0
  BY DEF Init, Fields, HepFields
<1>2. /\ TransportPending = {} /\ VerdictPending = {} /\ ParsePending = {} /\ Admitted = {}
      /\ \A p \in Producers : pc[p] = "accept" => p \in Streams
  BY DEF Init, Start, TransportPending, VerdictPending, ParsePending, Admitted, AtAny, Streams
<1>3. ProtoSum = 0
  BY <1>1 DEF ProtoSum, HepFields
<1>4. Cardinality({}) = 0
  BY FS_EmptySet
<1>5. Refused = 0
  BY <1>1, <1>2, <1>3, <1>4 DEF Refused, HepFields
<1> QED
  BY <1>1, <1>2, <1>3, <1>4, <1>5 DEF HepInv, HepFields

\* However packets of all HEP listeners and connections interleave, each decoded one
\* is counted under one transport, and as rejected once or under one protocol; HEPDeny
\* exceeds the packets turned away by at most one for each connection; without a SIP
\* listener every message is one of the packets counted under a protocol.
THEOREM HepCountersAgree == Spec => []HepAccounting
<1>1. TypeInv /\ HepInv => HepAccounting
  <2> SUFFICES ASSUME TypeInv, HepInv PROVE HepAccounting
    OBVIOUS
  <2>1. IsFiniteSet(Streams) /\ Admitted \subseteq Streams
    BY IngestAssumption, FS_Subset DEF Streams, Admitted
  <2>2. Cardinality(Admitted) <= Cardinality(Streams) /\ Cardinality(Streams) \in Nat
    BY <2>1, FS_Subset, FS_CardinalityType
  <2>3. m["HEPDeny"] - Refused <= Cardinality(Streams)
    BY <2>2, HepNumbers DEF HepInv
  <2> QED
    BY <2>3 DEF HepInv, HepAccounting, Refused, ProtoSum, TransportPending, VerdictPending,
                ParsePending
<1>2. Init => TypeInv /\ HepInv
  BY InitType, HepInit
<1>3. TypeInv /\ HepInv /\ [Next]_vars => TypeInv' /\ HepInv'
  BY NextType, HepStep
<1> QED
  BY <1>1, <1>2, <1>3, PTL DEF Spec
-----------------------------------------------------------------------------
(***************************************************************************)
(* What becomes of each record: Ingest implements Recorder, a shutdown     *)
(* loses only what is queued, and the ring leads the table.                *)
(***************************************************************************)
\* Where a producer has a packet in hand that it has not queued or dropped.
Unqueued == HepPlaces \cup UnsentPlaces

\* A record of the line s is never read before one of the line t by the same
\* producer.
Ahead(s, t) == \A j \in DOMAIN s, k \in DOMAIN t :
                   s[j][1] = t[k][1] => s[j][2] < t[k][2]

\* The table, the batch and the channel are one line of records, in the order in
\* which each producer read them; a batch being counted may be in the table.
LineInOrder == /\ Promise!InOrder(stored) /\ Promise!InOrder(batch) /\ Promise!InOrder(ch)
               /\ Ahead(stored, ch) /\ Ahead(batch, ch)
               /\ wpc \notin {"ok", "err"} => Ahead(stored, batch)

\* The records of a line have been read, and queued by their producer.
Sent(s) == \A k \in DOMAIN s :
               /\ s[k][2] <= packets[s[k][1]]
               /\ pc[s[k][1]] \in Unqueued => s[k][2] < packets[s[k][1]]

LineSent == Sent(stored) /\ Sent(batch) /\ Sent(ch)

\* What the metrics have said of a record, by where it is.
QueuedPending == /\ \A k \in DOMAIN ch : fate[ch[k]] = "pending"
                 /\ \A k \in DOMAIN batch : fate[batch[k]] = "pending"

HandFates == \A p \in Producers :
                 /\ pc[p] \in HepPlaces => fate[Id(p)] = "none"
                 /\ pc[p] \in UnsentPlaces => fate[Id(p)] = "pending"
                 /\ \A n \in 1 .. MaxPackets : n > packets[p] => fate[<<p, n>>] = "none"

Committed == wpc = "ok" => \A k \in DOMAIN batch : \E j \in DOMAIN stored : stored[j] = batch[k]

RecorderInv == LineInOrder /\ LineSent /\ QueuedPending /\ HandFates /\ Committed

\* A record that is pending is somewhere.
InChannel(i) == \E k \in DOMAIN ch : ch[k] = i
InHand(i)    == pc[i[1]] \in UnsentPlaces /\ i = Id(i[1])

PendingFound == \A i \in Ids : fate[i] = "pending" => InChannel(i) \/ InBatch(i) \/ InHand(i)

WriterDone == wpc = "done" => batch = << >>

ExitWaits == exited => wpc = "done" /\ \A p \in Waited : pc[p] = "done"

LossInv == PendingFound /\ WriterDone /\ ExitWaits
-----------------------------------------------------------------------------
\* A record is told by its producer and its number.
LEMMA IdsAre ==
    \A i \in Ids : /\ i = <<i[1], i[2]>> /\ i[1] \in Producers
                   /\ i[2] \in 1 .. MaxPackets /\ i[2] \in Nat
  BY IngestAssumption DEF Ids

\* The records of the table, the batch and the channel.
LEMMA LineTypes ==
    ASSUME TypeInv
    PROVE  /\ stored \in Seq(Ids) /\ batch \in Seq(Ids) /\ ch \in Seq(Ids)
           /\ \A k \in DOMAIN stored : stored[k] \in Ids
           /\ \A k \in DOMAIN batch : batch[k] \in Ids
           /\ \A k \in DOMAIN ch : ch[k] \in Ids
           /\ packets \in [Producers -> Nat] /\ pc \in [Producers -> Places]
           /\ fate \in [Ids -> {"none", "pending", "dropped", "ok", "err"}]
<1>1. /\ stored \in Seq(Ids) /\ batch \in Seq(Ids) /\ ch \in Seq(Ids)
      /\ packets \in [Producers -> Nat] /\ pc \in [Producers -> Places]
      /\ fate \in [Ids -> {"none", "pending", "dropped", "ok", "err"}]
  BY IngestAssumption DEF TypeInv, TypeOK
<1> QED
  BY <1>1

\* What Append and \o do to a line of records.
LEMMA JoinsEnd ==
    ASSUME NEW s \in Seq(Ids), NEW i \in Ids
    PROVE  \E L \in Nat : /\ L = Len(s) /\ DOMAIN s = 1 .. L
                          /\ DOMAIN Append(s, i) = 1 .. L + 1
                          /\ Append(s, i)[L + 1] = i
                          /\ \A k \in 1 .. L : Append(s, i)[k] = s[k]
<1>1. PICK L \in Nat : L = Len(s) /\ DOMAIN s = 1 .. L
  OBVIOUS
<1>2. /\ DOMAIN Append(s, i) = 1 .. L + 1
      /\ Append(s, i)[L + 1] = i
      /\ \A k \in 1 .. L : Append(s, i)[k] = s[k]
  BY <1>1
<1> QED
  BY <1>1, <1>2

\* What joining two sequences gives, place by place.
LEMMA JoinsAll ==
    ASSUME NEW s \in Seq(Ids), NEW t \in Seq(Ids), NEW u, u = s \o t,
           NEW L \in Nat, NEW N \in Nat, L = Len(s), N = Len(t)
    PROVE  /\ L + N = Len(u)
           /\ DOMAIN s = 1 .. L /\ DOMAIN t = 1 .. N /\ DOMAIN u = 1 .. L + N
           /\ \A k \in 1 .. L : u[k] = s[k]
           /\ \A k \in 1 .. N : u[L + k] = t[k]
           /\ \A k \in L + 1 .. L + N : u[k] = t[k - L] /\ k - L \in 1 .. N
<1>1. /\ L + N = Len(u)
      /\ DOMAIN s = 1 .. L /\ DOMAIN t = 1 .. N /\ DOMAIN u = 1 .. L + N
      /\ \A k \in 1 .. L : u[k] = s[k]
      /\ \A k \in 1 .. N : u[L + k] = t[k]
  OBVIOUS
<1>2. \A k \in L + 1 .. L + N : u[k] = t[k - L] /\ k - L \in 1 .. N
  BY <1>1
<1> QED
  BY <1>1, <1>2

\* A producer moves on with the packet it has, or is done with it.
LEMMA MoveKeeps ==
    ASSUME TypeInv, RecorderInv, NEW p \in Producers, NEW place, Goto(p, place),
           UNCHANGED <<packets, writerVars, fate>>,
           place \in HepPlaces => pc[p] \in HepPlaces,
           place \in UnsentPlaces => pc[p] \in UnsentPlaces
    PROVE  RecorderInv'
<1>1. /\ \A q \in Producers : pc'[q] \in HepPlaces => pc[q] \in HepPlaces
      /\ \A q \in Producers : pc'[q] \in UnsentPlaces => pc[q] \in UnsentPlaces
  BY LineTypes DEF Goto
<1>2. UNCHANGED <<ch, batch, wpc, stored, packets, fate>>
  BY DEF writerVars
<1>3. LineInOrder' /\ QueuedPending' /\ Committed'
  BY <1>2 DEF RecorderInv, LineInOrder, QueuedPending, Committed, Promise!InOrder, Ahead
<1>4. Sent(stored)' /\ Sent(batch)' /\ Sent(ch)'
  BY <1>1, <1>2, LineTypes, IdsAre DEF RecorderInv, LineSent, Sent, Unqueued
<1>5. HandFates'
  BY <1>1, <1>2 DEF RecorderInv, HandFates, Id
<1> QED
  BY <1>3, <1>4, <1>5 DEF RecorderInv, LineSent

\* A HEP producer reads its next packet.
LEMMA ReadKeeps ==
    ASSUME TypeInv, RecorderInv, NEW p \in Producers, HepBad(p) \/ HepGood(p)
    PROVE  RecorderInv'
<1>1. PICK place : Goto(p, place) /\ place \notin UnsentPlaces
  <2>1. \A next \in AfterPacket(p) : next \notin UnsentPlaces
    BY IngestAssumption, AfterPacketOK DEF Handling, Holding, UnsentPlaces
  <2> QED
    BY <2>1 DEF HepBad, HepGood, UnsentPlaces
<1>2. /\ packets[p] < MaxPackets
      /\ packets' = [packets EXCEPT ![p] = @ + 1]
      /\ UNCHANGED <<ch, batch, wpc, stored, fate>>
  BY DEF HepBad, HepGood, NextPacket, writerVars
<1>3. /\ packets'[p] = packets[p] + 1 /\ pc'[p] = place
      /\ \A q \in Producers \ {p} : packets'[q] = packets[q] /\ pc'[q] = pc[q]
      /\ \A q \in Producers : packets[q] \in Nat
  BY <1>1, <1>2, LineTypes DEF Goto
<1>4. LineInOrder' /\ QueuedPending' /\ Committed'
  BY <1>2 DEF RecorderInv, LineInOrder, QueuedPending, Committed, Promise!InOrder, Ahead
<1>5. Sent(stored)' /\ Sent(batch)' /\ Sent(ch)'
  <2>1. ASSUME NEW s, Sent(s), NEW k \in DOMAIN s, s[k] \in Ids
        PROVE  s[k][2] < packets'[s[k][1]] \/ (s[k][1] # p /\ s[k][2] <= packets'[s[k][1]]
                                              /\ (pc'[s[k][1]] \in Unqueued
                                                    => s[k][2] < packets'[s[k][1]]))
    BY <1>3, <2>1, IdsAre DEF Sent
  <2>2. Sent(stored) /\ Sent(batch) /\ Sent(ch)
    BY DEF RecorderInv, LineSent
  <2>3. ASSUME NEW s, Sent(s), NEW k \in DOMAIN s, s[k] \in Ids
        PROVE  /\ s[k][2] <= packets'[s[k][1]]
               /\ pc'[s[k][1]] \in Unqueued => s[k][2] < packets'[s[k][1]]
    <3>1. s[k][1] \in Producers /\ s[k][2] \in Nat
      BY <2>3, IdsAre
    <3>2. packets'[s[k][1]] \in Nat
      BY <1>3, <3>1
    <3> QED
      BY <2>1, <2>3, <3>1, <3>2
  <2>4. Sent(stored)'
    BY <1>2, <2>2, <2>3, LineTypes DEF Sent
  <2>5. Sent(batch)'
    BY <1>2, <2>2, <2>3, LineTypes DEF Sent
  <2>6. Sent(ch)'
    BY <1>2, <2>2, <2>3, LineTypes DEF Sent
  <2> QED
    BY <2>4, <2>5, <2>6
<1>6. HandFates'
  <2>1. packets[p] + 1 \in 1 .. MaxPackets /\ packets[p] + 1 > packets[p]
    BY <1>2, <1>3, IngestAssumption
  <2>2. fate[<<p, packets[p] + 1>>] = "none"
    BY <2>1 DEF RecorderInv, HandFates
  <2>3. ASSUME NEW q \in Producers, NEW n \in 1 .. MaxPackets, n > packets'[q]
        PROVE  fate'[<<q, n>>] = "none"
    BY <1>2, <1>3, <2>3 DEF RecorderInv, HandFates
  <2> QED
    BY <1>1, <1>2, <1>3, <2>2, <2>3 DEF RecorderInv, HandFates, Id
<1> QED
  BY <1>4, <1>5, <1>6 DEF RecorderInv, LineSent

\* sipWorker and handleHEPPacket accept a message nothing was said about before.
LEMMA AcceptKeeps ==
    ASSUME TypeInv, RecorderInv, NEW p \in Producers, SipPacket(p) \/ HepMessage(p)
    PROVE  RecorderInv' /\ \E i \in Ids : Promise!Accept(i)
<1> DEFINE i == <<p, packets'[p]>>
<1>1. /\ Goto(p, "kind") /\ fate' = [fate EXCEPT ![i] = "pending"]
      /\ UNCHANGED <<ch, batch, wpc, stored>>
  BY DEF SipPacket, HepMessage, Accept, writerVars
<1>2. \/ /\ packets[p] < MaxPackets
         /\ packets' = [packets EXCEPT ![p] = @ + 1]
      \/ pc[p] = "parse" /\ packets' = packets /\ packets[p] >= 1
  BY TypeInvParts DEF Parts, ProducersOK, Handling, SipPacket, HepMessage, NextPacket, At
<1>3. /\ packets'[p] \in 1 .. MaxPackets /\ packets[p] <= packets'[p] /\ packets[p] \in Nat
      /\ pc'[p] = "kind"
      /\ \A q \in Producers \ {p} : packets'[q] = packets[q] /\ pc'[q] = pc[q]
  <2>1. packets \in [Producers -> 0 .. MaxPackets] /\ pc \in [Producers -> Places]
    BY DEF TypeInv, TypeOK
  <2> QED
    BY <1>1, <1>2, <2>1, IngestAssumption DEF Goto
<1>4. i \in Ids /\ fate[i] = "none"
  <2>1. i \in Ids
    BY <1>3 DEF Ids
  <2>2. CASE packets' = [packets EXCEPT ![p] = @ + 1]
    <3>1. packets'[p] > packets[p]
      BY <2>2, LineTypes
    <3> QED
      BY <1>3, <2>1, <3>1 DEF RecorderInv, HandFates
  <2>3. CASE pc[p] = "parse" /\ packets' = packets
    BY <2>1, <2>3 DEF RecorderInv, HandFates, HepPlaces, Id
  <2> QED
    BY <1>2, <2>1, <2>2, <2>3
<1>5. /\ fate'[i] = "pending" /\ \A j \in Ids \ {i} : fate'[j] = fate[j]
  BY <1>1, <1>4, LineTypes
<1>6. LineInOrder' /\ Committed'
  BY <1>1 DEF RecorderInv, LineInOrder, Committed, Promise!InOrder, Ahead
<1>7. QueuedPending'
  BY <1>1, <1>5, LineTypes DEF RecorderInv, QueuedPending
<1>8. ASSUME NEW s, Sent(s), NEW k \in DOMAIN s, s[k] \in Ids
      PROVE  /\ s[k][2] <= packets'[s[k][1]]
             /\ pc'[s[k][1]] \in Unqueued => s[k][2] < packets'[s[k][1]]
  BY <1>2, <1>3, <1>8, LineTypes, IdsAre DEF Sent, Unqueued, HepPlaces
<1>9. Sent(stored)' /\ Sent(batch)' /\ Sent(ch)'
  <2>1. Sent(stored) /\ Sent(batch) /\ Sent(ch)
    BY DEF RecorderInv, LineSent
  <2>2. Sent(stored)'
    BY <1>1, <1>8, <2>1, LineTypes DEF Sent
  <2>3. Sent(batch)'
    BY <1>1, <1>8, <2>1, LineTypes DEF Sent
  <2>4. Sent(ch)'
    BY <1>1, <1>8, <2>1, LineTypes DEF Sent
  <2> QED
    BY <2>2, <2>3, <2>4
<1>10. HandFates'
  <2>1. ASSUME NEW q \in Producers, NEW n \in 1 .. MaxPackets, n > packets'[q]
        PROVE  fate'[<<q, n>>] = "none"
    <3>1. <<q, n>> \in Ids /\ <<q, n>> # i
      BY <1>3, <2>1 DEF Ids
    <3>2. n > packets[q]
      BY <1>3, <2>1, LineTypes
    <3> QED
      BY <1>5, <3>1, <3>2 DEF RecorderInv, HandFates
  <2>2. ASSUME NEW q \in Producers \ {p}, pc[q] \in Unqueued
        PROVE  Id(q)' = Id(q) /\ fate'[Id(q)] = fate[Id(q)]
    <3>1. Id(q) \in Ids
      BY <2>2, IdOK, TypeInvParts DEF Parts, Unqueued, Handling, HepPlaces, UnsentPlaces, Holding
    <3>2. Id(q) # i /\ Id(q)' = Id(q)
      BY <1>3 DEF Id
    <3> QED
      BY <1>5, <3>1, <3>2
  <2>3. ASSUME NEW q \in Producers
        PROVE  /\ pc'[q] \in HepPlaces => fate'[Id(q)'] = "none"
               /\ pc'[q] \in UnsentPlaces => fate'[Id(q)'] = "pending"
    <3>1. CASE q = p
      BY <1>3, <1>5, <3>1 DEF Id, HepPlaces
    <3>2. CASE q # p
      BY <1>3, <2>2, <3>2 DEF RecorderInv, HandFates, Unqueued
    <3> QED
      BY <3>1, <3>2
  <2> QED
    BY <2>1, <2>3 DEF HandFates
<1>11. Promise!Accept(i)
  BY <1>1, <1>4 DEF Promise!Accept
<1> QED
  BY <1>4, <1>6, <1>7, <1>9, <1>10, <1>11 DEF RecorderInv, LineSent

\* A record joins the end of the channel.
LEMMA EnqueueKeeps ==
    ASSUME TypeInv, RecorderInv, NEW p \in Producers, Enqueue(p)
    PROVE  RecorderInv'
<1>1. /\ pc[p] = "send" /\ Goto(p, "after") /\ ch' = Append(ch, Id(p))
      /\ UNCHANGED <<packets, batch, wpc, stored, fate>>
  BY DEF Enqueue, At
<1>2. Id(p) \in Ids /\ Id(p)[1] = p /\ Id(p)[2] = packets[p] /\ packets[p] \in Nat
  <2>1. Id(p) \in Ids
    BY <1>1, IdOK, TypeInvParts DEF Parts, Handling, Holding
  <2> QED
    BY <2>1, LineTypes DEF Id
<1>3. PICK L \in Nat : /\ DOMAIN ch = 1 .. L /\ DOMAIN ch' = 1 .. L + 1
                       /\ ch'[L + 1] = Id(p) /\ \A k \in 1 .. L : ch'[k] = ch[k]
  BY <1>1, <1>2, LineTypes, JoinsEnd
<1>4. /\ pc'[p] = "after" /\ \A q \in Producers \ {p} : pc'[q] = pc[q]
  BY <1>1, LineTypes DEF Goto
<1>5. ASSUME NEW s, Sent(s), NEW k \in DOMAIN s, s[k][1] = p
      PROVE  s[k][2] < packets[p]
  BY <1>1, <1>5 DEF Sent, Unqueued, UnsentPlaces
<1>6. Sent(stored) /\ Sent(batch) /\ Sent(ch)
  BY DEF RecorderInv, LineSent
<1>7. Promise!InOrder(ch')
  <2>1. \A j, k \in 1 .. L : j < k /\ ch[j][1] = ch[k][1] => ch[j][2] < ch[k][2]
    BY <1>3 DEF RecorderInv, LineInOrder, Promise!InOrder
  <2>2. \A j \in 1 .. L : ch[j][1] = p => ch[j][2] < packets[p]
    BY <1>3, <1>5, <1>6
  <2> QED
    BY <1>2, <1>3, <2>1, <2>2 DEF Promise!InOrder
<1>8. Ahead(stored, ch') /\ Ahead(batch, ch')
  BY <1>2, <1>3, <1>5, <1>6 DEF RecorderInv, LineInOrder, Ahead
<1>9. LineInOrder' /\ Committed'
  BY <1>1, <1>7, <1>8 DEF RecorderInv, LineInOrder, Committed, Promise!InOrder, Ahead
<1>10. QueuedPending'
  <2>1. fate[Id(p)] = "pending"
    BY <1>1 DEF RecorderInv, HandFates, UnsentPlaces
  <2> QED
    BY <1>1, <1>3, <2>1 DEF RecorderInv, QueuedPending
<1>11. Sent(stored)' /\ Sent(batch)'
  BY <1>1, <1>4, <1>6, LineTypes, IdsAre DEF Sent, Unqueued, HepPlaces, UnsentPlaces
<1>12. Sent(ch)'
  BY <1>1, <1>2, <1>3, <1>4, <1>6, LineTypes, IdsAre DEF Sent, Unqueued, HepPlaces, UnsentPlaces
<1>13. HandFates'
  BY <1>1, <1>4 DEF RecorderInv, HandFates, Id, HepPlaces, UnsentPlaces
<1> QED
  BY <1>9, <1>10, <1>11, <1>12, <1>13 DEF RecorderInv, LineSent

\* A record that found no room was never written.
LEMMA DropKeeps ==
    ASSUME TypeInv, RecorderInv, NEW p \in Producers, CountDrop(p)
    PROVE  RecorderInv' /\ \E i \in Ids : Promise!Drop(i)
<1>1. /\ pc[p] = "drop" /\ Goto(p, "after") /\ fate' = [fate EXCEPT ![Id(p)] = "dropped"]
      /\ UNCHANGED <<packets, ch, batch, wpc, stored>>
  BY DEF CountDrop, At, writerVars
<1>2. Id(p) \in Ids /\ Id(p)[1] = p /\ Id(p)[2] = packets[p] /\ packets[p] \in Nat
  <2>1. Id(p) \in Ids
    BY <1>1, IdOK, TypeInvParts DEF Parts, Handling, Holding
  <2> QED
    BY <2>1, LineTypes DEF Id
<1>3. /\ pc'[p] = "after" /\ \A q \in Producers \ {p} : pc'[q] = pc[q]
  BY <1>1, LineTypes DEF Goto
<1>4. \A j \in Ids \ {Id(p)} : fate'[j] = fate[j]
  BY <1>1, <1>2, LineTypes
<1>5. ASSUME NEW s, Sent(s), NEW k \in DOMAIN s
      PROVE  s[k] # Id(p)
  BY <1>1, <1>2, <1>5 DEF Sent, Unqueued, UnsentPlaces
<1>6. Sent(stored) /\ Sent(batch) /\ Sent(ch)
  BY DEF RecorderInv, LineSent
<1>7. LineInOrder' /\ Committed'
  BY <1>1 DEF RecorderInv, LineInOrder, Committed, Promise!InOrder, Ahead
<1>8. QueuedPending'
  BY <1>1, <1>4, <1>5, <1>6, LineTypes DEF RecorderInv, QueuedPending
<1>9. Sent(stored)' /\ Sent(batch)' /\ Sent(ch)'
  BY <1>1, <1>3, <1>6, LineTypes, IdsAre DEF Sent, Unqueued, HepPlaces, UnsentPlaces
<1>10. HandFates'
  <2>1. ASSUME NEW q \in Producers, NEW n \in 1 .. MaxPackets, n > packets[q]
        PROVE  fate'[<<q, n>>] = "none"
    <3>1. <<q, n>> \in Ids /\ <<q, n>> # Id(p)
      BY <1>2, <2>1, LineTypes DEF Ids, Id
    <3> QED
      BY <1>4, <2>1, <3>1 DEF RecorderInv, HandFates
  <2>2. ASSUME NEW q \in Producers
        PROVE  /\ pc'[q] \in HepPlaces => fate'[Id(q)] = "none"
               /\ pc'[q] \in UnsentPlaces => fate'[Id(q)] = "pending"
    <3>1. CASE q = p
      BY <1>3, <3>1 DEF HepPlaces, UnsentPlaces
    <3>2. CASE q # p /\ pc[q] \in Unqueued
      <4>1. Id(q) \in Ids
        BY <3>2, IdOK, TypeInvParts DEF Parts, Unqueued, Handling, HepPlaces, UnsentPlaces, Holding
      <4>2. Id(q) # Id(p)
        BY <3>2 DEF Id
      <4> QED
        BY <1>3, <1>4, <3>2, <4>1, <4>2 DEF RecorderInv, HandFates
    <3>3. CASE q # p /\ pc[q] \notin Unqueued
      BY <1>3, <3>3 DEF Unqueued
    <3> QED
      BY <3>1, <3>2, <3>3
  <2>3. \A q \in Producers : Id(q)' = Id(q)
    BY <1>1 DEF Id
  <2> QED
    BY <1>1, <2>1, <2>2, <2>3 DEF HandFates
<1>11. Promise!Drop(Id(p))
  <2>1. fate[Id(p)] = "pending"
    BY <1>1 DEF RecorderInv, HandFates, UnsentPlaces
  <2>2. \A k \in DOMAIN stored : stored[k] # Id(p)
    BY <1>5, <1>6
  <2> QED
    BY <1>1, <2>1, <2>2 DEF Promise!Drop, Promise!Range
<1> QED
  BY <1>2, <1>7, <1>8, <1>9, <1>10, <1>11 DEF RecorderInv, LineSent
-----------------------------------------------------------------------------
\* The writer moves the head of the channel to the end of its batch.
LEMMA ReceiveKeeps ==
    ASSUME TypeInv, RecorderInv, Receive
    PROVE  RecorderInv'
<1>1. /\ wpc = "select" /\ wpc' \in {"select", "insert"} /\ ch # << >>
      /\ ch' = Tail(ch) /\ batch' = Append(batch, Head(ch))
      /\ UNCHANGED <<pc, packets, stored, fate>>
  BY DEF Receive, InSelect, producerVars
<1>2. PICK N \in Nat \ {0} : /\ DOMAIN ch = 1 .. N /\ DOMAIN ch' = 1 .. N - 1
                             /\ Head(ch) = ch[1] /\ ch[1] \in Ids
                             /\ \A k \in 1 .. N - 1 : ch'[k] = ch[k + 1]
  <2>1. PICK N \in Nat \ {0} : N = Len(ch) /\ DOMAIN ch = 1 .. N
    <3>1. ch \in Seq(Ids)
      BY LineTypes
    <3>2. Len(ch) \in Nat \ {0} /\ DOMAIN ch = 1 .. Len(ch)
      BY <1>1, <3>1
    <3> QED
      BY <3>2
  <2>2. /\ DOMAIN Tail(ch) = 1 .. N - 1 /\ Head(ch) = ch[1] /\ ch[1] \in Ids
        /\ \A k \in 1 .. N - 1 : Tail(ch)[k] = ch[k + 1]
    BY <1>1, <2>1, LineTypes
  <2> QED
    BY <1>1, <2>1, <2>2
<1>3. PICK L \in Nat : /\ DOMAIN batch = 1 .. L /\ DOMAIN batch' = 1 .. L + 1
                       /\ batch'[L + 1] = ch[1] /\ \A k \in 1 .. L : batch'[k] = batch[k]
  <2>1. batch \in Seq(Ids) /\ ch[1] \in Ids
    BY <1>2, LineTypes
  <2>2. batch' = Append(batch, ch[1])
    BY <1>1, <1>2
  <2>3. PICK L \in Nat : /\ L = Len(batch) /\ DOMAIN batch = 1 .. L
                         /\ DOMAIN Append(batch, ch[1]) = 1 .. L + 1
                         /\ Append(batch, ch[1])[L + 1] = ch[1]
                         /\ \A k \in 1 .. L : Append(batch, ch[1])[k] = batch[k]
    BY <2>1, JoinsEnd
  <2> QED
    BY <2>2, <2>3
<1>4. /\ \A j, k \in 1 .. N : j < k /\ ch[j][1] = ch[k][1] => ch[j][2] < ch[k][2]
      /\ \A j, k \in 1 .. L : j < k /\ batch[j][1] = batch[k][1] => batch[j][2] < batch[k][2]
      /\ \A j \in 1 .. L, k \in 1 .. N : batch[j][1] = ch[k][1] => batch[j][2] < ch[k][2]
  BY <1>2, <1>3 DEF RecorderInv, LineInOrder, Promise!InOrder, Ahead
<1>5. Promise!InOrder(ch')
  <2>1. \A k \in 1 .. N - 1 : k + 1 \in 1 .. N /\ ch'[k] = ch[k + 1]
    BY <1>2
  <2>2. ASSUME NEW j \in 1 .. N - 1, NEW k \in 1 .. N - 1, j < k, ch'[j][1] = ch'[k][1]
        PROVE  ch'[j][2] < ch'[k][2]
    BY <1>4, <2>1, <2>2
  <2> QED
    BY <1>2, <2>2 DEF Promise!InOrder
<1>6. Promise!InOrder(batch')
  BY <1>2, <1>3, <1>4 DEF Promise!InOrder
<1>7. Ahead(batch', ch')
  <2>1. \A k \in 1 .. N - 1 : k + 1 \in 1 .. N /\ ch'[k] = ch[k + 1] /\ 1 < k + 1 /\ 1 \in 1 .. N
    BY <1>2
  <2>2. ASSUME NEW j \in 1 .. L + 1, NEW k \in 1 .. N - 1, batch'[j][1] = ch'[k][1]
        PROVE  batch'[j][2] < ch'[k][2]
    <3>1. CASE j = L + 1
      BY <1>3, <1>4, <2>1, <2>2, <3>1
    <3>2. CASE j \in 1 .. L
      BY <1>3, <1>4, <2>1, <2>2, <3>2
    <3> QED
      BY <3>1, <3>2
  <2> QED
    BY <1>2, <1>3, <2>2 DEF Ahead
<1>8. Ahead(stored, ch') /\ Ahead(stored, batch')
  <2>1. Ahead(stored, ch) /\ Ahead(stored, batch)
    BY <1>1 DEF RecorderInv, LineInOrder
  <2>2. Ahead(stored, ch')
    BY <1>2, <2>1 DEF Ahead
  <2>3. ASSUME NEW j \in DOMAIN stored, NEW k \in 1 .. L + 1, stored[j][1] = batch'[k][1]
        PROVE  stored[j][2] < batch'[k][2]
    <3>1. CASE k \in 1 .. L
      <4>1. batch'[k] = batch[k] /\ k \in DOMAIN batch
        BY <1>3, <3>1
      <4> QED
        BY <2>1, <2>3, <4>1 DEF Ahead
    <3>2. CASE k = L + 1
      <4>1. batch'[k] = ch[1] /\ 1 \in DOMAIN ch
        BY <1>2, <1>3, <3>2
      <4> QED
        BY <2>1, <2>3, <4>1 DEF Ahead
    <3> QED
      BY <1>3, <3>1, <3>2
  <2> QED
    BY <1>3, <2>2, <2>3 DEF Ahead
<1>9. LineInOrder' /\ Committed'
  BY <1>1, <1>5, <1>6, <1>7, <1>8 DEF RecorderInv, LineInOrder, Committed, Promise!InOrder, Ahead
<1>10. QueuedPending'
  BY <1>1, <1>2, <1>3 DEF RecorderInv, QueuedPending
<1>11. Sent(stored)' /\ Sent(batch)' /\ Sent(ch)'
  BY <1>1, <1>2, <1>3 DEF RecorderInv, LineSent, Sent
<1>12. HandFates'
  BY <1>1 DEF RecorderInv, HandFates, Id
<1> QED
  BY <1>9, <1>10, <1>11, <1>12 DEF RecorderInv, LineSent

\* The writer starts a flush, stops, or its transaction fails; main is told to
\* stop or returns.
LEMMA RestKeeps ==
    ASSUME TypeInv, RecorderInv,
           FlushTick \/ Stop \/ TxFail \/ Cancel \/ Exit \/ UNCHANGED vars
    PROVE  RecorderInv' /\ UNCHANGED <<fate, stored>>
<1>1. /\ UNCHANGED <<pc, packets, ch, batch, stored, fate>>
      /\ wpc' = wpc \/ (wpc \in {"select", "insert"} /\ wpc' # "ok")
  BY DEF FlushTick, Stop, TxFail, Cancel, Exit, vars, InSelect, Inserting, producerVars, writerVars
<1>2. LineInOrder' /\ Committed'
  BY <1>1 DEF RecorderInv, LineInOrder, Committed, Promise!InOrder, Ahead
<1>3. QueuedPending' /\ HandFates' /\ LineSent'
  BY <1>1 DEF RecorderInv, QueuedPending, HandFates, LineSent, Sent, Id
<1> QED
  BY <1>1, <1>2, <1>3 DEF RecorderInv

\* The batch is committed, whether or not the writer hears of it.
LEMMA CommitKeeps ==
    ASSUME TypeInv, RecorderInv, TxCommit \/ TxCommitUnheard
    PROVE  RecorderInv' /\ Promise!Write
<1>1. /\ wpc = "insert" /\ wpc' \in {"ok", "err"} /\ stored' = stored \o batch
      /\ UNCHANGED <<pc, packets, ch, batch, fate>>
  BY DEF TxCommit, TxCommitUnheard, Inserting, producerVars
<1>2. PICK L \in Nat, N \in Nat :
              /\ L = Len(stored) /\ N = Len(batch) /\ L + N = Len(stored')
              /\ DOMAIN stored = 1 .. L /\ DOMAIN batch = 1 .. N
              /\ DOMAIN stored' = 1 .. L + N
              /\ \A k \in 1 .. L : stored'[k] = stored[k]
              /\ \A k \in 1 .. N : stored'[L + k] = batch[k]
              /\ \A k \in L + 1 .. L + N : stored'[k] = batch[k - L] /\ k - L \in 1 .. N
  <2>1. stored \in Seq(Ids) /\ batch \in Seq(Ids)
    BY LineTypes
  <2>2. PICK L \in Nat, N \in Nat : L = Len(stored) /\ N = Len(batch)
    BY <2>1
  <2>3. /\ L + N = Len(stored')
        /\ DOMAIN stored = 1 .. L /\ DOMAIN batch = 1 .. N /\ DOMAIN stored' = 1 .. L + N
        /\ \A k \in 1 .. L : stored'[k] = stored[k]
        /\ \A k \in 1 .. N : stored'[L + k] = batch[k]
        /\ \A k \in L + 1 .. L + N : stored'[k] = batch[k - L] /\ k - L \in 1 .. N
    BY <1>1, <2>1, <2>2, JoinsAll
  <2> QED
    BY <2>2, <2>3
<1>3. \A k \in 1 .. L + N : k \in 1 .. L \/ k \in L + 1 .. L + N
  BY <1>2
<1>4. Promise!InOrder(stored')
  <2>1. /\ \A j, k \in 1 .. L : j < k /\ stored[j][1] = stored[k][1] => stored[j][2] < stored[k][2]
        /\ \A j, k \in 1 .. N : j < k /\ batch[j][1] = batch[k][1] => batch[j][2] < batch[k][2]
        /\ \A j \in 1 .. L, k \in 1 .. N :
              stored[j][1] = batch[k][1] => stored[j][2] < batch[k][2]
    BY <1>1, <1>2 DEF RecorderInv, LineInOrder, Promise!InOrder, Ahead
  <2>2. ASSUME NEW j \in 1 .. L + N, NEW k \in 1 .. L + N, j < k,
               stored'[j][1] = stored'[k][1]
        PROVE  stored'[j][2] < stored'[k][2]
    <3>1. CASE j \in 1 .. L /\ k \in 1 .. L
      <4>1. stored'[j] = stored[j] /\ stored'[k] = stored[k]
        BY <1>2, <3>1
      <4> QED
        BY <2>1, <2>2, <3>1, <4>1
    <3>2. CASE j \in 1 .. L /\ k \in L + 1 .. L + N
      <4>1. stored'[j] = stored[j] /\ stored'[k] = batch[k - L] /\ k - L \in 1 .. N
        BY <1>2, <3>2
      <4> QED
        BY <2>1, <2>2, <3>2, <4>1
    <3>3. CASE j \in L + 1 .. L + N /\ k \in L + 1 .. L + N
      <4>1. /\ stored'[j] = batch[j - L] /\ j - L \in 1 .. N
            /\ stored'[k] = batch[k - L] /\ k - L \in 1 .. N
        BY <1>2, <3>3
      <4>2. j - L < k - L
        BY <2>2, <3>3
      <4> QED
        BY <2>1, <2>2, <4>1, <4>2
    <3>4. \/ j \in 1 .. L /\ k \in 1 .. L
          \/ j \in 1 .. L /\ k \in L + 1 .. L + N
          \/ j \in L + 1 .. L + N /\ k \in L + 1 .. L + N
      BY <2>2
    <3> QED
      BY <3>1, <3>2, <3>3, <3>4
  <2> QED
    BY <1>2, <2>2 DEF Promise!InOrder
<1>5. Ahead(stored', ch)
  <2>1. Ahead(stored, ch) /\ Ahead(batch, ch)
    BY DEF RecorderInv, LineInOrder
  <2>2. ASSUME NEW j \in 1 .. L + N, NEW k \in DOMAIN ch, stored'[j][1] = ch[k][1]
        PROVE  stored'[j][2] < ch[k][2]
    <3>1. CASE j \in 1 .. L
      <4>1. stored'[j] = stored[j] /\ j \in DOMAIN stored
        BY <1>2, <3>1
      <4> QED
        BY <2>1, <2>2, <4>1 DEF Ahead
    <3>2. CASE j \in L + 1 .. L + N
      <4>1. stored'[j] = batch[j - L] /\ j - L \in DOMAIN batch
        BY <1>2, <3>2
      <4> QED
        BY <2>1, <2>2, <4>1 DEF Ahead
    <3> QED
      BY <1>3, <3>1, <3>2
  <2> QED
    BY <1>2, <2>2 DEF Ahead
<1>6. Committed'
  <2>1. \A k \in 1 .. N : L + k \in 1 .. L + N
    OBVIOUS
  <2> QED
    BY <1>1, <1>2, <2>1 DEF Committed
<1>7. LineInOrder'
  BY <1>1, <1>4, <1>5 DEF RecorderInv, LineInOrder, Promise!InOrder, Ahead
<1>8. Sent(stored)' /\ Sent(batch)' /\ Sent(ch)'
  BY <1>1, <1>2, <1>3 DEF RecorderInv, LineSent, Sent
<1>9. QueuedPending' /\ HandFates'
  BY <1>1 DEF RecorderInv, QueuedPending, HandFates, Id
<1>10. Promise!Write
  <2>1. \A k \in L + 1 .. L + N : stored'[k] \in Ids /\ fate[stored'[k]] = "pending"
    <3>1. \A k \in 1 .. N : batch[k] \in Ids /\ fate[batch[k]] = "pending"
      BY <1>2, LineTypes DEF RecorderInv, QueuedPending
    <3> QED
      BY <1>2, <3>1
  <2>2. SubSeq(stored', 1, L) = stored
    BY <1>1, <1>2, LineTypes
  <2>3. Len(stored') >= Len(stored)
    BY <1>2
  <2> QED
    BY <1>1, <1>2, <1>4, <2>1, <2>2, <2>3 DEF Promise!Write, Promise!Ids, Ids
<1> QED
  BY <1>6, <1>7, <1>8, <1>9, <1>10 DEF RecorderInv, LineSent

\* The outcome is counted for each record of the batch, once.
LEMMA CountKeeps ==
    ASSUME TypeInv, RecorderInv, CountOk \/ CountErr
    PROVE  RecorderInv' /\ (Promise!Report("ok") \/ Promise!Report("err"))
<1>1. PICK verdict \in {"ok", "err"} :
          /\ wpc = verdict /\ wpc' \in {"done", "select"} /\ batch' = << >>
          /\ fate' = [i \in Ids |-> IF InBatch(i) THEN verdict ELSE fate[i]]
          /\ UNCHANGED <<pc, packets, ch, stored>>
  BY DEF CountOk, CountErr, CountBatch, producerVars
<1>2. DOMAIN batch' = {}
  BY <1>1
<1>3. ASSUME NEW i \in Ids, \A k \in DOMAIN batch : batch[k] # i PROVE fate'[i] = fate[i]
  BY <1>1, <1>3 DEF InBatch
<1>4. Sent(stored) /\ Sent(batch) /\ Sent(ch)
  BY DEF RecorderInv, LineSent
<1>5. LineInOrder' /\ Committed'
  BY <1>1, <1>2 DEF RecorderInv, LineInOrder, Committed, Promise!InOrder, Ahead
<1>6. Sent(stored)' /\ Sent(batch)' /\ Sent(ch)'
  BY <1>1, <1>2, <1>4 DEF Sent
<1>7. QueuedPending'
  <2>1. ASSUME NEW k \in DOMAIN ch PROVE fate'[ch[k]] = "pending"
    <3>1. ch[k] \in Ids /\ ch[k][2] \in Nat
      BY LineTypes, IdsAre
    <3>2. \A j \in DOMAIN batch : batch[j] # ch[k]
      BY <3>1 DEF RecorderInv, LineInOrder, Ahead
    <3> QED
      BY <1>3, <3>1, <3>2 DEF RecorderInv, QueuedPending
  <2> QED
    BY <1>1, <1>2, <2>1 DEF QueuedPending
<1>8. HandFates'
  <2>1. ASSUME NEW q \in Producers, NEW n \in 1 .. MaxPackets, n > packets[q]
        PROVE  fate'[<<q, n>>] = "none"
    <3>1. <<q, n>> \in Ids
      BY DEF Ids
    <3>2. \A k \in DOMAIN batch : batch[k] # <<q, n>>
      BY <1>4, <2>1, LineTypes, IngestAssumption DEF Sent
    <3> QED
      BY <1>3, <2>1, <3>1, <3>2 DEF RecorderInv, HandFates
  <2>2. ASSUME NEW q \in Producers, pc[q] \in Unqueued PROVE fate'[Id(q)] = fate[Id(q)]
    <3>1. Id(q) \in Ids
      BY <2>2, IdOK, TypeInvParts DEF Parts, Unqueued, Handling, HepPlaces, UnsentPlaces, Holding
    <3>2. packets[q] \in Nat /\ Id(q)[1] = q /\ Id(q)[2] = packets[q]
      BY LineTypes DEF Id
    <3>3. \A k \in DOMAIN batch : batch[k] # Id(q)
      BY <1>4, <2>2, <3>2 DEF Sent
    <3> QED
      BY <1>3, <3>1, <3>3
  <2>3. \A q \in Producers : Id(q)' = Id(q)
    BY <1>1 DEF Id
  <2> QED
    BY <1>1, <2>1, <2>2, <2>3 DEF RecorderInv, HandFates, Unqueued
<1>9. Promise!Report(verdict)
  <2>1. ASSUME NEW i \in Ids, fate'[i] # fate[i]
        PROVE  /\ fate[i] = "pending" /\ fate'[i] = verdict
               /\ verdict = "ok" => \E j \in DOMAIN stored : stored[j] = i
    <3>1. InBatch(i) /\ fate'[i] = verdict
      BY <1>1, <2>1
    <3>2. PICK k \in DOMAIN batch : batch[k] = i
      BY <3>1 DEF InBatch
    <3> QED
      BY <1>1, <3>1, <3>2 DEF RecorderInv, QueuedPending, Committed
  <2>2. DOMAIN fate' = Ids /\ Ids = Promise!Ids
    BY <1>1 DEF Ids, Promise!Ids
  <2> QED
    BY <1>1, <2>1, <2>2 DEF Promise!Report, Promise!Range
<1> QED
  BY <1>1, <1>5, <1>6, <1>7, <1>8, <1>9 DEF RecorderInv, LineSent
-----------------------------------------------------------------------------
\* Nothing has been read at the start.
LEMMA RecorderInit == Init => RecorderInv /\ Promise!Init
<1> SUFFICES ASSUME Init PROVE RecorderInv /\ Promise!Init
  OBVIOUS
<1>1. /\ ch = << >> /\ batch = << >> /\ stored = << >> /\ wpc = "select"
      /\ DOMAIN ch = {} /\ DOMAIN batch = {} /\ DOMAIN stored = {}
      /\ fate = [i \in Ids |-> "none"]
  BY DEF Init
<1>2. \A p \in Producers : pc[p] \in {"accept", "top"}
  BY DEF Init, Start
<1>3. HandFates
  <2>1. \A p \in Producers, n \in 1 .. MaxPackets : fate[<<p, n>>] = "none"
    BY <1>1 DEF Ids
  <2> QED
    BY <1>2, <2>1 DEF HandFates, HepPlaces, UnsentPlaces
<1>4. LineInOrder /\ LineSent /\ QueuedPending /\ Committed
  BY <1>1 DEF LineInOrder, LineSent, QueuedPending, Committed, Promise!InOrder, Ahead, Sent
<1> QED
  BY <1>1, <1>3, <1>4 DEF RecorderInv, Promise!Init, Promise!Ids, Ids

\* The steps of a producer that Recorder does not see.
LEMMA QuietKeeps ==
    ASSUME TypeInv, RecorderInv, NEW p \in Producers,
           Bumps(p) \/ HepBad(p) \/ HepGood(p) \/ PushRecent(p) \/ Finish(p)
    PROVE  RecorderInv' /\ UNCHANGED <<fate, stored>>
<1>1. CASE Bumps(p)
  <2>1. UNCHANGED <<packets, writerVars, fate>>
    BY <1>1, BumpsMove
  <2>2. PICK place : /\ Goto(p, place)
                     /\ place \in HepPlaces => pc[p] \in HepPlaces
                     /\ place \in UnsentPlaces => pc[p] \in UnsentPlaces
    <3> USE IngestAssumption DEF At, HepPlaces, UnsentPlaces
    <3>1. \A next \in AfterPacket(p) : next \notin HepPlaces /\ next \notin UnsentPlaces
      BY AfterPacketOK DEF Handling, Holding
    <3>2. CASE AcceptPeer(p) \/ DenyPeer(p) \/ CheckDone(p) \/ ReadNothing(p)
      BY <3>2 DEF AcceptPeer, DenyPeer, CheckDone, ReadNothing
    <3>3. CASE HepTransport(p) \/ HepProto(p)
      BY <3>3 DEF HepTransport, HepProto
    <3>4. CASE HepReject(p)
      BY <3>1, <3>4 DEF HepReject
    <3>5. CASE CountKind(p) \/ CountStatus(p) \/ BumpMethod(p) \/ QueueFull(p)
      BY <3>5 DEF CountKind, CountStatus, BumpMethod, QueueFull
    <3> QED
      BY <1>1, <3>2, <3>3, <3>4, <3>5 DEF Bumps
  <2> QED
    BY <2>1, <2>2, MoveKeeps DEF writerVars
<1>2. CASE HepBad(p) \/ HepGood(p)
  BY <1>2, ReadKeeps DEF HepBad, HepGood, writerVars
<1>3. CASE PushRecent(p)
  <2>1. Goto(p, "send") /\ pc[p] = "push" /\ UNCHANGED <<packets, writerVars, fate>>
    BY <1>3 DEF PushRecent, At
  <2> QED
    BY <2>1, MoveKeeps DEF writerVars, HepPlaces, UnsentPlaces
<1>4. CASE Finish(p)
  <2>1. UNCHANGED <<packets, writerVars, fate>>
    BY <1>4 DEF Finish
  <2>2. PICK place \in AfterPacket(p) : Goto(p, place)
    BY <1>4 DEF Finish
  <2>3. place \notin HepPlaces /\ place \notin UnsentPlaces
    BY <2>2, IngestAssumption, AfterPacketOK DEF Handling, Holding, HepPlaces, UnsentPlaces
  <2> QED
    BY <2>1, <2>2, <2>3, MoveKeeps DEF writerVars
<1> QED
  BY <1>1, <1>2, <1>3, <1>4

\* Every step of the pipeline is one of Recorder, or one it does not see.
LEMMA RecorderStep ==
    ASSUME TypeInv, RecorderInv, [Next]_vars
    PROVE  RecorderInv' /\ [Promise!Next]_(Promise!vars)
<1>1. Promise!vars = <<fate, stored>> /\ Promise!Ids = Ids
  BY DEF Promise!vars, Promise!Ids, Ids
<1>2. CASE \E p \in Producers : Work(p) \/ Read(p)
  <2>1. PICK p \in Producers : Work(p) \/ Read(p)
    BY <1>2
  <2>2. \/ Bumps(p) \/ HepMessage(p) \/ PushRecent(p) \/ Enqueue(p) \/ CountDrop(p)
        \/ Finish(p) \/ HepBad(p) \/ HepGood(p) \/ SipPacket(p)
    BY <2>1 DEF Work, Read, Bumps
  <2>3. CASE Bumps(p) \/ HepBad(p) \/ HepGood(p) \/ PushRecent(p) \/ Finish(p)
    BY <1>1, <2>3, QuietKeeps DEF Promise!vars
  <2>4. CASE SipPacket(p) \/ HepMessage(p)
    BY <1>1, <2>4, AcceptKeeps DEF Promise!Next
  <2>5. CASE Enqueue(p)
    BY <2>5, EnqueueKeeps DEF Enqueue, Promise!vars
  <2>6. CASE CountDrop(p)
    BY <1>1, <2>6, DropKeeps DEF Promise!Next
  <2> QED
    BY <2>2, <2>3, <2>4, <2>5, <2>6
<1>3. CASE Receive
  BY <1>3, ReceiveKeeps DEF Receive, Promise!vars
<1>4. CASE FlushTick \/ Stop \/ TxFail \/ Cancel \/ Exit \/ UNCHANGED vars
  BY <1>4, RestKeeps DEF Promise!vars
<1>5. CASE TxCommit \/ TxCommitUnheard
  BY <1>5, CommitKeeps DEF Promise!Next
<1>6. CASE CountOk \/ CountErr
  BY <1>6, CountKeeps DEF Promise!Next
<1> QED
  BY <1>2, <1>3, <1>4, <1>5, <1>6 DEF Next, Flushing

\* The recorder invariant holds throughout.
LEMMA RecorderAlways == Spec => [](TypeInv /\ RecorderInv)
<1>1. Init => TypeInv /\ RecorderInv
  BY InitType, RecorderInit
<1>2. TypeInv /\ RecorderInv /\ [Next]_vars => TypeInv' /\ RecorderInv'
  BY NextType, RecorderStep
<1> QED
  BY <1>1, <1>2, PTL DEF Spec

\* The capture pipeline, with its goroutines, channel, batches and lost answers to
\* COMMIT, does what Recorder promises: a message is dropped, or reported once as
\* written or failed; a dropped one is never in the table and one reported as
\* written is; no message is there twice, and those of one producer are in order.
THEOREM PipelineIsRecorder == Spec => ImplementsRecorder
<1>1. Init => Promise!Init
  BY RecorderInit
<1>2. TypeInv /\ RecorderInv /\ [Next]_vars => [Promise!Next]_(Promise!vars)
  BY RecorderStep
<1> QED
  BY RecorderAlways, <1>1, <1>2, PTL DEF Spec, ImplementsRecorder, Promise!Spec
-----------------------------------------------------------------------------
(***************************************************************************)
(* What a shutdown loses.                                                  *)
(***************************************************************************)
\* A producer's step that carries no message across the books leaves every pending
\* record where it is.
LEMMA QuietFound ==
    ASSUME TypeInv, PendingFound, NEW p \in Producers,
           Bumps(p) \/ HepBad(p) \/ HepGood(p) \/ PushRecent(p) \/ Finish(p)
    PROVE  PendingFound'
<1>1. UNCHANGED <<ch, batch, fate>>
  <2>1. CASE Bumps(p)
    BY <2>1, BumpsMove DEF writerVars
  <2>2. CASE HepBad(p) \/ HepGood(p) \/ PushRecent(p) \/ Finish(p)
    BY <2>2 DEF HepBad, HepGood, PushRecent, Finish, writerVars
  <2> QED
    BY <2>1, <2>2
<1>2. PICK place : /\ Goto(p, place)
                   /\ place \in UnsentPlaces <=> pc[p] \in UnsentPlaces
  BY QuietMoves
<1>3. /\ pc[p] \in UnsentPlaces => packets'[p] = packets[p]
      /\ \A q \in Producers \ {p} : packets'[q] = packets[q]
  <2>1. CASE Bumps(p)
    BY <2>1, BumpsMove
  <2>2. CASE HepBad(p) \/ HepGood(p)
    BY <2>2, LineTypes DEF HepBad, HepGood, NextPacket, At, UnsentPlaces
  <2>3. CASE PushRecent(p) \/ Finish(p)
    BY <2>3 DEF PushRecent, Finish
  <2> QED
    BY <2>1, <2>2, <2>3
<1>4. \A q \in Producers : pc'[q] \in UnsentPlaces <=> pc[q] \in UnsentPlaces
  BY <1>2, LineTypes DEF Goto
<1>5. \A i \in Ids : InHand(i) => InHand(i)'
  BY <1>3, <1>4, IdsAre DEF InHand, Id
<1> QED
  BY <1>1, <1>5 DEF PendingFound, InChannel, InBatch

\* A message that is accepted has a place.
LEMMA AcceptFound ==
    ASSUME TypeInv, PendingFound, NEW p \in Producers, SipPacket(p) \/ HepMessage(p)
    PROVE  PendingFound'
<1> DEFINE i == <<p, packets'[p]>>
<1>1. /\ Goto(p, "kind") /\ fate' = [fate EXCEPT ![i] = "pending"]
      /\ UNCHANGED <<ch, batch>> /\ pc[p] \notin UnsentPlaces
  BY DEF SipPacket, HepMessage, Accept, writerVars, At, NextPacket, UnsentPlaces
<1>2. \A q \in Producers \ {p} : packets'[q] = packets[q] /\ pc'[q] = pc[q]
  BY <1>1, LineTypes DEF Goto, SipPacket, HepMessage, NextPacket
<1>3. pc'[p] = "kind"
  BY <1>1, LineTypes DEF Goto
<1>4. ASSUME NEW j \in Ids, j = i PROVE InHand(j)'
  <2>1. j[1] = p
    BY <1>4
  <2> QED
    BY <1>3, <1>4, <2>1 DEF InHand, Id, UnsentPlaces
<1>5. ASSUME NEW j \in Ids, j # i, fate'[j] = "pending"
      PROVE  (InChannel(j) \/ InBatch(j) \/ InHand(j))'
  <2>1. fate[j] = "pending"
    BY <1>1, <1>5, LineTypes
  <2>2. InChannel(j) \/ InBatch(j) \/ (InHand(j) /\ j[1] # p)
    BY <1>1, <2>1 DEF PendingFound, InHand
  <2>3. InHand(j) /\ j[1] # p => InHand(j)'
    BY <1>2, IdsAre DEF InHand, Id
  <2> QED
    BY <1>1, <2>2, <2>3 DEF InChannel, InBatch
<1>6. ASSUME NEW j \in Ids, fate'[j] = "pending"
      PROVE  (InChannel(j) \/ InBatch(j) \/ InHand(j))'
  <2>1. CASE j = i
    BY <1>4, <2>1
  <2>2. CASE j # i
    BY <1>5, <1>6, <2>2
  <2> QED
    BY <2>1, <2>2
<1> QED
  BY <1>6 DEF PendingFound

\* A message that is sent, or dropped, has a place.
LEMMA SendFound ==
    ASSUME TypeInv, PendingFound, NEW p \in Producers, Enqueue(p) \/ CountDrop(p)
    PROVE  PendingFound'
<1>1. /\ Goto(p, "after") /\ UNCHANGED <<packets, batch>> /\ pc[p] \in {"send", "drop"}
  BY DEF Enqueue, CountDrop, At, writerVars
<1>2. Id(p) \in Ids /\ Id(p)[1] = p
  <2>1. Id(p) \in Ids
    BY <1>1, IdOK, TypeInvParts DEF Parts, Handling, Holding
  <2> QED
    BY <2>1 DEF Id
<1>3. \A q \in Producers \ {p} : pc'[q] = pc[q]
  BY <1>1, LineTypes DEF Goto
<1>4. ASSUME NEW j \in Ids, j # Id(p), InHand(j) PROVE InHand(j)'
  <2>1. j[1] # p /\ j[1] \in Producers
    BY <1>4, IdsAre DEF InHand
  <2> QED
    BY <1>1, <1>3, <1>4, <2>1 DEF InHand, Id
<1>5. CASE Enqueue(p)
  <2>1. ch' = Append(ch, Id(p)) /\ fate' = fate
    BY <1>5 DEF Enqueue
  <2>2. PICK L \in Nat : /\ DOMAIN ch = 1 .. L /\ DOMAIN ch' = 1 .. L + 1
                         /\ ch'[L + 1] = Id(p) /\ \A k \in 1 .. L : ch'[k] = ch[k]
    BY <1>2, <2>1, LineTypes, JoinsEnd
  <2>3. InChannel(Id(p))' /\ \A j \in Ids : InChannel(j) => InChannel(j)'
    <3>1. \E k \in DOMAIN ch' : ch'[k] = Id(p)
      BY <2>2
    <3>2. \A j \in Ids : (\E k \in DOMAIN ch : ch[k] = j) => \E k \in DOMAIN ch' : ch'[k] = j
      BY <2>2
    <3>3. Id(p)' = Id(p)
      BY <1>1 DEF Id
    <3> QED
      BY <3>1, <3>2, <3>3 DEF InChannel
  <2>4. ASSUME NEW j \in Ids, fate'[j] = "pending"
        PROVE  (InChannel(j) \/ InBatch(j) \/ InHand(j))'
    <3>1. CASE j = Id(p)
      BY <1>1, <2>3, <3>1 DEF Id
    <3>2. CASE j # Id(p)
      BY <1>1, <1>4, <2>1, <2>3, <2>4, <3>2 DEF PendingFound, InBatch
    <3> QED
      BY <3>1, <3>2
  <2> QED
    BY <2>4 DEF PendingFound
<1>6. CASE CountDrop(p)
  <2>1. ch' = ch /\ fate' = [fate EXCEPT ![Id(p)] = "dropped"]
    BY <1>6 DEF CountDrop, writerVars
  <2>2. ASSUME NEW j \in Ids, fate'[j] = "pending" PROVE j # Id(p) /\ fate[j] = "pending"
    BY <1>2, <2>1, <2>2, LineTypes
  <2> QED
    BY <1>1, <1>4, <2>1, <2>2 DEF PendingFound, InChannel, InBatch
<1> QED
  BY <1>5, <1>6

\* The steps of the writer keep every message in its place.
LEMMA WriterFound ==
    ASSUME TypeInv, PendingFound,
           Receive \/ FlushTick \/ Stop \/ Flushing \/ Cancel \/ Exit \/ UNCHANGED vars
    PROVE  PendingFound'
<1>1. UNCHANGED <<pc, packets>>
  BY DEF Receive, FlushTick, Stop, Flushing, TxCommit, TxFail, TxCommitUnheard, CountOk, CountErr,
         CountBatch, Cancel, Exit, vars, producerVars
<1>2. \A j \in Ids : InHand(j) => InHand(j)'
  BY <1>1 DEF InHand, Id
<1>3. CASE Receive
  <2>1. /\ ch # << >> /\ ch' = Tail(ch) /\ batch' = Append(batch, Head(ch)) /\ fate' = fate
    BY <1>3 DEF Receive
  <2>2. ch \in Seq(Ids) /\ batch \in Seq(Ids)
    BY LineTypes
  <2>3. PICK N \in Nat \ {0} : N = Len(ch) /\ DOMAIN ch = 1 .. N
    <3>1. Len(ch) \in Nat \ {0} /\ DOMAIN ch = 1 .. Len(ch)
      BY <2>1, <2>2
    <3> QED
      BY <3>1
  <2>4. /\ DOMAIN ch' = 1 .. N - 1 /\ Head(ch) = ch[1] /\ ch[1] \in Ids
        /\ \A k \in 1 .. N - 1 : ch'[k] = ch[k + 1]
    BY <2>1, <2>2, <2>3
  <2>5. PICK L \in Nat : /\ L = Len(batch) /\ DOMAIN batch = 1 .. L
                         /\ DOMAIN batch' = 1 .. L + 1 /\ batch'[L + 1] = ch[1]
                         /\ \A k \in 1 .. L : batch'[k] = batch[k]
    <3>1. batch' = Append(batch, ch[1])
      BY <2>1, <2>4
    <3>2. PICK L \in Nat : /\ L = Len(batch) /\ DOMAIN batch = 1 .. L
                           /\ DOMAIN Append(batch, ch[1]) = 1 .. L + 1
                           /\ Append(batch, ch[1])[L + 1] = ch[1]
                           /\ \A k \in 1 .. L : Append(batch, ch[1])[k] = batch[k]
      BY <2>2, <2>4, JoinsEnd
    <3> QED
      BY <3>1, <3>2
  <2>6. ASSUME NEW j \in Ids, InBatch(j) PROVE InBatch(j)'
    <3>1. PICK k \in 1 .. L : batch[k] = j
      BY <2>5, <2>6 DEF InBatch
    <3>2. k \in DOMAIN batch' /\ batch'[k] = j
      BY <2>5, <3>1
    <3> QED
      BY <3>2 DEF InBatch
  <2>7. ASSUME NEW j \in Ids, InChannel(j) PROVE InChannel(j)' \/ InBatch(j)'
    <3>1. PICK k \in 1 .. N : ch[k] = j
      BY <2>3, <2>7 DEF InChannel
    <3>2. CASE k = 1
      <4>1. L + 1 \in DOMAIN batch' /\ batch'[L + 1] = j
        BY <2>5, <3>1, <3>2
      <4> QED
        BY <4>1 DEF InBatch
    <3>3. CASE k # 1
      <4>1. k - 1 \in DOMAIN ch' /\ ch'[k - 1] = j
        BY <2>4, <3>1, <3>3
      <4> QED
        BY <4>1 DEF InChannel
    <3> QED
      BY <3>2, <3>3
  <2> QED
    BY <1>2, <2>1, <2>6, <2>7 DEF PendingFound
<1>4. CASE CountOk \/ CountErr
  <2>1. PICK verdict \in {"ok", "err"} :
            /\ fate' = [j \in Ids |-> IF InBatch(j) THEN verdict ELSE fate[j]] /\ ch' = ch
    BY <1>4 DEF CountOk, CountErr, CountBatch
  <2>2. ASSUME NEW j \in Ids, fate'[j] = "pending" PROVE fate[j] = "pending" /\ ~InBatch(j)
    BY <2>1, <2>2
  <2> QED
    BY <1>2, <2>1, <2>2 DEF PendingFound, InChannel
<1>5. CASE FlushTick \/ Stop \/ TxCommit \/ TxFail \/ TxCommitUnheard \/ Cancel \/ Exit
           \/ UNCHANGED vars
  <2>1. UNCHANGED <<ch, batch, fate>>
    BY <1>5 DEF FlushTick, Stop, TxCommit, TxFail, TxCommitUnheard, Cancel, Exit, vars, writerVars
  <2> QED
    BY <1>2, <2>1 DEF PendingFound, InChannel, InBatch
<1> QED
  BY <1>3, <1>4, <1>5 DEF Flushing

\* main returns only when the writer is done, with an empty batch, and the
\* goroutines it waits for are; after that nothing moves.
LEMMA ExitStep ==
    ASSUME TypeInv, WriterDone, ExitWaits, [Next]_vars
    PROVE  WriterDone' /\ ExitWaits'
<1>1. CASE Cancel \/ UNCHANGED vars
  <2>1. UNCHANGED <<exited, pc, wpc, batch>>
    BY <1>1 DEF Cancel, vars, producerVars, writerVars
  <2> QED
    BY <2>1 DEF WriterDone, ExitWaits
<1>2. CASE Exit
  <2>1. wpc = "done" /\ (\A p \in Waited : pc[p] = "done") /\ UNCHANGED <<pc, wpc, batch>>
    BY <1>2 DEF Exit, producerVars, writerVars
  <2> QED
    BY <2>1 DEF WriterDone, ExitWaits
<1>3. CASE \E p \in Producers : Work(p) \/ Read(p)
  <2>1. PICK p \in Producers : Work(p) \/ Read(p)
    BY <1>3
  <2>2. ~exited /\ exited' = exited /\ UNCHANGED <<wpc, batch>>
    BY <2>1 DEF Work, Read, AcceptPeer, DenyPeer, CheckDone, ReadNothing, HepTransport, HepReject,
                HepProto, HepMessage, CountKind, CountStatus, BumpMethod, PushRecent, Enqueue,
                QueueFull, CountDrop, Finish, HepBad, HepGood, SipPacket, Accept, NextPacket, At,
                writerVars
  <2> QED
    BY <2>2 DEF WriterDone, ExitWaits
<1>4. CASE Receive \/ FlushTick \/ Stop \/ Flushing
  <2>1. ~exited /\ exited' = exited
    BY <1>4 DEF Receive, FlushTick, Stop, InSelect, Flushing, TxCommit, TxFail, TxCommitUnheard,
                Inserting, CountOk, CountErr, CountBatch
  <2>2. wpc' = "done" => batch' = << >>
    BY <1>4 DEF Receive, FlushTick, Stop, Flushing, TxCommit, TxFail, TxCommitUnheard,
                CountOk, CountErr, CountBatch
  <2> QED
    BY <2>1, <2>2 DEF WriterDone, ExitWaits
<1> QED
  BY <1>1, <1>2, <1>3, <1>4 DEF Next

\* Nothing is lost at the start.
LEMMA LossInit == Init => LossInv
  BY DEF Init, LossInv, PendingFound, WriterDone, ExitWaits

\* Every step keeps the losses accounted for.
LEMMA LossStep ==
    ASSUME TypeInv, LossInv, [Next]_vars
    PROVE  LossInv'
<1>1. PendingFound'
  <2>1. CASE \E p \in Producers : Work(p) \/ Read(p)
    <3>1. PICK p \in Producers : Work(p) \/ Read(p)
      BY <2>1
    <3>2. \/ Bumps(p) \/ HepMessage(p) \/ PushRecent(p) \/ Enqueue(p) \/ CountDrop(p)
          \/ Finish(p) \/ HepBad(p) \/ HepGood(p) \/ SipPacket(p)
      BY <3>1 DEF Work, Read, Bumps
    <3> QED
      BY <3>2, QuietFound, AcceptFound, SendFound DEF LossInv
  <2> QED
    BY <2>1, WriterFound DEF LossInv, Next
<1> QED
  BY <1>1, ExitStep DEF LossInv

\* When main has returned, a message that was accepted and neither dropped nor
\* reported on is still in dbCh, or is the one in the hands of the goroutine of a
\* HEP connection, which main does not wait for: the writer's last flush leaves
\* nothing in its batch, and sipWorker and hepUDPWorker have finished theirs.
THEOREM ShutdownLosesOnlyQueued == Spec => []LostAtExit
<1>1. LossInv => LostAtExit
  <2> SUFFICES ASSUME LossInv, exited, NEW i \in Ids, fate[i] = "pending",
                      ~ \E k \in DOMAIN ch : ch[k] = i
               PROVE  i[1] \in Streams \cap Unsent /\ i = Id(i[1])
    BY DEF LostAtExit
  <2>1. ~InBatch(i)
    BY DEF LossInv, WriterDone, ExitWaits, InBatch
  <2>2. InHand(i)
    BY <2>1 DEF LossInv, PendingFound, InChannel
  <2>3. i[1] \notin Waited
    BY <2>2 DEF LossInv, ExitWaits, InHand, UnsentPlaces
  <2> QED
    BY <2>2, <2>3, IdsAre DEF InHand, Waited, Unsent, AtAny, UnsentPlaces
<1>2. Init => TypeInv /\ LossInv
  BY InitType, LossInit
<1>3. TypeInv /\ LossInv /\ [Next]_vars => TypeInv' /\ LossInv'
  BY NextType, LossStep
<1> QED
  BY <1>1, <1>2, <1>3, PTL DEF Spec
-----------------------------------------------------------------------------
(***************************************************************************)
(* The ring of recent records alone (module Ring, for the records that the *)
(* producers push).  RecentIsNewest speaks of the slots only through       *)
(* Recent; what a push preserves, and what makes the invariant inductive,  *)
(* is that each of the last RingSize records is still in the slot of its   *)
(* position.                                                               *)
(***************************************************************************)
\* The remainder is the only number below N that completes a multiple of N.
LEMMA RemainderUnique ==
    ASSUME NEW N \in Nat \ {0}, NEW a \in Int, NEW b \in Int,
           NEW r \in 0 .. N - 1, NEW s \in 0 .. N - 1,
           N * a + r = N * b + s
    PROVE  r = s
<1>1. N * (b - a) = r - s
  OBVIOUS
<1>2. CASE b - a >= 1
  BY <1>1, <1>2
<1>3. CASE b - a <= -1
  BY <1>1, <1>3
<1>4. CASE b - a = 0
  BY <1>1, <1>4
<1> QED
  BY <1>2, <1>3, <1>4

\* Quotient and remainder.
LEMMA Division ==
    ASSUME NEW N \in Nat \ {0}, NEW i \in Nat
    PROVE  /\ i \div N \in Int
           /\ i % N \in 0 .. N - 1
           /\ i = N * (i \div N) + (i % N)
  OBVIOUS

\* Two positions less than RingSize apart never share a slot.
LEMMA SlotsDistinct ==
    ASSUME NEW N \in Nat \ {0}, NEW i \in Nat, NEW j \in Nat,
           i < j, j - i < N
    PROVE  i % N # j % N
<1>1. SUFFICES ASSUME i % N = j % N PROVE FALSE
  OBVIOUS
<1>2. PICK a \in Int : i = N * a + (i % N)
  BY Division
<1>3. PICK b \in Int : j = N * b + (j % N)
  BY Division
<1>4. j - i = N * (b - a)
  BY <1>1, <1>2, <1>3, Division
<1>5. CASE b - a <= 0
  BY <1>4, <1>5
<1>6. CASE b - a >= 1
  BY <1>4, <1>6
<1> QED
  BY <1>5, <1>6

\* Adding 2 * RingSize, as Ring.Recent does, does not move the slot.
LEMMA SlotShift ==
    ASSUME NEW N \in Nat \ {0}, NEW x \in Nat
    PROVE  (x + N * 2) % N = x % N
<1>1. PICK a \in Int : x = N * a + (x % N)
  BY Division
<1>2. PICK b \in Int : x + N * 2 = N * b + ((x + N * 2) % N)
  <2>1. x + N * 2 \in Nat
    OBVIOUS
  <2> QED
    BY <2>1, Division
<1>3. x % N \in 0 .. N - 1 /\ (x + N * 2) % N \in 0 .. N - 1
  BY Division
<1>4. N * (a + 2) + (x % N) = N * b + ((x + N * 2) % N)
  <2>1. N * (a + 2) = N * a + N * 2
    OBVIOUS
  <2>2. N * (a + 2) + (x % N) = (N * a + (x % N)) + N * 2
    BY <2>1, <1>3
  <2> QED
    BY <2>2, <1>1, <1>2
<1>5. a + 2 \in Int
  OBVIOUS
<1> QED
  BY <1>3, <1>4, <1>5, RemainderUnique
\* There is a slot.
LEMMA RingSizePositive == RingSize \in Nat \ {0}
  BY IngestAssumption

SlotsHoldNewest == /\ Len(pushed) = ringIdx
                   /\ \A i \in 0 .. ringIdx - 1 :
                         ringIdx - i <= RingSize => ringBuf[i % RingSize] = pushed[i + 1]

RingInv == R!RingTypeOK /\ SlotsHoldNewest

\* The ring starts with no record, so nothing has to be in place.
LEMMA RingInitInv == R!RingInit => RingInv
  BY RingSizePositive DEF R!RingInit, RingInv, R!RingTypeOK, SlotsHoldNewest

\* Ring.Push overwrites only the slot of the record RingSize pushes ago.
LEMMA RingKept ==
    ASSUME RingInv, NEW rec \in Ids, R!Push(rec)
    PROVE  RingInv'
<1> USE RingSizePositive
<1>1. ringIdx % RingSize \in 0 .. RingSize - 1
  BY Division DEF RingInv, R!RingTypeOK
<1>2. R!RingTypeOK'
  BY <1>1 DEF RingInv, R!RingTypeOK, R!Push
<1>3. Len(pushed') = ringIdx'
  BY DEF RingInv, R!RingTypeOK, SlotsHoldNewest, R!Push
<1>4. ASSUME NEW i \in 0 .. ringIdx' - 1, ringIdx' - i <= RingSize
      PROVE  ringBuf'[i % RingSize] = pushed'[i + 1]
  <2>1. CASE i = ringIdx
    BY <2>1, <1>1 DEF RingInv, R!RingTypeOK, SlotsHoldNewest, R!Push
  <2>2. CASE i < ringIdx
    <3>1. i \in Nat /\ ringIdx \in Nat /\ ringIdx - i < RingSize
      BY <1>4, <2>2 DEF RingInv, R!RingTypeOK, R!Push
    <3>2. i % RingSize # ringIdx % RingSize
      BY <2>2, <3>1, SlotsDistinct
    <3>3. i % RingSize \in 0 .. RingSize - 1
      BY <3>1, Division
    <3>4. ringBuf'[i % RingSize] = ringBuf[i % RingSize]
      BY <3>2, <3>3, <1>1 DEF RingInv, R!RingTypeOK, R!Push
    <3>5. pushed'[i + 1] = pushed[i + 1]
      BY <2>2, <3>1 DEF RingInv, R!RingTypeOK, SlotsHoldNewest, R!Push
    <3>6. ringBuf[i % RingSize] = pushed[i + 1]
      BY <2>2, <3>1 DEF RingInv, SlotsHoldNewest
    <3> QED
      BY <3>4, <3>5, <3>6
  <2>3. i = ringIdx \/ i < ringIdx
    BY <1>4 DEF RingInv, R!RingTypeOK, R!Push
  <2> QED
    BY <2>1, <2>2, <2>3
<1> QED
  BY <1>2, <1>3, <1>4 DEF RingInv, SlotsHoldNewest

\* Ring.Recent reads the slots that RingInv describes.
LEMMA RingRecent == RingInv => R!RecentIsNewest
<1> USE RingSizePositive
<1> SUFFICES ASSUME RingInv, NEW limit \in 0 .. RingSize + 1
             PROVE  R!Recent(limit) = R!NewestFirst(limit)
  BY DEF R!RecentIsNewest
<1> DEFINE count == R!Least(limit, R!Least(ringIdx, RingSize))
<1>1. count \in Nat /\ count <= ringIdx /\ count <= RingSize
  BY DEF RingInv, R!RingTypeOK, R!Least
<1>2. ASSUME NEW k \in 1 .. count
      PROVE  ringBuf[(ringIdx - 1 - (k - 1) + RingSize * 2) % RingSize]
               = pushed[Len(pushed) + 1 - k]
  <2>1. ringIdx - k \in 0 .. ringIdx - 1 /\ ringIdx - (ringIdx - k) <= RingSize
    BY <1>1 DEF RingInv, R!RingTypeOK
  <2>2. ringIdx - 1 - (k - 1) + RingSize * 2 = (ringIdx - k) + RingSize * 2
    BY DEF RingInv, R!RingTypeOK
  <2>3. ringIdx - k \in Nat
    BY <2>1 DEF RingInv, R!RingTypeOK
  <2>4. ((ringIdx - k) + RingSize * 2) % RingSize = (ringIdx - k) % RingSize
    BY <2>3, SlotShift
  <2>5. ringBuf[(ringIdx - k) % RingSize] = pushed[(ringIdx - k) + 1]
    BY <2>1 DEF RingInv, SlotsHoldNewest
  <2>6. (ringIdx - k) + 1 = Len(pushed) + 1 - k
    BY DEF RingInv, R!RingTypeOK, SlotsHoldNewest
  <2> QED
    BY <2>2, <2>4, <2>5, <2>6
<1>3. R!Least(limit, R!Least(Len(pushed), RingSize)) = count
  BY DEF RingInv, SlotsHoldNewest
<1> HIDE DEF count
<1>4. R!Recent(limit) = [k \in 1 .. count |->
                         ringBuf[(ringIdx - 1 - (k - 1) + RingSize * 2) % RingSize]]
  BY DEF R!Recent, count
<1>5. R!NewestFirst(limit) = [k \in 1 .. count |-> pushed[Len(pushed) + 1 - k]]
  BY <1>3 DEF R!NewestFirst
<1> QED
  BY <1>2, <1>4, <1>5

\* For every ring size, whatever is pushed, Ring.Recent returns the newest
\* records, newest first.
THEOREM RingCorrect == R!RingSpec => [](R!RingTypeOK /\ R!RecentIsNewest)
<1>1. RingInv /\ [R!RingNext]_R!ringVars => RingInv'
  <2> SUFFICES ASSUME RingInv, [R!RingNext]_R!ringVars PROVE RingInv'
    OBVIOUS
  <2>1. CASE R!RingNext
    BY <2>1, RingKept DEF R!RingNext
  <2>2. CASE UNCHANGED R!ringVars
    BY <2>2 DEF RingInv, R!RingTypeOK, SlotsHoldNewest, R!ringVars
  <2> QED
    BY <2>1, <2>2
<1>2. RingInv => R!RingTypeOK /\ R!RecentIsNewest
  BY RingRecent DEF RingInv
<1> QED
  BY RingInitInv, <1>1, <1>2, PTL DEF R!RingSpec
-----------------------------------------------------------------------------
(***************************************************************************)
(* The ring of recent records, shared by the producers.  A record is on    *)
(* its way to the table only after it was pushed; what makes RingLeads     *)
(* inductive is that a producer about to queue its record has pushed it,   *)
(* and what RingInv says of the slots.                                     *)
(***************************************************************************)
PushPlaces  == {"kind", "status", "method", "push"}
PushPending == AtAny(PushPlaces)
Pushed(i)   == \E j \in DOMAIN pushed : pushed[j] = i

LinesPushed == /\ \A k \in DOMAIN ch : Pushed(ch[k])
               /\ \A k \in DOMAIN batch : Pushed(batch[k])
               /\ \A k \in DOMAIN stored : Pushed(stored[k])
HandsPushed == \A p \in Producers : pc[p] = "send" => Pushed(Id(p))
PushedCount == Len(pushed) = m["MsgsTotal"] - Cardinality(PushPending)

LeadInv == LinesPushed /\ HandsPushed /\ PushedCount /\ RingInv

\* A step that leaves the ring alone.
LEMMA RingAlone ==
    ASSUME RingInv, UNCHANGED ringVars
    PROVE  RingInv' /\ pushed' = pushed
  BY DEF ringVars, RingInv, R!RingTypeOK, SlotsHoldNewest

\* A step of p that pushes and queues nothing.
LEMMA LeadIdle ==
    ASSUME TypeInv, LeadInv, NEW p \in Producers, NEW place, Goto(p, place),
           UNCHANGED <<ringVars, writerVars>>,
           place \in PushPlaces <=> pc[p] \in PushPlaces, place # "send",
           \A q \in Producers \ {p} : packets'[q] = packets[q],
           m'["MsgsTotal"] = m["MsgsTotal"]
    PROVE  LeadInv'
<1>1. RingInv' /\ pushed' = pushed
  BY RingAlone DEF LeadInv
<1>2. UNCHANGED <<ch, batch, stored>>
  BY DEF writerVars
<1>3. pc'[p] = place /\ \A q \in Producers \ {p} : pc'[q] = pc[q]
  BY DEF Goto, TypeInv, TypeOK
<1>4. LinesPushed'
  BY <1>1, <1>2 DEF LeadInv, LinesPushed, Pushed
<1>5. HandsPushed'
  BY <1>1, <1>3 DEF LeadInv, HandsPushed, Pushed, Id
<1>6. PushedCount'
  BY <1>1, PlacesMove DEF LeadInv, PushedCount, PushPending
<1> QED
  BY <1>1, <1>4, <1>5, <1>6 DEF LeadInv

\* A message is accepted.
LEMMA LeadAccept ==
    ASSUME TypeInv, LeadInv, NEW p \in Producers, SipPacket(p) \/ HepMessage(p)
    PROVE  LeadInv'
<1>1. /\ Goto(p, "kind") /\ Inc("MsgsTotal", 1) /\ pc[p] \in {"read", "parse"}
      /\ UNCHANGED <<ringVars, ch, batch, stored>>
  BY DEF SipPacket, HepMessage, NextPacket, At, Accept, writerVars
<1>2. \A q \in Producers \ {p} : packets'[q] = packets[q] /\ pc'[q] = pc[q]
  BY <1>1, LineTypes DEF Goto, SipPacket, HepMessage, NextPacket
<1>3. pc'[p] = "kind"
  BY <1>1, LineTypes DEF Goto
<1>4. RingInv' /\ pushed' = pushed
  BY <1>1, RingAlone DEF LeadInv
<1>5. LinesPushed'
  BY <1>1, <1>4 DEF LeadInv, LinesPushed, Pushed
<1>6. HandsPushed'
  BY <1>2, <1>3, <1>4 DEF LeadInv, HandsPushed, Pushed, Id
<1>7. Cardinality(PushPending') = Cardinality(PushPending) + 1 /\ Cardinality(PushPending) \in Nat
  BY <1>1, PlacesMove DEF PushPending, PushPlaces
<1>8. m'["MsgsTotal"] = m["MsgsTotal"] + 1 /\ m["MsgsTotal"] \in Nat
  BY <1>1, OneField, BookNumbers DEF Fields
<1>9. PushedCount'
  BY <1>4, <1>7, <1>8 DEF LeadInv, PushedCount
<1> QED
  BY <1>4, <1>5, <1>6, <1>9 DEF LeadInv

\* A message is pushed to the ring.
LEMMA LeadPush ==
    ASSUME TypeInv, LeadInv, NEW p \in Producers, PushRecent(p)
    PROVE  LeadInv'
<1>1. /\ pc[p] = "push" /\ Goto(p, "send") /\ R!Push(Id(p))
      /\ UNCHANGED <<packets, m, ch, batch, stored>>
  BY DEF PushRecent, At, writerVars
<1>2. Id(p) \in Ids
  BY <1>1, IdOK, TypeInvParts DEF Parts, Handling, Holding
<1>3. RingInv'
  BY <1>1, <1>2, RingKept DEF LeadInv
<1>4. pushed \in Seq(Ids) /\ pushed' = Append(pushed, Id(p))
  BY <1>1 DEF R!Push, LeadInv, RingInv, R!RingTypeOK
<1>5. PICK L \in Nat : /\ L = Len(pushed) /\ DOMAIN pushed = 1 .. L
                       /\ DOMAIN pushed' = 1 .. L + 1 /\ pushed'[L + 1] = Id(p)
                       /\ \A k \in 1 .. L : pushed'[k] = pushed[k]
  BY <1>2, <1>4, JoinsEnd
<1>6. ASSUME NEW i, Pushed(i) PROVE \E j \in DOMAIN pushed' : pushed'[j] = i
  BY <1>5, <1>6 DEF Pushed
<1>7. \E j \in DOMAIN pushed' : pushed'[j] = Id(p)
  BY <1>5
<1>8. LinesPushed'
  BY <1>1, <1>6 DEF LeadInv, LinesPushed, Pushed
<1>9. HandsPushed'
  <2>1. \A q \in Producers \ {p} : pc'[q] = pc[q]
    BY <1>1, LineTypes DEF Goto
  <2>2. \A q \in Producers : Id(q)' = Id(q)
    BY <1>1 DEF Id
  <2> QED
    BY <1>6, <1>7, <2>1, <2>2 DEF LeadInv, HandsPushed, Pushed
<1>10. PushedCount'
  <2>1. Cardinality(PushPending') = Cardinality(PushPending) - 1 /\ Cardinality(PushPending) \in Nat
    BY <1>1, PlacesMove DEF PushPending, PushPlaces
  <2>2. Len(pushed') = Len(pushed) + 1 /\ Len(pushed) \in Nat
    BY <1>2, <1>4
  <2> QED
    BY <1>1, <2>1, <2>2, BookNumbers DEF LeadInv, PushedCount
<1> QED
  BY <1>3, <1>8, <1>9, <1>10 DEF LeadInv

\* A message is sent to the writer.
LEMMA LeadEnqueue ==
    ASSUME TypeInv, LeadInv, NEW p \in Producers, Enqueue(p)
    PROVE  LeadInv'
<1>1. /\ pc[p] = "send" /\ Goto(p, "after") /\ ch' = Append(ch, Id(p))
      /\ UNCHANGED <<ringVars, packets, m, batch, stored>>
  BY DEF Enqueue, At
<1>2. Id(p) \in Ids
  BY <1>1, IdOK, TypeInvParts DEF Parts, Handling, Holding
<1>3. PICK L \in Nat : /\ DOMAIN ch = 1 .. L /\ DOMAIN ch' = 1 .. L + 1
                       /\ ch'[L + 1] = Id(p) /\ \A k \in 1 .. L : ch'[k] = ch[k]
  <2>1. ch \in Seq(Ids)
    BY LineTypes
  <2>2. PICK L \in Nat : /\ DOMAIN ch = 1 .. L /\ DOMAIN Append(ch, Id(p)) = 1 .. L + 1
                         /\ Append(ch, Id(p))[L + 1] = Id(p)
                         /\ \A k \in 1 .. L : Append(ch, Id(p))[k] = ch[k]
    BY <1>2, <2>1, JoinsEnd
  <2> QED
    BY <1>1, <2>2
<1>4. RingInv' /\ pushed' = pushed
  BY <1>1, RingAlone DEF LeadInv
<1>5. Pushed(Id(p))
  BY <1>1 DEF LeadInv, HandsPushed
<1>6. LinesPushed'
  BY <1>1, <1>3, <1>4, <1>5 DEF LeadInv, LinesPushed, Pushed
<1>7. HandsPushed'
  <2>1. pc'[p] = "after" /\ \A q \in Producers \ {p} : pc'[q] = pc[q]
    BY <1>1, LineTypes DEF Goto
  <2> QED
    BY <1>1, <1>4, <2>1 DEF LeadInv, HandsPushed, Pushed, Id
<1>8. PushedCount'
  <2>1. Cardinality(PushPending') = Cardinality(PushPending)
    BY <1>1, PlacesMove DEF PushPending, PushPlaces
  <2> QED
    BY <1>1, <1>4, <2>1 DEF LeadInv, PushedCount
<1> QED
  BY <1>4, <1>6, <1>7, <1>8 DEF LeadInv

\* The writer moves records along the line.
LEMMA LeadWriter ==
    ASSUME TypeInv, LeadInv,
           Receive \/ FlushTick \/ Stop \/ Flushing \/ Cancel \/ Exit \/ UNCHANGED vars
    PROVE  LeadInv'
<1>1. UNCHANGED <<pc, packets>> /\ m'["MsgsTotal"] = m["MsgsTotal"]
  BY OthersStep DEF Fields
<1>2. UNCHANGED ringVars
  BY DEF Receive, FlushTick, Stop, Flushing, TxCommit, TxFail, TxCommitUnheard, CountOk, CountErr,
         CountBatch, Cancel, Exit, vars
<1>3. RingInv' /\ pushed' = pushed
  BY <1>2, RingAlone DEF LeadInv
<1>4. HandsPushed' /\ PushedCount'
  BY <1>1, <1>3 DEF LeadInv, HandsPushed, PushedCount, PushPending, AtAny, Pushed, Id
<1>5. LinesPushed'
  <2>1. CASE Receive
    <3>1. /\ ch # << >> /\ ch' = Tail(ch) /\ batch' = Append(batch, Head(ch)) /\ stored' = stored
      BY <2>1 DEF Receive
    <3>2. ch \in Seq(Ids) /\ batch \in Seq(Ids)
      BY LineTypes
    <3>3. /\ 1 \in DOMAIN ch /\ Head(ch) = ch[1] /\ Head(ch) \in Ids
          /\ \A k \in DOMAIN ch' : k + 1 \in DOMAIN ch /\ ch'[k] = ch[k + 1]
      BY <3>1, <3>2
    <3>4. PICK L \in Nat : /\ DOMAIN batch = 1 .. L /\ DOMAIN Append(batch, Head(ch)) = 1 .. L + 1
                           /\ Append(batch, Head(ch))[L + 1] = Head(ch)
                           /\ \A k \in 1 .. L : Append(batch, Head(ch))[k] = batch[k]
      BY <3>2, <3>3, JoinsEnd
    <3>5. ASSUME NEW k \in DOMAIN batch'
          PROVE  batch'[k] = ch[1] \/ (k \in DOMAIN batch /\ batch'[k] = batch[k])
      BY <3>1, <3>3, <3>4
    <3> QED
      BY <1>3, <3>1, <3>3, <3>5 DEF LeadInv, LinesPushed, Pushed
  <2>2. CASE TxCommit \/ TxCommitUnheard
    <3>1. stored' = stored \o batch /\ UNCHANGED <<ch, batch>>
      BY <2>2 DEF TxCommit, TxCommitUnheard
    <3>2. \A k \in DOMAIN stored' : \/ k \in DOMAIN stored /\ stored'[k] = stored[k]
                                    \/ \E j \in DOMAIN batch : stored'[k] = batch[j]
      BY <3>1, LineTypes
    <3> QED
      BY <1>3, <3>1, <3>2 DEF LeadInv, LinesPushed, Pushed
  <2>3. CASE CountOk \/ CountErr
    <3>1. batch' = << >> /\ UNCHANGED <<ch, stored>>
      BY <2>3 DEF CountOk, CountErr, CountBatch
    <3> QED
      BY <1>3, <3>1 DEF LeadInv, LinesPushed, Pushed
  <2>4. CASE FlushTick \/ Stop \/ TxFail \/ Cancel \/ Exit \/ UNCHANGED vars
    <3>1. UNCHANGED <<ch, batch, stored>>
      BY <2>4 DEF FlushTick, Stop, TxFail, Cancel, Exit, vars, writerVars
    <3> QED
      BY <1>3, <3>1 DEF LeadInv, LinesPushed, Pushed
  <2> QED
    BY <2>1, <2>2, <2>3, <2>4 DEF Flushing
<1> QED
  BY <1>3, <1>4, <1>5 DEF LeadInv

\* Every step keeps the ring ahead of the table.
LEMMA LeadStep ==
    ASSUME TypeInv, LeadInv, [Next]_vars
    PROVE  LeadInv'
<1>1. CASE \E p \in Producers : Work(p) \/ Read(p)
  <2>1. PICK p \in Producers : Work(p) \/ Read(p)
    BY <1>1
  <2>2. CASE SipPacket(p) \/ HepMessage(p) \/ PushRecent(p) \/ Enqueue(p)
    BY <2>2, LeadAccept, LeadPush, LeadEnqueue
  <2>3. CASE Bumps(p) \/ CountDrop(p)
    <3>1. PICK place : /\ Goto(p, place) /\ place # "send"
                       /\ place \in PushPlaces <=> pc[p] \in PushPlaces
      BY <2>3, IngestAssumption
         DEF Bumps, AcceptPeer, DenyPeer, CheckDone, ReadNothing, HepTransport, HepReject, HepProto,
             CountKind, CountStatus, BumpMethod, QueueFull, CountDrop, AfterPacket, At, PushPlaces
    <3>2. UNCHANGED <<packets, ringVars, writerVars>>
      BY <2>3, BumpsMove DEF CountDrop
    <3>3. m'["MsgsTotal"] = m["MsgsTotal"]
      <4>1. CASE Bumps(p)
        BY <4>1, BumpsCount, OneField DEF Fields, Ledger
      <4>2. CASE CountDrop(p)
        BY <4>2, OneField DEF CountDrop, Fields
      <4> QED
        BY <2>3, <4>1, <4>2
    <3> QED
      BY <3>1, <3>2, <3>3, LeadIdle
  <2>4. CASE HepBad(p) \/ HepGood(p) \/ Finish(p)
    <3>1. PICK place : /\ Goto(p, place) /\ place # "send"
                       /\ place \in PushPlaces <=> pc[p] \in PushPlaces
      BY <2>4, IngestAssumption DEF HepBad, HepGood, Finish, NextPacket, AfterPacket, At, PushPlaces
    <3>2. /\ UNCHANGED <<ringVars, writerVars>>
          /\ \A q \in Producers \ {p} : packets'[q] = packets[q]
      BY <2>4, LineTypes DEF HepBad, HepGood, Finish, NextPacket
    <3>3. m'["MsgsTotal"] = m["MsgsTotal"]
      BY <2>4, OneField DEF HepBad, HepGood, Finish, Fields
    <3> QED
      BY <3>1, <3>2, <3>3, LeadIdle
  <2> QED
    BY <2>1, <2>2, <2>3, <2>4 DEF Work, Read, Bumps
<1>2. CASE Receive \/ FlushTick \/ Stop \/ Flushing \/ Cancel \/ Exit \/ UNCHANGED vars
  BY <1>2, LeadWriter
<1> QED
  BY <1>1, <1>2 DEF Next

\* Both are empty at the start.
LEMMA LeadInit == Init => LeadInv
<1> SUFFICES ASSUME Init PROVE LeadInv
  OBVIOUS
<1>1. RingInv
  <2>1. R!RingInit
    BY DEF Init
  <2> QED
    BY <2>1, RingInitInv
<1>2. LinesPushed /\ HandsPushed
  BY DEF Init, LinesPushed, HandsPushed, Start
<1>3. PushedCount
  <2>1. PushPending = {}
    BY DEF Init, Start, PushPending, PushPlaces, AtAny
  <2>2. Len(pushed) = 0 /\ m["MsgsTotal"] = 0
    BY DEF Init, R!RingInit, Fields
  <2> QED
    BY <2>1, <2>2, FS_EmptySet DEF PushedCount
<1> QED
  BY <1>1, <1>2, <1>3 DEF LeadInv

\* Whatever goroutines push at the same time, a record that is in dbCh, in the batch
\* or in the table was put in the ring first; the ring has been given every counted
\* message but those on their way to it; and it returns the newest records.
THEOREM RingLeadsTable == Spec => []RingLeads
<1>1. LeadInv => RingLeads
  <2> SUFFICES ASSUME LeadInv PROVE RingLeads
    OBVIOUS
  <2>1. R!RecentIsNewest
    BY RingRecent DEF LeadInv
  <2> QED
    BY <2>1 DEF LeadInv, LinesPushed, PushedCount, Pushed, PushPending, PushPlaces, RingLeads
<1>2. Init => TypeInv /\ LeadInv
  BY InitType, LeadInit
<1>3. TypeInv /\ LeadInv /\ [Next]_vars => TypeInv' /\ LeadInv'
  BY NextType, LeadStep
<1> QED
  BY <1>1, <1>2, <1>3, PTL DEF Spec
=============================================================================
