----------------------------- MODULE HepPacket -----------------------------
(***************************************************************************)
(* hepDecode (core-go/hep.go) on packets that are sequences of bytes, what *)
(* handleHEPPacket derives from its result, and the packets that an agent  *)
(* sends.  A packet is the magic, its length in two bytes, and chunks:     *)
(* vendor, type and length in two bytes each, then the data.               *)
(*                                                                         *)
(* Numbers are computed from the bytes; the texts made of addresses and    *)
(* names (Sprintf, ipv6String) are left as the bytes they are made of.     *)
(***************************************************************************)
EXTENDS Integers, Sequences

Magic == <<72, 69, 80, 51>>

Uint16(s, i) == (256 * s[i]) + s[i + 1]

\* The first n bytes of s as a number.
BigEndian(s, n) ==
    LET value[k \in 0 .. n] == IF k = 0 THEN 0 ELSE (256 * value[k - 1]) + s[k]
    IN  value[n]

\* strings.TrimRight(name, "\x00")
TrimZeros(s) == SubSeq(s, 1, CHOOSE n \in 0 .. Len(s) :
                                /\ \A k \in n + 1 .. Len(s) : s[k] = 0
                                /\ n > 0 => s[n] # 0)

NoInfo == [IPProto |-> 0, SrcIP |-> << >>, DstIP |-> << >>, SrcPort |-> 0,
           DstPort |-> 0, TSec |-> 0, TUsec |-> 0, ProtoType |-> 0, NodeID |-> 0,
           NodePW |-> << >>, Payload |-> << >>, CorrelationID |-> << >>,
           NodeName |-> << >>]

\* The switch on the type: data that is too short, like an unknown type, changes
\* nothing.
SetField(info, type, data) ==
    LET Enough(n) == Len(data) >= n
        Bytes(n)  == SubSeq(data, 1, n)
    IN  CASE type = 1 /\ Enough(1)   -> [info EXCEPT !.IPProto = data[1]]
          [] type = 3 /\ Enough(4)   -> [info EXCEPT !.SrcIP = Bytes(4)]
          [] type = 4 /\ Enough(4)   -> [info EXCEPT !.DstIP = Bytes(4)]
          [] type = 5 /\ Enough(16)  -> [info EXCEPT !.SrcIP = Bytes(16)]
          [] type = 6 /\ Enough(16)  -> [info EXCEPT !.DstIP = Bytes(16)]
          [] type = 7 /\ Enough(2)   -> [info EXCEPT !.SrcPort = BigEndian(data, 2)]
          [] type = 8 /\ Enough(2)   -> [info EXCEPT !.DstPort = BigEndian(data, 2)]
          [] type = 9 /\ Enough(4)   -> [info EXCEPT !.TSec = BigEndian(data, 4)]
          [] type = 10 /\ Enough(4)  -> [info EXCEPT !.TUsec = BigEndian(data, 4)]
          [] type = 11 /\ Enough(1)  -> [info EXCEPT !.ProtoType = data[1]]
          [] type = 12 /\ Enough(2)  ->
                [info EXCEPT !.NodeID = BigEndian(data, IF Enough(4) THEN 4 ELSE 2)]
          [] type = 14 -> [info EXCEPT !.NodePW = data]
          [] type = 15 -> [info EXCEPT !.Payload = data]
          [] type = 17 -> [info EXCEPT !.CorrelationID = data]
          [] type = 19 -> [info EXCEPT !.NodeName = TrimZeros(data)]
          [] OTHER -> info

\* Mutant: a chunk may begin in its packet and end beyond it.
ChunkThereLoose(pkt, offset, total) ==
    /\ offset + 6 <= total
    /\ Uint16(pkt, offset + 5) >= 6
    /\ offset + Uint16(pkt, offset + 5) <= Len(pkt)

\* The tests before a chunk is read; the bytes of the chunk at offset are
\* offset + 1, offset + 2, ...
ChunkThere(pkt, offset, total) ==
    /\ offset + 6 <= total
    /\ Uint16(pkt, offset + 5) >= 6
    /\ offset + Uint16(pkt, offset + 5) <= total

\* One round of the loop, from where it is and what it knows.
ReadChunk(pkt, total, at) ==
    IF ~ChunkThere(pkt, at.offset, total) THEN at
    ELSE LET next == at.offset + Uint16(pkt, at.offset + 5)
         IN  [offset |-> next,
              info   |-> SetField(at.info, Uint16(pkt, at.offset + 3),
                                  SubSeq(pkt, at.offset + 7, next))]

\* What the loop knows at its end; every round but the last moves on.
ReadChunks(pkt, total) ==
    LET after[n \in 0 .. Len(pkt)] ==
          IF n = 0 THEN [offset |-> 6, info |-> NoInfo]
          ELSE ReadChunk(pkt, total, after[n - 1])
    IN  after[Len(pkt)].info

\* A packet that is not one at all leaves every field, OK among them, unset.
hepDecode(pkt) ==
    IF Len(pkt) < 6 \/ SubSeq(pkt, 1, 4) # Magic THEN [OK |-> FALSE, info |-> NoInfo]
    ELSE LET total == IF Uint16(pkt, 5) > Len(pkt) THEN Len(pkt) ELSE Uint16(pkt, 5)
             info  == ReadChunks(pkt, total)
         IN  [OK |-> info.Payload # << >> \/ info.ProtoType > 0, info |-> info]

TsMs(info) == (info.TSec * 1000) + (info.TUsec \div 1000)

\* The time of the record: the agent's, or ours if it gives none.
RecordTime(info, now) == IF TsMs(info) <= 0 THEN now ELSE TsMs(info)

\* The name, or the number, or number 0.
AgentLabel(info) == IF info.NodeName # << >> THEN info.NodeName ELSE info.NodeID

protoTypeName(t) == CASE t = 1 -> "sip" [] t = 5 -> "rtcp" [] t = 34 -> "rtpagent"
                      [] t = 35 -> "rtcpxr" [] t = 38 -> "horaclifix" [] t = 53 -> "dns"
                      [] t = 100 -> "log" [] OTHER -> "unknown"
-----------------------------------------------------------------------------
(***************************************************************************)
(* The agent's side.                                                       *)
(***************************************************************************)
Bytes16(n) == <<n \div 256, n % 256>>

ChunkBytes(c) == <<0, 0>> \o Bytes16(c.type) \o Bytes16(6 + Len(c.data)) \o c.data

\* The chunks one after the other.
Body(chunks) ==
    LET upTo[n \in 0 .. Len(chunks)] ==
          IF n = 0 THEN << >> ELSE upTo[n - 1] \o ChunkBytes(chunks[n])
    IN  upTo[Len(chunks)]

\* A packet that says it has `length' bytes.
Packet(chunks, length) == Magic \o Bytes16(length) \o Body(chunks)

Size(chunks) == 6 + Len(Body(chunks))

\* The chunks of which all bytes are among the first n of the packet.
Whole(chunks, n) ==
    SubSeq(chunks, 1, CHOOSE k \in 0 .. Len(chunks) :
                         /\ k > 0 => Size(SubSeq(chunks, 1, k)) <= n
                         /\ k < Len(chunks) => Size(SubSeq(chunks, 1, k + 1)) > n)

\* The data of the last chunk that is long enough, << >> if there is none.
LastData(chunks, type, min) ==
    LET good == {n \in DOMAIN chunks : /\ chunks[n].type = type
                                       /\ Len(chunks[n].data) >= min}
    IN  IF good = {} THEN << >>
        ELSE chunks[CHOOSE n \in good : \A k \in good : k <= n].data

\* What the receiver should know of a packet cut after n bytes.
KnownOf(chunks, length, n) ==
    LET whole == Whole(chunks, IF length < n THEN length ELSE n)
        Number(type, size) ==
            LET d == LastData(whole, type, size)
            IN  IF d = << >> THEN 0 ELSE BigEndian(d, size)
    IN  [TSec |-> Number(9, 4), TUsec |-> Number(10, 4), SrcPort |-> Number(7, 2),
         ProtoType |-> Number(11, 1), Payload |-> LastData(whole, 15, 0),
         NodePW |-> LastData(whole, 14, 0), NodeName |-> TrimZeros(LastData(whole, 19, 0))]

DecodeAgreesOn(chunks, length, n) ==
    LET decoded == hepDecode(SubSeq(Packet(chunks, length), 1, n))
        known   == KnownOf(chunks, length, n)
    IN  /\ \A field \in DOMAIN known : decoded.info[field] = known[field]
        /\ decoded.OK <=> known.Payload # << >> \/ known.ProtoType > 0
        /\ decoded.OK => n >= 12
=============================================================================
