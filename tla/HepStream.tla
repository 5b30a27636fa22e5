----------------------------- MODULE HepStream -----------------------------
(***************************************************************************)
(* HEP3 over a byte stream: one connection of hepTCPWorker or hepTLSWorker *)
(* and the framing of drainHEPFrames (core-go/hep.go).                     *)
(*                                                                         *)
(* Scaling: a byte of the model is a small number.  The header of a frame, *)
(* four bytes of magic and two of length, is two cells: Magic, then the    *)
(* length of the whole frame in cells.  A cell with the value Magic may    *)
(* also occur in a payload or in garbage, as may anything else.            *)
(***************************************************************************)
EXTENDS Integers, Sequences

CONSTANTS Kinds,       \* the kinds of connection: "tcp", "tls"
          Magic,       \* the value of the magic cell
          Lengths,     \* the other values of a cell
          StreamLen,   \* cells that the peer sends
          MaxRead,     \* size of the read buffer; 16384 bytes in the code
          CapLen       \* cap on the bytes buffered; 2 MB in the code

HeaderLen == 2

ASSUME HepStreamAssumption ==
    /\ Kinds \subseteq {"tcp", "tls"}
    /\ Lengths \subseteq Nat /\ Magic \in Nat
    /\ StreamLen \in Nat /\ MaxRead \in Nat \ {0} /\ CapLen \in Nat

Cells == Lengths \cup {Magic}

\* A length has 16 bits, and the cap is well above the longest frame and one read.
ASSUME FramesFitAssumption ==
    \E longest \in Cells \cup {HeaderLen} :
        /\ \A n \in Cells \cup {HeaderLen} : n <= longest
        /\ longest + MaxRead <= CapLen + 1

VARIABLES kind,     \* which worker accepted the connection
          stream,   \* everything the peer will send
          pos,      \* how much of it has arrived here
          buf,      \* bytes that are not yet part of a handled frame
          frames,   \* history: the frames given to handleHEPPacket
          at,       \* "read" | "drain" | "closing" | "done"
          ended     \* how reading ended: "no" | "eof" | "error" | "cap"

vars == <<kind, stream, pos, buf, frames, at, ended>>

Init == /\ kind \in Kinds
        /\ stream \in [1 .. StreamLen -> Cells]
        /\ pos = 0
        /\ buf = << >>
        /\ frames = << >>
        /\ at = "read"
        /\ ended = "no"

Arrive(n) == /\ at = "read"
             /\ pos + n <= StreamLen
             /\ pos' = pos + n
             /\ buf' = buf \o SubSeq(stream, pos + 1, pos + n)
             /\ UNCHANGED <<kind, stream, frames>>
-----------------------------------------------------------------------------
\* hepTCPSession: read some bytes, give up on too long a buffer, else drain.
TcpRead(n) == /\ kind = "tcp"
              /\ Arrive(n)
              /\ IF Len(buf') > CapLen
                 THEN at' = "done" /\ ended' = "cap"
                 ELSE at' = "drain" /\ ended' = ended

\* io.ReadAll goes on reading up to the limit; nothing is handled meanwhile.
TlsRead(n) == /\ kind = "tls"
              /\ pos + n <= CapLen
              /\ Arrive(n)
              /\ UNCHANGED <<at, ended>>

\* The peer has closed the connection, or ReadAll has reached its limit.
ReadEOF == /\ at = "read"
           /\ pos = StreamLen \/ (kind = "tls" /\ pos = CapLen)
           /\ ended' = "eof"
           /\ at' = "closing"
           /\ UNCHANGED <<kind, stream, pos, buf, frames>>

\* A deadline passes (30 seconds without a byte on TCP, 10 seconds in all on
\* TLS), the connection breaks or, on TCP, the context is cancelled.  TLS throws
\* away what it has read.
ReadError == /\ at = "read"
             /\ ended' = "error"
             /\ at' = "done"
             /\ UNCHANGED <<kind, stream, pos, buf, frames>>
-----------------------------------------------------------------------------
(***************************************************************************)
(* drainHEPFrames, one step for each turn of its loop.                     *)
(***************************************************************************)
Draining == at \in {"drain", "closing"}

HeaderThere == Len(buf) >= HeaderLen

GoodHeader == HeaderThere /\ buf[1] = Magic /\ buf[2] >= HeaderLen

\* Not a frame: skip one byte and look again.
SkipByte == /\ Draining
            /\ HeaderThere
            /\ ~GoodHeader
            /\ buf' = Tail(buf)
            /\ UNCHANGED <<kind, stream, pos, frames, at, ended>>

\* Mutant: the frame is cut one byte too late.
HandleFrameLate == /\ Draining
                   /\ GoodHeader
                   /\ Len(buf) >= buf[2]
                   /\ frames' = Append(frames, SubSeq(buf, 1, buf[2]))
                   /\ buf' = SubSeq(buf, buf[2] + 2, Len(buf))
                   /\ UNCHANGED <<kind, stream, pos, at, ended>>

HandleFrame == /\ Draining
               /\ GoodHeader
               /\ Len(buf) >= buf[2]
               /\ frames' = Append(frames, SubSeq(buf, 1, buf[2]))
               /\ buf' = SubSeq(buf, buf[2] + 1, Len(buf))
               /\ UNCHANGED <<kind, stream, pos, at, ended>>

\* Mutant: an incomplete frame is thrown away.
NeedMoreForgets == /\ Draining
                   /\ ~HeaderThere \/ (GoodHeader /\ Len(buf) < buf[2])
                   /\ at' = IF at = "drain" THEN "read" ELSE "done"
                   /\ buf' = << >>
                   /\ UNCHANGED <<kind, stream, pos, frames, ended>>

\* Mutant: a drain handles at most one frame.
NeedMoreOneFrame == /\ Draining
                    /\ at' = IF at = "drain" THEN "read" ELSE "done"
                    /\ UNCHANGED <<kind, stream, pos, buf, frames, ended>>

\* The frame, or its header, is not complete: keep the bytes and read on.
NeedMore == /\ Draining
            /\ ~HeaderThere \/ (GoodHeader /\ Len(buf) < buf[2])
            /\ at' = IF at = "drain" THEN "read" ELSE "done"
            /\ UNCHANGED <<kind, stream, pos, buf, frames, ended>>

Drain == SkipByte \/ HandleFrame \/ NeedMore

Next == \/ \E n \in 1 .. MaxRead : TcpRead(n) \/ TlsRead(n)
        \/ ReadEOF \/ ReadError
        \/ Drain

\* The goroutine runs, and a read ends when its deadline passes.
Fairness == WF_vars(Drain) /\ WF_vars(ReadEOF \/ ReadError)

Spec == Init /\ [][Next]_vars

FairSpec == Spec /\ Fairness
-----------------------------------------------------------------------------
(***************************************************************************)
(* The reference: the frames of a byte sequence that is there as a whole,  *)
(* reading it from position i on.                                          *)
(***************************************************************************)
FramesOf(s) ==
    LET from[i \in 1 .. Len(s) + 1] ==
          IF i + HeaderLen - 1 > Len(s) THEN << >>
          ELSE IF s[i] # Magic \/ s[i + 1] < HeaderLen THEN from[i + 1]
          ELSE IF i + s[i + 1] - 1 > Len(s) THEN << >>
          ELSE <<SubSeq(s, i, i + s[i + 1] - 1)>> \o from[i + s[i + 1]]
    IN  from[1]

\* However the peer's bytes are cut into reads, the frames handled so far and
\* those still to come are the frames of the whole stream: none is lost, split
\* or seen twice at a read boundary.
ChunkingDoesNotMatter ==
    frames \o FramesOf(buf \o SubSeq(stream, pos + 1, StreamLen)) = FramesOf(stream)

MaxFrame == CHOOSE n \in Cells \cup {HeaderLen} : \A k \in Cells \cup {HeaderLen} : k <= n

\* Before each read on TCP the buffer holds less than one frame, so it never
\* comes near its cap.
LeftoverIsShort == /\ kind = "tcp" /\ at = "read" => Len(buf) < MaxFrame
                   /\ ended # "cap"

\* A peer that closes its connection in good order has all its frames handled that
\* were read: on TLS the reader's limit of 2 MB ends the connection as a close does.
OrderlyCloseLosesNothing ==
    at = "done" /\ ended = "eof" => frames = FramesOf(SubSeq(stream, 1, pos))

\* Every frame that has arrived completely on TCP is handled sooner or later,
\* whether or not the peer ever closes the connection: hepTCPSession drains its
\* buffer after every read.  (A TLS connection is drained only when it is closed,
\* and not at all when its deadline passes first.)
ArrivedFramesAreHandled ==
    \A n \in 1 .. StreamLen :
        kind = "tcp" /\ Len(FramesOf(SubSeq(stream, 1, pos))) >= n
            ~> Len(frames) >= n
=============================================================================
