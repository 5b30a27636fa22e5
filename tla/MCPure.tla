------------------------------- MODULE MCPure -------------------------------
(***************************************************************************)
(* The functions without state, checked on every small input.  A behaviour *)
(* builds an input item by item: the messages stored so far for the        *)
(* reports, the lines of a SIP message, or the chunks of a HEP packet.     *)
(***************************************************************************)
EXTENDS Reports, SipMessage, HepPacket

CONSTANTS MaxStored, MaxLines, MaxChunks    \* bounds on the inputs

VARIABLES kind, input

Msg(what, base, status) == [kind |-> what, base |-> base, status |-> status]

\* The messages of two calls, each seen by an agent of its own: set up, answered,
\* rejected, ended, and errors in answer to BYE and CANCEL.
StoredItems ==
    {x \in [call : {1, 2}, kind : {"request", "response"}, ts : {1, 3},
            base : {"INVITE", "BYE", "CANCEL"}, status : {0, 200, 481, 486, 500}] :
        Msg(x.kind, x.base, x.status) \in
            {Msg("request", "INVITE", 0), Msg("response", "INVITE", 486),
             Msg("response", "INVITE", 200), Msg("request", "BYE", 0),
             Msg("response", "BYE", 500), Msg("response", "CANCEL", 481)}}

FirstLines == {[tag |-> "request", method |-> "INVITE", uri |-> "bob"],
               [tag |-> "request", method |-> "REGISTER", uri |-> "bob"],
               [tag |-> "response", status |-> 200], Blank}

\* A header with white space between its name and the colon.
Spaced(name, value) == [Header(name, value) EXCEPT !.tight = FALSE]

LaterLines == {Header("via", "v1"), Header("v", "v2"), Header("call-id", "c1"),
               Header("i", "c2"), Header("cseq", "1 INVITE"), Header("cseq", "2 BYE"),
               Header("cseq", "3"), Header("authorization", "key"),
               Spaced("authorization", "key"), Blank, [tag |-> "text"]}

CSeqs == [v \in {"", "1 INVITE", "2 BYE", "3"} |->
            CASE v = "1 INVITE" -> "INVITE" [] v = "2 BYE" -> "BYE" [] OTHER -> ""]

Chunk(type, data) == [type |-> type, data |-> data]

\* Chunks with enough data and with too little, and one of an unknown type.
Chunks == {Chunk(15, <<7, 8>>), Chunk(15, << >>), Chunk(11, <<1>>), Chunk(11, << >>),
           Chunk(9, <<0, 1, 0, 2>>), Chunk(9, <<1, 1, 1>>), Chunk(7, <<19, 196, 1>>),
           Chunk(19, <<65, 0, 0>>), Chunk(14, <<72, 69>>), Chunk(2, <<17>>)}

PureInit == kind \in {"stored", "sip", "hep"} /\ input = << >>

Store == /\ kind = "stored" /\ Len(input) < MaxStored
         /\ \E x \in StoredItems : input' = Append(input, x)
         /\ UNCHANGED kind

AddLine == /\ kind = "sip" /\ Len(input) < MaxLines
           /\ \E x \in IF input = << >> THEN FirstLines ELSE LaterLines :
                 input' = Append(input, x)
           /\ UNCHANGED kind

AddChunk == /\ kind = "hep" /\ Len(input) < MaxChunks
            /\ \E x \in Chunks : input' = Append(input, x)
            /\ UNCHANGED kind

PureNext == Store \/ AddLine \/ AddChunk

PureSpec == PureInit /\ [][PureNext]_<<kind, input>>
-----------------------------------------------------------------------------
\* The call_state rows and the rows of captures after the stored messages.
CallsOf(msgs) ==
    [c \in {msgs[n].call : n \in DOMAIN msgs} |->
        LET of == {n \in DOMAIN msgs : msgs[n].call = c}
            row[n \in Min(of) .. Max(of)] ==
              IF n = Min(of) THEN NewRow(msgs[n], n)
              ELSE IF n \in of THEN UpdatedRow(row[n - 1], msgs[n], n) ELSE row[n - 1]
        IN  row[Max(of)]]

RowsOf(msgs) ==
    {[id |-> n, agent |-> msgs[n].call, ts |-> msgs[n].ts, kind |-> msgs[n].kind,
      status |-> msgs[n].status, method |-> MethodColumn(msgs[n])] : n \in DOMAIN msgs}

\* What different pages say of the same calls agrees, whichever messages of two
\* calls are stored, in any order and with any timestamps: the trend adds up to
\* the totals, no call is both answered and failed, a state filter shows the
\* calls with that label, the number page and the error codes say the same of all
\* calls and codes if they list them all and no more than that if they list the
\* first ones only, whichever the database takes for these, and a ratio above 100 %
\* comes from calls whose INVITE was missed (reports.go buildTrendJSON,
\* buildActiveCallsJSON, buildNumberJSON, buildSLA*JSON, buildCarrierScoreJSON).
CallReportsAgree == kind = "stored" => CallReportsAgreeOn(CallsOf(input), 4, 2)

\* What different pages say of the same messages agrees: response classes and
\* codes, as far as the codes of the latest responses are listed, an alert exactly
\* when server errors are shown, and the node list, which has every agent of the
\* window and never one that is red, since a silent one leaves the list first (reports.go buildRealtimeJSON, buildResponseCodesJSON,
\* buildAnomaliesJSON, buildNodesJSON).
MessageReportsAgree == kind = "stored" => MessageReportsAgreeOn(RowsOf(input), 4, 2, 0)

\* The text kept of a message says what the message said: parsed again it gives
\* the same fields, although lines were taken out of the headers and the body; and
\* no header with credentials is kept whose colon comes right after its name
\* (sip.go redactSIP, parseSIP).
RedactionKeepsMeaning ==
    kind = "sip" /\ input # << >> =>
        LET redacted == redactSIP(input)
        IN  /\ parseSIP(redacted) = parseSIP(input)
            /\ \A n \in DOMAIN redacted :
                  redacted[n].tag = "header" /\ redacted[n].tight =>
                     redacted[n].name \notin Credentials

\* An echo answers the request it is for: parsed as a message, it is a response
\* with the request's Call-ID, From, To and CSeq, whichever of several headers
\* count, and it goes back along the topmost Via; responses are not answered.  A
\* request after a blank line is answered with empty headers (sip.go buildEcho).
EchoAnswersRequest ==
    kind = "sip" /\ input # << >> =>
        LET asked == parseSIP(input)
            echo  == buildEcho(input)
            vias  == Values(HeaderLines(input, 1), {"via", "v"})
        IN  IF asked.kind = "response" THEN echo = << >>
            ELSE LET answer == parseSIP(echo)
                 IN  /\ answer.kind = "response"
                     /\ input[1] # Blank =>
                            /\ \A f \in {"callID", "from", "to", "cseq"} :
                                  answer[f] = asked[f]
                            /\ vias # << >> => echo[2].value = vias[1]
                     /\ input[1] = Blank => answer.callID = "" /\ answer.cseq = ""

\* A stored response answers its call exactly when it is a 2xx whose CSeq, the
\* first one with a method in it, is of an INVITE; what comes after the blank
\* line does not count, and the stored text classifies as the message did
\* (sip.go parseSIP, makeRecord; db.go dbBatchInsert).
RecordClassifies ==
    kind = "sip" /\ input # << >> =>
        LET rec    == makeRecord(input)
            header(n) == n > 1 /\ \A k \in 2 .. n : input[k] # Blank
            named(n)  == /\ header(n) /\ input[n].tag = "header"
                         /\ input[n].name = "cseq" /\ CSeqMethod[input[n].value] # ""
            OfInvite  == \E n \in DOMAIN input :
                            /\ named(n) /\ CSeqMethod[input[n].value] = "INVITE"
                            /\ \A k \in 2 .. n - 1 : ~named(k)
        IN  /\ IsAnswered(rec) <=>
                  input[1].tag = "response" /\ input[1].status = 200 /\ OfInvite
            /\ IsAnswered(makeRecord(rec.raw)) <=> IsAnswered(rec)

\* Decoding a packet that is cut anywhere, or says a wrong length, gives what its
\* whole chunks say: the last chunk of a type with enough data counts, and a
\* packet is taken exactly when a payload or a protocol is known (hep.go
\* hepDecode).
DecodeAgrees ==
    kind = "hep" =>
        \A length \in {5, Size(input) - 1, Size(input), Size(input) + 1} :
            \A n \in 0 .. Size(input) : DecodeAgreesOn(input, length, n)
=============================================================================
