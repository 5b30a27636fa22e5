----------------------------- MODULE SipMessage -----------------------------
(***************************************************************************)
(* parseSIP, redactSIP, makeRecord's columns and buildEcho (core-go/sip.go)*)
(* on messages that are sequences of lines.  A line is                     *)
(*   [tag |-> "request", method, uri], [tag |-> "response", status],       *)
(*   [tag |-> "header", name, value, tight], with its name in lower case;  *)
(*     it is tight if the colon comes right after the name,                *)
(*   [tag |-> "blank"], or [tag |-> "text"], one without a colon.          *)
(* The rest of a header that is folded over several lines is lines of its  *)
(* own, text or headers, to this code.                                     *)
(* A first line is a request, a response or blank (a keep-alive before the *)
(* message); further on, a request's or a response's line is no header.    *)
(* A value is a model value or a string; "" is an empty one.               *)
(*                                                                         *)
(* Left out: other white space and the case of letters, which every test   *)
(* here takes away first, and the JSON text.                               *)
(***************************************************************************)
EXTENDS CallState, Sequences, SequencesExt

CONSTANT
    CSeqMethod   \* CSeq values -> the method in them, "" if there is none

Blank == [tag |-> "blank"]

Header(name, value) ==
    [tag |-> "header", name |-> name, value |-> value, tight |-> TRUE]

\* The entries of s that are in S, in their order: a loop that appends some.
KeepIn(s, S) ==
    LET kept[i \in 0 .. Len(s)] ==
          IF i = 0 THEN << >>
          ELSE IF s[i] \in S THEN Append(kept[i - 1], s[i]) ELSE kept[i - 1]
    IN  kept[Len(s)]

\* Where the lines from i on come to the first blank one.
HeaderEnd(msg, i) == CHOOSE n \in i - 1 .. Len(msg) :
                        /\ \A k \in i .. n : msg[k] # Blank
                        /\ n < Len(msg) => msg[n + 1] = Blank

\* The headers in the lines from i up to the first blank one.
HeaderLines(msg, i) == KeepIn(SubSeq(msg, i, HeaderEnd(msg, i)),
                              {line \in Range(msg) : line.tag = "header"})

\* The values of a header under its names, in the order they came.
Values(headers, names) ==
    LET named == KeepIn(headers, {h \in Range(headers) : h.name \in names})
    IN  [n \in DOMAIN named |-> named[n].value]

LastOf(values) == IF values = << >> THEN "" ELSE Last(values)

\* Mutant: the last CSeq gives a response its method, also one without any.
ResponseMethodLast(cseqs) == IF cseqs = << >> THEN "" ELSE CSeqMethod[Last(cseqs)]

\* A response takes its method from the first CSeq that has one.
ResponseMethod(cseqs) ==
    LET named   == [n \in DOMAIN cseqs |-> CSeqMethod[cseqs[n]]]
        methods == KeepIn(named, Range(named) \ {""})
    IN  IF methods = << >> THEN "" ELSE Head(methods)

parseSIP(msg) ==
    LET first   == msg[1]
        headers == HeaderLines(msg, 2)
        cseqs   == Values(headers, {"cseq"})
    IN  [kind   |-> IF first.tag = "response" THEN "response" ELSE "request",
         status |-> IF first.tag = "response" THEN first.status ELSE 0,
         method |-> CASE first.tag = "request"  -> first.method
                      [] first.tag = "response" -> ResponseMethod(cseqs)
                      [] OTHER -> "",
         ruri   |-> IF first.tag = "request" THEN first.uri ELSE "",
         callID |-> LastOf(Values(headers, {"call-id", "i"})),
         from   |-> LastOf(Values(headers, {"from", "f"})),
         to     |-> LastOf(Values(headers, {"to", "t"})),
         cseq   |-> LastOf(cseqs)]

Credentials == {"authorization", "proxy-authorization"}

\* The lines that redactSIP takes out: it looks for the name and the colon as one
\* prefix, where parseSIP cuts at the colon and trims the name.
HasCredentials(line) == line.tag = "header" /\ line.name \in Credentials /\ line.tight

\* Mutant: everything after a header with credentials goes with it.
redactSIPRest(msg) ==
    LET bad == {n \in DOMAIN msg : HasCredentials(msg[n])}
    IN  Append(IF bad = {} THEN msg ELSE SubSeq(msg, 1, Min(bad) - 1), Blank)

\* Such lines go, in the body too; a line feed is added at the end.
redactSIP(msg) ==
    Append(KeepIn(msg, {line \in Range(msg) : ~HasCredentials(line)}), Blank)

\* What makeRecord stores: the columns that dbBatchInsert reads, and the text.
makeRecord(msg) ==
    LET info == parseSIP(msg)
    IN  [kind |-> info.kind, base |-> info.method, status |-> info.status,
         call |-> info.callID, raw |-> redactSIP(msg)]

\* Mutant: the last Via is taken, as for the other headers.
FirstViaLast(vias) == LastOf(vias)

FirstVia(vias) == LET given == KeepIn(vias, Range(vias) \ {""})
                  IN  IF given = << >> THEN "" ELSE Head(given)

\* The answer to a request; << >> for a response.  Unlike parseSIP it looks for
\* headers from the first line on.
buildEcho(msg) ==
    LET info    == parseSIP(msg)
        headers == HeaderLines(msg, 1)
    IN  IF info.kind # "request" THEN << >>
        ELSE <<[tag |-> "response",
                status |-> IF info.method = "REGISTER" THEN 401 ELSE 200],
               Header("via", FirstVia(Values(headers, {"via", "v"}))),
               Header("from", LastOf(Values(headers, {"from", "f"}))),
               Header("to", LastOf(Values(headers, {"to", "t"}))),
               Header("call-id", LastOf(Values(headers, {"call-id", "i"}))),
               Header("cseq", LastOf(Values(headers, {"cseq"}))),
               Header("contact", "zaman"), Header("server", "zaman")>>
             \o (IF info.method = "OPTIONS" THEN <<Header("allow", "methods")>>
                 ELSE << >>)
             \o <<Header("content-length", "0"), Blank>>
=============================================================================
