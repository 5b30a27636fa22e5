------------------------------- MODULE Ingest -------------------------------
(***************************************************************************)
(* The capture pipeline of zaman-core: the goroutines that read packets    *)
(* (sipWorker, hepUDPWorker, one goroutine per HEP/TCP or HEP/TLS          *)
(* connection), the metrics, the ring of recent records, the bounded       *)
(* channel dbCh, and the database writer that batches and flushes.         *)
(*                                                                         *)
(* Interleaving: every operation on shared state (a metric under its mutex,*)
(* Ring.Push, a channel operation, a database transaction) is one step.    *)
(*                                                                         *)
(* Abstractions: a record is its identity <<producer, packet number>>; of a*)
(* SIP message only what the handlers branch on is kept (kind, status, and *)
(* whether it is echoed); a transaction succeeds or fails as it pleases    *)
(* (module Store says why it fails); no record fails to unmarshal in flush,*)
(* because makeRecord always writes valid JSON.                            *)
(***************************************************************************)
EXTENDS Integers, Sequences, FiniteSets

CONSTANTS Producers,   \* goroutines that read packets
          Transport,   \* producer -> "UDP" | "HEP3" | "HEP3/TCP" | "HEP3/TLS"
          Shapes,      \* parsed messages: [kind, status, echo]
          Protos,      \* the counters of the HEP protocols that are seen
          Cap,         \* capacity of dbCh; 4096 in the code
          BatchSize,   \* 100 in the code
          RingSize,    \* 512 in the code
          MaxPackets,  \* bound on the packets one producer reads
          NoMsg        \* no message in hand; an unused ring slot

Sip     == {p \in Producers : Transport[p] = "UDP"}
Streams == {p \in Producers : Transport[p] \in {"HEP3/TCP", "HEP3/TLS"}}

\* The producers in main's WaitGroup; connection goroutines are not in it.
Waited  == Producers \ Streams

ASSUME IngestAssumption ==
    /\ IsFiniteSet(Producers)
    /\ Transport \in [Producers -> {"UDP", "HEP3", "HEP3/TCP", "HEP3/TLS"}]
    /\ Shapes \subseteq [kind : {"request", "response"}, status : 0 .. 699,
                         echo : BOOLEAN]
    /\ \A shape \in Shapes : shape.kind = "request" => shape.status = 0
    /\ NoMsg \notin Shapes
    /\ Protos \subseteq {"HEPSIP", "HEPRTCP", "HEPRTP", "HEPRTCPXR", "HEPOther"}
    /\ Cap \in Nat \ {0}
    /\ BatchSize \in Nat \ {0}
    /\ RingSize \in Nat \ {0}
    /\ MaxPackets \in Nat

Ids == Producers \X (1 .. MaxPackets)

VARIABLES
    cancelled,  \* the context is cancelled
    exited,     \* main has returned
    pc,         \* producer -> where its goroutine is
    cur,        \* producer -> the parsed message it is handling
    packets,    \* producer -> number of packets it has read
    ringBuf, ringIdx, pushed,   \* the ring of recent records
    m,          \* the Metrics struct
    ch,         \* dbCh
    batch,      \* the writer's batch
    wpc,        \* where the writer is
    stopping,   \* the flush under way is the last one
    stored,     \* rows of table captures, in insertion order
    fate        \* history: what the metrics have said about each record

producerVars == <<pc, cur, packets>>
ringVars     == <<ringBuf, ringIdx, pushed>>
writerVars   == <<ch, batch, wpc, stopping, stored>>
vars == <<cancelled, exited, producerVars, ringVars, m, writerVars, fate>>

R == INSTANCE Ring WITH Records <- Ids, NoRecord <- NoMsg,
                        buf <- ringBuf, idx <- ringIdx

\* "Methods" stands for the sum of the Methods map.
Fields == {"MsgsTotal", "Requests", "Responses", "Echoes", "DBOk", "DBErr",
           "DBDrop", "HEPTotal", "HEPUDP", "HEPTCP", "HEPTLS", "HEPErr",
           "HEPAuthFail", "HEPDeny", "HEPSIP", "HEPRTCP", "HEPRTP",
           "HEPRTCPXR", "HEPOther", "Methods", "Status2xx", "Status4xx5xx"}

TransportField == [t \in {"HEP3", "HEP3/TCP", "HEP3/TLS"} |->
                     CASE t = "HEP3"     -> "HEPUDP"
                       [] t = "HEP3/TCP" -> "HEPTCP"
                       [] t = "HEP3/TLS" -> "HEPTLS"]

Inc(field, delta) == m' = [m EXCEPT ![field] = @ + delta]

Id(p) == <<p, packets[p]>>

\* Where a producer starts: a connection goroutine checks its peer first.
Start(p) == IF p \in Streams THEN "accept" ELSE "top"

Init == /\ cancelled = FALSE
        /\ exited = FALSE
        /\ pc = [p \in Producers |-> Start(p)]
        /\ cur = [p \in Producers |-> NoMsg]
        /\ packets = [p \in Producers |-> 0]
        /\ R!RingInit
        /\ m = [f \in Fields |-> 0]
        /\ ch = << >>
        /\ batch = << >>
        /\ wpc = "select"
        /\ stopping = FALSE
        /\ stored = << >>
        /\ fate = [i \in Ids |-> "none"]
-----------------------------------------------------------------------------
(***************************************************************************)
(* Producers                                                               *)
(***************************************************************************)
Goto(p, place) == pc' = [pc EXCEPT ![p] = place]

At(p, place) == ~exited /\ pc[p] = place

\* hepTCPSession, hepTLSWorker: a connection from a peer that is not on the
\* allow list is counted and closed.
AcceptPeer(p) == /\ At(p, "accept")
                 /\ Goto(p, IF Transport[p] = "HEP3/TCP" THEN "top" ELSE "read")
                 /\ UNCHANGED <<cancelled, exited, cur, packets, ringVars, m,
                                writerVars, fate>>

DenyPeer(p) == /\ At(p, "accept")
               /\ Inc("HEPDeny", 1)
               /\ Goto(p, "done")
               /\ UNCHANGED <<cancelled, exited, cur, packets, ringVars,
                              writerVars, fate>>

\* Mutant: the loop does not look at ctx.Done.
CheckDoneNever(p) == /\ At(p, "top")
                     /\ Goto(p, "read")
                     /\ UNCHANGED <<cancelled, exited, cur, packets, ringVars, m,
                                    writerVars, fate>>

\* Top of the read loop: ctx.Done is looked at here and nowhere else.
CheckDone(p) == /\ At(p, "top")
                /\ Goto(p, IF cancelled THEN "done" ELSE "read")
                /\ UNCHANGED <<cancelled, exited, cur, packets, ringVars, m,
                               writerVars, fate>>

\* A read deadline passes, or the datagram is too short to be looked at: the
\* listeners go round their loop, a connection goroutine ends.
ReadNothing(p) == /\ At(p, "read")
                  /\ Goto(p, IF p \in Streams THEN "done" ELSE "top")
                  /\ UNCHANGED <<cancelled, exited, cur, packets, ringVars, m,
                                 writerVars, fate>>

\* Where a producer goes after a packet: the UDP workers round their loop; a
\* TCP connection to its next complete frame, or round its loop; a TLS
\* connection to its next frame, or to its end.
AfterPacket(p) == CASE Transport[p] = "HEP3/TCP" -> {"read", "top"}
                    [] Transport[p] = "HEP3/TLS" -> {"read", "done"}
                    [] OTHER -> {"top"}

NextPacket(p) == /\ At(p, "read")
                 /\ packets[p] < MaxPackets
                 /\ packets' = [packets EXCEPT ![p] = @ + 1]

\* handleHEPPacket: the packet does not decode.
HepBad(p) == /\ p \notin Sip
             /\ NextPacket(p)
             /\ Inc("HEPErr", 1)
             /\ \E next \in AfterPacket(p) : Goto(p, next)
             /\ UNCHANGED <<cancelled, exited, cur, ringVars, writerVars, fate>>

HepGood(p) == /\ p \notin Sip
              /\ NextPacket(p)
              /\ Inc("HEPTotal", 1)
              /\ Goto(p, "transport")
              /\ UNCHANGED <<cancelled, exited, cur, ringVars, writerVars, fate>>

HepTransport(p) == /\ At(p, "transport")
                   /\ Inc(TransportField[Transport[p]], 1)
                   /\ Goto(p, "auth")
                   /\ UNCHANGED <<cancelled, exited, cur, packets, ringVars,
                                  writerVars, fate>>

\* Mutant: no return after the rejection is counted.
HepRejectFallsThrough(p) ==
    /\ At(p, "auth")
    /\ Inc("HEPAuthFail", 1)
    /\ Goto(p, "parse")
    /\ UNCHANGED <<cancelled, exited, cur, packets, ringVars, writerVars, fate>>

\* The password is wrong, or the peer is not on the allow list (a connection's
\* peer was let in when it was accepted, and is let in again).
HepReject(p) == /\ At(p, "auth")
                /\ \/ Inc("HEPAuthFail", 1)
                   \/ p \notin Streams /\ Inc("HEPDeny", 1)
                /\ \E next \in AfterPacket(p) : Goto(p, next)
                /\ UNCHANGED <<cancelled, exited, cur, packets, ringVars,
                               writerVars, fate>>

HepProto(p) == /\ At(p, "auth")
               /\ \E f \in Protos : Inc(f, 1)
               /\ Goto(p, "parse")
               /\ UNCHANGED <<cancelled, exited, cur, packets, ringVars,
                              writerVars, fate>>

\* parseSIP and the first counter: from here on the message is accepted.
Accept(p) == /\ \E shape \in Shapes : cur' = [cur EXCEPT ![p] = shape]
             /\ Inc("MsgsTotal", 1)
             /\ fate' = [fate EXCEPT ![<<p, packets'[p]>>] = "pending"]
             /\ Goto(p, "kind")
             /\ UNCHANGED <<cancelled, exited, ringVars, writerVars>>

SipPacket(p) == p \in Sip /\ NextPacket(p) /\ Accept(p)

HepMessage(p) == At(p, "parse") /\ UNCHANGED packets /\ Accept(p)

\* Mutant: no else, a request is counted as a response too.
CountKindNoElse(p) ==
    /\ At(p, "kind")
    /\ m' = [m EXCEPT !["Requests"] = IF cur[p].kind = "request" THEN @ + 1 ELSE @,
                      !["Responses"] = @ + 1]
    /\ Goto(p, "status")
    /\ UNCHANGED <<cancelled, exited, cur, packets, ringVars, writerVars, fate>>

CountKind(p) == /\ At(p, "kind")
                /\ Inc(IF cur[p].kind = "request" THEN "Requests"
                       ELSE "Responses", 1)
                /\ Goto(p, "status")
                /\ UNCHANGED <<cancelled, exited, cur, packets, ringVars,
                               writerVars, fate>>

CountStatus(p) == /\ At(p, "status")
                  /\ LET s == cur[p].status
                     IN  CASE s >= 200 /\ s < 300 -> Inc("Status2xx", 1)
                           [] s >= 400 -> Inc("Status4xx5xx", 1)
                           [] OTHER -> UNCHANGED m
                  /\ Goto(p, "method")
                  /\ UNCHANGED <<cancelled, exited, cur, packets, ringVars,
                                 writerVars, fate>>

BumpMethod(p) == /\ At(p, "method")
                 /\ Inc("Methods", 1)
                 /\ Goto(p, "push")
                 /\ UNCHANGED <<cancelled, exited, cur, packets, ringVars,
                                writerVars, fate>>

PushRecent(p) == /\ At(p, "push")
                 /\ R!Push(Id(p))
                 /\ Goto(p, "send")
                 /\ UNCHANGED <<cancelled, exited, cur, packets, m, writerVars,
                                fate>>

\* The select with a default: the record is queued if there is room now.
Enqueue(p) == /\ At(p, "send")
              /\ Len(ch) < Cap
              /\ ch' = Append(ch, Id(p))
              /\ Goto(p, "after")
              /\ UNCHANGED <<cancelled, exited, cur, packets, ringVars, m, batch,
                             wpc, stopping, stored, fate>>

QueueFull(p) == /\ At(p, "send")
                /\ Len(ch) >= Cap
                /\ Goto(p, "drop")
                /\ UNCHANGED <<cancelled, exited, cur, packets, ringVars, m,
                               writerVars, fate>>

CountDrop(p) == /\ At(p, "drop")
                /\ Inc("DBDrop", 1)
                /\ fate' = [fate EXCEPT ![Id(p)] = "dropped"]
                /\ Goto(p, "after")
                /\ UNCHANGED <<cancelled, exited, cur, packets, ringVars,
                               writerVars>>

\* sipWorker answers some requests itself; then the next packet.
Finish(p) == /\ At(p, "after")
             /\ IF p \in Sip /\ cur[p].kind = "request" /\ cur[p].echo
                THEN Inc("Echoes", 1)
                ELSE UNCHANGED m
             /\ cur' = [cur EXCEPT ![p] = NoMsg]
             /\ \E next \in AfterPacket(p) : Goto(p, next)
             /\ UNCHANGED <<cancelled, exited, packets, ringVars, writerVars,
                            fate>>

\* What a producer does on its own; reading a packet is up to the network.
Work(p) == \/ AcceptPeer(p) \/ DenyPeer(p) \/ CheckDone(p) \/ ReadNothing(p)
           \/ HepTransport(p) \/ HepReject(p) \/ HepProto(p) \/ HepMessage(p)
           \/ CountKind(p) \/ CountStatus(p) \/ BumpMethod(p) \/ PushRecent(p)
           \/ Enqueue(p) \/ QueueFull(p) \/ CountDrop(p) \/ Finish(p)

Read(p) == HepBad(p) \/ HepGood(p) \/ SipPacket(p)
-----------------------------------------------------------------------------
(***************************************************************************)
(* The database writer.  Its select takes any ready case, so cancellation  *)
(* does not stop it from taking more records first.                        *)
(***************************************************************************)
InSelect == ~exited /\ wpc = "select"

\* Mutant: the batch is flushed one record too late.
ReceiveLate == /\ InSelect
               /\ ch # << >>
               /\ ch' = Tail(ch)
               /\ batch' = Append(batch, Head(ch))
               /\ wpc' = IF Len(batch') > BatchSize THEN "insert" ELSE "select"
               /\ UNCHANGED <<cancelled, exited, producerVars, ringVars, m,
                              stopping, stored, fate>>

Receive == /\ InSelect
           /\ ch # << >>
           /\ ch' = Tail(ch)
           /\ batch' = Append(batch, Head(ch))
           /\ wpc' = IF Len(batch') >= BatchSize THEN "insert" ELSE "select"
           /\ UNCHANGED <<cancelled, exited, producerVars, ringVars, m, stopping,
                          stored, fate>>

\* Mutant: the tick flushes only a full batch.
FlushTickFull == /\ InSelect
                 /\ Len(batch) >= BatchSize
                 /\ wpc' = "insert"
                 /\ UNCHANGED <<cancelled, exited, producerVars, ringVars, m, ch,
                                batch, stopping, stored, fate>>

\* A flush tick; with an empty batch flush returns at once.
FlushTick == /\ InSelect
             /\ batch # << >>
             /\ wpc' = "insert"
             /\ UNCHANGED <<cancelled, exited, producerVars, ringVars, m, ch,
                            batch, stopping, stored, fate>>

\* Mutant: the writer returns without the last flush.
StopNoFlush == /\ InSelect
               /\ cancelled
               /\ stopping' = TRUE
               /\ wpc' = "done"
               /\ UNCHANGED <<cancelled, exited, producerVars, ringVars, m, ch,
                              batch, stored, fate>>

\* ctx.Done: flush what is in the batch and return; the channel is not drained.
Stop == /\ InSelect
        /\ cancelled
        /\ stopping' = TRUE
        /\ wpc' = IF batch = << >> THEN "done" ELSE "insert"
        /\ UNCHANGED <<cancelled, exited, producerVars, ringVars, m, ch, batch,
                       stored, fate>>

(***************************************************************************)
(* dbBatchInsert: one transaction for the batch.  It commits; or it fails  *)
(* and leaves nothing; or it commits and the answer to COMMIT is lost, so  *)
(* the writer sees an error.                                               *)
(***************************************************************************)
Inserting == ~exited /\ wpc = "insert"

TxCommit == /\ Inserting
            /\ stored' = stored \o batch
            /\ wpc' = "ok"
            /\ UNCHANGED <<cancelled, exited, producerVars, ringVars, m, ch,
                           batch, stopping, fate>>

TxFail == /\ Inserting
          /\ wpc' = "err"
          /\ UNCHANGED <<cancelled, exited, producerVars, ringVars, m, ch,
                         batch, stopping, stored, fate>>

TxCommitUnheard == /\ Inserting
                   /\ stored' = stored \o batch
                   /\ wpc' = "err"
                   /\ UNCHANGED <<cancelled, exited, producerVars, ringVars, m,
                                  ch, batch, stopping, fate>>

InBatch(i) == \E k \in DOMAIN batch : batch[k] = i

\* Mutant: the batch is not emptied after it is counted.
CountBatchKeeps(place, field, verdict) ==
    /\ ~exited
    /\ wpc = place
    /\ Inc(field, Len(batch))
    /\ fate' = [i \in Ids |-> IF InBatch(i) THEN verdict ELSE fate[i]]
    /\ wpc' = IF stopping THEN "done" ELSE "select"
    /\ UNCHANGED <<cancelled, exited, producerVars, ringVars, ch, batch, stopping,
                   stored>>

\* Mutant: a failed batch is tried again.
CountBatchRetries(place, field, verdict) ==
    /\ ~exited
    /\ wpc = place
    /\ IF verdict = "ok"
       THEN /\ Inc(field, Len(batch))
            /\ fate' = [i \in Ids |-> IF InBatch(i) THEN verdict ELSE fate[i]]
            /\ batch' = << >>
       ELSE UNCHANGED <<m, fate, batch>>
    /\ wpc' = IF verdict = "ok" /\ stopping THEN "done" ELSE "select"
    /\ UNCHANGED <<cancelled, exited, producerVars, ringVars, ch, stopping, stored>>

\* Mutant: errors are counted as successes.
CountBatchAlwaysOk(place, field, verdict) ==
    /\ ~exited
    /\ wpc = place
    /\ Inc("DBOk", Len(batch))
    /\ fate' = [i \in Ids |-> IF InBatch(i) THEN verdict ELSE fate[i]]
    /\ batch' = << >>
    /\ wpc' = IF stopping THEN "done" ELSE "select"
    /\ UNCHANGED <<cancelled, exited, producerVars, ringVars, ch, stopping, stored>>

\* The outcome is counted for the whole batch and the batch is emptied: a
\* failed batch is not tried again.
CountBatch(place, field, verdict) ==
    /\ ~exited
    /\ wpc = place
    /\ Inc(field, Len(batch))
    /\ fate' = [i \in Ids |-> IF InBatch(i) THEN verdict ELSE fate[i]]
    /\ batch' = << >>
    /\ wpc' = IF stopping THEN "done" ELSE "select"
    /\ UNCHANGED <<cancelled, exited, producerVars, ringVars, ch, stopping, stored>>

CountOk  == CountBatch("ok", "DBOk", "ok")
CountErr == CountBatch("err", "DBErr", "err")

Flushing == TxCommit \/ TxFail \/ TxCommitUnheard \/ CountOk \/ CountErr
-----------------------------------------------------------------------------
\* SIGINT or SIGTERM.
Cancel == /\ ~cancelled
          /\ cancelled' = TRUE
          /\ UNCHANGED <<exited, producerVars, ringVars, m, writerVars, fate>>

\* wg.Wait returns, and the connection goroutines end with the process.  The
\* WaitGroup has other workers too, among them the listener of hepTLSWorker, which
\* may never return (module Lifecycle): Exit happens at some time after the
\* goroutines of this module have returned, or not at all.
Exit == /\ ~exited
        /\ wpc = "done"
        /\ \A p \in Waited : pc[p] = "done"
        /\ exited' = TRUE
        /\ UNCHANGED <<cancelled, producerVars, ringVars, m, writerVars, fate>>

Next == \/ \E p \in Producers : Work(p) \/ Read(p)
        \/ Receive \/ FlushTick \/ Stop \/ Flushing
        \/ Cancel \/ Exit

(***************************************************************************)
(* Fairness.  A goroutine that can run does run, and every read has a      *)
(* deadline, so Work is weakly fair.  A Go select picks uniformly among its*)
(* ready cases, so a case that is ready again and again is taken.  Packets,*)
(* the signal and the exit need never come, and a transaction need never   *)
(* end: db.Begin waits for a connection without a deadline, and module Pool*)
(* shows how there may never be one.                                       *)
(***************************************************************************)
Fairness == /\ \A p \in Producers : WF_vars(Work(p))
            /\ WF_vars(CountOk \/ CountErr)
            /\ SF_vars(Receive) /\ SF_vars(FlushTick) /\ SF_vars(Stop)

Spec == Init /\ [][Next]_vars

FairSpec == Spec /\ Fairness
-----------------------------------------------------------------------------
Places == {"accept", "top", "read", "transport", "auth", "parse", "kind",
           "status", "method", "push", "send", "drop", "after", "done"}

\* The message a producer has in hand: parsed, not yet finished.
Holding == {"kind", "status", "method", "push", "send", "drop", "after"}

TypeOK == /\ cancelled \in BOOLEAN
          /\ exited \in BOOLEAN
          /\ pc \in [Producers -> Places]
          /\ cur \in [Producers -> Shapes \cup {NoMsg}]
          /\ \A p \in Producers : pc[p] \in Holding => cur[p] \in Shapes
          /\ packets \in [Producers -> 0 .. MaxPackets]
          /\ R!RingTypeOK
          /\ m \in [Fields -> Nat]
          /\ ch \in Seq(Ids) /\ Len(ch) <= Cap
          /\ batch \in Seq(Ids) /\ Len(batch) <= BatchSize
          /\ wpc \in {"select", "insert", "ok", "err", "done"}
          /\ stopping \in BOOLEAN
          /\ stored \in Seq(Ids)
          /\ fate \in [Ids -> {"none", "pending", "dropped", "ok", "err"}]

\* The producers that are at one of these places.
AtAny(places) == {p \in Producers : pc[p] \in places}

\* Messages counted in MsgsTotal that are not yet in the channel and not yet
\* counted as dropped.
Unsent == AtAny({"kind", "status", "method", "push", "send", "drop"})

\* Every message counted in MsgsTotal is in exactly one place: in the hands of
\* its producer, in dbCh, in the writer's batch, or counted once in DBDrop,
\* DBOk or DBErr.  So the counters of /metrics add up, and what a shutdown
\* loses is what is left in the channel.
Accounting == m["MsgsTotal"] = Cardinality(Unsent) + Len(ch) + Len(batch)
                               + m["DBDrop"] + m["DBOk"] + m["DBErr"]

\* DBOk never exceeds the rows that flush has committed, and rows beyond it
\* belong to batches counted in DBErr (their COMMIT took effect but its answer
\* was lost) or to the batch being counted.
StoredBounds ==
    /\ m["DBOk"] <= Len(stored)
    /\ Len(stored) <= m["DBOk"] + m["DBErr"]
                      + (IF wpc \in {"ok", "err"} THEN Len(batch) ELSE 0)

\* The counters of handleHEPPacket agree: each decoded packet has one transport,
\* and was rejected once, or has one protocol and became a message.  HEPDeny
\* also counts connections that were refused, at most one for each connection.
HepAccounting ==
    LET protos == m["HEPSIP"] + m["HEPRTCP"] + m["HEPRTP"] + m["HEPRTCPXR"]
                  + m["HEPOther"]
        denied == m["HEPTotal"] - m["HEPAuthFail"] - protos
                  - Cardinality(AtAny({"transport", "auth"}))
    IN  /\ m["HEPTotal"] = m["HEPUDP"] + m["HEPTCP"] + m["HEPTLS"]
                           + Cardinality(AtAny({"transport"}))
        /\ denied \in 0 .. m["HEPDeny"]
        /\ m["HEPDeny"] - denied <= Cardinality(Streams)
        /\ Sip = {} => m["MsgsTotal"] + Cardinality(AtAny({"parse"})) = protos

\* The message counters that sipWorker and handleHEPPacket bump one after the
\* other, each under its own lock, differ only by the producers between them;
\* a final status is counted only for a response.
KindAccounting ==
    /\ m["MsgsTotal"] = m["Requests"] + m["Responses"]
                        + Cardinality(AtAny({"kind"}))
    /\ m["MsgsTotal"] = m["Methods"]
                        + Cardinality(AtAny({"kind", "status", "method"}))
    /\ m["Status2xx"] + m["Status4xx5xx"] <= m["Responses"]
    /\ m["Echoes"] <= m["Requests"]

\* A record is in the ring of recent records before it can be in dbCh, in the
\* batch or in the table, so the ring never lags behind the database; and the
\* ring still returns the newest records when several goroutines push.
RingLeads ==
    /\ \A s \in {ch, batch, stored} : \A k \in DOMAIN s :
          \E j \in DOMAIN pushed : pushed[j] = s[k]
    /\ Len(pushed) = m["MsgsTotal"]
                     - Cardinality(AtAny({"kind", "status", "method", "push"}))
    /\ R!RecentIsNewest

\* A shutdown loses only records that are still in dbCh and the one record in
\* the hands of each connection goroutine: the batch has been flushed.
LostAtExit ==
    exited => \A i \in Ids :
        fate[i] = "pending" => \/ \E k \in DOMAIN ch : ch[k] = i
                               \/ /\ i[1] \in Streams \cap Unsent
                                  /\ i = Id(i[1])

\* No transaction of dbBatchInsert goes on for ever.
TransactionsEnd == []<>(wpc # "insert")

\* If transactions end, a record that is in dbCh or in the batch is reported as
\* written or failed sooner or later, also when the batch never fills up, unless
\* the process is told to stop (db.go dbWriter).
QueuedIsSettled ==
    TransactionsEnd =>
        \A i \in Ids :
            (i \in {ch[k] : k \in DOMAIN ch} \cup {batch[k] : k \in DOMAIN batch})
                ~> (fate[i] \in {"ok", "err"} \/ cancelled)

\* After the signal the reading goroutines that main waits for return whatever
\* the database does, and if transactions end so does the writer, whatever is in
\* the channel and however many packets still arrive (sip.go sipWorker, hep.go
\* hepUDPWorker, db.go dbWriter).
PipelineStops ==
    /\ cancelled ~> \A p \in Waited : pc[p] = "done"
    /\ TransactionsEnd => (cancelled ~> wpc = "done")

Promise == INSTANCE Recorder

\* The pipeline implements what Recorder promises.
ImplementsRecorder == Promise!Spec
=============================================================================
