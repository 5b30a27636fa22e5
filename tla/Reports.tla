------------------------------ MODULE Reports ------------------------------
(***************************************************************************)
(* The report builders (core-go/reports.go) as operators on the rows that  *)
(* they select: `calls' is a table like Store's callState, a function from *)
(* keys to rows, and `msgs' a set of rows of captures, each [id, agent,    *)
(* ts, kind, method, status].  A builder's WHERE clause on the time is     *)
(* Since.  Divisions are Go's and PostgreSQL's on numbers that are not     *)
(* negative.                                                               *)
(*                                                                         *)
(* Left out: the JSON text, the order of the rows, the division of         *)
(* milliseconds by 1000, filters that only compare a column with what the  *)
(* request asks for, and counts that one page alone shows (distinct calls, *)
(* agents and sources, single status codes, a node's active calls).  Of the*)
(* LIMITs, those are left out of which a report only says something row by *)
(* row: the filters, the top calls and the SLA pages list the first of     *)
(* their rows.                                                             *)
(***************************************************************************)
EXTENDS CallState, FiniteSets, FiniteSetsExt, Functions, Sequences

CONSTANTS
    NumberLimit,      \* calls that buildNumberJSON lists and counts; 50 in the code
    ErrorCodeLimit,   \* codes that buildCarrierScoreJSON lists; 10 in the code
    RecentLimit,      \* responses that buildResponseCodesJSON counts; 50000
    CodeLimit         \* codes that buildResponseCodesJSON lists; 30

ASSUME LimitsAssumption == {NumberLimit, ErrorCodeLimit, RecentLimit, CodeLimit} \subseteq Nat

\* What ORDER BY key DESC LIMIT n may leave of S: among equals the database chooses.
FirstRows(S, key, n) ==
    {T \in SUBSET S :
        /\ Cardinality(T) = IF Cardinality(S) < n THEN Cardinality(S) ELSE n
        /\ \A x \in T, y \in S \ T : key[x] >= key[y]}

\* WHERE first_ts_ms >= cutoff
Since(calls, cutoff) ==
    Restrict(calls, {k \in DOMAIN calls : calls[k].first_ts >= cutoff})

AnsweredIn(calls) == {k \in DOMAIN calls : calls[k].answered = 1}
InvitedIn(calls)  == {k \in DOMAIN calls : calls[k].invite_id > 0}

\* Mutant: an answered call that ends with an error response counts as failed.
FailedInAll(calls) == {k \in DOMAIN calls : /\ calls[k].open = 0
                                            /\ calls[k].last_status >= 400}

FailedIn(calls) == {k \in DOMAIN calls : /\ calls[k].answered = 0
                                         /\ calls[k].open = 0
                                         /\ calls[k].last_status >= 400}

\* The answered calls with time between the answer and the last message.
Lasting(calls) == {k \in AnsweredIn(calls) : /\ calls[k].answer_ts > 0
                                             /\ calls[k].last_ts > calls[k].answer_ts}

TalkTime(calls, keys) ==
    MapThenSumSet(LAMBDA k : calls[k].last_ts - calls[k].answer_ts, keys)

\* round(avg(...)) of the calls that are over.
Acd(calls) == LET timed == {k \in Lasting(calls) : calls[k].open = 0}
                  n     == Cardinality(timed)
              IN  IF n = 0 THEN 0 ELSE ((2 * TalkTime(calls, timed)) + n) \div (2 * n)

Percent(part, whole) == IF whole > 0 THEN (part * 100) \div whole ELSE 0

AtMost100(n) == IF n > 100 THEN 100 ELSE n

\* activeCallWhere: open, and heard of within the age that its state allows.
Active(calls, now, maxAge, ringingMaxAge) ==
    {k \in DOMAIN calls :
        /\ calls[k].open = 1
        /\ calls[k].last_ts >= now - (IF calls[k].answered = 1 THEN maxAge
                                      ELSE ringingMaxAge)}

\* One row of buildTrendJSON and buildHourlyTrendJSON.
Kpi(calls) ==
    LET answered == Cardinality(AnsweredIn(calls))
        failed   == Cardinality(FailedIn(calls))
    IN  [total |-> Cardinality(DOMAIN calls), answered |-> answered, failed |-> failed,
         asr |-> AtMost100(Percent(answered, answered + failed)), acd |-> Acd(calls)]

\* The calls that began in each day, hour or minute.
Buckets(calls, length) ==
    LET Bucket(k) == calls[k].first_ts \div length
    IN  [b \in {Bucket(k) : k \in DOMAIN calls} |->
            Restrict(calls, {k \in DOMAIN calls : Bucket(k) = b})]

Trend(calls, length) ==
    LET buckets == Buckets(calls, length) IN [b \in DOMAIN buckets |-> Kpi(buckets[b])]

\* buildCPSJSON
Cps(calls, length) ==
    LET buckets == Buckets(calls, length)
    IN  [b \in DOMAIN buckets |-> [total |-> Cardinality(DOMAIN buckets[b]),
                                   invites |-> Cardinality(InvitedIn(buckets[b]))]]

\* The calls in buildRealtimeJSON: its ner is what its asr is, without rounding
\* up or a cap, and its stale dialogs are those open but not active.
Realtime(calls, window, active) ==
    LET answered == Cardinality(AnsweredIn(window))
        failed   == Cardinality(FailedIn(window))
        open     == Cardinality({k \in DOMAIN calls : calls[k].open = 1})
        stale    == open - Cardinality(active)
    IN  [active_calls |-> Cardinality(active), open_dialogs |-> open,
         stale_open_dialogs |-> IF stale < 0 THEN 0 ELSE stale,
         answered_calls |-> answered, failed_calls |-> failed,
         acd_seconds |-> Acd(window),
         asr |-> Percent(answered, answered + failed),
         ner |-> Percent(answered + failed - failed, answered + failed)]

\* One row of buildSLAAgentsJSON: percentages of the calls whose INVITE was seen.
SlaAgent(calls) ==
    LET invites == Cardinality(InvitedIn(calls))
    IN  [invites |-> invites, ok_2xx |-> Cardinality(AnsweredIn(calls)),
         errors |-> Cardinality(FailedIn(calls)),
         asr |-> Percent(Cardinality(AnsweredIn(calls)), invites),
         err_rate |-> Percent(Cardinality(FailedIn(calls)), invites)]

\* One row of buildSLADestJSON and buildSLASrcJSON, and the totals of
\* buildCarrierScoreJSON: the same with a cap and the average duration.
SlaPeer(calls) ==
    LET invites == Cardinality(InvitedIn(calls))
    IN  [invites |-> invites, ok_2xx |-> Cardinality(AnsweredIn(calls)),
         errors |-> Cardinality(FailedIn(calls)),
         asr |-> AtMost100(Percent(Cardinality(AnsweredIn(calls)), invites)),
         acd |-> Acd(calls)]

\* buildCarrierScoreJSON's breakdown of its errors: the most frequent codes.
ErrorCodes(calls) ==
    LET codes == {calls[k].last_status : k \in FailedIn(calls)}
        count == [s \in codes |->
                    Cardinality({k \in FailedIn(calls) : calls[k].last_status = s})]
    IN  {Restrict(count, shown) : shown \in FirstRows(codes, count, ErrorCodeLimit)}

\* The state buildNumberJSON shows; unlike StateOf, it says failed of every call
\* that is over and was not answered.
NumberState(row) == CASE row.open = 0 /\ row.answered = 1 -> "completed"
                      [] row.open = 0 /\ row.answered # 1 -> "failed"
                      [] row.open # 0 /\ row.answered = 1 -> "in_progress"
                      [] OTHER -> "ringing"

\* The totals of buildNumberJSON over the calls it lists: calls that go on have a
\* duration as well.
NumberReport(calls) ==
    LET answered == Cardinality(AnsweredIn(calls))
        failed   == Cardinality(FailedIn(calls))
        timed    == Lasting(calls)
    IN  [total |-> Cardinality(DOMAIN calls), answered |-> answered, failed |-> failed,
         asr |-> Percent(answered, answered + failed),
         acd |-> IF timed = {} THEN 0
                 ELSE TalkTime(calls, timed) \div Cardinality(timed)]

\* buildNumberJSON lists the latest calls.
NumberReports(calls) ==
    {NumberReport(Restrict(calls, listed)) :
        listed \in FirstRows(DOMAIN calls, [k \in DOMAIN calls |-> calls[k].first_ts],
                            NumberLimit)}

\* The state filter of buildActiveCallsJSON; another word filters nothing.
StateFilter(state, calls) ==
    {k \in DOMAIN calls :
        LET row == calls[k]
        IN  CASE state \in {"open", "ringing"}    -> row.open = 1 /\ row.answered = 0
              [] state \in {"answered", "active"} -> row.open = 1 /\ row.answered = 1
              [] state = "ended"    -> row.open = 0
              [] state = "failed"   -> k \in FailedIn(calls)
              [] state = "canceled" -> row.open = 0 /\ row.last_method.name = "CANCEL"
              [] OTHER -> TRUE}

\* How buildActiveCallsJSON and buildTopCallsJSON estimate the messages of a call.
MessageEstimate(row) ==
    LET n == row.last_id - row.invite_id IN IF n < 1 THEN 1 ELSE n

\* buildTopCallsJSON has a state of its own, for calls with an INVITE.
TopCalls(calls) == [k \in InvitedIn(calls) |->
                      [state |-> IF calls[k].open = 1 THEN "active" ELSE "ended",
                       messages |-> MessageEstimate(calls[k])]]
-----------------------------------------------------------------------------
(***************************************************************************)
(* Reports on messages                                                     *)
(***************************************************************************)
\* count(*) FILTER (WHERE status >= low AND status < high)
WithStatus(msgs, low, high) ==
    Cardinality({x \in msgs : x.status >= low /\ x.status < high})

Unlimited == 1000

\* The counts in buildRealtimeJSON; LIKE '%INVITE%' finds responses as well.
MessageCounts(msgs) ==
    LET ok        == WithStatus(msgs, 200, 300)
        client    == WithStatus(msgs, 400, 500)
        server    == WithStatus(msgs, 500, Unlimited)
        Named(n)  == Cardinality({x \in msgs : x.method.name = n})
    IN  [total |-> Cardinality(msgs),
         invites |-> Cardinality({x \in msgs : /\ x.method = [class |-> 0, name |-> "INVITE"]
                                               /\ x.kind = "request"}),
         invite_messages |-> Named("INVITE"), byes |-> Named("BYE"),
         registers |-> Named("REGISTER"), options |-> Named("OPTIONS"),
         resp_2xx |-> ok, resp_4xx |-> client, resp_5xx |-> server,
         err_rate |-> Percent(client + server, ok + client + server)]

\* buildResponseCodesJSON: the most frequent codes of the latest responses.
StatusCounts(msgs) == [s \in {x.status : x \in msgs} |->
                         Cardinality({x \in msgs : x.status = s})]

ResponseCodes(msgs) ==
    LET responses == {x \in msgs : x.status > 0}
    IN  UNION {{Restrict(StatusCounts(recent), shown) :
                   shown \in FirstRows({x.status : x \in recent}, StatusCounts(recent),
                                       CodeLimit)} :
               recent \in FirstRows(responses, [x \in responses |-> x.id], RecentLimit)}

\* buildAnomaliesJSON
Anomalies(msgs) ==
    {a \in {"auth_failures", "5xx_errors", "busy_spike"} :
        CASE a = "auth_failures" -> Cardinality({x \in msgs : x.status \in {401, 403}}) > 5
          [] a = "5xx_errors"    -> WithStatus(msgs, 500, Unlimited) > 0
          [] a = "busy_spike"    -> WithStatus(msgs, 486, 487) > 10}

Severity(anomaly) == IF anomaly = "5xx_errors" THEN "critical" ELSE "warning"

\* What alertWorker posts every minute: an anomaly text with a critical one in it.
AlertPosted(msgs) == \E a \in Anomalies(msgs) : Severity(a) = "critical"

\* buildNodesJSON: the agents heard of in the last window, and for how long they
\* have been silent; 300 seconds and 60 seconds in the code.
NodeStatus(age, window, short) == CASE age > window -> "red"
                                    [] age > short /\ age <= window -> "yellow"
                                    [] OTHER -> "green"

\* Mutant: the list goes back one window more.
NodesLong(msgs, now, window, short) ==
    LET Of(a) == {x \in msgs : x.agent = a /\ x.ts >= now - (2 * window)}
    IN  [a \in {b \in {x.agent : x \in msgs} : Of(b) # {}} |->
            LET last == Max({x.ts : x \in Of(a)})
            IN  [total |-> Cardinality(Of(a)), last_seen |-> last,
                 errors |-> WithStatus(Of(a), 400, Unlimited),
                 status |-> NodeStatus(now - last, window, short)]]

Nodes(msgs, now, window, short) ==
    LET Of(a) == {x \in msgs : x.agent = a /\ x.ts >= now - window}
    IN  [a \in {b \in {x.agent : x \in msgs} : Of(b) # {}} |->
            LET last == Max({x.ts : x \in Of(a)})
            IN  [total |-> Cardinality(Of(a)), last_seen |-> last,
                 errors |-> WithStatus(Of(a), 400, Unlimited),
                 status |-> NodeStatus(now - last, window, short)]]
-----------------------------------------------------------------------------
(***************************************************************************)
(* The reports that show the same calls agree with each other.             *)
(***************************************************************************)
SumOver(f, Col(_)) == MapThenSumSet(LAMBDA b : Col(f[b]), DOMAIN f)

CallReportsAgreeOn(calls, now, length) ==
    LET kpi    == Kpi(calls)
        trend  == Trend(calls, length)
        peer   == SlaPeer(calls)
        agent  == SlaAgent(calls)
        shown  == Realtime(calls, Since(calls, now - length),
                           Active(calls, now, length, length - 1))
        Label(state) == {k \in DOMAIN calls : StateOf(calls[k]) = state}
    IN  \* no call is both answered and failed, none is outside the trend
        /\ kpi.answered + kpi.failed <= kpi.total
        /\ SumOver(trend, LAMBDA r : r.total) = kpi.total
        /\ SumOver(trend, LAMBDA r : r.answered) = kpi.answered
        /\ SumOver(trend, LAMBDA r : r.failed) = kpi.failed
        /\ SumOver(Cps(calls, length), LAMBDA r : r.invites) = agent.invites
        \* the pages give the same ratio, and the codes add up to the errors, as far
        \* as the rows they list go
        /\ \A number \in NumberReports(calls) :
              /\ number.answered <= kpi.answered /\ number.failed <= kpi.failed
              /\ kpi.total <= NumberLimit => number.asr = kpi.asr
        /\ shown.ner = shown.asr
        /\ shown.answered_calls <= kpi.answered
        /\ shown.open_dialogs
              = shown.active_calls + shown.stale_open_dialogs
        /\ \A codes \in ErrorCodes(calls) :
              LET listed == SumOver(codes, LAMBDA n : n)
              IN  /\ listed <= peer.errors
                  /\ Cardinality({calls[k].last_status : k \in FailedIn(calls)})
                        <= ErrorCodeLimit => listed = peer.errors
        /\ peer.asr = AtMost100(agent.asr)
        /\ agent.asr > 100 => AnsweredIn(calls) \ InvitedIn(calls) # {}
        \* a filter shows the calls with its label
        /\ StateFilter("ringing", calls)  = Label("ringing")
        /\ StateFilter("answered", calls) = Label("answered")
        /\ StateFilter("failed", calls)   = Label("failed")
        /\ StateFilter("ended", calls)    = Label("ended") \cup Label("failed")
        /\ StateFilter("canceled", calls) \subseteq StateFilter("ended", calls)
        /\ \A k \in DOMAIN TopCalls(calls) :
              TopCalls(calls)[k].state = "active"
                  <=> StateOf(calls[k]) \in {"ringing", "answered"}
        \* so does the number page, but for the calls it calls failed
        /\ \A k \in DOMAIN calls :
              /\ NumberState(calls[k]) = "ringing" <=> k \in Label("ringing")
              /\ NumberState(calls[k]) = "in_progress" <=> k \in Label("answered")
              /\ k \in Label("failed") => NumberState(calls[k]) = "failed"

MessageReportsAgreeOn(msgs, now, window, short) ==
    LET counts == MessageCounts(msgs)
        nodes  == Nodes(msgs, now, window, short)
        responses == {x \in msgs : x.status > 0}
        whole  == /\ Cardinality(responses) <= RecentLimit
                  /\ Cardinality({x.status : x \in responses}) <= CodeLimit
        InClass(codes, low, high) ==
            MapThenSumSet(LAMBDA s : codes[s], {s \in DOMAIN codes : s >= low /\ s < high})
        \* what is listed of a class is no more than the class, and all of it if
        \* there are neither too many responses nor too many codes
        Agrees(listed, class) == listed <= class /\ (whole => listed = class)
    IN  /\ \A codes \in ResponseCodes(msgs) :
              /\ Agrees(InClass(codes, 200, 300), counts.resp_2xx)
              /\ Agrees(InClass(codes, 400, 500), counts.resp_4xx)
              /\ Agrees(InClass(codes, 500, Unlimited), counts.resp_5xx)
        /\ counts.err_rate \in 0 .. 100
        /\ counts.invites <= counts.invite_messages
        \* an alert is posted exactly when server errors are shown
        /\ AlertPosted(msgs) <=> counts.resp_5xx > 0
        \* every message of the window is some listed node's, and a node that
        \* falls silent leaves the list instead of turning red
        /\ SumOver(nodes, LAMBDA r : r.total)
              = Cardinality({x \in msgs : x.ts >= now - window})
        /\ \A a \in DOMAIN nodes : nodes[a].status # "red"
=============================================================================
