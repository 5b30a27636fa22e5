----------------------------- MODULE CallState -----------------------------
(***************************************************************************)
(* How one captured SIP message changes the call_state row of its call     *)
(* (core-go/sip.go makeRecord; core-go/db.go dbBatchInsert), and what the  *)
(* reports read off a row (core-go/reports.go).                            *)
(*                                                                         *)
(* A parsed message has kind, base (its method; a response takes it from   *)
(* CSeq), status (0 for a request) and ts.  Columns that are only copied   *)
(* (src, dst, from_h, to_h, record_json) are left out.                     *)
(***************************************************************************)
EXTENDS Integers

(***************************************************************************)
(* The method column: a response is stored as "<status / 100> METHOD", a   *)
(* request, or a response without a status or a method, as METHOD.  Class 0*)
(* stands for no prefix.                                                   *)
(***************************************************************************)
MethodColumn(rec) ==
    [class |-> IF rec.kind = "response" /\ rec.status > 0 /\ rec.base # ""
               THEN rec.status \div 100 ELSE 0,
     name |-> rec.base]

\* dbBatchInsert drops the part before the first space, when there is one.
BaseMethod(column) == column.name

IsInviteReq(rec) == BaseMethod(MethodColumn(rec)) = "INVITE" /\ rec.kind = "request"

\* Mutant: any response to an INVITE answers the call.
IsAnsweredAny(rec) == /\ BaseMethod(MethodColumn(rec)) = "INVITE"
                      /\ rec.kind = "response"

IsAnswered(rec) == /\ BaseMethod(MethodColumn(rec)) = "INVITE"
                   /\ rec.kind = "response"
                   /\ rec.status >= 200 /\ rec.status < 300

IsClosed(rec) == BaseMethod(MethodColumn(rec)) \in {"BYE", "CANCEL"}

\* INSERT INTO call_state: the first message of a call with this agent.
NewRow(rec, id) ==
    [first_ts    |-> rec.ts,
     last_ts     |-> rec.ts,
     last_id     |-> id,
     last_method |-> MethodColumn(rec),
     last_status |-> rec.status,
     open        |-> IF IsClosed(rec) THEN 0 ELSE 1,
     answered    |-> IF IsAnswered(rec) THEN 1 ELSE 0,
     invite_id   |-> IF IsInviteReq(rec) THEN id ELSE 0,
     answer_ts   |-> IF IsAnswered(rec) THEN rec.ts ELSE 0]

\* Mutant: the latest message sets last_ts, without GREATEST.
UpdatedRowLastWins(row, rec, id) ==
    [row EXCEPT
        !.last_ts     = rec.ts,
        !.last_id     = id,
        !.last_method = MethodColumn(rec),
        !.last_status = rec.status,
        !.open        = IF IsClosed(rec) THEN 0 ELSE @,
        !.answered    = IF IsAnswered(rec) THEN 1 ELSE @,
        !.invite_id   = IF IsInviteReq(rec) /\ @ = 0 THEN id ELSE @,
        !.answer_ts   = IF IsAnswered(rec) /\ @ = 0 THEN rec.ts ELSE @]

\* Mutant: an INVITE opens the row again.
UpdatedRowReopens(row, rec, id) ==
    [row EXCEPT
        !.last_ts     = IF rec.ts > @ THEN rec.ts ELSE @,
        !.last_id     = id,
        !.last_method = MethodColumn(rec),
        !.last_status = rec.status,
        !.open        = IF IsClosed(rec) THEN 0
                        ELSE IF IsInviteReq(rec) THEN 1 ELSE @,
        !.answered    = IF IsAnswered(rec) THEN 1 ELSE @,
        !.invite_id   = IF IsInviteReq(rec) /\ @ = 0 THEN id ELSE @,
        !.answer_ts   = IF IsAnswered(rec) /\ @ = 0 THEN rec.ts ELSE @]

\* ON CONFLICT (call_id, agent) DO UPDATE.
UpdatedRow(row, rec, id) ==
    [row EXCEPT
        !.last_ts     = IF rec.ts > @ THEN rec.ts ELSE @,
        !.last_id     = id,
        !.last_method = MethodColumn(rec),
        !.last_status = rec.status,
        !.open        = IF IsClosed(rec) THEN 0 ELSE @,
        !.answered    = IF IsAnswered(rec) THEN 1 ELSE @,
        !.invite_id   = IF IsInviteReq(rec) /\ @ = 0 THEN id ELSE @,
        !.answer_ts   = IF IsAnswered(rec) /\ @ = 0 THEN rec.ts ELSE @]

\* The state buildActiveCallsJSON shows for a call.
StateOf(row) == CASE row.open = 1 /\ row.answered = 1 -> "answered"
                  [] row.open = 1 /\ row.answered # 1 -> "ringing"
                  [] row.open # 1 /\ row.answered = 0 /\ row.last_status >= 400 -> "failed"
                  [] OTHER -> "ended"
=============================================================================
