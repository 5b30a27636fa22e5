------------------------------- MODULE Store -------------------------------
(***************************************************************************)
(* The PostgreSQL tables of zaman-core and everything that changes them:   *)
(* the writer's batch transactions and its partition and retention ticks   *)
(* (core-go/db.go), the API's delete (core-go/api.go), restarts and the    *)
(* passing of time.                                                        *)
(*                                                                         *)
(* Time is counted in ticks, DayLength of them in a day; a day is the      *)
(* number of a UTC day.  One tick is longer than the writer's timers (1    *)
(* hour, 15 minutes), so each of them fires before the next tick.          *)
(*                                                                         *)
(* PostgreSQL is external: a transaction is one step, since readers and    *)
(* DELETEs see all of it or none; a statement that fails aborts its        *)
(* transaction, later statements fail too and COMMIT returns an error.     *)
(***************************************************************************)
EXTENDS CallState, Sequences, FiniteSets, Functions

CONSTANTS
    Calls,          \* values of the Call-ID header
    NoCall,         \* the one of a message that has none
    Agents,         \* capture agents
    Shapes,         \* parsed messages: [kind, base, status, transport]
    Skews,          \* how far an agent's clock may be off, in ticks
    BadRecords,     \* {FALSE}, or BOOLEAN: are there records that the table
                    \* rejects (a NUL in a text, a node id beyond INTEGER)?
    DayLength,      \* ticks in a day
    Zone,           \* the server's offset from UTC, in ticks
    FailingDays,    \* days for which CREATE TABLE may fail
    RetentionDays,
    BatchSize,      \* 100 in the code
    BeforeTimes,    \* times that the API is asked to delete up to
    StartTime,      \* when the tables are created
    MaxTime,        \* bound on time
    MaxRecords      \* bound on the records the writer takes

\* Methods of messages: those that call_state looks at, three it does not look at,
\* and none.  Any first word of a message is a method, so one has a bar in it.
Methods == {"", "INVITE", "ACK", "BYE", "CANCEL", "OPTIONS", "OPTIONS|X"}

Transports == {"UDP", "HEP3"}

ASSUME StoreAssumption ==
    /\ IsFiniteSet(Skews) /\ Skews \subseteq Int
    /\ Shapes \subseteq [kind : {"request", "response"},
                         base : Methods, status : 0 .. 699, transport : Transports]
    /\ BadRecords \subseteq BOOLEAN
    /\ DayLength \in Nat \ {0}
    /\ Zone \in -DayLength .. DayLength
    /\ FailingDays \subseteq Int
    /\ RetentionDays \in Nat
    /\ BeforeTimes \subseteq Nat \ {0}
    /\ BatchSize \in Nat \ {0}
    /\ StartTime \in Nat \ {0}
    /\ MaxTime \in Nat /\ StartTime <= MaxTime /\ MaxRecords \in Nat

VARIABLES
    up,          \* the process runs
    now,
    timers,      \* the writer's timers that have not yet fired in this tick
    taken,       \* records the writer has taken from dbCh
    batch,
    nextId,      \* the sequence behind captures.id
    parts,       \* days that have a partition of captures
    failed,      \* history: days without one because CREATE TABLE failed
    started,     \* history: the local day of the last start
    captures,    \* rows of captures
    callState,   \* <<call, agent>> -> row of call_state
    daily,       \* <<day, method, transport>> -> cnt of report_daily
    deleting,    \* the API's delete that is between its two statements
    log,         \* history: <<call, agent>> -> the messages its row has seen
    removed      \* history: has any capture row ever been removed?

tables == <<parts, failed, started, captures, callState, daily, log, removed>>
vars == <<up, now, timers, taken, batch, nextId, tables, deleting>>

Keys == (Calls \ {NoCall}) \X Agents

Day(ts) == ts \div DayLength

\* ensurePartitions: the local dates of today and the next two days, each as a
\* partition from midnight UTC to midnight UTC.
PartitionsFrom(time) == LET today == Day(time + Zone) IN today .. today + 2

\* What is there of them afterwards: createDayPartition only logs an error.
Created(time, old) == {old \cup (PartitionsFrom(time) \ lost) :
                          lost \in SUBSET (PartitionsFrom(time) \cap FailingDays)}

Timers == {"partition", "retention"}

NoDelete == [kind |-> "none"]

Init == /\ up = TRUE
        /\ now = StartTime
        /\ timers = Timers
        /\ taken = 0
        /\ batch = << >>
        /\ nextId = 1
        /\ parts \in Created(StartTime, {})
        /\ failed = PartitionsFrom(StartTime) \ parts
        /\ started = Day(StartTime + Zone)
        /\ captures = {}
        /\ callState = << >>
        /\ daily = << >>
        /\ deleting = NoDelete
        /\ log = << >>
        /\ removed = FALSE
-----------------------------------------------------------------------------
\* The writer takes a record from the channel.  A HEP agent stamps it with its
\* own clock; a stamp that is not positive is replaced by the time here.
Take(shape, call, agent, skew, bad) ==
    /\ up
    /\ taken < MaxRecords
    /\ Len(batch) < BatchSize
    /\ taken' = taken + 1
    /\ batch' = Append(batch, [kind |-> shape.kind, base |-> shape.base,
                               status |-> shape.status,
                               transport |-> shape.transport, call |-> call,
                               agent |-> agent, bad |-> bad,
                               ts |-> IF now + skew <= 0 THEN now ELSE now + skew])
    /\ UNCHANGED <<up, now, timers, nextId, tables, deleting>>

\* PostgreSQL accepts a row if it has a partition for it and its values fit.
Storable(rec) == Day(rec.ts) \in parts /\ ~rec.bad

Key(rec) == <<rec.call, rec.agent>>

RowOf(rec, id) == [id |-> id, ts |-> rec.ts, call |-> rec.call,
                   agent |-> rec.agent, method |-> MethodColumn(rec),
                   transport |-> rec.transport]

\* f with the value of k set to v, whether or not f had one.
Put(f, k, v) == [x \in DOMAIN f \cup {k} |-> IF x = k THEN v ELSE f[x]]

(***************************************************************************)
(* The tables after the first n records of the batch.                      *)
(***************************************************************************)
\* Mutant: a row also for a message without a Call-ID.
UpsertAlways(table, rec, id) ==
    Put(table, Key(rec),
        IF Key(rec) \in DOMAIN table
        THEN UpdatedRow(table[Key(rec)], rec, id) ELSE NewRow(rec, id))

Upsert(table, rec, id) ==
    IF rec.call = NoCall THEN table
    ELSE Put(table, Key(rec),
             IF Key(rec) \in DOMAIN table
             THEN UpdatedRow(table[Key(rec)], rec, id) ELSE NewRow(rec, id))

UpsertAll(recs) ==
    LET after[n \in 0 .. Len(recs)] ==
          IF n = 0 THEN callState
          ELSE Upsert(after[n - 1], recs[n], nextId + n - 1)
    IN  after[Len(recs)]

LogAll(recs) ==
    LET after[n \in 0 .. Len(recs)] ==
          IF n = 0 THEN log
          ELSE LET rec == recs[n]
                   seen == [rec |-> rec, id |-> nextId + n - 1]
               IN  IF rec.call = NoCall THEN after[n - 1]
                   ELSE Put(after[n - 1], Key(rec),
                            IF Key(rec) \in DOMAIN after[n - 1]
                            THEN Append(after[n - 1][Key(rec)], seen)
                            ELSE <<seen>>)
    IN  after[Len(recs)]

\* A method name cut at its first bar.
CutMethod(name) == IF name = "OPTIONS|X" THEN [name |-> "OPTIONS", rest |-> "X|"]
                   ELSE [name |-> name, rest |-> ""]

\* "day|method|transport" cut at the first two bars: the method ends at the first
\* bar in it, and the rest of it goes before the transport.
DailyRow(day, method, transport) ==
    LET cut == CutMethod(method.name)
    IN  <<day, [class |-> method.class, name |-> cut.name], <<cut.rest, transport>>>>

DailyKey(rec) == DailyRow(Day(rec.ts), MethodColumn(rec), rec.transport)

\* Mutant: the rollup forgets the records of the batch that share a key.
DailyAllOnce(recs) ==
    LET keys == {DailyKey(recs[n]) : n \in {k \in DOMAIN recs : recs[k].base # ""}}
    IN  [k \in DOMAIN daily \cup keys |->
            (IF k \in DOMAIN daily THEN daily[k] ELSE 0)
            + (IF k \in keys THEN 1 ELSE 0)]

\* The daily rollup, one upsert for each day, method and transport of the batch.
DailyAll(recs) ==
    LET named == {n \in DOMAIN recs : recs[n].base # ""}
        keys == {DailyKey(recs[n]) : n \in named}
    IN  [k \in DOMAIN daily \cup keys |->
            (IF k \in DOMAIN daily THEN daily[k] ELSE 0)
            + Cardinality({n \in named : DailyKey(recs[n]) = k})]

(***************************************************************************)
(* flush and dbBatchInsert.  A record that the table rejects is skipped by *)
(* the loop, but it has aborted the transaction: the statements after it   *)
(* fail and nothing is written.  Ids taken from the sequence up to then,   *)
(* perhaps one for the rejected record too, are not given back.            *)
(***************************************************************************)
BatchOK == \A n \in DOMAIN batch : Storable(batch[n])

Flush == /\ up
         /\ batch # << >>
         /\ BatchOK
         /\ captures' = captures \cup
                {RowOf(batch[n], nextId + n - 1) : n \in DOMAIN batch}
         /\ callState' = UpsertAll(batch)
         /\ log' = LogAll(batch)
         /\ daily' = DailyAll(batch)
         /\ nextId' = nextId + Len(batch)
         /\ batch' = << >>
         /\ UNCHANGED <<up, now, timers, taken, parts, failed, started, removed,
                        deleting>>

FlushFails == /\ up
              /\ \E n \in DOMAIN batch :
                    /\ ~Storable(batch[n])
                    /\ \A k \in 1 .. n - 1 : Storable(batch[k])
                    /\ nextId' \in {nextId + n - 1, nextId + n}
              /\ batch' = << >>
              /\ UNCHANGED <<up, now, timers, taken, tables, deleting>>
-----------------------------------------------------------------------------
\* Mutant: only today's partition is created.
PartitionTickToday == /\ up
                      /\ timers' = timers \ {"partition"}
                      /\ parts' = parts \cup {Day(now + Zone)}
                      /\ UNCHANGED <<up, now, taken, batch, nextId, failed, started,
                                     captures, callState, daily, log, removed,
                                     deleting>>

\* The writer's hourly tick.
PartitionTick == /\ up
                 /\ timers' = timers \ {"partition"}
                 /\ parts' \in Created(now, parts)
                 /\ failed' = (failed \cup PartitionsFrom(now)) \ parts'
                 /\ UNCHANGED <<up, now, taken, batch, nextId, started, captures,
                                callState, daily, log, removed, deleting>>

Cutoff == now - RetentionDays * DayLength

(***************************************************************************)
(* dropOldPartitions looks at table names of at least 18 characters and    *)
(* drops those whose day began before the cutoff.  createDayPartition      *)
(* names a partition "captures_" and a date of eight digits.               *)
(***************************************************************************)
PartitionNameLength == 9 + 8

OldPartitions == {d \in parts : /\ PartitionNameLength >= 18
                                /\ d * DayLength < Cutoff}

\* The rows of call_state that a DELETE leaves.
KeepRows(keys) == /\ callState' = Restrict(callState, keys)
                  /\ log' = Restrict(log, keys)


\* The writer's tick every 15 minutes: partitions, then call_state.
RetentionTick ==
    /\ up
    /\ timers' = timers \ {"retention"}
    /\ IF RetentionDays > 0
       THEN /\ parts' = parts \ OldPartitions
            /\ captures' = {c \in captures : Day(c.ts) \notin OldPartitions}
            /\ removed' = (removed \/ captures' # captures)
            /\ KeepRows({k \in DOMAIN callState : callState[k].last_ts >= Cutoff})
       ELSE UNCHANGED <<parts, captures, callState, log, removed>>
    /\ UNCHANGED <<up, now, taken, batch, nextId, failed, started, daily, deleting>>
-----------------------------------------------------------------------------
(***************************************************************************)
(* POST /api/delete: two statements, no transaction around them.  Bound:   *)
(* one such request at a time.                                             *)
(***************************************************************************)
DeleteCaptures(request, gone) ==
    /\ up
    /\ deleting = NoDelete
    /\ deleting' = request
    /\ captures' = captures \ gone
    /\ removed' = (removed \/ captures' # captures)
    /\ UNCHANGED <<up, now, timers, taken, batch, nextId, parts, failed, started,
                   callState, daily, log>>

DeleteCall(call) == DeleteCaptures([kind |-> "call", call |-> call],
                                   {c \in captures : c.call = call})

DeleteBefore(ts) == DeleteCaptures([kind |-> "before", ts |-> ts],
                                   {c \in captures : c.ts < ts})

DeleteRows ==
    /\ up
    /\ deleting # NoDelete
    /\ KeepRows({k \in DOMAIN callState :
                   IF deleting.kind = "call" THEN k[1] # deleting.call
                   ELSE callState[k].last_ts >= deleting.ts})
    /\ deleting' = NoDelete
    /\ UNCHANGED <<up, now, timers, taken, batch, nextId, parts, failed, started,
                   captures, daily, removed>>
-----------------------------------------------------------------------------
\* A tick of the clock; the writer's timers have fired since the last one.
Advance == /\ now < MaxTime
           /\ up => timers = {}
           /\ now' = now + 1
           /\ timers' = IF up THEN Timers ELSE {}
           /\ UNCHANGED <<up, taken, batch, nextId, tables, deleting>>

\* The process ends; the batch and a delete under way end with it.
Crash == /\ up
         /\ up' = FALSE
         /\ timers' = {}
         /\ batch' = << >>
         /\ deleting' = NoDelete
         /\ UNCHANGED <<now, taken, nextId, tables>>

\* dbInit: the tables are there, and the partitions from today are asked for.
Restart == /\ ~up
           /\ up' = TRUE
           /\ timers' = Timers
           /\ parts' \in Created(now, parts)
           /\ failed' = (failed \cup PartitionsFrom(now)) \ parts'
           /\ started' = Day(now + Zone)
           /\ UNCHANGED <<now, taken, batch, nextId, captures, callState,
                          daily, deleting, log, removed>>

Next == \/ \E shape \in Shapes, call \in Calls, agent \in Agents,
              skew \in Skews, bad \in BadRecords :
                 Take(shape, call, agent, skew, bad)
        \/ Flush \/ FlushFails
        \/ PartitionTick \/ RetentionTick
        \/ \E call \in Calls \ {NoCall} : DeleteCall(call)
        \/ \E ts \in BeforeTimes : DeleteBefore(ts)
        \/ DeleteRows
        \/ Advance \/ Crash \/ Restart

Spec == Init /\ [][Next]_vars

\* While the process runs its timers fire: the writer's select is never blocked.
FairSpec == Spec /\ WF_vars(RetentionTick)
-----------------------------------------------------------------------------
Rows == [first_ts : Nat, last_ts : Nat, last_id : Nat,
         last_method : [class : 0 .. 6, name : Methods], last_status : 0 .. 699,
         open : {0, 1}, answered : {0, 1}, invite_id : Nat, answer_ts : Nat]

TypeOK == /\ up \in BOOLEAN
          /\ now \in StartTime .. MaxTime
          /\ timers \subseteq Timers
          /\ taken \in 0 .. MaxRecords
          /\ Len(batch) <= BatchSize
          /\ nextId \in Nat
          /\ parts \subseteq Int /\ failed \subseteq Int /\ started \in Int
          /\ \A c \in captures : c.id < nextId /\ Day(c.ts) \in parts
          /\ DOMAIN callState \subseteq Keys
          /\ \A k \in DOMAIN callState : callState[k] \in Rows
          /\ DOMAIN log = DOMAIN callState
          /\ removed \in BOOLEAN

(***************************************************************************)
(* The reference: what a row should say, given all the messages it has     *)
(* seen, in the order they were stored.                                    *)
(***************************************************************************)
FirstSuch(s, P(_)) == CHOOSE n \in DOMAIN s :
                          P(s[n].rec) /\ \A k \in 1 .. n - 1 : ~P(s[k].rec)

SomeSuch(s, P(_)) == \E n \in DOMAIN s : P(s[n].rec)

Closes(rec)  == rec.base \in {"BYE", "CANCEL"}
Answers(rec) == rec.kind = "response" /\ rec.base = "INVITE" /\ rec.status \in 200 .. 299
Invites(rec) == rec.kind = "request" /\ rec.base = "INVITE"

\* Every call_state row says what the messages stored for its call say, however
\* they were batched and in whatever order their timestamps came: open until a
\* BYE or CANCEL, answered since the first 2xx to an INVITE, the first INVITE,
\* the first and the latest timestamp, the last message.
RowIsFold ==
    \A k \in DOMAIN callState :
        LET row  == callState[k]
            s    == log[k]
            last == s[Len(s)]
        IN  /\ row.open = IF SomeSuch(s, Closes) THEN 0 ELSE 1
            /\ row.answered = IF SomeSuch(s, Answers) THEN 1 ELSE 0
            /\ row.answer_ts = IF SomeSuch(s, Answers)
                               THEN s[FirstSuch(s, Answers)].rec.ts ELSE 0
            /\ row.invite_id = IF SomeSuch(s, Invites)
                               THEN s[FirstSuch(s, Invites)].id ELSE 0
            /\ row.first_ts = s[1].rec.ts
            /\ \A n \in DOMAIN s : s[n].rec.ts <= row.last_ts
            /\ \E n \in DOMAIN s : s[n].rec.ts = row.last_ts
            /\ row.last_id = last.id
            /\ row.last_status = last.rec.status
            /\ row.last_method = MethodColumn(last.rec)

\* What the reports compute from a row makes sense, although agents' clocks are
\* off and messages are stored out of order: durations (last_ts - first_ts and
\* last_ts - answer_ts) and the id distance that buildActiveCallsJSON turns into
\* a message count are not negative, and a row is answered exactly when it has
\* an answer time.
RowTimes ==
    \A k \in DOMAIN callState :
        LET row == callState[k]
        IN  /\ row.first_ts <= row.last_ts
            /\ row.answer_ts <= row.last_ts
            /\ row.answered = 1 <=> row.answer_ts > 0
            /\ row.invite_id <= row.last_id
            /\ row.last_id < nextId

Rank(row) == CASE StateOf(row) = "ringing"  -> 0
               [] StateOf(row) = "answered" -> 1
               [] OTHER -> 2

\* The state shown for a call never goes back: an answered call does not ring
\* again and an ended one does not come back, whatever arrives late, as long as
\* its row is not deleted.
StateNeverGoesBack ==
    [][\A k \in DOMAIN callState \cap DOMAIN callState' :
          Rank(callState[k]) <= Rank(callState'[k])]_vars

\* report_daily and captures, written by the same transaction, agree: the row of a
\* day, method and transport counts at least the captures that are there, and exactly
\* those if none was ever removed; restarts and failed batches do not make them
\* differ.  Captures whose method has a bar in it are counted as well, and apart from
\* all others, but in a row that gives the start of their method and a transport that
\* no capture has.
DailyMatchesCaptures ==
    \A c \in {d \in captures : d.method.name # ""} :
        LET rows == {d \in captures : /\ Day(d.ts) = Day(c.ts) /\ d.method = c.method
                                      /\ d.transport = c.transport}
            key  == IF CutMethod(c.method.name).rest = ""
                    THEN <<Day(c.ts), c.method, <<"", c.transport>>>>
                    ELSE DailyRow(Day(c.ts), c.method, c.transport)
        IN  /\ key \in DOMAIN daily
            /\ daily[key] >= Cardinality(rows)
            /\ ~removed => daily[key] = Cardinality(rows)

\* A message stamped with the current time has a partition to go to, wherever the
\* server is: that of a day is asked for before the day begins in UTC, and missing
\* only if CREATE TABLE failed.  The one exception is the day on which the process
\* was started, east of UTC, until that day's local date has begun in UTC too.
CurrentDayHasPartition ==
    up /\ Day(now) >= started => Day(now) \in parts \cup failed

\* "ensurePartitions creates daily partitions for the given time and the next day"
\* (db.go): a message of today that waits for the flush has a partition.
TodaysMessagesHavePartition ==
    up => \A n \in DOMAIN batch : Day(batch[n].ts) = Day(now) => Day(now) \in parts

\* A row whose last message is older than the retention is deleted sooner or
\* later, as long as the process keeps running.
Stale(k) == k \in DOMAIN callState /\ callState[k].last_ts < Cutoff


\* Once the retention timer has fired, no capture is left of a day that began
\* before the retention period.
OldCapturesAreDropped ==
    up /\ RetentionDays > 0 /\ "retention" \notin timers =>
        \A c \in captures : Day(c.ts) * DayLength >= Cutoff

\* A batch with a record that the table rejects still stores the others.
SkipsOnlyBadRecords ==
    [][up /\ up' /\ batch # << >> /\ batch' = << >> =>
         \A n \in DOMAIN batch :
            Storable(batch[n]) => \E c \in captures' : c = RowOf(batch[n], c.id)]_vars
=============================================================================
