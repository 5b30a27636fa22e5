---------------------------- MODULE StoreProofs ----------------------------
(***************************************************************************)
(* Proofs about Store, for any calls, agents, clocks and batch sizes.      *)
(*                                                                         *)
(* A batch is applied record by record, which Store writes as a recursive  *)
(* function.  The library's induction theorems cannot be used by the       *)
(* provers, so induction is done by hand: among the numbers for which a    *)
(* fact fails there is a least one (LeastNat), which is not the first and  *)
(* follows one for which the fact holds.                                   *)
(***************************************************************************)
EXTENDS Store, FiniteSetTheorems, TLAPS

\* A set of naturals that is not empty has a least element.
LEMMA LeastNat ==
    ASSUME NEW T \in SUBSET Nat, T # {}
    PROVE  \E n \in T : \A k \in T : n <= k
<1>1. IsWellFoundedOn(OpToRel(<, Nat), Nat)
  BY NatLessThanWellFounded, Zenon
<1>2. PICK n \in T : \A k \in T : ~(<<k, n>> \in OpToRel(<, Nat))
  BY <1>1, WFMin, Zenon
<1>3. \A k \in T : ~(k < n)
  BY <1>2 DEF OpToRel
<1> QED
  BY <1>3

\* Induction up to N: what holds for 0, and for n if it holds for n - 1, holds for
\* every number up to N.
LEMMA Climb ==
    ASSUME NEW N \in Nat, NEW Good, 0 \in Good,
           \A n \in 1 .. N : n - 1 \in Good => n \in Good
    PROVE  \A n \in 0 .. N : n \in Good
<1> DEFINE Bad == {n \in 0 .. N : n \notin Good}
<1>1. SUFFICES ASSUME Bad # {} PROVE FALSE
  OBVIOUS
<1>2. Bad \in SUBSET Nat
  OBVIOUS
<1>3. PICK n \in Bad : \A k \in Bad : n <= k
  <2> HIDE DEF Bad
  <2> QED
    BY <1>1, <1>2, LeastNat
<1>4. n \in 1 .. N
  BY <1>3
<1>5. n - 1 \in Good
  BY <1>3, <1>4
<1> QED
  BY <1>3, <1>4, <1>5

\* What is appended to a sequence, and what was there before.
LEMMA AppendFacts ==
    ASSUME NEW S, NEW s \in Seq(S), NEW x \in S
    PROVE  /\ Append(s, x) \in Seq(S)
           /\ Len(s) \in Nat /\ Len(Append(s, x)) = Len(s) + 1
           /\ DOMAIN s = 1 .. Len(s) /\ DOMAIN Append(s, x) = 1 .. Len(s) + 1
           /\ \A n \in 1 .. Len(s) : Append(s, x)[n] = s[n]
           /\ Append(s, x)[Len(s) + 1] = x
  OBVIOUS
-----------------------------------------------------------------------------
Records == [kind : {"request", "response"}, base : Methods, status : 0 .. 699,
            transport : Transports, call : Calls, agent : Agents, bad : BOOLEAN,
            ts : Nat \ {0}]

Seen == [rec : Records, id : Nat \ {0}]

(***************************************************************************)
(* What a row of call_state has to do with the messages it has seen.       *)
(***************************************************************************)
OpenOK(row, s) == row.open = IF SomeSuch(s, Closes) THEN 0 ELSE 1

FirstAnswer(s, n) == Answers(s[n].rec) /\ \A k \in 1 .. n - 1 : ~Answers(s[k].rec)

AnsweredOK(row, s) ==
    \/ /\ \A n \in DOMAIN s : ~Answers(s[n].rec)
       /\ row.answered = 0 /\ row.answer_ts = 0
    \/ /\ \E n \in DOMAIN s : FirstAnswer(s, n) /\ row.answer_ts = s[n].rec.ts
       /\ row.answered = 1

FirstInvite(s, n) == Invites(s[n].rec) /\ \A k \in 1 .. n - 1 : ~Invites(s[k].rec)

InvitedOK(row, s) ==
    \/ (\A n \in DOMAIN s : ~Invites(s[n].rec)) /\ row.invite_id = 0
    \/ \E n \in DOMAIN s : FirstInvite(s, n) /\ row.invite_id = s[n].id

LatestOK(row, s) ==
    /\ row.first_ts = s[1].rec.ts
    /\ \A n \in DOMAIN s : s[n].rec.ts <= row.last_ts
    /\ \E n \in DOMAIN s : s[n].rec.ts = row.last_ts
    /\ row.last_id = s[Len(s)].id
    /\ row.last_status = s[Len(s)].rec.status
    /\ row.last_method = MethodColumn(s[Len(s)].rec)

\* Ids come from a sequence, so the last message of a row has the largest.
IdsOK(s, id) == \A n \in DOMAIN s : s[n].id <= s[Len(s)].id /\ s[n].id < id

RowOK(row, s, id) == /\ row \in Rows
                     /\ s \in Seq(Seen) /\ Len(s) > 0
                     /\ OpenOK(row, s)
                     /\ AnsweredOK(row, s)
                     /\ InvitedOK(row, s)
                     /\ LatestOK(row, s)
                     /\ IdsOK(s, id)

\* The tests that dbBatchInsert makes on the method column are tests on the message.
LEMMA SameTests ==
    ASSUME NEW rec \in Records
    PROVE  /\ IsAnswered(rec) <=> Answers(rec)
           /\ IsInviteReq(rec) <=> Invites(rec)
           /\ IsClosed(rec) <=> Closes(rec)
           /\ MethodColumn(rec) \in [class : 0 .. 6, name : Methods]
<1>1. MethodColumn(rec).name = rec.base
  BY DEF MethodColumn
<1>2. rec.status \in 0 .. 699 /\ rec.kind \in {"request", "response"} /\ rec.base \in Methods
  BY DEF Records
<1>3. rec.status \div 100 \in 0 .. 6
  BY <1>2
<1>4. MethodColumn(rec).class \in 0 .. 6
  <2>1. MethodColumn(rec).class = 0 \/ MethodColumn(rec).class = rec.status \div 100
    BY DEF MethodColumn
  <2> QED
    BY <1>3, <2>1
<1>5. IsAnswered(rec) <=> Answers(rec)
  BY <1>1, <1>2 DEF IsAnswered, Answers, BaseMethod
<1>6. IsInviteReq(rec) <=> Invites(rec)
  BY <1>1 DEF IsInviteReq, Invites, BaseMethod
<1>7. IsClosed(rec) <=> Closes(rec)
  BY <1>1 DEF IsClosed, Closes, BaseMethod
<1>8. MethodColumn(rec) \in [class : 0 .. 6, name : Methods]
  BY <1>1, <1>2, <1>4 DEF MethodColumn
<1> QED
  BY <1>5, <1>6, <1>7, <1>8

\* ON CONFLICT DO UPDATE, column by column.
LEMMA UpdatedFields ==
    ASSUME NEW row \in Rows, NEW rec \in Records, NEW id \in Nat \ {0},
           NEW new, new = UpdatedRow(row, rec, id)
    PROVE  /\ new \in Rows
           /\ new.first_ts = row.first_ts
           /\ new.last_ts = IF rec.ts > row.last_ts THEN rec.ts ELSE row.last_ts
           /\ new.last_id = id
           /\ new.last_method = MethodColumn(rec)
           /\ new.last_status = rec.status
           /\ new.open = IF Closes(rec) THEN 0 ELSE row.open
           /\ new.answered = IF Answers(rec) THEN 1 ELSE row.answered
           /\ new.invite_id = IF Invites(rec) /\ row.invite_id = 0 THEN id ELSE row.invite_id
           /\ new.answer_ts = IF Answers(rec) /\ row.answer_ts = 0 THEN rec.ts ELSE row.answer_ts
<1>1. MethodColumn(rec) \in [class : 0 .. 6, name : Methods]
  BY SameTests
<1>2. rec.ts \in Nat /\ rec.status \in 0 .. 699
  BY DEF Records
<1>3. /\ IsAnswered(rec) <=> Answers(rec)
      /\ IsInviteReq(rec) <=> Invites(rec)
      /\ IsClosed(rec) <=> Closes(rec)
  BY SameTests
<1>4. new = [first_ts |-> row.first_ts,
             last_ts |-> IF rec.ts > row.last_ts THEN rec.ts ELSE row.last_ts,
             last_id |-> id, last_method |-> MethodColumn(rec), last_status |-> rec.status,
             open |-> IF IsClosed(rec) THEN 0 ELSE row.open,
             answered |-> IF IsAnswered(rec) THEN 1 ELSE row.answered,
             invite_id |-> IF IsInviteReq(rec) /\ row.invite_id = 0 THEN id ELSE row.invite_id,
             answer_ts |-> IF IsAnswered(rec) /\ row.answer_ts = 0 THEN rec.ts ELSE row.answer_ts]
  BY DEF UpdatedRow, Rows
<1>5. new \in Rows
  BY <1>1, <1>2, <1>4 DEF Rows
<1> QED
  BY <1>3, <1>4, <1>5

\* The first message of a call makes a row that agrees with it.
LEMMA FirstMessage ==
    ASSUME NEW rec \in Records, NEW id \in Nat \ {0}
    PROVE  RowOK(NewRow(rec, id), <<[rec |-> rec, id |-> id]>>, id + 1)
<1> DEFINE row == NewRow(rec, id)
           s   == <<[rec |-> rec, id |-> id]>>
<1>1. s \in Seq(Seen) /\ Len(s) = 1 /\ DOMAIN s = {1} /\ s[1].rec = rec /\ s[1].id = id
  BY DEF Seen
<1>2. /\ IsAnswered(rec) <=> Answers(rec)
      /\ IsInviteReq(rec) <=> Invites(rec)
      /\ IsClosed(rec) <=> Closes(rec)
      /\ MethodColumn(rec) \in [class : 0 .. 6, name : Methods]
  BY SameTests
<1>3. rec.ts \in Nat /\ rec.status \in 0 .. 699
  BY DEF Records
<1>4. row \in Rows
  BY <1>2, <1>3 DEF NewRow, Rows
<1>5. /\ row.first_ts = rec.ts /\ row.last_ts = rec.ts /\ row.last_id = id
      /\ row.last_method = MethodColumn(rec) /\ row.last_status = rec.status
      /\ row.open = IF Closes(rec) THEN 0 ELSE 1
      /\ row.answered = IF Answers(rec) THEN 1 ELSE 0
      /\ row.invite_id = IF Invites(rec) THEN id ELSE 0
      /\ row.answer_ts = IF Answers(rec) THEN rec.ts ELSE 0
  BY <1>2 DEF NewRow
<1> HIDE DEF row, s
<1>6. OpenOK(row, s)
  BY <1>1, <1>5 DEF OpenOK, SomeSuch
<1>7. AnsweredOK(row, s)
  BY <1>1, <1>5 DEF AnsweredOK, FirstAnswer
<1>8. InvitedOK(row, s)
  BY <1>1, <1>5 DEF InvitedOK, FirstInvite
<1>9. LatestOK(row, s) /\ IdsOK(s, id + 1)
  BY <1>1, <1>3, <1>5 DEF LatestOK, IdsOK
<1>10. RowOK(row, s, id + 1)
  BY <1>1, <1>4, <1>6, <1>7, <1>8, <1>9 DEF RowOK
<1> QED
  BY <1>10 DEF row, s

\* A later message of the call, whatever its timestamp, keeps the row in agreement
\* with all messages seen.
LEMMA LaterMessage ==
    ASSUME NEW rec \in Records, NEW id \in Nat \ {0}, NEW row, NEW s, RowOK(row, s, id)
    PROVE  RowOK(UpdatedRow(row, rec, id), Append(s, [rec |-> rec, id |-> id]), id + 1)
<1> DEFINE x   == [rec |-> rec, id |-> id]
           new == UpdatedRow(row, rec, id)
           t   == Append(s, x)
<1>1. x \in Seen /\ x.rec = rec /\ x.id = id
  BY DEF Seen
<1>2. PICK L \in Nat \ {0} : L = Len(s)
  BY DEF RowOK
<1>3. /\ t \in Seq(Seen) /\ Len(t) = L + 1
      /\ DOMAIN s = 1 .. L /\ DOMAIN t = 1 .. L + 1
      /\ \A n \in 1 .. L : t[n] = s[n]
      /\ t[L + 1] = x
  <2>1. s \in Seq(Seen)
    BY DEF RowOK
  <2> HIDE DEF x
  <2> QED
    BY <1>1, <1>2, <2>1, AppendFacts
<1>4. /\ row \in Rows /\ new \in Rows
      /\ new.first_ts = row.first_ts
      /\ new.last_ts = IF rec.ts > row.last_ts THEN rec.ts ELSE row.last_ts
      /\ new.last_id = id
      /\ new.last_method = MethodColumn(rec)
      /\ new.last_status = rec.status
      /\ new.open = IF Closes(rec) THEN 0 ELSE row.open
      /\ new.answered = IF Answers(rec) THEN 1 ELSE row.answered
      /\ new.invite_id = IF Invites(rec) /\ row.invite_id = 0 THEN id ELSE row.invite_id
      /\ new.answer_ts = IF Answers(rec) /\ row.answer_ts = 0 THEN rec.ts ELSE row.answer_ts
  BY UpdatedFields DEF RowOK
<1>5. /\ rec.ts \in Nat \ {0} /\ row.last_ts \in Nat
      /\ \A n \in 1 .. L : s[n].rec.ts \in Nat \ {0} /\ s[n].id \in Nat \ {0} /\ s[n] \in Seen
  <2>1. rec.ts \in Nat \ {0} /\ row.last_ts \in Nat
    BY <1>4 DEF Records, Rows
  <2>2. \A n \in 1 .. L : s[n] \in Seen
    BY <1>2 DEF RowOK
  <2>3. \A y \in Seen : y.rec.ts \in Nat \ {0} /\ y.id \in Nat \ {0}
    BY DEF Seen, Records
  <2> QED
    BY <2>1, <2>2, <2>3
<1> HIDE DEF x, new, t
<1>6. OpenOK(new, t)
  BY <1>1, <1>2, <1>3, <1>4 DEF RowOK, OpenOK, SomeSuch
<1>7. AnsweredOK(new, t)
  <2>1. CASE \A n \in DOMAIN s : ~Answers(s[n].rec)
    <3>1. row.answered = 0 /\ row.answer_ts = 0
      BY <2>1 DEF RowOK, AnsweredOK, FirstAnswer
    <3>2. CASE Answers(rec)
      <4>1. FirstAnswer(t, L + 1)
        BY <1>1, <1>2, <1>3, <2>1, <3>2 DEF FirstAnswer
      <4> QED
        BY <1>1, <1>3, <1>4, <3>1, <3>2, <4>1 DEF AnsweredOK
    <3>3. CASE ~Answers(rec)
      BY <1>1, <1>2, <1>3, <1>4, <2>1, <3>1, <3>3 DEF AnsweredOK
    <3> QED
      BY <3>2, <3>3
  <2>2. CASE ~\A n \in DOMAIN s : ~Answers(s[n].rec)
    <3>1. /\ row.answered = 1
          /\ \E n \in 1 .. L : FirstAnswer(s, n) /\ row.answer_ts = s[n].rec.ts
      BY <1>3, <2>2 DEF RowOK, AnsweredOK
    <3>2. PICK n \in 1 .. L : FirstAnswer(s, n) /\ row.answer_ts = s[n].rec.ts
      BY <3>1
    <3>3. FirstAnswer(t, n)
      BY <1>2, <1>3, <3>2 DEF FirstAnswer
    <3>4. new.answer_ts = t[n].rec.ts /\ new.answered = 1
      BY <1>3, <1>4, <1>5, <3>1, <3>2
    <3> QED
      BY <1>2, <1>3, <3>3, <3>4 DEF AnsweredOK
  <2> QED
    BY <2>1, <2>2
<1>8. InvitedOK(new, t)
  <2>1. CASE \A n \in DOMAIN s : ~Invites(s[n].rec)
    <3>1. row.invite_id = 0
      BY <2>1 DEF RowOK, InvitedOK, FirstInvite
    <3>2. CASE Invites(rec)
      <4>1. FirstInvite(t, L + 1)
        BY <1>1, <1>2, <1>3, <2>1, <3>2 DEF FirstInvite
      <4> QED
        BY <1>1, <1>3, <1>4, <3>1, <3>2, <4>1 DEF InvitedOK
    <3>3. CASE ~Invites(rec)
      BY <1>1, <1>2, <1>3, <1>4, <2>1, <3>1, <3>3 DEF InvitedOK
    <3> QED
      BY <3>2, <3>3
  <2>2. CASE ~\A n \in DOMAIN s : ~Invites(s[n].rec)
    <3>1. PICK n \in 1 .. L : FirstInvite(s, n) /\ row.invite_id = s[n].id
      BY <1>3, <2>2 DEF RowOK, InvitedOK
    <3>2. FirstInvite(t, n)
      BY <1>2, <1>3, <3>1 DEF FirstInvite
    <3>3. new.invite_id = t[n].id
      BY <1>3, <1>4, <1>5, <3>1
    <3> QED
      BY <1>2, <1>3, <3>2, <3>3 DEF InvitedOK
  <2> QED
    BY <2>1, <2>2
<1>9. LatestOK(new, t)
  <2>1. new.first_ts = t[1].rec.ts
    BY <1>2, <1>3, <1>4 DEF RowOK, LatestOK
  <2>2. ASSUME NEW n \in DOMAIN t PROVE t[n].rec.ts <= new.last_ts
    <3>1. CASE n \in 1 .. L
      <4>1. t[n] = s[n] /\ s[n].rec.ts <= row.last_ts
        BY <1>3, <3>1 DEF RowOK, LatestOK
      <4> QED
        BY <1>4, <1>5, <3>1, <4>1
    <3>2. CASE n = L + 1
      BY <1>1, <1>3, <1>4, <1>5, <3>2
    <3> QED
      BY <1>2, <1>3, <3>1, <3>2
  <2>3. \E n \in DOMAIN t : t[n].rec.ts = new.last_ts
    <3>1. CASE rec.ts > row.last_ts
      <4>1. t[L + 1].rec.ts = new.last_ts /\ L + 1 \in DOMAIN t
        BY <1>1, <1>2, <1>3, <1>4, <3>1
      <4> QED
        BY <4>1
    <3>2. CASE ~(rec.ts > row.last_ts)
      <4>1. PICK n \in 1 .. L : s[n].rec.ts = row.last_ts
        BY <1>3 DEF RowOK, LatestOK
      <4>2. t[n].rec.ts = new.last_ts /\ n \in DOMAIN t
        BY <1>2, <1>3, <1>4, <3>2, <4>1
      <4> QED
        BY <4>2
    <3> QED
      BY <3>1, <3>2
  <2> QED
    BY <1>1, <1>2, <1>3, <1>4, <2>1, <2>2, <2>3 DEF LatestOK
<1>10. IdsOK(t, id + 1)
  BY <1>1, <1>2, <1>3, <1>5 DEF RowOK, IdsOK
<1>11. RowOK(new, t, id + 1)
  BY <1>2, <1>3, <1>4, <1>6, <1>7, <1>8, <1>9, <1>10 DEF RowOK
<1> QED
  BY <1>11 DEF x, new, t

\* Ids that are given to others later do not disturb a row.
LEMMA LaterIds ==
    ASSUME NEW row, NEW s, NEW id \in Nat, NEW bigger \in Nat, id <= bigger, RowOK(row, s, id)
    PROVE  RowOK(row, s, bigger)
<1>1. \A n \in DOMAIN s : s[n] \in Seen
  BY DEF RowOK
<1>2. \A y \in Seen : y.id \in Nat
  BY DEF Seen
<1>3. \A n \in DOMAIN s : s[n].id \in Nat
  BY <1>1, <1>2
<1>4. \A n \in DOMAIN s : s[n].id <= s[Len(s)].id /\ s[n].id < id
  BY DEF RowOK, IdsOK
<1>5. IdsOK(s, bigger)
  BY <1>3, <1>4 DEF IdsOK
<1> QED
  BY <1>5 DEF RowOK
-----------------------------------------------------------------------------
(***************************************************************************)
(* call_state and the log of its messages, record by record.               *)
(***************************************************************************)
TableOK(table, seen, id) == /\ DOMAIN table \subseteq Keys
                            /\ DOMAIN seen = DOMAIN table
                            /\ \A k \in DOMAIN table : RowOK(table[k], seen[k], id)

LogOne(seen, rec, id) ==
    IF rec.call = NoCall THEN seen
    ELSE Put(seen, Key(rec),
             IF Key(rec) \in DOMAIN seen
             THEN Append(seen[Key(rec)], [rec |-> rec, id |-> id])
             ELSE <<[rec |-> rec, id |-> id]>>)

\* No row of the one table is missing in the other, or shows an earlier state.
NotBack(table, newer) ==
    \A k \in DOMAIN table : k \in DOMAIN newer /\ Rank(table[k]) <= Rank(newer[k])

\* The state shown for a call is given by two columns, as far as its rank goes.
LEMMA RankIs ==
    ASSUME NEW row \in Rows
    PROVE  Rank(row) = IF row.open = 0 THEN 2 ELSE IF row.answered = 1 THEN 1 ELSE 0
<1>1. row.open \in {0, 1} /\ row.answered \in {0, 1}
  BY DEF Rows
<1> QED
  BY <1>1 DEF Rank, StateOf

\* One record: its row agrees with its messages, the others are left alone, and no
\* row shows an earlier state.
LEMMA OneRecord ==
    ASSUME NEW table, NEW seen, NEW rec \in Records, NEW id \in Nat \ {0},
           TableOK(table, seen, id)
    PROVE  /\ TableOK(Upsert(table, rec, id), LogOne(seen, rec, id), id + 1)
           /\ NotBack(table, Upsert(table, rec, id))
<1>1. \A k \in DOMAIN table : RowOK(table[k], seen[k], id) /\ RowOK(table[k], seen[k], id + 1)
  BY LaterIds DEF TableOK
<1>2. \A k \in DOMAIN table : Rank(table[k]) \in 0 .. 2
  BY <1>1, RankIs DEF RowOK
<1>3. CASE rec.call = NoCall
  BY <1>1, <1>2, <1>3 DEF TableOK, Upsert, LogOne, NotBack
<1>4. CASE rec.call # NoCall
  <2> DEFINE k0 == Key(rec)
             v  == IF k0 \in DOMAIN table
                   THEN UpdatedRow(table[k0], rec, id) ELSE NewRow(rec, id)
             w  == IF k0 \in DOMAIN seen THEN Append(seen[k0], [rec |-> rec, id |-> id])
                   ELSE <<[rec |-> rec, id |-> id]>>
             new == Put(table, k0, v)
             log2 == Put(seen, k0, w)
  <2>1. k0 \in Keys
    BY <1>4 DEF Key, Keys, Records
  <2>2. RowOK(v, w, id + 1)
    <3>1. CASE k0 \in DOMAIN table
      <4>1. RowOK(table[k0], seen[k0], id)
        BY <1>1, <3>1
      <4>2. RowOK(UpdatedRow(table[k0], rec, id), Append(seen[k0], [rec |-> rec, id |-> id]), id + 1)
        BY <4>1, LaterMessage
      <4> QED
        BY <3>1, <4>2 DEF TableOK
    <3>2. CASE k0 \notin DOMAIN table
      BY <3>2, FirstMessage DEF TableOK
    <3> QED
      BY <3>1, <3>2
  <2>3. k0 \in DOMAIN table => Rank(table[k0]) <= Rank(v)
    <3>1. SUFFICES ASSUME k0 \in DOMAIN table PROVE Rank(table[k0]) <= Rank(v)
      OBVIOUS
    <3>2. PICK row \in Rows : row = table[k0]
      BY <1>1, <3>1 DEF RowOK
    <3>3. v = UpdatedRow(row, rec, id)
      BY <3>1, <3>2
    <3>4. v \in Rows
      BY <2>2 DEF RowOK
    <3> HIDE DEF v, k0
    <3>5. /\ v.open = IF Closes(rec) THEN 0 ELSE row.open
          /\ v.answered = IF Answers(rec) THEN 1 ELSE row.answered
      BY <3>3, UpdatedFields
    <3>6. row.open \in {0, 1} /\ row.answered \in {0, 1}
      BY DEF Rows
    <3> QED
      BY <3>2, <3>4, <3>5, <3>6, RankIs
  <2>4. Upsert(table, rec, id) = new /\ LogOne(seen, rec, id) = log2
    BY <1>4 DEF Upsert, LogOne
  <2> HIDE DEF v, w, k0, new, log2
  <2>5. /\ DOMAIN new = DOMAIN table \cup {k0} /\ new[k0] = v
        /\ \A x \in DOMAIN table \ {k0} : new[x] = table[x]
    BY DEF new, Put
  <2>6. /\ DOMAIN log2 = DOMAIN seen \cup {k0} /\ log2[k0] = w
        /\ \A x \in DOMAIN seen \ {k0} : log2[x] = seen[x]
    BY DEF log2, Put
  <2>7. DOMAIN seen = DOMAIN table /\ DOMAIN table \subseteq Keys
    BY DEF TableOK
  <2>8. \A x \in DOMAIN new : RowOK(new[x], log2[x], id + 1)
    BY <1>1, <2>2, <2>5, <2>6, <2>7
  <2>9. NotBack(table, new)
    <3>1. SUFFICES ASSUME NEW x \in DOMAIN table
                   PROVE  x \in DOMAIN new /\ Rank(table[x]) <= Rank(new[x])
      BY Zenon DEF NotBack
    <3>2. CASE x = k0
      BY <2>3, <2>5, <3>2
    <3>3. CASE x # k0
      <4>1. new[x] = table[x] /\ x \in DOMAIN new
        BY <2>5, <3>3, Zenon
      <4>2. Rank(table[x]) \in Int
        BY <1>2
      <4> QED
        BY <4>1, <4>2
    <3> QED
      BY <3>2, <3>3
  <2>10. TableOK(new, log2, id + 1)
    BY <2>1, <2>5, <2>6, <2>7, <2>8 DEF TableOK
  <2> QED
    BY <2>4, <2>9, <2>10
<1> QED
  BY <1>3, <1>4

\* The tables after each record of a batch.
IsUpserts(f, recs, N) ==
    f = [n \in 0 .. N |-> IF n = 0 THEN callState
                          ELSE Upsert(f[n - 1], recs[n], nextId + n - 1)]

IsLogs(f, recs, N) ==
    f = [n \in 0 .. N |-> IF n = 0 THEN log
                          ELSE LogOne(f[n - 1], recs[n], nextId + n - 1)]

\* The recursive functions of UpsertAll and LogAll exist, and are what they say.
LEMMA UpsertsExist ==
    ASSUME NEW recs, NEW N \in Nat
    PROVE  \E f : IsUpserts(f, recs, N)
<1> DEFINE Good == {n \in Nat : \E f : IsUpserts(f, recs, n)}
<1>1. 0 \in Good
  <2> DEFINE f == [k \in 0 .. 0 |-> callState]
  <2>1. IsUpserts(f, recs, 0)
    BY DEF IsUpserts
  <2> QED
    BY <2>1
<1>2. ASSUME NEW n \in 1 .. N, n - 1 \in Good PROVE n \in Good
  <2>1. PICK g : IsUpserts(g, recs, n - 1)
    BY <1>2
  <2> DEFINE f == [k \in 0 .. n |-> IF k = n THEN Upsert(g[n - 1], recs[n], nextId + n - 1)
                                    ELSE g[k]]
  <2>2. IsUpserts(f, recs, n)
    <3> SUFFICES \A k \in 0 .. n : f[k] = IF k = 0 THEN callState
                                           ELSE Upsert(f[k - 1], recs[k], nextId + k - 1)
      BY DEF IsUpserts
    <3> QED
      BY <2>1 DEF IsUpserts
  <2> QED
    BY <2>2
<1> HIDE DEF Good
<1>3. N \in Good
  BY <1>1, <1>2, Climb
<1> QED
  BY <1>3 DEF Good

\* UpsertAll is the last entry of a table of upserts.
LEMMA UpsertAllIs ==
    ASSUME NEW recs, Len(recs) \in Nat
    PROVE  \E f : IsUpserts(f, recs, Len(recs)) /\ UpsertAll(recs) = f[Len(recs)]
<1> DEFINE f == CHOOSE f : IsUpserts(f, recs, Len(recs))
<1>1. IsUpserts(f, recs, Len(recs))
  BY UpsertsExist
<1>2. UpsertAll(recs) = f[Len(recs)]
  BY DEF UpsertAll, IsUpserts
<1> QED
  BY <1>1, <1>2

\* The log after each record of a batch.
LEMMA LogsExist ==
    ASSUME NEW recs, NEW N \in Nat
    PROVE  \E f : IsLogs(f, recs, N)
<1> DEFINE Good == {n \in Nat : \E f : IsLogs(f, recs, n)}
<1>1. 0 \in Good
  <2> DEFINE f == [k \in 0 .. 0 |-> log]
  <2>1. IsLogs(f, recs, 0)
    BY DEF IsLogs
  <2> QED
    BY <2>1
<1>2. ASSUME NEW n \in 1 .. N, n - 1 \in Good PROVE n \in Good
  <2>1. PICK g : IsLogs(g, recs, n - 1)
    BY <1>2
  <2> DEFINE f == [k \in 0 .. n |-> IF k = n THEN LogOne(g[n - 1], recs[n], nextId + n - 1)
                                    ELSE g[k]]
  <2>2. IsLogs(f, recs, n)
    <3> SUFFICES \A k \in 0 .. n : f[k] = IF k = 0 THEN log
                                           ELSE LogOne(f[k - 1], recs[k], nextId + k - 1)
      BY DEF IsLogs
    <3> QED
      BY <2>1 DEF IsLogs
  <2> QED
    BY <2>2
<1> HIDE DEF Good
<1>3. N \in Good
  BY <1>1, <1>2, Climb
<1> QED
  BY <1>3 DEF Good

\* LogAll is the last of them.
LEMMA LogAllIs ==
    ASSUME NEW recs, Len(recs) \in Nat
    PROVE  \E f : IsLogs(f, recs, Len(recs)) /\ LogAll(recs) = f[Len(recs)]
<1> DEFINE f == CHOOSE f : IsLogs(f, recs, Len(recs))
<1>1. IsLogs(f, recs, Len(recs))
  BY LogsExist
<1>2. LogAll(recs) = f[Len(recs)]
  BY DEF LogAll, IsLogs, LogOne
<1> QED
  BY <1>1, <1>2

\* A whole batch.
LEMMA WholeBatch ==
    ASSUME batch \in Seq(Records), nextId \in Nat \ {0}, TableOK(callState, log, nextId)
    PROVE  /\ TableOK(UpsertAll(batch), LogAll(batch), nextId + Len(batch))
           /\ NotBack(callState, UpsertAll(batch))
<1>1. PICK N \in Nat : N = Len(batch)
  OBVIOUS
<1>2. \A n \in 1 .. N : batch[n] \in Records
  BY <1>1
<1>3. PICK f : IsUpserts(f, batch, N) /\ UpsertAll(batch) = f[N]
  BY <1>1, UpsertAllIs
<1>4. PICK g : IsLogs(g, batch, N) /\ LogAll(batch) = g[N]
  BY <1>1, LogAllIs
<1>5. f[0] = callState /\ g[0] = log
  BY <1>3, <1>4 DEF IsUpserts, IsLogs
<1>6. ASSUME NEW n \in 1 .. N
      PROVE  /\ f[n] = Upsert(f[n - 1], batch[n], nextId + n - 1)
             /\ g[n] = LogOne(g[n - 1], batch[n], nextId + n - 1)
  <2>1. n \in 0 .. N /\ n # 0
    OBVIOUS
  <2> QED
    BY <1>3, <1>4, <2>1 DEF IsUpserts, IsLogs
<1> DEFINE Good == {n \in 0 .. N : TableOK(f[n], g[n], nextId + n) /\ NotBack(callState, f[n])}
<1>7. 0 \in Good
  <2>1. \A k \in DOMAIN callState : callState[k] \in Rows
    BY DEF TableOK, RowOK
  <2>2. \A k \in DOMAIN callState : Rank(callState[k]) \in Int
    BY <2>1, RankIs
  <2>3. NotBack(callState, callState)
    BY <2>2 DEF NotBack
  <2>4. nextId + 0 = nextId
    OBVIOUS
  <2> QED
    BY <1>1, <1>5, <2>3, <2>4
<1>8. ASSUME NEW n \in 1 .. N, n - 1 \in Good PROVE n \in Good
  <2>1. TableOK(f[n - 1], g[n - 1], nextId + n - 1) /\ NotBack(callState, f[n - 1])
    <3>1. nextId + (n - 1) = nextId + n - 1
      OBVIOUS
    <3> QED
      BY <1>8, <3>1
  <2>2. PICK id \in Nat \ {0} : id = nextId + n - 1
    OBVIOUS
  <2>3. /\ TableOK(f[n], g[n], id + 1)
        /\ NotBack(f[n - 1], f[n])
    BY <1>2, <1>6, <2>1, <2>2, OneRecord
  <2>4. NotBack(callState, f[n])
    <3>1. ASSUME NEW k \in DOMAIN callState
          PROVE  k \in DOMAIN f[n] /\ Rank(callState[k]) <= Rank(f[n][k])
      <4>1. k \in DOMAIN f[n - 1] /\ Rank(callState[k]) <= Rank(f[n - 1][k])
        BY <2>1 DEF NotBack
      <4>2. k \in DOMAIN f[n] /\ Rank(f[n - 1][k]) <= Rank(f[n][k])
        BY <2>3, <4>1 DEF NotBack
      <4>3. callState[k] \in Rows /\ f[n - 1][k] \in Rows /\ f[n][k] \in Rows
        BY <2>1, <2>3, <4>1, <4>2 DEF TableOK, RowOK
      <4>4. Rank(callState[k]) \in Int /\ Rank(f[n - 1][k]) \in Int /\ Rank(f[n][k]) \in Int
        BY <4>3, RankIs
      <4> QED
        BY <4>1, <4>2, <4>4
    <3> QED
      BY <3>1 DEF NotBack
  <2>5. id + 1 = nextId + n
    BY <2>2
  <2> QED
    BY <2>3, <2>4, <2>5
<1> HIDE DEF Good
<1>9. N \in Good
  <2>1. \A n \in 0 .. N : n \in Good
    BY <1>7, <1>8, Climb
  <2> QED
    BY <2>1
<1> QED
  BY <1>1, <1>3, <1>4, <1>9 DEF Good
-----------------------------------------------------------------------------
\* A row that agrees with its messages says what RowIsFold asks for: the first
\* message of a kind is the one that FirstSuch chooses.
LEMMA FirstIsFirst ==
    ASSUME NEW s, NEW L \in Nat, DOMAIN s = 1 .. L, NEW n \in DOMAIN s
    PROVE  /\ FirstAnswer(s, n) => FirstSuch(s, Answers) = n
           /\ FirstInvite(s, n) => FirstSuch(s, Invites) = n
<1>1. ASSUME FirstAnswer(s, n) PROVE FirstSuch(s, Answers) = n
  <2>1. \A m \in DOMAIN s : FirstAnswer(s, m) => m = n
    BY <1>1 DEF FirstAnswer
  <2> QED
    BY <1>1, <2>1 DEF FirstAnswer, FirstSuch
<1>2. ASSUME FirstInvite(s, n) PROVE FirstSuch(s, Invites) = n
  <2>1. \A m \in DOMAIN s : FirstInvite(s, m) => m = n
    BY <1>2 DEF FirstInvite
  <2> QED
    BY <1>2, <2>1 DEF FirstInvite, FirstSuch
<1> QED
  BY <1>1, <1>2

\* A table that matches its log is the fold the property asks for.
LEMMA RowsAreFolds ==
    ASSUME TableOK(callState, log, nextId)
    PROVE  RowIsFold
<1>1. ASSUME NEW row, NEW s, RowOK(row, s, nextId)
      PROVE  /\ row.open = IF SomeSuch(s, Closes) THEN 0 ELSE 1
             /\ row.answered = IF SomeSuch(s, Answers) THEN 1 ELSE 0
             /\ row.answer_ts = IF SomeSuch(s, Answers)
                                THEN s[FirstSuch(s, Answers)].rec.ts ELSE 0
             /\ row.invite_id = IF SomeSuch(s, Invites)
                                THEN s[FirstSuch(s, Invites)].id ELSE 0
             /\ LatestOK(row, s)
  <2>1. PICK L \in Nat : DOMAIN s = 1 .. L
    BY <1>1 DEF RowOK
  <2>2. row.open = IF SomeSuch(s, Closes) THEN 0 ELSE 1
    BY <1>1 DEF RowOK, OpenOK
  <2>3. /\ row.answered = IF SomeSuch(s, Answers) THEN 1 ELSE 0
        /\ row.answer_ts = IF SomeSuch(s, Answers)
                           THEN s[FirstSuch(s, Answers)].rec.ts ELSE 0
    <3>1. CASE SomeSuch(s, Answers)
      <4>1. PICK n \in DOMAIN s : FirstAnswer(s, n) /\ row.answer_ts = s[n].rec.ts
        BY <1>1, <3>1 DEF RowOK, AnsweredOK, SomeSuch
      <4>2. row.answered = 1
        BY <1>1, <3>1 DEF RowOK, AnsweredOK, SomeSuch
      <4>3. FirstSuch(s, Answers) = n
        BY <2>1, <4>1, FirstIsFirst
      <4> QED
        BY <3>1, <4>1, <4>2, <4>3
    <3>2. CASE ~SomeSuch(s, Answers)
      BY <1>1, <3>2 DEF RowOK, AnsweredOK, SomeSuch, FirstAnswer
    <3> QED
      BY <3>1, <3>2
  <2>4. row.invite_id = IF SomeSuch(s, Invites) THEN s[FirstSuch(s, Invites)].id ELSE 0
    <3>1. CASE SomeSuch(s, Invites)
      <4>1. PICK n \in DOMAIN s : FirstInvite(s, n) /\ row.invite_id = s[n].id
        BY <1>1, <3>1 DEF RowOK, InvitedOK, SomeSuch
      <4>2. FirstSuch(s, Invites) = n
        BY <2>1, <4>1, FirstIsFirst
      <4> QED
        BY <3>1, <4>1, <4>2
    <3>2. CASE ~SomeSuch(s, Invites)
      BY <1>1, <3>2 DEF RowOK, InvitedOK, SomeSuch, FirstInvite
    <3> QED
      BY <3>1, <3>2
  <2> QED
    BY <1>1, <2>2, <2>3, <2>4 DEF RowOK
<1>2. \A k \in DOMAIN callState : RowOK(callState[k], log[k], nextId)
  BY DEF TableOK
<1> QED
  BY <1>1, <1>2, Zenon DEF RowIsFold, LatestOK

\* It also says what RowTimes asks for.
LEMMA RowsHaveTimes ==
    ASSUME TableOK(callState, log, nextId), nextId \in Nat
    PROVE  RowTimes
<1>1. ASSUME NEW row, NEW s, RowOK(row, s, nextId)
      PROVE  /\ row.first_ts <= row.last_ts
             /\ row.answer_ts <= row.last_ts
             /\ row.answered = 1 <=> row.answer_ts > 0
             /\ row.invite_id <= row.last_id
             /\ row.last_id < nextId
  <2>1. PICK L \in Nat \ {0} : L = Len(s)
    BY <1>1 DEF RowOK
  <2>2. DOMAIN s = 1 .. L /\ \A n \in 1 .. L : s[n] \in Seen
    BY <1>1, <2>1 DEF RowOK
  <2>3. \A y \in Seen : y.rec.ts \in Nat \ {0} /\ y.id \in Nat \ {0}
    BY DEF Seen, Records
  <2>4. \A n \in 1 .. L : s[n].rec.ts \in Nat \ {0} /\ s[n].id \in Nat \ {0}
    BY <2>2, <2>3
  <2>5. \A n \in 1 .. L : s[n].rec.ts <= row.last_ts
    BY <1>1, <2>2 DEF RowOK, LatestOK
  <2>6. row.first_ts = s[1].rec.ts /\ row.last_id = s[L].id
    BY <1>1, <2>1 DEF RowOK, LatestOK
  <2>7. \A n \in 1 .. L : s[n].id <= row.last_id /\ s[n].id < nextId
    BY <1>1, <2>1, <2>2, <2>6 DEF RowOK, IdsOK
  <2>8. row.last_ts \in Nat
    BY <1>1 DEF RowOK, Rows
  <2>9. \/ row.answered = 0 /\ row.answer_ts = 0
        \/ row.answered = 1 /\ \E n \in 1 .. L : row.answer_ts = s[n].rec.ts
    BY <1>1, <2>2 DEF RowOK, AnsweredOK
  <2>10. \/ row.invite_id = 0
         \/ \E n \in 1 .. L : row.invite_id = s[n].id
    BY <1>1, <2>2 DEF RowOK, InvitedOK
  <2>11. row.answer_ts <= row.last_ts /\ (row.answered = 1 <=> row.answer_ts > 0)
    BY <2>4, <2>5, <2>8, <2>9
  <2>12. row.invite_id <= row.last_id
    BY <2>1, <2>4, <2>6, <2>7, <2>10
  <2> QED
    BY <2>1, <2>4, <2>5, <2>6, <2>7, <2>11, <2>12
<1>2. \A k \in DOMAIN callState : RowOK(callState[k], log[k], nextId)
  BY DEF TableOK
<1> QED
  BY <1>1, <1>2 DEF RowTimes
-----------------------------------------------------------------------------
(***************************************************************************)
(* The inductive invariant.                                                *)
(***************************************************************************)
StoreTypes == /\ up \in BOOLEAN
              /\ now \in StartTime .. MaxTime
              /\ timers \subseteq Timers
              /\ taken \in 0 .. MaxRecords
              /\ batch \in Seq(Records) /\ Len(batch) <= BatchSize
              /\ nextId \in Nat \ {0}
              /\ parts \subseteq Int /\ failed \subseteq Int /\ started \in Int
              /\ removed \in BOOLEAN

\* What the method column may hold.
Columns == [class : 0 .. 6, name : Methods]

CapturesOK == /\ IsFiniteSet(captures)
              /\ \A c \in captures : c.id < nextId /\ c.id \in Nat /\ Day(c.ts) \in parts
              /\ \A c \in captures : c.method \in Columns

StoreInv == StoreTypes /\ CapturesOK /\ TableOK(callState, log, nextId)

\* The invariant contains the types.
LEMMA InvImpliesTypes == StoreInv => TypeOK
  BY DEF StoreInv, StoreTypes, CapturesOK, TableOK, RowOK, TypeOK

\* Days are integers.
LEMMA DaysAreInts == ASSUME NEW ts \in Int PROVE Day(ts) \in Int
  BY StoreAssumption DEF Day

\* Partitions are named by day numbers.
LEMMA PartitionsAreInts == ASSUME NEW time \in Int PROVE PartitionsFrom(time) \subseteq Int
<1>1. time + Zone \in Int
  BY StoreAssumption
<1> QED
  BY <1>1, DaysAreInts DEF PartitionsFrom

\* So the partitions that are created, and those that fail, are.
LEMMA CreatedAreInts ==
    ASSUME NEW time \in Int, NEW old \in SUBSET Int, NEW new \in Created(time, old),
           NEW lost \in SUBSET Int
    PROVE  /\ new \subseteq Int /\ old \subseteq new
           /\ (lost \cup PartitionsFrom(time)) \ new \subseteq Int
  BY PartitionsAreInts DEF Created

\* The empty database.
LEMMA StoreInit == Init => StoreInv
<1> SUFFICES ASSUME Init PROVE StoreInv
  OBVIOUS
<1>1. StoreTypes
  <2>1. parts \subseteq Int /\ failed \subseteq Int /\ started \in Int
    <3>1. StartTime \in Int /\ StartTime + Zone \in Int
      BY StoreAssumption
    <3>2. parts \in Created(StartTime, {}) /\ failed = PartitionsFrom(StartTime) \ parts
          /\ started = Day(StartTime + Zone)
      BY DEF Init
    <3>3. PartitionsFrom(StartTime) \subseteq Int
      BY <3>1, PartitionsAreInts
    <3>4. parts \subseteq Int
      BY <3>1, <3>2, CreatedAreInts
    <3> QED
      BY <3>1, <3>2, <3>3, <3>4, DaysAreInts
  <2>2. << >> \in Seq(Records) /\ Len(<< >>) = 0 /\ 0 <= BatchSize
    BY StoreAssumption
  <2>3. StartTime \in StartTime .. MaxTime /\ 0 \in 0 .. MaxRecords /\ 1 \in Nat \ {0}
    BY StoreAssumption
  <2> QED
    BY <2>1, <2>2, <2>3 DEF Init, StoreTypes
<1>2. CapturesOK
  BY FS_EmptySet DEF Init, CapturesOK
<1>3. TableOK(callState, log, nextId)
  BY DEF Init, TableOK
<1> QED
  BY <1>1, <1>2, <1>3 DEF StoreInv

\* A record joins the batch.
LEMMA TakeInv ==
    ASSUME StoreInv, NEW shape \in Shapes, NEW call \in Calls, NEW agent \in Agents,
           NEW skew \in Skews, NEW bad \in BadRecords, Take(shape, call, agent, skew, bad)
    PROVE  StoreInv'
<1> DEFINE ts  == IF now + skew <= 0 THEN now ELSE now + skew
           rec == [kind |-> shape.kind, base |-> shape.base, status |-> shape.status,
                   transport |-> shape.transport, call |-> call, agent |-> agent,
                   bad |-> bad, ts |-> ts]
<1>1. ts \in Nat \ {0}
  <2>1. now \in Nat \ {0} /\ skew \in Int
    BY StoreAssumption DEF StoreInv, StoreTypes
  <2> QED
    BY <2>1
<1> HIDE DEF ts
<1>2. rec \in Records
  BY <1>1, StoreAssumption DEF Records
<1>3. batch' = Append(batch, rec)
  BY DEF Take, ts
<1> HIDE DEF rec
<1>4. batch' \in Seq(Records) /\ Len(batch') = Len(batch) + 1 /\ Len(batch) \in Nat
  BY <1>2, <1>3, AppendFacts DEF StoreInv, StoreTypes
<1>5. StoreTypes'
  BY <1>4, StoreAssumption DEF StoreInv, StoreTypes, Take, tables
<1>6. CapturesOK' /\ TableOK(callState, log, nextId)'
  BY DEF StoreInv, CapturesOK, TableOK, Take, tables
<1> QED
  BY <1>5, <1>6 DEF StoreInv

\* The values of a function on finitely many numbers: they are finitely many, and
\* as many as the numbers if no two are the same.
LEMMA ValuesFinite ==
    ASSUME NEW N \in Nat, NEW I \in SUBSET (1 .. N), NEW f
    PROVE  /\ IsFiniteSet(I) /\ IsFiniteSet({f[n] : n \in I})
           /\ (\A m, n \in I : f[m] = f[n] => m = n)
                 => Cardinality({f[n] : n \in I}) = Cardinality(I)
<1> DEFINE V == {f[n] : n \in I}
           g == [n \in I |-> f[n]]
<1>1. IsFiniteSet(1 .. N)
  BY FS_Interval
<1>2. IsFiniteSet(I)
  BY <1>1, FS_Subset
<1>3. g \in Surjection(I, V)
  BY DEF Surjection
<1>4. ASSUME \A m, n \in I : f[m] = f[n] => m = n PROVE g \in Injection(I, V)
  BY <1>4 DEF Injection, IsInjective
<1> HIDE DEF g, V
<1>5. IsFiniteSet(V) /\ (Cardinality(V) = Cardinality(I) <=> g \in Injection(I, V))
  BY <1>2, <1>3, FS_Surjection
<1> QED
  BY <1>2, <1>4, <1>5 DEF V

\* The method column of a record.
LEMMA ColumnsAre == ASSUME NEW rec \in Records PROVE MethodColumn(rec) \in Columns
<1>1. rec.status \in 0 .. 699 /\ rec.base \in Methods
  BY DEF Records
<1>2. rec.status \div 100 \in 0 .. 6
  BY <1>1
<1>3. PICK c : c = IF rec.kind = "response" /\ rec.status > 0 /\ rec.base # ""
                   THEN rec.status \div 100 ELSE 0
  OBVIOUS
<1>4. c \in 0 .. 6
  <2>1. c = rec.status \div 100 \/ c = 0
    BY <1>3, Zenon
  <2> QED
    BY <1>2, <2>1
<1>5. MethodColumn(rec) = [class |-> c, name |-> rec.base]
  BY <1>3, Zenon DEF MethodColumn
<1> QED
  BY <1>1, <1>4, <1>5 DEF Columns

\* The rows that a batch adds to captures.
NewRows == {RowOf(batch[n], nextId + n - 1) : n \in DOMAIN batch}

\* The rows a flush adds have the next ids.
LEMMA NewRowsAre ==
    ASSUME StoreInv
    PROVE  /\ IsFiniteSet(NewRows)
           /\ \A c \in NewRows : \E n \in DOMAIN batch :
                 c.id = nextId + n - 1 /\ c.ts = batch[n].ts /\ c.method = MethodColumn(batch[n])
<1> DEFINE f == [n \in DOMAIN batch |-> RowOf(batch[n], nextId + n - 1)]
<1>1. PICK N \in Nat : DOMAIN batch = 1 .. N
  BY DEF StoreInv, StoreTypes
<1>2. NewRows = {f[n] : n \in 1 .. N}
  BY <1>1 DEF NewRows
<1> HIDE DEF f
<1>3. IsFiniteSet({f[n] : n \in 1 .. N})
  BY ValuesFinite
<1>4. ASSUME NEW c \in NewRows
      PROVE  \E n \in DOMAIN batch :
                c.id = nextId + n - 1 /\ c.ts = batch[n].ts /\ c.method = MethodColumn(batch[n])
  <2>1. PICK n \in DOMAIN batch : c = RowOf(batch[n], nextId + n - 1)
    BY DEF NewRows
  <2>2. PICK i, m : i = nextId + n - 1 /\ m = MethodColumn(batch[n])
    OBVIOUS
  <2>3. c.id = i /\ c.ts = batch[n].ts /\ c.method = m
    BY <2>1, <2>2 DEF RowOf
  <2> QED
    BY <2>2, <2>3
<1> QED
  BY <1>2, <1>3, <1>4

\* A flush commits.
LEMMA FlushInv ==
    ASSUME StoreInv, Flush
    PROVE  StoreInv' /\ NotBack(callState, callState')
<1>1. PICK N \in Nat : N = Len(batch) /\ DOMAIN batch = 1 .. N
  BY DEF StoreInv, StoreTypes
<1>2. nextId' = nextId + N /\ nextId \in Nat \ {0}
  BY <1>1 DEF Flush, StoreInv, StoreTypes
<1>3. StoreTypes'
  BY <1>2, StoreAssumption DEF StoreInv, StoreTypes, Flush
<1>4. CapturesOK'
  <2>1. captures' = captures \cup NewRows /\ parts' = parts
    BY DEF Flush, NewRows
  <2>2. IsFiniteSet(captures')
    BY <2>1, NewRowsAre, FS_Union DEF StoreInv, CapturesOK
  <2>3. \A c \in captures : c.id < nextId' /\ c.id \in Nat /\ Day(c.ts) \in parts'
    BY <1>2, <2>1 DEF StoreInv, CapturesOK
  <2>4. ASSUME NEW c \in NewRows
        PROVE  c.id < nextId' /\ c.id \in Nat /\ Day(c.ts) \in parts'
    <3>1. PICK n \in 1 .. N : c.id = nextId + n - 1 /\ c.ts = batch[n].ts
      BY <1>1, NewRowsAre
    <3>2. Day(batch[n].ts) \in parts
      BY <1>1 DEF Flush, BatchOK, Storable
    <3> QED
      BY <1>2, <2>1, <3>1, <3>2
  <2>5. ASSUME NEW c \in NewRows PROVE c.method \in Columns
    <3>1. PICK n \in DOMAIN batch : c.method = MethodColumn(batch[n])
      BY NewRowsAre
    <3>2. batch[n] \in Records
      BY <1>1 DEF StoreInv, StoreTypes
    <3> QED
      BY <3>1, <3>2, ColumnsAre
  <2> QED
    BY <2>1, <2>2, <2>3, <2>4, <2>5 DEF StoreInv, CapturesOK
<1>5. /\ TableOK(UpsertAll(batch), LogAll(batch), nextId + Len(batch))
      /\ NotBack(callState, UpsertAll(batch))
  BY WholeBatch DEF StoreInv, StoreTypes
<1>6. callState' = UpsertAll(batch) /\ log' = LogAll(batch) /\ nextId' = nextId + Len(batch)
  BY DEF Flush
<1>7. TableOK(callState, log, nextId)'
  BY <1>5, <1>6
<1> QED
  BY <1>3, <1>4, <1>5, <1>6, <1>7 DEF StoreInv

\* A flush fails and its batch is lost.
LEMMA FlushFailsInv ==
    ASSUME StoreInv, FlushFails
    PROVE  StoreInv'
<1>1. PICK N \in Nat : N = Len(batch) /\ DOMAIN batch = 1 .. N
  BY DEF StoreInv, StoreTypes
<1>2. nextId \in Nat \ {0} /\ nextId' \in Nat \ {0} /\ nextId <= nextId'
  BY <1>1 DEF StoreInv, StoreTypes, FlushFails
<1>3. StoreTypes'
  BY <1>2, StoreAssumption DEF StoreInv, StoreTypes, FlushFails, tables
<1>4. CapturesOK'
  BY <1>2 DEF StoreInv, CapturesOK, FlushFails, tables
<1>5. \A k \in DOMAIN callState : RowOK(callState[k], log[k], nextId')
  BY <1>2, LaterIds DEF StoreInv, TableOK
<1>6. TableOK(callState, log, nextId)'
  BY <1>5 DEF StoreInv, TableOK, FlushFails, tables
<1> QED
  BY <1>3, <1>4, <1>6 DEF StoreInv

\* A DELETE leaves the other rows as they are.
LEMMA KeepRowsInv ==
    ASSUME StoreInv, NEW keys \in SUBSET DOMAIN callState, KeepRows(keys), nextId' = nextId
    PROVE  /\ TableOK(callState, log, nextId)'
           /\ DOMAIN callState' = keys
           /\ \A k \in keys : callState'[k] = callState[k]
<1>1. /\ DOMAIN callState' = keys /\ DOMAIN log' = keys
      /\ \A k \in keys : callState'[k] = callState[k] /\ log'[k] = log[k]
  BY DEF KeepRows, Restrict
<1>2. \A k \in keys : RowOK(callState'[k], log'[k], nextId')
  BY <1>1 DEF StoreInv, TableOK
<1> QED
  BY <1>1, <1>2 DEF StoreInv, TableOK

\* Since the names that createDayPartition gives are one character too short for
\* dropOldPartitions, the writer's retention tick drops no partition.
LEMMA NothingDropped ==
    ASSUME RetentionTick
    PROVE  /\ parts' = parts /\ captures' = captures /\ (removed \in BOOLEAN => removed' = removed)
           /\ \/ UNCHANGED <<callState, log>>
              \/ \E keys \in SUBSET DOMAIN callState : KeepRows(keys)
<1>1. OldPartitions = {}
  BY DEF OldPartitions, PartitionNameLength
<1>2. CASE RetentionDays > 0
  <2>1. parts' = parts /\ captures' = captures
    BY <1>1, <1>2 DEF RetentionTick
  <2>2. removed' = (removed \/ captures' # captures)
    BY <1>2 DEF RetentionTick
  <2>3. KeepRows({k \in DOMAIN callState : callState[k].last_ts >= Cutoff})
    BY <1>2 DEF RetentionTick
  <2>4. removed \in BOOLEAN => removed' = removed
    BY <2>1, <2>2, Zenon
  <2>5. \E keys \in SUBSET DOMAIN callState : KeepRows(keys)
    <3> DEFINE K == {k \in DOMAIN callState : callState[k].last_ts >= Cutoff}
    <3>1. K \in SUBSET DOMAIN callState
      OBVIOUS
    <3> QED
      BY <2>3, <3>1, Zenon
  <2> QED
    BY <2>1, <2>4, <2>5
<1>3. CASE ~(RetentionDays > 0)
  BY <1>3 DEF RetentionTick
<1> QED
  BY <1>2, <1>3

\* Retention drops whole days.
LEMMA RetentionInv ==
    ASSUME StoreInv, RetentionTick
    PROVE  StoreInv' /\ \A k \in DOMAIN callState \cap DOMAIN callState' : callState'[k] = callState[k]
<1>1. nextId' = nextId /\ parts' = parts /\ captures' = captures /\ removed' = removed
  BY NothingDropped DEF RetentionTick, StoreInv, StoreTypes
<1>2. StoreTypes' /\ CapturesOK'
  BY <1>1 DEF StoreInv, StoreTypes, CapturesOK, RetentionTick
<1>3. CASE UNCHANGED <<callState, log>>
  BY <1>1, <1>2, <1>3 DEF StoreInv, TableOK
<1>4. CASE \E keys \in SUBSET DOMAIN callState : KeepRows(keys)
  BY <1>1, <1>2, <1>4, KeepRowsInv DEF StoreInv
<1> QED
  BY <1>3, <1>4, NothingDropped

\* Rows of call_state are deleted by an API request.
LEMMA DeleteRowsInv ==
    ASSUME StoreInv, DeleteRows
    PROVE  StoreInv' /\ \A k \in DOMAIN callState \cap DOMAIN callState' : callState'[k] = callState[k]
<1> DEFINE K == {k \in DOMAIN callState : IF deleting.kind = "call" THEN k[1] # deleting.call
                                          ELSE callState[k].last_ts >= deleting.ts}
<1>1. KeepRows(K) /\ nextId' = nextId
  BY DEF DeleteRows
<1>2. StoreTypes' /\ CapturesOK'
  BY DEF StoreInv, StoreTypes, CapturesOK, DeleteRows
<1>3. K \in SUBSET DOMAIN callState
  OBVIOUS
<1> HIDE DEF K
<1> QED
  BY <1>1, <1>2, <1>3, KeepRowsInv DEF StoreInv

\* Captures are deleted by an API request.
LEMMA DeleteCapturesInv ==
    ASSUME StoreInv, NEW request, NEW gone, DeleteCaptures(request, gone)
    PROVE  StoreInv'
<1>1. captures' = captures \ gone
  BY DEF DeleteCaptures
<1>2. removed' \in BOOLEAN
  BY Zenon DEF DeleteCaptures
<1>3. StoreTypes'
  BY <1>2 DEF StoreInv, StoreTypes, DeleteCaptures
<1>4. IsFiniteSet(captures')
  BY <1>1, FS_Subset DEF StoreInv, CapturesOK
<1>5. CapturesOK'
  BY <1>1, <1>4 DEF StoreInv, CapturesOK, DeleteCaptures
<1>6. TableOK(callState, log, nextId)'
  BY DEF StoreInv, TableOK, DeleteCaptures
<1> QED
  BY <1>3, <1>5, <1>6 DEF StoreInv

\* The steps that leave call_state alone.
LEMMA OthersInv ==
    ASSUME StoreInv, PartitionTick \/ Advance \/ Crash \/ Restart \/ UNCHANGED vars
    PROVE  StoreInv' /\ callState' = callState
<1>1. StoreTypes'
  <2>0. now \in Int /\ now + Zone \in Int
    BY StoreAssumption DEF StoreInv, StoreTypes
  <2>1. ASSUME NEW new \in Created(now, parts)
        PROVE  /\ new \subseteq Int /\ (failed \cup PartitionsFrom(now)) \ new \subseteq Int
               /\ Day(now + Zone) \in Int
    BY <2>0, CreatedAreInts, DaysAreInts DEF StoreInv, StoreTypes
  <2>2. << >> \in Seq(Records) /\ Len(<< >>) = 0 /\ 0 <= BatchSize
    BY StoreAssumption
  <2>3. CASE PartitionTick
    BY <2>1, <2>3 DEF StoreInv, StoreTypes, PartitionTick
  <2>4. CASE Advance
    BY <2>4, StoreAssumption DEF StoreInv, StoreTypes, Advance, tables
  <2>5. CASE Crash
    BY <2>2, <2>5 DEF StoreInv, StoreTypes, Crash, tables
  <2>6. CASE Restart
    BY <2>1, <2>6 DEF StoreInv, StoreTypes, Restart
  <2>7. CASE UNCHANGED vars
    BY <2>7 DEF StoreInv, StoreTypes, vars, tables
  <2> QED
    BY <2>3, <2>4, <2>5, <2>6, <2>7
<1>2. /\ captures' = captures /\ nextId' = nextId /\ parts \subseteq parts'
      /\ callState' = callState /\ log' = log
  BY DEF PartitionTick, Advance, Crash, Restart, vars, tables, Created
<1>3. CapturesOK'
  BY <1>2 DEF StoreInv, CapturesOK
<1>4. TableOK(callState, log, nextId)'
  BY <1>2 DEF StoreInv
<1> QED
  BY <1>1, <1>2, <1>3, <1>4 DEF StoreInv

\* Every step keeps the invariant, and no row that it leaves shows an earlier state.
LEMMA StoreStep ==
    ASSUME StoreInv, [Next]_vars
    PROVE  /\ StoreInv'
           /\ \A k \in DOMAIN callState \cap DOMAIN callState' :
                 Rank(callState[k]) <= Rank(callState'[k])
<1>1. \A k \in DOMAIN callState : Rank(callState[k]) \in Int
  <2>1. \A k \in DOMAIN callState : callState[k] \in Rows
    BY DEF StoreInv, TableOK, RowOK
  <2> QED
    BY <2>1, RankIs
<1>2. SUFFICES StoreInv' /\ \/ NotBack(callState, callState')
                            \/ \A k \in DOMAIN callState \cap DOMAIN callState' :
                                    callState'[k] = callState[k]
  BY <1>1 DEF NotBack
<1>3. ASSUME NEW shape \in Shapes, NEW call \in Calls, NEW agent \in Agents,
             NEW skew \in Skews, NEW bad \in BadRecords, Take(shape, call, agent, skew, bad)
      PROVE  StoreInv' /\ callState' = callState
  BY <1>3, TakeInv DEF Take, tables
<1>4. ASSUME Flush PROVE StoreInv' /\ NotBack(callState, callState')
  BY <1>4, FlushInv
<1>5. ASSUME FlushFails PROVE StoreInv' /\ callState' = callState
  BY <1>5, FlushFailsInv DEF FlushFails, tables
<1>6. ASSUME NEW call, DeleteCall(call) PROVE StoreInv' /\ callState' = callState
  BY <1>6, DeleteCapturesInv DEF DeleteCall, DeleteCaptures
<1>7. ASSUME NEW ts, DeleteBefore(ts) PROVE StoreInv' /\ callState' = callState
  BY <1>7, DeleteCapturesInv DEF DeleteBefore, DeleteCaptures
<1> QED
  BY <1>3, <1>4, <1>5, <1>6, <1>7, RetentionInv, DeleteRowsInv, OthersInv DEF Next

\* The invariant holds throughout.
LEMMA StoreAlways == Spec => []StoreInv
<1>1. StoreInv /\ [Next]_vars => StoreInv'
  BY StoreStep
<1> QED
  BY StoreInit, <1>1, PTL DEF Spec

\* The types of Store hold in every reachable state.
THEOREM StoreTypeCorrect == Spec => []TypeOK
  BY StoreAlways, InvImpliesTypes, PTL

\* Whatever the batches, the clocks of the agents, the deletes and the restarts, a
\* row of call_state says what the messages stored for its call say.
THEOREM CallStateIsFold == Spec => []RowIsFold
<1>1. StoreInv => RowIsFold
  BY RowsAreFolds DEF StoreInv
<1> QED
  BY StoreAlways, <1>1, PTL

\* The durations and distances that the reports compute from a row are not negative,
\* however much the clocks of the agents are off.
THEOREM CallStateTimes == Spec => []RowTimes
<1>1. StoreInv => RowTimes
  BY RowsHaveTimes DEF StoreInv, StoreTypes
<1> QED
  BY StoreAlways, <1>1, PTL

\* The state shown for a call never goes back, as long as its row is there.
THEOREM CallStateNeverGoesBack == Spec => StateNeverGoesBack
<1>1. StoreInv /\ [Next]_vars =>
        [\A k \in DOMAIN callState \cap DOMAIN callState' :
            Rank(callState[k]) <= Rank(callState'[k])]_vars
  BY StoreStep
<1> QED
  BY StoreAlways, <1>1, PTL DEF Spec, StateNeverGoesBack
-----------------------------------------------------------------------------
(***************************************************************************)
(* report_daily and captures.                                              *)
(***************************************************************************)
\* A method, as against a response that does not say what it answers.
Named(k) == k[2].name # ""

Counted(k) == IF k \in DOMAIN daily THEN daily[k] ELSE 0

RowsFor(k) == {c \in captures : DailyRow(Day(c.ts), c.method, c.transport) = k}

\* DailyMatchesCaptures says nothing of a row without captures; for those
\* too the count has to be right, since rows may still come.
DailyOK == \A k : Named(k) =>
               /\ Counted(k) \in Nat
               /\ Cardinality(RowsFor(k)) <= Counted(k)
               /\ ~removed => Counted(k) = Cardinality(RowsFor(k))

\* Nothing is counted in the empty database.
LEMMA DailyInit == Init => DailyOK
<1> SUFFICES ASSUME Init, NEW k
             PROVE  Counted(k) = 0 /\ Cardinality(RowsFor(k)) = 0
  BY DEF DailyOK
<1>1. RowsFor(k) = {}
  BY DEF Init, RowsFor
<1>2. Counted(k) = 0
  BY DEF Init, Counted
<1> QED
  BY <1>1, <1>2, FS_EmptySet

\* a and r are what SplitN makes of a method.
Cut(name, a, r) == a = CutMethod(name).name /\ r = CutMethod(name).rest

\* What they are.
Split(name, a, r) == \/ name = "OPTIONS|X" /\ a = "OPTIONS" /\ r = "X|"
                     \/ name # "OPTIONS|X" /\ a = name /\ r = ""

\* The parts of a row.
Parts(day, m, t, a, r) ==
    /\ DailyRow(day, m, t) = <<day, [class |-> m.class, name |-> a], <<r, t>>>>
    /\ DailyRow(day, m, t)[2].name = a

\* Two keys have the same row.
SameRow(d, m, t, e, n, u) == DailyRow(d, m, t) = DailyRow(e, n, u)

\* What SplitN makes of a key.
LEMMA CutIs ==
    ASSUME NEW name, NEW a, NEW r, Cut(name, a, r)
    PROVE  Split(name, a, r)
<1>1. CASE name = "OPTIONS|X"
  BY <1>1 DEF Cut, CutMethod, Split
<1>2. CASE name # "OPTIONS|X"
  BY <1>2, Zenon DEF Cut, CutMethod, Split
<1> QED
  BY <1>1, <1>2

\* The parts of a row.
LEMMA RowIs ==
    ASSUME NEW day, NEW method, NEW t, NEW a, NEW r, Cut(method.name, a, r)
    PROVE  Parts(day, method, t, a, r)
<1>1. DailyRow(day, method, t) = <<day, [class |-> method.class, name |-> a], <<r, t>>>>
  BY Zenon DEF Cut, DailyRow
<1>2. PICK v, w : v = [class |-> method.class, name |-> a] /\ w = <<r, t>>
  OBVIOUS
<1>3. <<day, v, w>>[2] = v
  OBVIOUS
<1>4. v.name = a
  BY <1>2, Zenon
<1> QED
  BY <1>1, <1>2, <1>3, <1>4, Zenon DEF Parts

\* Records and tuples are equal if their fields are.
LEMMA PartsEqual ==
    ASSUME NEW d, NEW e, NEW p, NEW q, NEW a, NEW b, NEW v, NEW w,
           <<d, [class |-> p, name |-> a], v>> = <<e, [class |-> q, name |-> b], w>>
    PROVE  d = e /\ p = q /\ a = b /\ v = w
<1>1. d = e /\ [class |-> p, name |-> a] = [class |-> q, name |-> b] /\ v = w
  OBVIOUS
<1> QED
  BY <1>1

\* So a row of report_daily is of one day, method and transport, whatever bars there
\* are in a method.
LEMMA RowsStayApart ==
    ASSUME NEW d, NEW e, NEW m \in Columns, NEW n \in Columns, NEW t, NEW u,
           SameRow(d, m, t, e, n, u)
    PROVE  d = e /\ m = n /\ t = u
<1>0. /\ m = [class |-> m.class, name |-> m.name]
      /\ n = [class |-> n.class, name |-> n.name]
  BY DEF Columns
<1>a. PICK a, r : Cut(m.name, a, r)
  BY DEF Cut
<1>b. PICK b, s : Cut(n.name, b, s)
  BY DEF Cut
<1>1. /\ DailyRow(d, m, t) = <<d, [class |-> m.class, name |-> a], <<r, t>>>>
      /\ \/ m.name = "OPTIONS|X" /\ a = "OPTIONS" /\ r = "X|"
         \/ m.name # "OPTIONS|X" /\ a = m.name /\ r = ""
  <2>1. Parts(d, m, t, a, r) /\ Split(m.name, a, r)
    BY <1>a, RowIs, CutIs, Zenon
  <2> QED
    BY <2>1, Zenon DEF Parts, Split
<1>2. /\ DailyRow(e, n, u) = <<e, [class |-> n.class, name |-> b], <<s, u>>>>
      /\ \/ n.name = "OPTIONS|X" /\ b = "OPTIONS" /\ s = "X|"
         \/ n.name # "OPTIONS|X" /\ b = n.name /\ s = ""
  <2>1. Parts(e, n, u, b, s) /\ Split(n.name, b, s)
    BY <1>b, RowIs, CutIs, Zenon
  <2> QED
    BY <2>1, Zenon DEF Parts, Split
<1>3. d = e /\ m.class = n.class /\ a = b /\ <<r, t>> = <<s, u>>
  <2>1. PICK p, q, v, w : p = m.class /\ q = n.class /\ v = <<r, t>> /\ w = <<s, u>>
    OBVIOUS
  <2>2. <<d, [class |-> p, name |-> a], v>> = <<e, [class |-> q, name |-> b], w>>
    BY <1>1, <1>2, <2>1, Zenon DEF SameRow
  <2>3. d = e /\ p = q /\ a = b /\ v = w
    BY <2>2, PartsEqual
  <2> QED
    BY <2>1, <2>3, Zenon
<1>4. r = s /\ t = u
  BY <1>3
<1>5. "X|" # ""
  OBVIOUS
<1>6. m.name = n.name
  BY <1>1, <1>2, <1>3, <1>4, <1>5, Zenon
<1> QED
  BY <1>0, <1>3, <1>4, <1>6, Zenon

\* What is at least as large as a positive number is not 0.
LEMMA NotNone == \A n, x \in Nat : n # 0 /\ n <= x => x # 0
  OBVIOUS

\* The counts being at least the rows is what the property asks for.
LEMMA DailyAgrees ==
    ASSUME StoreInv, DailyOK
    PROVE  DailyMatchesCaptures
<1> SUFFICES ASSUME NEW c \in captures, c.method.name # "",
                    NEW key,
                    key = IF CutMethod(c.method.name).rest = ""
                          THEN <<Day(c.ts), c.method, <<"", c.transport>>>>
                          ELSE DailyRow(Day(c.ts), c.method, c.transport),
                    NEW rows,
                    rows = {d \in captures : /\ Day(d.ts) = Day(c.ts) /\ d.method = c.method
                                             /\ d.transport = c.transport}
             PROVE  /\ key \in DOMAIN daily
                    /\ daily[key] >= Cardinality(rows)
                    /\ ~removed => daily[key] = Cardinality(rows)
  BY DEF DailyMatchesCaptures
<1>1. \A d \in captures : d.method \in Columns
  BY DEF StoreInv, CapturesOK
<1>2. PICK day, m, t : day = Day(c.ts) /\ m = c.method /\ t = c.transport
  OBVIOUS
<1>3. m \in Columns /\ m = [class |-> m.class, name |-> m.name] /\ m.name # ""
  BY <1>1, <1>2 DEF Columns
<1>a. PICK a, r : Cut(m.name, a, r)
  BY DEF Cut
<1>4. /\ DailyRow(day, m, t) = <<day, [class |-> m.class, name |-> a], <<r, t>>>>
      /\ r = CutMethod(m.name).rest
      /\ \/ m.name = "OPTIONS|X" /\ a = "OPTIONS" /\ r = "X|"
         \/ m.name # "OPTIONS|X" /\ a = m.name /\ r = ""
  <2>1. r = CutMethod(m.name).rest
    BY <1>a, Zenon DEF Cut
  <2>2. Parts(day, m, t, a, r) /\ Split(m.name, a, r)
    BY <1>a, RowIs, CutIs, Zenon
  <2> QED
    BY <2>1, <2>2, Zenon DEF Parts, Split
<1>5. key = DailyRow(day, m, t)
  <2>1. CASE r = ""
    <3>1. a = m.name
      <4>1. "X|" # ""
        OBVIOUS
      <4> QED
        BY <1>4, <2>1, <4>1, Zenon
    <3>2. DailyRow(day, m, t) = <<day, m, <<"", t>>>>
      BY <1>3, <1>4, <2>1, <3>1, Zenon
    <3> QED
      BY <1>2, <1>4, <2>1, <3>2, Zenon
  <2>2. CASE r # ""
    BY <1>2, <1>4, <2>2, Zenon
  <2> QED
    BY <2>1, <2>2
<1>6. Named(key)
  <2>0. "OPTIONS" # ""
    OBVIOUS
  <2>1. a # ""
    BY <1>3, <1>4, <2>0, Zenon
  <2>2. key[2].name = a
    <3>1. Parts(day, m, t, a, r)
      BY <1>a, RowIs, Zenon
    <3> QED
      BY <1>5, <3>1, Zenon DEF Parts
  <2> QED
    BY <2>1, <2>2, Zenon DEF Named
<1>7. rows = RowsFor(key)
  <2>1. ASSUME NEW d \in captures, DailyRow(Day(d.ts), d.method, d.transport) = key
        PROVE  Day(d.ts) = day /\ d.method = m /\ d.transport = t
    <3>1. PICK x, n, u : x = Day(d.ts) /\ n = d.method /\ u = d.transport
      OBVIOUS
    <3>2. DailyRow(x, n, u) = DailyRow(day, m, t) /\ n \in Columns
      BY <1>1, <1>5, <2>1, <3>1, Zenon
    <3>3. x = day /\ n = m /\ u = t
      <4>1. n \in Columns /\ m \in Columns /\ SameRow(x, n, u, day, m, t)
        BY <1>3, <3>2, Zenon DEF SameRow
      <4> QED
        BY <4>1, RowsStayApart, Zenon
    <3> QED
      BY <3>1, <3>3, Zenon
  <2> QED
    BY <1>2, <1>5, <2>1, Zenon DEF RowsFor
<1>8. IsFiniteSet(rows) /\ rows # {}
  BY FS_Subset DEF StoreInv, CapturesOK
<1>9. PICK n \in Nat : n = Cardinality(rows) /\ n # 0
  BY <1>8, FS_CardinalityType, FS_EmptySet
<1>10. Counted(key) \in Nat /\ n <= Counted(key) /\ (~removed => Counted(key) = n)
  BY <1>6, <1>7, <1>9, Zenon DEF DailyOK
<1>11. key \in DOMAIN daily /\ Counted(key) = daily[key]
  <2>1. key \notin DOMAIN daily => Counted(key) = 0
    BY Zenon DEF Counted
  <2>2. Counted(key) # 0
    BY <1>9, <1>10, NotNone, Zenon
  <2>3. key \in DOMAIN daily => Counted(key) = daily[key]
    BY Zenon DEF Counted
  <2> QED
    BY <2>1, <2>2, <2>3, Zenon
<1> QED
  BY <1>9, <1>10, <1>11

\* A batch adds as many captures for a row as it adds to its count.
LEMMA FlushDaily ==
    ASSUME StoreInv, DailyOK, Flush
    PROVE  DailyOK'
<1> SUFFICES ASSUME NEW k, Named(k)
             PROVE  /\ Counted(k)' \in Nat
                    /\ Cardinality(RowsFor(k)') <= Counted(k)'
                    /\ ~removed' => Counted(k)' = Cardinality(RowsFor(k)')
  BY DEF DailyOK
<1> DEFINE named == {n \in DOMAIN batch : batch[n].base # ""}
           keys  == {DailyKey(batch[n]) : n \in named}
           I     == {n \in DOMAIN batch : DailyKey(batch[n]) = k}
           f     == [n \in DOMAIN batch |-> RowOf(batch[n], nextId + n - 1)]
           V     == {f[n] : n \in I}
<1>1. PICK N \in Nat : DOMAIN batch = 1 .. N
  BY DEF StoreInv, StoreTypes
<1>2. \A n \in DOMAIN batch :
         DailyKey(batch[n]) = DailyRow(Day(batch[n].ts), MethodColumn(batch[n]), batch[n].transport)
  BY DEF DailyKey
<1>3. {n \in named : DailyKey(batch[n]) = k} = I
  <2>1. ASSUME NEW n \in I PROVE batch[n].base # ""
    <3>1. PICK m : m = MethodColumn(batch[n])
      OBVIOUS
    <3>2. m.name = batch[n].base
      BY <3>1 DEF MethodColumn
    <3>3. k = DailyRow(Day(batch[n].ts), m, batch[n].transport)
      BY <1>2, <3>1
    <3>4. PICK a, r : Cut(m.name, a, r)
      BY DEF Cut
    <3>5. PICK day, t : day = Day(batch[n].ts) /\ t = batch[n].transport
      OBVIOUS
    <3>6. Parts(day, m, t, a, r) /\ Split(m.name, a, r)
      BY <3>4, RowIs, CutIs, Zenon
    <3>8. k[2].name = a
      BY <3>3, <3>5, <3>6, Zenon DEF Parts
    <3>9. m.name = "OPTIONS|X" \/ m.name = a
      BY <3>6, Zenon DEF Split
    <3>7. "OPTIONS|X" # ""
      OBVIOUS
    <3> QED
      BY <3>2, <3>7, <3>8, <3>9, Zenon DEF Named
  <2> QED
    BY <2>1, Zenon
<1>4. I \in SUBSET (1 .. N)
  BY <1>1
<1>5. \A n \in DOMAIN batch : f[n].id = nextId + n - 1 /\ f[n].ts = batch[n].ts
                              /\ f[n].method = MethodColumn(batch[n])
                              /\ f[n].transport = batch[n].transport
  BY DEF RowOf
<1>6. \A m, n \in I : f[m] = f[n] => m = n
  <2>1. nextId \in Nat
    BY DEF StoreInv, StoreTypes
  <2>2. \A m, n \in 1 .. N : f[m] = f[n] => nextId + m - 1 = nextId + n - 1
    BY <1>1, <1>5
  <2>3. \A m, n \in 1 .. N : f[m] = f[n] => m = n
    <3> HIDE DEF f
    <3> QED
      BY <2>1, <2>2
  <2> QED
    BY <1>4, <2>3, Zenon
<1>7. captures' = captures \cup {f[n] : n \in DOMAIN batch} /\ removed' = removed
  BY DEF Flush
<1>8. RowsFor(k)' = RowsFor(k) \cup V
  BY <1>2, <1>5, <1>7 DEF RowsFor
<1>9. RowsFor(k) \cap V = {}
  <2>1. \A c \in captures : c.id \in Nat /\ c.id < nextId
    BY DEF StoreInv, CapturesOK
  <2>2. nextId \in Nat
    BY DEF StoreInv, StoreTypes
  <2>3. \A c \in V : \E n \in 1 .. N : c.id = nextId + n - 1
    BY <1>1, <1>5
  <2> QED
    BY <2>1, <2>2, <2>3 DEF RowsFor
<1>10. daily' = [x \in DOMAIN daily \cup keys |->
                   (IF x \in DOMAIN daily THEN daily[x] ELSE 0)
                   + Cardinality({n \in named : DailyKey(batch[n]) = x})]
  BY DEF Flush, DailyAll
<1>11. k \notin keys => I = {}
  BY <1>3
<1> HIDE DEF named, keys, I, f
<1>12. IsFiniteSet(I) /\ IsFiniteSet(V) /\ Cardinality(V) = Cardinality(I)
  <2>1. /\ IsFiniteSet(I) /\ IsFiniteSet({f[n] : n \in I})
        /\ (\A m, n \in I : f[m] = f[n] => m = n)
              => Cardinality({f[n] : n \in I}) = Cardinality(I)
    BY <1>1, <1>4, ValuesFinite
  <2> QED
    BY <1>6, <2>1
<1> HIDE DEF V
<1>13. PICK a \in Nat : a = Cardinality(I)
  BY <1>12, FS_CardinalityType
<1>14. Counted(k)' = Counted(k) + a
  <2>1. Counted(k) \in Nat
    BY DEF DailyOK
  <2>2. CASE k \in DOMAIN daily \cup keys
    BY <1>3, <1>10, <1>13, <2>2 DEF Counted
  <2>3. CASE k \notin DOMAIN daily \cup keys
    <3>1. a = 0
      BY <1>11, <1>13, <2>3, FS_EmptySet
    <3>2. DOMAIN daily' = DOMAIN daily \cup keys
      BY <1>10
    <3> QED
      BY <2>3, <3>1, <3>2 DEF Counted
  <2> QED
    BY <2>2, <2>3
<1>15. IsFiniteSet(RowsFor(k))
  BY FS_Subset DEF StoreInv, CapturesOK, RowsFor
<1>16. PICK b \in Nat : b = Cardinality(RowsFor(k))
  BY <1>15, FS_CardinalityType
<1>17. Cardinality(RowsFor(k)') = b + a
  <2>1. Cardinality(RowsFor(k) \cup V) =
          Cardinality(RowsFor(k)) + Cardinality(V) - Cardinality(RowsFor(k) \cap V)
    BY <1>12, <1>15, FS_Union
  <2>2. Cardinality(RowsFor(k) \cap V) = 0
    BY <1>9, FS_EmptySet
  <2> QED
    BY <1>8, <1>12, <1>13, <1>16, <2>1, <2>2
<1>18. Counted(k) \in Nat /\ b <= Counted(k) /\ (~removed => Counted(k) = b)
  BY <1>16 DEF DailyOK
<1> QED
  BY <1>7, <1>14, <1>17, <1>18

\* A delete of captures.
LEMMA DeleteDaily ==
    ASSUME StoreInv, DailyOK, NEW request, NEW gone, DeleteCaptures(request, gone)
    PROVE  DailyOK'
<1> SUFFICES ASSUME NEW k, Named(k)
             PROVE  /\ Counted(k)' \in Nat
                    /\ Cardinality(RowsFor(k)') <= Counted(k)'
                    /\ ~removed' => Counted(k)' = Cardinality(RowsFor(k)')
  BY DEF DailyOK
<1>1. Counted(k)' = Counted(k) /\ RowsFor(k)' \subseteq RowsFor(k)
  BY DEF DeleteCaptures, Counted, RowsFor
<1>2. ~removed' => ~removed /\ RowsFor(k)' = RowsFor(k)
  BY DEF DeleteCaptures, RowsFor, StoreInv, StoreTypes
<1>3. IsFiniteSet(RowsFor(k))
  BY FS_Subset DEF StoreInv, CapturesOK, RowsFor
<1>4. PICK a, b \in Nat : a = Cardinality(RowsFor(k)) /\ b = Cardinality(RowsFor(k)') /\ b <= a
  BY <1>1, <1>3, FS_Subset, FS_CardinalityType
<1>5. Counted(k) \in Nat /\ a <= Counted(k) /\ (~removed => Counted(k) = a)
  BY <1>4 DEF DailyOK
<1> QED
  BY <1>1, <1>2, <1>4, <1>5

\* Every step keeps the daily counts.
LEMMA DailyStep ==
    ASSUME StoreInv, DailyOK, [Next]_vars
    PROVE  DailyOK'
<1>1. ASSUME captures' = captures, daily' = daily, removed' = removed PROVE DailyOK'
  BY <1>1 DEF DailyOK, Counted, RowsFor
<1>2. ASSUME RetentionTick PROVE DailyOK'
  BY <1>1, <1>2, NothingDropped DEF RetentionTick, StoreInv, StoreTypes
<1>3. ASSUME NEW call, DeleteCall(call) PROVE DailyOK'
  BY <1>3, DeleteDaily DEF DeleteCall
<1>4. ASSUME NEW ts, DeleteBefore(ts) PROVE DailyOK'
  BY <1>4, DeleteDaily DEF DeleteBefore
<1>5. ASSUME \/ \E shape \in Shapes, call \in Calls, agent \in Agents,
                  skew \in Skews, bad \in BadRecords : Take(shape, call, agent, skew, bad)
             \/ FlushFails \/ PartitionTick \/ DeleteRows
             \/ Advance \/ Crash \/ Restart \/ UNCHANGED vars
      PROVE  DailyOK'
  <2>1. captures' = captures /\ daily' = daily /\ removed' = removed
    BY <1>5 DEF Take, FlushFails, PartitionTick, DeleteRows, Advance, Crash, Restart, vars, tables
  <2> QED
    BY <1>1, <2>1
<1> QED
  BY <1>2, <1>3, <1>4, <1>5, FlushDaily DEF Next

\* The daily rollup counts at least the captures of each day, method and transport,
\* and exactly those if none was ever removed, through restarts and failed batches,
\* and wherever the bars in a method cut its key.
THEOREM DailyIsRight == Spec => []DailyMatchesCaptures
<1>1. DailyOK /\ StoreInv /\ [Next]_vars => DailyOK'
  BY DailyStep
<1>2. DailyOK /\ StoreInv => DailyMatchesCaptures
  BY DailyAgrees
<1> QED
  BY DailyInit, StoreAlways, <1>1, <1>2, PTL DEF Spec
-----------------------------------------------------------------------------
(***************************************************************************)
(* Partitions.  From the local day of the start on, every day has been     *)
(* asked for up to the day after the local one, and one further while the  *)
(* writer waits for the next hour; the UTC day is at most one ahead.       *)
(***************************************************************************)
Today == Day(now + Zone)

Asked == parts \cup failed

PartsOK == up => /\ started <= Today
                 /\ started .. Today + 1 \subseteq Asked
                 /\ "partition" \notin timers => Today + 2 \in Asked

\* A day has DayLength ticks, and days follow each other.
LEMMA DayBounds ==
    ASSUME NEW t \in Int
    PROVE  /\ Day(t) \in Int /\ DayLength * Day(t) \in Int
           /\ DayLength * Day(t) <= t /\ t < DayLength * Day(t) + DayLength
<1>1. DayLength \in Nat \ {0}
  BY StoreAssumption
<1>2. Day(t) \in Int /\ t = DayLength * Day(t) + (t % DayLength) /\ t % DayLength \in 0 .. DayLength - 1
  BY <1>1 DEF Day
<1> QED
  BY <1>1, <1>2

\* Times at most a day apart fall on the same day or on adjacent ones.
LEMMA DaysInOrder ==
    ASSUME NEW a \in Int, NEW b \in Int, NEW L \in Nat \ {0}, NEW p \in Int, NEW q \in Int,
           L * p <= a, a < L * p + L, L * q <= b, b < L * q + L, a <= b, b <= a + L
    PROVE  q = p \/ q = p + 1
<1>1. L * q < L * p + 2 * L
  OBVIOUS
<1>2. L * p < L * q + L
  OBVIOUS
<1>3. q < p + 2
  BY <1>1
<1>4. p < q + 1
  BY <1>2
<1> QED
  BY <1>3, <1>4

\* The same for Day.
LEMMA NextDay ==
    ASSUME NEW a \in Int, NEW b \in Int, a <= b, b <= a + DayLength
    PROVE  Day(b) = Day(a) \/ Day(b) = Day(a) + 1
  BY DayBounds, DaysInOrder, StoreAssumption

\* The days that CREATE TABLE is run for are there afterwards or have failed.
LEMMA CreatedAre ==
    ASSUME NEW old, NEW new \in Created(now, old)
    PROVE  old \subseteq new /\ new \subseteq old \cup PartitionsFrom(now)
  BY DEF Created

\* The local day, a tick later, is the same or the next.
LEMMA LocalDays ==
    ASSUME NEW t \in Int
    PROVE  /\ Day(t + Zone) \in Int /\ Day(t) \in Int
           /\ Day(t + 1 + Zone) \in {Day(t + Zone), Day(t + Zone) + 1}
           /\ Day(t) <= Day(t + Zone) + 1
<1>1. /\ Zone \in Int /\ t + Zone \in Int /\ t + 1 + Zone \in Int /\ DayLength \in Nat \ {0}
      /\ t + Zone <= t + 1 + Zone /\ t + 1 + Zone <= t + Zone + DayLength
      /\ t + Zone + DayLength \in Int /\ t <= t + Zone + DayLength
  BY StoreAssumption
<1>2. Day(t + 1 + Zone) = Day(t + Zone) \/ Day(t + 1 + Zone) = Day(t + Zone) + 1
  BY <1>1, NextDay
<1>3. Day(t + Zone) \in Int /\ Day(t) \in Int
  BY <1>1, DaysAreInts
<1>4. Day(t) <= Day(t + Zone) + 1
  <2>1. CASE t <= t + Zone
    <3>1. /\ DayLength * Day(t) <= t /\ t + Zone < DayLength * Day(t + Zone) + DayLength
          /\ DayLength * Day(t) \in Int /\ DayLength * Day(t + Zone) \in Int
      BY <1>1, DayBounds
    <3>2. DayLength * Day(t) < DayLength * Day(t + Zone) + DayLength
      BY <1>1, <2>1, <3>1
    <3>3. PICK L \in Nat \ {0}, a \in Int, b \in Int :
             L = DayLength /\ a = Day(t) /\ b = Day(t + Zone)
      BY <1>1, <1>3
    <3>4. L * a < L * b + L
      BY <3>2, <3>3
    <3>5. a < b + 1
      BY <3>4
    <3> QED
      BY <3>3, <3>5
  <2>2. CASE ~(t <= t + Zone)
    <3>1. t + Zone <= t /\ t <= t + Zone + DayLength
      BY <1>1, <2>2
    <3>2. Day(t) = Day(t + Zone) \/ Day(t) = Day(t + Zone) + 1
      BY <1>1, <3>1, NextDay
    <3> QED
      BY <1>3, <3>2
  <2> QED
    BY <2>1, <2>2
<1> QED
  BY <1>2, <1>3, <1>4

\* The days from the start on stay asked for.
LEMMA PartsStep ==
    ASSUME StoreInv, PartsOK, [Next]_vars
    PROVE  PartsOK'
<1>1. now \in Int /\ started \in Int
  BY StoreAssumption DEF StoreInv, StoreTypes
<1>2. Today \in Int /\ PartitionsFrom(now) = Today .. Today + 2
  BY <1>1, LocalDays DEF Today, PartitionsFrom
<1>3. CASE PartitionTick
  <2>1. /\ up /\ parts' \in Created(now, parts) /\ UNCHANGED <<now, started, up>>
        /\ failed' = (failed \cup PartitionsFrom(now)) \ parts'
    BY <1>3 DEF PartitionTick
  <2>2. parts \subseteq parts'
    BY <2>1, CreatedAre
  <2>3. Asked \subseteq Asked' /\ Today .. Today + 2 \subseteq Asked'
    BY <1>2, <2>1, <2>2 DEF Asked
  <2>4. Today' = Today
    BY <2>1 DEF Today
  <2> QED
    BY <1>1, <1>2, <2>1, <2>3, <2>4 DEF PartsOK
<1>4. CASE Restart
  <2>1. /\ parts' \in Created(now, parts) /\ now' = now /\ started' = Today
        /\ failed' = (failed \cup PartitionsFrom(now)) \ parts' /\ timers' = Timers
    BY <1>4 DEF Restart, Today
  <2>2. Today .. Today + 2 \subseteq Asked' /\ Today' = Today
    BY <1>2, <2>1 DEF Asked, Today
  <2> QED
    BY <1>2, <2>1, <2>2 DEF PartsOK, Timers
<1>5. CASE Crash
  BY <1>5 DEF Crash, PartsOK
<1>6. CASE Advance
  <2>1. CASE up
    <3>1. started <= Today /\ started .. Today + 1 \subseteq Asked /\ Today + 2 \in Asked
      BY <1>6, <2>1 DEF Advance, PartsOK
    <3>2. now' = now + 1 /\ Asked' = Asked /\ started' = started /\ timers' = Timers
      BY <1>6, <2>1 DEF Advance, tables, Asked
    <3>3. Today' \in {Today, Today + 1}
      BY <1>1, <3>2, LocalDays DEF Today
    <3>4. started <= Today' /\ started .. Today' + 1 \subseteq Asked
      <4>1. CASE Today' = Today
        BY <1>1, <1>2, <3>1, <4>1
      <4>2. CASE Today' = Today + 1
        <5>1. \A day \in started .. Today' + 1 : day \in started .. Today + 1 \/ day = Today + 2
          BY <1>1, <1>2, <4>2
        <5> QED
          BY <1>1, <1>2, <3>1, <4>2, <5>1
      <4> QED
        BY <3>3, <4>1, <4>2
    <3> QED
      BY <3>2, <3>4 DEF PartsOK, Timers
  <2>2. CASE ~up
    BY <1>6, <2>2 DEF Advance, PartsOK
  <2> QED
    BY <2>1, <2>2
<1>7. CASE RetentionTick
  <2>1. parts' = parts /\ UNCHANGED <<up, now, failed, started>>
        /\ ("partition" \notin timers' => "partition" \notin timers)
    BY <1>7, NothingDropped DEF RetentionTick
  <2>2. Today' = Today /\ Asked' = Asked
    BY <2>1 DEF Today, Asked
  <2> QED
    BY <2>1, <2>2 DEF PartsOK
<1>8. ASSUME \/ \E shape \in Shapes, call \in Calls, agent \in Agents,
                  skew \in Skews, bad \in BadRecords : Take(shape, call, agent, skew, bad)
             \/ Flush \/ FlushFails \/ DeleteRows
             \/ \E call \in Calls \ {NoCall} : DeleteCall(call)
             \/ \E ts \in BeforeTimes : DeleteBefore(ts)
             \/ UNCHANGED vars
      PROVE  PartsOK'
  <2>1. UNCHANGED <<up, now, timers, parts, failed, started>>
    BY <1>8 DEF Take, Flush, FlushFails, DeleteRows, DeleteCall, DeleteBefore, DeleteCaptures,
                vars, tables
  <2>2. Today' = Today /\ Asked' = Asked
    BY <2>1 DEF Today, Asked
  <2> QED
    BY <2>1, <2>2 DEF PartsOK
<1> QED
  BY <1>3, <1>4, <1>5, <1>6, <1>7, <1>8 DEF Next

\* In any time zone, and whatever CREATEs fail: the partition of the current UTC day
\* has been asked for, from the local day of the last start on (ensurePartitions at
\* the start and every hour).
THEOREM TodayHasPartition == Spec => []CurrentDayHasPartition
<1>1. Init => PartsOK
  <2> SUFFICES ASSUME Init PROVE PartsOK
    OBVIOUS
  <2>2. /\ now = StartTime /\ started = Today /\ failed = PartitionsFrom(now) \ parts
        /\ timers = Timers
    BY DEF Init, Today
  <2>3. now \in Int
    BY <2>2, StoreAssumption
  <2>4. Today \in Int /\ PartitionsFrom(now) = Today .. Today + 2
    BY <2>3, LocalDays DEF Today, PartitionsFrom
  <2>5. Today .. Today + 2 \subseteq Asked
    BY <2>2, <2>4 DEF Asked
  <2> QED
    BY <2>2, <2>4, <2>5 DEF PartsOK, Timers
<1>2. PartsOK /\ StoreInv /\ [Next]_vars => PartsOK'
  BY PartsStep
<1>3. PartsOK /\ StoreInv => CurrentDayHasPartition
  <2> SUFFICES ASSUME PartsOK, StoreInv, up, Day(now) >= started PROVE Day(now) \in Asked
    BY DEF CurrentDayHasPartition, Asked
  <2>2. now \in Int /\ started \in Int
    BY StoreAssumption DEF StoreInv, StoreTypes
  <2>3. Day(now) \in Int /\ Today \in Int /\ Day(now) <= Today + 1
    BY <2>2, LocalDays DEF Today
  <2>4. Day(now) \in started .. Today + 1
    BY <2>2, <2>3
  <2> QED
    BY <2>4 DEF PartsOK
<1> QED
  BY StoreAlways, <1>1, <1>2, <1>3, PTL DEF Spec
=============================================================================
