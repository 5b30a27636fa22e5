-------------------------------- MODULE Ring --------------------------------
(***************************************************************************)
(* The circular buffer of recent capture records (core-go/main.go, type    *)
(* Ring).  Every operation runs under the ring's mutex, so one operation   *)
(* is one step.                                                            *)
(*                                                                         *)
(*   buf, idx   the fields of the Go struct                                *)
(*   pushed     history: every record ever pushed, oldest first; the code  *)
(*              does not keep it, the properties are stated against it     *)
(***************************************************************************)
EXTENDS Integers, Sequences

CONSTANTS RingSize,  \* number of slots, at least one; 512 in the code
          Records,   \* the record strings
          NoRecord   \* the zero value of a slot, the empty string

VARIABLES buf, idx, pushed

ringVars == <<buf, idx, pushed>>

Least(a, b) == IF a < b THEN a ELSE b

RingInit == /\ buf = [i \in 0 .. RingSize - 1 |-> NoRecord]
            /\ idx = 0
            /\ pushed = << >>

\* Mutant: the slot is chosen after the index has moved on.
PushAfterIncrement(rec) == /\ buf' = [buf EXCEPT ![(idx + 1) % RingSize] = rec]
                           /\ idx' = idx + 1
                           /\ pushed' = Append(pushed, rec)

Push(rec) == /\ buf' = [buf EXCEPT ![idx % RingSize] = rec]
             /\ idx' = idx + 1
             /\ pushed' = Append(pushed, rec)

(***************************************************************************)
(* Recent(limit): at most limit records, newest first.  The code adds      *)
(* 2 * RingSize before it takes the remainder because Go's % keeps the     *)
(* sign of its left operand.                                               *)
(***************************************************************************)
Recent(limit) ==
    LET n == Least(idx, RingSize)
    IN  [k \in 1 .. Least(limit, n) |->
            buf[(idx - 1 - (k - 1) + RingSize * 2) % RingSize]]

RingNext == \E rec \in Records : Push(rec)

RingSpec == RingInit /\ [][RingNext]_ringVars
-----------------------------------------------------------------------------
RingTypeOK == /\ buf \in [0 .. RingSize - 1 -> Records \cup {NoRecord}]
              /\ idx \in Nat
              /\ pushed \in Seq(Records)

\* What Ring.Recent promises its caller: the newest records, newest first,
\* as many as were asked for, pushed so far and still held.
NewestFirst(limit) ==
    [k \in 1 .. Least(limit, Least(Len(pushed), RingSize)) |->
        pushed[Len(pushed) + 1 - k]]

\* Ring.Recent returns exactly the newest pushed records for every limit,
\* before and after the buffer has wrapped around any number of times.
RecentIsNewest == \A limit \in 0 .. RingSize + 1 :
                      Recent(limit) = NewestFirst(limit)
=============================================================================
