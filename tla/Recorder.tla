------------------------------ MODULE Recorder ------------------------------
(***************************************************************************)
(* What the capture pipeline promises about the messages it accepts, with  *)
(* no goroutines, channel or batches: a message is accepted once; it is    *)
(* then dropped, or it is reported as written or as failed, once and for   *)
(* all.  A dropped message is never in the table; one reported as written  *)
(* is; a message is in the table at most once; and the messages of one     *)
(* producer are in the table in the order they were read.                  *)
(***************************************************************************)
EXTENDS Integers, Sequences, Functions

CONSTANTS Producers, MaxPackets

Ids == Producers \X (1 .. MaxPackets)

VARIABLES fate,   \* id -> "none" | "pending" | "dropped" | "ok" | "err"
          stored  \* the table, in insertion order

vars == <<fate, stored>>

Init == fate = [i \in Ids |-> "none"] /\ stored = << >>

Accept(i) == /\ fate[i] = "none"
             /\ fate' = [fate EXCEPT ![i] = "pending"]
             /\ UNCHANGED stored

Drop(i) == /\ fate[i] = "pending"
           /\ i \notin Range(stored)
           /\ fate' = [fate EXCEPT ![i] = "dropped"]
           /\ UNCHANGED stored

InOrder(s) == \A j, k \in DOMAIN s :
                  j < k /\ s[j][1] = s[k][1] => s[j][2] < s[k][2]

\* One transaction adds rows for messages still pending.
Write == /\ Len(stored') >= Len(stored)
         /\ SubSeq(stored', 1, Len(stored)) = stored
         /\ \A k \in Len(stored) + 1 .. Len(stored') :
               stored'[k] \in Ids /\ fate[stored'[k]] = "pending"
         /\ InOrder(stored')
         /\ UNCHANGED fate

\* The writer reports on messages still pending; "ok" only for rows it wrote.
Report(verdict) ==
    /\ \A i \in Ids : fate'[i] # fate[i] =>
          /\ fate[i] = "pending"
          /\ fate'[i] = verdict
          /\ verdict = "ok" => i \in Range(stored)
    /\ DOMAIN fate' = Ids
    /\ UNCHANGED stored

Next == \/ \E i \in Ids : Accept(i) \/ Drop(i)
        \/ Write
        \/ Report("ok") \/ Report("err")

Spec == Init /\ [][Next]_vars
=============================================================================
