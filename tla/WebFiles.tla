------------------------------ MODULE WebFiles ------------------------------
(***************************************************************************)
(* The other files that a request may change: zaman-web's saved searches,  *)
(* names of the nodes and preferences of a user (web/main.go), and the     *)
(* alert configuration of zaman-core (core-go/api.go).  They have nothing  *)
(* in common, so a behaviour is about one of them.                         *)
(*                                                                         *)
(* The content of a file is a function: ids to searches, nodes to names,   *)
(* or the file's name to its text.  A file that is missing, cannot be read,*)
(* is empty or not JSON reads as one without any.  os.WriteFile empties the*)
(* file and then writes, and its errors are ignored, as in Accounts;       *)
(* requests run in goroutines, without a lock.                             *)
(* Abstraction: who has a session is left out, every request has one.      *)
(***************************************************************************)
EXTENDS Integers, FiniteSets, FiniteSetsExt, Functions

CONSTANTS Handlers,     \* goroutines that serve requests
          Nodes,        \* capture agents that are given names
          Texts,        \* names, searches and preferences
          MaxRequests   \* bound on the requests that change a file

Files == {"searches", "names", "prefs", "alerts"}

VARIABLES
    which,       \* the file that the behaviour is about
    file,        \* [kind, content]
    pc,          \* handler -> "idle" | "ready" | "open"
    job,         \* handler -> the request it serves
    data,        \* handler -> the content it is going to save
    requests,    \* changes requested so far
    disturbed,   \* history: two changes overlapped, a body was cut, a read or a
                 \* write failed, or a save was cut off
    expected     \* history: the pairs <<key, value>> after the changes that
                 \* were saved, one after the other

vars == <<which, file, pc, job, data, requests, disturbed, expected>>

Nothing == << >>
NoJob == [op |-> "none"]

Absent     == [kind |-> "absent", content |-> Nothing]
Empty      == [kind |-> "empty", content |-> Nothing]
Garbage    == [kind |-> "garbage", content |-> Nothing]
Json(f)    == [kind |-> "json", content |-> f]

Fresh == /\ file = Absent
         /\ pc = [h \in Handlers |-> "idle"]
         /\ job = [h \in Handlers |-> NoJob]
         /\ data = [h \in Handlers |-> Nothing]
         /\ requests = 0
         /\ disturbed = FALSE
         /\ expected = {}

Init == which \in Files /\ Fresh
-----------------------------------------------------------------------------
\* What is left of a body that was cut.
CutText == "cut"

\* f with the value of k set to v.
Put(f, k, v) == [x \in DOMAIN f \cup {k} |-> IF x = k THEN v ELSE f[x]]

Without(f, k) == Restrict(f, DOMAIN f \ {k})

\* The first id that is larger than every other, 1 if there are none.
NewId(searches) == CHOOSE id \in 1 .. MaxRequests + 1 :
                      /\ \A k \in DOMAIN searches : k < id
                      /\ id > 1 => id - 1 \in DOMAIN searches

\* Mutant: a node's new name replaces the file, without the merge.
MergedOver(names, change) ==
    IF change.text = "" THEN Nothing ELSE Put(Nothing, change.node, change.text)

\* An empty name takes the node's name away.
Merged(names, change) == IF change.text = "" THEN Without(names, change.node)
                         ELSE Put(names, change.node, change.text)

Changed(f, j) == CASE j.op = "add"    -> Put(f, NewId(f), j.text)
                   [] j.op = "delete" -> Without(f, j.id)
                   [] j.op = "rename" -> Merged(f, j)
                   [] j.op = "save"   -> Put(Nothing, which, j.text)

(***************************************************************************)
(* The reference, for the history: what a change means for the pairs.      *)
(***************************************************************************)
Effect(pairs, j) ==
    CASE j.op = "add"    -> pairs \cup {<<1 + Max({0} \cup {p[1] : p \in pairs}), j.text>>}
      [] j.op = "delete" -> {p \in pairs : p[1] # j.id}
      [] j.op = "rename" -> {p \in pairs : p[1] # j.node}
                            \cup {<<j.node, t>> : t \in {j.text} \ {""}}
      [] j.op = "save"   -> {<<which, j.text>>}

Jobs == CASE which = "searches" -> [op : {"add"}, text : Texts]
                                   \cup [op : {"delete"}, id : 1 .. MaxRequests]
          [] which = "names" -> [op : {"rename"}, node : Nodes, text : Texts \cup {""}]
          [] OTHER -> [op : {"save"}, text : Texts]
-----------------------------------------------------------------------------
Started(h, j, content) == /\ pc[h] = "idle"
                          /\ requests < MaxRequests
                          /\ requests' = requests + 1
                          /\ pc' = [pc EXCEPT ![h] = "ready"]
                          /\ job' = [job EXCEPT ![h] = j]
                          /\ data' = [data EXCEPT ![h] = content]
                          /\ UNCHANGED <<which, file, expected>>

\* A handler reads the file and works out the new content; /web/prefs and
\* /api/alerts/config save what they were sent.
Load(h, j) == /\ Started(h, j, Changed(file.content, j))
              /\ disturbed' = (disturbed \/ \E g \in Handlers : pc[g] # "idle")

\* The file cannot be read and the change is made to nothing; or the body of a save
\* is longer than the LimitReader lets through, or its connection breaks, and its
\* start is taken for the whole.
LoadAmiss(h, j) == /\ Started(h, j, IF j.op = "save" THEN Put(Nothing, which, CutText)
                                    ELSE Changed(Nothing, j))
                   /\ disturbed' = TRUE

OpenFile(h) == /\ pc[h] = "ready"
               /\ pc' = [pc EXCEPT ![h] = "open"]
               /\ file' = Empty
               /\ UNCHANGED <<which, job, data, requests, disturbed, expected>>

\* The file cannot be opened; the answer is ok all the same.
OpenFails(h) == /\ pc[h] = "ready"
                /\ pc' = [pc EXCEPT ![h] = "idle"]
                /\ job' = [job EXCEPT ![h] = NoJob]
                /\ data' = [data EXCEPT ![h] = Nothing]
                /\ UNCHANGED <<which, file, requests, disturbed, expected>>

\* Over what another save wrote since, a shorter content leaves the other's end.
WriteFile(h) == /\ pc[h] = "open"
                /\ file' \in {Json(data[h])}
                             \cup (IF file.kind = "empty" THEN {} ELSE {Garbage})
                /\ expected' = IF disturbed THEN {} ELSE Effect(expected, job[h])
                /\ pc' = [pc EXCEPT ![h] = "idle"]
                /\ job' = [job EXCEPT ![h] = NoJob]
                /\ data' = [data EXCEPT ![h] = Nothing]
                /\ UNCHANGED <<which, requests, disturbed>>

\* Nothing, or a part, is written; the answer is ok all the same.
WriteFails(h) == /\ pc[h] = "open"
                 /\ file' \in {file, Garbage}
                 /\ disturbed' = TRUE
                 /\ pc' = [pc EXCEPT ![h] = "idle"]
                 /\ job' = [job EXCEPT ![h] = NoJob]
                 /\ data' = [data EXCEPT ![h] = Nothing]
                 /\ UNCHANGED <<which, requests, expected>>

\* The process is killed and started again.
Restart == /\ disturbed' = (disturbed \/ \E h \in Handlers : pc[h] = "open")
           /\ pc' = [h \in Handlers |-> "idle"]
           /\ job' = [h \in Handlers |-> NoJob]
           /\ data' = [h \in Handlers |-> Nothing]
           /\ UNCHANGED <<which, file, requests, expected>>

Next == \/ \E h \in Handlers : \/ \E j \in Jobs : Load(h, j) \/ LoadAmiss(h, j)
                               \/ OpenFile(h) \/ OpenFails(h)
                               \/ WriteFile(h) \/ WriteFails(h)
        \/ Restart

Spec == Init /\ [][Next]_vars
-----------------------------------------------------------------------------
\* What was saved of searches, node names, preferences and alerts stays: the file
\* holds the effect of the changes in order, until two changes overlap, the process
\* is killed between opening and writing, or an error is ignored that loses more
\* than the change it meets: a file that could not be read, or not be written once
\* it was open, or a body that was cut.  (A change whose file cannot be opened is
\* acknowledged and loses itself.)
Kept ==
    ~disturbed /\ (\A h \in Handlers : pc[h] # "open") =>
        /\ file.kind \in {"absent", "json"}
        /\ {<<k, file.content[k]>> : k \in DOMAIN file.content} = expected
=============================================================================
