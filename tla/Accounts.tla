------------------------------ MODULE Accounts ------------------------------
(***************************************************************************)
(* The accounts of zaman-web (web/main.go): the users file, the handlers   *)
(* that change it, the start that creates the default admin, logins and    *)
(* the limiter of failed logins.                                           *)
(*                                                                         *)
(* Every request runs in its own goroutine.  A change loads the whole file,*)
(* changes the list in memory and saves the whole file, with no lock.      *)
(* os.WriteFile opens the file, which empties it, and then writes from the *)
(* start; both are steps here, and either may fail (no directory, no space,*)
(* no descriptor).  Errors are ignored: the request is answered with ok.   *)
(* A file that cannot be read, is empty or not JSON loads as an empty list.*)
(*                                                                         *)
(* Abstractions: a password stands for its salted hash; a session is the   *)
(* id and role inside a signed token, and 24 hours pass whenever they like;*)
(* role "operator" is treated as "viewer" everywhere in zaman-web.         *)
(***************************************************************************)
EXTENDS Integers, Sequences, FiniteSets

CONSTANTS Handlers,    \* goroutines serving requests
          Names,       \* user names, "admin" among them
          Passwords,   \* passwords that are set
          Clients,     \* what clientIP makes of requests: the X-Forwarded-For
                       \* that a request carries, else the address it is from
          Limit,       \* failed logins allowed in a window; 5 in the code
          Window,      \* its length; 60 seconds in the code
          MaxTime,     \* bound on the clock
          MaxChanges   \* bound on the requests that change the users file

ASSUME AccountsAssumption ==
    /\ IsFiniteSet(Handlers)
    /\ "admin" \in Names
    /\ Passwords # {}
    /\ Limit \in Nat \ {0} /\ Window \in Nat
    /\ MaxTime \in Nat /\ MaxChanges \in Nat

UserRecords == [id : Nat, name : Names, role : {"admin", "viewer"}, pw : Passwords]

\* The entries of s that are in S, in their order: a loop over a slice that
\* appends those that are to be kept.
KeepOnly(s, S) ==
    LET kept[i \in 0 .. Len(s)] ==
          IF i = 0 THEN << >>
          ELSE IF s[i] \in S THEN Append(kept[i - 1], s[i]) ELSE kept[i - 1]
    IN  kept[Len(s)]

VARIABLES
    phase,       \* "down" | "creating" (the default admin) | "up"
    file,        \* zaman-users.json: [kind, list]
    pc,          \* handler -> "idle" | "ready" | "open" | "login" | "failed"
    job,         \* handler -> the request it serves
    data,        \* handler -> the list it is going to save
    sessions,    \* tokens that have been issued and have not expired
    attempts,    \* client -> times of its failed logins
    now,
    changes,     \* changes requested so far
    disturbed,   \* history: two changes overlapped, a read or a write failed,
                 \* or the process was killed between opening and writing
    expected     \* history: the users after the changes that were saved, one
                 \* after the other, as long as nothing was disturbed

vars == <<phase, file, pc, job, data, sessions, attempts, now, changes,
          disturbed, expected>>

NoJob == [op |-> "none"]

Absent     == [kind |-> "absent", list |-> << >>]
Empty      == [kind |-> "empty", list |-> << >>]
Garbage    == [kind |-> "garbage", list |-> << >>]
Json(list) == [kind |-> "json", list |-> list]

\* What loadUsers may return: an error of os.ReadFile means no users.
loadUsers == {file.list, << >>}

Init == /\ phase = "down"
        /\ file = Absent
        /\ pc = [h \in Handlers |-> "idle"]
        /\ job = [h \in Handlers |-> NoJob]
        /\ data = [h \in Handlers |-> << >>]
        /\ sessions = {}
        /\ attempts = [c \in Clients |-> << >>]
        /\ now = 0
        /\ changes = 0
        /\ disturbed = FALSE
        /\ expected = {}
-----------------------------------------------------------------------------
(***************************************************************************)
(* What a request makes of a list of users                                 *)
(***************************************************************************)
IdsOf(list)   == {list[i].id : i \in DOMAIN list}
NamesOf(list) == {list[i].name : i \in DOMAIN list}

\* Mutant: ids are given by position.
NextIdByCount(list) == Len(list) + 1

\* One more than the largest id, or 1.
NextId(list) == LET ids == IdsOf(list) \cup {0}
                IN  1 + CHOOSE n \in ids : \A k \in ids : k <= n

Added(list, j) ==
    Append(list, [id |-> NextId(list), name |-> j.name, role |-> j.role,
                  pw |-> j.pw])

Removed(list, j) == KeepOnly(list, {u \in UserRecords : u.id # j.id})

\* Mutant: the loop changes its copy of the user.
RepasswordedCopy(list, j) == list

Repassworded(list, j) ==
    [i \in DOMAIN list |->
        IF list[i].id = j.id /\ \A k \in 1 .. i - 1 : list[k].id # j.id
        THEN [list[i] EXCEPT !.pw = j.pw] ELSE list[i]]

Changed(list, j) == CASE j.op = "add"      -> Added(list, j)
                      [] j.op = "delete"   -> Removed(list, j)
                      [] j.op = "password" -> Repassworded(list, j)

\* The request is answered with an error and nothing is saved.
Refused(list, j) == \/ j.op = "add" /\ j.name \in NamesOf(list)
                    \/ j.op = "password" /\ j.id \notin IdsOf(list)

(***************************************************************************)
(* The reference, for the history: what a change means for the set of      *)
(* users.                                                                  *)
(***************************************************************************)
Effect(users, j) ==
    LET ids == {u.id : u \in users} \cup {0}
        new == CHOOSE n \in 1 .. MaxChanges + 1 : n - 1 \in ids /\ \A k \in ids : k < n
    IN  CASE j.op = "add" ->
               users \cup {[id |-> new, name |-> j.name, role |-> j.role, pw |-> j.pw]}
          [] j.op = "delete" -> {u \in users : u.id # j.id}
          [] j.op = "password" ->
               {u \in users : u.id # j.id} \cup
               {[u EXCEPT !.pw = j.pw] : u \in {v \in users : v.id = j.id}}
-----------------------------------------------------------------------------
(***************************************************************************)
(* Changes: /web/users and /web/users/password                             *)
(***************************************************************************)
\* Who may change users: whoever sends the API key (id 0), and the sessions of
\* admins.
Callers == {0} \cup {s.id : s \in {t \in sessions : t.role = "admin"}}

Jobs == {[op |-> "add", name |-> n, role |-> r, pw |-> p] :
            n \in Names, r \in {"admin", "viewer"}, p \in Passwords}
        \cup {[op |-> "delete", id |-> i] : i \in 1 .. MaxChanges + 1}
        \cup {[op |-> "password", id |-> i, pw |-> p] :
                 i \in 1 .. MaxChanges + 1, p \in Passwords}

\* "cannot delete yourself"
Permitted(j) == \E caller \in Callers : j.op = "delete" => j.id # caller

InChange == {h \in Handlers : pc[h] \in {"ready", "open"}}

\* The handler loads the users and works out the new list, or refuses.
LoadForChange(h, j) ==
    /\ phase = "up"
    /\ pc[h] = "idle"
    /\ changes < MaxChanges
    /\ Permitted(j)
    /\ changes' = changes + 1
    /\ \E list \in loadUsers :
          IF Refused(list, j)
          THEN UNCHANGED <<pc, job, data, disturbed>>
          ELSE /\ pc' = [pc EXCEPT ![h] = "ready"]
               /\ job' = [job EXCEPT ![h] = j]
               /\ data' = [data EXCEPT ![h] = Changed(list, j)]
               /\ disturbed' = (disturbed \/ InChange # {} \/ list # file.list)
    /\ UNCHANGED <<phase, file, sessions, attempts, now, expected>>

\* saveUsers: os.WriteFile opens and truncates the file ...
OpenFile(h) == /\ phase = "up"
               /\ pc[h] = "ready"
               /\ pc' = [pc EXCEPT ![h] = "open"]
               /\ file' = Empty
               /\ UNCHANGED <<phase, job, data, sessions, attempts, now, changes,
                              disturbed, expected>>

\* (or cannot make the directory or open the file; the answer is ok all the same)
OpenFails(h) == /\ phase = "up"
                /\ pc[h] = "ready"
                /\ pc' = [pc EXCEPT ![h] = "idle"]
                /\ job' = [job EXCEPT ![h] = NoJob]
                /\ data' = [data EXCEPT ![h] = << >>]
                /\ UNCHANGED <<phase, file, sessions, attempts, now, changes,
                               disturbed, expected>>

\* ... and writes from the start.  If another save has written since, what it
\* wrote is overwritten, and its end stays when it is the longer one.
Written(list) == {Json(list)} \cup (IF file.kind = "empty" THEN {} ELSE {Garbage})

WriteFile(h) == /\ phase = "up"
                /\ pc[h] = "open"
                /\ file' \in Written(data[h])
                /\ expected' = IF disturbed THEN {} ELSE Effect(expected, job[h])
                /\ pc' = [pc EXCEPT ![h] = "idle"]
                /\ job' = [job EXCEPT ![h] = NoJob]
                /\ data' = [data EXCEPT ![h] = << >>]
                /\ UNCHANGED <<phase, sessions, attempts, now, changes, disturbed>>

\* Nothing of it is written, or only a part; the answer is ok all the same.
WriteFails(h) == /\ phase = "up"
                 /\ pc[h] = "open"
                 /\ file' \in {file, Garbage}
                 /\ disturbed' = TRUE
                 /\ pc' = [pc EXCEPT ![h] = "idle"]
                 /\ job' = [job EXCEPT ![h] = NoJob]
                 /\ data' = [data EXCEPT ![h] = << >>]
                 /\ UNCHANGED <<phase, sessions, attempts, now, changes, expected>>
-----------------------------------------------------------------------------
(***************************************************************************)
(* Logins.  allow and record lock the limiter one after the other; the     *)
(* password is checked between them.                                       *)
(***************************************************************************)
Recent(c) == KeepOnly(attempts[c], {ts \in Nat : ts >= now - Window})

Allowed(c) == Len(Recent(c)) < Limit

\* rl.allow forgets the attempts before the window.
Allow(h, c, n) == /\ phase = "up"
                  /\ pc[h] = "idle"
                  /\ attempts' = [attempts EXCEPT ![c] = Recent(c)]
                  /\ IF Allowed(c)
                     THEN /\ pc' = [pc EXCEPT ![h] = "login"]
                          /\ job' = [job EXCEPT ![h] =
                                       [op |-> "login", client |-> c, name |-> n]]
                     ELSE UNCHANGED <<pc, job>>
                  /\ UNCHANGED <<phase, file, data, sessions, now, changes,
                                 disturbed, expected>>

\* doLogin: the user exists and the password given is right.
LoginOk(h) == /\ phase = "up"
              /\ pc[h] = "login"
              /\ \E list \in loadUsers : \E i \in DOMAIN list :
                    /\ list[i].name = job[h].name
                    /\ \A k \in 1 .. i - 1 : list[k].name # job[h].name
                    /\ sessions' = sessions \cup
                          {[id |-> list[i].id, role |-> list[i].role]}
              /\ pc' = [pc EXCEPT ![h] = "idle"]
              /\ job' = [job EXCEPT ![h] = NoJob]
              /\ UNCHANGED <<phase, file, data, attempts, now, changes,
                             disturbed, expected>>

\* No such user (the file may be empty or unreadable just now), or a wrong
\* password.
LoginFails(h) == /\ phase = "up"
                 /\ pc[h] = "login"
                 /\ pc' = [pc EXCEPT ![h] = "failed"]
                 /\ UNCHANGED <<phase, file, job, data, sessions, attempts, now,
                                changes, disturbed, expected>>

Record(h) == /\ phase = "up"
             /\ pc[h] = "failed"
             /\ attempts' = [attempts EXCEPT ![job[h].client] = Append(@, now)]
             /\ pc' = [pc EXCEPT ![h] = "idle"]
             /\ job' = [job EXCEPT ![h] = NoJob]
             /\ UNCHANGED <<phase, file, data, sessions, now, changes,
                            disturbed, expected>>

\* verifyToken: the token is too old.
Expire(s) == /\ sessions' = sessions \ {s}
             /\ UNCHANGED <<phase, file, pc, job, data, attempts, now, changes,
                            disturbed, expected>>
-----------------------------------------------------------------------------
(***************************************************************************)
(* Start and crash.  Sessions survive: the secret of the tokens is in a    *)
(* file.  The limiter does not.                                            *)
(***************************************************************************)
DefaultAdmin(p) == [id |-> 1, name |-> "admin", role |-> "admin", pw |-> p]

\* initAdmin returns if there are users, else it saves a new admin, or fails to
\* open the file and goes on without one.
Start == /\ phase = "down"
         /\ \E list \in loadUsers :
               /\ disturbed' = (disturbed \/ list # file.list)
               /\ \/ phase' = "up" /\ file' = file
                  \/ list = << >> /\ phase' = "creating" /\ file' = Empty
         /\ UNCHANGED <<pc, job, data, sessions, attempts, now, changes, expected>>

CreateAdmin == /\ phase = "creating"
               /\ \E p \in Passwords :
                     /\ file' = Json(<<DefaultAdmin(p)>>)
                     /\ expected' = {DefaultAdmin(p)}
               /\ phase' = "up"
               /\ UNCHANGED <<pc, job, data, sessions, attempts, now, changes,
                              disturbed>>

\* The admin cannot be written, or not whole; the start goes on.
CreateFails == /\ phase = "creating"
               /\ phase' = "up"
               /\ file' \in {file, Garbage}
               /\ UNCHANGED <<pc, job, data, sessions, attempts, now, changes,
                              disturbed, expected>>

Crash == /\ phase # "down"
         /\ phase' = "down"
         /\ pc' = [h \in Handlers |-> "idle"]
         /\ job' = [h \in Handlers |-> NoJob]
         /\ data' = [h \in Handlers |-> << >>]
         /\ attempts' = [c \in Clients |-> << >>]
         /\ disturbed' = (disturbed \/ \E h \in Handlers : pc[h] = "open")
         /\ UNCHANGED <<file, sessions, now, changes, expected>>

Tick == /\ now < MaxTime
        /\ now' = now + 1
        /\ UNCHANGED <<phase, file, pc, job, data, sessions, attempts, changes,
                       disturbed, expected>>

Next == \/ \E h \in Handlers :
              \/ \E j \in Jobs : LoadForChange(h, j)
              \/ OpenFile(h) \/ OpenFails(h) \/ WriteFile(h) \/ WriteFails(h)
              \/ \E c \in Clients, n \in Names : Allow(h, c, n)
              \/ LoginOk(h) \/ LoginFails(h) \/ Record(h)
        \/ \E s \in sessions : Expire(s)
        \/ Start \/ CreateAdmin \/ CreateFails \/ Crash \/ Tick

Spec == Init /\ [][Next]_vars
-----------------------------------------------------------------------------
Distinct(list) == \A i, j \in DOMAIN list :
                     i # j => /\ list[i].id # list[j].id
                              /\ list[i].name # list[j].name

\* No two users in the file, or in a list about to be saved, share an id or a
\* name, whatever requests overlap, whatever a handler loaded while the file was
\* being written, and wherever a crash or an ignored error fell: deletes and password
\* changes, which go by id, and logins, which go by name, mean one user.
UsersDistinct == /\ Distinct(file.list)
                 /\ \A h \in Handlers : Distinct(data[h])

\* What was saved stays: the file holds the effect of the changes in order, until
\* two changes overlap, a crash falls between opening and writing the file, or an
\* error is ignored that loses more than the change it meets: the file could not be
\* read (it is then written over), or could not be written once it was open.  A
\* change whose file cannot be opened is answered with ok as well, and loses itself.
ChangesAreKept ==
    ~disturbed /\ (\A h \in Handlers : pc[h] # "open")
        => {file.list[i] : i \in DOMAIN file.list} = expected

\* "5 attempts per 60 seconds per IP" (SECURITY_REVIEW.md): no more failed logins of
\* a client than the limit lie within the window.  allow and record lock the limiter
\* one after the other and the password is checked in between, so requests that are
\* checked at the same time all fail and are all recorded.
FailuresWithinLimit == \A c \in Clients : Len(Recent(c)) <= Limit
=============================================================================
