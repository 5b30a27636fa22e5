---------------------------- MODULE MCAccounts ----------------------------
(***************************************************************************)
(* The files that requests change.  Their handlers share nothing, so a     *)
(* behaviour is about the users file or about one of the others.           *)
(***************************************************************************)
EXTENDS Accounts, TLC

CONSTANTS FileHandlers, AgentNodes, Texts, MaxFileRequests

ASSUME MCAccountsAssumption == MaxFileRequests \in Nat

VARIABLES which, wfile, wpc, wjob, wdata, requests, wdisturbed, wexpected

wvars == <<which, wfile, wpc, wjob, wdata, requests, wdisturbed, wexpected>>

W == INSTANCE WebFiles WITH
        Handlers <- FileHandlers, Nodes <- AgentNodes, MaxRequests <- MaxFileRequests,
        file <- wfile, pc <- wpc, job <- wjob, data <- wdata,
        disturbed <- wdisturbed, expected <- wexpected

MCInit == Init /\ W!Fresh /\ which \in W!Files \cup {"users"}

MCNext == \/ which = "users" /\ Next /\ UNCHANGED wvars
          \/ which # "users" /\ W!Next /\ UNCHANGED vars

MCSpec == MCInit /\ [][MCNext]_<<vars, wvars>>

\* Handlers and passwords are interchangeable, and the run checks invariants only.
Symmetry == Permutations(Handlers) \cup Permutations(Passwords)

\* What was saved of searches, node names, preferences and alerts stays, as a change
\* of users does, until changes overlap, a crash cuts a save off, a body is cut, or
\* a failed read or write is ignored (web/main.go /web/searches, /web/prefs,
\* /web/node-names; api.go /api/alerts/config).
SavedFilesAreKept == which # "users" => W!Kept
=============================================================================
