----------------------------- MODULE Lifecycle -----------------------------
(***************************************************************************)
(* Start and stop of zaman-core (core-go/main.go): the workers that main   *)
(* starts and waits for, how each of them comes to see the cancelled       *)
(* context, and the API requests that are being served meanwhile.  What    *)
(* the workers do with data is in Ingest, Store and Pool.                  *)
(***************************************************************************)
EXTENDS Naturals, FiniteSets

CONSTANTS Workers,    \* the workers that the configuration starts
          Requests    \* API requests that clients send

Tickers   == {"dbWriter", "cacheWorker", "alertWorker"}
Pollers   == {"sipWorker", "hepUDPWorker", "hepTCPWorker"}
Listeners == Pollers \cup {"hepTLSWorker", "apiWorker"}

\* hepTCPWorker and hepTLSWorker depend on the configuration, the others always
\* run.
ASSUME LifecycleAssumption ==
    /\ Workers \subseteq Tickers \cup Listeners
    /\ (Tickers \cup Listeners) \ {"hepTCPWorker", "hepTLSWorker"} \subseteq Workers

VARIABLES cancelled,  \* the signal has been handled
          at,         \* worker -> where it is
          request,    \* request -> "none" | "serving" | "answered" | "refused" | "cut"
          shutdown,   \* the API's goroutine that waits for ctx.Done:
                      \* "waiting" | "draining" | "done"
          exited      \* main has returned

vars == <<cancelled, at, request, shutdown, exited>>

\* cacheWorker fills the cache before its loop.
Init == /\ cancelled = FALSE
        /\ at = [w \in Workers |-> CASE w = "cacheWorker" -> "busy"
                                     [] w \in Listeners   -> "bind"
                                     [] OTHER             -> "select"]
        /\ request = [r \in Requests |-> "none"]
        /\ shutdown = "waiting"
        /\ exited = FALSE

Move(w, from, to) == /\ ~exited
                     /\ at[w] = from
                     /\ at' = [at EXCEPT ![w] = to]
                     /\ UNCHANGED <<cancelled, request, shutdown, exited>>
-----------------------------------------------------------------------------
\* dbWriter, cacheWorker, alertWorker: a select over ctx.Done and timers.  What
\* they do when a timer fires waits for a connection of the pool, with no deadline.
TickerFires(w)    == w \in Tickers /\ Move(w, "select", "busy")
TickerFinishes(w) == w \in Tickers /\ Move(w, "busy", "select")

\* Mutant: the worker's select has no case for ctx.Done.
TickerStopsNever(w) == FALSE

\* On ctx.Done the worker returns; dbWriter's last flush is part of this step.
TickerStops(w)    == w \in Tickers /\ cancelled /\ Move(w, "select", "done")

\* A listener binds its port, or logs the error and returns.
Binds(w)     == w \in Listeners /\ Move(w, "bind", IF w = "apiWorker" THEN "serve" ELSE "top")
BindFails(w) == w \in Listeners /\ Move(w, "bind", "done")

\* The packet and connection loops look at ctx.Done before each read or Accept.
LooksAtDone(w) == /\ w \in Listeners \ {"apiWorker"}
                  /\ Move(w, "top", IF cancelled THEN "done" ELSE "blocked")

\* A datagram or a connection arrives and is handled (a connection in a
\* goroutine of its own).
Arrives(w) == w \in Listeners \ {"apiWorker"} /\ Move(w, "blocked", "top")

\* The deadline set before the read or Accept passes.  hepTLSWorker sets none:
\* its Accept returns only when a connection arrives.
DeadlinePasses(w) == w \in Pollers /\ Move(w, "blocked", "top")
-----------------------------------------------------------------------------
\* The HTTP server takes requests while it listens.
RequestArrives(r) ==
    /\ ~exited
    /\ request[r] = "none"
    /\ request' = [request EXCEPT ![r] =
          IF at["apiWorker"] = "serve" THEN "serving" ELSE "refused"]
    /\ UNCHANGED <<cancelled, at, shutdown, exited>>

RequestAnswered(r) ==
    /\ ~exited
    /\ request[r] = "serving"
    /\ request' = [request EXCEPT ![r] = "answered"]
    /\ UNCHANGED <<cancelled, at, shutdown, exited>>

\* srv.Shutdown closes the listener, which makes ListenAndServe, and with it
\* apiWorker, return at once (or never start to serve); Shutdown itself goes on
\* waiting for requests.
ShutdownStarts ==
    /\ ~exited
    /\ cancelled
    /\ shutdown = "waiting"
    /\ shutdown' = "draining"
    /\ at' = [at EXCEPT !["apiWorker"] = "done"]
    /\ UNCHANGED <<cancelled, request, exited>>

ShutdownFinishes ==
    /\ ~exited
    /\ shutdown = "draining"
    /\ \A r \in Requests : request[r] # "serving"
    /\ shutdown' = "done"
    /\ UNCHANGED <<cancelled, at, request, exited>>
-----------------------------------------------------------------------------
\* SIGINT or SIGTERM.
Cancel == /\ ~cancelled
          /\ cancelled' = TRUE
          /\ UNCHANGED <<at, request, shutdown, exited>>

\* Mutant: main does not wait for the API.
ExitEarly == /\ ~exited
             /\ \A w \in Workers \ {"apiWorker"} : at[w] = "done"
             /\ exited' = TRUE
             /\ request' = [r \in Requests |->
                   IF request[r] = "serving" THEN "cut" ELSE request[r]]
             /\ UNCHANGED <<cancelled, at, shutdown>>

\* wg.Wait returns, the database is closed, main returns and the process ends
\* with whatever it was still serving.
Exit == /\ ~exited
        /\ \A w \in Workers : at[w] = "done"
        /\ exited' = TRUE
        /\ request' = [r \in Requests |->
              IF request[r] = "serving" THEN "cut" ELSE request[r]]
        /\ UNCHANGED <<cancelled, at, shutdown>>

\* What a worker does without anything arriving.
Step(w) == Binds(w) \/ BindFails(w) \/ LooksAtDone(w) \/ DeadlinePasses(w)

Next == \/ \E w \in Workers : \/ Step(w) \/ Arrives(w)
                              \/ TickerFires(w) \/ TickerFinishes(w) \/ TickerStops(w)
        \/ \E r \in Requests : RequestArrives(r) \/ RequestAnswered(r)
        \/ ShutdownStarts \/ ShutdownFinishes
        \/ Cancel \/ Exit

(***************************************************************************)
(* Fairness.  Goroutines that can run do run; ctx.Done stays ready, and a  *)
(* select that has it ready again and again takes it (strong fairness).    *)
(* Packets, connections, requests and the signal need never come.  A worker*)
(* or a handler need never get the connection to the database that it waits*)
(* for (module Pool shows how the pool jams), so neither TickerFinishes nor*)
(* RequestAnswered is fair.                                                *)
(***************************************************************************)
Fairness == /\ \A w \in Workers : WF_vars(Step(w)) /\ SF_vars(TickerStops(w))
            /\ WF_vars(ShutdownStarts) /\ WF_vars(ShutdownFinishes)
            /\ WF_vars(Exit)

Spec == Init /\ [][Next]_vars

FairSpec == Spec /\ Fairness
-----------------------------------------------------------------------------
\* hepTLSWorker waits for a connection, without a deadline.
InAccept == "hepTLSWorker" \in Workers /\ at["hepTLSWorker"] = "blocked"

\* No worker waits for the database for ever.
QueriesEnd == \A w \in Tickers : []<>(at[w] # "busy")

\* After SIGINT or SIGTERM the packet workers, hepTCPWorker and the API return
\* with no packet, connection or request arriving to help and whatever the
\* database does; so does each other worker whose queries end.  A worker whose
\* query never ends, and hepTLSWorker in Accept, are all that can keep main from
\* returning; a request that is never answered cannot (main.go, api.go apiWorker).
ShutdownCompletes ==
    /\ cancelled ~> \A w \in Workers \ (Tickers \cup {"hepTLSWorker"}) : at[w] = "done"
    /\ \A w \in Tickers : []<>(at[w] # "busy") => (cancelled ~> at[w] = "done")
    /\ QueriesEnd /\ []<>~InAccept => (cancelled ~> exited)

\* After SIGINT or SIGTERM all workers return and main with them, provided that
\* their queries end: what docs/MODULE_SPLIT.md says.
AllWorkersShutDown == QueriesEnd => (cancelled ~> exited)

\* A request that was being served is lost only when main returns while
\* srv.Shutdown is still waiting for it, never because the server was forgotten.
CutOnlyWhileDraining == \A r \in Requests : request[r] = "cut" => shutdown = "draining"
=============================================================================
