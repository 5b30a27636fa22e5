-------------------------------- MODULE Pool --------------------------------
(***************************************************************************)
(* The database connection pool of zaman-core and who competes for it: the *)
(* cache worker that rebuilds six entries one after the other              *)
(* (core-go/cache.go), the API handlers that answer from the cache or build*)
(* the answer themselves (core-go/api.go), and the database writer.        *)
(*                                                                         *)
(* Every query takes a connection and gives it back.  buildNodesJSON is    *)
(* different (core-go/reports.go): it runs one query for each agent while  *)
(* the rows of its outer query are still open, so it needs a second        *)
(* connection while it holds the first.  No query has a deadline.  The     *)
(* database may be down: queries fail then, and a builder that meets an    *)
(* error gives an empty or a shortened result instead.                     *)
(*                                                                         *)
(* Abstractions: a builder that runs several queries in sequence is one    *)
(* query; of an entry only matters whether it was built without an error.  *)
(***************************************************************************)
EXTENDS Naturals, Sequences, FiniteSets

CONSTANTS PoolSize,   \* SetMaxOpenConns; 10 in the code
          Handlers,   \* goroutines that serve API requests
          MaxAgents,  \* bound on the agents seen in the last five minutes
          Watched     \* the entries whose contents are followed

\* The entries in the order refreshCache builds them.
Entries == <<"realtime", "nodes", "calls", "top_talkers", "agents", "sla_agents">>

EntryNames == {Entries[i] : i \in DOMAIN Entries}

ASSUME PoolAssumption == /\ PoolSize \in Nat \ {0}
                         /\ IsFiniteSet(Handlers)
                         /\ {"cache", "writer"} \cap Handlers = {}
                         /\ MaxAgents \in Nat
                         /\ Watched \subseteq EntryNames

Users == Handlers \cup {"cache", "writer"}

VARIABLES at,       \* user -> "idle" | "want" | "query" | "want2" | "query2"
          wants,    \* user -> the entry it builds, or "tx" for the writer
          agents,   \* user -> agents buildNodesJSON has still to look up
          free,     \* connections that nobody holds
          cached,   \* keys that the cache has
          wrong,    \* watched keys whose entry was built with an error
          failed,   \* refreshCache has met an error in the entry it builds
          next,     \* the entry refreshCache builds next; 0 between refreshes
          dbUp      \* the database answers

cache == <<cached, wrong, failed>>
vars == <<at, wants, agents, free, cache, next, dbUp>>

\* cacheWorker refreshes once before its first tick.
Init == /\ at = [u \in Users |-> "idle"]
        /\ wants = [u \in Users |-> "tx"]
        /\ agents = [u \in Users |-> 0]
        /\ free = PoolSize
        /\ cached = {}
        /\ wrong = {}
        /\ failed = FALSE
        /\ next = 1
        /\ dbUp = TRUE
-----------------------------------------------------------------------------
Begin(u, what) == /\ at[u] = "idle"
                  /\ at' = [at EXCEPT ![u] = "want"]
                  /\ wants' = [wants EXCEPT ![u] = what]
                  /\ UNCHANGED <<agents, free, cache, dbUp>>

\* The ticker, every 3 seconds; ticks that come during a refresh are lost.
CacheTick == /\ at["cache"] = "idle"
             /\ next = 0
             /\ next' = 1
             /\ UNCHANGED <<at, wants, agents, free, cache, dbUp>>

CacheBuilds == /\ next > 0
               /\ Begin("cache", Entries[next])
               /\ UNCHANGED next

\* Reports that a request may ask for with parameters (a window, a filter, a
\* limit); then the cache is passed by.
Filtered == {"realtime", "calls", "top_talkers"}

\* Mutant: the handler does not look into the cache.
HandlerBuildsAlways(h, key) == /\ h \in Handlers
                               /\ Begin(h, key)
                               /\ UNCHANGED next

\* A request for a cached key is answered without the database; before the
\* first refresh has set the key, the handler builds the answer.
HandlerBuilds(h, key) == /\ h \in Handlers
                         /\ key \in Filtered \/ key \notin cached
                         /\ Begin(h, key)
                         /\ UNCHANGED next

WriterBegins == Begin("writer", "tx") /\ UNCHANGED next

\* The pool hands a free connection to one of those who wait.
GetConn(u) == /\ at[u] = "want"
              /\ free > 0
              /\ free' = free - 1
              /\ at' = [at EXCEPT ![u] = "query"]
              /\ \E n \in 0 .. MaxAgents :
                    agents' = [agents EXCEPT ![u] =
                                 IF wants[u] = "nodes" THEN n ELSE 0]
              /\ UNCHANGED <<wants, cache, next, dbUp>>

\* buildNodesJSON: rows.Next, then a query for this agent's active calls.
NextAgent(u) == /\ at[u] = "query"
                /\ agents[u] > 0
                /\ at' = [at EXCEPT ![u] = "want2"]
                /\ UNCHANGED <<wants, agents, free, cache, next, dbUp>>

GetSecondConn(u) == /\ at[u] = "want2"
                    /\ free > 0
                    /\ free' = free - 1
                    /\ at' = [at EXCEPT ![u] = "query2"]
                    /\ UNCHANGED <<wants, agents, cache, next, dbUp>>

\* The cache worker builds an entry that is followed.
Watches(u) == u = "cache" /\ wants[u] \in Watched

\* The inner query is over: its error is not looked at, the count stays 0.
InnerResult(u) == /\ at[u] = "query2"
                  /\ at' = [at EXCEPT ![u] = "query"]
                  /\ agents' = [agents EXCEPT ![u] = @ - 1]
                  /\ \E ok \in BOOLEAN : /\ dbUp => ok
                                         /\ failed' = (failed \/ (~ok /\ Watches(u)))
                  /\ UNCHANGED <<wants, cached, wrong, next, dbUp>>

\* Mutant: the connection of the inner query is not given back.
InnerDoneLeaks(u) == InnerResult(u) /\ UNCHANGED free

\* Scan gives the connection back.
InnerDone(u) == InnerResult(u) /\ free' = free + 1

\* Mutant: an entry that is there stays.
SetEntryOnce(key) == /\ cached' = cached \cup {key}
                     /\ wrong' = IF failed /\ key \notin cached
                                 THEN wrong \cup ({key} \cap Watched)
                                 ELSE wrong
                     /\ failed' = FALSE

\* cache.Set: the entry takes the place of the one before, whatever it is worth.
SetEntry(key) == /\ cached' = cached \cup {key}
                 /\ wrong' = IF failed THEN wrong \cup ({key} \cap Watched)
                            ELSE wrong \ {key}
                 /\ failed' = FALSE

\* Mutant: the refresh never comes to its end.
DoneStartsOver(u) == /\ at[u] = "query"
                     /\ agents[u] = 0
                     /\ free' = free + 1
                     /\ at' = [at EXCEPT ![u] = "idle"]
                     /\ IF u = "cache"
                        THEN /\ SetEntry(wants[u])
                             /\ next' = IF next = Len(Entries) THEN 1 ELSE next + 1
                        ELSE UNCHANGED <<cache, next>>
                     /\ UNCHANGED <<wants, agents, dbUp>>

\* The query, or the outer query with its rows, is finished or has failed.
Done(u) == /\ at[u] = "query"
           /\ agents[u] = 0
           /\ free' = free + 1
           /\ at' = [at EXCEPT ![u] = "idle"]
           /\ IF u = "cache"
              THEN /\ SetEntry(wants[u])
                   /\ next' = IF next = Len(Entries) THEN 0 ELSE next + 1
              ELSE UNCHANGED <<cache, next>>
           /\ UNCHANGED <<wants, agents, dbUp>>

\* An error of the query, or of the rows, ends the loop over them.
QueryFails(u) == /\ at[u] = "query"
                 /\ ~dbUp
                 /\ agents[u] > 0 \/ (Watches(u) /\ ~failed)
                 /\ agents' = [agents EXCEPT ![u] = 0]
                 /\ failed' = (failed \/ Watches(u))
                 /\ UNCHANGED <<at, wants, free, cached, wrong, next, dbUp>>

\* The database goes down, or comes back.
DbChanges == /\ dbUp' = ~dbUp
             /\ UNCHANGED <<at, wants, agents, free, cache, next>>

Proceed(u) == NextAgent(u) \/ InnerDone(u) \/ Done(u) \/ QueryFails(u)

Next == \/ CacheTick \/ CacheBuilds \/ WriterBegins \/ DbChanges
        \/ \E h \in Handlers, key \in EntryNames : HandlerBuilds(h, key)
        \/ \E u \in Users : GetConn(u) \/ GetSecondConn(u) \/ Proceed(u)

(***************************************************************************)
(* Fairness.  Queries end, the ticker ticks, and the pool serves a waiting *)
(* request that finds a connection free again and again (database/sql      *)
(* takes waiting requests in no fixed order).                              *)
(***************************************************************************)
Fairness == /\ WF_vars(CacheTick) /\ WF_vars(CacheBuilds)
            /\ \A u \in Users : /\ WF_vars(Proceed(u))
                                /\ SF_vars(GetConn(u))
                                /\ SF_vars(GetSecondConn(u))

Spec == Init /\ [][Next]_vars

FairSpec == Spec /\ Fairness
-----------------------------------------------------------------------------
Outer == {u \in Users : at[u] \in {"query", "want2", "query2"}}
Inner == {u \in Users : at[u] = "query2"}

\* No connection is lost: those that are not free are held by a query that is
\* running, once for each open result.
NoConnLeaked == free + Cardinality(Outer) + Cardinality(Inner) = PoolSize

\* The pool is stuck: every connection is held by buildNodesJSON waiting for a
\* second one.
Stuck == free = 0 /\ \A u \in Outer : at[u] = "want2"

\* The node list is in the cache and the handlers that missed it are finished.
Warm == /\ "nodes" \in cached
        /\ \A h \in Handlers : at[h] # "idle" => wants[h] # "nodes"

\* Only the start is dangerous: once the pool is warm it never gets stuck again,
\* however many requests come, since only the cache worker still needs two
\* connections at once and nobody else waits for one while holding one.
WarmPoolNeverStuck == PoolSize > 1 => [](Warm => []~Stuck)

\* The cache goes on being refreshed: refreshCache returns again and again.
CacheIsRefreshed == []<>(next = 0)

\* Nothing but that jam keeps anyone waiting: in a run where the pool never gets
\* stuck, whoever asks it for a connection, the database writer included, gets
\* it and finishes, and refreshCache returns again and again.
ServedUnlessStuck ==
    []~Stuck => /\ CacheIsRefreshed
                /\ \A u \in Users : at[u] # "idle" ~> at[u] = "idle"

\* An error does not stay: once the database is up for good, and the pool does not
\* get stuck, every entry of the cache comes to be one that was built without an
\* error, and stays so.
CacheHeals == []~Stuck /\ <>[]dbUp => <>[](cached = EntryNames /\ wrong = {})
=============================================================================
