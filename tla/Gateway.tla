------------------------------ MODULE Gateway ------------------------------
(***************************************************************************)
(* The way of a request to zaman-core: zaman-web's session check and proxy *)
(* (web/main.go), then the rate limiter, the API key and the handler       *)
(* (core-go/api.go).                                                       *)
(*                                                                         *)
(* Time is counted in ticks, TicksPerSecond of them in a second; the code  *)
(* reads whole seconds.  An address is what clientIP makes of a request; a *)
(* user's and a tool's own are named like them.  A request takes no time   *)
(* on this scale, but for the ones to /api/stats, whose handler calls the  *)
(* router again.                                                           *)
(***************************************************************************)
EXTENDS Integers, FiniteSets, FiniteSetsExt

CONSTANTS
    Users,           \* of zaman-web
    Tools,           \* clients that call zaman-core directly
    WebHost,         \* the address of zaman-web
    RateLimit,       \* requests per second and address; 0 for no limit
    TicksPerSecond,
    TokenLife,       \* seconds; 86400 in the code
    LastTick,        \* bound on time
    MaxRequests      \* bound on the requests of a second

ASSUME GatewayAssumption ==
    /\ RateLimit \in Nat /\ TicksPerSecond \in Nat \ {0}
    /\ TokenLife \in Nat /\ LastTick \in Nat /\ MaxRequests \in Nat
    /\ WebHost \notin Users \cup Tools

VARIABLES
    clock,
    trusted,    \* is zaman-web the TrustedProxy of zaman-core?
    second,     \* of the limiter's buckets
    buckets,    \* address -> count; addresses with 0 are not in the map
    looping,    \* requests to /api/stats that have not been answered
    role,       \* user -> role in the users file, "none" if not there; a new
                \* file has one admin
    token,      \* user -> the session cookie it has
    asked,      \* history: address -> requests that came from it this second
    loopers,    \* history: addresses with a request to /api/stats this second, of
                \* this second or not yet answered when it began
    passed,     \* history: address -> age in ticks -> requests the limiter let
                \* pass, for the last second's length
    lastAdmin   \* history: user -> last second in which it was an admin

webVars   == <<role, token, lastAdmin>>
limitVars == <<second, buckets>>
gateVars == <<clock, trusted, limitVars, looping, webVars, asked, loopers, passed>>

Addresses == Users \cup Tools \cup {WebHost}

Ages == 0 .. TicksPerSecond - 1

Second(t) == t \div TicksPerSecond

NoToken == [role |-> "none", expires |-> 0]
Never == -TokenLife - 1

GatewayInit == /\ clock = 0
               /\ trusted \in BOOLEAN
               /\ second = 0
               /\ buckets = [a \in Addresses |-> 0]
               /\ looping = {}
               /\ \E admin \in Users :
                     role = [u \in Users |-> IF u = admin THEN "admin" ELSE "none"]
               /\ token = [u \in Users |-> NoToken]
               /\ asked = [a \in Addresses |-> 0]
               /\ loopers = {}
               /\ passed = [a \in Addresses |-> [age \in Ages |-> 0]]
               /\ lastAdmin = [u \in Users |-> IF role[u] = "admin" THEN 0 ELSE Never]
-----------------------------------------------------------------------------
(***************************************************************************)
(* zaman-core                                                              *)
(***************************************************************************)
\* Mutant: the counts are never reset.
CountsForever == buckets

\* The counts after the window has been moved on to the current second.
Counts == IF Second(clock) # second THEN [a \in Addresses |-> 0] ELSE buckets

\* allow counts a request also when it refuses it, and none without a limit.
Count(addr) == IF RateLimit = 0
               THEN UNCHANGED limitVars
               ELSE /\ buckets' = [Counts EXCEPT ![addr] = @ + 1]
                    /\ second' = Second(clock)

\* Mutant: one request too many.
allowOneMore(addr) == RateLimit = 0 \/ Counts[addr] <= RateLimit

allow(addr) == RateLimit = 0 \/ Counts[addr] < RateLimit

Arrives(addr) == /\ MapThenSumSet(LAMBDA a : asked[a], Addresses) < MaxRequests
                 /\ asked' = [asked EXCEPT ![addr] = @ + 1]

Passes(addr) == /\ allow(addr)
                /\ Count(addr)
                /\ passed' = [passed EXCEPT ![addr][0] = @ + 1]

\* withRateLimit answers 429, before the key is looked at.
TooMany(addr) == /\ Arrives(addr)
                 /\ ~allow(addr)
                 /\ Count(addr)
                 /\ UNCHANGED <<looping, loopers, passed>>

\* withRateLimit, then requireAuth's 401 or the handler's answer.
Answered(addr) == /\ Arrives(addr)
                  /\ Passes(addr)
                  /\ UNCHANGED <<looping, loopers>>

\* With the key, the handler of /api/stats hands its request to the router, which
\* calls it again, through the limiter, and so on until the limiter refuses; with
\* no limit this never ends.  (Bound: one at a time from an address.)
AskStats(addr, key) == /\ Arrives(addr)
                       /\ key /\ addr \notin looping
                       /\ Passes(addr)
                       /\ looping' = looping \cup {addr}
                       /\ loopers' = loopers \cup {addr}

CoreRequest(addr, key) == TooMany(addr) \/ Answered(addr) \/ AskStats(addr, key)

StatsAgain(addr) == /\ addr \in looping
                    /\ Passes(addr)
                    /\ UNCHANGED <<clock, trusted, looping, webVars, asked, loopers>>

StatsRefused(addr) == /\ addr \in looping
                      /\ ~allow(addr)
                      /\ Count(addr)
                      /\ looping' = looping \ {addr}
                      /\ UNCHANGED <<clock, trusted, webVars, asked, loopers, passed>>
-----------------------------------------------------------------------------
(***************************************************************************)
(* zaman-web                                                               *)
(***************************************************************************)
\* makeToken: a session is for the role of the moment.
Login(u) == /\ role[u] # "none"
            /\ token' = [token EXCEPT ![u] = [role |-> role[u],
                                              expires |-> Second(clock) + TokenLife]]
            /\ UNCHANGED <<clock, trusted, limitVars, looping, role, lastAdmin, asked,
                           loopers, passed>>

\* Mutant: the time is not looked at.
AcceptedAnyTime(u) == token[u] # NoToken

\* verifyToken: the users file is not looked at.
Accepted(u) == token[u] # NoToken /\ token[u].expires >= Second(clock)

\* The addresses that clientIP may make of a request of u.  The proxy appends u's
\* own to the X-Forwarded-For of the request, and clientIP takes the first one of a
\* trusted proxy: u's own, or whatever u's request had there.
AddressesOf(u) == IF trusted THEN Addresses ELSE {WebHost}

\* The proxy adds the API key to the requests of whoever is logged in.
WebRequest(u) == /\ Accepted(u)
                 /\ \E addr \in AddressesOf(u) : CoreRequest(addr, TRUE)
                 /\ UNCHANGED <<clock, trusted, webVars>>

ToolRequest(t) == /\ \E key \in BOOLEAN : CoreRequest(t, key)
                  /\ UNCHANGED <<clock, trusted, webVars>>

\* /web/users: an admin, by its session, adds or deletes a user; it does not delete
\* itself, but may have been deleted by another and add itself again.
SetUser(admin, u, r) == /\ Accepted(admin) /\ token[admin].role = "admin"
                        /\ admin = u => r # "none"
                        /\ (role[u] = "none") # (r = "none")
                        /\ role' = [role EXCEPT ![u] = r]
                        /\ lastAdmin' = IF r = "admin"
                                        THEN [lastAdmin EXCEPT ![u] = Second(clock)]
                                        ELSE lastAdmin
                        /\ UNCHANGED <<clock, trusted, limitVars, looping, token, asked,
                                       loopers, passed>>
-----------------------------------------------------------------------------
ClockTick == /\ clock < LastTick
             /\ clock' = clock + 1
             /\ lastAdmin' = [u \in Users |-> IF role[u] = "admin" THEN Second(clock')
                                              ELSE lastAdmin[u]]
             /\ IF Second(clock') # Second(clock)
                THEN asked' = [a \in Addresses |-> 0] /\ loopers' = looping
                ELSE UNCHANGED <<asked, loopers>>
             /\ passed' = [a \in Addresses |-> [age \in Ages |->
                             IF age = 0 THEN 0 ELSE passed[a][age - 1]]]
             /\ UNCHANGED <<trusted, limitVars, looping, role, token>>

GatewayNext == \/ \E u \in Users : Login(u) \/ WebRequest(u)
               \/ \E t \in Tools : ToolRequest(t)
               \/ \E addr \in Addresses : StatsAgain(addr) \/ StatsRefused(addr)
               \/ \E admin, u \in Users, r \in {"admin", "viewer", "none"} : SetUser(admin, u, r)
               \/ ClockTick

GatewaySpec == GatewayInit /\ [][GatewayNext]_gateVars
-----------------------------------------------------------------------------
\* However requests, ticks and clients interleave, no more than RateLimit
\* requests with an address pass in a second of the clock, and no more than twice
\* as many in any second's length; if there is a limit (api.go
\* apiRateLimiter.allow).
WindowBound ==
    RateLimit > 0 =>
    \A addr \in Addresses :
        LET In(ages) == MapThenSumSet(LAMBDA age : passed[addr][age], ages)
        IN  /\ In({age \in Ages : age <= clock % TicksPerSecond}) <= RateLimit
            /\ In(Ages) <= 2 * RateLimit

\* A request would be refused only after RateLimit others came with its address in
\* the same second, whoever sent them, or while or after one to /api/stats was
\* passed on in this second, which uses up the limit by itself and may have come
\* seconds ago; whatever else came in earlier seconds does not count (api.go
\* withRateLimit, clientIP, /api/stats).
LightClientsServed ==
    \A addr \in Addresses :
        allow(addr) \/ asked[addr] >= RateLimit \/ addr \in loopers

\* What a user may do by its session is at most TokenLife seconds old: whoever is
\* accepted as an admin has been one within that time, although users are deleted
\* and added again and the users file is not looked at (web/main.go makeToken,
\* verifyToken).
StaleRightsBounded ==
    \A u \in Users : Accepted(u) /\ token[u].role = "admin" =>
                        Second(clock) - lastAdmin[u] <= TokenLife
=============================================================================
