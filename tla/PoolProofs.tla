----------------------------- MODULE PoolProofs -----------------------------
(***************************************************************************)
(* Proofs about Pool, for every pool size and any number of handlers: no   *)
(* connection is lost, and a pool that is warm never gets stuck.           *)
(***************************************************************************)
EXTENDS Pool, FiniteSetTheorems, TLAPS

\* Where a query holds its first connection.
OuterPlaces == {"query", "want2", "query2"}

PoolTypeOK == /\ at \in [Users -> {"idle", "want"} \cup OuterPlaces]
              /\ wants \in [Users -> EntryNames \cup {"tx"}]
              /\ agents \in [Users -> Nat]
              /\ free \in Nat
              /\ next \in 0 .. Len(Entries)

\* Only buildNodesJSON asks for a second connection, while it has agents to look
\* up and holds its first; and the writer builds no entry.
TwoForNodes == /\ \A u \in Users : agents[u] > 0 => /\ at[u] \in OuterPlaces
                                                    /\ wants[u] = "nodes"
               /\ \A u \in Users : at[u] \in {"want2", "query2"} => agents[u] > 0
               /\ wants["writer"] = "tx"

PoolInv == PoolTypeOK /\ TwoForNodes /\ NoConnLeaked
-----------------------------------------------------------------------------
\* The users of the pool are finitely many.
LEMMA UsersFinite == IsFiniteSet(Users) /\ "cache" \in Users /\ "writer" \in Users
<1>1. IsFiniteSet({"cache", "writer"})
  <2>1. {"cache", "writer"} = {"cache"} \cup {"writer"}
    OBVIOUS
  <2>2. IsFiniteSet({"cache"})
    BY FS_Singleton
  <2> QED
    BY <2>1, <2>2, FS_AddElement, Zenon
<1> QED
  BY <1>1, PoolAssumption, FS_Union DEF Users

\* There are six entries, and "nodes" is one of them.
LEMMA EntriesOK == /\ Len(Entries) = 6
                   /\ \A i \in 1 .. Len(Entries) : Entries[i] \in EntryNames
                   /\ "nodes" \in EntryNames /\ "tx" \notin EntryNames
  BY DEF Entries, EntryNames

\* One member less.
LEMMA RemoveOne ==
    ASSUME NEW S, IsFiniteSet(S), NEW x \in S
    PROVE  Cardinality(S \ {x}) = Cardinality(S) - 1
  BY FS_RemoveElement

\* One member more.
LEMMA AddOne ==
    ASSUME NEW S, IsFiniteSet(S), NEW x, x \notin S
    PROVE  Cardinality(S \cup {x}) = Cardinality(S) + 1
  BY FS_AddElement

\* The users that are at some places.
UsersAt(P) == {x \in Users : at[x] \in P}

One(x, P) == IF x \in P THEN 1 ELSE 0

\* How the move of one user changes the number of those at some places.
LEMMA CountMoves ==
    ASSUME PoolTypeOK, NEW u \in Users, NEW to, at' = [at EXCEPT ![u] = to], NEW P
    PROVE  /\ Cardinality(UsersAt(P)) \in Nat
           /\ Cardinality(UsersAt(P)')
                = Cardinality(UsersAt(P)) + One(to, P) - One(at[u], P)
<1> DEFINE S == UsersAt(P)
           T == UsersAt(P)'
<1>1. IsFiniteSet(S) /\ Cardinality(S) \in Nat
  BY UsersFinite, FS_Subset, FS_CardinalityType DEF UsersAt
<1> USE DEF PoolTypeOK
<1>2. CASE to \in P <=> at[u] \in P
  <2>1. T = S
    BY <1>2 DEF UsersAt
  <2> QED
    BY <1>1, <1>2, <2>1 DEF One
<1>3. CASE to \in P /\ at[u] \notin P
  <2>1. T = S \cup {u} /\ u \notin S
    BY <1>3 DEF UsersAt
  <2> HIDE DEF S, T
  <2>2. Cardinality(T) = Cardinality(S) + 1
    BY <1>1, <2>1, AddOne, Zenon
  <2> QED
    BY <1>1, <1>3, <2>2 DEF S, T, One
<1>4. CASE to \notin P /\ at[u] \in P
  <2>1. T = S \ {u} /\ u \in S
    BY <1>4 DEF UsersAt
  <2> HIDE DEF S, T
  <2>2. Cardinality(T) = Cardinality(S) - 1
    BY <1>1, <2>1, RemoveOne, Zenon
  <2> QED
    BY <1>1, <1>4, <2>2 DEF S, T, One
<1> QED
  BY <1>1, <1>2, <1>3, <1>4

\* The same for the two sets whose sizes the pool is about.
LEMMA PoolMoves ==
    ASSUME PoolTypeOK, NEW u \in Users, NEW to, at' = [at EXCEPT ![u] = to]
    PROVE  /\ Cardinality(Outer) \in Nat /\ Cardinality(Inner) \in Nat
           /\ Cardinality(Outer') = Cardinality(Outer) + One(to, OuterPlaces)
                                    - One(at[u], OuterPlaces)
           /\ Cardinality(Inner') = Cardinality(Inner) + One(to, {"query2"})
                                    - One(at[u], {"query2"})
<1>1. Outer = UsersAt(OuterPlaces) /\ Outer' = UsersAt(OuterPlaces)'
  BY DEF Outer, OuterPlaces, UsersAt
<1>2. Inner = UsersAt({"query2"}) /\ Inner' = UsersAt({"query2"})'
  BY DEF Inner, UsersAt
<1>3. /\ Cardinality(Outer) \in Nat
      /\ Cardinality(Outer') = Cardinality(Outer) + One(to, OuterPlaces)
                               - One(at[u], OuterPlaces)
  BY <1>1, CountMoves
<1>4. /\ Cardinality(Inner) \in Nat
      /\ Cardinality(Inner') = Cardinality(Inner) + One(to, {"query2"})
                               - One(at[u], {"query2"})
  BY <1>2, CountMoves
<1> QED
  BY <1>3, <1>4

\* What a user takes from the pool or gives back when it moves keeps the sum.
LEMMA ConnsKept ==
    ASSUME PoolTypeOK, NoConnLeaked, NEW u \in Users, NEW to,
           at' = [at EXCEPT ![u] = to],
           free' = free + One(at[u], OuterPlaces) + One(at[u], {"query2"})
                        - One(to, OuterPlaces) - One(to, {"query2"})
    PROVE  NoConnLeaked'
<1>1. PICK o \in Nat, i \in Nat : o = Cardinality(Outer) /\ i = Cardinality(Inner)
  BY PoolMoves
<1>2. PICK a \in {0, 1}, b \in {0, 1}, c \in {0, 1}, d \in {0, 1} :
           /\ a = One(at[u], OuterPlaces) /\ b = One(at[u], {"query2"})
           /\ c = One(to, OuterPlaces) /\ d = One(to, {"query2"})
  BY DEF One
<1>3. Cardinality(Outer') = o + c - a /\ Cardinality(Inner') = i + d - b
  BY <1>1, <1>2, PoolMoves
<1>4. free' = free + a + b - c - d
  BY <1>2 DEF One
<1>5. free \in Nat /\ free + o + i = PoolSize
  BY <1>1 DEF PoolTypeOK, NoConnLeaked
<1>6. free' + (o + c - a) + (i + d - b) = PoolSize
  BY <1>4, <1>5
<1> QED
  BY <1>3, <1>6 DEF NoConnLeaked
-----------------------------------------------------------------------------
\* Before the first request.
LEMMA PoolInit == Init => PoolInv
<1>1. SUFFICES ASSUME Init PROVE PoolInv
  OBVIOUS
<1>2. PoolTypeOK
  BY <1>1, PoolAssumption, EntriesOK DEF Init, PoolTypeOK
<1>3. TwoForNodes
  BY <1>1, UsersFinite DEF Init, TwoForNodes
<1>4. NoConnLeaked
  <2>1. Outer = {} /\ Inner = {}
    BY <1>1 DEF Init, Outer, Inner
  <2> QED
    BY <1>1, <2>1, FS_EmptySet, PoolAssumption DEF Init, NoConnLeaked
<1> QED
  BY <1>2, <1>3, <1>4 DEF PoolInv

\* A user that has no query running starts one.
LEMMA BeginInv ==
    ASSUME PoolInv, NEW u \in Users, NEW what \in EntryNames \cup {"tx"},
           u = "writer" => what = "tx", Begin(u, what), UNCHANGED next
    PROVE  PoolInv'
<1> USE DEF PoolInv
<1>1. PoolTypeOK'
  BY DEF PoolTypeOK, OuterPlaces, Begin
<1>2. TwoForNodes'
  BY UsersFinite DEF PoolTypeOK, TwoForNodes, OuterPlaces, Begin
<1>3. NoConnLeaked'
  <2>1. /\ at' = [at EXCEPT ![u] = "want"]
        /\ free' = free + One(at[u], OuterPlaces) + One(at[u], {"query2"})
                     - One("want", OuterPlaces) - One("want", {"query2"})
    BY PoolAssumption DEF PoolTypeOK, Begin, One, OuterPlaces
  <2> QED
    BY <2>1, ConnsKept
<1> QED
  BY <1>1, <1>2, <1>3

\* A connection is taken from the pool.
LEMMA GetConnInv ==
    ASSUME PoolInv, NEW u \in Users, GetConn(u) \/ GetSecondConn(u)
    PROVE  PoolInv'
<1> USE DEF PoolInv
<1>1. CASE GetConn(u)
  <2>1. PICK n \in 0 .. MaxAgents :
             agents' = [agents EXCEPT ![u] = IF wants[u] = "nodes" THEN n ELSE 0]
    BY <1>1 DEF GetConn
  <2>2. n \in Nat
    BY PoolAssumption
  <2>3. PoolTypeOK'
    BY <1>1, <2>1, <2>2 DEF PoolTypeOK, OuterPlaces, GetConn
  <2>4. TwoForNodes'
    BY <1>1, <2>1, <2>2, UsersFinite DEF PoolTypeOK, TwoForNodes, OuterPlaces, GetConn
  <2>5. NoConnLeaked'
    <3>1. /\ at' = [at EXCEPT ![u] = "query"]
          /\ free' = free + One(at[u], OuterPlaces) + One(at[u], {"query2"})
                       - One("query", OuterPlaces) - One("query", {"query2"})
      BY <1>1, PoolAssumption DEF PoolTypeOK, GetConn, One, OuterPlaces
    <3> QED
      BY <3>1, ConnsKept
  <2> QED
    BY <2>3, <2>4, <2>5
<1>2. CASE GetSecondConn(u)
  <2>1. PoolTypeOK'
    BY <1>2 DEF PoolTypeOK, OuterPlaces, GetSecondConn
  <2>2. TwoForNodes'
    BY <1>2, UsersFinite DEF PoolTypeOK, TwoForNodes, OuterPlaces, GetSecondConn
  <2>3. NoConnLeaked'
    <3>1. /\ at' = [at EXCEPT ![u] = "query2"]
          /\ free' = free + One(at[u], OuterPlaces) + One(at[u], {"query2"})
                       - One("query2", OuterPlaces) - One("query2", {"query2"})
      BY <1>2, PoolAssumption DEF PoolTypeOK, GetSecondConn, One, OuterPlaces
    <3> QED
      BY <3>1, ConnsKept
  <2> QED
    BY <2>1, <2>2, <2>3
<1> QED
  BY <1>1, <1>2

\* A user goes on, giving back what it holds.
LEMMA ProceedInv ==
    ASSUME PoolInv, NEW u \in Users, Proceed(u)
    PROVE  PoolInv'
<1> USE DEF PoolInv
<1>1. CASE NextAgent(u)
  <2>1. PoolTypeOK'
    BY <1>1 DEF PoolTypeOK, OuterPlaces, NextAgent
  <2>2. TwoForNodes'
    BY <1>1, UsersFinite DEF PoolTypeOK, TwoForNodes, OuterPlaces, NextAgent
  <2>3. NoConnLeaked'
    <3>1. /\ at' = [at EXCEPT ![u] = "want2"]
          /\ free' = free + One(at[u], OuterPlaces) + One(at[u], {"query2"})
                       - One("want2", OuterPlaces) - One("want2", {"query2"})
      BY <1>1, PoolAssumption DEF PoolTypeOK, NextAgent, One, OuterPlaces
    <3> QED
      BY <3>1, ConnsKept
  <2> QED
    BY <2>1, <2>2, <2>3
<1>2. CASE InnerDone(u)
  <2>1. agents[u] \in Nat /\ agents[u] > 0
    BY <1>2 DEF PoolTypeOK, TwoForNodes, OuterPlaces, InnerDone, InnerResult
  <2>2. PoolTypeOK'
    BY <1>2, <2>1 DEF PoolTypeOK, OuterPlaces, InnerDone, InnerResult
  <2>3. TwoForNodes'
    BY <1>2, <2>1, UsersFinite DEF PoolTypeOK, TwoForNodes, OuterPlaces, InnerDone, InnerResult
  <2>4. NoConnLeaked'
    <3>1. /\ at' = [at EXCEPT ![u] = "query"]
          /\ free' = free + One(at[u], OuterPlaces) + One(at[u], {"query2"})
                       - One("query", OuterPlaces) - One("query", {"query2"})
      BY <1>2, PoolAssumption DEF PoolTypeOK, InnerDone, InnerResult, One, OuterPlaces
    <3> QED
      BY <3>1, ConnsKept
  <2> QED
    BY <2>2, <2>3, <2>4
<1>3. CASE Done(u)
  <2>1. next' \in 0 .. Len(Entries)
    BY <1>3, EntriesOK DEF Done, PoolTypeOK, cache
  <2>2. PoolTypeOK'
    BY <1>3, <2>1 DEF PoolTypeOK, OuterPlaces, Done
  <2>3. TwoForNodes'
    BY <1>3, UsersFinite DEF PoolTypeOK, TwoForNodes, OuterPlaces, Done
  <2>4. NoConnLeaked'
    <3>1. /\ at' = [at EXCEPT ![u] = "idle"]
          /\ free' = free + One(at[u], OuterPlaces) + One(at[u], {"query2"})
                       - One("idle", OuterPlaces) - One("idle", {"query2"})
      BY <1>3, PoolAssumption DEF PoolTypeOK, Done, One, OuterPlaces
    <3> QED
      BY <3>1, ConnsKept
  <2> QED
    BY <2>2, <2>3, <2>4
<1>4. CASE QueryFails(u)
  <2>1. PoolTypeOK'
    BY <1>4 DEF PoolTypeOK, OuterPlaces, QueryFails
  <2>2. TwoForNodes'
    BY <1>4, UsersFinite DEF PoolTypeOK, TwoForNodes, OuterPlaces, QueryFails
  <2>3. NoConnLeaked'
    BY <1>4 DEF QueryFails, NoConnLeaked, Outer, Inner
  <2> QED
    BY <2>1, <2>2, <2>3
<1> QED
  BY <1>1, <1>2, <1>3, <1>4 DEF Proceed

\* Every step keeps the invariant.
LEMMA PoolStep == PoolInv /\ [Next]_vars => PoolInv'
<1>1. SUFFICES ASSUME PoolInv, [Next]_vars PROVE PoolInv'
  OBVIOUS
<1>2. CASE CacheTick
  BY <1>1, <1>2, EntriesOK
     DEF CacheTick, PoolInv, PoolTypeOK, TwoForNodes, NoConnLeaked, Outer, Inner
<1>3. CASE CacheBuilds
  <2>1. Entries[next] \in EntryNames
    BY <1>1, <1>3, EntriesOK DEF CacheBuilds, PoolInv, PoolTypeOK
  <2> QED
    BY <1>1, <1>3, <2>1, BeginInv, UsersFinite DEF CacheBuilds
<1>4. CASE WriterBegins
  BY <1>1, <1>4, BeginInv, UsersFinite DEF WriterBegins
<1>5. CASE DbChanges
  BY <1>1, <1>5
     DEF DbChanges, PoolInv, PoolTypeOK, TwoForNodes, NoConnLeaked, Outer, Inner
<1>6. ASSUME NEW h \in Handlers, NEW key \in EntryNames, HandlerBuilds(h, key)
      PROVE  PoolInv'
  <2>1. h \in Users /\ h # "writer"
    BY PoolAssumption DEF Users
  <2> QED
    BY <1>1, <1>6, <2>1, BeginInv DEF HandlerBuilds
<1>7. ASSUME NEW u \in Users, GetConn(u) \/ GetSecondConn(u) \/ Proceed(u)
      PROVE  PoolInv'
  BY <1>1, <1>7, GetConnInv, ProceedInv
<1>8. CASE UNCHANGED vars
  BY <1>1, <1>8
     DEF vars, PoolInv, PoolTypeOK, TwoForNodes, NoConnLeaked, Outer, Inner
<1> QED
  BY <1>1, <1>2, <1>3, <1>4, <1>5, <1>6, <1>7, <1>8 DEF Next

\* The invariant holds throughout.
LEMMA PoolAlways == Spec => []PoolInv
  BY PoolInit, PoolStep, PTL DEF Spec

\* However queries of the cache worker, the handlers and the writer interleave and
\* fail, no connection of the pool is lost or counted twice (core-go/reports.go,
\* db.go): free connections and open results always add up to SetMaxOpenConns.
THEOREM PoolKeepsConns == Spec => []NoConnLeaked
<1>1. PoolInv => NoConnLeaked
  BY DEF PoolInv
<1> QED
  BY PoolAlways, <1>1, PTL
-----------------------------------------------------------------------------
\* A handler that finds the node list in the cache never builds it again.
LEMMA WarmStays == PoolInv /\ Warm /\ [Next]_vars => Warm'
<1>1. SUFFICES ASSUME PoolInv, Warm, [Next]_vars PROVE Warm'
  OBVIOUS
<1>2. "nodes" \in cached'
  <2>1. \A u \in Users : Done(u) => "nodes" \in cached'
    BY <1>1 DEF Warm, Done, SetEntry, cache
  <2>2. \A u \in Users : GetConn(u) \/ GetSecondConn(u) => "nodes" \in cached'
    BY <1>1 DEF Warm, GetConn, GetSecondConn, cache
  <2>3. \A u \in Users : NextAgent(u) \/ InnerDone(u) \/ QueryFails(u) => "nodes" \in cached'
    BY <1>1 DEF Warm, NextAgent, InnerDone, InnerResult, QueryFails, cache
  <2>4. CacheTick \/ CacheBuilds \/ WriterBegins \/ DbChanges \/ UNCHANGED vars
           => "nodes" \in cached'
    BY <1>1 DEF Warm, CacheTick, CacheBuilds, WriterBegins, DbChanges, Begin, vars, cache
  <2>5. \A h \in Handlers, key \in EntryNames : HandlerBuilds(h, key) => "nodes" \in cached'
    BY <1>1 DEF Warm, HandlerBuilds, Begin, cache
  <2> QED
    BY <1>1, <2>1, <2>2, <2>3, <2>4, <2>5 DEF Next, Proceed
<1>3. ASSUME NEW h \in Handlers, at'[h] # "idle" PROVE wants'[h] # "nodes"
  <2>1. /\ h \in Users /\ at \in [Users -> {"idle", "want"} \cup OuterPlaces]
        /\ wants \in [Users -> EntryNames \cup {"tx"}]
        /\ at[h] # "idle" => wants[h] # "nodes"
        /\ "nodes" \in cached /\ "nodes" \notin Filtered
        /\ h # "cache" /\ h # "writer"
    BY <1>1, PoolAssumption DEF Warm, PoolInv, PoolTypeOK, Users, Filtered
  <2>2. ASSUME NEW g \in Handlers, NEW key \in EntryNames, HandlerBuilds(g, key)
        PROVE  wants'[h] # "nodes"
    BY <1>3, <2>1, <2>2 DEF HandlerBuilds, Begin, Users
  <2>3. CASE CacheBuilds
    BY <1>3, <2>1, <2>3, UsersFinite DEF CacheBuilds, Begin
  <2>4. CASE WriterBegins
    BY <1>3, <2>1, <2>4, UsersFinite DEF WriterBegins, Begin
  <2>5. CASE CacheTick \/ DbChanges \/ UNCHANGED vars
    BY <1>3, <2>1, <2>5 DEF CacheTick, DbChanges, vars
  <2>6. ASSUME NEW u \in Users, GetConn(u) \/ GetSecondConn(u)
        PROVE  wants'[h] # "nodes"
    BY <1>3, <2>1, <2>6 DEF GetConn, GetSecondConn
  <2>7. ASSUME NEW u \in Users, Proceed(u)
        PROVE  wants'[h] # "nodes"
    BY <1>3, <2>1, <2>7 DEF Proceed, NextAgent, InnerDone, InnerResult, Done, QueryFails
  <2> QED
    BY <1>1, <2>2, <2>3, <2>4, <2>5, <2>6, <2>7 DEF Next
<1> QED
  BY <1>2, <1>3 DEF Warm

\* In a warm pool only the cache worker can hold one connection and want another.
LEMMA WarmNotStuck ==
    ASSUME PoolInv, Warm, PoolSize > 1
    PROVE  ~Stuck
<1>1. SUFFICES ASSUME Stuck PROVE FALSE
  OBVIOUS
<1>2. ASSUME NEW u \in Outer PROVE u = "cache"
  <2>1. u \in Users /\ wants[u] = "nodes" /\ at[u] = "want2"
    BY <1>1, <1>2 DEF Stuck, PoolInv, PoolTypeOK, TwoForNodes, Outer
  <2>2. u \notin Handlers
    BY <2>1 DEF Warm
  <2>3. u # "writer"
    BY <2>1 DEF PoolInv, TwoForNodes
  <2> QED
    BY <2>1, <2>2, <2>3 DEF Users
<1>3. Outer \in SUBSET {"cache"}
  BY <1>2
<1>4. Inner = {}
  BY <1>1 DEF Stuck, Inner, Outer
<1>5. Cardinality(Outer) \in Nat /\ Cardinality(Outer) <= 1
  <2>1. IsFiniteSet({"cache"}) /\ Cardinality({"cache"}) = 1
    BY FS_Singleton
  <2>2. IsFiniteSet(Outer) /\ Cardinality(Outer) <= Cardinality({"cache"})
    BY <1>3, <2>1, FS_Subset
  <2> QED
    BY <2>1, <2>2, FS_CardinalityType
<1>6. free + Cardinality(Outer) + Cardinality(Inner) = PoolSize /\ free = 0
  BY <1>1 DEF PoolInv, NoConnLeaked, Stuck
<1>7. Cardinality(Inner) = 0
  BY <1>4, FS_EmptySet
<1> QED
  BY <1>5, <1>6, <1>7, PoolAssumption

\* With two connections or more (the code has ten), once the node list is in the
\* cache and the requests that missed it are over, the pool never jams, whatever
\* the number of API requests (core-go/cache.go, reports.go buildNodesJSON).
THEOREM WarmPoolIsSafe == Spec => WarmPoolNeverStuck
<1>1. CASE PoolSize > 1
  <2>1. PoolInv /\ Warm => ~Stuck
    BY <1>1, WarmNotStuck
  <2>2. Spec => [](Warm => []~Stuck)
    BY PoolAlways, WarmStays, <2>1, PTL DEF Spec
  <2> QED
    BY <1>1, <2>2 DEF WarmPoolNeverStuck
<1>2. CASE ~(PoolSize > 1)
  BY <1>2 DEF WarmPoolNeverStuck
<1> QED
  BY <1>1, <1>2
=============================================================================
