--------------------------- MODULE GatewayProofs ---------------------------
(***************************************************************************)
(* Proofs about Gateway, for any users, tools, limits and lifetimes: whom  *)
(* the rate limiter refuses, how many requests it lets through in any      *)
(* window of a second, and how old the rights of a session may be.         *)
(***************************************************************************)
EXTENDS Gateway, NaturalsInduction, WellFoundedInduction, FiniteSetTheorems, TLAPS

GatewayTypeOK ==
    /\ clock \in Nat /\ second \in Nat
    /\ buckets \in [Addresses -> Nat]
    /\ asked \in [Addresses -> Nat]
    /\ role \in [Users -> {"admin", "viewer", "none"}]
    /\ token \in [Users -> [role : {"admin", "viewer", "none"}, expires : Int]]
    /\ lastAdmin \in [Users -> Int]

\* The limiter's window is never ahead of the clock; within a second its counts
\* are what was asked for, but for the addresses whose requests to /api/stats
\* are counted again and again.
CountsAreAsked ==
    /\ second <= Second(clock)
    /\ looping \subseteq loopers
    /\ second = Second(clock) =>
          \A a \in Addresses \ loopers : buckets[a] <= asked[a]

\* A session of an admin ends TokenLife seconds after the user was last one.
SessionsEnd ==
    \A u \in Users :
        /\ lastAdmin[u] <= Second(clock)
        /\ role[u] = "admin" => lastAdmin[u] = Second(clock)
        /\ token[u].role = "admin" => token[u].expires <= lastAdmin[u] + TokenLife

GatewayInv == GatewayTypeOK /\ CountsAreAsked /\ SessionsEnd
-----------------------------------------------------------------------------
\* Every set of numbers has a least one.
LEMMA LeastNat ==
    ASSUME NEW T \in SUBSET Nat, T # {}
    PROVE  \E n \in T : \A k \in T : n <= k
<1>1. IsWellFoundedOn(OpToRel(<, Nat), Nat)
  BY NatLessThanWellFounded, Zenon
<1>2. PICK n \in T : \A k \in T : ~(<<k, n>> \in OpToRel(<, Nat))
  BY <1>1, WFMin, Zenon
<1>3. \A k \in T : ~(k < n)
  BY <1>2 DEF OpToRel
<1> QED
  BY <1>3

\* Induction over the numbers, with no operator as a parameter.
LEMMA ClimbAll ==
    ASSUME NEW Good, 0 \in Good, \A n \in Nat : n \in Good => n + 1 \in Good
    PROVE  \A n \in Nat : n \in Good
<1> DEFINE Bad == {n \in Nat : n \notin Good}
<1>1. SUFFICES ASSUME Bad # {} PROVE FALSE
  OBVIOUS
<1>2. Bad \in SUBSET Nat
  OBVIOUS
<1>3. PICK n \in Bad : \A k \in Bad : n <= k
  <2> HIDE DEF Bad
  <2> QED
    BY <1>1, <1>2, LeastNat
<1>4. n \in Nat /\ n # 0 /\ n - 1 \in Nat /\ n - 1 + 1 = n
  BY <1>3
<1>5. n - 1 \notin Bad
  BY <1>3, <1>4
<1> QED
  BY <1>3, <1>4, <1>5

\* One member less.
LEMMA OneLess ==
    ASSUME NEW S, IsFiniteSet(S), NEW x \in S, NEW n \in Nat, Cardinality(S) = n + 1
    PROVE  Cardinality(S \ {x}) = n
<1>1. Cardinality(S \ {x}) = Cardinality(S) - 1
  BY FS_RemoveElement
<1> QED
  BY <1>1

\* The same over the subsets of a finite set, one member at a time.
LEMMA GrowAll ==
    ASSUME NEW U, IsFiniteSet(U), NEW Good, {} \in Good,
           \A S \in SUBSET U : \A x \in U \ S : S \in Good => S \cup {x} \in Good
    PROVE  \A S \in SUBSET U : S \in Good
<1> DEFINE Sizes == {n \in Nat : \A S \in SUBSET U : Cardinality(S) = n => S \in Good}
<1>0. \A S \in SUBSET U : IsFiniteSet(S) /\ Cardinality(S) \in Nat
  BY FS_Subset, FS_CardinalityType
<1>1. 0 \in Sizes
  BY <1>0, FS_EmptySet
<1>2. ASSUME NEW n \in Nat, n \in Sizes PROVE n + 1 \in Sizes
  <2>1. ASSUME NEW S \in SUBSET U, Cardinality(S) = n + 1 PROVE S \in Good
    <3>1. PICK x : x \in S
      BY <1>0, <2>1, FS_EmptySet
    <3>2. Cardinality(S \ {x}) = n
      BY <1>0, <2>1, <3>1, OneLess
    <3>3. S \ {x} \in Good /\ x \in U \ (S \ {x}) /\ S = (S \ {x}) \cup {x}
      BY <1>2, <3>1, <3>2
    <3> QED
      BY <3>3
  <2> QED
    BY <2>1
<1> HIDE DEF Sizes
<1>3. \A n \in Nat : n \in Sizes
  BY <1>1, <1>2, ClimbAll
<1> QED
  BY <1>0, <1>3 DEF Sizes
-----------------------------------------------------------------------------
(***************************************************************************)
(* Sums over a finite set.  The fold of the library picks the members with *)
(* CHOOSE; its recursive function is a table of the sums over the subsets. *)
(***************************************************************************)
Some(s) == CHOOSE x \in s : TRUE

SumStep(g, f, s) == IF s = {} THEN 0 ELSE f[Some(s)] + g[s \ {Some(s)}]

IsSums(g, f, S) == g = [s \in SUBSET S |-> SumStep(g, f, s)]

SumOf(f, S) == MapThenSumSet(LAMBDA x : f[x], S)

\* The subsets of up to n members.
UpTo(S, n) == {s \in SUBSET S : Cardinality(s) <= n}

\* The table exists.
LEMMA SumsExist ==
    ASSUME NEW f, NEW S, IsFiniteSet(S)
    PROVE  \E g : IsSums(g, f, S)
<1> DEFINE Good == {n \in Nat : \E g : g = [s \in UpTo(S, n) |-> SumStep(g, f, s)]}
<1>0. \A s \in SUBSET S : /\ IsFiniteSet(s) /\ Cardinality(s) \in Nat
                          /\ Cardinality(s) <= Cardinality(S)
  BY FS_Subset, FS_CardinalityType
<1>1. 0 \in Good
  <2> DEFINE g == [s \in UpTo(S, 0) |-> 0]
  <2>1. \A s \in UpTo(S, 0) : s = {}
    BY <1>0, FS_EmptySet DEF UpTo
  <2>2. g = [s \in UpTo(S, 0) |-> SumStep(g, f, s)]
    BY <2>1 DEF SumStep
  <2> QED
    BY <2>2
<1>2. ASSUME NEW n \in Nat, n \in Good PROVE n + 1 \in Good
  <2>1. PICK g : g = [s \in UpTo(S, n) |-> SumStep(g, f, s)]
    BY <1>2
  <2> DEFINE h == [s \in UpTo(S, n + 1) |-> SumStep(g, f, s)]
  <2>2. ASSUME NEW s \in UpTo(S, n + 1), s # {}
        PROVE  s \ {Some(s)} \in UpTo(S, n) /\ s \ {Some(s)} \in UpTo(S, n + 1)
    <3>1. Some(s) \in s
      BY <2>2 DEF Some
    <3>2. Cardinality(s \ {Some(s)}) = Cardinality(s) - 1 /\ Cardinality(s) \in Nat
      BY <1>0, <2>2, <3>1, FS_RemoveElement DEF UpTo
    <3> QED
      BY <1>0, <2>2, <3>2 DEF UpTo
  <2>3. ASSUME NEW s \in UpTo(S, n) PROVE h[s] = g[s]
    <3>1. s \in UpTo(S, n + 1)
      BY <1>0, <2>3 DEF UpTo
    <3>2. h[s] = SumStep(g, f, s)
      BY <3>1
    <3>3. g[s] = SumStep(g, f, s)
      BY <2>1, Zenon
    <3> QED
      BY <3>2, <3>3
  <2>4. ASSUME NEW s \in UpTo(S, n + 1) PROVE SumStep(g, f, s) = SumStep(h, f, s)
    <3>1. CASE s = {}
      BY <3>1 DEF SumStep
    <3>2. CASE s # {}
      <4>1. h[s \ {Some(s)}] = g[s \ {Some(s)}]
        BY <2>2, <2>3, <3>2
      <4> HIDE DEF h
      <4> QED
        BY <3>2, <4>1 DEF SumStep
    <3> QED
      BY <3>1, <3>2
  <2>5. h = [s \in UpTo(S, n + 1) |-> SumStep(h, f, s)]
    <3>1. h = [s \in UpTo(S, n + 1) |-> SumStep(g, f, s)]
      OBVIOUS
    <3> HIDE DEF h
    <3> QED
      BY <2>4, <3>1, Zenon
  <2>6. \E e : e = [s \in UpTo(S, n + 1) |-> SumStep(e, f, s)]
    <3> HIDE DEF h
    <3> QED
      BY <2>5
  <2> QED
    BY <2>6
<1>3. \A n \in Nat : n \in Good
  <2> HIDE DEF Good
  <2> QED
    BY <1>1, <1>2, ClimbAll
<1>4. UpTo(S, Cardinality(S)) = SUBSET S /\ Cardinality(S) \in Nat
  BY <1>0 DEF UpTo
<1>5. PICK g : g = [s \in UpTo(S, Cardinality(S)) |-> SumStep(g, f, s)]
  BY <1>3, <1>4
<1> QED
  BY <1>4, <1>5 DEF IsSums

\* An entry of a table.
LEMMA SumsEntry ==
    ASSUME NEW f, NEW S, NEW g, IsSums(g, f, S), NEW s \in SUBSET S
    PROVE  g[s] = SumStep(g, f, s)
<1>1. g = [t \in SUBSET S |-> SumStep(g, f, t)]
  BY DEF IsSums
<1> QED
  BY <1>1, Zenon

\* The sum is the last entry of a table.
LEMMA SumIs ==
    ASSUME NEW f, NEW S, IsFiniteSet(S)
    PROVE  \E g : IsSums(g, f, S) /\ SumOf(f, S) = g[S]
<1> DEFINE g == CHOOSE g : IsSums(g, f, S)
<1>1. IsSums(g, f, S)
  BY SumsExist
<1>2. SumOf(f, S) = g[S]
  BY DEF SumOf, MapThenSumSet, MapThenFoldSet, IsSums, SumStep, Some
<1> HIDE DEF g
<1> QED
  BY <1>1, <1>2

\* Tables for two sets agree where their summands do.
LEMMA SumsAgree ==
    ASSUME NEW f, NEW S, IsFiniteSet(S), NEW g, IsSums(g, f, S),
           NEW e, NEW R, NEW h, IsSums(h, e, R), S \subseteq R, \A x \in S : e[x] = f[x]
    PROVE  g[S] = h[S]
<1> DEFINE Good == {n \in Nat : \A s \in SUBSET S : Cardinality(s) = n => g[s] = h[s]}
<1>0. \A s \in SUBSET S : IsFiniteSet(s) /\ Cardinality(s) \in Nat /\ s \in SUBSET R
  BY FS_Subset, FS_CardinalityType
<1>1. 0 \in Good
  <2>1. ASSUME NEW s \in SUBSET S, s = {} PROVE g[s] = h[s]
    <3>1. g[s] = SumStep(g, f, s) /\ h[s] = SumStep(h, e, s)
      BY <1>0, SumsEntry
    <3> QED
      BY <2>1, <3>1 DEF SumStep
  <2> QED
    BY <1>0, <2>1, FS_EmptySet
<1>2. ASSUME NEW n \in Nat, n \in Good PROVE n + 1 \in Good
  <2>1. ASSUME NEW s \in SUBSET S, Cardinality(s) = n + 1 PROVE g[s] = h[s]
    <3>1. s # {}
      BY <2>1, FS_EmptySet
    <3>2. Some(s) \in s
      BY <3>1 DEF Some
    <3>3. Cardinality(s \ {Some(s)}) = n
      BY <1>0, <2>1, <3>2, OneLess
    <3>4. g[s \ {Some(s)}] = h[s \ {Some(s)}] /\ e[Some(s)] = f[Some(s)]
      BY <1>2, <3>2, <3>3
    <3>5. g[s] = SumStep(g, f, s) /\ h[s] = SumStep(h, e, s)
      BY <1>0, SumsEntry
    <3> QED
      BY <3>1, <3>4, <3>5 DEF SumStep
  <2> QED
    BY <2>1
<1> HIDE DEF Good
<1>3. \A n \in Nat : n \in Good
  BY <1>1, <1>2, ClimbAll
<1> QED
  BY <1>0, <1>3 DEF Good

\* Sums of numbers are numbers.
LEMMA SumsAreNat ==
    ASSUME NEW f, NEW S, IsFiniteSet(S), \A x \in S : f[x] \in Nat,
           NEW g, IsSums(g, f, S)
    PROVE  \A s \in SUBSET S : g[s] \in Nat
<1> DEFINE Good == {n \in Nat : \A s \in SUBSET S : Cardinality(s) = n => g[s] \in Nat}
<1>0. \A s \in SUBSET S : IsFiniteSet(s) /\ Cardinality(s) \in Nat
  BY FS_Subset, FS_CardinalityType
<1>1. 0 \in Good
  <2>1. ASSUME NEW s \in SUBSET S, s = {} PROVE g[s] \in Nat
    BY <2>1, SumsEntry DEF SumStep
  <2> QED
    BY <1>0, <2>1, FS_EmptySet
<1>2. ASSUME NEW n \in Nat, n \in Good PROVE n + 1 \in Good
  <2>1. ASSUME NEW s \in SUBSET S, Cardinality(s) = n + 1 PROVE g[s] \in Nat
    <3>1. s # {}
      BY <2>1, FS_EmptySet
    <3>2. Some(s) \in s
      BY <3>1 DEF Some
    <3>3. Cardinality(s \ {Some(s)}) = n
      BY <1>0, <2>1, <3>2, OneLess
    <3>4. g[s \ {Some(s)}] \in Nat /\ f[Some(s)] \in Nat
      BY <1>2, <3>2, <3>3
    <3>5. g[s] = SumStep(g, f, s)
      BY SumsEntry
    <3> QED
      BY <3>1, <3>4, <3>5 DEF SumStep
  <2> QED
    BY <2>1
<1> HIDE DEF Good
<1>3. \A n \in Nat : n \in Good
  BY <1>1, <1>2, ClimbAll
<1> QED
  BY <1>0, <1>3 DEF Good

\* Any member may be taken out first.
LEMMA SumsAnyOrder ==
    ASSUME NEW f, NEW S, IsFiniteSet(S), \A x \in S : f[x] \in Nat,
           NEW g, IsSums(g, f, S)
    PROVE  \A s \in SUBSET S : g[s] \in Nat /\ \A x \in s : g[s] = f[x] + g[s \ {x}]
<1> DEFINE Right(s) == g[s] \in Nat /\ \A x \in s : g[s] = f[x] + g[s \ {x}]
           Good == {n \in Nat : \A s \in SUBSET S : Cardinality(s) = n => Right(s)}
<1>0. \A s \in SUBSET S : IsFiniteSet(s) /\ Cardinality(s) \in Nat
  BY FS_Subset, FS_CardinalityType
<1>1. 0 \in Good
  <2>1. ASSUME NEW s \in SUBSET S, s = {} PROVE Right(s)
    <3>1. g[s] = 0
      BY <2>1, SumsEntry DEF SumStep
    <3> QED
      BY <2>1, <3>1
  <2> HIDE DEF Right
  <2> QED
    BY <1>0, <2>1, FS_EmptySet
<1>2. ASSUME NEW n \in Nat, n \in Good PROVE n + 1 \in Good
  <2>1. ASSUME NEW s \in SUBSET S, Cardinality(s) = n + 1 PROVE Right(s)
    <3>1. s # {}
      BY <2>1, FS_EmptySet
    <3>2. PICK c \in s : c = Some(s)
      BY <3>1 DEF Some
    <3>3. g[s] = f[c] + g[s \ {c}]
      BY <3>1, <3>2, SumsEntry DEF SumStep
    <3>4. ASSUME NEW x \in s
          PROVE  /\ s \ {x} \in SUBSET S /\ Right(s \ {x})
                 /\ f[x] \in Nat /\ g[s \ {x}] \in Nat
      <4>1. Cardinality(s \ {x}) = n /\ s \ {x} \in SUBSET S
        BY <1>0, <2>1, OneLess
      <4>2. Right(s \ {x})
        BY <1>2, <4>1
      <4> QED
        BY <4>1, <4>2
    <3>5. g[s] \in Nat
      BY <3>2, <3>3, <3>4
    <3>6. ASSUME NEW x \in s PROVE g[s] = f[x] + g[s \ {x}]
      <4>1. CASE x = c
        BY <3>3, <4>1
      <4>2. CASE x # c
        <5>1. x \in s \ {c} /\ c \in s \ {x}
          BY <3>6, <3>2, <4>2
        <5>2. g[s \ {c}] = f[x] + g[(s \ {c}) \ {x}]
          BY <3>4, <3>2, <5>1
        <5>3. g[s \ {x}] = f[c] + g[(s \ {x}) \ {c}]
          BY <3>4, <3>6, <5>1
        <5>4. (s \ {c}) \ {x} = (s \ {x}) \ {c}
          OBVIOUS
        <5>5. PICK r : r = g[(s \ {x}) \ {c}]
          OBVIOUS
        <5>6. r \in Nat /\ f[x] \in Nat /\ f[c] \in Nat
          <6>1. (s \ {x}) \ {c} \in SUBSET S
            OBVIOUS
          <6> QED
            BY <3>2, <3>6, <5>5, <6>1, SumsAreNat
        <5> QED
          BY <3>3, <5>2, <5>3, <5>4, <5>5, <5>6
      <4> QED
        BY <4>1, <4>2
    <3> QED
      BY <3>5, <3>6
  <2> HIDE DEF Right
  <2> QED
    BY <2>1
<1>3. \A n \in Nat : n \in Good
  <2> HIDE DEF Good
  <2> QED
    BY <1>1, <1>2, ClimbAll
<1> HIDE DEF Right
<1>4. \A s \in SUBSET S : Right(s)
  BY <1>0, <1>3
<1> QED
  BY <1>4 DEF Right

\* The sum over no member.
LEMMA SumOfNone ==
    ASSUME NEW f
    PROVE  SumOf(f, {}) = 0
<1>1. IsFiniteSet({})
  BY FS_EmptySet
<1>2. PICK g : IsSums(g, f, {}) /\ SumOf(f, {}) = g[{}]
  BY <1>1, SumIs
<1>3. g[{}] = SumStep(g, f, {})
  BY <1>2, SumsEntry
<1> QED
  BY <1>2, <1>3 DEF SumStep

\* A sum of numbers is a number.
LEMMA SumOfNat ==
    ASSUME NEW f, NEW S, IsFiniteSet(S), \A x \in S : f[x] \in Nat
    PROVE  SumOf(f, S) \in Nat
<1>1. PICK g : IsSums(g, f, S) /\ SumOf(f, S) = g[S]
  BY SumIs
<1> QED
  BY <1>1, SumsAreNat

\* Equal summands, equal sums.
LEMMA SumOfSame ==
    ASSUME NEW f, NEW h, NEW S, IsFiniteSet(S), \A x \in S : f[x] = h[x]
    PROVE  SumOf(f, S) = SumOf(h, S)
<1>1. PICK g : IsSums(g, f, S) /\ SumOf(f, S) = g[S]
  BY SumIs
<1>2. PICK e : IsSums(e, h, S) /\ SumOf(h, S) = e[S]
  BY SumIs
<1>3. g[S] = e[S]
  BY <1>1, <1>2, SumsAgree
<1> QED
  BY <1>1, <1>2, <1>3

\* The sum over one member more.
LEMMA SumOfMore ==
    ASSUME NEW f, NEW S, IsFiniteSet(S), NEW x, x \notin S,
           \A y \in S \cup {x} : f[y] \in Nat
    PROVE  SumOf(f, S \cup {x}) = f[x] + SumOf(f, S)
<1>1. PICK R : R = S \cup {x} /\ IsFiniteSet(R) /\ S = R \ {x} /\ x \in R
  <2>1. IsFiniteSet(S \cup {x})
    BY FS_AddElement
  <2>2. S = (S \cup {x}) \ {x} /\ x \in S \cup {x}
    OBVIOUS
  <2> QED
    BY <2>1, <2>2
<1>2. PICK g : IsSums(g, f, R) /\ SumOf(f, R) = g[R]
  BY <1>1, SumIs
<1>3. PICK h : IsSums(h, f, S) /\ SumOf(f, S) = h[S]
  BY SumIs
<1>4. S \subseteq R
  BY <1>1
<1>5. h[S] = g[S]
  BY <1>2, <1>3, <1>4, SumsAgree
<1>6. g[R] = f[x] + g[S]
  <2>1. \A y \in R : f[y] \in Nat
    BY <1>1
  <2> QED
    BY <1>1, <1>2, <2>1, SumsAnyOrder
<1> QED
  BY <1>1, <1>2, <1>3, <1>5, <1>6
-----------------------------------------------------------------------------
\* Seconds are counted by numbers, and the clock never goes back.
LEMMA SecondMonotone ==
    ASSUME NEW t \in Nat
    PROVE  Second(t) \in Nat /\ Second(t + 1) \in Nat /\ Second(t) <= Second(t + 1)
<1>1. PICK N \in Nat \ {0} : N = TicksPerSecond
  BY GatewayAssumption
<1>2. ASSUME NEW i \in Nat
      PROVE  i \div N \in Nat /\ i % N \in 0 .. N - 1 /\ i = N * (i \div N) + (i % N)
  OBVIOUS
<1>3. PICK a \in Nat, b \in Nat : a = t \div N /\ b = (t + 1) \div N
  BY <1>2
<1>4. PICK r \in 0 .. N - 1, s \in 0 .. N - 1 : t = N * a + r /\ t + 1 = N * b + s
  BY <1>2, <1>3
<1>5. ~(b <= a - 1)
  <2>1. SUFFICES ASSUME b <= a - 1 PROVE FALSE
    OBVIOUS
  <2>2. N * b <= N * (a - 1)
    BY <2>1
  <2>3. N * (a - 1) = N * a - N
    OBVIOUS
  <2> QED
    BY <1>4, <2>2, <2>3
<1>6. a <= b
  BY <1>5
<1> QED
  BY <1>1, <1>3, <1>6 DEF Second

\* Before the first request.
LEMMA GatewayStarts == GatewayInit => GatewayInv
<1>1. SUFFICES ASSUME GatewayInit PROVE GatewayInv
  OBVIOUS
<1>2. Second(0) = 0
  BY GatewayAssumption DEF Second
<1>3. GatewayTypeOK
  BY <1>1, GatewayAssumption DEF GatewayInit, GatewayTypeOK, NoToken, Never
<1>4. CountsAreAsked
  BY <1>1, <1>2 DEF GatewayInit, CountsAreAsked
<1>5. SessionsEnd
  BY <1>1, <1>2, GatewayAssumption DEF GatewayInit, SessionsEnd, NoToken, Never
<1> QED
  BY <1>3, <1>4, <1>5 DEF GatewayInv

\* What every request that reaches withRateLimit does to the limiter: it is
\* counted, by the limiter and as asked for, or it is one of a looper's.
LEMMA CountInv ==
    ASSUME GatewayInv, NEW addr \in Addresses, Count(addr),
           \/ asked' = [asked EXCEPT ![addr] = @ + 1] /\ loopers \subseteq loopers'
           \/ asked' = asked /\ addr \in loopers /\ loopers' = loopers,
           looping' \subseteq loopers',
           UNCHANGED <<clock, webVars>>
    PROVE  GatewayInv'
<1>1. Counts \in [Addresses -> Nat]
  BY DEF GatewayInv, GatewayTypeOK, Counts
<1>2. \A a \in Addresses \ loopers : Counts[a] <= asked[a]
  BY DEF GatewayInv, GatewayTypeOK, CountsAreAsked, Counts
<1>3. Second(clock) \in Nat /\ Second(clock') = Second(clock)
  BY SecondMonotone DEF GatewayInv, GatewayTypeOK
<1>4. GatewayTypeOK'
  BY <1>1, <1>3 DEF GatewayInv, GatewayTypeOK, Count, webVars, limitVars
<1>5. CountsAreAsked'
  <2>1. CASE RateLimit = 0
    BY <2>1, <1>3 DEF GatewayInv, GatewayTypeOK, CountsAreAsked, Count, limitVars
  <2>2. CASE RateLimit # 0
    BY <2>2, <1>1, <1>2, <1>3 DEF GatewayInv, GatewayTypeOK, CountsAreAsked, Count
  <2> QED
    BY <2>1, <2>2
<1>6. SessionsEnd'
  BY <1>3 DEF GatewayInv, SessionsEnd, webVars
<1> QED
  BY <1>4, <1>5, <1>6 DEF GatewayInv

\* Requests of users through zaman-web, of tools, and what /api/stats makes of them.
LEMMA RequestInv ==
    ASSUME GatewayInv, NEW addr \in Addresses,
           \/ (\E key \in BOOLEAN : CoreRequest(addr, key)) /\ UNCHANGED <<clock, webVars>>
           \/ StatsAgain(addr) \/ StatsRefused(addr)
    PROVE  GatewayInv'
<1>1. looping \subseteq loopers
  BY DEF GatewayInv, CountsAreAsked
<1>2. ASSUME NEW key \in BOOLEAN, CoreRequest(addr, key), UNCHANGED <<clock, webVars>>
      PROVE  GatewayInv'
  <2>1. Count(addr) /\ asked' = [asked EXCEPT ![addr] = @ + 1]
    BY <1>2 DEF CoreRequest, TooMany, Answered, AskStats, Arrives, Passes
  <2>2. loopers \subseteq loopers' /\ looping' \subseteq loopers'
    BY <1>1, <1>2 DEF CoreRequest, TooMany, Answered, AskStats
  <2> QED
    BY <1>2, <2>1, <2>2, CountInv
<1>3. CASE StatsAgain(addr) \/ StatsRefused(addr)
  <2>1. /\ Count(addr) /\ asked' = asked /\ addr \in loopers /\ loopers' = loopers
        /\ looping' \subseteq loopers' /\ UNCHANGED <<clock, webVars>>
    BY <1>1, <1>3 DEF StatsAgain, StatsRefused, Passes
  <2> QED
    BY <2>1, CountInv
<1> QED
  BY <1>2, <1>3

\* Logins, and users that are added or deleted.
LEMMA AccountInv ==
    ASSUME GatewayInv,
           \/ \E u \in Users : Login(u)
           \/ \E admin, u \in Users, r \in {"admin", "viewer", "none"} : SetUser(admin, u, r)
    PROVE  GatewayInv'
<1> USE DEF GatewayInv
<1>1. /\ UNCHANGED <<clock, second, buckets, looping, asked, loopers>>
      /\ Second(clock) \in Nat /\ TokenLife \in Nat
  BY SecondMonotone, GatewayAssumption DEF Login, SetUser, limitVars, GatewayTypeOK
<1>2. CountsAreAsked'
  BY <1>1 DEF CountsAreAsked
<1>3. ASSUME NEW u \in Users, Login(u) PROVE GatewayTypeOK' /\ SessionsEnd'
  BY <1>1, <1>3 DEF GatewayTypeOK, SessionsEnd, Login
<1>4. ASSUME NEW admin \in Users, NEW u \in Users, NEW r \in {"admin", "viewer", "none"},
             SetUser(admin, u, r)
      PROVE  GatewayTypeOK' /\ SessionsEnd'
  BY <1>1, <1>4 DEF GatewayTypeOK, SessionsEnd, SetUser
<1> QED
  BY <1>2, <1>3, <1>4

\* The clock goes on; a request to /api/stats may be under way.
LEMMA TickInv ==
    ASSUME GatewayInv, ClockTick
    PROVE  GatewayInv'
<1> USE DEF GatewayInv
<1>1. /\ Second(clock) \in Nat /\ Second(clock') \in Nat /\ Second(clock) <= Second(clock')
      /\ clock' = clock + 1 /\ TokenLife \in Nat
  BY SecondMonotone, GatewayAssumption DEF ClockTick, GatewayTypeOK
<1>2. GatewayTypeOK'
  BY <1>1 DEF ClockTick, limitVars, GatewayTypeOK
<1>3. CountsAreAsked'
  BY <1>1 DEF ClockTick, limitVars, GatewayTypeOK, CountsAreAsked
<1>4. SessionsEnd'
  BY <1>1 DEF ClockTick, GatewayTypeOK, SessionsEnd
<1> QED
  BY <1>2, <1>3, <1>4

\* Every step of the gateway keeps the invariant.
LEMMA GatewayStep == GatewayInv /\ [GatewayNext]_gateVars => GatewayInv'
<1>1. SUFFICES ASSUME GatewayInv, [GatewayNext]_gateVars PROVE GatewayInv'
  OBVIOUS
<1>2. ASSUME NEW u \in Users, WebRequest(u) PROVE GatewayInv'
  <2>1. PICK addr \in Addresses : CoreRequest(addr, TRUE)
    BY <1>2 DEF WebRequest, AddressesOf, Addresses
  <2> QED
    BY <1>1, <1>2, <2>1, RequestInv DEF WebRequest
<1>3. ASSUME NEW t \in Tools, ToolRequest(t) PROVE GatewayInv'
  BY <1>1, <1>3, RequestInv DEF ToolRequest, Addresses
<1>4. ASSUME NEW addr \in Addresses, StatsAgain(addr) \/ StatsRefused(addr)
      PROVE  GatewayInv'
  BY <1>1, <1>4, RequestInv
<1>5. CASE \/ \E u \in Users : Login(u)
           \/ \E admin, u \in Users, r \in {"admin", "viewer", "none"} : SetUser(admin, u, r)
  BY <1>1, <1>5, AccountInv
<1>6. CASE ClockTick
  BY <1>1, <1>6, TickInv
<1>7. CASE UNCHANGED gateVars
  BY <1>1, <1>7 DEF GatewayInv, GatewayTypeOK, CountsAreAsked, SessionsEnd, gateVars, webVars,
                    limitVars
<1> QED
  BY <1>1, <1>2, <1>3, <1>4, <1>5, <1>6, <1>7 DEF GatewayNext

\* However many clients share or claim an address and however their requests fall
\* into seconds, withRateLimit (core-go/api.go) refuses a request only after
\* RateLimit others with its address in this second, or while or after one to
\* /api/stats is passed on in this second, whenever that one came; with a RateLimit
\* of 0, never.
THEOREM LimiterIsFairToLightClients == GatewaySpec => []LightClientsServed
<1>1. ASSUME GatewayInv PROVE LightClientsServed
  BY <1>1, GatewayAssumption
     DEF GatewayInv, GatewayTypeOK, CountsAreAsked, LightClientsServed, allow, Counts
<1> QED
  BY GatewayStarts, GatewayStep, <1>1, PTL DEF GatewaySpec

\* Whoever is deleted, demoted or added again, a session has the rights of an
\* admin only for TokenLife seconds after its user was one (web/main.go
\* makeToken, verifyToken).
THEOREM RightsExpire == GatewaySpec => []StaleRightsBounded
<1>1. ASSUME GatewayInv PROVE StaleRightsBounded
  <2>1. Second(clock) \in Nat /\ TokenLife \in Nat
    BY <1>1, SecondMonotone, GatewayAssumption DEF GatewayInv, GatewayTypeOK
  <2> QED
    BY <1>1, <2>1 DEF GatewayInv, GatewayTypeOK, SessionsEnd, StaleRightsBounded, Accepted
<1> QED
  BY GatewayStarts, GatewayStep, <1>1, PTL DEF GatewaySpec
-----------------------------------------------------------------------------
(***************************************************************************)
(* What passes in a second's length.  Ages run back from the current tick: *)
(* the ages up to now % TicksPerSecond are those of the current second, the *)
(* older ones are of the second before.                                    *)
(***************************************************************************)
\* What passed from an address in the last k + 1 ticks.
Through(a, k) == SumOf(passed[a], 0 .. k)

\* What passed in this second is counted by the limiter and within its limit, and
\* so is what passed in the part of the second before that the window reaches.
WithinLimits(a) ==
    /\ Through(a, clock % TicksPerSecond) <= Counts[a]
    /\ Through(a, clock % TicksPerSecond) <= RateLimit
    /\ Through(a, TicksPerSecond - 1) <= Through(a, clock % TicksPerSecond) + RateLimit

WindowInv == /\ passed \in [Addresses -> [Ages -> Nat]]
             /\ RateLimit > 0 => \A a \in Addresses : WithinLimits(a)

\* The sums over the first ages are numbers.
LEMMA PrefixNat ==
    ASSUME NEW f \in [Ages -> Nat], NEW k \in Ages
    PROVE  SumOf(f, 0 .. k) \in Nat
<1>1. k \in Int /\ 0 \in Int /\ \A x \in 0 .. k : f[x] \in Nat
  BY GatewayAssumption DEF Ages
<1>2. IsFiniteSet(0 .. k)
  BY <1>1, FS_Interval
<1> QED
  BY <1>1, <1>2, SumOfNat

\* The sum over the first age is that age's.
LEMMA PrefixFirst ==
    ASSUME NEW f \in [Ages -> Nat]
    PROVE  SumOf(f, 0 .. 0) = f[0]
<1>1. 0 .. 0 = {} \cup {0} /\ IsFiniteSet({}) /\ 0 \in Ages
  BY FS_EmptySet, GatewayAssumption DEF Ages
<1>2. \A y \in {} \cup {0} : f[y] \in Nat
  BY <1>1
<1>3. SumOf(f, {} \cup {0}) = f[0] + SumOf(f, {})
  BY <1>1, <1>2, SumOfMore
<1> QED
  BY <1>1, <1>2, <1>3, SumOfNone

\* One age more.
LEMMA PrefixNext ==
    ASSUME NEW f \in [Ages -> Nat], NEW k \in Nat, k + 1 \in Ages
    PROVE  SumOf(f, 0 .. k + 1) = f[k + 1] + SumOf(f, 0 .. k)
<1>0. k \in Int /\ 0 \in Int
  OBVIOUS
<1>1. 0 .. k + 1 = (0 .. k) \cup {k + 1} /\ IsFiniteSet(0 .. k) /\ k + 1 \notin 0 .. k
  <2>1. IsFiniteSet(0 .. k)
    BY <1>0, FS_Interval
  <2> QED
    BY <2>1
<1>2. \A y \in (0 .. k) \cup {k + 1} : f[y] \in Nat
  BY GatewayAssumption DEF Ages
<1>3. SumOf(f, (0 .. k) \cup {k + 1}) = f[k + 1] + SumOf(f, 0 .. k)
  BY <1>1, <1>2, SumOfMore
<1> QED
  BY <1>1, <1>3

\* A request that passes now is in every one of the sums.
LEMMA PrefixBumped ==
    ASSUME NEW f \in [Ages -> Nat], NEW h, h = [f EXCEPT ![0] = @ + 1]
    PROVE  \A k \in Ages : SumOf(h, 0 .. k) = SumOf(f, 0 .. k) + 1
<1> DEFINE Good == {k \in Nat : k \in Ages => SumOf(h, 0 .. k) = SumOf(f, 0 .. k) + 1}
<1>0. h \in [Ages -> Nat] /\ 0 \in Ages /\ h[0] = f[0] + 1
  BY GatewayAssumption DEF Ages
<1>1. 0 \in Good
  BY <1>0, PrefixFirst
<1>2. ASSUME NEW k \in Nat, k \in Good PROVE k + 1 \in Good
  <2>1. SUFFICES ASSUME k + 1 \in Ages PROVE SumOf(h, 0 .. k + 1) = SumOf(f, 0 .. k + 1) + 1
    OBVIOUS
  <2>2. k \in Ages
    BY <2>1, GatewayAssumption DEF Ages
  <2>3. SumOf(h, 0 .. k) = SumOf(f, 0 .. k) + 1 /\ SumOf(f, 0 .. k) \in Nat
    BY <1>2, <2>2, PrefixNat
  <2>4. h[k + 1] = f[k + 1] /\ f[k + 1] \in Nat
    BY <2>1
  <2>5. /\ SumOf(h, 0 .. k + 1) = h[k + 1] + SumOf(h, 0 .. k)
        /\ SumOf(f, 0 .. k + 1) = f[k + 1] + SumOf(f, 0 .. k)
    BY <1>0, <2>1, PrefixNext
  <2> QED
    BY <2>3, <2>4, <2>5
<1>3. \A k \in Nat : k \in Good
  <2> HIDE DEF Good
  <2> QED
    BY <1>1, <1>2, ClimbAll
<1>4. Ages \subseteq Nat
  BY DEF Ages
<1> QED
  BY <1>3, <1>4

\* A tick makes everything one age older, and nothing has passed yet.
LEMMA PrefixShifted ==
    ASSUME NEW f \in [Ages -> Nat], NEW h,
           h = [age \in Ages |-> IF age = 0 THEN 0 ELSE f[age - 1]]
    PROVE  /\ h \in [Ages -> Nat]
           /\ SumOf(h, 0 .. 0) = 0
           /\ \A k \in Nat : k + 1 \in Ages => SumOf(h, 0 .. k + 1) = SumOf(f, 0 .. k)
<1> DEFINE Good == {k \in Nat : k + 1 \in Ages => SumOf(h, 0 .. k + 1) = SumOf(f, 0 .. k)}
<1>0. /\ h \in [Ages -> Nat] /\ 0 \in Ages /\ h[0] = 0
      /\ \A k \in Nat : k + 1 \in Ages => k \in Ages /\ h[k + 1] = f[k] /\ f[k] \in Nat
  BY GatewayAssumption DEF Ages
<1>1. SumOf(h, 0 .. 0) = 0
  BY <1>0, PrefixFirst
<1>2. 0 \in Good
  <2>1. SUFFICES ASSUME 0 + 1 \in Ages PROVE SumOf(h, 0 .. 0 + 1) = SumOf(f, 0 .. 0)
    OBVIOUS
  <2>2. SumOf(h, 0 .. 0 + 1) = h[0 + 1] + SumOf(h, 0 .. 0)
    BY <1>0, <2>1, PrefixNext
  <2>3. h[0 + 1] = f[0] /\ f[0] \in Nat
    BY <1>0, <2>1
  <2> QED
    BY <1>1, <2>2, <2>3, PrefixFirst
<1>3. ASSUME NEW k \in Nat, k \in Good PROVE k + 1 \in Good
  <2>1. SUFFICES ASSUME k + 1 + 1 \in Ages
                 PROVE  SumOf(h, 0 .. k + 1 + 1) = SumOf(f, 0 .. k + 1)
    OBVIOUS
  <2>2. k + 1 \in Ages
    BY <2>1, GatewayAssumption DEF Ages
  <2>3. SumOf(h, 0 .. k + 1) = SumOf(f, 0 .. k)
    BY <1>3, <2>2
  <2>4. h[k + 1 + 1] = f[k + 1]
    BY <1>0, <2>1
  <2>5. SumOf(f, 0 .. k + 1) = f[k + 1] + SumOf(f, 0 .. k)
    BY <2>2, PrefixNext
  <2>6. SumOf(h, 0 .. k + 1 + 1) = h[k + 1 + 1] + SumOf(h, 0 .. k + 1)
    <3>1. k + 1 \in Nat
      OBVIOUS
    <3>2. h \in [Ages -> Nat]
      BY <1>0
    <3> HIDE DEF Good
    <3> QED
      BY <2>1, <3>1, <3>2, PrefixNext
  <2> QED
    BY <2>3, <2>4, <2>5, <2>6
<1>4. \A k \in Nat : k \in Good
  <2> HIDE DEF Good
  <2> QED
    BY <1>2, <1>3, ClimbAll
<1> QED
  BY <1>0, <1>1, <1>4

\* The clock within a second, and from one second to the next.
LEMMA ClockStep ==
    ASSUME NEW t \in Nat
    PROVE  /\ t % TicksPerSecond \in Ages
           /\ \/ /\ Second(t + 1) = Second(t)
                 /\ (t + 1) % TicksPerSecond = (t % TicksPerSecond) + 1
              \/ /\ t % TicksPerSecond = TicksPerSecond - 1
                 /\ (t + 1) % TicksPerSecond = 0
<1>1. PICK N \in Nat \ {0} : N = TicksPerSecond
  BY GatewayAssumption
<1>2. ASSUME NEW i \in Nat
      PROVE  i \div N \in Nat /\ i % N \in 0 .. N - 1 /\ i = N * (i \div N) + (i % N)
  OBVIOUS
<1>3. PICK a \in Nat, b \in Nat : a = t \div N /\ b = (t + 1) \div N
  BY <1>2
<1>4. PICK r \in 0 .. N - 1, s \in 0 .. N - 1 : /\ r = t % N /\ s = (t + 1) % N
                                                /\ t = N * a + r /\ t + 1 = N * b + s
  <2>1. t % N \in 0 .. N - 1 /\ (t + 1) % N \in 0 .. N - 1
    BY <1>2
  <2>2. t = N * a + (t % N) /\ t + 1 = N * b + ((t + 1) % N)
    BY <1>2, <1>3
  <2> QED
    BY <2>1, <2>2
<1>5. N * (b - a) = r + 1 - s
  <2>1. N * (b - a) = N * b - N * a
    OBVIOUS
  <2>2. PICK x \in Int, y \in Int : x = N * a /\ y = N * b
    OBVIOUS
  <2>3. y - x = r + 1 - s
    BY <1>4, <2>2
  <2> QED
    BY <2>1, <2>2, <2>3
<1>6. b - a \in {0, 1}
  <2>1. ASSUME b - a >= 2 PROVE FALSE
    <3>1. N * (b - a) >= N * 2
      BY <2>1
    <3> QED
      BY <1>5, <3>1
  <2>2. ASSUME b - a <= -1 PROVE FALSE
    <3>1. N * (b - a) <= N * (-1)
      BY <2>2
    <3> QED
      BY <1>5, <3>1
  <2> QED
    BY <2>1, <2>2
<1>7. CASE b = a
  <2>1. N * (b - a) = 0
    BY <1>7
  <2>2. s = r + 1
    BY <1>5, <2>1
  <2> QED
    BY <1>1, <1>3, <1>4, <1>7, <2>2 DEF Second, Ages
<1>8. CASE b - a = 1
  <2>1. N * (b - a) = N
    BY <1>8
  <2>2. r = N - 1 /\ s = 0
    BY <1>5, <2>1
  <2> QED
    BY <1>1, <1>3, <1>4, <2>2 DEF Ages
<1> QED
  BY <1>6, <1>7, <1>8

\* Before the first request.
LEMMA WindowInit == GatewayInit => WindowInv
<1>1. SUFFICES ASSUME GatewayInit PROVE WindowInv
  OBVIOUS
<1>2. /\ clock = 0 /\ RateLimit \in Nat /\ TicksPerSecond - 1 \in Ages /\ 0 \in Ages
      /\ 0 % TicksPerSecond = 0 /\ TicksPerSecond \in Nat
  BY <1>1, GatewayAssumption DEF GatewayInit, Ages
<1>3. passed \in [Addresses -> [Ages -> Nat]]
  BY <1>1 DEF GatewayInit
<1>4. ASSUME NEW a \in Addresses PROVE WithinLimits(a)
  <2>1. PICK f \in [Ages -> Nat] : f = passed[a] /\ \A age \in Ages : f[age] = 0
    BY <1>1, <1>3 DEF GatewayInit
  <2>3. SumOf(f, 0 .. 0) = 0
    BY <2>1, <1>2, PrefixFirst
  <2>4. \A k \in Ages : SumOf(f, 0 .. k) = 0
    <3> DEFINE Good == {k \in Nat : k \in Ages => SumOf(f, 0 .. k) = 0}
    <3>1. 0 \in Good
      BY <2>3
    <3>2. ASSUME NEW k \in Nat, k \in Good PROVE k + 1 \in Good
      <4>1. SUFFICES ASSUME k + 1 \in Ages PROVE SumOf(f, 0 .. k + 1) = 0
        OBVIOUS
      <4>2. k \in Ages
        BY <4>1, GatewayAssumption DEF Ages
      <4>3. SumOf(f, 0 .. k) = 0 /\ f[k + 1] = 0
        BY <2>1, <3>2, <4>1, <4>2
      <4> QED
        BY <4>1, <4>3, PrefixNext
    <3>3. \A k \in Nat : k \in Good
      <4> HIDE DEF Good
      <4> QED
        BY <3>1, <3>2, ClimbAll
    <3> QED
      BY <3>3 DEF Ages
  <2>5. Counts[a] = 0
    BY <1>1 DEF GatewayInit, Counts
  <2> QED
    BY <1>2, <2>1, <2>4, <2>5 DEF WithinLimits, Through
<1> QED
  BY <1>3, <1>4 DEF WindowInv

\* A request is counted, and perhaps it passes.
LEMMA WindowCount ==
    ASSUME GatewayInv, WindowInv, NEW addr \in Addresses, clock' = clock,
           Passes(addr) \/ (Count(addr) /\ passed' = passed)
    PROVE  WindowInv'
<1>1. PICK r \in Ages : r = clock % TicksPerSecond /\ clock' % TicksPerSecond = r
  BY ClockStep DEF GatewayInv, GatewayTypeOK
<1>2. /\ Counts \in [Addresses -> Nat] /\ RateLimit \in Nat /\ TicksPerSecond - 1 \in Ages
      /\ passed \in [Addresses -> [Ages -> Nat]] /\ 0 \in Ages
  BY GatewayAssumption DEF GatewayInv, GatewayTypeOK, Counts, WindowInv, Ages
<1>3. RateLimit > 0 => Counts' = [Counts EXCEPT ![addr] = @ + 1]
  BY DEF Passes, Count, Counts, Second
<1>4. passed' \in [Addresses -> [Ages -> Nat]]
  <2>1. CASE passed' = passed
    BY <1>2, <2>1
  <2>2. CASE passed' = [passed EXCEPT ![addr][0] = @ + 1]
    <3>1. PICK f \in [Ages -> Nat] : f = passed[addr]
      BY <1>2
    <3>2. [f EXCEPT ![0] = @ + 1] \in [Ages -> Nat]
      BY <1>2
    <3> QED
      BY <1>2, <2>2, <3>1, <3>2
  <2> QED
    BY <2>1, <2>2 DEF Passes
<1>5. ASSUME RateLimit > 0, NEW a \in Addresses PROVE WithinLimits(a)'
  <2>1. PICK f \in [Ages -> Nat], h \in [Ages -> Nat] : f = passed[a] /\ h = passed'[a]
    BY <1>2, <1>4
  <2>2. PICK p \in Nat, q \in Nat : /\ p = SumOf(f, 0 .. r)
                                    /\ q = SumOf(f, 0 .. TicksPerSecond - 1)
    BY <1>2, PrefixNat
  <2>3. p <= Counts[a] /\ p <= RateLimit /\ q <= p + RateLimit
    BY <1>1, <1>5, <2>1, <2>2 DEF WindowInv, WithinLimits, Through
  <2>4. PICK m \in Nat, n \in Nat : m = Counts[a] /\ n = Counts'[a] /\ m <= n
    BY <1>2, <1>3, <1>5
  <2>5. CASE h = f
    <3>1. p <= n /\ p <= RateLimit /\ q <= p + RateLimit
      BY <2>3, <2>4
    <3> QED
      BY <1>1, <2>1, <2>2, <2>4, <2>5, <3>1 DEF WithinLimits, Through
  <2>6. CASE h # f
    <3>1. a = addr /\ Passes(addr) /\ h = [f EXCEPT ![0] = @ + 1]
      BY <1>2, <2>1, <2>6 DEF Passes
    <3>2. SumOf(h, 0 .. r) = p + 1 /\ SumOf(h, 0 .. TicksPerSecond - 1) = q + 1
      <4>1. \A k \in Ages : SumOf(h, 0 .. k) = SumOf(f, 0 .. k) + 1
        BY <3>1, PrefixBumped, Zenon
      <4> QED
        BY <1>2, <2>2, <4>1
    <3>3. n = m + 1 /\ m < RateLimit
      BY <1>2, <1>3, <1>5, <2>4, <3>1 DEF Passes, allow
    <3>4. p + 1 <= n /\ p + 1 <= RateLimit /\ q + 1 <= p + 1 + RateLimit
      BY <1>2, <2>3, <2>4, <3>3
    <3> QED
      BY <1>1, <2>1, <2>4, <3>2, <3>4 DEF WithinLimits, Through
  <2> QED
    BY <2>5, <2>6
<1> QED
  BY <1>4, <1>5 DEF WindowInv

\* The clock goes on, within the second or to the next one.
LEMMA WindowTick ==
    ASSUME GatewayInv, WindowInv, ClockTick
    PROVE  WindowInv'
<1>1. clock \in Nat /\ clock' = clock + 1 /\ buckets' = buckets /\ second' = second
  BY DEF GatewayInv, GatewayTypeOK, ClockTick, limitVars
<1>2. /\ Counts' \in [Addresses -> Nat] /\ RateLimit \in Nat /\ TicksPerSecond \in Nat \ {0}
      /\ passed \in [Addresses -> [Ages -> Nat]]
      /\ Second(clock') = Second(clock) => Counts' = Counts
  BY <1>1, GatewayAssumption DEF GatewayInv, GatewayTypeOK, Counts, WindowInv, Ages
<1>3. ASSUME NEW a \in Addresses
      PROVE  passed'[a] \in [Ages -> Nat] /\ (RateLimit > 0 => WithinLimits(a)')
  <2>0. PICK f \in [Ages -> Nat] : f = passed[a]
    BY <1>2
  <2>1. PICK h : h = passed'[a] /\ h = [age \in Ages |-> IF age = 0 THEN 0 ELSE f[age - 1]]
    BY <1>2, <2>0 DEF ClockTick
  <2>2. /\ h \in [Ages -> Nat]
        /\ SumOf(h, 0 .. 0) = 0
        /\ \A k \in Nat : k + 1 \in Ages => SumOf(h, 0 .. k + 1) = SumOf(f, 0 .. k)
    <3>1. h = [age \in Ages |-> IF age = 0 THEN 0 ELSE f[age - 1]]
      BY <2>1
    <3> QED
      BY ONLY <3>1, f \in [Ages -> Nat], PrefixShifted, Zenon
  <2>3. PICK T \in Nat \ {0}, r \in Ages, c \in Nat :
              T = TicksPerSecond /\ r = clock % TicksPerSecond /\ c = Counts'[a]
    BY <1>1, <1>2, ClockStep
  <2>4. Ages = 0 .. T - 1
    BY <2>3 DEF Ages
  <2>5. PICK p \in Nat, q \in Nat : p = SumOf(f, 0 .. r) /\ q = SumOf(f, 0 .. T - 1)
    BY <2>3, <2>4, PrefixNat
  <2> SUFFICES ASSUME RateLimit > 0 PROVE WithinLimits(a)'
    BY <2>1, <2>2
  <2>6. p <= Counts[a] /\ p <= RateLimit /\ q <= p + RateLimit
    BY <2>0, <2>1, <2>3, <2>5 DEF WindowInv, WithinLimits, Through
  <2>7. SumOf(h, 0 .. T - 1) <= q
    <3>1. CASE T = 1
      BY <2>2, <2>5, <3>1
    <3>2. CASE T # 1
      <4>1. T - 2 \in Nat /\ T - 2 + 1 = T - 1 /\ T - 1 \in Ages /\ T - 2 \in Ages
        BY <2>4, <3>2
      <4>2. SumOf(h, 0 .. T - 2 + 1) = SumOf(f, 0 .. T - 2)
        BY <2>2, <4>1
      <4>3. SumOf(f, 0 .. T - 2 + 1) = f[T - 2 + 1] + SumOf(f, 0 .. T - 2)
        BY <4>1, PrefixNext
      <4>4. f[T - 1] \in Nat /\ SumOf(f, 0 .. T - 2) \in Nat
        BY <4>1, PrefixNat
      <4> QED
        BY <2>5, <4>1, <4>2, <4>3, <4>4
    <3> QED
      BY <3>1, <3>2
  <2>8. PICK z \in Nat : z = SumOf(h, 0 .. T - 1)
    <3>1. T - 1 \in Ages
      BY <2>4
    <3> QED
      BY <2>2, <3>1, PrefixNat
  <2>9. CASE Second(clock') = Second(clock) /\ clock' % TicksPerSecond = r + 1
    <3>1. r + 1 \in Ages
      BY <1>1, <2>9, ClockStep
    <3>2. SumOf(h, 0 .. r + 1) = p
      <4>1. r \in Nat
        BY <2>4
      <4> QED
        BY <2>2, <2>5, <3>1, <4>1
    <3>3. p <= c /\ p <= RateLimit /\ z <= p + RateLimit
      BY <1>2, <2>3, <2>6, <2>7, <2>8, <2>9
    <3> QED
      BY <2>0, <2>1, <2>2, <2>3, <2>8, <2>9, <3>2, <3>3 DEF WithinLimits, Through
  <2>10. CASE r = T - 1 /\ clock' % TicksPerSecond = 0
    <3>0. p = q
      BY <2>5, <2>10
    <3>1. 0 <= c /\ 0 <= RateLimit /\ z <= 0 + RateLimit
      BY <1>2, <2>6, <2>7, <2>8, <3>0
    <3> QED
      BY <2>0, <2>1, <2>2, <2>3, <2>8, <2>10, <3>1 DEF WithinLimits, Through
  <2> QED
    BY <1>1, <2>3, <2>9, <2>10, ClockStep
<1>4. passed' \in [Addresses -> [Ages -> Nat]]
  BY <1>3 DEF ClockTick
<1> QED
  BY <1>3, <1>4 DEF WindowInv

\* Every step keeps what passes within the limits.
LEMMA WindowStep == GatewayInv /\ WindowInv /\ [GatewayNext]_gateVars => WindowInv'
<1>1. SUFFICES ASSUME GatewayInv, WindowInv, [GatewayNext]_gateVars PROVE WindowInv'
  OBVIOUS
<1>2. ASSUME NEW addr \in Addresses, NEW key \in BOOLEAN, CoreRequest(addr, key), clock' = clock
      PROVE  WindowInv'
  <2>1. Passes(addr) \/ (Count(addr) /\ passed' = passed)
    BY <1>2 DEF CoreRequest, TooMany, Answered, AskStats
  <2> QED
    BY <1>1, <1>2, <2>1, WindowCount
<1>3. ASSUME NEW u \in Users, WebRequest(u) PROVE WindowInv'
  <2>1. PICK addr \in Addresses : CoreRequest(addr, TRUE)
    BY <1>3 DEF WebRequest, AddressesOf, Addresses
  <2> QED
    BY <1>2, <1>3, <2>1 DEF WebRequest
<1>4. ASSUME NEW t \in Tools, ToolRequest(t) PROVE WindowInv'
  BY <1>2, <1>4 DEF ToolRequest, Addresses
<1>5. ASSUME NEW addr \in Addresses, StatsAgain(addr) \/ StatsRefused(addr)
      PROVE  WindowInv'
  <2>1. clock' = clock /\ (Passes(addr) \/ (Count(addr) /\ passed' = passed))
    BY <1>5 DEF StatsAgain, StatsRefused
  <2> QED
    BY <1>1, <2>1, WindowCount
<1>6. ASSUME UNCHANGED <<clock, second, buckets, passed>> PROVE WindowInv'
  BY <1>1, <1>6 DEF WindowInv, WithinLimits, Through, Counts
<1>7. CASE \/ \E u \in Users : Login(u)
           \/ \E admin, u \in Users, r \in {"admin", "viewer", "none"} : SetUser(admin, u, r)
  BY <1>6, <1>7 DEF Login, SetUser, limitVars
<1>8. CASE ClockTick
  BY <1>1, <1>8, WindowTick
<1>9. CASE UNCHANGED gateVars
  BY <1>6, <1>9 DEF gateVars, limitVars
<1> QED
  BY <1>1, <1>3, <1>4, <1>5, <1>7, <1>8, <1>9 DEF GatewayNext

\* Whatever the number of ticks in a second, however requests, refusals and ticks
\* interleave and however /api/stats calls itself, apiRateLimiter.allow
\* (core-go/api.go), with a RateLimit other than 0, lets no more than RateLimit
\* requests with an address pass in a second of the clock and no more than twice as
\* many in any second's length.
THEOREM LimiterHoldsInAnyWindow == GatewaySpec => []WindowBound
<1>1. ASSUME GatewayInv, WindowInv PROVE WindowBound
  <2>1. clock \in Nat /\ passed \in [Addresses -> [Ages -> Nat]] /\ RateLimit \in Nat
    BY <1>1, GatewayAssumption DEF GatewayInv, GatewayTypeOK, WindowInv
  <2>2. clock % TicksPerSecond \in Ages /\ TicksPerSecond \in Nat \ {0}
    BY <2>1, ClockStep, GatewayAssumption
  <2>3. /\ {age \in Ages : age <= clock % TicksPerSecond} = 0 .. clock % TicksPerSecond
        /\ Ages = 0 .. TicksPerSecond - 1 /\ TicksPerSecond - 1 \in Ages
    BY <2>2 DEF Ages
  <2>4. ASSUME RateLimit > 0, NEW addr \in Addresses
        PROVE  /\ SumOf(passed[addr], {age \in Ages : age <= clock % TicksPerSecond}) <= RateLimit
               /\ SumOf(passed[addr], Ages) <= 2 * RateLimit
    <3>1. PICK f \in [Ages -> Nat] : f = passed[addr]
      BY <2>1
    <3>2. PICK p \in Nat, q \in Nat : /\ p = SumOf(f, 0 .. clock % TicksPerSecond)
                                      /\ q = SumOf(f, 0 .. TicksPerSecond - 1)
      BY <2>2, <2>3, PrefixNat
    <3>3. p <= RateLimit /\ q <= p + RateLimit
      BY <1>1, <2>4, <3>1, <3>2 DEF WindowInv, WithinLimits, Through
    <3>4. p <= RateLimit /\ q <= 2 * RateLimit
      BY <2>1, <3>3
    <3> QED
      BY <2>3, <3>1, <3>2, <3>4
  <2> QED
    BY <2>4, Zenon DEF WindowBound, SumOf
<1> QED
  BY GatewayStarts, GatewayStep, WindowInit, WindowStep, <1>1, PTL DEF GatewaySpec
=============================================================================
