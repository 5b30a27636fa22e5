----------------------------- MODULE PureProofs -----------------------------
(***************************************************************************)
(* Proofs about the pure parts of the program that MCPure gives inputs to: *)
(* the report builders (Reports, CallState), the SIP parser, the redaction *)
(* and the echo (SipMessage) and the HEP decoder (HepPacket).              *)
(*                                                                         *)
(* Each part has a theorem about the operators for any input, any number of *)
(* rows, lines or chunks, and one that states a property of the run for    *)
(* every bound of MCPure.  The recursive functions of the model are tables: *)
(* a lemma shows that the table exists, from which its equations follow, and *)
(* the induction is over the numbers, the finite sets or the sequences for *)
(* which a set of good ones is closed (ClimbAll, GrowAll, SeqClimb).       *)
(***************************************************************************)
EXTENDS MCPure, NaturalsInduction, WellFoundedInduction, FiniteSetTheorems,
        SequenceTheorems, TLAPS

\* Every set of numbers has a least one.
LEMMA LeastNat ==
    ASSUME NEW T \in SUBSET Nat, T # {}
    PROVE  \E n \in T : \A k \in T : n <= k
<1>1. IsWellFoundedOn(OpToRel(<, Nat), Nat)
  BY NatLessThanWellFounded, Zenon
<1>2. PICK n \in T : \A k \in T : ~(<<k, n>> \in OpToRel(<, Nat))
  BY <1>1, WFMin, Zenon
<1>3. \A k \in T : ~(k < n)
  BY <1>2 DEF OpToRel
<1> QED
  BY <1>3

\* Induction over the numbers, with no operator as a parameter.
LEMMA ClimbAll ==
    ASSUME NEW Good, 0 \in Good, \A n \in Nat : n \in Good => n + 1 \in Good
    PROVE  \A n \in Nat : n \in Good
<1> DEFINE Bad == {n \in Nat : n \notin Good}
<1>1. SUFFICES ASSUME Bad # {} PROVE FALSE
  OBVIOUS
<1>2. Bad \in SUBSET Nat
  OBVIOUS
<1>3. PICK n \in Bad : \A k \in Bad : n <= k
  <2> HIDE DEF Bad
  <2> QED
    BY <1>1, <1>2, LeastNat
<1>4. n \in Nat /\ n # 0 /\ n - 1 \in Nat /\ n - 1 + 1 = n
  BY <1>3
<1>5. n - 1 \notin Bad
  BY <1>3, <1>4
<1> QED
  BY <1>3, <1>4, <1>5

\* One member less.
LEMMA OneLess ==
    ASSUME NEW S, IsFiniteSet(S), NEW x \in S, NEW n \in Nat, Cardinality(S) = n + 1
    PROVE  Cardinality(S \ {x}) = n
<1>1. Cardinality(S \ {x}) = Cardinality(S) - 1
  BY FS_RemoveElement
<1> QED
  BY <1>1

\* The same over the subsets of a finite set, one member at a time.
LEMMA GrowAll ==
    ASSUME NEW U, IsFiniteSet(U), NEW Good, {} \in Good,
           \A S \in SUBSET U : \A x \in U \ S : S \in Good => S \cup {x} \in Good
    PROVE  \A S \in SUBSET U : S \in Good
<1> DEFINE Sizes == {n \in Nat : \A S \in SUBSET U : Cardinality(S) = n => S \in Good}
<1>0. \A S \in SUBSET U : IsFiniteSet(S) /\ Cardinality(S) \in Nat
  BY FS_Subset, FS_CardinalityType
<1>1. 0 \in Sizes
  BY <1>0, FS_EmptySet
<1>2. ASSUME NEW n \in Nat, n \in Sizes PROVE n + 1 \in Sizes
  <2>1. ASSUME NEW S \in SUBSET U, Cardinality(S) = n + 1 PROVE S \in Good
    <3>1. PICK x : x \in S
      BY <1>0, <2>1, FS_EmptySet
    <3>2. Cardinality(S \ {x}) = n
      BY <1>0, <2>1, <3>1, OneLess
    <3>3. S \ {x} \in Good /\ x \in U \ (S \ {x}) /\ S = (S \ {x}) \cup {x}
      BY <1>2, <3>1, <3>2
    <3> QED
      BY <3>3
  <2> QED
    BY <2>1
<1> HIDE DEF Sizes
<1>3. \A n \in Nat : n \in Sizes
  BY <1>1, <1>2, ClimbAll
<1> QED
  BY <1>0, <1>3 DEF Sizes

\* Induction over sequences.
LEMMA SeqClimb ==
    ASSUME NEW T, NEW Good, << >> \in Good,
           \A s \in Seq(T), x \in T : s \in Good => Append(s, x) \in Good
    PROVE  \A s \in Seq(T) : s \in Good
<1> DEFINE Lens == {n \in Nat : \A s \in Seq(T) : Len(s) = n => s \in Good}
<1>1. 0 \in Lens
  <2>1. \A s \in Seq(T) : Len(s) = 0 => s = << >>
    BY EmptySeq
  <2> QED
    BY <2>1
<1>2. ASSUME NEW n \in Nat, n \in Lens PROVE n + 1 \in Lens
  <2>1. ASSUME NEW s \in Seq(T), Len(s) = n + 1 PROVE s \in Good
    <3>1. s # << >>
      BY <2>1, EmptySeq
    <3>2. PICK r \in Seq(T), x \in T : s = Append(r, x)
      BY <3>1, SequenceEmptyOrAppend
    <3>3. Len(r) \in Nat /\ Len(s) = Len(r) + 1
      BY <3>2, AppendProperties, LenProperties
    <3>4. Len(r) = n
      BY <2>1, <3>3
    <3> QED
      BY <1>2, <3>2, <3>4
  <2> QED
    BY <2>1
<1> HIDE DEF Lens
<1>3. \A n \in Nat : n \in Lens
  <2>1. \A n \in Nat : n \in Lens => n + 1 \in Lens
    BY <1>2
  <2> QED
    BY <1>1, <2>1, ClimbAll
<1>4. ASSUME NEW s \in Seq(T) PROVE s \in Good
  <2>1. Len(s) \in Nat
    BY LenProperties
  <2>2. Len(s) \in Lens
    BY <1>3, <2>1
  <2> QED
    BY <2>2 DEF Lens
<1> QED
  BY <1>4
-----------------------------------------------------------------------------
(***************************************************************************)
(* Sums over a finite set.  The fold of the library picks the members with *)
(* CHOOSE; its recursive function is a table of the sums over the subsets. *)
(***************************************************************************)
Some(s) == CHOOSE x \in s : TRUE

\* The sum over s, if g has the sums over the smaller sets; g is such a table.
SumStep(g, f, s) == IF s = {} THEN 0 ELSE f[Some(s)] + g[s \ {Some(s)}]

IsSums(g, f, S) == g = [s \in SUBSET S |-> SumStep(g, f, s)]

SumOf(f, S) == MapThenSumSet(LAMBDA x : f[x], S)

\* The subsets of up to n members.
UpTo(S, n) == {s \in SUBSET S : Cardinality(s) <= n}

\* The table exists.
LEMMA SumsExist ==
    ASSUME NEW f, NEW S, IsFiniteSet(S)
    PROVE  \E g : IsSums(g, f, S)
<1> DEFINE Good == {n \in Nat : \E g : g = [s \in UpTo(S, n) |-> SumStep(g, f, s)]}
<1>0. \A s \in SUBSET S : /\ IsFiniteSet(s) /\ Cardinality(s) \in Nat
                          /\ Cardinality(s) <= Cardinality(S)
  BY FS_Subset, FS_CardinalityType
<1>1. 0 \in Good
  <2> DEFINE g == [s \in UpTo(S, 0) |-> 0]
  <2>1. \A s \in UpTo(S, 0) : s = {}
    BY <1>0, FS_EmptySet DEF UpTo
  <2>2. g = [s \in UpTo(S, 0) |-> SumStep(g, f, s)]
    BY <2>1 DEF SumStep
  <2> QED
    BY <2>2
<1>2. ASSUME NEW n \in Nat, n \in Good PROVE n + 1 \in Good
  <2>1. PICK g : g = [s \in UpTo(S, n) |-> SumStep(g, f, s)]
    BY <1>2
  <2> DEFINE h == [s \in UpTo(S, n + 1) |-> SumStep(g, f, s)]
  <2>2. ASSUME NEW s \in UpTo(S, n + 1), s # {}
        PROVE  s \ {Some(s)} \in UpTo(S, n) /\ s \ {Some(s)} \in UpTo(S, n + 1)
    <3>1. Some(s) \in s
      BY <2>2 DEF Some
    <3>2. Cardinality(s \ {Some(s)}) = Cardinality(s) - 1 /\ Cardinality(s) \in Nat
      BY <1>0, <2>2, <3>1, FS_RemoveElement DEF UpTo
    <3> QED
      BY <1>0, <2>2, <3>2 DEF UpTo
  <2>3. ASSUME NEW s \in UpTo(S, n) PROVE h[s] = g[s]
    <3>1. s \in UpTo(S, n + 1)
      BY <1>0, <2>3 DEF UpTo
    <3>2. h[s] = SumStep(g, f, s)
      BY <3>1
    <3>3. g[s] = SumStep(g, f, s)
      BY <2>1, Zenon
    <3> QED
      BY <3>2, <3>3
  <2>4. ASSUME NEW s \in UpTo(S, n + 1) PROVE SumStep(g, f, s) = SumStep(h, f, s)
    <3>1. CASE s = {}
      BY <3>1 DEF SumStep
    <3>2. CASE s # {}
      <4>1. h[s \ {Some(s)}] = g[s \ {Some(s)}]
        BY <2>2, <2>3, <3>2
      <4> HIDE DEF h
      <4> QED
        BY <3>2, <4>1 DEF SumStep
    <3> QED
      BY <3>1, <3>2
  <2>5. h = [s \in UpTo(S, n + 1) |-> SumStep(h, f, s)]
    <3>1. h = [s \in UpTo(S, n + 1) |-> SumStep(g, f, s)]
      OBVIOUS
    <3> HIDE DEF h
    <3> QED
      BY <2>4, <3>1, Zenon
  <2>6. \E e : e = [s \in UpTo(S, n + 1) |-> SumStep(e, f, s)]
    <3> HIDE DEF h
    <3> QED
      BY <2>5
  <2> QED
    BY <2>6
<1>3. \A n \in Nat : n \in Good
  <2> HIDE DEF Good
  <2> QED
    BY <1>1, <1>2, ClimbAll
<1>4. UpTo(S, Cardinality(S)) = SUBSET S /\ Cardinality(S) \in Nat
  BY <1>0 DEF UpTo
<1>5. PICK g : g = [s \in UpTo(S, Cardinality(S)) |-> SumStep(g, f, s)]
  BY <1>3, <1>4
<1> QED
  BY <1>4, <1>5 DEF IsSums

\* An entry of a table.
LEMMA SumsEntry ==
    ASSUME NEW f, NEW S, NEW g, IsSums(g, f, S), NEW s \in SUBSET S
    PROVE  g[s] = SumStep(g, f, s)
<1>1. g = [t \in SUBSET S |-> SumStep(g, f, t)]
  BY DEF IsSums
<1> QED
  BY <1>1, Zenon

\* The sum is the last entry of a table.
LEMMA SumIs ==
    ASSUME NEW f, NEW S, IsFiniteSet(S)
    PROVE  \E g : IsSums(g, f, S) /\ SumOf(f, S) = g[S]
<1> DEFINE g == CHOOSE g : IsSums(g, f, S)
<1>1. IsSums(g, f, S)
  BY SumsExist
<1>2. SumOf(f, S) = g[S]
  BY DEF SumOf, MapThenSumSet, MapThenFoldSet, IsSums, SumStep, Some
<1> HIDE DEF g
<1> QED
  BY <1>1, <1>2

\* Tables for two sets agree where their summands do.
LEMMA SumsAgree ==
    ASSUME NEW f, NEW S, IsFiniteSet(S), NEW g, IsSums(g, f, S),
           NEW e, NEW R, NEW h, IsSums(h, e, R), S \subseteq R, \A x \in S : e[x] = f[x]
    PROVE  g[S] = h[S]
<1> DEFINE Good == {n \in Nat : \A s \in SUBSET S : Cardinality(s) = n => g[s] = h[s]}
<1>0. \A s \in SUBSET S : IsFiniteSet(s) /\ Cardinality(s) \in Nat /\ s \in SUBSET R
  BY FS_Subset, FS_CardinalityType
<1>1. 0 \in Good
  <2>1. ASSUME NEW s \in SUBSET S, s = {} PROVE g[s] = h[s]
    <3>1. g[s] = SumStep(g, f, s) /\ h[s] = SumStep(h, e, s)
      BY <1>0, SumsEntry
    <3> QED
      BY <2>1, <3>1 DEF SumStep
  <2> QED
    BY <1>0, <2>1, FS_EmptySet
<1>2. ASSUME NEW n \in Nat, n \in Good PROVE n + 1 \in Good
  <2>1. ASSUME NEW s \in SUBSET S, Cardinality(s) = n + 1 PROVE g[s] = h[s]
    <3>1. s # {}
      BY <2>1, FS_EmptySet
    <3>2. Some(s) \in s
      BY <3>1 DEF Some
    <3>3. Cardinality(s \ {Some(s)}) = n
      BY <1>0, <2>1, <3>2, OneLess
    <3>4. g[s \ {Some(s)}] = h[s \ {Some(s)}] /\ e[Some(s)] = f[Some(s)]
      BY <1>2, <3>2, <3>3
    <3>5. g[s] = SumStep(g, f, s) /\ h[s] = SumStep(h, e, s)
      BY <1>0, SumsEntry
    <3> QED
      BY <3>1, <3>4, <3>5 DEF SumStep
  <2> QED
    BY <2>1
<1> HIDE DEF Good
<1>3. \A n \in Nat : n \in Good
  BY <1>1, <1>2, ClimbAll
<1> QED
  BY <1>0, <1>3 DEF Good

\* Sums of numbers are numbers.
LEMMA SumsAreNat ==
    ASSUME NEW f, NEW S, IsFiniteSet(S), \A x \in S : f[x] \in Nat,
           NEW g, IsSums(g, f, S)
    PROVE  \A s \in SUBSET S : g[s] \in Nat
<1> DEFINE Good == {n \in Nat : \A s \in SUBSET S : Cardinality(s) = n => g[s] \in Nat}
<1>0. \A s \in SUBSET S : IsFiniteSet(s) /\ Cardinality(s) \in Nat
  BY FS_Subset, FS_CardinalityType
<1>1. 0 \in Good
  <2>1. ASSUME NEW s \in SUBSET S, s = {} PROVE g[s] \in Nat
    BY <2>1, SumsEntry DEF SumStep
  <2> QED
    BY <1>0, <2>1, FS_EmptySet
<1>2. ASSUME NEW n \in Nat, n \in Good PROVE n + 1 \in Good
  <2>1. ASSUME NEW s \in SUBSET S, Cardinality(s) = n + 1 PROVE g[s] \in Nat
    <3>1. s # {}
      BY <2>1, FS_EmptySet
    <3>2. Some(s) \in s
      BY <3>1 DEF Some
    <3>3. Cardinality(s \ {Some(s)}) = n
      BY <1>0, <2>1, <3>2, OneLess
    <3>4. g[s \ {Some(s)}] \in Nat /\ f[Some(s)] \in Nat
      BY <1>2, <3>2, <3>3
    <3>5. g[s] = SumStep(g, f, s)
      BY SumsEntry
    <3> QED
      BY <3>1, <3>4, <3>5 DEF SumStep
  <2> QED
    BY <2>1
<1> HIDE DEF Good
<1>3. \A n \in Nat : n \in Good
  BY <1>1, <1>2, ClimbAll
<1> QED
  BY <1>0, <1>3 DEF Good

\* Any member may be taken out first.
LEMMA SumsAnyOrder ==
    ASSUME NEW f, NEW S, IsFiniteSet(S), \A x \in S : f[x] \in Nat,
           NEW g, IsSums(g, f, S)
    PROVE  \A s \in SUBSET S : g[s] \in Nat /\ \A x \in s : g[s] = f[x] + g[s \ {x}]
<1> DEFINE Right(s) == g[s] \in Nat /\ \A x \in s : g[s] = f[x] + g[s \ {x}]
           Good == {n \in Nat : \A s \in SUBSET S : Cardinality(s) = n => Right(s)}
<1>0. \A s \in SUBSET S : IsFiniteSet(s) /\ Cardinality(s) \in Nat
  BY FS_Subset, FS_CardinalityType
<1>1. 0 \in Good
  <2>1. ASSUME NEW s \in SUBSET S, s = {} PROVE Right(s)
    <3>1. g[s] = 0
      BY <2>1, SumsEntry DEF SumStep
    <3> QED
      BY <2>1, <3>1
  <2> HIDE DEF Right
  <2> QED
    BY <1>0, <2>1, FS_EmptySet
<1>2. ASSUME NEW n \in Nat, n \in Good PROVE n + 1 \in Good
  <2>1. ASSUME NEW s \in SUBSET S, Cardinality(s) = n + 1 PROVE Right(s)
    <3>1. s # {}
      BY <2>1, FS_EmptySet
    <3>2. PICK c \in s : c = Some(s)
      BY <3>1 DEF Some
    <3>3. g[s] = f[c] + g[s \ {c}]
      BY <3>1, <3>2, SumsEntry DEF SumStep
    <3>4. ASSUME NEW x \in s
          PROVE  /\ s \ {x} \in SUBSET S /\ Right(s \ {x})
                 /\ f[x] \in Nat /\ g[s \ {x}] \in Nat
      <4>1. Cardinality(s \ {x}) = n /\ s \ {x} \in SUBSET S
        BY <1>0, <2>1, OneLess
      <4>2. Right(s \ {x})
        BY <1>2, <4>1
      <4> QED
        BY <4>1, <4>2
    <3>5. g[s] \in Nat
      BY <3>2, <3>3, <3>4
    <3>6. ASSUME NEW x \in s PROVE g[s] = f[x] + g[s \ {x}]
      <4>1. CASE x = c
        BY <3>3, <4>1
      <4>2. CASE x # c
        <5>1. x \in s \ {c} /\ c \in s \ {x}
          BY <3>6, <3>2, <4>2
        <5>2. g[s \ {c}] = f[x] + g[(s \ {c}) \ {x}]
          BY <3>4, <3>2, <5>1
        <5>3. g[s \ {x}] = f[c] + g[(s \ {x}) \ {c}]
          BY <3>4, <3>6, <5>1
        <5>4. (s \ {c}) \ {x} = (s \ {x}) \ {c}
          OBVIOUS
        <5>5. PICK r : r = g[(s \ {x}) \ {c}]
          OBVIOUS
        <5>6. r \in Nat /\ f[x] \in Nat /\ f[c] \in Nat
          <6>1. (s \ {x}) \ {c} \in SUBSET S
            OBVIOUS
          <6> QED
            BY <3>2, <3>6, <5>5, <6>1, SumsAreNat
        <5> QED
          BY <3>3, <5>2, <5>3, <5>4, <5>5, <5>6
      <4> QED
        BY <4>1, <4>2
    <3> QED
      BY <3>5, <3>6
  <2> HIDE DEF Right
  <2> QED
    BY <2>1
<1>3. \A n \in Nat : n \in Good
  <2> HIDE DEF Good
  <2> QED
    BY <1>1, <1>2, ClimbAll
<1> HIDE DEF Right
<1>4. \A s \in SUBSET S : Right(s)
  BY <1>0, <1>3
<1> QED
  BY <1>4 DEF Right

\* The sum over no member.
LEMMA SumOfNone ==
    ASSUME NEW f
    PROVE  SumOf(f, {}) = 0
<1>1. IsFiniteSet({})
  BY FS_EmptySet
<1>2. PICK g : IsSums(g, f, {}) /\ SumOf(f, {}) = g[{}]
  BY <1>1, SumIs
<1>3. g[{}] = SumStep(g, f, {})
  BY <1>2, SumsEntry
<1> QED
  BY <1>2, <1>3 DEF SumStep

\* A sum of numbers is a number.
LEMMA SumOfNat ==
    ASSUME NEW f, NEW S, IsFiniteSet(S), \A x \in S : f[x] \in Nat
    PROVE  SumOf(f, S) \in Nat
<1>1. PICK g : IsSums(g, f, S) /\ SumOf(f, S) = g[S]
  BY SumIs
<1> QED
  BY <1>1, SumsAreNat

\* Equal summands, equal sums.
LEMMA SumOfSame ==
    ASSUME NEW f, NEW h, NEW S, IsFiniteSet(S), \A x \in S : f[x] = h[x]
    PROVE  SumOf(f, S) = SumOf(h, S)
<1>1. PICK g : IsSums(g, f, S) /\ SumOf(f, S) = g[S]
  BY SumIs
<1>2. PICK e : IsSums(e, h, S) /\ SumOf(h, S) = e[S]
  BY SumIs
<1>3. g[S] = e[S]
  BY <1>1, <1>2, SumsAgree
<1> QED
  BY <1>1, <1>2, <1>3

\* The sum over one member more.
LEMMA SumOfMore ==
    ASSUME NEW f, NEW S, IsFiniteSet(S), NEW x, x \notin S,
           \A y \in S \cup {x} : f[y] \in Nat
    PROVE  SumOf(f, S \cup {x}) = f[x] + SumOf(f, S)
<1>1. PICK R : R = S \cup {x} /\ IsFiniteSet(R) /\ S = R \ {x} /\ x \in R
  <2>1. IsFiniteSet(S \cup {x})
    BY FS_AddElement
  <2>2. S = (S \cup {x}) \ {x} /\ x \in S \cup {x}
    OBVIOUS
  <2> QED
    BY <2>1, <2>2
<1>2. PICK g : IsSums(g, f, R) /\ SumOf(f, R) = g[R]
  BY <1>1, SumIs
<1>3. PICK h : IsSums(h, f, S) /\ SumOf(f, S) = h[S]
  BY SumIs
<1>4. S \subseteq R
  BY <1>1
<1>5. h[S] = g[S]
  BY <1>2, <1>3, <1>4, SumsAgree
<1>6. g[R] = f[x] + g[S]
  <2>1. \A y \in R : f[y] \in Nat
    BY <1>1
  <2> QED
    BY <1>1, <1>2, <2>1, SumsAnyOrder
<1> QED
  BY <1>1, <1>2, <1>3, <1>5, <1>6
-----------------------------------------------------------------------------
(***************************************************************************)
(* Counting.                                                               *)
(***************************************************************************)
\* The values of a function on a finite set are finitely many.
LEMMA ImageFinite ==
    ASSUME NEW D, IsFiniteSet(D), NEW g
    PROVE  IsFiniteSet({g[k] : k \in D})
<1> DEFINE Img(S) == {g[k] : k \in S}
           Good == {S \in SUBSET D : IsFiniteSet(Img(S))}
<1>1. {} \in Good
  <2>1. Img({}) = {}
    OBVIOUS
  <2> QED
    BY <2>1, FS_EmptySet
<1>2. ASSUME NEW S \in SUBSET D, NEW x \in D \ S, S \in Good PROVE S \cup {x} \in Good
  <2>1. Img(S \cup {x}) = Img(S) \cup {g[x]}
    OBVIOUS
  <2>2. IsFiniteSet(Img(S) \cup {g[x]})
    <3>1. IsFiniteSet(Img(S))
      BY <1>2
    <3> HIDE DEF Img
    <3> QED
      BY <3>1, FS_AddElement
  <2> HIDE DEF Img
  <2> QED
    BY <1>2, <2>1, <2>2
<1>3. \A S \in SUBSET D : S \in Good
  <2> HIDE DEF Good
  <2> QED
    BY <1>1, <1>2, GrowAll
<1> QED
  BY <1>3

\* Two sets that share nothing.
LEMMA CountDisjoint ==
    ASSUME NEW S, IsFiniteSet(S), NEW T, IsFiniteSet(T), S \cap T = {}
    PROVE  Cardinality(S \cup T) = Cardinality(S) + Cardinality(T)
<1>1. Cardinality(S \cap T) = 0
  BY FS_EmptySet
<1>2. Cardinality(S) \in Nat /\ Cardinality(T) \in Nat
  BY FS_CardinalityType
<1>3. Cardinality(S \cup T) = Cardinality(S) + Cardinality(T) - Cardinality(S \cap T)
  BY FS_Union
<1> QED
  BY <1>1, <1>2, <1>3

\* The members of D that g sends into S.
Into(D, g, S) == {k \in D : g[k] \in S}

\* The function h counts the members of D by what g sends them to.
CountsBy(h, D, g, B) == \A b \in B : h[b] = Cardinality({k \in D : g[k] = b})

\* Members are counted once when they are counted by what g sends them to.
LEMMA CountedOnce ==
    ASSUME NEW D, IsFiniteSet(D), NEW g, NEW B, IsFiniteSet(B), \A k \in D : g[k] \in B,
           NEW h, CountsBy(h, D, g, B)
    PROVE  SumOf(h, B) = Cardinality(D)
<1> DEFINE Good == {S \in SUBSET B : SumOf(h, S) = Cardinality(Into(D, g, S))}
<1>0. /\ \A S : IsFiniteSet(Into(D, g, S)) /\ Cardinality(Into(D, g, S)) \in Nat
      /\ \A b : IsFiniteSet({k \in D : g[k] = b}) /\ Cardinality({k \in D : g[k] = b}) \in Nat
      /\ \A S \in SUBSET B : IsFiniteSet(S)
  <2>1. \A T \in SUBSET D : IsFiniteSet(T) /\ Cardinality(T) \in Nat
    BY FS_Subset, FS_CardinalityType
  <2>2. \A S \in SUBSET B : IsFiniteSet(S)
    BY FS_Subset
  <2>3. \A S : Into(D, g, S) \in SUBSET D
    BY DEF Into
  <2>4. \A b : {k \in D : g[k] = b} \in SUBSET D
    OBVIOUS
  <2> QED
    BY <2>1, <2>2, <2>3, <2>4
<1>1. {} \in Good
  <2>1. Into(D, g, {}) = {}
    BY DEF Into
  <2> QED
    BY <2>1, SumOfNone, FS_EmptySet
<1>2. ASSUME NEW S \in SUBSET B, NEW b \in B \ S, S \in Good PROVE S \cup {b} \in Good
  <2> DEFINE Own == {k \in D : g[k] = b}
  <2>1. /\ Into(D, g, S \cup {b}) = Into(D, g, S) \cup Own
        /\ Into(D, g, S) \cap Own = {}
    BY <1>2 DEF Into
  <2>2. IsFiniteSet(Own) /\ IsFiniteSet(Into(D, g, S)) /\ Cardinality(Own) \in Nat
        /\ Cardinality(Into(D, g, S)) \in Nat
    BY <1>0
  <2>3. h[b] = Cardinality(Own)
    BY <1>2 DEF CountsBy
  <2> HIDE DEF Own
  <2>4. Cardinality(Into(D, g, S) \cup Own) = Cardinality(Into(D, g, S)) + Cardinality(Own)
    BY <2>1, <2>2, CountDisjoint
  <2>6. Cardinality(Into(D, g, S \cup {b})) = Cardinality(Into(D, g, S)) + Cardinality(Own)
    BY <2>1, <2>4
  <2>7. SumOf(h, S \cup {b}) = h[b] + SumOf(h, S)
    <3>1. IsFiniteSet(S) /\ b \notin S
      BY <1>0, <1>2
    <3>2. ASSUME NEW y \in S \cup {b} PROVE h[y] \in Nat
      <4>1. y \in B
        BY <1>2
      <4> QED
        BY <1>0, <4>1 DEF CountsBy
    <3> QED
      BY <3>1, <3>2, SumOfMore
  <2>8. SumOf(h, S) = Cardinality(Into(D, g, S))
    BY <1>2
  <2> QED
    BY <1>2, <2>2, <2>3, <2>6, <2>7, <2>8
<1>3. \A S \in SUBSET B : S \in Good
  <2> HIDE DEF Good
  <2> QED
    BY <1>1, <1>2, GrowAll
<1>4. SumOf(h, B) = Cardinality(Into(D, g, B))
  BY <1>3
<1>5. Into(D, g, B) = D
  BY DEF Into
<1> QED
  BY <1>4, <1>5

\* So are those that g sends into a set of its own.
LEMMA CountedIn ==
    ASSUME NEW D, IsFiniteSet(D), NEW g, NEW S, IsFiniteSet(S), NEW h, CountsBy(h, D, g, S)
    PROVE  SumOf(h, S) = Cardinality(Into(D, g, S))
<1>1. PICK E : E = Into(D, g, S)
  OBVIOUS
<1>2. E \in SUBSET D /\ \A k \in E : g[k] \in S
  BY <1>1 DEF Into
<1>3. IsFiniteSet(E)
  BY <1>2, FS_Subset
<1>4. \A b \in S : {k \in E : g[k] = b} = {k \in D : g[k] = b}
  BY <1>1 DEF Into
<1>5. CountsBy(h, E, g, S)
  BY <1>4 DEF CountsBy
<1> QED
  BY <1>1, <1>2, <1>3, <1>5, CountedOnce

\* What a LIMIT leaves of the rows: some of them, or all if it does not bind.
LEMMA FirstRowsAre ==
    ASSUME NEW S, IsFiniteSet(S), NEW key, NEW n \in Nat, NEW T \in FirstRows(S, key, n)
    PROVE  T \subseteq S /\ IsFiniteSet(T) /\ (Cardinality(S) <= n => T = S)
<1>1. /\ T \in SUBSET S
      /\ Cardinality(T) = IF Cardinality(S) < n THEN Cardinality(S) ELSE n
  BY DEF FirstRows
<1>2. Cardinality(S) \in Nat
  BY FS_CardinalityType
<1>3. Cardinality(S) <= n => Cardinality(S) = Cardinality(T)
  BY <1>1, <1>2
<1> QED
  BY <1>1, <1>3, FS_Subset

\* A smaller set counts less.
LEMMA CountSubset ==
    ASSUME NEW D, IsFiniteSet(D), NEW T, T \subseteq D
    PROVE  /\ IsFiniteSet(T) /\ Cardinality(T) \in Nat /\ Cardinality(D) \in Nat
           /\ Cardinality(T) <= Cardinality(D)
BY FS_Subset, FS_CardinalityType

\* A part of a whole is at most 100 %.
LEMMA PercentOfPart ==
    ASSUME NEW part \in Nat, NEW whole \in Nat, part <= whole
    PROVE  Percent(part, whole) \in 0 .. 100
<1>1. CASE whole = 0
  BY <1>1 DEF Percent
<1>2. CASE whole > 0
  <2>1. PICK w \in Nat \ {0}, p \in Nat : w = whole /\ p = part * 100 /\ p <= w * 100
    BY <1>2
  <2>2. ASSUME NEW i \in Nat
        PROVE  i \div w \in Nat /\ i % w \in 0 .. w - 1 /\ i = w * (i \div w) + (i % w)
    OBVIOUS
  <2>3. PICK q \in Nat, r \in 0 .. w - 1 : q = p \div w /\ p = w * q + r
    <3>1. p \div w \in Nat /\ p % w \in 0 .. w - 1 /\ p = w * (p \div w) + (p % w)
      BY <2>2
    <3> QED
      BY <3>1
  <2>4. ~(q >= 101)
    <3>1. SUFFICES ASSUME q >= 101 PROVE FALSE
      OBVIOUS
    <3>2. w * q >= w * 101
      BY <3>1
    <3>3. PICK y \in Int : y = w * q
      OBVIOUS
    <3>4. w * 101 = w * 100 + w
      OBVIOUS
    <3> QED
      BY <2>1, <2>3, <3>2, <3>3, <3>4
  <2>5. Percent(part, whole) = q
    BY <1>2, <2>1, <2>3 DEF Percent
  <2> QED
    BY <2>4, <2>5
<1> QED
  BY <1>1, <1>2
-----------------------------------------------------------------------------
(***************************************************************************)
(* The columns that the trends add up, as sums of functions.               *)
(***************************************************************************)
\* What the library's sum of a column is made of: g is a table of it.
TotalStep(g, t, s) == IF s = {} THEN 0 ELSE t[Some(s)].total + g[s \ {Some(s)}]
AnsweredStep(g, t, s) == IF s = {} THEN 0 ELSE t[Some(s)].answered + g[s \ {Some(s)}]
FailedStep(g, t, s) == IF s = {} THEN 0 ELSE t[Some(s)].failed + g[s \ {Some(s)}]
InvitesStep(g, t, s) == IF s = {} THEN 0 ELSE t[Some(s)].invites + g[s \ {Some(s)}]

\* The sum of the column total.
LEMMA TotalSum ==
    ASSUME NEW t, NEW h, NEW S, IsFiniteSet(S), \A b \in S : h[b] = t[b].total
    PROVE  MapThenSumSet(LAMBDA b : t[b].total, S) = SumOf(h, S)
<1>1. PICK g : IsSums(g, h, S) /\ SumOf(h, S) = g[S]
  BY SumIs
<1>2. \A e : \A s \in SUBSET S : SumStep(e, h, s) = TotalStep(e, t, s)
  <2>1. \A s \in SUBSET S : s # {} => Some(s) \in S
    BY DEF Some
  <2> QED
    BY <2>1 DEF SumStep, TotalStep
<1>3. \A e : IsSums(e, h, S) = (e = [s \in SUBSET S |-> TotalStep(e, t, s)])
  BY <1>2, Zenon DEF IsSums
<1>4. PICK c : c = CHOOSE e : e = [s \in SUBSET S |-> TotalStep(e, t, s)]
  OBVIOUS
<1>5. IsSums(c, h, S)
  BY <1>1, <1>3, <1>4, Zenon
<1>6. MapThenSumSet(LAMBDA b : t[b].total, S) = c[S]
  BY <1>4 DEF MapThenSumSet, MapThenFoldSet, TotalStep, Some
<1>7. c[S] = g[S]
  BY <1>1, <1>5, SumsAgree
<1> QED
  BY <1>1, <1>6, <1>7

\* The sum of the column answered.
LEMMA AnsweredSum ==
    ASSUME NEW t, NEW h, NEW S, IsFiniteSet(S), \A b \in S : h[b] = t[b].answered
    PROVE  MapThenSumSet(LAMBDA b : t[b].answered, S) = SumOf(h, S)
<1>1. PICK g : IsSums(g, h, S) /\ SumOf(h, S) = g[S]
  BY SumIs
<1>2. \A e : \A s \in SUBSET S : SumStep(e, h, s) = AnsweredStep(e, t, s)
  <2>1. \A s \in SUBSET S : s # {} => Some(s) \in S
    BY DEF Some
  <2> QED
    BY <2>1 DEF SumStep, AnsweredStep
<1>3. \A e : IsSums(e, h, S) = (e = [s \in SUBSET S |-> AnsweredStep(e, t, s)])
  BY <1>2, Zenon DEF IsSums
<1>4. PICK c : c = CHOOSE e : e = [s \in SUBSET S |-> AnsweredStep(e, t, s)]
  OBVIOUS
<1>5. IsSums(c, h, S)
  BY <1>1, <1>3, <1>4, Zenon
<1>6. MapThenSumSet(LAMBDA b : t[b].answered, S) = c[S]
  BY <1>4 DEF MapThenSumSet, MapThenFoldSet, AnsweredStep, Some
<1>7. c[S] = g[S]
  BY <1>1, <1>5, SumsAgree
<1> QED
  BY <1>1, <1>6, <1>7

\* The sum of the column failed.
LEMMA FailedSum ==
    ASSUME NEW t, NEW h, NEW S, IsFiniteSet(S), \A b \in S : h[b] = t[b].failed
    PROVE  MapThenSumSet(LAMBDA b : t[b].failed, S) = SumOf(h, S)
<1>1. PICK g : IsSums(g, h, S) /\ SumOf(h, S) = g[S]
  BY SumIs
<1>2. \A e : \A s \in SUBSET S : SumStep(e, h, s) = FailedStep(e, t, s)
  <2>1. \A s \in SUBSET S : s # {} => Some(s) \in S
    BY DEF Some
  <2> QED
    BY <2>1 DEF SumStep, FailedStep
<1>3. \A e : IsSums(e, h, S) = (e = [s \in SUBSET S |-> FailedStep(e, t, s)])
  BY <1>2, Zenon DEF IsSums
<1>4. PICK c : c = CHOOSE e : e = [s \in SUBSET S |-> FailedStep(e, t, s)]
  OBVIOUS
<1>5. IsSums(c, h, S)
  BY <1>1, <1>3, <1>4, Zenon
<1>6. MapThenSumSet(LAMBDA b : t[b].failed, S) = c[S]
  BY <1>4 DEF MapThenSumSet, MapThenFoldSet, FailedStep, Some
<1>7. c[S] = g[S]
  BY <1>1, <1>5, SumsAgree
<1> QED
  BY <1>1, <1>6, <1>7

\* The sum of the column invites.
LEMMA InvitesSum ==
    ASSUME NEW t, NEW h, NEW S, IsFiniteSet(S), \A b \in S : h[b] = t[b].invites
    PROVE  MapThenSumSet(LAMBDA b : t[b].invites, S) = SumOf(h, S)
<1>1. PICK g : IsSums(g, h, S) /\ SumOf(h, S) = g[S]
  BY SumIs
<1>2. \A e : \A s \in SUBSET S : SumStep(e, h, s) = InvitesStep(e, t, s)
  <2>1. \A s \in SUBSET S : s # {} => Some(s) \in S
    BY DEF Some
  <2> QED
    BY <2>1 DEF SumStep, InvitesStep
<1>3. \A e : IsSums(e, h, S) = (e = [s \in SUBSET S |-> InvitesStep(e, t, s)])
  BY <1>2, Zenon DEF IsSums
<1>4. PICK c : c = CHOOSE e : e = [s \in SUBSET S |-> InvitesStep(e, t, s)]
  OBVIOUS
<1>5. IsSums(c, h, S)
  BY <1>1, <1>3, <1>4, Zenon
<1>6. MapThenSumSet(LAMBDA b : t[b].invites, S) = c[S]
  BY <1>4 DEF MapThenSumSet, MapThenFoldSet, InvitesStep, Some
<1>7. c[S] = g[S]
  BY <1>1, <1>5, SumsAgree
<1> QED
  BY <1>1, <1>6, <1>7

-----------------------------------------------------------------------------
(***************************************************************************)
(* Reports on calls, for every table of call_state rows.                   *)
(***************************************************************************)
\* What the columns of a row may hold.
RowTyped(r) == /\ r.open \in {0, 1} /\ r.answered \in {0, 1}
               /\ r.last_status \in Int /\ r.invite_id \in Nat
               /\ r.first_ts \in Int /\ r.last_ts \in Int

CallsTyped(calls) == IsFiniteSet(DOMAIN calls) /\ \A k \in DOMAIN calls : RowTyped(calls[k])

\* The hours, days or minutes in which calls began.
BucketSet(calls, length) == {calls[k].first_ts \div length : k \in DOMAIN calls}

\* The calls of a bucket, and the answered, failed and invited ones of them.
LEMMA BucketRows ==
    ASSUME NEW calls, NEW length, NEW b \in BucketSet(calls, length)
    PROVE  LET part == Buckets(calls, length)[b]
               In(Q) == {k \in Q : calls[k].first_ts \div length = b}
           IN  /\ DOMAIN part = In(DOMAIN calls)
               /\ AnsweredIn(part) = In(AnsweredIn(calls))
               /\ FailedIn(part) = In(FailedIn(calls))
               /\ InvitedIn(part) = In(InvitedIn(calls))
<1>0. PICK part : part = Buckets(calls, length)[b]
  OBVIOUS
<1> DEFINE In(Q) == {k \in Q : calls[k].first_ts \div length = b}
<1>1. part = [k \in In(DOMAIN calls) |-> calls[k]]
  BY <1>0 DEF Buckets, BucketSet, Restrict
<1>2. DOMAIN part = In(DOMAIN calls) /\ \A k \in In(DOMAIN calls) : part[k] = calls[k]
  BY <1>1
<1>3. AnsweredIn(part) = In(AnsweredIn(calls))
  BY <1>2 DEF AnsweredIn
<1>4. FailedIn(part) = In(FailedIn(calls))
  BY <1>2 DEF FailedIn
<1>5. InvitedIn(part) = In(InvitedIn(calls))
  BY <1>2 DEF InvitedIn
<1> QED
  BY <1>0, <1>2, <1>3, <1>4, <1>5

\* The function h counts the calls of Q by the bucket they began in.
CountsBuckets(h, calls, length, Q) ==
    \A b \in BucketSet(calls, length) :
        h[b] = Cardinality({k \in Q : calls[k].first_ts \div length = b})

\* Calls counted by the bucket they began in.
LEMMA BucketsCount ==
    ASSUME NEW calls, IsFiniteSet(DOMAIN calls), NEW length, NEW Q, Q \subseteq DOMAIN calls,
           NEW h, CountsBuckets(h, calls, length, Q)
    PROVE  /\ IsFiniteSet(BucketSet(calls, length))
           /\ SumOf(h, BucketSet(calls, length)) = Cardinality(Q)
<1> DEFINE g == [k \in DOMAIN calls |-> calls[k].first_ts \div length]
           B == {g[k] : k \in DOMAIN calls}
<1>1. B = BucketSet(calls, length)
  BY DEF BucketSet
<1>2. \A k \in Q : g[k] \in B
  OBVIOUS
<1>3. CountsBy(h, Q, g, B)
  <2>1. ASSUME NEW b PROVE {k \in Q : g[k] = b} = {k \in Q : calls[k].first_ts \div length = b}
    OBVIOUS
  <2> HIDE DEF g, B
  <2> QED
    BY <1>1, <2>1 DEF CountsBuckets, CountsBy
<1>4. IsFiniteSet(B)
  <2> HIDE DEF g
  <2> QED
    BY ImageFinite
<1>5. IsFiniteSet(Q)
  BY CountSubset
<1>6. SumOf(h, B) = Cardinality(Q)
  <2> HIDE DEF B, g
  <2> QED
    BY <1>2, <1>3, <1>4, <1>5, CountedOnce
<1> QED
  BY <1>1, <1>4, <1>6

\* The trend adds up to the totals, and the calls per second to the invites.
LEMMA TrendAddsUp ==
    ASSUME NEW calls, IsFiniteSet(DOMAIN calls), NEW length
    PROVE  /\ SumOver(Trend(calls, length), LAMBDA r : r.total) = Kpi(calls).total
           /\ SumOver(Trend(calls, length), LAMBDA r : r.answered) = Kpi(calls).answered
           /\ SumOver(Trend(calls, length), LAMBDA r : r.failed) = Kpi(calls).failed
           /\ SumOver(Cps(calls, length), LAMBDA r : r.invites) = SlaAgent(calls).invites
<1> DEFINE In(Q, b) == {k \in Q : calls[k].first_ts \div length = b}
<1>0. PICK B, t, c : /\ B = BucketSet(calls, length)
                     /\ t = Trend(calls, length) /\ c = Cps(calls, length)
  OBVIOUS
<1>1. DOMAIN Buckets(calls, length) = B
  BY <1>0 DEF Buckets, BucketSet
<1>2. /\ t = [b \in B |-> Kpi(Buckets(calls, length)[b])]
      /\ c = [b \in B |-> [total |-> Cardinality(DOMAIN Buckets(calls, length)[b]),
                           invites |-> Cardinality(InvitedIn(Buckets(calls, length)[b]))]]
  BY <1>0, <1>1 DEF Trend, Cps
<1>3. DOMAIN t = B /\ DOMAIN c = B
  BY <1>2
<1>4. ASSUME NEW b \in B
      PROVE  /\ t[b].total = Cardinality(In(DOMAIN calls, b))
             /\ t[b].answered = Cardinality(In(AnsweredIn(calls), b))
             /\ t[b].failed = Cardinality(In(FailedIn(calls), b))
             /\ c[b].invites = Cardinality(In(InvitedIn(calls), b))
  <2>1. PICK part : part = Buckets(calls, length)[b]
    OBVIOUS
  <2>2. /\ DOMAIN part = In(DOMAIN calls, b)
        /\ AnsweredIn(part) = In(AnsweredIn(calls), b)
        /\ FailedIn(part) = In(FailedIn(calls), b)
        /\ InvitedIn(part) = In(InvitedIn(calls), b)
    BY <1>0, <2>1, BucketRows
  <2>3. t[b] = Kpi(part)
    BY <1>2, <2>1
  <2>4. c[b].invites = Cardinality(InvitedIn(part))
    BY <1>2, <2>1
  <2>5. /\ Kpi(part).total = Cardinality(DOMAIN part)
        /\ Kpi(part).answered = Cardinality(AnsweredIn(part))
        /\ Kpi(part).failed = Cardinality(FailedIn(part))
    BY DEF Kpi
  <2> HIDE DEF In
  <2> QED
    BY <2>2, <2>3, <2>4, <2>5
<1>5. /\ Kpi(calls).total = Cardinality(DOMAIN calls)
      /\ Kpi(calls).answered = Cardinality(AnsweredIn(calls))
      /\ Kpi(calls).failed = Cardinality(FailedIn(calls))
      /\ SlaAgent(calls).invites = Cardinality(InvitedIn(calls))
  BY DEF Kpi, SlaAgent
<1>6. /\ AnsweredIn(calls) \subseteq DOMAIN calls /\ FailedIn(calls) \subseteq DOMAIN calls
      /\ InvitedIn(calls) \subseteq DOMAIN calls
  BY DEF AnsweredIn, FailedIn, InvitedIn
<1>7. ASSUME NEW Q, Q \subseteq DOMAIN calls
      PROVE  LET h == [b \in B |-> Cardinality(In(Q, b))]
             IN  IsFiniteSet(B) /\ SumOf(h, B) = Cardinality(Q)
  <2>1. PICK h : h = [b \in B |-> Cardinality(In(Q, b))]
    OBVIOUS
  <2>2. CountsBuckets(h, calls, length, Q)
    BY <1>0, <2>1 DEF CountsBuckets
  <2>4. /\ IsFiniteSet(BucketSet(calls, length))
        /\ SumOf(h, BucketSet(calls, length)) = Cardinality(Q)
    BY <1>7, <2>2, BucketsCount
  <2>3. IsFiniteSet(B) /\ SumOf(h, B) = Cardinality(Q)
    BY <1>0, <2>4
  <2> QED
    BY <2>1, <2>3
<1>8. SumOver(t, LAMBDA r : r.total) = Kpi(calls).total
  <2>1. PICK h : h = [b \in B |-> Cardinality(In(DOMAIN calls, b))]
    OBVIOUS
  <2>2. IsFiniteSet(B) /\ SumOf(h, B) = Cardinality(DOMAIN calls)
    BY <1>7, <2>1
  <2>3. \A b \in B : h[b] = t[b].total
    BY <1>4, <2>1
  <2>4. MapThenSumSet(LAMBDA b : t[b].total, B) = SumOf(h, B)
    BY <2>2, <2>3, TotalSum
  <2>5. SumOver(t, LAMBDA r : r.total) = MapThenSumSet(LAMBDA b : t[b].total, B)
    BY <1>3 DEF SumOver
  <2> QED
    BY <1>5, <2>2, <2>4, <2>5
<1>9. SumOver(t, LAMBDA r : r.answered) = Kpi(calls).answered
  <2>1. PICK h : h = [b \in B |-> Cardinality(In(AnsweredIn(calls), b))]
    OBVIOUS
  <2>2. IsFiniteSet(B) /\ SumOf(h, B) = Cardinality(AnsweredIn(calls))
    BY <1>6, <1>7, <2>1
  <2>3. \A b \in B : h[b] = t[b].answered
    BY <1>4, <2>1
  <2>4. MapThenSumSet(LAMBDA b : t[b].answered, B) = SumOf(h, B)
    BY <2>2, <2>3, AnsweredSum
  <2>5. SumOver(t, LAMBDA r : r.answered) = MapThenSumSet(LAMBDA b : t[b].answered, B)
    BY <1>3 DEF SumOver
  <2> QED
    BY <1>5, <2>2, <2>4, <2>5
<1>10. SumOver(t, LAMBDA r : r.failed) = Kpi(calls).failed
  <2>1. PICK h : h = [b \in B |-> Cardinality(In(FailedIn(calls), b))]
    OBVIOUS
  <2>2. IsFiniteSet(B) /\ SumOf(h, B) = Cardinality(FailedIn(calls))
    BY <1>6, <1>7, <2>1
  <2>3. \A b \in B : h[b] = t[b].failed
    BY <1>4, <2>1
  <2>4. MapThenSumSet(LAMBDA b : t[b].failed, B) = SumOf(h, B)
    BY <2>2, <2>3, FailedSum
  <2>5. SumOver(t, LAMBDA r : r.failed) = MapThenSumSet(LAMBDA b : t[b].failed, B)
    BY <1>3 DEF SumOver
  <2> QED
    BY <1>5, <2>2, <2>4, <2>5
<1>11. SumOver(c, LAMBDA r : r.invites) = SlaAgent(calls).invites
  <2>1. PICK h : h = [b \in B |-> Cardinality(In(InvitedIn(calls), b))]
    OBVIOUS
  <2>2. IsFiniteSet(B) /\ SumOf(h, B) = Cardinality(InvitedIn(calls))
    BY <1>6, <1>7, <2>1
  <2>3. \A b \in B : h[b] = c[b].invites
    BY <1>4, <2>1
  <2>4. MapThenSumSet(LAMBDA b : c[b].invites, B) = SumOf(h, B)
    BY <2>2, <2>3, InvitesSum
  <2>5. SumOver(c, LAMBDA r : r.invites) = MapThenSumSet(LAMBDA b : c[b].invites, B)
    BY <1>3 DEF SumOver
  <2> QED
    BY <1>5, <2>2, <2>4, <2>5
<1> QED
  BY <1>0, <1>8, <1>9, <1>10, <1>11

\* The error codes that are listed add up to errors, all codes to all of them.
LEMMA CodesAddUp ==
    ASSUME NEW calls, IsFiniteSet(DOMAIN calls), NEW codes \in ErrorCodes(calls)
    PROVE  LET listed == SumOver(codes, LAMBDA n : n)
           IN  /\ listed <= SlaPeer(calls).errors
               /\ Cardinality({calls[k].last_status : k \in FailedIn(calls)})
                     <= ErrorCodeLimit => listed = SlaPeer(calls).errors
<1> DEFINE g == [k \in DOMAIN calls |-> calls[k].last_status]
           Q == FailedIn(calls)
           B == {g[k] : k \in Q}
<1>1. Q \subseteq DOMAIN calls
  BY DEF FailedIn
<1>2. B = {calls[k].last_status : k \in Q}
  BY <1>1
<1>3. \A s : {k \in Q : g[k] = s} = {k \in Q : calls[k].last_status = s}
  BY <1>1
<1>0. PICK h : h = [s \in {calls[k].last_status : k \in Q} |->
                      Cardinality({k \in Q : calls[k].last_status = s})]
  OBVIOUS
<1>4. PICK S \in FirstRows({calls[k].last_status : k \in Q}, h, ErrorCodeLimit) :
         codes = Restrict(h, S)
  BY <1>0 DEF ErrorCodes
<1>5. IsFiniteSet(Q)
  <2> HIDE DEF Q
  <2> QED
    BY <1>1, CountSubset
<1>6. IsFiniteSet(B)
  <2> HIDE DEF Q, g
  <2> QED
    BY <1>5, ImageFinite
<1>7. S \subseteq B /\ IsFiniteSet(S) /\ (Cardinality(B) <= ErrorCodeLimit => S = B)
  <2>1. S \in FirstRows(B, h, ErrorCodeLimit)
    BY <1>2, <1>4
  <2> HIDE DEF B, Q, g
  <2> QED
    BY <1>6, <2>1, FirstRowsAre, LimitsAssumption
<1>8. DOMAIN codes = S /\ CountsBy(codes, Q, g, S)
  <2>1. \A s \in S : codes[s] = Cardinality({k \in Q : calls[k].last_status = s})
    <3> HIDE DEF Q, g
    <3> QED
      BY <1>0, <1>2, <1>4, <1>7 DEF Restrict
  <2>2. DOMAIN codes = S
    BY <1>4 DEF Restrict
  <2> HIDE DEF B, Q, g
  <2> QED
    BY <1>3, <2>1, <2>2 DEF CountsBy
<1>9. SumOf(codes, S) = Cardinality(Into(Q, g, S))
  <2> HIDE DEF B, Q, g
  <2> QED
    BY <1>5, <1>7, <1>8, CountedIn
<1>10. SumOver(codes, LAMBDA n : n) = SumOf(codes, DOMAIN codes)
  BY DEF SumOver, SumOf
<1>11. SlaPeer(calls).errors = Cardinality(Q)
  BY DEF SlaPeer
<1>12. Cardinality(Into(Q, g, S)) <= Cardinality(Q) /\ Into(Q, g, B) = Q
  <2>1. Into(Q, g, S) \subseteq Q /\ Into(Q, g, B) = Q
    BY DEF Into
  <2> HIDE DEF B, Q, g
  <2> QED
    BY <1>5, <2>1, CountSubset
<1>13. PICK v : v = SumOver(codes, LAMBDA n : n)
  OBVIOUS
<1>14. /\ v <= SlaPeer(calls).errors
       /\ Cardinality(B) <= ErrorCodeLimit => v = SlaPeer(calls).errors
  <2> HIDE DEF B, Q, g
  <2> QED
    BY <1>7, <1>8, <1>9, <1>10, <1>11, <1>12, <1>13
<1>15. /\ v <= SlaPeer(calls).errors
       /\ Cardinality({calls[k].last_status : k \in FailedIn(calls)}) <= ErrorCodeLimit
             => v = SlaPeer(calls).errors
  BY <1>2, <1>14
<1> QED
  BY <1>13, <1>15, Zenon

\* Answered and failed calls are different calls, so their ratio is one.
LEMMA RatiosAgree ==
    ASSUME NEW calls, CallsTyped(calls)
    PROVE  /\ Kpi(calls).answered + Kpi(calls).failed <= Kpi(calls).total
           /\ NumberReport(calls).asr = Kpi(calls).asr
           /\ SlaPeer(calls).asr = AtMost100(SlaAgent(calls).asr)
           /\ SlaAgent(calls).asr > 100 => AnsweredIn(calls) \ InvitedIn(calls) # {}
<1>1. PICK D, A, F, I : /\ D = DOMAIN calls /\ A = AnsweredIn(calls) /\ F = FailedIn(calls)
                        /\ I = InvitedIn(calls)
  OBVIOUS
<1>2. A \subseteq D /\ F \subseteq D /\ I \subseteq D /\ A \cap F = {} /\ A \cup F \subseteq D
  BY <1>1 DEF AnsweredIn, FailedIn, InvitedIn
<1>3. IsFiniteSet(D)
  BY <1>1 DEF CallsTyped
<1>4. IsFiniteSet(A) /\ IsFiniteSet(F) /\ IsFiniteSet(I)
  BY <1>2, <1>3, CountSubset
<1>5. PICK a \in Nat, f \in Nat, i \in Nat, d \in Nat :
           a = Cardinality(A) /\ f = Cardinality(F) /\ i = Cardinality(I) /\ d = Cardinality(D)
  BY <1>3, <1>4, FS_CardinalityType
<1>6. a + f <= d
  <2>1. Cardinality(A \cup F) = a + f
    BY <1>2, <1>4, <1>5, CountDisjoint
  <2>2. Cardinality(A \cup F) <= d
    BY <1>2, <1>3, <1>5, CountSubset
  <2> QED
    BY <2>1, <2>2
<1>7. /\ Kpi(calls).answered = a /\ Kpi(calls).failed = f /\ Kpi(calls).total = d
      /\ Kpi(calls).asr = AtMost100(Percent(a, a + f))
      /\ NumberReport(calls).asr = Percent(a, a + f)
      /\ SlaPeer(calls).asr = AtMost100(Percent(a, i))
      /\ SlaAgent(calls).asr = Percent(a, i)
  BY <1>1, <1>5 DEF Kpi, NumberReport, SlaPeer, SlaAgent
<1>8. AtMost100(Percent(a, a + f)) = Percent(a, a + f)
  <2>1. Percent(a, a + f) \in 0 .. 100
    BY PercentOfPart
  <2> QED
    BY <2>1 DEF AtMost100
<1>9. ASSUME Percent(a, i) > 100 PROVE A \ I # {}
  <2>1. SUFFICES ASSUME A \subseteq I PROVE FALSE
    OBVIOUS
  <2>2. a <= i
    BY <1>4, <1>5, <2>1, CountSubset
  <2>3. Percent(a, i) \in 0 .. 100
    BY <2>2, PercentOfPart
  <2> QED
    BY <1>9, <2>3
<1> QED
  BY <1>1, <1>6, <1>7, <1>8, <1>9

\* The number page has the same ratio if it lists all the calls, and no more
\* answered and failed ones if it does not.
LEMMA NumberAgrees ==
    ASSUME NEW calls, CallsTyped(calls), NEW number \in NumberReports(calls)
    PROVE  /\ number.answered <= Kpi(calls).answered /\ number.failed <= Kpi(calls).failed
           /\ Kpi(calls).total <= NumberLimit => number.asr = Kpi(calls).asr
<1>1. PICK D : D = DOMAIN calls /\ IsFiniteSet(D)
  BY DEF CallsTyped
<1>0. PICK key : key = [k \in D |-> calls[k].first_ts]
  OBVIOUS
<1>2. PICK S \in FirstRows(D, key, NumberLimit) : number = NumberReport(Restrict(calls, S))
  BY <1>0, <1>1 DEF NumberReports
<1>3. S \subseteq D /\ (Cardinality(D) <= NumberLimit => S = D)
  BY <1>1, <1>2, FirstRowsAre, LimitsAssumption
<1> DEFINE r == Restrict(calls, S)
<1>4. /\ AnsweredIn(r) = {k \in S : k \in AnsweredIn(calls)}
      /\ FailedIn(r) = {k \in S : k \in FailedIn(calls)}
      /\ AnsweredIn(calls) \subseteq D /\ FailedIn(calls) \subseteq D
  BY <1>1, <1>2, <1>3 DEF Restrict, AnsweredIn, FailedIn
<1>5. IsFiniteSet(AnsweredIn(calls)) /\ IsFiniteSet(FailedIn(calls))
  BY <1>1, <1>4, CountSubset
<1>6. AnsweredIn(r) \subseteq AnsweredIn(calls) /\ FailedIn(r) \subseteq FailedIn(calls)
  BY <1>4
<1>7. /\ Cardinality(AnsweredIn(r)) <= Cardinality(AnsweredIn(calls))
      /\ Cardinality(FailedIn(r)) <= Cardinality(FailedIn(calls))
  BY <1>5, <1>6, CountSubset
<1>8. /\ number.answered = Cardinality(AnsweredIn(r)) /\ number.failed = Cardinality(FailedIn(r))
      /\ Kpi(calls).answered = Cardinality(AnsweredIn(calls))
      /\ Kpi(calls).failed = Cardinality(FailedIn(calls))
      /\ Kpi(calls).total = Cardinality(D)
  BY <1>1, <1>2 DEF NumberReport, Kpi
<1>9. ASSUME S = D PROVE number.asr = NumberReport(calls).asr
  <2>1. AnsweredIn(r) = AnsweredIn(calls) /\ FailedIn(r) = FailedIn(calls)
    BY <1>4, <1>9
  <2> QED
    BY <1>2, <2>1 DEF NumberReport
<1> QED
  BY <1>3, <1>7, <1>8, <1>9, RatiosAgree

\* What buildRealtimeJSON shows of the calls.
LEMMA RealtimeAgrees ==
    ASSUME NEW calls, CallsTyped(calls), NEW cutoff \in Int, NEW now \in Int, NEW length \in Int
    PROVE  LET shown == Realtime(calls, Since(calls, cutoff),
                                 Active(calls, now, length, length - 1))
           IN  /\ shown.ner = shown.asr
               /\ shown.answered_calls <= Kpi(calls).answered
               /\ shown.open_dialogs = shown.active_calls + shown.stale_open_dialogs
<1>1. PICK D, A, O, C, W, V :
         /\ D = DOMAIN calls /\ A = AnsweredIn(calls)
         /\ O = {k \in DOMAIN calls : calls[k].open = 1}
         /\ C = Active(calls, now, length, length - 1)
         /\ W = Since(calls, cutoff)
         /\ V = AnsweredIn(W)
  OBVIOUS
<1>2. O \subseteq D /\ C \subseteq O /\ A \subseteq D
  BY <1>1 DEF Active, AnsweredIn
<1>3. V \subseteq A
  <2>1. W = [k \in {m \in D : calls[m].first_ts >= cutoff} |-> calls[k]]
    BY <1>1 DEF Since, Restrict
  <2>2. DOMAIN W \subseteq D /\ \A k \in DOMAIN W : W[k] = calls[k]
    BY <2>1
  <2> QED
    BY <1>1, <2>2 DEF AnsweredIn
<1>4. IsFiniteSet(D)
  BY <1>1 DEF CallsTyped
<1>5. IsFiniteSet(O) /\ IsFiniteSet(A)
  BY <1>2, <1>4, CountSubset
<1>6. FailedIn(W) \subseteq D
  <2>1. W = [k \in {m \in D : calls[m].first_ts >= cutoff} |-> calls[k]]
    BY <1>1 DEF Since, Restrict
  <2>2. DOMAIN W \subseteq D
    BY <2>1
  <2> QED
    BY <2>2 DEF FailedIn
<1>7. IsFiniteSet(C) /\ IsFiniteSet(V) /\ IsFiniteSet(FailedIn(W))
  BY <1>2, <1>3, <1>4, <1>5, <1>6, CountSubset
<1>8. PICK o \in Nat, c \in Nat, v \in Nat, a \in Nat, f \in Nat :
         /\ o = Cardinality(O) /\ c = Cardinality(C) /\ v = Cardinality(V)
         /\ a = Cardinality(A) /\ f = Cardinality(FailedIn(W))
  BY <1>5, <1>7, FS_CardinalityType
<1>9. c <= o /\ v <= a
  BY <1>2, <1>3, <1>5, <1>8, CountSubset
<1>10. PICK shown : shown = Realtime(calls, W, C)
  OBVIOUS
<1>11. /\ shown.ner = Percent(v + f - f, v + f) /\ shown.asr = Percent(v, v + f)
       /\ shown.answered_calls = v /\ shown.open_dialogs = o /\ shown.active_calls = c
       /\ shown.stale_open_dialogs = IF o - c < 0 THEN 0 ELSE o - c
  BY <1>1, <1>8, <1>10 DEF Realtime
<1>12. v + f - f = v
  OBVIOUS
<1>13. o = c + (IF o - c < 0 THEN 0 ELSE o - c)
  BY <1>9
<1>14. Kpi(calls).answered = a
  BY <1>1, <1>8 DEF Kpi
<1> QED
  BY <1>1, <1>9, <1>10, <1>11, <1>12, <1>13, <1>14

\* The labels and filters of the pages, call by call.
LEMMA LabelsAgree ==
    ASSUME NEW calls, CallsTyped(calls)
    PROVE  LET Label(state) == {k \in DOMAIN calls : StateOf(calls[k]) = state}
           IN  /\ StateFilter("ringing", calls)  = Label("ringing")
               /\ StateFilter("answered", calls) = Label("answered")
               /\ StateFilter("failed", calls)   = Label("failed")
               /\ StateFilter("ended", calls)    = Label("ended") \cup Label("failed")
               /\ StateFilter("canceled", calls) \subseteq StateFilter("ended", calls)
               /\ \A k \in DOMAIN TopCalls(calls) :
                     TopCalls(calls)[k].state = "active"
                         <=> StateOf(calls[k]) \in {"ringing", "answered"}
               /\ \A k \in DOMAIN calls :
                     /\ NumberState(calls[k]) = "ringing" <=> k \in Label("ringing")
                     /\ NumberState(calls[k]) = "in_progress" <=> k \in Label("answered")
                     /\ k \in Label("failed") => NumberState(calls[k]) = "failed"
<1> DEFINE Label(state) == {k \in DOMAIN calls : StateOf(calls[k]) = state}
<1>1. ASSUME NEW k \in DOMAIN calls
      PROVE  /\ calls[k].open \in {0, 1} /\ calls[k].answered \in {0, 1}
             /\ calls[k].last_status \in Int
  BY DEF CallsTyped, RowTyped
<1>2. ASSUME NEW k \in DOMAIN calls
      PROVE  /\ StateOf(calls[k]) = "ringing" <=> calls[k].open = 1 /\ calls[k].answered = 0
             /\ StateOf(calls[k]) = "answered" <=> calls[k].open = 1 /\ calls[k].answered = 1
             /\ StateOf(calls[k]) = "failed" <=> k \in FailedIn(calls)
             /\ StateOf(calls[k]) \in {"ended", "failed"} <=> calls[k].open = 0
  <2>1. PICK o \in {0, 1}, a \in {0, 1}, s \in Int :
             o = calls[k].open /\ a = calls[k].answered /\ s = calls[k].last_status
    BY <1>1
  <2>2. StateOf(calls[k]) = CASE o = 1 /\ a = 1 -> "answered"
                              [] o = 1 /\ a # 1 -> "ringing"
                              [] o # 1 /\ a = 0 /\ s >= 400 -> "failed"
                              [] OTHER -> "ended"
    BY <2>1 DEF StateOf
  <2>3. k \in FailedIn(calls) <=> a = 0 /\ o = 0 /\ s >= 400
    BY <2>1 DEF FailedIn
  <2>4. CASE o = 1 /\ a = 1
    BY <2>1, <2>2, <2>3, <2>4
  <2>5. CASE o = 1 /\ a = 0
    BY <2>1, <2>2, <2>3, <2>5
  <2>6. CASE o = 0 /\ a = 0 /\ s >= 400
    BY <2>1, <2>2, <2>3, <2>6
  <2>7. CASE o = 0 /\ ~(a = 0 /\ s >= 400)
    BY <2>1, <2>2, <2>3, <2>7
  <2> QED
    BY <2>4, <2>5, <2>6, <2>7
<1>3. /\ StateFilter("ringing", calls) = {k \in DOMAIN calls : calls[k].open = 1 /\ calls[k].answered = 0}
      /\ StateFilter("answered", calls) = {k \in DOMAIN calls : calls[k].open = 1 /\ calls[k].answered = 1}
      /\ StateFilter("ended", calls) = {k \in DOMAIN calls : calls[k].open = 0}
      /\ StateFilter("failed", calls) = {k \in DOMAIN calls : k \in FailedIn(calls)}
      /\ StateFilter("canceled", calls) \subseteq {k \in DOMAIN calls : calls[k].open = 0}
  BY DEF StateFilter
<1>4. /\ StateFilter("ringing", calls) = Label("ringing")
      /\ StateFilter("answered", calls) = Label("answered")
      /\ StateFilter("failed", calls) = Label("failed")
  BY <1>2, <1>3
<1>5. /\ StateFilter("ended", calls) = Label("ended") \cup Label("failed")
      /\ StateFilter("canceled", calls) \subseteq StateFilter("ended", calls)
  BY <1>2, <1>3
<1>6. ASSUME NEW k \in DOMAIN TopCalls(calls)
      PROVE  TopCalls(calls)[k].state = "active" <=> StateOf(calls[k]) \in {"ringing", "answered"}
  <2>1. k \in DOMAIN calls /\ (TopCalls(calls)[k].state = "active" <=> calls[k].open = 1)
    BY DEF TopCalls, InvitedIn
  <2> QED
    BY <1>1, <1>2, <2>1
<1>7. ASSUME NEW k \in DOMAIN calls
      PROVE  /\ NumberState(calls[k]) = "ringing" <=> k \in Label("ringing")
             /\ NumberState(calls[k]) = "in_progress" <=> k \in Label("answered")
             /\ k \in Label("failed") => NumberState(calls[k]) = "failed"
  <2>1. PICK o \in {0, 1}, a \in {0, 1} : o = calls[k].open /\ a = calls[k].answered
    BY <1>1
  <2>2. NumberState(calls[k]) = CASE o = 0 /\ a = 1 -> "completed"
                                  [] o = 0 /\ a # 1 -> "failed"
                                  [] o # 0 /\ a = 1 -> "in_progress"
                                  [] OTHER -> "ringing"
    BY <2>1 DEF NumberState
  <2>3. /\ k \in Label("ringing") <=> o = 1 /\ a = 0
        /\ k \in Label("answered") <=> o = 1 /\ a = 1
        /\ k \in Label("failed") => a = 0 /\ o = 0
    BY <1>2, <2>1 DEF FailedIn
  <2> HIDE DEF Label
  <2>4. CASE o = 1 /\ a = 1
    BY <2>2, <2>3, <2>4
  <2>5. CASE o = 1 /\ a = 0
    BY <2>2, <2>3, <2>5
  <2>6. CASE o = 0 /\ a = 1
    BY <2>2, <2>3, <2>6
  <2>7. CASE o = 0 /\ a = 0
    BY <2>2, <2>3, <2>7
  <2> QED
    BY <2>4, <2>5, <2>6, <2>7
<1> QED
  BY <1>4, <1>5, <1>6, <1>7

\* Whatever rows call_state holds, and whatever the time, the window, the length of
\* the buckets and the LIMITs, the pages about calls agree with each other as far as
\* they list the same rows (reports.go).
THEOREM CallPagesAgree ==
    ASSUME NEW calls, CallsTyped(calls), NEW now \in Int, NEW length \in Int
    PROVE  CallReportsAgreeOn(calls, now, length)
<1>1. IsFiniteSet(DOMAIN calls) /\ now - length \in Int
  BY DEF CallsTyped
<1>2. /\ SumOver(Trend(calls, length), LAMBDA r : r.total) = Kpi(calls).total
      /\ SumOver(Trend(calls, length), LAMBDA r : r.answered) = Kpi(calls).answered
      /\ SumOver(Trend(calls, length), LAMBDA r : r.failed) = Kpi(calls).failed
      /\ SumOver(Cps(calls, length), LAMBDA r : r.invites) = SlaAgent(calls).invites
  BY <1>1, TrendAddsUp
<1>3. LET shown == Realtime(calls, Since(calls, now - length),
                            Active(calls, now, length, length - 1))
      IN  /\ shown.ner = shown.asr
          /\ shown.answered_calls <= Kpi(calls).answered
          /\ shown.open_dialogs = shown.active_calls + shown.stale_open_dialogs
  BY <1>1, RealtimeAgrees
<1>4. \A codes \in ErrorCodes(calls) :
         LET listed == SumOver(codes, LAMBDA n : n)
         IN  /\ listed <= SlaPeer(calls).errors
             /\ Cardinality({calls[k].last_status : k \in FailedIn(calls)})
                   <= ErrorCodeLimit => listed = SlaPeer(calls).errors
  BY <1>1, CodesAddUp
<1>5. \A number \in NumberReports(calls) :
         /\ number.answered <= Kpi(calls).answered /\ number.failed <= Kpi(calls).failed
         /\ Kpi(calls).total <= NumberLimit => number.asr = Kpi(calls).asr
  BY NumberAgrees
<1> QED
  BY <1>2, <1>3, <1>4, <1>5, RatiosAgree, LabelsAgree DEF CallReportsAgreeOn
-----------------------------------------------------------------------------
(***************************************************************************)
(* Reports on messages, for every set of rows of captures.                 *)
(***************************************************************************)
\* What the columns of a message may hold.
MsgsTyped(msgs) == /\ IsFiniteSet(msgs)
                   /\ \A x \in msgs : x.status \in Nat /\ x.ts \in Int

\* A finite set of integers has a greatest one.
LEMMA MaxOfFinite ==
    ASSUME NEW S, IsFiniteSet(S), S \subseteq Int, S # {}
    PROVE  Max(S) \in S /\ \A k \in S : k <= Max(S)
<1> DEFINE Top(T, m) == m \in T /\ \A k \in T : m >= k
           Good == {T \in SUBSET S : T # {} => \E m : Top(T, m)}
<1>1. {} \in Good
  OBVIOUS
<1>2. ASSUME NEW T \in SUBSET S, NEW x \in S \ T, T \in Good PROVE T \cup {x} \in Good
  <2>1. CASE T = {}
    <3>1. Top(T \cup {x}, x)
      BY <2>1
    <3> QED
      BY <3>1
  <2>2. CASE T # {}
    <3>1. PICK m : Top(T, m)
      BY <1>2, <2>2
    <3>2. Top(T \cup {x}, IF m >= x THEN m ELSE x)
      BY <3>1
    <3> HIDE DEF Top
    <3> QED
      BY <3>2
  <2> QED
    BY <2>1, <2>2
<1>3. \A T \in SUBSET S : T \in Good
  <2> HIDE DEF Good
  <2> QED
    BY <1>1, <1>2, GrowAll
<1>4. PICK m \in S : \A k \in S : m >= k
  BY <1>3
<1>5. Max(S) \in S /\ \A k \in S : Max(S) >= k
  BY <1>4, Zenon DEF Max
<1> QED
  BY <1>5

\* The codes listed of a class add up to no more than the class, and to the class if
\* neither the responses nor the codes are too many.
LEMMA ClassAddsUp ==
    ASSUME NEW msgs, MsgsTyped(msgs), NEW low \in Nat \ {0}, NEW high \in Nat,
           NEW codes \in ResponseCodes(msgs)
    PROVE  LET listed == SumOf(codes, {s \in DOMAIN codes : s >= low /\ s < high})
               responses == {x \in msgs : x.status > 0}
           IN  /\ listed <= WithStatus(msgs, low, high)
               /\ (/\ Cardinality(responses) <= RecentLimit
                   /\ Cardinality({x.status : x \in responses}) <= CodeLimit)
                     => listed = WithStatus(msgs, low, high)
<1> DEFINE g == [x \in msgs |-> x.status]
           D == {x \in msgs : x.status >= low /\ x.status < high}
           A == {x \in msgs : x.status > 0}
<1>0. IsFiniteSet(msgs) /\ \A x \in msgs : x.status \in Nat
  BY DEF MsgsTyped
<1>1. PICK key : key = [x \in A |-> x.id]
  OBVIOUS
<1>2. PICK R \in FirstRows(A, key, RecentLimit) :
         \E S \in FirstRows({x.status : x \in R}, StatusCounts(R), CodeLimit) :
            codes = Restrict(StatusCounts(R), S)
  BY <1>1 DEF ResponseCodes
<1>3. PICK S \in FirstRows({x.status : x \in R}, StatusCounts(R), CodeLimit) :
         codes = Restrict(StatusCounts(R), S)
  BY <1>2
<1>4. A \subseteq msgs /\ D \subseteq A
  BY <1>0
<1>5. IsFiniteSet(A) /\ IsFiniteSet(D)
  <2> HIDE DEF A, D
  <2> QED
    BY <1>0, <1>4, CountSubset
<1>6. R \subseteq A /\ IsFiniteSet(R) /\ (Cardinality(A) <= RecentLimit => R = A)
  <2> HIDE DEF A
  <2> QED
    BY <1>2, <1>5, FirstRowsAre, LimitsAssumption
<1>7. {x.status : x \in R} = {g[x] : x \in R}
  BY <1>4, <1>6
<1>8. IsFiniteSet({x.status : x \in R})
  <2>1. IsFiniteSet({g[x] : x \in R})
    <3> HIDE DEF g
    <3> QED
      BY <1>6, ImageFinite
  <2> QED
    BY <1>7, <2>1
<1>9. /\ S \subseteq {x.status : x \in R} /\ IsFiniteSet(S)
      /\ Cardinality({x.status : x \in R}) <= CodeLimit => S = {x.status : x \in R}
  <2> HIDE DEF A, D, g
  <2> QED
    BY <1>3, <1>8, FirstRowsAre, LimitsAssumption
<1>10. DOMAIN codes = S /\ \A s \in S : codes[s] = Cardinality({x \in R : x.status = s})
  BY <1>3, <1>9 DEF Restrict, StatusCounts
<1> DEFINE B == {s \in DOMAIN codes : s >= low /\ s < high}
<1>11. B \subseteq S /\ CountsBy(codes, R, g, B)
  <2>1. \A s : {x \in R : x.status = s} = {x \in R : g[x] = s}
    BY <1>4, <1>6
  <2>2. B \subseteq S
    BY <1>10
  <2>3. \A s \in B : codes[s] = Cardinality({x \in R : g[x] = s})
    BY <1>10, <2>1, <2>2
  <2> HIDE DEF B, g
  <2> QED
    BY <2>2, <2>3 DEF CountsBy
<1>12. SumOf(codes, B) = Cardinality(Into(R, g, B))
  <2> HIDE DEF A, B, D, g
  <2>1. IsFiniteSet(B)
    BY <1>9, <1>11, FS_Subset
  <2> QED
    BY <1>6, <1>11, <2>1, CountedIn
<1>13. Into(R, g, B) \subseteq D
  BY <1>4, <1>6, <1>10 DEF Into
<1>14. ASSUME R = A, S = {x.status : x \in R} PROVE Into(R, g, B) = D
  <2>1. ASSUME NEW x \in D PROVE x \in R /\ g[x] \in B
    BY <1>4, <1>10, <1>14
  <2> QED
    BY <1>13, <2>1 DEF Into
<1>15. WithStatus(msgs, low, high) = Cardinality(D)
  BY DEF WithStatus
<1>16. Cardinality(Into(R, g, B)) <= Cardinality(D)
  <2> HIDE DEF A, B, D, g
  <2> QED
    BY <1>5, <1>13, CountSubset
<1>17. /\ Cardinality(A) <= RecentLimit /\ Cardinality({x.status : x \in A}) <= CodeLimit
          => Into(R, g, B) = D
  <2> HIDE DEF A, B, D, g
  <2> QED
    BY <1>6, <1>9, <1>14
<1>18. PICK v : v = SumOf(codes, B)
  OBVIOUS
<1>19. /\ v <= WithStatus(msgs, low, high)
       /\ (/\ Cardinality(A) <= RecentLimit
           /\ Cardinality({x.status : x \in A}) <= CodeLimit)
             => v = WithStatus(msgs, low, high)
  <2> HIDE DEF A, B, D, g
  <2> QED
    BY <1>12, <1>15, <1>16, <1>17, <1>18
<1> QED
  BY <1>18, <1>19, Zenon

\* The messages of an agent in the window.
Heard(msgs, a, now, window) == {x \in msgs : x.agent = a /\ x.ts >= now - window}

\* A listed node: its messages in the window, the last of them, and no red.
LEMMA NodeRow ==
    ASSUME NEW msgs, MsgsTyped(msgs), NEW now \in Int, NEW window \in Int, NEW short \in Int,
           NEW a \in DOMAIN Nodes(msgs, now, window, short)
    PROVE  /\ Nodes(msgs, now, window, short)[a].total = Cardinality(Heard(msgs, a, now, window))
           /\ Nodes(msgs, now, window, short)[a].status # "red"
<1> DEFINE last == Max({x.ts : x \in Heard(msgs, a, now, window)})
<1>1. /\ Heard(msgs, a, now, window) # {}
      /\ Nodes(msgs, now, window, short)[a].total = Cardinality(Heard(msgs, a, now, window))
      /\ Nodes(msgs, now, window, short)[a].status = NodeStatus(now - last, window, short)
  BY DEF Nodes, Heard
<1>2. PICK H : H = Heard(msgs, a, now, window)
  OBVIOUS
<1>3. H \subseteq msgs /\ \A x \in H : x.ts \in Int /\ x.ts >= now - window
  BY <1>2 DEF Heard, MsgsTyped
<1> DEFINE g == [x \in H |-> x.ts]
           S == {x.ts : x \in H}
<1>4. S = {g[x] : x \in H}
  OBVIOUS
<1>5. IsFiniteSet(H)
  BY <1>3, FS_Subset DEF MsgsTyped
<1>6. IsFiniteSet({g[x] : x \in H})
  <2> HIDE DEF g
  <2> QED
    BY <1>5, ImageFinite
<1>7. S \subseteq Int /\ S # {}
  BY <1>1, <1>2, <1>3
<1>8. Max(S) \in S
  <2> HIDE DEF S
  <2> QED
    BY <1>4, <1>6, <1>7, MaxOfFinite
<1>9. Max(S) \in Int /\ Max(S) >= now - window
  <2>1. PICK m : m = Max(S)
    OBVIOUS
  <2>2. m \in Int /\ m >= now - window
    BY <1>3, <1>8, <2>1
  <2> QED
    BY <2>1, <2>2
<1>10. last = Max(S)
  BY <1>2
<1>11. PICK age \in Int : age = now - last /\ age <= window
  <2> HIDE DEF S, last
  <2>1. now - last \in Int /\ now - last <= window
    BY <1>9, <1>10
  <2> QED
    BY <2>1
<1>12. NodeStatus(age, window, short) # "red"
  <2>1. ~(age > window)
    BY <1>11
  <2>2. CASE age > short
    BY <2>1, <2>2, <1>11 DEF NodeStatus
  <2>3. CASE ~(age > short)
    BY <2>1, <2>3 DEF NodeStatus
  <2> QED
    BY <2>2, <2>3
<1> HIDE DEF last
<1> QED
  BY <1>1, <1>11, <1>12

\* Every message of the window is some listed node's.
LEMMA NodesAddUp ==
    ASSUME NEW msgs, MsgsTyped(msgs), NEW now \in Int, NEW window \in Int, NEW short \in Int
    PROVE  SumOver(Nodes(msgs, now, window, short), LAMBDA r : r.total)
              = Cardinality({x \in msgs : x.ts >= now - window})
<1> DEFINE g == [x \in msgs |-> x.agent]
           D == {x \in msgs : x.ts >= now - window}
<1>0. PICK t : t = Nodes(msgs, now, window, short)
  OBVIOUS
<1>1. PICK B : B = DOMAIN t
  OBVIOUS
<1>2. B = {b \in {x.agent : x \in msgs} : Heard(msgs, b, now, window) # {}}
  BY <1>0, <1>1 DEF Nodes, Heard
<1>3. D \subseteq msgs /\ \A x \in D : g[x] \in B
  BY <1>2 DEF Heard
<1>4. ASSUME NEW a PROVE Heard(msgs, a, now, window) = {x \in D : g[x] = a}
  BY DEF Heard
<1>5. PICK h : h = [a \in B |-> Cardinality({x \in D : g[x] = a})]
  OBVIOUS
<1>6. \A a \in B : h[a] = t[a].total
  <2>1. ASSUME NEW a \in B PROVE h[a] = t[a].total
    <3>1. t[a].total = Cardinality(Heard(msgs, a, now, window))
      BY <1>0, <1>1, NodeRow
    <3>2. h[a] = Cardinality({x \in D : g[x] = a})
      BY <1>5
    <3> HIDE DEF D, g
    <3> QED
      BY <1>4, <3>1, <3>2
  <2> QED
    BY <2>1
<1>7. IsFiniteSet(msgs)
  BY DEF MsgsTyped
<1>8. IsFiniteSet(D)
  <2> HIDE DEF D
  <2> QED
    BY <1>3, <1>7, CountSubset
<1>9. IsFiniteSet(B)
  <2>1. IsFiniteSet({g[x] : x \in msgs})
    <3> HIDE DEF g
    <3> QED
      BY <1>7, ImageFinite
  <2>2. B \subseteq {g[x] : x \in msgs}
    BY <1>2
  <2> HIDE DEF g
  <2> QED
    BY <2>1, <2>2, FS_Subset
<1>10. SumOf(h, B) = Cardinality(D)
  <2> HIDE DEF D, g
  <2>1. CountsBy(h, D, g, B)
    BY <1>5 DEF CountsBy
  <2> QED
    BY <1>3, <1>8, <1>9, <2>1, CountedOnce
<1>11. MapThenSumSet(LAMBDA b : t[b].total, B) = SumOf(h, B)
  BY <1>6, <1>9, TotalSum
<1>12. SumOver(t, LAMBDA r : r.total) = MapThenSumSet(LAMBDA b : t[b].total, B)
  BY <1>1 DEF SumOver
<1> QED
  BY <1>0, <1>10, <1>11, <1>12

\* Whatever is in captures, and whatever the time, the windows and the LIMITs, the
\* pages about messages and the alerts agree with each other, as far as the response
\* codes are listed (reports.go, alerts.go).
THEOREM MessagePagesAgree ==
    ASSUME NEW msgs, MsgsTyped(msgs), NEW now \in Int, NEW window \in Int, NEW short \in Int
    PROVE  MessageReportsAgreeOn(msgs, now, window, short)
<1>0. IsFiniteSet(msgs)
  BY DEF MsgsTyped
<1>1. PICK counts : counts = MessageCounts(msgs)
  OBVIOUS
<1>2. PICK ok \in Nat, client \in Nat, server \in Nat :
         /\ ok = WithStatus(msgs, 200, 300) /\ client = WithStatus(msgs, 400, 500)
         /\ server = WithStatus(msgs, 500, Unlimited)
  <2>1. \A low, high : WithStatus(msgs, low, high) \in Nat
    <3>1. \A low, high : {x \in msgs : x.status >= low /\ x.status < high} \subseteq msgs
      OBVIOUS
    <3> QED
      BY <1>0, <3>1, CountSubset DEF WithStatus
  <2> QED
    BY <2>1
<1>3. /\ counts.resp_2xx = ok /\ counts.resp_4xx = client /\ counts.resp_5xx = server
      /\ counts.err_rate = Percent(client + server, ok + client + server)
      /\ counts.invites = Cardinality({x \in msgs : /\ x.method = [class |-> 0, name |-> "INVITE"]
                                                    /\ x.kind = "request"})
      /\ counts.invite_messages = Cardinality({x \in msgs : x.method.name = "INVITE"})
  BY <1>1, <1>2 DEF MessageCounts
<1>4. counts.err_rate \in 0 .. 100
  <2>1. client + server \in Nat /\ ok + client + server \in Nat
        /\ client + server <= ok + client + server
    OBVIOUS
  <2> QED
    BY <1>3, <2>1, PercentOfPart
<1>5. counts.invites <= counts.invite_messages
  <2> DEFINE I == {x \in msgs : /\ x.method = [class |-> 0, name |-> "INVITE"]
                                /\ x.kind = "request"}
             M == {x \in msgs : x.method.name = "INVITE"}
  <2>1. I \subseteq M /\ M \subseteq msgs
    OBVIOUS
  <2>2. counts.invites = Cardinality(I) /\ counts.invite_messages = Cardinality(M)
    BY <1>3
  <2> HIDE DEF I, M
  <2>3. IsFiniteSet(M)
    BY <1>0, <2>1, CountSubset
  <2> QED
    BY <2>1, <2>2, <2>3, CountSubset
<1>6. AlertPosted(msgs) <=> counts.resp_5xx > 0
  <2>1. "5xx_errors" \in Anomalies(msgs) <=> server > 0
    BY <1>2 DEF Anomalies
  <2>2. \A a \in Anomalies(msgs) : Severity(a) = "critical" <=> a = "5xx_errors"
    BY DEF Anomalies, Severity
  <2> QED
    BY <1>3, <2>1, <2>2 DEF AlertPosted
<1>7. ASSUME NEW codes \in ResponseCodes(msgs), NEW low \in Nat \ {0}, NEW high \in Nat
      PROVE  LET listed == MapThenSumSet(LAMBDA s : codes[s],
                                         {s \in DOMAIN codes : s >= low /\ s < high})
                 responses == {x \in msgs : x.status > 0}
             IN  /\ listed <= WithStatus(msgs, low, high)
                 /\ (/\ Cardinality(responses) <= RecentLimit
                     /\ Cardinality({x.status : x \in responses}) <= CodeLimit)
                       => listed = WithStatus(msgs, low, high)
  BY ClassAddsUp DEF SumOf
<1> DEFINE responses == {x \in msgs : x.status > 0}
           whole == /\ Cardinality(responses) <= RecentLimit
                    /\ Cardinality({x.status : x \in responses}) <= CodeLimit
           In(codes, low, high) ==
              MapThenSumSet(LAMBDA s : codes[s], {s \in DOMAIN codes : s >= low /\ s < high})
           Agrees(listed, class) == listed <= class /\ (whole => listed = class)
<1>8. ASSUME NEW codes \in ResponseCodes(msgs)
      PROVE  /\ Agrees(In(codes, 200, 300), counts.resp_2xx)
             /\ Agrees(In(codes, 400, 500), counts.resp_4xx)
             /\ Agrees(In(codes, 500, Unlimited), counts.resp_5xx)
  <2>1. \A low \in Nat \ {0}, high \in Nat :
           Agrees(In(codes, low, high), WithStatus(msgs, low, high))
    BY <1>7, Zenon
  <2>2. /\ Unlimited \in Nat /\ 200 \in Nat \ {0} /\ 300 \in Nat
        /\ 400 \in Nat \ {0} /\ 500 \in Nat \ {0} /\ 500 \in Nat
    BY DEF Unlimited
  <2>3. /\ WithStatus(msgs, 200, 300) = counts.resp_2xx
        /\ WithStatus(msgs, 400, 500) = counts.resp_4xx
        /\ WithStatus(msgs, 500, Unlimited) = counts.resp_5xx
    BY <1>2, <1>3
  <2> HIDE DEF Agrees, In
  <2>4. Agrees(In(codes, 200, 300), WithStatus(msgs, 200, 300))
    BY <2>1, <2>2, Zenon
  <2>5. Agrees(In(codes, 400, 500), WithStatus(msgs, 400, 500))
    BY <2>1, <2>2, Zenon
  <2>6. Agrees(In(codes, 500, Unlimited), WithStatus(msgs, 500, Unlimited))
    BY <2>1, <2>2, Zenon
  <2> HIDE DEF whole
  <2> QED
    BY <2>3, <2>4, <2>5, <2>6 DEF Agrees
<1>9. \A a \in DOMAIN Nodes(msgs, now, window, short) :
         Nodes(msgs, now, window, short)[a].status # "red"
  BY NodeRow
<1>10. SumOver(Nodes(msgs, now, window, short), LAMBDA r : r.total)
          = Cardinality({x \in msgs : x.ts >= now - window})
  BY NodesAddUp
<1> QED
  BY <1>1, <1>4, <1>5, <1>6, <1>8, <1>9, <1>10, Zenon DEF MessageReportsAgreeOn
-----------------------------------------------------------------------------
(***************************************************************************)
(* The tables after the messages that MCPure stores.                       *)
(***************************************************************************)
\* The methods of the messages that MCPure stores.
BaseNames == {"INVITE", "BYE", "CANCEL"}

\* The rows of call_state.
CallRows == [first_ts : Int, last_ts : Int, last_id : Nat,
             last_method : [class : Int, name : BaseNames], last_status : Nat,
             open : {0, 1}, answered : {0, 1}, invite_id : Nat, answer_ts : Int]

\* A message, as the database gets it.
RecTyped(rec) == /\ rec.ts \in Int /\ rec.status \in Nat /\ rec.base \in BaseNames

\* The method column is one.
LEMMA ColumnTyped ==
    ASSUME NEW rec, RecTyped(rec)
    PROVE  MethodColumn(rec) \in [class : Int, name : BaseNames]
<1>1. PICK s \in Nat, b \in BaseNames : s = rec.status /\ b = rec.base
  BY DEF RecTyped
<1>2. PICK c : c = IF rec.kind = "response" /\ rec.status > 0 /\ rec.base # ""
                   THEN rec.status \div 100 ELSE 0
  OBVIOUS
<1>3. s \div 100 \in Int /\ 0 \in Int
  OBVIOUS
<1>4. c \in Int
  BY <1>1, <1>2, <1>3
<1>5. MethodColumn(rec) = [class |-> c, name |-> b]
  BY <1>1, <1>2, Zenon DEF MethodColumn
<1> QED
  BY <1>4, <1>5

\* The rows that messages make.
LEMMA NewRowTyped ==
    ASSUME NEW rec, RecTyped(rec), NEW id \in Nat
    PROVE  NewRow(rec, id) \in CallRows
<1>1. PICK m : m = MethodColumn(rec)
  OBVIOUS
<1>2. PICK o : o = IF IsClosed(rec) THEN 0 ELSE 1
  OBVIOUS
<1>3. PICK a : a = IF IsAnswered(rec) THEN 1 ELSE 0
  OBVIOUS
<1>4. PICK i : i = IF IsInviteReq(rec) THEN id ELSE 0
  OBVIOUS
<1>5. PICK t : t = IF IsAnswered(rec) THEN rec.ts ELSE 0
  OBVIOUS
<1>6. m \in [class : Int, name : BaseNames]
  BY <1>1, ColumnTyped
<1>7. o \in {0, 1} /\ a \in {0, 1} /\ i \in Nat /\ t \in Int
  BY <1>2, <1>3, <1>4, <1>5 DEF RecTyped
<1>8. NewRow(rec, id) = [first_ts |-> rec.ts, last_ts |-> rec.ts, last_id |-> id,
                         last_method |-> m, last_status |-> rec.status, open |-> o,
                         answered |-> a, invite_id |-> i, answer_ts |-> t]
  BY <1>1, <1>2, <1>3, <1>4, <1>5, Zenon DEF NewRow
<1> QED
  BY <1>6, <1>7, <1>8 DEF CallRows, RecTyped

\* The rows that they change.
LEMMA UpdatedRowTyped ==
    ASSUME NEW row \in CallRows, NEW rec, RecTyped(rec), NEW id \in Nat
    PROVE  UpdatedRow(row, rec, id) \in CallRows
<1>1. PICK m : m = MethodColumn(rec)
  OBVIOUS
<1>2. PICK l : l = IF rec.ts > row.last_ts THEN rec.ts ELSE row.last_ts
  OBVIOUS
<1>3. PICK o : o = IF IsClosed(rec) THEN 0 ELSE row.open
  OBVIOUS
<1>4. PICK a : a = IF IsAnswered(rec) THEN 1 ELSE row.answered
  OBVIOUS
<1>5. PICK i : i = IF IsInviteReq(rec) /\ row.invite_id = 0 THEN id ELSE row.invite_id
  OBVIOUS
<1>6. PICK t : t = IF IsAnswered(rec) /\ row.answer_ts = 0 THEN rec.ts ELSE row.answer_ts
  OBVIOUS
<1>7. m \in [class : Int, name : BaseNames]
  BY <1>1, ColumnTyped
<1>8. rec.ts \in Int /\ rec.status \in Nat
  BY DEF RecTyped
<1>9. /\ row.last_ts \in Int /\ row.open \in {0, 1} /\ row.answered \in {0, 1}
      /\ row.invite_id \in Nat /\ row.answer_ts \in Int
  BY DEF CallRows
<1>10. l \in Int /\ o \in {0, 1}
  BY <1>2, <1>3, <1>8, <1>9
<1>11. a \in {0, 1}
  BY <1>4, <1>9
<1>12. i \in Nat /\ t \in Int
  BY <1>5, <1>6, <1>8, <1>9
<1>13. UpdatedRow(row, rec, id) =
          [row EXCEPT !.last_ts = l, !.last_id = id, !.last_method = m,
                      !.last_status = rec.status, !.open = o, !.answered = a,
                      !.invite_id = i, !.answer_ts = t]
  BY <1>1, <1>2, <1>3, <1>4, <1>5, <1>6 DEF UpdatedRow, CallRows
<1>14. PICK s : s = rec.status
  OBVIOUS
<1>15. s \in Nat
  BY <1>8, <1>14
<1>16. [row EXCEPT !.last_ts = l, !.last_id = id, !.last_method = m,
                   !.last_status = s, !.open = o, !.answered = a,
                   !.invite_id = i, !.answer_ts = t] \in CallRows
  BY ONLY row \in CallRows, id \in Nat, <1>7, <1>10, <1>11, <1>12, <1>15 DEF CallRows
<1> QED
  BY <1>13, <1>14, <1>16, Zenon

\* One message more for the row of the calls in `of'.
RowStep(g, msgs, of, lo, n) ==
    IF n = lo THEN NewRow(msgs[n], n)
    ELSE IF n \in of THEN UpdatedRow(g[n - 1], msgs[n], n) ELSE g[n - 1]

IsRows(g, msgs, of, lo, hi) == g = [n \in lo .. hi |-> RowStep(g, msgs, of, lo, n)]

\* The rows after each of the messages exist.
LEMMA RowsExist ==
    ASSUME NEW msgs, NEW of, NEW lo \in Nat, NEW hi \in Nat, lo <= hi
    PROVE  \E g : IsRows(g, msgs, of, lo, hi)
<1> DEFINE Good == {d \in Nat : \E g : IsRows(g, msgs, of, lo, lo + d)}
<1>1. 0 \in Good
  <2> DEFINE g == [n \in lo .. lo + 0 |-> NewRow(msgs[n], n)]
  <2>1. g = [n \in lo .. lo + 0 |-> RowStep(g, msgs, of, lo, n)]
    BY DEF RowStep
  <2>2. IsRows(g, msgs, of, lo, lo + 0)
    BY <2>1 DEF IsRows
  <2> HIDE DEF g
  <2> QED
    BY <2>2
<1>2. ASSUME NEW d \in Nat, d \in Good PROVE d + 1 \in Good
  <2>1. PICK g : IsRows(g, msgs, of, lo, lo + d)
    BY <1>2
  <2>2. \A n \in lo .. lo + d : g[n] = RowStep(g, msgs, of, lo, n)
    BY <2>1, Zenon DEF IsRows
  <2> DEFINE h == [n \in lo .. lo + (d + 1) |-> RowStep(g, msgs, of, lo, n)]
  <2>3. \A n \in lo .. lo + d : h[n] = g[n]
    <3>1. \A n \in lo .. lo + d : n \in lo .. lo + (d + 1)
      OBVIOUS
    <3> QED
      BY <2>2, <3>1
  <2>4. ASSUME NEW n \in lo .. lo + (d + 1)
        PROVE  RowStep(g, msgs, of, lo, n) = RowStep(h, msgs, of, lo, n)
    <3>1. CASE n = lo
      BY <3>1 DEF RowStep
    <3>2. CASE n # lo
      <4>1. n - 1 \in lo .. lo + d
        BY <3>2
      <4>2. h[n - 1] = g[n - 1]
        BY <2>3, <4>1
      <4> HIDE DEF h
      <4> QED
        BY <3>2, <4>2 DEF RowStep
    <3> QED
      BY <3>1, <3>2
  <2>5. h = [n \in lo .. lo + (d + 1) |-> RowStep(g, msgs, of, lo, n)]
    OBVIOUS
  <2> HIDE DEF h
  <2>6. IsRows(h, msgs, of, lo, lo + (d + 1))
    BY <2>4, <2>5, Zenon DEF IsRows
  <2> QED
    BY <2>6
<1>3. \A d \in Nat : d \in Good
  <2> HIDE DEF Good
  <2> QED
    BY <1>1, <1>2, ClimbAll
<1>4. hi - lo \in Nat /\ lo + (hi - lo) = hi
  OBVIOUS
<1>5. hi - lo \in Good
  <2> HIDE DEF Good
  <2> QED
    BY <1>3, <1>4
<1>6. PICK g : IsRows(g, msgs, of, lo, lo + (hi - lo))
  BY <1>5
<1> QED
  BY <1>4, <1>6

\* And they are rows.
LEMMA RowsTyped ==
    ASSUME NEW msgs, NEW of, NEW lo \in Nat, NEW hi \in Nat, lo <= hi,
           NEW g, IsRows(g, msgs, of, lo, hi), \A n \in lo .. hi : RecTyped(msgs[n])
    PROVE  g[hi] \in CallRows
<1> DEFINE Good == {d \in Nat : lo + d <= hi => g[lo + d] \in CallRows}
<1>0. \A n \in lo .. hi : g[n] = RowStep(g, msgs, of, lo, n)
  BY Zenon DEF IsRows
<1>1. 0 \in Good
  <2>1. g[lo] = NewRow(msgs[lo], lo) /\ RecTyped(msgs[lo])
    BY <1>0 DEF RowStep
  <2> QED
    BY <2>1, NewRowTyped
<1>2. ASSUME NEW d \in Nat, d \in Good PROVE d + 1 \in Good
  <2>1. SUFFICES ASSUME lo + (d + 1) <= hi PROVE g[lo + (d + 1)] \in CallRows
    OBVIOUS
  <2>2. PICK n \in lo .. hi : n = lo + (d + 1) /\ n # lo /\ n - 1 = lo + d /\ n \in Nat
    BY <2>1
  <2>3. g[n - 1] \in CallRows
    BY <1>2, <2>1, <2>2
  <2>4. g[n] = IF n \in of THEN UpdatedRow(g[n - 1], msgs[n], n) ELSE g[n - 1]
    BY <1>0, <2>2 DEF RowStep
  <2>5. g[n] \in CallRows
    BY <2>2, <2>3, <2>4, UpdatedRowTyped
  <2> QED
    BY <2>2, <2>5
<1>3. \A d \in Nat : d \in Good
  <2> HIDE DEF Good
  <2> QED
    BY <1>1, <1>2, ClimbAll
<1>4. hi - lo \in Nat /\ lo + (hi - lo) = hi
  OBVIOUS
<1>5. hi - lo \in Good
  <2> HIDE DEF Good
  <2> QED
    BY <1>3, <1>4
<1> QED
  BY <1>4, <1>5

\* A set of numbers has a least one, its minimum.
LEMMA MinOfNat ==
    ASSUME NEW S \in SUBSET Nat, S # {}
    PROVE  Min(S) \in S /\ \A k \in S : Min(S) <= k
<1>1. PICK m \in S : \A k \in S : m <= k
  BY LeastNat
<1> QED
  BY <1>1, Zenon DEF Min

\* The messages stored so far.
StoredInv == kind = "stored" => input \in Seq(StoredItems)

\* They are typed.
LEMMA StoredTyped ==
    ASSUME NEW x \in StoredItems
    PROVE  RecTyped(x)
<1>1. x \in [call : {1, 2}, kind : {"request", "response"}, ts : {1, 3},
             base : {"INVITE", "BYE", "CANCEL"}, status : {0, 200, 481, 486, 500}]
  BY DEF StoredItems
<1>2. x.ts \in {1, 3} /\ x.status \in {0, 200, 481, 486, 500} /\ x.base \in {"INVITE", "BYE", "CANCEL"}
  BY <1>1
<1>3. x.base \in BaseNames
  BY <1>2 DEF BaseNames
<1>4. x.ts \in Int /\ x.status \in Nat
  BY <1>2
<1> QED
  BY <1>3, <1>4 DEF RecTyped

\* The table of calls after any of them.
LEMMA CallsOfTyped ==
    ASSUME NEW msgs \in Seq(StoredItems)
    PROVE  CallsTyped(CallsOf(msgs))
<1>1. PICK N \in Nat : DOMAIN msgs = 1 .. N
  OBVIOUS
<1>2. \A n \in 1 .. N : RecTyped(msgs[n])
  BY <1>1, StoredTyped
<1> DEFINE g == [n \in 1 .. N |-> msgs[n].call]
<1>3. {msgs[n].call : n \in DOMAIN msgs} = {g[n] : n \in 1 .. N}
  BY <1>1
<1>4. IsFiniteSet({g[n] : n \in 1 .. N})
  <2>1. IsFiniteSet(1 .. N)
    BY FS_Interval
  <2> HIDE DEF g
  <2> QED
    BY <2>1, ImageFinite
<1>5. DOMAIN CallsOf(msgs) = {g[n] : n \in 1 .. N}
  <2> HIDE DEF g
  <2> QED
    BY <1>3 DEF CallsOf
<1>6. ASSUME NEW c \in DOMAIN CallsOf(msgs) PROVE CallsOf(msgs)[c] \in CallRows
  <2>1. PICK of : of = {n \in DOMAIN msgs : msgs[n].call = c}
    OBVIOUS
  <2>2. of \in SUBSET (1 .. N) /\ of # {}
    BY <1>1, <1>5, <1>6, <2>1
  <2>0. of \in SUBSET Nat /\ of \subseteq Int
    BY <2>2
  <2>3. PICK lo \in of : lo = Min(of)
    BY <2>0, <2>2, MinOfNat
  <2>4. PICK hi \in of : hi = Max(of) /\ \A k \in of : k <= hi
    <3>1. IsFiniteSet(1 .. N)
      BY FS_Interval
    <3>2. IsFiniteSet(of) /\ of \subseteq Int
      BY <2>0, <2>2, <3>1, FS_Subset
    <3> QED
      BY <2>2, <3>2, MaxOfFinite
  <2>5. lo \in Nat /\ hi \in Nat /\ lo <= hi /\ \A n \in lo .. hi : n \in 1 .. N
    BY <2>2, <2>3, <2>4
  <2>6. PICK r : r = CHOOSE t : IsRows(t, msgs, of, lo, hi)
    OBVIOUS
  <2>7. IsRows(r, msgs, of, lo, hi)
    BY <2>5, <2>6, RowsExist
  <2>8. CallsOf(msgs)[c] = r[hi]
    BY <1>3, <1>5, <1>6, <2>1, <2>3, <2>4, <2>6 DEF CallsOf, IsRows, RowStep
  <2>9. r[hi] \in CallRows
    BY <1>2, <2>5, <2>7, RowsTyped
  <2> QED
    BY <2>8, <2>9
<1>7. ASSUME NEW r \in CallRows PROVE RowTyped(r)
  BY DEF CallRows, RowTyped
<1> HIDE DEF g
<1> QED
  BY <1>4, <1>5, <1>6, <1>7 DEF CallsTyped

\* The table of messages after any of them.
LEMMA RowsOfTyped ==
    ASSUME NEW msgs \in Seq(StoredItems)
    PROVE  MsgsTyped(RowsOf(msgs))
<1>1. PICK N \in Nat : DOMAIN msgs = 1 .. N
  OBVIOUS
<1> DEFINE g == [n \in 1 .. N |->
                   [id |-> n, agent |-> msgs[n].call, ts |-> msgs[n].ts, kind |-> msgs[n].kind,
                    status |-> msgs[n].status, method |-> MethodColumn(msgs[n])]]
<1>2. RowsOf(msgs) = {g[n] : n \in 1 .. N}
  BY <1>1 DEF RowsOf
<1>3. IsFiniteSet({g[n] : n \in 1 .. N})
  <2>1. IsFiniteSet(1 .. N)
    BY FS_Interval
  <2> HIDE DEF g
  <2> QED
    BY <2>1, ImageFinite
<1>4. ASSUME NEW n \in 1 .. N PROVE g[n].status \in Nat /\ g[n].ts \in Int
  <2>1. RecTyped(msgs[n])
    BY <1>1, StoredTyped
  <2>2. g[n].status = msgs[n].status /\ g[n].ts = msgs[n].ts
    OBVIOUS
  <2> QED
    BY <2>1, <2>2 DEF RecTyped
<1> HIDE DEF g
<1> QED
  BY <1>2, <1>3, <1>4 DEF MsgsTyped

\* What is stored stays typed.
LEMMA StoredAlways == PureSpec => []StoredInv
<1>1. PureInit => StoredInv
  BY DEF PureInit, StoredInv
<1>2. StoredInv /\ [PureNext]_<<kind, input>> => StoredInv'
  <2>1. SUFFICES ASSUME StoredInv, [PureNext]_<<kind, input>> PROVE StoredInv'
    OBVIOUS
  <2>2. CASE Store
    BY <2>1, <2>2 DEF StoredInv, Store
  <2>3. CASE AddLine \/ AddChunk
    BY <2>3 DEF StoredInv, AddLine, AddChunk
  <2>4. CASE UNCHANGED <<kind, input>>
    BY <2>1, <2>4 DEF StoredInv
  <2> QED
    BY <2>1, <2>2, <2>3, <2>4 DEF PureNext
<1> QED
  BY <1>1, <1>2, PTL DEF PureSpec

\* The pages about calls agree after any stored messages of the two calls, however
\* many and in whatever order (db.go dbBatchInsert, reports.go).
THEOREM CallReportsAgreeAlways == PureSpec => []CallReportsAgree
<1>1. StoredInv => CallReportsAgree
  BY CallsOfTyped, CallPagesAgree DEF StoredInv, CallReportsAgree
<1> QED
  BY <1>1, StoredAlways, PTL

\* So do the pages about messages.
THEOREM MessageReportsAgreeAlways == PureSpec => []MessageReportsAgree
<1>1. StoredInv => MessageReportsAgree
  BY RowsOfTyped, MessagePagesAgree DEF StoredInv, MessageReportsAgree
<1> QED
  BY <1>1, StoredAlways, PTL
-----------------------------------------------------------------------------
(***************************************************************************)
(* KeepIn: the table of its recursion exists and is unique, so KeepIn has  *)
(* the equations of a fold.                                                *)
(***************************************************************************)
\* Entry i of the table of KeepIn; f is such a table.
Keep(f, s, S, i) == IF i = 0 THEN << >>
                    ELSE IF s[i] \in S THEN Append(f[i - 1], s[i]) ELSE f[i - 1]

IsKept(f, s, S, n) == f = [i \in 0 .. n |-> Keep(f, s, S, i)]

\* The table for the first n entries exists.
LEMMA KeptExists ==
    ASSUME NEW s, NEW S
    PROVE  \A n \in Nat : \E f : IsKept(f, s, S, n)
<1> DEFINE Good == {n \in Nat : \E f : IsKept(f, s, S, n)}
<1>1. 0 \in Good
  <2> DEFINE f == [i \in 0 .. 0 |-> << >>]
  <2>1. \A i \in 0 .. 0 : i = 0
    OBVIOUS
  <2>2. f = [i \in 0 .. 0 |-> Keep(f, s, S, i)]
    BY <2>1 DEF Keep
  <2>3. IsKept(f, s, S, 0)
    BY <2>2 DEF IsKept
  <2> QED
    BY <2>3
<1>2. ASSUME NEW n \in Nat, n \in Good PROVE n + 1 \in Good
  <2>1. PICK g : IsKept(g, s, S, n)
    BY <1>2
  <2> DEFINE f == [i \in 0 .. n + 1 |-> IF i = n + 1 THEN Keep(g, s, S, n + 1) ELSE g[i]]
  <2>2. ASSUME NEW i \in 0 .. n PROVE f[i] = g[i] /\ g[i] = Keep(g, s, S, i)
    <3>1. i \in 0 .. n + 1 /\ i # n + 1
      OBVIOUS
    <3>2. f[i] = g[i]
      BY <3>1
    <3>3. g = [k \in 0 .. n |-> Keep(g, s, S, k)]
      BY <2>1 DEF IsKept
    <3>4. g[i] = Keep(g, s, S, i)
      BY <3>3, Zenon
    <3> QED
      BY <3>2, <3>4
  <2>3. f[n + 1] = Keep(g, s, S, n + 1)
    OBVIOUS
  <2>4. f = [i \in 0 .. n + 1 |-> f[i]]
    OBVIOUS
  <2> HIDE DEF f
  <2>5. ASSUME NEW i \in 0 .. n + 1 PROVE f[i] = Keep(f, s, S, i)
    <3>1. CASE i = 0
      BY <2>2, <3>1 DEF Keep
    <3>2. CASE i # 0
      <4>1. f[i - 1] = g[i - 1]
        BY <2>2, <3>2
      <4>2. Keep(f, s, S, i) = Keep(g, s, S, i)
        BY <4>1, Zenon DEF Keep
      <4>3. i = n + 1 \/ i \in 0 .. n
        OBVIOUS
      <4> QED
        BY <2>2, <2>3, <4>2, <4>3
    <3> QED
      BY <3>1, <3>2
  <2>6. f = [i \in 0 .. n + 1 |-> Keep(f, s, S, i)]
    BY <2>4, <2>5
  <2>7. IsKept(f, s, S, n + 1)
    BY <2>6 DEF IsKept
  <2> QED
    BY <2>7
<1> HIDE DEF Good
<1>3. \A n \in Nat : n \in Good
  <2>1. \A n \in Nat : n \in Good => n + 1 \in Good
    BY <1>2
  <2> QED
    BY <1>1, <2>1, ClimbAll
<1> QED
  BY <1>3 DEF Good

\* Tables of sequences that start alike agree as far as those do.
LEMMA KeptAgree ==
    ASSUME NEW s, NEW t, NEW S, NEW m \in Nat, NEW n \in Nat, m <= n,
           \A i \in 1 .. m : s[i] = t[i],
           NEW f, IsKept(f, s, S, m), NEW g, IsKept(g, t, S, n)
    PROVE  f[m] = g[m]
<1> DEFINE Good == {k \in Nat : k <= m => f[k] = g[k]}
<1>1. \A k \in 0 .. m : f[k] = Keep(f, s, S, k)
  <2>1. f = [i \in 0 .. m |-> Keep(f, s, S, i)]
    BY DEF IsKept
  <2> QED
    BY <2>1, Zenon
<1>2. \A k \in 0 .. n : g[k] = Keep(g, t, S, k)
  <2>1. g = [i \in 0 .. n |-> Keep(g, t, S, i)]
    BY DEF IsKept
  <2> QED
    BY <2>1, Zenon
<1>3. 0 \in Good
  <2>1. 0 \in 0 .. m /\ 0 \in 0 .. n
    OBVIOUS
  <2>2. f[0] = << >> /\ g[0] = << >>
    BY <1>1, <1>2, <2>1 DEF Keep
  <2> QED
    BY <2>2
<1>4. ASSUME NEW k \in Nat, k \in Good PROVE k + 1 \in Good
  <2>1. SUFFICES ASSUME k + 1 <= m PROVE f[k + 1] = g[k + 1]
    OBVIOUS
  <2>2. k + 1 \in 0 .. m /\ k + 1 \in 0 .. n /\ k + 1 \in 1 .. m /\ k + 1 # 0 /\ k + 1 - 1 = k /\ k <= m
    BY <2>1
  <2>3. f[k] = g[k]
    BY <1>4, <2>2
  <2>4. s[k + 1] = t[k + 1]
    BY <2>2
  <2>5. f[k + 1] = IF s[k + 1] \in S THEN Append(f[k], s[k + 1]) ELSE f[k]
    BY <1>1, <2>2 DEF Keep
  <2>6. g[k + 1] = IF t[k + 1] \in S THEN Append(g[k], t[k + 1]) ELSE g[k]
    BY <1>2, <2>2 DEF Keep
  <2> QED
    BY <2>3, <2>4, <2>5, <2>6
<1> HIDE DEF Good
<1>5. m \in Good
  <2>1. \A k \in Nat : k \in Good => k + 1 \in Good
    BY <1>4
  <2>2. \A k \in Nat : k \in Good
    BY <1>3, <2>1, ClimbAll
  <2> QED
    BY <2>2
<1> QED
  BY <1>5 DEF Good

\* KeepIn is the last entry of its table.
LEMMA KeepInIs ==
    ASSUME NEW s, Len(s) \in Nat, NEW S
    PROVE  \E f : IsKept(f, s, S, Len(s)) /\ KeepIn(s, S) = f[Len(s)]
<1> DEFINE f == CHOOSE f : IsKept(f, s, S, Len(s))
<1>1. IsKept(f, s, S, Len(s))
  BY KeptExists
<1>2. KeepIn(s, S) = f[Len(s)]
  BY DEF KeepIn, IsKept, Keep
<1> QED
  BY <1>1, <1>2

\* Nothing is kept of nothing.
LEMMA KeepNone ==
    ASSUME NEW S
    PROVE  KeepIn(<< >>, S) = << >>
<1>1. Len(<< >>) = 0
  OBVIOUS
<1>2. PICK f : IsKept(f, << >>, S, 0) /\ KeepIn(<< >>, S) = f[0]
  BY <1>1, KeepInIs
<1>3. f = [i \in 0 .. 0 |-> Keep(f, << >>, S, i)]
  BY <1>2 DEF IsKept
<1>4. f[0] = Keep(f, << >>, S, 0)
  <2>1. 0 \in 0 .. 0
    OBVIOUS
  <2> QED
    BY <1>3, <2>1, Zenon
<1> QED
  BY <1>2, <1>4 DEF Keep

\* The last entry is kept or not, after what is kept of those before it.
LEMMA KeepLast ==
    ASSUME NEW T, NEW s \in Seq(T), NEW x \in T, NEW S
    PROVE  KeepIn(Append(s, x), S) = IF x \in S THEN Append(KeepIn(s, S), x) ELSE KeepIn(s, S)
<1>1. PICK n \in Nat : n = Len(s)
  BY LenProperties
<1>2. PICK t : t = Append(s, x)
  OBVIOUS
<1>3. Len(t) = n + 1 /\ t[n + 1] = x /\ \A i \in 1 .. n : s[i] = t[i]
  BY <1>1, <1>2, AppendProperties
<1>4. PICK f : IsKept(f, s, S, n) /\ KeepIn(s, S) = f[n]
  BY <1>1, KeepInIs
<1>5. PICK g : IsKept(g, t, S, n + 1) /\ KeepIn(t, S) = g[n + 1]
  BY <1>3, KeepInIs
<1>6. f[n] = g[n]
  <2>1. n + 1 \in Nat /\ n <= n + 1
    OBVIOUS
  <2> QED
    BY <1>3, <1>4, <1>5, <2>1, KeptAgree
<1>7. g[n + 1] = Keep(g, t, S, n + 1)
  <2>1. n + 1 \in 0 .. n + 1
    OBVIOUS
  <2>2. g = [i \in 0 .. n + 1 |-> Keep(g, t, S, i)]
    BY <1>5 DEF IsKept
  <2> QED
    BY <2>1, <2>2, Zenon
<1>8. Keep(g, t, S, n + 1) = IF x \in S THEN Append(g[n], x) ELSE g[n]
  <2>1. n + 1 # 0 /\ n + 1 - 1 = n
    OBVIOUS
  <2> QED
    BY <1>3, <2>1 DEF Keep
<1>9. KeepIn(t, S) = IF x \in S THEN Append(KeepIn(s, S), x) ELSE KeepIn(s, S)
  BY <1>4, <1>5, <1>6, <1>7, <1>8
<1> QED
  BY <1>2, <1>9

(***************************************************************************)
(* What KeepIn returns                                                     *)
(***************************************************************************)
\* What is kept has the type of the list.
LEMMA KeepType ==
    ASSUME NEW T, NEW S
    PROVE  \A s \in Seq(T) : KeepIn(s, S) \in Seq(T)
<1> DEFINE Good == {s \in Seq(T) : KeepIn(s, S) \in Seq(T)}
<1>1. << >> \in Good
  BY KeepNone, EmptySeq
<1>2. ASSUME NEW s \in Seq(T), NEW x \in T, s \in Good PROVE Append(s, x) \in Good
  <2>1. Append(s, x) \in Seq(T) /\ Append(KeepIn(s, S), x) \in Seq(T)
    BY <1>2, AppendProperties
  <2>2. KeepIn(Append(s, x), S) = IF x \in S THEN Append(KeepIn(s, S), x) ELSE KeepIn(s, S)
    BY KeepLast
  <2> QED
    BY <1>2, <2>1, <2>2
<1> HIDE DEF Good
<1>3. \A s \in Seq(T) : s \in Good
  BY <1>1, <1>2, SeqClimb
<1> QED
  BY <1>3 DEF Good


\* Whatever is kept was there, and is of the set.
LEMMA KeepMembers ==
    ASSUME NEW T, NEW S
    PROVE  \A s \in Seq(T) : KeepIn(s, S) \in Seq(T \cap S)
<1> DEFINE Good == {s \in Seq(T) : KeepIn(s, S) \in Seq(T \cap S)}
<1>1. << >> \in Good
  BY KeepNone, EmptySeq
<1>2. ASSUME NEW s \in Seq(T), NEW x \in T, s \in Good PROVE Append(s, x) \in Good
  <2>1. Append(s, x) \in Seq(T)
    BY AppendProperties
  <2>2. KeepIn(Append(s, x), S) = IF x \in S THEN Append(KeepIn(s, S), x) ELSE KeepIn(s, S)
    BY KeepLast
  <2>3. KeepIn(s, S) \in Seq(T \cap S)
    BY <1>2
  <2>4. CASE x \in S
    <3>1. Append(KeepIn(s, S), x) \in Seq(T \cap S)
      BY <2>3, <2>4, AppendProperties
    <3> QED
      BY <2>1, <2>2, <2>4, <3>1
  <2>5. CASE x \notin S
    BY <2>1, <2>2, <2>3, <2>5
  <2> QED
    BY <2>4, <2>5
<1> HIDE DEF Good
<1>3. \A s \in Seq(T) : s \in Good
  BY <1>1, <1>2, SeqClimb
<1> QED
  BY <1>3 DEF Good

\* Sets that agree on the entries keep the same ones.
LEMMA KeepSame ==
    ASSUME NEW T, NEW S, NEW R, NEW s \in Seq(T),
           \A i \in 1 .. Len(s) : s[i] \in S <=> s[i] \in R
    PROVE  KeepIn(s, S) = KeepIn(s, R)
<1> DEFINE Alike(r) == \A i \in 1 .. Len(r) : r[i] \in S <=> r[i] \in R
           Good == {r \in Seq(T) : Alike(r) => KeepIn(r, S) = KeepIn(r, R)}
<1>1. << >> \in Good
  BY KeepNone, EmptySeq
<1>2. ASSUME NEW r \in Seq(T), NEW x \in T, r \in Good PROVE Append(r, x) \in Good
  <2>1. PICK n \in Nat : n = Len(r)
    BY LenProperties
  <2>2. PICK q : q = Append(r, x)
    OBVIOUS
  <2>3. /\ q \in Seq(T) /\ Len(q) = n + 1 /\ q[n + 1] = x
        /\ \A i \in 1 .. n : q[i] = r[i]
    BY <2>1, <2>2, AppendProperties
  <2>4. ASSUME Alike(q) PROVE KeepIn(q, S) = KeepIn(q, R)
    <3>1. n + 1 \in 1 .. Len(q) /\ \A i \in 1 .. n : i \in 1 .. Len(q)
      BY <2>3
    <3>2. (x \in S) <=> (x \in R)
      BY <2>3, <2>4, <3>1
    <3>3. Alike(r)
      BY <2>1, <2>3, <2>4, <3>1
    <3>4. KeepIn(r, S) = KeepIn(r, R)
      BY <1>2, <3>3
    <3>5. /\ KeepIn(q, S) = IF x \in S THEN Append(KeepIn(r, S), x) ELSE KeepIn(r, S)
          /\ KeepIn(q, R) = IF x \in R THEN Append(KeepIn(r, R), x) ELSE KeepIn(r, R)
      BY <2>2, KeepLast
    <3> QED
      BY <3>2, <3>4, <3>5
  <2> QED
    BY <2>2, <2>3, <2>4
<1>3. \A r \in Seq(T) : r \in Good
  <2> HIDE DEF Good
  <2> QED
    BY <1>1, <1>2, SeqClimb
<1>4. Alike(s)
  OBVIOUS
<1> QED
  BY <1>3, <1>4

\* A first entry of the set stays the first.
LEMMA KeepHead ==
    ASSUME NEW T, NEW S, NEW s \in Seq(T), s # << >>, s[1] \in S
    PROVE  KeepIn(s, S) # << >> /\ KeepIn(s, S)[1] = s[1]
<1> DEFINE Starts(r) == r # << >> /\ r[1] \in S
           Ends(r) == KeepIn(r, S) # << >> /\ KeepIn(r, S)[1] = r[1]
           Good == {r \in Seq(T) : Starts(r) => Ends(r)}
<1>1. << >> \in Good
  BY EmptySeq
<1>2. ASSUME NEW r \in Seq(T), NEW x \in T, r \in Good PROVE Append(r, x) \in Good
  <2>1. PICK n \in Nat : n = Len(r)
    BY LenProperties
  <2>2. PICK q : q = Append(r, x)
    OBVIOUS
  <2>3. /\ q \in Seq(T) /\ Len(q) = n + 1 /\ q[n + 1] = x
        /\ \A i \in 1 .. n : q[i] = r[i]
    BY <2>1, <2>2, AppendProperties
  <2>4. KeepIn(q, S) = IF x \in S THEN Append(KeepIn(r, S), x) ELSE KeepIn(r, S)
    BY <2>2, KeepLast
  <2>5. ASSUME Starts(q) PROVE Ends(q)
    <3>1. CASE r = << >>
      <4>1. n = 0 /\ KeepIn(r, S) = << >>
        BY <2>1, <3>1, KeepNone, EmptySeq
      <4>2. q[1] = x /\ x \in S
        BY <2>3, <2>5, <4>1
      <4>3. KeepIn(q, S) = <<x>>
        BY <2>4, <4>1, <4>2
      <4> QED
        BY <4>2, <4>3
    <3>2. CASE r # << >>
      <4>1. n # 0
        BY <2>1, <3>2, EmptySeq
      <4>2. 1 \in 1 .. n
        BY <4>1
      <4>3. q[1] = r[1]
        BY <2>3, <4>2
      <4>4. Ends(r)
        BY <1>2, <2>5, <3>2, <4>3
      <4>5. KeepIn(r, S) \in Seq(T)
        BY KeepType
      <4>6. PICK t \in Seq(T) : t = KeepIn(r, S)
        BY <4>5
      <4>7. Len(t) \in Nat /\ Len(t) # 0
        BY <4>4, <4>6, LenProperties, EmptySeq
      <4>8. 1 \in 1 .. Len(t)
        BY <4>7
      <4>9. Append(t, x)[1] = t[1] /\ Append(t, x) # << >>
        BY <4>7, <4>8, AppendProperties, EmptySeq
      <4>10. t # << >> /\ t[1] = q[1]
        BY <4>3, <4>4, <4>6
      <4>11. KeepIn(q, S) = Append(t, x) \/ KeepIn(q, S) = t
        BY <2>4, <4>6
      <4> QED
        BY <4>9, <4>10, <4>11
    <3> QED
      BY <3>1, <3>2
  <2> QED
    BY <2>2, <2>3, <2>5
<1>3. \A r \in Seq(T) : r \in Good
  <2> HIDE DEF Good
  <2> QED
    BY <1>1, <1>2, SeqClimb
<1> QED
  BY <1>3

-----------------------------------------------------------------------------
(***************************************************************************)
(* The headers of a message, and what one more line adds to them           *)
(***************************************************************************)
\* No blank line from line i on: the next line still belongs to the headers.
NoBlank(msg, i) == \A k \in i .. Len(msg) : msg[k] # Blank

\* The lines of Lines that are headers.
HeadersIn(Lines) == {line \in Lines : line.tag = "header"}

\* The headers that begin at line i end with line n.
EndsAt(msg, i, n) == /\ n \in i - 1 .. Len(msg)
                     /\ \A k \in i .. n : msg[k] # Blank
                     /\ n < Len(msg) => msg[n + 1] = Blank

\* The headers end in one place.
LEMMA OneEnd ==
    ASSUME NEW Lines, NEW msg \in Seq(Lines), NEW i \in Nat, NEW n, EndsAt(msg, i, n)
    PROVE  HeaderEnd(msg, i) = n
<1>1. Len(msg) \in Nat
  BY LenProperties
<1>2. ASSUME NEW m, EndsAt(msg, i, m), m < n PROVE FALSE
  <2>1. m \in Int /\ n \in Int /\ m >= i - 1 /\ n <= Len(msg)
    BY <1>1, <1>2 DEF EndsAt
  <2>2. m + 1 \in i .. n /\ m < Len(msg)
    BY <1>1, <1>2, <2>1
  <2>3. msg[m + 1] = Blank /\ msg[m + 1] # Blank
    BY <1>2, <2>2 DEF EndsAt
  <2> QED
    BY <2>3
<1>3. ASSUME NEW m, EndsAt(msg, i, m), n < m PROVE FALSE
  <2>1. m \in Int /\ n \in Int /\ n >= i - 1 /\ m <= Len(msg)
    BY <1>1, <1>3 DEF EndsAt
  <2>2. n + 1 \in i .. m /\ n < Len(msg)
    BY <1>1, <1>3, <2>1
  <2>3. msg[n + 1] = Blank /\ msg[n + 1] # Blank
    BY <1>3, <2>2 DEF EndsAt
  <2> QED
    BY <2>3
<1>4. ASSUME NEW m, EndsAt(msg, i, m) PROVE m = n
  <2>1. m \in Int /\ n \in Int
    BY <1>1, <1>4 DEF EndsAt
  <2> QED
    BY <1>2, <1>3, <1>4, <2>1
<1>5. PICK e : e = HeaderEnd(msg, i)
  OBVIOUS
<1>6. EndsAt(msg, i, e)
  <2>1. \E m \in i - 1 .. Len(msg) : /\ \A k \in i .. m : msg[k] # Blank
                                     /\ m < Len(msg) => msg[m + 1] = Blank
    BY DEF EndsAt
  <2> QED
    BY <1>5, <2>1 DEF HeaderEnd, EndsAt
<1> QED
  BY <1>4, <1>5, <1>6

\* They end: at the last line or before the first blank one.
LEMMA SomeEnd ==
    ASSUME NEW Lines, NEW msg \in Seq(Lines), NEW i \in Nat, i <= Len(msg) + 1
    PROVE  EndsAt(msg, i, HeaderEnd(msg, i))
<1>1. Len(msg) \in Nat
  BY LenProperties
<1>2. SUFFICES \E n : EndsAt(msg, i, n)
  BY OneEnd
<1>3. CASE NoBlank(msg, i)
  <2>1. EndsAt(msg, i, Len(msg))
    BY <1>1, <1>3 DEF EndsAt, NoBlank
  <2> QED
    BY <2>1
<1>4. CASE ~NoBlank(msg, i)
  <2> DEFINE Blanks == {k \in i .. Len(msg) : msg[k] = Blank}
  <2>1. Blanks \in SUBSET Nat /\ Blanks # {}
    BY <1>1, <1>4 DEF NoBlank
  <2>2. PICK k \in Blanks : \A j \in Blanks : k <= j
    <3> HIDE DEF Blanks
    <3> QED
      BY <2>1, LeastNat
  <2>3. k \in i .. Len(msg) /\ msg[k] = Blank /\ k \in Nat
    BY <2>1, <2>2
  <2>4. ASSUME NEW j \in i .. k - 1 PROVE msg[j] # Blank
    <3>1. j \in i .. Len(msg) /\ ~(k <= j)
      BY <1>1, <2>3
    <3> QED
      BY <2>2, <3>1
  <2>5. k - 1 \in i - 1 .. Len(msg) /\ k - 1 + 1 = k
    BY <1>1, <2>3
  <2>6. EndsAt(msg, i, k - 1)
    BY <2>3, <2>4, <2>5 DEF EndsAt
  <2> QED
    BY <2>6
<1> QED
  BY <1>3, <1>4

\* The headers, filtered with the set of all of them.
LEMMA HeadersAre ==
    ASSUME NEW Lines, NEW msg \in Seq(Lines), NEW i \in Nat \ {0}, i <= Len(msg) + 1
    PROVE  LET part == SubSeq(msg, i, HeaderEnd(msg, i))
           IN  part \in Seq(Lines) /\ HeaderLines(msg, i) = KeepIn(part, HeadersIn(Lines))
<1>1. Len(msg) \in Nat
  BY LenProperties
<1>2. PICK e : e = HeaderEnd(msg, i)
  OBVIOUS
<1>3. e \in Int /\ e <= Len(msg)
  <2>1. EndsAt(msg, i, e)
    BY <1>2, SomeEnd
  <2> QED
    BY <1>1, <2>1 DEF EndsAt
<1>4. \A k \in i .. e : k \in 1 .. Len(msg)
  BY <1>1, <1>3
<1>5. \A k \in i .. e : msg[k] \in Lines /\ msg[k] \in Range(msg)
  <2>1. \A k \in 1 .. Len(msg) : msg[k] \in Lines
    BY ElementOfSeq
  <2>2. Range(msg) = {msg[k] : k \in 1 .. Len(msg)}
    BY RangeEquality
  <2> QED
    BY <1>4, <2>1, <2>2
<1>6. PICK part : part = SubSeq(msg, i, e)
  OBVIOUS
<1>7. /\ part \in Seq(Lines)
      /\ Len(part) = IF i <= e THEN e - i + 1 ELSE 0
      /\ \A k \in 1 .. e - i + 1 : part[k] = msg[i + k - 1]
  <2>1. \A k \in i .. e : msg[k] \in Lines
    BY <1>5
  <2>2. i \in Int
    OBVIOUS
  <2> QED
    BY <1>3, <1>6, <2>1, <2>2, SubSeqProperties
<1> DEFINE Own == {line \in Range(msg) : line.tag = "header"}
<1>8. ASSUME NEW k \in 1 .. Len(part)
      PROVE  part[k] \in Own <=> part[k] \in HeadersIn(Lines)
  <2>1. k \in 1 .. e - i + 1 /\ i + k - 1 \in i .. e
    BY <1>3, <1>7
  <2>2. part[k] \in Lines /\ part[k] \in Range(msg)
    BY <1>5, <1>7, <2>1
  <2> QED
    BY <2>2 DEF HeadersIn
<1>9. KeepIn(part, Own) = KeepIn(part, HeadersIn(Lines))
  <2> HIDE DEF Own
  <2>1. part \in Seq(Lines)
    BY <1>7
  <2> QED
    BY <1>8, <2>1, KeepSame
<1>10. HeaderLines(msg, i) = KeepIn(part, HeadersIn(Lines))
  BY <1>2, <1>6, <1>9 DEF HeaderLines
<1> QED
  BY <1>2, <1>6, <1>7, <1>10

\* They are headers.
LEMMA HeadersType ==
    ASSUME NEW Lines, NEW msg \in Seq(Lines), NEW i \in Nat \ {0}, i <= Len(msg) + 1
    PROVE  HeaderLines(msg, i) \in Seq(HeadersIn(Lines))
<1>1. PICK part \in Seq(Lines) : HeaderLines(msg, i) = KeepIn(part, HeadersIn(Lines))
  BY HeadersAre
<1>2. KeepIn(part, HeadersIn(Lines)) \in Seq(Lines \cap HeadersIn(Lines))
  BY KeepMembers
<1>3. Lines \cap HeadersIn(Lines) = HeadersIn(Lines)
  BY DEF HeadersIn
<1> QED
  BY <1>1, <1>2, <1>3

\* Before line i there are none.
LEMMA HeadersFirst ==
    ASSUME NEW Lines, NEW msg \in Seq(Lines), NEW i \in Nat \ {0}, Len(msg) = i - 1
    PROVE  HeaderLines(msg, i) = << >> /\ NoBlank(msg, i)
<1>1. i <= Len(msg) + 1 /\ i \in Nat
  OBVIOUS
<1>2. PICK e : e = HeaderEnd(msg, i)
  OBVIOUS
<1>3. e \in Int /\ e < i
  <2>1. EndsAt(msg, i, e)
    BY <1>1, <1>2, SomeEnd
  <2> QED
    BY <2>1 DEF EndsAt
<1>4. SubSeq(msg, i, e) = << >>
  <2>1. i \in Int
    OBVIOUS
  <2> QED
    BY <1>3, <2>1, SubSeqEmpty
<1>5. HeaderLines(msg, i) = KeepIn(<< >>, HeadersIn(Lines))
  BY <1>1, <1>2, <1>4, HeadersAre
<1>6. NoBlank(msg, i)
  BY DEF NoBlank
<1> QED
  BY <1>5, <1>6, KeepNone

\* A message goes on among its headers until a blank line.
LEMMA BlankNext ==
    ASSUME NEW Lines, NEW msg \in Seq(Lines), NEW x \in Lines,
           NEW i \in Nat \ {0}, i <= Len(msg) + 1
    PROVE  NoBlank(Append(msg, x), i) <=> NoBlank(msg, i) /\ x # Blank
<1>1. PICK n \in Nat : n = Len(msg)
  BY LenProperties
<1>2. PICK q : q = Append(msg, x)
  OBVIOUS
<1>3. Len(q) = n + 1 /\ q[n + 1] = x /\ \A k \in 1 .. n : q[k] = msg[k]
  BY <1>1, <1>2, AppendProperties
<1>4. \A k : k \in i .. n + 1 <=> k \in i .. n \/ k = n + 1
  BY <1>1
<1>5. \A k \in i .. n : k \in 1 .. n
  OBVIOUS
<1>6. NoBlank(q, i) <=> NoBlank(msg, i) /\ x # Blank
  BY <1>1, <1>3, <1>4, <1>5 DEF NoBlank
<1> QED
  BY <1>2, <1>6

\* A line is one more header if it is one and no blank line came before it.
LEMMA HeadersNext ==
    ASSUME NEW Lines, NEW msg \in Seq(Lines), NEW x \in Lines,
           NEW i \in Nat \ {0}, i <= Len(msg) + 1
    PROVE  HeaderLines(Append(msg, x), i) =
              IF NoBlank(msg, i) /\ x.tag = "header" THEN Append(HeaderLines(msg, i), x)
              ELSE HeaderLines(msg, i)
<1>1. PICK n \in Nat : n = Len(msg)
  BY LenProperties
<1>2. PICK q : q = Append(msg, x)
  OBVIOUS
<1>3. /\ q \in Seq(Lines) /\ Len(q) = n + 1 /\ q[n + 1] = x
      /\ \A k \in 1 .. n : q[k] = msg[k]
  BY <1>1, <1>2, AppendProperties
<1>4. PICK e : e = HeaderEnd(msg, i)
  OBVIOUS
<1>5. EndsAt(msg, i, e)
  BY <1>4, SomeEnd
<1>6. PICK part : part = SubSeq(msg, i, e)
  OBVIOUS
<1>7. part \in Seq(Lines) /\ HeaderLines(msg, i) = KeepIn(part, HeadersIn(Lines))
  BY <1>4, <1>6, HeadersAre
<1>8. e \in Int /\ i - 1 <= e /\ e <= n /\ i \in Int
  BY <1>1, <1>5 DEF EndsAt
<1>9. \A k \in i .. e : k \in 1 .. n /\ q[k] = msg[k] /\ q[k] \in Lines
  <2>1. \A k \in i .. e : k \in 1 .. n /\ k \in 1 .. Len(q)
    BY <1>3, <1>8
  <2>2. \A k \in 1 .. Len(q) : q[k] \in Lines
    BY <1>3, ElementOfSeq
  <2> QED
    BY <1>3, <2>1, <2>2
<1>10. SubSeq(q, i, e) = part
  <2>1. PICK r : r = SubSeq(q, i, e)
    OBVIOUS
  <2>2. /\ r \in Seq(Lines) /\ Len(r) = IF i <= e THEN e - i + 1 ELSE 0
        /\ \A k \in 1 .. e - i + 1 : r[k] = q[i + k - 1]
    BY <1>8, <1>9, <2>1, SubSeqProperties
  <2>3. /\ Len(part) = IF i <= e THEN e - i + 1 ELSE 0
        /\ \A k \in 1 .. e - i + 1 : part[k] = msg[i + k - 1]
    <3>1. \A k \in i .. e : msg[k] \in Lines
      BY <1>9
    <3> QED
      BY <1>6, <1>8, <3>1, SubSeqProperties
  <2>4. Len(r) = Len(part)
    BY <2>2, <2>3
  <2>5. ASSUME NEW k \in 1 .. Len(r) PROVE r[k] = part[k]
    <3>1. k \in 1 .. e - i + 1 /\ i + k - 1 \in i .. e
      BY <1>8, <2>2
    <3> QED
      BY <1>9, <2>2, <2>3, <3>1
  <2>6. r = part
    BY <1>7, <2>2, <2>4, <2>5, SeqEqual
  <2> QED
    BY <2>1, <2>6
<1>11. i <= Len(q) + 1
  BY <1>1, <1>3
<1>12. ASSUME NEW m, HeaderEnd(q, i) = m
       PROVE  HeaderLines(q, i) = KeepIn(SubSeq(q, i, m), HeadersIn(Lines))
  BY <1>3, <1>11, <1>12, HeadersAre
<1>13. CASE ~NoBlank(msg, i)
  <2>1. e # n
    BY <1>1, <1>5, <1>13 DEF EndsAt, NoBlank
  <2>2. e < n /\ e + 1 \in 1 .. n
    BY <1>8, <2>1
  <2>3. q[e + 1] = msg[e + 1] /\ msg[e + 1] = Blank
    BY <1>1, <1>3, <1>5, <2>2 DEF EndsAt
  <2>4. e \in i - 1 .. Len(q)
    BY <1>3, <1>8
  <2>5. \A k \in i .. e : q[k] # Blank
    BY <1>5, <1>9 DEF EndsAt
  <2>6. EndsAt(q, i, e)
    BY <2>3, <2>4, <2>5 DEF EndsAt
  <2>7. HeaderEnd(q, i) = e
    BY <1>3, <2>6, OneEnd
  <2> QED
    BY <1>2, <1>7, <1>10, <1>12, <1>13, <2>7
<1>14. CASE NoBlank(msg, i)
  <2>1. EndsAt(msg, i, n)
    BY <1>1, <1>8, <1>14 DEF EndsAt, NoBlank
  <2>2. e = n
    BY <1>4, <2>1, OneEnd
  <2>3. \A k \in i .. n : q[k] # Blank
    BY <1>5, <1>9, <2>2 DEF EndsAt
  <2>4. CASE x = Blank
    <3>1. EndsAt(q, i, n)
      BY <1>3, <1>8, <2>2, <2>3, <2>4 DEF EndsAt
    <3>2. HeaderEnd(q, i) = e
      BY <1>3, <2>2, <3>1, OneEnd
    <3>3. x.tag # "header"
      BY <2>4 DEF Blank
    <3> QED
      BY <1>2, <1>7, <1>10, <1>12, <3>2, <3>3
  <2>5. CASE x # Blank
    <3>1. \A k \in i .. n + 1 : q[k] # Blank
      <4>1. \A k \in i .. n + 1 : k \in i .. n \/ k = n + 1
        OBVIOUS
      <4> QED
        BY <1>3, <2>3, <2>5, <4>1
    <3>2. EndsAt(q, i, n + 1)
      BY <1>3, <1>8, <2>2, <3>1 DEF EndsAt
    <3>3. HeaderEnd(q, i) = n + 1
      BY <1>3, <3>2, OneEnd
    <3>4. SubSeq(q, i, n + 1) = Append(part, x)
      <4>1. PICK r : r = SubSeq(q, i, n + 1)
        OBVIOUS
      <4>2. \A k \in i .. n + 1 : q[k] \in Lines
        <5>1. \A k \in i .. n + 1 : k \in 1 .. Len(q)
          BY <1>3
        <5>2. \A k \in 1 .. Len(q) : q[k] \in Lines
          BY <1>3, ElementOfSeq
        <5> QED
          BY <5>1, <5>2
      <4>3. i <= n + 1 /\ n + 1 \in Int /\ n + 1 - i + 1 = n - i + 2
        BY <1>1, <1>8
      <4>4. /\ r \in Seq(Lines) /\ Len(r) = n - i + 2
            /\ \A k \in 1 .. n - i + 2 : r[k] = q[i + k - 1]
        BY <1>8, <4>1, <4>2, <4>3, SubSeqProperties
      <4>5. /\ Len(part) = n - i + 1
            /\ \A k \in 1 .. n - i + 1 : part[k] = q[i + k - 1]
        <5>1. /\ Len(part) = IF i <= n THEN n - i + 1 ELSE 0
              /\ \A k \in 1 .. n - i + 1 : part[k] = q[i + k - 1]
          BY <1>8, <1>9, <1>10, <2>2, SubSeqProperties
        <5> QED
          BY <1>8, <2>2, <5>1
      <4>6. /\ Append(part, x) \in Seq(Lines) /\ Len(Append(part, x)) = n - i + 2
            /\ Append(part, x)[n - i + 2] = x
            /\ \A k \in 1 .. n - i + 1 : Append(part, x)[k] = part[k]
        <5>1. PICK m \in Nat : m = Len(part)
          BY <1>7, LenProperties
        <5>2. /\ Append(part, x) \in Seq(Lines) /\ Len(Append(part, x)) = m + 1
              /\ Append(part, x)[m + 1] = x
              /\ \A k \in 1 .. m : Append(part, x)[k] = part[k]
          BY <1>7, <5>1, AppendProperties
        <5>3. m = n - i + 1 /\ m + 1 = n - i + 2
          BY <1>8, <4>5, <5>1
        <5> QED
          BY <5>2, <5>3
      <4>7. ASSUME NEW k \in 1 .. Len(r) PROVE r[k] = Append(part, x)[k]
        <5>1. k \in 1 .. n - i + 2
          BY <4>4
        <5>2. CASE k = n - i + 2
          <6>1. i + k - 1 = n + 1
            BY <1>8, <5>2
          <6> QED
            BY <1>3, <4>4, <4>6, <5>1, <5>2, <6>1
        <5>3. CASE k # n - i + 2
          <6>1. k \in 1 .. n - i + 1
            BY <1>8, <5>1, <5>3
          <6> QED
            BY <4>4, <4>5, <4>6, <5>1, <6>1
        <5> QED
          BY <5>2, <5>3
      <4>8. r = Append(part, x)
        BY <4>4, <4>6, <4>7, SeqEqual
      <4> QED
        BY <4>1, <4>8
    <3>5. HeaderLines(q, i) = KeepIn(Append(part, x), HeadersIn(Lines))
      BY <1>12, <3>3, <3>4
    <3>6. KeepIn(Append(part, x), HeadersIn(Lines)) =
             IF x \in HeadersIn(Lines) THEN Append(KeepIn(part, HeadersIn(Lines)), x)
             ELSE KeepIn(part, HeadersIn(Lines))
      BY <1>7, KeepLast
    <3>7. x \in HeadersIn(Lines) <=> x.tag = "header"
      BY DEF HeadersIn
    <3> QED
      BY <1>2, <1>7, <1>14, <3>5, <3>6, <3>7
  <2> QED
    BY <2>4, <2>5
<1> QED
  BY <1>13, <1>14

-----------------------------------------------------------------------------
(***************************************************************************)
(* The values of a header, the one that counts and a response's method     *)
(***************************************************************************)
\* The values of headers.
ValuesIn(Lines) == {line.value : line \in Lines}

\* What a function makes of every entry.
Each(g, s) == [n \in DOMAIN s |-> g[s[n]]]

\* The function g sends T into V.
MapsTo(g, T, V) == \A y \in T : g[y] \in V

\* One more entry, one more result.
LEMMA MapNext ==
    ASSUME NEW T, NEW V, NEW g, MapsTo(g, T, V), NEW s \in Seq(T), NEW x \in T
    PROVE  Each(g, s) \in Seq(V) /\ Each(g, Append(s, x)) = Append(Each(g, s), g[x])
<1>1. PICK n \in Nat : n = Len(s)
  BY LenProperties
<1>2. PICK q : q = Append(s, x)
  OBVIOUS
<1>3. q \in Seq(T) /\ Len(q) = n + 1 /\ q[n + 1] = x /\ \A k \in 1 .. n : q[k] = s[k]
  BY <1>1, <1>2, AppendProperties
<1>4. DOMAIN s = 1 .. n /\ DOMAIN q = 1 .. n + 1
  BY <1>1, <1>3, LenProperties
<1>5. \A k \in 1 .. n : s[k] \in T
  BY <1>1, ElementOfSeq
<1>6. PICK a : a = [k \in 1 .. n |-> g[s[k]]]
  OBVIOUS
<1>7. a \in Seq(V) /\ Len(a) = n /\ \A k \in 1 .. n : a[k] = g[s[k]]
  <2>1. \A k \in 1 .. n : g[s[k]] \in V
    BY <1>5 DEF MapsTo
  <2> QED
    BY <1>6, <2>1, IsASeq
<1>8. PICK b : b = [k \in 1 .. n + 1 |-> g[q[k]]]
  OBVIOUS
<1>9. b \in Seq(V) /\ Len(b) = n + 1 /\ \A k \in 1 .. n + 1 : b[k] = g[q[k]]
  <2>1. \A k \in 1 .. n + 1 : q[k] \in T
    BY <1>3, ElementOfSeq
  <2>2. \A k \in 1 .. n + 1 : g[q[k]] \in V
    BY <2>1 DEF MapsTo
  <2>3. n + 1 \in Nat
    OBVIOUS
  <2> QED
    BY <1>8, <2>2, <2>3, IsASeq
<1>10. g[x] \in V
  BY DEF MapsTo
<1>11. PICK c : c = Append(a, g[x])
  OBVIOUS
<1>12. /\ c \in Seq(V) /\ Len(c) = n + 1 /\ c[n + 1] = g[x]
       /\ \A k \in 1 .. n : c[k] = a[k]
  BY <1>7, <1>10, <1>11, AppendProperties
<1>13. ASSUME NEW k \in 1 .. Len(b) PROVE b[k] = c[k]
  <2>1. CASE k = n + 1
    BY <1>3, <1>9, <1>12, <2>1
  <2>2. CASE k # n + 1
    <3>1. k \in 1 .. n /\ k \in 1 .. n + 1
      BY <1>9, <2>2
    <3> QED
      BY <1>3, <1>7, <1>9, <1>12, <3>1
  <2> QED
    BY <2>1, <2>2
<1>14. b = c
  BY <1>9, <1>12, <1>13, SeqEqual
<1> QED
  BY <1>2, <1>4, <1>6, <1>7, <1>8, <1>11, <1>14 DEF Each


\* The headers with one of the names.
NamedIn(Lines, names) == {h \in Lines : h.name \in names}

\* The values of a list of headers.
EachValue(headers) == [n \in DOMAIN headers |-> headers[n].value]

\* Nothing has no values.
LEMMA ValuesNone ==
    ASSUME NEW names
    PROVE  Values(<< >>, names) = << >>
<1>1. \A R : KeepIn(<< >>, R) = << >>
  BY KeepNone
<1> QED
  BY <1>1 DEF Values

\* The values under some names, with a filter that does not depend on the list.
LEMMA ValuesAre ==
    ASSUME NEW Lines, NEW headers \in Seq(Lines), NEW names
    PROVE  /\ KeepIn(headers, NamedIn(Lines, names)) \in Seq(Lines)
           /\ Values(headers, names) = EachValue(KeepIn(headers, NamedIn(Lines, names)))
<1> DEFINE Own == {h \in Range(headers) : h.name \in names}
<1>1. ASSUME NEW k \in 1 .. Len(headers)
      PROVE  headers[k] \in Own <=> headers[k] \in NamedIn(Lines, names)
  <2>1. headers[k] \in Lines
    BY ElementOfSeq
  <2>2. Range(headers) = {headers[j] : j \in 1 .. Len(headers)}
    BY RangeEquality
  <2>3. headers[k] \in Range(headers)
    BY <2>2
  <2> QED
    BY <2>1, <2>3 DEF NamedIn
<1>2. KeepIn(headers, Own) = KeepIn(headers, NamedIn(Lines, names))
  <2> HIDE DEF Own
  <2> QED
    BY <1>1, KeepSame
<1>3. KeepIn(headers, NamedIn(Lines, names)) \in Seq(Lines)
  BY KeepType
<1>4. Values(headers, names) = EachValue(KeepIn(headers, Own))
  BY Zenon DEF Values, EachValue
<1> QED
  BY <1>2, <1>3, <1>4, Zenon

\* The values are values of headers with one of the names.
LEMMA ValuesType ==
    ASSUME NEW Lines, NEW headers \in Seq(Lines), NEW names
    PROVE  Values(headers, names) \in Seq(ValuesIn(NamedIn(Lines, names)))
<1>1. PICK N : N = NamedIn(Lines, names)
  OBVIOUS
<1>2. PICK a : a = KeepIn(headers, N)
  OBVIOUS
<1>3. a \in Seq(N)
  <2>1. a \in Seq(Lines \cap N)
    BY <1>2, KeepMembers
  <2>2. Lines \cap N = N
    BY <1>1 DEF NamedIn
  <2> QED
    BY <2>1, <2>2
<1>4. Values(headers, names) = EachValue(a)
  BY <1>1, <1>2, ValuesAre
<1>5. PICK n \in Nat : n = Len(a) /\ DOMAIN a = 1 .. n
  BY <1>3, LenProperties
<1>6. \A k \in 1 .. n : a[k].value \in ValuesIn(N)
  BY <1>3, <1>5, ElementOfSeq DEF ValuesIn
<1>7. [k \in 1 .. n |-> a[k].value] \in Seq(ValuesIn(N))
  BY <1>5, <1>6, IsASeq
<1> QED
  BY <1>1, <1>4, <1>5, <1>7 DEF EachValue

\* One more header is one more value, if it has one of the names.
LEMMA ValuesNext ==
    ASSUME NEW Lines, NEW headers \in Seq(Lines), NEW h \in Lines, NEW names
    PROVE  /\ Values(headers, names) \in Seq(ValuesIn(Lines))
           /\ Values(Append(headers, h), names) =
                 IF h.name \in names THEN Append(Values(headers, names), h.value)
                 ELSE Values(headers, names)
<1>1. PICK a : a = KeepIn(headers, NamedIn(Lines, names))
  OBVIOUS
<1>2. a \in Seq(Lines) /\ Values(headers, names) = EachValue(a)
  BY <1>1, ValuesAre
<1>3. PICK q : q = Append(headers, h)
  OBVIOUS
<1>4. q \in Seq(Lines)
  BY <1>3, AppendProperties
<1>5. PICK b : b = KeepIn(q, NamedIn(Lines, names))
  OBVIOUS
<1>6. b \in Seq(Lines) /\ Values(q, names) = EachValue(b)
  BY <1>4, <1>5, ValuesAre
<1>7. b = IF h \in NamedIn(Lines, names) THEN Append(a, h) ELSE a
  BY <1>1, <1>3, <1>5, KeepLast
<1>8. PICK g : g = [l \in Lines |-> l.value]
  OBVIOUS
<1>9. \A l \in Lines : g[l] = l.value /\ g[l] \in ValuesIn(Lines)
  BY <1>8 DEF ValuesIn
<1>10. Each(g, a) \in Seq(ValuesIn(Lines)) /\ Each(g, Append(a, h)) = Append(Each(g, a), g[h])
  <2>1. MapsTo(g, Lines, ValuesIn(Lines))
    BY <1>9 DEF MapsTo
  <2> QED
    BY <1>2, <2>1, MapNext
<1>11. ASSUME NEW s \in Seq(Lines) PROVE Each(g, s) = EachValue(s)
  <2>1. \A n \in DOMAIN s : s[n] \in Lines
    BY LenProperties, ElementOfSeq
  <2>2. \A n \in DOMAIN s : g[s[n]] = s[n].value
    BY <1>9, <2>1
  <2> QED
    BY <2>2, Zenon DEF Each, EachValue
<1>12. Values(headers, names) = Each(g, a) /\ Values(q, names) = Each(g, b)
  BY <1>2, <1>6, <1>11
<1>13. h \in NamedIn(Lines, names) <=> h.name \in names
  BY DEF NamedIn
<1> QED
  BY <1>3, <1>7, <1>9, <1>10, <1>12, <1>13

\* The last value counts.
LEMMA LastValueNext ==
    ASSUME NEW V, NEW s \in Seq(V), NEW x \in V
    PROVE  LastOf(Append(s, x)) = x
<1>1. PICK q : q = Append(s, x)
  OBVIOUS
<1>2. Len(s) \in Nat /\ Len(q) = Len(s) + 1 /\ q[Len(s) + 1] = x
  BY <1>1, LenProperties, AppendProperties
<1>3. q # << >> /\ q[Len(q)] = x
  BY <1>2, EmptySeq
<1>4. LastOf(q) = x
  BY <1>3 DEF LastOf, Last
<1> QED
  BY <1>1, <1>4

\* The methods that CSeq values have.
MethodsIn(V) == {CSeqMethod[v] : v \in V}

\* No CSeq, no method.
LEMMA MethodNone == ResponseMethod(<< >>) = ""
<1>1. PICK named : named = [n \in DOMAIN << >> |-> CSeqMethod[<< >>[n]]]
  OBVIOUS
<1>2. named = << >>
  BY <1>1
<1>3. \A R : KeepIn(named, R) = << >>
  BY <1>2, KeepNone
<1> QED
  BY <1>1, <1>3, Zenon DEF ResponseMethod

\* The methods in the CSeq headers.
MethodsOf(V, cseqs) == KeepIn(Each(CSeqMethod, cseqs), MethodsIn(V) \ {""})

\* A filter that does not depend on the list.
LEMMA MethodsAre ==
    ASSUME NEW V, NEW cseqs \in Seq(V)
    PROVE  /\ Each(CSeqMethod, cseqs) \in Seq(MethodsIn(V))
           /\ MethodsOf(V, cseqs) \in Seq(MethodsIn(V) \ {""})
           /\ ResponseMethod(cseqs) = IF MethodsOf(V, cseqs) = << >> THEN ""
                                      ELSE Head(MethodsOf(V, cseqs))
<1> DEFINE M == MethodsIn(V) \ {""}
<1>1. PICK named : named = Each(CSeqMethod, cseqs)
  OBVIOUS
<1>2. named \in Seq(MethodsIn(V))
  <2>1. PICK n \in Nat : n = Len(cseqs) /\ DOMAIN cseqs = 1 .. n
    BY LenProperties
  <2>2. \A k \in 1 .. n : cseqs[k] \in V
    BY <2>1, ElementOfSeq
  <2>3. \A k \in 1 .. n : CSeqMethod[cseqs[k]] \in MethodsIn(V)
    BY <2>2 DEF MethodsIn
  <2>4. [k \in 1 .. n |-> CSeqMethod[cseqs[k]]] \in Seq(MethodsIn(V))
    BY <2>1, <2>3, IsASeq
  <2> QED
    BY <1>1, <2>1, <2>4 DEF Each
<1> DEFINE Own == Range(named) \ {""}
<1>3. ASSUME NEW k \in 1 .. Len(named) PROVE named[k] \in Own <=> named[k] \in M
  <2>1. named[k] \in MethodsIn(V)
    BY <1>2, ElementOfSeq
  <2>2. Range(named) = {named[j] : j \in 1 .. Len(named)}
    BY <1>2, RangeEquality
  <2> QED
    BY <2>1, <2>2
<1>4. KeepIn(named, Own) = KeepIn(named, M)
  <2> HIDE DEF Own, M
  <2> QED
    BY <1>2, <1>3, KeepSame
<1>5. KeepIn(named, M) \in Seq(MethodsIn(V) \cap M)
  <2> HIDE DEF M
  <2> QED
    BY <1>2, KeepMembers
<1>6. MethodsIn(V) \cap M = M
  OBVIOUS
<1>7. ResponseMethod(cseqs) = LET methods == KeepIn(named, Own)
                              IN  IF methods = << >> THEN "" ELSE Head(methods)
  BY <1>1, Zenon DEF ResponseMethod, Each
<1>8. MethodsOf(V, cseqs) = KeepIn(named, M)
  BY <1>1, Zenon DEF MethodsOf
<1> QED
  BY <1>1, <1>2, <1>4, <1>5, <1>6, <1>7, <1>8, Zenon

\* The first CSeq that has a method gives it.
LEMMA MethodNext ==
    ASSUME NEW V, NEW cseqs \in Seq(V), NEW c \in V
    PROVE  ResponseMethod(Append(cseqs, c)) =
              IF ResponseMethod(cseqs) # "" THEN ResponseMethod(cseqs) ELSE CSeqMethod[c]
<1>1. PICK M : M = MethodsIn(V) \ {""}
  OBVIOUS
<1>2. PICK q : q = Append(cseqs, c)
  OBVIOUS
<1>3. q \in Seq(V)
  BY <1>2, AppendProperties
<1>4. PICK k : k = MethodsOf(V, cseqs)
  OBVIOUS
<1>5. k \in Seq(M) /\ ResponseMethod(cseqs) = IF k = << >> THEN "" ELSE Head(k)
  BY <1>1, <1>4, MethodsAre
<1>6. PICK m : m = MethodsOf(V, q)
  OBVIOUS
<1>7. ResponseMethod(q) = IF m = << >> THEN "" ELSE Head(m)
  BY <1>3, <1>6, MethodsAre
<1>8. PICK d : d = CSeqMethod[c]
  OBVIOUS
<1>9. d \in MethodsIn(V) /\ MapsTo(CSeqMethod, V, MethodsIn(V))
  BY <1>8 DEF MethodsIn, MapsTo
<1>10. Each(CSeqMethod, q) = Append(Each(CSeqMethod, cseqs), d)
  BY <1>2, <1>8, <1>9, MapNext
<1>11. PICK e \in Seq(MethodsIn(V)) : e = Each(CSeqMethod, cseqs)
  BY MethodsAre
<1>12. m = IF d \in M THEN Append(k, d) ELSE k
  <2>1. k = KeepIn(e, M) /\ m = KeepIn(Append(e, d), M)
    BY <1>1, <1>4, <1>6, <1>10, <1>11 DEF MethodsOf
  <2>2. KeepIn(Append(e, d), M) = IF d \in M THEN Append(KeepIn(e, M), d) ELSE KeepIn(e, M)
    BY <1>9, KeepLast
  <2> QED
    BY <2>1, <2>2
<1>13. (d \in M <=> d # "") /\ "" \notin M
  BY <1>1, <1>9
<1>14. CASE k = << >>
  <2>1. ResponseMethod(cseqs) = ""
    BY <1>5, <1>14
  <2>2. CASE d = ""
    BY <1>2, <1>7, <1>8, <1>12, <1>13, <1>14, <2>1, <2>2
  <2>3. CASE d # ""
    <3>1. m = Append(<< >>, d)
      BY <1>12, <1>13, <1>14, <2>3
    <3>2. Append(<< >>, d) # << >> /\ Head(Append(<< >>, d)) = d
      BY EmptySeq, HeadTailAppend
    <3>3. ResponseMethod(q) = d
      BY <1>7, <3>1, <3>2, Zenon
    <3> QED
      BY <1>2, <1>8, <2>1, <3>3
  <2> QED
    BY <2>2, <2>3
<1>15. CASE k # << >>
  <2>1. ResponseMethod(cseqs) = Head(k) /\ Head(k) \in M
    BY <1>5, <1>15, HeadTailProperties
  <2>2. ResponseMethod(cseqs) # ""
    BY <1>13, <2>1
  <2>3. CASE d \notin M
    <3>1. m = k
      BY <1>12, <2>3
    <3>2. ResponseMethod(q) = ResponseMethod(cseqs)
      BY <1>7, <1>15, <2>1, <3>1
    <3> QED
      BY <1>2, <2>2, <3>2
  <2>4. CASE d \in M
    <3>1. Append(k, d) # << >> /\ Head(Append(k, d)) = Head(k)
      BY <1>5, <1>15, <2>4, HeadTailAppend, AppendProperties
    <3>2. ResponseMethod(q) = Head(k)
      BY <1>7, <1>12, <2>4, <3>1
    <3> QED
      BY <1>2, <2>1, <2>2, <3>2
  <2> QED
    BY <2>3, <2>4
<1> QED
  BY <1>14, <1>15

\* A sequence that is not empty has a first entry.
LEMMA HasFirst ==
    ASSUME NEW V, NEW s \in Seq(V), s # << >>
    PROVE  1 \in 1 .. Len(s) /\ Head(s) = s[1] /\ s[1] \in V
<1>1. Len(s) \in Nat /\ Len(s) # 0
  BY LenProperties, EmptySeq
<1>2. 1 \in 1 .. Len(s)
  BY <1>1
<1>3. s[1] \in V
  BY <1>2, ElementOfSeq
<1> QED
  BY <1>2, <1>3, HeadTailProperties

\* The topmost Via is taken, if it says anything.
LEMMA FirstViaIs ==
    ASSUME NEW V, NEW vias \in Seq(V), vias # << >>, vias[1] # ""
    PROVE  FirstVia(vias) = vias[1]
<1>1. PICK own : own = Range(vias) \ {""}
  OBVIOUS
<1>2. vias[1] \in own
  <2>1. 1 \in 1 .. Len(vias)
    BY HasFirst
  <2>2. Range(vias) = {vias[j] : j \in 1 .. Len(vias)}
    BY RangeEquality
  <2>3. vias[1] \in Range(vias)
    BY <2>1, <2>2, Zenon
  <2> QED
    BY <1>1, <2>3
<1>3. PICK k : k = KeepIn(vias, own)
  OBVIOUS
<1>4. k # << >> /\ k[1] = vias[1]
  BY <1>2, <1>3, KeepHead
<1>5. k \in Seq(V)
  BY <1>3, KeepType
<1>6. Head(k) = k[1]
  BY <1>4, <1>5, HasFirst
<1>7. FirstVia(vias) = Head(k)
  BY <1>1, <1>3, <1>4 DEF FirstVia
<1> QED
  BY <1>4, <1>6, <1>7

-----------------------------------------------------------------------------
(***************************************************************************)
(* Line by line: what a message's fields are after one more line           *)
(***************************************************************************)
\* What parseSIP reads under some names, in order.
Fields(msg, names) == Values(HeaderLines(msg, 2), names)

\* A first line has no fields.
LEMMA LineFirst ==
    ASSUME NEW Lines, NEW x \in Lines
    PROVE  NoBlank(<<x>>, 2) /\ \A names : Fields(<<x>>, names) = << >>
<1>1. <<x>> \in Seq(Lines) /\ Len(<<x>>) = 2 - 1 /\ 2 \in Nat \ {0}
  OBVIOUS
<1>2. HeaderLines(<<x>>, 2) = << >> /\ NoBlank(<<x>>, 2)
  BY <1>1, HeadersFirst
<1> QED
  BY <1>2, ValuesNone DEF Fields

\* The fields after one more line.
LEMMA LineNext ==
    ASSUME NEW Lines, NEW msg \in Seq(Lines), msg # << >>, NEW x \in Lines
    PROVE  /\ Append(msg, x) \in Seq(Lines) /\ Append(msg, x) # << >>
           /\ Append(msg, x)[1] = msg[1]
           /\ NoBlank(Append(msg, x), 2) <=> NoBlank(msg, 2) /\ x # Blank
           /\ \A names :
                 /\ Fields(msg, names) \in Seq(ValuesIn(Lines))
                 /\ Fields(Append(msg, x), names) =
                       IF NoBlank(msg, 2) /\ x.tag = "header" /\ x.name \in names
                       THEN Append(Fields(msg, names), x.value) ELSE Fields(msg, names)
<1>1. PICK n \in Nat : n = Len(msg) /\ n # 0
  BY LenProperties, EmptySeq
<1>2. PICK q : q = Append(msg, x)
  OBVIOUS
<1>3. q \in Seq(Lines) /\ Len(q) = n + 1 /\ \A k \in 1 .. n : q[k] = msg[k]
  BY <1>1, <1>2, AppendProperties
<1>4. q # << >> /\ q[1] = msg[1]
  <2>1. 1 \in 1 .. n /\ n + 1 # 0
    BY <1>1
  <2> QED
    BY <1>3, <2>1, EmptySeq
<1>5. 2 \in Nat \ {0} /\ 2 <= Len(msg) + 1
  BY <1>1
<1>6. NoBlank(q, 2) <=> NoBlank(msg, 2) /\ x # Blank
  BY <1>2, <1>5, BlankNext
<1>7. PICK h : h = HeaderLines(msg, 2)
  OBVIOUS
<1>8. h \in Seq(Lines)
  <2>1. h \in Seq(HeadersIn(Lines))
    BY <1>5, <1>7, HeadersType
  <2>2. HeadersIn(Lines) \subseteq Lines
    BY DEF HeadersIn
  <2> QED
    BY <2>1, <2>2, SeqMonotonic
<1>9. HeaderLines(q, 2) = IF NoBlank(msg, 2) /\ x.tag = "header" THEN Append(h, x) ELSE h
  BY <1>2, <1>5, <1>7, HeadersNext
<1>10. ASSUME NEW names
       PROVE  /\ Fields(msg, names) \in Seq(ValuesIn(Lines))
              /\ Fields(q, names) =
                    IF NoBlank(msg, 2) /\ x.tag = "header" /\ x.name \in names
                    THEN Append(Fields(msg, names), x.value) ELSE Fields(msg, names)
  <2>1. /\ Values(h, names) \in Seq(ValuesIn(Lines))
        /\ Values(Append(h, x), names) =
              IF x.name \in names THEN Append(Values(h, names), x.value) ELSE Values(h, names)
    BY <1>8, ValuesNext
  <2>2. Fields(msg, names) = Values(h, names)
    BY <1>7 DEF Fields
  <2>3. Fields(q, names) = IF NoBlank(msg, 2) /\ x.tag = "header"
                           THEN Values(Append(h, x), names) ELSE Values(h, names)
    BY <1>9 DEF Fields
  <2> QED
    BY <2>1, <2>2, <2>3
<1> QED
  BY <1>2, <1>3, <1>4, <1>6, <1>10

\* A message: it starts with a line that is no header.
IsMessage(Lines, msg) == msg \in Seq(Lines) /\ msg # << >> /\ msg[1].tag # "header"

\* Induction over messages.
LEMMA MessageClimb ==
    ASSUME NEW Lines, NEW Good,
           \A x \in Lines : x.tag # "header" => <<x>> \in Good,
           \A msg \in Seq(Lines), x \in Lines :
              IsMessage(Lines, msg) /\ msg \in Good => Append(msg, x) \in Good
    PROVE  \A msg \in Seq(Lines) : IsMessage(Lines, msg) => msg \in Good
<1> DEFINE All == {msg \in Seq(Lines) : IsMessage(Lines, msg) => msg \in Good}
<1>1. << >> \in All
  BY EmptySeq DEF IsMessage
<1>2. ASSUME NEW msg \in Seq(Lines), NEW x \in Lines, msg \in All PROVE Append(msg, x) \in All
  <2>1. PICK q : q = Append(msg, x)
    OBVIOUS
  <2>2. q \in Seq(Lines)
    BY <2>1, AppendProperties
  <2>3. ASSUME IsMessage(Lines, q) PROVE q \in Good
    <3>1. CASE msg = << >>
      <4>1. q = <<x>>
        BY <2>1, <3>1
      <4>2. x.tag # "header"
        BY <2>3, <4>1 DEF IsMessage
      <4> QED
        BY <4>1, <4>2
    <3>2. CASE msg # << >>
      <4>1. q[1] = msg[1]
        BY <2>1, <3>2, LineNext
      <4>2. IsMessage(Lines, msg)
        BY <2>3, <3>2, <4>1 DEF IsMessage
      <4>3. msg \in Good
        BY <1>2, <4>2
      <4> QED
        BY <2>1, <4>2, <4>3
    <3> QED
      BY <3>1, <3>2
  <2> QED
    BY <2>1, <2>2, <2>3
<1>3. \A msg \in Seq(Lines) : msg \in All
  <2> HIDE DEF All
  <2> QED
    BY <1>1, <1>2, SeqClimb
<1> QED
  BY <1>3

\* Messages whose fields agree are parsed alike.
LEMMA SameParse ==
    ASSUME NEW msg, NEW r, r[1] = msg[1],
           \A names : names \cap Credentials = {} => Fields(r, names) = Fields(msg, names)
    PROVE  parseSIP(r) = parseSIP(msg)
<1>1. /\ {"cseq"} \cap Credentials = {} /\ {"call-id", "i"} \cap Credentials = {}
      /\ {"from", "f"} \cap Credentials = {} /\ {"to", "t"} \cap Credentials = {}
  BY DEF Credentials
<1>2. /\ Values(HeaderLines(r, 2), {"cseq"}) = Values(HeaderLines(msg, 2), {"cseq"})
      /\ Values(HeaderLines(r, 2), {"call-id", "i"}) = Values(HeaderLines(msg, 2), {"call-id", "i"})
      /\ Values(HeaderLines(r, 2), {"from", "f"}) = Values(HeaderLines(msg, 2), {"from", "f"})
      /\ Values(HeaderLines(r, 2), {"to", "t"}) = Values(HeaderLines(msg, 2), {"to", "t"})
  BY <1>1, Zenon DEF Fields
<1> QED
  BY <1>2, Zenon DEF parseSIP
-----------------------------------------------------------------------------
(***************************************************************************)
(* Redaction keeps the meaning of every message                            *)
(***************************************************************************)
\* The lines that redactSIP keeps.
Harmless(Lines) == {line \in Lines : ~HasCredentials(line)}

\* The message without the lines that go says what it said.
Alike(msg, r) ==
    /\ r # << >> /\ r[1] = msg[1]
    /\ NoBlank(r, 2) <=> NoBlank(msg, 2)
    /\ \A names : names \cap Credentials = {} => Fields(r, names) = Fields(msg, names)

\* Taking the credentials out leaves the rest alone.
LEMMA HarmlessAlike ==
    ASSUME NEW Lines
    PROVE  \A msg \in Seq(Lines) : IsMessage(Lines, msg) => Alike(msg, KeepIn(msg, Harmless(Lines)))
<1> DEFINE Good == {msg \in Seq(Lines) : Alike(msg, KeepIn(msg, Harmless(Lines)))}
<1>1. ASSUME NEW x \in Lines, x.tag # "header" PROVE <<x>> \in Good
  <2>1. << >> \in Seq(Lines) /\ <<x>> = Append(<< >>, x) /\ <<x>> \in Seq(Lines)
    OBVIOUS
  <2>2. x \in Harmless(Lines)
    BY <1>1 DEF Harmless, HasCredentials
  <2>3. KeepIn(<<x>>, Harmless(Lines)) = Append(KeepIn(<< >>, Harmless(Lines)), x)
    <3>1. PICK e \in Seq(Lines) : e = << >>
      BY <2>1
    <3>2. KeepIn(Append(e, x), Harmless(Lines)) = Append(KeepIn(e, Harmless(Lines)), x)
      BY <2>2, KeepLast
    <3> QED
      BY <2>1, <3>1, <3>2, Zenon
  <2>4. KeepIn(<<x>>, Harmless(Lines)) = <<x>>
    BY <2>1, <2>3, KeepNone
  <2>5. Alike(<<x>>, <<x>>)
    BY DEF Alike
  <2> QED
    BY <2>1, <2>4, <2>5
<1>2. ASSUME NEW msg \in Seq(Lines), NEW x \in Lines, IsMessage(Lines, msg), msg \in Good
      PROVE  Append(msg, x) \in Good
  <2>1. PICK r : r = KeepIn(msg, Harmless(Lines))
    OBVIOUS
  <2>2. r \in Seq(Lines) /\ Alike(msg, r)
    BY <1>2, <2>1, KeepType
  <2>3. PICK q : q = Append(msg, x)
    OBVIOUS
  <2>4. msg # << >> /\ r # << >>
    BY <1>2, <2>2 DEF IsMessage, Alike
  <2>5. /\ q \in Seq(Lines) /\ q # << >> /\ q[1] = msg[1]
        /\ NoBlank(q, 2) <=> NoBlank(msg, 2) /\ x # Blank
        /\ \A names : Fields(q, names) =
              IF NoBlank(msg, 2) /\ x.tag = "header" /\ x.name \in names
              THEN Append(Fields(msg, names), x.value) ELSE Fields(msg, names)
    BY <2>3, <2>4, LineNext
  <2>6. KeepIn(q, Harmless(Lines)) = IF x \in Harmless(Lines) THEN Append(r, x) ELSE r
    BY <2>1, <2>3, KeepLast
  <2>7. CASE x \in Harmless(Lines)
    <3>1. PICK p : p = Append(r, x)
      OBVIOUS
    <3>2. /\ p # << >> /\ p[1] = r[1]
          /\ NoBlank(p, 2) <=> NoBlank(r, 2) /\ x # Blank
          /\ \A names : Fields(p, names) =
                IF NoBlank(r, 2) /\ x.tag = "header" /\ x.name \in names
                THEN Append(Fields(r, names), x.value) ELSE Fields(r, names)
      BY <2>2, <2>4, <3>1, LineNext
    <3>3. Alike(q, p)
      BY <2>2, <2>5, <3>2 DEF Alike
    <3> QED
      BY <2>3, <2>5, <2>6, <2>7, <3>1, <3>3
  <2>8. CASE x \notin Harmless(Lines)
    <3>1. x.tag = "header" /\ x.name \in Credentials
      BY <2>8 DEF Harmless, HasCredentials
    <3>2. x # Blank
      BY <3>1 DEF Blank
    <3>3. \A names : names \cap Credentials = {} => Fields(q, names) = Fields(msg, names)
      BY <2>5, <3>1
    <3>4. Alike(q, r)
      BY <2>2, <2>5, <3>2, <3>3 DEF Alike
    <3> QED
      BY <2>3, <2>5, <2>6, <2>8, <3>4
  <2> QED
    BY <2>7, <2>8
<1>3. \A msg \in Seq(Lines) : IsMessage(Lines, msg) => msg \in Good
  <2> HIDE DEF Good
  <2> QED
    BY <1>1, <1>2, MessageClimb
<1> QED
  BY <1>3

\* What redactSIP keeps, with a filter that does not depend on the message.
LEMMA RedactedIs ==
    ASSUME NEW Lines, NEW msg \in Seq(Lines)
    PROVE  redactSIP(msg) = Append(KeepIn(msg, Harmless(Lines)), Blank)
<1> DEFINE Own == {line \in Range(msg) : ~HasCredentials(line)}
<1>1. ASSUME NEW k \in 1 .. Len(msg) PROVE msg[k] \in Own <=> msg[k] \in Harmless(Lines)
  <2>1. msg[k] \in Lines
    BY ElementOfSeq
  <2>2. Range(msg) = {msg[j] : j \in 1 .. Len(msg)}
    BY RangeEquality
  <2>3. msg[k] \in Range(msg)
    BY <2>2
  <2> QED
    BY <2>1, <2>3 DEF Harmless
<1>2. KeepIn(msg, Own) = KeepIn(msg, Harmless(Lines))
  <2> HIDE DEF Own
  <2> QED
    BY <1>1, KeepSame
<1> QED
  BY <1>2, Zenon DEF redactSIP

\* The text kept of any message, of any lines and any length, is parsed as the
\* message was, and has none of the lines that redactSIP looks for: headers with
\* credentials whose colon comes right after the name (sip.go redactSIP, parseSIP).
THEOREM RedactionIsFaithful ==
    ASSUME NEW Lines, Blank \in Lines, NEW msg \in Seq(Lines), IsMessage(Lines, msg)
    PROVE  /\ parseSIP(redactSIP(msg)) = parseSIP(msg)
           /\ redactSIP(msg) \in Seq(Harmless(Lines)) /\ IsMessage(Lines, redactSIP(msg))
<1>1. PICK r : r = KeepIn(msg, Harmless(Lines))
  OBVIOUS
<1>2. Alike(msg, r)
  BY <1>1, HarmlessAlike
<1>3. r \in Seq(Lines) /\ r \in Seq(Harmless(Lines))
  <2>1. r \in Seq(Lines \cap Harmless(Lines))
    BY <1>1, KeepMembers
  <2>2. Lines \cap Harmless(Lines) = Harmless(Lines)
    BY DEF Harmless
  <2>3. r \in Seq(Lines)
    BY <1>1, KeepType
  <2> QED
    BY <2>1, <2>2, <2>3
<1>4. PICK p : p = Append(r, Blank)
  OBVIOUS
<1>5. r # << >>
  BY <1>2 DEF Alike
<1>6. Blank.tag # "header"
  BY DEF Blank
<1>7. /\ p \in Seq(Lines) /\ p # << >> /\ p[1] = r[1]
      /\ \A names : Fields(p, names) = Fields(r, names)
  BY <1>3, <1>4, <1>5, <1>6, LineNext
<1>8. p[1] = msg[1] /\ \A names : names \cap Credentials = {} => Fields(p, names) = Fields(msg, names)
  BY <1>2, <1>7 DEF Alike
<1>9. parseSIP(p) = parseSIP(msg)
  BY <1>8, SameParse
<1>10. p \in Seq(Harmless(Lines))
  <2>1. Blank \in Harmless(Lines)
    BY <1>6 DEF Harmless, HasCredentials
  <2> QED
    BY <1>3, <1>4, <2>1, AppendProperties
<1>11. redactSIP(msg) = p
  BY <1>1, <1>4, RedactedIs
<1>12. IsMessage(Lines, p)
  BY <1>7, <1>8 DEF IsMessage
<1> QED
  BY <1>9, <1>10, <1>11, <1>12

-----------------------------------------------------------------------------
(***************************************************************************)
(* What a stored response is taken for                                     *)
(***************************************************************************)
\* Line n is a header with a CSeq that has a method.
Named(msg, n) == /\ n > 1 /\ \A k \in 2 .. n : msg[k] # Blank
                 /\ msg[n].tag = "header" /\ msg[n].name = "cseq"
                 /\ CSeqMethod[msg[n].value] # ""

\* The first such line has the method m.
FirstNamed(msg, n, m) == /\ n \in DOMAIN msg /\ Named(msg, n) /\ CSeqMethod[msg[n].value] = m
                         /\ \A k \in 2 .. n - 1 : ~Named(msg, k)

\* The method comes from the first line that names one.
MethodIsFirst(msg, m) == IF m = "" THEN \A n \in DOMAIN msg : ~Named(msg, n)
                         ELSE \E n : FirstNamed(msg, n, m)

\* Which lines of q name a method, if q is msg and x as line l.
NamedAfter(msg, x, q, l) ==
    /\ \A n \in DOMAIN msg : n \in DOMAIN q /\ q[n] = msg[n] /\ (Named(q, n) <=> Named(msg, n))
    /\ \A n \in DOMAIN q : n \in DOMAIN msg \/ n = l
    /\ l \in DOMAIN q /\ q[l] = x
    /\ Named(q, l) <=>
          NoBlank(msg, 2) /\ x.tag = "header" /\ x.name = "cseq" /\ CSeqMethod[x.value] # ""

\* One more line.
LEMMA NamedNext ==
    ASSUME NEW Lines, NEW msg \in Seq(Lines), msg # << >>, NEW x \in Lines
    PROVE  NamedAfter(msg, x, Append(msg, x), Len(msg) + 1)
<1>1. PICK n \in Nat : n = Len(msg) /\ n # 0
  BY LenProperties, EmptySeq
<1>2. PICK q : q = Append(msg, x)
  OBVIOUS
<1>3. q \in Seq(Lines) /\ Len(q) = n + 1 /\ q[n + 1] = x /\ \A k \in 1 .. n : q[k] = msg[k]
  BY <1>1, <1>2, AppendProperties
<1>4. DOMAIN msg = 1 .. n /\ DOMAIN q = 1 .. n + 1
  BY <1>1, <1>3, LenProperties
<1>5. ASSUME NEW j \in 1 .. n
      PROVE  j \in 1 .. n + 1 /\ q[j] = msg[j] /\ (Named(q, j) <=> Named(msg, j))
  <2>1. q[j] = msg[j] /\ j \in 1 .. n + 1
    BY <1>3
  <2>2. \A k \in 2 .. j : q[k] = msg[k]
    <3>1. \A k \in 2 .. j : k \in 1 .. n
      OBVIOUS
    <3> QED
      BY <1>3, <3>1
  <2> QED
    BY <2>1, <2>2 DEF Named
<1>6. Named(q, n + 1) <=> /\ NoBlank(msg, 2) /\ x.tag = "header" /\ x.name = "cseq"
                          /\ CSeqMethod[x.value] # ""
  <2>1. \A k : k \in 2 .. n + 1 <=> k \in 2 .. n \/ k = n + 1
    BY <1>1
  <2>2. \A k \in 2 .. n : q[k] = msg[k]
    <3>1. \A k \in 2 .. n : k \in 1 .. n
      OBVIOUS
    <3> QED
      BY <1>3, <3>1
  <2>3. x.tag = "header" => x # Blank
    BY DEF Blank
  <2>4. n + 1 > 1
    BY <1>1
  <2> QED
    BY <1>1, <1>3, <2>1, <2>2, <2>3, <2>4 DEF Named, NoBlank
<1>7. \A j \in 1 .. n + 1 : j \in 1 .. n \/ j = n + 1
  OBVIOUS
<1>8. n + 1 \in 1 .. n + 1
  OBVIOUS
<1>9. NamedAfter(msg, x, q, n + 1)
  BY <1>3, <1>4, <1>5, <1>6, <1>7, <1>8 DEF NamedAfter
<1> QED
  BY <1>1, <1>2, <1>9

\* A response's method is that of the first CSeq header which has one.
LEMMA MethodOfFirst ==
    ASSUME NEW Lines
    PROVE  \A msg \in Seq(Lines) : IsMessage(Lines, msg) =>
              MethodIsFirst(msg, ResponseMethod(Fields(msg, {"cseq"})))
<1> DEFINE Method(msg) == ResponseMethod(Fields(msg, {"cseq"}))
           Good == {msg \in Seq(Lines) : MethodIsFirst(msg, Method(msg))}
<1>1. ASSUME NEW x \in Lines, x.tag # "header" PROVE <<x>> \in Good
  <2>1. <<x>> \in Seq(Lines) /\ DOMAIN <<x>> = 1 .. 1
    OBVIOUS
  <2>2. Method(<<x>>) = ""
    BY LineFirst, MethodNone
  <2>3. \A n \in 1 .. 1 : ~(n > 1)
    OBVIOUS
  <2>4. \A n \in DOMAIN <<x>> : ~Named(<<x>>, n)
    BY <2>1, <2>3 DEF Named
  <2>5. MethodIsFirst(<<x>>, "")
    BY <2>4 DEF MethodIsFirst
  <2> QED
    BY <2>1, <2>2, <2>5
<1>2. ASSUME NEW msg \in Seq(Lines), NEW x \in Lines, IsMessage(Lines, msg), msg \in Good
      PROVE  Append(msg, x) \in Good
  <2>1. PICK q : q = Append(msg, x)
    OBVIOUS
  <2>2. msg # << >>
    BY <1>2 DEF IsMessage
  <2>3. PICK l : l = Len(msg) + 1
    OBVIOUS
  <2>4. /\ \A n \in DOMAIN msg : n \in DOMAIN q /\ q[n] = msg[n] /\ (Named(q, n) <=> Named(msg, n))
        /\ \A n \in DOMAIN q : n \in DOMAIN msg \/ n = l
        /\ l \in DOMAIN q /\ q[l] = x
        /\ Named(q, l) <=>
              NoBlank(msg, 2) /\ x.tag = "header" /\ x.name = "cseq" /\ CSeqMethod[x.value] # ""
    <3>1. NamedAfter(msg, x, q, l)
      BY <2>1, <2>2, <2>3, NamedNext
    <3> QED
      BY <3>1 DEF NamedAfter
  <2>5. /\ q \in Seq(Lines) /\ Fields(msg, {"cseq"}) \in Seq(ValuesIn(Lines))
        /\ Fields(q, {"cseq"}) =
              IF NoBlank(msg, 2) /\ x.tag = "header" /\ x.name \in {"cseq"}
              THEN Append(Fields(msg, {"cseq"}), x.value) ELSE Fields(msg, {"cseq"})
    BY <2>1, <2>2, LineNext
  <2>6. x.value \in ValuesIn(Lines)
    BY DEF ValuesIn
  <2>7. ResponseMethod(Append(Fields(msg, {"cseq"}), x.value)) =
           IF Method(msg) # "" THEN Method(msg) ELSE CSeqMethod[x.value]
    BY <2>5, <2>6, MethodNext
  <2>8. DOMAIN msg = 1 .. l - 1 /\ l \in Nat
    BY <2>3, LenProperties
  <2>9. PICK m : m = Method(msg)
    OBVIOUS
  <2>10. MethodIsFirst(msg, m)
    BY <1>2, <2>9
  <2>11. CASE m # ""
    <3>1. Method(q) = m
      BY <2>5, <2>7, <2>9, <2>11
    <3>2. PICK n : FirstNamed(msg, n, m)
      BY <2>10, <2>11 DEF MethodIsFirst
    <3>3. n \in 1 .. l - 1 /\ \A k \in 2 .. n - 1 : k \in DOMAIN msg
      BY <2>8, <3>2 DEF FirstNamed
    <3>4. FirstNamed(q, n, m)
      BY <2>4, <3>2, <3>3 DEF FirstNamed
    <3>5. MethodIsFirst(q, m)
      BY <2>11, <3>4 DEF MethodIsFirst
    <3> QED
      BY <2>1, <2>5, <3>1, <3>5
  <2>12. CASE m = ""
    <3>1. \A n \in DOMAIN msg : ~Named(msg, n)
      BY <2>10, <2>12 DEF MethodIsFirst
    <3>2. CASE Named(q, l)
      <4>1. Method(q) = CSeqMethod[x.value] /\ CSeqMethod[x.value] # ""
        BY <2>4, <2>5, <2>7, <2>9, <2>12, <3>2
      <4>2. \A k \in 2 .. l - 1 : k \in DOMAIN msg
        BY <2>8
      <4>3. FirstNamed(q, l, CSeqMethod[x.value])
        BY <2>4, <3>1, <3>2, <4>2 DEF FirstNamed
      <4>4. MethodIsFirst(q, CSeqMethod[x.value])
        BY <4>1, <4>3 DEF MethodIsFirst
      <4> QED
        BY <2>1, <2>5, <4>1, <4>4
    <3>3. CASE ~Named(q, l)
      <4>1. Method(q) = ""
        BY <2>4, <2>5, <2>7, <2>9, <2>12, <3>3
      <4>2. \A n \in DOMAIN q : ~Named(q, n)
        BY <2>4, <3>1, <3>3
      <4>3. MethodIsFirst(q, "")
        BY <4>2 DEF MethodIsFirst
      <4> QED
        BY <2>1, <2>5, <4>1, <4>3
    <3> QED
      BY <3>2, <3>3
  <2> QED
    BY <2>11, <2>12
<1>3. \A msg \in Seq(Lines) : IsMessage(Lines, msg) => msg \in Good
  <2> HIDE DEF Good
  <2> QED
    BY <1>1, <1>2, MessageClimb
<1> QED
  BY <1>3

\* A message counts as the answer of its call exactly when it is a response with
\* a status from 200 to 299 and the first CSeq with a method says INVITE; the
\* stored text counts as the message did (sip.go parseSIP, makeRecord).
THEOREM ClassifiedByFirstCSeq ==
    ASSUME NEW Lines, Blank \in Lines, NEW msg \in Seq(Lines), IsMessage(Lines, msg)
    PROVE  /\ IsAnswered(makeRecord(msg)) <=>
                 /\ msg[1].tag = "response" /\ msg[1].status >= 200 /\ msg[1].status < 300
                 /\ \E n : FirstNamed(msg, n, "INVITE")
           /\ IsAnswered(makeRecord(makeRecord(msg).raw)) <=> IsAnswered(makeRecord(msg))
<1>1. PICK info : info = parseSIP(msg)
  OBVIOUS
<1>2. PICK m : m = ResponseMethod(Fields(msg, {"cseq"}))
  OBVIOUS
<1>3. MethodIsFirst(msg, m)
  BY <1>2, MethodOfFirst
<1>4. /\ info.kind = "response" <=> msg[1].tag = "response"
      /\ msg[1].tag = "response" => info.status = msg[1].status /\ info.method = m
  <2>1. info.kind = IF msg[1].tag = "response" THEN "response" ELSE "request"
    BY <1>1 DEF parseSIP
  <2>2. msg[1].tag = "response" => info.status = msg[1].status
    BY <1>1 DEF parseSIP
  <2>3. msg[1].tag = "response" => info.method = m
    BY <1>1, <1>2 DEF parseSIP, Fields
  <2> QED
    BY <2>1, <2>2, <2>3
<1>5. \A r : IsAnswered(makeRecord(r)) <=>
               /\ parseSIP(r).method = "INVITE" /\ parseSIP(r).kind = "response"
               /\ parseSIP(r).status >= 200 /\ parseSIP(r).status < 300
  BY DEF IsAnswered, makeRecord, BaseMethod, MethodColumn
<1>6. m = "INVITE" <=> \E n : FirstNamed(msg, n, "INVITE")
  <2>1. ASSUME m = "INVITE" PROVE \E n : FirstNamed(msg, n, "INVITE")
    BY <1>3, <2>1 DEF MethodIsFirst
  <2>2. ASSUME NEW n, FirstNamed(msg, n, "INVITE") PROVE m = "INVITE"
    <3>1. m # ""
      BY <1>3, <2>2 DEF MethodIsFirst, FirstNamed
    <3>2. PICK j : FirstNamed(msg, j, m)
      BY <1>3, <3>1 DEF MethodIsFirst
    <3>3. n \in Nat /\ j \in Nat /\ n > 1 /\ j > 1
      <4>1. DOMAIN msg = 1 .. Len(msg) /\ Len(msg) \in Nat
        BY LenProperties
      <4>2. n \in DOMAIN msg /\ j \in DOMAIN msg /\ n > 1 /\ j > 1
        BY <2>2, <3>2, Zenon DEF FirstNamed, Named
      <4> QED
        BY <4>1, <4>2
    <3>4. ~(n < j)
      <4>1. n < j => n \in 2 .. j - 1
        BY <3>3
      <4> QED
        BY <2>2, <3>2, <4>1 DEF FirstNamed
    <3>5. ~(j < n)
      <4>1. j < n => j \in 2 .. n - 1
        BY <3>3
      <4> QED
        BY <2>2, <3>2, <4>1 DEF FirstNamed
    <3>6. n = j
      BY <3>3, <3>4, <3>5
    <3> QED
      BY <2>2, <3>2, <3>6 DEF FirstNamed
  <2> QED
    BY <2>1, <2>2
<1>7. IsAnswered(makeRecord(msg)) <=>
         /\ msg[1].tag = "response" /\ msg[1].status >= 200 /\ msg[1].status < 300
         /\ \E n : FirstNamed(msg, n, "INVITE")
  BY <1>1, <1>4, <1>5, <1>6
<1>8. makeRecord(msg).raw = redactSIP(msg)
  BY DEF makeRecord
<1>9. parseSIP(redactSIP(msg)) = parseSIP(msg)
  BY RedactionIsFaithful
<1> QED
  BY <1>5, <1>7, <1>8, <1>9

-----------------------------------------------------------------------------
(***************************************************************************)
(* An echo answers its request                                             *)
(***************************************************************************)
\* The value that counts under some names.
Final(msg, names) == LastOf(Fields(msg, names))

\* A message among whose headers one more would be, and what it says.
Says(Lines, msg, first, id, from, to, cseq) ==
    /\ msg \in Seq(Lines) /\ msg # << >> /\ NoBlank(msg, 2) /\ msg[1] = first
    /\ Final(msg, {"call-id", "i"}) = id /\ Final(msg, {"cseq"}) = cseq
    /\ Final(msg, {"from", "f"}) = from /\ Final(msg, {"to", "t"}) = to

\* A first line says nothing yet.
LEMMA SaysFirst ==
    ASSUME NEW Lines, NEW x \in Lines
    PROVE  Says(Lines, <<x>>, x, "", "", "", "")
<1>1. <<x>> \in Seq(Lines) /\ <<x>> # << >> /\ <<x>>[1] = x
  OBVIOUS
<1>2. NoBlank(<<x>>, 2) /\ \A names : Fields(<<x>>, names) = << >>
  BY LineFirst
<1>3. \A names : Final(<<x>>, names) = ""
  BY <1>2 DEF Final, LastOf
<1> QED
  BY <1>1, <1>2, <1>3 DEF Says

\* One more header replaces what an earlier one said.
LEMMA SaysNext ==
    ASSUME NEW Lines, NEW msg, NEW first, NEW id, NEW from, NEW to, NEW cseq,
           Says(Lines, msg, first, id, from, to, cseq),
           NEW name, NEW value, Header(name, value) \in Lines
    PROVE  Says(Lines, Append(msg, Header(name, value)), first,
                IF name \in {"call-id", "i"} THEN value ELSE id,
                IF name \in {"from", "f"} THEN value ELSE from,
                IF name \in {"to", "t"} THEN value ELSE to,
                IF name \in {"cseq"} THEN value ELSE cseq)
<1>1. PICK x \in Lines : x = Header(name, value)
  OBVIOUS
<1>2. x.tag = "header" /\ x.name = name /\ x.value = value /\ x # Blank
  BY <1>1 DEF Header, Blank
<1>3. PICK q : q = Append(msg, x)
  OBVIOUS
<1>4. msg \in Seq(Lines) /\ msg # << >> /\ NoBlank(msg, 2) /\ msg[1] = first
  BY DEF Says
<1>5. /\ q \in Seq(Lines) /\ q # << >> /\ q[1] = msg[1]
      /\ NoBlank(q, 2) <=> NoBlank(msg, 2) /\ x # Blank
  BY <1>3, <1>4, LineNext
<1>6. ASSUME NEW names
      PROVE  Final(q, names) = IF name \in names THEN value ELSE Final(msg, names)
  <2>1. PICK v : v = Fields(msg, names)
    OBVIOUS
  <2>2. v \in Seq(ValuesIn(Lines))
    BY <1>4, <2>1, LineNext
  <2>3. Fields(q, names) = IF NoBlank(msg, 2) /\ x.tag = "header" /\ x.name \in names
                           THEN Append(Fields(msg, names), x.value) ELSE Fields(msg, names)
    BY <1>3, <1>4, LineNext
  <2>4. Fields(q, names) = IF name \in names THEN Append(v, value) ELSE v
    BY <1>2, <1>4, <2>1, <2>3
  <2>5. value \in ValuesIn(Lines)
    BY <1>2 DEF ValuesIn
  <2>6. LastOf(Append(v, value)) = value
    BY <2>2, <2>5, LastValueNext
  <2> QED
    BY <2>1, <2>4, <2>6 DEF Final
<1>7. /\ Final(q, {"call-id", "i"}) = IF name \in {"call-id", "i"} THEN value ELSE id
      /\ Final(q, {"from", "f"}) = IF name \in {"from", "f"} THEN value ELSE from
      /\ Final(q, {"to", "t"}) = IF name \in {"to", "t"} THEN value ELSE to
      /\ Final(q, {"cseq"}) = IF name \in {"cseq"} THEN value ELSE cseq
  BY <1>6, Zenon DEF Says
<1>8. q \in Seq(Lines) /\ q # << >> /\ NoBlank(q, 2) /\ q[1] = first
  BY <1>2, <1>4, <1>5
<1> QED
  BY <1>1, <1>3, <1>7, <1>8, Zenon DEF Says

\* Eight entries, one after another.
LEMMA EightAppended ==
    ASSUME NEW a, NEW b, NEW c, NEW d, NEW e, NEW f, NEW g, NEW h
    PROVE  <<a, b, c, d, e, f, g, h>> =
              Append(Append(Append(Append(Append(Append(Append(<<a>>, b), c), d), e), f), g), h)
  OBVIOUS

\* The end of the answer.
LEMMA TuplesAppend ==
    ASSUME NEW T, NEW s \in Seq(T), NEW o \in T, NEW y \in T, NEW z \in T
    PROVE  /\ s \o << >> \o <<y, z>> = Append(Append(s, y), z)
           /\ s \o <<o>> \o <<y, z>> = Append(Append(Append(s, o), y), z)
  OBVIOUS

\* What the answer says, from the values that buildEcho writes into it.
EchoText(status, via, from, to, id, cseq, options) ==
    <<[tag |-> "response", status |-> status], Header("via", via), Header("from", from),
      Header("to", to), Header("call-id", id), Header("cseq", cseq),
      Header("contact", "zaman"), Header("server", "zaman")>>
    \o (IF options THEN <<Header("allow", "methods")>> ELSE << >>)
    \o <<Header("content-length", "0"), Blank>>

\* The answer says what was put into it.
LEMMA EchoSays ==
    ASSUME NEW status, NEW via, NEW from, NEW to, NEW id, NEW cseq, NEW options \in BOOLEAN,
           NEW echo, echo = EchoText(status, via, from, to, id, cseq, options)
    PROVE  /\ echo[1] = [tag |-> "response", status |-> status] /\ echo[2] = Header("via", via)
           /\ Final(echo, {"call-id", "i"}) = id /\ Final(echo, {"cseq"}) = cseq
           /\ Final(echo, {"from", "f"}) = from /\ Final(echo, {"to", "t"}) = to
<1> DEFINE r == [tag |-> "response", status |-> status]
           E == {r, Header("via", via), Header("from", from), Header("to", to),
                 Header("call-id", id), Header("cseq", cseq), Header("contact", "zaman"),
                 Header("server", "zaman"), Header("allow", "methods"),
                 Header("content-length", "0"), Blank}
           e2 == Append(<<r>>, Header("via", via))
           e3 == Append(e2, Header("from", from))
           e4 == Append(e3, Header("to", to))
           e5 == Append(e4, Header("call-id", id))
           e6 == Append(e5, Header("cseq", cseq))
           e7 == Append(e6, Header("contact", "zaman"))
           e8 == Append(e7, Header("server", "zaman"))
           e9 == Append(e8, Header("allow", "methods"))
<1>1. /\ r \in E /\ Blank \in E
      /\ Header("via", via) \in E /\ Header("from", from) \in E /\ Header("to", to) \in E
      /\ Header("call-id", id) \in E /\ Header("cseq", cseq) \in E
      /\ Header("contact", "zaman") \in E /\ Header("server", "zaman") \in E
      /\ Header("allow", "methods") \in E /\ Header("content-length", "0") \in E
  OBVIOUS
<1> HIDE DEF r, E
<1>2. Says(E, <<r>>, r, "", "", "", "")
  BY <1>1, SaysFirst
<1> HIDE DEF e2
<1>3. Says(E, e2, r, "", "", "", "")
  BY <1>1, <1>2, SaysNext DEF e2
<1> HIDE DEF e3
<1>4. Says(E, e3, r, "", from, "", "")
  BY <1>1, <1>3, SaysNext DEF e3
<1> HIDE DEF e4
<1>5. Says(E, e4, r, "", from, to, "")
  BY <1>1, <1>4, SaysNext DEF e4
<1> HIDE DEF e5
<1>6. Says(E, e5, r, id, from, to, "")
  BY <1>1, <1>5, SaysNext DEF e5
<1> HIDE DEF e6
<1>7. Says(E, e6, r, id, from, to, cseq)
  BY <1>1, <1>6, SaysNext DEF e6
<1> HIDE DEF e7
<1>8. Says(E, e7, r, id, from, to, cseq)
  BY <1>1, <1>7, SaysNext DEF e7
<1> HIDE DEF e8
<1>9. Says(E, e8, r, id, from, to, cseq)
  BY <1>1, <1>8, SaysNext DEF e8
<1> HIDE DEF e9
<1>10. Says(E, e9, r, id, from, to, cseq)
  BY <1>1, <1>9, SaysNext DEF e9
<1> DEFINE ed == IF options THEN e9 ELSE e8
<1>11. Says(E, ed, r, id, from, to, cseq)
  BY <1>9, <1>10
<1> HIDE DEF ed
<1> DEFINE ec == Append(ed, Header("content-length", "0"))
<1>12. Says(E, ec, r, id, from, to, cseq)
  BY <1>1, <1>11, SaysNext
<1> HIDE DEF ec
<1>13. echo = Append(ec, Blank)
  <2>1. <<r, Header("via", via), Header("from", from), Header("to", to),
          Header("call-id", id), Header("cseq", cseq), Header("contact", "zaman"),
          Header("server", "zaman")>> =
           Append(Append(Append(Append(Append(Append(Append(<<r>>, Header("via", via)),
              Header("from", from)), Header("to", to)), Header("call-id", id)),
              Header("cseq", cseq)), Header("contact", "zaman")), Header("server", "zaman"))
    BY ONLY EightAppended
  <2>2. Append(Append(Append(Append(Append(Append(Append(<<r>>, Header("via", via)),
           Header("from", from)), Header("to", to)), Header("call-id", id)),
           Header("cseq", cseq)), Header("contact", "zaman")), Header("server", "zaman")) = e8
    BY Zenon DEF e2, e3, e4, e5, e6, e7, e8
  <2>4. e8 = <<r, Header("via", via), Header("from", from), Header("to", to),
               Header("call-id", id), Header("cseq", cseq), Header("contact", "zaman"),
               Header("server", "zaman")>>
    BY <2>1, <2>2, Zenon
  <2>5. echo = e8 \o (IF options THEN <<Header("allow", "methods")>> ELSE << >>)
                  \o <<Header("content-length", "0"), Blank>>
    BY <2>4, Zenon DEF EchoText, r
  <2>6. e8 \in Seq(E)
    BY <1>9 DEF Says
  <2>7. /\ e8 \o << >> \o <<Header("content-length", "0"), Blank>> =
              Append(Append(e8, Header("content-length", "0")), Blank)
        /\ e8 \o <<Header("allow", "methods")>> \o <<Header("content-length", "0"), Blank>> =
              Append(Append(e9, Header("content-length", "0")), Blank)
    BY <1>1, <2>6, TuplesAppend DEF e9
  <2>8. CASE options
    BY <2>5, <2>7, <2>8, Zenon DEF ec, ed
  <2>9. CASE ~options
    BY <2>5, <2>7, <2>9, Zenon DEF ec, ed
  <2> QED
    BY <2>8, <2>9
<1>14. ec \in Seq(E) /\ ec # << >> /\ ec[1] = r
  BY <1>12 DEF Says
<1>15. Blank.tag # "header"
  BY DEF Blank
<1>16. echo[1] = ec[1] /\ \A names : Fields(echo, names) = Fields(ec, names)
  BY <1>1, <1>13, <1>14, <1>15, LineNext
<1>17. \A names : Final(echo, names) = Final(ec, names)
  BY <1>16 DEF Final
<1>18. echo[2] = Header("via", via)
  <2>1. e2 \in Seq(E) /\ e2[2] = Header("via", via) /\ Len(e2) = 2
    BY <1>1 DEF e2
  <2>2. ASSUME NEW s \in Seq(E), Len(s) >= 2, NEW x \in E
        PROVE  /\ Append(s, x) \in Seq(E) /\ Len(Append(s, x)) >= 2
               /\ Append(s, x)[2] = s[2]
    <3>1. Len(s) \in Nat /\ 2 \in 1 .. Len(s)
      BY <2>2, LenProperties
    <3> QED
      BY <3>1, AppendProperties
  <2>3. e3 \in Seq(E) /\ Len(e3) >= 2 /\ e3[2] = e2[2]
    <3>1. Len(e2) >= 2
      BY <2>1
    <3> QED
      BY <1>1, <2>1, <2>2, <3>1 DEF e3
  <2>4. e4 \in Seq(E) /\ Len(e4) >= 2 /\ e4[2] = e3[2]
    BY <1>1, <2>3, <2>2 DEF e4
  <2>5. e5 \in Seq(E) /\ Len(e5) >= 2 /\ e5[2] = e4[2]
    BY <1>1, <2>4, <2>2 DEF e5
  <2>6. e6 \in Seq(E) /\ Len(e6) >= 2 /\ e6[2] = e5[2]
    BY <1>1, <2>5, <2>2 DEF e6
  <2>7. e7 \in Seq(E) /\ Len(e7) >= 2 /\ e7[2] = e6[2]
    BY <1>1, <2>6, <2>2 DEF e7
  <2>8. e8 \in Seq(E) /\ Len(e8) >= 2 /\ e8[2] = e7[2]
    BY <1>1, <2>7, <2>2 DEF e8
  <2>9. e9 \in Seq(E) /\ Len(e9) >= 2 /\ e9[2] = e8[2]
    BY <1>1, <2>8, <2>2 DEF e9
  <2>10. ed \in Seq(E) /\ Len(ed) >= 2 /\ ed[2] = e8[2]
    BY <2>8, <2>9 DEF ed
  <2>11. ec \in Seq(E) /\ Len(ec) >= 2 /\ ec[2] = e8[2]
    BY <1>1, <2>10, <2>2 DEF ec
  <2>12. echo[2] = ec[2]
    BY <1>1, <1>13, <2>11, <2>2
  <2> QED
    BY <2>1, <2>3, <2>4, <2>5, <2>6, <2>7, <2>8, <2>11, <2>12
<1>19. echo[1] = [tag |-> "response", status |-> status]
  BY <1>14, <1>16 DEF r
<1> QED
  BY <1>12, <1>17, <1>18, <1>19 DEF Says

\* From the first line on there are the same headers, if that line is not blank.
LEMMA SameFromFirst ==
    ASSUME NEW Lines
    PROVE  \A msg \in Seq(Lines) : IsMessage(Lines, msg) /\ msg[1] # Blank =>
              HeaderLines(msg, 1) = HeaderLines(msg, 2)
<1> DEFINE Same(msg) == /\ HeaderLines(msg, 1) = HeaderLines(msg, 2)
                        /\ NoBlank(msg, 1) <=> NoBlank(msg, 2)
           Good == {msg \in Seq(Lines) : msg[1] # Blank => Same(msg)}
<1>1. ASSUME NEW x \in Lines, x.tag # "header" PROVE <<x>> \in Good
  <2>1. PICK e \in Seq(Lines) : e = << >>
    BY EmptySeq
  <2>2. <<x>> = Append(e, x) /\ <<x>> \in Seq(Lines) /\ <<x>>[1] = x /\ Len(e) = 0 /\ Len(<<x>>) = 1
    BY <2>1
  <2>3. HeaderLines(e, 1) = << >> /\ NoBlank(e, 1)
    <3>1. 1 \in Nat \ {0} /\ Len(e) = 1 - 1
      BY <2>2
    <3> QED
      BY <3>1, HeadersFirst
  <2>4. 1 \in Nat \ {0} /\ 1 <= Len(e) + 1
    BY <2>2
  <2>5. HeaderLines(Append(e, x), 1) = << >>
    BY <1>1, <2>3, <2>4, HeadersNext
  <2>6. NoBlank(Append(e, x), 1) <=> x # Blank
    BY <2>3, <2>4, BlankNext
  <2>7. HeaderLines(<<x>>, 2) = << >> /\ NoBlank(<<x>>, 2)
    <3>1. 2 \in Nat \ {0} /\ Len(<<x>>) = 2 - 1
      BY <2>2
    <3> QED
      BY <2>2, <3>1, HeadersFirst
  <2>8. x # Blank => Same(<<x>>)
    BY <2>2, <2>5, <2>6, <2>7, Zenon
  <2> QED
    BY <2>2, <2>8
<1>2. ASSUME NEW msg \in Seq(Lines), NEW x \in Lines, IsMessage(Lines, msg), msg \in Good
      PROVE  Append(msg, x) \in Good
  <2>1. PICK q : q = Append(msg, x)
    OBVIOUS
  <2>2. msg # << >>
    BY <1>2 DEF IsMessage
  <2>3. q \in Seq(Lines) /\ q[1] = msg[1]
    BY <2>1, <2>2, LineNext
  <2>4. 1 \in Nat \ {0} /\ 2 \in Nat \ {0} /\ 1 <= Len(msg) + 1 /\ 2 <= Len(msg) + 1
    <3>1. Len(msg) \in Nat /\ Len(msg) # 0
      BY <2>2, LenProperties, EmptySeq
    <3> QED
      BY <3>1
  <2>5. /\ HeaderLines(q, 1) = IF NoBlank(msg, 1) /\ x.tag = "header"
                               THEN Append(HeaderLines(msg, 1), x) ELSE HeaderLines(msg, 1)
        /\ HeaderLines(q, 2) = IF NoBlank(msg, 2) /\ x.tag = "header"
                               THEN Append(HeaderLines(msg, 2), x) ELSE HeaderLines(msg, 2)
    BY <2>1, <2>4, HeadersNext
  <2>6. /\ NoBlank(q, 1) <=> NoBlank(msg, 1) /\ x # Blank
        /\ NoBlank(q, 2) <=> NoBlank(msg, 2) /\ x # Blank
    BY <2>1, <2>4, BlankNext
  <2>7. ASSUME q[1] # Blank PROVE Same(q)
    <3>1. Same(msg)
      BY <1>2, <2>3, <2>7
    <3> QED
      BY <2>5, <2>6, <3>1
  <2> QED
    BY <2>1, <2>3, <2>7
<1>3. \A msg \in Seq(Lines) : IsMessage(Lines, msg) => msg \in Good
  <2> HIDE DEF Good
  <2> QED
    BY <1>1, <1>2, MessageClimb
<1> QED
  BY <1>3

\* After a blank first line there are none.
LEMMA NoneAfterBlank ==
    ASSUME NEW Lines
    PROVE  \A msg \in Seq(Lines) : IsMessage(Lines, msg) /\ msg[1] = Blank =>
              HeaderLines(msg, 1) = << >>
<1> DEFINE None(msg) == HeaderLines(msg, 1) = << >> /\ ~NoBlank(msg, 1)
           Good == {msg \in Seq(Lines) : msg[1] = Blank => None(msg)}
<1>1. ASSUME NEW x \in Lines, x.tag # "header" PROVE <<x>> \in Good
  <2>1. PICK e \in Seq(Lines) : e = << >>
    BY EmptySeq
  <2>2. <<x>> = Append(e, x) /\ <<x>> \in Seq(Lines) /\ <<x>>[1] = x /\ Len(e) = 0
    BY <2>1
  <2>3. 1 \in Nat \ {0} /\ Len(e) = 1 - 1 /\ 1 <= Len(e) + 1
    BY <2>2
  <2>4. HeaderLines(e, 1) = << >>
    BY <2>3, HeadersFirst
  <2>5. HeaderLines(Append(e, x), 1) = << >>
    BY <1>1, <2>3, <2>4, HeadersNext
  <2>6. NoBlank(Append(e, x), 1) => x # Blank
    BY <2>3, BlankNext
  <2>7. x = Blank => None(<<x>>)
    BY <2>2, <2>5, <2>6, Zenon
  <2> QED
    BY <2>2, <2>7
<1>2. ASSUME NEW msg \in Seq(Lines), NEW x \in Lines, IsMessage(Lines, msg), msg \in Good
      PROVE  Append(msg, x) \in Good
  <2>1. PICK q : q = Append(msg, x)
    OBVIOUS
  <2>2. msg # << >>
    BY <1>2 DEF IsMessage
  <2>3. q \in Seq(Lines) /\ q[1] = msg[1]
    BY <2>1, <2>2, LineNext
  <2>4. 1 \in Nat \ {0} /\ 1 <= Len(msg) + 1
    <3>1. Len(msg) \in Nat
      BY LenProperties
    <3> QED
      BY <3>1
  <2>5. HeaderLines(q, 1) = IF NoBlank(msg, 1) /\ x.tag = "header"
                            THEN Append(HeaderLines(msg, 1), x) ELSE HeaderLines(msg, 1)
    BY <2>1, <2>4, HeadersNext
  <2>6. NoBlank(q, 1) <=> NoBlank(msg, 1) /\ x # Blank
    BY <2>1, <2>4, BlankNext
  <2>7. ASSUME q[1] = Blank PROVE None(q)
    <3>1. None(msg)
      BY <1>2, <2>3, <2>7
    <3> QED
      BY <2>5, <2>6, <3>1
  <2> QED
    BY <2>1, <2>3, <2>7
<1>3. \A msg \in Seq(Lines) : IsMessage(Lines, msg) => msg \in Good
  <2> HIDE DEF Good
  <2> QED
    BY <1>1, <1>2, MessageClimb
<1> QED
  BY <1>3

\* The headers that count in an answer.
Answered == {"callID", "from", "to", "cseq"}

\* Any request is answered with a response that has its Call-ID, From, To and
\* CSeq and goes back along its topmost Via; one after a blank line is answered
\* with empty headers, and a response is not answered (sip.go buildEcho).
THEOREM EchoIsAnswer ==
    ASSUME NEW Lines, NEW msg \in Seq(Lines), IsMessage(Lines, msg)
    PROVE  LET echo   == buildEcho(msg)
               answer == parseSIP(echo)
               vias   == Values(HeaderLines(msg, 1), {"via", "v"})
           IN  /\ msg[1].tag = "response" => echo = << >>
               /\ msg[1].tag # "response" =>
                     /\ answer.kind = "response"
                     /\ msg[1] # Blank =>
                           /\ \A f \in Answered : answer[f] = parseSIP(msg)[f]
                           /\ vias # << >> /\ vias[1] # "" => echo[2].value = vias[1]
                     /\ msg[1] = Blank => answer.callID = "" /\ answer.cseq = ""
<1>1. PICK info : info = parseSIP(msg)
  OBVIOUS
<1>2. info.kind = IF msg[1].tag = "response" THEN "response" ELSE "request"
  BY <1>1 DEF parseSIP
<1>3. ASSUME msg[1].tag = "response" PROVE buildEcho(msg) = << >>
  BY <1>1, <1>2, <1>3 DEF buildEcho
<1>4. SUFFICES ASSUME msg[1].tag # "response"
      PROVE  LET echo   == buildEcho(msg)
                 answer == parseSIP(echo)
                 vias   == Values(HeaderLines(msg, 1), {"via", "v"})
             IN  /\ answer.kind = "response"
                 /\ msg[1] # Blank =>
                       /\ \A f \in Answered : answer[f] = parseSIP(msg)[f]
                       /\ vias # << >> /\ vias[1] # "" => echo[2].value = vias[1]
                 /\ msg[1] = Blank => answer.callID = "" /\ answer.cseq = ""
  BY <1>3, Zenon
<1>5. info.kind = "request"
  BY <1>2, <1>4
<1>6. PICK headers : headers = HeaderLines(msg, 1)
  OBVIOUS
<1>7. PICK vias : vias = Values(headers, {"via", "v"})
  OBVIOUS
<1>8. PICK status : status = IF info.method = "REGISTER" THEN 401 ELSE 200
  OBVIOUS
<1>9. PICK options \in BOOLEAN : options = (info.method = "OPTIONS")
  OBVIOUS
<1>10. PICK id : id = LastOf(Values(headers, {"call-id", "i"}))
  OBVIOUS
<1>11. PICK from : from = LastOf(Values(headers, {"from", "f"}))
  OBVIOUS
<1>12. PICK to : to = LastOf(Values(headers, {"to", "t"}))
  OBVIOUS
<1>13. PICK cseq : cseq = LastOf(Values(headers, {"cseq"}))
  OBVIOUS
<1>14. PICK echo : echo = EchoText(status, FirstVia(vias), from, to, id, cseq, options)
  OBVIOUS
<1>15. buildEcho(msg) = echo
  <2>1. ~(info.kind # "request")
    BY <1>5
  <2>2. buildEcho(msg) =
           <<[tag |-> "response", status |-> status], Header("via", FirstVia(vias)),
             Header("from", from), Header("to", to), Header("call-id", id),
             Header("cseq", cseq), Header("contact", "zaman"), Header("server", "zaman")>>
           \o (IF info.method = "OPTIONS" THEN <<Header("allow", "methods")>> ELSE << >>)
           \o <<Header("content-length", "0"), Blank>>
    <3>1. buildEcho(msg) =
             IF parseSIP(msg).kind # "request" THEN << >>
             ELSE <<[tag |-> "response",
                     status |-> IF parseSIP(msg).method = "REGISTER" THEN 401 ELSE 200],
                    Header("via", FirstVia(Values(HeaderLines(msg, 1), {"via", "v"}))),
                    Header("from", LastOf(Values(HeaderLines(msg, 1), {"from", "f"}))),
                    Header("to", LastOf(Values(HeaderLines(msg, 1), {"to", "t"}))),
                    Header("call-id", LastOf(Values(HeaderLines(msg, 1), {"call-id", "i"}))),
                    Header("cseq", LastOf(Values(HeaderLines(msg, 1), {"cseq"}))),
                    Header("contact", "zaman"), Header("server", "zaman")>>
                  \o (IF parseSIP(msg).method = "OPTIONS" THEN <<Header("allow", "methods")>>
                      ELSE << >>)
                  \o <<Header("content-length", "0"), Blank>>
      BY Zenon DEF buildEcho
    <3>2. buildEcho(msg) =
             IF info.kind # "request" THEN << >>
             ELSE <<[tag |-> "response", status |-> status], Header("via", FirstVia(vias)),
                    Header("from", from), Header("to", to), Header("call-id", id),
                    Header("cseq", cseq), Header("contact", "zaman"), Header("server", "zaman")>>
                  \o (IF info.method = "OPTIONS" THEN <<Header("allow", "methods")>> ELSE << >>)
                  \o <<Header("content-length", "0"), Blank>>
      BY <1>1, <1>6, <1>7, <1>8, <1>10, <1>11, <1>12, <1>13, <3>1, ZenonT(40)
    <3> QED
      BY <2>1, <3>2, Zenon
  <2>3. (IF info.method = "OPTIONS" THEN <<Header("allow", "methods")>> ELSE << >>) =
           IF options THEN <<Header("allow", "methods")>> ELSE << >>
    BY <1>9
  <2> QED
    BY <1>14, <2>2, <2>3, Zenon DEF EchoText
<1>16. /\ echo[1] = [tag |-> "response", status |-> status]
       /\ echo[2] = Header("via", FirstVia(vias))
       /\ Final(echo, {"call-id", "i"}) = id /\ Final(echo, {"cseq"}) = cseq
       /\ Final(echo, {"from", "f"}) = from /\ Final(echo, {"to", "t"}) = to
  BY <1>14, EchoSays
<1>17. PICK answer : answer = parseSIP(echo)
  OBVIOUS
<1>18. answer.kind = "response"
  <2>1. echo[1].tag = "response"
    BY <1>16
  <2>2. answer.kind = IF echo[1].tag = "response" THEN "response" ELSE "request"
    BY <1>17 DEF parseSIP
  <2> QED
    BY <2>1, <2>2
<1>19. /\ answer.callID = id /\ answer.from = from /\ answer.to = to /\ answer.cseq = cseq
  BY <1>16, <1>17 DEF parseSIP, Final, Fields
<1>20. ASSUME msg[1] # Blank
       PROVE  /\ \A f \in Answered : answer[f] = info[f]
              /\ vias # << >> /\ vias[1] # "" => echo[2].value = vias[1]
  <2>1. headers = HeaderLines(msg, 2)
    BY <1>6, <1>20, SameFromFirst
  <2>2. info.callID = id /\ info.from = from /\ info.to = to /\ info.cseq = cseq
    BY <1>1, <1>10, <1>11, <1>12, <1>13, <2>1 DEF parseSIP
  <2>3. \A f \in Answered : answer[f] = info[f]
    BY <1>19, <2>2 DEF Answered
  <2>4. ASSUME vias # << >>, vias[1] # "" PROVE echo[2].value = vias[1]
    <3>1. headers \in Seq(HeadersIn(Lines))
      <4>1. Len(msg) \in Nat
        BY LenProperties
      <4>2. 1 \in Nat \ {0} /\ 1 <= Len(msg) + 1
        BY <4>1
      <4> QED
        BY <1>6, <4>2, HeadersType
    <3>2. vias \in Seq(ValuesIn(NamedIn(HeadersIn(Lines), {"via", "v"})))
      BY <1>7, <3>1, ValuesType
    <3>3. FirstVia(vias) = vias[1]
      BY <2>4, <3>2, FirstViaIs
    <3> QED
      BY <1>16, <3>3 DEF Header
  <2> QED
    BY <2>3, <2>4
<1>21. ASSUME msg[1] = Blank PROVE answer.callID = "" /\ answer.cseq = ""
  <2>1. headers = << >>
    BY <1>6, <1>21, NoneAfterBlank
  <2>2. id = "" /\ cseq = ""
    BY <1>10, <1>13, <2>1, ValuesNone DEF LastOf
  <2> QED
    BY <1>19, <2>2
<1> QED
  BY <1>1, <1>6, <1>7, <1>15, <1>17, <1>18, <1>20, <1>21, Zenon

-----------------------------------------------------------------------------
(***************************************************************************)
(* The properties of the run                                               *)
(***************************************************************************)
\* The lines of the run's messages.
AllLines == FirstLines \cup LaterLines

\* A message under construction begins with one of the first lines.
SipInv == kind = "sip" =>
             \/ input = << >>
             \/ IsMessage(AllLines, input) /\ input[1] \in FirstLines

\* A message under construction starts with a first line.
LEMMA SipInputs == PureSpec => []SipInv
<1>1. PureInit => SipInv
  BY DEF PureInit, SipInv
<1>2. SipInv /\ [PureNext]_<<kind, input>> => SipInv'
  <2>1. SUFFICES ASSUME SipInv, [PureNext]_<<kind, input>> PROVE SipInv'
    OBVIOUS
  <2>2. CASE AddLine
    <3>1. kind = "sip" /\ kind' = kind
      BY <2>2 DEF AddLine
    <3>2. CASE input = << >>
      <4>1. PICK x \in FirstLines : input' = Append(input, x)
        BY <2>2, <3>2 DEF AddLine
      <4>2. input' = <<x>>
        BY <3>2, <4>1
      <4>3. x.tag # "header" /\ x \in AllLines
        BY <4>1 DEF FirstLines, AllLines, Blank
      <4>4. input' \in Seq(AllLines) /\ input' # << >> /\ input'[1] = x
        BY <4>2, <4>3
      <4> QED
        BY <4>1, <4>3, <4>4 DEF SipInv, IsMessage
    <3>3. CASE input # << >>
      <4>1. PICK x \in LaterLines : input' = Append(input, x)
        BY <2>2, <3>3 DEF AddLine
      <4>2. IsMessage(AllLines, input) /\ input[1] \in FirstLines
        BY <2>1, <3>1, <3>3 DEF SipInv
      <4>3. x \in AllLines /\ input \in Seq(AllLines)
        BY <4>1, <4>2 DEF AllLines, IsMessage
      <4>4. input' \in Seq(AllLines) /\ input' # << >> /\ input'[1] = input[1]
        BY <3>3, <4>1, <4>3, LineNext
      <4> QED
        BY <4>2, <4>4 DEF SipInv, IsMessage
    <3> QED
      BY <3>2, <3>3
  <2>3. CASE Store \/ AddChunk
    BY <2>3 DEF Store, AddChunk, SipInv
  <2>4. CASE UNCHANGED <<kind, input>>
    BY <2>1, <2>4 DEF SipInv
  <2> QED
    BY <2>1, <2>2, <2>3, <2>4 DEF PureNext
<1> QED
  BY <1>1, <1>2, PTL DEF PureSpec

\* The inputs of the run are messages.
LEMMA SipInputIs ==
    ASSUME SipInv, kind = "sip", input # << >>
    PROVE  /\ input \in Seq(AllLines) /\ IsMessage(AllLines, input) /\ Blank \in AllLines
           /\ input[1] \in FirstLines
<1>1. Blank \in AllLines
  BY DEF AllLines, FirstLines
<1> QED
  BY <1>1 DEF SipInv, IsMessage

\* The text kept of a message says what the message said and has no header with
\* credentials whose colon comes right after its name, in every state of the run
\* (sip.go redactSIP).
THEOREM RedactionKeepsMeaningAlways == PureSpec => []RedactionKeepsMeaning
<1>1. SipInv => RedactionKeepsMeaning
  <2>1. SUFFICES ASSUME SipInv, kind = "sip", input # << >>
        PROVE  /\ parseSIP(redactSIP(input)) = parseSIP(input)
               /\ \A n \in DOMAIN redactSIP(input) :
                     redactSIP(input)[n].tag = "header" /\ redactSIP(input)[n].tight =>
                        redactSIP(input)[n].name \notin Credentials
    BY Zenon DEF RedactionKeepsMeaning
  <2>2. PICK r : r = redactSIP(input)
    OBVIOUS
  <2>3. parseSIP(r) = parseSIP(input) /\ r \in Seq(Harmless(AllLines))
    BY <2>1, <2>2, SipInputIs, RedactionIsFaithful
  <2>4. \A n \in DOMAIN r : r[n] \in Harmless(AllLines)
    BY <2>3, LenProperties, ElementOfSeq
  <2>5. \A n \in DOMAIN r :
           r[n].tag = "header" /\ r[n].tight => r[n].name \notin Credentials
    BY <2>4 DEF Harmless, HasCredentials
  <2> QED
    BY <2>2, <2>3, <2>5
<1> QED
  BY <1>1, SipInputs, PTL

\* A stored response answers its call exactly when it is a 2xx whose first CSeq
\* with a method is of an INVITE, and so does its stored text (sip.go parseSIP,
\* makeRecord).
THEOREM RecordClassifiesAlways == PureSpec => []RecordClassifies
<1>1. SipInv => RecordClassifies
  <2> SUFFICES ASSUME SipInv, kind = "sip", input # << >>
      PROVE  LET rec    == makeRecord(input)
                 header(n) == n > 1 /\ \A k \in 2 .. n : input[k] # Blank
                 named(n)  == /\ header(n) /\ input[n].tag = "header"
                              /\ input[n].name = "cseq" /\ CSeqMethod[input[n].value] # ""
                 OfInvite  == \E n \in DOMAIN input :
                                 /\ named(n) /\ CSeqMethod[input[n].value] = "INVITE"
                                 /\ \A k \in 2 .. n - 1 : ~named(k)
             IN  /\ IsAnswered(rec) <=>
                       input[1].tag = "response" /\ input[1].status = 200 /\ OfInvite
                 /\ IsAnswered(makeRecord(rec.raw)) <=> IsAnswered(rec)
    BY Zenon DEF RecordClassifies
  <2> DEFINE Head2(n) == n > 1 /\ \A k \in 2 .. n : input[k] # Blank
             named(n)  == /\ Head2(n) /\ input[n].tag = "header"
                          /\ input[n].name = "cseq" /\ CSeqMethod[input[n].value] # ""
             OfInvite  == \E n \in DOMAIN input :
                             /\ named(n) /\ CSeqMethod[input[n].value] = "INVITE"
                             /\ \A k \in 2 .. n - 1 : ~named(k)
  <2>1. input \in Seq(AllLines) /\ IsMessage(AllLines, input) /\ Blank \in AllLines
    BY SipInputIs
  <2>2. input[1].tag = "response" => input[1].status = 200
    <3>1. PICK x \in FirstLines : x = input[1]
      BY SipInputIs
    <3>2. x.tag = "response" => x.status = 200
      BY DEF FirstLines, Blank
    <3> QED
      BY <3>1, <3>2
  <2>3. OfInvite <=> \E n : FirstNamed(input, n, "INVITE")
    <3>1. \A n : named(n) <=> Named(input, n)
      BY Zenon DEF Named
    <3> HIDE DEF named
    <3> QED
      BY <3>1, Zenon DEF FirstNamed
  <2>4. /\ IsAnswered(makeRecord(input)) <=>
              /\ input[1].tag = "response" /\ input[1].status >= 200 /\ input[1].status < 300
              /\ \E n : FirstNamed(input, n, "INVITE")
        /\ IsAnswered(makeRecord(makeRecord(input).raw)) <=> IsAnswered(makeRecord(input))
    BY <2>1, ClassifiedByFirstCSeq
  <2>5. IsAnswered(makeRecord(input)) <=>
           input[1].tag = "response" /\ input[1].status = 200 /\ OfInvite
    <3> HIDE DEF OfInvite
    <3> QED
      BY <2>2, <2>3, <2>4
  <2> QED
    BY <2>4, <2>5, Zenon
<1> QED
  BY <1>1, SipInputs, PTL

\* An echo answers the request it is for (sip.go buildEcho).
THEOREM EchoAnswersRequestAlways == PureSpec => []EchoAnswersRequest
<1>1. SipInv => EchoAnswersRequest
  <2> SUFFICES ASSUME SipInv, kind = "sip", input # << >>
      PROVE  LET asked == parseSIP(input)
                 echo  == buildEcho(input)
                 vias  == Values(HeaderLines(input, 1), {"via", "v"})
             IN  IF asked.kind = "response" THEN echo = << >>
                 ELSE LET answer == parseSIP(echo)
                      IN  /\ answer.kind = "response"
                          /\ input[1] # Blank =>
                                 /\ \A f \in {"callID", "from", "to", "cseq"} :
                                       answer[f] = asked[f]
                                 /\ vias # << >> => echo[2].value = vias[1]
                          /\ input[1] = Blank => answer.callID = "" /\ answer.cseq = ""
    BY Zenon DEF EchoAnswersRequest
  <2>1. input \in Seq(AllLines) /\ IsMessage(AllLines, input)
    BY SipInputIs
  <2>2. PICK asked : asked = parseSIP(input)
    OBVIOUS
  <2>3. PICK echo : echo = buildEcho(input)
    OBVIOUS
  <2>4. PICK answer : answer = parseSIP(echo)
    OBVIOUS
  <2>5. PICK vias : vias = Values(HeaderLines(input, 1), {"via", "v"})
    OBVIOUS
  <2>6. /\ input[1].tag = "response" => echo = << >>
        /\ input[1].tag # "response" =>
              /\ answer.kind = "response"
              /\ input[1] # Blank =>
                    /\ \A f \in Answered : answer[f] = asked[f]
                    /\ vias # << >> /\ vias[1] # "" => echo[2].value = vias[1]
              /\ input[1] = Blank => answer.callID = "" /\ answer.cseq = ""
    BY <2>1, <2>2, <2>3, <2>4, <2>5, EchoIsAnswer, Zenon
  <2>7. asked.kind = "response" <=> input[1].tag = "response"
    <3>1. asked.kind = IF input[1].tag = "response" THEN "response" ELSE "request"
      BY <2>2 DEF parseSIP
    <3> QED
      BY <3>1
  <2>8. vias # << >> => vias[1] # ""
    <3>1. PICK N : N = NamedIn(HeadersIn(AllLines), {"via", "v"})
      OBVIOUS
    <3>2. HeaderLines(input, 1) \in Seq(HeadersIn(AllLines))
      <4>1. Len(input) \in Nat
        BY <2>1, LenProperties
      <4>2. 1 \in Nat \ {0} /\ 1 <= Len(input) + 1
        BY <4>1
      <4> QED
        BY <2>1, <4>2, HeadersType
    <3>3. vias \in Seq(ValuesIn(N))
      BY <2>5, <3>1, <3>2, ValuesType
    <3>4. ASSUME NEW h \in N PROVE h.value # ""
      <4>1. h \in AllLines /\ h.tag = "header" /\ h.name \in {"via", "v"}
        BY <3>1 DEF NamedIn, HeadersIn
      <4>2. h \in LaterLines
        BY <4>1 DEF AllLines, FirstLines, Blank
      <4>3. \/ h = Header("via", "v1") \/ h = Header("v", "v2")
            \/ h = Header("call-id", "c1") \/ h = Header("i", "c2")
            \/ h = Header("cseq", "1 INVITE") \/ h = Header("cseq", "2 BYE")
            \/ h = Header("cseq", "3") \/ h = Header("authorization", "key")
            \/ h = Spaced("authorization", "key") \/ h = Blank \/ h = [tag |-> "text"]
        BY <4>2, Zenon DEF LaterLines
      <4>4. h # Blank /\ h # [tag |-> "text"]
        BY <4>1 DEF Blank
      <4>5. ASSUME NEW name, NEW value, h = Header(name, value), name \notin {"via", "v"}
            PROVE  FALSE
        BY <4>1, <4>5 DEF Header
      <4>10. h # Spaced("authorization", "key")
        BY <4>1 DEF Spaced, Header
      <4>6. /\ "call-id" \notin {"via", "v"} /\ "i" \notin {"via", "v"}
            /\ "cseq" \notin {"via", "v"} /\ "authorization" \notin {"via", "v"}
        OBVIOUS
      <4>7. h = Header("via", "v1") \/ h = Header("v", "v2")
        BY <4>3, <4>4, <4>5, <4>6, <4>10, Zenon
      <4>8. h = Header("via", "v1") => h.value = "v1"
        BY DEF Header
      <4>9. h = Header("v", "v2") => h.value = "v2"
        BY DEF Header
      <4> QED
        BY <4>7, <4>8, <4>9
    <3>5. vias # << >> => vias[1] \in ValuesIn(N)
      BY <3>3, HasFirst
    <3> QED
      BY <3>4, <3>5 DEF ValuesIn
  <2>9. IF asked.kind = "response" THEN echo = << >>
        ELSE /\ answer.kind = "response"
             /\ input[1] # Blank =>
                    /\ \A f \in {"callID", "from", "to", "cseq"} : answer[f] = asked[f]
                    /\ vias # << >> => echo[2].value = vias[1]
             /\ input[1] = Blank => answer.callID = "" /\ answer.cseq = ""
    BY <2>6, <2>7, <2>8, Zenon DEF Answered
  <2> QED
    BY <2>2, <2>3, <2>4, <2>5, <2>9, Zenon
<1> QED
  BY <1>1, SipInputs, PTL
-----------------------------------------------------------------------------
(***************************************************************************)
(* The recursions of Body and ReadChunks: their tables exist               *)
(***************************************************************************)
\* The bytes so far and those of one more chunk.
With(bytes, c) == bytes \o ChunkBytes(c)

\* Entry i of the table of Body; f is such a table.
Join(f, s, i) == IF i = 0 THEN << >> ELSE With(f[i - 1], s[i])

IsJoined(f, s, n) == f = [i \in 0 .. n |-> Join(f, s, i)]

\* The table for the first n chunks exists.
LEMMA JoinedExists ==
    ASSUME NEW s
    PROVE  \A n \in Nat : \E f : IsJoined(f, s, n)
<1> DEFINE Good == {n \in Nat : \E f : IsJoined(f, s, n)}
<1>1. 0 \in Good
  <2> DEFINE f == [i \in 0 .. 0 |-> << >>]
  <2>1. \A i \in 0 .. 0 : i = 0
    OBVIOUS
  <2>2. f = [i \in 0 .. 0 |-> Join(f, s, i)]
    BY <2>1 DEF Join
  <2>3. IsJoined(f, s, 0)
    BY <2>2 DEF IsJoined
  <2> QED
    BY <2>3
<1>2. ASSUME NEW n \in Nat, n \in Good PROVE n + 1 \in Good
  <2>1. PICK g : IsJoined(g, s, n)
    BY <1>2
  <2> DEFINE f == [i \in 0 .. n + 1 |-> IF i = n + 1 THEN Join(g, s, n + 1) ELSE g[i]]
  <2>2. ASSUME NEW i \in 0 .. n PROVE f[i] = g[i] /\ g[i] = Join(g, s, i)
    <3>1. i \in 0 .. n + 1 /\ i # n + 1
      OBVIOUS
    <3>2. f[i] = g[i]
      BY <3>1
    <3>3. g = [k \in 0 .. n |-> Join(g, s, k)]
      BY <2>1 DEF IsJoined
    <3>4. g[i] = Join(g, s, i)
      BY <3>3, Zenon
    <3> QED
      BY <3>2, <3>4
  <2>3. f[n + 1] = Join(g, s, n + 1)
    OBVIOUS
  <2>4. f = [i \in 0 .. n + 1 |-> f[i]]
    OBVIOUS
  <2> HIDE DEF f
  <2>5. ASSUME NEW i \in 0 .. n + 1 PROVE f[i] = Join(f, s, i)
    <3>1. CASE i = 0
      BY <2>2, <3>1 DEF Join
    <3>2. CASE i # 0
      <4>1. f[i - 1] = g[i - 1]
        BY <2>2, <3>2
      <4>2. Join(f, s, i) = Join(g, s, i)
        BY <4>1, Zenon DEF Join
      <4>3. i = n + 1 \/ i \in 0 .. n
        OBVIOUS
      <4> QED
        BY <2>2, <2>3, <4>2, <4>3
    <3> QED
      BY <3>1, <3>2
  <2>6. f = [i \in 0 .. n + 1 |-> Join(f, s, i)]
    BY <2>4, <2>5
  <2>7. IsJoined(f, s, n + 1)
    BY <2>6 DEF IsJoined
  <2> QED
    BY <2>7
<1> HIDE DEF Good
<1>3. \A n \in Nat : n \in Good
  <2>1. \A n \in Nat : n \in Good => n + 1 \in Good
    BY <1>2
  <2> QED
    BY <1>1, <2>1, ClimbAll
<1> QED
  BY <1>3 DEF Good

\* Tables of packets that start alike agree as far as those do.
LEMMA JoinedAgree ==
    ASSUME NEW s, NEW t, NEW m \in Nat, NEW n \in Nat, m <= n,
           \A i \in 1 .. m : s[i] = t[i],
           NEW f, IsJoined(f, s, m), NEW g, IsJoined(g, t, n)
    PROVE  f[m] = g[m]
<1> DEFINE Good == {k \in Nat : k <= m => f[k] = g[k]}
<1>1. \A k \in 0 .. m : f[k] = Join(f, s, k)
  <2>1. f = [i \in 0 .. m |-> Join(f, s, i)]
    BY DEF IsJoined
  <2> QED
    BY <2>1, Zenon
<1>2. \A k \in 0 .. n : g[k] = Join(g, t, k)
  <2>1. g = [i \in 0 .. n |-> Join(g, t, i)]
    BY DEF IsJoined
  <2> QED
    BY <2>1, Zenon
<1>3. 0 \in Good
  <2>1. 0 \in 0 .. m /\ 0 \in 0 .. n
    OBVIOUS
  <2>2. f[0] = << >> /\ g[0] = << >>
    BY <1>1, <1>2, <2>1 DEF Join
  <2> QED
    BY <2>2
<1>4. ASSUME NEW k \in Nat, k \in Good PROVE k + 1 \in Good
  <2>1. SUFFICES ASSUME k + 1 <= m PROVE f[k + 1] = g[k + 1]
    OBVIOUS
  <2>2. k + 1 \in 0 .. m /\ k + 1 \in 0 .. n /\ k + 1 \in 1 .. m /\ k + 1 # 0 /\ k + 1 - 1 = k /\ k <= m
    BY <2>1
  <2>3. f[k] = g[k]
    BY <1>4, <2>2
  <2>4. s[k + 1] = t[k + 1]
    BY <2>2
  <2>5. f[k + 1] = With(f[k], s[k + 1])
    BY <1>1, <2>2 DEF Join
  <2>6. g[k + 1] = With(g[k], t[k + 1])
    BY <1>2, <2>2 DEF Join
  <2> QED
    BY <2>3, <2>4, <2>5, <2>6
<1> HIDE DEF Good
<1>5. m \in Good
  <2>1. \A k \in Nat : k \in Good => k + 1 \in Good
    BY <1>4
  <2>2. \A k \in Nat : k \in Good
    BY <1>3, <2>1, ClimbAll
  <2> QED
    BY <2>2
<1> QED
  BY <1>5 DEF Good

\* Entry i of the table of ReadChunks; f is such a table.
Round(f, pkt, total, i) == IF i = 0 THEN [offset |-> 6, info |-> NoInfo]
                           ELSE ReadChunk(pkt, total, f[i - 1])

IsRounds(f, pkt, total, n) == f = [i \in 0 .. n |-> Round(f, pkt, total, i)]

\* The table of the first n rounds exists.
LEMMA RoundsExist ==
    ASSUME NEW pkt, NEW total
    PROVE  \A n \in Nat : \E f : IsRounds(f, pkt, total, n)
<1> DEFINE Good == {n \in Nat : \E f : IsRounds(f, pkt, total, n)}
<1>1. 0 \in Good
  <2> DEFINE f == [i \in 0 .. 0 |-> [offset |-> 6, info |-> NoInfo]]
  <2>1. \A i \in 0 .. 0 : i = 0
    OBVIOUS
  <2>2. f = [i \in 0 .. 0 |-> Round(f, pkt, total, i)]
    BY <2>1 DEF Round
  <2>3. IsRounds(f, pkt, total, 0)
    BY <2>2 DEF IsRounds
  <2> QED
    BY <2>3
<1>2. ASSUME NEW n \in Nat, n \in Good PROVE n + 1 \in Good
  <2>1. PICK g : IsRounds(g, pkt, total, n)
    BY <1>2
  <2> DEFINE f == [i \in 0 .. n + 1 |-> IF i = n + 1 THEN Round(g, pkt, total, n + 1) ELSE g[i]]
  <2>2. ASSUME NEW i \in 0 .. n PROVE f[i] = g[i] /\ g[i] = Round(g, pkt, total, i)
    <3>1. i \in 0 .. n + 1 /\ i # n + 1
      OBVIOUS
    <3>2. f[i] = g[i]
      BY <3>1
    <3>3. g = [k \in 0 .. n |-> Round(g, pkt, total, k)]
      BY <2>1 DEF IsRounds
    <3>4. g[i] = Round(g, pkt, total, i)
      BY <3>3, Zenon
    <3> QED
      BY <3>2, <3>4
  <2>3. f[n + 1] = Round(g, pkt, total, n + 1)
    OBVIOUS
  <2>4. f = [i \in 0 .. n + 1 |-> f[i]]
    OBVIOUS
  <2> HIDE DEF f
  <2>5. ASSUME NEW i \in 0 .. n + 1 PROVE f[i] = Round(f, pkt, total, i)
    <3>1. CASE i = 0
      BY <2>2, <3>1 DEF Round
    <3>2. CASE i # 0
      <4>1. f[i - 1] = g[i - 1]
        BY <2>2, <3>2
      <4>2. Round(f, pkt, total, i) = Round(g, pkt, total, i)
        BY <4>1, Zenon DEF Round
      <4>3. i = n + 1 \/ i \in 0 .. n
        OBVIOUS
      <4> QED
        BY <2>2, <2>3, <4>2, <4>3
    <3> QED
      BY <3>1, <3>2
  <2>6. f = [i \in 0 .. n + 1 |-> Round(f, pkt, total, i)]
    BY <2>4, <2>5
  <2>7. IsRounds(f, pkt, total, n + 1)
    BY <2>6 DEF IsRounds
  <2> QED
    BY <2>7
<1> HIDE DEF Good
<1>3. \A n \in Nat : n \in Good
  <2>1. \A n \in Nat : n \in Good => n + 1 \in Good
    BY <1>2
  <2> QED
    BY <1>1, <2>1, ClimbAll
<1> QED
  BY <1>3 DEF Good


\* The rounds of the loop, one after the other.
LEMMA RoundsAre ==
    ASSUME NEW pkt, NEW total, Len(pkt) \in Nat
    PROVE  \E f : /\ f[0] = [offset |-> 6, info |-> NoInfo]
                  /\ \A i \in 1 .. Len(pkt) : f[i] = ReadChunk(pkt, total, f[i - 1])
                  /\ ReadChunks(pkt, total) = f[Len(pkt)].info
<1> DEFINE f == CHOOSE f : IsRounds(f, pkt, total, Len(pkt))
<1>1. IsRounds(f, pkt, total, Len(pkt))
  BY RoundsExist
<1>2. ReadChunks(pkt, total) = f[Len(pkt)].info
  BY Zenon DEF ReadChunks, IsRounds, Round
<1> HIDE DEF f
<1>3. f = [i \in 0 .. Len(pkt) |-> Round(f, pkt, total, i)]
  BY <1>1 DEF IsRounds
<1>4. \A i \in 0 .. Len(pkt) : f[i] = Round(f, pkt, total, i)
  BY <1>3, Zenon
<1>5. f[0] = [offset |-> 6, info |-> NoInfo]
  <2>1. 0 \in 0 .. Len(pkt)
    OBVIOUS
  <2>2. f[0] = Round(f, pkt, total, 0)
    BY <1>4, <2>1
  <2> QED
    BY <2>2 DEF Round
<1>6. ASSUME NEW i \in 1 .. Len(pkt) PROVE f[i] = ReadChunk(pkt, total, f[i - 1])
  <2>1. i \in 0 .. Len(pkt) /\ i # 0
    OBVIOUS
  <2>2. f[i] = Round(f, pkt, total, i)
    BY <1>4, <2>1
  <2> QED
    BY <2>1, <2>2 DEF Round
<1> QED
  BY <1>2, <1>5, <1>6

\* Body is the last entry of its table.
LEMMA BodyIs ==
    ASSUME NEW s, Len(s) \in Nat
    PROVE  \E f : IsJoined(f, s, Len(s)) /\ Body(s) = f[Len(s)]
<1> DEFINE f == CHOOSE f : IsJoined(f, s, Len(s))
<1>1. IsJoined(f, s, Len(s))
  BY JoinedExists
<1>2. Body(s) = f[Len(s)]
  BY DEF Body, IsJoined, Join, With
<1> QED
  BY <1>1, <1>2

\* No chunks, no bytes.
LEMMA BodyNone == Body(<< >>) = << >>
<1>1. Len(<< >>) = 0
  OBVIOUS
<1>2. PICK f : IsJoined(f, << >>, 0) /\ Body(<< >>) = f[0]
  BY <1>1, BodyIs
<1>3. f = [i \in 0 .. 0 |-> Join(f, << >>, i)]
  BY <1>2 DEF IsJoined
<1>4. f[0] = Join(f, << >>, 0)
  <2>1. 0 \in 0 .. 0
    OBVIOUS
  <2> QED
    BY <1>3, <2>1, Zenon
<1> QED
  BY <1>2, <1>4 DEF Join

\* The last chunk's bytes come after those of the chunks before it.
LEMMA BodyNext ==
    ASSUME NEW T, NEW s \in Seq(T), NEW x \in T
    PROVE  Body(Append(s, x)) = Body(s) \o ChunkBytes(x)
<1>1. PICK n \in Nat : n = Len(s)
  BY LenProperties
<1>2. PICK t : t = Append(s, x)
  OBVIOUS
<1>3. Len(t) = n + 1 /\ t[n + 1] = x /\ \A i \in 1 .. n : s[i] = t[i]
  BY <1>1, <1>2, AppendProperties
<1>4. PICK f : IsJoined(f, s, n) /\ Body(s) = f[n]
  BY <1>1, BodyIs
<1>5. PICK g : IsJoined(g, t, n + 1) /\ Body(t) = g[n + 1]
  BY <1>3, BodyIs
<1>6. f[n] = g[n]
  <2>1. n + 1 \in Nat /\ n <= n + 1
    OBVIOUS
  <2> QED
    BY <1>3, <1>4, <1>5, <2>1, JoinedAgree
<1>7. g[n + 1] = Join(g, t, n + 1)
  <2>1. n + 1 \in 0 .. n + 1
    OBVIOUS
  <2>2. g = [i \in 0 .. n + 1 |-> Join(g, t, i)]
    BY <1>5 DEF IsJoined
  <2> QED
    BY <2>1, <2>2, Zenon
<1>8. Join(g, t, n + 1) = With(g[n], x)
  <2>1. n + 1 # 0 /\ n + 1 - 1 = n
    OBVIOUS
  <2> QED
    BY <1>3, <2>1 DEF Join
<1>9. Body(t) = With(Body(s), x)
  BY <1>4, <1>5, <1>6, <1>7, <1>8
<1> QED
  BY <1>2, <1>9, Zenon DEF With

-----------------------------------------------------------------------------
(***************************************************************************)
(* The bytes of a packet                                                   *)
(***************************************************************************)
\* A number and its two bytes.
LEMMA TwoBytes ==
    ASSUME NEW v \in Nat
    PROVE  v \div 256 \in Nat /\ v % 256 \in Nat /\ (256 * (v \div 256)) + (v % 256) = v
  OBVIOUS

\* What an agent may put into a chunk.
IsChunk(c) == c.type \in Nat /\ c.data \in Seq(Nat)

\* The number v in two bytes of s.
IsUint16(s, i, v) == s[i] = v \div 256 /\ s[i + 1] = v % 256

\* Two bytes are read back as the number they were made of.
LEMMA Uint16Is ==
    ASSUME NEW s, NEW i, NEW v \in Nat, IsUint16(s, i, v)
    PROVE  Uint16(s, i) = v
<1>1. (256 * (v \div 256)) + (v % 256) = v
  BY TwoBytes
<1>2. s[i] = v \div 256 /\ s[i + 1] = v % 256
  BY DEF IsUint16
<1> QED
  BY <1>1, <1>2, Zenon DEF Uint16

\* What is where in b = a \o c.
LEMMA Joined ==
    ASSUME NEW T, NEW a \in Seq(T), NEW c \in Seq(T), NEW b, b = a \o c
    PROVE  /\ b \in Seq(T) /\ Len(b) = Len(a) + Len(c)
           /\ \A i \in 1 .. Len(a) : b[i] = a[i]
           /\ \A i \in 1 .. Len(c) : b[Len(a) + i] = c[i]
<1>1. Len(a) \in Nat /\ Len(c) \in Nat
  BY LenProperties
<1>2. /\ b \in Seq(T) /\ Len(b) = Len(a) + Len(c)
      /\ \A i \in 1 .. Len(a) + Len(c) : b[i] = IF i <= Len(a) THEN a[i] ELSE c[i - Len(a)]
  BY ConcatProperties
<1>3. ASSUME NEW i \in 1 .. Len(a) PROVE b[i] = a[i]
  <2>1. i \in 1 .. Len(a) + Len(c) /\ i <= Len(a)
    BY <1>1
  <2> QED
    BY <1>2, <2>1
<1>4. ASSUME NEW i \in 1 .. Len(c) PROVE b[Len(a) + i] = c[i]
  <2>1. Len(a) + i \in 1 .. Len(a) + Len(c) /\ ~(Len(a) + i <= Len(a)) /\ Len(a) + i - Len(a) = i
    BY <1>1
  <2> QED
    BY <1>2, <2>1
<1> QED
  BY <1>2, <1>3, <1>4

\* Two bytes.
LEMMA Pair ==
    ASSUME NEW a \in Nat, NEW b \in Nat
    PROVE  <<a, b>> \in Seq(Nat) /\ Len(<<a, b>>) = 2 /\ <<a, b>>[1] = a /\ <<a, b>>[2] = b
  OBVIOUS

\* Six bytes.
LEMMA SixBytes ==
    ASSUME NEW c \in Nat, NEW d \in Nat, NEW e \in Nat, NEW f \in Nat,
           NEW h, h = <<0, 0>> \o <<c, d>> \o <<e, f>>
    PROVE  h \in Seq(Nat) /\ Len(h) = 6 /\ h[3] = c /\ h[4] = d /\ h[5] = e /\ h[6] = f
<1>a. PICK x : x = <<0, 0>>
  OBVIOUS
<1>1. x \in Seq(Nat) /\ Len(x) = 2
  BY <1>a, Pair
<1>b. PICK y : y = <<c, d>>
  OBVIOUS
<1>2. y \in Seq(Nat) /\ Len(y) = 2 /\ y[1] = c /\ y[2] = d
  BY <1>b, Pair
<1>c. PICK z : z = <<e, f>>
  OBVIOUS
<1>3. z \in Seq(Nat) /\ Len(z) = 2 /\ z[1] = e /\ z[2] = f
  BY <1>c, Pair
<1>4. PICK w : w = x \o y
  OBVIOUS
<1>5. w \in Seq(Nat) /\ Len(w) = 4 /\ w[2 + 1] = c /\ w[2 + 2] = d
  <2>1. /\ w \in Seq(Nat) /\ Len(w) = Len(x) + Len(y)
        /\ \A i \in 1 .. Len(y) : w[Len(x) + i] = y[i]
    <3>1. x \in Seq(Nat) /\ y \in Seq(Nat)
      BY <1>1, <1>2
    <3> QED
      BY ONLY <1>4, <3>1, Joined
  <2>2. 1 \in 1 .. 2 /\ 2 \in 1 .. 2
    OBVIOUS
  <2> QED
    BY <1>1, <1>2, <2>1, <2>2
<1>6. h = w \o z
  BY <1>a, <1>b, <1>c, <1>4, Zenon
<1>7. /\ h \in Seq(Nat) /\ Len(h) = Len(w) + Len(z)
      /\ \A i \in 1 .. Len(w) : h[i] = w[i]
      /\ \A i \in 1 .. Len(z) : h[Len(w) + i] = z[i]
  <2>1. w \in Seq(Nat) /\ z \in Seq(Nat)
    BY <1>3, <1>5
  <2> QED
    BY ONLY <1>6, <2>1, Joined
<1>8. 1 \in 1 .. 2 /\ 2 \in 1 .. 2 /\ 3 \in 1 .. 4 /\ 4 \in 1 .. 4
  OBVIOUS
<1>9. h[4 + 1] = e /\ h[4 + 2] = f /\ h[3] = w[3] /\ h[4] = w[4] /\ Len(h) = 4 + 2
  BY <1>3, <1>5, <1>7, <1>8
<1> QED
  BY <1>5, <1>7, <1>9

\* The six bytes before the data, and the data.
LEMMA ChunkBytesAre ==
    ASSUME NEW c, IsChunk(c), NEW b, b = ChunkBytes(c), NEW d \in Nat, d = Len(c.data)
    PROVE  /\ b \in Seq(Nat) /\ Len(b) = 6 + d
           /\ IsUint16(b, 3, c.type) /\ IsUint16(b, 5, 6 + d)
           /\ \A i \in 1 .. d : b[6 + i] = c.data[i]
<1>1. c.type \in Nat /\ c.data \in Seq(Nat) /\ 6 + d \in Nat
  BY DEF IsChunk
<1>2. PICK h1 \in Nat : h1 = c.type \div 256
  BY <1>1, TwoBytes
<1>3. PICK l1 \in Nat : l1 = c.type % 256
  BY <1>1, TwoBytes
<1>4. PICK h2 \in Nat : h2 = (6 + d) \div 256
  BY <1>1, TwoBytes
<1>5. PICK l2 \in Nat : l2 = (6 + d) % 256
  BY <1>1, TwoBytes
<1>6. PICK h : h = <<0, 0>> \o <<h1, l1>> \o <<h2, l2>>
  OBVIOUS
<1>8. /\ h \in Seq(Nat) /\ Len(h) = 6 /\ h[3] = h1 /\ h[4] = l1 /\ h[5] = h2 /\ h[6] = l2
  BY <1>6, SixBytes
<1>9. b = h \o c.data
  <2>1. Bytes16(c.type) = <<h1, l1>>
    BY <1>2, <1>3, Zenon DEF Bytes16
  <2>2. Bytes16(6 + d) = <<h2, l2>>
    BY <1>4, <1>5, Zenon DEF Bytes16
  <2>3. b = <<0, 0>> \o Bytes16(c.type) \o Bytes16(6 + d) \o c.data
    BY Zenon DEF ChunkBytes
  <2> QED
    BY <1>6, <2>1, <2>2, <2>3, Zenon
<1>10. /\ b \in Seq(Nat) /\ Len(b) = 6 + d
       /\ \A i \in 1 .. 6 : b[i] = h[i]
       /\ \A i \in 1 .. d : b[6 + i] = c.data[i]
  <2>1. PICK x \in Seq(Nat) : x = c.data
    BY <1>1
  <2>2. b = h \o x /\ d = Len(x)
    BY <1>9, <2>1
  <2>3. /\ b \in Seq(Nat) /\ Len(b) = Len(h) + Len(x)
        /\ \A i \in 1 .. Len(h) : b[i] = h[i]
        /\ \A i \in 1 .. Len(x) : b[Len(h) + i] = x[i]
    <3>1. h \in Seq(Nat)
      BY <1>8
    <3> QED
      BY <2>2, <3>1, Joined
  <2>4. Len(h) = 6
    BY <1>8
  <2> QED
    BY <2>1, <2>2, <2>3, <2>4
<1>11. b[3] = h1 /\ b[4] = l1 /\ b[5] = h2 /\ b[6] = l2
  <2>1. 3 \in 1 .. 6 /\ 4 \in 1 .. 6 /\ 5 \in 1 .. 6 /\ 6 \in 1 .. 6
    OBVIOUS
  <2> QED
    BY <1>8, <1>10, <2>1
<1>12. IsUint16(b, 3, c.type) /\ IsUint16(b, 5, 6 + d)
  <2>1. 3 + 1 = 4 /\ 5 + 1 = 6
    OBVIOUS
  <2> QED
    BY <1>2, <1>3, <1>4, <1>5, <1>11, <2>1 DEF IsUint16
<1> QED
  BY <1>10, <1>12

\* Only such chunks.
Chunked(C) == \A c \in C : IsChunk(c)

\* The bytes of the chunks.
LEMMA BodyType ==
    ASSUME NEW C, Chunked(C)
    PROVE  \A s \in Seq(C) : Body(s) \in Seq(Nat)
<1> DEFINE Good == {s \in Seq(C) : Body(s) \in Seq(Nat)}
<1>1. << >> \in Good
  BY BodyNone, EmptySeq
<1>2. ASSUME NEW s \in Seq(C), NEW x \in C, s \in Good PROVE Append(s, x) \in Good
  <2>1. Append(s, x) \in Seq(C)
    BY AppendProperties
  <2>2. IsChunk(x)
    BY DEF Chunked
  <2>3. PICK d \in Nat : d = Len(x.data)
    BY <2>2, LenProperties DEF IsChunk
  <2>4. ChunkBytes(x) \in Seq(Nat)
    BY <2>2, <2>3, ChunkBytesAre
  <2>5. Body(s) \in Seq(Nat)
    BY <1>2
  <2>6. Body(s) \o ChunkBytes(x) \in Seq(Nat)
    BY <2>4, <2>5, ConcatProperties
  <2> QED
    BY <2>1, <2>6, BodyNext
<1>3. \A s \in Seq(C) : s \in Good
  <2> HIDE DEF Good
  <2> QED
    BY <1>1, <1>2, SeqClimb
<1> QED
  BY <1>3

-----------------------------------------------------------------------------
(***************************************************************************)
(* Where the chunks of a packet are                                        *)
(***************************************************************************)
\* The bytes before chunk k + 1 of the packet.
Start(cs, k) == Size(SubSeq(cs, 1, k))

\* The first k chunks.
LEMMA PrefixType ==
    ASSUME NEW C, NEW cs \in Seq(C), NEW k \in 0 .. Len(cs)
    PROVE  SubSeq(cs, 1, k) \in Seq(C) /\ Len(SubSeq(cs, 1, k)) = k
<1>1. Len(cs) \in Nat
  BY LenProperties
<1>2. \A i \in 1 .. k : cs[i] \in C
  <2>1. \A i \in 1 .. k : i \in 1 .. Len(cs)
    BY <1>1
  <2> QED
    BY <2>1, ElementOfSeq
<1>3. 1 \in Int /\ k \in Int /\ (IF 1 <= k THEN k - 1 + 1 ELSE 0) = k
  BY <1>1
<1> QED
  BY <1>2, <1>3, SubSeqProperties

\* All of them.
LEMMA PrefixAll ==
    ASSUME NEW C, NEW cs \in Seq(C), NEW l, l = Len(cs)
    PROVE  SubSeq(cs, 1, l) = cs
  BY SubSeqFull

\* None of them.
LEMMA PrefixNone ==
    ASSUME NEW cs
    PROVE  SubSeq(cs, 1, 0) = << >>
  BY SubSeqEmpty

\* One chunk more.
LEMMA PrefixNext ==
    ASSUME NEW C, NEW cs \in Seq(C), NEW k \in Nat, k < Len(cs)
    PROVE  /\ k + 1 \in 1 .. Len(cs) /\ cs[k + 1] \in C
           /\ k \in 0 .. Len(cs) /\ k + 1 \in 0 .. Len(cs)
           /\ SubSeq(cs, 1, k + 1) = Append(SubSeq(cs, 1, k), cs[k + 1])
<1>1. PICK l \in Nat : l = Len(cs)
  BY LenProperties
<1>2. k + 1 \in 1 .. l /\ k \in 0 .. l /\ k + 1 \in 0 .. l /\ k + 1 - 1 = k
  BY <1>1
<1>3. cs[k + 1] \in C
  BY <1>1, <1>2, ElementOfSeq
<1>4. PICK a : a = SubSeq(cs, 1, k)
  OBVIOUS
<1>5. a \in Seq(C) /\ Len(a) = k /\ \A i \in 1 .. k : a[i] = cs[i]
  <2>1. \A i \in 1 .. k : cs[i] \in C
    <3>1. \A i \in 1 .. k : i \in 1 .. l
      BY <1>2
    <3> QED
      BY <1>1, <3>1, ElementOfSeq
  <2>2. 1 \in Int /\ k \in Int
    OBVIOUS
  <2>3. /\ a \in Seq(C) /\ Len(a) = IF 1 <= k THEN k - 1 + 1 ELSE 0
        /\ \A i \in 1 .. k - 1 + 1 : a[i] = cs[1 + i - 1]
    BY <1>4, <2>1, <2>2, SubSeqProperties
  <2> QED
    BY <2>3
<1>6. PICK b : b = SubSeq(cs, 1, k + 1)
  OBVIOUS
<1>7. b \in Seq(C) /\ Len(b) = k + 1 /\ \A i \in 1 .. k + 1 : b[i] = cs[i]
  <2>1. \A i \in 1 .. k + 1 : cs[i] \in C
    <3>1. \A i \in 1 .. k + 1 : i \in 1 .. l
      BY <1>2
    <3> QED
      BY <1>1, <3>1, ElementOfSeq
  <2>2. 1 \in Int /\ k + 1 \in Int
    OBVIOUS
  <2>3. /\ b \in Seq(C) /\ Len(b) = IF 1 <= k + 1 THEN k + 1 - 1 + 1 ELSE 0
        /\ \A i \in 1 .. k + 1 - 1 + 1 : b[i] = cs[1 + i - 1]
    BY <1>6, <2>1, <2>2, SubSeqProperties
  <2> QED
    BY <2>3
<1>8. PICK c : c = Append(a, cs[k + 1])
  OBVIOUS
<1>9. /\ c \in Seq(C) /\ Len(c) = k + 1 /\ c[k + 1] = cs[k + 1]
      /\ \A i \in 1 .. k : c[i] = a[i]
  BY <1>3, <1>5, <1>8, AppendProperties
<1>10. ASSUME NEW i \in 1 .. Len(b) PROVE b[i] = c[i]
  <2>1. i \in 1 .. k + 1
    BY <1>7
  <2>2. CASE i = k + 1
    BY <1>7, <1>9, <2>1, <2>2
  <2>3. CASE i # k + 1
    <3>1. i \in 1 .. k
      BY <2>1, <2>3
    <3> QED
      BY <1>5, <1>7, <1>9, <2>1, <3>1
  <2> QED
    BY <2>2, <2>3
<1>11. b = c
  BY <1>7, <1>9, <1>10, SeqEqual
<1> QED
  BY <1>1, <1>2, <1>3, <1>4, <1>6, <1>8, <1>11

\* The first bytes are those of the head.
LEMMA StartFirst ==
    ASSUME NEW cs
    PROVE  Start(cs, 0) = 6
<1>1. PICK a : a = SubSeq(cs, 1, 0)
  OBVIOUS
<1>2. a = << >>
  BY <1>1, PrefixNone
<1>3. Body(a) = << >>
  BY <1>2, BodyNone
<1>4. Size(a) = 6 + Len(<< >>)
  BY <1>3, Zenon DEF Size
<1>5. 6 + Len(<< >>) = 6
  OBVIOUS
<1> QED
  BY <1>1, <1>4, <1>5, Zenon DEF Start

\* A chunk has six bytes and its data.
LEMMA StartNext ==
    ASSUME NEW C, Chunked(C), NEW cs \in Seq(C), NEW k \in Nat, k < Len(cs)
    PROVE  /\ Len(cs[k + 1].data) \in Nat /\ Start(cs, k) \in Nat
           /\ Start(cs, k + 1) = Start(cs, k) + 6 + Len(cs[k + 1].data)
<1>1. PICK c \in C : c = cs[k + 1]
  BY PrefixNext
<1>2. IsChunk(c)
  BY DEF Chunked
<1>3. PICK d \in Nat : d = Len(c.data)
  BY <1>2, LenProperties DEF IsChunk
<1>4. PICK a : a = SubSeq(cs, 1, k)
  OBVIOUS
<1>5. a \in Seq(C) /\ SubSeq(cs, 1, k + 1) = Append(a, c)
  <2>1. k \in 0 .. Len(cs)
    BY PrefixNext
  <2>2. a \in Seq(C)
    BY <1>4, <2>1, PrefixType
  <2> QED
    BY <1>1, <1>4, <2>2, PrefixNext
<1>6. Body(SubSeq(cs, 1, k + 1)) = Body(a) \o ChunkBytes(c)
  BY <1>5, BodyNext
<1>7. PICK x \in Seq(Nat) : x = Body(a)
  BY <1>5, BodyType
<1>8. PICK y \in Seq(Nat) : y = ChunkBytes(c) /\ Len(y) = 6 + d
  BY <1>2, <1>3, ChunkBytesAre
<1>9. Len(x \o y) = Len(x) + (6 + d) /\ Len(x) \in Nat
  BY <1>8, ConcatProperties, LenProperties
<1>10. Start(cs, k) = 6 + Len(x)
  BY <1>4, <1>7 DEF Start, Size
<1>11. Start(cs, k + 1) = 6 + Len(x \o y)
  BY <1>6, <1>7, <1>8 DEF Start, Size
<1>12. Start(cs, k) \in Nat /\ Start(cs, k + 1) = Start(cs, k) + 6 + d
  BY <1>9, <1>10, <1>11
<1> QED
  BY <1>1, <1>3, <1>12, Zenon

\* The chunks come one after the other.
LEMMA StartsClimb ==
    ASSUME NEW C, Chunked(C), NEW cs \in Seq(C)
    PROVE  /\ \A k \in 0 .. Len(cs) : Start(cs, k) \in Nat /\ Start(cs, k) >= 6 + k
           /\ \A i \in 0 .. Len(cs), j \in 0 .. Len(cs) : i <= j => Start(cs, i) <= Start(cs, j)
<1> DEFINE Low(k) == Start(cs, k) \in Nat /\ Start(cs, k) >= 6 + k
           Above(k) == \A i \in 0 .. k : Start(cs, i) <= Start(cs, k)
           Good == {k \in Nat : k <= Len(cs) => Low(k) /\ Above(k)}
<1>1. PICK l \in Nat : l = Len(cs)
  BY LenProperties
<1>2. 0 \in Good
  <2>1. Start(cs, 0) = 6
    BY StartFirst
  <2>2. \A i \in 0 .. 0 : i = 0
    OBVIOUS
  <2> QED
    BY <2>1, <2>2
<1>3. ASSUME NEW k \in Nat, k \in Good PROVE k + 1 \in Good
  <2>1. SUFFICES ASSUME k + 1 <= l PROVE Low(k + 1) /\ Above(k + 1)
    BY <1>1
  <2>2. k < Len(cs) /\ k <= Len(cs)
    BY <1>1, <2>1
  <2>3. PICK d \in Nat : d = Len(cs[k + 1].data) /\ Start(cs, k + 1) = Start(cs, k) + 6 + d
    BY <2>2, StartNext
  <2>4. Low(k) /\ Above(k)
    BY <1>3, <2>2
  <2>5. Low(k + 1) /\ Start(cs, k) <= Start(cs, k + 1)
    BY <2>3, <2>4
  <2>6. ASSUME NEW i \in 0 .. k + 1 PROVE Start(cs, i) <= Start(cs, k + 1)
    <3>1. CASE i = k + 1
      BY <2>5, <3>1
    <3>2. CASE i # k + 1
      <4>1. i \in 0 .. k
        BY <3>2
      <4>2. i \in Nat /\ i <= l
        BY <2>1, <4>1
      <4>3. Start(cs, i) <= Start(cs, k)
        BY <2>4, <4>1
      <4>4. Start(cs, i) \in Nat
        <5>1. i \in 0 .. Len(cs)
          BY <1>1, <4>2
        <5>2. SubSeq(cs, 1, i) \in Seq(C)
          BY <5>1, PrefixType
        <5>3. Body(SubSeq(cs, 1, i)) \in Seq(Nat)
          BY <5>2, BodyType
        <5> QED
          BY <5>3, LenProperties DEF Start, Size
      <4> QED
        BY <2>4, <2>5, <4>3, <4>4
    <3> QED
      BY <3>1, <3>2
  <2> QED
    BY <2>5, <2>6
<1> HIDE DEF Good
<1>4. \A k \in Nat : k \in Good
  <2>1. \A k \in Nat : k \in Good => k + 1 \in Good
    BY <1>3
  <2> QED
    BY <1>2, <2>1, ClimbAll
<1>5. \A k \in 0 .. Len(cs) : Low(k) /\ Above(k)
  <2>1. \A k \in 0 .. Len(cs) : k \in Nat /\ k <= Len(cs)
    BY <1>1
  <2> QED
    BY <1>4, <2>1 DEF Good
<1>6. ASSUME NEW i \in 0 .. Len(cs), NEW j \in 0 .. Len(cs), i <= j
      PROVE  Start(cs, i) <= Start(cs, j)
  <2>1. i \in 0 .. j
    BY <1>1, <1>6
  <2> QED
    BY <1>5, <2>1
<1> QED
  BY <1>5, <1>6

\* The bytes of chunk k + 1 are at its place.
LEMMA BodyAt ==
    ASSUME NEW C, Chunked(C), NEW cs \in Seq(C), NEW k \in Nat, k < Len(cs),
           NEW b, b = ChunkBytes(cs[k + 1]), NEW j \in 1 .. Len(b)
    PROVE  Body(cs)[Start(cs, k) - 6 + j] = b[j]
<1>1. PICK l \in Nat : l = Len(cs)
  BY LenProperties
<1>2. PICK at : at = Start(cs, k) - 6 + j
  OBVIOUS
<1> DEFINE B(m) == Body(SubSeq(cs, 1, m))
           Good == {m \in Nat : k < m /\ m <= l => B(m)[at] = b[j]}
<1>3. ASSUME NEW m \in Nat, m < l
      PROVE  /\ B(m + 1) = B(m) \o ChunkBytes(cs[m + 1])
             /\ B(m) \in Seq(Nat) /\ ChunkBytes(cs[m + 1]) \in Seq(Nat)
             /\ Len(ChunkBytes(cs[m + 1])) = 6 + Len(cs[m + 1].data)
             /\ Len(B(m)) \in Nat /\ Start(cs, m) = 6 + Len(B(m))
             /\ Len(cs[m + 1].data) \in Nat
  <2>1. m < Len(cs)
    BY <1>1, <1>3
  <2>2. PICK c \in C : c = cs[m + 1]
    BY <2>1, PrefixNext
  <2>3. IsChunk(c)
    BY DEF Chunked
  <2>4. PICK d \in Nat : d = Len(c.data)
    BY <2>3, LenProperties DEF IsChunk
  <2>5. ChunkBytes(c) \in Seq(Nat) /\ Len(ChunkBytes(c)) = 6 + d
    BY <2>3, <2>4, ChunkBytesAre
  <2>6. PICK a : a = SubSeq(cs, 1, m)
    OBVIOUS
  <2>7. m \in 0 .. Len(cs) /\ SubSeq(cs, 1, m + 1) = Append(a, c)
    BY <2>1, <2>2, <2>6, PrefixNext
  <2>8. a \in Seq(C)
    BY <2>6, <2>7, PrefixType
  <2>9. Body(Append(a, c)) = Body(a) \o ChunkBytes(c)
    BY <2>8, BodyNext
  <2>10. Body(a) \in Seq(Nat) /\ Len(Body(a)) \in Nat
    BY <2>8, BodyType, LenProperties
  <2>11. Start(cs, m) = 6 + Len(Body(a))
    BY <2>6 DEF Start, Size
  <2> QED
    BY <2>2, <2>4, <2>5, <2>6, <2>7, <2>9, <2>10, <2>11
<1>4. Len(b) = 6 + Len(cs[k + 1].data) /\ Len(b) \in Nat
  BY <1>1, <1>3
<1>5. B(k + 1)[at] = b[j]
  <2>1. PICK x \in Seq(Nat) : x = B(k)
    BY <1>1, <1>3
  <2>2. b \in Seq(Nat) /\ B(k + 1) = x \o b /\ Start(cs, k) = 6 + Len(x) /\ Len(x) \in Nat
    BY <1>1, <1>3, <2>1
  <2>3. PICK y : y = B(k + 1)
    OBVIOUS
  <2>4. \A i \in 1 .. Len(b) : y[Len(x) + i] = b[i]
    BY <2>2, <2>3, Joined
  <2>5. at = Len(x) + j
    BY <1>2, <1>4, <2>2
  <2> QED
    BY <2>3, <2>4, <2>5
<1>6. ASSUME NEW m \in Nat, m \in Good PROVE m + 1 \in Good
  <2>1. SUFFICES ASSUME k < m + 1, m + 1 <= l PROVE B(m + 1)[at] = b[j]
    OBVIOUS
  <2>2. CASE m = k
    BY <1>5, <2>2
  <2>3. CASE m # k
    <3>1. k < m /\ m < l /\ m <= l
      BY <2>1, <2>3
    <3>2. B(m)[at] = b[j]
      BY <1>6, <3>1
    <3>3. PICK x \in Seq(Nat) : x = B(m)
      BY <1>3, <3>1
    <3>4. PICK z \in Seq(Nat) : z = ChunkBytes(cs[m + 1])
      BY <1>3, <3>1
    <3>5. PICK y : y = B(m + 1)
      OBVIOUS
    <3>6. y = x \o z /\ Start(cs, m) = 6 + Len(x) /\ Len(x) \in Nat
      BY <1>3, <3>1, <3>3, <3>4, <3>5
    <3>7. \A i \in 1 .. Len(x) : y[i] = x[i]
      BY <3>6, Joined
    <3>8. at \in 1 .. Len(x)
      <4>1. Start(cs, k + 1) = Start(cs, k) + 6 + Len(cs[k + 1].data) /\ Start(cs, k) \in Nat
        BY StartNext
      <4>2. k \in 0 .. Len(cs) /\ k + 1 \in 0 .. Len(cs) /\ m \in 0 .. Len(cs) /\ k + 1 <= m
        BY <1>1, <3>1
      <4>3. Start(cs, k + 1) <= Start(cs, m) /\ Start(cs, k) >= 6 + k
        BY <4>2, StartsClimb
      <4>4. Len(cs[k + 1].data) \in Nat /\ j \in Nat /\ j >= 1 /\ j <= 6 + Len(cs[k + 1].data)
        BY <1>1, <1>3, <1>4
      <4>5. PICK d \in Nat : d = Len(cs[k + 1].data)
        BY <4>4
      <4>6. PICK t \in Nat : t = Start(cs, k)
        BY <4>1
      <4>7. t + 6 + d <= 6 + Len(x) /\ t >= 6 /\ j >= 1 /\ j <= 6 + d /\ at = t - 6 + j
        BY <1>2, <3>6, <4>1, <4>3, <4>4, <4>5, <4>6
      <4> QED
        BY <3>6, <4>4, <4>7
    <3> QED
      BY <3>2, <3>3, <3>5, <3>7, <3>8
  <2> QED
    BY <2>2, <2>3
<1>7. 0 \in Good
  OBVIOUS
<1> HIDE DEF Good
<1>8. \A m \in Nat : m \in Good
  <2>1. \A m \in Nat : m \in Good => m + 1 \in Good
    BY <1>6
  <2> QED
    BY <1>7, <2>1, ClimbAll
<1>9. B(l)[at] = b[j]
  BY <1>1, <1>8 DEF Good
<1>10. SubSeq(cs, 1, l) = cs
  BY <1>1, PrefixAll
<1> QED
  BY <1>2, <1>9, <1>10

-----------------------------------------------------------------------------
(***************************************************************************)
(* The bytes of a packet that is cut after n of them                       *)
(***************************************************************************)
\* The head and the chunks.
LEMMA PacketIs ==
    ASSUME NEW C, Chunked(C), NEW cs \in Seq(C), NEW length \in Nat,
           NEW p, p = Packet(cs, length)
    PROVE  /\ p \in Seq(Nat) /\ Len(p) = Size(cs) /\ Size(cs) \in Nat
           /\ \A i \in 1 .. 4 : p[i] = Magic[i]
           /\ IsUint16(p, 5, length)
           /\ \A i \in 1 .. Len(Body(cs)) : p[6 + i] = Body(cs)[i]
<1>1. PICK b \in Seq(Nat) : b = Body(cs)
  BY BodyType
<1>2. PICK h \in Nat : h = length \div 256
  BY TwoBytes
<1>3. PICK l \in Nat : l = length % 256
  BY TwoBytes
<1>4. PICK m : m = Magic
  OBVIOUS
<1>5. m \in Seq(Nat) /\ Len(m) = 4
  BY <1>4 DEF Magic
<1>6. PICK y : y = <<h, l>>
  OBVIOUS
<1>7. y \in Seq(Nat) /\ Len(y) = 2 /\ y[1] = h /\ y[2] = l
  BY <1>6, Pair
<1>8. PICK w : w = m \o y
  OBVIOUS
<1>9. /\ w \in Seq(Nat) /\ Len(w) = 6
      /\ \A i \in 1 .. 4 : w[i] = m[i]
      /\ \A i \in 1 .. 2 : w[4 + i] = y[i]
  <2>1. m \in Seq(Nat) /\ y \in Seq(Nat)
    BY <1>5, <1>7
  <2>2. /\ w \in Seq(Nat) /\ Len(w) = Len(m) + Len(y)
        /\ \A i \in 1 .. Len(m) : w[i] = m[i]
        /\ \A i \in 1 .. Len(y) : w[Len(m) + i] = y[i]
    BY ONLY <1>8, <2>1, Joined
  <2> QED
    BY <1>5, <1>7, <2>2
<1>10. p = w \o b
  BY <1>1, <1>2, <1>3, <1>4, <1>6, <1>8, Zenon DEF Packet, Bytes16
<1>11. /\ p \in Seq(Nat) /\ Len(p) = 6 + Len(b)
       /\ \A i \in 1 .. 6 : p[i] = w[i]
       /\ \A i \in 1 .. Len(b) : p[6 + i] = b[i]
  <2>1. w \in Seq(Nat) /\ b \in Seq(Nat)
    BY <1>9
  <2>2. /\ p \in Seq(Nat) /\ Len(p) = Len(w) + Len(b)
        /\ \A i \in 1 .. Len(w) : p[i] = w[i]
        /\ \A i \in 1 .. Len(b) : p[Len(w) + i] = b[i]
    BY ONLY <1>10, <2>1, Joined
  <2> QED
    BY <1>9, <2>2
<1>12. \A i \in 1 .. 4 : p[i] = Magic[i]
  <2>1. \A i \in 1 .. 4 : i \in 1 .. 6
    OBVIOUS
  <2> QED
    BY <1>4, <1>9, <1>11, <2>1
<1>13. p[5] = h /\ p[6] = l
  <2>1. 5 \in 1 .. 6 /\ 6 \in 1 .. 6 /\ 1 \in 1 .. 2 /\ 2 \in 1 .. 2 /\ 4 + 1 = 5 /\ 4 + 2 = 6
    OBVIOUS
  <2> QED
    BY <1>7, <1>9, <1>11, <2>1
<1>14. IsUint16(p, 5, length)
  <2>1. 5 + 1 = 6
    OBVIOUS
  <2> QED
    BY <1>2, <1>3, <1>13, <2>1 DEF IsUint16
<1>15. Size(cs) = 6 + Len(b) /\ Size(cs) \in Nat
  BY <1>1, LenProperties DEF Size
<1> QED
  BY <1>1, <1>11, <1>12, <1>14, <1>15

\* pkt is the packet of cs, cut after n bytes.
IsCut(pkt, cs, length, n) == /\ n \in 0 .. Size(cs)
                             /\ pkt = SubSeq(Packet(cs, length), 1, n)

\* What is left is as it was.
LEMMA CutIs ==
    ASSUME NEW C, Chunked(C), NEW cs \in Seq(C), NEW length \in Nat, NEW n, NEW pkt,
           IsCut(pkt, cs, length, n)
    PROVE  /\ pkt \in Seq(Nat) /\ Len(pkt) = n /\ n \in Nat /\ n <= Size(cs)
           /\ \A i \in 1 .. n : pkt[i] = Packet(cs, length)[i]
<1>1. PICK p : p = Packet(cs, length)
  OBVIOUS
<1>2. p \in Seq(Nat) /\ Len(p) = Size(cs) /\ Size(cs) \in Nat
  BY <1>1, PacketIs
<1>3. n \in 0 .. Len(p) /\ pkt = SubSeq(p, 1, n)
  BY <1>1, <1>2 DEF IsCut
<1>4. pkt \in Seq(Nat) /\ Len(pkt) = n
  BY <1>2, <1>3, PrefixType
<1>5. n \in Nat /\ n <= Len(p)
  BY <1>2, <1>3
<1>6. ASSUME NEW i \in 1 .. n PROVE pkt[i] = p[i]
  <2>1. \A k \in 1 .. n : p[k] \in Nat
    <3>1. \A k \in 1 .. n : k \in 1 .. Len(p)
      BY <1>2, <1>5
    <3> QED
      BY <1>2, <3>1, ElementOfSeq
  <2>2. \A k \in 1 .. n - 1 + 1 : SubSeq(p, 1, n)[k] = p[1 + k - 1]
    BY <1>5, <2>1, SubSeqProperties
  <2>3. i \in 1 .. n - 1 + 1 /\ 1 + i - 1 = i
    BY <1>5
  <2> QED
    BY <1>3, <2>2, <2>3
<1> QED
  BY <1>1, <1>2, <1>4, <1>5, <1>6

\* The head, if it is there.
LEMMA CutHead ==
    ASSUME NEW C, Chunked(C), NEW cs \in Seq(C), NEW length \in Nat, NEW n, NEW pkt,
           IsCut(pkt, cs, length, n), n >= 6
    PROVE  SubSeq(pkt, 1, 4) = Magic /\ Uint16(pkt, 5) = length
<1>1. PICK p : p = Packet(cs, length)
  OBVIOUS
<1>2. (\A i \in 1 .. 4 : p[i] = Magic[i]) /\ IsUint16(p, 5, length)
  BY <1>1, PacketIs
<1>3. pkt \in Seq(Nat) /\ Len(pkt) = n /\ n \in Nat /\ \A i \in 1 .. n : pkt[i] = p[i]
  BY <1>1, CutIs
<1>4. PICK a : a = SubSeq(pkt, 1, 4)
  OBVIOUS
<1>5. a \in Seq(Nat) /\ Len(a) = 4 /\ \A i \in 1 .. 4 : a[i] = pkt[i]
  <2>1. \A i \in 1 .. 4 : i \in 1 .. Len(pkt)
    BY <1>3
  <2>2. \A i \in 1 .. 4 : pkt[i] \in Nat
    BY <1>3, <2>1, ElementOfSeq
  <2>3. 1 \in Int /\ 4 \in Int
    OBVIOUS
  <2>4. /\ a \in Seq(Nat) /\ Len(a) = IF 1 <= 4 THEN 4 - 1 + 1 ELSE 0
        /\ \A i \in 1 .. 4 - 1 + 1 : a[i] = pkt[1 + i - 1]
    BY <1>4, <2>2, <2>3, SubSeqProperties
  <2> QED
    BY <2>4
<1>6. PICK m : m = Magic
  OBVIOUS
<1>7. m \in Seq(Nat) /\ Len(m) = 4
  BY <1>6 DEF Magic
<1>8. \A i \in 1 .. Len(a) : a[i] = m[i]
  <2>1. \A i \in 1 .. 4 : i \in 1 .. n
    BY <1>3
  <2> QED
    BY <1>2, <1>3, <1>5, <1>6, <2>1
<1>9. a = m
  BY <1>5, <1>7, <1>8, SeqEqual
<1>10. Uint16(pkt, 5) = length
  <2>1. 5 \in 1 .. n /\ 5 + 1 \in 1 .. n
    BY <1>3
  <2>2. IsUint16(pkt, 5, length)
    BY <1>2, <1>3, <2>1 DEF IsUint16
  <2> QED
    BY <2>2, Uint16Is
<1> QED
  BY <1>4, <1>6, <1>9, <1>10

\* A byte of chunk k + 1, if it is there.
LEMMA CutByte ==
    ASSUME NEW C, Chunked(C), NEW cs \in Seq(C), NEW length \in Nat, NEW n, NEW pkt,
           IsCut(pkt, cs, length, n), NEW k \in Nat, k < Len(cs),
           NEW b, b = ChunkBytes(cs[k + 1]), NEW j \in 1 .. Len(b), Start(cs, k) + j <= n
    PROVE  pkt[Start(cs, k) + j] = b[j]
<1>1. PICK p : p = Packet(cs, length)
  OBVIOUS
<1>2. PICK o \in Nat : o = Start(cs, k) /\ o >= 6
  <2>1. k \in 0 .. Len(cs)
    BY PrefixNext
  <2>2. Start(cs, k) \in Nat /\ Start(cs, k) >= 6 + k
    BY <2>1, StartsClimb
  <2> QED
    BY <2>2
<1>3. Len(b) \in Nat
  <2>1. PICK c \in C : c = cs[k + 1]
    BY PrefixNext
  <2>2. IsChunk(c)
    BY DEF Chunked
  <2>3. PICK d \in Nat : d = Len(c.data)
    BY <2>2, LenProperties DEF IsChunk
  <2>4. Len(b) = 6 + d
    BY <2>1, <2>2, <2>3, ChunkBytesAre
  <2> QED
    BY <2>4
<1>4. pkt[o + j] = p[o + j]
  <2>1. n \in Nat /\ \A i \in 1 .. n : pkt[i] = p[i]
    BY <1>1, CutIs
  <2>2. o + j \in 1 .. n
    BY <1>2, <1>3, <2>1
  <2> QED
    BY <2>1, <2>2
<1>5. Body(cs)[o - 6 + j] = b[j]
  BY <1>2, BodyAt
<1>6. p[o + j] = Body(cs)[o - 6 + j]
  <2>1. /\ Size(cs) \in Nat /\ \A i \in 1 .. Len(Body(cs)) : p[6 + i] = Body(cs)[i]
    BY <1>1, PacketIs
  <2>2. n \in Nat /\ n <= Size(cs)
    BY CutIs
  <2>3. Size(cs) = 6 + Len(Body(cs)) /\ Len(Body(cs)) \in Nat
    BY BodyType, LenProperties DEF Size
  <2>4. o - 6 + j \in 1 .. Len(Body(cs)) /\ 6 + (o - 6 + j) = o + j
    BY <1>2, <1>3, <2>2, <2>3
  <2> QED
    BY <2>1, <2>4
<1> QED
  BY <1>2, <1>4, <1>5, <1>6

-----------------------------------------------------------------------------
(***************************************************************************)
(* A chunk as the decoder sees it                                          *)
(***************************************************************************)
\* What is left of a chunk that begins after o bytes: its type and its length, and
\* its data if all of it is left.
IsChunkAt(pkt, n, o, c, d, end) ==
    /\ o \in Nat /\ o >= 6 /\ d \in Nat /\ n \in Nat /\ end = o + (6 + d)
    /\ o + 6 <= n => Uint16(pkt, o + 3) = c.type /\ Uint16(pkt, o + 5) = 6 + d
    /\ o + (6 + d) <= n => SubSeq(pkt, o + 7, o + (6 + d)) = c.data

\* The type and the length of chunk k + 1 where six bytes of it are left, and its
\* data where all of it is left.
LEMMA ChunkAt ==
    ASSUME NEW C, Chunked(C), NEW cs \in Seq(C), NEW length \in Nat, NEW n, NEW pkt,
           IsCut(pkt, cs, length, n), NEW k \in Nat, k < Len(cs),
           NEW o, o = Start(cs, k), NEW c, c = cs[k + 1], NEW d, d = Len(c.data)
    PROVE  IsChunkAt(pkt, n, o, c, d, Start(cs, k + 1))
<1>1. o \in Nat /\ o >= 6
  <2>1. k \in 0 .. Len(cs)
    BY PrefixNext
  <2>2. Start(cs, k) \in Nat /\ Start(cs, k) >= 6 + k
    BY <2>1, StartsClimb
  <2> QED
    BY <2>2
<1>2. c \in C
  BY PrefixNext
<1>3. IsChunk(c)
  BY <1>2 DEF Chunked
<1>4. d \in Nat /\ c.type \in Nat /\ c.data \in Seq(Nat)
  BY <1>3, LenProperties DEF IsChunk
<1>5. PICK b : b = ChunkBytes(c)
  OBVIOUS
<1>6. /\ b \in Seq(Nat) /\ Len(b) = 6 + d
      /\ IsUint16(b, 3, c.type) /\ IsUint16(b, 5, 6 + d)
      /\ \A i \in 1 .. d : b[6 + i] = c.data[i]
  <2>1. d \in Nat
    BY <1>4
  <2>2. d = Len(c.data)
    OBVIOUS
  <2> QED
    BY ONLY <1>3, <1>5, <2>1, <2>2, ChunkBytesAre, ZenonT(60)
<1>7. pkt \in Seq(Nat) /\ Len(pkt) = n /\ n \in Nat
  BY CutIs
<1>8. Start(cs, k + 1) = o + (6 + d)
  <2>1. Start(cs, k + 1) = Start(cs, k) + 6 + Len(cs[k + 1].data)
    BY StartNext
  <2>2. Start(cs, k + 1) = o + 6 + d
    BY <2>1, Zenon
  <2>3. o \in Nat /\ d \in Nat
    BY <1>1, <1>4
  <2> QED
    BY ONLY <2>2, <2>3
<1>9. ASSUME NEW j \in 1 .. 6 + d, o + j <= n PROVE pkt[o + j] = b[j]
  <2>1. j \in 1 .. Len(b) /\ Start(cs, k) + j <= n
    BY <1>6, <1>9
  <2> QED
    BY <1>5, <2>1, CutByte
<1>10. ASSUME o + 6 <= n PROVE Uint16(pkt, o + 3) = c.type /\ Uint16(pkt, o + 5) = 6 + d
  <2>1. /\ pkt[o + 3] = b[3] /\ pkt[o + 4] = b[4] /\ pkt[o + 5] = b[5] /\ pkt[o + 6] = b[6]
    <3>1. 3 \in 1 .. 6 + d /\ 4 \in 1 .. 6 + d /\ 5 \in 1 .. 6 + d /\ 6 \in 1 .. 6 + d
      BY <1>4
    <3>2. o + 3 <= n /\ o + 4 <= n /\ o + 5 <= n
      <4>1. o \in Nat /\ n \in Nat /\ o + 6 <= n
        BY <1>1, <1>7, <1>10
      <4> QED
        BY ONLY <4>1
    <3> QED
      BY <1>9, <1>10, <3>1, <3>2
  <2>2. 3 + 1 = 4 /\ 5 + 1 = 6 /\ o + 3 + 1 = o + 4 /\ o + 5 + 1 = o + 6
    BY <1>1
  <2>3. IsUint16(pkt, o + 3, c.type) /\ IsUint16(pkt, o + 5, 6 + d)
    <3>1. /\ b[3] = c.type \div 256 /\ b[4] = c.type % 256
          /\ b[5] = (6 + d) \div 256 /\ b[6] = (6 + d) % 256
      BY <1>6, <2>2, Zenon DEF IsUint16
    <3> QED
      BY <2>1, <2>2, <3>1, Zenon DEF IsUint16
  <2>4. 6 + d \in Nat
    BY <1>4
  <2> QED
    BY <1>4, <2>3, <2>4, Uint16Is
<1>11. ASSUME o + (6 + d) <= n PROVE SubSeq(pkt, o + 7, o + (6 + d)) = c.data
  <2>1. PICK a \in Nat : a = o + 7
    BY <1>1
  <2>2. PICK e \in Nat : e = o + (6 + d)
    BY <1>1, <1>4
  <2>3. e - a + 1 = d /\ (IF a <= e THEN e - a + 1 ELSE 0) = d
    <3>1. o \in Nat /\ d \in Nat
      BY <1>1, <1>4
    <3> QED
      BY ONLY <2>1, <2>2, <3>1
  <2>4. \A i \in a .. e : pkt[i] \in Nat
    <3>1. \A i \in a .. e : i \in 1 .. Len(pkt)
      BY <1>1, <1>7, <1>11, <2>1, <2>2
    <3> QED
      BY <1>7, <3>1, ElementOfSeq
  <2>5. PICK s : s = SubSeq(pkt, a, e)
    OBVIOUS
  <2>6. s \in Seq(Nat) /\ Len(s) = d /\ \A i \in 1 .. d : s[i] = pkt[a + i - 1]
    <3>1. a \in Int /\ e \in Int
      OBVIOUS
    <3>2. /\ s \in Seq(Nat) /\ Len(s) = IF a <= e THEN e - a + 1 ELSE 0
          /\ \A i \in 1 .. e - a + 1 : s[i] = pkt[a + i - 1]
      BY <2>4, <2>5, <3>1, SubSeqProperties
    <3> QED
      BY <2>3, <3>2
  <2>7. ASSUME NEW i \in 1 .. Len(s) PROVE s[i] = c.data[i]
    <3>1. i \in 1 .. d /\ 6 + i \in 1 .. 6 + d /\ a + i - 1 = o + (6 + i) /\ o + (6 + i) <= n
      <4>1. i \in 1 .. d
        BY <2>6
      <4>2. o \in Nat /\ d \in Nat /\ n \in Nat /\ o + (6 + d) <= n
        BY <1>1, <1>4, <1>7, <1>11
      <4> QED
        BY ONLY <4>1, <4>2, <2>1
    <3>2. pkt[o + (6 + i)] = b[6 + i]
      BY <1>9, <3>1
    <3> QED
      BY <1>6, <2>6, <3>1, <3>2
  <2>8. s = c.data
    BY <1>4, <2>6, <2>7, SeqEqual
  <2> QED
    BY <2>1, <2>2, <2>5, <2>8
<1> QED
  BY <1>1, <1>4, <1>7, <1>8, <1>10, <1>11, Zenon DEF IsChunkAt

\* A chunk is read when it ends within the packet.
LEMMA ThereIff ==
    ASSUME NEW C, Chunked(C), NEW cs \in Seq(C), NEW length \in Nat, NEW n, NEW pkt,
           IsCut(pkt, cs, length, n), NEW k \in Nat, k < Len(cs),
           NEW total \in Nat, total <= n
    PROVE  ChunkThere(pkt, Start(cs, k), total) <=> Start(cs, k + 1) <= total
<1>1. PICK o : o = Start(cs, k)
  OBVIOUS
<1>2. PICK c : c = cs[k + 1]
  OBVIOUS
<1>3. PICK d : d = Len(c.data)
  OBVIOUS
<1>b. IsChunkAt(pkt, n, o, c, d, Start(cs, k + 1))
  BY <1>1, <1>2, <1>3, ChunkAt
<1>4. o \in Nat /\ d \in Nat /\ n \in Nat /\ Start(cs, k + 1) = o + (6 + d)
  BY <1>b, Zenon DEF IsChunkAt
<1>5. PICK u : u = Uint16(pkt, o + 5)
  OBVIOUS
<1>6. o + 6 <= n => u = 6 + d
  BY <1>b, <1>5, Zenon DEF IsChunkAt
<1>7. ChunkThere(pkt, o, total) <=> o + 6 <= total /\ u >= 6 /\ o + u <= total
  BY <1>5, Zenon DEF ChunkThere
<1>8. o + 6 <= total /\ u >= 6 /\ o + u <= total <=> o + (6 + d) <= total
  <2>1. CASE o + 6 <= total
    <3>1. u = 6 + d
      BY <1>4, <1>6, <2>1
    <3> QED
      BY <1>4, <2>1, <3>1
  <2>2. CASE ~(o + 6 <= total)
    BY <1>4, <2>2
  <2> QED
    BY <2>1, <2>2
<1> QED
  BY <1>1, <1>4, <1>7, <1>8

\* Behind the last chunk there is none.
LEMMA NotThere ==
    ASSUME NEW C, Chunked(C), NEW cs \in Seq(C), NEW length \in Nat, NEW n, NEW pkt,
           IsCut(pkt, cs, length, n), NEW total \in Nat, total <= n
    PROVE  ~ChunkThere(pkt, Start(cs, Len(cs)), total)
<1>1. Start(cs, Len(cs)) = Size(cs)
  BY PrefixAll DEF Start
<1>2. Size(cs) \in Nat /\ n \in Nat /\ n <= Size(cs)
  BY PacketIs, CutIs
<1>3. ~(Start(cs, Len(cs)) + 6 <= total)
  BY <1>1, <1>2
<1> QED
  BY <1>3, Zenon DEF ChunkThere

-----------------------------------------------------------------------------
(***************************************************************************)
(* What the decoder knows after a chunk                                    *)
(***************************************************************************)
\* The fields that KnownOf names.
KnownFields == {"TSec", "TUsec", "SrcPort", "ProtoType", "Payload", "NodePW", "NodeName"}

\* They are fields of info.
HasFields(info) == KnownFields \subseteq DOMAIN info

\* Each of them is set by the chunks of its type that have enough data.
IsSet(next, info, type, data) ==
    /\ HasFields(next)
    /\ next.TSec = IF type = 9 /\ Len(data) >= 4 THEN BigEndian(data, 4) ELSE info.TSec
    /\ next.TUsec = IF type = 10 /\ Len(data) >= 4 THEN BigEndian(data, 4) ELSE info.TUsec
    /\ next.SrcPort = IF type = 7 /\ Len(data) >= 2 THEN BigEndian(data, 2) ELSE info.SrcPort
    /\ next.ProtoType = IF type = 11 /\ Len(data) >= 1 THEN data[1] ELSE info.ProtoType
    /\ next.Payload = IF type = 15 THEN data ELSE info.Payload
    /\ next.NodePW = IF type = 14 THEN data ELSE info.NodePW
    /\ next.NodeName = IF type = 19 THEN TrimZeros(data) ELSE info.NodeName

\* The switch of hepDecode does that.
LEMMA SetFieldIs ==
    ASSUME NEW info, HasFields(info), NEW type \in Nat, NEW data, Len(data) \in Nat,
           NEW next, next = SetField(info, type, data)
    PROVE  IsSet(next, info, type, data)
<1>1. PICK l \in Nat : l = Len(data)
  OBVIOUS
<1>a. HasFields(next)
  BY DEF SetField, HasFields
<1>2. next.TSec = IF type = 9 /\ l >= 4 THEN BigEndian(data, 4) ELSE info.TSec
  BY <1>1 DEF SetField, HasFields, KnownFields
<1>3. next.TUsec = IF type = 10 /\ l >= 4 THEN BigEndian(data, 4) ELSE info.TUsec
  BY <1>1 DEF SetField, HasFields, KnownFields
<1>4. next.SrcPort = IF type = 7 /\ l >= 2 THEN BigEndian(data, 2) ELSE info.SrcPort
  BY <1>1 DEF SetField, HasFields, KnownFields
<1>5. next.ProtoType = IF type = 11 /\ l >= 1 THEN data[1] ELSE info.ProtoType
  BY <1>1 DEF SetField, HasFields, KnownFields
<1>6. next.Payload = IF type = 15 THEN data ELSE info.Payload
  BY <1>1 DEF SetField, HasFields, KnownFields
<1>7. next.NodePW = IF type = 14 THEN data ELSE info.NodePW
  BY <1>1 DEF SetField, HasFields, KnownFields
<1>8. next.NodeName = IF type = 19 THEN TrimZeros(data) ELSE info.NodeName
  BY <1>1 DEF SetField, HasFields, KnownFields
<1> QED
  BY <1>1, <1>a, <1>2, <1>3, <1>4, <1>5, <1>6, <1>7, <1>8, Zenon DEF IsSet

\* A number of one byte is that byte.
LEMMA OneByte ==
    ASSUME NEW s, s[1] \in Nat
    PROVE  BigEndian(s, 1) = s[1]
<1> DEFINE V(f, k) == IF k = 0 THEN 0 ELSE (256 * f[k - 1]) + s[k]
           g == [k \in 0 .. 1 |-> IF k = 0 THEN 0 ELSE s[1]]
           f == CHOOSE f : f = [k \in 0 .. 1 |-> V(f, k)]
<1>1. g = [k \in 0 .. 1 |-> V(g, k)]
  <2>1. ASSUME NEW k \in 0 .. 1 PROVE g[k] = V(g, k)
    <3>1. CASE k = 0
      BY <3>1
    <3>2. CASE k # 0
      <4>1. k = 1 /\ k - 1 = 0
        BY <3>2
      <4>2. g[0] = 0 /\ g[1] = s[1]
        OBVIOUS
      <4> QED
        BY <4>1, <4>2
    <3> QED
      BY <3>1, <3>2
  <2> QED
    BY <2>1
<1>2. f = [k \in 0 .. 1 |-> V(f, k)]
  BY <1>1, Zenon
<1>3. BigEndian(s, 1) = f[1]
  BY Zenon DEF BigEndian
<1>4. f[0] = 0 /\ f[1] = (256 * f[0]) + s[1]
  <2>1. PICK h : h = f
    OBVIOUS
  <2>2. h = [k \in 0 .. 1 |-> V(h, k)]
    BY <1>2, <2>1
  <2> HIDE DEF f
  <2>3. h[0] = 0
    BY <2>2
  <2>4. h[1] = (256 * h[1 - 1]) + s[1]
    BY <2>2
  <2>5. 1 - 1 = 0
    OBVIOUS
  <2> QED
    BY <2>1, <2>3, <2>4, <2>5
<1> HIDE DEF f
<1> QED
  BY <1>3, <1>4

\* There is nothing to trim in an empty name.
LEMMA TrimNone == TrimZeros(<< >>) = << >>
<1>1. \A n \in 0 .. Len(<< >>) : n = 0
  OBVIOUS
<1> DEFINE P(n) == /\ \A k \in n + 1 .. Len(<< >>) : << >>[k] = 0
                   /\ n > 0 => << >>[n] # 0
           m == CHOOSE n \in 0 .. Len(<< >>) : P(n)
<1>2. 0 \in 0 .. Len(<< >>) /\ P(0)
  OBVIOUS
<1>3. m \in 0 .. Len(<< >>)
  <2> HIDE DEF P
  <2> QED
    BY <1>2
<1>4. m = 0
  BY <1>1, <1>3
<1>5. TrimZeros(<< >>) = SubSeq(<< >>, 1, m)
  BY Zenon DEF TrimZeros
<1>6. SubSeq(<< >>, 1, 0) = << >>
  BY PrefixNone
<1> QED
  BY <1>4, <1>5, <1>6

\* The chunks of r that have the type and enough data.
Enough(r, type, min) == {n \in DOMAIN r : r[n].type = type /\ Len(r[n].data) >= min}

\* The greatest of S.
IsLast(n, S) == n \in S /\ \A k \in S : k <= n

\* One of finitely many is the last.
LEMMA SomeLast ==
    ASSUME NEW l \in Nat, NEW S \in SUBSET (1 .. l), S # {}
    PROVE  \E n \in S : \A k \in S : k <= n
<1> DEFINE Bounds == {u \in Nat : \A k \in S : k <= u}
<1>1. Bounds \in SUBSET Nat /\ l \in Bounds
  OBVIOUS
<1>2. PICK u \in Bounds : \A v \in Bounds : u <= v
  <2> HIDE DEF Bounds
  <2> QED
    BY <1>1, LeastNat
<1>3. u \in Nat /\ \A k \in S : k <= u
  BY <1>2
<1>4. u \in S
  <2>1. SUFFICES ASSUME u \notin S PROVE FALSE
    OBVIOUS
  <2>2. PICK j : j \in S
    OBVIOUS
  <2>3. j \in Nat /\ j >= 1 /\ j <= u
    BY <1>3, <2>2
  <2>4. u - 1 \in Nat /\ ~(u <= u - 1)
    BY <1>3, <2>3
  <2>5. \A k \in S : k <= u - 1
    BY <1>3, <2>1
  <2>6. u - 1 \in Bounds
    BY <2>4, <2>5
  <2> QED
    BY <1>2, <2>4, <2>6
<1> QED
  BY <1>3, <1>4

\* The data of the last of them.
LEMMA LastIs ==
    ASSUME NEW r, NEW type, NEW min, NEW n, IsLast(n, Enough(r, type, min)),
           Enough(r, type, min) \in SUBSET Nat
    PROVE  LastData(r, type, min) = r[n].data
<1>1. PICK S : S = Enough(r, type, min)
  OBVIOUS
<1>2. S \in SUBSET Nat /\ n \in S /\ \A k \in S : k <= n
  BY <1>1 DEF IsLast
<1>3. PICK m : m = CHOOSE j \in S : \A k \in S : k <= j
  OBVIOUS
<1>4. m \in S /\ \A k \in S : k <= m
  BY <1>2, <1>3, Zenon
<1>5. m = n
  BY <1>2, <1>4
<1>6. S # {}
  BY <1>2
<1>7. LastData(r, type, min) = r[m].data
  BY <1>1, <1>3, <1>6, Zenon DEF LastData, Enough
<1> QED
  BY <1>5, <1>7

\* If there is none, there are no data.
LEMMA NoLast ==
    ASSUME NEW r, NEW type, NEW min, Enough(r, type, min) = {}
    PROVE  LastData(r, type, min) = << >>
  BY Zenon DEF LastData, Enough

\* No chunks, no data.
LEMMA LastNone ==
    ASSUME NEW type, NEW min
    PROVE  LastData(<< >>, type, min) = << >>
<1>1. DOMAIN << >> = {}
  OBVIOUS
<1>2. Enough(<< >>, type, min) = {}
  BY <1>1, Zenon DEF Enough
<1> QED
  BY <1>2, NoLast

\* A later chunk replaces an earlier one, if it has enough data.
LEMMA LastNext ==
    ASSUME NEW C, NEW r \in Seq(C), NEW c \in C, NEW type, NEW min
    PROVE  LastData(Append(r, c), type, min) =
               IF c.type = type /\ Len(c.data) >= min THEN c.data
               ELSE LastData(r, type, min)
<1>1. PICK l \in Nat : l = Len(r)
  BY LenProperties
<1>2. PICK s : s = Append(r, c)
  OBVIOUS
<1>3. /\ Len(s) = l + 1 /\ s \in Seq(C)
      /\ \A i \in 1 .. l : s[i] = r[i]
      /\ s[l + 1] = c
  BY <1>1, <1>2, AppendProperties
<1>4. DOMAIN r = 1 .. l /\ DOMAIN s = 1 .. l + 1
  BY <1>1, <1>3, LenProperties
<1>5. PICK E : E = Enough(r, type, min)
  OBVIOUS
<1>6. PICK F : F = Enough(s, type, min)
  OBVIOUS
<1>7. \A n : n \in E <=> n \in 1 .. l /\ r[n].type = type /\ Len(r[n].data) >= min
  BY <1>4, <1>5, Zenon DEF Enough
<1>8. \A n : n \in F <=> n \in 1 .. l + 1 /\ s[n].type = type /\ Len(s[n].data) >= min
  BY <1>4, <1>6, Zenon DEF Enough
<1>9. E \in SUBSET (1 .. l) /\ F \in SUBSET (1 .. l + 1)
  BY <1>7, <1>8, Zenon
<1>10. E \in SUBSET Nat /\ F \in SUBSET Nat
  BY <1>9
<1>11. \A n \in 1 .. l : n \in F <=> n \in E
  <2>1. ASSUME NEW n \in 1 .. l PROVE n \in F <=> n \in E
    <3>1. n \in 1 .. l + 1 /\ s[n] = r[n]
      BY <1>3
    <3> QED
      BY <1>7, <1>8, <3>1, Zenon
  <2> QED
    BY <2>1
<1>12. CASE c.type = type /\ Len(c.data) >= min
  <2>1. l + 1 \in F
    <3>1. l + 1 \in 1 .. l + 1
      OBVIOUS
    <3> QED
      BY <1>3, <1>8, <1>12, <3>1, Zenon
  <2>2. \A k \in F : k <= l + 1
    BY <1>9
  <2>3. IsLast(l + 1, Enough(s, type, min))
    BY <1>6, <2>1, <2>2 DEF IsLast
  <2>4. LastData(s, type, min) = s[l + 1].data
    BY <1>6, <1>10, <2>3, LastIs, Zenon
  <2> QED
    BY <1>2, <1>3, <1>12, <2>4
<1>13. CASE ~(c.type = type /\ Len(c.data) >= min)
  <2>1. l + 1 \notin F
    BY <1>3, <1>8, <1>13, Zenon
  <2>2. \A n \in 1 .. l + 1 : n # l + 1 => n \in 1 .. l
    OBVIOUS
  <2>3. \A n : n \in F => n \in E
    BY <1>9, <1>11, <2>1, <2>2, Zenon
  <2>4. \A n : n \in E => n \in F
    BY <1>9, <1>11, Zenon
  <2>5. F = E
    BY <2>3, <2>4
  <2>6. CASE E = {}
    <3>1. Enough(s, type, min) = {} /\ Enough(r, type, min) = {}
      BY <1>5, <1>6, <2>5, <2>6, Zenon
    <3>2. LastData(s, type, min) = << >> /\ LastData(r, type, min) = << >>
      BY <3>1, NoLast, Zenon
    <3> QED
      BY <1>2, <1>13, <3>2, Zenon
  <2>7. CASE E # {}
    <3>1. PICK n \in E : \A k \in E : k <= n
      BY <1>9, <2>7, SomeLast
    <3>2. IsLast(n, Enough(r, type, min)) /\ IsLast(n, Enough(s, type, min))
      BY <1>5, <1>6, <2>5, <3>1, Zenon DEF IsLast
    <3>3. LastData(s, type, min) = s[n].data /\ LastData(r, type, min) = r[n].data
      BY <1>5, <1>6, <1>10, <3>2, LastIs, Zenon
    <3>4. s[n] = r[n]
      BY <1>3, <1>9
    <3> QED
      BY <1>2, <1>13, <3>3, <3>4, Zenon
  <2> QED
    BY <2>6, <2>7
<1> QED
  BY <1>12, <1>13

\* The number in the last chunk of r with enough data.
NumberIn(r, type, size) ==
    IF LastData(r, type, size) = << >> THEN 0 ELSE BigEndian(LastData(r, type, size), size)

\* The decoder knows what the chunks of r say.
Knows(info, r) ==
    /\ HasFields(info)
    /\ info.TSec = NumberIn(r, 9, 4) /\ info.TUsec = NumberIn(r, 10, 4)
    /\ info.SrcPort = NumberIn(r, 7, 2) /\ info.ProtoType = NumberIn(r, 11, 1)
    /\ info.Payload = LastData(r, 15, 0) /\ info.NodePW = LastData(r, 14, 0)
    /\ info.NodeName = TrimZeros(LastData(r, 19, 0))

\* No chunks, no number.
LEMMA NumberNone ==
    ASSUME NEW type, NEW size
    PROVE  NumberIn(<< >>, type, size) = 0
  BY LastNone, Zenon DEF NumberIn

\* A later chunk replaces the number, if it has enough data.
LEMMA NumberNext ==
    ASSUME NEW C, NEW r \in Seq(C), NEW c \in C, NEW type, NEW size \in Nat, size >= 1
    PROVE  NumberIn(Append(r, c), type, size) =
               IF c.type = type /\ Len(c.data) >= size THEN BigEndian(c.data, size)
               ELSE NumberIn(r, type, size)
<1>1. PICK a : a = LastData(Append(r, c), type, size)
  OBVIOUS
<1>2. PICK b : b = LastData(r, type, size)
  OBVIOUS
<1>3. a = IF c.type = type /\ Len(c.data) >= size THEN c.data ELSE b
  BY <1>1, <1>2, LastNext
<1>4. CASE c.type = type /\ Len(c.data) >= size
  <2>1. Len(<< >>) = 0
    OBVIOUS
  <2>2. c.data # << >>
    <3>1. SUFFICES ASSUME c.data = << >> PROVE FALSE
      OBVIOUS
    <3>2. Len(c.data) = 0
      BY <2>1, <3>1, Zenon
    <3> QED
      BY <1>4, <3>2
  <2>3. a = c.data
    BY <1>3, <1>4, Zenon
  <2> QED
    BY <1>1, <1>4, <2>2, <2>3, Zenon DEF NumberIn
<1>5. CASE ~(c.type = type /\ Len(c.data) >= size)
  <2>1. a = b
    BY <1>3, <1>5, Zenon
  <2> QED
    BY <1>1, <1>2, <1>5, <2>1, Zenon DEF NumberIn
<1> QED
  BY <1>4, <1>5

\* At the start the decoder knows nothing.
LEMMA KnowsNone == Knows(NoInfo, << >>)
<1>1. HasFields(NoInfo)
  BY DEF HasFields, KnownFields, NoInfo
<1>2. /\ NoInfo.TSec = 0 /\ NoInfo.TUsec = 0 /\ NoInfo.SrcPort = 0 /\ NoInfo.ProtoType = 0
      /\ NoInfo.Payload = << >> /\ NoInfo.NodePW = << >> /\ NoInfo.NodeName = << >>
  BY DEF NoInfo
<1> QED
  BY <1>1, <1>2, NumberNone, LastNone, TrimNone, Zenon DEF Knows

\* A chunk adds what it says.
LEMMA KnowsNext ==
    ASSUME NEW C, Chunked(C), NEW r \in Seq(C), NEW c \in C, NEW info, Knows(info, r)
    PROVE  Knows(SetField(info, c.type, c.data), Append(r, c))
<1>1. IsChunk(c)
  BY DEF Chunked
<1>2. c.type \in Nat /\ c.data \in Seq(Nat)
  BY <1>1 DEF IsChunk
<1>3. PICK l \in Nat : l = Len(c.data)
  BY <1>2, LenProperties
<1>4. PICK t \in Nat : t = c.type
  BY <1>2
<1>5. PICK data : data = c.data
  OBVIOUS
<1>6. PICK s : s = Append(r, c)
  OBVIOUS
<1>7. PICK next : next = SetField(info, t, data)
  OBVIOUS
<1>8. HasFields(info)
  BY DEF Knows
<1>9. /\ HasFields(next)
      /\ next.TSec = IF t = 9 /\ l >= 4 THEN BigEndian(data, 4) ELSE info.TSec
      /\ next.TUsec = IF t = 10 /\ l >= 4 THEN BigEndian(data, 4) ELSE info.TUsec
      /\ next.SrcPort = IF t = 7 /\ l >= 2 THEN BigEndian(data, 2) ELSE info.SrcPort
      /\ next.ProtoType = IF t = 11 /\ l >= 1 THEN data[1] ELSE info.ProtoType
      /\ next.Payload = IF t = 15 THEN data ELSE info.Payload
      /\ next.NodePW = IF t = 14 THEN data ELSE info.NodePW
      /\ next.NodeName = IF t = 19 THEN TrimZeros(data) ELSE info.NodeName
  <2>1. l = Len(data) /\ Len(data) \in Nat
    BY <1>3, <1>5
  <2>2. t \in Nat
    OBVIOUS
  <2>3. Len(data) \in Nat
    BY <2>1
  <2>4. IsSet(next, info, t, data)
    BY ONLY <1>7, <1>8, <2>2, <2>3, SetFieldIs
  <2> QED
    BY ONLY <2>1, <2>4, Zenon DEF IsSet
<1>10. /\ NumberIn(s, 9, 4) = IF t = 9 /\ l >= 4 THEN BigEndian(data, 4) ELSE NumberIn(r, 9, 4)
       /\ NumberIn(s, 10, 4) = IF t = 10 /\ l >= 4 THEN BigEndian(data, 4) ELSE NumberIn(r, 10, 4)
       /\ NumberIn(s, 7, 2) = IF t = 7 /\ l >= 2 THEN BigEndian(data, 2) ELSE NumberIn(r, 7, 2)
       /\ NumberIn(s, 11, 1) = IF t = 11 /\ l >= 1 THEN BigEndian(data, 1) ELSE NumberIn(r, 11, 1)
  <2>1. 4 \in Nat /\ 4 >= 1 /\ 2 \in Nat /\ 2 >= 1 /\ 1 \in Nat /\ 1 >= 1
    OBVIOUS
  <2>2. ASSUME NEW type, NEW size \in Nat, size >= 1
        PROVE  NumberIn(s, type, size) =
                   IF t = type /\ l >= size THEN BigEndian(data, size)
                   ELSE NumberIn(r, type, size)
    <3>1. NumberIn(Append(r, c), type, size) =
               IF c.type = type /\ Len(c.data) >= size THEN BigEndian(c.data, size)
               ELSE NumberIn(r, type, size)
      BY <2>2, NumberNext
    <3> QED
      BY <1>3, <1>4, <1>5, <1>6, <3>1, Zenon
  <2> HIDE <1>3
  <2> QED
    BY <2>1, <2>2, Zenon
<1>11. /\ LastData(s, 15, 0) = IF t = 15 THEN data ELSE LastData(r, 15, 0)
       /\ LastData(s, 14, 0) = IF t = 14 THEN data ELSE LastData(r, 14, 0)
       /\ LastData(s, 19, 0) = IF t = 19 THEN data ELSE LastData(r, 19, 0)
  <2>1. l >= 0
    OBVIOUS
  <2>2. ASSUME NEW type
        PROVE  LastData(s, type, 0) = IF t = type THEN data ELSE LastData(r, type, 0)
    <3>1. LastData(Append(r, c), type, 0) =
               IF c.type = type /\ Len(c.data) >= 0 THEN c.data ELSE LastData(r, type, 0)
      BY LastNext
    <3> QED
      BY <1>3, <1>4, <1>5, <1>6, <2>1, <3>1, Zenon
  <2> QED
    BY <2>2, Zenon
<1>12. l >= 1 => BigEndian(data, 1) = data[1]
  <2>1. SUFFICES ASSUME l >= 1 PROVE BigEndian(data, 1) = data[1]
    OBVIOUS
  <2>2. 1 \in 1 .. Len(data) /\ data \in Seq(Nat)
    BY <1>2, <1>3, <1>5, <2>1
  <2>3. data[1] \in Nat
    BY <2>2, ElementOfSeq
  <2> QED
    BY <2>3, OneByte
<1>13. /\ info.TSec = NumberIn(r, 9, 4) /\ info.TUsec = NumberIn(r, 10, 4)
       /\ info.SrcPort = NumberIn(r, 7, 2) /\ info.ProtoType = NumberIn(r, 11, 1)
       /\ info.Payload = LastData(r, 15, 0) /\ info.NodePW = LastData(r, 14, 0)
       /\ info.NodeName = TrimZeros(LastData(r, 19, 0))
  BY Zenon DEF Knows
<1>14. next.TSec = NumberIn(s, 9, 4) /\ next.TUsec = NumberIn(s, 10, 4)
  <2>1. next.TSec = NumberIn(s, 9, 4)
    BY <1>9, <1>10, <1>13, Zenon
  <2>2. next.TUsec = NumberIn(s, 10, 4)
    BY <1>9, <1>10, <1>13, Zenon
  <2> QED
    BY <2>1, <2>2
<1>15. next.SrcPort = NumberIn(s, 7, 2)
  BY <1>9, <1>10, <1>13, Zenon
<1>16. next.ProtoType = NumberIn(s, 11, 1)
  BY <1>9, <1>10, <1>12, <1>13, Zenon
<1>17. next.Payload = LastData(s, 15, 0) /\ next.NodePW = LastData(s, 14, 0)
  BY <1>9, <1>11, <1>13, Zenon
<1>18. next.NodeName = TrimZeros(LastData(s, 19, 0))
  BY <1>9, <1>11, <1>13, Zenon
<1>19. Knows(next, s)
  BY <1>9, <1>14, <1>15, <1>16, <1>17, <1>18, Zenon DEF Knows
<1> QED
  BY <1>4, <1>5, <1>6, <1>7, <1>19, Zenon

-----------------------------------------------------------------------------
(***************************************************************************)
(* The loop of hepDecode, and what is known at its end                     *)
(***************************************************************************)
\* The chunks that end within the first m bytes are the first K.
LEMMA WholeIs ==
    ASSUME NEW C, Chunked(C), NEW cs \in Seq(C), NEW m \in Nat
    PROVE  \E K \in 0 .. Len(cs) :
              /\ Whole(cs, m) = SubSeq(cs, 1, K)
              /\ K > 0 => Start(cs, K) <= m
              /\ K < Len(cs) => Start(cs, K + 1) > m
<1>1. PICK l \in Nat : l = Len(cs)
  BY LenProperties
<1> DEFINE T == {k \in 0 .. l : k < l => Start(cs, k + 1) > m}
           P(k) == /\ k > 0 => Start(cs, k) <= m
                   /\ k < l => Start(cs, k + 1) > m
<1>2. T \in SUBSET Nat /\ l \in T
  OBVIOUS
<1>3. PICK k \in T : \A j \in T : k <= j
  <2> HIDE DEF T
  <2> QED
    BY <1>2, LeastNat
<1>4. k \in 0 .. l /\ P(k)
  <2>1. k \in 0 .. l /\ (k < l => Start(cs, k + 1) > m)
    BY <1>3
  <2>2. ASSUME k > 0 PROVE Start(cs, k) <= m
    <3>1. k - 1 \in 0 .. l /\ ~(k <= k - 1) /\ k - 1 < l /\ k - 1 + 1 = k
      BY <1>1, <2>1, <2>2
    <3>2. k - 1 \notin T
      BY <1>3, <3>1
    <3>3. ~(Start(cs, k) > m)
      BY <3>1, <3>2
    <3>4. Start(cs, k) \in Nat
      BY <1>1, <2>1, StartsClimb
    <3> QED
      BY <3>3, <3>4
  <2> QED
    BY <2>1, <2>2
<1>5. PICK K : K = CHOOSE j \in 0 .. l : P(j)
  OBVIOUS
<1>6. K \in 0 .. l /\ P(K)
  <2> HIDE DEF P
  <2> QED
    BY <1>4, <1>5
<1>7. Whole(cs, m) = SubSeq(cs, 1, K)
  BY <1>1, <1>5, Zenon DEF Whole, Start
<1> QED
  BY <1>1, <1>6, <1>7

\* Where the loop is, and what it knows, before it reads chunk k + 1.
IsAt(x, cs, k) == x.offset = Start(cs, k) /\ Knows(x.info, SubSeq(cs, 1, k))

\* A round reads a chunk that ends within the packet.
LEMMA RoundReads ==
    ASSUME NEW C, Chunked(C), NEW cs \in Seq(C), NEW length \in Nat, NEW n, NEW pkt,
           IsCut(pkt, cs, length, n), NEW total \in Nat, total <= n,
           NEW k \in Nat, k < Len(cs), Start(cs, k + 1) <= total,
           NEW x, IsAt(x, cs, k)
    PROVE  IsAt(ReadChunk(pkt, total, x), cs, k + 1)
<1>1. PICK o : o = Start(cs, k)
  OBVIOUS
<1>2. PICK c : c = cs[k + 1]
  OBVIOUS
<1>3. PICK d : d = Len(c.data)
  OBVIOUS
<1>a. c \in C
  BY <1>2, PrefixNext
<1>b. IsChunkAt(pkt, n, o, c, d, Start(cs, k + 1))
  BY <1>1, <1>2, <1>3, ChunkAt
<1>4. o \in Nat /\ d \in Nat /\ n \in Nat /\ Start(cs, k + 1) = o + (6 + d)
  BY <1>b, Zenon DEF IsChunkAt
<1>5. o + (6 + d) <= n /\ o + 6 <= n
  <2>1. o + (6 + d) <= total
    BY <1>4
  <2> QED
    BY ONLY <1>4, <2>1, total \in Nat, total <= n
<1>6. ChunkThere(pkt, o, total)
  BY <1>1, ThereIff
<1>7. x.offset = o /\ Knows(x.info, SubSeq(cs, 1, k))
  BY <1>1 DEF IsAt
<1>8. PICK y : y = ReadChunk(pkt, total, x)
  OBVIOUS
<1>9. y = [offset |-> o + (6 + d), info |-> SetField(x.info, c.type, c.data)]
  <2>1. Uint16(pkt, o + 3) = c.type /\ Uint16(pkt, o + 5) = 6 + d
    BY <1>b, <1>5, Zenon DEF IsChunkAt
  <2>2. SubSeq(pkt, o + 7, o + (6 + d)) = c.data
    BY <1>b, <1>5, Zenon DEF IsChunkAt
  <2> QED
    BY <1>6, <1>7, <1>8, <2>1, <2>2, Zenon DEF ReadChunk
<1>10. y.offset = o + (6 + d) /\ y.info = SetField(x.info, c.type, c.data)
  BY ONLY <1>9
<1>11. PICK r : r = SubSeq(cs, 1, k)
  OBVIOUS
<1>12. k \in 0 .. Len(cs) /\ SubSeq(cs, 1, k + 1) = Append(r, c)
  BY <1>2, <1>11, PrefixNext
<1>13. r \in Seq(C)
  BY <1>11, <1>12, PrefixType
<1>14. Knows(SetField(x.info, c.type, c.data), Append(r, c))
  BY <1>a, <1>7, <1>11, <1>13, KnowsNext
<1> QED
  BY <1>4, <1>8, <1>10, <1>12, <1>14, Zenon DEF IsAt

\* It stays where there is none.
LEMMA RoundStays ==
    ASSUME NEW pkt, NEW total, NEW x, ~ChunkThere(pkt, x.offset, total)
    PROVE  ReadChunk(pkt, total, x) = x
  BY Zenon DEF ReadChunk

\* At its end the loop knows what the chunks say that end within the packet.
LEMMA LoopKnows ==
    ASSUME NEW C, Chunked(C), NEW cs \in Seq(C), NEW length \in Nat, NEW n, NEW pkt,
           IsCut(pkt, cs, length, n), NEW total \in Nat, total <= n,
           NEW K \in 0 .. Len(cs), K > 0 => Start(cs, K) <= total,
           K < Len(cs) => Start(cs, K + 1) > total
    PROVE  Knows(ReadChunks(pkt, total), SubSeq(cs, 1, K))
<1>1. pkt \in Seq(Nat) /\ Len(pkt) = n /\ n \in Nat
  BY CutIs
<1>2. PICK l \in Nat : l = Len(cs)
  BY LenProperties
<1>3. PICK f : /\ f[0] = [offset |-> 6, info |-> NoInfo]
               /\ \A i \in 1 .. n : f[i] = ReadChunk(pkt, total, f[i - 1])
               /\ ReadChunks(pkt, total) = f[n].info
  BY <1>1, RoundsAre
<1>4. K \in Nat /\ K <= l
  BY <1>2
<1>5. K <= n
  <2>1. CASE K = 0
    BY <1>1, <2>1
  <2>2. CASE K # 0
    <3>1. Start(cs, K) \in Nat /\ Start(cs, K) >= 6 + K
      BY StartsClimb
    <3>2. Start(cs, K) <= total
      BY <1>4, <2>2
    <3> QED
      BY <1>1, <1>4, <3>1, <3>2
  <2> QED
    BY <2>1, <2>2
<1> DEFINE Least(k) == IF k <= K THEN k ELSE K
           Good == {k \in Nat : k <= n => IsAt(f[k], cs, Least(k))}
<1>6. 0 \in Good
  <2>1. f[0].offset = 6 /\ f[0].info = NoInfo
    BY <1>3
  <2>2. Start(cs, 0) = 6 /\ SubSeq(cs, 1, 0) = << >>
    BY StartFirst, PrefixNone
  <2>3. IsAt(f[0], cs, 0)
    BY <2>1, <2>2, KnowsNone, Zenon DEF IsAt
  <2>4. Least(0) = 0
    BY <1>4
  <2> QED
    BY <2>3, <2>4
<1>7. ASSUME NEW k \in Nat, k \in Good PROVE k + 1 \in Good
  <2>1. SUFFICES ASSUME k + 1 <= n PROVE IsAt(f[k + 1], cs, Least(k + 1))
    OBVIOUS
  <2>2. k <= n /\ k + 1 \in 1 .. n /\ k + 1 - 1 = k
    BY <1>1, <2>1
  <2>3. IsAt(f[k], cs, Least(k))
    BY <1>7, <2>2
  <2>4. PICK x : x = f[k]
    OBVIOUS
  <2>5. f[k + 1] = ReadChunk(pkt, total, x)
    BY <1>3, <2>2, <2>4
  <2>6. CASE k < K
    <3>1. Least(k) = k /\ Least(k + 1) = k + 1
      BY <1>4, <2>6
    <3>2. IsAt(x, cs, k)
      BY <2>3, <2>4, <3>1
    <3>3. k < Len(cs)
      BY <1>2, <1>4, <2>6
    <3>4. Start(cs, k + 1) <= total
      <4>1. k + 1 \in 0 .. Len(cs) /\ K \in 0 .. Len(cs) /\ k + 1 <= K /\ K > 0
        BY <1>2, <1>4, <2>6
      <4>2. Start(cs, k + 1) <= Start(cs, K) /\ Start(cs, K) \in Nat /\ Start(cs, k + 1) \in Nat
        BY <4>1, StartsClimb
      <4>3. Start(cs, K) <= total
        BY <4>1
      <4> QED
        BY <4>2, <4>3
    <3>5. IsAt(ReadChunk(pkt, total, x), cs, k + 1)
      BY <3>2, <3>3, <3>4, RoundReads
    <3> QED
      BY <2>5, <3>1, <3>5
  <2>7. CASE ~(k < K)
    <3>1. Least(k) = K /\ Least(k + 1) = K
      BY <1>4, <2>7
    <3>2. IsAt(x, cs, K)
      BY <2>3, <2>4, <3>1
    <3>3. ~ChunkThere(pkt, Start(cs, K), total)
      <4>1. CASE K = l
        BY <1>2, <4>1, NotThere
      <4>2. CASE K # l
        <5>1. K < Len(cs)
          BY <1>2, <1>4, <4>2
        <5>2. K + 1 \in 0 .. Len(cs)
          BY <1>2, <1>4, <4>2
        <5>3. Start(cs, K + 1) > total /\ Start(cs, K + 1) \in Nat
          BY <5>1, <5>2, StartsClimb
        <5>4. ~(Start(cs, K + 1) <= total)
          BY <5>3
        <5> QED
          BY <1>4, <5>1, <5>4, ThereIff
      <4> QED
        BY <4>1, <4>2
    <3>4. ~ChunkThere(pkt, x.offset, total)
      BY <3>2, <3>3, Zenon DEF IsAt
    <3>5. f[k + 1] = x
      BY <2>5, <3>4, RoundStays
    <3> QED
      BY <3>1, <3>2, <3>5
  <2> QED
    BY <2>6, <2>7
<1> HIDE DEF Good
<1>8. \A k \in Nat : k \in Good
  <2>1. \A k \in Nat : k \in Good => k + 1 \in Good
    BY <1>7
  <2> QED
    BY <1>6, <2>1, ClimbAll
<1>9. IsAt(f[n], cs, Least(n))
  BY <1>1, <1>8 DEF Good
<1>10. Least(n) = K
  BY <1>1, <1>4, <1>5
<1> HIDE DEF Least
<1> QED
  BY <1>3, <1>9, <1>10, Zenon DEF IsAt

-----------------------------------------------------------------------------
(***************************************************************************)
(* hepDecode                                                               *)
(***************************************************************************)
\* The number of bytes that count: those that came, or those the packet says.
Counted(length, n) == IF length < n THEN length ELSE n

\* The whole chunks, and what they say.
LEMMA KnownIs ==
    ASSUME NEW cs, NEW length, NEW n, NEW info,
           NEW r, r = Whole(cs, Counted(length, n)), Knows(info, r)
    PROVE  /\ \A field \in DOMAIN KnownOf(cs, length, n) :
                 info[field] = KnownOf(cs, length, n)[field]
           /\ KnownOf(cs, length, n).Payload = info.Payload
           /\ KnownOf(cs, length, n).ProtoType = info.ProtoType
<1>1. PICK known : known = KnownOf(cs, length, n)
  OBVIOUS
<1>2. known = [TSec |-> NumberIn(r, 9, 4), TUsec |-> NumberIn(r, 10, 4),
               SrcPort |-> NumberIn(r, 7, 2), ProtoType |-> NumberIn(r, 11, 1),
               Payload |-> LastData(r, 15, 0), NodePW |-> LastData(r, 14, 0),
               NodeName |-> TrimZeros(LastData(r, 19, 0))]
  BY <1>1, Zenon DEF KnownOf, NumberIn, Counted
<1>3. /\ info.TSec = NumberIn(r, 9, 4) /\ info.TUsec = NumberIn(r, 10, 4)
      /\ info.SrcPort = NumberIn(r, 7, 2) /\ info.ProtoType = NumberIn(r, 11, 1)
      /\ info.Payload = LastData(r, 15, 0) /\ info.NodePW = LastData(r, 14, 0)
      /\ info.NodeName = TrimZeros(LastData(r, 19, 0))
  BY Zenon DEF Knows
<1>4. /\ DOMAIN known = KnownFields
      /\ known.TSec = info.TSec /\ known.TUsec = info.TUsec /\ known.SrcPort = info.SrcPort
      /\ known.ProtoType = info.ProtoType /\ known.Payload = info.Payload
      /\ known.NodePW = info.NodePW /\ known.NodeName = info.NodeName
  BY ONLY <1>2, <1>3 DEF KnownFields
<1>5. \A field \in DOMAIN known : info[field] = known[field]
  BY <1>4, Zenon DEF KnownFields
<1> QED
  BY <1>1, <1>4, <1>5, Zenon

\* Of a packet without twelve bytes no chunk is whole.
LEMMA NoneWhole ==
    ASSUME NEW C, Chunked(C), NEW cs \in Seq(C), NEW m \in Nat, m < 12,
           NEW K \in 0 .. Len(cs), K > 0 => Start(cs, K) <= m
    PROVE  K = 0
<1>1. PICK l \in Nat : l = Len(cs)
  BY LenProperties
<1>2. SUFFICES ASSUME K # 0 PROVE FALSE
  OBVIOUS
<1>3. K \in Nat /\ K >= 1 /\ l >= 1 /\ K <= l
  BY <1>1, <1>2
<1>4. 0 < Len(cs) /\ 0 \in Nat /\ 0 + 1 = 1
  BY <1>1, <1>3
<1>5. Start(cs, 0) = 6 /\ Len(cs[1].data) \in Nat /\ Start(cs, 1) = Start(cs, 0) + 6 + Len(cs[1].data)
  BY <1>4, StartFirst, StartNext
<1>6. 1 \in 0 .. Len(cs)
  BY <1>1, <1>3
<1>7. Start(cs, 1) <= Start(cs, K) /\ Start(cs, 1) \in Nat /\ Start(cs, K) \in Nat
  BY <1>3, <1>6, StartsClimb
<1>8. Start(cs, 1) >= 12
  BY <1>5
<1>9. Start(cs, K) <= m
  BY <1>3
<1> QED
  BY <1>7, <1>8, <1>9

\* Whatever chunks an agent sends, whatever length the packet says and wherever it
\* is cut, hepDecode knows exactly what the whole chunks say: of every type the
\* last chunk with enough data, nothing beyond the end, and OK if there is a
\* payload or a protocol.
THEOREM DecodedIsSent ==
    ASSUME NEW C, Chunked(C), NEW cs \in Seq(C), NEW length \in Nat, NEW n \in 0 .. Size(cs)
    PROVE  DecodeAgreesOn(cs, length, n)
<1>1. PICK pkt : pkt = SubSeq(Packet(cs, length), 1, n)
  OBVIOUS
<1>2. IsCut(pkt, cs, length, n)
  BY <1>1 DEF IsCut
<1>3. pkt \in Seq(Nat) /\ Len(pkt) = n /\ n \in Nat
  BY <1>2, CutIs
<1>4. PICK m : m = Counted(length, n)
  OBVIOUS
<1>5. m \in Nat /\ m <= n
  BY <1>3, <1>4 DEF Counted
<1>6. PICK K \in 0 .. Len(cs) :
              /\ Whole(cs, m) = SubSeq(cs, 1, K)
              /\ K > 0 => Start(cs, K) <= m
              /\ K < Len(cs) => Start(cs, K + 1) > m
  BY <1>5, WholeIs
<1>7. PICK r : r = SubSeq(cs, 1, K)
  OBVIOUS
<1>8. ASSUME n < 12 PROVE r = << >>
  <2>1. m < 12
    BY <1>3, <1>5, <1>8
  <2>2. K = 0
    BY <1>5, <1>6, <2>1, NoneWhole
  <2> QED
    BY <1>7, <2>2, PrefixNone
<1>9. PICK decoded : decoded = hepDecode(pkt)
  OBVIOUS
<1>10. Knows(decoded.info, r) /\ (decoded.OK <=> decoded.info.Payload # << >> \/ decoded.info.ProtoType > 0)
  <2>1. CASE n < 6
    <3>1. decoded = [OK |-> FALSE, info |-> NoInfo]
      BY <1>3, <1>9, <2>1, Zenon DEF hepDecode
    <3>2. decoded.OK = FALSE /\ decoded.info = NoInfo
      BY ONLY <3>1
    <3>3. r = << >>
      BY <1>3, <1>8, <2>1
    <3>4. NoInfo.Payload = << >> /\ NoInfo.ProtoType = 0 /\ ~(0 > 0)
      BY DEF NoInfo
    <3> QED
      BY <3>2, <3>3, <3>4, KnowsNone, Zenon
  <2>2. CASE ~(n < 6)
    <3>1. n >= 6
      BY <1>3, <2>2
    <3>2. SubSeq(pkt, 1, 4) = Magic /\ Uint16(pkt, 5) = length
      BY <1>2, <3>1, CutHead
    <3>3. (IF length > n THEN n ELSE length) = m
      BY <1>3, <1>4 DEF Counted
    <3>4. PICK info : info = ReadChunks(pkt, m)
      OBVIOUS
    <3>5. decoded = [OK |-> info.Payload # << >> \/ info.ProtoType > 0, info |-> info]
      BY <1>3, <1>9, <2>2, <3>2, <3>3, <3>4, Zenon DEF hepDecode
    <3>6. decoded.OK = (info.Payload # << >> \/ info.ProtoType > 0) /\ decoded.info = info
      BY ONLY <3>5
    <3>7. Knows(ReadChunks(pkt, m), SubSeq(cs, 1, K))
      BY <1>2, <1>5, <1>6, LoopKnows
    <3> QED
      BY <1>7, <3>4, <3>6, <3>7, Zenon
  <2> QED
    BY <2>1, <2>2
<1>11. PICK info : info = decoded.info
  OBVIOUS
<1>12. r = Whole(cs, Counted(length, n)) /\ Knows(info, r)
  BY <1>4, <1>6, <1>7, <1>10, <1>11, Zenon
<1>13. /\ \A field \in DOMAIN KnownOf(cs, length, n) :
             info[field] = KnownOf(cs, length, n)[field]
       /\ KnownOf(cs, length, n).Payload = info.Payload
       /\ KnownOf(cs, length, n).ProtoType = info.ProtoType
  BY <1>12, KnownIs
<1>14. decoded.OK => n >= 12
  <2>1. SUFFICES ASSUME ~(n >= 12) PROVE ~decoded.OK
    OBVIOUS
  <2>2. r = << >>
    BY <1>3, <1>8, <2>1
  <2>3. info.Payload = << >> /\ info.ProtoType = 0
    <3>1. info.Payload = LastData(r, 15, 0) /\ info.ProtoType = NumberIn(r, 11, 1)
      BY <1>12, Zenon DEF Knows
    <3>2. LastData(<< >>, 15, 0) = << >> /\ NumberIn(<< >>, 11, 1) = 0
      BY LastNone, NumberNone, Zenon
    <3> QED
      BY <2>2, <3>1, <3>2, Zenon
  <2>4. ~(0 > 0)
    OBVIOUS
  <2> QED
    BY <1>10, <1>11, <2>3, <2>4, Zenon
<1> QED
  BY <1>1, <1>9, <1>10, <1>11, <1>13, <1>14, Zenon DEF DecodeAgreesOn
-----------------------------------------------------------------------------
(***************************************************************************)
(* The packets of the run                                                  *)
(***************************************************************************)
\* A packet under construction has chunks of the run.
HepInv == kind = "hep" => input \in Seq(Chunks)

\* They consist of chunks.
LEMMA ChunksAreChunks == Chunked(Chunks)
<1>1. ASSUME NEW type \in Nat, NEW data \in Seq(Nat) PROVE IsChunk(Chunk(type, data))
  BY DEF IsChunk, Chunk
<1>2. /\ <<7, 8>> \in Seq(Nat) /\ << >> \in Seq(Nat) /\ <<1>> \in Seq(Nat)
      /\ <<0, 1, 0, 2>> \in Seq(Nat) /\ <<1, 1, 1>> \in Seq(Nat) /\ <<19, 196, 1>> \in Seq(Nat)
      /\ <<65, 0, 0>> \in Seq(Nat) /\ <<72, 69>> \in Seq(Nat) /\ <<17>> \in Seq(Nat)
  OBVIOUS
<1>3. 15 \in Nat /\ 11 \in Nat /\ 9 \in Nat /\ 7 \in Nat /\ 19 \in Nat /\ 14 \in Nat /\ 2 \in Nat
  OBVIOUS
<1>4. /\ IsChunk(Chunk(15, <<7, 8>>)) /\ IsChunk(Chunk(15, << >>)) /\ IsChunk(Chunk(11, <<1>>))
      /\ IsChunk(Chunk(11, << >>)) /\ IsChunk(Chunk(9, <<0, 1, 0, 2>>))
      /\ IsChunk(Chunk(9, <<1, 1, 1>>)) /\ IsChunk(Chunk(7, <<19, 196, 1>>))
      /\ IsChunk(Chunk(19, <<65, 0, 0>>)) /\ IsChunk(Chunk(14, <<72, 69>>))
      /\ IsChunk(Chunk(2, <<17>>))
  BY <1>1, <1>2, <1>3, Zenon
<1> QED
  BY <1>4, Zenon DEF Chunked, Chunks

\* A step adds a chunk, or nothing.
LEMMA HepInputs == PureSpec => []HepInv
<1>1. PureInit => HepInv
  <2>1. SUFFICES ASSUME PureInit PROVE HepInv
    OBVIOUS
  <2>2. input = << >>
    BY <2>1 DEF PureInit
  <2> QED
    BY <2>2, EmptySeq DEF HepInv
<1>2. HepInv /\ [PureNext]_<<kind, input>> => HepInv'
  <2>1. SUFFICES ASSUME HepInv, [PureNext]_<<kind, input>>, kind' = "hep" PROVE input' \in Seq(Chunks)
    BY DEF HepInv
  <2>2. CASE Store
    BY <2>1, <2>2, Zenon DEF Store
  <2>3. CASE AddLine
    BY <2>1, <2>3, Zenon DEF AddLine
  <2>4. CASE AddChunk
    <3>1. input \in Seq(Chunks)
      BY <2>1, <2>4, Zenon DEF AddChunk, HepInv
    <3>2. PICK x \in Chunks : input' = Append(input, x)
      BY <2>4, Zenon DEF AddChunk
    <3> QED
      BY <3>1, <3>2, AppendProperties, Zenon
  <2>5. CASE UNCHANGED <<kind, input>>
    BY <2>1, <2>5, Zenon DEF HepInv
  <2> QED
    BY <2>1, <2>2, <2>3, <2>4, <2>5 DEF PureNext
<1> QED
  BY <1>1, <1>2, PTL DEF PureSpec

\* DecodeAgrees holds of the packets of any number of chunks.
THEOREM DecodeAgreesAlways == PureSpec => []DecodeAgrees
<1>1. HepInv => DecodeAgrees
  <2>1. SUFFICES ASSUME input \in Seq(Chunks),
                        NEW length \in {5, Size(input) - 1, Size(input), Size(input) + 1},
                        NEW n \in 0 .. Size(input)
                 PROVE  DecodeAgreesOn(input, length, n)
    BY Zenon DEF HepInv, DecodeAgrees
  <2>2. Chunked(Chunks)
    BY ChunksAreChunks
  <2>3. Size(input) \in Nat /\ Size(input) >= 6
    <3>1. Body(input) \in Seq(Nat)
      BY <2>1, <2>2, BodyType
    <3>2. Len(Body(input)) \in Nat
      BY <3>1, LenProperties
    <3> QED
      BY <3>2 DEF Size
  <2>4. length \in Nat
    BY <2>3
  <2> QED
    BY <2>1, <2>2, <2>4, DecodedIsSent
<1> QED
  BY <1>1, HepInputs, PTL
=============================================================================
