--------------------------- MODULE AccountsProofs ---------------------------
(***************************************************************************)
(* Proofs about Accounts, for any handlers, users and bounds: users stay   *)
(* distinct, and changes are kept until something disturbs a save.  The    *)
(* same is shown of the changes to the other files (WebFiles, which        *)
(* MCAccounts puts beside Accounts).                                       *)
(***************************************************************************)
EXTENDS MCAccounts, SequenceTheorems, FiniteSetTheorems, WellFoundedInduction, TLAPS

\* A set of numbers that is not empty has a least member.
LEMMA LeastNat ==
    ASSUME NEW T \in SUBSET Nat, T # {}
    PROVE  \E n \in T : \A k \in T : n <= k
<1>1. IsWellFoundedOn(OpToRel(<, Nat), Nat)
  BY NatLessThanWellFounded, Zenon
<1>2. PICK n \in T : \A k \in T : ~(<<k, n>> \in OpToRel(<, Nat))
  BY <1>1, WFMin, Zenon
<1>3. \A k \in T : ~(k < n)
  BY <1>2 DEF OpToRel
<1> QED
  BY <1>3

\* Induction over the numbers, with no operator as a parameter.
LEMMA ClimbAll ==
    ASSUME NEW Good, 0 \in Good, \A n \in Nat : n \in Good => n + 1 \in Good
    PROVE  \A n \in Nat : n \in Good
<1> DEFINE Bad == {n \in Nat : n \notin Good}
<1>1. SUFFICES ASSUME Bad # {} PROVE FALSE
  OBVIOUS
<1>2. Bad \in SUBSET Nat
  OBVIOUS
<1>3. PICK n \in Bad : \A k \in Bad : n <= k
  <2> HIDE DEF Bad
  <2> QED
    BY <1>1, <1>2, LeastNat
<1>4. n \in Nat /\ n # 0 /\ n - 1 \in Nat /\ n - 1 + 1 = n
  BY <1>3
<1>5. n - 1 \in Good
  BY <1>3, <1>4
<1> QED
  BY <1>3, <1>4, <1>5
-----------------------------------------------------------------------------
(***************************************************************************)
(* KeepOnly: the table of its recursion exists and is unique, so KeepOnly has  *)
(* the equations of a fold.                                                *)
(***************************************************************************)
Keep(f, s, S, i) == IF i = 0 THEN << >>
                    ELSE IF s[i] \in S THEN Append(f[i - 1], s[i]) ELSE f[i - 1]

IsKept(f, s, S, n) == f = [i \in 0 .. n |-> Keep(f, s, S, i)]

\* The table for the first n entries exists.
LEMMA KeptExists ==
    ASSUME NEW s, NEW S
    PROVE  \A n \in Nat : \E f : IsKept(f, s, S, n)
<1> DEFINE Good == {n \in Nat : \E f : IsKept(f, s, S, n)}
<1>1. 0 \in Good
  <2> DEFINE f == [i \in 0 .. 0 |-> << >>]
  <2>1. \A i \in 0 .. 0 : i = 0
    OBVIOUS
  <2>2. f = [i \in 0 .. 0 |-> Keep(f, s, S, i)]
    BY <2>1 DEF Keep
  <2>3. IsKept(f, s, S, 0)
    BY <2>2 DEF IsKept
  <2> QED
    BY <2>3
<1>2. ASSUME NEW n \in Nat, n \in Good PROVE n + 1 \in Good
  <2>1. PICK g : IsKept(g, s, S, n)
    BY <1>2
  <2> DEFINE f == [i \in 0 .. n + 1 |-> IF i = n + 1 THEN Keep(g, s, S, n + 1) ELSE g[i]]
  <2>2. ASSUME NEW i \in 0 .. n PROVE f[i] = g[i] /\ g[i] = Keep(g, s, S, i)
    <3>1. i \in 0 .. n + 1 /\ i # n + 1
      OBVIOUS
    <3>2. f[i] = g[i]
      BY <3>1
    <3>3. g = [k \in 0 .. n |-> Keep(g, s, S, k)]
      BY <2>1 DEF IsKept
    <3>4. g[i] = Keep(g, s, S, i)
      BY <3>3, Zenon
    <3> QED
      BY <3>2, <3>4
  <2>3. f[n + 1] = Keep(g, s, S, n + 1)
    OBVIOUS
  <2>4. f = [i \in 0 .. n + 1 |-> f[i]]
    OBVIOUS
  <2> HIDE DEF f
  <2>5. ASSUME NEW i \in 0 .. n + 1 PROVE f[i] = Keep(f, s, S, i)
    <3>1. CASE i = 0
      BY <2>2, <3>1 DEF Keep
    <3>2. CASE i # 0
      <4>1. f[i - 1] = g[i - 1]
        BY <2>2, <3>2
      <4>2. Keep(f, s, S, i) = Keep(g, s, S, i)
        BY <4>1, Zenon DEF Keep
      <4>3. i = n + 1 \/ i \in 0 .. n
        OBVIOUS
      <4> QED
        BY <2>2, <2>3, <4>2, <4>3
    <3> QED
      BY <3>1, <3>2
  <2>6. f = [i \in 0 .. n + 1 |-> Keep(f, s, S, i)]
    BY <2>4, <2>5
  <2>7. IsKept(f, s, S, n + 1)
    BY <2>6 DEF IsKept
  <2> QED
    BY <2>7
<1> HIDE DEF Good
<1>3. \A n \in Nat : n \in Good
  <2>1. \A n \in Nat : n \in Good => n + 1 \in Good
    BY <1>2
  <2> QED
    BY <1>1, <2>1, ClimbAll
<1> QED
  BY <1>3 DEF Good

\* Tables of sequences that start alike agree as far as those do.
LEMMA KeptAgree ==
    ASSUME NEW s, NEW t, NEW S, NEW m \in Nat, NEW n \in Nat, m <= n,
           \A i \in 1 .. m : s[i] = t[i],
           NEW f, IsKept(f, s, S, m), NEW g, IsKept(g, t, S, n)
    PROVE  f[m] = g[m]
<1> DEFINE Good == {k \in Nat : k <= m => f[k] = g[k]}
<1>1. \A k \in 0 .. m : f[k] = Keep(f, s, S, k)
  <2>1. f = [i \in 0 .. m |-> Keep(f, s, S, i)]
    BY DEF IsKept
  <2> QED
    BY <2>1, Zenon
<1>2. \A k \in 0 .. n : g[k] = Keep(g, t, S, k)
  <2>1. g = [i \in 0 .. n |-> Keep(g, t, S, i)]
    BY DEF IsKept
  <2> QED
    BY <2>1, Zenon
<1>3. 0 \in Good
  <2>1. 0 \in 0 .. m /\ 0 \in 0 .. n
    OBVIOUS
  <2>2. f[0] = << >> /\ g[0] = << >>
    BY <1>1, <1>2, <2>1 DEF Keep
  <2> QED
    BY <2>2
<1>4. ASSUME NEW k \in Nat, k \in Good PROVE k + 1 \in Good
  <2>1. SUFFICES ASSUME k + 1 <= m PROVE f[k + 1] = g[k + 1]
    OBVIOUS
  <2>2. k + 1 \in 0 .. m /\ k + 1 \in 0 .. n /\ k + 1 \in 1 .. m /\ k + 1 # 0 /\ k + 1 - 1 = k /\ k <= m
    BY <2>1
  <2>3. f[k] = g[k]
    BY <1>4, <2>2
  <2>4. s[k + 1] = t[k + 1]
    BY <2>2
  <2>5. f[k + 1] = IF s[k + 1] \in S THEN Append(f[k], s[k + 1]) ELSE f[k]
    BY <1>1, <2>2 DEF Keep
  <2>6. g[k + 1] = IF t[k + 1] \in S THEN Append(g[k], t[k + 1]) ELSE g[k]
    BY <1>2, <2>2 DEF Keep
  <2> QED
    BY <2>3, <2>4, <2>5, <2>6
<1> HIDE DEF Good
<1>5. m \in Good
  <2>1. \A k \in Nat : k \in Good => k + 1 \in Good
    BY <1>4
  <2>2. \A k \in Nat : k \in Good
    BY <1>3, <2>1, ClimbAll
  <2> QED
    BY <2>2
<1> QED
  BY <1>5 DEF Good

\* KeepOnly is the last entry of its table.
LEMMA KeepOnlyIs ==
    ASSUME NEW s, Len(s) \in Nat, NEW S
    PROVE  \E f : IsKept(f, s, S, Len(s)) /\ KeepOnly(s, S) = f[Len(s)]
<1> DEFINE f == CHOOSE f : IsKept(f, s, S, Len(s))
<1>1. IsKept(f, s, S, Len(s))
  BY KeptExists
<1>2. KeepOnly(s, S) = f[Len(s)]
  BY DEF KeepOnly, IsKept, Keep
<1> QED
  BY <1>1, <1>2

\* Nothing is kept of nothing.
LEMMA KeepNone ==
    ASSUME NEW S
    PROVE  KeepOnly(<< >>, S) = << >>
<1>1. Len(<< >>) = 0
  OBVIOUS
<1>2. PICK f : IsKept(f, << >>, S, 0) /\ KeepOnly(<< >>, S) = f[0]
  BY <1>1, KeepOnlyIs
<1>3. f = [i \in 0 .. 0 |-> Keep(f, << >>, S, i)]
  BY <1>2 DEF IsKept
<1>4. f[0] = Keep(f, << >>, S, 0)
  <2>1. 0 \in 0 .. 0
    OBVIOUS
  <2> QED
    BY <1>3, <2>1, Zenon
<1> QED
  BY <1>2, <1>4 DEF Keep

\* The last entry is kept or not, after what is kept of those before it.
LEMMA KeepLast ==
    ASSUME NEW T, NEW s \in Seq(T), NEW x \in T, NEW S
    PROVE  KeepOnly(Append(s, x), S) = IF x \in S THEN Append(KeepOnly(s, S), x) ELSE KeepOnly(s, S)
<1>1. PICK n \in Nat : n = Len(s)
  BY LenProperties
<1>2. PICK t : t = Append(s, x)
  OBVIOUS
<1>3. Len(t) = n + 1 /\ t[n + 1] = x /\ \A i \in 1 .. n : s[i] = t[i]
  BY <1>1, <1>2, AppendProperties
<1>4. PICK f : IsKept(f, s, S, n) /\ KeepOnly(s, S) = f[n]
  BY <1>1, KeepOnlyIs
<1>5. PICK g : IsKept(g, t, S, n + 1) /\ KeepOnly(t, S) = g[n + 1]
  BY <1>3, KeepOnlyIs
<1>6. f[n] = g[n]
  <2>1. n + 1 \in Nat /\ n <= n + 1
    OBVIOUS
  <2> QED
    BY <1>3, <1>4, <1>5, <2>1, KeptAgree
<1>7. g[n + 1] = Keep(g, t, S, n + 1)
  <2>1. n + 1 \in 0 .. n + 1
    OBVIOUS
  <2>2. g = [i \in 0 .. n + 1 |-> Keep(g, t, S, i)]
    BY <1>5 DEF IsKept
  <2> QED
    BY <2>1, <2>2, Zenon
<1>8. Keep(g, t, S, n + 1) = IF x \in S THEN Append(g[n], x) ELSE g[n]
  <2>1. n + 1 # 0 /\ n + 1 - 1 = n
    OBVIOUS
  <2> QED
    BY <1>3, <2>1 DEF Keep
<1>9. KeepOnly(t, S) = IF x \in S THEN Append(KeepOnly(s, S), x) ELSE KeepOnly(s, S)
  BY <1>4, <1>5, <1>6, <1>7, <1>8
<1> QED
  BY <1>2, <1>9
-----------------------------------------------------------------------------
(***************************************************************************)
(* What KeepOnly returns                                                     *)
(***************************************************************************)
\* Induction over sequences.
LEMMA SeqClimb ==
    ASSUME NEW T, NEW Good, << >> \in Good,
           \A s \in Seq(T), x \in T : s \in Good => Append(s, x) \in Good
    PROVE  \A s \in Seq(T) : s \in Good
<1> DEFINE Lens == {n \in Nat : \A s \in Seq(T) : Len(s) = n => s \in Good}
<1>1. 0 \in Lens
  <2>1. \A s \in Seq(T) : Len(s) = 0 => s = << >>
    BY EmptySeq
  <2> QED
    BY <2>1
<1>2. ASSUME NEW n \in Nat, n \in Lens PROVE n + 1 \in Lens
  <2>1. ASSUME NEW s \in Seq(T), Len(s) = n + 1 PROVE s \in Good
    <3>1. s # << >>
      BY <2>1, EmptySeq
    <3>2. PICK r \in Seq(T), x \in T : s = Append(r, x)
      BY <3>1, SequenceEmptyOrAppend
    <3>3. Len(r) \in Nat /\ Len(s) = Len(r) + 1
      BY <3>2, AppendProperties, LenProperties
    <3>4. Len(r) = n
      BY <2>1, <3>3
    <3> QED
      BY <1>2, <3>2, <3>4
  <2> QED
    BY <2>1
<1> HIDE DEF Lens
<1>3. \A n \in Nat : n \in Lens
  <2>1. \A n \in Nat : n \in Lens => n + 1 \in Lens
    BY <1>2
  <2> QED
    BY <1>1, <2>1, ClimbAll
<1>4. ASSUME NEW s \in Seq(T) PROVE s \in Good
  <2>1. Len(s) \in Nat
    BY LenProperties
  <2>2. Len(s) \in Lens
    BY <1>3, <2>1
  <2> QED
    BY <2>2 DEF Lens
<1> QED
  BY <1>4

\* What is kept has the type of the list.
LEMMA KeepType ==
    ASSUME NEW T, NEW S
    PROVE  \A s \in Seq(T) : KeepOnly(s, S) \in Seq(T)
<1> DEFINE Good == {s \in Seq(T) : KeepOnly(s, S) \in Seq(T)}
<1>1. << >> \in Good
  BY KeepNone, EmptySeq
<1>2. ASSUME NEW s \in Seq(T), NEW x \in T, s \in Good PROVE Append(s, x) \in Good
  <2>1. Append(s, x) \in Seq(T) /\ Append(KeepOnly(s, S), x) \in Seq(T)
    BY <1>2, AppendProperties
  <2>2. KeepOnly(Append(s, x), S) = IF x \in S THEN Append(KeepOnly(s, S), x) ELSE KeepOnly(s, S)
    BY KeepLast
  <2> QED
    BY <1>2, <2>1, <2>2
<1> HIDE DEF Good
<1>3. \A s \in Seq(T) : s \in Good
  BY <1>1, <1>2, SeqClimb
<1> QED
  BY <1>3 DEF Good

\* The users of a list, whatever their order.
Items(list) == {list[i] : i \in DOMAIN list}

\* The entries of a longer list.
LEMMA ItemsAppend ==
    ASSUME NEW T, NEW s \in Seq(T), NEW x \in T
    PROVE  Items(Append(s, x)) = Items(s) \cup {x}
<1>1. PICK n \in Nat : n = Len(s) /\ DOMAIN s = 1 .. n
  BY LenProperties
<1>2. PICK t \in Seq(T) : t = Append(s, x)
  BY AppendProperties
<1>3. Len(t) = n + 1 /\ t[n + 1] = x /\ \A i \in 1 .. n : t[i] = s[i]
  BY <1>1, <1>2, AppendProperties
<1>4. DOMAIN t = 1 .. n + 1
  BY <1>3, LenProperties
<1>5. Items(t) \subseteq Items(s) \cup {x}
  <2>1. ASSUME NEW i \in 1 .. n + 1 PROVE t[i] \in Items(s) \cup {x}
    <3>1. i = n + 1 \/ i \in 1 .. n
      OBVIOUS
    <3> QED
      BY <1>1, <1>3, <3>1 DEF Items
  <2> QED
    BY <1>4, <2>1 DEF Items
<1>6. Items(s) \subseteq Items(t)
  <2>1. ASSUME NEW i \in 1 .. n PROVE s[i] \in Items(t)
    <3>1. i \in 1 .. n + 1
      OBVIOUS
    <3> QED
      BY <1>3, <1>4, <3>1 DEF Items
  <2> QED
    BY <1>1, <2>1 DEF Items
<1>7. x \in Items(t)
  <2>1. n + 1 \in 1 .. n + 1
    OBVIOUS
  <2> QED
    BY <1>3, <1>4, <2>1 DEF Items
<1> QED
  BY <1>2, <1>5, <1>6, <1>7

\* What is kept is what is there and in the set.
LEMMA KeepItems ==
    ASSUME NEW T, NEW S
    PROVE  \A s \in Seq(T) : Items(KeepOnly(s, S)) = Items(s) \cap S
<1> DEFINE Good == {s \in Seq(T) : Items(KeepOnly(s, S)) = Items(s) \cap S}
<1>1. << >> \in Good
  <2>1. Items(<< >>) = {}
    BY DEF Items
  <2> QED
    BY <2>1, KeepNone, EmptySeq
<1>2. ASSUME NEW s \in Seq(T), NEW x \in T, s \in Good PROVE Append(s, x) \in Good
  <2>1. Append(s, x) \in Seq(T)
    BY AppendProperties
  <2>2. KeepOnly(Append(s, x), S) = IF x \in S THEN Append(KeepOnly(s, S), x) ELSE KeepOnly(s, S)
    BY KeepLast
  <2>3. KeepOnly(s, S) \in Seq(T)
    BY KeepType
  <2>4. /\ Items(Append(s, x)) = Items(s) \cup {x}
        /\ Items(Append(KeepOnly(s, S), x)) = Items(KeepOnly(s, S)) \cup {x}
    BY <2>3, ItemsAppend
  <2>5. Items(KeepOnly(s, S)) = Items(s) \cap S
    BY <1>2
  <2>6. CASE x \in S
    BY <2>1, <2>2, <2>4, <2>5, <2>6
  <2>7. CASE x \notin S
    BY <2>1, <2>2, <2>4, <2>5, <2>7
  <2> QED
    BY <2>6, <2>7
<1> HIDE DEF Good
<1>3. \A s \in Seq(T) : s \in Good
  BY <1>1, <1>2, SeqClimb
<1> QED
  BY <1>3 DEF Good
-----------------------------------------------------------------------------
(***************************************************************************)
(* What a change makes of a list of users                                  *)
(***************************************************************************)
\* The three kinds of change.
LEMMA JobsAre ==
    ASSUME NEW j \in Jobs
    PROVE  \/ j.op = "add" /\ j.name \in Names /\ j.role \in {"admin", "viewer"} /\ j.pw \in Passwords
           \/ j.op = "delete" /\ j.id \in Nat
           \/ j.op = "password" /\ j.id \in Nat /\ j.pw \in Passwords
  BY AccountsAssumption DEF Jobs

\* Two entries of a longer list are distinct if they were, and the new one is new.
LEMMA DistinctAppend ==
    ASSUME NEW s \in Seq(UserRecords), NEW x \in UserRecords
    PROVE  Distinct(Append(s, x)) <=>
               Distinct(s) /\ \A y \in Items(s) : y.id # x.id /\ y.name # x.name
<1>1. PICK n \in Nat : n = Len(s) /\ DOMAIN s = 1 .. n
  BY LenProperties
<1>2. PICK t \in Seq(UserRecords) : t = Append(s, x)
  BY AppendProperties
<1>3. Len(t) = n + 1 /\ t[n + 1] = x /\ \A i \in 1 .. n : t[i] = s[i]
  BY <1>1, <1>2, AppendProperties
<1>4. DOMAIN t = 1 .. n + 1
  BY <1>3, LenProperties
<1>5. ASSUME Distinct(t)
      PROVE  Distinct(s) /\ \A y \in Items(s) : y.id # x.id /\ y.name # x.name
  <2>1. Distinct(s)
    <3>1. ASSUME NEW i \in 1 .. n, NEW k \in 1 .. n, i # k
          PROVE  s[i].id # s[k].id /\ s[i].name # s[k].name
      <4>1. i \in 1 .. n + 1 /\ k \in 1 .. n + 1
        OBVIOUS
      <4>2. t[i].id # t[k].id /\ t[i].name # t[k].name
        BY <1>4, <1>5, <3>1, <4>1 DEF Distinct
      <4> QED
        BY <1>3, <4>2
    <3> QED
      BY <1>1, <3>1 DEF Distinct
  <2>2. ASSUME NEW i \in 1 .. n PROVE s[i].id # x.id /\ s[i].name # x.name
    <3>1. i \in 1 .. n + 1 /\ n + 1 \in 1 .. n + 1 /\ i # n + 1
      OBVIOUS
    <3>2. t[i].id # t[n + 1].id /\ t[i].name # t[n + 1].name
      BY <1>4, <1>5, <3>1 DEF Distinct
    <3> QED
      BY <1>3, <3>2
  <2> QED
    BY <1>1, <2>1, <2>2 DEF Items
<1>6. ASSUME Distinct(s), \A y \in Items(s) : y.id # x.id /\ y.name # x.name
      PROVE  Distinct(t)
  <2>1. \A i \in 1 .. n : t[i].id # x.id /\ t[i].name # x.name
    BY <1>1, <1>3, <1>6 DEF Items
  <2>2. ASSUME NEW i \in 1 .. n + 1, NEW k \in 1 .. n + 1, i # k
        PROVE  t[i].id # t[k].id /\ t[i].name # t[k].name
    <3>1. CASE i = n + 1
      <4>1. k \in 1 .. n
        BY <2>2, <3>1
      <4> QED
        BY <1>3, <2>1, <3>1, <4>1
    <3>2. CASE k = n + 1
      <4>1. i \in 1 .. n
        BY <2>2, <3>2
      <4> QED
        BY <1>3, <2>1, <3>2, <4>1
    <3>3. CASE i # n + 1 /\ k # n + 1
      <4>1. i \in 1 .. n /\ k \in 1 .. n
        BY <3>3
      <4>2. s[i].id # s[k].id /\ s[i].name # s[k].name
        BY <1>1, <1>6, <2>2, <4>1 DEF Distinct
      <4> QED
        BY <1>3, <4>1, <4>2
    <3> QED
      BY <3>1, <3>2, <3>3
  <2> QED
    BY <1>4, <2>2 DEF Distinct
<1> QED
  BY <1>2, <1>5, <1>6

\* What is kept of distinct users is distinct.
LEMMA KeepDistinct ==
    ASSUME NEW S
    PROVE  \A s \in Seq(UserRecords) : Distinct(s) => Distinct(KeepOnly(s, S))
<1> DEFINE Good == {s \in Seq(UserRecords) : Distinct(s) => Distinct(KeepOnly(s, S))}
<1>1. << >> \in Good
  BY KeepNone, EmptySeq
<1>2. ASSUME NEW s \in Seq(UserRecords), NEW x \in UserRecords, s \in Good PROVE Append(s, x) \in Good
  <2>1. Append(s, x) \in Seq(UserRecords)
    BY AppendProperties
  <2>2. KeepOnly(Append(s, x), S) = IF x \in S THEN Append(KeepOnly(s, S), x) ELSE KeepOnly(s, S)
    BY KeepLast
  <2>3. PICK k \in Seq(UserRecords) : k = KeepOnly(s, S)
    BY KeepType
  <2>4. SUFFICES ASSUME Distinct(Append(s, x)) PROVE Distinct(KeepOnly(Append(s, x), S))
    BY <2>1
  <2>5. Distinct(s) /\ \A y \in Items(s) : y.id # x.id /\ y.name # x.name
    BY <2>4, DistinctAppend
  <2>6. Distinct(k)
    BY <1>2, <2>3, <2>5
  <2>7. Items(k) \subseteq Items(s)
    BY <2>3, KeepItems
  <2>8. Distinct(Append(k, x))
    BY <2>5, <2>6, <2>7, DistinctAppend
  <2>9. CASE x \in S
    BY <2>2, <2>3, <2>8, <2>9
  <2>10. CASE x \notin S
    BY <2>2, <2>3, <2>6, <2>10
  <2> QED
    BY <2>9, <2>10
<1> HIDE DEF Good
<1>3. \A s \in Seq(UserRecords) : s \in Good
  BY <1>1, <1>2, SeqClimb
<1> QED
  BY <1>3 DEF Good

\* The ids of a list are those of its users.
LEMMA IdsAre ==
    ASSUME NEW s \in Seq(UserRecords)
    PROVE  /\ IdsOf(s) = {u.id : u \in Items(s)} /\ NamesOf(s) = {u.name : u \in Items(s)}
           /\ Items(s) \subseteq UserRecords /\ IdsOf(s) \subseteq Nat
<1>1. \A i \in DOMAIN s : s[i] \in UserRecords
  BY LenProperties, ElementOfSeq
<1>2. Items(s) \subseteq UserRecords
  BY <1>1 DEF Items
<1>3. \A u \in UserRecords : u.id \in Nat
  BY DEF UserRecords
<1>4. IdsOf(s) = {u.id : u \in Items(s)} /\ NamesOf(s) = {u.name : u \in Items(s)}
  BY DEF IdsOf, NamesOf, Items
<1> QED
  BY <1>2, <1>3, <1>4

\* A list has a largest id, or none.
LEMMA LargestId ==
    \A s \in Seq(UserRecords) : \E m \in IdsOf(s) \cup {0} : \A k \in IdsOf(s) \cup {0} : k <= m
<1> DEFINE Good == {s \in Seq(UserRecords) :
                      \E m \in IdsOf(s) \cup {0} : \A k \in IdsOf(s) \cup {0} : k <= m}
<1>1. << >> \in Good
  <2>1. IdsOf(<< >>) = {}
    BY DEF IdsOf
  <2> QED
    BY <2>1, EmptySeq
<1>2. ASSUME NEW s \in Seq(UserRecords), NEW x \in UserRecords, s \in Good PROVE Append(s, x) \in Good
  <2>1. PICK t \in Seq(UserRecords) : t = Append(s, x)
    BY AppendProperties
  <2>2. Items(t) = Items(s) \cup {x}
    BY <2>1, ItemsAppend
  <2>3. IdsOf(t) = IdsOf(s) \cup {x.id}
    BY <2>2, IdsAre
  <2>4. PICK m \in IdsOf(s) \cup {0} : \A k \in IdsOf(s) \cup {0} : k <= m
    BY <1>2
  <2>5. m \in Nat /\ x.id \in Nat /\ IdsOf(s) \subseteq Nat
    <3>1. IdsOf(s) \subseteq Nat
      BY IdsAre
    <3>2. x.id \in Nat
      BY DEF UserRecords
    <3> QED
      BY <2>4, <3>1, <3>2
  <2>6. CASE x.id <= m
    <3>1. m \in IdsOf(t) \cup {0} /\ \A k \in IdsOf(t) \cup {0} : k <= m
      BY <2>3, <2>4, <2>6
    <3> QED
      BY <2>1, <3>1
  <2>7. CASE ~(x.id <= m)
    <3>1. x.id \in IdsOf(t) \cup {0}
      BY <2>3
    <3>2. \A k \in IdsOf(s) \cup {0} : k <= x.id
      BY <2>4, <2>5, <2>7
    <3>3. \A k \in IdsOf(t) \cup {0} : k <= x.id
      BY <2>3, <2>5, <3>2
    <3> QED
      BY <2>1, <3>1, <3>3
  <2> QED
    BY <2>6, <2>7
<1> HIDE DEF Good
<1>3. \A s \in Seq(UserRecords) : s \in Good
  BY <1>1, <1>2, SeqClimb
<1> QED
  BY <1>3 DEF Good

\* The id of a new user: one more than the largest.
LEMMA NextIdIs ==
    ASSUME NEW s \in Seq(UserRecords)
    PROVE  /\ NextId(s) \in Nat \ {0} /\ NextId(s) - 1 \in IdsOf(s) \cup {0}
           /\ \A k \in IdsOf(s) \cup {0} : k < NextId(s)
<1> DEFINE ids == IdsOf(s) \cup {0}
           m == CHOOSE n \in ids : \A k \in ids : k <= n
<1>1. m \in ids /\ \A k \in ids : k <= m
  BY LargestId
<1>2. ids \subseteq Nat
  BY IdsAre
<1>3. NextId(s) = 1 + m
  BY DEF NextId
<1> HIDE DEF ids, m
<1>4. NextId(s) \in Nat \ {0} /\ NextId(s) - 1 = m
  BY <1>1, <1>2, <1>3
<1>5. \A k \in ids : k < NextId(s)
  BY <1>1, <1>2, <1>3
<1> QED
  BY <1>1, <1>4, <1>5 DEF ids

\* A user is added.
LEMMA AddedIs ==
    ASSUME NEW s \in Seq(UserRecords), NEW j \in Jobs, j.op = "add"
    PROVE  \E x \in UserRecords :
              /\ x = [id |-> NextId(s), name |-> j.name, role |-> j.role, pw |-> j.pw]
              /\ Added(s, j) = Append(s, x)
<1>1. NextId(s) \in Nat
  BY NextIdIs
<1>2. [id |-> NextId(s), name |-> j.name, role |-> j.role, pw |-> j.pw] \in UserRecords
  BY <1>1, JobsAre DEF UserRecords
<1> QED
  BY <1>2 DEF Added

\* The user whose password is changed, or none.
LEMMA RepasswordedIs ==
    ASSUME NEW s \in Seq(UserRecords), NEW j \in Jobs, j.op = "password"
    PROVE  /\ Repassworded(s, j) \in Seq(UserRecords) /\ DOMAIN Repassworded(s, j) = DOMAIN s
           /\ \A i \in DOMAIN s :
                 LET v == Repassworded(s, j)[i] IN
                 /\ v.id = s[i].id /\ v.name = s[i].name
                 /\ \/ v = s[i]
                    \/ s[i].id = j.id /\ v = [s[i] EXCEPT !.pw = j.pw]
                 /\ s[i].id = j.id /\ (\A k \in 1 .. i - 1 : s[k].id # j.id)
                       => v = [s[i] EXCEPT !.pw = j.pw]
<1>1. PICK n \in Nat : n = Len(s) /\ DOMAIN s = 1 .. n
  BY LenProperties
<1>2. PICK t : t = Repassworded(s, j)
  OBVIOUS
<1>3. t = [i \in 1 .. n |->
             IF s[i].id = j.id /\ \A k \in 1 .. i - 1 : s[k].id # j.id
             THEN [s[i] EXCEPT !.pw = j.pw] ELSE s[i]]
  BY <1>1, <1>2 DEF Repassworded
<1>4. \A i \in 1 .. n : s[i] \in UserRecords
  BY <1>1, ElementOfSeq
<1>5. ASSUME NEW i \in 1 .. n
      PROVE  /\ t[i] \in UserRecords /\ t[i].id = s[i].id /\ t[i].name = s[i].name
             /\ \/ t[i] = s[i]
                \/ s[i].id = j.id /\ t[i] = [s[i] EXCEPT !.pw = j.pw]
             /\ s[i].id = j.id /\ (\A k \in 1 .. i - 1 : s[k].id # j.id)
                   => t[i] = [s[i] EXCEPT !.pw = j.pw]
  <2>1. PICK u \in UserRecords : u = s[i]
    BY <1>4
  <2>2. j.pw \in Passwords
    BY JobsAre
  <2>3. PICK v : v = [u EXCEPT !.pw = j.pw]
    OBVIOUS
  <2>4. v \in UserRecords /\ v.id = u.id /\ v.name = u.name
    BY <2>2, <2>3 DEF UserRecords
  <2>5. t[i] = IF s[i].id = j.id /\ \A k \in 1 .. i - 1 : s[k].id # j.id THEN v ELSE u
    BY <1>3, <2>1, <2>3
  <2>6. CASE s[i].id = j.id /\ \A k \in 1 .. i - 1 : s[k].id # j.id
    BY <2>1, <2>3, <2>4, <2>5, <2>6
  <2>7. CASE ~(s[i].id = j.id /\ \A k \in 1 .. i - 1 : s[k].id # j.id)
    BY <2>1, <2>5, <2>7
  <2> QED
    BY <2>6, <2>7
<1>6. DOMAIN t = 1 .. n
  BY <1>3
<1>7. t \in Seq(UserRecords)
  <2>1. t = [i \in 1 .. n |-> t[i]]
    BY <1>3
  <2>2. \A i \in 1 .. n : t[i] \in UserRecords
    BY <1>5
  <2> QED
    BY <2>1, <2>2, IsASeq
<1> QED
  BY <1>1, <1>2, <1>5, <1>6, <1>7

\* A change makes a list of users, with ids up to one more than there were.
LEMMA ChangedType ==
    ASSUME NEW s \in Seq(UserRecords), NEW j \in Jobs, NEW n \in Nat,
           \A k \in IdsOf(s) : k <= n
    PROVE  Changed(s, j) \in Seq(UserRecords) /\ \A k \in IdsOf(Changed(s, j)) : k <= n + 1
<1>0. IdsOf(s) \subseteq Nat
  BY IdsAre
<1>1. CASE j.op = "add"
  <2>1. PICK x \in UserRecords :
           /\ x = [id |-> NextId(s), name |-> j.name, role |-> j.role, pw |-> j.pw]
           /\ Added(s, j) = Append(s, x)
    BY <1>1, AddedIs
  <2>2. Changed(s, j) = Append(s, x)
    BY <1>1, <2>1 DEF Changed
  <2>3. PICK t \in Seq(UserRecords) : t = Append(s, x)
    BY AppendProperties
  <2>4. Items(t) = Items(s) \cup {x}
    BY <2>3, ItemsAppend
  <2>5. IdsOf(t) = IdsOf(s) \cup {x.id}
    BY <2>4, IdsAre
  <2>6. x.id = NextId(s)
    BY <2>1
  <2>7. x.id \in Nat /\ x.id <= n + 1
    <3>1. NextId(s) \in Nat \ {0} /\ NextId(s) - 1 \in IdsOf(s) \cup {0}
      BY NextIdIs
    <3>2. NextId(s) - 1 <= n
      BY <3>1
    <3> QED
      BY <2>6, <3>1, <3>2
  <2>8. \A k \in IdsOf(s) : k <= n + 1
    BY <1>0
  <2> QED
    BY <2>2, <2>3, <2>5, <2>7, <2>8
<1>2. CASE j.op = "delete"
  <2> DEFINE S == {u \in UserRecords : u.id # j.id}
  <2>1. Changed(s, j) = KeepOnly(s, S)
    BY <1>2 DEF Changed, Removed
  <2> HIDE DEF S
  <2>2. KeepOnly(s, S) \in Seq(UserRecords) /\ Items(KeepOnly(s, S)) \subseteq Items(s)
    BY KeepType, KeepItems
  <2>3. IdsOf(KeepOnly(s, S)) \subseteq IdsOf(s)
    BY <2>2, IdsAre
  <2>4. \A k \in IdsOf(s) : k <= n + 1
    BY <1>0
  <2> QED
    BY <2>1, <2>2, <2>3, <2>4
<1>3. CASE j.op = "password"
  <2>1. Changed(s, j) = Repassworded(s, j)
    BY <1>3 DEF Changed
  <2>2. PICK t : t = Repassworded(s, j)
    OBVIOUS
  <2>3. /\ t \in Seq(UserRecords) /\ DOMAIN t = DOMAIN s
        /\ \A i \in DOMAIN s : t[i].id = s[i].id /\ t[i].name = s[i].name
    BY <1>3, <2>2, RepasswordedIs
  <2>4. IdsOf(t) = IdsOf(s)
    BY <2>3 DEF IdsOf
  <2>5. \A k \in IdsOf(s) : k <= n + 1
    BY <1>0
  <2> QED
    BY <2>1, <2>2, <2>3, <2>4, <2>5
<1> QED
  BY <1>1, <1>2, <1>3, JobsAre

\* A change that is not refused keeps the users distinct.
LEMMA ChangedDistinct ==
    ASSUME NEW s \in Seq(UserRecords), NEW j \in Jobs, Distinct(s), ~Refused(s, j)
    PROVE  Distinct(Changed(s, j))
<1>1. CASE j.op = "add"
  <2>1. PICK x \in UserRecords :
           /\ x = [id |-> NextId(s), name |-> j.name, role |-> j.role, pw |-> j.pw]
           /\ Added(s, j) = Append(s, x)
    BY <1>1, AddedIs
  <2>2. Changed(s, j) = Append(s, x)
    BY <1>1, <2>1 DEF Changed
  <2>3. x.id = NextId(s) /\ x.name = j.name
    BY <2>1
  <2>4. j.name \notin NamesOf(s)
    BY <1>1 DEF Refused
  <2>5. ASSUME NEW y \in Items(s) PROVE y.id # x.id /\ y.name # x.name
    <3>1. y.id \in IdsOf(s) /\ y.name \in NamesOf(s) /\ y.id \in Nat
      BY IdsAre DEF UserRecords
    <3>2. y.id < NextId(s) /\ NextId(s) \in Nat
      BY <3>1, NextIdIs
    <3> QED
      BY <2>3, <2>4, <3>1, <3>2
  <2> QED
    BY <2>2, <2>5, DistinctAppend
<1>2. CASE j.op = "delete"
  BY <1>2, KeepDistinct DEF Changed, Removed
<1>3. CASE j.op = "password"
  <2>1. Changed(s, j) = Repassworded(s, j)
    BY <1>3 DEF Changed
  <2>2. PICK t : t = Repassworded(s, j)
    OBVIOUS
  <2>3. DOMAIN t = DOMAIN s /\ \A i \in DOMAIN s : t[i].id = s[i].id /\ t[i].name = s[i].name
    BY <1>3, <2>2, RepasswordedIs
  <2> QED
    BY <2>1, <2>2, <2>3 DEF Distinct
<1> QED
  BY <1>1, <1>2, <1>3, JobsAre

\* A change means for the users in the list what Effect says.
LEMMA ChangedEffect ==
    ASSUME NEW s \in Seq(UserRecords), NEW j \in Jobs, Distinct(s),
           NEW n \in Nat, n < MaxChanges, \A k \in IdsOf(s) : k <= n + 1
    PROVE  Items(Changed(s, j)) = Effect(Items(s), j)
<1>1. CASE j.op = "add"
  <2>1. PICK x \in UserRecords :
           /\ x = [id |-> NextId(s), name |-> j.name, role |-> j.role, pw |-> j.pw]
           /\ Added(s, j) = Append(s, x)
    BY <1>1, AddedIs
  <2>2. Changed(s, j) = Append(s, x)
    BY <1>1, <2>1 DEF Changed
  <2>3. Items(Append(s, x)) = Items(s) \cup {x}
    BY ItemsAppend
  <2> DEFINE ids == {u.id : u \in Items(s)} \cup {0}
             new == CHOOSE k \in 1 .. MaxChanges + 1 : k - 1 \in ids /\ \A i \in ids : i < k
  <2>4. ids = IdsOf(s) \cup {0} /\ IdsOf(s) \subseteq Nat
    BY IdsAre
  <2>5. new = NextId(s)
    <3> HIDE DEF ids
    <3>1. /\ NextId(s) \in Nat \ {0} /\ NextId(s) - 1 \in ids /\ \A i \in ids : i < NextId(s)
      BY <2>4, NextIdIs
    <3>2. NextId(s) \in 1 .. MaxChanges + 1
      <4>1. NextId(s) - 1 <= n + 1
        BY <2>4, <3>1
      <4> QED
        BY <3>1, <4>1, AccountsAssumption
    <3>3. ASSUME NEW k \in 1 .. MaxChanges + 1, k - 1 \in ids, \A i \in ids : i < k
          PROVE  k = NextId(s)
      <4>1. k - 1 < NextId(s) /\ NextId(s) - 1 < k /\ k \in Int
        BY <3>1, <3>3
      <4> QED
        BY <3>1, <4>1
    <3> QED
      BY <3>1, <3>2, <3>3
  <2>6. Effect(Items(s), j) =
          Items(s) \cup {[id |-> new, name |-> j.name, role |-> j.role, pw |-> j.pw]}
    BY <1>1 DEF Effect
  <2> HIDE DEF new
  <2> QED
    BY <2>1, <2>2, <2>3, <2>5, <2>6
<1>2. CASE j.op = "delete"
  <2> DEFINE S == {u \in UserRecords : u.id # j.id}
  <2>1. Changed(s, j) = KeepOnly(s, S)
    BY <1>2 DEF Changed, Removed
  <2>2. Items(KeepOnly(s, S)) = Items(s) \cap S
    <3> HIDE DEF S
    <3> QED
      BY KeepItems
  <2>3. Effect(Items(s), j) = {u \in Items(s) : u.id # j.id}
    BY <1>2 DEF Effect
  <2>4. Items(s) \cap S = {u \in Items(s) : u.id # j.id}
    BY IdsAre
  <2> QED
    BY <2>1, <2>2, <2>3, <2>4
<1>3. CASE j.op = "password"
  <2>1. Changed(s, j) = Repassworded(s, j)
    BY <1>3 DEF Changed
  <2>2. PICK t : t = Repassworded(s, j)
    OBVIOUS
  <2>3. /\ DOMAIN t = DOMAIN s
        /\ \A i \in DOMAIN s :
              /\ t[i] = s[i] \/ (s[i].id = j.id /\ t[i] = [s[i] EXCEPT !.pw = j.pw])
              /\ s[i].id = j.id /\ (\A k \in 1 .. i - 1 : s[k].id # j.id)
                    => t[i] = [s[i] EXCEPT !.pw = j.pw]
    BY <1>3, <2>2, RepasswordedIs
  <2>4. PICK m \in Nat : DOMAIN s = 1 .. m
    BY LenProperties
  <2>5. ASSUME NEW i \in 1 .. m, s[i].id = j.id PROVE t[i] = [s[i] EXCEPT !.pw = j.pw]
    <3>1. ASSUME NEW k \in 1 .. i - 1 PROVE s[k].id # j.id
      <4>1. k \in 1 .. m /\ k # i
        OBVIOUS
      <4> QED
        BY <2>4, <2>5, <4>1 DEF Distinct
    <3> QED
      BY <2>3, <2>4, <2>5, <3>1
  <2>6. ASSUME NEW i \in 1 .. m, s[i].id # j.id PROVE t[i] = s[i]
    BY <2>3, <2>4, <2>6
  <2>7. Effect(Items(s), j) =
           {u \in Items(s) : u.id # j.id} \cup
           {[u EXCEPT !.pw = j.pw] : u \in {v \in Items(s) : v.id = j.id}}
    BY <1>3 DEF Effect
  <2>8. Items(t) \subseteq Effect(Items(s), j)
    <3>1. ASSUME NEW i \in 1 .. m PROVE t[i] \in Effect(Items(s), j)
      <4>1. s[i] \in Items(s)
        BY <2>4 DEF Items
      <4>2. CASE s[i].id = j.id
        BY <2>5, <2>7, <4>1, <4>2
      <4>3. CASE s[i].id # j.id
        BY <2>6, <2>7, <4>1, <4>3
      <4> QED
        BY <4>2, <4>3
    <3> QED
      BY <2>3, <2>4, <3>1 DEF Items
  <2>9. Effect(Items(s), j) \subseteq Items(t)
    <3>1. ASSUME NEW i \in 1 .. m, s[i].id # j.id PROVE s[i] \in Items(t)
      BY <2>3, <2>4, <2>6, <3>1 DEF Items
    <3>2. ASSUME NEW i \in 1 .. m, s[i].id = j.id PROVE [s[i] EXCEPT !.pw = j.pw] \in Items(t)
      BY <2>3, <2>4, <2>5, <3>2 DEF Items
    <3> QED
      BY <2>4, <2>7, <3>1, <3>2 DEF Items
  <2> QED
    BY <2>1, <2>2, <2>8, <2>9
<1> QED
  BY <1>1, <1>2, <1>3, JobsAre
-----------------------------------------------------------------------------
(***************************************************************************)
(* The invariant                                                           *)
(***************************************************************************)
FileKinds == {"absent", "empty", "garbage", "json"}

AccountTypes ==
    /\ phase \in {"down", "creating", "up"}
    /\ file \in [kind : FileKinds, list : Seq(UserRecords)]
    /\ pc \in [Handlers -> {"idle", "ready", "open", "login", "failed"}]
    /\ data \in [Handlers -> Seq(UserRecords)]
    /\ DOMAIN job = Handlers
    /\ changes \in 0 .. MaxChanges
    /\ disturbed \in BOOLEAN
    /\ \A h \in Handlers : /\ pc[h] \in {"ready", "open"} => job[h] \in Jobs
                           /\ pc[h] \in {"login", "failed"} => job[h].client \in Clients

\* Requests are served only while the process is up; while the first admin is
\* being created the file is the empty one its save has opened.
IdleWhenDown == /\ phase # "up" => \A h \in Handlers : pc[h] = "idle"
                /\ phase = "creating" => file = Empty

\* Each change raises the largest id by at most one, so the ids of Effect suffice.
IdsBounded == /\ \A k \in IdsOf(file.list) : k <= changes + 1
              /\ \A h \in Handlers : \A k \in IdsOf(data[h]) : k <= changes + 1

FileIsExpected == Items(file.list) = expected

\* As long as nothing was disturbed: at most one change is under way, and it is
\* about to save the effect of its request on what is expected; the file holds
\* what is expected, unless a save has just emptied it.
OneAtATime ==
    ~disturbed =>
        /\ \A g, h \in InChange : g = h
        /\ \A h \in Handlers : pc[h] = "open" => file = Empty
        /\ \A h \in InChange : Items(data[h]) = Effect(expected, job[h])
        /\ (\A h \in Handlers : pc[h] # "open") => FileIsExpected

AccountInv == AccountTypes /\ UsersDistinct /\ IdsBounded /\ IdleWhenDown /\ OneAtATime

\* The empty list.
LEMMA NoUsers == /\ << >> \in Seq(UserRecords) /\ Distinct(<< >>)
                 /\ IdsOf(<< >>) = {} /\ Items(<< >>) = {}
  BY EmptySeq DEF Distinct, IdsOf, Items

\* Before the first start.
LEMMA AccountInit == Init => AccountInv
<1> SUFFICES ASSUME Init PROVE AccountInv
  OBVIOUS
<1>1. /\ phase = "down" /\ file = Absent /\ pc = [h \in Handlers |-> "idle"]
      /\ job = [h \in Handlers |-> NoJob] /\ data = [h \in Handlers |-> << >>]
      /\ changes = 0 /\ disturbed = FALSE /\ expected = {}
  BY DEF Init
<1>2. file.list = << >> /\ file \in [kind : FileKinds, list : Seq(UserRecords)]
  BY <1>1, NoUsers DEF Absent, FileKinds
<1>3. AccountTypes
  <2>1. changes \in 0 .. MaxChanges
    BY <1>1, AccountsAssumption
  <2>4. disturbed \in BOOLEAN
    BY <1>1
  <2>2. /\ pc \in [Handlers -> {"idle", "ready", "open", "login", "failed"}]
        /\ data \in [Handlers -> Seq(UserRecords)] /\ DOMAIN job = Handlers
    BY <1>1, NoUsers
  <2>3. \A h \in Handlers : pc[h] = "idle"
    BY <1>1
  <2> QED
    BY <1>1, <1>2, <2>1, <2>2, <2>3, <2>4 DEF AccountTypes
<1>4. UsersDistinct /\ IdsBounded
  BY <1>1, <1>2, NoUsers DEF UsersDistinct, IdsBounded
<1>5. IdleWhenDown /\ OneAtATime
  BY <1>1, <1>2, NoUsers DEF IdleWhenDown, OneAtATime, InChange, FileIsExpected
<1> QED
  BY <1>3, <1>4, <1>5 DEF AccountInv

\* The lists of the invariant, for the steps that make them.
LEMMA ListsAre ==
    ASSUME AccountInv
    PROVE  /\ file.list \in Seq(UserRecords) /\ Distinct(file.list)
           /\ \A k \in IdsOf(file.list) : k <= changes + 1
           /\ changes \in Nat /\ changes + 1 \in Nat
           /\ \A h \in Handlers : /\ data[h] \in Seq(UserRecords) /\ Distinct(data[h])
                                  /\ \A k \in IdsOf(data[h]) : k <= changes + 1 /\ k \in Nat
           /\ IdsOf(file.list) \subseteq Nat
<1> USE DEF AccountInv
<1>1. file.list \in Seq(UserRecords) /\ changes \in Nat
  BY AccountsAssumption DEF AccountTypes
<1>2. \A h \in Handlers : data[h] \in Seq(UserRecords)
  BY DEF AccountTypes
<1>3. ASSUME NEW h \in Handlers PROVE IdsOf(data[h]) \subseteq Nat
  BY <1>2, IdsAre
<1>4. IdsOf(file.list) \subseteq Nat
  BY <1>1, IdsAre
<1> QED
  BY <1>1, <1>2, <1>3, <1>4 DEF UsersDistinct, IdsBounded

\* A handler loads the users and works out a change.
LEMMA LoadInv ==
    ASSUME AccountInv, NEW h \in Handlers, NEW j \in Jobs, LoadForChange(h, j)
    PROVE  AccountInv'
<1> USE DEF AccountInv
<1>1. /\ phase = "up" /\ pc[h] = "idle" /\ changes < MaxChanges /\ changes' = changes + 1
      /\ UNCHANGED <<phase, file, expected>>
  BY DEF LoadForChange
<1>2. changes \in 0 .. MaxChanges /\ MaxChanges \in Nat /\ changes \in Nat
  BY AccountsAssumption DEF AccountTypes
<1>3. changes' \in 0 .. MaxChanges /\ changes' \in Nat
  BY <1>1, <1>2
<1>4. \A k \in IdsOf(file.list) : k <= changes' + 1
  BY <1>1, <1>2, ListsAre
<1>7. PICK list \in {file.list, << >>} :
         IF Refused(list, j)
         THEN UNCHANGED <<pc, job, data, disturbed>>
         ELSE /\ pc' = [pc EXCEPT ![h] = "ready"] /\ job' = [job EXCEPT ![h] = j]
              /\ data' = [data EXCEPT ![h] = Changed(list, j)]
              /\ disturbed' = (disturbed \/ InChange # {} \/ list # file.list)
  BY DEF LoadForChange, loadUsers
<1>5. CASE Refused(list, j)
  <2>1. UNCHANGED <<pc, job, data, disturbed>>
    BY <1>5, <1>7
  <2>2. AccountTypes'
    BY <1>1, <1>3, <2>1 DEF AccountTypes
  <2>3. UsersDistinct' /\ IdleWhenDown' /\ OneAtATime'
    BY <1>1, <2>1 DEF UsersDistinct, IdleWhenDown, OneAtATime, InChange, FileIsExpected
  <2>4. IdsBounded'
    <3>1. ASSUME NEW g \in Handlers, NEW k \in IdsOf(data[g]) PROVE k <= changes' + 1
      <4>1. k <= changes + 1 /\ k \in Nat
        BY ListsAre
      <4> QED
        BY <1>1, <1>2, <4>1
    <3> QED
      BY <1>1, <1>4, <2>1, <3>1 DEF IdsBounded
  <2> QED
    BY <2>2, <2>3, <2>4
<1>6. CASE ~Refused(list, j)
  <2>1. PICK s \in Seq(UserRecords) : s = list /\ Distinct(s) /\ \A k \in IdsOf(s) : k <= changes + 1
    BY ListsAre, NoUsers
  <2>2. PICK t \in Seq(UserRecords) : t = Changed(s, j) /\ \A k \in IdsOf(t) : k <= changes + 1 + 1
    <3>1. changes + 1 \in Nat
      BY <1>2
    <3> QED
      BY <2>1, <3>1, ChangedType
  <2>3. /\ pc' = [pc EXCEPT ![h] = "ready"] /\ job' = [job EXCEPT ![h] = j]
        /\ data' = [data EXCEPT ![h] = t]
        /\ disturbed' = (disturbed \/ InChange # {} \/ s # file.list)
    BY <1>6, <1>7, <2>1, <2>2
  <2>4. Distinct(t)
    BY <1>6, <2>1, <2>2, ChangedDistinct
  <2>5. \A g \in Handlers : data'[g] = IF g = h THEN t ELSE data[g]
    BY <2>3 DEF AccountTypes
  <2>6. AccountTypes'
    BY <1>1, <1>3, <2>3 DEF AccountTypes
  <2>7. UsersDistinct'
    BY <1>1, <2>4, <2>5 DEF UsersDistinct
  <2>8. IdsBounded'
    <3>1. ASSUME NEW g \in Handlers, NEW k \in IdsOf(data'[g]) PROVE k <= changes' + 1
      <4>1. CASE g = h
        BY <1>1, <2>2, <2>5, <3>1, <4>1
      <4>2. CASE g # h
        <5>1. k \in IdsOf(data[g])
          BY <2>5, <3>1, <4>2
        <5>2. k <= changes + 1 /\ k \in Nat
          BY <5>1, ListsAre
        <5> QED
          BY <1>1, <1>2, <5>2
      <4> QED
        BY <4>1, <4>2
    <3> QED
      BY <1>1, <1>4, <3>1 DEF IdsBounded
  <2>9. IdleWhenDown'
    BY <1>1 DEF IdleWhenDown
  <2>10. OneAtATime'
    <3>1. SUFFICES ASSUME ~disturbed' PROVE
             /\ \A f, g \in InChange' : f = g
             /\ \A g \in Handlers : pc'[g] = "open" => file' = Empty
             /\ \A g \in InChange' : Items(data'[g]) = Effect(expected', job'[g])
             /\ FileIsExpected'
      BY <1>1 DEF OneAtATime
    <3>2. ~disturbed /\ InChange = {} /\ s = file.list
      BY <2>3, <3>1 DEF AccountTypes
    <3>3. InChange' = {h}
      BY <2>3, <3>2 DEF InChange, AccountTypes
    <3>4. \A g \in Handlers : pc[g] # "open" /\ pc'[g] # "open"
      BY <2>3, <3>2 DEF InChange, AccountTypes
    <3>5. FileIsExpected /\ FileIsExpected'
      BY <1>1, <3>2, <3>4 DEF OneAtATime, FileIsExpected
    <3>6. Items(t) = Effect(Items(s), j)
      BY <1>1, <1>2, <2>1, <2>2, ChangedEffect
    <3>7. Items(s) = expected'
      BY <1>1, <3>2, <3>5 DEF FileIsExpected
    <3>8. data'[h] = t /\ job'[h] = j
      BY <2>3 DEF AccountTypes
    <3>9. Items(data'[h]) = Effect(expected', job'[h])
      BY <3>6, <3>7, <3>8
    <3> QED
      BY <3>3, <3>4, <3>5, <3>9
  <2> QED
    BY <2>6, <2>7, <2>8, <2>9, <2>10
<1> QED
  BY <1>5, <1>6

\* A save empties the file ...
LEMMA OpenInv ==
    ASSUME AccountInv, NEW h \in Handlers, OpenFile(h)
    PROVE  AccountInv'
<1> USE DEF AccountInv
<1>1. /\ phase = "up" /\ pc[h] = "ready" /\ pc' = [pc EXCEPT ![h] = "open"] /\ file' = Empty
      /\ UNCHANGED <<phase, job, data, changes, disturbed, expected>>
  BY DEF OpenFile
<1>2. file'.list = << >> /\ file' \in [kind : FileKinds, list : Seq(UserRecords)]
  BY <1>1, NoUsers DEF Empty, FileKinds
<1>3. AccountTypes'
  BY <1>1, <1>2 DEF AccountTypes
<1>4. UsersDistinct'
  BY <1>1, <1>2, NoUsers DEF UsersDistinct
<1>5. IdsBounded'
  BY <1>1, <1>2, NoUsers DEF IdsBounded
<1>6. IdleWhenDown'
  BY <1>1 DEF IdleWhenDown
<1>7. OneAtATime'
  <2>1. InChange' = InChange /\ pc'[h] = "open"
    BY <1>1 DEF InChange, AccountTypes
  <2> QED
    BY <1>1, <2>1 DEF OneAtATime
<1> QED
  BY <1>3, <1>4, <1>5, <1>6, <1>7

\* ... and writes it.
LEMMA WriteInv ==
    ASSUME AccountInv, NEW h \in Handlers, WriteFile(h)
    PROVE  AccountInv'
<1> USE DEF AccountInv
<1>1. /\ phase = "up" /\ pc[h] = "open" /\ pc' = [pc EXCEPT ![h] = "idle"]
      /\ job' = [job EXCEPT ![h] = NoJob] /\ data' = [data EXCEPT ![h] = << >>]
      /\ file' \in Written(data[h])
      /\ expected' = IF disturbed THEN {} ELSE Effect(expected, job[h])
      /\ UNCHANGED <<phase, changes, disturbed>>
  BY DEF WriteFile
<1>2. PICK t \in Seq(UserRecords) : t = data[h] /\ Distinct(t) /\ \A k \in IdsOf(t) : k <= changes + 1
  BY ListsAre
<1>3. file' = Json(t) \/ file' = Garbage
  BY <1>1, <1>2 DEF Written
<1>4. /\ file' \in [kind : FileKinds, list : Seq(UserRecords)]
      /\ file'.list = t \/ file'.list = << >>
  <2>1. CASE file' = Json(t)
    BY <2>1 DEF Json, FileKinds
  <2>2. CASE file' = Garbage
    BY <2>2, NoUsers DEF Garbage, FileKinds
  <2> QED
    BY <1>3, <2>1, <2>2
<1>5. \A g \in Handlers : data'[g] = IF g = h THEN << >> ELSE data[g]
  BY <1>1 DEF AccountTypes
<1>6. AccountTypes'
  BY <1>1, <1>4, NoUsers DEF AccountTypes
<1>7. UsersDistinct'
  BY <1>2, <1>4, <1>5, NoUsers DEF UsersDistinct
<1>8. IdsBounded'
  BY <1>1, <1>2, <1>4, <1>5, NoUsers DEF IdsBounded
<1>9. IdleWhenDown'
  BY <1>1 DEF IdleWhenDown
<1>10. OneAtATime'
  <2>1. SUFFICES ASSUME ~disturbed PROVE InChange' = {} /\ FileIsExpected'
    BY <1>1 DEF OneAtATime, InChange
  <2>2. h \in InChange /\ InChange = {h}
    BY <1>1, <2>1 DEF OneAtATime, InChange
  <2>3. InChange' = {}
    BY <1>1, <2>2 DEF InChange, AccountTypes
  <2>4. file = Empty
    BY <1>1, <2>1 DEF OneAtATime
  <2>5. file' = Json(t)
    BY <1>1, <1>2, <2>4 DEF Written, Empty
  <2>6. Items(t) = expected'
    BY <1>1, <1>2, <2>1, <2>2 DEF OneAtATime
  <2> QED
    BY <2>3, <2>5, <2>6 DEF FileIsExpected, Json
<1> QED
  BY <1>6, <1>7, <1>8, <1>9, <1>10

\* A save that cannot open the file, or not write it, leaves a file without users or
\* the one that was there.
LEMMA FailInv ==
    ASSUME AccountInv, NEW h \in Handlers, OpenFails(h) \/ WriteFails(h)
    PROVE  AccountInv'
<1> USE DEF AccountInv
<1>1. /\ phase = "up" /\ pc[h] \in {"ready", "open"} /\ pc' = [pc EXCEPT ![h] = "idle"]
      /\ job' = [job EXCEPT ![h] = NoJob] /\ data' = [data EXCEPT ![h] = << >>]
      /\ file' \in {file, Garbage}
      /\ disturbed' = TRUE \/ (pc[h] = "ready" /\ file' = file /\ disturbed' = disturbed)
      /\ UNCHANGED <<phase, changes, expected>>
  BY DEF OpenFails, WriteFails
<1>9. disturbed' \in BOOLEAN
  BY <1>1 DEF AccountTypes
<1>2. /\ file' \in [kind : FileKinds, list : Seq(UserRecords)]
      /\ file'.list = file.list \/ file'.list = << >>
  <2>1. CASE file' = file
    BY <2>1 DEF AccountTypes
  <2>2. CASE file' = Garbage
    BY <2>2, NoUsers DEF Garbage, FileKinds
  <2> QED
    BY <1>1, <2>1, <2>2
<1>3. \A g \in Handlers : data'[g] = IF g = h THEN << >> ELSE data[g]
  BY <1>1 DEF AccountTypes
<1>4. AccountTypes'
  BY <1>1, <1>2, <1>9, NoUsers DEF AccountTypes
<1>5. UsersDistinct'
  BY <1>2, <1>3, NoUsers DEF UsersDistinct
<1>6. IdsBounded'
  BY <1>1, <1>2, <1>3, NoUsers DEF IdsBounded
<1>7. IdleWhenDown'
  BY <1>1 DEF IdleWhenDown
<1>8. OneAtATime'
  <2>1. SUFFICES ASSUME ~disturbed' PROVE InChange' = {} /\ FileIsExpected'
    BY DEF OneAtATime, InChange
  <2>2. pc[h] = "ready" /\ file' = file /\ ~disturbed
    BY <1>1, <2>1
  <2>3. h \in InChange /\ InChange = {h}
    BY <2>2 DEF OneAtATime, InChange
  <2>4. InChange' = {} /\ \A g \in Handlers : pc[g] # "open"
    BY <1>1, <2>2, <2>3 DEF InChange, AccountTypes
  <2> QED
    BY <1>1, <2>2, <2>4 DEF OneAtATime, FileIsExpected
<1> QED
  BY <1>4, <1>5, <1>6, <1>7, <1>8

\* Logins leave the file, the changes and the handlers that make them alone.
LEMMA LoginMoves ==
    ASSUME AccountInv, NEW h \in Handlers,
           (\E c \in Clients, n \in Names : Allow(h, c, n)) \/ LoginOk(h) \/ LoginFails(h) \/ Record(h)
    PROVE  /\ UNCHANGED <<phase, file, data, changes, disturbed, expected, now>> /\ phase = "up"
           /\ \E p \in {"idle", "login", "failed"} : pc' = [pc EXCEPT ![h] = p]
           /\ pc[h] \in {"idle", "login", "failed"}
           /\ DOMAIN job' = Handlers
           /\ \A g \in Handlers : g # h => job'[g] = job[g]
           /\ pc'[h] \in {"login", "failed"} => job'[h].client \in Clients
<1> USE DEF AccountInv
<1>1. ASSUME NEW c \in Clients, NEW n \in Names, Allow(h, c, n)
      PROVE  /\ UNCHANGED <<phase, file, data, changes, disturbed, expected, now>> /\ phase = "up"
             /\ \E p \in {"idle", "login", "failed"} : pc' = [pc EXCEPT ![h] = p]
             /\ pc[h] \in {"idle", "login", "failed"}
             /\ DOMAIN job' = Handlers
             /\ \A g \in Handlers : g # h => job'[g] = job[g]
             /\ pc'[h] \in {"login", "failed"} => job'[h].client \in Clients
  <2>1. /\ UNCHANGED <<phase, file, data, changes, disturbed, expected, now>> /\ phase = "up"
        /\ pc[h] = "idle"
    BY <1>1 DEF Allow
  <2>2. CASE Allowed(c)
    <3>1. /\ pc' = [pc EXCEPT ![h] = "login"]
          /\ job' = [job EXCEPT ![h] = [op |-> "login", client |-> c, name |-> n]]
      BY <1>1, <2>2 DEF Allow
    <3>2. job'[h].client = c /\ DOMAIN job' = Handlers /\ \A g \in Handlers : g # h => job'[g] = job[g]
      BY <3>1 DEF AccountTypes
    <3> QED
      BY <2>1, <3>1, <3>2
  <2>3. CASE ~Allowed(c)
    <3>1. pc' = pc /\ job' = job
      BY <1>1, <2>3 DEF Allow
    <3>2. pc' = [pc EXCEPT ![h] = "idle"]
      BY <2>1, <3>1 DEF AccountTypes
    <3> QED
      BY <2>1, <3>1, <3>2 DEF AccountTypes
  <2> QED
    BY <2>2, <2>3
<1>2. CASE LoginOk(h) \/ Record(h)
  <2>1. /\ UNCHANGED <<phase, file, data, changes, disturbed, expected, now>> /\ phase = "up"
        /\ pc[h] \in {"login", "failed"}
        /\ pc' = [pc EXCEPT ![h] = "idle"] /\ job' = [job EXCEPT ![h] = NoJob]
    BY <1>2 DEF LoginOk, Record
  <2>2. DOMAIN job' = Handlers /\ pc'[h] = "idle" /\ \A g \in Handlers : g # h => job'[g] = job[g]
    BY <2>1 DEF AccountTypes
  <2> QED
    BY <2>1, <2>2
<1>3. CASE LoginFails(h)
  <2>1. /\ UNCHANGED <<phase, file, data, changes, disturbed, expected, now, job>> /\ phase = "up"
        /\ pc[h] = "login" /\ pc' = [pc EXCEPT ![h] = "failed"]
    BY <1>3 DEF LoginFails
  <2>2. job[h].client \in Clients /\ DOMAIN job = Handlers
    BY <2>1 DEF AccountTypes
  <2> QED
    BY <2>1, <2>2
<1> QED
  BY <1>1, <1>2, <1>3

\* So they keep the invariant.
LEMMA LoginInv ==
    ASSUME AccountInv, NEW h \in Handlers,
           (\E c \in Clients, n \in Names : Allow(h, c, n)) \/ LoginOk(h) \/ LoginFails(h) \/ Record(h)
    PROVE  AccountInv'
<1> USE DEF AccountInv
<1>1. /\ UNCHANGED <<phase, file, data, changes, disturbed, expected>> /\ phase = "up"
      /\ DOMAIN job' = Handlers
      /\ \A g \in Handlers : g # h => job'[g] = job[g]
      /\ pc'[h] \in {"login", "failed"} => job'[h].client \in Clients
      /\ pc[h] \in {"idle", "login", "failed"}
  BY LoginMoves
<1>2. PICK p \in {"idle", "login", "failed"} : pc' = [pc EXCEPT ![h] = p]
  BY LoginMoves
<1>3. pc'[h] = p /\ \A g \in Handlers : g # h => pc'[g] = pc[g]
  BY <1>2 DEF AccountTypes
<1>4. AccountTypes'
  <2>1. pc' \in [Handlers -> {"idle", "ready", "open", "login", "failed"}]
    BY <1>2 DEF AccountTypes
  <2>2. ASSUME NEW g \in Handlers
        PROVE  /\ pc'[g] \in {"ready", "open"} => job'[g] \in Jobs
               /\ pc'[g] \in {"login", "failed"} => job'[g].client \in Clients
    <3>1. CASE g = h
      BY <1>1, <1>3, <3>1
    <3>2. CASE g # h
      BY <1>1, <1>3, <3>2 DEF AccountTypes
    <3> QED
      BY <3>1, <3>2
  <2>3. UNCHANGED Jobs
    BY DEF Jobs
  <2> QED
    BY <1>1, <2>1, <2>2, <2>3 DEF AccountTypes
<1>5. UsersDistinct' /\ IdsBounded' /\ IdleWhenDown'
  BY <1>1 DEF UsersDistinct, IdsBounded, IdleWhenDown
<1>6. OneAtATime'
  <2>1. InChange' = InChange
    BY <1>1, <1>3 DEF InChange
  <2>2. \A g \in Handlers : pc'[g] = "open" <=> pc[g] = "open"
    BY <1>1, <1>3
  <2>3. \A g \in InChange : g \in Handlers /\ job'[g] = job[g]
    BY <1>1 DEF InChange
  <2> QED
    BY <1>1, <2>1, <2>2, <2>3 DEF OneAtATime, FileIsExpected
<1> QED
  BY <1>4, <1>5, <1>6

\* Start, the default admin, a crash, and what does not touch the accounts.
LEMMA StartInv ==
    ASSUME AccountInv, Start
    PROVE  AccountInv'
<1> USE DEF AccountInv
<1>1. phase = "down" /\ UNCHANGED <<pc, job, data, changes, expected>>
  BY DEF Start
<1>2. \A h \in Handlers : pc[h] = "idle"
  BY <1>1 DEF IdleWhenDown
<1>5. PICK list \in {file.list, << >>} :
         /\ disturbed' = (disturbed \/ list # file.list)
         /\ \/ phase' = "up" /\ file' = file
            \/ list = << >> /\ phase' = "creating" /\ file' = Empty
  BY DEF Start, loadUsers
<1>6. disturbed' \in BOOLEAN /\ (~disturbed' => ~disturbed /\ list = file.list)
  BY <1>5 DEF AccountTypes
<1>3. CASE phase' = "up" /\ file' = file
  <2>1. phase' = "up" /\ file' = file
    BY <1>3
  <2>2. AccountTypes' /\ UsersDistinct' /\ IdsBounded' /\ IdleWhenDown'
    BY <1>1, <1>6, <2>1 DEF AccountTypes, UsersDistinct, IdsBounded, IdleWhenDown
  <2>3. OneAtATime'
    BY <1>1, <1>2, <1>6, <2>1 DEF OneAtATime, InChange, FileIsExpected
  <2> QED
    BY <2>2, <2>3
<1>4. CASE list = << >> /\ phase' = "creating" /\ file' = Empty
  <2>1. phase' = "creating" /\ file' = Empty
    BY <1>4
  <2>2. file'.list = << >> /\ file' \in [kind : FileKinds, list : Seq(UserRecords)]
    BY <2>1, NoUsers DEF Empty, FileKinds
  <2>3. AccountTypes'
    BY <1>1, <1>6, <2>1, <2>2 DEF AccountTypes
  <2>4. UsersDistinct' /\ IdsBounded' /\ IdleWhenDown'
    BY <1>1, <1>2, <2>1, <2>2, NoUsers DEF UsersDistinct, IdsBounded, IdleWhenDown
  <2>5. OneAtATime'
    <3>1. ~disturbed' => FileIsExpected'
      BY <1>1, <1>2, <1>4, <1>6, <2>2 DEF OneAtATime, FileIsExpected
    <3> QED
      BY <1>1, <1>2, <3>1 DEF OneAtATime, InChange
  <2> QED
    BY <2>3, <2>4, <2>5
<1> QED
  BY <1>3, <1>4, <1>5

\* The default admin is saved.
LEMMA CreateInv ==
    ASSUME AccountInv, CreateAdmin
    PROVE  AccountInv'
<1> USE DEF AccountInv
<1>1. phase = "creating" /\ phase' = "up" /\ UNCHANGED <<pc, job, data, changes, disturbed>>
  BY DEF CreateAdmin
<1>2. PICK p \in Passwords : file' = Json(<<DefaultAdmin(p)>>) /\ expected' = {DefaultAdmin(p)}
  BY DEF CreateAdmin
<1>3. PICK u \in UserRecords : u = DefaultAdmin(p) /\ u.id = 1
  <2>1. DefaultAdmin(p) \in UserRecords /\ DefaultAdmin(p).id = 1
    BY AccountsAssumption DEF DefaultAdmin, UserRecords
  <2> QED
    BY <2>1
<1>4. PICK s \in Seq(UserRecords) : s = <<u>>
  <2>1. <<u>> \in Seq(UserRecords)
    OBVIOUS
  <2> QED
    BY <2>1
<1>5. Items(s) = {u} /\ IdsOf(s) = {1} /\ Distinct(s)
  <2>1. DOMAIN s = {1} /\ s[1] = u
    BY <1>4
  <2> QED
    BY <1>3, <2>1 DEF Items, IdsOf, Distinct
<1>6. file' = [kind |-> "json", list |-> s]
  BY <1>2, <1>3, <1>4 DEF Json
<1>7. file'.list = s /\ file'.kind = "json" /\ file' \in [kind : FileKinds, list : Seq(UserRecords)]
  BY <1>6 DEF FileKinds
<1>8. \A h \in Handlers : pc[h] = "idle"
  BY <1>1 DEF IdleWhenDown
<1>9. AccountTypes'
  BY <1>1, <1>7 DEF AccountTypes
<1>10. UsersDistinct' /\ IdleWhenDown'
  BY <1>1, <1>5, <1>7 DEF UsersDistinct, IdleWhenDown
<1>11. IdsBounded'
  <2>1. 1 <= changes + 1
    BY AccountsAssumption DEF AccountTypes
  <2> QED
    BY <1>1, <1>5, <1>7, <2>1 DEF IdsBounded
<1>12. OneAtATime'
  BY <1>1, <1>2, <1>3, <1>5, <1>7, <1>8 DEF OneAtATime, InChange, FileIsExpected
<1> QED
  BY <1>9, <1>10, <1>11, <1>12

\* Or it cannot be written, and there are no users.
LEMMA CreateFailsInv ==
    ASSUME AccountInv, CreateFails
    PROVE  AccountInv'
<1> USE DEF AccountInv
<1>1. /\ phase = "creating" /\ phase' = "up" /\ file' \in {file, Garbage}
      /\ UNCHANGED <<pc, job, data, changes, disturbed, expected>>
  BY DEF CreateFails
<1>2. file = Empty /\ \A h \in Handlers : pc[h] = "idle"
  BY <1>1 DEF IdleWhenDown
<1>3. file'.list = << >> /\ file.list = << >> /\ file' \in [kind : FileKinds, list : Seq(UserRecords)]
  <2>1. file.list = << >>
    BY <1>2 DEF Empty
  <2>2. CASE file' = file
    BY <2>1, <2>2 DEF AccountTypes
  <2>3. CASE file' = Garbage
    BY <2>1, <2>3, NoUsers DEF Garbage, FileKinds
  <2> QED
    BY <1>1, <2>2, <2>3
<1>4. AccountTypes'
  BY <1>1, <1>3 DEF AccountTypes
<1>5. UsersDistinct' /\ IdsBounded' /\ IdleWhenDown'
  BY <1>1, <1>3 DEF UsersDistinct, IdsBounded, IdleWhenDown
<1>6. OneAtATime'
  BY <1>1, <1>2, <1>3 DEF OneAtATime, InChange, FileIsExpected
<1> QED
  BY <1>4, <1>5, <1>6

\* A crash forgets the requests; the file stays as it is.
LEMMA CrashInv ==
    ASSUME AccountInv, Crash
    PROVE  AccountInv'
<1> USE DEF AccountInv
<1>1. /\ phase # "down" /\ phase' = "down"
      /\ pc' = [h \in Handlers |-> "idle"] /\ job' = [h \in Handlers |-> NoJob]
      /\ data' = [h \in Handlers |-> << >>]
      /\ disturbed' = (disturbed \/ \E h \in Handlers : pc[h] = "open")
      /\ UNCHANGED <<file, changes, expected>>
  BY DEF Crash
<1>2. AccountTypes'
  <2>1. /\ pc' \in [Handlers -> {"idle", "ready", "open", "login", "failed"}]
        /\ data' \in [Handlers -> Seq(UserRecords)] /\ DOMAIN job' = Handlers
    BY <1>1, NoUsers
  <2>2. \A h \in Handlers : pc'[h] = "idle"
    BY <1>1
  <2>3. disturbed' \in BOOLEAN
    BY <1>1 DEF AccountTypes
  <2> QED
    BY <1>1, <2>1, <2>2, <2>3 DEF AccountTypes
<1>3. UsersDistinct' /\ IdleWhenDown'
  BY <1>1, NoUsers DEF UsersDistinct, IdleWhenDown
<1>4. IdsBounded'
  BY <1>1, NoUsers DEF IdsBounded
<1>5. OneAtATime'
  <2>1. InChange' = {}
    BY <1>1 DEF InChange
  <2>2. ASSUME ~disturbed' PROVE FileIsExpected
    BY <1>1, <2>2 DEF OneAtATime
  <2> QED
    BY <1>1, <2>1, <2>2 DEF OneAtATime, FileIsExpected
<1> QED
  BY <1>2, <1>3, <1>4, <1>5

\* What does not touch the accounts.
LEMMA RestInv ==
    ASSUME AccountInv, UNCHANGED <<phase, file, pc, job, data, changes, disturbed, expected>>
    PROVE  AccountInv'
  BY DEF AccountInv, AccountTypes, UsersDistinct, IdsBounded, IdleWhenDown, OneAtATime,
         InChange, FileIsExpected

\* Every step keeps the invariant.
LEMMA AccountStep == AccountInv /\ [Next]_vars => AccountInv'
<1> SUFFICES ASSUME AccountInv, [Next]_vars PROVE AccountInv'
  OBVIOUS
<1>1. ASSUME NEW h \in Handlers, NEW j \in Jobs, LoadForChange(h, j) PROVE AccountInv'
  BY <1>1, LoadInv
<1>2. ASSUME NEW h \in Handlers, OpenFile(h) PROVE AccountInv'
  BY <1>2, OpenInv
<1>3. ASSUME NEW h \in Handlers, WriteFile(h) PROVE AccountInv'
  BY <1>3, WriteInv
<1>9. ASSUME NEW h \in Handlers, OpenFails(h) \/ WriteFails(h) PROVE AccountInv'
  BY <1>9, FailInv
<1>10. CASE CreateFails
  BY <1>10, CreateFailsInv
<1>4. ASSUME NEW h \in Handlers,
             (\E c \in Clients, n \in Names : Allow(h, c, n)) \/ LoginOk(h) \/ LoginFails(h) \/ Record(h)
      PROVE  AccountInv'
  BY <1>4, LoginInv
<1>5. CASE Start
  BY <1>5, StartInv
<1>6. CASE CreateAdmin
  BY <1>6, CreateInv
<1>7. CASE Crash
  BY <1>7, CrashInv
<1>8. CASE (\E s \in sessions : Expire(s)) \/ Tick \/ UNCHANGED vars
  <2>1. UNCHANGED <<phase, file, pc, job, data, changes, disturbed, expected>>
    BY <1>8 DEF Expire, Tick, vars
  <2> QED
    BY <2>1, RestInv
<1> QED
  BY <1>1, <1>2, <1>3, <1>4, <1>5, <1>6, <1>7, <1>8, <1>9, <1>10 DEF Next

\* No two users of the file, or of a list about to be saved, share an id or a name,
\* however many handlers load, truncate and write it at once, whatever reads and
\* writes fail, and wherever zaman-web crashes (handleUsers, handleUserPassword, saveUsers).
THEOREM UsersStayDistinct == Spec => []UsersDistinct
<1>1. AccountInv => UsersDistinct
  BY DEF AccountInv
<1> QED
  BY <1>1, AccountInit, AccountStep, PTL DEF Spec

\* The users file holds the effect of all saved changes, in order, whatever opens
\* failed, until two changes overlap, a crash cuts a save off, or a read or a write
\* fails and the error is ignored (loadUsers and saveUsers, without a lock).
THEOREM ChangesStay == Spec => []ChangesAreKept
<1>1. AccountInv => ChangesAreKept
  BY DEF AccountInv, OneAtATime, ChangesAreKept, FileIsExpected, Items
<1> QED
  BY <1>1, AccountInit, AccountStep, PTL DEF Spec
-----------------------------------------------------------------------------
(***************************************************************************)
(* The files of WebFiles.  Until something disturbs the changes, at most   *)
(* one handler is at work; the file is empty while it is open and holds    *)
(* what is expected otherwise; and what the handler is going to save is    *)
(* the effect of its change on what is expected.                           *)
(***************************************************************************)
\* The pairs of a content.
Pairs(f) == {<<k, f[k]>> : k \in DOMAIN f}

\* Ids of searches are given out one by one.
IdsGiven(f, n) == which = "searches" => DOMAIN f \subseteq 1 .. n

WebTypeOK == /\ which \in W!Files \cup {"users"}
             /\ requests \in Nat
             /\ wpc \in [FileHandlers -> {"idle", "ready", "open"}]
             /\ DOMAIN wjob = FileHandlers /\ DOMAIN wdata = FileHandlers

OneWriter == \A g, h \in FileHandlers : wpc[g] # "idle" /\ wpc[h] # "idle" => g = h

\* A content that holds what is expected.
Holds(f) == Pairs(f) = wexpected /\ IdsGiven(f, requests)

ContentIsExpected ==
    \/ (\E h \in FileHandlers : wpc[h] = "open") /\ wfile = W!Empty
    \/ /\ \A h \in FileHandlers : wpc[h] # "open"
       /\ wfile.kind \in {"absent", "json"} /\ Holds(wfile.content)

\* A content that is what is expected with a change.
Will(f, j) == Pairs(f) = W!Effect(wexpected, j) /\ IdsGiven(f, requests)

DataIsEffect == \A h \in FileHandlers : wpc[h] # "idle" => Will(wdata[h], wjob[h])

WebInv == WebTypeOK /\ (wdisturbed \/ (OneWriter /\ ContentIsExpected /\ DataIsEffect))

\* A set of numbers with a bound has a greatest member, and it is its maximum.
LEMMA GreatestIsMax ==
    ASSUME NEW n \in Nat, NEW S \in SUBSET (0 .. n), S # {}
    PROVE  W!Max(S) \in S /\ \A k \in S : k <= W!Max(S)
<1> DEFINE T == {n - k : k \in S}
<1>0. T \in SUBSET Nat
  <2>1. ASSUME NEW k \in S PROVE n - k \in Nat
    <3>1. k \in 0 .. n
      OBVIOUS
    <3> QED
      BY <3>1
  <2> QED
    BY <2>1
<1>1. T # {}
  <2>1. PICK k : k \in S
    OBVIOUS
  <2>2. n - k \in T
    BY <2>1
  <2> QED
    BY <2>2
<1>2. PICK l \in T : \A k \in T : l <= k
  <2> HIDE DEF T
  <2> QED
    BY <1>0, <1>1, LeastNat
<1>3. PICK m \in S : l = n - m
  OBVIOUS
<1>4. \A k \in S : m >= k
  <2>1. SUFFICES ASSUME NEW k \in S PROVE m >= k
    OBVIOUS
  <2>2. n - k \in T
    OBVIOUS
  <2>3. n - m <= n - k
    BY <1>2, <1>3, <2>2
  <2> QED
    BY <2>3
<1>5. W!Max(S) \in S /\ \A k \in S : W!Max(S) >= k
  BY <1>4, Zenon DEF W!Max
<1> QED
  BY <1>5

\* The keys of the pairs are those of the content.
LEMMA PairKeys ==
    ASSUME NEW f
    PROVE  {p[1] : p \in Pairs(f)} = DOMAIN f
<1>1. \A k : <<k, f[k]>>[1] = k
  OBVIOUS
<1> QED
  BY <1>1 DEF Pairs

\* A key is given a value.
LEMMA PairsPut ==
    ASSUME NEW f, NEW k, NEW v
    PROVE  Pairs(W!Put(f, k, v)) = {p \in Pairs(f) : p[1] # k} \cup {<<k, v>>}
<1>0. PICK g : g = W!Put(f, k, v)
  OBVIOUS
<1>1. /\ DOMAIN g = DOMAIN f \cup {k}
      /\ \A x \in DOMAIN g : g[x] = IF x = k THEN v ELSE f[x]
  BY <1>0 DEF W!Put
<1>2. Pairs(g) = {p \in Pairs(f) : p[1] # k} \cup {<<k, v>>}
  BY <1>1 DEF Pairs
<1> QED
  BY <1>0, <1>2

\* A key that is new is given a value.
LEMMA PairsAdd ==
    ASSUME NEW f, NEW k, NEW v, k \notin DOMAIN f
    PROVE  Pairs(W!Put(f, k, v)) = Pairs(f) \cup {<<k, v>>}
<1>1. \A p \in Pairs(f) : p[1] # k
  BY DEF Pairs
<1>2. {p \in Pairs(f) : p[1] # k} = Pairs(f)
  BY <1>1
<1> QED
  BY <1>2, PairsPut

\* A key is taken out.
LEMMA PairsWithout ==
    ASSUME NEW f, NEW k
    PROVE  /\ Pairs(W!Without(f, k)) = {p \in Pairs(f) : p[1] # k}
           /\ DOMAIN W!Without(f, k) \subseteq DOMAIN f
<1>0. PICK g : g = W!Without(f, k)
  OBVIOUS
<1>1. /\ g = W!Without(f, k) /\ DOMAIN g = DOMAIN f \ {k}
      /\ \A x \in DOMAIN g : g[x] = f[x]
  BY <1>0 DEF W!Without, W!Restrict
<1> QED
  BY <1>1 DEF Pairs

\* The id of a new search is one more than the largest, as the reference has it.
LEMMA NewIdIsNext ==
    ASSUME NEW f, NEW n \in Nat, n < MaxFileRequests, DOMAIN f \subseteq 1 .. n
    PROVE  /\ W!NewId(f) = 1 + W!Max({0} \cup {p[1] : p \in Pairs(f)})
           /\ W!NewId(f) \in 1 .. n + 1 /\ W!NewId(f) \notin DOMAIN f
<1> DEFINE S == {0} \cup DOMAIN f
           IsNew(i) == (\A k \in DOMAIN f : k < i) /\ (i > 1 => i - 1 \in DOMAIN f)
<1>1. S \in SUBSET (0 .. n) /\ S # {} /\ MaxFileRequests \in Nat
  BY MCAccountsAssumption
<1>2. PICK m : m = W!Max(S)
  OBVIOUS
<1>3. m \in S /\ \A k \in S : k <= m
  <2> HIDE DEF S
  <2> QED
    BY <1>1, <1>2, GreatestIsMax
<1>4. m \in 0 .. n /\ m + 1 \in 1 .. MaxFileRequests + 1
  BY <1>1, <1>3
<1>5. IsNew(m + 1)
  BY <1>3, <1>4
<1>6. ASSUME NEW i \in 1 .. MaxFileRequests + 1, IsNew(i) PROVE i = m + 1
  <2>1. ~(i <= m)
    BY <1>3, <1>4, <1>6
  <2>2. ~(i > m + 1)
    BY <1>3, <1>4, <1>6
  <2> QED
    BY <1>1, <1>4, <2>1, <2>2
<1>7. W!NewId(f) = m + 1
  <2>1. W!NewId(f) = CHOOSE i \in 1 .. MaxFileRequests + 1 : IsNew(i)
    BY DEF W!NewId
  <2> HIDE DEF IsNew
  <2> QED
    BY <1>4, <1>5, <1>6, <2>1
<1>8. m + 1 \notin DOMAIN f
  BY <1>3, <1>4
<1>9. {0} \cup {p[1] : p \in Pairs(f)} = S
  BY PairKeys
<1>10. W!Max({0} \cup {p[1] : p \in Pairs(f)}) = m
  BY <1>2, <1>9, Zenon
<1>11. m + 1 = 1 + m /\ m + 1 \in 1 .. n + 1
  BY <1>4
<1> HIDE DEF S
<1> QED
  BY <1>7, <1>8, <1>10, <1>11

\* What a handler works out is what its change means.
LEMMA ChangeIsEffect ==
    ASSUME which \in W!Files, NEW n \in Nat, n < MaxFileRequests,
           NEW j \in W!Jobs, NEW f, IdsGiven(f, n)
    PROVE  /\ Pairs(W!Changed(f, j)) = W!Effect(Pairs(f), j)
           /\ IdsGiven(W!Changed(f, j), n + 1)
<1>1. CASE which = "searches"
  <2>0. DOMAIN f \subseteq 1 .. n
    BY <1>1 DEF IdsGiven
  <2>1. CASE j.op = "add"
    <3>1. PICK i : i = W!NewId(f)
      OBVIOUS
    <3>2. /\ i = 1 + W!Max({0} \cup {p[1] : p \in Pairs(f)})
          /\ i \in 1 .. n + 1 /\ i \notin DOMAIN f
      BY <2>0, <3>1, NewIdIsNext
    <3>3. W!Changed(f, j) = W!Put(f, i, j.text)
      BY <2>1, <3>1 DEF W!Changed
    <3>4. W!Effect(Pairs(f), j) = Pairs(f) \cup {<<i, j.text>>}
      BY <2>1, <3>2 DEF W!Effect
    <3>5. PICK v, g : v = j.text /\ g = W!Put(f, i, v)
      OBVIOUS
    <3>6. DOMAIN g = DOMAIN f \cup {i}
      BY <3>5 DEF W!Put
    <3>8. Pairs(g) = Pairs(f) \cup {<<i, v>>}
      <4>1. Pairs(W!Put(f, i, v)) = Pairs(f) \cup {<<i, v>>}
        BY <3>2, PairsAdd
      <4> QED
        BY <3>5, <4>1
    <3>7. DOMAIN g \subseteq 1 .. n + 1
      BY <2>0, <3>2, <3>6
    <3> QED
      BY <3>3, <3>4, <3>5, <3>7, <3>8 DEF IdsGiven
  <2>2. CASE j.op = "delete"
    <3>1. W!Changed(f, j) = W!Without(f, j.id)
      BY <2>2 DEF W!Changed
    <3>2. W!Effect(Pairs(f), j) = {p \in Pairs(f) : p[1] # j.id}
      BY <2>2 DEF W!Effect
    <3>3. DOMAIN W!Without(f, j.id) \subseteq 1 .. n + 1
      BY <2>0, PairsWithout
    <3> QED
      BY <3>1, <3>2, <3>3, PairsWithout DEF IdsGiven
  <2> QED
    BY <1>1, <2>1, <2>2 DEF W!Jobs
<1>2. CASE which = "names"
  <2>1. j.op = "rename"
    <3>2. j \in [op : {"rename"}, node : AgentNodes, text : Texts \cup {""}]
      <4>1. which = "names" /\ which # "searches"
        BY <1>2
      <4>2. W!Jobs = [op : {"rename"}, node : AgentNodes, text : Texts \cup {""}]
        BY <4>1, Zenon DEF W!Jobs
      <4> QED
        BY <4>2
    <3> QED
      BY <3>2
  <2>2. /\ W!Changed(f, j) = W!Merged(f, j)
        /\ W!Effect(Pairs(f), j) = {p \in Pairs(f) : p[1] # j.node}
                                   \cup {<<j.node, t>> : t \in {j.text} \ {""}}
    BY <2>1 DEF W!Changed, W!Effect
  <2>3. CASE j.text = ""
    <3>1. W!Merged(f, j) = W!Without(f, j.node)
      BY <2>3 DEF W!Merged
    <3>2. {<<j.node, t>> : t \in {j.text} \ {""}} = {}
      BY <2>3
    <3> QED
      <4>1. Pairs(W!Without(f, j.node)) = {p \in Pairs(f) : p[1] # j.node}
        BY PairsWithout, Zenon
      <4> QED
        BY <1>2, <2>2, <3>1, <3>2, <4>1 DEF IdsGiven
  <2>4. CASE j.text # ""
    <3>0. PICK k, v : k = j.node /\ v = j.text
      OBVIOUS
    <3>1. W!Merged(f, j) = W!Put(f, j.node, j.text)
      BY <2>4 DEF W!Merged
    <3>2. {<<j.node, t>> : t \in {j.text} \ {""}} = {<<j.node, j.text>>}
      BY <2>4
    <3> QED
      <4>1. Pairs(W!Put(f, k, v)) = {p \in Pairs(f) : p[1] # k} \cup {<<k, v>>}
        BY PairsPut, SMT
      <4> QED
        BY <1>2, <2>2, <3>0, <3>1, <3>2, <4>1 DEF IdsGiven
  <2> QED
    BY <2>3, <2>4
<1>3. CASE which \in {"prefs", "alerts"}
  <2>1. j.op = "save"
    <3>0. which # "searches" /\ which # "names"
      BY <1>3
    <3>2. j \in [op : {"save"}, text : Texts]
      BY <3>0, SMT DEF W!Jobs
    <3> QED
      BY <3>2
  <2>2. /\ W!Changed(f, j) = W!Put(W!Nothing, which, j.text)
        /\ W!Effect(Pairs(f), j) = {<<which, j.text>>}
    BY <2>1 DEF W!Changed, W!Effect
  <2>3. Pairs(W!Nothing) = {}
    BY DEF Pairs, W!Nothing
  <2> QED
    <3>0. PICK e, k, v : e = W!Nothing /\ k = which /\ v = j.text
      OBVIOUS
    <3>1. Pairs(W!Put(e, k, v)) = {p \in Pairs(e) : p[1] # k} \cup {<<k, v>>}
      BY PairsPut, SMT
    <3>2. {p \in Pairs(e) : p[1] # k} = {}
      BY <2>3, <3>0
    <3> QED
      BY <1>3, <2>2, <3>0, <3>1, <3>2 DEF IdsGiven
<1> QED
  BY <1>1, <1>2, <1>3 DEF W!Files

\* Before the first request.
LEMMA WebInit == MCInit => WebInv
<1>1. SUFFICES ASSUME MCInit PROVE WebInv
  OBVIOUS
<1>2. /\ wfile = W!Absent /\ wpc = [h \in FileHandlers |-> "idle"]
      /\ wjob = [h \in FileHandlers |-> W!NoJob] /\ wdata = [h \in FileHandlers |-> W!Nothing]
      /\ requests = 0 /\ wexpected = {} /\ which \in W!Files \cup {"users"}
  BY <1>1 DEF MCInit, W!Fresh
<1>3. WebTypeOK
  BY <1>2 DEF WebTypeOK
<1>4. OneWriter /\ DataIsEffect /\ \A h \in FileHandlers : wpc[h] # "open"
  BY <1>2 DEF OneWriter, DataIsEffect
<1>5. DOMAIN W!Nothing = {}
  BY DEF W!Nothing
<1>6. wfile.kind = "absent" /\ wfile.content = W!Nothing
  BY <1>2 DEF W!Absent
<1>7. Holds(W!Nothing)
  BY <1>2, <1>5 DEF Holds, Pairs, IdsGiven
<1> QED
  BY <1>3, <1>4, <1>6, <1>7 DEF WebInv, ContentIsExpected

\* A handler starts on a change: it is the only one, or changes overlap.
LEMMA LoadKeeps ==
    ASSUME WebInv, which \in W!Files, NEW h \in FileHandlers, NEW j \in W!Jobs, W!Load(h, j)
    PROVE  WebInv'
<1>1. /\ wpc[h] = "idle" /\ requests < MaxFileRequests /\ requests' = requests + 1
      /\ wpc' = [wpc EXCEPT ![h] = "ready"] /\ wjob' = [wjob EXCEPT ![h] = j]
      /\ wdata' = [wdata EXCEPT ![h] = W!Changed(wfile.content, j)]
      /\ wdisturbed' = (wdisturbed \/ \E g \in FileHandlers : wpc[g] # "idle")
      /\ which' = which /\ wfile' = wfile /\ wexpected' = wexpected
  BY DEF W!Load, W!Started
<1>2. WebTypeOK'
  BY <1>1 DEF WebInv, WebTypeOK
<1>3. SUFFICES ASSUME ~wdisturbed' PROVE OneWriter' /\ ContentIsExpected' /\ DataIsEffect'
  BY <1>2 DEF WebInv
<1>4. /\ ~wdisturbed /\ \A g \in FileHandlers : wpc[g] = "idle"
      /\ OneWriter /\ ContentIsExpected /\ DataIsEffect
  BY <1>1, <1>3 DEF WebInv
<1>5. PICK f : f = wfile.content
  OBVIOUS
<1>6. wfile.kind \in {"absent", "json"} /\ Holds(f)
  BY <1>4, <1>5 DEF ContentIsExpected
<1>7. \A g \in FileHandlers : wpc'[g] = IF g = h THEN "ready" ELSE "idle"
  BY <1>1, <1>4 DEF WebInv, WebTypeOK
<1>8. OneWriter'
  BY <1>7 DEF OneWriter
<1>9. requests \in Nat
  BY DEF WebInv, WebTypeOK
<1>10. ContentIsExpected'
  <2>1. IdsGiven(f, requests)'
    BY <1>1, <1>5, <1>6, <1>9 DEF Holds, IdsGiven
  <2>2. Holds(f)'
    BY <1>1, <1>5, <1>6, <2>1 DEF Holds, Pairs
  <2> QED
    BY <1>1, <1>5, <1>6, <1>7, <2>2 DEF ContentIsExpected
<1>11. PICK d : d = W!Changed(f, j)
  OBVIOUS
<1>12. Pairs(d) = W!Effect(wexpected, j) /\ IdsGiven(d, requests + 1)
  BY <1>1, <1>6, <1>9, <1>11, ChangeIsEffect DEF Holds
<1>13. Will(d, j)'
  BY <1>1, <1>11, <1>12 DEF Will, IdsGiven, Pairs, W!Effect
<1>14. wdata'[h] = d /\ wjob'[h] = j
  BY <1>1, <1>5, <1>11 DEF WebInv, WebTypeOK
<1>15. DataIsEffect'
  BY <1>7, <1>13, <1>14 DEF DataIsEffect
<1> QED
  BY <1>8, <1>10, <1>15

\* What goes amiss with the read, the body or the write is noted.
LEMMA AmissKeeps ==
    ASSUME WebInv, NEW h \in FileHandlers,
           (\E j \in W!Jobs : W!LoadAmiss(h, j)) \/ W!WriteFails(h)
    PROVE  WebInv'
<1>1. /\ requests' \in {requests, requests + 1} /\ which' = which
      /\ \E p \in {"ready", "idle"} : wpc' = [wpc EXCEPT ![h] = p]
      /\ DOMAIN wjob' = DOMAIN wjob /\ DOMAIN wdata' = DOMAIN wdata
      /\ wdisturbed'
  BY DEF W!LoadAmiss, W!Started, W!WriteFails
<1> QED
  BY <1>1 DEF WebInv, WebTypeOK

\* A file that cannot be opened stays as it is.
LEMMA OpenFailsKeeps ==
    ASSUME WebInv, NEW h \in FileHandlers, W!OpenFails(h)
    PROVE  WebInv'
<1>1. /\ wpc[h] = "ready" /\ wpc' = [wpc EXCEPT ![h] = "idle"]
      /\ DOMAIN wjob' = DOMAIN wjob /\ DOMAIN wdata' = DOMAIN wdata
      /\ UNCHANGED <<which, wfile, requests, wdisturbed, wexpected>>
  BY DEF W!OpenFails
<1>2. WebTypeOK'
  BY <1>1 DEF WebInv, WebTypeOK
<1>3. SUFFICES ASSUME ~wdisturbed' PROVE OneWriter' /\ ContentIsExpected' /\ DataIsEffect'
  BY <1>2 DEF WebInv
<1>4. OneWriter /\ ContentIsExpected
  BY <1>1, <1>3 DEF WebInv
<1>5. \A g \in FileHandlers : wpc'[g] = "idle" /\ wpc[g] # "open"
  BY <1>1, <1>4 DEF WebInv, WebTypeOK, OneWriter
<1>6. OneWriter' /\ DataIsEffect'
  BY <1>5 DEF OneWriter, DataIsEffect
<1>7. wfile.kind \in {"absent", "json"} /\ Holds(wfile.content)
  BY <1>4, <1>5 DEF ContentIsExpected
<1>8. Holds(wfile.content)'
  BY <1>1, <1>7 DEF Holds, Pairs, IdsGiven
<1>9. ContentIsExpected'
  BY <1>1, <1>5, <1>7, <1>8 DEF ContentIsExpected
<1> QED
  BY <1>6, <1>9

\* The file is emptied.
LEMMA OpenKeeps ==
    ASSUME WebInv, NEW h \in FileHandlers, W!OpenFile(h)
    PROVE  WebInv'
<1>1. /\ wpc[h] = "ready" /\ wpc' = [wpc EXCEPT ![h] = "open"] /\ wfile' = W!Empty
      /\ UNCHANGED <<which, wjob, wdata, requests, wdisturbed, wexpected>>
  BY DEF W!OpenFile
<1>2. WebTypeOK'
  BY <1>1 DEF WebInv, WebTypeOK
<1>3. SUFFICES ASSUME ~wdisturbed' PROVE OneWriter' /\ ContentIsExpected' /\ DataIsEffect'
  BY <1>2 DEF WebInv
<1>4. OneWriter /\ DataIsEffect
  BY <1>1, <1>3 DEF WebInv
<1>5. /\ \A g \in FileHandlers : (wpc'[g] # "idle") = (wpc[g] # "idle")
      /\ wpc'[h] = "open"
  BY <1>1 DEF WebInv, WebTypeOK
<1>6. OneWriter'
  BY <1>4, <1>5 DEF OneWriter
<1>7. ContentIsExpected'
  BY <1>1, <1>5 DEF ContentIsExpected, W!Empty
<1>8. \A f, j : Will(f, j)' = Will(f, j)
  BY <1>1 DEF Will, Pairs, IdsGiven, W!Effect
<1>9. DataIsEffect'
  BY <1>1, <1>4, <1>5, <1>8 DEF DataIsEffect
<1> QED
  BY <1>6, <1>7, <1>9

\* The change is saved and acknowledged.
LEMMA WriteKeeps ==
    ASSUME WebInv, NEW h \in FileHandlers, W!WriteFile(h)
    PROVE  WebInv'
<1>1. /\ wpc[h] = "open" /\ wpc' = [wpc EXCEPT ![h] = "idle"]
      /\ wexpected' = IF wdisturbed THEN {} ELSE W!Effect(wexpected, wjob[h])
      /\ DOMAIN wjob' = DOMAIN wjob /\ DOMAIN wdata' = DOMAIN wdata
      /\ UNCHANGED <<which, requests, wdisturbed>>
      /\ wfile' = W!Json(wdata[h]) \/ wfile.kind # "empty"
  BY DEF W!WriteFile
<1>2. WebTypeOK'
  BY <1>1 DEF WebInv, WebTypeOK
<1>3. SUFFICES ASSUME ~wdisturbed' PROVE OneWriter' /\ ContentIsExpected' /\ DataIsEffect'
  BY <1>2 DEF WebInv
<1>4. ~wdisturbed /\ OneWriter /\ ContentIsExpected /\ DataIsEffect
  BY <1>1, <1>3 DEF WebInv
<1>5. \A g \in FileHandlers : wpc'[g] = "idle"
  BY <1>1, <1>4 DEF WebInv, WebTypeOK, OneWriter
<1>6. wfile = W!Empty
  BY <1>1, <1>4 DEF ContentIsExpected
<1>7. wfile.kind = "empty"
  BY <1>6 DEF W!Empty
<1>8. PICK d : d = wdata[h]
  OBVIOUS
<1>9. wfile'.kind = "json" /\ wfile'.content = d
  BY <1>1, <1>7, <1>8 DEF W!Json
<1>10. Will(d, wjob[h])
  BY <1>1, <1>4, <1>8 DEF DataIsEffect
<1>11. Pairs(d) = wexpected' /\ IdsGiven(d, requests)
  BY <1>1, <1>4, <1>10 DEF Will
<1>12. Holds(d)'
  BY <1>1, <1>8, <1>11 DEF Holds, IdsGiven, Pairs
<1>13. ContentIsExpected'
  BY <1>5, <1>9, <1>12 DEF ContentIsExpected
<1>14. OneWriter' /\ DataIsEffect'
  BY <1>5 DEF OneWriter, DataIsEffect
<1> QED
  BY <1>13, <1>14

\* A restart between requests loses nothing; one in the middle of a save is noted.
LEMMA RestartKeeps ==
    ASSUME WebInv, W!Restart
    PROVE  WebInv'
<1>1. /\ wpc' = [h \in FileHandlers |-> "idle"]
      /\ DOMAIN wjob' = FileHandlers /\ DOMAIN wdata' = FileHandlers
      /\ wdisturbed' = (wdisturbed \/ \E h \in FileHandlers : wpc[h] = "open")
      /\ UNCHANGED <<which, wfile, requests, wexpected>>
  BY DEF W!Restart
<1>2. WebTypeOK'
  BY <1>1 DEF WebInv, WebTypeOK
<1>3. SUFFICES ASSUME ~wdisturbed' PROVE OneWriter' /\ ContentIsExpected' /\ DataIsEffect'
  BY <1>2 DEF WebInv
<1>4. wfile.kind \in {"absent", "json"} /\ Holds(wfile.content)
  BY <1>1, <1>3 DEF WebInv, ContentIsExpected
<1>5. \A h \in FileHandlers : wpc'[h] = "idle"
  BY <1>1
<1>6. OneWriter' /\ DataIsEffect'
  BY <1>5 DEF OneWriter, DataIsEffect
<1>7. Holds(wfile.content)'
  BY <1>1, <1>4 DEF Holds, Pairs, IdsGiven
<1>8. ContentIsExpected'
  BY <1>1, <1>4, <1>5, <1>7 DEF ContentIsExpected
<1> QED
  BY <1>6, <1>8

\* Every step keeps the invariant.
LEMMA WebStep == WebInv /\ [MCNext]_<<vars, wvars>> => WebInv'
<1>1. SUFFICES ASSUME WebInv, [MCNext]_<<vars, wvars>> PROVE WebInv'
  OBVIOUS
<1>2. CASE UNCHANGED wvars
  <2>1. UNCHANGED <<which, wfile, wpc, wjob, wdata, requests, wdisturbed, wexpected>>
    BY <1>2 DEF wvars
  <2>2. WebTypeOK'
    BY <1>1, <2>1 DEF WebInv, WebTypeOK
  <2>3. OneWriter => OneWriter'
    BY <2>1 DEF OneWriter
  <2>4. ContentIsExpected => ContentIsExpected'
    BY <2>1 DEF ContentIsExpected, Holds, Pairs, IdsGiven, W!Empty
  <2>5. DataIsEffect => DataIsEffect'
    BY <2>1 DEF DataIsEffect, Will, Pairs, IdsGiven, W!Effect
  <2> QED
    BY <1>1, <2>1, <2>2, <2>3, <2>4, <2>5 DEF WebInv
<1>3. CASE which # "users" /\ W!Next
  <2>1. which \in W!Files
    BY <1>1, <1>3 DEF WebInv, WebTypeOK
  <2> QED
    BY <1>1, <1>3, <2>1, LoadKeeps, AmissKeeps, OpenKeeps, OpenFailsKeeps, WriteKeeps,
       RestartKeeps DEF W!Next
<1> QED
  BY <1>1, <1>2, <1>3 DEF MCNext, wvars

\* Whatever the handlers, texts and nodes, and however often the process is killed:
\* what was saved of searches, node names, preferences and alerts is in its file,
\* change after change, until two changes overlap, a body is cut, a save is cut off
\* or a read or a write fails and the error is ignored
\* (web/main.go /web/searches, /web/prefs, /web/node-names; core-go/api.go
\* /api/alerts/config).
THEOREM SavedFilesKept == MCSpec => []SavedFilesAreKept
<1>1. WebInv => SavedFilesAreKept
  <2>1. SUFFICES ASSUME WebInv, ~wdisturbed, \A h \in FileHandlers : wpc[h] # "open"
                 PROVE  /\ wfile.kind \in {"absent", "json"}
                        /\ Pairs(wfile.content) = wexpected
    BY Zenon DEF SavedFilesAreKept, W!Kept, Pairs
  <2> QED
    BY <2>1 DEF WebInv, ContentIsExpected, Holds
<1> QED
  BY <1>1, WebInit, WebStep, PTL DEF MCSpec
=============================================================================
