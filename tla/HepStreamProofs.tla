-------------------------- MODULE HepStreamProofs --------------------------
(***************************************************************************)
(* Proofs about HepStream, for any alphabet, stream, read size and cap:    *)
(* how the bytes of a connection are cut into reads makes no difference to *)
(* the frames, an orderly close loses none, and the buffer stays short.    *)
(***************************************************************************)
EXTENDS HepStream, SequenceTheorems, WellFoundedInduction, TLAPS

\* A set of numbers that is not empty has a least member.
LEMMA LeastNat ==
    ASSUME NEW T \in SUBSET Nat, T # {}
    PROVE  \E n \in T : \A k \in T : n <= k
<1>1. IsWellFoundedOn(OpToRel(<, Nat), Nat)
  BY NatLessThanWellFounded, Zenon
<1>2. PICK n \in T : \A k \in T : ~(<<k, n>> \in OpToRel(<, Nat))
  BY <1>1, WFMin, Zenon
<1>3. \A k \in T : ~(k < n)
  BY <1>2 DEF OpToRel
<1> QED
  BY <1>3

\* Induction up to N, with no operator as a parameter.
LEMMA Climb ==
    ASSUME NEW N \in Nat, NEW Good, 0 \in Good,
           \A n \in 1 .. N : n - 1 \in Good => n \in Good
    PROVE  \A n \in 0 .. N : n \in Good
<1> DEFINE Bad == {n \in 0 .. N : n \notin Good}
<1>1. SUFFICES ASSUME Bad # {} PROVE FALSE
  OBVIOUS
<1>2. Bad \in SUBSET Nat
  OBVIOUS
<1>3. PICK n \in Bad : \A k \in Bad : n <= k
  <2> HIDE DEF Bad
  <2> QED
    BY <1>1, <1>2, LeastNat
<1>4. n \in 1 .. N
  BY <1>3
<1>5. n - 1 \in Good
  BY <1>3, <1>4
<1> QED
  BY <1>3, <1>4, <1>5
-----------------------------------------------------------------------------
(***************************************************************************)
(* The reference FramesOf is read from a table, filled from the end of the *)
(* bytes to their start: entry i is the frames from position i on.         *)
(***************************************************************************)
NoHeader(s, i)   == i + HeaderLen - 1 > Len(s)
BadHeader(s, i)  == s[i] # Magic \/ s[i + 1] < HeaderLen
Incomplete(s, i) == i + s[i + 1] - 1 > Len(s)

Entry(s, f, i) == IF NoHeader(s, i) THEN << >>
                  ELSE IF BadHeader(s, i) THEN f[i + 1]
                  ELSE IF Incomplete(s, i) THEN << >>
                  ELSE <<SubSeq(s, i, i + s[i + 1] - 1)>> \o f[i + s[i + 1]]

\* The part of the table from position k on.
IsPart(f, s, k) == f = [i \in k .. Len(s) + 1 |-> Entry(s, f, i)]

IsTable(f, s) == IsPart(f, s, 1)

\* A cell is a number.
LEMMA CellsAre ==
    /\ Cells \subseteq Nat
    /\ \A s \in Seq(Cells) : Len(s) \in Nat /\ \A i \in 1 .. Len(s) : s[i] \in Cells /\ s[i] \in Nat
<1>1. Cells \subseteq Nat
  BY HepStreamAssumption DEF Cells
<1>2. ASSUME NEW s \in Seq(Cells), NEW i \in 1 .. Len(s) PROVE s[i] \in Cells
  BY ElementOfSeq
<1>3. ASSUME NEW s \in Seq(Cells) PROVE Len(s) \in Nat
  BY LenProperties
<1> QED
  BY <1>1, <1>2, <1>3

\* An entry is made of its own bytes and of later entries.
LEMMA EntryLooksAhead ==
    ASSUME NEW s \in Seq(Cells), NEW i \in 1 .. Len(s) + 1, NEW f, NEW g,
           \A j \in i + 1 .. Len(s) + 1 : f[j] = g[j]
    PROVE  Entry(s, f, i) = Entry(s, g, i)
<1>1. Len(s) \in Nat
  BY CellsAre
<1>2. CASE NoHeader(s, i)
  BY <1>2 DEF Entry
<1>3. CASE ~NoHeader(s, i)
  <2>1. i + 1 \in 1 .. Len(s) /\ i + 1 \in i + 1 .. Len(s) + 1
    BY <1>1, <1>3 DEF NoHeader, HeaderLen
  <2>2. s[i + 1] \in Nat
    BY <2>1, CellsAre
  <2>3. CASE BadHeader(s, i)
    BY <1>3, <2>1, <2>3 DEF Entry
  <2>4. CASE ~BadHeader(s, i) /\ Incomplete(s, i)
    BY <1>3, <2>4 DEF Entry
  <2>5. CASE ~BadHeader(s, i) /\ ~Incomplete(s, i)
    <3>1. i + s[i + 1] \in i + 1 .. Len(s) + 1
      BY <1>1, <2>1, <2>2, <2>5 DEF BadHeader, Incomplete, HeaderLen
    <3>2. f[i + s[i + 1]] = g[i + s[i + 1]]
      BY <3>1
    <3> QED
      BY <1>3, <2>5, <3>2 DEF Entry
  <2> QED
    BY <2>3, <2>4, <2>5
<1> QED
  BY <1>2, <1>3

\* Every byte sequence has a table.
LEMMA TableExists ==
    ASSUME NEW s \in Seq(Cells)
    PROVE  \E f : IsTable(f, s)
<1>1. PICK L \in Nat : L = Len(s)
  BY CellsAre
<1> DEFINE Good == {n \in Nat : \E f : IsPart(f, s, L + 1 - n)}
<1>2. 0 \in Good
  <2> DEFINE f == [i \in L + 1 .. L + 1 |-> << >>]
  <2>1. \A i \in L + 1 .. L + 1 : Entry(s, f, i) = << >>
    BY <1>1 DEF Entry, NoHeader, HeaderLen
  <2>2. f = [i \in L + 1 .. L + 1 |-> Entry(s, f, i)]
    BY <2>1
  <2>3. IsPart(f, s, L + 1 - 0)
    BY <1>1, <2>2 DEF IsPart
  <2> QED
    BY <2>3
<1>3. ASSUME NEW n \in 1 .. L, n - 1 \in Good PROVE n \in Good
  <2>1. PICK k \in 1 .. L : k = L + 1 - n
    OBVIOUS
  <2>2. PICK g : IsPart(g, s, k + 1)
    <3>1. L + 1 - (n - 1) = k + 1
      BY <2>1
    <3> QED
      BY <1>3, <3>1
  <2> DEFINE f == [i \in k .. L + 1 |-> IF i = k THEN Entry(s, g, k) ELSE g[i]]
  <2>3. \A j \in k + 1 .. L + 1 : f[j] = g[j] /\ g[j] = Entry(s, g, j)
    <3>1. ASSUME NEW j \in k + 1 .. L + 1 PROVE f[j] = g[j]
      <4>1. j \in k .. L + 1 /\ j # k
        OBVIOUS
      <4> QED
        BY <4>1
    <3>2. g = [i \in k + 1 .. L + 1 |-> Entry(s, g, i)]
      BY <1>1, <2>2 DEF IsPart
    <3>3. ASSUME NEW j \in k + 1 .. L + 1 PROVE g[j] = Entry(s, g, j)
      BY <3>2, Zenon
    <3> QED
      BY <3>1, <3>3
  <2>4. f[k] = Entry(s, g, k) /\ DOMAIN f = k .. L + 1
    OBVIOUS
  <2> HIDE DEF f
  <2>5. ASSUME NEW i \in k .. L + 1 PROVE f[i] = Entry(s, f, i)
    <3>1. i \in 1 .. L + 1 /\ \A j \in i + 1 .. L + 1 : f[j] = g[j]
      BY <2>3
    <3>2. Entry(s, f, i) = Entry(s, g, i)
      BY <1>1, <3>1, EntryLooksAhead
    <3> QED
      BY <2>3, <2>4, <3>2
  <2>6. f = [i \in k .. L + 1 |-> Entry(s, f, i)]
    <3>1. f = [i \in k .. L + 1 |-> f[i]]
      BY <2>4 DEF f
    <3> QED
      BY <2>5, <3>1
  <2>7. IsPart(f, s, L + 1 - n)
    BY <1>1, <2>1, <2>6 DEF IsPart
  <2> QED
    BY <2>7
<1> HIDE DEF Good
<1>4. L \in Good
  <2>1. \A n \in 1 .. L : n - 1 \in Good => n \in Good
    BY <1>3
  <2>2. \A n \in 0 .. L : n \in Good
    BY <1>2, <2>1, Climb
  <2> QED
    BY <2>2
<1>5. PICK f : IsPart(f, s, L + 1 - L)
  BY <1>4 DEF Good
<1>6. L + 1 - L = 1
  OBVIOUS
<1> QED
  BY <1>5, <1>6 DEF IsTable

\* FramesOf is the first entry of a table.
LEMMA FramesOfIs ==
    ASSUME NEW s \in Seq(Cells)
    PROVE  \E f : IsTable(f, s) /\ FramesOf(s) = f[1]
<1> DEFINE f == CHOOSE f : IsTable(f, s)
<1>1. IsTable(f, s)
  BY TableExists
<1>2. FramesOf(s) = f[1]
  BY DEF FramesOf, IsTable, IsPart, Entry, NoHeader, BadHeader, Incomplete
<1> QED
  BY <1>1, <1>2

Frames == Seq(Cells)

\* The entries of a table.
LEMMA TableEntries ==
    ASSUME NEW s \in Seq(Cells), NEW f, IsTable(f, s)
    PROVE  \A i \in 1 .. Len(s) + 1 : f[i] = Entry(s, f, i)
  BY DEF IsTable, IsPart

\* A frame that is complete.
LEMMA FrameIs ==
    ASSUME NEW s \in Seq(Cells), NEW i \in 1 .. Len(s), NEW n \in Nat, i + n - 1 <= Len(s)
    PROVE  /\ SubSeq(s, i, i + n - 1) \in Frames
           /\ Len(SubSeq(s, i, i + n - 1)) = n
           /\ \A k \in 1 .. n : SubSeq(s, i, i + n - 1)[k] = s[i + k - 1]
<1>1. Len(s) \in Nat /\ i + n - 1 \in Int /\ i \in Int
  BY CellsAre
<1>2. \A k \in i .. i + n - 1 : s[k] \in Cells
  BY <1>1, CellsAre
<1>3. /\ SubSeq(s, i, i + n - 1) \in Seq(Cells)
      /\ Len(SubSeq(s, i, i + n - 1)) = IF i <= i + n - 1 THEN i + n - 1 - i + 1 ELSE 0
      /\ \A k \in 1 .. i + n - 1 - i + 1 : SubSeq(s, i, i + n - 1)[k] = s[i + k - 1]
  BY <1>1, <1>2, SubSeqProperties
<1>4. i + n - 1 - i + 1 = n /\ (IF i <= i + n - 1 THEN n ELSE 0) = n
  OBVIOUS
<1> QED
  BY <1>3, <1>4 DEF Frames

\* Its entries are sequences of frames.
LEMMA TableTypes ==
    ASSUME NEW s \in Seq(Cells), NEW f, IsTable(f, s)
    PROVE  \A i \in 1 .. Len(s) + 1 : f[i] \in Seq(Frames)
<1>1. PICK L \in Nat : L = Len(s)
  BY CellsAre
<1> DEFINE Good == {n \in Nat : \A j \in L + 1 - n .. L + 1 : f[j] \in Seq(Frames)}
<1>2. \A i \in 1 .. L + 1 : f[i] = Entry(s, f, i)
  BY <1>1, TableEntries
<1>3. << >> \in Seq(Frames)
  BY EmptySeq
<1>4. 0 \in Good
  <2>1. L + 1 \in 1 .. L + 1 /\ NoHeader(s, L + 1)
    BY <1>1 DEF NoHeader, HeaderLen
  <2>2. f[L + 1] = << >>
    BY <1>2, <2>1 DEF Entry
  <2>3. \A j \in L + 1 - 0 .. L + 1 : j = L + 1
    OBVIOUS
  <2>4. \A j \in L + 1 - 0 .. L + 1 : f[j] \in Seq(Frames)
    BY <1>3, <2>2, <2>3, Zenon
  <2> QED
    BY <2>4
<1>5. ASSUME NEW n \in 1 .. L, n - 1 \in Good PROVE n \in Good
  <2>1. PICK i \in 1 .. L : i = L + 1 - n
    OBVIOUS
  <2>2. \A j \in i + 1 .. L + 1 : f[j] \in Seq(Frames)
    BY <1>5, <2>1
  <2>3. f[i] \in Seq(Frames)
    <3>1. f[i] = Entry(s, f, i)
      BY <1>2
    <3>2. CASE NoHeader(s, i)
      BY <1>3, <3>1, <3>2 DEF Entry
    <3>3. CASE ~NoHeader(s, i)
      <4>1. i + 1 \in 1 .. L /\ i + 1 \in i + 1 .. L + 1 /\ s[i + 1] \in Nat
        <5>1. i + 1 \in 1 .. L
          BY <1>1, <3>3 DEF NoHeader, HeaderLen
        <5> QED
          BY <1>1, <5>1, CellsAre
      <4>2. CASE BadHeader(s, i)
        BY <2>2, <3>1, <3>3, <4>1, <4>2 DEF Entry
      <4>3. CASE ~BadHeader(s, i) /\ Incomplete(s, i)
        BY <1>3, <3>1, <3>3, <4>3 DEF Entry
      <4>4. CASE ~BadHeader(s, i) /\ ~Incomplete(s, i)
        <5>1. i + s[i + 1] \in i + 1 .. L + 1 /\ i + s[i + 1] - 1 <= L
          BY <1>1, <4>1, <4>4 DEF BadHeader, Incomplete, HeaderLen
        <5>2. SubSeq(s, i, i + s[i + 1] - 1) \in Frames
          BY <1>1, <4>1, <5>1, FrameIs
        <5>3. <<SubSeq(s, i, i + s[i + 1] - 1)>> \in Seq(Frames) /\ f[i + s[i + 1]] \in Seq(Frames)
          BY <2>2, <5>1, <5>2
        <5>4. <<SubSeq(s, i, i + s[i + 1] - 1)>> \o f[i + s[i + 1]] \in Seq(Frames)
          BY <5>3, ConcatProperties
        <5> QED
          BY <3>1, <3>3, <4>4, <5>4 DEF Entry
      <4> QED
        BY <4>2, <4>3, <4>4
    <3> QED
      BY <3>2, <3>3
  <2>4. \A j \in L + 1 - n .. L + 1 : f[j] \in Seq(Frames)
    BY <2>1, <2>2, <2>3
  <2> QED
    BY <2>4
<1> HIDE DEF Good
<1>6. L \in Good
  <2>1. \A n \in 1 .. L : n - 1 \in Good => n \in Good
    BY <1>5
  <2>2. \A n \in 0 .. L : n \in Good
    BY <1>4, <2>1, Climb
  <2> QED
    BY <2>2
<1>7. \A j \in L + 1 - L .. L + 1 : f[j] \in Seq(Frames)
  BY <1>6 DEF Good
<1> QED
  BY <1>1, <1>7

\* t is what follows the first d bytes of s.
IsRest(t, s, d) == Len(s) = Len(t) + d /\ \A i \in 1 .. Len(t) : t[i] = s[i + d]

\* The table of the bytes from d + 1 on is the end of the table of all of them.
LEMMA TablesShift ==
    ASSUME NEW s \in Seq(Cells), NEW t \in Seq(Cells), NEW d \in Nat, IsRest(t, s, d),
           NEW f, IsTable(f, s), NEW g, IsTable(g, t)
    PROVE  \A i \in 1 .. Len(t) + 1 : g[i] = f[i + d]
<1> USE DEF IsRest
<1>1. PICK L \in Nat : L = Len(t)
  BY CellsAre
<1>2. /\ \A i \in 1 .. L + 1 : g[i] = Entry(t, g, i)
      /\ \A i \in 1 .. L + d + 1 : f[i] = Entry(s, f, i)
  BY <1>1, TableEntries
<1> DEFINE Good == {n \in Nat : \A j \in L + 1 - n .. L + 1 : g[j] = f[j + d]}
<1>3. ASSUME NEW i \in 1 .. L + 1, \A j \in i + 1 .. L + 1 : g[j] = f[j + d]
      PROVE  g[i] = f[i + d]
  <2>1. g[i] = Entry(t, g, i) /\ f[i + d] = Entry(s, f, i + d)
    BY <1>2
  <2>2. NoHeader(t, i) <=> NoHeader(s, i + d)
    BY <1>1 DEF NoHeader, HeaderLen
  <2>3. CASE NoHeader(t, i)
    BY <2>1, <2>2, <2>3 DEF Entry
  <2>4. CASE ~NoHeader(t, i)
    <3>1. /\ i \in 1 .. L /\ i + 1 \in 1 .. L /\ i + 1 \in i + 1 .. L + 1
          /\ i + 1 + d = i + d + 1
      BY <1>1, <2>4 DEF NoHeader, HeaderLen
    <3>2. t[i] = s[i + d] /\ t[i + 1] = s[i + d + 1] /\ t[i + 1] \in Nat
      BY <1>1, <3>1, CellsAre
    <3>3. BadHeader(t, i) <=> BadHeader(s, i + d)
      BY <3>2 DEF BadHeader
    <3>4. Incomplete(t, i) <=> Incomplete(s, i + d)
      BY <1>1, <3>2 DEF Incomplete
    <3>5. CASE BadHeader(t, i)
      <4>1. g[i] = g[i + 1] /\ f[i + d] = f[i + d + 1]
        BY <2>1, <2>2, <2>4, <3>3, <3>5 DEF Entry
      <4>2. g[i + 1] = f[i + 1 + d]
        BY <1>3, <3>1
      <4> QED
        BY <3>1, <4>1, <4>2
    <3>6. CASE ~BadHeader(t, i) /\ Incomplete(t, i)
      BY <2>1, <2>2, <2>4, <3>3, <3>4, <3>6 DEF Entry
    <3>7. CASE ~BadHeader(t, i) /\ ~Incomplete(t, i)
      <4>1. PICK n \in Nat : n = t[i + 1]
        BY <3>2
      <4>2. /\ g[i] = <<SubSeq(t, i, i + n - 1)>> \o g[i + n]
            /\ f[i + d] = <<SubSeq(s, i + d, i + d + n - 1)>> \o f[i + d + n]
        BY <2>1, <2>2, <2>4, <3>2, <3>3, <3>4, <3>7, <4>1 DEF Entry
      <4>3. /\ i + n \in i + 1 .. L + 1 /\ i + n - 1 <= L /\ i + n + d = i + d + n
            /\ i + d \in 1 .. L + d /\ i + d + n - 1 <= L + d
        <5>1. n >= 2
          BY <3>7, <4>1 DEF BadHeader, HeaderLen
        <5>2. i + n - 1 <= L
          BY <1>1, <3>7, <4>1 DEF Incomplete
        <5> QED
          BY <3>1, <5>1, <5>2
      <4>4. g[i + n] = f[i + d + n]
        BY <1>3, <4>3
      <4>5. SubSeq(t, i, i + n - 1) = SubSeq(s, i + d, i + d + n - 1)
        <5>1. /\ SubSeq(t, i, i + n - 1) \in Frames /\ Len(SubSeq(t, i, i + n - 1)) = n
              /\ \A k \in 1 .. n : SubSeq(t, i, i + n - 1)[k] = t[i + k - 1]
          BY <1>1, <3>1, <4>3, FrameIs
        <5>2. /\ SubSeq(s, i + d, i + d + n - 1) \in Frames
              /\ Len(SubSeq(s, i + d, i + d + n - 1)) = n
              /\ \A k \in 1 .. n : SubSeq(s, i + d, i + d + n - 1)[k] = s[i + d + k - 1]
          BY <1>1, <4>3, FrameIs
        <5>3. \A k \in 1 .. n : t[i + k - 1] = s[i + d + k - 1]
          <6>1. ASSUME NEW k \in 1 .. n PROVE t[i + k - 1] = s[i + d + k - 1]
            <7>1. i + k - 1 \in 1 .. L /\ i + k - 1 + d = i + d + k - 1
              BY <4>3
            <7> QED
              BY <1>1, <7>1
          <6> QED
            BY <6>1
        <5> QED
          BY <5>1, <5>2, <5>3, SeqEqual DEF Frames
      <4> QED
        BY <4>2, <4>4, <4>5
    <3> QED
      BY <3>5, <3>6, <3>7
  <2> QED
    BY <2>3, <2>4
<1>4. 0 \in Good
  <2>1. g[L + 1] = f[L + 1 + d]
    BY <1>3
  <2> QED
    BY <2>1
<1>5. ASSUME NEW n \in 1 .. L, n - 1 \in Good PROVE n \in Good
  <2>1. PICK i \in 1 .. L : i = L + 1 - n
    OBVIOUS
  <2>2. \A j \in i + 1 .. L + 1 : g[j] = f[j + d]
    BY <1>5, <2>1
  <2>3. g[i] = f[i + d]
    BY <1>3, <2>2
  <2>4. \A j \in L + 1 - n .. L + 1 : g[j] = f[j + d]
    BY <2>1, <2>2, <2>3
  <2> QED
    BY <2>4
<1>6. CASE L = 0
  BY <1>1, <1>3, <1>6
<1>7. CASE L # 0
  <2> HIDE DEF Good
  <2>1. L \in Good
    <3>1. \A n \in 1 .. L : n - 1 \in Good => n \in Good
      BY <1>5
    <3>2. \A n \in 0 .. L : n \in Good
      BY <1>4, <3>1, Climb
    <3> QED
      BY <3>2
  <2>2. \A j \in L + 1 - L .. L + 1 : g[j] = f[j + d]
    BY <2>1 DEF Good
  <2> QED
    BY <1>1, <2>2
<1> QED
  BY <1>6, <1>7
-----------------------------------------------------------------------------
(***************************************************************************)
(* What FramesOf is, by the first bytes: the three turns of the loop in    *)
(* drainHEPFrames.                                                         *)
(***************************************************************************)
\* FramesOf of the bytes from d + 1 on is entry d + 1.
LEMMA FramesOfRest ==
    ASSUME NEW s \in Seq(Cells), NEW t \in Seq(Cells), NEW d \in Nat, IsRest(t, s, d),
           NEW f, IsTable(f, s)
    PROVE  FramesOf(t) = f[d + 1]
<1>1. PICK g : IsTable(g, t) /\ FramesOf(t) = g[1]
  BY FramesOfIs
<1>2. \A i \in 1 .. Len(t) + 1 : g[i] = f[i + d]
  BY <1>1, TablesShift
<1>3. 1 \in 1 .. Len(t) + 1 /\ 1 + d = d + 1
  BY CellsAre
<1> QED
  BY <1>1, <1>2, <1>3

\* The frames of a byte sequence are sequences of cells.
LEMMA FramesType ==
    ASSUME NEW s \in Seq(Cells)
    PROVE  FramesOf(s) \in Seq(Frames)
<1>1. PICK f : IsTable(f, s) /\ FramesOf(s) = f[1]
  BY FramesOfIs
<1>2. 1 \in 1 .. Len(s) + 1
  BY CellsAre
<1> QED
  BY <1>1, <1>2, TableTypes

\* The header is not one: the first byte is skipped.
LEMMA FramesSkip ==
    ASSUME NEW s \in Seq(Cells), Len(s) >= 2, s[1] # Magic \/ s[2] < HeaderLen,
           NEW t \in Seq(Cells), IsRest(t, s, 1)
    PROVE  FramesOf(s) = FramesOf(t)
<1>1. PICK f : IsTable(f, s) /\ FramesOf(s) = f[1]
  BY FramesOfIs
<1>2. 1 \in 1 .. Len(s) + 1 /\ ~NoHeader(s, 1) /\ BadHeader(s, 1)
  <2>1. Len(s) \in Nat /\ 1 + 1 = 2
    BY CellsAre
  <2> QED
    BY <2>1 DEF NoHeader, BadHeader, HeaderLen
<1>3. f[1] = f[1 + 1]
  BY <1>1, <1>2, TableEntries DEF Entry
<1>4. FramesOf(t) = f[1 + 1]
  BY <1>1, FramesOfRest
<1> QED
  BY <1>1, <1>3, <1>4

\* A complete frame is the first one, and the rest are those of the bytes after it.
LEMMA FramesTake ==
    ASSUME NEW s \in Seq(Cells), Len(s) >= 2, s[1] = Magic, NEW n \in Nat, s[2] = n,
           n >= HeaderLen, n <= Len(s),
           NEW t \in Seq(Cells), IsRest(t, s, n)
    PROVE  FramesOf(s) = <<SubSeq(s, 1, n)>> \o FramesOf(t)
<1>1. PICK f : IsTable(f, s) /\ FramesOf(s) = f[1]
  BY FramesOfIs
<1>2. Len(s) \in Nat /\ 1 \in 1 .. Len(s) + 1 /\ 1 + 1 = 2 /\ 1 + n - 1 = n /\ 1 + n = n + 1
  BY CellsAre
<1>3. f[1] = <<SubSeq(s, 1, n)>> \o f[n + 1]
  <2>1. f[1] = Entry(s, f, 1)
    BY <1>1, <1>2, TableEntries
  <2>2. s[1 + 1] = n
    BY <1>2
  <2>3. ~NoHeader(s, 1)
    BY <1>2 DEF NoHeader, HeaderLen
  <2>4. ~BadHeader(s, 1)
    BY <2>2 DEF BadHeader, HeaderLen
  <2>5. ~Incomplete(s, 1)
    BY <1>2, <2>2 DEF Incomplete
  <2>6. Entry(s, f, 1) = <<SubSeq(s, 1, 1 + s[1 + 1] - 1)>> \o f[1 + s[1 + 1]]
    BY <2>3, <2>4, <2>5, Zenon DEF Entry
  <2>7. Entry(s, f, 1) = <<SubSeq(s, 1, 1 + n - 1)>> \o f[1 + n]
    BY <2>2, <2>6, Zenon
  <2> QED
    BY <1>2, <2>1, <2>7, Zenon
<1>4. FramesOf(t) = f[n + 1]
  BY <1>1, FramesOfRest
<1> QED
  BY <1>1, <1>3, <1>4

\* No complete frame, and none to come without more bytes.
LEMMA FramesNone ==
    ASSUME NEW s \in Seq(Cells),
           Len(s) < HeaderLen \/ (Len(s) >= 2 /\ s[1] = Magic /\ s[2] >= HeaderLen /\ Len(s) < s[2])
    PROVE  FramesOf(s) = << >>
<1>1. PICK f : IsTable(f, s) /\ FramesOf(s) = f[1]
  BY FramesOfIs
<1>2. Len(s) \in Nat /\ 1 \in 1 .. Len(s) + 1 /\ 1 + 1 = 2
  BY CellsAre
<1>3. f[1] = Entry(s, f, 1)
  BY <1>1, <1>2, TableEntries
<1>4. CASE Len(s) < HeaderLen
  <2>1. NoHeader(s, 1)
    BY <1>2, <1>4 DEF NoHeader, HeaderLen
  <2> QED
    BY <1>1, <1>3, <2>1 DEF Entry
<1>5. CASE Len(s) >= 2 /\ s[1] = Magic /\ s[2] >= HeaderLen /\ Len(s) < s[2]
  <2>1. s[2] \in Nat
    BY <1>2, <1>5, CellsAre
  <2>2. ~NoHeader(s, 1) /\ ~BadHeader(s, 1) /\ Incomplete(s, 1)
    BY <1>2, <1>5, <2>1 DEF NoHeader, BadHeader, Incomplete, HeaderLen
  <2> QED
    BY <1>1, <1>3, <2>2 DEF Entry
<1> QED
  BY <1>4, <1>5
-----------------------------------------------------------------------------
(***************************************************************************)
(* The same with any bytes x behind those buffered: what the drain does to *)
(* the buffer is right whatever is still to arrive.                        *)
(***************************************************************************)
\* The bytes from n + 1 on, with x behind them, are those of all of them with x.
LEMMA DropFirst ==
    ASSUME NEW b \in Seq(Cells), NEW r \in Seq(Cells), NEW n \in Nat, IsRest(r, b, n),
           NEW x \in Seq(Cells)
    PROVE  /\ b \o x \in Seq(Cells) /\ r \o x \in Seq(Cells) /\ IsRest(r \o x, b \o x, n)
<1> USE DEF IsRest
<1>1. Len(b) \in Nat /\ Len(x) \in Nat /\ Len(r) \in Nat
  BY CellsAre
<1>2. /\ b \o x \in Seq(Cells) /\ Len(b \o x) = Len(b) + Len(x)
      /\ \A i \in 1 .. Len(b) + Len(x) : (b \o x)[i] = IF i <= Len(b) THEN b[i] ELSE x[i - Len(b)]
  BY ConcatProperties
<1>3. /\ r \o x \in Seq(Cells) /\ Len(r \o x) = Len(r) + Len(x)
      /\ \A i \in 1 .. Len(r) + Len(x) : (r \o x)[i] = IF i <= Len(r) THEN r[i] ELSE x[i - Len(r)]
  BY ConcatProperties
<1>4. ASSUME NEW i \in 1 .. Len(r) + Len(x) PROVE (r \o x)[i] = (b \o x)[i + n]
  <2>1. CASE i <= Len(r)
    <3>1. (r \o x)[i] = r[i] /\ r[i] = b[i + n]
      BY <1>1, <1>3, <2>1
    <3>2. (b \o x)[i + n] = b[i + n]
      BY <1>1, <1>2, <2>1
    <3> QED
      BY <3>1, <3>2
  <2>2. CASE ~(i <= Len(r))
    <3>1. i - Len(r) = i + n - Len(b) /\ i + n \in 1 .. Len(b) + Len(x) /\ ~(i + n <= Len(b))
      BY <1>1, <2>2
    <3>2. (r \o x)[i] = x[i - Len(r)]
      BY <1>3, <2>2
    <3>3. (b \o x)[i + n] = x[i + n - Len(b)]
      BY <1>2, <3>1
    <3> QED
      BY <3>1, <3>2, <3>3
  <2> QED
    BY <2>1, <2>2
<1>5. Len(b \o x) = Len(r \o x) + n
  BY <1>1, <1>2, <1>3
<1> QED
  BY <1>2, <1>3, <1>4, <1>5

\* A header of two bytes is the same with x behind it.
LEMMA HeaderStays ==
    ASSUME NEW b \in Seq(Cells), Len(b) >= 2, NEW x \in Seq(Cells)
    PROVE  /\ Len(b \o x) >= Len(b) /\ Len(b \o x) \in Nat
           /\ (b \o x)[1] = b[1] /\ (b \o x)[2] = b[2]
<1>1. Len(b) \in Nat /\ Len(x) \in Nat
  BY CellsAre
<1>2. /\ Len(b \o x) = Len(b) + Len(x)
      /\ \A i \in 1 .. Len(b) + Len(x) : (b \o x)[i] = IF i <= Len(b) THEN b[i] ELSE x[i - Len(b)]
  BY ConcatProperties
<1> QED
  BY <1>1, <1>2

\* A byte that starts no frame may be dropped.
LEMMA SkipOne ==
    ASSUME NEW b \in Seq(Cells), Len(b) >= 2, b[1] # Magic \/ b[2] < HeaderLen,
           NEW x \in Seq(Cells)
    PROVE  /\ Tail(b) \in Seq(Cells)
           /\ FramesOf(b \o x) = FramesOf(Tail(b) \o x)
<1>1. Len(b) \in Nat /\ Len(x) \in Nat
  BY CellsAre
<1>2. PICK r \in Seq(Cells) :
          r = Tail(b) /\ IsRest(r, b, 1)
  <2>1. b # << >>
    BY <1>1, EmptySeq
  <2>2. /\ Tail(b) \in Seq(Cells) /\ Len(Tail(b)) = Len(b) - 1
        /\ \A i \in 1 .. Len(Tail(b)) : Tail(b)[i] = b[i + 1]
    BY <2>1, HeadTailProperties
  <2>3. Len(b) = Len(Tail(b)) + 1
    BY <1>1, <2>2
  <2> QED
    BY <2>2, <2>3 DEF IsRest
<1>3. b \o x \in Seq(Cells) /\ r \o x \in Seq(Cells) /\ IsRest(r \o x, b \o x, 1)
  BY <1>2, DropFirst
<1>4. (b \o x)[1] = b[1] /\ (b \o x)[2] = b[2] /\ Len(b \o x) >= 2
  BY <1>1, HeaderStays
<1>5. (b \o x)[1] # Magic \/ (b \o x)[2] < HeaderLen
  BY <1>4
<1>6. FramesOf(b \o x) = FramesOf(r \o x)
  BY <1>3, <1>4, <1>5, FramesSkip
<1> QED
  BY <1>2, <1>6

\* The bytes behind the first frame.
LEMMA RestIs ==
    ASSUME NEW b \in Seq(Cells), NEW n \in Nat, n <= Len(b)
    PROVE  SubSeq(b, n + 1, Len(b)) \in Seq(Cells) /\ IsRest(SubSeq(b, n + 1, Len(b)), b, n)
<1>1. Len(b) \in Nat /\ n + 1 \in Int /\ Len(b) \in Int
  BY CellsAre
<1>2. \A i \in n + 1 .. Len(b) : b[i] \in Cells
  BY <1>1, CellsAre
<1>3. /\ SubSeq(b, n + 1, Len(b)) \in Seq(Cells)
      /\ Len(SubSeq(b, n + 1, Len(b))) = IF n + 1 <= Len(b) THEN Len(b) - (n + 1) + 1 ELSE 0
      /\ \A i \in 1 .. Len(b) - (n + 1) + 1 : SubSeq(b, n + 1, Len(b))[i] = b[n + 1 + i - 1]
  BY <1>1, <1>2, SubSeqProperties
<1>4. Len(b) - (n + 1) + 1 = Len(b) - n /\ (n + 1 <= Len(b) \/ Len(b) - n = 0)
  BY <1>1
<1>5. \A i \in 1 .. Len(b) - n : n + 1 + i - 1 = i + n
  BY <1>1
<1>6. /\ Len(SubSeq(b, n + 1, Len(b))) = Len(b) - n
      /\ \A i \in 1 .. Len(b) - n : SubSeq(b, n + 1, Len(b))[i] = b[i + n]
  BY <1>3, <1>4, <1>5
<1> QED
  BY <1>1, <1>3, <1>6 DEF IsRest

\* A complete frame may be taken off the front.
LEMMA TakeOne ==
    ASSUME NEW b \in Seq(Cells), Len(b) >= 2, b[1] = Magic, NEW n \in Nat, b[2] = n,
           n >= HeaderLen, n <= Len(b), NEW x \in Seq(Cells)
    PROVE  FramesOf(b \o x) =
               <<SubSeq(b, 1, n)>> \o FramesOf(SubSeq(b, n + 1, Len(b)) \o x)
<1>1. Len(b) \in Nat /\ Len(x) \in Nat
  BY CellsAre
<1>2. PICK r \in Seq(Cells) : r = SubSeq(b, n + 1, Len(b)) /\ IsRest(r, b, n)
  BY RestIs
<1>3. b \o x \in Seq(Cells) /\ r \o x \in Seq(Cells) /\ IsRest(r \o x, b \o x, n)
  BY <1>2, DropFirst
<1>4. (b \o x)[1] = Magic /\ (b \o x)[2] = n /\ Len(b \o x) >= 2 /\ n <= Len(b \o x)
  BY <1>1, HeaderStays
<1>5. FramesOf(b \o x) = <<SubSeq(b \o x, 1, n)>> \o FramesOf(r \o x)
  BY <1>3, <1>4, FramesTake
<1>6. SubSeq(b \o x, 1, n) = SubSeq(b, 1, n)
  <2>1. 1 \in 1 .. Len(b) /\ n \in 1 .. Len(b)
    BY <1>1 DEF HeaderLen
  <2> QED
    BY <2>1, SubSeqOfConcat1
<1> QED
  BY <1>2, <1>5, <1>6
-----------------------------------------------------------------------------
(***************************************************************************)
(* The invariant.  Handled speaks of every continuation x of what has      *)
(* arrived: the property itself, which knows only the stream's own rest,   *)
(* does not survive a read.                                                *)
(***************************************************************************)
Types == /\ kind \in Kinds
         /\ stream \in Seq(Cells) /\ Len(stream) = StreamLen
         /\ pos \in 0 .. StreamLen
         /\ buf \in Seq(Cells)
         /\ frames \in Seq(Frames)
         /\ at \in {"read", "drain", "closing", "done"}
         /\ ended \in {"no", "eof", "error", "cap"}

Handled == \A x \in Seq(Cells) :
               frames \o FramesOf(buf \o x) = FramesOf(SubSeq(stream, 1, pos) \o x)

NothingLeft == at = "done" /\ ended = "eof" => FramesOf(buf) = << >>

StreamInv == Types /\ Handled /\ NothingLeft

\* Joining sequences is associative.
LEMMA JoinsAssociate ==
    /\ \A s, t, u \in Seq(Cells) : (s \o t) \o u = s \o (t \o u)
    /\ \A s, t, u \in Seq(Frames) : (s \o t) \o u = s \o (t \o u)
<1>1. ASSUME NEW s \in Seq(Cells), NEW t \in Seq(Cells), NEW u \in Seq(Cells)
      PROVE  (s \o t) \o u = s \o (t \o u)
  BY ConcatAssociative
<1>2. ASSUME NEW s \in Seq(Frames), NEW t \in Seq(Frames), NEW u \in Seq(Frames)
      PROVE  (s \o t) \o u = s \o (t \o u)
  BY ConcatAssociative
<1> QED
  BY <1>1, <1>2

\* Before the first read.
LEMMA StreamInit == Init => StreamInv
<1> SUFFICES ASSUME Init PROVE StreamInv
  OBVIOUS
<1>1. stream \in Seq(Cells) /\ Len(stream) = StreamLen
  BY HepStreamAssumption DEF Init
<1>2. Types
  BY <1>1, HepStreamAssumption, EmptySeq DEF Init, Types
<1>3. ASSUME NEW x \in Seq(Cells)
      PROVE  frames \o FramesOf(buf \o x) = FramesOf(SubSeq(stream, 1, pos) \o x)
  <2>1. SubSeq(stream, 1, pos) = << >>
    BY SubSeqEmpty DEF Init
  <2>2. buf = << >> /\ frames = << >>
    BY DEF Init
  <2>3. << >> \o FramesOf(<< >> \o x) = FramesOf(<< >> \o x)
    <3>1. << >> \o x = x
      BY ConcatEmptySeq
    <3>2. FramesOf(x) \in Seq(Frames)
      BY FramesType
    <3>3. << >> \o FramesOf(x) = FramesOf(x)
      BY <3>2, ConcatEmptySeq
    <3> QED
      BY <3>1, <3>3
  <2> QED
    BY <2>1, <2>2, <2>3
<1>4. NothingLeft
  BY DEF Init, NothingLeft
<1> QED
  BY <1>2, <1>3, <1>4 DEF StreamInv, Handled

\* A read.  The bytes that arrive were the start of the continuation.
LEMMA ArriveStep ==
    ASSUME StreamInv, NEW n \in 1 .. MaxRead, Arrive(n)
    PROVE  /\ stream' \in Seq(Cells) /\ Len(stream') = StreamLen
           /\ pos' \in 0 .. StreamLen /\ buf' \in Seq(Cells) /\ frames' \in Seq(Frames)
           /\ Len(buf') = Len(buf) + n
           /\ Handled'
<1>1. /\ stream \in Seq(Cells) /\ Len(stream) = StreamLen /\ StreamLen \in Nat
      /\ pos \in 0 .. StreamLen /\ buf \in Seq(Cells) /\ frames \in Seq(Frames)
      /\ MaxRead \in Nat
  BY HepStreamAssumption DEF StreamInv, Types
<1>2. /\ pos + n <= StreamLen /\ pos' = pos + n /\ stream' = stream /\ frames' = frames
      /\ buf' = buf \o SubSeq(stream, pos + 1, pos + n)
  BY DEF Arrive
<1>3. PICK c : c = SubSeq(stream, pos + 1, pos + n)
  OBVIOUS
<1>4. c \in Seq(Cells) /\ Len(c) = n
  <2>1. PICK m \in 1 .. Len(stream) : m = pos + 1
    BY <1>1, <1>2
  <2>2. n \in Nat /\ m + n - 1 = pos + n /\ m + n - 1 <= Len(stream)
    BY <1>1, <1>2, <2>1
  <2>3. SubSeq(stream, m, m + n - 1) \in Frames /\ Len(SubSeq(stream, m, m + n - 1)) = n
    BY <1>1, <2>2, FrameIs
  <2> QED
    BY <1>3, <2>1, <2>2, <2>3 DEF Frames
<1>5. buf' = buf \o c /\ buf \o c \in Seq(Cells) /\ Len(buf \o c) = Len(buf) + n
  BY <1>1, <1>2, <1>3, <1>4, ConcatProperties
<1>6. PICK a \in Seq(Cells) : a = SubSeq(stream, 1, pos)
  <2>1. \A i \in 1 .. pos : stream[i] \in Cells
    BY <1>1, CellsAre
  <2>2. SubSeq(stream, 1, pos) \in Seq(Cells)
    BY <1>1, <2>1, SubSeqProperties
  <2> QED
    BY <2>2
<1>7. SubSeq(stream, 1, pos + n) = a \o c
  <2>1. /\ 1 \in 1 .. Len(stream) + 1 /\ pos \in 1 - 1 .. Len(stream)
        /\ pos + n \in pos .. Len(stream)
    BY <1>1, <1>2
  <2> QED
    BY <1>1, <1>3, <1>6, <2>1, ConcatAdjacentSubSeq
<1>8. ASSUME NEW x \in Seq(Cells)
      PROVE  frames \o FramesOf((buf \o c) \o x) = FramesOf((a \o c) \o x)
  <2>1. c \o x \in Seq(Cells)
    BY <1>4, ConcatProperties
  <2>2. frames \o FramesOf(buf \o (c \o x)) = FramesOf(a \o (c \o x))
    BY <1>6, <2>1 DEF StreamInv, Handled
  <2>3. (buf \o c) \o x = buf \o (c \o x)
    BY <1>1, <1>4, JoinsAssociate, Zenon
  <2>4. (a \o c) \o x = a \o (c \o x)
    BY <1>4, JoinsAssociate, Zenon
  <2> QED
    BY <2>2, <2>3, <2>4
<1>9. Handled'
  BY <1>2, <1>5, <1>7, <1>8 DEF Handled
<1>10. pos + n \in 0 .. StreamLen
  BY <1>1, <1>2
<1> QED
  BY <1>1, <1>2, <1>5, <1>9, <1>10

\* A byte is skipped.
LEMMA SkipStep ==
    ASSUME StreamInv, SkipByte
    PROVE  StreamInv'
<1>1. /\ buf \in Seq(Cells) /\ Len(buf) \in Nat
      /\ UNCHANGED <<kind, stream, pos, frames, at, ended>> /\ buf' = Tail(buf)
      /\ at # "done"
  BY CellsAre DEF StreamInv, Types, SkipByte, Draining
<1>2. Len(buf) >= 2 /\ (buf[1] # Magic \/ buf[2] < HeaderLen)
  <2>1. Len(buf) >= 2
    BY DEF SkipByte, HeaderThere, HeaderLen
  <2>2. buf[2] \in Nat
    BY <1>1, <2>1, CellsAre
  <2> QED
    BY <2>1, <2>2 DEF SkipByte, HeaderThere, GoodHeader, HeaderLen
<1>3. \A x \in Seq(Cells) : Tail(buf) \in Seq(Cells) /\ FramesOf(buf \o x) = FramesOf(Tail(buf) \o x)
  BY <1>1, <1>2, SkipOne
<1>4. Tail(buf) \in Seq(Cells)
  BY <1>3, EmptySeq
<1>5. Handled'
  <2>1. ASSUME NEW x \in Seq(Cells)
        PROVE  frames \o FramesOf(Tail(buf) \o x) = FramesOf(SubSeq(stream, 1, pos) \o x)
    <3>1. frames \o FramesOf(buf \o x) = FramesOf(SubSeq(stream, 1, pos) \o x)
      BY DEF StreamInv, Handled
    <3> QED
      BY <1>3, <3>1
  <2> QED
    BY <1>1, <2>1 DEF Handled
<1>6. Types'
  BY <1>1, <1>4 DEF StreamInv, Types
<1> QED
  BY <1>1, <1>5, <1>6 DEF StreamInv, NothingLeft

\* A frame is handled.
LEMMA HandleStep ==
    ASSUME StreamInv, HandleFrame
    PROVE  StreamInv'
<1>1. /\ buf \in Seq(Cells) /\ Len(buf) \in Nat /\ frames \in Seq(Frames)
      /\ UNCHANGED <<kind, stream, pos, at, ended>> /\ at # "done"
      /\ Len(buf) >= 2 /\ buf[1] = Magic /\ buf[2] >= HeaderLen /\ Len(buf) >= buf[2]
  BY CellsAre DEF StreamInv, Types, HandleFrame, Draining, GoodHeader, HeaderThere, HeaderLen
<1>2. PICK n \in Nat : buf[2] = n
  BY <1>1, CellsAre
<1>3. n >= HeaderLen /\ n <= Len(buf) /\ n >= 2
  BY <1>1, <1>2 DEF HeaderLen
<1>4. /\ frames' = Append(frames, SubSeq(buf, 1, n))
      /\ buf' = SubSeq(buf, n + 1, Len(buf))
  BY <1>2 DEF HandleFrame
<1>5. SubSeq(buf, n + 1, Len(buf)) \in Seq(Cells)
  BY <1>1, <1>3, RestIs
<1>6. PICK p \in Frames : p = SubSeq(buf, 1, n)
  <2>1. 1 \in 1 .. Len(buf) /\ 1 + n - 1 <= Len(buf) /\ 1 + n - 1 = n
    BY <1>1, <1>3
  <2>2. SubSeq(buf, 1, 1 + n - 1) \in Frames
    BY <1>1, <2>1, FrameIs
  <2> QED
    BY <2>1, <2>2
<1>7. frames' = frames \o <<p>> /\ frames' \in Seq(Frames) /\ <<p>> \in Seq(Frames)
  <2>1. frames' = Append(frames, p)
    BY <1>4, <1>6
  <2>2. Append(frames, p) = frames \o <<p>>
    BY <1>1, AppendIsConcat
  <2>3. Append(frames, p) \in Seq(Frames)
    BY <1>1, AppendProperties
  <2>4. <<p>> \in Seq(Frames)
    OBVIOUS
  <2> QED
    BY <2>1, <2>2, <2>3, <2>4, Zenon
<1>8. Handled'
  <2>1. ASSUME NEW x \in Seq(Cells)
        PROVE  frames' \o FramesOf(buf' \o x) = FramesOf(SubSeq(stream, 1, pos) \o x)
    <3>1. frames \o FramesOf(buf \o x) = FramesOf(SubSeq(stream, 1, pos) \o x)
      BY DEF StreamInv, Handled
    <3>2. FramesOf(buf \o x) = <<p>> \o FramesOf(buf' \o x)
      BY <1>1, <1>2, <1>3, <1>4, <1>6, TakeOne
    <3>3. FramesOf(buf' \o x) \in Seq(Frames)
      <4>1. buf' \in Seq(Cells)
        BY <1>4, <1>5
      <4>2. buf' \o x \in Seq(Cells)
        BY <4>1, ConcatProperties
      <4> QED
        BY <4>2, FramesType
    <3>4. (frames \o <<p>>) \o FramesOf(buf' \o x) = frames \o (<<p>> \o FramesOf(buf' \o x))
      <4>1. PICK q \in Seq(Frames) : q = FramesOf(buf' \o x)
        BY <3>3
      <4>2. PICK o \in Seq(Frames) : o = <<p>>
        BY <1>7
      <4>3. (frames \o o) \o q = frames \o (o \o q)
        BY <1>1, JoinsAssociate
      <4> QED
        BY <4>1, <4>2, <4>3
    <3> QED
      BY <1>7, <3>1, <3>2, <3>4
  <2> QED
    BY <1>1, <2>1 DEF Handled
<1>9. Types'
  BY <1>1, <1>4, <1>5, <1>7 DEF StreamInv, Types
<1> QED
  BY <1>1, <1>8, <1>9 DEF StreamInv, NothingLeft

\* The drain ends with no complete frame in the buffer.
LEMMA NeedMoreLeaves ==
    ASSUME StreamInv, NeedMore
    PROVE  FramesOf(buf) = << >>
<1>1. buf \in Seq(Cells)
  BY DEF StreamInv, Types
<1>2. Len(buf) < HeaderLen \/ (Len(buf) >= 2 /\ buf[1] = Magic /\ buf[2] >= HeaderLen /\ Len(buf) < buf[2])
  <2>1. Len(buf) \in Nat
    BY <1>1, CellsAre
  <2> QED
    BY <2>1 DEF NeedMore, GoodHeader, HeaderThere, HeaderLen
<1> QED
  BY <1>1, <1>2, FramesNone

\* Every step of a connection keeps the invariant.
LEMMA StreamStep == StreamInv /\ [Next]_vars => StreamInv'
<1> SUFFICES ASSUME StreamInv, [Next]_vars PROVE StreamInv'
  OBVIOUS
<1>1. ASSUME NEW n \in 1 .. MaxRead, TcpRead(n) PROVE StreamInv'
  <2>1. /\ stream' \in Seq(Cells) /\ Len(stream') = StreamLen
        /\ pos' \in 0 .. StreamLen /\ buf' \in Seq(Cells) /\ frames' \in Seq(Frames)
        /\ Handled'
    BY <1>1, ArriveStep DEF TcpRead
  <2>2. kind' \in Kinds /\ kind' = kind
    BY <1>1 DEF TcpRead, Arrive, StreamInv, Types
  <2>3. \/ at' = "done" /\ ended' = "cap"
        \/ at' = "drain" /\ ended' = ended
    BY <1>1 DEF TcpRead
  <2>4. Types'
    BY <2>1, <2>2, <2>3 DEF Types, StreamInv
  <2>5. NothingLeft'
    BY <2>3 DEF NothingLeft
  <2> QED
    BY <2>1, <2>4, <2>5 DEF StreamInv
<1>2. ASSUME NEW n \in 1 .. MaxRead, TlsRead(n) PROVE StreamInv'
  <2>1. /\ stream' \in Seq(Cells) /\ Len(stream') = StreamLen
        /\ pos' \in 0 .. StreamLen /\ buf' \in Seq(Cells) /\ frames' \in Seq(Frames)
        /\ Handled'
    BY <1>2, ArriveStep DEF TlsRead
  <2>2. kind' = kind /\ at' = at /\ ended' = ended /\ at = "read"
    BY <1>2 DEF TlsRead, Arrive
  <2>3. Types'
    BY <2>1, <2>2 DEF Types, StreamInv
  <2>4. NothingLeft'
    BY <2>2 DEF NothingLeft
  <2> QED
    BY <2>1, <2>3, <2>4 DEF StreamInv
<1>3. CASE ReadEOF \/ ReadError
  BY <1>3 DEF ReadEOF, ReadError, StreamInv, Types, Handled, NothingLeft
<1>4. CASE SkipByte
  BY <1>4, SkipStep
<1>5. CASE HandleFrame
  BY <1>5, HandleStep
<1>6. CASE NeedMore
  <2>1. FramesOf(buf) = << >>
    BY <1>6, NeedMoreLeaves
  <2>2. UNCHANGED <<kind, stream, pos, buf, frames, ended>> /\ at' \in {"read", "done"}
    BY <1>6 DEF NeedMore
  <2> QED
    BY <2>1, <2>2 DEF StreamInv, Types, Handled, NothingLeft
<1>7. CASE UNCHANGED vars
  BY <1>7 DEF vars, StreamInv, Types, Handled, NothingLeft
<1> QED
  BY <1>1, <1>2, <1>3, <1>4, <1>5, <1>6, <1>7 DEF Next, Drain

\* The invariant holds throughout a connection.
LEMMA StreamInvariant == Spec => []StreamInv
  BY StreamInit, StreamStep, PTL DEF Spec

\* However the bytes of a connection are cut into reads, the frames handled and
\* those still to come are the frames of the whole stream: drainHEPFrames loses,
\* splits and repeats none at a read boundary.
THEOREM FramingIgnoresChunks == Spec => []ChunkingDoesNotMatter
<1>1. StreamInv => ChunkingDoesNotMatter
  <2> SUFFICES ASSUME StreamInv PROVE ChunkingDoesNotMatter
    OBVIOUS
  <2>1. /\ stream \in Seq(Cells) /\ Len(stream) = StreamLen /\ StreamLen \in Nat
        /\ pos \in 0 .. Len(stream)
    BY HepStreamAssumption DEF StreamInv, Types
  <2>2. SubSeq(stream, pos + 1, Len(stream)) \in Seq(Cells)
    <3>1. pos \in Nat /\ pos <= Len(stream)
      BY <2>1
    <3> QED
      BY <2>1, <3>1, RestIs
  <2>3. SubSeq(stream, 1, pos) \o SubSeq(stream, pos + 1, Len(stream)) = stream
    <3>1. /\ 1 \in 1 .. Len(stream) + 1 /\ pos \in 1 - 1 .. Len(stream)
          /\ Len(stream) \in pos .. Len(stream)
      BY <2>1
    <3>2. SubSeq(stream, 1, Len(stream)) = stream
      BY <2>1, SubSeqFull
    <3> QED
      BY <2>1, <3>1, <3>2, ConcatAdjacentSubSeq
  <2>4. frames \o FramesOf(buf \o SubSeq(stream, pos + 1, Len(stream))) = FramesOf(stream)
    BY <2>2, <2>3 DEF StreamInv, Handled
  <2> QED
    BY <2>1, <2>4 DEF ChunkingDoesNotMatter
<1> QED
  BY <1>1, StreamInvariant, PTL

\* A peer that closes its connection in good order has all its frames handled:
\* hepTCPSession drains once more after the end of the stream, and hepTLSWorker
\* drains what ReadAll returned.
THEOREM CloseHandlesAll == Spec => []OrderlyCloseLosesNothing
<1>1. StreamInv => OrderlyCloseLosesNothing
  <2> SUFFICES ASSUME StreamInv, at = "done", ended = "eof"
               PROVE  frames = FramesOf(SubSeq(stream, 1, pos))
    BY DEF OrderlyCloseLosesNothing
  <2>1. /\ buf \in Seq(Cells) /\ frames \in Seq(Frames) /\ FramesOf(buf) = << >>
    BY DEF StreamInv, Types, NothingLeft
  <2>2. << >> \in Seq(Cells)
    BY EmptySeq
  <2>3. frames \o FramesOf(buf \o << >>) = FramesOf(SubSeq(stream, 1, pos) \o << >>)
    BY <2>2 DEF StreamInv, Handled
  <2>4. SubSeq(stream, 1, pos) \in Seq(Cells)
    <3>1. \A i \in 1 .. pos : stream[i] \in Cells
      BY CellsAre, HepStreamAssumption DEF StreamInv, Types
    <3>2. 1 \in Int /\ pos \in Int
      BY HepStreamAssumption DEF StreamInv, Types
    <3> QED
      BY <3>1, <3>2, SubSeqProperties
  <2>5. buf \o << >> = buf /\ SubSeq(stream, 1, pos) \o << >> = SubSeq(stream, 1, pos)
    BY <2>1, <2>4, ConcatEmptySeq
  <2>6. frames \o << >> = frames
    BY <2>1, ConcatEmptySeq
  <2> QED
    BY <2>1, <2>3, <2>5, <2>6
<1> QED
  BY <1>1, StreamInvariant, PTL
-----------------------------------------------------------------------------
\* MaxFrame is what it is meant to be, and one read more stays within the cap.
LEMMA MaxFrameIs ==
    /\ MaxFrame \in Nat
    /\ \A k \in Cells \cup {HeaderLen} : k <= MaxFrame
    /\ MaxFrame + MaxRead <= CapLen + 1
<1>1. PICK m \in Cells \cup {HeaderLen} :
          /\ \A n \in Cells \cup {HeaderLen} : n <= m
          /\ m + MaxRead <= CapLen + 1
  BY FramesFitAssumption
<1>2. MaxFrame \in Cells \cup {HeaderLen} /\ \A k \in Cells \cup {HeaderLen} : k <= MaxFrame
  BY <1>1 DEF MaxFrame
<1>3. m \in Nat /\ MaxFrame \in Nat
  BY <1>1, <1>2, CellsAre DEF HeaderLen
<1>4. m = MaxFrame
  BY <1>1, <1>2, <1>3
<1> QED
  BY <1>1, <1>2, <1>3, <1>4

\* Before each read on TCP less than one frame is buffered, so hepTCPSession
\* never gives up a connection because of its cap of 2 MB.
THEOREM BufferStaysShort == Spec => []LeftoverIsShort
<1>1. Init => LeftoverIsShort
  <2> SUFFICES ASSUME Init PROVE LeftoverIsShort
    OBVIOUS
  <2>1. Len(buf) = 0 /\ ended = "no"
    BY EmptySeq DEF Init
  <2>2. 0 < MaxFrame
    BY MaxFrameIs DEF HeaderLen
  <2> QED
    BY <2>1, <2>2 DEF LeftoverIsShort
<1>2. StreamInv /\ LeftoverIsShort /\ [Next]_vars => LeftoverIsShort'
  <2> SUFFICES ASSUME StreamInv, LeftoverIsShort, [Next]_vars PROVE LeftoverIsShort'
    OBVIOUS
  <2>1. Len(buf) \in Nat /\ buf \in Seq(Cells) /\ MaxRead \in Nat /\ CapLen \in Nat
    BY CellsAre, HepStreamAssumption DEF StreamInv, Types
  <2>2. ASSUME NEW n \in 1 .. MaxRead, TcpRead(n) PROVE LeftoverIsShort'
    <3>1. Len(buf') = Len(buf) + n
      BY <2>2, ArriveStep DEF TcpRead
    <3>2. Len(buf) < MaxFrame /\ ended # "cap"
      BY <2>2 DEF TcpRead, Arrive, LeftoverIsShort
    <3>3. Len(buf') <= CapLen
      BY <2>1, <3>1, <3>2, MaxFrameIs
    <3>4. at' = "drain" /\ ended' = ended
      BY <2>1, <2>2, <3>1, <3>3 DEF TcpRead
    <3> QED
      BY <3>2, <3>4 DEF LeftoverIsShort
  <2>3. ASSUME NEW n \in 1 .. MaxRead, TlsRead(n) PROVE LeftoverIsShort'
    BY <2>3 DEF TlsRead, Arrive, LeftoverIsShort
  <2>4. CASE ReadEOF \/ ReadError
    BY <2>4 DEF ReadEOF, ReadError, LeftoverIsShort
  <2>5. CASE SkipByte \/ HandleFrame
    BY <2>5 DEF SkipByte, HandleFrame, Draining, LeftoverIsShort
  <2>6. CASE NeedMore
    <3>1. Len(buf) < MaxFrame
      <4>1. CASE ~HeaderThere
        <5>1. HeaderLen <= MaxFrame
          BY MaxFrameIs
        <5> QED
          BY <2>1, <4>1, <5>1, MaxFrameIs DEF HeaderThere, HeaderLen
      <4>2. CASE GoodHeader /\ Len(buf) < buf[2]
        <5>1. buf[2] \in Cells /\ buf[2] \in Nat
          BY <2>1, <4>2, CellsAre DEF GoodHeader, HeaderThere, HeaderLen
        <5>2. buf[2] <= MaxFrame
          BY <5>1, MaxFrameIs
        <5> QED
          BY <2>1, <4>2, <5>1, <5>2, MaxFrameIs
      <4> QED
        BY <2>6, <4>1, <4>2 DEF NeedMore
    <3> QED
      BY <2>6, <3>1 DEF NeedMore, LeftoverIsShort
  <2>7. CASE UNCHANGED vars
    BY <2>7 DEF vars, LeftoverIsShort
  <2> QED
    BY <2>2, <2>3, <2>4, <2>5, <2>6, <2>7 DEF Next, Drain
<1> QED
  BY <1>1, <1>2, StreamInvariant, PTL DEF Spec
=============================================================================
