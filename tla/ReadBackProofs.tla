----------------------------- MODULE ReadBackProofs -----------------------------
(***************************************************************************)
(* What DoEditTimeCodes writes is what a player, or the next run of the    *)
(* program, reads: the decoding times and the composition times of every   *)
(* frame, the delays of the edit lists, the order of the frames, and how   *)
(* far a delay compressed with -c has moved the picture.  And everything    *)
(* keeps its type.                                                         *)
(***************************************************************************)
EXTENDS TrackEditorProofs, SampleTablesProofs, FiniteSetTheorems

Words == 0 .. Word - 1

-----------------------------------------------------------------------------
(* Orders of the frames *)

Permutation(p) ==
    p \in [Slots -> Slots] /\ \A i, j \in Slots : p[i] = p[j] => i = j

Identity == [i \in Slots |-> i]

\* p is the order of the times t, and no two of them are the same
Orders(p, t) == Permutation(p) /\ \A i \in Frame : t[p[i]] < t[p[i + 1]]

LEMMA StrictlyRising ==
    ASSUME NEW t \in [Slots -> Int], \A i \in Frame : t[i] < t[i + 1],
           NEW i \in Slots, NEW j \in Slots, i < j
    PROVE  t[i] < t[j]
  <1> DEFINE a == i + 1
             S == {k \in a .. LastSlot : t[i] < t[k]}
  <1>1. LastSlot \in Int /\ a \in Int /\ i \in Nat /\ j \in a .. LastSlot
        /\ i \in Frame
    BY LastSlotAssumption DEF Slots, Frame
  <1>2. a \in S
    BY <1>1
  <1>3. ASSUME NEW k \in a .. LastSlot - 1, k \in S PROVE k + 1 \in S
    <2>1. k \in Frame /\ k \in Slots /\ k + 1 \in Slots /\ k + 1 \in a .. LastSlot
      BY <1>1 DEF Slots, Frame
    <2>2. t[k] < t[k + 1] /\ t[i] < t[k] /\ t[i] \in Int /\ t[k] \in Int /\ t[k + 1] \in Int
      BY <1>3, <2>1
    <2>3. t[i] < t[k + 1]
      BY <2>2
    <2> QED
      BY <2>1, <2>3
  <1> HIDE DEF S
  <1>4. a .. LastSlot \subseteq S
    BY <1>1, <1>2, <1>3, IntervalInduction
  <1> QED
    BY <1>1, <1>4 DEF S

LEMMA SlotsAreFinite == IsFiniteSet(Slots)
  <1>1. 0 \in Int /\ LastSlot \in Int
    BY LastSlotAssumption
  <1> QED
    BY <1>1, FS_Interval DEF Slots

\* every frame has its place
LEMMA Onto ==
    ASSUME NEW p, Permutation(p), NEW k \in Slots
    PROVE  \E n \in Slots : p[n] = k
  <1>1. p \in Injection(Slots, Slots)
    BY DEF Permutation, Injection, IsInjective
  <1>2. p \in Surjection(Slots, Slots)
    BY <1>1, SlotsAreFinite, FS_Injection
  <1> QED
    BY <1>2 DEF Surjection

LEMMA Composed ==
    ASSUME NEW t \in [Slots -> Int], NEW p, Orders(p, t),
           NEW i \in Slots, NEW j \in Slots, i < j
    PROVE  t[p[i]] < t[p[j]]
  <1> DEFINE s == [n \in Slots |-> t[p[n]]]
  <1>1. s \in [Slots -> Int]
    BY DEF Orders, Permutation
  <1>2. \A n \in Frame : s[n] < s[n + 1]
    BY SlotsFacts DEF Orders
  <1> HIDE DEF s
  <1>3. s[i] < s[j]
    BY <1>1, <1>2, StrictlyRising
  <1> QED
    BY <1>3 DEF s

\* distinct times have one order
LEMMA OneOrder ==
    ASSUME NEW t \in [Slots -> Int], NEW p, NEW q, Orders(p, t), Orders(q, t)
    PROVE  p = q
  <1> DEFINE T == {n \in Slots : p[n] # q[n]}
  <1>1. Permutation(p) /\ Permutation(q)
    BY DEF Orders
  <1>2. ASSUME T # {} PROVE FALSE
    <2>1. T \in SUBSET Nat
      BY SlotsFacts
    <2> HIDE DEF T
    <2>2. PICK i \in T : \A n \in T : i <= n
      BY <1>2, <2>1, LeastNatural
    <2>3. i \in Slots /\ i \in Nat /\ p[i] # q[i] /\ Slots \subseteq Nat
          /\ p[i] \in Slots /\ q[i] \in Slots
      BY <1>1, <2>1, <2>2, SlotsFacts DEF T, Permutation
    <2>4. ASSUME NEW f, NEW g, Orders(f, t), Orders(g, t), f[i] # g[i],
                 \A n \in Slots : n < i => f[n] = g[n]
          PROVE  t[f[i]] < t[g[i]]
      <3>1. Permutation(f) /\ Permutation(g)
        BY <2>4 DEF Orders
      <3>2. g[i] \in Slots
        BY <2>3, <3>1 DEF Permutation
      <3>3. PICK k \in Slots : f[k] = g[i]
        BY <3>1, <3>2, Onto
      <3>4. k # i
        BY <2>4, <3>3
      <3>5. ~ (k < i)
        <4>1. k < i => g[k] = g[i]
          BY <2>4, <3>3
        <4> QED
          BY <2>3, <3>1, <3>3, <3>4, <4>1 DEF Permutation
      <3>6. i < k
        BY <2>3, <3>3, <3>4, <3>5
      <3>7. t[f[i]] < t[f[k]]
        BY <2>3, <2>4, <3>3, <3>6, Composed
      <3> QED
        BY <3>3, <3>7
    <2>5. ASSUME NEW n \in Slots, n < i PROVE p[n] = q[n]
      <3>1. n \in Nat /\ ~ (i <= n)
        BY <2>3, <2>5
      <3>2. n \notin T
        BY <2>2, <3>1
      <3> QED
        BY <3>2 DEF T
    <2>6. t[p[i]] < t[q[i]] /\ t[q[i]] < t[p[i]]
      BY <2>3, <2>4, <2>5
    <2>7. t[p[i]] \in Int /\ t[q[i]] \in Int
      BY <2>3
    <2> QED
      BY <2>6, <2>7
  <1>3. \A n \in Slots : p[n] = q[n]
    BY <1>2
  <1>4. p = [n \in Slots |-> p[n]] /\ q = [n \in Slots |-> q[n]]
    BY <1>1 DEF Permutation
  <1> QED
    BY <1>3, <1>4

\* std::sort finds it
LEMMA Sorted ==
    ASSUME NEW t \in [Slots -> Int], NEW p \in SortedOrders(t),
           \A i, j \in Slots : t[i] = t[j] => i = j
    PROVE  Orders(p, t)
  <1>1. Permutation(p) /\ \A i \in Frame : t[p[i]] <= t[p[i + 1]]
    BY DEF SortedOrders, Permutation
  <1>2. ASSUME NEW i \in Frame PROVE t[p[i]] < t[p[i + 1]]
    <2>1. i \in Slots /\ i + 1 \in Slots /\ i # i + 1
      <3>1. i \in Slots /\ i + 1 \in Slots /\ Slots \subseteq Nat
        BY SlotsFacts
      <3> QED
        BY <3>1
    <2>2. p[i] # p[i + 1] /\ p[i] \in Slots /\ p[i + 1] \in Slots
      BY <1>1, <2>1 DEF Permutation
    <2>3. t[p[i]] \in Int /\ t[p[i + 1]] \in Int /\ t[p[i]] # t[p[i + 1]]
      BY <2>2
    <2>4. t[p[i]] <= t[p[i + 1]]
      BY <1>1
    <2> QED
      BY <2>3, <2>4
  <1> QED
    BY <1>1, <1>2 DEF Orders

\* the entry that is not before any other stays at the end
LEMMA LatestLast ==
    ASSUME NEW t \in [Slots -> Int], NEW p, Orders(p, t),
           \A i \in Slots : t[i] <= t[LastSlot]
    PROVE  p[LastSlot] = LastSlot
  <1>1. Permutation(p) /\ LastSlot \in Slots /\ Slots \subseteq Nat
    BY SlotsFacts DEF Orders
  <1>2. PICK n \in Slots : p[n] = LastSlot
    BY <1>1, Onto
  <1>3. ASSUME n # LastSlot PROVE FALSE
    <2>1. n < LastSlot
      BY <1>2, <1>3, LastSlotAssumption DEF Slots
    <2>2. t[p[n]] < t[p[LastSlot]]
      BY <1>1, <1>2, <2>1, Composed
    <2>3. p[LastSlot] \in Slots
      BY <1>1 DEF Permutation
    <2>4. t[LastSlot] < t[p[LastSlot]] /\ t[p[LastSlot]] <= t[LastSlot]
      BY <1>2, <2>2, <2>3
    <2>5. t[LastSlot] \in Int /\ t[p[LastSlot]] \in Int
      BY <1>1, <2>3
    <2> QED
      BY <2>4, <2>5
  <1> QED
    BY <1>2, <1>3

LEMMA IdentityOrders ==
    ASSUME NEW t \in [Slots -> Int], \A i \in Frame : t[i] < t[i + 1]
    PROVE  Orders(Identity, t)
  <1>1. \A i \in Slots : Identity[i] = i
    BY DEF Identity
  <1>2. Identity \in [Slots -> Slots]
    BY DEF Identity
  <1>3. Permutation(Identity)
    BY <1>1, <1>2, Zenon DEF Permutation
  <1> QED
    BY <1>1, <1>3, SlotsFacts DEF Orders

-----------------------------------------------------------------------------
(* The tables of a file *)

\* one value for every frame
TablesOf(v) ==
    /\ v.stts \in Table(Words) /\ Len(Expand(v.stts)) = LastSlot
    /\ v.hasCtts \in BOOLEAN
    /\ v.hasCtts => v.ctts \in Table(Words) /\ Len(Expand(v.ctts)) = LastSlot

\* the times the frames of a file are displayed at
Loaded(v) == LoadCTS(LoadDTS(v.stts), v.hasCtts, v.ctts)

LEMMA Bounded ==
    ASSUME NEW n \in Nat, NEW f \in [0 .. n -> Int]
    PROVE  \E b \in Int : \A i \in 0 .. n : f[i] <= b
  <1> DEFINE S == {k \in 0 .. n : \E b \in Int : \A i \in 0 .. k : f[i] <= b}
  <1>1. 0 \in S
    <2>1. f[0] \in Int /\ 0 .. 0 = {0} /\ 0 \in 0 .. n
      OBVIOUS
    <2> QED
      BY <2>1
  <1>2. ASSUME NEW k \in 0 .. n - 1, k \in S PROVE k + 1 \in S
    <2>1. PICK b \in Int : \A i \in 0 .. k : f[i] <= b
      BY <1>2
    <2>2. k + 1 \in 0 .. n /\ f[k + 1] \in Int
      OBVIOUS
    <2>3. PICK c \in Int : b <= c /\ f[k + 1] <= c
      <3>1. CASE b <= f[k + 1]
        BY <2>2, <3>1
      <3>2. CASE ~ (b <= f[k + 1])
        BY <2>2, <3>2
      <3> QED
        BY <3>1, <3>2
    <2>4. ASSUME NEW i \in 0 .. k + 1 PROVE f[i] <= c
      <3>1. CASE i = k + 1
        BY <2>3, <3>1
      <3>2. CASE i # k + 1
        <4>1. i \in 0 .. k /\ i \in 0 .. n
          BY <3>2
        <4>2. f[i] <= b /\ f[i] \in Int
          BY <2>1, <4>1
        <4> QED
          BY <2>3, <4>2
      <3> QED
        BY <3>1, <3>2
    <2> QED
      BY <2>2, <2>4
  <1> HIDE DEF S
  <1>3. 0 .. n \subseteq S
    <2>1. 0 \in Int /\ n \in Int
      OBVIOUS
    <2> QED
      BY <1>1, <1>2, <2>1, IntervalInduction
  <1>4. n \in S
    BY <1>3
  <1> QED
    BY <1>4 DEF S

LEMMA SignedTyped ==
    ASSUME NEW w \in Words
    PROVE  Signed(w) \in Int
  BY WordFacts DEF Words, Signed

LEMMA WordTables ==
    ASSUME NEW table \in Table(Words)
    PROVE  table \in Table(Nat) /\ Expand(table) \in Seq(Words)
  <1> DEFINE A == [count : Nat, value : Words]
             B == [count : Nat, value : Nat]
  <1>1. A \subseteq B
    BY WordFacts DEF Words
  <1>2. table \in Seq(A)
    BY DEF Table
  <1> HIDE DEF A, B
  <1>3. table \in Seq(B)
    BY <1>1, <1>2, MoreMembers, Zenon
  <1>4. Expand(table) \in Seq(Words)
    BY TableHasSums, Expanded
  <1> QED
    BY <1>3, <1>4 DEF Table, B

LEMMA LoadedDecoding ==
    ASSUME NEW stts \in Table(Words), Len(Expand(stts)) = LastSlot
    PROVE  /\ LoadDTS(stts) \in [Slots -> Nat] /\ LoadDTS(stts)[0] = 0
           /\ \A i \in Frame : LoadDTS(stts)[i] <= LoadDTS(stts)[i + 1]
  <1> DEFINE d == LoadDTS(stts)
             deltas == Expand(stts)
  <1>1. stts \in Table(Nat) /\ deltas \in Seq(Nat)
    <2>1. stts \in Table(Nat)
      BY WordTables
    <2> QED
      BY <2>1, TableHasSums, Expanded
  <1>2. d \in [0 .. Len(deltas) -> Nat] /\ SumsOf(d, deltas)
    BY <1>1, LoadedDTS
  <1> HIDE DEF d, deltas
  <1>3. Len(deltas) = LastSlot
    BY DEF deltas
  <1>4. d \in [Slots -> Nat]
    BY <1>2, <1>3 DEF Slots
  <1>5. ASSUME NEW i \in Frame PROVE d[i] <= d[i + 1]
    <2>1. i \in 0 .. Len(deltas) /\ i + 1 \in i .. Len(deltas)
      BY <1>3, LastSlotAssumption DEF Frame
    <2> QED
      BY <1>1, <1>2, <2>1, SumsGrow
  <1>6. d[0] = 0
    BY <1>2 DEF SumsOf
  <1> QED
    BY <1>4, <1>5, <1>6 DEF d

LEMMA LoadedComposition ==
    ASSUME NEW d \in [Slots -> Int], d[LastSlot - 1] <= d[LastSlot],
           NEW ctts \in Table(Words), Len(Expand(ctts)) = LastSlot
    PROVE  /\ LoadCTS(d, TRUE, ctts) \in [Slots -> Int]
           /\ \A i \in Slots : LoadCTS(d, TRUE, ctts)[i] <= LoadCTS(d, TRUE, ctts)[LastSlot]
           /\ d[LastSlot - 1] < d[LastSlot] => \A i \in Frame :
                 LoadCTS(d, TRUE, ctts)[i] < LoadCTS(d, TRUE, ctts)[LastSlot]
  <1> DEFINE n == LastSlot
             m == n - 1
             offsets == Expand(ctts)
             c == [i \in 0 .. n - 1 |-> d[i] + Signed(offsets[i + 1])]
             known == Range(c) \cup {0}
             most == Max(known)
             last == most + d[n] - d[n - 1]
  <1>1. n \in Nat \ {0} /\ Slots = 0 .. n /\ m \in Nat /\ m \in 0 .. n /\ n \in 0 .. n
    BY LastSlotAssumption DEF Slots
  <1>2. Max(DOMAIN d) = n
    BY <1>1, LastFrame
  <1>3. LoadCTS(d, TRUE, ctts) = [i \in 0 .. n |-> IF i < n THEN c[i] ELSE last]
    BY <1>2 DEF LoadCTS
  <1>4. offsets \in Seq(Words) /\ Len(offsets) = n
    BY WordTables
  <1> HIDE DEF offsets
  <1>5. ASSUME NEW i \in 0 .. m PROVE d[i] + Signed(offsets[i + 1]) \in Int
    <2>1. i \in 0 .. n /\ i + 1 \in 1 .. n
      BY <1>1
    <2>2. offsets[i + 1] \in Words
      BY <1>1, <1>4, <2>1
    <2> QED
      BY <1>1, <2>1, <2>2, SignedTyped
  <1>6. c \in [0 .. m -> Int] /\ \A i \in 0 .. m : c[i] \in Int
    BY <1>5
  <1> HIDE DEF c
  <1>7. PICK b \in Int : \A i \in 0 .. m : c[i] <= b
    BY <1>1, <1>6, Bounded
  <1>8. most \in known /\ \A x \in known : x <= most
    <2>1. Range(c) = {c[i] : i \in 0 .. m}
      BY <1>6 DEF Range
    <2>2. known \in SUBSET Int /\ known # {} /\ \E z \in Int : \A x \in known : x <= z
      <3>1. known \in SUBSET Int /\ known # {}
        BY <1>6, <2>1
      <3>2. PICK z \in Int : b <= z /\ 0 <= z
        <4>1. CASE b <= 0
          BY <4>1
        <4>2. CASE ~ (b <= 0)
          BY <4>2
        <4> QED
          BY <4>1, <4>2
      <3>3. \A x \in known : x <= z
        BY <1>6, <1>7, <2>1, <3>2
      <3> QED
        BY <3>1, <3>3
    <2> HIDE DEF known
    <2> QED
      BY <2>2, MaxInside
  <1>9. most \in Int /\ \A i \in 0 .. m : c[i] <= most
    <2>1. \A i \in 0 .. m : c[i] \in known
      BY <1>6 DEF Range
    <2>2. known \in SUBSET Int
      BY <1>6 DEF Range
    <2> QED
      BY <1>8, <2>1, <2>2
  <1> HIDE DEF most
  <1>10. last \in Int /\ most <= last /\ (d[m] < d[n] => most < last)
    <2>1. d[n] \in Int /\ d[m] \in Int /\ d[m] <= d[n]
      BY <1>1
    <2> QED
      BY <1>9, <2>1
  <1> HIDE DEF last
  <1>11. \A i \in 0 .. n : i < n => i \in 0 .. m
    BY <1>1
  <1>12. ASSUME NEW i \in 0 .. n
         PROVE  (IF i < n THEN c[i] ELSE last) \in Int
                /\ (IF i < n THEN c[i] ELSE last) <= last
    <2>1. CASE i < n
      <3>1. c[i] \in Int /\ c[i] <= most
        BY <1>6, <1>9, <1>11, <2>1
      <3> QED
        BY <1>9, <1>10, <2>1, <3>1
    <2>2. CASE ~ (i < n)
      BY <1>10, <2>2
    <2> QED
      BY <2>1, <2>2
  <1>13. ~ (n < n)
    BY <1>1
  <1>14. ASSUME d[m] < d[n], NEW i \in Frame
         PROVE  LoadCTS(d, TRUE, ctts)[i] < LoadCTS(d, TRUE, ctts)[n]
    <2>1. i \in 0 .. n /\ i < n /\ i \in 0 .. m
      BY <1>1 DEF Frame
    <2>2. LoadCTS(d, TRUE, ctts)[i] = c[i] /\ LoadCTS(d, TRUE, ctts)[n] = last
      BY <1>1, <1>3, <1>13, <2>1
    <2>3. c[i] \in Int /\ c[i] <= most /\ most < last
      BY <1>6, <1>9, <1>10, <1>14, <2>1
    <2>4. c[i] < last
      BY <1>9, <1>10, <2>3
    <2> QED
      BY <2>2, <2>4
  <1>15. /\ LoadCTS(d, TRUE, ctts) \in [Slots -> Int]
         /\ \A i \in Slots : LoadCTS(d, TRUE, ctts)[i] <= LoadCTS(d, TRUE, ctts)[LastSlot]
    BY <1>1, <1>3, <1>12, <1>13
  <1> QED
    BY <1>14, <1>15

LEMMA LoadedTimes ==
    ASSUME NEW v, TablesOf(v)
    PROVE  /\ Loaded(v) \in [Slots -> Int]
           /\ \A i \in Slots : Loaded(v)[i] <= Loaded(v)[LastSlot]
           /\ ~ v.hasCtts => /\ Loaded(v) = LoadDTS(v.stts)
                             /\ \A i \in Frame : Loaded(v)[i] <= Loaded(v)[i + 1]
  <1> DEFINE d == LoadDTS(v.stts)
  <1>1. d \in [Slots -> Nat] /\ \A i \in Frame : d[i] <= d[i + 1]
    BY LoadedDecoding DEF TablesOf
  <1> HIDE DEF d
  <1>2. CASE v.hasCtts
    <2>1. d[LastSlot - 1] <= d[LastSlot]
      <3>1. LastSlot - 1 \in Frame /\ (LastSlot - 1) + 1 = LastSlot
        BY LastSlotAssumption DEF Frame
      <3>2. d[LastSlot - 1] <= d[(LastSlot - 1) + 1]
        BY <1>1, <3>1
      <3> QED
        BY <3>1, <3>2
    <2>2. d \in [Slots -> Int]
      BY <1>1
    <2>3. v.hasCtts = TRUE
      BY <1>2 DEF TablesOf
    <2>4. Loaded(v) = LoadCTS(d, TRUE, v.ctts)
      BY <2>3 DEF Loaded, d
    <2>5. v.ctts \in Table(Words) /\ Len(Expand(v.ctts)) = LastSlot
      BY <1>2 DEF TablesOf
    <2>6. /\ LoadCTS(d, TRUE, v.ctts) \in [Slots -> Int]
          /\ \A i \in Slots : LoadCTS(d, TRUE, v.ctts)[i] <= LoadCTS(d, TRUE, v.ctts)[LastSlot]
      BY <2>1, <2>2, <2>5, LoadedComposition
    <2> QED
      BY <1>2, <2>4, <2>6
  <1>3. CASE ~ v.hasCtts
    <2>1. Loaded(v) = d
      BY <1>3 DEF Loaded, LoadCTS, d
    <2> DEFINE S == {k \in Slots : \A i \in 0 .. k : d[i] <= d[k]}
    <2>2. 0 \in S
      <3>1. 0 .. 0 = {0} /\ d[0] \in Nat
        BY <1>1, SlotsFacts
      <3> QED
        BY <3>1, SlotsFacts
    <2>3. ASSUME NEW k \in 0 .. LastSlot - 1, k \in S PROVE k + 1 \in S
      <3>1. k \in Frame /\ k \in Slots /\ k + 1 \in Slots /\ k \in Nat
        BY SlotsFacts, LastSlotAssumption DEF Frame
      <3>2. d[k] <= d[k + 1] /\ d[k] \in Nat /\ d[k + 1] \in Nat
        BY <1>1, <3>1
      <3>3. ASSUME NEW i \in 0 .. k + 1 PROVE d[i] <= d[k + 1]
        <4>1. CASE i = k + 1
          BY <3>2, <4>1
        <4>2. CASE i # k + 1
          <5>1. i \in 0 .. k /\ i \in Slots
            BY <3>1, <4>2, LastSlotAssumption DEF Slots, Frame
          <5>2. d[i] <= d[k] /\ d[i] \in Nat
            BY <1>1, <2>3, <5>1
          <5> QED
            BY <3>2, <5>2
        <4> QED
          BY <4>1, <4>2
      <3> QED
        BY <3>1, <3>3
    <2> HIDE DEF S
    <2>4. 0 .. LastSlot \subseteq S
      <3>1. 0 \in Int /\ LastSlot \in Int
        BY LastSlotAssumption
      <3> QED
        BY <2>2, <2>3, <3>1, IntervalInduction
    <2>5. LastSlot \in S
      BY <2>4, SlotsFacts DEF Slots
    <2>6. \A i \in Slots : d[i] <= d[LastSlot]
      BY <2>5 DEF S, Slots
    <2> QED
      BY <1>1, <1>3, <2>1, <2>6 DEF d
  <1> QED
    BY <1>2, <1>3

-----------------------------------------------------------------------------
(* The file, in every run of the program *)

\* the time codes given to the editor are increasing
Usable == pc = "timed" => Spaced(1)

\* no two frames of the file are displayed at the same time
Distinct ==
    pc = "closed" => \A i, j \in Slots : Loaded(video)[i] = Loaded(video)[j] => i = j

VideoFields(v) ==
    v = [stts |-> v.stts, hasCtts |-> v.hasCtts, ctts |-> v.ctts,
         timeScale |-> v.timeScale, duration |-> v.duration, tkhd |-> v.tkhd,
         elst |-> v.elst]
AudioFields(t) ==
    /\ t = [timeScale |-> t.timeScale, duration |-> t.duration, tkhd |-> t.tkhd,
            elst |-> t.elst]
    /\ t.timeScale \in Nat

\* the frames in the order of the editor: the extra entry comes last
Arranged ==
    /\ Permutation(ctsIndex) /\ ctsIndex[LastSlot] = LastSlot
    /\ ~ video.hasCtts => ctsIndex = Identity

Boxes ==
    /\ VideoFields(video) /\ TablesOf(video)
    /\ \A a \in AudioTracks : AudioFields(audio[a])

Written ==
    /\ video.stts = UpdateStts(dts)
    /\ video.hasCtts => video.ctts = UpdateCtts(dts, SampleCTS)
    /\ video.elst = UpdateElst(VideoEdit, video.tkhd)
    /\ \A a \in AudioTracks : audio[a].elst = UpdateElst(AudioEdit(a), audio[a].tkhd)

FileInv ==
    /\ Boxes
    /\ pc \in Editing \ {"timed"} => Spaced(1)
    /\ pc = "loaded" => Orders(ctsIndex, Loaded(video))
    /\ pc \in {"loaded"} \cup Editing => Arranged
    /\ pc = "edited" => Written

LEMMA TimesTyped ==
    ASSUME Inv, pc \in Editing, Spaced(1)
    PROVE  dts \in [Slots -> Int] /\ cts \in [Slots -> Int]
  <1>1. Stage /\ asked \in [Slots -> Nat] /\ Rising(asked)
    BY SpacedFacts DEF Inv
  <1>2. asked \in [Slots -> Int]
    BY <1>1
  <1>3. \A t : DelayLoop(t, loop, asked) => t \in [Slots -> Int]
    BY <1>2 DEF DelayLoop
  <1>4. \A t : /\ Shifted(t, asked) => t \in [Slots -> Int]
               /\ Compressed(t, asked) => t \in [Slots -> Int]
    BY DEF Shifted, Compressed
  <1>5. \A t : CompressLoop(t, loop, asked) => t \in [Slots -> Int]
    BY <1>4 DEF CompressLoop
  <1>6. CASE pc = "timed"
    BY <1>1, <1>2, <1>6 DEF Stage
  <1>7. CASE pc \in {"delayCTS", "delayDTS"}
    BY <1>1, <1>2, <1>3, <1>4, <1>7 DEF Stage
  <1>8. CASE pc \in {"rebase", "compressCTS"}
    BY <1>1, <1>4, <1>5, <1>8 DEF Stage
  <1>9. CASE pc \in {"measure", "remeasure"}
    <2>1. DelayEnough \/ Shifted(dts, asked)
      BY <1>1, <1>9 DEF Stage
    <2> QED
      BY <1>1, <1>4, <1>9 DEF Stage
  <1>10. CASE pc = "compressDTS"
    BY <1>1, <1>4, <1>5, <1>10 DEF Stage
  <1>11. CASE pc \in {"adjusted", "edited"}
    BY <1>1, <1>4, <1>11 DEF Stage
  <1> QED
    BY <1>6, <1>7, <1>8, <1>9, <1>10, <1>11 DEF Editing

LEMMA SampleTimes ==
    ASSUME cts \in [Slots -> Int], Permutation(ctsIndex)
    PROVE  /\ SampleCTS \in [Slots -> Int]
           /\ \A n \in Slots : SampleCTS[ctsIndex[n]] = cts[n]
  <1>1. ASSUME NEW i \in Slots
        PROVE  /\ (CHOOSE n \in Slots : ctsIndex[n] = i) \in Slots
               /\ ctsIndex[CHOOSE n \in Slots : ctsIndex[n] = i] = i
    <2>1. \E n \in Slots : ctsIndex[n] = i
      BY Onto
    <2> QED
      BY <2>1
  <1>2. SampleCTS \in [Slots -> Int]
    BY <1>1 DEF SampleCTS
  <1>3. ASSUME NEW n \in Slots PROVE SampleCTS[ctsIndex[n]] = cts[n]
    <2> DEFINE i == ctsIndex[n]
               m == CHOOSE k \in Slots : ctsIndex[k] = i
    <2>1. i \in Slots
      BY DEF Permutation
    <2> HIDE DEF i
    <2>2. m \in Slots /\ ctsIndex[m] = i
      BY <1>1, <2>1
    <2>3. SampleCTS[i] = cts[m]
      BY <2>1 DEF SampleCTS
    <2> HIDE DEF m
    <2>4. m = n
      BY <2>2 DEF Permutation, i
    <2> QED
      BY <2>3, <2>4 DEF i
  <1> QED
    BY <1>2, <1>3

LEMMA InitFile == Init => FileInv
  <1> SUFFICES ASSUME Init PROVE FileInv
    OBVIOUS
  <1> DEFINE tables == Seq([count : Nat, value : 0 .. Word - 1])
             edits == Seq([mediaTime : Int, duration : Nat])
             V == [stts : tables, hasCtts : BOOLEAN, ctts : tables,
                   timeScale : Nat \ {0}, duration : Nat, tkhd : Nat, elst : edits]
             A == [timeScale : Nat \ {0}, duration : Nat, tkhd : Nat, elst : edits]
  <1>1. PICK f \in Files : video = f.video /\ audio = f.audio
    BY DEF Init
  <1>2. /\ f.video \in V /\ f.audio \in [AudioTracks -> A]
        /\ Len(Expand(f.video.stts)) = LastSlot
        /\ f.video.hasCtts => Len(Expand(f.video.ctts)) = LastSlot
    BY FilesAssumption, Zenon
  <1> HIDE DEF tables, edits
  <1>3. VideoFields(video) /\ \A a \in AudioTracks : AudioFields(audio[a])
    BY <1>1, <1>2 DEF VideoFields, AudioFields
  <1>4. TablesOf(video)
    <2>1. video.stts \in tables /\ video.ctts \in tables /\ video.hasCtts \in BOOLEAN
      BY <1>1, <1>2
    <2> QED
      BY <1>1, <1>2, <2>1 DEF TablesOf, Table, Words, tables
  <1>5. pc = "closed"
    BY DEF Init
  <1> QED
    BY <1>3, <1>4, <1>5 DEF FileInv, Boxes, Editing

LEMMA OpenFile ==
    ASSUME FileInv, Distinct, Open
    PROVE  FileInv'
  <1>1. /\ UNCHANGED <<video, audio>> /\ pc = "closed" /\ pc' = "loaded"
        /\ ctsIndex' \in SortedOrders(Loaded(video))
        /\ VideoFields(video) /\ TablesOf(video)
        /\ \A a \in AudioTracks : AudioFields(audio[a])
    BY DEF Open, boxes, Loaded, FileInv, Boxes
  <1> DEFINE t == Loaded(video)
  <1>2. /\ t \in [Slots -> Int] /\ \A i \in Slots : t[i] <= t[LastSlot]
        /\ ~ video.hasCtts => \A i \in Frame : t[i] <= t[i + 1]
    BY <1>1, LoadedTimes
  <1>3. \A i, j \in Slots : t[i] = t[j] => i = j
    BY <1>1 DEF Distinct
  <1>4. Loaded(video)' = t
    BY <1>1 DEF Loaded
  <1> HIDE DEF t
  <1>5. Orders(ctsIndex', t)
    BY <1>1, <1>2, <1>3, Sorted DEF t
  <1>6. ctsIndex'[LastSlot] = LastSlot
    BY <1>2, <1>5, LatestLast
  <1>7. ASSUME ~ video.hasCtts PROVE ctsIndex' = Identity
    <2>1. ASSUME NEW i \in Frame PROVE t[i] < t[i + 1]
      <3>1. i \in Slots /\ i + 1 \in Slots /\ Slots \subseteq Nat
        BY SlotsFacts
      <3>2. t[i] \in Int /\ t[i + 1] \in Int /\ t[i] <= t[i + 1] /\ i # i + 1
        BY <1>2, <1>7, <3>1
      <3> QED
        BY <1>3, <3>1, <3>2
    <2>2. Orders(Identity, t)
      BY <1>2, <2>1, IdentityOrders
    <2> QED
      BY <1>2, <1>5, <2>2, OneOrder
  <1>8. Permutation(ctsIndex)'
    BY <1>5 DEF Orders, Permutation
  <1>9. Arranged'
    BY <1>1, <1>6, <1>7, <1>8 DEF Arranged, Identity
  <1>10. Boxes'
    BY <1>1 DEF Boxes, VideoFields, AudioFields, TablesOf
  <1>11. (pc = "loaded" => Orders(ctsIndex, Loaded(video)))'
    BY <1>4, <1>5 DEF Orders, Permutation
  <1> QED
    BY <1>1, <1>9, <1>10, <1>11 DEF FileInv, Editing

LEMMA GivenFile ==
    ASSUME FileInv, pc = "loaded", pc' \in {"timed", "failed"},
           UNCHANGED <<boxes, ctsIndex>>
    PROVE  FileInv'
  <1>1. UNCHANGED <<video, audio, ctsIndex>>
    BY DEF boxes
  <1>2. Arranged /\ Boxes
    BY DEF FileInv
  <1>3. Arranged' /\ Boxes'
    BY <1>1, <1>2 DEF Arranged, Boxes, Permutation, Identity, VideoFields, AudioFields, TablesOf
  <1> QED
    BY <1>3 DEF FileInv, Editing

LEMMA AdjustFile ==
    ASSUME FileInv, Usable, Unadjusted, pc \in Editing \ {"edited"},
           pc' \in Editing \ {"edited"}
    PROVE  FileInv'
  <1>1. UNCHANGED <<video, audio, ctsIndex, asked, timeScale>>
    BY DEF Unadjusted, boxes, history
  <1>2. Arranged /\ Boxes /\ Spaced(1)
    BY DEF FileInv, Usable
  <1>3. Arranged' /\ Boxes' /\ Spaced(1)'
    BY <1>1, <1>2 DEF Arranged, Boxes, Permutation, Identity, VideoFields, AudioFields,
                      TablesOf, Spaced
  <1> QED
    BY <1>3 DEF FileInv, Editing

LEMMA EditFile ==
    ASSUME FileInv, Inv, DoEditTimeCodes
    PROVE  FileInv'
  <1>1. /\ pc = "adjusted" /\ pc' = "edited"
        /\ UNCHANGED <<dts, cts, ctsIndex, timeScale, initialDelay, compressDTS,
                       audioDelay, asked>>
    BY DEF DoEditTimeCodes, times, options, history
  <1>2. Arranged /\ Boxes /\ Spaced(1)
    BY <1>1 DEF FileInv, Editing
  <1>3. dts \in [Slots -> Int] /\ cts \in [Slots -> Int] /\ Permutation(ctsIndex)
    BY <1>1, <1>2, TimesTyped DEF Editing, Arranged
  <1>4. SampleCTS \in [Slots -> Int]
    BY <1>3, SampleTimes
  <1> DEFINE newScale == IF MdhdIsStale THEN timeScale ELSE video.timeScale
             newDuration == IF MdhdIsStale THEN MediaDuration ELSE video.duration
             newStts == UpdateStts(dts)
             newCtts == IF video.hasCtts THEN UpdateCtts(dts, SampleCTS) ELSE video.ctts
             newElst == UpdateElst(VideoEdit, video.tkhd)
  <1>5. video' = [video EXCEPT !.timeScale = newScale, !.duration = newDuration,
                               !.stts = newStts, !.ctts = newCtts, !.elst = newElst]
    BY DEF DoEditTimeCodes
  <1>6. audio' = [a \in AudioTracks |->
                    [audio[a] EXCEPT !.elst = UpdateElst(AudioEdit(a), audio[a].tkhd)]]
    BY DEF DoEditTimeCodes
  <1>7. /\ newStts \in Table(Words) /\ Len(Expand(newStts)) = LastSlot
        /\ video.hasCtts => newCtts \in Table(Words) /\ Len(Expand(newCtts)) = LastSlot
    <2>1. LastSlot \in Nat /\ Slots = 0 .. LastSlot
      BY LastSlotAssumption DEF Slots
    <2>2. /\ UpdateStts(dts) \in Table(0 .. Word - 1)
          /\ Expand(UpdateStts(dts)) = [i \in 1 .. LastSlot |-> Delta(dts, i) % Word]
      BY <1>3, <2>1, WrittenStts
    <2>3. /\ UpdateCtts(dts, SampleCTS) \in Table(0 .. Word - 1)
          /\ Expand(UpdateCtts(dts, SampleCTS))
               = [i \in 1 .. LastSlot |-> (SampleCTS[i - 1] - dts[i - 1]) % Word]
      BY <1>3, <1>4, <2>1, WrittenCtts
    <2>4. Len(Expand(UpdateStts(dts))) = LastSlot
      BY <2>1, <2>2
    <2>5. Len(Expand(UpdateCtts(dts, SampleCTS))) = LastSlot
      BY <2>1, <2>3
    <2> QED
      BY <2>2, <2>3, <2>4, <2>5 DEF Words
  <1> HIDE DEF newScale, newDuration, newStts, newCtts, newElst
  <1>8. /\ VideoFields(video) /\ TablesOf(video)
        /\ \A a \in AudioTracks : AudioFields(audio[a])
    BY <1>2 DEF Boxes
  <1>9. video' = [stts |-> newStts, hasCtts |-> video.hasCtts, ctts |-> newCtts,
                  timeScale |-> newScale, duration |-> newDuration, tkhd |-> video.tkhd,
                  elst |-> newElst]
    BY <1>5, <1>8 DEF VideoFields
  <1>10. /\ VideoFields(video') /\ video'.hasCtts = video.hasCtts /\ video'.tkhd = video.tkhd
         /\ video'.stts = newStts /\ video'.ctts = newCtts /\ video'.elst = newElst
    BY <1>9 DEF VideoFields
  <1>11. TablesOf(video')
    BY <1>7, <1>8, <1>10 DEF TablesOf
  <1>12. ASSUME NEW a \in AudioTracks
         PROVE  /\ AudioFields(audio'[a]) /\ audio'[a].tkhd = audio[a].tkhd
                /\ audio'[a].timeScale = audio[a].timeScale
                /\ audio'[a].elst = UpdateElst(AudioEdit(a), audio[a].tkhd)
    <2> DEFINE e == UpdateElst(AudioEdit(a), audio[a].tkhd)
    <2>1. audio'[a] = [audio[a] EXCEPT !.elst = e]
      BY <1>6
    <2> HIDE DEF e
    <2>2. AudioFields(audio[a])
      BY <1>8
    <2>3. audio'[a] = [timeScale |-> audio[a].timeScale, duration |-> audio[a].duration,
                       tkhd |-> audio[a].tkhd, elst |-> e]
      BY <2>1, <2>2 DEF AudioFields
    <2> QED
      BY <2>2, <2>3 DEF AudioFields, e
  <1>13. Boxes'
    BY <1>10, <1>11, <1>12 DEF Boxes, VideoFields, TablesOf, AudioFields
  <1>14. Arranged' /\ Spaced(1)'
    BY <1>1, <1>2, <1>10 DEF Arranged, Permutation, Identity, Spaced
  <1>15. Written'
    <2>1. SampleCTS' = SampleCTS
      BY <1>1 DEF SampleCTS
    <2>2. VideoEdit' = VideoEdit
      BY <1>1 DEF VideoEdit, AudioDelayInTimeScale
    <2>3. \A a \in AudioTracks : AudioEdit(a)' = AudioEdit(a)
      BY <1>1, <1>12 DEF AudioEdit
    <2>4. video'.stts = UpdateStts(dts) /\ video'.elst = UpdateElst(VideoEdit, video.tkhd)
          /\ (video.hasCtts => video'.ctts = UpdateCtts(dts, SampleCTS))
      BY <1>10 DEF newStts, newElst, newCtts
    <2> QED
      BY <1>1, <1>10, <1>12, <2>1, <2>2, <2>3, <2>4 DEF Written
  <1> QED
    BY <1>1, <1>13, <1>14, <1>15 DEF FileInv

LEMMA SavedFile ==
    ASSUME FileInv, SaveCopy \/ SaveInPlace
    PROVE  FileInv'
  <1>1. pc' = "closed" /\ Boxes
    BY DEF SaveCopy, SaveInPlace, Saved, FileInv
  <1>2. Boxes'
    <2>1. CASE SaveCopy
      BY <1>1, <2>1 DEF SaveCopy, boxes, Boxes, VideoFields, AudioFields, TablesOf
    <2>2. CASE SaveInPlace
      <3> DEFINE x == IF video.elst = <<>> THEN ToMovieDuration(video)
                      ELSE EditTotalDuration(video.elst)
      <3>1. video' = [video EXCEPT !.tkhd = x]
        BY <2>2 DEF SaveInPlace, FinishWrite
      <3> HIDE DEF x
      <3>2. VideoFields(video) /\ TablesOf(video)
        BY <1>1 DEF Boxes
      <3>3. VideoFields(video') /\ TablesOf(video')
        BY <3>1, <3>2 DEF VideoFields, TablesOf
      <3>4. ASSUME NEW a \in AudioTracks PROVE AudioFields(audio'[a])
        <4> DEFINE y == IF audio[a].elst = <<>> THEN ToMovieDuration(audio[a])
                        ELSE EditTotalDuration(audio[a].elst)
        <4>1. audio'[a] = [audio[a] EXCEPT !.tkhd = y]
          BY <2>2 DEF SaveInPlace, FinishWrite
        <4> HIDE DEF y
        <4>2. AudioFields(audio[a])
          BY <1>1 DEF Boxes
        <4> QED
          BY <4>1, <4>2 DEF AudioFields
      <3> QED
        BY <3>3, <3>4 DEF Boxes, VideoFields, TablesOf, AudioFields
    <2> QED
      BY <2>1, <2>2
  <1> QED
    BY <1>1, <1>2 DEF FileInv, Editing

LEMMA StutterFile ==
    ASSUME FileInv, UNCHANGED vars
    PROVE  FileInv'
  <1>1. UNCHANGED <<video, audio, dts, cts, ctsIndex, timeScale, initialDelay, compressDTS,
                    audioDelay, asked, pc>>
    BY DEF vars, boxes, times, options, history
  <1> QED
    BY <1>1 DEF FileInv, Boxes, VideoFields, AudioFields, TablesOf, Spaced, Orders,
                Permutation, Loaded, Arranged, Identity, Written, SampleCTS, VideoEdit,
                AudioEdit, AudioDelayInTimeScale

-----------------------------------------------------------------------------
(* DelayTimeCodes is a function of the time codes and the delay: what it   *)
(* makes of equal composition and decoding times is equal again.           *)

\* the factor f is too small, and the code frame i gets with it
Steep(a, o, f)       == o + f * a[1] > Ctsf!DelayScaleLimit * (f * a[1])
Stretched(a, o, f, i) == HalfUp(a[i], o + f * a[1], f * a[1])
Reaches(a, o, f, i)  == Stretched(a, o, f, i) >= a[i] + o

Least(a, o, f) ==
    f \in Nat /\ f >= 2 /\ ~ Steep(a, o, f) /\ \A g \in 2 .. f - 1 : Steep(a, o, g)

Before(a, o, f, n) == \A i \in 1 .. n - 1 : ~ Reaches(a, o, f, i)

Breaks(a, o, f, n) ==
    n \in 1 .. LastSlot + 1 /\ Before(a, o, f, n) /\ (n <= LastSlot => Reaches(a, o, f, n))

\* the first n - 1 frames stretched and the rest moved on
Partly(a, o, f, n, rest) ==
    [i \in Slots |-> IF i = 0 THEN a[0]
                     ELSE IF i < n THEN Stretched(a, o, f, i) ELSE a[i] + rest]

Delayed(t, a, o) ==
    \E f : Least(a, o, f) /\ \E n : Breaks(a, o, f, n) /\ t = Partly(a, o, f, n, o)

LEMMA DelayedOnce ==
    ASSUME NEW a, NEW o, NEW s, NEW t, Delayed(s, a, o), Delayed(t, a, o)
    PROVE  s = t
  <1>1. PICK f : Least(a, o, f) /\ \E n : Breaks(a, o, f, n) /\ s = Partly(a, o, f, n, o)
    BY DEF Delayed
  <1>2. PICK n : Breaks(a, o, f, n) /\ s = Partly(a, o, f, n, o)
    BY <1>1
  <1>3. PICK g : Least(a, o, g) /\ \E m : Breaks(a, o, g, m) /\ t = Partly(a, o, g, m, o)
    BY DEF Delayed
  <1>4. PICK m : Breaks(a, o, g, m) /\ t = Partly(a, o, g, m, o)
    BY <1>3
  <1>5. f = g
    <2>1. f \in Nat /\ f >= 2 /\ g \in Nat /\ g >= 2
      BY <1>1, <1>3 DEF Least
    <2>2. ~ (f \in 2 .. g - 1) /\ ~ (g \in 2 .. f - 1)
      BY <1>1, <1>3 DEF Least
    <2> QED
      BY <2>1, <2>2
  <1>6. n = m
    <2>1. n \in 1 .. LastSlot + 1 /\ m \in 1 .. LastSlot + 1 /\ LastSlot \in Nat
      BY <1>2, <1>4, LastSlotAssumption DEF Breaks
    <2>2. n <= LastSlot => ~ (n \in 1 .. m - 1)
      BY <1>2, <1>4, <1>5 DEF Breaks, Before
    <2>3. m <= LastSlot => ~ (m \in 1 .. n - 1)
      BY <1>2, <1>4, <1>5 DEF Breaks, Before
    <2> QED
      BY <2>1, <2>2, <2>3
  <1> QED
    BY <1>2, <1>4, <1>5, <1>6

\* the course of the loop
DelayRun(t, l, a, o) ==
    \/ l = Ctsf!Idle /\ t = a
    \/ /\ l.code = "factor" /\ t = a /\ l.offset = o /\ l.off = a[1]
       /\ l.factor \in Nat /\ l.factor >= 2
       /\ \A g \in 2 .. l.factor - 1 : Steep(a, o, g)
    \/ /\ l.code = "delay" /\ l.offset = o /\ Least(a, o, l.factor)
       /\ l.num = o + l.factor * a[1] /\ l.den = l.factor * a[1]
       /\ l.n \in 1 .. LastSlot + 1 /\ Before(a, o, l.factor, l.n)
       /\ t = Partly(a, o, l.factor, l.n, 0)

LEMMA RunEnters ==
    ASSUME NEW a, NEW o
    PROVE  DelayRun(a, [code |-> "factor", n |-> 0, prev |-> 0, offset |-> o,
                        off |-> a[1], factor |-> 2, num |-> 1, den |-> 1], a, o)
  <1>1. 2 \in Nat /\ 2 .. 2 - 1 = {}
    OBVIOUS
  <1> QED
    BY <1>1 DEF DelayRun

LEMMA RunRaises ==
    ASSUME NEW a, NEW o, NEW t, NEW l \in LoopRecord, DelayRun(t, l, a, o),
           l.code = "factor",
           l.offset + l.factor * l.off > Ctsf!DelayScaleLimit * (l.factor * l.off)
    PROVE  DelayRun(t, [l EXCEPT !.factor = @ + 1], a, o)
  <1> DEFINE m == [l EXCEPT !.factor = @ + 1]
  <1>1. /\ t = a /\ l.offset = o /\ l.off = a[1] /\ l.factor \in Nat /\ l.factor >= 2
        /\ \A g \in 2 .. l.factor - 1 : Steep(a, o, g)
    BY IdleIsNoLoop DEF DelayRun
  <1>2. m.code = "factor" /\ m.offset = o /\ m.off = a[1] /\ m.factor = l.factor + 1
    BY <1>1 DEF LoopRecord
  <1> HIDE DEF m
  <1>3. Steep(a, o, l.factor)
    BY <1>1 DEF Steep
  <1>4. ASSUME NEW g \in 2 .. m.factor - 1 PROVE Steep(a, o, g)
    <2>1. g \in 2 .. l.factor - 1 \/ g = l.factor
      BY <1>1, <1>2
    <2> QED
      BY <1>1, <1>3, <2>1
  <1>5. m.factor \in Nat /\ m.factor >= 2
    BY <1>1, <1>2
  <1>6. DelayRun(t, m, a, o)
    BY <1>1, <1>2, <1>4, <1>5 DEF DelayRun
  <1> QED
    BY <1>6 DEF m

LEMMA RunFixes ==
    ASSUME NEW a \in [Slots -> Int], NEW o \in Int, NEW t, NEW l \in LoopRecord,
           DelayRun(t, l, a, o), l.code = "factor",
           l.offset + l.factor * l.off <= Ctsf!DelayScaleLimit * (l.factor * l.off)
    PROVE  DelayRun(t, [code |-> "delay", n |-> 1, prev |-> 0, offset |-> l.offset,
                        off |-> l.off, factor |-> l.factor,
                        num |-> l.offset + l.factor * l.off,
                        den |-> l.factor * l.off], a, o)
  <1> DEFINE m == [code |-> "delay", n |-> 1, prev |-> 0, offset |-> l.offset,
                   off |-> l.off, factor |-> l.factor,
                   num |-> l.offset + l.factor * l.off,
                   den |-> l.factor * l.off]
  <1>1. /\ t = a /\ l.offset = o /\ l.off = a[1] /\ l.factor \in Nat /\ l.factor >= 2
        /\ \A g \in 2 .. l.factor - 1 : Steep(a, o, g)
    BY IdleIsNoLoop DEF DelayRun
  <1>2. ~ Steep(a, o, l.factor)
    <2> DEFINE y == l.factor * a[1]
               x == o + y
               z == Ctsf!DelayScaleLimit * y
    <2>1. y \in Int
      BY <1>1, SlotsFacts
    <2>2. x <= z
      BY <1>1
    <2>3. x \in Int /\ z \in Int
      <3> HIDE DEF y
      <3> QED
        BY <2>1 DEF Ctsf!DelayScaleLimit
    <2> HIDE DEF x, z
    <2>4. ~ (x > z)
      BY <2>2, <2>3
    <2> QED
      BY <2>4 DEF Steep, x, z, y
  <1>3. /\ m.code = "delay" /\ m.offset = o /\ m.factor = l.factor /\ m.n = 1
        /\ m.num = o + l.factor * a[1] /\ m.den = l.factor * a[1]
    BY <1>1
  <1> HIDE DEF m
  <1>4. Least(a, o, m.factor)
    BY <1>1, <1>2, <1>3 DEF Least
  <1>5. m.n \in 1 .. LastSlot + 1 /\ Before(a, o, m.factor, m.n)
    <2>1. 1 \in 1 .. LastSlot + 1 /\ 1 .. 1 - 1 = {}
      BY LastSlotAssumption
    <2> QED
      BY <1>3, <2>1 DEF Before
  <1>6. a = Partly(a, o, m.factor, m.n, 0)
    <2> DEFINE p == Partly(a, o, m.factor, m.n, 0)
    <2>1. ASSUME NEW i \in Slots PROVE p[i] = a[i]
      <3>1. i \in Nat /\ a[i] \in Int
        BY SlotsFacts
      <3>2. CASE i = 0
        BY <3>2, SlotsFacts DEF Partly
      <3>3. CASE i # 0
        <4>1. ~ (i < 1) /\ a[i] + 0 = a[i]
          BY <3>1, <3>3
        <4> QED
          BY <1>3, <3>3, <4>1 DEF Partly
      <3> QED
        BY <3>2, <3>3
    <2>2. p = [i \in Slots |-> p[i]]
      BY DEF Partly
    <2>3. a = [i \in Slots |-> a[i]]
      OBVIOUS
    <2> HIDE DEF p
    <2> QED
      BY <2>1, <2>2, <2>3 DEF p
  <1>7. DelayRun(t, m, a, o)
    BY <1>1, <1>3, <1>4, <1>5, <1>6 DEF DelayRun
  <1> QED
    BY <1>7 DEF m

LEMMA RunMoves ==
    ASSUME NEW a \in [Slots -> Int], NEW o \in Int, NEW t, NEW l \in LoopRecord,
           DelayRun(t, l, a, o), l.code = "delay", l.n <= LastSlot,
           ~ (HalfUp(t[l.n], l.num, l.den) >= t[l.n] + l.offset)
    PROVE  DelayRun([t EXCEPT ![l.n] = HalfUp(t[l.n], l.num, l.den)],
                    Advanced(l, HalfUp(t[l.n], l.num, l.den)), a, o)
  <1> DEFINE h == HalfUp(t[l.n], l.num, l.den)
             m == [l EXCEPT !.n = @ + 1, !.prev = h]
             s == [t EXCEPT ![l.n] = h]
             f == l.factor
             n == l.n
  <1>1. /\ l.offset = o /\ Least(a, o, f) /\ l.num = o + f * a[1] /\ l.den = f * a[1]
        /\ n \in 1 .. LastSlot + 1 /\ Before(a, o, f, n) /\ t = Partly(a, o, f, n, 0)
    BY IdleIsNoLoop DEF DelayRun
  <1>2. /\ m.code = "delay" /\ m.offset = o /\ m.factor = f /\ m.num = l.num
        /\ m.den = l.den /\ m.n = n + 1
    BY <1>1 DEF LoopRecord
  <1> HIDE DEF m
  <1>3. n \in Slots /\ n \in 1 .. LastSlot /\ n \in Nat /\ a[n] \in Int /\ ~ (n < n) /\ n # 0
    BY <1>1, LastSlotAssumption DEF Slots
  <1>4. t[n] = a[n]
    BY <1>1, <1>3 DEF Partly
  <1>5. h = Stretched(a, o, f, n)
    BY <1>1, <1>4 DEF Stretched
  <1>6. ~ Reaches(a, o, f, n)
    BY <1>1, <1>4, <1>5 DEF Reaches
  <1>7. Before(a, o, f, n + 1)
    <2>1. \A i \in 1 .. (n + 1) - 1 : i \in 1 .. n - 1 \/ i = n
      BY <1>3
    <2> QED
      BY <1>1, <1>6, <2>1 DEF Before
  <1>8. s = Partly(a, o, f, n + 1, 0)
    <2> DEFINE p == Partly(a, o, f, n + 1, 0)
    <2>1. ASSUME NEW i \in Slots PROVE s[i] = p[i]
      <3>1. i \in Nat
        BY SlotsFacts
      <3>2. CASE i = n
        <4>1. s[i] = h
          BY <1>1, <1>3, <3>2 DEF Partly
        <4>2. i < n + 1 /\ i # 0
          BY <1>3, <3>2
        <4>3. p[i] = Stretched(a, o, f, i)
          BY <4>2 DEF Partly
        <4> QED
          BY <1>5, <3>2, <4>1, <4>3
      <3>3. CASE i # n
        <4>1. s[i] = t[i]
          BY <1>1, <3>3 DEF Partly
        <4>2. i < n + 1 <=> i < n
          BY <1>3, <3>1, <3>3
        <4>3. t[i] = p[i]
          BY <1>1, <4>2 DEF Partly
        <4> QED
          BY <4>1, <4>3
      <3> QED
        BY <3>2, <3>3
    <2>2. p = [i \in Slots |-> p[i]] /\ s = [i \in Slots |-> s[i]]
      BY <1>1 DEF Partly
    <2> HIDE DEF p, s
    <2> QED
      BY <2>1, <2>2 DEF p
  <1>9. n + 1 \in 1 .. LastSlot + 1
    BY <1>3, LastSlotAssumption
  <1> HIDE DEF s, h, f, n
  <1>10. DelayRun(s, m, a, o)
    BY <1>1, <1>2, <1>7, <1>8, <1>9 DEF DelayRun
  <1> QED
    BY <1>10 DEF s, m, h, n, Advanced

LEMMA RunEnds ==
    ASSUME NEW a \in [Slots -> Int], NEW o \in Int, NEW t, NEW l,
           DelayRun(t, l, a, o), l.code = "delay",
           l.n <= LastSlot => HalfUp(t[l.n], l.num, l.den) >= t[l.n] + l.offset
    PROVE  Delayed([i \in Slots |-> IF i < l.n THEN t[i] ELSE t[i] + l.offset], a, o)
  <1> DEFINE s == [i \in Slots |-> IF i < l.n THEN t[i] ELSE t[i] + l.offset]
             f == l.factor
             n == l.n
  <1>1. /\ l.offset = o /\ Least(a, o, f) /\ l.num = o + f * a[1] /\ l.den = f * a[1]
        /\ n \in 1 .. LastSlot + 1 /\ Before(a, o, f, n) /\ t = Partly(a, o, f, n, 0)
    BY IdleIsNoLoop DEF DelayRun
  <1>2. ASSUME n <= LastSlot PROVE Reaches(a, o, f, n)
    <2>1. n \in Slots /\ a[n] \in Int /\ ~ (n < n) /\ n # 0
      BY <1>1, <1>2, LastSlotAssumption DEF Slots
    <2>2. t[n] = a[n]
      BY <1>1, <2>1 DEF Partly
    <2> QED
      BY <1>1, <1>2, <2>2 DEF Reaches, Stretched
  <1>3. Breaks(a, o, f, n)
    BY <1>1, <1>2 DEF Breaks
  <1>4. s = Partly(a, o, f, n, o)
    <2> DEFINE p == Partly(a, o, f, n, o)
    <2>1. ASSUME NEW i \in Slots PROVE s[i] = p[i]
      <3>1. i \in Nat /\ a[i] \in Int /\ 0 < n
        BY <1>1, SlotsFacts
      <3>2. CASE i < n
        BY <1>1, <3>2 DEF Partly
      <3>3. CASE ~ (i < n)
        <4>1. i # 0
          BY <3>1, <3>3
        <4>2. t[i] = a[i] + 0
          BY <1>1, <3>3, <4>1 DEF Partly
        <4>3. s[i] = a[i] + o
          BY <1>1, <3>1, <3>3, <4>2
        <4> QED
          BY <3>3, <4>1, <4>3 DEF Partly
      <3> QED
        BY <3>2, <3>3
    <2>2. p = [i \in Slots |-> p[i]] /\ s = [i \in Slots |-> s[i]]
      BY DEF Partly
    <2> HIDE DEF p, s
    <2> QED
      BY <2>1, <2>2 DEF p
  <1> HIDE DEF s, f, n
  <1>5. Delayed(s, a, o)
    BY <1>1, <1>3, <1>4 DEF Delayed
  <1> QED
    BY <1>5 DEF s, n

LEMMA CtsRuns ==
    ASSUME asked \in [Slots -> Int], NEW o \in Int, DelayLoop(cts, loop, asked),
           DelayRun(cts, loop, asked, o),
           \/ Ctsf!EnterDelay(o) \/ Ctsf!RaiseFactor
           \/ Ctsf!FixFactor \/ Ctsf!DelayFrame
    PROVE  DelayRun(cts', loop', asked, o)
  <1>1. CASE Ctsf!EnterDelay(o)
    <2>1. loop.code = "idle" /\ cts' = cts
      BY <1>1 DEF Ctsf!EnterDelay
    <2>2. cts = asked
      BY <2>1 DEF DelayRun
    <2>3. loop' = [code |-> "factor", n |-> 0, prev |-> 0, offset |-> o,
                   off |-> asked[1], factor |-> 2, num |-> 1, den |-> 1]
      BY <1>1, <2>2 DEF Ctsf!EnterDelay
    <2> QED
      BY <2>1, <2>2, <2>3, RunEnters
  <1>2. CASE Ctsf!RaiseFactor
    <2>1. /\ loop.code = "factor" /\ cts' = cts
          /\ loop' = [loop EXCEPT !.factor = @ + 1]
          /\ loop.offset + loop.factor * loop.off
                > Ctsf!DelayScaleLimit * (loop.factor * loop.off)
      BY <1>2 DEF Ctsf!RaiseFactor, Ctsf!FactorNum, Ctsf!FactorDen
    <2>2. loop \in LoopRecord
      BY <2>1, IdleIsNoLoop DEF DelayLoop
    <2> QED
      BY <2>1, <2>2, RunRaises
  <1>3. CASE Ctsf!FixFactor
    <2>1. /\ loop.code = "factor" /\ cts' = cts
          /\ loop.offset + loop.factor * loop.off
                <= Ctsf!DelayScaleLimit * (loop.factor * loop.off)
          /\ loop' = [code |-> "delay", n |-> 1, prev |-> 0, offset |-> loop.offset,
                      off |-> loop.off, factor |-> loop.factor,
                      num |-> loop.offset + loop.factor * loop.off,
                      den |-> loop.factor * loop.off]
      BY <1>3 DEF Ctsf!FixFactor, Ctsf!FactorNum, Ctsf!FactorDen
    <2>2. loop \in LoopRecord
      BY <2>1, IdleIsNoLoop DEF DelayLoop
    <2> QED
      BY <2>1, <2>2, RunFixes
  <1>4. CASE Ctsf!DelayFrame
    <2> DEFINE h == HalfUp(cts[loop.n], loop.num, loop.den)
    <2>1. h = Ctsf!DelayedCode
      BY Instances DEF Ctsf!DelayedCode
    <2>2. /\ loop.code = "delay" /\ loop.n <= LastSlot
          /\ ~ (h >= cts[loop.n] + loop.offset)
          /\ cts' = [cts EXCEPT ![loop.n] = h]
          /\ loop' = [loop EXCEPT !.n = @ + 1, !.prev = h]
      BY <1>4, <2>1 DEF Ctsf!DelayFrame, Ctsf!Delaying, Ctsf!FullyDelayed
    <2>3. loop \in LoopRecord
      BY <2>2, IdleIsNoLoop DEF DelayLoop
    <2>4. loop' = Advanced(loop, h)
      BY <2>2 DEF Advanced
    <2>5. DelayRun([cts EXCEPT ![loop.n] = h], Advanced(loop, h), asked, o)
      BY <2>2, <2>3, RunMoves
    <2> QED
      BY <2>2, <2>4, <2>5
  <1> QED
    BY <1>1, <1>2, <1>3, <1>4

LEMMA CtsRan ==
    ASSUME asked \in [Slots -> Int], NEW o \in Int, DelayRun(cts, loop, asked, o),
           Ctsf!DelayTail
    PROVE  Delayed(cts', asked, o)
  <1>1. /\ loop.code = "delay"
        /\ cts' = [i \in Slots |-> IF i < loop.n THEN cts[i] ELSE cts[i] + loop.offset]
    BY Instances DEF Ctsf!DelayTail
  <1>2. loop.n <= LastSlot =>
            HalfUp(cts[loop.n], loop.num, loop.den) >= cts[loop.n] + loop.offset
    BY Instances DEF Ctsf!DelayTail, Ctsf!Delaying, Ctsf!FullyDelayed, Ctsf!DelayedCode
  <1> QED
    BY <1>1, <1>2, RunEnds

LEMMA DtsRuns ==
    ASSUME asked \in [Slots -> Int], NEW o \in Int, DelayLoop(dts, loop, asked),
           DelayRun(dts, loop, asked, o),
           \/ Dtsf!EnterDelay(o) \/ Dtsf!RaiseFactor
           \/ Dtsf!FixFactor \/ Dtsf!DelayFrame
    PROVE  DelayRun(dts', loop', asked, o)
  <1>1. CASE Dtsf!EnterDelay(o)
    <2>1. loop.code = "idle" /\ dts' = dts
      BY <1>1 DEF Dtsf!EnterDelay
    <2>2. dts = asked
      BY <2>1 DEF DelayRun
    <2>3. loop' = [code |-> "factor", n |-> 0, prev |-> 0, offset |-> o,
                   off |-> asked[1], factor |-> 2, num |-> 1, den |-> 1]
      BY <1>1, <2>2 DEF Dtsf!EnterDelay
    <2> QED
      BY <2>1, <2>2, <2>3, RunEnters
  <1>2. CASE Dtsf!RaiseFactor
    <2>1. /\ loop.code = "factor" /\ dts' = dts
          /\ loop' = [loop EXCEPT !.factor = @ + 1]
          /\ loop.offset + loop.factor * loop.off
                > Ctsf!DelayScaleLimit * (loop.factor * loop.off)
      BY <1>2 DEF Dtsf!RaiseFactor, Dtsf!FactorNum, Dtsf!FactorDen,
                  Dtsf!DelayScaleLimit, Ctsf!DelayScaleLimit
    <2>2. loop \in LoopRecord
      BY <2>1, IdleIsNoLoop DEF DelayLoop
    <2> QED
      BY <2>1, <2>2, RunRaises
  <1>3. CASE Dtsf!FixFactor
    <2>1. /\ loop.code = "factor" /\ dts' = dts
          /\ loop.offset + loop.factor * loop.off
                <= Ctsf!DelayScaleLimit * (loop.factor * loop.off)
          /\ loop' = [code |-> "delay", n |-> 1, prev |-> 0, offset |-> loop.offset,
                      off |-> loop.off, factor |-> loop.factor,
                      num |-> loop.offset + loop.factor * loop.off,
                      den |-> loop.factor * loop.off]
      BY <1>3 DEF Dtsf!FixFactor, Dtsf!FactorNum, Dtsf!FactorDen,
                  Dtsf!DelayScaleLimit, Ctsf!DelayScaleLimit
    <2>2. loop \in LoopRecord
      BY <2>1, IdleIsNoLoop DEF DelayLoop
    <2> QED
      BY <2>1, <2>2, RunFixes
  <1>4. CASE Dtsf!DelayFrame
    <2> DEFINE h == HalfUp(dts[loop.n], loop.num, loop.den)
    <2>1. h = Dtsf!DelayedCode
      BY Instances DEF Dtsf!DelayedCode
    <2>2. /\ loop.code = "delay" /\ loop.n <= LastSlot
          /\ ~ (h >= dts[loop.n] + loop.offset)
          /\ dts' = [dts EXCEPT ![loop.n] = h]
          /\ loop' = [loop EXCEPT !.n = @ + 1, !.prev = h]
      BY <1>4, <2>1 DEF Dtsf!DelayFrame, Dtsf!Delaying, Dtsf!FullyDelayed
    <2>3. loop \in LoopRecord
      BY <2>2, IdleIsNoLoop DEF DelayLoop
    <2>4. loop' = Advanced(loop, h)
      BY <2>2 DEF Advanced
    <2>5. DelayRun([dts EXCEPT ![loop.n] = h], Advanced(loop, h), asked, o)
      BY <2>2, <2>3, RunMoves
    <2> QED
      BY <2>2, <2>4, <2>5
  <1> QED
    BY <1>1, <1>2, <1>3, <1>4

LEMMA DtsRan ==
    ASSUME asked \in [Slots -> Int], NEW o \in Int, DelayRun(dts, loop, asked, o),
           Dtsf!DelayTail
    PROVE  Delayed(dts', asked, o)
  <1>1. /\ loop.code = "delay"
        /\ dts' = [i \in Slots |-> IF i < loop.n THEN dts[i] ELSE dts[i] + loop.offset]
    BY Instances DEF Dtsf!DelayTail
  <1>2. loop.n <= LastSlot =>
            HalfUp(dts[loop.n], loop.num, loop.den) >= dts[loop.n] + loop.offset
    BY Instances DEF Dtsf!DelayTail, Dtsf!Delaying, Dtsf!FullyDelayed, Dtsf!DelayedCode
  <1> QED
    BY <1>1, <1>2, RunEnds

-----------------------------------------------------------------------------
(* How AdjustTimeCodes gets from the times asked for to those it writes,   *)
(* where nothing or the same is done to both kinds of time.                *)

\* the times the frames are asked for, from the first frame displayed
Asked(rest) == [n \in Slots |-> asked[n] - asked[0] + rest]

\* without -c only the delay of CalcInitialDelay is added
Plain ==
    ~ compressDTS =>
        /\ pc \in {"timed", "rebase", "measure", "adjusted", "edited"}
        /\ dts = asked
        /\ pc \in {"timed", "rebase"} => cts = asked
        /\ pc = "measure" => cts = Asked(0)
        /\ Adjusted => cts = Asked(initialDelay)

\* with it both are delayed alike, and no frame waits for another
Backlog == -AudioDelayInTimeScale

NoBacklog(l) ==
    \/ l = Ctsf!Idle
    \/ /\ l.code = "compress" /\ l.n = 1 /\ l.prev = 0 /\ l.offset = 0
       /\ l.off = dts[1] /\ l.num = dts[1] /\ l.den = dts[1]

Alike ==
    compressDTS /\ audioDelay <= 0 /\ ctsIndex = Identity /\ asked[0] = 0 =>
        /\ pc = "timed" => dts = asked /\ cts = asked
        /\ pc = "delayCTS" => DelayRun(cts, loop, asked, Backlog)
        /\ pc = "delayDTS" => /\ Delayed(cts, asked, Backlog)
                              /\ DelayRun(dts, loop, asked, Backlog)
        /\ pc \in Editing \ {"timed", "delayCTS", "delayDTS"} =>
              cts = dts /\ cts[0] = 0
        /\ pc = "compressDTS" => initialDelay = 0 /\ NoBacklog(loop)

Course == pc \in Editing => dts[0] = asked[0] /\ Plain /\ Alike

LEMMA Unmoved ==
    ASSUME Unadjusted
    PROVE  /\ UNCHANGED <<compressDTS, audioDelay, ctsIndex, asked, timeScale>>
           /\ Backlog' = Backlog /\ (\A d : Asked(d)' = Asked(d))
  <1>1. UNCHANGED <<compressDTS, audioDelay, ctsIndex, asked, timeScale>>
    BY DEF Unadjusted, options, history
  <1> QED
    BY <1>1 DEF Backlog, AudioDelayInTimeScale, Asked

LEMMA CourseBegins ==
    ASSUME pc = "loaded",
           pc' = "failed" \/ (pc' = "timed" /\ dts' = asked' /\ cts' = asked')
    PROVE  Course'
  BY DEF Course, Plain, Alike, Editing, Adjusted

LEMMA BeginCourse ==
    ASSUME Inv, Spaced(1), Course, BeginAdjust
    PROVE  Course'
  <1>1. /\ pc = "timed" /\ UNCHANGED <<dts, cts, initialDelay, loop>> /\ Unadjusted
        /\ pc' = IF compressDTS /\ audioDelay < 0 THEN "delayCTS" ELSE "rebase"
        /\ compressDTS \in BOOLEAN /\ audioDelay \in Int
    BY DEF BeginAdjust, times, Inv, Framing
  <1>2. dts = asked /\ cts = asked /\ loop = Ctsf!Idle
    BY <1>1 DEF Inv, Framing, Stage, Editing, LoopPcs
  <1>3. /\ UNCHANGED <<compressDTS, audioDelay, ctsIndex, asked>>
        /\ Backlog' = Backlog
    BY <1>1, Unmoved
  <1>4. DelayRun(cts, loop, asked, Backlog)
    BY <1>2 DEF DelayRun
  <1>5. pc' \in Editing /\ dts'[0] = asked'[0]
    BY <1>1, <1>2, <1>3 DEF Editing
  <1>6. Plain'
    BY <1>1, <1>2, <1>3 DEF Plain, Adjusted
  <1>7. Alike'
    BY <1>1, <1>2, <1>3, <1>4 DEF Alike, Identity
  <1> QED
    BY <1>5, <1>6, <1>7 DEF Course

LEMMA DelayCTSCourse ==
    ASSUME Inv, Spaced(1), Course, DelayCTS
    PROVE  Course'
  <1>1. /\ pc = "delayCTS" /\ dts' = dts /\ Unadjusted
        /\ pc' \in {"delayCTS", "delayDTS"}
        /\ audioDelay \in Int /\ audioDelay < 0
    BY DEF DelayCTS, Inv, Framing
  <1>2. /\ UNCHANGED <<compressDTS, audioDelay, ctsIndex, asked>>
        /\ Backlog' = Backlog
    BY <1>1, Unmoved
  <1>3. /\ dts = asked /\ DelayLoop(cts, loop, asked)
        /\ asked \in [Slots -> Nat] /\ asked \in [Slots -> Int] /\ Backlog \in Int
    <2>1. Stage /\ asked \in [Slots -> Nat] /\ timeScale \in Nat
      BY <1>1, SpacedFacts DEF Inv, Editing
    <2>2. Backlog \in Nat
      BY <1>1, <2>1, TicksSign DEF Backlog, AudioDelayInTimeScale
    <2> QED
      BY <1>1, <2>1, <2>2 DEF Stage
  <1>4. compressDTS
    BY <1>1 DEF Course, Plain, Editing
  <1>5. ASSUME audioDelay <= 0 /\ ctsIndex = Identity /\ asked[0] = 0
        PROVE  /\ pc' = "delayCTS" => DelayRun(cts', loop', asked, Backlog)
               /\ pc' = "delayDTS" => /\ Delayed(cts', asked, Backlog)
                                      /\ DelayRun(dts', loop', asked, Backlog)
    <2>1. DelayRun(cts, loop, asked, Backlog)
      BY <1>1, <1>4, <1>5 DEF Course, Alike, Editing
    <2>2. CASE pc' = "delayCTS"
      <3>1. \/ Ctsf!EnterDelay(Backlog) \/ Ctsf!RaiseFactor
            \/ Ctsf!FixFactor \/ Ctsf!DelayFrame
        BY <2>2 DEF DelayCTS, Backlog
      <3> QED
        BY <1>3, <2>1, <2>2, <3>1, CtsRuns
    <2>3. CASE pc' = "delayDTS"
      <3>1. Ctsf!DelayTail
        BY <2>3 DEF DelayCTS
      <3>2. loop' = Ctsf!Idle
        BY <3>1 DEF Ctsf!DelayTail
      <3>3. DelayRun(dts', loop', asked, Backlog)
        BY <1>1, <1>3, <3>2 DEF DelayRun
      <3> QED
        BY <1>3, <2>1, <2>3, <3>1, <3>3, CtsRan
    <2> QED
      BY <1>1, <2>2, <2>3
  <1>6. dts'[0] = asked'[0] /\ Plain' /\ Alike'
    BY <1>1, <1>2, <1>3, <1>4, <1>5 DEF Plain, Alike, Identity
  <1> QED
    BY <1>6 DEF Course

LEMMA FirstStays ==
    ASSUME NEW t, NEW l, NEW a \in [Slots -> Int], DelayLoop(t, l, a)
    PROVE  /\ t[0] = a[0]
           /\ l.code = "delay" =>
                [i \in Slots |-> IF i < l.n THEN t[i] ELSE t[i] + l.offset][0] = a[0]
  <1>1. t[0] = a[0]
    BY SlotsFacts DEF DelayLoop
  <1>2. ASSUME l.code = "delay" PROVE 0 < l.n
    BY <1>2, IdleIsNoLoop DEF DelayLoop
  <1> QED
    BY <1>1, <1>2, SlotsFacts

LEMMA DelayDTSCourse ==
    ASSUME Inv, Spaced(1), Course, DelayDTS
    PROVE  Course'
  <1>1. /\ pc = "delayDTS" /\ cts' = cts /\ Unadjusted
        /\ pc' \in {"delayDTS", "rebase"}
        /\ audioDelay \in Int /\ audioDelay < 0
    BY DEF DelayDTS, Inv, Framing
  <1>2. /\ UNCHANGED <<compressDTS, audioDelay, ctsIndex, asked>>
        /\ Backlog' = Backlog
    BY <1>1, Unmoved
  <1>3. /\ DelayLoop(dts, loop, asked) /\ Rising(asked)
        /\ asked \in [Slots -> Nat] /\ asked \in [Slots -> Int] /\ Backlog \in Nat
        /\ Backlog \in Int
    <2>1. Stage /\ asked \in [Slots -> Nat] /\ timeScale \in Nat /\ Rising(asked)
      BY <1>1, SpacedFacts DEF Inv, Editing
    <2>2. Backlog \in Nat
      BY <1>1, <2>1, TicksSign DEF Backlog, AudioDelayInTimeScale
    <2> QED
      BY <1>1, <2>1, <2>2 DEF Stage
  <1>4. compressDTS
    BY <1>1 DEF Course, Plain, Editing
  <1>5. CASE pc' = "delayDTS"
    <2>1. \/ Dtsf!EnterDelay(Backlog) \/ Dtsf!RaiseFactor
          \/ Dtsf!FixFactor \/ Dtsf!DelayFrame
      BY <1>5 DEF DelayDTS, Backlog
    <2>2. dts'[0] = asked[0]
      <3>1. DelayLoop(dts', loop', asked)
        BY <1>3, <2>1, DtsDelays
      <3> QED
        BY <1>3, <3>1, FirstStays
    <2>3. ASSUME audioDelay <= 0 /\ ctsIndex = Identity /\ asked[0] = 0
          PROVE  Delayed(cts', asked, Backlog) /\ DelayRun(dts', loop', asked, Backlog)
      <3>1. Delayed(cts, asked, Backlog) /\ DelayRun(dts, loop, asked, Backlog)
        BY <1>1, <1>4, <2>3 DEF Course, Alike, Editing
      <3> QED
        BY <1>1, <1>3, <2>1, <3>1, DtsRuns
    <2> QED
      BY <1>2, <1>4, <1>5, <2>2, <2>3 DEF Course, Plain, Alike, Identity
  <1>6. CASE pc' = "rebase"
    <2>1. Dtsf!DelayTail
      BY <1>6 DEF DelayDTS
    <2>2. /\ loop.code = "delay"
          /\ dts' = [i \in Slots |-> IF i < loop.n THEN dts[i] ELSE dts[i] + loop.offset]
      BY <2>1, Instances DEF Dtsf!DelayTail
    <2>3. dts'[0] = asked[0]
      BY <1>3, <2>2, FirstStays
    <2>4. ASSUME audioDelay <= 0 /\ ctsIndex = Identity /\ asked[0] = 0
          PROVE  cts' = dts' /\ cts'[0] = 0
      <3>1. Delayed(cts, asked, Backlog) /\ DelayRun(dts, loop, asked, Backlog)
        BY <1>1, <1>4, <2>4 DEF Course, Alike, Editing
      <3>2. Delayed(dts', asked, Backlog)
        BY <1>3, <2>1, <3>1, DtsRan
      <3>3. cts = dts'
        BY <3>1, <3>2, DelayedOnce
      <3> QED
        BY <1>1, <2>3, <2>4, <3>3
    <2> QED
      BY <1>2, <1>4, <1>6, <2>3, <2>4 DEF Course, Plain, Alike, Identity
  <1> QED
    BY <1>1, <1>5, <1>6

LEMMA RebaseCourse ==
    ASSUME Inv, Spaced(1), Course, Rebase
    PROVE  Course'
  <1>1. /\ pc = "rebase" /\ Unadjusted /\ dts' = dts
        /\ cts' = [n \in Slots |-> cts[n] + (-cts[0])]
        /\ pc' = IF compressDTS /\ audioDelay > 0 THEN "compressCTS" ELSE "measure"
        /\ audioDelay \in Int /\ compressDTS \in BOOLEAN
    BY DEF Rebase, OffsetCTS, Inv, Framing
  <1>2. /\ UNCHANGED <<compressDTS, audioDelay, ctsIndex, asked>>
        /\ Asked(0)' = Asked(0)
    BY <1>1, Unmoved
  <1>3. dts[0] = asked[0] /\ Plain /\ Alike /\ pc' \in Editing
        /\ dts \in [Slots -> Int] /\ cts \in [Slots -> Int] /\ asked \in [Slots -> Nat]
    BY <1>1, TimesTyped, SpacedFacts DEF Course, Editing
  <1>4. ASSUME ~ compressDTS PROVE dts = asked /\ cts' = Asked(0)
    <2>1. dts = asked /\ cts = asked
      BY <1>1, <1>3, <1>4 DEF Plain
    <2>2. \A n \in Slots : asked[n] + (-asked[0]) = asked[n] - asked[0] + 0
      BY <1>3, SlotsFacts
    <2> QED
      BY <1>1, <2>1, <2>2 DEF Asked
  <1>5. ASSUME compressDTS /\ audioDelay <= 0 /\ ctsIndex = Identity /\ asked[0] = 0
        PROVE  cts' = dts /\ cts'[0] = 0
    <2>1. cts = dts /\ cts[0] = 0
      BY <1>1, <1>3, <1>5 DEF Alike, Editing
    <2>2. \A n \in Slots : cts[n] + (-cts[0]) = cts[n]
      BY <1>3, <2>1
    <2>3. cts = [n \in Slots |-> cts[n]]
      BY <1>3
    <2>4. cts' = cts
      BY <1>1, <2>2, <2>3
    <2> QED
      BY <2>1, <2>4
  <1>6. Plain'
    BY <1>1, <1>2, <1>4 DEF Plain, Adjusted
  <1>7. Alike'
    BY <1>1, <1>2, <1>5 DEF Alike, Identity
  <1> QED
    BY <1>1, <1>2, <1>3, <1>6, <1>7 DEF Course

LEMMA CompressCTSCourse ==
    ASSUME Inv, Spaced(1), Course, CompressCTS
    PROVE  Course'
  <1>1. /\ pc = "compressCTS" /\ Unadjusted /\ dts' = dts
        /\ pc' \in {"compressCTS", "measure"} /\ audioDelay \in Int /\ audioDelay > 0
    BY DEF CompressCTS, Inv, Framing
  <1>2. UNCHANGED <<compressDTS, audioDelay, ctsIndex, asked>>
    BY <1>1, Unmoved
  <1>3. compressDTS /\ dts[0] = asked[0]
    BY <1>1 DEF Course, Plain, Editing
  <1> QED
    BY <1>1, <1>2, <1>3 DEF Course, Plain, Alike

\* frames displayed in decoding order, at the time they are decoded
LEMMA NoDelay ==
    ASSUME dts \in [Slots -> Int], ctsIndex = Identity, cts = dts,
           NEW d \in Lateness \cup {0}
    PROVE  d = 0
  <1>1. ASSUME NEW n \in Slots PROVE dts[ctsIndex[n]] - cts[n] = 0
    BY DEF Identity
  <1> QED
    BY <1>1 DEF Lateness

LEMMA Offsets ==
    ASSUME NEW d \in Int, asked \in [Slots -> Nat]
    PROVE  /\ [n \in Slots |-> Asked(0)[n] + d] = Asked(d)
           /\ \A t : t \in [Slots -> Int] => [n \in Slots |-> t[n] + 0] = t
  <1>1. \A n \in Slots : asked[n] - asked[0] + 0 + d = asked[n] - asked[0] + d
    BY SlotsFacts
  <1>2. ASSUME NEW t \in [Slots -> Int] PROVE [n \in Slots |-> t[n] + 0] = t
    <2>1. \A n \in Slots : t[n] + 0 = t[n]
      OBVIOUS
    <2> QED
      BY <2>1
  <1> QED
    BY <1>1, <1>2 DEF Asked

LEMMA MeasureCourse ==
    ASSUME Inv, Spaced(1), Course, Measure
    PROVE  Course'
  <1>1. /\ pc = "measure" /\ Unadjusted /\ dts' = dts /\ loop' = loop
        /\ compressDTS \in BOOLEAN /\ audioDelay \in Int /\ ctsIndex \in [Slots -> Slots]
        /\ loop = Ctsf!Idle
    BY DEF Measure, Inv, Framing, LoopPcs
  <1>2. /\ UNCHANGED <<compressDTS, audioDelay, ctsIndex, asked>>
        /\ \A d : Asked(d)' = Asked(d)
    BY <1>1, Unmoved
  <1>3. PICK d \in Lateness \cup {0} :
            /\ IsInitialDelay(d) /\ initialDelay' = d
            /\ IF compressDTS THEN pc' = "compressDTS" /\ cts' = cts
                              ELSE pc' = "adjusted" /\ OffsetCTS(d)
    BY DEF Measure
  <1>4. /\ dts[0] = asked[0] /\ Plain /\ Alike
        /\ dts \in [Slots -> Int] /\ cts \in [Slots -> Int] /\ asked \in [Slots -> Nat]
    BY <1>1, TimesTyped, SpacedFacts DEF Course, Editing
  <1>5. d \in Nat
    BY <1>1, <1>3, <1>4, DelaySuffices
  <1>6. ASSUME ~ compressDTS PROVE dts = asked /\ cts' = Asked(d)
    <2>1. dts = asked /\ cts = Asked(0) /\ cts' = [n \in Slots |-> cts[n] + d]
      BY <1>1, <1>3, <1>4, <1>6 DEF Plain, OffsetCTS
    <2>2. [n \in Slots |-> Asked(0)[n] + d] = Asked(d)
      <3>1. d \in Int
        BY <1>5
      <3> QED
        BY <1>4, <3>1, Offsets
    <2> QED
      BY <2>1, <2>2
  <1>7. ASSUME compressDTS /\ audioDelay <= 0 /\ ctsIndex = Identity /\ asked[0] = 0
        PROVE  cts' = dts /\ cts'[0] = 0 /\ d = 0
    <2>1. cts = dts /\ cts[0] = 0
      BY <1>1, <1>4, <1>7 DEF Alike, Editing
    <2>2. d = 0
      BY <1>4, <1>7, <2>1, NoDelay
    <2> QED
      BY <1>3, <1>7, <2>1, <2>2
  <1>8. Plain'
    BY <1>1, <1>2, <1>3, <1>6 DEF Plain, Adjusted
  <1>9. Alike'
    <2>1. CASE compressDTS
      BY <1>1, <1>2, <1>3, <1>7, <2>1 DEF Alike, Identity, NoBacklog
    <2>2. CASE ~ compressDTS
      BY <1>2, <2>2 DEF Alike
    <2> QED
      BY <2>1, <2>2
  <1> QED
    BY <1>1, <1>2, <1>4, <1>8, <1>9 DEF Course

LEMMA CompressDTSCourse ==
    ASSUME Inv, Spaced(1), Course, CompressDTS
    PROVE  Course'
  <1>1. /\ pc = "compressDTS" /\ Unadjusted /\ cts' = cts /\ initialDelay' = initialDelay
        /\ pc' \in {"compressDTS", "remeasure"}
    BY DEF CompressDTS
  <1>2. UNCHANGED <<compressDTS, audioDelay, ctsIndex, asked>>
    BY <1>1, Unmoved
  <1>3. /\ dts[0] = asked[0] /\ Plain /\ Alike /\ CompressLoop(dts, loop, asked)
        /\ dts \in [Slots -> Int] /\ cts \in [Slots -> Int] /\ asked \in [Slots -> Nat]
    BY <1>1, TimesTyped, SpacedFacts DEF Course, Editing, Inv, Stage
  <1>4. compressDTS
    BY <1>1, <1>3 DEF Plain
  <1>5. /\ 0 \in Slots /\ 1 \in Slots /\ LastSlot \in Nat /\ 1 <= LastSlot
        /\ dts[1] \in Int /\ 0 \in Frame
    BY <1>3, SlotsFacts, LastSlotAssumption DEF Frame
  <1>6. CASE Dtsf!EnterCompress(initialDelay) /\ pc' = "compressDTS"
    <2>1. /\ loop.code = "idle" /\ dts' = dts
          /\ loop' = [code |-> "compress", n |-> 1, prev |-> 0, offset |-> initialDelay,
                off |-> dts[1], factor |-> 0,
                num |-> IF initialDelay <= dts[1] THEN dts[1] ELSE 1,
                den |-> IF initialDelay <= dts[1] THEN initialDelay + dts[1] ELSE 2]
      BY <1>6 DEF Dtsf!EnterCompress
    <2>2. Shifted(dts, asked)
      BY <1>3, <2>1 DEF CompressLoop
    <2>3. 0 <= dts[1]
      <3>1. dts[0] \in Nat /\ dts[0 + 1] > dts[0]
        BY <1>5, <2>2 DEF Shifted, Rising
      <3> QED
        BY <1>5, <3>1
    <2>4. ASSUME initialDelay = 0 PROVE NoBacklog(loop)'
      <3>1. 0 + dts[1] = dts[1]
        BY <1>5
      <3> QED
        BY <2>1, <2>3, <2>4, <3>1 DEF NoBacklog
    <2> QED
      BY <1>1, <1>2, <1>3, <1>4, <1>6, <2>1, <2>4 DEF Course, Plain, Alike, Identity, Editing
  <1>7. CASE Dtsf!CompressFrame /\ pc' = "compressDTS"
    <2>1. /\ loop.code = "compress" /\ loop.n <= LastSlot
          /\ ~ ((dts[loop.n] - loop.offset - loop.prev) * loop.den >= loop.off * loop.num)
          /\ dts' = [dts EXCEPT ![loop.n] = Dtsf!CompressedCode]
      BY <1>7 DEF Dtsf!CompressFrame, Dtsf!Compressing, Dtsf!CaughtUp
    <2>2. loop.n > 0
      BY <1>3, <2>1, IdleIsNoLoop DEF CompressLoop
    <2>3. dts'[0] = dts[0]
      BY <1>3, <1>5, <2>1, <2>2
    <2>4. ~ (audioDelay <= 0 /\ ctsIndex = Identity /\ asked[0] = 0)
      <3>1. SUFFICES ASSUME audioDelay <= 0 /\ ctsIndex = Identity /\ asked[0] = 0
                     PROVE  FALSE
        OBVIOUS
      <3>2. /\ loop.n = 1 /\ loop.prev = 0 /\ loop.offset = 0
            /\ loop.off = dts[1] /\ loop.num = dts[1] /\ loop.den = dts[1]
        BY <1>1, <1>3, <1>4, <2>1, <3>1, IdleIsNoLoop DEF Alike, NoBacklog
      <3>3. dts[1] - 0 - 0 = dts[1]
        BY <1>5
      <3>4. dts[1] * dts[1] \in Int
        BY <1>5
      <3>5. dts[1] * dts[1] >= dts[1] * dts[1]
        BY <3>4
      <3> QED
        BY <2>1, <3>2, <3>3, <3>5
    <2> QED
      BY <1>2, <1>3, <1>4, <1>7, <2>3, <2>4 DEF Course, Plain, Alike, Identity
  <1>8. CASE Dtsf!CompressTail /\ pc' = "remeasure"
    <2>1. /\ loop.code = "compress"
          /\ dts' = [i \in Slots |-> IF i < loop.n THEN dts[i] ELSE dts[i] - loop.offset]
      BY <1>8, Instances DEF Dtsf!CompressTail
    <2>2. 0 < loop.n
      BY <1>3, <2>1, IdleIsNoLoop DEF CompressLoop
    <2>3. dts'[0] = dts[0]
      BY <1>5, <2>1, <2>2
    <2>4. ASSUME audioDelay <= 0 /\ ctsIndex = Identity /\ asked[0] = 0
          PROVE  cts' = dts' /\ cts'[0] = 0
      <3>1. loop.offset = 0 /\ cts = dts /\ cts[0] = 0
        BY <1>1, <1>3, <1>4, <2>1, <2>4, IdleIsNoLoop DEF Alike, NoBacklog, Editing
      <3>2. \A i \in Slots : dts[i] - 0 = dts[i]
        BY <1>3
      <3>3. dts' = dts
        BY <1>3, <2>1, <3>1, <3>2
      <3> QED
        BY <1>1, <3>1, <3>3
    <2> QED
      BY <1>2, <1>3, <1>4, <1>8, <2>3, <2>4 DEF Course, Plain, Alike, Identity
  <1> QED
    BY <1>6, <1>7, <1>8 DEF CompressDTS

LEMMA RemeasureCourse ==
    ASSUME Inv, Spaced(1), Course, Remeasure
    PROVE  Course'
  <1>1. pc = "remeasure" /\ pc' = "adjusted" /\ Unadjusted /\ dts' = dts
    BY DEF Remeasure
  <1>2. UNCHANGED <<compressDTS, audioDelay, ctsIndex, asked>>
    BY <1>1, Unmoved
  <1>3. PICK d \in Lateness \cup {0} : OffsetCTS(d)
    BY DEF Remeasure
  <1>4. /\ dts[0] = asked[0] /\ Plain /\ Alike
        /\ dts \in [Slots -> Int] /\ cts \in [Slots -> Int] /\ asked \in [Slots -> Nat]
    BY <1>1, TimesTyped, SpacedFacts DEF Course, Editing
  <1>5. compressDTS
    BY <1>1, <1>4 DEF Plain
  <1>6. ASSUME audioDelay <= 0 /\ ctsIndex = Identity /\ asked[0] = 0
        PROVE  cts' = dts /\ cts'[0] = 0
    <2>1. cts = dts /\ cts[0] = 0
      BY <1>1, <1>4, <1>5, <1>6 DEF Alike, Editing
    <2>2. d = 0
      BY <1>4, <1>6, <2>1, NoDelay
    <2>3. cts' = [n \in Slots |-> cts[n] + 0]
      BY <1>3, <2>2 DEF OffsetCTS
    <2>4. cts' = cts
      BY <1>4, <2>3, Offsets
    <2> QED
      BY <2>1, <2>4
  <1> QED
    BY <1>1, <1>2, <1>4, <1>5, <1>6 DEF Course, Plain, Alike, Identity

LEMMA CourseStays ==
    ASSUME Course, UNCHANGED <<dts, cts, ctsIndex, asked, timeScale, initialDelay,
                               compressDTS, audioDelay, loop>>,
           pc' = pc \/ (pc = "adjusted" /\ pc' = "edited")
    PROVE  Course'
  <1>1. Backlog' = Backlog /\ (\A d : Asked(d)' = Asked(d))
    BY DEF Backlog, AudioDelayInTimeScale, Asked
  <1> QED
    BY <1>1 DEF Course, Plain, Alike, Identity, NoBacklog, Adjusted, Editing

-----------------------------------------------------------------------------
(* What is read back *)

\* every delta of stts and every offset of ctts fits its field
TablesFit ==
    /\ dts[1] < Word
    /\ \A i \in Frame \ {0} : dts[i + 1] - dts[i] < Word
    /\ \A n \in Slots : 2 * (cts[n] - dts[ctsIndex[n]]) < Word

DecodedInOrder == dts[1] > 0 /\ \A i \in Frame \ {0} : dts[i] < dts[i + 1]

LEMMA Deltas ==
    ASSUME dts \in [Slots -> Int], TablesFit, DecodedInOrder
    PROVE  Ascending(dts, LastSlot)
  <1>1. ASSUME NEW i \in 1 .. LastSlot PROVE Delta(dts, i) \in 0 .. Word - 1
    <2>1. Word \in Nat /\ 1 \in Slots
      BY WordFacts, SlotsFacts
    <2>2. CASE i = 1
      <3>1. dts[1] \in Int /\ 0 < dts[1] /\ dts[1] < Word
        BY <2>1 DEF TablesFit, DecodedInOrder
      <3>2. Delta(dts, i) = dts[1] - 0
        BY <2>2 DEF Delta
      <3> QED
        BY <2>1, <3>1, <3>2
    <2>3. CASE i # 1
      <3> DEFINE j == i - 1
      <3>1. j \in Frame \ {0} /\ j + 1 = i /\ j \in Slots /\ i \in Slots
        BY <2>3, LastSlotAssumption DEF Frame, Slots
      <3>2. dts[j] \in Int /\ dts[i] \in Int
        BY <3>1
      <3>3. dts[j] < dts[j + 1] /\ dts[j + 1] - dts[j] < Word
        BY <3>1 DEF TablesFit, DecodedInOrder
      <3>4. Delta(dts, i) = dts[i] - dts[j]
        BY <2>3 DEF Delta
      <3> HIDE DEF j
      <3> QED
        BY <2>1, <3>1, <3>2, <3>3, <3>4
    <2> QED
      BY <2>2, <2>3
  <1> QED
    BY <1>1 DEF Ascending

LEMMA EditedTimes ==
    ASSUME Inv, FileInv, pc = "edited"
    PROVE  /\ dts \in [Slots -> Int] /\ cts \in [Slots -> Int]
           /\ asked \in [Slots -> Nat] /\ Permutation(ctsIndex)
           /\ SampleCTS \in [Slots -> Int]
           /\ \A n \in Slots : /\ SampleCTS[ctsIndex[n]] = cts[n]
                               /\ dts[ctsIndex[n]] <= cts[n]
           /\ initialDelay \in Int
           /\ initialDelay > 0 => \E n \in Slots : dts[ctsIndex[n]] = cts[n]
  <1>1. Spaced(1) /\ Arranged
    BY DEF FileInv, Editing
  <1>2. /\ dts \in [Slots -> Int] /\ cts \in [Slots -> Int] /\ asked \in [Slots -> Nat]
        /\ Permutation(ctsIndex)
    BY <1>1, TimesTyped, SpacedFacts DEF Editing, Arranged
  <1>3. (\A n \in Slots : dts[ctsIndex[n]] <= cts[n]) /\ Tight
    BY <1>1, StageWhenAdjusted DEF Adjusted
  <1>4. initialDelay \in Int
    BY <1>2, <1>3, SlotsFacts DEF Tight
  <1> QED
    BY <1>2, <1>3, <1>4, SampleTimes DEF Tight

LEMMA Reading ==
    ASSUME Inv, FileInv, pc = "edited", TablesFit, DecodedInOrder
    PROVE  /\ ReadDTS = [i \in Slots |-> IF i = 0 THEN 0 ELSE dts[i]]
           /\ \A i \in Frame : video.hasCtts =>
                 ReadCTS[i] = ReadDTS[i] + (SampleCTS[i] - dts[i])
           /\ ~ video.hasCtts => ReadCTS = ReadDTS
  <1>1. /\ dts \in [Slots -> Int] /\ cts \in [Slots -> Int]
        /\ Permutation(ctsIndex) /\ SampleCTS \in [Slots -> Int]
        /\ \A n \in Slots : SampleCTS[ctsIndex[n]] = cts[n] /\ dts[ctsIndex[n]] <= cts[n]
    BY EditedTimes
  <1>2. LastSlot \in Nat /\ Slots = 0 .. LastSlot /\ Frame = 0 .. LastSlot - 1
    BY LastSlotAssumption DEF Slots, Frame
  <1>3. Written /\ Ascending(dts, LastSlot)
    BY <1>1, Deltas DEF FileInv
  <1>4. ReadDTS = [i \in 0 .. LastSlot |-> IF i = 0 THEN 0 ELSE dts[i]]
    <2>1. ReadDTS = LoadDTS(UpdateStts(dts))
      BY <1>3 DEF ReadDTS, Written
    <2>2. dts \in [0 .. LastSlot -> Int]
      BY <1>1, <1>2
    <2> QED
      BY <1>2, <1>3, <2>1, <2>2, SttsReadBack
  <1>5. ReadDTS \in [0 .. LastSlot -> Int]
    BY <1>1, <1>2, <1>4
  <1>6. ASSUME video.hasCtts, NEW i \in Frame
        PROVE  ReadCTS[i] = ReadDTS[i] + (SampleCTS[i] - dts[i])
    <2>1. video.hasCtts = TRUE
      BY <1>6 DEF FileInv, Boxes, TablesOf
    <2>2. ReadCTS = LoadCTS(ReadDTS, TRUE, UpdateCtts(dts, SampleCTS))
      BY <1>3, <1>6, <2>1 DEF ReadCTS, Written
    <2>3. ASSUME NEW j \in 0 .. LastSlot - 1
          PROVE  SampleCTS[j] - dts[j] \in -(Word \div 2) .. Word \div 2 - 1
      <3>1. j \in Slots
        BY <1>2
      <3>2. PICK n \in Slots : ctsIndex[n] = j
        BY <1>1, <3>1, Onto
      <3> DEFINE d == SampleCTS[j] - dts[j]
      <3>3. d = cts[n] - dts[ctsIndex[n]]
        BY <1>1, <3>2
      <3>4. d \in Int /\ 0 <= d
        <4>1. cts[n] \in Int /\ dts[ctsIndex[n]] \in Int /\ dts[ctsIndex[n]] <= cts[n]
          BY <1>1, <3>1, <3>2
        <4> HIDE DEF d
        <4> QED
          BY <3>3, <4>1
      <3>5. 2 * d < Word
        BY <3>3 DEF TablesFit
      <3> HIDE DEF d
      <3>6. d \in -(Word \div 2) .. Word \div 2 - 1
        <4> DEFINE half == Word \div 2
        <4>1. half \in Nat /\ 2 * half = Word
          BY WordFacts
        <4> HIDE DEF half
        <4>2. d \in -half .. half - 1
          BY <3>4, <3>5, <4>1
        <4> QED
          BY <4>2 DEF half
      <3> QED
        BY <3>6 DEF d
    <2>4. /\ dts \in [0 .. LastSlot -> Int] /\ SampleCTS \in [0 .. LastSlot -> Int]
          /\ i \in 0 .. LastSlot - 1
      BY <1>1, <1>2
    <2>5. LoadCTS(ReadDTS, TRUE, UpdateCtts(dts, SampleCTS))[i]
             = ReadDTS[i] + (SampleCTS[i] - dts[i])
      BY <1>2, <1>5, <2>3, <2>4, CttsReadBack
    <2> QED
      BY <2>2, <2>5
  <1>7. ~ video.hasCtts => ReadCTS = ReadDTS
    BY DEF ReadCTS, LoadCTS
  <1> QED
    BY <1>2, <1>4, <1>6, <1>7

LEMMA WithoutCompression ==
    ASSUME Inv, FileInv, Course, pc = "edited", ~ compressDTS
    PROVE  /\ dts = asked /\ cts = Asked(initialDelay)
           /\ ctsIndex = Identity => initialDelay = asked[0]
           /\ DecodedInOrder
  <1>1. dts = asked /\ cts = Asked(initialDelay)
    BY DEF Course, Plain, Adjusted, Editing
  <1>2. /\ asked \in [Slots -> Nat] /\ initialDelay \in Int
        /\ \A n \in Slots : dts[ctsIndex[n]] <= cts[n]
        /\ initialDelay > 0 => \E n \in Slots : dts[ctsIndex[n]] = cts[n]
    BY EditedTimes
  <1>3. Rising(asked) /\ Permutation(ctsIndex)
    BY SpacedFacts, EditedTimes DEF FileInv, Editing
  <1>4. DecodedInOrder
    <2>1. asked[1] > 0
      <3>1. 0 \in Frame /\ asked[0] \in Nat /\ asked[1] \in Nat
        BY <1>2, SlotsFacts, LastSlotAssumption DEF Frame
      <3>2. asked[0 + 1] > asked[0]
        BY <1>3, <3>1 DEF Rising
      <3> QED
        BY <3>1, <3>2
    <2>2. ASSUME NEW i \in Frame \ {0} PROVE asked[i] < asked[i + 1]
      <3>1. asked[i] \in Nat /\ asked[i + 1] \in Nat /\ asked[i + 1] > asked[i]
        BY <1>2, <1>3, SlotsFacts DEF Rising
      <3> QED
        BY <3>1
    <2> QED
      BY <1>1, <2>1, <2>2 DEF DecodedInOrder
  <1>5. ASSUME ctsIndex = Identity PROVE initialDelay = asked[0]
    <2>1. \A n \in Slots : /\ asked[n] \in Nat /\ asked[0] \in Nat
                          /\ dts[ctsIndex[n]] = asked[n]
                          /\ cts[n] = asked[n] - asked[0] + initialDelay
      BY <1>1, <1>2, <1>5, SlotsFacts DEF Identity, Asked
    <2>2. asked[0] <= initialDelay
      <3>1. /\ asked[0] \in Nat /\ dts[ctsIndex[0]] = asked[0]
            /\ cts[0] = asked[0] - asked[0] + initialDelay
            /\ dts[ctsIndex[0]] <= cts[0]
        BY <1>2, <2>1, SlotsFacts
      <3> QED
        BY <1>2, <3>1
    <2>3. CASE initialDelay > 0
      <3>1. PICK n \in Slots : dts[ctsIndex[n]] = cts[n]
        BY <1>2, <2>3
      <3>2. /\ asked[n] \in Nat /\ asked[0] \in Nat
            /\ asked[n] = asked[n] - asked[0] + initialDelay
        BY <2>1, <3>1
      <3> QED
        BY <1>2, <3>2
    <2>4. CASE ~ (initialDelay > 0)
      BY <1>2, <2>2, <2>4, SlotsFacts
    <2> QED
      BY <2>3, <2>4
  <1> QED
    BY <1>1, <1>4, <1>5

LEMMA Cut ==
    ASSUME NEW m \in Int, NEW d
    PROVE  MediaTime(UpdateElst(m, d)) = m
  BY DEF MediaTime, UpdateElst

LEMMA NoTicks ==
    ASSUME NEW scale \in Nat
    PROVE  InTicks(0, scale) = 0
  <1>1. 0 * scale = 0 /\ Truncated(0, 1000) = 0
    BY DEF Truncated
  <1> QED
    BY <1>1 DEF InTicks

\* the times the frames are read at without -c
LEMMA PlainRead ==
    ASSUME Inv, FileInv, Course, pc = "edited", ~ compressDTS, TablesFit,
           NEW n \in Frame, asked[0] = 0 \/ ctsIndex[n] # 0
    PROVE  ReadCTS[ctsIndex[n]] = asked[n] - asked[0] + initialDelay
  <1> DEFINE i == ctsIndex[n]
  <1>1. /\ dts = asked /\ cts = Asked(initialDelay) /\ DecodedInOrder
        /\ ctsIndex = Identity => initialDelay = asked[0]
    BY WithoutCompression
  <1>2. /\ dts \in [Slots -> Int] /\ cts \in [Slots -> Int] /\ asked \in [Slots -> Nat]
        /\ Permutation(ctsIndex) /\ SampleCTS[i] = cts[n] /\ initialDelay \in Int
    BY EditedTimes, SlotsFacts
  <1>3. n \in Slots /\ i \in Slots /\ n # LastSlot /\ LastSlot \in Slots
    BY <1>2, SlotsFacts, LastSlotAssumption DEF Frame, Permutation
  <1>4. i \in Frame
    <2>1. ctsIndex[LastSlot] = LastSlot
      BY DEF FileInv, Editing, Arranged
    <2>2. i # LastSlot
      BY <1>2, <1>3, <2>1 DEF Permutation
    <2> HIDE DEF i
    <2> QED
      BY <1>3, <2>2, LastSlotAssumption DEF Slots, Frame
  <1>5. /\ ReadDTS = [j \in Slots |-> IF j = 0 THEN 0 ELSE dts[j]]
        /\ video.hasCtts => ReadCTS[i] = ReadDTS[i] + (SampleCTS[i] - dts[i])
        /\ ~ video.hasCtts => ReadCTS = ReadDTS
    BY <1>1, <1>4, Reading
  <1>6. ReadDTS[i] = dts[i] /\ dts[i] \in Int
    BY <1>1, <1>2, <1>3, <1>5
  <1>7. cts[n] = asked[n] - asked[0] + initialDelay /\ cts[n] \in Int
    BY <1>1, <1>2, <1>3 DEF Asked
  <1>8. CASE video.hasCtts
    BY <1>2, <1>5, <1>6, <1>7, <1>8
  <1>9. CASE ~ video.hasCtts
    <2>1. ctsIndex = Identity
      BY <1>9 DEF FileInv, Editing, Arranged
    <2>2. i = n /\ initialDelay = asked[0]
      BY <1>1, <1>3, <2>1 DEF Identity
    <2>3. asked[n] \in Nat /\ asked[0] \in Nat
      BY <1>2, <1>3, SlotsFacts
    <2>4. ReadCTS[i] = asked[n]
      BY <1>1, <1>5, <1>6, <1>9, <2>2
    <2> QED
      BY <2>2, <2>3, <2>4
  <1> QED
    BY <1>8, <1>9

LEMMA PlainEdit ==
    ASSUME Inv, FileInv, Course, pc = "edited", ~ compressDTS, TablesFit
    PROVE  LET early == IF audioDelay > 0 THEN AudioDelayInTimeScale ELSE 0
           IN  /\ \A n \in Frame :
                    asked[0] = 0 \/ ctsIndex[n] # 0 => Late(n) = -early
               /\ \A a \in AudioTracks :
                    MediaTime(audio[a].elst) =
                        InTicks(IF audioDelay < 0 THEN -audioDelay ELSE 0,
                                audio[a].timeScale)
  <1> DEFINE early == IF audioDelay > 0 THEN AudioDelayInTimeScale ELSE 0
  <1>1. /\ asked \in [Slots -> Nat] /\ initialDelay \in Int
        /\ audioDelay \in Int /\ timeScale \in Nat
    BY EditedTimes, SpacedFacts DEF Inv, Framing, FileInv, Editing
  <1>2. early \in Int
    BY <1>1, TicksSign DEF AudioDelayInTimeScale
  <1>3. MediaTime(video.elst) = initialDelay + early
    <2>1. video.elst = UpdateElst(VideoEdit, video.tkhd) /\ VideoEdit = initialDelay + early
      BY DEF FileInv, Written, VideoEdit
    <2>2. VideoEdit \in Int
      BY <1>1, <1>2, <2>1
    <2> QED
      BY <2>1, <2>2, Cut
  <1> HIDE DEF early
  <1>4. ASSUME NEW n \in Frame, asked[0] = 0 \/ ctsIndex[n] # 0
        PROVE  Late(n) = -early
    <2>1. ReadCTS[ctsIndex[n]] = asked[n] - asked[0] + initialDelay
      BY <1>4, PlainRead
    <2>2. n \in Slots /\ 0 \in Slots
      BY SlotsFacts
    <2>3. asked[n] \in Nat /\ asked[0] \in Nat
      BY <1>1, <2>2
    <2> QED
      BY <1>1, <1>2, <1>3, <2>1, <2>3 DEF Late, Played
  <1>5. ASSUME NEW a \in AudioTracks
        PROVE  MediaTime(audio[a].elst) =
                  InTicks(IF audioDelay < 0 THEN -audioDelay ELSE 0, audio[a].timeScale)
    <2> DEFINE s == audio[a].timeScale
    <2>1. audio[a].elst = UpdateElst(AudioEdit(a), audio[a].tkhd) /\ s \in Nat
      BY DEF FileInv, Written, Boxes, AudioFields
    <2>2. AudioEdit(a) = IF audioDelay < 0 THEN InTicks(-audioDelay, s) ELSE 0
      BY DEF AudioEdit
    <2> HIDE DEF s
    <2>3. CASE audioDelay < 0
      <3>1. -audioDelay \in Int /\ -audioDelay > 0
        BY <1>1, <2>3
      <3>2. InTicks(-audioDelay, s) \in Int
        BY <2>1, <3>1, TicksSign
      <3> QED
        BY <2>1, <2>2, <2>3, <3>2, Cut DEF s
    <2>4. CASE ~ (audioDelay < 0)
      <3>1. InTicks(0, s) = 0
        BY <2>1, NoTicks
      <3>2. 0 \in Int
        OBVIOUS
      <3>3. MediaTime(audio[a].elst) = 0
        BY <2>1, <2>2, <2>4, <3>2, Cut
      <3> QED
        BY <2>4, <3>1, <3>3 DEF s
    <2> QED
      BY <2>3, <2>4
  <1> QED
    BY <1>4, <1>5 DEF early

LEMMA ReadAgain ==
    ASSUME Inv, FileInv, Course, pc = "edited", TablesFit, Spaced(2), asked[0] = 0
    PROVE  /\ DecodedInOrder /\ ReadDTS = dts
           /\ video.hasCtts => \A i \in Frame : ReadCTS[i] = SampleCTS[i]
           /\ ~ video.hasCtts => ReadCTS = dts
  <1>1. Spaced(1) /\ Apart(asked)
    BY TwoTicksApart
  <1>2. Compressed(dts, asked) /\ dts[0] = 0
    BY <1>1, StageWhenAdjusted DEF Adjusted, Course, Editing
  <1>3. DecodedInOrder
    BY <1>1, <1>2 DEF Compressed, DecodedInOrder
  <1>4. /\ ReadDTS = [i \in Slots |-> IF i = 0 THEN 0 ELSE dts[i]]
        /\ \A i \in Frame : video.hasCtts =>
              ReadCTS[i] = ReadDTS[i] + (SampleCTS[i] - dts[i])
        /\ ~ video.hasCtts => ReadCTS = ReadDTS
    BY <1>3, Reading
  <1>5. dts \in [Slots -> Int] /\ SampleCTS \in [Slots -> Int]
    BY EditedTimes
  <1>6. ReadDTS = dts
    <2>1. \A i \in Slots : (IF i = 0 THEN 0 ELSE dts[i]) = dts[i]
      BY <1>2
    <2>2. dts = [i \in Slots |-> dts[i]]
      BY <1>5
    <2> QED
      BY <1>4, <2>1, <2>2
  <1>7. ASSUME video.hasCtts, NEW i \in Frame PROVE ReadCTS[i] = SampleCTS[i]
    <2>1. ReadCTS[i] = dts[i] + (SampleCTS[i] - dts[i])
      BY <1>4, <1>6, <1>7
    <2>2. i \in Slots
      BY SlotsFacts
    <2>3. dts[i] \in Int /\ SampleCTS[i] \in Int
      BY <1>5, <2>2
    <2> QED
      BY <2>1, <2>3
  <1> QED
    BY <1>3, <1>4, <1>6, <1>7

LEMMA BackEdit ==
    ASSUME Inv, FileInv, Course, TablesFit
    PROVE  ReadBack
  <1> SUFFICES ASSUME pc = "edited", Spaced(2), asked[0] = 0,
                      video.hasCtts \/ ~ compressDTS \/ audioDelay <= 0
               PROVE  ReadDTS = dts /\ \A i \in Frame : ReadCTS[i] = SampleCTS[i]
    BY DEF ReadBack
  <1>1. /\ ReadDTS = dts
        /\ video.hasCtts => \A i \in Frame : ReadCTS[i] = SampleCTS[i]
        /\ ~ video.hasCtts => ReadCTS = dts
    BY ReadAgain
  <1>2. ASSUME ~ video.hasCtts, NEW i \in Frame PROVE ReadCTS[i] = SampleCTS[i]
    <2>1. i \in Slots /\ 0 \in Slots
      BY SlotsFacts
    <2>2. ctsIndex = Identity
      BY <1>2 DEF FileInv, Editing, Arranged
    <2>3. SampleCTS[i] = cts[i]
      <3>1. ctsIndex[i] = i
        BY <2>1, <2>2 DEF Identity
      <3>2. SampleCTS[ctsIndex[i]] = cts[i]
        BY <2>1, EditedTimes
      <3> QED
        BY <3>1, <3>2
    <2>4. cts[i] = dts[i]
      <3>1. CASE compressDTS
        <4>1. audioDelay <= 0
          BY <1>2, <3>1
        <4> QED
          BY <2>2, <3>1, <4>1 DEF Course, Alike, Editing
      <3>2. CASE ~ compressDTS
        <4>1. dts = asked /\ cts = Asked(initialDelay) /\ initialDelay = asked[0]
          BY <2>2, <3>2, WithoutCompression
        <4>2. asked[i] \in Nat /\ cts[i] = asked[i] - 0 + 0
          BY <2>1, <4>1, EditedTimes DEF Asked
        <4> QED
          BY <4>1, <4>2
      <3> QED
        BY <3>1, <3>2
    <2> QED
      BY <1>1, <1>2, <2>3, <2>4
  <1> QED
    BY <1>1, <1>2

-----------------------------------------------------------------------------
(* The invariant, and what follows *)

\* what is known of the file and of the times, in every run
Known == Inv /\ FileInv /\ Course

LEMMA KnownFirst == Init => Known
  <1>1. Init => pc = "closed"
    BY DEF Init
  <1> QED
    BY <1>1, Initially, InitFile DEF Known, Course, Editing

LEMMA KnownNext ==
    ASSUME Known, Usable, Distinct, [Next]_vars, Inv'
    PROVE  Known'
  <1>1. CASE Open
    <2>1. FileInv' /\ pc' = "loaded"
      BY <1>1, OpenFile DEF Known, Open
    <2> QED
      BY <2>1 DEF Known, Course, Editing
  <1>2. CASE \/ \E fps \in FrameRateLists : SetFPS(fps)
             \/ \E list \in TimeCodeLists : SetTimeCodes(list)
             \/ KeepTimeCodes
    <2>1. /\ pc = "loaded" /\ UNCHANGED <<boxes, ctsIndex>>
          /\ pc' = "failed" \/ (pc' = "timed" /\ dts' = asked' /\ cts' = asked')
      <3>1. ASSUME NEW fps \in FrameRateLists, SetFPS(fps)
            PROVE  /\ pc = "loaded" /\ UNCHANGED <<boxes, ctsIndex>>
                   /\ pc' = "failed" \/ (pc' = "timed" /\ dts' = asked' /\ cts' = asked')
        BY <3>1 DEF SetFPS, GiveTimes
      <3>2. ASSUME NEW list \in TimeCodeLists, SetTimeCodes(list)
            PROVE  /\ pc = "loaded" /\ UNCHANGED <<boxes, ctsIndex>>
                   /\ pc' = "failed" \/ (pc' = "timed" /\ dts' = asked' /\ cts' = asked')
        BY <3>2 DEF SetTimeCodes, GiveTimes
      <3>3. ASSUME KeepTimeCodes
            PROVE  /\ pc = "loaded" /\ UNCHANGED <<boxes, ctsIndex>>
                   /\ pc' = "failed" \/ (pc' = "timed" /\ dts' = asked' /\ cts' = asked')
        BY <3>3 DEF KeepTimeCodes, GiveTimes
      <3> QED
        BY <1>2, <3>1, <3>2, <3>3
    <2> QED
      BY <2>1, GivenFile, CourseBegins DEF Known
  <1>3. CASE Adjust
    <2>1. /\ Unadjusted /\ pc \in Editing \ {"edited"} /\ pc' \in Editing \ {"edited"}
      BY <1>3 DEF Adjust, BeginAdjust, DelayCTS, DelayDTS, Rebase, CompressCTS, Measure,
                  CompressDTS, Remeasure, Editing
    <2>2. FileInv'
      BY <2>1, AdjustFile DEF Known
    <2>3. Spaced(1)
      BY <2>1 DEF Known, FileInv, Usable
    <2>4. Course'
      BY <1>3, <2>3, BeginCourse, DelayCTSCourse, DelayDTSCourse, RebaseCourse,
         CompressCTSCourse, MeasureCourse, CompressDTSCourse, RemeasureCourse
         DEF Adjust, Known
    <2> QED
      BY <2>2, <2>4 DEF Known
  <1>4. CASE DoEditTimeCodes
    <2>1. FileInv'
      BY <1>4, EditFile DEF Known
    <2>2. /\ UNCHANGED <<dts, cts, ctsIndex, asked, timeScale, initialDelay,
                         compressDTS, audioDelay, loop>>
          /\ pc = "adjusted" /\ pc' = "edited"
      BY <1>4 DEF DoEditTimeCodes, times, options, history
    <2>3. Course'
      BY <2>2, CourseStays DEF Known
    <2> QED
      BY <2>1, <2>3 DEF Known
  <1>5. CASE SaveCopy \/ SaveInPlace
    <2>1. FileInv' /\ pc' = "closed"
      BY <1>5, SavedFile DEF Known, SaveCopy, SaveInPlace, Saved
    <2> QED
      BY <2>1 DEF Known, Course, Editing
  <1>6. CASE UNCHANGED vars
    <2>1. FileInv'
      BY <1>6, StutterFile DEF Known
    <2>2. /\ UNCHANGED <<dts, cts, ctsIndex, asked, timeScale, initialDelay,
                         compressDTS, audioDelay, loop>>
          /\ pc' = pc
      BY <1>6 DEF vars, boxes, times, options, history
    <2>3. Course'
      BY <2>2, CourseStays DEF Known
    <2> QED
      BY <2>1, <2>3 DEF Known
  <1> QED
    BY <1>1, <1>2, <1>3, <1>4, <1>5, <1>6 DEF Next

LEMMA KnownAlways == Spec /\ [](Usable /\ Distinct) => []Known
  <1>1. Init => Known
    BY KnownFirst
  <1>2. Known /\ Inv' /\ (Usable /\ Distinct) /\ [Next]_vars => Known'
    BY KnownNext
  <1> QED
    BY <1>1, <1>2, Invariance, PTL DEF Spec

(***************************************************************************)
(* What DoEditTimeCodes writes is what LoadTimeCodes reads.  If the time   *)
(* codes given to the editor are increasing, no two frames of the file     *)
(* share their time and every delta and offset fits its field, then for    *)
(* every file, order of frames, delay and run: decoding and composition    *)
(* times are read back as AdjustTimeCodes left them, unless a positive     *)
(* delay was compressed into a track without ctts box.                     *)
(***************************************************************************)
THEOREM WrittenIsRead ==
    Spec /\ [](Usable /\ Distinct) => [](TablesFit => ReadBack)
  <1>1. Known => (TablesFit => ReadBack)
    BY BackEdit DEF Known
  <1> QED
    BY <1>1, KnownAlways, PTL

(***************************************************************************)
(* Without -c, on the same conditions: a player that applies the edit      *)
(* lists shows every frame at the time asked for, less a positive audio    *)
(* delay, and a negative one is cut from every audio track.  Nothing else  *)
(* is late or early, whatever delay the order of the frames has cost.      *)
(***************************************************************************)
THEOREM PlainTimingKept ==
    Spec /\ [](Usable /\ Distinct) => [](TablesFit => PlainTiming)
  <1>1. Known => (TablesFit => PlainTiming)
    <2> SUFFICES ASSUME Known, TablesFit PROVE PlainTiming
      OBVIOUS
    <2> QED
      BY PlainEdit DEF PlainTiming, Known
  <1> QED
    BY <1>1, KnownAlways, PTL

-----------------------------------------------------------------------------
(* The order in which the frames are displayed, from run to run *)

\* no two frames of the track are displayed at the same time
DistinctTimes(v) == \A i, j \in Slots : Loaded(v)[i] = Loaded(v)[j] => i = j

\* what is written in each run can be read back
Readable == pc = "edited" => Spaced(2) /\ asked[0] = 0 /\ TablesFit

LEMMA EditedOrder ==
    ASSUME Inv, FileInv, Course, pc = "edited", Readable
    PROVE  Orders(ctsIndex, Loaded(video))
  <1>1. /\ DecodedInOrder /\ ReadDTS = dts /\ dts[0] = 0
        /\ video.hasCtts => \A i \in Frame : ReadCTS[i] = SampleCTS[i]
        /\ ~ video.hasCtts => ReadCTS = dts
    BY ReadAgain DEF Readable, Course, Editing
  <1>2. Loaded(video) = ReadCTS
    BY DEF Loaded, ReadCTS, ReadDTS
  <1>3. /\ dts \in [Slots -> Int] /\ cts \in [Slots -> Int] /\ Permutation(ctsIndex)
        /\ \A n \in Slots : SampleCTS[ctsIndex[n]] = cts[n]
    BY EditedTimes
  <1>4. \A i \in Frame : dts[i] < dts[i + 1]
    <2>1. ASSUME NEW i \in Frame PROVE dts[i] < dts[i + 1]
      <3>1. CASE i = 0
        <4>1. 0 < dts[1] /\ dts[1] \in Int
          BY <1>1, <1>3, SlotsFacts DEF DecodedInOrder
        <4> QED
          BY <1>1, <3>1, <4>1
      <3>2. CASE i # 0
        BY <1>1, <3>2 DEF DecodedInOrder
      <3> QED
        BY <3>1, <3>2
    <2> QED
      BY <2>1
  <1>5. Arranged /\ TablesOf(video)
    BY DEF FileInv, Boxes, Editing
  <1>6. CASE ~ video.hasCtts
    <2>1. ctsIndex = Identity
      BY <1>5, <1>6 DEF Arranged
    <2> QED
      BY <1>1, <1>2, <1>3, <1>4, <1>6, <2>1, IdentityOrders
  <1>7. CASE video.hasCtts
    <2>1. \A n \in Frame : cts[n] < cts[n + 1]
      <3>1. Spaced(1) /\ Apart(asked)
        BY TwoTicksApart DEF Readable
      <3> QED
        BY <3>1, StageWhenAdjusted DEF Adjusted
    <2>2. \A i \in Frame : ReadCTS[i] < ReadCTS[LastSlot]
      <3>1. LastSlot - 1 \in Frame /\ LastSlot - 1 + 1 = LastSlot
        BY LastSlotAssumption DEF Frame
      <3>2. dts[LastSlot - 1] < dts[LastSlot]
        BY <1>4, <3>1
      <3>3. dts[LastSlot - 1] \in Int /\ dts[LastSlot] \in Int
        BY <1>3, <3>1, SlotsFacts
      <3>4. dts[LastSlot - 1] <= dts[LastSlot]
        BY <3>2, <3>3
      <3>5. video.hasCtts = TRUE /\ video.ctts \in Table(Words)
            /\ Len(Expand(video.ctts)) = LastSlot
        BY <1>5, <1>7 DEF TablesOf
      <3>6. ReadCTS = LoadCTS(dts, TRUE, video.ctts)
        BY <1>1, <3>5 DEF ReadCTS
      <3> QED
        BY <1>3, <3>2, <3>4, <3>5, <3>6, LoadedComposition
    <2>3. ASSUME NEW n \in Frame
          PROVE  ctsIndex[n] \in Frame /\ ReadCTS[ctsIndex[n]] = cts[n]
      <3>1. n \in Slots /\ LastSlot \in Slots /\ n # LastSlot
        BY SlotsFacts, LastSlotAssumption DEF Frame
      <3>2. ctsIndex[n] \in Slots /\ ctsIndex[n] # LastSlot
        BY <1>5, <3>1 DEF Arranged, Permutation
      <3>3. ctsIndex[n] \in Frame
        BY <3>2, LastSlotAssumption DEF Slots, Frame
      <3> QED
        BY <1>1, <1>3, <1>7, <3>1, <3>3
    <2>4. ASSUME NEW n \in Frame
          PROVE  ReadCTS[ctsIndex[n]] < ReadCTS[ctsIndex[n + 1]]
      <3>1. CASE n + 1 \in Frame
        BY <2>1, <2>3, <3>1
      <3>2. CASE n + 1 \notin Frame
        <4>1. n + 1 = LastSlot
          BY <3>2, LastSlotAssumption DEF Frame
        <4>2. ctsIndex[n + 1] = LastSlot
          BY <1>5, <4>1 DEF Arranged
        <4> QED
          BY <2>2, <2>3, <4>2
      <3> QED
        BY <3>1, <3>2
    <2> QED
      BY <1>2, <1>3, <2>4 DEF Orders
  <1> QED
    BY <1>6, <1>7

LEMMA OrderedIsDistinct ==
    ASSUME NEW v, TablesOf(v), NEW p, Orders(p, Loaded(v))
    PROVE  DistinctTimes(v)
  <1> DEFINE t == Loaded(v)
  <1>1. t \in [Slots -> Int] /\ Permutation(p)
    BY LoadedTimes DEF Orders
  <1> HIDE DEF t
  <1>2. ASSUME NEW i \in Slots, NEW j \in Slots, t[i] = t[j]
        PROVE  i = j
    <2>1. PICK m \in Slots : p[m] = i
      BY <1>1, Onto
    <2>2. PICK n \in Slots : p[n] = j
      BY <1>1, Onto
    <2>3. t[i] \in Int /\ m \in Nat /\ n \in Nat
      BY <1>1, SlotsFacts
    <2>4. ~ (m < n)
      <3>1. m < n => t[p[m]] < t[p[n]]
        BY <1>1, Composed DEF t
      <3> QED
        BY <1>2, <2>1, <2>2, <2>3, <3>1
    <2>5. ~ (n < m)
      <3>1. n < m => t[p[n]] < t[p[m]]
        BY <1>1, Composed DEF t
      <3> QED
        BY <1>2, <2>1, <2>2, <2>3, <3>1
    <2> QED
      BY <2>1, <2>2, <2>3, <2>4, <2>5
  <1> QED
    BY <1>2 DEF DistinctTimes, t

\* what is written in each run fits the tables
Fitting == pc = "edited" => TablesFit

AskedApart == Spaced(2) /\ asked[0] = 0

LEMMA EditedOrderLater ==
    Known' /\ Fitting' =>
        (pc = "edited" /\ AskedApart => Orders(ctsIndex, Loaded(video)))'
  <1>1. Known /\ Fitting =>
            (pc = "edited" /\ AskedApart => Orders(ctsIndex, Loaded(video)))
    <2>1. ASSUME Known, Fitting, pc = "edited", AskedApart
          PROVE  Orders(ctsIndex, Loaded(video))
      <3>1. Readable
        BY <2>1 DEF Readable, Fitting, AskedApart
      <3> QED
        BY <2>1, <3>1, EditedOrder DEF Known
    <2> QED
      BY <2>1
  <1> QED
    BY <1>1, PTL

\* the order of the editor is that of the file
Found ==
    /\ runs \in Nat
    /\ pc = "edited" /\ AskedApart => Orders(ctsIndex, Loaded(video))
    /\ pc = "closed" /\ runs > 0 /\ AskedApart => Orders(ctsIndex, Loaded(video))

\* Modify and Close change no table of a track that was not edited
LEMMA SavedAsLoaded ==
    ASSUME Known, SaveCopy \/ SaveInPlace
    PROVE  /\ Loaded(video)' = Loaded(video)
           /\ pc' = "closed" /\ runs' = runs + 1 /\ pc \in {"edited", "loaded"}
           /\ UNCHANGED <<ctsIndex, timeScale, asked>>
  <1>1. Loaded(video)' = Loaded(video)
    <2>1. CASE SaveCopy
      BY <2>1 DEF SaveCopy, boxes, Loaded
    <2>2. CASE SaveInPlace
      <3> DEFINE x == IF video.elst = <<>> THEN ToMovieDuration(video)
                      ELSE EditTotalDuration(video.elst)
      <3>1. video' = [video EXCEPT !.tkhd = x]
        BY <2>2 DEF SaveInPlace, FinishWrite
      <3> HIDE DEF x
      <3>2. VideoFields(video)
        BY DEF Known, FileInv, Boxes
      <3>3. /\ video'.stts = video.stts /\ video'.hasCtts = video.hasCtts
            /\ video'.ctts = video.ctts
        BY <3>1, <3>2 DEF VideoFields
      <3> QED
        BY <3>3 DEF Loaded
    <2> QED
      BY <2>1, <2>2
  <1> QED
    BY <1>1 DEF SaveCopy, SaveInPlace, Saved, Unmodified

\* of the steps of the program, only saving closes the file
LEMMA OtherSteps ==
    ASSUME [Next]_vars, ~ SaveCopy, ~ SaveInPlace
    PROVE  \/ Open
           \/ pc = "loaded" /\ pc' \in {"timed", "failed"} /\ runs' = runs
           \/ pc \in Editing /\ pc' \in Editing /\ runs' = runs
           \/ UNCHANGED vars
  <1>1. CASE Adjust
    BY <1>1 DEF Adjust, BeginAdjust, DelayCTS, DelayDTS, Rebase, CompressCTS, Measure,
                CompressDTS, Remeasure, Editing, Unadjusted, history
  <1>2. CASE DoEditTimeCodes
    BY <1>2 DEF DoEditTimeCodes, history, Editing
  <1>3. ASSUME \/ \E fps \in FrameRateLists : SetFPS(fps)
               \/ \E list \in TimeCodeLists : SetTimeCodes(list)
               \/ KeepTimeCodes
        PROVE  pc = "loaded" /\ pc' \in {"timed", "failed"} /\ runs' = runs
    BY <1>3 DEF SetFPS, SetTimeCodes, KeepTimeCodes, GiveTimes
  <1> QED
    BY <1>1, <1>2, <1>3 DEF Next

LEMMA FoundNext ==
    ASSUME Known, Known', Found, Fitting', [Next]_vars
    PROVE  Found'
  <1>1. CASE SaveCopy \/ SaveInPlace
    <2>1. /\ Loaded(video)' = Loaded(video)
          /\ pc' = "closed" /\ runs' = runs + 1 /\ pc \in {"edited", "loaded"}
          /\ UNCHANGED <<ctsIndex, timeScale, asked>>
      BY <1>1, SavedAsLoaded
    <2>2. AskedApart' = AskedApart
      BY <2>1 DEF AskedApart, Spaced
    <2>3. AskedApart => Orders(ctsIndex, Loaded(video))
      BY <2>1 DEF Found, Known, FileInv
    <2>4. AskedApart' => Orders(ctsIndex, Loaded(video))'
      BY <2>1, <2>2, <2>3 DEF Orders, Permutation
    <2>5. runs' \in Nat
      BY <2>1 DEF Found
    <2> QED
      BY <2>1, <2>4, <2>5 DEF Found
  <1>2. CASE ~ SaveCopy /\ ~ SaveInPlace
    <2>1. (pc = "edited" /\ AskedApart => Orders(ctsIndex, Loaded(video)))'
      <3>1. Known' /\ Fitting'
        OBVIOUS
      <3> QED
        BY <3>1, EditedOrderLater
    <2>2. CASE UNCHANGED vars
      <3>1. UNCHANGED <<video, ctsIndex, runs, pc, asked, timeScale>>
        BY <2>2 DEF vars, boxes, history
      <3>2. Loaded(video)' = Loaded(video)
        BY <3>1 DEF Loaded
      <3> QED
        BY <3>1, <3>2 DEF Found, Orders, Permutation, AskedApart, Spaced
    <2>3. CASE Open
      <3>1. pc' = "loaded" /\ runs' = runs
        BY <2>3 DEF Open
      <3> QED
        BY <3>1 DEF Found
    <2>4. CASE pc' \in {"timed", "failed"} \cup Editing /\ runs' = runs
      <3>1. pc' # "closed"
        BY <2>4 DEF Editing
      <3> QED
        BY <2>1, <2>4, <3>1 DEF Found
    <2> QED
      BY <1>2, <2>2, <2>3, <2>4, OtherSteps
  <1> QED
    BY <1>1, <1>2

LEMMA FoundAgain ==
    ASSUME Known, Known', Found, [Next]_vars,
           pc = "closed", runs > 0, Spaced(2), asked[0] = 0
    PROVE  ctsIndex' = ctsIndex
  <1>1. Orders(ctsIndex, Loaded(video))
    BY DEF Found, AskedApart
  <1>2. CASE Open
    <2>1. pc' = "loaded" /\ video' = video
      BY <1>2 DEF Open, boxes
    <2>2. (pc = "loaded" => Orders(ctsIndex, Loaded(video)))'
      BY DEF Known, FileInv
    <2>3. Orders(ctsIndex', Loaded(video))
      BY <2>1, <2>2 DEF Orders, Permutation, Loaded
    <2>4. Loaded(video) \in [Slots -> Int]
      BY LoadedTimes DEF Known, FileInv, Boxes
    <2> QED
      BY <1>1, <2>3, <2>4, OneOrder
  <1>3. CASE UNCHANGED vars
    BY <1>3 DEF vars
  <1>4. ~ (SaveCopy \/ SaveInPlace)
    BY SavedAsLoaded
  <1> QED
    BY <1>2, <1>3, <1>4, OtherSteps DEF Editing

(***************************************************************************)
(* However often a file is edited, and for every order of frames: the next *)
(* run finds them in the order in which the last one has left them, if the *)
(* times it gave them are two ticks apart, from zero on, and fit the       *)
(* tables, and no run finds two frames of one time.                        *)
(***************************************************************************)
THEOREM OrderKept == Spec /\ [](Usable /\ Distinct /\ Fitting) => DisplayOrderKept
  <1>1. Init => Found
    BY DEF Init, Found
  <1>2. Known /\ Known' /\ Found /\ Fitting' /\ [Next]_vars => Found'
    BY FoundNext
  <1>3. Known /\ Known' /\ Found /\ [Next]_vars =>
            [pc = "closed" /\ runs > 0 /\ Spaced(2) /\ asked[0] = 0
             => ctsIndex' = ctsIndex]_vars
    BY FoundAgain
  <1> QED
    BY <1>1, <1>2, <1>3, KnownAlways, PTL DEF Spec, DisplayOrderKept

LEMMA DistinctNext ==
    ASSUME Known, Found, Distinct, pc = "edited" => AskedApart, [Next]_vars
    PROVE  Distinct'
  <1>1. CASE SaveCopy \/ SaveInPlace
    <2>1. Loaded(video)' = Loaded(video) /\ pc \in {"edited", "loaded"}
      BY <1>1, SavedAsLoaded
    <2>2. Orders(ctsIndex, Loaded(video)) /\ TablesOf(video)
      BY <2>1 DEF Found, Known, FileInv, Boxes
    <2>3. DistinctTimes(video)
      BY <2>2, OrderedIsDistinct
    <2> QED
      BY <2>1, <2>3 DEF Distinct, DistinctTimes
  <1>2. CASE ~ SaveCopy /\ ~ SaveInPlace
    <2>1. CASE UNCHANGED vars
      <3>1. video' = video /\ pc' = pc
        BY <2>1 DEF vars, boxes
      <3> QED
        BY <3>1 DEF Distinct, Loaded
    <2>2. CASE pc' # "closed"
      BY <2>2 DEF Distinct
    <2> QED
      BY <1>2, <2>1, <2>2, OtherSteps DEF Open, Editing
  <1> QED
    BY <1>1, <1>2

(***************************************************************************)
(* That no two frames share their time is then only needed of the files    *)
(* as they first are: a run that gives times two ticks apart leaves none.  *)
(***************************************************************************)
THEOREM TimesStayDistinct ==
    ASSUME \A f \in Files : DistinctTimes(f.video)
    PROVE  Spec /\ [](Usable /\ Fitting /\ (pc = "edited" => AskedApart)) => []Distinct
  <1>1. Init => Known /\ Found /\ Distinct
    <2>1. Init => Found
      BY DEF Init, Found
    <2>2. Init => Distinct
      BY DEF Init, Distinct, DistinctTimes
    <2> QED
      BY <2>1, <2>2, KnownFirst
  <1>2. /\ Known /\ Found /\ Distinct /\ Inv' /\ Usable /\ Fitting'
        /\ (pc = "edited" => AskedApart) /\ [Next]_vars
        => (Known /\ Found /\ Distinct)'
    <2> SUFFICES ASSUME Known, Found, Distinct, Inv', Usable, Fitting',
                        pc = "edited" => AskedApart, [Next]_vars
                 PROVE  (Known /\ Found /\ Distinct)'
      OBVIOUS
    <2>1. Known'
      BY KnownNext
    <2>2. Found'
      BY <2>1, FoundNext
    <2>3. Distinct'
      BY DistinctNext
    <2> QED
      BY <2>1, <2>2, <2>3
  <1> QED
    BY <1>1, <1>2, Invariance, PTL DEF Spec

-----------------------------------------------------------------------------
(* How far -c moves the picture *)

\* no frame of a is closer to the one before it than the second to the first
NoCloser(a) == \A i \in Frame : a[i + 1] - a[i] >= a[1] - a[0]

\* t is a with every frame moved forward, or back, by d or less, and by all of
\* it from some time on
Earlier(t, a, d) ==
    \A i \in Slots : /\ a[i] - d <= t[i] /\ t[i] <= a[i]
                     /\ a[i] >= 2 * (a[1] + d) => t[i] = a[i] - d
Later(t, a, d) ==
    \A i \in Slots : /\ a[i] <= t[i] /\ t[i] <= a[i] + d
                     /\ a[i] >= 2 * (a[1] + d) => t[i] = a[i] + d

\* a code that the stretched one has not reached lies before a whole number of
\* first gaps
LEMMA StretchedShort ==
    ASSUME NEW x \in Nat, NEW d \in Nat, NEW den \in Nat \ {0},
           HalfUp(x, d + den, den) < x + d
    PROVE  x < den
  <1> DEFINE h == HalfUp(x, d + den, den)
             e == 2 * den
             num == d + den
  <1>1. h \in Int /\ e * h >= 2 * x * num - den
    BY HalfUpBounds
  <1>2. h <= x + d - 1
    BY <1>1
  <1>3. e * h <= e * (x + d - 1)
    <2> HIDE DEF h, e
    <2>1. e \in Nat
      BY DEF e
    <2> QED
      BY <1>1, <1>2, <2>1, Monotone
  <1>4. e * (x + d - 1) = 2 * (den * x) + 2 * (den * d) - 2 * den
    OBVIOUS
  <1>5. 2 * x * num = 2 * (x * d) + 2 * (den * x)
    OBVIOUS
  <1> DEFINE eh == e * h
             dx == den * x
             dd == d * den
             xd == d * x
  <1>6. dx \in Nat /\ dd \in Nat /\ xd \in Nat /\ den * d = dd /\ x * d = xd
    OBVIOUS
  <1>7. eh \in Int
    BY <1>1
  <1> HIDE DEF h, e, num, eh, dx, dd, xd
  <1>8. 2 * xd + den <= 2 * dd
    BY <1>1, <1>3, <1>4, <1>5, <1>6, <1>7 DEF eh, dx
  <1>9. xd < dd
    BY <1>6, <1>8
  <1>10. ~ (d * den <= d * x)
    BY <1>6, <1>9 DEF xd, dd
  <1>11. ~ (den <= x)
    BY <1>10, Monotone
  <1> QED
    BY <1>11

LEMMA DelayedIsLater ==
    ASSUME NEW a \in [Slots -> Nat], Rising(a), a[0] = 0, NEW d \in Nat,
           NEW t, Delayed(t, a, d)
    PROVE  t[0] = 0 /\ Later(t, a, d)
  <1> DEFINE g == a[1]
  <1>1. PICK f : Least(a, d, f) /\ \E n : Breaks(a, d, f, n) /\ t = Partly(a, d, f, n, d)
    BY DEF Delayed
  <1>2. PICK n : Breaks(a, d, f, n) /\ t = Partly(a, d, f, n, d)
    BY <1>1
  <1>3. g \in Nat \ {0} /\ f \in Nat \ {0} /\ f >= 2
    <2>1. 0 \in Frame /\ 0 + 1 = 1
      BY LastSlotAssumption DEF Frame
    <2> QED
      BY <1>1, <2>1, SlotsFacts DEF Rising, Least
  <1> HIDE DEF g
  <1> DEFINE den == f * g
  <1>4. den \in Nat \ {0} /\ den <= d + den
    <2>1. \A p, q \in Nat \ {0} : p * q \in Nat \ {0}
      OBVIOUS
    <2>2. den \in Nat \ {0}
      BY <1>3, <2>1
    <2> HIDE DEF den
    <2> QED
      BY <2>2
  <1>5. den <= 2 * (g + d)
    <2>1. CASE f = 2
      BY <1>3, <2>1
    <2>2. CASE f # 2
      <3> DEFINE k == f - 1
                 y == k * g
      <3>1. k \in 2 .. f - 1 /\ k \in Nat
        BY <1>3, <2>2
      <3>2. Steep(a, d, k)
        BY <1>1, <3>1 DEF Least
      <3>3. den = y + g /\ y \in Nat
        BY <1>3, <3>1
      <3>4. d + y > 4 * y
        BY <3>2 DEF Steep, Ctsf!DelayScaleLimit, g
      <3> HIDE DEF y, den, k
      <3> QED
        BY <1>3, <3>3, <3>4
    <2> QED
      BY <2>1, <2>2
  <1>6. n \in 1 .. LastSlot + 1 /\ n \in Nat
    BY <1>2, LastSlotAssumption DEF Breaks
  <1>7. ASSUME NEW i \in Slots
        PROVE  /\ a[i] <= t[i] /\ t[i] <= a[i] + d
               /\ a[i] >= 2 * (g + d) => t[i] = a[i] + d
    <2>1. i \in Nat /\ a[i] \in Nat
      BY SlotsFacts
    <2>2. CASE i = 0
      BY <1>2, <1>3, <2>2 DEF Partly
    <2>3. CASE i # 0 /\ i < n
      <3>1. t[i] = HalfUp(a[i], d + den, den)
        BY <1>2, <2>3 DEF Partly, Stretched, g
      <3>2. ~ Reaches(a, d, f, i)
        <4>1. i \in 1 .. n - 1
          BY <1>6, <2>1, <2>3
        <4> QED
          BY <1>2, <4>1 DEF Breaks, Before
      <3>3. ~ (HalfUp(a[i], d + den, den) >= a[i] + d)
        BY <3>2 DEF Reaches, Stretched, g
      <3> HIDE DEF den
      <3>4. d + den \in Nat
        BY <1>4
      <3>5. HalfUp(a[i], d + den, den) \in Int /\ HalfUp(a[i], d + den, den) >= a[i]
        BY <1>4, <2>1, <3>4, HalfUpType, StretchedCode
      <3>6. HalfUp(a[i], d + den, den) < a[i] + d
        BY <2>1, <3>3, <3>5
      <3>7. a[i] < den
        BY <1>4, <2>1, <3>6, StretchedShort
      <3> QED
        BY <1>3, <1>4, <1>5, <2>1, <3>1, <3>5, <3>6, <3>7
    <2>4. CASE i # 0 /\ ~ (i < n)
      <3>1. t[i] = a[i] + d
        BY <1>2, <2>4 DEF Partly
      <3> QED
        BY <2>1, <3>1
    <2> QED
      BY <2>2, <2>3, <2>4
  <1>8. t[0] = 0
    BY <1>2, SlotsFacts DEF Partly
  <1> QED
    BY <1>7, <1>8 DEF Later, g

\* the scale with which CompressTimeCodes begins
SqueezeNum(a, d) == IF d <= a[1] THEN a[1] ELSE 1
SqueezeDen(a, d) == IF d <= a[1] THEN d + a[1] ELSE 2

\* the code x would overtake its own, moved by the whole delay
Short(x, d, num, den) == 2 * ((x - d) * den) < 2 * (x * num) + den

\* the course of the loop: no frame so far could take the whole delay
SqueezeRun(t, l, a, d) ==
    \/ l = Ctsf!Idle /\ t = a
    \/ /\ l.code = "compress" /\ l.offset = d /\ l.off = a[1]
       /\ l.num = SqueezeNum(a, d) /\ l.den = SqueezeDen(a, d)
       /\ l.n \in 1 .. LastSlot + 1
       /\ t \in [Slots -> Int]
       /\ \A i \in Slots : IF 0 < i /\ i < l.n
                           THEN /\ t[i] = HalfUp(a[i], l.num, l.den)
                                /\ Short(a[i], d, l.num, l.den)
                           ELSE t[i] = a[i]
       /\ l.prev = IF l.n = 1 THEN 0 ELSE t[l.n - 1]

LEMMA SqueezeScale ==
    ASSUME NEW g \in Nat \ {0}, NEW d \in Nat, NEW num, NEW den,
           num = (IF d <= g THEN g ELSE 1), den = (IF d <= g THEN d + g ELSE 2)
    PROVE  num \in Nat \ {0} /\ den \in Nat \ {0} /\ num <= den /\ den <= 2 * num
  OBVIOUS

\* the break of the loop, told of one code alone
LEMMA StillShort ==
    ASSUME NEW x \in Nat, NEW o \in Nat, NEW d \in Nat, NEW g \in Nat \ {0},
           NEW num \in Nat \ {0}, NEW den \in Nat \ {0}, x - o >= g,
           NEW prev \in Int, 2 * den * prev <= 2 * o * num + den,
           ~ ((x - d - prev) * den >= g * num)
    PROVE  Short(x, d, num, den)
  <1> DEFINE xd == (x - d) * den
             pd == den * prev
             gn == num * g
             on == o * num
             xn == x * num
             yn == num * (x - o)
  <1>1. /\ xd \in Int /\ pd \in Int /\ gn \in Int /\ on \in Int /\ xn \in Int /\ yn \in Int
    OBVIOUS
  <1>2. (x - d - prev) * den = xd - pd /\ g * num = gn
        /\ 2 * den * prev = 2 * pd /\ 2 * o * num = 2 * on /\ yn = xn - on
    OBVIOUS
  <1>3. gn <= yn
    <2>1. num \in Nat /\ g \in Int /\ x - o \in Int /\ g <= x - o
      OBVIOUS
    <2> QED
      BY <2>1, Monotone
  <1> HIDE DEF xd, pd, gn, on, xn, yn
  <1>4. xd - pd < gn /\ 2 * pd <= 2 * on + den
    BY <1>1, <1>2
  <1>5. 2 * xd < 2 * xn + den
    BY <1>1, <1>2, <1>3, <1>4
  <1> QED
    BY <1>5 DEF Short, xd, xn

LEMMA SqueezedWithin ==
    ASSUME NEW x \in Nat, NEW d \in Nat, NEW num \in Nat \ {0}, NEW den \in Nat \ {0},
           num <= den, Short(x, d, num, den)
    PROVE  x - d <= HalfUp(x, num, den) /\ HalfUp(x, num, den) <= x
  <1> DEFINE h == HalfUp(x, num, den)
  <1>1. h \in Int /\ 2 * den * h >= 2 * x * num - den
    BY HalfUpBounds
  <1>2. h \in 0 .. x
    BY NarrowedCode
  <1> DEFINE dh == den * h
             dx == den * (x - d - 1)
             xn == x * num
  <1>3. 2 * den * h = 2 * dh /\ 2 * x * num = 2 * xn /\ dh \in Int
    BY <1>1
  <1>4. (x - d) * den = dx + den /\ dx \in Int /\ xn \in Int
    OBVIOUS
  <1>5. 2 * (dx + den) < 2 * xn + den
    BY <1>4 DEF Short
  <1> HIDE DEF dh, dx, xn
  <1>6. dh > dx
    BY <1>1, <1>3, <1>4, <1>5
  <1> HIDE DEF h
  <1>7. den * h > den * (x - d - 1)
    BY <1>6 DEF dh, dx
  <1>8. h >= x - d - 1 + 1
    <2>1. x - d - 1 \in Int
      OBVIOUS
    <2> QED
      BY <1>1, <1>7, <2>1, Cancel
  <1> QED
    BY <1>1, <1>2, <1>8 DEF h

LEMMA ShortEarly ==
    ASSUME NEW x \in Nat, NEW d \in Nat, NEW g \in Nat \ {0}, NEW num, NEW den,
           num = (IF d <= g THEN g ELSE 1), den = (IF d <= g THEN d + g ELSE 2),
           Short(x, d, num, den), d > 0
    PROVE  x < 2 * (g + d)
  <1>1. CASE ~ (d <= g)
    <2>1. 2 * ((x - d) * 2) < 2 * (x * 1) + 2
      BY <1>1 DEF Short
    <2> QED
      BY <1>1, <2>1
  <1>2. CASE d <= g
    <2> DEFINE e == d + g
               xd == d * x
               de == d * (2 * e)
               ed == d * e
    <2>1. 2 * ((x - d) * e) < 2 * (x * g) + e
      BY <1>2 DEF Short
    <2>2. (x - d) * e = xd + x * g - ed
      OBVIOUS
    <2>3. de = 2 * ed /\ xd \in Int /\ ed \in Int /\ x * g \in Int /\ e \in Nat
      OBVIOUS
    <2>4. e <= ed
      <3>1. \A p \in Nat \ {0}, q \in Nat : q <= p * q
        OBVIOUS
      <3> HIDE DEF e
      <3> QED
        BY <2>3, <3>1
    <2> DEFINE xg == x * g
    <2> HIDE DEF xd, ed, de, e
    <2>5. 2 * xd < 2 * ed + e
      <3>1. xg \in Int /\ 2 * (xd + xg - ed) < 2 * xg + e
        BY <2>1, <2>2, <2>3
      <3> HIDE DEF xg
      <3> QED
        BY <2>3, <3>1
    <2>6. ~ (de <= xd)
      BY <2>3, <2>4, <2>5
    <2>7. ~ (2 * e <= x)
      <3>1. 2 * e \in Int
        BY <2>3
      <3> QED
        BY <2>6, <3>1, Monotone DEF de, xd
    <2> QED
      BY <2>3, <2>7 DEF e
  <1> QED
    BY <1>1, <1>2

LEMMA SqueezeEnters ==
    ASSUME NEW a \in [Slots -> Nat], NEW d \in Nat
    PROVE  SqueezeRun(a, [code |-> "compress", n |-> 1, prev |-> 0, offset |-> d,
                          off |-> a[1], factor |-> 0,
                          num |-> IF d <= a[1] THEN a[1] ELSE 1,
                          den |-> IF d <= a[1] THEN d + a[1] ELSE 2], a, d)
  <1>1. 1 \in 1 .. LastSlot + 1 /\ a \in [Slots -> Int]
    BY LastSlotAssumption
  <1>2. \A i \in Slots : ~ (0 < i /\ i < 1)
    BY SlotsFacts
  <1> QED
    BY <1>1, <1>2 DEF SqueezeRun, SqueezeNum, SqueezeDen

LEMMA SqueezeMoves ==
    ASSUME NEW a \in [Slots -> Nat], Apart(a), NoCloser(a), a[0] = 0, NEW d \in Nat,
           NEW t, NEW l \in LoopRecord, SqueezeRun(t, l, a, d), l.code = "compress",
           l.n <= LastSlot,
           ~ ((t[l.n] - l.offset - l.prev) * l.den >= l.off * l.num)
    PROVE  SqueezeRun([t EXCEPT ![l.n] = SqueezedCode(t, l)],
                      Advanced(l, SqueezedCode(t, l)), a, d)
  <1> DEFINE n == l.n
             c == SqueezedCode(t, l)
             s == [t EXCEPT ![n] = c]
             m == Advanced(l, c)
             h == HalfUp(a[n], l.num, l.den)
             o == a[n - 1]
             prev == l.prev
  <1>1. /\ l.offset = d /\ l.off = a[1]
        /\ l.num = SqueezeNum(a, d) /\ l.den = SqueezeDen(a, d)
        /\ n \in 1 .. LastSlot + 1 /\ t \in [Slots -> Int]
        /\ \A i \in Slots : IF 0 < i /\ i < n
                            THEN /\ t[i] = HalfUp(a[i], l.num, l.den)
                                 /\ Short(a[i], d, l.num, l.den)
                            ELSE t[i] = a[i]
        /\ prev = IF n = 1 THEN 0 ELSE t[n - 1]
    BY IdleIsNoLoop DEF SqueezeRun
  <1>2. /\ n \in Nat /\ n \in Slots /\ n - 1 \in Slots /\ n - 1 \in Frame /\ n # 0
        /\ (n - 1) + 1 = n /\ 0 \in Frame /\ 1 \in Slots
    <2>1. n \in 1 .. LastSlot + 1 /\ n <= LastSlot
      BY <1>1
    <2> HIDE DEF n
    <2> QED
      BY <2>1, LastSlotAssumption DEF Slots, Frame
  <1>3. a[1] \in Nat \ {0} /\ a[1] >= 2
    <2>1. a[0 + 1] - a[0] >= 2
      BY <1>2 DEF Apart
    <2> QED
      BY <1>2, <2>1
  <1>4. /\ l.num \in Nat \ {0} /\ l.den \in Nat \ {0} /\ l.num <= l.den
        /\ l.den <= 2 * l.num
    BY <1>1, <1>3, SqueezeScale DEF SqueezeNum, SqueezeDen
  <1>5. a[n] \in Nat /\ o \in Nat /\ a[n] - o >= a[1] /\ a[n] - o >= 2
    <2>1. a[(n - 1) + 1] - a[n - 1] >= a[1] - a[0] /\ a[(n - 1) + 1] - a[n - 1] >= 2
      BY <1>2 DEF NoCloser, Apart
    <2> QED
      BY <1>2, <1>3, <2>1
  <1>6. /\ prev \in Int /\ 2 * l.den * prev <= 2 * o * l.num + l.den /\ h > prev
    <2>1. h \in Int /\ h >= HalfUp(o, l.num, l.den) + 1 /\ HalfUp(o, l.num, l.den) \in Int
      <3>1. l.num \in Nat /\ l.den \in Nat \ {0} /\ a[n] \in Int /\ o \in Int
        BY <1>4, <1>5
      <3> HIDE DEF o, n
      <3> QED
        BY <1>4, <1>5, <3>1, HalvedGap, HalfUpType
    <2>2. CASE n = 1
      <3>1. o = 0 /\ prev = 0
        BY <1>1, <2>2
      <3>2. HalfUp(0, l.num, l.den) >= 0
        BY <1>4, StretchedZero
      <3>3. 2 * l.den * 0 = 0 /\ 2 * 0 * l.num = 0
        BY <1>4
      <3> HIDE DEF h, o, prev
      <3> QED
        BY <1>4, <2>1, <3>1, <3>2, <3>3
    <2>3. CASE n # 1
      <3>1. prev = HalfUp(o, l.num, l.den)
        <4>1. 0 < n - 1 /\ n - 1 < n
          BY <1>2, <2>3
        <4> QED
          BY <1>1, <1>2, <2>3, <4>1
      <3>2. 2 * l.den * HalfUp(o, l.num, l.den) <= 2 * o * l.num + l.den
        <4>1. l.num \in Int /\ l.den \in Nat \ {0} /\ o \in Int
          BY <1>4, <1>5
        <4> HIDE DEF o
        <4> QED
          BY <1>4, <1>5, <4>1, HalfUpBounds
      <3> HIDE DEF h, prev
      <3> QED
        BY <2>1, <3>1, <3>2
    <2> QED
      BY <2>2, <2>3
  <1>7. t[n] = a[n]
    <2>1. ~ (n < n)
      BY <1>2
    <2> QED
      BY <1>1, <1>2, <2>1
  <1>8. c = h /\ h \in Int
    <2>1. h \in Int /\ h # prev
      <3>1. l.num \in Nat /\ l.den \in Nat \ {0} /\ a[n] \in Int
        BY <1>4, <1>5
      <3>2. h \in Int
        BY <3>1, HalfUpType
      <3> HIDE DEF h, prev
      <3> QED
        BY <1>6, <3>2
    <2> QED
      BY <1>7, <2>1 DEF SqueezedCode
  <1>9. Short(a[n], d, l.num, l.den)
    <2>1. ~ ((a[n] - d - prev) * l.den >= a[1] * l.num)
      BY <1>1, <1>7
    <2> HIDE DEF n, prev, o
    <2> QED
      BY <1>3, <1>4, <1>5, <1>6, <2>1, StillShort
  <1>10. /\ m.code = "compress" /\ m.offset = d /\ m.off = a[1]
         /\ m.num = l.num /\ m.den = l.den /\ m.n = n + 1 /\ m.prev = h
    BY <1>1, <1>8, FrameLocals
  <1> HIDE DEF m, c, h
  <1>11. ASSUME NEW i \in Slots
         PROVE  IF 0 < i /\ i < n + 1
                THEN /\ s[i] = HalfUp(a[i], l.num, l.den)
                     /\ Short(a[i], d, l.num, l.den)
                ELSE s[i] = a[i]
    <2>1. i \in Nat
      BY SlotsFacts
    <2>2. CASE i = n
      <3>1. s[i] = h /\ i < n + 1
        BY <1>1, <1>2, <1>8, <2>2
      <3>2. s[i] = HalfUp(a[i], l.num, l.den) /\ Short(a[i], d, l.num, l.den)
        BY <1>9, <2>2, <3>1 DEF h
      <3> HIDE DEF s
      <3> QED
        BY <1>2, <2>2, <3>1, <3>2
    <2>3. CASE i # n
      <3>1. s[i] = t[i]
        BY <1>1, <2>3
      <3>2. i < n + 1 <=> i < n
        BY <1>2, <2>1, <2>3
      <3> HIDE DEF s, n
      <3> QED
        BY <1>1, <3>1, <3>2
    <2> QED
      BY <2>2, <2>3
  <1>12. n + 1 \in 1 .. LastSlot + 1 /\ n + 1 # 1 /\ (n + 1) - 1 = n
    <2>1. n \in 1 .. LastSlot + 1 /\ n <= LastSlot
      BY <1>1
    <2> HIDE DEF n
    <2> QED
      BY <2>1, LastSlotAssumption
  <1>13. s[n] = h /\ s \in [Slots -> Int]
    BY <1>1, <1>2, <1>8
  <1> HIDE DEF s, n
  <1>14. SqueezeRun(s, m, a, d)
    BY <1>1, <1>10, <1>11, <1>12, <1>13 DEF SqueezeRun
  <1> QED
    BY <1>14 DEF s, m, c, n

LEMMA SqueezeEnds ==
    ASSUME NEW a \in [Slots -> Nat], Apart(a), a[0] = 0, NEW d \in Nat,
           NEW t, NEW l, SqueezeRun(t, l, a, d), l.code = "compress"
    PROVE  LET s == [i \in Slots |-> IF i < l.n THEN t[i] ELSE t[i] - l.offset]
           IN  s[0] = 0 /\ Earlier(s, a, d)
  <1> DEFINE s == [i \in Slots |-> IF i < l.n THEN t[i] ELSE t[i] - l.offset]
             n == l.n
  <1>1. /\ l.offset = d /\ l.num = SqueezeNum(a, d) /\ l.den = SqueezeDen(a, d)
        /\ n \in 1 .. LastSlot + 1 /\ t \in [Slots -> Int]
        /\ \A i \in Slots : IF 0 < i /\ i < n
                            THEN /\ t[i] = HalfUp(a[i], l.num, l.den)
                                 /\ Short(a[i], d, l.num, l.den)
                            ELSE t[i] = a[i]
    BY IdleIsNoLoop DEF SqueezeRun
  <1>2. n \in Nat /\ 0 < n /\ a[1] \in Nat \ {0}
    <2>1. a[0 + 1] - a[0] >= 2 /\ 1 \in Slots
      BY LastSlotAssumption DEF Apart, Frame, Slots
    <2> QED
      BY <1>1, <2>1, LastSlotAssumption
  <1>3. l.num \in Nat \ {0} /\ l.den \in Nat \ {0} /\ l.num <= l.den
    BY <1>1, <1>2, SqueezeScale DEF SqueezeNum, SqueezeDen
  <1>4. s[0] = 0
    BY <1>1, <1>2, SlotsFacts
  <1>5. ASSUME NEW i \in Slots
        PROVE  /\ a[i] - d <= s[i] /\ s[i] <= a[i]
               /\ a[i] >= 2 * (a[1] + d) => s[i] = a[i] - d
    <2>1. i \in Nat /\ a[i] \in Nat
      BY SlotsFacts
    <2>2. CASE i = 0
      BY <1>2, <1>4, <2>2
    <2>3. CASE i # 0 /\ i < n
      <3>1. s[i] = HalfUp(a[i], l.num, l.den) /\ Short(a[i], d, l.num, l.den)
        BY <1>1, <2>1, <2>3
      <3>2. a[i] - d <= HalfUp(a[i], l.num, l.den) /\ HalfUp(a[i], l.num, l.den) <= a[i]
        BY <1>3, <2>1, <3>1, SqueezedWithin
      <3>3. HalfUp(a[i], l.num, l.den) \in Int
        <4>1. l.num \in Nat /\ l.den \in Nat \ {0} /\ a[i] \in Int
          BY <1>3, <2>1
        <4> QED
          BY <4>1, HalfUpType
      <3>4. d > 0 => a[i] < 2 * (a[1] + d)
        BY <1>1, <1>2, <2>1, <3>1, ShortEarly DEF SqueezeNum, SqueezeDen
      <3> HIDE DEF s
      <3>5. d = 0 => s[i] = a[i] - d
        BY <2>1, <3>1, <3>2, <3>3
      <3> QED
        BY <1>2, <2>1, <3>1, <3>2, <3>4, <3>5
    <2>4. CASE i # 0 /\ ~ (i < n)
      <3>1. s[i] = a[i] - d
        BY <1>1, <2>1, <2>4
      <3> HIDE DEF s
      <3> QED
        BY <2>1, <3>1
    <2> QED
      BY <2>2, <2>3, <2>4
  <1> HIDE DEF s
  <1>6. s[0] = 0 /\ Earlier(s, a, d)
    BY <1>4, <1>5 DEF Earlier
  <1> QED
    BY <1>6 DEF s

LEMMA CtsSqueezes ==
    ASSUME asked \in [Slots -> Nat], Apart(asked), NoCloser(asked), asked[0] = 0,
           NEW d \in Nat, CompressLoop(cts, loop, asked), SqueezeRun(cts, loop, asked, d),
           Ctsf!EnterCompress(d) \/ Ctsf!CompressFrame
    PROVE  SqueezeRun(cts', loop', asked, d)
  <1>1. CASE Ctsf!EnterCompress(d)
    <2>1. loop.code = "idle" /\ cts' = cts
      BY <1>1 DEF Ctsf!EnterCompress
    <2>2. cts = asked
      BY <2>1 DEF SqueezeRun
    <2>3. loop' = [code |-> "compress", n |-> 1, prev |-> 0, offset |-> d,
                   off |-> asked[1], factor |-> 0,
                   num |-> IF d <= asked[1] THEN asked[1] ELSE 1,
                   den |-> IF d <= asked[1] THEN d + asked[1] ELSE 2]
      BY <1>1, <2>2 DEF Ctsf!EnterCompress
    <2> QED
      BY <2>1, <2>2, <2>3, SqueezeEnters
  <1>2. CASE Ctsf!CompressFrame
    <2> DEFINE c == SqueezedCode(cts, loop)
    <2>1. c = Ctsf!CompressedCode
      BY Instances DEF Ctsf!CompressedCode, SqueezedCode
    <2> HIDE DEF c
    <2>2. /\ loop.code = "compress" /\ loop.n <= LastSlot
          /\ ~ ((cts[loop.n] - loop.offset - loop.prev) * loop.den >= loop.off * loop.num)
          /\ cts' = [cts EXCEPT ![loop.n] = c]
      BY <1>2, <2>1 DEF Ctsf!CompressFrame, Ctsf!Compressing, Ctsf!CaughtUp
    <2>3. loop' = Advanced(loop, c)
      BY <1>2, <2>1 DEF Ctsf!CompressFrame, Advanced
    <2>4. loop \in LoopRecord
      BY <2>2, IdleIsNoLoop DEF CompressLoop
    <2>5. SqueezeRun([cts EXCEPT ![loop.n] = c], Advanced(loop, c), asked, d)
      BY <2>2, <2>4, SqueezeMoves DEF c
    <2> QED
      BY <2>2, <2>3, <2>5
  <1> QED
    BY <1>1, <1>2

LEMMA CtsSqueezed ==
    ASSUME asked \in [Slots -> Nat], Apart(asked), asked[0] = 0,
           NEW d \in Nat, SqueezeRun(cts, loop, asked, d), Ctsf!CompressTail
    PROVE  cts'[0] = 0 /\ Earlier(cts', asked, d)
  <1>1. /\ loop.code = "compress"
        /\ cts' = [i \in Slots |-> IF i < loop.n THEN cts[i] ELSE cts[i] - loop.offset]
    BY Instances DEF Ctsf!CompressTail
  <1> QED
    BY <1>1, SqueezeEnds

-----------------------------------------------------------------------------
(* From AdjustTimeCodes to the player *)

FromStart(t) == [n \in Slots |-> t[n] - t[0]]

LEMMA StartsAtZero ==
    ASSUME NEW t \in [Slots -> Int]
    PROVE  /\ t[0] = 0 => FromStart(t) = t
           /\ \A d \in Int : FromStart([n \in Slots |-> t[n] + d]) = FromStart(t)
  <1>1. 0 \in Slots /\ t[0] \in Int /\ \A n \in Slots : t[n] \in Int
    BY SlotsFacts
  <1>2. ASSUME t[0] = 0 PROVE FromStart(t) = t
    <2>1. \A n \in Slots : t[n] - t[0] = t[n]
      BY <1>1, <1>2
    <2> QED
      BY <2>1 DEF FromStart
  <1>3. ASSUME NEW d \in Int
        PROVE  FromStart([n \in Slots |-> t[n] + d]) = FromStart(t)
    <2>1. \A n \in Slots : (t[n] + d) - (t[0] + d) = t[n] - t[0]
      BY <1>1
    <2> QED
      BY <1>1, <2>1 DEF FromStart
  <1> QED
    BY <1>2, <1>3

\* the composition times t, moved against the time codes asked for
Moved(t) == IF audioDelay > 0
            THEN Earlier(FromStart(t), asked, AudioDelayInTimeScale)
            ELSE Later(FromStart(t), asked, Backlog)

\* -c, and time codes whose first gap is the shortest
Closest == compressDTS /\ Spaced(2) /\ asked[0] = 0 /\ NoCloser(asked)

Path ==
    Closest /\ pc \in Editing =>
        /\ pc = "timed" => cts = asked
        /\ pc = "delayCTS" => DelayRun(cts, loop, asked, Backlog)
        /\ pc = "delayDTS" => Moved(cts)
        /\ pc = "rebase" => IF audioDelay < 0 THEN Moved(cts) ELSE cts = asked
        /\ pc = "compressCTS" => SqueezeRun(cts, loop, asked, AudioDelayInTimeScale)
        /\ pc \in {"measure", "compressDTS", "remeasure"} \/ Adjusted => Moved(cts)

LEMMA PathFrame ==
    ASSUME UNCHANGED <<compressDTS, audioDelay, asked, timeScale>>
    PROVE  /\ Closest' = Closest /\ Backlog' = Backlog
           /\ AudioDelayInTimeScale' = AudioDelayInTimeScale
           /\ \A t : Moved(t)' = Moved(t)
  <1>1. AudioDelayInTimeScale' = AudioDelayInTimeScale
    BY DEF AudioDelayInTimeScale
  <1>2. Backlog' = Backlog
    BY <1>1 DEF Backlog
  <1>3. Closest' = Closest
    BY DEF Closest, Spaced
  <1>4. \A t : Moved(t)' = Moved(t)
    BY <1>1, <1>2 DEF Moved
  <1> QED
    BY <1>1, <1>2, <1>3, <1>4

LEMMA ClosestFacts ==
    ASSUME Inv, Closest
    PROVE  /\ Spaced(1) /\ Apart(asked) /\ Rising(asked) /\ NoCloser(asked)
           /\ asked \in [Slots -> Nat] /\ asked \in [Slots -> Int] /\ asked[0] = 0
           /\ audioDelay \in Int
           /\ audioDelay < 0 => Backlog \in Nat
           /\ audioDelay = 0 => Backlog = 0
           /\ audioDelay > 0 => AudioDelayInTimeScale \in Nat
  <1>1. Spaced(1) /\ Apart(asked)
    BY TwoTicksApart DEF Closest
  <1>2. asked \in [Slots -> Nat] /\ Rising(asked) /\ timeScale \in Nat /\ audioDelay \in Int
    BY <1>1, SpacedFacts DEF Inv, Framing
  <1>3. audioDelay = 0 => Backlog = 0
    BY <1>2, NoTicks DEF Backlog, AudioDelayInTimeScale
  <1>4. /\ audioDelay < 0 => Backlog \in Nat
        /\ audioDelay > 0 => AudioDelayInTimeScale \in Nat
    BY <1>2, TicksSign DEF Backlog, AudioDelayInTimeScale
  <1>5. asked \in [Slots -> Int]
    BY <1>2
  <1> QED
    BY <1>1, <1>2, <1>3, <1>4, <1>5 DEF Closest

LEMMA BeginPath ==
    ASSUME Inv, Path, BeginAdjust
    PROVE  Path'
  <1>1. /\ pc = "timed" /\ UNCHANGED <<dts, cts, initialDelay, loop>> /\ Unadjusted
        /\ pc' = IF compressDTS /\ audioDelay < 0 THEN "delayCTS" ELSE "rebase"
    BY DEF BeginAdjust, times
  <1>2. /\ UNCHANGED <<compressDTS, audioDelay, asked, timeScale>>
        /\ loop = Ctsf!Idle
    BY <1>1, Unmoved DEF Inv, Framing, LoopPcs
  <1>3. Closest' = Closest /\ Backlog' = Backlog
    BY <1>2, PathFrame
  <1>4. ASSUME Closest
        PROVE  /\ cts = asked /\ compressDTS
               /\ DelayRun(cts', loop', asked, Backlog)
    <2>1. cts = asked
      BY <1>1, <1>4 DEF Path, Editing
    <2> QED
      BY <1>1, <1>2, <1>4, <2>1 DEF DelayRun, Closest
  <1> QED
    BY <1>1, <1>2, <1>3, <1>4 DEF Path, Adjusted

LEMMA DelayCTSPath ==
    ASSUME Inv, Path, DelayCTS
    PROVE  Path'
  <1>1. /\ pc = "delayCTS" /\ dts' = dts /\ Unadjusted
        /\ pc' \in {"delayCTS", "delayDTS"}
        /\ audioDelay \in Int /\ audioDelay < 0
    BY DEF DelayCTS, Inv, Framing
  <1>2. UNCHANGED <<compressDTS, audioDelay, asked, timeScale>>
    BY <1>1, Unmoved
  <1>3. Closest' = Closest /\ Backlog' = Backlog /\ \A t : Moved(t)' = Moved(t)
    BY <1>2, PathFrame
  <1>4. ASSUME Closest
        PROVE  /\ pc' = "delayCTS" => DelayRun(cts', loop', asked, Backlog)
               /\ pc' = "delayDTS" => Moved(cts')
    <2>1. /\ Spaced(1) /\ Rising(asked) /\ asked \in [Slots -> Nat]
          /\ asked \in [Slots -> Int] /\ asked[0] = 0 /\ Backlog \in Nat
      BY <1>1, <1>4, ClosestFacts
    <2>2. DelayRun(cts, loop, asked, Backlog) /\ DelayLoop(cts, loop, asked)
      BY <1>1, <1>4, <2>1 DEF Path, Editing, Inv, Stage
    <2>3. CASE pc' = "delayCTS"
      <3>1. \/ Ctsf!EnterDelay(Backlog) \/ Ctsf!RaiseFactor
            \/ Ctsf!FixFactor \/ Ctsf!DelayFrame
        BY <2>3 DEF DelayCTS, Backlog
      <3>2. Backlog \in Int
        BY <2>1
      <3> QED
        BY <2>1, <2>2, <2>3, <3>1, <3>2, CtsRuns
    <2>4. CASE pc' = "delayDTS"
      <3>1. Ctsf!DelayTail
        BY <2>4 DEF DelayCTS
      <3>2. Backlog \in Int
        BY <2>1
      <3>3. Delayed(cts', asked, Backlog)
        BY <2>1, <2>2, <3>1, <3>2, CtsRan
      <3>4. cts'[0] = 0 /\ Later(cts', asked, Backlog)
        BY <2>1, <3>3, DelayedIsLater
      <3>5. cts' \in [Slots -> Int]
        <4>1. Shifted(cts', asked)
          BY <2>1, <2>2, <3>1, CtsDelayed
        <4> QED
          BY <4>1 DEF Shifted
      <3>6. FromStart(cts') = cts' /\ ~ (audioDelay > 0)
        BY <1>1, <3>4, <3>5, StartsAtZero
      <3> QED
        BY <2>4, <3>4, <3>6 DEF Moved
    <2> QED
      BY <1>1, <2>3, <2>4
  <1> QED
    BY <1>1, <1>2, <1>3, <1>4 DEF Path, Adjusted

LEMMA DelayDTSPath ==
    ASSUME Inv, Path, DelayDTS
    PROVE  Path'
  <1>1. /\ pc = "delayDTS" /\ cts' = cts /\ Unadjusted
        /\ pc' \in {"delayDTS", "rebase"} /\ audioDelay \in Int /\ audioDelay < 0
    BY DEF DelayDTS, Inv, Framing
  <1>2. UNCHANGED <<compressDTS, audioDelay, asked, timeScale>>
    BY <1>1, Unmoved
  <1>3. Closest' = Closest /\ \A t : Moved(t)' = Moved(t)
    BY <1>2, PathFrame
  <1>4. Closest => Moved(cts)
    BY <1>1 DEF Path, Editing
  <1> QED
    BY <1>1, <1>2, <1>3, <1>4 DEF Path, Adjusted

LEMMA RebasePath ==
    ASSUME Inv, Path, Rebase
    PROVE  Path'
  <1>1. /\ pc = "rebase" /\ Unadjusted /\ dts' = dts
        /\ cts' = [n \in Slots |-> cts[n] + (-cts[0])]
        /\ pc' = IF compressDTS /\ audioDelay > 0 THEN "compressCTS" ELSE "measure"
        /\ audioDelay \in Int /\ loop = Ctsf!Idle /\ loop' = loop
    BY DEF Rebase, OffsetCTS, Inv, Framing, LoopPcs
  <1>2. UNCHANGED <<compressDTS, audioDelay, asked, timeScale>>
    BY <1>1, Unmoved
  <1>3. /\ Closest' = Closest /\ \A t : Moved(t)' = Moved(t)
        /\ AudioDelayInTimeScale' = AudioDelayInTimeScale
    BY <1>2, PathFrame
  <1>4. ASSUME Closest
        PROVE  /\ audioDelay > 0 => cts' = asked
               /\ audioDelay <= 0 => Moved(cts')
    <2>1. /\ Spaced(1) /\ asked \in [Slots -> Int] /\ asked[0] = 0
          /\ asked \in [Slots -> Nat]
          /\ audioDelay = 0 => Backlog = 0
      BY <1>4, ClosestFacts
    <2>2. cts \in [Slots -> Int] /\ -cts[0] \in Int
      <3>1. cts \in [Slots -> Int]
        BY <1>1, <2>1, TimesTyped DEF Editing
      <3> QED
        BY <3>1, SlotsFacts
    <2>3. FromStart(cts') = FromStart(cts)
      BY <1>1, <2>2, StartsAtZero
    <2>4. CASE audioDelay < 0
      <3>1. Moved(cts)
        BY <1>1, <1>4, <2>4 DEF Path, Editing
      <3> QED
        BY <1>1, <2>3, <2>4, <3>1 DEF Moved
    <2>5. CASE ~ (audioDelay < 0)
      <3>1. cts = asked
        BY <1>1, <1>4, <2>5 DEF Path, Editing
      <3>2. cts' = cts
        <4>1. \A n \in Slots : cts[n] + (-cts[0]) = cts[n]
          BY <2>1, <2>2, <3>1
        <4> QED
          BY <1>1, <2>2, <4>1
      <3>3. ASSUME audioDelay <= 0 PROVE Moved(cts')
        <4>1. audioDelay = 0 /\ ~ (audioDelay > 0)
          BY <1>1, <2>5, <3>3
        <4>2. FromStart(asked) = asked
          BY <2>1, StartsAtZero
        <4>3. Later(asked, asked, 0)
          <5>1. ASSUME NEW i \in Slots
                PROVE  /\ asked[i] <= asked[i] /\ asked[i] <= asked[i] + 0
                       /\ asked[i] = asked[i] + 0
            BY <2>1
          <5> QED
            BY <5>1 DEF Later
        <4> QED
          BY <2>1, <3>1, <3>2, <4>1, <4>2, <4>3 DEF Moved
      <3> QED
        BY <3>1, <3>2, <3>3
    <2> QED
      BY <1>1, <2>4, <2>5
  <1>5. ASSUME Closest PROVE compressDTS
    BY <1>5 DEF Closest
  <1>6. CASE Closest /\ audioDelay > 0
    <2>1. cts' = asked /\ pc' = "compressCTS" /\ loop' = Ctsf!Idle
      BY <1>1, <1>4, <1>5, <1>6
    <2>2. SqueezeRun(cts', loop', asked, AudioDelayInTimeScale)
      BY <2>1 DEF SqueezeRun
    <2> QED
      BY <1>2, <1>3, <2>1, <2>2 DEF Path, Adjusted
  <1>7. CASE Closest /\ ~ (audioDelay > 0)
    <2>1. Moved(cts') /\ pc' = "measure"
      <3>1. audioDelay <= 0
        BY <1>1, <1>7
      <3> QED
        BY <1>1, <1>4, <1>7, <3>1
    <2> QED
      BY <1>2, <1>3, <2>1 DEF Path, Adjusted
  <1>8. CASE ~ Closest
    BY <1>3, <1>8 DEF Path
  <1> QED
    BY <1>6, <1>7, <1>8

LEMMA CompressCTSPath ==
    ASSUME Inv, Path, CompressCTS
    PROVE  Path'
  <1> DEFINE d == AudioDelayInTimeScale
  <1>1. /\ pc = "compressCTS" /\ Unadjusted /\ dts' = dts
        /\ pc' \in {"compressCTS", "measure"} /\ audioDelay \in Int /\ audioDelay > 0
    BY DEF CompressCTS, Inv, Framing
  <1>2. UNCHANGED <<compressDTS, audioDelay, asked, timeScale>>
    BY <1>1, Unmoved
  <1>3. Closest' = Closest /\ d' = d /\ \A t : Moved(t)' = Moved(t)
    BY <1>2, PathFrame
  <1>4. ASSUME Closest
        PROVE  /\ pc' = "compressCTS" => SqueezeRun(cts', loop', asked, d)
               /\ pc' = "measure" => Moved(cts')
    <2>1. /\ Spaced(1) /\ Apart(asked) /\ NoCloser(asked) /\ asked \in [Slots -> Nat]
          /\ asked[0] = 0 /\ d \in Nat
      BY <1>1, <1>4, ClosestFacts
    <2>2. SqueezeRun(cts, loop, asked, d) /\ CompressLoop(cts, loop, asked)
      BY <1>1, <1>4, <2>1 DEF Path, Editing, Inv, Stage
    <2>3. CASE pc' = "compressCTS"
      <3>1. Ctsf!EnterCompress(d) \/ Ctsf!CompressFrame
        BY <2>3 DEF CompressCTS
      <3> HIDE DEF d
      <3> QED
        BY <2>1, <2>2, <2>3, <3>1, CtsSqueezes
    <2>4. CASE pc' = "measure"
      <3>1. Ctsf!CompressTail
        BY <2>4 DEF CompressCTS
      <3>2. cts'[0] = 0 /\ Earlier(cts', asked, d)
        <4> HIDE DEF d
        <4> QED
          BY <2>1, <2>2, <3>1, CtsSqueezed
      <3>3. cts' \in [Slots -> Int]
        <4>1. Compressed(cts', asked)
          BY <2>1, <2>2, <3>1, CtsCompressed
        <4> QED
          BY <4>1 DEF Compressed
      <3>4. FromStart(cts') = cts'
        BY <3>2, <3>3, StartsAtZero
      <3> QED
        BY <1>1, <2>4, <3>2, <3>4 DEF Moved
    <2> QED
      BY <1>1, <2>3, <2>4
  <1> QED
    BY <1>1, <1>2, <1>3, <1>4 DEF Path, Adjusted

\* moved all alike, the frames stay where they are from the first
LEMMA OffsetMoved ==
    ASSUME cts \in [Slots -> Int], NEW d \in Int, OffsetCTS(d),
           UNCHANGED <<compressDTS, audioDelay, asked, timeScale>>, Moved(cts)
    PROVE  Moved(cts')
  <1>1. FromStart(cts') = FromStart(cts)
    BY StartsAtZero DEF OffsetCTS
  <1> QED
    BY <1>1 DEF Moved

LEMMA MeasurePath ==
    ASSUME Inv, Path, Measure \/ Remeasure
    PROVE  Path'
  <1>1. /\ pc \in {"measure", "remeasure"} /\ Unadjusted /\ dts' = dts
        /\ pc' \in {"compressDTS", "adjusted"} /\ ctsIndex \in [Slots -> Slots]
    BY DEF Measure, Remeasure, Inv, Framing
  <1>2. UNCHANGED <<compressDTS, audioDelay, asked, timeScale>>
    BY <1>1, Unmoved
  <1>3. Closest' = Closest /\ \A t : Moved(t)' = Moved(t)
    BY <1>2, PathFrame
  <1>4. PICK d \in Lateness \cup {0} :
            IsInitialDelay(d) /\ (cts' = cts \/ OffsetCTS(d))
    BY DEF Measure, Remeasure
  <1>5. ASSUME Closest PROVE Moved(cts')
    <2>1. Moved(cts) /\ Spaced(1)
      BY <1>1, <1>5, ClosestFacts DEF Path, Editing
    <2>2. dts \in [Slots -> Int] /\ cts \in [Slots -> Int]
      BY <1>1, <2>1, TimesTyped DEF Editing
    <2>3. d \in Int
      <3>1. d \in Nat
        BY <1>1, <1>4, <2>2, DelaySuffices
      <3> QED
        BY <3>1
    <2>4. CASE cts' = cts
      BY <2>1, <2>4
    <2>5. CASE OffsetCTS(d)
      BY <1>2, <2>1, <2>2, <2>3, <2>5, OffsetMoved
    <2> QED
      BY <1>4, <2>4, <2>5
  <1> QED
    BY <1>1, <1>3, <1>5 DEF Path

LEMMA CompressDTSPath ==
    ASSUME Inv, Path, CompressDTS
    PROVE  Path'
  <1>1. /\ pc = "compressDTS" /\ Unadjusted /\ cts' = cts
        /\ pc' \in {"compressDTS", "remeasure"}
    BY DEF CompressDTS
  <1>2. UNCHANGED <<compressDTS, audioDelay, asked, timeScale>>
    BY <1>1, Unmoved
  <1>3. Closest' = Closest /\ \A t : Moved(t)' = Moved(t)
    BY <1>2, PathFrame
  <1>4. Closest => Moved(cts)
    BY <1>1 DEF Path, Editing
  <1> QED
    BY <1>1, <1>3, <1>4 DEF Path, Adjusted

LEMMA PathStays ==
    ASSUME Path, UNCHANGED <<cts, asked, timeScale, compressDTS, audioDelay, loop>>,
           pc' = pc \/ (pc = "adjusted" /\ pc' = "edited")
    PROVE  Path'
  <1>1. /\ Closest' = Closest /\ Backlog' = Backlog /\ \A t : Moved(t)' = Moved(t)
        /\ AudioDelayInTimeScale' = AudioDelayInTimeScale
    BY PathFrame
  <1> QED
    BY <1>1 DEF Path, Adjusted, Editing

LEMMA PathNext ==
    ASSUME Inv, Path, [Next]_vars
    PROVE  Path'
  <1>1. CASE Open \/ SaveCopy \/ SaveInPlace
    <2>1. pc' \in {"loaded", "closed"}
      BY <1>1 DEF Open, SaveCopy, SaveInPlace, Saved
    <2> QED
      BY <2>1 DEF Path, Editing
  <1>2. CASE \/ \E fps \in FrameRateLists : SetFPS(fps)
             \/ \E list \in TimeCodeLists : SetTimeCodes(list)
             \/ KeepTimeCodes
    <2>1. pc' = "failed" \/ (pc' = "timed" /\ cts' = asked')
      <3>1. ASSUME NEW fps \in FrameRateLists, SetFPS(fps)
            PROVE  pc' = "failed" \/ (pc' = "timed" /\ cts' = asked')
        BY <3>1 DEF SetFPS, GiveTimes
      <3>2. ASSUME NEW list \in TimeCodeLists, SetTimeCodes(list)
            PROVE  pc' = "failed" \/ (pc' = "timed" /\ cts' = asked')
        BY <3>2 DEF SetTimeCodes, GiveTimes
      <3>3. ASSUME KeepTimeCodes PROVE pc' = "timed" /\ cts' = asked'
        BY <3>3 DEF KeepTimeCodes, GiveTimes
      <3> QED
        BY <1>2, <3>1, <3>2, <3>3
    <2> QED
      BY <2>1 DEF Path, Adjusted, Editing
  <1>3. CASE Adjust
    BY <1>3, BeginPath, DelayCTSPath, DelayDTSPath, RebasePath, CompressCTSPath,
       MeasurePath, CompressDTSPath DEF Adjust
  <1>4. CASE DoEditTimeCodes
    <2>1. /\ UNCHANGED <<cts, asked, timeScale, compressDTS, audioDelay, loop>>
          /\ pc = "adjusted" /\ pc' = "edited"
      BY <1>4 DEF DoEditTimeCodes, times, options, history
    <2> QED
      BY <2>1, PathStays
  <1>5. CASE UNCHANGED vars
    <2>1. UNCHANGED <<cts, asked, timeScale, compressDTS, audioDelay, loop, pc>>
      BY <1>5 DEF vars, times, options, history
    <2> QED
      BY <2>1, PathStays
  <1> QED
    BY <1>1, <1>2, <1>3, <1>4, <1>5 DEF Next

LEMMA PathFirst == Init => Path
  <1>1. Init => pc = "closed"
    BY DEF Init
  <1> QED
    BY <1>1 DEF Path, Editing

LEMMA PathAlways == Spec => []Path
  <1>1. Inv /\ Path /\ [Next]_vars => Path'
    BY PathNext
  <1> QED
    BY <1>1, PathFirst, Invariance, PTL DEF Spec

\* the delay measured, which the edit list cuts, is the time of the first frame
LEMMA CompressedRead ==
    ASSUME Inv, FileInv, Course, pc = "edited", compressDTS, TablesFit,
           Spaced(2), asked[0] = 0, video.hasCtts \/ audioDelay <= 0, NEW n \in Frame
    PROVE  Late(n) = FromStart(cts)[n] - asked[n]
  <1>1. /\ cts \in [Slots -> Int] /\ asked \in [Slots -> Nat] /\ Permutation(ctsIndex)
        /\ SampleCTS[ctsIndex[n]] = cts[n] /\ initialDelay \in Int
    BY EditedTimes, SlotsFacts
  <1>2. n \in Slots /\ 0 \in Slots /\ n # LastSlot /\ LastSlot \in Slots
    BY SlotsFacts, LastSlotAssumption DEF Frame
  <1>3. ctsIndex[n] \in Frame
    <2>1. ctsIndex[LastSlot] = LastSlot
      BY DEF FileInv, Editing, Arranged
    <2>2. ctsIndex[n] \in Slots /\ ctsIndex[n] # LastSlot
      BY <1>1, <1>2, <2>1 DEF Permutation
    <2> QED
      BY <2>2, LastSlotAssumption DEF Slots, Frame
  <1>4. ReadCTS[ctsIndex[n]] = cts[n]
    BY <1>1, <1>3, BackEdit DEF ReadBack
  <1>5. cts[0] = initialDelay
    <2>1. Spaced(1)
      BY TwoTicksApart
    <2> QED
      BY <2>1, StageWhenAdjusted DEF Adjusted, Tight
  <1>6. MediaTime(video.elst) = initialDelay
    <2>1. video.elst = UpdateElst(VideoEdit, video.tkhd) /\ VideoEdit = initialDelay + 0
      BY DEF FileInv, Written, VideoEdit
    <2>2. VideoEdit = initialDelay
      BY <1>1, <2>1
    <2> QED
      BY <1>1, <2>1, <2>2, Cut
  <1>7. asked[n] \in Nat /\ cts[n] \in Int /\ FromStart(cts)[n] = cts[n] - cts[0]
    BY <1>1, <1>2 DEF FromStart
  <1> QED
    BY <1>1, <1>4, <1>5, <1>6, <1>7 DEF Late, Played

LEMMA WholeTicks ==
    ASSUME NEW ms \in Int, NEW scale \in Nat
    PROVE  InTicks(ms, scale) \in Int
  <1> DEFINE x == ms * scale
             ticks == Truncated(x, 1000)
  <1>1. x \in Int
    OBVIOUS
  <1>2. ticks \in Int
    <2> HIDE DEF x
    <2> QED
      BY <1>1 DEF Truncated
  <1> HIDE DEF ticks
  <1> QED
    BY <1>2 DEF InTicks, ticks

LEMMA ShiftEdit ==
    ASSUME Inv, FileInv, Course, Path, TablesFit, video.hasCtts \/ audioDelay <= 0,
           pc = "edited", Closest, NEW n \in Frame
    PROVE  /\ IF audioDelay > 0 THEN Late(n) \in -AudioDelayInTimeScale .. 0
                                ELSE Late(n) \in 0 .. -AudioDelayInTimeScale
           /\ LET delay == AudioDelayInTimeScale
                  size  == IF delay < 0 THEN -delay ELSE delay
              IN  asked[n] >= 2 * (asked[1] + size) => Late(n) = -delay
  <1> DEFINE t == FromStart(cts)
  <1>1. Late(n) = t[n] - asked[n] /\ Moved(cts)
    BY CompressedRead DEF Closest, Path, Adjusted, Editing
  <1>2. n \in Slots /\ 1 \in Slots
    BY SlotsFacts
  <1>3. /\ asked[n] \in Nat /\ asked[1] \in Nat /\ audioDelay \in Int
        /\ audioDelay < 0 => Backlog \in Nat
        /\ audioDelay = 0 => Backlog = 0
        /\ audioDelay > 0 => AudioDelayInTimeScale \in Nat
    BY <1>2, ClosestFacts
  <1>4. t[n] \in Int
    BY <1>2, EditedTimes, SlotsFacts DEF FromStart
  <1>5. AudioDelayInTimeScale \in Int
    <2>1. timeScale \in Nat
      BY DEF Closest, Spaced
    <2> QED
      BY <1>3, <2>1, WholeTicks DEF AudioDelayInTimeScale
  <1> DEFINE d == AudioDelayInTimeScale
  <1> HIDE DEF t, d
  <1>6. CASE audioDelay > 0
    <2>1. Earlier(t, asked, d) /\ d \in Nat
      BY <1>1, <1>3, <1>6 DEF Moved, t, d
    <2>2. /\ asked[n] - d <= t[n] /\ t[n] <= asked[n]
          /\ asked[n] >= 2 * (asked[1] + d) => t[n] = asked[n] - d
      BY <1>2, <2>1 DEF Earlier
    <2> QED
      BY <1>1, <1>3, <1>4, <1>6, <2>1, <2>2 DEF d
  <1>7. CASE ~ (audioDelay > 0)
    <2> DEFINE b == -d
    <2>1. Later(t, asked, b) /\ b \in Nat /\ d \in Int
      BY <1>1, <1>3, <1>5, <1>7 DEF Moved, t, d, Backlog
    <2>2. /\ asked[n] <= t[n] /\ t[n] <= asked[n] + b
          /\ asked[n] >= 2 * (asked[1] + b) => t[n] = asked[n] + b
      BY <1>2, <2>1 DEF Later
    <2>3. (IF d < 0 THEN -d ELSE d) = b
      BY <2>1
    <2>4. Late(n) \in 0 .. -d /\ (asked[n] >= 2 * (asked[1] + b) => Late(n) = -d)
      BY <1>1, <1>3, <1>4, <2>1, <2>2
    <2> HIDE DEF b
    <2> QED
      BY <1>7, <2>3, <2>4 DEF d
  <1> QED
    BY <1>6, <1>7

\* the delay can be read back: only a ctts box can hold one compressed forward
Held == video.hasCtts \/ audioDelay <= 0

(***************************************************************************)
(* With -c, on the conditions of WrittenIsRead: each frame is seen early   *)
(* by no more than a positive audio delay, late by no more than a negative *)
(* one, and never the other way, if the first gap between the times asked  *)
(* for is the shortest.  The track needs a ctts box to be seen early.      *)
(***************************************************************************)
THEOREM ShiftKeptWithinDelay ==
    Spec /\ [](Usable /\ Distinct) => [](TablesFit /\ Held => ShiftWithinDelay)
  <1>1. Known /\ Path => (TablesFit /\ Held => ShiftWithinDelay)
    <2> SUFFICES ASSUME Known, Path, TablesFit, Held PROVE ShiftWithinDelay
      OBVIOUS
    <2>1. ASSUME pc = "edited", compressDTS, Spaced(2), asked[0] = 0, NoShorterGap
          PROVE  Closest
      BY <2>1 DEF Closest, NoCloser, NoShorterGap
    <2> QED
      BY <2>1, ShiftEdit DEF ShiftWithinDelay, Known, Held
  <1> QED
    BY <1>1, KnownAlways, PathAlways, PTL

(***************************************************************************)
(* On the same conditions, every frame asked for at twice the delay and    *)
(* the first gap, or later, is seen early or late by exactly the delay.    *)
(***************************************************************************)
THEOREM WholeDelayReached ==
    Spec /\ [](Usable /\ Distinct) => [](TablesFit /\ Held => DelayReached)
  <1>1. Known /\ Path => (TablesFit /\ Held => DelayReached)
    <2> SUFFICES ASSUME Known, Path, TablesFit, Held PROVE DelayReached
      OBVIOUS
    <2>1. ASSUME pc = "edited", compressDTS, Spaced(2), asked[0] = 0, NoShorterGap
          PROVE  Closest
      BY <2>1 DEF Closest, NoCloser, NoShorterGap
    <2> QED
      BY <2>1, ShiftEdit DEF DelayReached, Known, Held
  <1> QED
    BY <1>1, KnownAlways, PathAlways, PTL

-----------------------------------------------------------------------------
(* Types *)

\* a set of integers with finitely many members has a largest one
LEMMA MaxOfFinite ==
    ASSUME NEW S \in SUBSET Int, IsFiniteSet(S), S # {}
    PROVE  Max(S) \in S
  <1>1. PICK n \in Nat : ExistsSurjection(1 .. n, S)
    BY FS_NatSurjection
  <1>2. PICK f \in Surjection(1 .. n, S) : TRUE
    BY <1>1 DEF ExistsSurjection
  <1>3. f \in [1 .. n -> S] /\ \A x \in S : \E i \in 1 .. n : f[i] = x
    BY <1>2 DEF Surjection
  <1> DEFINE g == [i \in 0 .. n |-> IF i = 0 THEN 0 ELSE f[i]]
  <1>4. g \in [0 .. n -> Int]
    <2>1. ASSUME NEW i \in 0 .. n PROVE (IF i = 0 THEN 0 ELSE f[i]) \in Int
      <3>1. CASE i = 0
        BY <3>1
      <3>2. CASE i # 0
        <4>1. i \in 1 .. n
          BY <3>2
        <4>2. f[i] \in Int
          BY <1>3, <4>1
        <4> QED
          BY <3>2, <4>2
      <3> QED
        BY <3>1, <3>2
    <2> QED
      BY <2>1
  <1>5. \A i \in 1 .. n : g[i] = f[i]
    OBVIOUS
  <1> HIDE DEF g
  <1>6. PICK b \in Int : \A i \in 0 .. n : g[i] <= b
    BY <1>4, Bounded
  <1>7. ASSUME NEW x \in S PROVE x <= b
    <2>1. PICK i \in 1 .. n : f[i] = x
      BY <1>3
    <2>2. i \in 0 .. n
      OBVIOUS
    <2> QED
      BY <1>5, <1>6, <2>1, <2>2
  <1> QED
    BY <1>7, MaxInside

EditEntry == [mediaTime : Int, duration : Nat]
PlusDuration(sum, e) == sum + e.duration

LEMMA TotalFold ==
    ASSUME NEW elst \in Seq(EditEntry)
    PROVE  \E h : /\ h[0] = 0 /\ EditTotalDuration(elst) = h[Len(elst)]
                  /\ \A k \in 1 .. Len(elst) :
                        h[k] = PlusDuration(h[k - 1], elst[k])
                  /\ \A k \in 0 .. Len(elst) : h[k] \in Nat
  <1> DEFINE n == Len(elst)
             D == DOMAIN elst
             R == Nat
             step == [p \in (1 .. n) \X R |-> PlusDuration(p[2], elst[p[1]])]
             it == CHOOSE f : f = [s \in SUBSET D |->
                      IF s = {} THEN 0
                      ELSE PlusDuration(f[s \ {Max(s)}], elst[Max(s)])]
             h == [k \in 0 .. n |-> it[1 .. k]]
  <1>1. n \in Nat /\ D = 1 .. n /\ 0 \in R
    OBVIOUS
  <1>2. \A k \in 1 .. n, v \in R : PlusDuration(v, elst[k]) \in R
    <2>1. \A k \in 1 .. n : elst[k] \in EditEntry
      OBVIOUS
    <2> QED
      BY <2>1 DEF EditEntry, PlusDuration
  <1>3. step \in [(1 .. n) \X R -> R]
    <2> HIDE DEF n, D, R
    <2> QED
      BY <1>2
  <1>4. \A k \in 1 .. n, v \in R : step[<<k, v>>] = PlusDuration(v, elst[k])
    OBVIOUS
  <1>5. EditTotalDuration(elst) = it[D]
    BY Zenon DEF EditTotalDuration, FoldLeft, MapThenFoldSet, PlusDuration
  <1> HIDE DEF step, n, D, R
  <1>6. PICK g \in [SUBSET (1 .. n) -> R] : Folded(g, n, 0, step)
    BY <1>1, <1>3, FoldExists, Zenon
  <1>7. ASSUME NEW s \in SUBSET D, s # {} PROVE Max(s) \in s
    <2>1. s \in SUBSET Int /\ n \in Int /\ \A x \in s : x <= n
      BY <1>1
    <2> QED
      BY <1>7, <2>1, MaxInside, Zenon
  <1>8. ASSUME NEW s \in SUBSET D, s # {}
        PROVE  step[<<Max(s), g[s \ {Max(s)}]>>]
                 = PlusDuration(g[s \ {Max(s)}], elst[Max(s)])
    <2>1. Max(s) \in 1 .. n /\ s \ {Max(s)} \in SUBSET (1 .. n)
      BY <1>1, <1>7, <1>8
    <2>2. g[s \ {Max(s)}] \in R
      BY <1>6, <2>1, Zenon
    <2> QED
      BY <1>4, <2>1, <2>2
  <1>9. g = [s \in SUBSET D |->
               IF s = {} THEN 0 ELSE PlusDuration(g[s \ {Max(s)}], elst[Max(s)])]
    BY <1>1, <1>6, <1>8, Zenon DEF Folded
  <1>10. it = [s \in SUBSET D |->
               IF s = {} THEN 0 ELSE PlusDuration(it[s \ {Max(s)}], elst[Max(s)])]
    BY <1>9, Zenon
  <1> HIDE DEF it
  <1>11. it[1 .. 0] = 0
    <2>1. 1 .. 0 = {} /\ {} \in SUBSET D
      OBVIOUS
    <2> QED
      BY <1>10, <2>1
  <1>12. ASSUME NEW k \in 1 .. n
         PROVE  it[1 .. k] = PlusDuration(it[1 .. k - 1], elst[k])
    <2>1. 1 .. k \in SUBSET D /\ 1 .. k # {}
      <3>1. (\A x \in 1 .. k : x \in 1 .. n) /\ k \in 1 .. k
        BY <1>1
      <3> QED
        BY <1>1, <3>1
    <2>2. Max(1 .. k) = k /\ (1 .. k) \ {k} = 1 .. k - 1
      BY <1>1, LastOfInterval
    <2>3. it[1 .. k] = PlusDuration(it[(1 .. k) \ {Max(1 .. k)}], elst[Max(1 .. k)])
      BY <1>10, <2>1, Zenon
    <2> QED
      BY <2>2, <2>3
  <1>13. h[0] = 0 /\ h[n] = it[D]
    BY <1>1, <1>11
  <1>14. ASSUME NEW k \in 1 .. n PROVE h[k] = PlusDuration(h[k - 1], elst[k])
    <2>1. k \in 0 .. n /\ k - 1 \in 0 .. n
      BY <1>1
    <2>2. h[k] = it[1 .. k] /\ h[k - 1] = it[1 .. k - 1]
      BY <2>1
    <2> HIDE DEF h
    <2> QED
      BY <1>12, <2>2
  <1> HIDE DEF h
  <1> DEFINE S == {k \in 0 .. n : h[k] \in R}
  <1>15. 0 \in S
    BY <1>1, <1>13
  <1>16. ASSUME NEW k \in 0 .. n - 1, k \in S PROVE k + 1 \in S
    <2>1. k + 1 \in 1 .. n /\ (k + 1) - 1 = k /\ k + 1 \in 0 .. n
      BY <1>1
    <2>2. h[k + 1] = PlusDuration(h[k], elst[k + 1])
      BY <1>14, <2>1
    <2> QED
      BY <1>2, <1>16, <2>1, <2>2
  <1> HIDE DEF S
  <1>17. 0 .. n \subseteq S
    <2>1. 0 \in Int /\ n \in Int
      BY <1>1
    <2> QED
      BY <1>15, <1>16, <2>1, IntervalInduction
  <1>18. \A k \in 0 .. n : h[k] \in R
    BY <1>17 DEF S
  <1> QED
    BY <1>5, <1>13, <1>14, <1>18 DEF n, R


VideoType ==
    [stts : Table(Words), hasCtts : BOOLEAN, ctts : Table(Words), timeScale : Nat \ {0},
     duration : Nat, tkhd : Nat, elst : Seq(EditEntry)]
AudioType == [timeScale : Nat \ {0}, duration : Nat, tkhd : Nat, elst : Seq(EditEntry)]
MovieType == [timeScale : Nat \ {0}, duration : Nat]

TypedFile ==
    /\ video \in VideoType /\ TablesOf(video)
    /\ audio \in [AudioTracks -> AudioType]
    /\ movie \in MovieType

\* of increasing times the last is not before the first, however rounded
Ends ==
    /\ pc = "compressCTS" /\ loop.code = "compress" /\ loop.n > LastSlot
          => cts[LastSlot] >= 0
    /\ pc \in {"measure", "compressDTS", "remeasure", "adjusted"}
          => cts[0] <= cts[LastSlot]

TypedEditor ==
    /\ dts \in [Slots -> Int] /\ cts \in [Slots -> Int]
    /\ Permutation(ctsIndex)
    /\ timeScale \in Nat \ {0} /\ initialDelay \in Nat
    /\ compressDTS \in BOOLEAN /\ audioDelay \in Int
    /\ asked \in [Slots -> Nat]
    /\ pc \in PCs
    /\ runs \in 0 .. MaxRuns /\ (pc # "closed" => runs < MaxRuns)
    /\ pc \in Editing \ {"timed"} => Spaced(1)

TypeInv == TypedFile /\ TypedEditor /\ Ends

LEMMA TypesSuffice == TypeInv => TypeOK
  <1> SUFFICES ASSUME TypeInv PROVE TypeOK
    OBVIOUS
  <1>1. /\ video \in VideoType /\ movie \in MovieType
        /\ audio \in [AudioTracks -> AudioType]
    BY DEF TypeInv, TypedFile
  <1>2. ASSUME NEW t \in Table(Words), NEW e \in DOMAIN t
        PROVE  t[e].count \in Nat /\ t[e].value \in 0 .. Word - 1
    <2> DEFINE R == [count : Nat, value : Words]
    <2>1. t[e] \in R
      <3>1. t \in Seq(R)
        BY DEF Table
      <3> HIDE DEF R
      <3> QED
        BY <3>1
    <2> QED
      BY <2>1 DEF Words
  <1>3. /\ video.stts \in Table(Words) /\ video.ctts \in Table(Words)
        /\ video.timeScale \in Nat \ {0} /\ video.duration \in Nat /\ video.tkhd \in Nat
        /\ movie.duration \in Nat
    BY <1>1 DEF VideoType, MovieType
  <1>4. ASSUME NEW a \in AudioTracks PROVE audio[a].tkhd \in Nat
    <2>1. audio[a] \in AudioType
      BY <1>1
    <2> QED
      BY <2>1 DEF AudioType
  <1>5. ctsIndex \in [Slots -> Slots]
    BY DEF TypeInv, TypedEditor, Permutation
  <1> QED
    BY <1>2, <1>3, <1>4, <1>5 DEF TypeOK, TypeInv, TypedEditor, PCs

LEMMA TypesFirst == Init => TypeInv
  <1> SUFFICES ASSUME Init PROVE TypeInv
    OBVIOUS
  <1> DEFINE tables == Seq([count : Nat, value : 0 .. Word - 1])
             edits == Seq([mediaTime : Int, duration : Nat])
             V == [stts : tables, hasCtts : BOOLEAN, ctts : tables,
                   timeScale : Nat \ {0}, duration : Nat, tkhd : Nat, elst : edits]
             A == [timeScale : Nat \ {0}, duration : Nat, tkhd : Nat, elst : edits]
             M == [timeScale : Nat \ {0}, duration : Nat]
  <1>1. PICK f \in Files : video = f.video /\ audio = f.audio /\ movie = f.movie
    BY DEF Init
  <1>2. /\ f.video \in V /\ f.audio \in [AudioTracks -> A] /\ f.movie \in M
        /\ Len(Expand(f.video.stts)) = LastSlot
        /\ f.video.hasCtts => Len(Expand(f.video.ctts)) = LastSlot
    BY FilesAssumption, Zenon
  <1>3. V = VideoType /\ A = AudioType /\ M = MovieType
    BY DEF VideoType, AudioType, MovieType, EditEntry, Table, Words
  <1> HIDE DEF V, A, M
  <1>4. TypedFile
    <2>1. video \in VideoType /\ audio \in [AudioTracks -> AudioType] /\ movie \in MovieType
      BY <1>1, <1>2, <1>3
    <2>2. /\ video.stts \in Table(Words) /\ video.ctts \in Table(Words)
          /\ video.hasCtts \in BOOLEAN
      BY <2>1 DEF VideoType
    <2> QED
      BY <1>1, <1>2, <2>1, <2>2 DEF TypedFile, TablesOf
  <1>5. TypedEditor
    <2>1. /\ Zeroes \in [Slots -> Int] /\ Zeroes \in [Slots -> Nat]
          /\ Permutation(Identity) /\ Identity \in [Slots -> Slots]
      BY DEF Zeroes, Permutation, Identity
    <2>2. 0 \in 0 .. MaxRuns /\ "closed" \in PCs /\ "closed" \notin Editing
      BY MaxRunsAssumption DEF PCs, Editing
    <2>3. /\ dts = Zeroes /\ cts = Zeroes /\ ctsIndex = Identity
          /\ timeScale = 1 /\ initialDelay = 0 /\ compressDTS = FALSE /\ audioDelay = 0
          /\ asked = Zeroes /\ pc = "closed" /\ runs = 0
      BY DEF Init, Identity
    <2>4. dts \in [Slots -> Int] /\ cts \in [Slots -> Int] /\ asked \in [Slots -> Nat]
      BY <2>1, <2>3
    <2>5. Permutation(ctsIndex)
      BY <2>1, <2>3
    <2>6. timeScale \in Nat \ {0} /\ initialDelay \in Nat /\ audioDelay \in Int
      <3>1. timeScale = 1 /\ initialDelay = 0 /\ audioDelay = 0
        BY <2>3
      <3> QED
        BY <3>1
    <2>7. compressDTS \in BOOLEAN
      BY <2>3, Zenon
    <2> QED
      BY <2>2, <2>3, <2>4, <2>5, <2>6, <2>7 DEF TypedEditor
  <1>6. Ends
    BY DEF Init, Ends
  <1> QED
    BY <1>4, <1>5, <1>6 DEF TypeInv

LEMMA OpenTypes ==
    ASSUME TypeInv, Open
    PROVE  TypeInv'
  <1>1. /\ UNCHANGED <<video, audio, movie, loop, asked, runs>>
        /\ pc = "closed" /\ pc' = "loaded" /\ runs < MaxRuns
        /\ timeScale' = video.timeScale /\ initialDelay' = 0
        /\ compressDTS' \in BOOLEAN /\ audioDelay' \in Delays
        /\ dts' = LoadDTS(video.stts)
        /\ \E p \in SortedOrders(Loaded(video)) :
              /\ ctsIndex' = p
              /\ cts' = [n \in Slots |-> Loaded(video)[p[n]]]
    BY DEF Open, boxes, Loaded
  <1>2. TypedFile /\ TablesOf(video) /\ video \in VideoType
    BY DEF TypeInv, TypedFile
  <1>3. TypedFile'
    BY <1>1, <1>2 DEF TypedFile, TablesOf
  <1>4. Loaded(video) \in [Slots -> Int] /\ dts' \in [Slots -> Int]
    <2>1. LoadDTS(video.stts) \in [Slots -> Nat]
      BY <1>2, LoadedDecoding DEF TablesOf
    <2> QED
      BY <1>1, <1>2, <2>1, LoadedTimes
  <1>5. PICK p \in SortedOrders(Loaded(video)) :
           /\ ctsIndex' = p
           /\ cts' = [n \in Slots |-> Loaded(video)[p[n]]]
    BY <1>1
  <1>6. Permutation(p) /\ p \in [Slots -> Slots]
    BY DEF SortedOrders, Permutation
  <1>7. cts' \in [Slots -> Int]
    BY <1>4, <1>5, <1>6
  <1>8. timeScale' \in Nat \ {0} /\ audioDelay' \in Int
    BY <1>1, <1>2, DelaysAssumption DEF VideoType
  <1>9. Permutation(ctsIndex)'
    BY <1>5, <1>6 DEF TypeInv, TypedEditor, Permutation
  <1>10. TypedEditor'
    BY <1>1, <1>4, <1>7, <1>8, <1>9 DEF TypeInv, TypedEditor, PCs, Editing
  <1>11. Ends'
    BY <1>1 DEF Ends
  <1> QED
    BY <1>3, <1>10, <1>11 DEF TypeInv

LEMMA ChosenTyped ==
    ASSUME TenTicksFit, NEW fps \in FrameRateLists, NEW current \in Nat \ {0},
           Frames(Normalized(fps)) % Word = LastSlot
    PROVE  ChosenTimeScale(Normalized(fps), fps.scale, current) \in Nat \ {0}
  <1> DEFINE ranges == Normalized(fps)
  <1>1. /\ ranges \in Seq(RateRange) /\ fps.scale \in Int
        /\ Frames(ranges) = LastSlot /\ Len(ranges) # 0
    BY NormalizedTyped
  <1>2. CASE fps.scale = 0
    <2>1. CalcSampleTimes(ranges, 10)[Frames(ranges)] <= MaxDuration
      BY <1>1 DEF TenTicksFit
    <2> HIDE DEF ranges
    <2>2. ChosenTimeScale(ranges, 0, current) \in 1 .. IntModulus - 1
      BY <1>1, <2>1, ChosenFits
    <2>3. ChosenTimeScale(ranges, 0, current) \in Nat \ {0}
      BY <2>2, IntModulusAssumption
    <2> QED
      BY <1>2, <2>3 DEF ranges
  <1>3. CASE fps.scale # 0
    <2> HIDE DEF ranges
    <2>1. ChosenTimeScale(ranges, fps.scale, current)
             = IF fps.scale > 0 THEN fps.scale ELSE current
      BY <1>3 DEF ChosenTimeScale
    <2> QED
      BY <1>1, <1>3, <2>1 DEF ranges
  <1> QED
    BY <1>2, <1>3

\* the editor is given times, and the boxes stay
LEMMA GivenTypes ==
    ASSUME TypeInv, Usable', pc = "loaded", pc' \in {"timed", "failed"},
           UNCHANGED <<boxes, ctsIndex, initialDelay, options, runs>>,
           timeScale' \in Nat \ {0},
           pc' = "failed" => UNCHANGED <<dts, cts, asked>>,
           pc' = "timed" => dts' = asked' /\ cts' = asked'
    PROVE  TypeInv'
  <1>1. UNCHANGED <<video, audio, movie, ctsIndex, initialDelay, compressDTS, audioDelay,
                    runs>>
    BY DEF boxes, options
  <1>2. TypedFile'
    BY <1>1 DEF TypeInv, TypedFile, TablesOf
  <1>3. asked' \in [Slots -> Nat] /\ dts' \in [Slots -> Int] /\ cts' \in [Slots -> Int]
    <2>1. CASE pc' = "timed"
      <3>1. asked' \in [Slots -> Nat]
        BY <2>1 DEF Usable, Spaced
      <3>2. asked' \in [Slots -> Int]
        BY <3>1
      <3> QED
        BY <2>1, <3>1, <3>2
    <2>2. CASE pc' = "failed"
      BY <2>2 DEF TypeInv, TypedEditor
    <2> QED
      BY <2>1, <2>2
  <1>4. Permutation(ctsIndex)'
    BY <1>1 DEF TypeInv, TypedEditor, Permutation
  <1>5. TypedEditor'
    BY <1>1, <1>3, <1>4 DEF TypeInv, TypedEditor, PCs, Editing
  <1>6. Ends'
    BY DEF Ends
  <1> QED
    BY <1>2, <1>5, <1>6 DEF TypeInv

LEMMA TimesGivenTypes ==
    ASSUME TenTicksFit, TypeInv, Usable',
           \/ \E fps \in FrameRateLists : SetFPS(fps)
           \/ \E list \in TimeCodeLists : SetTimeCodes(list)
           \/ KeepTimeCodes
    PROVE  TypeInv'
  <1>1. timeScale \in Nat \ {0}
    BY DEF TypeInv, TypedEditor
  <1>2. ASSUME NEW fps \in FrameRateLists, SetFPS(fps)
        PROVE  TypeInv'
    <2>1. CASE Frames(Normalized(fps)) % Word # LastSlot
      <3>1. /\ pc = "loaded" /\ pc' = "failed"
            /\ UNCHANGED <<boxes, ctsIndex, initialDelay, options, runs>>
            /\ UNCHANGED <<dts, cts, asked, timeScale>>
        BY <1>2, <2>1 DEF SetFPS, Normalized, times
      <3> QED
        BY <1>1, <3>1, GivenTypes
    <2>2. CASE Frames(Normalized(fps)) % Word = LastSlot
      <3>1. /\ pc = "loaded" /\ pc' = "timed"
            /\ UNCHANGED <<boxes, ctsIndex, initialDelay, options, runs>>
            /\ dts' = asked' /\ cts' = asked'
            /\ timeScale' = ChosenTimeScale(Normalized(fps), fps.scale, timeScale)
        BY <1>2, <2>2 DEF SetFPS, Normalized, GiveTimes
      <3>2. timeScale' \in Nat \ {0}
        BY <1>1, <2>2, <3>1, ChosenTyped
      <3> QED
        BY <3>1, <3>2, GivenTypes
    <2> QED
      BY <2>1, <2>2
  <1>3. ASSUME NEW list \in TimeCodeLists, SetTimeCodes(list)
        PROVE  TypeInv'
    <2>1. /\ pc = "loaded"
          /\ UNCHANGED <<boxes, ctsIndex, initialDelay, options, runs>>
      BY <1>3 DEF SetTimeCodes
    <2>2. \/ pc' = "failed" /\ UNCHANGED <<dts, cts, asked, timeScale>>
          \/ pc' = "timed" /\ dts' = asked' /\ cts' = asked' /\ timeScale' = list.scale
      BY <1>3 DEF SetTimeCodes, GiveTimes, times
    <2>3. timeScale' \in Nat \ {0}
      BY <1>1, <2>2, TimeCodeListsAssumption
    <2> QED
      BY <2>1, <2>2, <2>3, GivenTypes
  <1>4. CASE KeepTimeCodes
    <2>1. /\ pc = "loaded" /\ pc' = "timed"
          /\ UNCHANGED <<boxes, ctsIndex, initialDelay, options, runs, timeScale>>
          /\ dts' = asked' /\ cts' = asked'
      BY <1>4 DEF KeepTimeCodes, GiveTimes
    <2> QED
      BY <1>1, <2>1, GivenTypes
  <1> QED
    BY <1>2, <1>3, <1>4

\* said so that it holds of the next state, too
LEMMA TimesWhileEditing ==
    Inv /\ pc \in Editing /\ Spaced(1) => dts \in [Slots -> Int] /\ cts \in [Slots -> Int]
  BY TimesTyped

\* while AdjustTimeCodes runs, the boxes and what was asked for stay
LEMMA AdjustEditor ==
    ASSUME TypeInv, Usable, Inv', Unadjusted, pc \in Editing \ {"edited"},
           pc' \in Editing \ {"edited"}, initialDelay' \in Nat
    PROVE  TypedFile' /\ TypedEditor'
  <1>1. UNCHANGED <<video, audio, movie, ctsIndex, asked, timeScale, runs,
                    compressDTS, audioDelay>>
    BY DEF Unadjusted, boxes, history, options
  <1>2. TypedFile'
    BY <1>1 DEF TypeInv, TypedFile, TablesOf
  <1>3. Spaced(1) /\ Spaced(1)'
    <2>1. Spaced(1)
      BY DEF TypeInv, TypedEditor, Usable
    <2> QED
      BY <1>1, <2>1 DEF Spaced
  <1>4. dts' \in [Slots -> Int] /\ cts' \in [Slots -> Int]
    <2>1. (pc \in Editing)'
      OBVIOUS
    <2>2. (dts \in [Slots -> Int] /\ cts \in [Slots -> Int])'
      BY <1>3, <2>1, TimesWhileEditing, PTL
    <2> QED
      BY <2>2
  <1>5. Permutation(ctsIndex)'
    BY <1>1 DEF TypeInv, TypedEditor, Permutation
  <1>6. TypedEditor'
    BY <1>1, <1>3, <1>4, <1>5 DEF TypeInv, TypedEditor, PCs, Editing
  <1> QED
    BY <1>2, <1>6

\* times that rise from some frame on
LEMMA RisingFrom ==
    ASSUME NEW t \in [Slots -> Int], NEW k \in Slots,
           \A i \in Frame : k <= i => t[i] < t[i + 1]
    PROVE  t[k] <= t[LastSlot]
  <1> DEFINE S == {i \in k .. LastSlot : t[k] <= t[i]}
  <1>1. k \in Nat /\ k <= LastSlot /\ LastSlot \in Nat
    BY LastSlotAssumption DEF Slots
  <1>2. k \in S
    BY <1>1
  <1>3. ASSUME NEW i \in k .. LastSlot - 1, i \in S PROVE i + 1 \in S
    <2>1. i \in Frame /\ k <= i /\ i \in Slots /\ i + 1 \in Slots /\ i + 1 \in k .. LastSlot
      BY <1>1 DEF Frame, Slots
    <2>2. t[i] < t[i + 1] /\ t[k] <= t[i] /\ t[k] \in Int /\ t[i] \in Int /\ t[i + 1] \in Int
      BY <1>3, <2>1
    <2>3. t[k] <= t[i + 1]
      BY <2>2
    <2> QED
      BY <2>1, <2>3
  <1> HIDE DEF S
  <1>4. k .. LastSlot \subseteq S
    <2>1. k \in Int /\ LastSlot \in Int
      BY <1>1
    <2> QED
      BY <1>2, <1>3, <2>1, IntervalInduction
  <1>5. LastSlot \in S
    BY <1>1, <1>4
  <1> QED
    BY <1>5 DEF S

\* CompressTimeCodes stops where the next time is later than the last one
LEMMA CaughtUpLater ==
    ASSUME NEW x \in Int, NEW prev \in Nat, NEW off \in Nat \ {0},
           NEW num \in Nat \ {0}, NEW den \in Nat \ {0}, NEW offset \in Nat,
           (x - offset - prev) * den >= off * num
    PROVE  x - offset > prev
  <1> DEFINE y == x - offset - prev
  <1>1. y \in Int
    OBVIOUS
  <1>2. y * den >= off * num
    OBVIOUS
  <1>3. off * num >= 1
    <2>1. off * 1 <= off * num
      BY Monotone
    <2> QED
      BY <2>1
  <1> HIDE DEF y
  <1>4. y > 0
    <2> SUFFICES ASSUME y <= 0 PROVE FALSE
      BY <1>1
    <2>1. den * y <= den * 0
      BY <1>1, Monotone
    <2>2. den * y = y * den /\ den * 0 = 0
      BY <1>1
    <2> DEFINE p == y * den
               q == off * num
    <2>3. p \in Int /\ q \in Int
      BY <1>1
    <2>4. p >= q /\ q >= 1 /\ p <= 0
      BY <1>2, <1>3, <2>1, <2>2
    <2> HIDE DEF p, q
    <2> QED
      BY <2>3, <2>4
  <1> QED
    BY <1>4 DEF y

LEMMA CompressEnds ==
    ASSUME TypeInv, Inv, Inv', CompressCTS
    PROVE  Ends'
  <1>1. /\ pc = "compressCTS" /\ pc' \in {"compressCTS", "measure"}
        /\ UNCHANGED <<asked, timeScale>>
    BY DEF CompressCTS, Unadjusted, history
  <1>2. Spaced(1) /\ Spaced(1)'
    <2>1. Spaced(1)
      BY <1>1 DEF TypeInv, TypedEditor, Editing
    <2> QED
      BY <1>1, <2>1 DEF Spaced
  <1>3. CompressLoop(cts, loop, asked) /\ cts[0] = 0
    BY <1>1, <1>2 DEF Inv, Stage, Editing
  <1>4. LastSlot \in Nat \ {0} /\ 0 \in Slots /\ LastSlot \in Slots
    BY LastSlotAssumption DEF Slots
  <1>5. CASE Ctsf!EnterCompress(AudioDelayInTimeScale) /\ pc' = "compressCTS"
    <2>1. loop'.n = 1 /\ ~ (1 > LastSlot)
      BY <1>4, <1>5 DEF Ctsf!EnterCompress
    <2> QED
      BY <1>5, <2>1 DEF Ends
  <1>6. CASE Ctsf!CompressFrame /\ pc' = "compressCTS"
    <2>1. CompressLoop(cts', loop', asked')
      <3>1. (pc \in Editing)' /\ (pc = "compressCTS")'
        BY <1>6 DEF Editing
      <3>2. Stage'
        BY <1>2, <3>1 DEF Inv
      <3> QED
        BY <3>1, <3>2 DEF Stage
    <2> SUFFICES ASSUME loop'.code = "compress", loop'.n > LastSlot
                 PROVE  cts'[LastSlot] >= 0
      BY <1>6 DEF Ends
    <2>2. /\ loop.n <= LastSlot
          /\ cts' = [cts EXCEPT ![loop.n] = Ctsf!CompressedCode]
          /\ loop' = [loop EXCEPT !.n = loop.n + 1, !.prev = Ctsf!CompressedCode]
          /\ loop.code = "compress"
      BY <1>6 DEF Ctsf!CompressFrame, Ctsf!Compressing
    <2>3. loop \in LoopRecord /\ cts \in [Slots -> Int]
      BY <1>3, <2>2 DEF CompressLoop, Ctsf!Idle
    <2>4. loop'.n = loop.n + 1 /\ loop'.prev = Ctsf!CompressedCode /\ loop.n \in Nat
      BY <2>2, <2>3 DEF LoopRecord
    <2>5. loop.n = LastSlot
      BY <1>4, <2>2, <2>4
    <2>6. cts'[LastSlot] = Ctsf!CompressedCode
      BY <1>4, <2>2, <2>3, <2>5
    <2>7. loop'.prev \in Nat
      BY <2>1 DEF CompressLoop, Ctsf!Idle, Backward
    <2> QED
      BY <2>4, <2>6, <2>7
  <1>7. CASE Ctsf!CompressTail /\ pc' = "measure"
    <2>1. /\ loop.code = "compress" /\ ~ Ctsf!Compressing
          /\ cts' = [i \in Slots |-> IF i < loop.n THEN cts[i] ELSE cts[i] - loop.offset]
      BY <1>7 DEF Ctsf!CompressTail, Slots, Ctsf!Slots
    <2>2. /\ loop \in LoopRecord /\ loop.n > 0 /\ cts \in [Slots -> Int]
          /\ Backward(cts, loop)
      BY <1>3, <2>1 DEF CompressLoop, Ctsf!Idle
    <2>3. /\ loop.n \in Nat /\ loop.offset \in Nat /\ loop.off \in Nat \ {0}
          /\ loop.num \in Nat \ {0} /\ loop.den \in Nat \ {0} /\ loop.prev \in Nat
      BY <2>2 DEF LoopRecord, Backward
    <2>4. cts'[0] = 0
      BY <1>3, <1>4, <2>1, <2>2, <2>3
    <2>5. cts'[LastSlot] >= 0
      <3>1. CASE loop.n > LastSlot
        <4>1. cts[LastSlot] >= 0
          BY <1>1, <2>1, <3>1 DEF TypeInv, Ends
        <4> QED
          BY <1>4, <2>1, <2>3, <3>1, <4>1
      <3>2. CASE loop.n <= LastSlot
        <4>1. loop.n \in Slots
          BY <2>3, <3>2 DEF Slots
        <4>2. cts[loop.n] <= cts[LastSlot]
          <5>1. \A i \in Frame : loop.n <= i => cts[i] < cts[i + 1]
            BY <2>2 DEF Backward
          <5> QED
            BY <2>2, <4>1, <5>1, RisingFrom
        <4>3. (cts[loop.n] - loop.offset - loop.prev) * loop.den >= loop.off * loop.num
          BY <2>1, <3>2 DEF Ctsf!Compressing, Ctsf!CaughtUp
        <4>4. cts[loop.n] \in Int /\ cts[LastSlot] \in Int
          BY <1>4, <2>2, <4>1
        <4>5. cts[loop.n] - loop.offset > loop.prev
          BY <2>3, <4>3, <4>4, CaughtUpLater
        <4>6. cts'[LastSlot] = cts[LastSlot] - loop.offset
          BY <1>4, <2>1, <2>3, <3>2
        <4> QED
          BY <2>3, <4>2, <4>4, <4>5, <4>6
      <3> QED
        BY <1>4, <2>3, <3>1, <3>2
    <2> QED
      BY <1>7, <2>4, <2>5 DEF Ends
  <1> QED
    BY <1>5, <1>6, <1>7 DEF CompressCTS

\* all composition times move by the same offset
LEMMA OffsetEnds ==
    ASSUME cts \in [Slots -> Int], NEW off \in Int, OffsetCTS(off), cts[0] <= cts[LastSlot]
    PROVE  cts'[0] <= cts'[LastSlot]
  <1>1. 0 \in Slots /\ LastSlot \in Slots
    BY LastSlotAssumption DEF Slots
  <1>2. cts'[0] = cts[0] + off /\ cts'[LastSlot] = cts[LastSlot] + off
    BY <1>1 DEF OffsetCTS
  <1>3. cts[0] \in Int /\ cts[LastSlot] \in Int
    BY <1>1
  <1> QED
    BY <1>2, <1>3

LEMMA DelayTyped ==
    ASSUME TypeInv, NEW d \in Lateness \cup {0}, IsInitialDelay(d)
    PROVE  d \in Nat
  <1>1. Lateness \subseteq Int
    <2>1. /\ dts \in [Slots -> Int] /\ cts \in [Slots -> Int]
          /\ ctsIndex \in [Slots -> Slots]
      BY DEF TypeInv, TypedEditor, Permutation
    <2>2. \A n \in Slots : dts[ctsIndex[n]] - cts[n] \in Int
      BY <2>1
    <2> QED
      BY <2>2 DEF Lateness
  <1>2. d \in Int
    BY <1>1
  <1> QED
    BY <1>2 DEF IsInitialDelay

LEMMA AdjustTypes ==
    ASSUME TypeInv, Usable, Inv, Inv', Adjust
    PROVE  TypeInv'
  <1>1. /\ cts \in [Slots -> Int] /\ initialDelay \in Nat
        /\ pc \in Editing => Spaced(1)
    BY DEF TypeInv, TypedEditor, Usable
  <1>2. 0 \in Slots /\ LastSlot \in Slots
    BY LastSlotAssumption DEF Slots
  <1>3. CASE BeginAdjust \/ DelayCTS \/ DelayDTS
    <2>1. /\ Unadjusted /\ initialDelay' = initialDelay
          /\ pc \in Editing \ {"edited"}
          /\ pc' \in {"delayCTS", "delayDTS", "rebase"}
      BY <1>3 DEF BeginAdjust, DelayCTS, DelayDTS, Editing
    <2>2. pc' \in Editing \ {"edited"} /\ initialDelay' \in Nat
      BY <1>1, <2>1 DEF Editing
    <2>3. Ends'
      BY <2>1 DEF Ends
    <2> QED
      BY <2>1, <2>2, <2>3, AdjustEditor DEF TypeInv
  <1>4. CASE Rebase
    <2>1. /\ Unadjusted /\ initialDelay' = initialDelay /\ loop' = loop
          /\ pc = "rebase" /\ pc' \in {"compressCTS", "measure"} /\ OffsetCTS(-cts[0])
      BY <1>4 DEF Rebase
    <2>2. pc \in Editing \ {"edited"} /\ pc' \in Editing \ {"edited"} /\ initialDelay' \in Nat
      BY <1>1, <2>1 DEF Editing
    <2>3. loop = Ctsf!Idle /\ Shifted(cts, asked)
      BY <1>1, <2>1, <2>2 DEF Inv, Framing, LoopPcs, Stage
    <2>4. cts[0] <= cts[LastSlot]
      <3>1. ASSUME NEW i \in Frame PROVE cts[i] < cts[i + 1]
        <4>1. cts[i + 1] > cts[i]
          BY <2>3 DEF Shifted, Rising
        <4>2. i \in Slots /\ i + 1 \in Slots
          BY SlotsFacts
        <4>3. cts[i] \in Int /\ cts[i + 1] \in Int
          BY <1>1, <4>2
        <4> QED
          BY <4>1, <4>3
      <3> QED
        BY <1>1, <1>2, <3>1, RisingFrom
    <2>5. cts'[0] <= cts'[LastSlot]
      <3>1. -cts[0] \in Int
        BY <1>1, <1>2
      <3> QED
        BY <1>1, <2>1, <2>4, <3>1, OffsetEnds
    <2>6. loop'.code # "compress"
      BY <2>1, <2>3 DEF Ctsf!Idle
    <2>7. Ends'
      BY <2>5, <2>6 DEF Ends
    <2> QED
      BY <2>1, <2>2, <2>7, AdjustEditor DEF TypeInv
  <1>5. CASE CompressCTS
    <2>1. /\ Unadjusted /\ initialDelay' = initialDelay
          /\ pc = "compressCTS" /\ pc' \in {"compressCTS", "measure"}
      BY <1>5 DEF CompressCTS
    <2>2. pc \in Editing \ {"edited"} /\ pc' \in Editing \ {"edited"} /\ initialDelay' \in Nat
      BY <1>1, <2>1 DEF Editing
    <2>3. Ends'
      BY <1>5, CompressEnds
    <2> QED
      BY <2>1, <2>2, <2>3, AdjustEditor DEF TypeInv
  <1>6. CASE Measure \/ Remeasure
    <2>1. PICK d \in Lateness \cup {0} :
             /\ IsInitialDelay(d) /\ initialDelay' = d
             /\ cts' = cts \/ OffsetCTS(d)
      BY <1>6 DEF Measure, Remeasure
    <2>2. /\ Unadjusted /\ pc \in {"measure", "remeasure"}
          /\ pc' \in {"compressDTS", "adjusted"}
      BY <1>6 DEF Measure, Remeasure
    <2>3. d \in Nat
      BY <2>1, DelayTyped
    <2>4. pc \in Editing \ {"edited"} /\ pc' \in Editing \ {"edited"} /\ initialDelay' \in Nat
      BY <2>1, <2>2, <2>3 DEF Editing
    <2>5. cts'[0] <= cts'[LastSlot]
      <3>1. cts[0] <= cts[LastSlot]
        BY <2>2 DEF TypeInv, Ends
      <3>2. CASE OffsetCTS(d)
        <4>1. d \in Int
          BY <2>3
        <4> QED
          BY <1>1, <3>1, <3>2, <4>1, OffsetEnds
      <3> QED
        BY <2>1, <3>1, <3>2
    <2>6. Ends'
      BY <2>2, <2>5 DEF Ends
    <2> QED
      BY <2>2, <2>4, <2>6, AdjustEditor DEF TypeInv
  <1>7. CASE CompressDTS
    <2>1. /\ Unadjusted /\ UNCHANGED <<cts, initialDelay>>
          /\ pc = "compressDTS" /\ pc' \in {"compressDTS", "remeasure"}
      BY <1>7 DEF CompressDTS
    <2>2. pc \in Editing \ {"edited"} /\ pc' \in Editing \ {"edited"} /\ initialDelay' \in Nat
      BY <1>1, <2>1 DEF Editing
    <2>3. Ends'
      BY <2>1 DEF TypeInv, Ends
    <2> QED
      BY <2>1, <2>2, <2>3, AdjustEditor DEF TypeInv
  <1> QED
    BY <1>3, <1>4, <1>5, <1>6, <1>7 DEF Adjust

LEMMA EditListTyped ==
    ASSUME NEW mediaTime \in Int, NEW tkhd \in Nat
    PROVE  UpdateElst(mediaTime, tkhd) \in Seq(EditEntry)
  <1>1. [mediaTime |-> mediaTime, duration |-> tkhd] \in EditEntry
    BY DEF EditEntry
  <1> QED
    BY <1>1 DEF UpdateElst

LEMMA FinitePair ==
    ASSUME NEW x, NEW y
    PROVE  IsFiniteSet({x, y})
  <1>1. IsFiniteSet({x})
    BY FS_Singleton
  <1>2. IsFiniteSet({x} \cup {y})
    BY <1>1, FS_AddElement
  <1>3. {x} \cup {y} = {x, y}
    OBVIOUS
  <1> QED
    BY <1>2, <1>3

LEMMA FiniteImage ==
    ASSUME NEW tracks
    PROVE  IsFiniteSet({tracks[a].tkhd : a \in AudioTracks})
  <1> DEFINE T == {tracks[a].tkhd : a \in AudioTracks}
             f == [a \in AudioTracks |-> tracks[a].tkhd]
  <1>1. f \in Surjection(AudioTracks, T)
    BY DEF Surjection
  <1> HIDE DEF f, T
  <1>2. IsFiniteSet(T)
    BY <1>1, AudioTracksAssumption, FS_Surjection
  <1> QED
    BY <1>2 DEF T

LEMMA EditTypes ==
    ASSUME TypeInv, Inv, DoEditTimeCodes
    PROVE  TypeInv'
  <1>1. /\ pc = "adjusted" /\ pc' = "edited"
        /\ UNCHANGED <<dts, cts, ctsIndex, timeScale, initialDelay, compressDTS,
                       audioDelay, asked, runs>>
    BY DEF DoEditTimeCodes, times, options, history
  <1>2. /\ video \in VideoType /\ audio \in [AudioTracks -> AudioType]
        /\ movie \in MovieType /\ TablesOf(video)
        /\ dts \in [Slots -> Int] /\ cts \in [Slots -> Int] /\ Permutation(ctsIndex)
        /\ timeScale \in Nat \ {0} /\ initialDelay \in Nat /\ audioDelay \in Int
        /\ Spaced(1)
    BY <1>1 DEF TypeInv, TypedFile, TypedEditor, Editing
  <1>3. SampleCTS \in [Slots -> Int]
    BY <1>2, SampleTimes
  <1>4. /\ UpdateStts(dts) \in Table(Words) /\ Len(Expand(UpdateStts(dts))) = LastSlot
        /\ UpdateCtts(dts, SampleCTS) \in Table(Words)
        /\ Len(Expand(UpdateCtts(dts, SampleCTS))) = LastSlot
    <2>1. LastSlot \in Nat /\ Slots = 0 .. LastSlot
      BY LastSlotAssumption DEF Slots
    <2>2. /\ UpdateStts(dts) \in Table(0 .. Word - 1)
          /\ Expand(UpdateStts(dts)) = [i \in 1 .. LastSlot |-> Delta(dts, i) % Word]
      BY <1>2, <2>1, WrittenStts
    <2>3. /\ UpdateCtts(dts, SampleCTS) \in Table(0 .. Word - 1)
          /\ Expand(UpdateCtts(dts, SampleCTS))
               = [i \in 1 .. LastSlot |-> (SampleCTS[i - 1] - dts[i - 1]) % Word]
      BY <1>2, <1>3, <2>1, WrittenCtts
    <2>4. Len(Expand(UpdateStts(dts))) = LastSlot
      BY <2>1, <2>2
    <2>5. Len(Expand(UpdateCtts(dts, SampleCTS))) = LastSlot
      BY <2>1, <2>3
    <2> QED
      BY <2>2, <2>3, <2>4, <2>5 DEF Words
  <1>5. MediaDuration \in Nat
    <2>1. cts[0] <= cts[LastSlot]
      BY <1>1 DEF TypeInv, Ends
    <2>2. cts[0] \in Int /\ cts[LastSlot] \in Int
      BY <1>2, SlotsFacts, LastSlotAssumption DEF Slots
    <2> QED
      BY <2>1, <2>2 DEF MediaDuration
  <1>6. AudioDelayInTimeScale \in Int
    <2>1. timeScale \in Nat
      BY <1>2
    <2> QED
      BY <1>2, <2>1, WholeTicks DEF AudioDelayInTimeScale
  <1>7. /\ video.timeScale \in Nat \ {0} /\ video.duration \in Nat /\ video.tkhd \in Nat
        /\ video.hasCtts \in BOOLEAN /\ video.ctts \in Table(Words)
    BY <1>2 DEF VideoType
  <1>8. UpdateElst(VideoEdit, video.tkhd) \in Seq(EditEntry)
    <2>1. VideoEdit \in Int
      BY <1>2, <1>6 DEF VideoEdit
    <2> QED
      BY <1>7, <2>1, EditListTyped
  <1> DEFINE newScale == IF MdhdIsStale THEN timeScale ELSE video.timeScale
             newDuration == IF MdhdIsStale THEN MediaDuration ELSE video.duration
             newStts == UpdateStts(dts)
             newCtts == IF video.hasCtts THEN UpdateCtts(dts, SampleCTS) ELSE video.ctts
             newElst == UpdateElst(VideoEdit, video.tkhd)
  <1>9. video' = [video EXCEPT !.timeScale = newScale, !.duration = newDuration,
                               !.stts = newStts, !.ctts = newCtts, !.elst = newElst]
    BY DEF DoEditTimeCodes
  <1>10. /\ newScale \in Nat \ {0} /\ newDuration \in Nat /\ newStts \in Table(Words)
         /\ newCtts \in Table(Words) /\ newElst \in Seq(EditEntry)
         /\ Len(Expand(newStts)) = LastSlot
         /\ video.hasCtts => Len(Expand(newCtts)) = LastSlot
    BY <1>2, <1>4, <1>5, <1>7, <1>8
  <1> HIDE DEF newScale, newDuration, newStts, newCtts, newElst
  <1>11. /\ video' \in VideoType /\ video'.stts = newStts /\ video'.ctts = newCtts
         /\ video'.hasCtts = video.hasCtts
    BY <1>2, <1>9, <1>10 DEF VideoType
  <1>12. TablesOf(video')
    BY <1>7, <1>10, <1>11 DEF TablesOf
  <1>13. audio' \in [AudioTracks -> AudioType]
    <2>1. audio' = [a \in AudioTracks |->
                      [audio[a] EXCEPT !.elst = UpdateElst(AudioEdit(a), audio[a].tkhd)]]
      BY DEF DoEditTimeCodes
    <2>2. ASSUME NEW a \in AudioTracks
          PROVE  [audio[a] EXCEPT !.elst = UpdateElst(AudioEdit(a), audio[a].tkhd)]
                    \in AudioType
      <3> DEFINE e == UpdateElst(AudioEdit(a), audio[a].tkhd)
      <3>1. audio[a] \in AudioType
        BY <1>2
      <3>2. audio[a].tkhd \in Nat /\ audio[a].timeScale \in Nat
        BY <3>1 DEF AudioType
      <3>3. AudioEdit(a) \in Int
        <4>1. -audioDelay \in Int
          BY <1>2
        <4>2. InTicks(-audioDelay, audio[a].timeScale) \in Int
          BY <3>2, <4>1, WholeTicks
        <4> QED
          BY <4>2 DEF AudioEdit
      <3>4. e \in Seq(EditEntry)
        BY <3>2, <3>3, EditListTyped
      <3> HIDE DEF e
      <3>5. [audio[a] EXCEPT !.elst = e] \in AudioType
        BY <3>1, <3>4 DEF AudioType
      <3> QED
        BY <3>5 DEF e
    <2> QED
      BY <2>1, <2>2
  <1>14. movie' \in MovieType
    <2>1. movie' = [movie EXCEPT !.duration = IF MdhdIsStale THEN LongestTrack ELSE @]
      BY DEF DoEditTimeCodes
    <2>2. LongestTrack \in Nat
      <3> DEFINE S == {0, video.tkhd} \cup {audio[a].tkhd : a \in AudioTracks}
      <3>1. S \subseteq Nat /\ S # {}
        <4>1. ASSUME NEW a \in AudioTracks PROVE audio[a].tkhd \in Nat
          <5>1. audio[a] \in AudioType
            BY <1>2
          <5> QED
            BY <5>1 DEF AudioType
        <4> QED
          BY <1>7, <4>1
      <3>2. IsFiniteSet(S)
        <4>1. IsFiniteSet({audio[a].tkhd : a \in AudioTracks})
          BY FiniteImage
        <4>2. IsFiniteSet({0, video.tkhd})
          BY FinitePair
        <4> QED
          BY <4>1, <4>2, FS_Union
      <3> HIDE DEF S
      <3>3. Max(S) \in S
        BY <3>1, <3>2, MaxOfFinite
      <3> QED
        BY <3>1, <3>3 DEF LongestTrack, S
    <2> QED
      BY <1>2, <2>1, <2>2 DEF MovieType
  <1>15. TypedFile'
    BY <1>11, <1>12, <1>13, <1>14 DEF TypedFile, TablesOf
  <1>16. TypedEditor'
    <2>1. Permutation(ctsIndex)' /\ Spaced(1)'
      BY <1>1, <1>2 DEF Permutation, Spaced
    <2> QED
      BY <1>1, <2>1 DEF TypeInv, TypedEditor, PCs, Editing
  <1>17. Ends'
    BY <1>1 DEF Ends
  <1> QED
    BY <1>15, <1>16, <1>17 DEF TypeInv

LEMMA FinishTyped ==
    ASSUME TypeInv, NEW track, track.timeScale \in Nat \ {0}, track.duration \in Nat,
           track.elst \in Seq(EditEntry)
    PROVE  (IF track.elst = <<>> THEN ToMovieDuration(track)
            ELSE EditTotalDuration(track.elst)) \in Nat
  <1>1. ToMovieDuration(track) \in Nat
    <2>1. movie.timeScale \in Nat
      BY DEF TypeInv, TypedFile, MovieType
    <2> DEFINE p == track.duration * movie.timeScale
    <2>2. p \in Nat
      BY <2>1
    <2>3. ToMovieDuration(track) = p \div track.timeScale
      BY DEF ToMovieDuration
    <2> HIDE DEF p
    <2> QED
      BY <2>2, <2>3
  <1>2. EditTotalDuration(track.elst) \in Nat
    <2>1. Len(track.elst) \in 0 .. Len(track.elst)
      OBVIOUS
    <2> QED
      BY <2>1, TotalFold
  <1> QED
    BY <1>1, <1>2

LEMMA SavedTypes ==
    ASSUME TypeInv, SaveCopy \/ SaveInPlace
    PROVE  TypeInv'
  <1>1. /\ pc' = "closed" /\ runs' = runs + 1 /\ pc # "closed"
        /\ UNCHANGED <<dts, cts, ctsIndex, timeScale, initialDelay, compressDTS,
                       audioDelay, asked>>
    BY DEF SaveCopy, SaveInPlace, Saved, Unmodified, times, options
  <1>2. /\ video \in VideoType /\ audio \in [AudioTracks -> AudioType]
        /\ movie \in MovieType /\ TablesOf(video)
        /\ runs \in 0 .. MaxRuns /\ runs < MaxRuns
    BY <1>1 DEF TypeInv, TypedFile, TypedEditor
  <1>3. TypedFile'
    <2>1. CASE SaveCopy
      BY <1>2, <2>1 DEF SaveCopy, boxes, TypedFile, TablesOf
    <2>2. CASE SaveInPlace
      <3> DEFINE x == IF video.elst = <<>> THEN ToMovieDuration(video)
                      ELSE EditTotalDuration(video.elst)
      <3>1. video' = [video EXCEPT !.tkhd = x]
        BY <2>2 DEF SaveInPlace, FinishWrite
      <3>2. x \in Nat
        <4>1. /\ video.timeScale \in Nat \ {0} /\ video.duration \in Nat
              /\ video.elst \in Seq(EditEntry)
          BY <1>2 DEF VideoType
        <4> QED
          BY <4>1, FinishTyped
      <3> HIDE DEF x
      <3>3. /\ video' \in VideoType /\ video'.stts = video.stts /\ video'.ctts = video.ctts
            /\ video'.hasCtts = video.hasCtts /\ video'.tkhd = x
        BY <1>2, <3>1, <3>2 DEF VideoType
      <3>4. TablesOf(video')
        BY <1>2, <3>3 DEF TablesOf
      <3>5. audio' \in [AudioTracks -> AudioType]
        <4>1. audio' = [a \in AudioTracks |-> FinishWrite(audio[a])]
          BY <2>2 DEF SaveInPlace
        <4>2. ASSUME NEW a \in AudioTracks PROVE FinishWrite(audio[a]) \in AudioType
          <5> DEFINE y == IF audio[a].elst = <<>> THEN ToMovieDuration(audio[a])
                          ELSE EditTotalDuration(audio[a].elst)
          <5>1. audio[a] \in AudioType
            BY <1>2
          <5>2. y \in Nat
            <6>1. /\ audio[a].timeScale \in Nat \ {0} /\ audio[a].duration \in Nat
                  /\ audio[a].elst \in Seq(EditEntry)
              BY <5>1 DEF AudioType
            <6> QED
              BY <6>1, FinishTyped
          <5>3. FinishWrite(audio[a]) = [audio[a] EXCEPT !.tkhd = y]
            BY DEF FinishWrite
          <5> HIDE DEF y
          <5> QED
            BY <5>1, <5>2, <5>3 DEF AudioType
        <4> QED
          BY <4>1, <4>2
      <3>6. movie' \in MovieType
        <4> DEFINE S == {movie.duration, video'.tkhd} \cup {audio'[a].tkhd : a \in AudioTracks}
        <4>1. movie' = [movie EXCEPT !.duration = Max(S)]
          BY <2>2 DEF SaveInPlace
        <4>2. S \subseteq Nat /\ S # {}
          <5>1. ASSUME NEW a \in AudioTracks PROVE audio'[a].tkhd \in Nat
            <6>1. audio'[a] \in AudioType
              BY <3>5
            <6> QED
              BY <6>1 DEF AudioType
          <5>2. movie.duration \in Nat /\ video'.tkhd \in Nat
            BY <1>2, <3>2, <3>3 DEF MovieType
          <5> QED
            BY <5>1, <5>2
        <4>3. IsFiniteSet(S)
          <5>1. IsFiniteSet({audio'[a].tkhd : a \in AudioTracks})
            BY FiniteImage
          <5>2. IsFiniteSet({movie.duration, video'.tkhd})
            BY FinitePair
          <5> QED
            BY <5>1, <5>2, FS_Union
        <4> HIDE DEF S
        <4>4. Max(S) \in Nat
          <5>1. S \in SUBSET Int
            BY <4>2
          <5>2. Max(S) \in S
            BY <4>2, <4>3, <5>1, MaxOfFinite
          <5> QED
            BY <4>2, <5>2
        <4> QED
          BY <1>2, <4>1, <4>4 DEF MovieType
      <3> QED
        BY <3>3, <3>4, <3>5, <3>6 DEF TypedFile, TablesOf
    <2> QED
      BY <2>1, <2>2
  <1>4. TypedEditor'
    <2>1. Permutation(ctsIndex)'
      BY <1>1 DEF TypeInv, TypedEditor, Permutation
    <2>2. runs' \in 0 .. MaxRuns
      BY <1>1, <1>2, MaxRunsAssumption
    <2> QED
      BY <1>1, <2>1, <2>2 DEF TypeInv, TypedEditor, PCs, Editing
  <1>5. Ends'
    BY <1>1 DEF Ends
  <1> QED
    BY <1>3, <1>4, <1>5 DEF TypeInv

LEMMA TypesNext ==
    ASSUME TenTicksFit, TypeInv, Inv, Inv', Usable, Usable', [Next]_vars
    PROVE  TypeInv'
  <1>1. CASE UNCHANGED vars
    <2>1. UNCHANGED <<video, audio, movie, dts, cts, ctsIndex, timeScale, initialDelay,
                      compressDTS, audioDelay, loop, pc, asked, runs>>
      BY <1>1 DEF vars, boxes, times, options, history
    <2> QED
      BY <2>1 DEF TypeInv, TypedFile, TypedEditor, Ends, TablesOf, Permutation, Spaced
  <1> QED
    BY <1>1, OpenTypes, TimesGivenTypes, AdjustTypes, EditTypes, SavedTypes DEF Next

(***************************************************************************)
(* Every variable keeps its type over any number of runs, as long as the   *)
(* time codes given to the editor are increasing: what is written into the *)
(* sample tables fits them, no time scale is zero and the media lasts no   *)
(* negative time.                                                          *)
(***************************************************************************)
THEOREM TypesKept == TenTicksFit => (Spec /\ []Usable => []TypeOK)
  <1> SUFFICES ASSUME TenTicksFit PROVE Spec /\ []Usable => []TypeOK
    OBVIOUS
  <1>1. TypeInv /\ Inv /\ Inv' /\ Usable /\ Usable' /\ [Next]_vars => TypeInv'
    BY TypesNext
  <1> QED
    BY <1>1, TypesFirst, TypesSuffice, Invariance, PTL DEF Spec
=============================================================================
