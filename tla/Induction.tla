------------------------------- MODULE Induction -------------------------------
(***************************************************************************)
(* Induction and recursion over intervals, said of sets and functions.     *)
(* The theorems on induction of the library take a predicate as their      *)
(* parameter; here it is a set and the step of a recursion is a function,  *)
(* so that the facts can be cited about the tables of a track, their       *)
(* running sums and the folds of the specifications.  All of it follows    *)
(* from the well-foundedness of the natural numbers.                       *)
(***************************************************************************)
EXTENDS Integers, SequencesExt, WellFoundedInduction, TLAPS

LEMMA LeastNatural ==
    ASSUME NEW T \in SUBSET Nat, T # {}
    PROVE  \E m \in T : \A n \in T : m <= n
  <1>1. IsWellFoundedOn(OpToRel(<, Nat), Nat)
    BY NatLessThanWellFounded
  <1>2. PICK m \in T : \A n \in T : ~ (<<n, m>> \in OpToRel(<, Nat))
    BY <1>1, WFMin
  <1>3. \A n \in T : ~ (n < m)
    BY <1>2 DEF OpToRel
  <1> QED
    BY <1>3

\* a set with a that holds the successor of each of its members before b
LEMMA IntervalInduction ==
    ASSUME NEW a \in Int, NEW b \in Int, NEW S,
           a <= b => a \in S,
           \A i \in a .. b - 1 : i \in S => i + 1 \in S
    PROVE  a .. b \subseteq S
  <1> DEFINE T == {n \in Nat : a + n <= b /\ a + n \notin S}
  <1> SUFFICES T = {}
    <2> SUFFICES ASSUME NEW i \in a .. b, T = {} PROVE i \in S
      OBVIOUS
    <2>1. i - a \in Nat /\ a + (i - a) = i /\ i <= b
      OBVIOUS
    <2>2. i - a \notin T
      OBVIOUS
    <2> HIDE DEF T
    <2>3. i - a \in T <=> i \notin S
      BY <2>1 DEF T
    <2> QED
      BY <2>2, <2>3
  <1> SUFFICES ASSUME T # {} PROVE FALSE
    OBVIOUS
  <1>1. T \in SUBSET Nat
    OBVIOUS
  <1>2. PICK m \in T : \A n \in T : m <= n
    BY <1>1, LeastNatural
  <1>3. m # 0
    BY <1>2
  <1>4. m - 1 \in Nat /\ ~ (m <= m - 1) /\ a + (m - 1) <= b
    BY <1>2, <1>3
  <1>5. a + (m - 1) \in S
    BY <1>2, <1>4
  <1>6. a + (m - 1) \in a .. b - 1 /\ a + (m - 1) + 1 = a + m
    BY <1>2, <1>4
  <1>7. a + m \in S
    BY <1>5, <1>6
  <1> QED
    BY <1>2, <1>7

\* from values that differ from their predecessors by a step
Stepped(h, a, b, base, step) ==
    h[a] = base /\ \A i \in a + 1 .. b : h[i] = step[<<i, h[i - 1]>>]

LEMMA Recursion ==
    ASSUME NEW a \in Int, NEW b \in Int, a <= b, NEW R, NEW base \in R,
           NEW step \in [(a + 1 .. b) \X R -> R]
    PROVE  \E h \in [a .. b -> R] : Stepped(h, a, b, base, step)
  <1> DEFINE Upto(k, h) == /\ h[a] = base
                           /\ \A i \in a + 1 .. k : h[i] = step[<<i, h[i - 1]>>]
             S == {k \in a .. b : \E h \in [a .. k -> R] : Upto(k, h)}
  <1>1. a \in S
    <2> DEFINE h == [i \in a .. a |-> base]
    <2>1. h \in [a .. a -> R]
      OBVIOUS
    <2>2. Upto(a, h)
      OBVIOUS
    <2> HIDE DEF h, Upto
    <2> QED
      BY <2>1, <2>2
  <1>2. ASSUME NEW k \in a .. b - 1, k \in S PROVE k + 1 \in S
    <2>1. PICK h \in [a .. k -> R] : Upto(k, h)
      BY <1>2
    <2> DEFINE g == [i \in a .. k + 1 |-> IF i = k + 1 THEN step[<<k + 1, h[k]>>]
                                          ELSE h[i]]
    <2>2. <<k + 1, h[k]>> \in (a + 1 .. b) \X R
      OBVIOUS
    <2>3. g \in [a .. k + 1 -> R]
      BY <2>2
    <2>4. ASSUME NEW i \in a + 1 .. k + 1 PROVE g[i] = step[<<i, g[i - 1]>>]
      <3>1. i - 1 \in a .. k /\ i - 1 \in a .. k + 1 /\ i - 1 # k + 1
        OBVIOUS
      <3>2. g[i - 1] = h[i - 1]
        BY <3>1
      <3>3. CASE i = k + 1
        <4>1. i - 1 = k /\ g[i] = step[<<k + 1, h[k]>>]
          BY <3>3
        <4> HIDE DEF g
        <4> QED
          BY <3>2, <3>3, <4>1
      <3>4. CASE i # k + 1
        <4>1. i \in a + 1 .. k /\ i \in a .. k + 1
          BY <3>4
        <4>2. g[i] = h[i]
          BY <3>4, <4>1
        <4> QED
          BY <2>1, <3>2, <4>1, <4>2
      <3> QED
        BY <3>3, <3>4
    <2>5. g[a] = base
      BY <2>1
    <2>6. k + 1 \in a .. b
      OBVIOUS
    <2> HIDE DEF g
    <2> QED
      BY <2>3, <2>4, <2>5, <2>6
  <1> HIDE DEF S
  <1>3. a .. b \subseteq S
    BY <1>1, <1>2, IntervalInduction
  <1>4. b \in S
    BY <1>3
  <1> QED
    BY <1>4 DEF S, Stepped

-----------------------------------------------------------------------------
(* Folds: what FoldLeft does with the indices of a sequence *)

LEMMA MaxIs ==
    ASSUME NEW S \in SUBSET Int, NEW m \in S, \A x \in S : x <= m
    PROVE  Max(S) = m
  <1>1. \A x \in S : m >= x
    OBVIOUS
  <1>2. Max(S) \in S /\ \A x \in S : Max(S) >= x
    BY <1>1 DEF Max
  <1>3. Max(S) >= m /\ m >= Max(S) /\ Max(S) \in Int /\ m \in Int
    BY <1>1, <1>2
  <1> QED
    BY <1>2, <1>3

LEMMA MaxInside ==
    ASSUME NEW n \in Int, NEW S \in SUBSET Int, S # {}, \A x \in S : x <= n
    PROVE  Max(S) \in S /\ \A x \in S : x <= Max(S)
  <1> DEFINE T == {n - x : x \in S}
  <1>1. T \in SUBSET Nat /\ T # {}
    <2>1. \A x \in S : n - x \in Nat
      OBVIOUS
    <2>2. PICK x \in S : TRUE
      OBVIOUS
    <2>3. n - x \in T
      BY <2>2
    <2> QED
      BY <2>1, <2>3
  <1>2. PICK d \in T : \A y \in T : d <= y
    BY <1>1, LeastNatural
  <1>3. PICK x \in S : d = n - x
    BY <1>2
  <1>4. \A y \in S : n - x <= n - y
    BY <1>2, <1>3
  <1>5. \A y \in S : y <= x
    BY <1>4
  <1> QED
    BY <1>5, MaxIs

LEMMA LastOfInterval ==
    ASSUME NEW k \in Nat \ {0}
    PROVE  Max(1 .. k) = k /\ (1 .. k) \ {k} = 1 .. k - 1
  <1>1. 1 .. k \in SUBSET Int /\ k \in 1 .. k /\ \A x \in 1 .. k : x <= k
    OBVIOUS
  <1>2. Max(1 .. k) = k
    BY <1>1, MaxIs
  <1>3. (1 .. k) \ {k} = 1 .. k - 1
    OBVIOUS
  <1> QED
    BY <1>2, <1>3

\* a set of indices is taken apart from its largest member down
Folded(it, n, base, step) ==
    it = [s \in SUBSET (1 .. n) |->
             IF s = {} THEN base ELSE step[<<Max(s), it[s \ {Max(s)}]>>]]

LEMMA FoldExists ==
    ASSUME NEW n \in Nat, NEW R, NEW base \in R, NEW step \in [(1 .. n) \X R -> R]
    PROVE  \E it \in [SUBSET (1 .. n) -> R] : Folded(it, n, base, step)
  <1> DEFINE S == {k \in 0 .. n :
                     \E it \in [SUBSET (1 .. k) -> R] : Folded(it, k, base, step)}
  <1>1. 0 \in S
    <2> DEFINE it == [s \in SUBSET (1 .. 0) |-> base]
    <2>1. \A s \in SUBSET (1 .. 0) : s = {}
      OBVIOUS
    <2>2. it \in [SUBSET (1 .. 0) -> R]
      OBVIOUS
    <2>3. [s \in SUBSET (1 .. 0) |->
             IF s = {} THEN base ELSE step[<<Max(s), it[s \ {Max(s)}]>>]] = it
      BY <2>1
    <2>4. Folded(it, 0, base, step)
      BY <2>3 DEF Folded
    <2>5. 0 \in 0 .. n
      OBVIOUS
    <2> HIDE DEF it
    <2> QED
      BY <2>2, <2>4, <2>5
  <1>2. ASSUME NEW k \in 0 .. n - 1, k \in S PROVE k + 1 \in S
    <2>1. PICK it \in [SUBSET (1 .. k) -> R] : Folded(it, k, base, step)
      BY <1>2
    <2> DEFINE m == k + 1
               jt == [s \in SUBSET (1 .. m) |->
                        IF m \in s THEN step[<<m, it[s \ {m}]>>] ELSE it[s]]
    <2>2. ASSUME NEW s \in SUBSET (1 .. m)
          PROVE  /\ m \in s => s \ {m} \in SUBSET (1 .. k) /\ Max(s) = m
                 /\ m \notin s => s \in SUBSET (1 .. k)
      <3>1. m \in s => Max(s) = m
        <4>1. s \in SUBSET Int /\ \A x \in s : x <= m
          OBVIOUS
        <4> QED
          BY <4>1, MaxIs
      <3> QED
        BY <3>1
    <2>3. jt \in [SUBSET (1 .. m) -> R]
      <3> SUFFICES ASSUME NEW s \in SUBSET (1 .. m)
                   PROVE (IF m \in s THEN step[<<m, it[s \ {m}]>>] ELSE it[s]) \in R
        OBVIOUS
      <3>1. m \in 1 .. n
        OBVIOUS
      <3> QED
        BY <2>2, <3>1
    <2>5. ASSUME NEW s \in SUBSET (1 .. m)
          PROVE  jt[s] = IF s = {} THEN base ELSE step[<<Max(s), jt[s \ {Max(s)}]>>]
      <3>1. CASE m \in s
        <4>1. s \ {m} \in SUBSET (1 .. m) /\ m \notin s \ {m}
          OBVIOUS
        <4>2. jt[s \ {m}] = it[s \ {m}]
          BY <4>1
        <4> QED
          BY <2>2, <3>1, <4>2
      <3>2. CASE m \notin s
        <4>1. jt[s] = it[s] /\ s \in SUBSET (1 .. k)
          BY <2>2, <3>2
        <4>2. it[s] = IF s = {} THEN base ELSE step[<<Max(s), it[s \ {Max(s)}]>>]
          BY <2>1, <4>1, Zenon DEF Folded
        <4>3. s # {} => jt[s \ {Max(s)}] = it[s \ {Max(s)}]
          <5>1. s \ {Max(s)} \in SUBSET (1 .. m) /\ m \notin s \ {Max(s)}
            BY <3>2
          <5> QED
            BY <5>1
        <4> QED
          BY <4>1, <4>2, <4>3
      <3> QED
        BY <3>1, <3>2
    <2>6. k + 1 \in 0 .. n
      OBVIOUS
    <2>7. Folded(jt, m, base, step)
      <3> HIDE DEF jt
      <3>1. jt = [s \in SUBSET (1 .. m) |-> jt[s]]
        BY <2>3
      <3> QED
        BY <2>5, <3>1, Zenon DEF Folded
    <2> HIDE DEF jt
    <2> QED
      BY <2>3, <2>6, <2>7
  <1> HIDE DEF S
  <1>3. 0 .. n \subseteq S
    BY <1>1, <1>2, IntervalInduction
  <1>4. n \in S
    BY <1>3
  <1> QED
    BY <1>4, Zenon DEF S

-----------------------------------------------------------------------------
(* Sums *)

SumOf(list) == FoldLeft(LAMBDA a, b : a + b, 0, list)

\* the sums of the first members
SumsOf(h, list) ==
    /\ h[0] = 0
    /\ \A k \in 1 .. Len(list) : h[k] = h[k - 1] + list[k]

LEMMA SumFolds ==
    ASSUME NEW list \in Seq(Int)
    PROVE  \E h : SumsOf(h, list) /\ SumOf(list) = h[Len(list)]
  <1> DEFINE n == Len(list)
             D == DOMAIN list
             step == [p \in (1 .. n) \X Int |-> p[2] + list[p[1]]]
             it == CHOOSE f : f = [s \in SUBSET D |->
                                     IF s = {} THEN 0
                                     ELSE f[s \ {Max(s)}] + list[Max(s)]]
             h == [k \in 0 .. n |-> it[1 .. k]]
  <1>1. step \in [(1 .. n) \X Int -> Int]
    OBVIOUS
  <1>2. ASSUME NEW k \in 1 .. n, NEW v \in Int
        PROVE  step[<<k, v>>] = v + list[k]
    OBVIOUS
  <1> HIDE DEF step
  <1>4. n \in Nat /\ D = 1 .. n
    OBVIOUS
  <1> HIDE DEF n, D
  <1>3. PICK g \in [SUBSET (1 .. n) -> Int] : Folded(g, n, 0, step)
    <2>1. 0 \in Int
      OBVIOUS
    <2> QED
      BY <1>1, <1>4, <2>1, FoldExists, Zenon
  <1>5. ASSUME NEW s \in SUBSET D, s # {} PROVE Max(s) \in s
    <2>1. s \in SUBSET Int /\ n \in Int /\ \A x \in s : x <= n
      BY <1>4
    <2> QED
      BY <1>5, <2>1, MaxInside, Zenon
  <1>6. \A s \in SUBSET D : s # {} =>
           step[<<Max(s), g[s \ {Max(s)}]>>] = g[s \ {Max(s)}] + list[Max(s)]
    BY <1>2, <1>3, <1>4, <1>5
  <1>7. g = [s \in SUBSET D |-> IF s = {} THEN 0 ELSE g[s \ {Max(s)}] + list[Max(s)]]
    BY <1>3, <1>4, <1>6 DEF Folded
  <1>8. it = [s \in SUBSET D |-> IF s = {} THEN 0 ELSE it[s \ {Max(s)}] + list[Max(s)]]
    BY <1>7, Zenon
  <1>9. SumOf(list) = it[D]
    BY Zenon DEF SumOf, FoldLeft, MapThenFoldSet, D
  <1> HIDE DEF it
  <1>10. ASSUME NEW k \in 1 .. n
         PROVE  it[1 .. k] = it[1 .. k - 1] + list[k]
    <2>1. 1 .. k \in SUBSET D /\ 1 .. k # {}
      <3>1. \A x \in 1 .. k : x \in 1 .. n
        BY <1>4
      <3>2. 1 .. k \subseteq D /\ k \in 1 .. k
        BY <1>4, <3>1
      <3> QED
        BY <3>2
    <2>2. Max(1 .. k) = k /\ (1 .. k) \ {k} = 1 .. k - 1
      BY LastOfInterval
    <2>3. it[1 .. k] = it[(1 .. k) \ {Max(1 .. k)}] + list[Max(1 .. k)]
      BY <1>8, <2>1, Zenon
    <2> QED
      BY <2>2, <2>3
  <1>11. it[1 .. 0] = 0
    <2>1. 1 .. 0 = {} /\ {} \in SUBSET D
      OBVIOUS
    <2> QED
      BY <1>8, <2>1
  <1>12. SumsOf(h, list)
    BY <1>4, <1>10, <1>11 DEF SumsOf, n
  <1>13. SumOf(list) = h[Len(list)]
    BY <1>4, <1>9 DEF n
  <1> QED
    BY <1>12, <1>13

LEMMA SumUnique ==
    ASSUME NEW list \in Seq(Int), NEW h, SumsOf(h, list)
    PROVE  /\ SumOf(list) = h[Len(list)]
           /\ \A k \in 0 .. Len(list) : h[k] \in Int
  <1>1. PICK g : SumsOf(g, list) /\ SumOf(list) = g[Len(list)]
    BY SumFolds
  <1> DEFINE n == Len(list)
             S == {k \in 0 .. n : h[k] = g[k] /\ h[k] \in Int}
  <1>2. n \in Nat
    OBVIOUS
  <1>3. 0 \in S
    BY <1>1, <1>2 DEF SumsOf
  <1>4. ASSUME NEW k \in 0 .. n - 1, k \in S PROVE k + 1 \in S
    <2>1. k + 1 \in 1 .. n /\ (k + 1) - 1 = k /\ k + 1 \in 0 .. n
      BY <1>2
    <2>2. h[k + 1] = h[k] + list[k + 1] /\ g[k + 1] = g[k] + list[k + 1]
      BY <1>1, <2>1 DEF SumsOf
    <2>3. list[k + 1] \in Int
      BY <2>1
    <2> QED
      BY <1>4, <2>1, <2>2, <2>3
  <1> HIDE DEF S, n
  <1>5. 0 .. n \subseteq S
    <2>1. 0 \in Int /\ n \in Int
      BY <1>2
    <2> QED
      BY <1>3, <1>4, <2>1, IntervalInduction
  <1>6. \A k \in 0 .. n : h[k] = g[k] /\ h[k] \in Int
    BY <1>5 DEF S
  <1> QED
    BY <1>1, <1>2, <1>6 DEF n

\* the sum of a part is the difference of two sums of the first members
LEMMA SumOfPart ==
    ASSUME NEW list \in Seq(Int), NEW h, SumsOf(h, list),
           NEW i \in 1 .. Len(list) + 1, NEW j \in i - 1 .. Len(list)
    PROVE  SumOf(SubSeq(list, i, j)) = h[j] - h[i - 1]
  <1> DEFINE part == SubSeq(list, i, j)
             g == [k \in 0 .. j - i + 1 |-> h[k + i - 1] - h[i - 1]]
  <1>1. /\ part \in Seq(Int) /\ Len(part) = j - i + 1
        /\ \A k \in 1 .. j - i + 1 : part[k] = list[k + i - 1]
    OBVIOUS
  <1>2. \A k \in 0 .. Len(list) : h[k] \in Int
    BY SumUnique
  <1> HIDE DEF part
  <1>3. ASSUME NEW k \in 1 .. j - i + 1 PROVE g[k] = g[k - 1] + part[k]
    <2> DEFINE m == k + i - 1
    <2>1. /\ m \in 1 .. Len(list) /\ m - 1 \in 0 .. Len(list)
          /\ i - 1 \in 0 .. Len(list) /\ (k - 1) + i - 1 = m - 1
          /\ k \in 0 .. j - i + 1 /\ k - 1 \in 0 .. j - i + 1
      OBVIOUS
    <2>2. g[k] = h[m] - h[i - 1] /\ g[k - 1] = h[m - 1] - h[i - 1]
      BY <2>1
    <2>3. h[m] = h[m - 1] + list[m] /\ part[k] = list[m]
      BY <1>1, <2>1 DEF SumsOf
    <2>4. list[m] \in Int /\ h[m - 1] \in Int /\ h[i - 1] \in Int
      BY <1>2, <2>1
    <2> HIDE DEF m, g
    <2> QED
      BY <2>2, <2>3, <2>4
  <1>4. g[0] = 0
    <2>1. i - 1 \in 0 .. Len(list) /\ 0 + i - 1 = i - 1 /\ 0 \in 0 .. j - i + 1
      OBVIOUS
    <2>2. h[i - 1] \in Int
      BY <1>2, <2>1
    <2> QED
      BY <2>1, <2>2
  <1>5. g[j - i + 1] = h[j] - h[i - 1]
    <2>1. j - i + 1 \in 0 .. j - i + 1 /\ (j - i + 1) + i - 1 = j
      OBVIOUS
    <2> QED
      BY <2>1
  <1> HIDE DEF g
  <1>6. SumsOf(g, part)
    BY <1>1, <1>3, <1>4 DEF SumsOf
  <1>7. SumOf(part) = g[Len(part)]
    BY <1>1, <1>6, SumUnique
  <1> QED
    BY <1>1, <1>5, <1>7 DEF part

LEMMA SumsExist ==
    ASSUME NEW list \in Seq(Int)
    PROVE  \E h : SumsOf(h, list)
  BY SumFolds

Sums(list) == CHOOSE h : SumsOf(h, list)

LEMMA SumsAre ==
    ASSUME NEW list \in Seq(Int)
    PROVE  SumsOf(Sums(list), list)
  BY SumsExist DEF Sums

LEMMA SumsGrow ==
    ASSUME NEW list \in Seq(Nat), NEW h, SumsOf(h, list),
           NEW i \in 0 .. Len(list), NEW j \in i .. Len(list)
    PROVE  h[i] \in Nat /\ h[i] <= h[j]
  <1> DEFINE n == Len(list)
             S == {k \in 0 .. n : h[k] \in Nat}
             T == {k \in i .. n : h[i] <= h[k]}
  <1>1. list \in Seq(Int) /\ n \in Nat
    OBVIOUS
  <1>2. \A k \in 0 .. n : h[k] \in Int
    BY <1>1, SumUnique
  <1>3. ASSUME NEW k \in 0 .. n - 1
        PROVE  h[k + 1] = h[k] + list[k + 1] /\ list[k + 1] \in Nat
    <2>1. k + 1 \in 1 .. n /\ (k + 1) - 1 = k
      BY <1>1
    <2> QED
      BY <2>1 DEF SumsOf
  <1>4. 0 .. n \subseteq S
    <2>1. 0 \in S
      BY <1>1 DEF SumsOf
    <2>2. ASSUME NEW k \in 0 .. n - 1, k \in S PROVE k + 1 \in S
      <3>1. k + 1 \in 0 .. n /\ h[k] \in Nat
        BY <1>1, <2>2
      <3>2. h[k + 1] = h[k] + list[k + 1] /\ list[k + 1] \in Nat
        BY <1>3
      <3>3. h[k + 1] \in Nat
        BY <3>1, <3>2
      <3> QED
        BY <3>1, <3>3
    <2>3. 0 \in Int /\ n \in Int
      BY <1>1
    <2> HIDE DEF S, n
    <2> QED
      BY <2>1, <2>2, <2>3, IntervalInduction
  <1>5. i .. n \subseteq T
    <2>1. i \in T
      BY <1>2
    <2>2. ASSUME NEW k \in i .. n - 1, k \in T PROVE k + 1 \in T
      <3>1. k \in 0 .. n - 1 /\ k + 1 \in i .. n /\ k \in 0 .. n /\ i \in 0 .. n
        BY <1>1
      <3>2. h[k] \in Int /\ h[i] \in Int /\ h[i] <= h[k]
        BY <1>2, <2>2, <3>1
      <3>3. h[i] <= h[k + 1]
        BY <1>3, <3>1, <3>2
      <3> QED
        BY <3>1, <3>3
    <2>3. i \in Int /\ n \in Int
      BY <1>1
    <2> HIDE DEF T, n
    <2> QED
      BY <2>1, <2>2, <2>3, IntervalInduction
  <1> QED
    BY <1>4, <1>5

-----------------------------------------------------------------------------
(* Sequences put one after the other *)

Lengths(seqs) == [i \in 1 .. Len(seqs) |-> Len(seqs[i])]

LEMMA MoreMembers ==
    ASSUME NEW S, NEW T, S \subseteq T, NEW s \in Seq(S)
    PROVE  s \in Seq(T)
  OBVIOUS

LEMMA LengthsTyped ==
    ASSUME NEW R, NEW seqs \in Seq(Seq(R))
    PROVE  /\ Lengths(seqs) \in Seq(Nat) /\ Len(Lengths(seqs)) = Len(seqs)
           /\ \A i \in 1 .. Len(seqs) : Lengths(seqs)[i] = Len(seqs[i])
  <1> DEFINE n == Len(seqs)
  <1>1. n \in Nat /\ \A i \in 1 .. n : Len(seqs[i]) \in Nat
    OBVIOUS
  <1>2. [i \in 1 .. n |-> Len(seqs[i])] \in [1 .. n -> Nat]
    BY <1>1
  <1> HIDE DEF n
  <1>3. [i \in 1 .. n |-> Len(seqs[i])] \in Seq(Nat)
    BY <1>1, <1>2
  <1>4. Len([i \in 1 .. n |-> Len(seqs[i])]) = n
    BY <1>1
  <1> QED
    BY <1>3, <1>4 DEF Lengths, n

LEMMA Concatenated ==
    ASSUME NEW R, NEW s \in Seq(R), NEW t \in Seq(R)
    PROVE  /\ s \o t \in Seq(R)
           /\ Len(s \o t) = Len(s) + Len(t) /\ Len(s) \in Nat
           /\ \A i \in 1 .. Len(s) : (s \o t)[i] = s[i]
           /\ \A i \in 1 .. Len(t) : (s \o t)[Len(s) + i] = t[i]
  <1>1. s \o t \in Seq(R) /\ Len(s \o t) = Len(s) + Len(t) /\ Len(s) \in Nat
    OBVIOUS
  <1>2. ASSUME NEW i \in 1 .. Len(s) PROVE (s \o t)[i] = s[i]
    OBVIOUS
  <1>3. ASSUME NEW i \in 1 .. Len(t) PROVE (s \o t)[Len(s) + i] = t[i]
    OBVIOUS
  <1> QED
    BY <1>1, <1>2, <1>3

LEMMA FlattenFolds ==
    ASSUME NEW R, NEW seqs \in Seq(Seq(R)), Len(seqs) # 0
    PROVE  \E f : /\ f[1] = seqs[1]
                  /\ \A i \in 2 .. Len(seqs) : f[i] = f[i - 1] \o seqs[i]
                  /\ FlattenSeq(seqs) = f[Len(seqs)]
  <1> DEFINE n == Len(seqs)
             Q == Seq(R)
             step == [p \in (2 .. n) \X Q |-> p[2] \o seqs[p[1]]]
             f == CHOOSE g : g = [i \in 1 .. Len(seqs) |->
                                    IF i = 1 THEN seqs[i] ELSE g[i - 1] \o seqs[i]]
  <1>1. n \in Nat /\ 1 <= n /\ 1 \in 1 .. n /\ 1 \in Int /\ n \in Int
    OBVIOUS
  <1>2. \A i \in 1 .. n : seqs[i] \in Q
    OBVIOUS
  <1>3. \A i \in 2 .. n : i \in 1 .. n /\ i - 1 \in 1 .. n
    BY <1>1
  <1>4. ASSUME NEW i \in 2 .. n, NEW v \in Q PROVE v \o seqs[i] \in Q
    BY <1>2, <1>3
  <1> HIDE DEF n
  <1>5. step \in [(2 .. n) \X Q -> Q]
    BY <1>4
  <1>6. \A i \in 2 .. n, v \in Q : step[<<i, v>>] = v \o seqs[i]
    OBVIOUS
  <1> HIDE DEF Q, step
  <1>7. PICK h \in [1 .. n -> Q] : /\ h[1] = seqs[1]
                                   /\ \A i \in 2 .. n : h[i] = step[<<i, h[i - 1]>>]
    <2> DEFINE one == 1
               base == seqs[1]
    <2>1. one \in Int /\ one <= n /\ one + 1 = 2
      BY <1>1
    <2>2. base \in Q
      BY <1>1, <1>2
    <2>3. one = 1
      OBVIOUS
    <2> HIDE DEF one, base
    <2>4. step \in [(one + 1 .. n) \X Q -> Q]
      BY <1>5, <2>1
    <2>6. n \in Int
      BY <1>1
    <2>5. \E h \in [one .. n -> Q] : Stepped(h, one, n, base, step)
      BY <2>1, <2>2, <2>4, <2>6, Recursion, Zenon
    <2> QED
      BY <2>1, <2>3, <2>5 DEF base, Stepped
  <1>8. \A i \in 2 .. n : h[i] = h[i - 1] \o seqs[i]
    BY <1>3, <1>6, <1>7
  <1>9. h = [i \in 1 .. n |-> IF i = 1 THEN seqs[i] ELSE h[i - 1] \o seqs[i]]
    <2>1. \A i \in 1 .. n : i = 1 \/ i \in 2 .. n
      BY <1>1
    <2>2. h = [i \in 1 .. n |-> h[i]]
      BY <1>7
    <2>3. \A i \in 1 .. n : h[i] = IF i = 1 THEN seqs[i] ELSE h[i - 1] \o seqs[i]
      BY <1>7, <1>8, <2>1, Zenon
    <2> QED
      BY <2>2, <2>3, Zenon
  <1>10. f = [i \in 1 .. n |-> IF i = 1 THEN seqs[i] ELSE f[i - 1] \o seqs[i]]
    BY <1>9, Zenon DEF n
  <1>11. FlattenSeq(seqs) = f[n]
    BY Zenon DEF FlattenSeq, n
  <1> HIDE DEF f
  <1>12. f[1] = seqs[1] /\ \A i \in 2 .. n : f[i] = f[i - 1] \o seqs[i]
    <2>1. \A i \in 1 .. n : f[i] = IF i = 1 THEN seqs[i] ELSE f[i - 1] \o seqs[i]
      BY <1>10, Zenon
    <2>2. \A i \in 2 .. n : i # 1
      BY <1>1
    <2> QED
      BY <1>1, <1>3, <2>1, <2>2, Zenon
  <1> QED
    BY <1>11, <1>12 DEF n

\* the j-th member of the i-th sequence follows the members of those before it
FlattenedTo(out, seqs, h, n) ==
    \A i \in 1 .. n : \A j \in 1 .. Len(seqs[i]) : out[h[i - 1] + j] = seqs[i][j]

LEMMA Flattened ==
    ASSUME NEW R, NEW seqs \in Seq(Seq(R)), NEW h, SumsOf(h, Lengths(seqs))
    PROVE  /\ FlattenSeq(seqs) \in Seq(R)
           /\ Len(FlattenSeq(seqs)) = h[Len(seqs)]
           /\ FlattenedTo(FlattenSeq(seqs), seqs, h, Len(seqs))
  <1> DEFINE n == Len(seqs)
  <1>1. n \in Nat /\ \A i \in 1 .. n : seqs[i] \in Seq(R) /\ Len(seqs[i]) \in Nat
    OBVIOUS
  <1>2. h[0] = 0 /\ \A i \in 1 .. n : h[i] = h[i - 1] + Len(seqs[i])
    BY LengthsTyped DEF SumsOf
  <1>3. \A i \in 0 .. n : h[i] \in Nat /\ \A k \in i .. n : h[i] <= h[k]
    BY LengthsTyped, SumsGrow
  <1>4. CASE n = 0
    <2>1. FlattenSeq(seqs) = seqs /\ seqs = <<>>
      BY <1>4 DEF FlattenSeq
    <2> QED
      BY <1>2, <1>4, <2>1 DEF FlattenedTo
  <1>5. CASE n # 0
    <2>1. PICK f : /\ f[1] = seqs[1]
                   /\ \A i \in 2 .. n : f[i] = f[i - 1] \o seqs[i]
                   /\ FlattenSeq(seqs) = f[n]
      BY <1>5, FlattenFolds
    <2> HIDE DEF n
    <2> DEFINE S == {k \in 1 .. n : /\ f[k] \in Seq(R) /\ Len(f[k]) = h[k]
                                    /\ FlattenedTo(f[k], seqs, h, k)}
    <2>2. 1 \in S
      <3>1. 1 \in 1 .. n /\ 1 - 1 = 0
        BY <1>1, <1>5
      <3>2. h[1] = Len(seqs[1])
        BY <1>1, <1>2, <3>1
      <3>3. FlattenedTo(f[1], seqs, h, 1)
        <4> SUFFICES ASSUME NEW j \in 1 .. Len(seqs[1])
                     PROVE  f[1][h[0] + j] = seqs[1][j]
          BY <3>1 DEF FlattenedTo
        <4> QED
          BY <1>2, <2>1
      <3> QED
        BY <1>1, <2>1, <3>1, <3>2, <3>3
    <2>3. ASSUME NEW k \in 1 .. n - 1, k \in S PROVE k + 1 \in S
      <3> DEFINE m == k + 1
      <3>1. m \in 2 .. n /\ m \in 1 .. n /\ m - 1 = k /\ k \in 1 .. n /\ k \in 0 .. n
        BY <1>1
      <3>2. f[m] = f[k] \o seqs[m] /\ seqs[m] \in Seq(R) /\ Len(seqs[m]) \in Nat
        BY <1>1, <2>1, <3>1
      <3>3. f[k] \in Seq(R) /\ Len(f[k]) = h[k] /\ FlattenedTo(f[k], seqs, h, k)
        BY <2>3
      <3>4. h[m] = h[k] + Len(seqs[m]) /\ h[k] \in Nat
        BY <1>2, <1>3, <3>1
      <3>5. f[m] \in Seq(R) /\ Len(f[m]) = h[m]
        <4> HIDE DEF m, S
        <4>1. f[k] \o seqs[m] \in Seq(R)
          BY <3>2, <3>3, Concatenated, Zenon
        <4>2. Len(f[k] \o seqs[m]) = Len(f[k]) + Len(seqs[m])
          <5> DEFINE s == f[k]
                     t == seqs[m]
          <5>1. s \in Seq(R) /\ t \in Seq(R)
            BY <3>2, <3>3
          <5> HIDE DEF s, t
          <5>2. Len(s \o t) = Len(s) + Len(t)
            BY <5>1, Concatenated
          <5> QED
            BY <5>2 DEF s, t
        <4> QED
          BY <3>2, <3>3, <3>4, <4>1, <4>2
      <3>6. ASSUME NEW i \in 1 .. m, NEW j \in 1 .. Len(seqs[i])
            PROVE  f[m][h[i - 1] + j] = seqs[i][j]
        <4> HIDE DEF m, S
        <4>1. CASE i = m
          <5>1. h[i - 1] = Len(f[k]) /\ j \in 1 .. Len(seqs[m]) /\ Len(f[k]) \in Nat
            BY <3>1, <3>3, <3>4, <4>1
          <5>2. (f[k] \o seqs[m])[Len(f[k]) + j] = seqs[m][j]
            <6> DEFINE s == f[k]
                       t == seqs[m]
            <6>1. s \in Seq(R) /\ t \in Seq(R) /\ j \in 1 .. Len(t)
              BY <3>2, <3>3, <5>1
            <6> HIDE DEF s, t
            <6>2. (s \o t)[Len(s) + j] = t[j]
              BY <6>1, Concatenated
            <6> QED
              BY <6>2 DEF s, t
          <5> QED
            BY <3>2, <4>1, <5>1, <5>2
        <4>2. CASE i # m
          <5>1. i \in 1 .. k /\ i \in 1 .. n /\ i - 1 \in 0 .. n /\ i \in 0 .. n
            BY <1>1, <3>1, <4>2
          <5>2. h[i] = h[i - 1] + Len(seqs[i]) /\ h[i - 1] \in Nat /\ h[i] <= h[k]
            <6>1. k \in i .. n
              BY <1>1, <3>1, <5>1
            <6> QED
              BY <1>2, <1>3, <5>1, <6>1
          <5>3. Len(seqs[i]) \in Nat
            BY <1>1, <5>1
          <5>4. h[i - 1] + j \in 1 .. Len(f[k])
            <6> DEFINE x == h[i - 1]
                       l == Len(seqs[i])
                       y == h[i]
                       z == h[k]
            <6>1. x \in Nat /\ l \in Nat /\ y = x + l /\ y <= z /\ z \in Nat /\ j \in 1 .. l
              BY <3>4, <5>2, <5>3
            <6> HIDE DEF x, l, y, z
            <6>2. x + j \in 1 .. z
              BY <6>1
            <6> QED
              BY <3>3, <6>2 DEF x, z
          <5>5. (f[k] \o seqs[m])[h[i - 1] + j] = f[k][h[i - 1] + j]
            BY <3>2, <3>3, <5>4, Concatenated, Zenon
          <5>6. f[k][h[i - 1] + j] = seqs[i][j]
            BY <3>3, <5>1 DEF FlattenedTo
          <5> QED
            BY <3>2, <5>5, <5>6
        <4> QED
          BY <4>1, <4>2
      <3>7. FlattenedTo(f[m], seqs, h, m)
        BY <3>6 DEF FlattenedTo
      <3> QED
        BY <3>1, <3>5, <3>7
    <2> HIDE DEF S
    <2>4. 1 .. n \subseteq S
      <3>1. 1 \in Int /\ n \in Int
        BY <1>1
      <3> QED
        BY <2>2, <2>3, <3>1, IntervalInduction
    <2>5. n \in S
      BY <1>1, <1>5, <2>4
    <2> QED
      BY <2>1, <2>5 DEF S, n
  <1> QED
    BY <1>4, <1>5

\* every position is in one of the sequences
Inside(p, h, list) ==
    \E i \in 1 .. Len(list) : \E j \in 1 .. list[i] : p = h[i - 1] + j

LEMMA Located ==
    ASSUME NEW list \in Seq(Nat), NEW h, SumsOf(h, list),
           NEW p \in 1 .. h[Len(list)]
    PROVE  Inside(p, h, list)
  <1> DEFINE n == Len(list)
             T == {k \in 0 .. n : p <= h[k]}
  <1>1. n \in Nat /\ list \in Seq(Int)
    OBVIOUS
  <1>2. \A k \in 0 .. n : h[k] \in Int
    BY <1>1, SumUnique
  <1>3. PICK i \in T : \A k \in T : i <= k
    <2>1. T \in SUBSET Nat
      OBVIOUS
    <2>2. n \in T
      BY <1>1, <1>2
    <2> HIDE DEF T
    <2> QED
      BY <2>1, <2>2, LeastNatural
  <1>4. i \in 0 .. n /\ p <= h[i] /\ i # 0
    BY <1>2, <1>3 DEF SumsOf
  <1>5. i \in 1 .. n /\ i - 1 \in 0 .. n
    BY <1>1, <1>4
  <1>6. h[i] = h[i - 1] + list[i] /\ list[i] \in Nat
    BY <1>5 DEF SumsOf
  <1>7. i - 1 \notin T
    BY <1>3, <1>4
  <1>8. h[i - 1] < p /\ h[i - 1] \in Int /\ h[i] \in Int
    BY <1>2, <1>4, <1>5, <1>7
  <1>9. p - h[i - 1] \in 1 .. list[i] /\ p = h[i - 1] + (p - h[i - 1])
    BY <1>4, <1>6, <1>8
  <1> QED
    BY <1>5, <1>9 DEF Inside
=============================================================================
