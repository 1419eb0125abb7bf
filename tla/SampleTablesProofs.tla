--------------------------- MODULE SampleTablesProofs ---------------------------
(***************************************************************************)
(* What the run-length tables of a track hold: an expanded table has the   *)
(* value of an entry wherever the entry covers a frame, loaded decoding    *)
(* times are its running sums, and a table made from values expands to     *)
(* these values again.                                                     *)
(***************************************************************************)
EXTENDS SampleTables, Induction

Table(V) == Seq([count : Nat, value : V])

Counts(table) == [e \in 1 .. Len(table) |-> table[e].count]

\* the entries hold these values, if h counts what the first entries cover
Covers(table, h, values) ==
    \A e \in 1 .. Len(table) : \A j \in 1 .. table[e].count :
       values[h[e - 1] + j] = table[e].value

LEMMA Members ==
    ASSUME NEW S, NEW s \in Seq(S)
    PROVE  /\ Len(s) \in Nat /\ DOMAIN s = 1 .. Len(s)
           /\ \A i \in 1 .. Len(s) : s[i] \in S
  OBVIOUS

LEMMA EntriesTyped ==
    ASSUME NEW V, NEW table \in Table(V)
    PROVE  /\ Len(table) \in Nat /\ DOMAIN table = 1 .. Len(table)
           /\ \A e \in 1 .. Len(table) : /\ table[e] \in [count : Nat, value : V]
                                         /\ table[e].count \in Nat
                                         /\ table[e].value \in V
  <1> DEFINE E == [count : Nat, value : V]
  <1>1. table \in Seq(E)
    BY DEF Table
  <1>2. \A e \in E : e.count \in Nat /\ e.value \in V
    OBVIOUS
  <1> HIDE DEF E
  <1>3. /\ Len(table) \in Nat /\ DOMAIN table = 1 .. Len(table)
        /\ \A e \in 1 .. Len(table) : table[e] \in E
    BY <1>1, Members, Zenon
  <1> QED
    BY <1>2, <1>3 DEF E

LEMMA CountsTyped ==
    ASSUME NEW V, NEW table \in Table(V)
    PROVE  /\ Counts(table) \in Seq(Nat) /\ Len(Counts(table)) = Len(table)
           /\ \A e \in 1 .. Len(table) : Counts(table)[e] = table[e].count
  <1> DEFINE n == Len(table)
  <1>1. n \in Nat /\ \A e \in 1 .. n : table[e].count \in Nat
    BY EntriesTyped
  <1>2. [e \in 1 .. n |-> table[e].count] \in [1 .. n -> Nat]
    BY <1>1
  <1> HIDE DEF n
  <1>3. [e \in 1 .. n |-> table[e].count] \in Seq(Nat)
    BY <1>1, <1>2
  <1>4. Len([e \in 1 .. n |-> table[e].count]) = n
    BY <1>1
  <1> QED
    BY <1>3, <1>4 DEF Counts, n

LEMMA Expanded ==
    ASSUME NEW V, NEW table \in Table(V), NEW h, SumsOf(h, Counts(table))
    PROVE  /\ Expand(table) \in Seq(V)
           /\ Len(Expand(table)) = h[Len(table)]
           /\ Covers(table, h, Expand(table))
  <1> DEFINE n == Len(table)
             runs == [e \in 1 .. n |-> [j \in 1 .. table[e].count |-> table[e].value]]
  <1>1. n \in Nat /\ DOMAIN table = 1 .. n
    BY EntriesTyped
  <1>2. \A e \in 1 .. n : table[e].count \in Nat /\ table[e].value \in V
    BY EntriesTyped
  <1>3. ASSUME NEW e \in 1 .. n
        PROVE  /\ [j \in 1 .. table[e].count |-> table[e].value] \in Seq(V)
               /\ Len([j \in 1 .. table[e].count |-> table[e].value]) = table[e].count
    <2> DEFINE c == table[e].count
               v == table[e].value
    <2>1. c \in Nat /\ v \in V
      BY <1>2
    <2> HIDE DEF c, v
    <2>2. [j \in 1 .. c |-> v] \in Seq(V) /\ Len([j \in 1 .. c |-> v]) = c
      BY <2>1
    <2> QED
      BY <2>2 DEF c, v
  <1> HIDE DEF n
  <1>4. runs \in Seq(Seq(V)) /\ Len(runs) = n
    BY <1>1, <1>3
  <1>5. \A e \in 1 .. n : /\ Len(runs[e]) = table[e].count
                          /\ \A j \in 1 .. table[e].count : runs[e][j] = table[e].value
    BY <1>3
  <1>6. Expand(table) = FlattenSeq(runs)
    BY <1>1 DEF Expand
  <1> HIDE DEF runs
  <1>7. Counts(table) = Lengths(runs)
    BY <1>4, <1>5 DEF Counts, Lengths, n
  <1>8. SumsOf(h, Lengths(runs))
    BY <1>7
  <1>9. /\ FlattenSeq(runs) \in Seq(V)
        /\ Len(FlattenSeq(runs)) = h[Len(runs)]
        /\ FlattenedTo(FlattenSeq(runs), runs, h, Len(runs))
    BY <1>4, <1>8, Flattened, Zenon
  <1> QED
    <2>1. Covers(table, h, FlattenSeq(runs))
      BY <1>4, <1>5, <1>9 DEF FlattenedTo, Covers, n
    <2> QED
      BY <1>4, <1>6, <1>9, <2>1 DEF n

\* an entry for every position
LEMMA Covered ==
    ASSUME NEW V, NEW table \in Table(V), NEW h, SumsOf(h, Counts(table)),
           NEW p \in 1 .. h[Len(table)]
    PROVE  \E e \in 1 .. Len(table) :
              \E j \in 1 .. table[e].count : p = h[e - 1] + j
  <1>1. /\ Counts(table) \in Seq(Nat) /\ Len(Counts(table)) = Len(table)
        /\ \A e \in 1 .. Len(table) : Counts(table)[e] = table[e].count
    BY CountsTyped
  <1>2. p \in 1 .. h[Len(Counts(table))]
    BY <1>1
  <1>3. Inside(p, h, Counts(table))
    BY <1>1, <1>2, Located, Zenon
  <1> QED
    BY <1>1, <1>3 DEF Inside

\* the values of a table are all there is to it
LEMMA ExpandedTo ==
    ASSUME NEW V, NEW table \in Table(V), NEW h, SumsOf(h, Counts(table)),
           NEW values \in Seq(V), Len(values) = h[Len(table)],
           Covers(table, h, values)
    PROVE  Expand(table) = values
  <1> DEFINE out == Expand(table)
             n == Len(values)
  <1>1. out \in Seq(V) /\ Len(out) = n /\ Covers(table, h, out)
    BY Expanded
  <1>2. ASSUME NEW p \in 1 .. n PROVE out[p] = values[p]
    <2>1. \E e \in 1 .. Len(table) :
             \E j \in 1 .. table[e].count : p = h[e - 1] + j
      <3> DEFINE m == h[Len(table)]
      <3>1. p \in 1 .. m
        OBVIOUS
      <3> HIDE DEF m, out, n
      <3> QED
        BY <3>1, Covered DEF m
    <2>2. PICK e \in 1 .. Len(table) : \E j \in 1 .. table[e].count : p = h[e - 1] + j
      BY <2>1
    <2>3. PICK j \in 1 .. table[e].count : p = h[e - 1] + j
      BY <2>2
    <2> QED
      BY <1>1, <2>3 DEF Covers
  <1> HIDE DEF out
  <1>3. out = values
    BY <1>1, <1>2
  <1> QED
    BY <1>3 DEF out

LEMMA TableHasSums ==
    ASSUME NEW V, NEW table \in Table(V)
    PROVE  \E h : SumsOf(h, Counts(table))
  <1>1. Counts(table) \in Seq(Int)
    BY CountsTyped
  <1> QED
    BY <1>1, SumsExist

-----------------------------------------------------------------------------
(* Decoding times *)

\* the decoding time of a frame is what all frames before it last together
LEMMA LoadedDTS ==
    ASSUME NEW stts \in Table(Nat)
    PROVE  /\ LoadDTS(stts) \in [0 .. Len(Expand(stts)) -> Nat]
           /\ SumsOf(LoadDTS(stts), Expand(stts))
  <1> DEFINE list == Expand(stts)
             n == Len(list)
             dts == CHOOSE g : g = [i \in 0 .. Len(list) |->
                                      IF i = 0 THEN 0 ELSE g[i - 1] + list[i]]
  <1>1. list \in Seq(Nat)
    BY TableHasSums, Expanded
  <1>2. LoadDTS(stts) = dts
    BY Zenon DEF LoadDTS
  <1> HIDE DEF list
  <1>3. list \in Seq(Int) /\ n \in Nat
    BY <1>1
  <1>4. PICK h : SumsOf(h, list)
    BY <1>3, SumsExist
  <1>5. ASSUME NEW i \in 0 .. n PROVE h[i] \in Nat
    BY <1>1, <1>3, <1>4, SumsGrow
  <1> DEFINE g == [i \in 0 .. n |-> h[i]]
  <1>6. g \in [0 .. n -> Nat]
    BY <1>5
  <1>7. ASSUME NEW i \in 0 .. n
        PROVE  g[i] = IF i = 0 THEN 0 ELSE g[i - 1] + list[i]
    <2>1. CASE i = 0
      BY <1>4, <2>1 DEF SumsOf
    <2>2. CASE i # 0
      <3>1. i \in 1 .. n /\ i - 1 \in 0 .. n
        BY <1>3, <2>2
      <3> QED
        BY <1>4, <2>2, <3>1 DEF SumsOf
    <2> QED
      BY <2>1, <2>2
  <1> HIDE DEF g, n
  <1>8. g = [i \in 0 .. n |-> IF i = 0 THEN 0 ELSE g[i - 1] + list[i]]
    <2>1. g = [i \in 0 .. n |-> g[i]]
      BY <1>6
    <2> QED
      BY <1>7, <2>1, Zenon
  <1>9. dts = [i \in 0 .. n |-> IF i = 0 THEN 0 ELSE dts[i - 1] + list[i]]
    BY <1>8, Zenon DEF n
  <1> HIDE DEF dts
  <1>10. SumsOf(dts, list)
    <2>1. dts[0] = 0
      BY <1>3, <1>9
    <2>2. ASSUME NEW i \in 1 .. n PROVE dts[i] = dts[i - 1] + list[i]
      <3>1. i \in 0 .. n /\ i # 0
        OBVIOUS
      <3>2. dts[i] = IF i = 0 THEN 0 ELSE dts[i - 1] + list[i]
        BY <1>9, <3>1, Zenon
      <3> QED
        BY <3>1, <3>2
    <2> QED
      BY <2>1, <2>2 DEF SumsOf, n
  <1>11. ASSUME NEW i \in 0 .. n PROVE dts[i] \in Nat
    BY <1>1, <1>3, <1>10, SumsGrow DEF n
  <1>12. dts \in [0 .. n -> Nat]
    <2> DEFINE e(i) == IF i = 0 THEN 0 ELSE dts[i - 1] + list[i]
    <2>1. \A i \in 0 .. n : e(i) = dts[i]
      BY <1>9, Zenon
    <2>2. dts = [i \in 0 .. n |-> e(i)]
      BY <1>9, Zenon
    <2> HIDE DEF e
    <2> QED
      BY <1>11, <2>1, <2>2
  <1> QED
    BY <1>2, <1>10, <1>12 DEF n, list

-----------------------------------------------------------------------------
(* Run-length encoding *)

Extended(table, v) ==
    IF table # <<>> /\ Last(table).value = v
    THEN [table EXCEPT ![Len(table)].count = @ + 1]
    ELSE Append(table, [count |-> 1, value |-> v])

\* the table holds the first k of the values
Holding(table, values, k) ==
    \E h : /\ SumsOf(h, Counts(table)) /\ h[Len(table)] = k
           /\ Covers(table, h, values)

LEMMA ExtendedTyped ==
    ASSUME NEW V, NEW table \in Table(V), NEW v \in V
    PROVE  /\ Extended(table, v) \in Table(V)
           /\ LET n == Len(table)
                  next == Extended(table, v)
              IN  \/ /\ n # 0 /\ table[n].value = v /\ Len(next) = n
                     /\ next[n] = [count |-> table[n].count + 1, value |-> v]
                     /\ \A e \in 1 .. n - 1 : next[e] = table[e]
                  \/ /\ Len(next) = n + 1 /\ next[n + 1] = [count |-> 1, value |-> v]
                     /\ \A e \in 1 .. n : next[e] = table[e]
  <1> DEFINE E == [count : Nat, value : V]
             n == Len(table)
  <1>1. table \in Seq(E) /\ n \in Nat /\ \A e \in 1 .. n : table[e] \in E
    BY EntriesTyped DEF Table
  <1>2. table # <<>> <=> n # 0
    BY <1>1
  <1>3. CASE table # <<>> /\ Last(table).value = v
    <2>1. n \in 1 .. n /\ n # 0 /\ Last(table) = table[n]
      BY <1>1, <1>2, <1>3 DEF Last
    <2> DEFINE last == [table[n] EXCEPT !.count = @ + 1]
               next == [table EXCEPT ![n] = last]
    <2>2. table[n] \in E
      BY <1>1, <2>1
    <2>3. last \in E /\ last = [count |-> table[n].count + 1, value |-> v]
      BY <1>3, <2>1, <2>2
    <2>4. Extended(table, v) = next
      BY <1>3 DEF Extended
    <2> HIDE DEF E, last
    <2>5. next \in Seq(E) /\ Len(next) = n /\ next[n] = last
          /\ \A e \in 1 .. n - 1 : next[e] = table[e]
      BY <1>1, <2>1, <2>3
    <2> HIDE DEF next
    <2> QED
      BY <1>3, <2>1, <2>3, <2>4, <2>5 DEF Table, E
  <1>4. CASE ~ (table # <<>> /\ Last(table).value = v)
    <2> DEFINE entry == [count |-> 1, value |-> v]
    <2>1. entry \in E
      OBVIOUS
    <2>2. Extended(table, v) = Append(table, entry)
      BY <1>4 DEF Extended
    <2> HIDE DEF E, entry
    <2>3. /\ Append(table, entry) \in Seq(E) /\ Len(Append(table, entry)) = n + 1
          /\ Append(table, entry)[n + 1] = entry
          /\ \A e \in 1 .. n : Append(table, entry)[e] = table[e]
      BY <1>1, <2>1
    <2> QED
      BY <2>2, <2>3 DEF Table, E, entry
  <1> QED
    BY <1>3, <1>4

LEMMA ExtendedHolds ==
    ASSUME NEW V, NEW table \in Table(V), NEW values \in Seq(V),
           NEW k \in 1 .. Len(values), Holding(table, values, k - 1)
    PROVE  /\ Extended(table, values[k]) \in Table(V)
           /\ Holding(Extended(table, values[k]), values, k)
  <1> DEFINE v == values[k]
             next == Extended(table, v)
             n == Len(table)
             m == Len(next)
  <1>1. v \in V /\ n \in Nat /\ k \in Nat /\ k - 1 \in Nat
    BY EntriesTyped
  <1> HIDE DEF v
  <1>2. next \in Table(V)
    BY <1>1, ExtendedTyped
  <1>3. \/ /\ n # 0 /\ table[n].value = v /\ m = n
           /\ next[n] = [count |-> table[n].count + 1, value |-> v]
           /\ \A e \in 1 .. n - 1 : next[e] = table[e]
        \/ /\ m = n + 1 /\ next[n + 1] = [count |-> 1, value |-> v]
           /\ \A e \in 1 .. n : next[e] = table[e]
    BY <1>1, ExtendedTyped
  <1> HIDE DEF next, m, n
  <1>4. PICK h : /\ SumsOf(h, Counts(table)) /\ h[n] = k - 1
                 /\ Covers(table, h, values)
    BY DEF Holding, n
  <1>5. /\ h[0] = 0
        /\ \A e \in 1 .. n : /\ h[e] = h[e - 1] + table[e].count
                             /\ table[e].count \in Nat
        /\ \A e \in 0 .. n : h[e] \in Nat
    <2>1. /\ Counts(table) \in Seq(Nat) /\ Len(Counts(table)) = n
          /\ \A e \in 1 .. n : Counts(table)[e] = table[e].count
      BY CountsTyped DEF n
    <2>2. \A e \in 0 .. n : h[e] \in Nat
      BY <1>1, <1>4, <2>1, SumsGrow
    <2>3. \A e \in 1 .. n : table[e].count \in Nat
      BY EntriesTyped DEF n
    <2> QED
      BY <1>4, <2>1, <2>2, <2>3 DEF SumsOf
  <1>6. /\ m \in Nat /\ m # 0 /\ m - 1 \in 0 .. n /\ next[m].count \in Nat
        /\ next[m].value = v
        /\ \A e \in 1 .. m - 1 : next[e] = table[e] /\ e \in 1 .. n
    BY <1>1, <1>3, <1>5
  <1>7. h[m - 1] + next[m].count = k
    <2>1. CASE m = n
      <3>1. n \in 1 .. n /\ n - 1 \in 0 .. n /\ next[n].count = table[n].count + 1
        BY <1>1, <1>3, <2>1
      <3>2. /\ h[n] = h[n - 1] + table[n].count /\ h[n] = k - 1
            /\ h[n - 1] \in Nat /\ table[n].count \in Nat
        BY <1>4, <1>5, <3>1
      <3> QED
        BY <1>1, <2>1, <3>1, <3>2
    <2>2. CASE m # n
      BY <1>1, <1>3, <1>4, <2>2
    <2> QED
      BY <2>1, <2>2
  <1> DEFINE g == [e \in 0 .. m |-> IF e = m THEN k ELSE h[e]]
  <1>8. /\ g[m] = k
        /\ \A e \in 0 .. m - 1 : g[e] = h[e]
    BY <1>6
  <1> HIDE DEF g
  <1>9. SumsOf(g, Counts(next))
    <2>1. /\ Len(Counts(next)) = m
          /\ \A e \in 1 .. m : Counts(next)[e] = next[e].count
      BY <1>2, CountsTyped DEF m
    <2>2. g[0] = 0
      BY <1>5, <1>6, <1>8
    <2>3. ASSUME NEW e \in 1 .. m PROVE g[e] = g[e - 1] + next[e].count
      <3>1. e - 1 \in 0 .. m - 1
        BY <1>6
      <3>2. CASE e = m
        BY <1>7, <1>8, <3>1, <3>2
      <3>3. CASE e # m
        <4>1. e \in 1 .. m - 1 /\ e \in 0 .. m - 1
          BY <1>6, <3>3
        <4> QED
          BY <1>5, <1>6, <1>8, <3>1, <4>1
      <3> QED
        BY <3>2, <3>3
    <2> QED
      BY <2>1, <2>2, <2>3 DEF SumsOf
  <1>10. Covers(next, g, values)
    <2> SUFFICES ASSUME NEW e \in 1 .. m, NEW j \in 1 .. next[e].count
                 PROVE  values[g[e - 1] + j] = next[e].value
      BY DEF Covers, m
    <2>1. e - 1 \in 0 .. m - 1 /\ g[e - 1] = h[e - 1]
      BY <1>6, <1>8
    <2>2. CASE e # m
      <3>1. e \in 1 .. m - 1
        BY <1>6, <2>2
      <3>2. next[e] = table[e] /\ e \in 1 .. n
        BY <1>6, <3>1
      <3>3. j \in 1 .. table[e].count
        BY <3>2
      <3>4. values[h[e - 1] + j] = table[e].value
        BY <1>4, <3>2, <3>3 DEF Covers, n
      <3> QED
        BY <2>1, <3>2, <3>4
    <2>3. CASE e = m
      <3>1. h[e - 1] + next[e].count = k /\ h[e - 1] \in Nat /\ next[e].count \in Nat
        BY <1>5, <1>6, <1>7, <2>3
      <3>2. CASE j = next[e].count
        <4>1. h[e - 1] + j = k
          BY <3>1, <3>2
        <4> QED
          BY <1>6, <2>1, <2>3, <4>1 DEF v
      <3>3. CASE j # next[e].count
        <4>1. m = n /\ next[n].count = table[n].count + 1 /\ table[n].value = v
              /\ n \in 1 .. n
          <5>1. j \in 1 .. next[e].count - 1
            BY <3>1, <3>3
          <5>2. next[e].count # 1
            BY <5>1
          <5> QED
            BY <1>1, <1>3, <2>3, <5>2
        <4>2. j \in 1 .. table[n].count
          BY <1>5, <2>3, <3>3, <4>1
        <4>3. values[h[n - 1] + j] = table[n].value
          BY <1>4, <4>1, <4>2 DEF Covers, n
        <4> QED
          BY <1>6, <2>1, <2>3, <4>1, <4>3
      <3> QED
        BY <3>2, <3>3
    <2> QED
      BY <2>2, <2>3
  <1>11. Holding(next, values, k)
    BY <1>8, <1>9, <1>10 DEF Holding, m
  <1> QED
    BY <1>2, <1>11 DEF next, v

(***************************************************************************)
(* A table made from the values of the frames (UpdateStts, UpdateCtts and  *)
(* the run lengths they keep) expands to just these values: the runs lose, *)
(* repeat and reorder nothing, for any number of frames.                   *)
(***************************************************************************)
THEOREM RunLengthKeepsValues ==
    ASSUME NEW V, NEW values \in Seq(V)
    PROVE  /\ RunLength(values) \in Table(V)
           /\ Expand(RunLength(values)) = values
  <1> DEFINE n == Len(values)
             D == DOMAIN values
             R == Table(V)
             step == [p \in (1 .. n) \X R |-> Extended(p[2], values[p[1]])]
             it == CHOOSE f : f = [s \in SUBSET D |->
                      IF s = {} THEN <<>>
                      ELSE Extended(f[s \ {Max(s)}], values[Max(s)])]
  <1>1. n \in Nat /\ D = 1 .. n /\ \A k \in 1 .. n : values[k] \in V
    OBVIOUS
  <1>2. <<>> \in R
    BY DEF Table
  <1>3. \A k \in 1 .. n, t \in R : Extended(t, values[k]) \in R
    BY <1>1, ExtendedTyped
  <1>4. step \in [(1 .. n) \X R -> R]
    <2> HIDE DEF n, D, R
    <2> QED
      BY <1>3
  <1>5. \A k \in 1 .. n, t \in R : step[<<k, t>>] = Extended(t, values[k])
    OBVIOUS
  <1>6. RunLength(values) = it[D]
    BY Zenon DEF RunLength, FoldLeft, MapThenFoldSet, Extended
  <1> HIDE DEF step, n, D, R
  <1>7. PICK g \in [SUBSET (1 .. n) -> R] : Folded(g, n, <<>>, step)
    BY <1>1, <1>2, <1>4, FoldExists, Zenon
  <1>8. ASSUME NEW s \in SUBSET D, s # {} PROVE Max(s) \in s
    <2>1. s \in SUBSET Int /\ n \in Int /\ \A x \in s : x <= n
      BY <1>1
    <2> QED
      BY <1>8, <2>1, MaxInside, Zenon
  <1>9. \A s \in SUBSET D : s # {} =>
           step[<<Max(s), g[s \ {Max(s)}]>>] = Extended(g[s \ {Max(s)}], values[Max(s)])
    <2> SUFFICES ASSUME NEW s \in SUBSET D, s # {}
                 PROVE  step[<<Max(s), g[s \ {Max(s)}]>>]
                          = Extended(g[s \ {Max(s)}], values[Max(s)])
      OBVIOUS
    <2>1. Max(s) \in 1 .. n /\ s \ {Max(s)} \in SUBSET (1 .. n)
      BY <1>1, <1>8
    <2>2. g[s \ {Max(s)}] \in R
      BY <1>7, <2>1, Zenon
    <2> QED
      BY <1>5, <2>1, <2>2
  <1>10. g = [s \in SUBSET D |->
                IF s = {} THEN <<>> ELSE Extended(g[s \ {Max(s)}], values[Max(s)])]
    BY <1>1, <1>7, <1>9, Zenon DEF Folded
  <1>11. it = [s \in SUBSET D |->
                IF s = {} THEN <<>> ELSE Extended(it[s \ {Max(s)}], values[Max(s)])]
    BY <1>10, Zenon
  <1> HIDE DEF it
  <1> DEFINE S == {k \in 0 .. n : it[1 .. k] \in R /\ Holding(it[1 .. k], values, k)}
  <1>12. 0 \in S
    <2>1. 1 .. 0 = {} /\ {} \in SUBSET D /\ 0 \in 0 .. n
      BY <1>1
    <2>2. it[1 .. 0] = <<>>
      BY <1>11, <2>1
    <2>3. Holding(<<>>, values, 0)
      <3> DEFINE h == [i \in 0 .. 0 |-> 0]
      <3>1. h[0] = 0
        OBVIOUS
      <3>2. Len(<<>>) = 0 /\ Len(Counts(<<>>)) = 0
        BY <1>2, CountsTyped DEF R
      <3> HIDE DEF h
      <3>3. SumsOf(h, Counts(<<>>)) /\ Covers(<<>>, h, values) /\ h[Len(<<>>)] = 0
        BY <3>1, <3>2 DEF SumsOf, Covers
      <3> QED
        BY <3>3 DEF Holding
    <2> QED
      BY <1>2, <2>1, <2>2, <2>3
  <1>13. ASSUME NEW k \in 0 .. n - 1, k \in S PROVE k + 1 \in S
    <2> DEFINE m == k + 1
               t == it[1 .. k]
    <2>1. m \in 1 .. n /\ m \in 0 .. n /\ m \in Nat \ {0} /\ m - 1 = k
      BY <1>1
    <2>2. t \in Table(V) /\ Holding(t, values, m - 1)
      BY <1>13, <2>1 DEF R
    <2>3. it[1 .. m] = Extended(t, values[m])
      <3>1. Max(1 .. m) = m /\ (1 .. m) \ {m} = 1 .. m - 1
        BY <2>1, LastOfInterval
      <3>2. 1 .. m \in SUBSET D /\ 1 .. m # {}
        <4>1. \A x \in 1 .. m : x \in 1 .. n
          BY <1>1, <2>1
        <4>2. m \in 1 .. m
          BY <2>1
        <4> QED
          BY <1>1, <4>1, <4>2
      <3>3. it[1 .. m] = Extended(it[(1 .. m) \ {Max(1 .. m)}], values[Max(1 .. m)])
        BY <1>11, <3>2, Zenon
      <3> HIDE DEF m
      <3> QED
        BY <2>1, <3>1, <3>3
    <2> HIDE DEF m, t, S
    <2>4. Extended(t, values[m]) \in Table(V) /\ Holding(Extended(t, values[m]), values, m)
      BY <2>1, <2>2, ExtendedHolds DEF n
    <2>5. m \in S
      BY <2>1, <2>3, <2>4 DEF R, S
    <2> QED
      BY <2>5 DEF m
  <1> HIDE DEF S
  <1>14. n \in S
    <2>1. 0 \in Int /\ n \in Int /\ n \in 0 .. n
      BY <1>1
    <2>2. 0 .. n \subseteq S
      BY <1>12, <1>13, <2>1, IntervalInduction
    <2> QED
      BY <2>1, <2>2
  <1>15. RunLength(values) \in Table(V) /\ Holding(RunLength(values), values, n)
    BY <1>1, <1>6, <1>14 DEF S, R
  <1>16. PICK h : /\ SumsOf(h, Counts(RunLength(values)))
                  /\ h[Len(RunLength(values))] = n
                  /\ Covers(RunLength(values), h, values)
    BY <1>15 DEF Holding
  <1>17. Expand(RunLength(values)) = values
    BY <1>15, <1>16, ExpandedTo DEF n
  <1> QED
    BY <1>15, <1>17

-----------------------------------------------------------------------------
(* Words *)

LEMMA ModBounds ==
    ASSUME NEW a \in Int, NEW b \in Nat \ {0}
    PROVE  a % b \in 0 .. b - 1 /\ a \div b \in Int /\ a = b * (a \div b) + (a % b)
  OBVIOUS

LEMMA ModUnique ==
    ASSUME NEW b \in Nat \ {0}, NEW q \in Int, NEW r \in 0 .. b - 1
    PROVE  (b * q + r) % b = r
  <1> DEFINE a == b * q + r
             p == a \div b
             s == a % b
  <1>1. a \in Int
    OBVIOUS
  <1> HIDE DEF a
  <1>2. s \in 0 .. b - 1 /\ p \in Int /\ a = b * p + s
    BY <1>1, ModBounds
  <1>3. b * p + s = b * q + r
    BY <1>2 DEF a
  <1> HIDE DEF p, s
  <1>4. b * (p - q) = r - s
    BY <1>2, <1>3
  <1> DEFINE d == p - q
  <1>5. d \in Int
    BY <1>2
  <1>6. b * d = r - s
    BY <1>4
  <1> HIDE DEF d
  <1>7. d = 0
    <2>1. d >= 1 => b * d >= b
      BY <1>5
    <2>2. d <= -1 => b * d <= -b
      BY <1>5
    <2>3. r - s < b /\ r - s > -b
      BY <1>2
    <2> QED
      BY <1>2, <1>5, <1>6, <2>1, <2>2, <2>3
  <1>8. s = r
    BY <1>2, <1>6, <1>7
  <1> QED
    BY <1>8 DEF s, a

LEMMA ModOf ==
    ASSUME NEW b \in Nat \ {0}, NEW d \in -b .. b - 1
    PROVE  d % b = IF d < 0 THEN d + b ELSE d
  <1>1. CASE d >= 0
    <2>1. b * 0 + d = d /\ d \in 0 .. b - 1 /\ 0 \in Int
      BY <1>1
    <2>2. (b * 0 + d) % b = d
      BY <2>1, ModUnique, Zenon
    <2> QED
      BY <1>1, <2>1, <2>2
  <1>2. CASE d < 0
    <2>1. b * (-1) + (d + b) = d /\ d + b \in 0 .. b - 1 /\ -1 \in Int
      BY <1>2
    <2>2. (b * (-1) + (d + b)) % b = d + b
      BY <2>1, ModUnique
    <2> QED
      BY <1>2, <2>1, <2>2
  <1> QED
    BY <1>1, <1>2

LEMMA WordFacts == Word \in Nat \ {0} /\ Word \div 2 \in Nat /\ 2 * (Word \div 2) = Word
  <1>1. Word \in Nat /\ Word % 2 = 0 /\ Word > 0
    BY WordAssumption
  <1> QED
    BY <1>1

\* what UpdateCtts stores of an offset and LoadCTS makes of it
LEMMA SignedOffset ==
    ASSUME NEW d \in -(Word \div 2) .. Word \div 2 - 1
    PROVE  Signed(d % Word) = d
  <1>1. /\ Word \in Nat \ {0} /\ Word \div 2 \in Nat /\ 2 * (Word \div 2) = Word
        /\ d \in -Word .. Word - 1 /\ d \in Int
    BY WordFacts
  <1>2. d % Word = IF d < 0 THEN d + Word ELSE d
    BY <1>1, ModOf
  <1>3. CASE d < 0
    <2>1. 2 * (d + Word) >= Word /\ d + Word - Word = d
      BY <1>1, <1>3
    <2> QED
      BY <1>1, <1>2, <1>3, <2>1 DEF Signed
  <1>4. CASE d >= 0
    <2>1. ~ (2 * d >= Word)
      BY <1>1, <1>4
    <2> QED
      BY <1>1, <1>2, <1>4, <2>1 DEF Signed
  <1> QED
    BY <1>1, <1>3, <1>4

-----------------------------------------------------------------------------
(* Writing the tables and loading them again *)

LEMMA LastFrame ==
    ASSUME NEW n \in Nat, NEW R, NEW t \in [0 .. n -> R]
    PROVE  Max(DOMAIN t) = n
  <1>1. DOMAIN t = 0 .. n /\ 0 .. n \in SUBSET Int /\ n \in 0 .. n
        /\ \A x \in 0 .. n : x <= n
    OBVIOUS
  <1> QED
    BY <1>1, MaxIs

\* the time between a frame and the one before it; the first frame counts
\* from zero whatever its time is
Delta(dts, i) == dts[i] - (IF i = 1 THEN 0 ELSE dts[i - 1])

LEMMA WrittenStts ==
    ASSUME NEW n \in Nat, NEW dts \in [0 .. n -> Int]
    PROVE  /\ UpdateStts(dts) \in Table(0 .. Word - 1)
           /\ Expand(UpdateStts(dts)) = [i \in 1 .. n |-> Delta(dts, i) % Word]
  <1> DEFINE deltas == [i \in 1 .. n |-> Delta(dts, i) % Word]
             W == 0 .. Word - 1
  <1>1. ASSUME NEW i \in 1 .. n PROVE Delta(dts, i) % Word \in W
    <2>1. i \in 0 .. n /\ i - 1 \in 0 .. n
      OBVIOUS
    <2>2. Delta(dts, i) \in Int
      BY <2>1 DEF Delta
    <2> QED
      BY <2>2, WordFacts, ModBounds
  <1> HIDE DEF W
  <1>2. deltas \in Seq(W)
    BY <1>1
  <1>3. UpdateStts(dts) = RunLength(deltas)
    BY LastFrame, Zenon DEF UpdateStts, Delta
  <1> HIDE DEF deltas
  <1>4. RunLength(deltas) \in Table(W) /\ Expand(RunLength(deltas)) = deltas
    BY <1>2, RunLengthKeepsValues
  <1> QED
    BY <1>3, <1>4 DEF deltas, W

LEMMA WrittenCtts ==
    ASSUME NEW n \in Nat, NEW dts \in [0 .. n -> Int], NEW cts \in [0 .. n -> Int]
    PROVE  /\ UpdateCtts(dts, cts) \in Table(0 .. Word - 1)
           /\ Expand(UpdateCtts(dts, cts))
                = [i \in 1 .. n |-> (cts[i - 1] - dts[i - 1]) % Word]
  <1> DEFINE offsets == [i \in 1 .. n |-> (cts[i - 1] - dts[i - 1]) % Word]
             W == 0 .. Word - 1
  <1>1. ASSUME NEW i \in 1 .. n PROVE (cts[i - 1] - dts[i - 1]) % Word \in W
    <2>1. i - 1 \in 0 .. n
      OBVIOUS
    <2>2. cts[i - 1] - dts[i - 1] \in Int
      BY <2>1
    <2> QED
      BY <2>2, WordFacts, ModBounds
  <1> HIDE DEF W
  <1>2. offsets \in Seq(W)
    BY <1>1
  <1>3. UpdateCtts(dts, cts) = RunLength(offsets)
    BY LastFrame, Zenon DEF UpdateCtts
  <1> HIDE DEF offsets
  <1>4. RunLength(offsets) \in Table(W) /\ Expand(RunLength(offsets)) = offsets
    BY <1>2, RunLengthKeepsValues
  <1> QED
    BY <1>3, <1>4 DEF offsets, W

\* the frames follow each other in less time than wraps a word
Ascending(dts, n) == \A i \in 1 .. n : Delta(dts, i) \in 0 .. Word - 1

(***************************************************************************)
(* Decoding times that UpdateStts has written are loaded as they were, if  *)
(* each delta fits its field; only the time of the first frame is not      *)
(* kept, and is zero when it is loaded.                                    *)
(***************************************************************************)
THEOREM SttsReadBack ==
    ASSUME NEW n \in Nat, NEW dts \in [0 .. n -> Int], Ascending(dts, n)
    PROVE  LoadDTS(UpdateStts(dts)) = [i \in 0 .. n |-> IF i = 0 THEN 0 ELSE dts[i]]
  <1> DEFINE read == LoadDTS(UpdateStts(dts))
             deltas == Expand(UpdateStts(dts))
             W == 0 .. Word - 1
             table == UpdateStts(dts)
  <1>1. table \in Table(W) /\ deltas = [i \in 1 .. n |-> Delta(dts, i) % Word]
    BY WrittenStts
  <1>2. ASSUME NEW i \in 1 .. n PROVE deltas[i] = Delta(dts, i)
    <2>1. Delta(dts, i) \in -Word .. Word - 1 /\ ~ (Delta(dts, i) < 0)
      BY WordFacts DEF Ascending
    <2>2. Delta(dts, i) % Word = Delta(dts, i)
      BY <2>1, WordFacts, ModOf
    <2> QED
      BY <1>1, <2>2
  <1>3. Len(deltas) = n
    BY <1>1
  <1>4. table \in Table(Nat)
    <2>1. W \subseteq Nat
      BY WordFacts
    <2>2. [count : Nat, value : W] \subseteq [count : Nat, value : Nat]
      BY <2>1
    <2> DEFINE A == [count : Nat, value : W]
               B == [count : Nat, value : Nat]
    <2>3. table \in Seq(A) /\ A \subseteq B
      BY <1>1, <2>2 DEF Table
    <2> HIDE DEF A, B, table
    <2>4. table \in Seq(B)
      BY <2>3
    <2> QED
      BY <2>4 DEF Table, B
  <1>5. read \in [0 .. n -> Nat] /\ SumsOf(read, deltas)
    BY <1>3, <1>4, LoadedDTS
  <1> HIDE DEF read, deltas
  <1> DEFINE S == {i \in 1 .. n : read[i] = dts[i]}
  <1>6. read[0] = 0 /\ \A i \in 1 .. n : read[i] = read[i - 1] + Delta(dts, i)
    BY <1>2, <1>3, <1>5 DEF SumsOf
  <1>7. n # 0 => 1 \in S
    <2>1. n # 0 => 1 \in 1 .. n /\ 1 \in 0 .. n
      OBVIOUS
    <2>2. n # 0 => read[1] = 0 + (dts[1] - 0)
      BY <1>6, <2>1 DEF Delta
    <2>3. n # 0 => dts[1] \in Int
      BY <2>1
    <2> QED
      BY <2>1, <2>2, <2>3
  <1>8. ASSUME NEW i \in 1 .. n - 1, i \in S PROVE i + 1 \in S
    <2>1. i + 1 \in 1 .. n /\ i + 1 # 1 /\ (i + 1) - 1 = i /\ i \in 0 .. n /\ i + 1 \in 0 .. n
      OBVIOUS
    <2>2. read[i + 1] = read[i] + (dts[i + 1] - dts[i])
      BY <1>6, <2>1 DEF Delta
    <2>3. read[i] = dts[i] /\ dts[i] \in Int /\ dts[i + 1] \in Int
      BY <1>8, <2>1
    <2> QED
      BY <2>1, <2>2, <2>3
  <1> HIDE DEF S
  <1>9. 1 .. n \subseteq S
    <2>1. 1 \in Int /\ n \in Int /\ (1 <= n => 1 \in S)
      BY <1>7
    <2> QED
      BY <1>8, <2>1, IntervalInduction
  <1>10. \A i \in 0 .. n : read[i] = IF i = 0 THEN 0 ELSE dts[i]
    BY <1>6, <1>9 DEF S
  <1>11. read = [i \in 0 .. n |-> read[i]]
    BY <1>5
  <1> QED
    BY <1>10, <1>11 DEF read

\* offsets that fit are loaded as they were, whatever decoding times they are
\* added to
LEMMA CttsReadBack ==
    ASSUME NEW n \in Nat, NEW dts \in [0 .. n -> Int], NEW cts \in [0 .. n -> Int],
           NEW read \in [0 .. n -> Int],
           \A i \in 0 .. n - 1 :
              cts[i] - dts[i] \in -(Word \div 2) .. Word \div 2 - 1
    PROVE  \A i \in 0 .. n - 1 :
              LoadCTS(read, TRUE, UpdateCtts(dts, cts))[i] = read[i] + (cts[i] - dts[i])
  <1> SUFFICES ASSUME NEW i \in 0 .. n - 1
               PROVE  LoadCTS(read, TRUE, UpdateCtts(dts, cts))[i]
                        = read[i] + (cts[i] - dts[i])
    OBVIOUS
  <1> DEFINE offsets == Expand(UpdateCtts(dts, cts))
  <1>1. offsets = [k \in 1 .. n |-> (cts[k - 1] - dts[k - 1]) % Word]
    BY WrittenCtts
  <1>2. i + 1 \in 1 .. n /\ (i + 1) - 1 = i /\ i \in 0 .. n /\ i < n
    OBVIOUS
  <1>3. offsets[i + 1] = (cts[i] - dts[i]) % Word
    BY <1>1, <1>2
  <1>4. Signed(offsets[i + 1]) = cts[i] - dts[i]
    BY <1>3, SignedOffset
  <1>5. Max(DOMAIN read) = n
    BY LastFrame
  <1>6. LoadCTS(read, TRUE, UpdateCtts(dts, cts))[i] = read[i] + Signed(offsets[i + 1])
    BY <1>2, <1>5 DEF LoadCTS
  <1> QED
    BY <1>4, <1>6, Zenon
=============================================================================
