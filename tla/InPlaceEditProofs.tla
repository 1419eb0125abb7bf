---------------------------- MODULE InPlaceEditProofs ----------------------------
(***************************************************************************)
(* Editing in place, for every sound file, every size of moov and every    *)
(* number of edits: no media data is touched, a closed file holds the      *)
(* edited movie, and the file grows by little more than the edits need.    *)
(***************************************************************************)
EXTENDS InPlaceEdit, Induction, FiniteSetTheorems, SequenceTheorems, TLAPS

-----------------------------------------------------------------------------
(* Cells *)

Disk == Seq(Cell)

LEMMA Cells ==
    /\ \A c \in Cell : IsNumber(c) => c[2] \in Nat
    /\ \A c \in Cell : IsType(c) => c[2] \in TypeNames
    /\ \A c \in Cell : c[1] = "moov" => c[2] \in Nat
    /\ \A n \in Nat : Number(n) \in Cell /\ IsNumber(Number(n)) /\ Number(n)[2] = n
    /\ \A t \in TypeNames : Type(t) \in Cell /\ IsType(Type(t)) /\ Type(t)[2] = t
    /\ Zero \in Cell
    /\ \A v \in Nat, k \in Nat : <<"moov", v, k>> \in Cell
  BY DEF Cell, IsNumber, IsType, Number, Type, Zero

LEMMA Opaque ==
    ASSUME NEW d \in Disk, NEW at \in Nat, at < Len(d)
    PROVE  CellAt(d, at) \in Cell
  BY DEF Disk, CellAt

LEMMA MinIs ==
    ASSUME NEW S \in SUBSET Int, NEW m \in S, \A x \in S : m <= x
    PROVE  Min(S) = m
  <1>1. Min(S) \in S /\ \A x \in S : Min(S) <= x
    BY DEF Min
  <1>2. Min(S) >= m /\ m >= Min(S) /\ Min(S) \in Int /\ m \in Int
    BY <1>1
  <1> QED
    BY <1>2

LEMMA PutCell ==
    ASSUME NEW d \in Disk, NEW at \in Nat, NEW cell \in Cell
    PROVE  LET e == Put(d, at, cell)
               p == IF at < Len(d) THEN at + 1 ELSE Len(d) + 1
           IN  /\ e \in Disk
               /\ Len(e) = IF at < Len(d) THEN Len(d) ELSE Len(d) + 1
               /\ p \in 1 .. Len(e) /\ e[p] = cell
               /\ \A k \in 1 .. Len(d) : k # p => e[k] = d[k]
  <1>1. CASE at < Len(d)
    <2>1. at + 1 \in 1 .. Len(d)
      BY <1>1 DEF Disk
    <2> QED
      BY <1>1, <2>1 DEF Put, Disk
  <1>2. CASE ~ (at < Len(d))
    BY <1>2 DEF Put, Disk
  <1> QED
    BY <1>1, <1>2

-----------------------------------------------------------------------------
(* Reading one atom *)

HeaderOf(d, at) == IF CellAt(d, at)[2] = 1 THEN 4 ELSE 2
SpanOf(d, at)   == IF CellAt(d, at)[2] = 1 THEN LargeSize(d, at) ELSE CellAt(d, at)[2]

\* an atom with its size, and all of it in the file
Whole(d, at) ==
    /\ at + 1 < Len(d)
    /\ IsNumber(CellAt(d, at)) /\ IsType(CellAt(d, at + 1))
    /\ CellAt(d, at)[2] # 0
    /\ CellAt(d, at)[2] = 1 => HasLargeSize(d, at)
    /\ SpanOf(d, at) >= HeaderOf(d, at) /\ at + SpanOf(d, at) <= Len(d)

LEMMA LargeSizeTyped ==
    ASSUME NEW d \in Disk, NEW at \in Nat, HasLargeSize(d, at)
    PROVE  LargeSize(d, at) \in Nat
  <1>1. CellAt(d, at + 2) \in Cell /\ CellAt(d, at + 3) \in Cell
    BY Opaque DEF HasLargeSize, Disk
  <1>2. CellAt(d, at + 2)[2] \in Nat /\ CellAt(d, at + 3)[2] \in Nat
    BY <1>1, Cells DEF HasLargeSize
  <1>3. \A x, y, z \in Nat : x * y + z \in Nat
    OBVIOUS
  <1> QED
    BY <1>2, <1>3, MaxSizeAssumption DEF LargeSize

LEMMA WholeRead ==
    ASSUME NEW d \in Disk, NEW at \in Nat, Whole(d, at)
    PROVE  /\ ReadAtom(d, at) = Atom(CellAt(d, at + 1)[2], at, at + SpanOf(d, at),
                                     SpanOf(d, at) - HeaderOf(d, at),
                                     CellAt(d, at)[2] = 1,
                                     SubSeq(d, at + HeaderOf(d, at) + 1,
                                               at + SpanOf(d, at)))
           /\ CellAt(d, at + 1)[2] \in TypeNames
           /\ SpanOf(d, at) \in Nat /\ HeaderOf(d, at) \in {2, 4}
           /\ Len(d) \in Nat /\ CellAt(d, at)[2] \in Nat
  <1>1. Len(d) \in Nat
    BY DEF Disk
  <1>2. CellAt(d, at) \in Cell /\ CellAt(d, at + 1) \in Cell
    BY <1>1, Opaque DEF Whole
  <1>3. CellAt(d, at)[2] \in Nat /\ CellAt(d, at + 1)[2] \in TypeNames
    BY <1>2, Cells DEF Whole
  <1>4. SpanOf(d, at) \in Nat
    BY <1>3, LargeSizeTyped DEF SpanOf, Whole
  <1> DEFINE span == SpanOf(d, at)
  <1>5. Min({at + span, Len(d)}) = at + span
    <2>1. {at + span, Len(d)} \in SUBSET Int /\ at + span \in {at + span, Len(d)}
          /\ \A x \in {at + span, Len(d)} : at + span <= x
      BY <1>1, <1>4 DEF Whole
    <2> HIDE DEF span
    <2> QED
      BY <2>1, MinIs
  <1>6. at + span - at = span
    BY <1>4
  <1> DEFINE number == CellAt(d, at)
             large  == number[2] = 1
  <1>7. span = IF number[2] = 0 THEN Len(d) - at
               ELSE IF large THEN LargeSize(d, at) ELSE number[2]
    BY DEF SpanOf, Whole
  <1>8. HeaderOf(d, at) = IF large THEN 4 ELSE 2
    BY DEF HeaderOf
  <1>9. ReadAtom(d, at) = Atom(CellAt(d, at + 1)[2], at, at + span,
                               at + span - at - HeaderOf(d, at), large,
                               SubSeq(d, at + HeaderOf(d, at) + 1, at + span))
    <2> DEFINE reach == IF number[2] = 0 THEN Len(d) - at
                        ELSE IF large THEN LargeSize(d, at) ELSE number[2]
               header == IF large THEN 4 ELSE 2
               end == Min({at + reach, Len(d)})
    <2>1. ~ (\/ ~ IsNumber(number) \/ ~ IsType(CellAt(d, at + 1))
             \/ (large /\ ~ HasLargeSize(d, at)) \/ reach < header)
      <3>1. reach = span /\ header = HeaderOf(d, at)
        BY <1>7, <1>8
      <3>2. HeaderOf(d, at) \in {2, 4}
        BY DEF HeaderOf
      <3> HIDE DEF reach, header
      <3> QED
        BY <1>4, <3>1, <3>2 DEF Whole
    <2>2. ReadAtom(d, at) = Atom(CellAt(d, at + 1)[2], at, end, end - at - header,
                                 large, SubSeq(d, at + header + 1, end))
      BY <2>1, Zenon DEF ReadAtom
    <2>3. reach = span /\ header = HeaderOf(d, at)
      BY <1>7, <1>8
    <2> HIDE DEF reach, header
    <2>4. end = at + span
      BY <1>5, <2>3, Zenon
    <2> HIDE DEF end, span, number, large
    <2>5. at + span - at - HeaderOf(d, at) = end - at - header
      <3>1. span \in Nat /\ HeaderOf(d, at) \in Nat
        BY <1>4 DEF HeaderOf, span
      <3> QED
        BY <2>3, <2>4, <3>1
    <2>6. SubSeq(d, at + HeaderOf(d, at) + 1, at + span) = SubSeq(d, at + header + 1, end)
      BY <2>3, <2>4, Zenon
    <2> QED
      BY <2>2, <2>4, <2>5, <2>6, Zenon
  <1> QED
    BY <1>1, <1>3, <1>4, <1>6, <1>9 DEF HeaderOf

\* whatever is read goes on beyond its header, and not beyond the file
LEMMA AnyRead ==
    ASSUME NEW d \in Disk, NEW at \in Nat, at + 1 < Len(d)
    PROVE  /\ ReadAtom(d, at).start = at
           /\ ReadAtom(d, at).end \in Nat
           /\ at + 2 <= ReadAtom(d, at).end /\ ReadAtom(d, at).end <= Len(d)
  <1> DEFINE number == CellAt(d, at)
             type   == CellAt(d, at + 1)
             large  == number[2] = 1
             header == IF large THEN 4 ELSE 2
             span   == IF number[2] = 0 THEN Len(d) - at
                       ELSE IF large THEN LargeSize(d, at) ELSE number[2]
             end    == Min({at + span, Len(d)})
  <1>1. Len(d) \in Nat
    BY DEF Disk
  <1>2. CASE \/ ~ IsNumber(number) \/ ~ IsType(type)
             \/ (large /\ ~ HasLargeSize(d, at)) \/ span < header
    <2>1. ReadAtom(d, at) = Unreadable(d, at)
      BY <1>2, Zenon DEF ReadAtom
    <2> QED
      BY <1>1, <2>1 DEF Unreadable, Atom
  <1>3. CASE ~ (\/ ~ IsNumber(number) \/ ~ IsType(type)
                \/ (large /\ ~ HasLargeSize(d, at)) \/ span < header)
    <2>1. ReadAtom(d, at) = Atom(type[2], at, end, end - at - header, large,
                                 SubSeq(d, at + header + 1, end))
      BY <1>3, Zenon DEF ReadAtom
    <2>2. number \in Cell
      BY <1>1, Opaque
    <2>3. number[2] \in Nat
      BY <1>3, <2>2, Cells
    <2>4. span \in Nat
      BY <1>1, <1>3, <2>3, LargeSizeTyped
    <2>5. span >= 2
      <3>1. span >= header /\ header \in {2, 4}
        BY <1>3, <2>4
      <3> HIDE DEF span, header
      <3> QED
        BY <2>4, <3>1
    <2>6. end \in Nat /\ at + 2 <= end /\ end <= Len(d)
      <3> HIDE DEF span
      <3>1. CASE at + span <= Len(d)
        <4>1. {at + span, Len(d)} \in SUBSET Int /\ at + span \in {at + span, Len(d)}
              /\ \A x \in {at + span, Len(d)} : at + span <= x
          BY <1>1, <2>4, <3>1
        <4>2. end = at + span
          BY <4>1, MinIs
        <4> QED
          BY <2>4, <2>5, <3>1, <4>2
      <3>2. CASE at + span > Len(d)
        <4>1. {at + span, Len(d)} \in SUBSET Int /\ Len(d) \in {at + span, Len(d)}
              /\ \A x \in {at + span, Len(d)} : Len(d) <= x
          BY <1>1, <2>4, <3>2
        <4>2. end = Len(d)
          BY <4>1, MinIs
        <4> QED
          BY <1>1, <4>2
      <3> QED
        BY <1>1, <2>4, <3>1, <3>2
    <2> HIDE DEF end, span, header
    <2> QED
      BY <2>1, <2>6 DEF Atom
  <1> QED
    BY <1>2, <1>3

-----------------------------------------------------------------------------
(* Reading one atom after the other *)

\* list is what is read of d from its start until nothing more can be read
Follows(d, list) ==
    /\ list \in Seq(Range(list))
    /\ \A i \in 1 .. Len(list) : /\ list[i] = ReadAtom(d, list[i].start)
                                 /\ list[i].start \in Nat
                                 /\ list[i].start + 1 < Len(d)
    /\ Len(list) = 0 => Len(d) <= 1
    /\ Len(list) # 0 => list[1].start = 0 /\ list[Len(list)].end + 1 >= Len(d)
    /\ \A i \in 1 .. Len(list) - 1 : list[i + 1].start = list[i].end

LEMMA IntervalCounted ==
    ASSUME NEW c \in Nat
    PROVE  Cardinality(0 .. c - 1) = c
  <1>1. CASE c = 0
    <2>1. 0 .. c - 1 = {}
      BY <1>1
    <2> QED
      BY <1>1, <2>1, FS_EmptySet
  <1>2. CASE c # 0
    <2>1. 0 \in Int /\ c - 1 \in Int /\ ~ (0 > c - 1)
      BY <1>2
    <2>2. Cardinality(0 .. c - 1) = c - 1 - 0 + 1
      BY <2>1, FS_Interval
    <2> QED
      BY <2>2
  <1> QED
    BY <1>1, <1>2

LEMMA ReadFollows ==
    ASSUME NEW d \in Disk
    PROVE  Follows(d, ReadAtoms(d))
  <1> DEFINE H == Len(d) \div 2
             P == {x \in Nat : x + 1 < Len(d)}
             R == SUBSET P
             Go(S) == {at \in {ReadAtom(d, s).end : s \in S} : at + 1 < Len(d)}
             base == {at \in {0} : at + 1 < Len(d)}
             step == [p \in (1 .. H) \X R |-> Go(p[2])]
             start == CHOOSE g : g = [n \in 0 .. H |->
                         {at \in IF n = 0 THEN {0}
                                 ELSE {ReadAtom(d, s).end : s \in g[n - 1]} :
                             at + 1 < Len(d)}]
  <1>1. Len(d) \in Nat /\ H \in Nat /\ 2 * H + 1 >= Len(d)
    <2>1. Len(d) \in Nat
      BY DEF Disk
    <2>2. \A n \in Nat : n \div 2 \in Nat /\ 2 * (n \div 2) + 1 >= n
      OBVIOUS
    <2> QED
      BY <2>1, <2>2
  <1> HIDE DEF H
  <1>2. base \in R
    BY <1>1
  <1>3. ASSUME NEW S \in R PROVE Go(S) \in R
    BY AnyRead
  <1>4. step \in [(1 .. H) \X R -> R]
        /\ \A n \in 1 .. H : \A S \in R : step[<<n, S>>] = Go(S)
    <2> HIDE DEF R, Go
    <2> QED
      BY <1>3
  <1> HIDE DEF step
  <1>5. PICK g \in [0 .. H -> R] : Stepped(g, 0, H, base, step)
    <2>1. 0 \in Int /\ H \in Int /\ 0 <= H /\ 0 + 1 = 1
      BY <1>1
    <2>2. step \in [(0 + 1 .. H) \X R -> R]
      BY <1>4, <2>1
    <2> HIDE DEF R, base
    <2> QED
      BY <1>2, <2>1, <2>2, Recursion, Zenon
  <1>6. /\ g[0] = base
        /\ \A n \in 1 .. H : g[n] = Go(g[n - 1])
    <2>1. \A n \in 1 .. H : n \in 0 + 1 .. H /\ n - 1 \in 0 .. H
      BY <1>1
    <2> HIDE DEF R, base, Go
    <2> QED
      BY <1>4, <1>5, <2>1 DEF Stepped
  <1>7. g = [n \in 0 .. H |->
               {at \in IF n = 0 THEN {0} ELSE {ReadAtom(d, s).end : s \in g[n - 1]} :
                   at + 1 < Len(d)}]
    <2>1. ASSUME NEW n \in 0 .. H
          PROVE  g[n] = {at \in IF n = 0 THEN {0}
                                ELSE {ReadAtom(d, s).end : s \in g[n - 1]} :
                            at + 1 < Len(d)}
      <3>1. CASE n = 0
        BY <1>6, <3>1
      <3>2. CASE n # 0
        <4>1. n \in 1 .. H
          BY <3>2
        <4>2. g[n] = Go(g[n - 1])
          BY <1>6, <4>1
        <4> QED
          BY <3>2, <4>2, Zenon
      <3> QED
        BY <3>1, <3>2
    <2>2. g = [n \in 0 .. H |-> g[n]]
      BY <1>5
    <2> QED
      BY <2>1, <2>2, Zenon
  <1>8. start = [n \in 0 .. H |->
               {at \in IF n = 0 THEN {0} ELSE {ReadAtom(d, s).end : s \in start[n - 1]} :
                   at + 1 < Len(d)}]
    BY <1>7, Zenon
  <1>9. ReadAtoms(d) = [n \in 1 .. Cardinality({n \in DOMAIN start : start[n] # {}})
                          |-> ReadAtom(d, CHOOSE at \in start[n - 1] : TRUE)]
    BY Zenon DEF ReadAtoms, H
  <1> HIDE DEF start
  <1>10. DOMAIN start = 0 .. H
    BY <1>8
  <1>11. /\ start[0] = base
         /\ \A n \in 1 .. H : start[n] = Go(start[n - 1])
    <2>1. 0 \in 0 .. H /\ \A n \in 1 .. H : n \in 0 .. H /\ n # 0
      BY <1>1
    <2>2. start[0] = {at \in IF 0 = 0 THEN {0}
                             ELSE {ReadAtom(d, s).end : s \in start[0 - 1]} :
                         at + 1 < Len(d)}
      BY <1>8, <2>1, Zenon
    <2>3. start[0] = base
      BY <2>2
    <2>4. ASSUME NEW n \in 1 .. H
          PROVE  start[n] = Go(start[n - 1])
      <3>1. start[n] = {at \in IF n = 0 THEN {0}
                               ELSE {ReadAtom(d, s).end : s \in start[n - 1]} :
                           at + 1 < Len(d)}
        BY <1>8, <2>1, Zenon
      <3> QED
        BY <2>1, <3>1, Zenon
    <2> QED
      BY <2>3, <2>4
  <1> HIDE DEF base
  \* one position at a time, and further than two cells each time
  <1> DEFINE One(n) == /\ start[n] \in R
                       /\ \A x, y \in start[n] : x = y
                       /\ \A x \in start[n] : x >= 2 * n
             T == {n \in 0 .. H : One(n)}
  <1>12. 0 .. H \subseteq T
    <2>1. 0 \in T
      BY <1>1, <1>2, <1>11 DEF base
    <2>2. ASSUME NEW n \in 0 .. H - 1, n \in T PROVE n + 1 \in T
      <3>1. n + 1 \in 1 .. H /\ n + 1 \in 0 .. H /\ (n + 1) - 1 = n
        BY <1>1
      <3>2. start[n + 1] = Go(start[n])
        BY <1>11, <3>1
      <3>3. start[n] \in R /\ (\A x, y \in start[n] : x = y)
            /\ \A x \in start[n] : x >= 2 * n
        BY <2>2
      <3>4. start[n + 1] \in R
        BY <1>3, <3>2, <3>3
      <3>5. ASSUME NEW x \in start[n + 1], NEW y \in start[n + 1] PROVE x = y
        BY <3>2, <3>3
      <3>6. ASSUME NEW x \in start[n + 1] PROVE x >= 2 * (n + 1)
        <4>1. PICK s \in start[n] : x = ReadAtom(d, s).end
          BY <3>2
        <4>2. s \in Nat /\ s + 1 < Len(d) /\ s >= 2 * n
          BY <3>3
        <4>3. x \in Nat /\ s + 2 <= x
          BY <4>1, <4>2, AnyRead
        <4> QED
          BY <1>1, <4>2, <4>3
      <3> QED
        BY <3>1, <3>4, <3>5, <3>6
    <2>3. 0 \in Int /\ H \in Int /\ (0 <= H => 0 \in T)
      BY <1>1, <2>1
    <2> HIDE DEF T
    <2> QED
      BY <2>2, <2>3, IntervalInduction
  <1>13. \A n \in 0 .. H : One(n)
    BY <1>12
  <1> HIDE DEF T
  <1>14. start[H] = {}
    <2> SUFFICES ASSUME NEW x \in start[H] PROVE FALSE
      OBVIOUS
    <2>1. H \in 0 .. H
      BY <1>1
    <2>2. x \in Nat /\ x + 1 < Len(d) /\ x >= 2 * H
      BY <1>13, <2>1
    <2> QED
      BY <1>1, <2>2
  <1>15. PICK c \in 0 .. H : /\ start[c] = {}
                             /\ \A n \in 0 .. H : start[n] = {} => c <= n
    <2> DEFINE E == {n \in 0 .. H : start[n] = {}}
    <2>1. E \in SUBSET Nat /\ E # {}
      BY <1>1, <1>14
    <2>2. PICK c \in E : \A n \in E : c <= n
      BY <2>1, LeastNatural
    <2> QED
      BY <2>2
  <1>16. \A n \in 0 .. H : start[n] # {} <=> n < c
    <2> DEFINE E == {n \in 0 .. H : start[n] = {}}
    <2>1. c .. H \subseteq E
      <3>1. ASSUME NEW n \in c .. H - 1, n \in E PROVE n + 1 \in E
        <4>1. n + 1 \in 1 .. H /\ n + 1 \in 0 .. H /\ (n + 1) - 1 = n
          BY <1>1, <1>15
        <4>2. start[n + 1] = Go(start[n]) /\ start[n] = {}
          BY <1>11, <3>1, <4>1
        <4> QED
          BY <4>1, <4>2
      <3>2. c \in Int /\ H \in Int /\ (c <= H => c \in E)
        BY <1>1, <1>15
      <3> HIDE DEF E
      <3> QED
        BY <3>1, <3>2, IntervalInduction
    <2>2. \A n \in 0 .. H : n >= c => n \in E
      BY <1>1, <1>15, <2>1
    <2> QED
      BY <1>1, <1>15, <2>2
  <1>17. Cardinality({n \in DOMAIN start : start[n] # {}}) = c
    <2>1. {n \in DOMAIN start : start[n] # {}} = 0 .. c - 1
      BY <1>1, <1>10, <1>15, <1>16
    <2>2. c \in Nat
      BY <1>15
    <2> QED
      BY <2>1, <2>2, IntervalCounted, Zenon
  <1> DEFINE list == ReadAtoms(d)
             At(n) == CHOOSE at \in start[n - 1] : TRUE
  <1>18. list = [n \in 1 .. c |-> ReadAtom(d, At(n))]
    BY <1>9, <1>17
  <1> HIDE DEF list
  <1>19. ASSUME NEW n \in 1 .. c
         PROVE  /\ start[n - 1] = {At(n)} /\ At(n) \in Nat /\ At(n) + 1 < Len(d)
                /\ list[n] = ReadAtom(d, At(n)) /\ list[n].start = At(n)
    <2>1. n - 1 \in 0 .. H /\ n - 1 < c
      BY <1>1, <1>15
    <2>2. start[n - 1] # {} /\ One(n - 1)
      BY <1>13, <1>16, <2>1
    <2>3. At(n) \in start[n - 1]
      BY <2>2
    <2> HIDE DEF At
    <2>4. start[n - 1] = {At(n)} /\ At(n) \in Nat /\ At(n) + 1 < Len(d)
      BY <2>2, <2>3
    <2>5. list[n] = ReadAtom(d, At(n))
      BY <1>18
    <2> QED
      BY <2>4, <2>5, AnyRead
  <1> HIDE DEF At
  <1>20. Len(list) = c /\ list \in Seq(Range(list))
    <2>1. c \in Nat
      BY <1>15
    <2>2. DOMAIN list = 1 .. c
      BY <1>18
    <2>3. list \in [1 .. c -> Range(list)]
      BY <1>18, <2>2 DEF Range
    <2> QED
      BY <2>1, <2>3
  <1>21. c = 0 => Len(d) <= 1
    <2> HAVE c = 0
    <2>1. 0 \notin base
      BY <1>11, <1>15
    <2> QED
      BY <1>1, <2>1 DEF base
  <1>22. c # 0 => list[1].start = 0
    <2> HAVE c # 0
    <2>1. 1 \in 1 .. c /\ 1 - 1 = 0
      BY <1>15
    <2>2. At(1) \in base
      BY <1>11, <1>19, <2>1
    <2> QED
      BY <1>19, <2>1, <2>2 DEF base
  <1>23. c # 0 => list[c].end + 1 >= Len(d)
    <2> HAVE c # 0
    <2>1. c \in 1 .. c /\ c \in 1 .. H
      BY <1>15
    <2>2. start[c] = Go({At(c)}) /\ start[c] = {}
      BY <1>11, <1>15, <1>19, <2>1
    <2>3. list[c] = ReadAtom(d, At(c)) /\ At(c) \in Nat /\ At(c) + 1 < Len(d)
      BY <1>19, <2>1
    <2>4. list[c].end \in Nat
      BY <2>3, AnyRead
    <2>5. ~ (list[c].end + 1 < Len(d))
      BY <2>2, <2>3
    <2> QED
      BY <1>1, <2>4, <2>5
  <1>24. ASSUME NEW n \in 1 .. c - 1
         PROVE  list[n + 1].start = list[n].end
    <2>1. n \in 1 .. c /\ n + 1 \in 1 .. c /\ (n + 1) - 1 = n /\ n \in 1 .. H
      BY <1>1, <1>15
    <2>2. start[n] = Go({At(n)}) /\ start[n] = {At(n + 1)}
      BY <1>11, <1>19, <2>1
    <2>3. At(n + 1) = ReadAtom(d, At(n)).end
      BY <2>2
    <2> QED
      BY <1>19, <2>1, <2>3
  <1>25. \A n \in 1 .. c : /\ list[n] = ReadAtom(d, list[n].start)
                           /\ list[n].start \in Nat /\ list[n].start + 1 < Len(d)
    BY <1>19
  <1>26. Follows(d, list)
    BY <1>20, <1>21, <1>22, <1>23, <1>24, <1>25 DEF Follows
  <1> QED
    BY <1>26 DEF list

LEMMA Parts ==
    ASSUME NEW d \in Disk, NEW at \in Nat, Whole(d, at)
    PROVE  LET r == ReadAtom(d, at)
           IN  /\ r.start = at /\ r.type = CellAt(d, at + 1)[2] /\ r.type \in TypeNames
               /\ r.end \in Nat /\ r.end <= Len(d) /\ r.size \in Nat
               /\ r.large \in BOOLEAN
               /\ r.end = at + (IF r.large THEN 4 ELSE 2) + r.size
               /\ r.content \in Seq(Cell) /\ Len(r.content) = r.size
               /\ \A k \in 1 .. r.size : r.content[k] = d[r.end - r.size + k]
  <1> DEFINE span == SpanOf(d, at)
             h == HeaderOf(d, at)
             content == SubSeq(d, at + h + 1, at + span)
             r == ReadAtom(d, at)
  <1>1. /\ r.start = at /\ r.type = CellAt(d, at + 1)[2] /\ r.end = at + span
        /\ r.size = span - h /\ r.content = content
    BY WholeRead DEF Atom
  <1>9. r.large = (CellAt(d, at)[2] = 1)
    BY WholeRead DEF Atom
  <1>2. /\ r.type \in TypeNames /\ span \in Nat /\ h \in {2, 4} /\ h <= span
        /\ at + span <= Len(d) /\ Len(d) \in Nat
    BY <1>1, WholeRead DEF Whole
  <1>3. h = IF r.large THEN 4 ELSE 2
    BY <1>9 DEF HeaderOf
  <1> HIDE DEF span, h, r
  <1>4. /\ content \in Seq(Cell) /\ Len(content) = span - h
        /\ \A k \in 1 .. span - h : content[k] = d[at + h + k]
    <2>1. at + h + 1 \in 1 .. Len(d) + 1 /\ at + span \in at + h .. Len(d)
      BY <1>2
    <2>2. d \in Seq(Cell)
      BY DEF Disk
    <2>3. \A i \in 1 .. Len(d) + 1 : \A j \in i - 1 .. Len(d) :
             /\ SubSeq(d, i, j) \in Seq(Cell) /\ Len(SubSeq(d, i, j)) = j - i + 1
             /\ \A k \in 1 .. j - i + 1 : SubSeq(d, i, j)[k] = d[i + k - 1]
      BY <2>2
    <2> DEFINE i == at + h + 1
               j == at + span
    <2>4. i \in 1 .. Len(d) + 1 /\ j \in i - 1 .. Len(d)
          /\ j - i + 1 = span - h /\ \A k \in Int : i + k - 1 = at + h + k
      BY <1>2
    <2>7. span - h \in Int
      BY <1>2
    <2>5. content = SubSeq(d, i, j)
      OBVIOUS
    <2> HIDE DEF content, i, j
    <2>6. /\ SubSeq(d, i, j) \in Seq(Cell) /\ Len(SubSeq(d, i, j)) = j - i + 1
          /\ \A k \in 1 .. j - i + 1 : SubSeq(d, i, j)[k] = d[i + k - 1]
      BY <2>3, <2>4
    <2>8. /\ content \in Seq(Cell) /\ Len(content) = span - h
          /\ \A k \in 1 .. span - h : content[k] = d[i + k - 1]
      BY <2>4, <2>5, <2>6
    <2>9. \A k \in 1 .. span - h : content[k] = d[at + h + k]
      <3> TAKE k \in 1 .. span - h
      <3>1. k \in Int
        BY <2>7
      <3> QED
        BY <2>4, <2>8, <3>1
    <2> QED
      BY <2>8, <2>9
  <1> HIDE DEF content
  <1>5. r.end - r.size = at + h /\ r.size \in Nat /\ r.end \in Nat /\ r.end <= Len(d)
        /\ r.end = at + h + r.size
    BY <1>1, <1>2
  <1>6. r.large \in BOOLEAN
    BY <1>9
  <1>7. /\ r.content \in Seq(Cell) /\ Len(r.content) = r.size
        /\ \A k \in 1 .. r.size : r.content[k] = d[r.end - r.size + k]
    BY <1>1, <1>4, <1>5
  <1>8. r.end = at + (IF r.large THEN 4 ELSE 2) + r.size
    BY <1>3, <1>5
  <1> QED
    BY <1>1, <1>2, <1>5, <1>6, <1>7, <1>8 DEF r

LEMMA SamePart ==
    ASSUME NEW d \in Disk, NEW d2 \in Disk, NEW i \in Nat \ {0}, NEW j \in Nat,
           j <= Len(d), j <= Len(d2), i <= j + 1, \A k \in i .. j : d2[k] = d[k]
    PROVE  SubSeq(d2, i, j) = SubSeq(d, i, j)
  <1>1. /\ d \in Seq(Cell) /\ d2 \in Seq(Cell) /\ Len(d) \in Nat /\ Len(d2) \in Nat
    BY DEF Disk
  <1> DEFINE x == SubSeq(d, i, j)
             y == SubSeq(d2, i, j)
  <1>2. /\ x \in Seq(Cell) /\ y \in Seq(Cell) /\ Len(x) = j - i + 1 /\ Len(y) = j - i + 1
        /\ \A k \in 1 .. j - i + 1 : x[k] = d[i + k - 1] /\ y[k] = d2[i + k - 1]
    BY <1>1
  <1> HIDE DEF x, y
  <1>3. \A k \in 1 .. Len(x) : x[k] = y[k]
    <2> TAKE k \in 1 .. Len(x)
    <2>1. k \in 1 .. j - i + 1 /\ i + k - 1 \in i .. j
      BY <1>2
    <2>2. x[k] = d[i + k - 1] /\ y[k] = d2[i + k - 1]
      BY <1>2, <2>1
    <2> QED
      BY <2>1, <2>2
  <1>4. x = y
    BY <1>2, <1>3
  <1> QED
    BY <1>4 DEF x, y

\* what is read of an atom depends on its own cells
LEMMA Same ==
    ASSUME NEW d \in Disk, NEW at \in Nat, Whole(d, at), NEW d2 \in Disk,
           ReadAtom(d, at).end <= Len(d2),
           \A k \in at + 1 .. ReadAtom(d, at).end : d2[k] = d[k]
    PROVE  Whole(d2, at) /\ ReadAtom(d2, at) = ReadAtom(d, at)
  <1> DEFINE span == SpanOf(d, at)
             h == HeaderOf(d, at)
  <1>1. /\ ReadAtom(d, at) = Atom(CellAt(d, at + 1)[2], at, at + span, span - h,
                                  CellAt(d, at)[2] = 1, SubSeq(d, at + h + 1, at + span))
        /\ span \in Nat /\ h \in {2, 4} /\ h <= span /\ at + span <= Len(d)
        /\ h = 4 <=> CellAt(d, at)[2] = 1
    BY WholeRead DEF Whole, HeaderOf
  <1>2. at + span <= Len(d2) /\ Len(d) \in Nat /\ Len(d2) \in Nat
        /\ \A k \in at + 1 .. at + span : d2[k] = d[k]
    BY <1>1 DEF Atom, Disk
  <1> HIDE DEF span, h
  <1>3. /\ CellAt(d2, at) = CellAt(d, at) /\ CellAt(d2, at + 1) = CellAt(d, at + 1)
        /\ h = 4 => /\ CellAt(d2, at + 2) = CellAt(d, at + 2)
                    /\ CellAt(d2, at + 3) = CellAt(d, at + 3)
    <2>1. span \in Nat /\ h \in {2, 4} /\ h <= span
      BY <1>1
    <2>2. /\ at + 1 \in at + 1 .. at + span /\ (at + 1) + 1 \in at + 1 .. at + span
          /\ h = 4 => /\ at + 2 + 1 \in at + 1 .. at + span
                      /\ at + 3 + 1 \in at + 1 .. at + span
      BY <2>1
    <2>3. \A p \in Nat : p + 1 \in at + 1 .. at + span => CellAt(d2, p) = CellAt(d, p)
      BY <1>2 DEF CellAt
    <2>4. at + 1 \in Nat /\ at + 2 \in Nat /\ at + 3 \in Nat
      OBVIOUS
    <2> QED
      BY <2>2, <2>3, <2>4
  <1>4. h = 4 => LargeSize(d2, at) = LargeSize(d, at)
    BY <1>3 DEF LargeSize
  <1>5. SpanOf(d2, at) = span /\ HeaderOf(d2, at) = h
    BY <1>1, <1>3, <1>4 DEF SpanOf, HeaderOf, span, h
  <1>6. h = 4 => HasLargeSize(d2, at)
    <2>1. h = 4 => HasLargeSize(d, at)
      BY <1>1 DEF Whole
    <2>2. at + 3 \in Nat /\ h = 4 => at + 3 < Len(d2)
      BY <1>1, <1>2
    <2> QED
      BY <1>1, <1>2, <1>3, <2>1, <2>2 DEF HasLargeSize
  <1>7. Whole(d2, at)
    <2>1. at + 1 < Len(d2)
      BY <1>1, <1>2
    <2>2. /\ IsNumber(CellAt(d2, at)) /\ IsType(CellAt(d2, at + 1))
          /\ CellAt(d2, at)[2] # 0
      BY <1>3 DEF Whole
    <2>3. CellAt(d2, at)[2] = 1 => HasLargeSize(d2, at)
      BY <1>1, <1>3, <1>6
    <2> QED
      BY <1>1, <1>2, <1>5, <2>1, <2>2, <2>3 DEF Whole
  <1>8. ReadAtom(d2, at) = Atom(CellAt(d2, at + 1)[2], at, at + span, span - h,
                                CellAt(d2, at)[2] = 1,
                                SubSeq(d2, at + h + 1, at + span))
    BY <1>5, <1>7, WholeRead
  <1>9. SubSeq(d2, at + h + 1, at + span) = SubSeq(d, at + h + 1, at + span)
    <2>1. /\ at + h + 1 \in Nat \ {0} /\ at + span \in Nat /\ at + h + 1 <= at + span + 1
          /\ \A k \in at + h + 1 .. at + span : d2[k] = d[k]
      BY <1>1, <1>2
    <2> QED
      BY <1>1, <1>2, <2>1, SamePart
  <1>10. ReadAtom(d2, at) = ReadAtom(d, at)
    BY <1>1, <1>3, <1>8, <1>9, Zenon
  <1> QED
    BY <1>7, <1>10

\* the header AtomWrites leaves
LEMMA Fresh ==
    ASSUME NEW d \in Disk, NEW at \in Nat, NEW n \in Nat, NEW t \in TypeNames,
           at + 2 + n <= Len(d), CellAt(d, at) = Number(2 + n),
           CellAt(d, at + 1) = Type(t)
    PROVE  /\ Whole(d, at)
           /\ ReadAtom(d, at) = Atom(t, at, at + 2 + n, n, FALSE,
                                     SubSeq(d, at + 3, at + 2 + n))
  <1>1. /\ Len(d) \in Nat
        /\ IsNumber(CellAt(d, at)) /\ CellAt(d, at)[2] = 2 + n
        /\ IsType(CellAt(d, at + 1)) /\ CellAt(d, at + 1)[2] = t
    <2>1. 2 + n \in Nat
      OBVIOUS
    <2>2. IsNumber(Number(2 + n)) /\ Number(2 + n)[2] = 2 + n
          /\ IsType(Type(t)) /\ Type(t)[2] = t
      BY <2>1, Cells
    <2>3. Len(d) \in Nat
      BY DEF Disk
    <2> QED
      BY <2>2, <2>3
  <1>2. SpanOf(d, at) = 2 + n /\ HeaderOf(d, at) = 2 /\ CellAt(d, at)[2] # 1
        /\ CellAt(d, at)[2] # 0
    BY <1>1 DEF SpanOf, HeaderOf
  <1>3. Whole(d, at)
    <2>1. at + 1 < Len(d) /\ 2 + n >= 2 /\ at + (2 + n) <= Len(d)
      BY <1>1
    <2> QED
      BY <1>1, <1>2, <2>1 DEF Whole
  <1>4. ReadAtom(d, at) = Atom(t, at, at + (2 + n), (2 + n) - 2, CellAt(d, at)[2] = 1,
                               SubSeq(d, at + 2 + 1, at + (2 + n)))
    BY <1>1, <1>2, <1>3, WholeRead
  <1>5. /\ at + (2 + n) = at + 2 + n /\ (2 + n) - 2 = n /\ at + 2 + 1 = at + 3
        /\ (CellAt(d, at)[2] = 1) = FALSE
    BY <1>2
  <1> QED
    BY <1>3, <1>4, <1>5, Zenon

-----------------------------------------------------------------------------
(* Atoms that fill a part of a file *)

End(d, a) == ReadAtom(d, a).end

\* the atoms at the positions of S follow each other from s to e
Tiles(d, S, s, e) ==
    /\ s \in Nat /\ e \in Nat /\ s <= e /\ e <= Len(d)
    /\ S \in SUBSET Nat
    /\ s \in S \cup {e}
    /\ \A a \in S : /\ Whole(d, a)
                    /\ s <= a /\ End(d, a) <= e /\ End(d, a) \in S \cup {e}
    /\ \A a, b \in S : a < b => End(d, a) <= b

LEMMA TileEnds ==
    ASSUME NEW d \in Disk, NEW S, NEW s, NEW e, Tiles(d, S, s, e), NEW a \in S
    PROVE  a \in Nat /\ End(d, a) \in Nat /\ a + 2 <= End(d, a) /\ a < e
  <1>1. a \in Nat /\ Whole(d, a) /\ e \in Nat /\ End(d, a) <= e
    BY DEF Tiles
  <1>2. a + 1 < Len(d)
    BY <1>1 DEF Whole
  <1> QED
    BY <1>1, <1>2, AnyRead DEF End

LEMMA TileOne ==
    ASSUME NEW d \in Disk, NEW a \in Nat, Whole(d, a)
    PROVE  Tiles(d, {a}, a, End(d, a))
  <1>1. a + 1 < Len(d)
    BY DEF Whole
  <1>2. End(d, a) \in Nat /\ a + 2 <= End(d, a) /\ End(d, a) <= Len(d)
    BY <1>1, AnyRead DEF End
  <1> QED
    BY <1>2 DEF Tiles

LEMMA TileNone ==
    ASSUME NEW d \in Disk, NEW a \in Nat, a <= Len(d)
    PROVE  Tiles(d, {}, a, a)
  BY DEF Tiles

LEMMA TilesJoin ==
    ASSUME NEW d \in Disk, NEW S, NEW T, NEW a, NEW b, NEW c,
           Tiles(d, S, a, b), Tiles(d, T, b, c)
    PROVE  Tiles(d, S \cup T, a, c)
  <1>1. /\ a \in Nat /\ b \in Nat /\ c \in Nat /\ a <= b /\ b <= c /\ c <= Len(d)
        /\ S \in SUBSET Nat /\ T \in SUBSET Nat /\ Len(d) \in Nat
    BY DEF Tiles, Disk
  <1>2. a \in (S \cup T) \cup {c}
    BY DEF Tiles
  <1>3. ASSUME NEW x \in S \cup T
        PROVE  /\ Whole(d, x) /\ a <= x /\ End(d, x) <= c
               /\ End(d, x) \in (S \cup T) \cup {c}
    <2>1. CASE x \in S
      <3>1. /\ Whole(d, x) /\ a <= x /\ End(d, x) <= b /\ End(d, x) \in S \cup {b}
            /\ End(d, x) \in Nat
        BY <2>1, TileEnds DEF Tiles
      <3>2. b \in T \cup {c}
        BY DEF Tiles
      <3> QED
        BY <1>1, <3>1, <3>2
    <2>2. CASE x \in T
      <3>1. /\ Whole(d, x) /\ b <= x /\ End(d, x) <= c /\ End(d, x) \in T \cup {c}
            /\ x \in Nat
        BY <2>2 DEF Tiles
      <3> QED
        BY <1>1, <3>1
    <2> QED
      BY <2>1, <2>2
  <1>4. ASSUME NEW x \in S \cup T, NEW y \in S \cup T, x < y
        PROVE  End(d, x) <= y
    <2>1. CASE x \in S /\ y \in S
      BY <1>4, <2>1 DEF Tiles
    <2>2. CASE x \in T /\ y \in T
      BY <1>4, <2>2 DEF Tiles
    <2>3. CASE x \in S /\ y \in T
      <3>1. End(d, x) <= b /\ b <= y /\ End(d, x) \in Nat /\ y \in Nat
        BY <2>3, TileEnds DEF Tiles
      <3> QED
        BY <1>1, <3>1
    <2>4. CASE x \in T /\ y \in S
      <3>1. y \in Nat /\ y < b
        BY <2>4, TileEnds
      <3>2. b <= x /\ x \in Nat
        BY <2>4 DEF Tiles
      <3> QED
        BY <1>1, <1>4, <3>1, <3>2
    <2> QED
      BY <2>1, <2>2, <2>3, <2>4
  <1> HIDE DEF End
  <1> QED
    BY <1>1, <1>2, <1>3, <1>4 DEF Tiles

LEMMA TilesCut ==
    ASSUME NEW d \in Disk, NEW S, NEW s, NEW e, Tiles(d, S, s, e), NEW x \in S \cup {e}
    PROVE  /\ Tiles(d, {a \in S : a < x}, s, x)
           /\ Tiles(d, {a \in S : a >= x}, x, e)
  <1> DEFINE L == {a \in S : a < x}
             R == {a \in S : a >= x}
  <1>1. /\ s \in Nat /\ e \in Nat /\ s <= e /\ e <= Len(d) /\ Len(d) \in Nat
        /\ S \in SUBSET Nat /\ x \in Nat
    BY DEF Tiles, Disk
  <1>2. s <= x /\ x <= e
    <2>1. CASE x \in S
      <3>1. x < e
        BY <2>1, TileEnds
      <3>2. s <= x
        BY <2>1 DEF Tiles
      <3> QED
        BY <1>1, <3>1, <3>2
    <2>2. CASE x = e
      BY <1>1, <2>2
    <2> QED
      BY <2>1, <2>2
  <1>3. \A a \in S : /\ Whole(d, a) /\ s <= a /\ End(d, a) <= e /\ a < e
                     /\ End(d, a) \in S \cup {e}
                     /\ End(d, a) \in Nat /\ a \in Nat /\ a + 2 <= End(d, a)
    BY TileEnds DEF Tiles
  <1>4. \A a, b \in S : a < b => End(d, a) <= b
    BY DEF Tiles
  <1>5. s \in S \cup {e}
    BY DEF Tiles
  <1>6. Tiles(d, L, s, x)
    <2>1. s \in L \cup {x}
      BY <1>1, <1>2, <1>5
    <2>2. ASSUME NEW a \in L
          PROVE  Whole(d, a) /\ s <= a /\ End(d, a) <= x /\ End(d, a) \in L \cup {x}
      <3>1. a \in S /\ a < x /\ End(d, a) \in Nat /\ End(d, a) \in S \cup {e}
            /\ End(d, a) <= e
        BY <1>3
      <3>2. End(d, a) <= x
        BY <1>4, <3>1
      <3>3. End(d, a) # x => End(d, a) \in L
        BY <1>1, <1>2, <3>1, <3>2
      <3> QED
        BY <1>3, <3>1, <3>2, <3>3
    <2>3. \A a, b \in L : a < b => End(d, a) <= b
      BY <1>4
    <2>4. L \in SUBSET Nat
      BY <1>1
    <2>5. x <= Len(d)
      BY <1>1, <1>2
    <2> HIDE DEF L
    <2> QED
      BY <1>1, <1>2, <2>1, <2>2, <2>3, <2>4, <2>5 DEF Tiles
  <1>7. Tiles(d, R, x, e)
    <2>1. x \in R \cup {e}
      BY <1>1
    <2>2. ASSUME NEW a \in R
          PROVE  Whole(d, a) /\ x <= a /\ End(d, a) <= e /\ End(d, a) \in R \cup {e}
      <3>1. /\ a \in S /\ a >= x /\ End(d, a) \in Nat /\ End(d, a) \in S \cup {e}
            /\ End(d, a) <= e /\ a \in Nat /\ a + 2 <= End(d, a)
        BY <1>3
      <3>2. End(d, a) >= x
        BY <1>1, <3>1
      <3> QED
        BY <1>1, <1>3, <3>1, <3>2
    <2>3. \A a, b \in R : a < b => End(d, a) <= b
      BY <1>4
    <2>4. R \in SUBSET Nat
      BY <1>1
    <2> HIDE DEF R
    <2> QED
      BY <1>1, <1>2, <2>1, <2>2, <2>3, <2>4 DEF Tiles
  <1> QED
    BY <1>6, <1>7

\* nothing else is read where the cells have not changed
LEMMA TilesSame ==
    ASSUME NEW d \in Disk, NEW S, NEW s, NEW e, Tiles(d, S, s, e),
           NEW d2 \in Disk, e <= Len(d2), \A k \in s + 1 .. e : d2[k] = d[k]
    PROVE  /\ Tiles(d2, S, s, e)
           /\ \A a \in S : ReadAtom(d2, a) = ReadAtom(d, a)
  <1>1. ASSUME NEW a \in S
        PROVE  Whole(d2, a) /\ ReadAtom(d2, a) = ReadAtom(d, a)
    <2>1. a \in Nat /\ Whole(d, a) /\ s <= a /\ End(d, a) <= e /\ s \in Nat /\ e \in Nat
          /\ End(d, a) \in Nat
      BY TileEnds DEF Tiles
    <2>3. Len(d2) \in Nat
      BY DEF Disk
    <2>2. \A k \in a + 1 .. End(d, a) : d2[k] = d[k]
      BY <2>1
    <2> QED
      BY <2>1, <2>2, <2>3, Same DEF End
  <1>2. \A a \in S : End(d2, a) = End(d, a)
    BY <1>1 DEF End
  <1>3. Tiles(d2, S, s, e)
    <2> HIDE DEF End
    <2> QED
      BY <1>1, <1>2 DEF Tiles
  <1> QED
    BY <1>1, <1>3

\* a file filled with atoms, but for a cell at its end that is too short for one
Filled(d, S, e) == Tiles(d, S, 0, e) /\ e + 1 >= Len(d)

LEMMA FilledRead ==
    ASSUME NEW d \in Disk, NEW S, NEW e, Filled(d, S, e)
    PROVE  LET list == ReadAtoms(d)
           IN  /\ \A i \in 1 .. Len(list) : list[i].start \in S
               /\ \A a \in S : \E i \in 1 .. Len(list) : list[i].start = a
               /\ Len(list) # 0 => list[Len(list)].end = e
  <1> DEFINE list == ReadAtoms(d)
             n == Len(list)
             T == {i \in 1 .. n : list[i].start \in S}
  <1>1. Follows(d, list)
    BY ReadFollows
  <1> HIDE DEF list
  <1>2. /\ n \in Nat /\ Len(d) \in Nat
        /\ \A i \in 1 .. n : /\ list[i] = ReadAtom(d, list[i].start)
                             /\ list[i].start \in Nat /\ list[i].start + 1 < Len(d)
                             /\ list[i].end = End(d, list[i].start)
    BY <1>1 DEF Follows, Disk, End
  <1>3. Tiles(d, S, 0, e) /\ e + 1 >= Len(d)
    BY DEF Filled
  <1>4. 1 .. n \subseteq T
    <2>1. 1 <= n => 1 \in T
      <3> HAVE 1 <= n
      <3>1. list[1].start = 0 /\ 1 \in 1 .. n
        BY <1>1, <1>2 DEF Follows
      <3>2. 0 + 1 < Len(d)
        BY <1>2, <3>1
      <3>3. 0 # e /\ 0 \in S \cup {e}
        BY <1>2, <1>3, <3>2 DEF Tiles
      <3> QED
        BY <3>1, <3>3
    <2>2. ASSUME NEW i \in 1 .. n - 1, i \in T PROVE i + 1 \in T
      <3>1. i \in 1 .. n /\ i + 1 \in 1 .. n /\ list[i].start \in S
        BY <1>2, <2>2
      <3>2. list[i + 1].start = End(d, list[i].start)
        BY <1>1, <1>2, <3>1 DEF Follows
      <3>3. list[i + 1].start + 1 < Len(d) /\ list[i + 1].start \in Nat
        BY <1>2, <3>1
      <3>4. End(d, list[i].start) \in S \cup {e} /\ e \in Nat
        BY <1>3, <3>1 DEF Tiles
      <3>5. list[i + 1].start # e
        BY <1>2, <1>3, <3>3, <3>4
      <3> QED
        BY <3>1, <3>2, <3>4, <3>5
    <2>3. 1 \in Int /\ n \in Int
      BY <1>2
    <2> HIDE DEF T, n
    <2> QED
      BY <2>1, <2>2, <2>3, IntervalInduction
  <1>5. \A i \in 1 .. n : list[i].start \in S
    BY <1>4
  <1> HIDE DEF T
  <1>6. n # 0 => list[n].end = e
    <2> HAVE n # 0
    <2>1. n \in 1 .. n /\ list[n].end + 1 >= Len(d)
      BY <1>1, <1>2 DEF Follows
    <2>2. list[n].start \in S /\ list[n].end = End(d, list[n].start)
      BY <1>2, <1>5, <2>1
    <2>3. /\ End(d, list[n].start) \in S \cup {e} /\ e \in Nat /\ e <= Len(d)
          /\ End(d, list[n].start) \in Nat
      BY <1>3, <2>2, TileEnds DEF Tiles
    <2>4. ASSUME list[n].end \in S PROVE FALSE
      <3>1. list[n].end + 2 <= End(d, list[n].end) /\ End(d, list[n].end) <= e
            /\ End(d, list[n].end) \in Nat /\ list[n].end \in Nat
        BY <1>3, <2>4, TileEnds DEF Tiles
      <3> QED
        BY <1>2, <2>1, <2>3, <3>1
    <2> QED
      BY <2>2, <2>3, <2>4
  <1>7. ASSUME NEW a \in S, \A i \in 1 .. n : list[i].start # a
        PROVE  FALSE
    <2> DEFINE U == {i \in 1 .. n : list[i].start < a}
    <2>1. a \in Nat /\ a < e /\ e \in Nat /\ 0 <= a /\ a + 2 <= End(d, a)
          /\ End(d, a) <= e /\ End(d, a) \in Nat /\ e <= Len(d)
      BY <1>3, TileEnds DEF Tiles
    <2>2. n # 0
      BY <1>1, <1>2, <2>1 DEF Follows
    <2>3. 1 \in U
      <3>1. list[1].start = 0 /\ 1 \in 1 .. n
        BY <1>1, <1>2, <2>2 DEF Follows
      <3> QED
        BY <1>7, <2>1, <3>1
    <2>4. ASSUME NEW i \in 1 .. n - 1, i \in U PROVE i + 1 \in U
      <3>1. i \in 1 .. n /\ i + 1 \in 1 .. n /\ list[i].start \in S
        BY <1>2, <1>5
      <3>2. list[i + 1].start = End(d, list[i].start)
        BY <1>1, <1>2, <3>1 DEF Follows
      <3>3. End(d, list[i].start) <= a
        BY <1>3, <2>4, <3>1 DEF Tiles
      <3>4. list[i + 1].start # a /\ list[i + 1].start \in Nat
        BY <1>2, <1>7, <3>1
      <3> QED
        BY <2>1, <3>1, <3>2, <3>3, <3>4
    <2>5. 1 \in Int /\ n \in Int
      BY <1>2
    <2>6. n \in 1 .. n
      BY <1>2, <2>2
    <2> HIDE DEF U, n
    <2>7. 1 .. n \subseteq U
      BY <2>3, <2>4, <2>5, IntervalInduction
    <2>8. n \in U
      BY <2>6, <2>7
    <2>9. list[n].start < a /\ list[n].start \in S /\ list[n].end = e
          /\ list[n].end = End(d, list[n].start)
      BY <1>2, <1>5, <1>6, <2>2, <2>6, <2>8 DEF U
    <2>10. e <= a
      BY <1>3, <2>9 DEF Tiles
    <2> QED
      BY <2>1, <2>10
  <1>8. \A a \in S : \E i \in 1 .. n : list[i].start = a
    BY <1>7
  <1> QED
    BY <1>5, <1>6, <1>8 DEF list

LEMMA ReadOrder ==
    ASSUME NEW d \in Disk, NEW list, Follows(d, list),
           NEW i \in 1 .. Len(list), NEW j \in 1 .. Len(list), i < j
    PROVE  list[i].end <= list[j].start
  <1> DEFINE n == Len(list)
             T == {k \in i + 1 .. n : list[i].end <= list[k].start}
  <1>1. /\ n \in Nat
        /\ \A k \in 1 .. n : /\ list[k].start \in Nat /\ list[k].end \in Nat
                             /\ list[k].start + 2 <= list[k].end
        /\ \A k \in 1 .. n - 1 : list[k + 1].start = list[k].end
    <2>3. n \in Nat
      BY DEF Follows
    <2>1. n \in Nat /\ \A k \in 1 .. n - 1 : list[k + 1].start = list[k].end
      BY <2>3, Zenon DEF Follows
    <2>2. ASSUME NEW k \in 1 .. n
          PROVE  /\ list[k].start \in Nat /\ list[k].end \in Nat
                 /\ list[k].start + 2 <= list[k].end
      <3>1. list[k] = ReadAtom(d, list[k].start) /\ list[k].start \in Nat
            /\ list[k].start + 1 < Len(d)
        BY DEF Follows
      <3> QED
        BY <3>1, AnyRead
    <2> QED
      BY <2>1, <2>2
  <1>2. i + 1 <= n => i + 1 \in T
    BY <1>1
  <1>3. ASSUME NEW k \in i + 1 .. n - 1, k \in T PROVE k + 1 \in T
    <2>1. /\ k \in 1 .. n /\ k \in 1 .. n - 1 /\ k + 1 \in 1 .. n
          /\ k + 1 \in i + 1 .. n /\ i \in 1 .. n
      BY <1>1
    <2>2. /\ list[k + 1].start = list[k].end /\ list[k].start \in Nat
          /\ list[k].end \in Nat /\ list[k].start + 2 <= list[k].end
          /\ list[i].end <= list[k].start /\ list[i].end \in Nat
      BY <1>1, <1>3, <2>1
    <2> QED
      BY <2>1, <2>2
  <1>4. i + 1 \in Int /\ n \in Int
    BY <1>1
  <1> HIDE DEF T, n
  <1>5. i + 1 .. n \subseteq T
    BY <1>2, <1>3, <1>4, IntervalInduction
  <1>6. j \in i + 1 .. n
    BY <1>1 DEF n
  <1> QED
    BY <1>5, <1>6 DEF T

StartsOf(list) == {list[i].start : i \in 1 .. Len(list)}
EndOf(list)    == IF Len(list) = 0 THEN 0 ELSE list[Len(list)].end

LEMMA ReadFilled ==
    ASSUME NEW d \in Disk, NEW list, Follows(d, list),
           \A i \in 1 .. Len(list) : Whole(d, list[i].start)
    PROVE  Filled(d, StartsOf(list), EndOf(list))
  <1> DEFINE n == Len(list)
             S == StartsOf(list)
             e == EndOf(list)
  <1>1. /\ n \in Nat /\ Len(d) \in Nat
        /\ \A k \in 1 .. n : /\ list[k].start \in Nat /\ list[k].end \in Nat
                             /\ list[k].start + 2 <= list[k].end /\ list[k].end <= Len(d)
                             /\ list[k].end = End(d, list[k].start)
        /\ \A k \in 1 .. n - 1 : list[k + 1].start = list[k].end
    <2>1. n \in Nat /\ \A k \in 1 .. n - 1 : list[k + 1].start = list[k].end
      <3>1. n \in Nat
        BY DEF Follows
      <3>2. \A k \in 1 .. n - 1 : list[k + 1].start = list[k].end
        BY DEF Follows
      <3> QED
        BY <3>1, <3>2
    <2>2. ASSUME NEW k \in 1 .. n
          PROVE  /\ list[k].start \in Nat /\ list[k].end \in Nat
                 /\ list[k].start + 2 <= list[k].end /\ list[k].end <= Len(d)
                 /\ list[k].end = End(d, list[k].start)
      <3>1. list[k] = ReadAtom(d, list[k].start) /\ list[k].start \in Nat
            /\ list[k].start + 1 < Len(d)
        BY DEF Follows
      <3> QED
        BY <3>1, AnyRead DEF End
    <2>3. Len(d) \in Nat
      BY DEF Disk
    <2> QED
      BY <2>1, <2>2, <2>3
  <1>2. \A i \in 1 .. n : \A j \in 1 .. n : i < j => list[i].end <= list[j].start
    BY ReadOrder
  <1>3. n = 0 => Len(d) <= 1 /\ S = {} /\ e = 0
    BY DEF Follows, StartsOf, EndOf
  <1>4. n # 0 => /\ n \in 1 .. n /\ 1 \in 1 .. n
                 /\ list[1].start = 0 /\ e = list[n].end /\ e + 1 >= Len(d)
    BY <1>1 DEF Follows, EndOf
  <1>5. S = {list[i].start : i \in 1 .. n}
    BY DEF StartsOf
  <1> HIDE DEF S, e, n
  <1>6. e \in Nat /\ e <= Len(d) /\ S \in SUBSET Nat /\ e + 1 >= Len(d)
    <2>1. CASE n = 0
      BY <1>1, <1>3, <2>1
    <2>2. CASE n # 0
      BY <1>1, <1>4, <1>5, <2>2
    <2> QED
      BY <2>1, <2>2
  <1>7. 0 \in S \cup {e}
    BY <1>3, <1>4, <1>5
  <1>8. ASSUME NEW a \in S
        PROVE  /\ Whole(d, a) /\ 0 <= a /\ End(d, a) <= e /\ End(d, a) \in S \cup {e}
    <2>1. PICK i \in 1 .. n : a = list[i].start
      BY <1>5
    <2>2. Whole(d, a) /\ End(d, a) = list[i].end /\ a \in Nat /\ list[i].end \in Nat
      BY <1>1, <2>1 DEF n
    <2>3. n # 0 /\ n \in 1 .. n
      BY <1>1, <1>4
    <2>4. CASE i = n
      BY <1>4, <1>6, <2>2, <2>3, <2>4
    <2>5. CASE i # n
      <3>1. i \in 1 .. n - 1 /\ i + 1 \in 1 .. n /\ i < n
        BY <1>1, <2>5
      <3>2. list[i + 1].start = list[i].end
        BY <1>1, <3>1
      <3>3. list[i].end <= list[n].start /\ list[n].start + 2 <= list[n].end
            /\ list[n].start \in Nat /\ list[n].end \in Nat
        BY <1>1, <1>2, <2>3, <3>1
      <3>4. End(d, a) <= e
        <4>1. e = list[n].end /\ End(d, a) = list[i].end /\ list[i].end \in Nat
          BY <1>4, <2>2, <2>3
        <4> QED
          BY <3>3, <4>1
      <3>5. End(d, a) \in S
        <4>1. list[i + 1].start \in S
          BY <1>5, <3>1
        <4> QED
          BY <2>2, <3>2, <4>1
      <3> QED
        BY <2>2, <3>4, <3>5
    <2> QED
      BY <2>4, <2>5
  <1>9. ASSUME NEW a \in S, NEW b \in S, a < b PROVE End(d, a) <= b
    <2>1. PICK i \in 1 .. n : a = list[i].start
      BY <1>5
    <2>2. PICK j \in 1 .. n : b = list[j].start
      BY <1>5
    <2>3. i < j
      <3>1. i # j
        BY <1>9, <1>1, <2>1, <2>2
      <3>2. ~ (j < i)
        <4> SUFFICES ASSUME j < i PROVE FALSE
          OBVIOUS
        <4>1. list[j].end <= list[i].start /\ list[j].start + 2 <= list[j].end
          BY <1>1, <1>2
        <4> QED
          BY <1>1, <1>9, <2>1, <2>2, <4>1
      <3> QED
        BY <3>1, <3>2
    <2> QED
      BY <1>1, <1>2, <2>1, <2>2, <2>3
  <1>10. Filled(d, S, e)
    <2> HIDE DEF End
    <2> QED
      BY <1>6, <1>7, <1>8, <1>9 DEF Filled, Tiles
  <1> QED
    BY <1>10 DEF S, e

-----------------------------------------------------------------------------
(* Writing *)

\* the writes of w lead from d to f, at positions of P
Lays(d, w, f, P) ==
    /\ d \in Disk /\ f \in Disk /\ P \in SUBSET Nat
    /\ w \in Seq([at : P, cell : Cell])
    /\ \E s \in [0 .. Len(w) -> Disk] :
          /\ s[0] = d /\ s[Len(w)] = f
          /\ \A k \in 1 .. Len(w) : s[k] = Put(s[k - 1], w[k].at, w[k].cell)

LEMMA LaysNothing ==
    ASSUME NEW d \in Disk, NEW P \in SUBSET Nat
    PROVE  Lays(d, <<>>, d, P)
  <1> DEFINE s == [k \in 0 .. 0 |-> d]
  <1>1. s \in [0 .. 0 -> Disk] /\ s[0] = d
    OBVIOUS
  <1>2. Len(<<>>) = 0 /\ <<>> \in Seq([at : P, cell : Cell])
    OBVIOUS
  <1> HIDE DEF s
  <1> QED
    BY <1>1, <1>2 DEF Lays

LEMMA LaysAt ==
    ASSUME NEW d, NEW w, NEW f, NEW P, Lays(d, w, f, P), NEW Q \in SUBSET Nat,
           P \subseteq Q
    PROVE  Lays(d, w, f, Q)
  <1>1. [at : P, cell : Cell] \subseteq [at : Q, cell : Cell]
    OBVIOUS
  <1>2. w \in Seq([at : Q, cell : Cell])
    BY <1>1, MoreMembers DEF Lays
  <1> QED
    BY <1>2 DEF Lays

LEMMA LaysJoin ==
    ASSUME NEW d, NEW w, NEW e, NEW P, NEW v, NEW f, NEW Q,
           Lays(d, w, e, P), Lays(e, v, f, Q)
    PROVE  Lays(d, w \o v, f, P \cup Q)
  <1> DEFINE A == [at : P \cup Q, cell : Cell]
             m == Len(w)
             n == Len(v)
             u == w \o v
  <1>1. /\ d \in Disk /\ f \in Disk /\ P \cup Q \in SUBSET Nat /\ m \in Nat /\ n \in Nat
        /\ w \in Seq(A) /\ v \in Seq(A)
    <2>1. [at : P, cell : Cell] \subseteq A /\ [at : Q, cell : Cell] \subseteq A
      OBVIOUS
    <2>2. /\ d \in Disk /\ f \in Disk /\ P \in SUBSET Nat /\ Q \in SUBSET Nat
          /\ w \in Seq([at : P, cell : Cell]) /\ v \in Seq([at : Q, cell : Cell])
      BY DEF Lays
    <2>3. P \cup Q \in SUBSET Nat /\ m \in Nat /\ n \in Nat
      BY <2>2
    <2> HIDE DEF A
    <2> QED
      BY <2>1, <2>2, <2>3, MoreMembers
  <1>2. PICK s \in [0 .. m -> Disk] :
           /\ s[0] = d /\ s[m] = e
           /\ \A k \in 1 .. m : s[k] = Put(s[k - 1], w[k].at, w[k].cell)
    BY DEF Lays
  <1>3. PICK t \in [0 .. n -> Disk] :
           /\ t[0] = e /\ t[n] = f
           /\ \A k \in 1 .. n : t[k] = Put(t[k - 1], v[k].at, v[k].cell)
    BY DEF Lays
  <1> HIDE DEF A, m, n
  <1>4. /\ u \in Seq(A) /\ Len(u) = m + n
        /\ \A k \in 1 .. m : u[k] = w[k]
        /\ \A k \in 1 .. n : u[m + k] = v[k]
    BY <1>1 DEF m, n
  <1> HIDE DEF u
  <1> DEFINE r == [k \in 0 .. m + n |-> IF k <= m THEN s[k] ELSE t[k - m]]
  <1>5. r \in [0 .. m + n -> Disk]
    <2>1. \A k \in 0 .. m + n : (k <= m => k \in 0 .. m) /\ (~ (k <= m) => k - m \in 0 .. n)
      BY <1>1
    <2> QED
      BY <2>1
  <1>6. \A k \in 0 .. m + n : r[k] = IF k <= m THEN s[k] ELSE t[k - m]
    OBVIOUS
  <1> HIDE DEF r
  <1>7. r[0] = d
    BY <1>1, <1>2, <1>6
  <1>8. \A k \in 0 .. n : r[m + k] = t[k]
    <2> TAKE k \in 0 .. n
    <2>1. m + k \in 0 .. m + n /\ (m + k <= m <=> k = 0) /\ m + k - m = k
      BY <1>1
    <2>2. CASE k = 0
      <3>1. r[m + k] = s[m + k] /\ m + k = m
        BY <1>1, <1>6, <2>1, <2>2
      <3> QED
        BY <1>2, <1>3, <2>2, <3>1
    <2>3. CASE k # 0
      <3> DEFINE j == m + k
      <3>1. j \in 0 .. m + n /\ ~ (j <= m) /\ j - m = k
        BY <1>1, <2>1, <2>3
      <3> HIDE DEF j
      <3>2. r[j] = t[j - m]
        BY <1>6, <3>1
      <3>3. r[j] = t[k]
        BY <3>1, <3>2
      <3> QED
        BY <3>3 DEF j
    <2> QED
      BY <2>2, <2>3
  <1>9. r[m + n] = f
    <2>1. n \in 0 .. n
      BY <1>1
    <2> QED
      BY <1>3, <1>8, <2>1
  <1>10. ASSUME NEW k \in 1 .. m + n
         PROVE  r[k] = Put(r[k - 1], u[k].at, u[k].cell)
    <2>1. CASE k <= m
      <3>1. /\ k \in 1 .. m /\ k \in 0 .. m + n /\ k - 1 \in 0 .. m + n /\ k - 1 <= m
        BY <1>1, <2>1
      <3>2. r[k] = s[k] /\ r[k - 1] = s[k - 1] /\ u[k] = w[k]
        BY <1>4, <1>6, <2>1, <3>1
      <3> QED
        BY <1>2, <3>1, <3>2
    <2>2. CASE ~ (k <= m)
      <3> DEFINE j == k - m
      <3>1. /\ j \in 1 .. n /\ j \in 0 .. n /\ j - 1 \in 0 .. n
            /\ m + j = k /\ m + (j - 1) = k - 1
        BY <1>1, <2>2
      <3> HIDE DEF j
      <3>2. r[m + j] = t[j] /\ r[m + (j - 1)] = t[j - 1] /\ u[m + j] = v[j]
        BY <1>4, <1>8, <3>1
      <3>3. t[j] = Put(t[j - 1], v[j].at, v[j].cell)
        BY <1>3, <3>1
      <3> QED
        BY <3>1, <3>2, <3>3
    <2> QED
      BY <2>1, <2>2
  <1>11. Lays(d, u, f, P \cup Q)
    BY <1>1, <1>4, <1>5, <1>7, <1>9, <1>10 DEF Lays, A
  <1> QED
    BY <1>11 DEF u

\* one cell reaches the file
LEMMA LaysStep ==
    ASSUME NEW d, NEW w, NEW f, NEW P, Lays(d, w, f, P), w # <<>>
    PROVE  /\ Lays(Put(d, Head(w).at, Head(w).cell), Tail(w), f, P)
           /\ Head(w).at \in P /\ Head(w).cell \in Cell
  <1> DEFINE A == [at : P, cell : Cell]
             n == Len(w)
             v == Tail(w)
             e == Put(d, Head(w).at, Head(w).cell)
  <1>1. d \in Disk /\ f \in Disk /\ P \in SUBSET Nat /\ w \in Seq(A) /\ n \in Nat
    BY DEF Lays
  <1>2. PICK s \in [0 .. n -> Disk] :
           /\ s[0] = d /\ s[n] = f
           /\ \A k \in 1 .. n : s[k] = Put(s[k - 1], w[k].at, w[k].cell)
    BY DEF Lays
  <1>3. n # 0 /\ Head(w) = w[1] /\ w[1] \in A
    <2>1. w \in Seq(A) /\ w # <<>>
      BY <1>1
    <2> HIDE DEF A
    <2> QED
      BY <2>1
  <1> HIDE DEF A
  <1>4. /\ v \in Seq(A) /\ Len(v) = n - 1 /\ \A k \in 1 .. n - 1 : v[k] = w[k + 1]
    <2>1. w \in Seq(A) /\ w # <<>>
      BY <1>1
    <2>2. Tail(w) \in Seq(A) /\ Len(Tail(w)) = Len(w) - 1
      BY <2>1
    <2>3. \A k \in 1 .. Len(w) - 1 : Tail(w)[k] = w[k + 1]
      BY <2>1
    <2> QED
      BY <2>2, <2>3
  <1>5. w[1].at \in P /\ w[1].cell \in Cell
    BY <1>3 DEF A
  <1> HIDE DEF n, v
  <1>6. e = s[1] /\ e \in Disk
    <2>1. 1 \in 1 .. n /\ 1 - 1 = 0 /\ 1 \in 0 .. n
      BY <1>1, <1>3
    <2>2. s[1] = Put(s[0], w[1].at, w[1].cell) /\ s[1] \in Disk
      BY <1>2, <2>1
    <2> QED
      BY <1>2, <1>3, <2>2
  <1> DEFINE t == [k \in 0 .. n - 1 |-> s[k + 1]]
  <1>7. t \in [0 .. n - 1 -> Disk]
    <2>1. \A k \in 0 .. n - 1 : k + 1 \in 0 .. n
      BY <1>1
    <2> QED
      BY <2>1
  <1>8. t[0] = e /\ t[n - 1] = f
    <2>1. 0 \in 0 .. n - 1 /\ n - 1 \in 0 .. n - 1 /\ 0 + 1 = 1 /\ (n - 1) + 1 = n
      BY <1>1, <1>3
    <2> QED
      BY <1>2, <1>6, <2>1
  <1>9. ASSUME NEW k \in 1 .. n - 1
        PROVE  t[k] = Put(t[k - 1], v[k].at, v[k].cell)
    <2>1. k \in 0 .. n - 1 /\ k - 1 \in 0 .. n - 1 /\ (k - 1) + 1 = k
          /\ k + 1 \in 1 .. n /\ (k + 1) - 1 = k
      BY <1>1
    <2>2. t[k] = s[k + 1] /\ t[k - 1] = s[k]
      BY <2>1
    <2>3. s[k + 1] = Put(s[k], w[k + 1].at, w[k + 1].cell)
      BY <1>2, <2>1
    <2> QED
      BY <1>4, <2>2, <2>3
  <1> HIDE DEF t, e
  <1>10. Lays(e, v, f, P)
    BY <1>1, <1>4, <1>6, <1>7, <1>8, <1>9 DEF Lays, A
  <1> QED
    BY <1>3, <1>5, <1>10 DEF e, v

LEMMA LaysKeep ==
    ASSUME NEW d, NEW w, NEW f, NEW P, Lays(d, w, f, P)
    PROVE  /\ d \in Disk /\ f \in Disk /\ Len(d) \in Nat /\ Len(f) \in Nat
           /\ Len(d) <= Len(f)
           /\ \A p \in 1 .. Len(d) : p - 1 \notin P => f[p] = d[p]
  <1> DEFINE n == Len(w)
             A == [at : P, cell : Cell]
  <1>1. d \in Disk /\ f \in Disk /\ P \in SUBSET Nat /\ w \in Seq(A) /\ n \in Nat
    BY DEF Lays
  <1>2. PICK s \in [0 .. n -> Disk] :
           /\ s[0] = d /\ s[n] = f
           /\ \A k \in 1 .. n : s[k] = Put(s[k - 1], w[k].at, w[k].cell)
    BY DEF Lays
  <1>3. \A k \in 1 .. n : w[k].at \in P /\ w[k].at \in Nat /\ w[k].cell \in Cell
    <2>1. \A k \in 1 .. n : w[k] \in A
      <3> HIDE DEF A
      <3> QED
        BY <1>1
    <2> QED
      BY <1>1, <2>1
  <1>4. Len(d) \in Nat /\ Len(f) \in Nat
    BY <1>1 DEF Disk
  <1> DEFINE T == {k \in 0 .. n :
                     /\ Len(d) <= Len(s[k])
                     /\ \A p \in 1 .. Len(d) : p - 1 \notin P => s[k][p] = d[p]}
  <1> HIDE DEF n
  <1>5. 0 \in T
    BY <1>1, <1>2, <1>4
  <1>6. ASSUME NEW k \in 0 .. n - 1, k \in T PROVE k + 1 \in T
    <2> DEFINE j == k + 1
               x == s[k]
               y == s[j]
    <2>1. j \in 1 .. n /\ j \in 0 .. n /\ j - 1 = k /\ k \in 0 .. n
      BY <1>1
    <2>2. x \in Disk /\ y = Put(x, w[j].at, w[j].cell)
      BY <1>2, <2>1
    <2>3. w[j].at \in P /\ w[j].at \in Nat /\ w[j].cell \in Cell
      BY <1>3, <2>1
    <2>4. Len(d) <= Len(x) /\ \A p \in 1 .. Len(d) : p - 1 \notin P => x[p] = d[p]
      BY <1>6
    <2>5. Len(x) \in Nat
      BY <2>2 DEF Disk
    <2> DEFINE q == IF w[j].at < Len(x) THEN w[j].at + 1 ELSE Len(x) + 1
    <2> HIDE DEF x, y
    <2>6. /\ Len(y) = IF w[j].at < Len(x) THEN Len(x) ELSE Len(x) + 1
          /\ \A p \in 1 .. Len(x) : p # q => y[p] = x[p]
      BY <2>2, <2>3, PutCell
    <2> HIDE DEF j
    <2>7. Len(d) <= Len(y)
      BY <1>4, <2>4, <2>5, <2>6
    <2>8. ASSUME NEW p \in 1 .. Len(d), p - 1 \notin P PROVE y[p] = d[p]
      <3>1. p \in 1 .. Len(x)
        BY <1>4, <2>4, <2>5
      <3>2. p # q
        BY <2>3, <2>5, <2>8, <3>1
      <3> QED
        BY <2>4, <2>6, <2>8, <3>1, <3>2
    <2> QED
      BY <2>1, <2>7, <2>8 DEF y, j
  <1> HIDE DEF T
  <1>7. 0 .. n \subseteq T
    <2>1. 0 \in Int /\ n \in Int
      BY <1>1
    <2> QED
      BY <1>5, <1>6, <2>1, IntervalInduction
  <1>8. n \in T
    BY <1>1, <1>7
  <1> QED
    BY <1>1, <1>2, <1>4, <1>8 DEF T

\* the file when the first k of the cells have been written
Over(d, at, cells, k) ==
    [p \in 1 .. (IF at + k <= Len(d) THEN Len(d) ELSE at + k) |->
        IF p > at /\ p <= at + k THEN cells[p - at] ELSE d[p]]

LEMMA OverCells ==
    ASSUME NEW d \in Disk, NEW at \in Nat, at <= Len(d), NEW cells \in Seq(Cell),
           NEW k \in 0 .. Len(cells)
    PROVE  /\ Over(d, at, cells, k) \in Disk
           /\ Len(Over(d, at, cells, k)) = IF at + k <= Len(d) THEN Len(d) ELSE at + k
  <1> DEFINE n == IF at + k <= Len(d) THEN Len(d) ELSE at + k
  <1>1. /\ Len(d) \in Nat /\ k \in Nat /\ n \in Nat /\ d \in Seq(Cell)
        /\ n <= Len(d) \/ n = at + k
    BY DEF Disk
  <1>2. \A p \in 1 .. n : (IF p > at /\ p <= at + k THEN cells[p - at] ELSE d[p]) \in Cell
    <2> SUFFICES ASSUME NEW p \in 1 .. n
                 PROVE  (IF p > at /\ p <= at + k THEN cells[p - at] ELSE d[p]) \in Cell
      OBVIOUS
    <2>1. CASE p > at /\ p <= at + k
      <3>1. p - at \in 1 .. Len(cells)
        BY <1>1, <2>1
      <3> QED
        BY <2>1, <3>1
    <2>2. CASE ~ (p > at /\ p <= at + k)
      <3>1. p \in 1 .. Len(d)
        BY <1>1, <2>2
      <3> QED
        BY <1>1, <2>2, <3>1
    <2> QED
      BY <2>1, <2>2
  <1>3. Over(d, at, cells, k) = [p \in 1 .. n |-> IF p > at /\ p <= at + k
                                                  THEN cells[p - at] ELSE d[p]]
    BY Zenon DEF Over
  <1> HIDE DEF n
  <1>4. Over(d, at, cells, k) \in [1 .. n -> Cell]
    BY <1>2, <1>3
  <1>5. Over(d, at, cells, k) \in Seq(Cell) /\ Len(Over(d, at, cells, k)) = n
    BY <1>1, <1>4
  <1> QED
    BY <1>5 DEF n, Disk

LEMMA OverAt ==
    ASSUME NEW d, NEW at \in Nat, NEW cells, NEW k \in Nat,
           Len(d) \in Nat, NEW p \in 1 .. Len(d) + at + k,
           p <= Len(d) \/ p <= at + k
    PROVE  Over(d, at, cells, k)[p] =
              IF p > at /\ p <= at + k THEN cells[p - at] ELSE d[p]
  <1>1. p \in 1 .. (IF at + k <= Len(d) THEN Len(d) ELSE at + k)
    OBVIOUS
  <1> QED
    BY <1>1, Zenon DEF Over

LEMMA OverStep ==
    ASSUME NEW d \in Disk, NEW at \in Nat, at <= Len(d), NEW cells \in Seq(Cell),
           NEW k \in 1 .. Len(cells)
    PROVE  Over(d, at, cells, k) = Put(Over(d, at, cells, k - 1), at + k - 1, cells[k])
  <1> DEFINE x == Over(d, at, cells, k - 1)
             y == Over(d, at, cells, k)
             z == Put(x, at + k - 1, cells[k])
  <1>1. /\ Len(d) \in Nat /\ Len(cells) \in Nat /\ k \in 0 .. Len(cells) /\ k \in Nat
        /\ k - 1 \in 0 .. Len(cells) /\ k - 1 \in Nat /\ at + k - 1 \in Nat
        /\ cells[k] \in Cell
    BY DEF Disk
  <1>2. /\ x \in Disk /\ Len(x) = IF at + (k - 1) <= Len(d) THEN Len(d) ELSE at + (k - 1)
        /\ y \in Disk /\ Len(y) = IF at + k <= Len(d) THEN Len(d) ELSE at + k
    BY <1>1, OverCells
  <1>3. \A p \in 1 .. Len(x) :
           x[p] = IF p > at /\ p <= at + (k - 1) THEN cells[p - at] ELSE d[p]
    <2> TAKE p \in 1 .. Len(x)
    <2>1. p \in 1 .. Len(d) + at + (k - 1) /\ (p <= Len(d) \/ p <= at + (k - 1))
      BY <1>1, <1>2
    <2> QED
      BY <1>1, <2>1, OverAt
  <1>4. \A p \in 1 .. Len(y) :
           y[p] = IF p > at /\ p <= at + k THEN cells[p - at] ELSE d[p]
    <2> TAKE p \in 1 .. Len(y)
    <2>1. p \in 1 .. Len(d) + at + k /\ (p <= Len(d) \/ p <= at + k)
      BY <1>1, <1>2
    <2> QED
      BY <1>1, <2>1, OverAt
  <1> DEFINE m == at + k - 1
             q == IF m < Len(x) THEN m + 1 ELSE Len(x) + 1
  <1>5. /\ z \in Disk /\ Len(z) = IF m < Len(x) THEN Len(x) ELSE Len(x) + 1
        /\ q \in 1 .. Len(z) /\ z[q] = cells[k]
        /\ \A p \in 1 .. Len(x) : p # q => z[p] = x[p]
    BY <1>1, <1>2, PutCell
  <1> HIDE DEF x, y, z
  <1>6. q = at + k /\ Len(z) = Len(y) /\ Len(x) \in Nat /\ Len(y) \in Nat
    BY <1>1, <1>2, <1>5
  <1> HIDE DEF q, m
  <1>7. ASSUME NEW p \in 1 .. Len(y) PROVE y[p] = z[p]
    <2>1. CASE p = at + k
      <3>1. p > at /\ p <= at + k /\ p - at = k
        BY <1>1, <2>1
      <3>2. y[p] = cells[p - at]
        BY <1>4, <3>1
      <3> QED
        BY <1>5, <1>6, <2>1, <3>1, <3>2
    <2>2. CASE p # at + k
      <3>1. p \in 1 .. Len(x) /\ (p <= at + k <=> p <= at + (k - 1))
        BY <1>1, <1>2, <1>6, <2>2
      <3>2. z[p] = x[p]
        BY <1>5, <1>6, <2>2, <3>1
      <3>3. x[p] = IF p > at /\ p <= at + (k - 1) THEN cells[p - at] ELSE d[p]
        BY <1>3, <3>1
      <3>4. y[p] = IF p > at /\ p <= at + k THEN cells[p - at] ELSE d[p]
        BY <1>4
      <3>5. y[p] = x[p]
        BY <3>1, <3>3, <3>4
      <3> QED
        BY <3>2, <3>5
    <2> QED
      BY <2>1, <2>2
  <1>8. y = z
    <2>1. y \in Seq(Cell) /\ z \in Seq(Cell)
      BY <1>2, <1>5 DEF Disk
    <2> QED
      BY <1>6, <1>7, <2>1
  <1> QED
    BY <1>8 DEF x, y, z

LEMMA LaysCells ==
    ASSUME NEW d \in Disk, NEW at \in Nat, at <= Len(d), NEW cells \in Seq(Cell)
    PROVE  LET f == Over(d, at, cells, Len(cells))
           IN  /\ Lays(d, CellsFrom(at, cells), f, at .. at + Len(cells) - 1)
               /\ Len(f) = IF at + Len(cells) <= Len(d) THEN Len(d)
                           ELSE at + Len(cells)
               /\ \A k \in 1 .. Len(cells) : f[at + k] = cells[k]
  <1> DEFINE n == Len(cells)
             P == at .. at + n - 1
             w == CellsFrom(at, cells)
             f == Over(d, at, cells, n)
             s == [k \in 0 .. n |-> Over(d, at, cells, k)]
  <1>1. n \in Nat /\ Len(d) \in Nat /\ n \in 0 .. n
    BY DEF Disk
  <1>2. P \in SUBSET Nat
    BY <1>1
  <1>3. /\ w \in Seq([at : P, cell : Cell]) /\ Len(w) = n
        /\ \A k \in 1 .. n : w[k].at = at + k - 1 /\ w[k].cell = cells[k]
    <2>1. w = [k \in 1 .. n |-> [at |-> at + k - 1, cell |-> cells[k]]]
      BY DEF CellsFrom
    <2>2. \A k \in 1 .. n : at + k - 1 \in P /\ cells[k] \in Cell
      BY <1>1
    <2> DEFINE A == [at : P, cell : Cell]
    <2> HIDE DEF P, n, w
    <2>3. w \in [1 .. n -> A]
      BY <2>1, <2>2
    <2>4. \A k \in 1 .. n : w[k].at = at + k - 1 /\ w[k].cell = cells[k]
      BY <2>1
    <2> HIDE DEF A
    <2>6. w \in Seq(A) /\ Len(w) = n
      BY <1>1, <2>3
    <2> QED
      BY <2>4, <2>6 DEF A
  <1>4. \A k \in 0 .. n : Over(d, at, cells, k) \in Disk
    BY OverCells
  <1>5. s \in [0 .. n -> Disk] /\ \A k \in 0 .. n : s[k] = Over(d, at, cells, k)
    BY <1>4
  <1>6. \A k \in 1 .. n : s[k] = Put(s[k - 1], w[k].at, w[k].cell)
    <2> TAKE k \in 1 .. n
    <2>1. k \in 0 .. n /\ k - 1 \in 0 .. n
      BY <1>1
    <2>2. Over(d, at, cells, k) = Put(Over(d, at, cells, k - 1), at + k - 1, cells[k])
      BY OverStep
    <2> HIDE DEF s, w, n
    <2> QED
      BY <1>3, <1>5, <2>1, <2>2
  <1>7. s[0] = d
    <2>1. 0 \in 0 .. n /\ 0 \in Nat
      BY <1>1
    <2> DEFINE y == Over(d, at, cells, 0)
    <2>2. y \in Disk /\ Len(y) = Len(d)
      <3>1. Len(y) = (IF at + 0 <= Len(d) THEN Len(d) ELSE at + 0) /\ y \in Disk
        BY <2>1, OverCells
      <3> QED
        BY <1>1, <3>1
    <2>3. ASSUME NEW p \in 1 .. Len(d) PROVE y[p] = d[p]
      <3>1. p \in 1 .. Len(d) + at + 0 /\ (p <= Len(d) \/ p <= at + 0)
        BY <1>1
      <3>2. y[p] = IF p > at /\ p <= at + 0 THEN cells[p - at] ELSE d[p]
        BY <1>1, <2>1, <3>1, OverAt
      <3>3. ~ (p > at /\ p <= at + 0)
        BY <1>1
      <3> QED
        BY <3>2, <3>3
    <2>4. y = d
      <3> HIDE DEF y
      <3>1. y \in Seq(Cell) /\ d \in Seq(Cell)
        BY <2>2 DEF Disk
      <3> QED
        BY <2>2, <2>3, <3>1
    <2> HIDE DEF s
    <2> QED
      BY <1>5, <2>1, <2>4
  <1>8. s[n] = f
    BY <1>1, <1>5
  <1>9. f \in Disk /\ Len(f) = IF at + n <= Len(d) THEN Len(d) ELSE at + n
    BY <1>1, OverCells
  <1>10. ASSUME NEW k \in 1 .. n PROVE f[at + k] = cells[k]
    <2>1. at + k \in 1 .. Len(d) + at + n /\ at + k <= at + n /\ at + k > at
          /\ at + k - at = k
      BY <1>1
    <2>2. f[at + k] = cells[at + k - at]
      <3> DEFINE p == at + k
      <3> HIDE DEF p
      <3>1. p \in 1 .. Len(d) + at + n /\ (p > at /\ p <= at + n)
        BY <2>1 DEF p
      <3>2. Over(d, at, cells, n)[p] =
              IF p > at /\ p <= at + n THEN cells[p - at] ELSE d[p]
        BY <1>1, <3>1, OverAt
      <3> QED
        BY <3>1, <3>2 DEF p
    <2> QED
      BY <2>1, <2>2
  <1> HIDE DEF s, w, P, f
  <1>11. Lays(d, w, f, P)
    <2> HIDE DEF n
    <2> QED
      BY <1>2, <1>3, <1>5, <1>6, <1>7, <1>8, <1>9 DEF Lays
  <1> QED
    BY <1>9, <1>10, <1>11 DEF w, P, f

LEMMA PartIs ==
    ASSUME NEW f \in Disk, NEW i \in Nat, NEW c \in Seq(Cell), i + Len(c) <= Len(f),
           \A k \in 1 .. Len(c) : f[i + k] = c[k]
    PROVE  SubSeq(f, i + 1, i + Len(c)) = c
  <1> DEFINE n == Len(c)
             x == SubSeq(f, i + 1, i + n)
  <1>1. n \in Nat /\ Len(f) \in Nat /\ f \in Seq(Cell)
    BY DEF Disk
  <1>2. /\ x \in Seq(Cell) /\ Len(x) = n
        /\ \A k \in 1 .. n : x[k] = f[i + k]
    <2> DEFINE a == i + 1
               b == i + n
    <2>5. i + n <= Len(f)
      OBVIOUS
    <2> HIDE DEF n
    <2>1. a \in 1 .. Len(f) + 1 /\ b \in a - 1 .. Len(f) /\ b - a + 1 = n
          /\ \A k \in Int : a + k - 1 = i + k
      BY <1>1, <2>5
    <2>2. x = SubSeq(f, a, b)
      OBVIOUS
    <2> HIDE DEF a, b, x
    <2>3. /\ SubSeq(f, a, b) \in Seq(Cell) /\ Len(SubSeq(f, a, b)) = b - a + 1
          /\ \A k \in 1 .. b - a + 1 : SubSeq(f, a, b)[k] = f[a + k - 1]
      BY <1>1, <2>1
    <2>4. ASSUME NEW k \in 1 .. n PROVE x[k] = f[i + k]
      <3>1. k \in Int /\ a + k - 1 = i + k
        BY <1>1, <2>1
      <3> QED
        BY <2>1, <2>2, <2>3, <3>1
    <2> QED
      BY <2>1, <2>2, <2>3, <2>4
  <1> HIDE DEF x
  <1>3. x = c
    <2>1. Len(x) = Len(c) /\ \A k \in 1 .. Len(x) : x[k] = c[k]
      BY <1>2
    <2> QED
      BY <1>2, <2>1
  <1> QED
    BY <1>3 DEF x

\* the positions an atom takes
Place(at, n) == at .. at + 1 + n

LEMMA AtomLaid ==
    ASSUME NEW d \in Disk, NEW at \in Nat, at <= Len(d), NEW a,
           a.type \in TypeNames, Data(a) \in Seq(Cell)
    PROVE  LET n == Len(Data(a))
           IN  \E f : /\ Lays(d, AtomWrites(a, at), f, Place(at, n))
                      /\ Len(f) = IF at + 2 + n <= Len(d) THEN Len(d) ELSE at + 2 + n
                      /\ Whole(f, at)
                      /\ ReadAtom(f, at) = Atom(a.type, at, at + 2 + n, n, FALSE, Data(a))
  <1> DEFINE data == Data(a)
             n == Len(data)
             t == a.type
             h == <<Number(0), Type(t)>>
             x == h \o data
             y == <<Number(2 + n)>>
             e == Over(d, at, x, Len(x))
             f == Over(e, at, y, Len(y))
  <1>1. n \in Nat /\ Len(d) \in Nat /\ data \in Seq(Cell) /\ t \in TypeNames
    BY DEF Disk
  <1>2. Number(0) \in Cell /\ Type(t) \in Cell /\ Number(2 + n) \in Cell
    <2>1. 0 \in Nat /\ 2 + n \in Nat
      BY <1>1
    <2> QED
      BY <1>1, <2>1, Cells
  <1>3. AtomWrites(a, at) = CellsFrom(at, x) \o CellsFrom(at, y)
    BY DEF AtomWrites
  <1> HIDE DEF data, n, t
  <1>4. h \in Seq(Cell) /\ Len(h) = 2 /\ h[1] = Number(0) /\ h[2] = Type(t)
    BY <1>2
  <1>5. y \in Seq(Cell) /\ Len(y) = 1 /\ y[1] = Number(2 + n)
    BY <1>2
  <1> HIDE DEF h, y
  <1>6. /\ x \in Seq(Cell) /\ Len(x) = 2 + n
        /\ x[2] = Type(t) /\ \A k \in 1 .. n : x[2 + k] = data[k]
    <2>2. x = h \o data
      OBVIOUS
    <2> HIDE DEF x
    <2>3. data \in Seq(Cell) /\ h \in Seq(Cell)
      BY <1>1, <1>4
    <2>4. /\ h \o data \in Seq(Cell)
          /\ Len(h \o data) = Len(h) + Len(data) /\ Len(h) \in Nat
          /\ \A i \in 1 .. Len(h) : (h \o data)[i] = h[i]
          /\ \A i \in 1 .. Len(data) : (h \o data)[Len(h) + i] = data[i]
      BY <2>3, Concatenated
    <2>1. /\ x \in Seq(Cell) /\ Len(x) = Len(h) + Len(data)
          /\ \A k \in 1 .. Len(h) : x[k] = h[k]
          /\ \A k \in 1 .. Len(data) : x[Len(h) + k] = data[k]
      BY <2>2, <2>4
    <2> QED
      BY <1>1, <1>4, <2>1 DEF n
  <1> HIDE DEF x
  <1>7. /\ Lays(d, CellsFrom(at, x), e, at .. at + Len(x) - 1)
        /\ Len(e) = IF at + Len(x) <= Len(d) THEN Len(d) ELSE at + Len(x)
        /\ \A k \in 1 .. Len(x) : e[at + k] = x[k]
    BY <1>6, LaysCells
  <1>8. e \in Disk /\ at <= Len(e) /\ Len(e) \in Nat /\ at + 2 + n <= Len(e)
    <2>1. e \in Disk /\ Len(e) \in Nat
      BY <1>7, LaysKeep
    <2> HIDE DEF e
    <2> QED
      BY <1>1, <1>6, <1>7, <2>1
  <1> HIDE DEF e
  <1>9. /\ Lays(e, CellsFrom(at, y), f, at .. at + Len(y) - 1)
        /\ Len(f) = IF at + Len(y) <= Len(e) THEN Len(e) ELSE at + Len(y)
        /\ \A k \in 1 .. Len(y) : f[at + k] = y[k]
    BY <1>5, <1>8, LaysCells
  <1>10. /\ f \in Disk /\ Len(f) = Len(e)
         /\ \A p \in 1 .. Len(e) : p # at + 1 => f[p] = e[p]
    <2> DEFINE P == at .. at + Len(y) - 1
    <2>1. \A p \in 1 .. Len(e) : p # at + 1 => p - 1 \notin P
      BY <1>5, <1>8
    <2> HIDE DEF P, f
    <2>2. Lays(e, CellsFrom(at, y), f, P)
      BY <1>9 DEF P
    <2>3. f \in Disk /\ \A p \in 1 .. Len(e) : p - 1 \notin P => f[p] = e[p]
      BY <2>2, LaysKeep
    <2>4. Len(f) = Len(e)
      BY <1>1, <1>5, <1>8, <1>9
    <2> QED
      BY <2>1, <2>3, <2>4
  <1> HIDE DEF f
  <1>11. /\ f[at + 1] = Number(2 + n) /\ f[at + 2] = Type(t)
         /\ \A k \in 1 .. n : f[at + 2 + k] = data[k]
    <2>1. f[at + 1] = Number(2 + n)
      BY <1>5, <1>9
    <2>2. ASSUME NEW k \in 2 .. 2 + n PROVE f[at + k] = x[k]
      <3>1. at + k \in 1 .. Len(e) /\ at + k # at + 1 /\ k \in 1 .. Len(x)
        BY <1>1, <1>6, <1>8
      <3> QED
        BY <1>7, <1>10, <3>1
    <2>3. 2 \in 2 .. 2 + n /\ \A k \in 1 .. n : 2 + k \in 2 .. 2 + n /\ at + 2 + k = at + (2 + k)
      BY <1>1
    <2> QED
      BY <1>6, <2>1, <2>2, <2>3
  <1>12. /\ Whole(f, at)
         /\ ReadAtom(f, at) = Atom(t, at, at + 2 + n, n, FALSE,
                                   SubSeq(f, at + 3, at + 2 + n))
    <2>1. CellAt(f, at) = Number(2 + n) /\ CellAt(f, at + 1) = Type(t)
      <3>1. at + 1 + 1 = at + 2
        OBVIOUS
      <3> QED
        BY <1>11, <3>1 DEF CellAt
    <2>2. f \in Disk /\ at + 2 + n <= Len(f)
      BY <1>8, <1>10
    <2>3. at \in Nat /\ n \in Nat /\ t \in TypeNames
      BY <1>1
    <2> HIDE DEF n
    <2> QED
      BY <2>1, <2>2, <2>3, Fresh
  <1>13. SubSeq(f, at + 3, at + 2 + n) = data
    <2> DEFINE i == at + 2
    <2>1. i \in Nat /\ i + 1 = at + 3 /\ i + n = at + 2 + n /\ i + n <= Len(f)
      BY <1>1, <1>8, <1>10
    <2>2. \A k \in 1 .. n : f[i + k] = data[k]
      BY <1>11
    <2> HIDE DEF i
    <2>3. SubSeq(f, i + 1, i + Len(data)) = data
      BY <1>1, <1>10, <2>1, <2>2, PartIs DEF n
    <2> QED
      BY <2>1, <2>3 DEF n
  <1>14. Lays(d, AtomWrites(a, at), f, Place(at, n))
    <2> DEFINE P == at .. at + Len(x) - 1
               Q == at .. at + Len(y) - 1
    <2>1. P \cup Q = Place(at, n)
      BY <1>1, <1>5, <1>6 DEF Place
    <2> HIDE DEF P, Q
    <2>2. Lays(d, CellsFrom(at, x), e, P) /\ Lays(e, CellsFrom(at, y), f, Q)
      BY <1>7, <1>9 DEF P, Q
    <2> QED
      BY <1>3, <2>1, <2>2, LaysJoin
  <1>15. Len(f) = IF at + 2 + n <= Len(d) THEN Len(d) ELSE at + 2 + n
    BY <1>1, <1>6, <1>7, <1>10
  <1>16. ReadAtom(f, at) = Atom(t, at, at + 2 + n, n, FALSE, data)
    BY <1>12, <1>13
  <1> QED
    BY <1>12, <1>14, <1>15, <1>16 DEF t, data, n

\* a single cell
LEMMA CellLaid ==
    ASSUME NEW d \in Disk, NEW at \in Nat, at < Len(d), NEW c \in Cell
    PROVE  \E f : /\ Lays(d, CellsFrom(at, <<c>>), f, {at})
                  /\ Len(f) = Len(d) /\ f[at + 1] = c
  <1> DEFINE y == <<c>>
             f == Over(d, at, y, Len(y))
  <1>1. y \in Seq(Cell) /\ Len(y) = 1 /\ y[1] = c
    OBVIOUS
  <1> HIDE DEF y
  <1>2. Len(d) \in Nat /\ at <= Len(d)
    BY DEF Disk
  <1>3. /\ Lays(d, CellsFrom(at, y), f, at .. at + Len(y) - 1)
        /\ Len(f) = IF at + Len(y) <= Len(d) THEN Len(d) ELSE at + Len(y)
        /\ \A k \in 1 .. Len(y) : f[at + k] = y[k]
    BY <1>1, <1>2, LaysCells
  <1> HIDE DEF f
  <1>4. at .. at + Len(y) - 1 = {at}
    BY <1>1
  <1>5. Lays(d, CellsFrom(at, y), f, {at})
    BY <1>3, <1>4
  <1>6. Len(f) = Len(d) /\ f[at + 1] = c
    BY <1>1, <1>2, <1>3
  <1> QED
    BY <1>5, <1>6 DEF y

-----------------------------------------------------------------------------
(* Folds over the atoms of the tree *)

Atoms == [type : TypeNames, start : Nat, end : Nat, size : Nat, large : BOOLEAN,
          content : Seq(Cell)]

LEMMA DataTyped ==
    ASSUME NEW a \in Atoms
    PROVE  /\ Data(a) \in Seq(Cell) /\ Len(Data(a)) \in Nat
           /\ a.type = "free" => Len(Data(a)) = a.size
           /\ a.type # "free" => Data(a) = a.content
  <1>1. CASE a.type = "free"
    <2>1. a.size \in Nat
      BY DEF Atoms
    <2> DEFINE x == [k \in 1 .. a.size |-> Zero]
    <2>2. Data(a) = x
      BY <1>1 DEF Data
    <2>3. x \in [1 .. a.size -> Cell]
      BY Cells
    <2> HIDE DEF x
    <2> QED
      BY <1>1, <2>1, <2>2, <2>3
  <1>2. CASE a.type # "free"
    <2>1. Data(a) = a.content /\ a.content \in Seq(Cell)
      BY <1>2 DEF Data, Atoms
    <2> QED
      BY <1>2, <2>1
  <1> QED
    BY <1>1, <1>2

LEMMA WrittenAtom ==
    ASSUME NEW a \in Atoms, NEW at \in Nat
    PROVE  /\ Written(a, at) \in Atoms
           /\ Written(a, at).type = a.type /\ Written(a, at).start = at
           /\ Written(a, at).end = at + 2 + Len(Data(a))
           /\ Written(a, at).size = Len(Data(a)) /\ Written(a, at).large = a.large
           /\ Written(a, at).content = a.content
  <1> DEFINE w == Written(a, at)
             n == Len(Data(a))
  <1>1. n \in Nat
    BY DataTyped
  <1>2. /\ a \in [type : TypeNames, start : Nat, end : Nat, size : Nat, large : BOOLEAN,
                   content : Seq(Cell)]
        /\ w = [a EXCEPT !.start = at, !.end = at + 2 + n, !.size = n]
    BY DEF Atoms, Written
  <1> HIDE DEF n
  <1>3. at + 2 + n \in Nat
    BY <1>1
  <1> HIDE DEF w
  <1>4. /\ w.type = a.type /\ w.start = at /\ w.end = at + 2 + n /\ w.size = n
        /\ w.content = a.content
    BY <1>2
  <1>5. w.large = a.large
    BY <1>2, Zenon
  <1>6. w \in [type : TypeNames, start : Nat, end : Nat, size : Nat, large : BOOLEAN,
               content : Seq(Cell)]
    BY <1>1, <1>2, <1>3
  <1> QED
    BY <1>4, <1>5, <1>6 DEF w, n, Atoms

LEMMA CellsFromTyped ==
    ASSUME NEW at \in Nat, NEW cells \in Seq(Cell)
    PROVE  CellsFrom(at, cells) \in Seq([at : Nat, cell : Cell])
  <1> DEFINE A == [at : Nat, cell : Cell]
             w == CellsFrom(at, cells)
             n == Len(cells)
  <1>1. w = [k \in 1 .. n |-> [at |-> at + k - 1, cell |-> cells[k]]] /\ n \in Nat
    BY DEF CellsFrom
  <1>2. \A k \in 1 .. n : at + k - 1 \in Nat /\ cells[k] \in Cell
    BY <1>1
  <1> HIDE DEF w, n
  <1>3. w \in [1 .. n -> A]
    BY <1>1, <1>2
  <1> HIDE DEF A
  <1>4. w \in Seq(A)
    BY <1>1, <1>3
  <1> QED
    BY <1>4 DEF w, A

LEMMA AtomWritesTyped ==
    ASSUME NEW a \in Atoms, NEW at \in Nat
    PROVE  AtomWrites(a, at) \in Seq([at : Nat, cell : Cell])
  <1> DEFINE x == <<Number(0), Type(a.type)>>
             data == Data(a)
             y == <<Number(2 + Len(data))>>
             A == [at : Nat, cell : Cell]
  <1>1. data \in Seq(Cell) /\ Len(data) \in Nat /\ a.type \in TypeNames
    BY DataTyped DEF Atoms
  <1>2. Number(0) \in Cell /\ Number(2 + Len(data)) \in Cell /\ Type(a.type) \in Cell
    <2>1. 0 \in Nat /\ 2 + Len(data) \in Nat
      BY <1>1
    <2> HIDE DEF data
    <2> QED
      BY <1>1, <2>1, Cells
  <1>3. x \in Seq(Cell) /\ y \in Seq(Cell)
    BY <1>2
  <1>4. AtomWrites(a, at) = CellsFrom(at, x \o data) \o CellsFrom(at, y)
    BY DEF AtomWrites
  <1> HIDE DEF x, y, data
  <1>5. x \o data \in Seq(Cell)
    BY <1>1, <1>3
  <1>6. CellsFrom(at, x \o data) \in Seq(A) /\ CellsFrom(at, y) \in Seq(A)
    BY <1>3, <1>5, CellsFromTyped
  <1> HIDE DEF A
  <1>7. CellsFrom(at, x \o data) \o CellsFrom(at, y) \in Seq(A)
    BY <1>6
  <1> QED
    BY <1>4, <1>7 DEF A

Results == [atoms : Seq(Atoms), writes : Seq([at : Nat, cell : Cell]), position : Nat]

LEMMA RewriteTyped ==
    ASSUME NEW done \in Results, NEW a \in Atoms
    PROVE  /\ Rewrite(done, a) \in Results
           /\ Rewrite(done, a).atoms = Append(done.atoms, Written(a, done.position))
           /\ Rewrite(done, a).writes = done.writes \o AtomWrites(a, done.position)
           /\ Rewrite(done, a).position = done.position + 2 + Len(Data(a))
  <1> DEFINE W == Seq([at : Nat, cell : Cell])
             r == Rewrite(done, a)
  <1>1. done.atoms \in Seq(Atoms) /\ done.writes \in W /\ done.position \in Nat
    BY DEF Results
  <1>2. /\ Written(a, done.position) \in Atoms
        /\ Written(a, done.position).end = done.position + 2 + Len(Data(a))
        /\ Len(Data(a)) \in Nat
    BY <1>1, WrittenAtom, DataTyped
  <1>3. AtomWrites(a, done.position) \in W
    BY <1>1, AtomWritesTyped
  <1>4. done.writes \o AtomWrites(a, done.position) \in W
    BY <1>1, <1>3
  <1>5. Append(done.atoms, Written(a, done.position)) \in Seq(Atoms)
    BY <1>1, <1>2
  <1>6. /\ r.atoms = Append(done.atoms, Written(a, done.position))
        /\ r.writes = done.writes \o AtomWrites(a, done.position)
        /\ r.position = done.position + 2 + Len(Data(a))
        /\ r = [atoms |-> r.atoms, writes |-> r.writes, position |-> r.position]
    BY <1>2 DEF Rewrite
  <1>7. done.position + 2 + Len(Data(a)) \in Nat
    BY <1>1, <1>2
  <1> HIDE DEF r, W
  <1>8. r.atoms \in Seq(Atoms) /\ r.writes \in W /\ r.position \in Nat
    BY <1>4, <1>5, <1>6, <1>7
  <1>9. r \in [atoms : Seq(Atoms), writes : W, position : Nat]
    BY <1>6, <1>8, Zenon
  <1> QED
    BY <1>6, <1>9 DEF r, W, Results

LEMMA MaxOf ==
    ASSUME NEW n \in Nat, NEW s \in SUBSET (1 .. n), s # {}
    PROVE  Max(s) \in s
  <1>1. s \in SUBSET Int /\ n \in Int /\ \A x \in s : x <= n
    OBVIOUS
  <1> QED
    BY <1>1, MaxInside

LEMMA RewriteFolds ==
    ASSUME NEW base \in Results, NEW rest \in Seq(Atoms)
    PROVE  \E g : /\ g \in [0 .. Len(rest) -> Results] /\ g[0] = base
                  /\ \A k \in 1 .. Len(rest) : g[k] = Rewrite(g[k - 1], rest[k])
                  /\ FoldLeft(Rewrite, base, rest) = g[Len(rest)]
  <1> DEFINE n == Len(rest)
             D == DOMAIN rest
             step == [p \in (1 .. n) \X Results |-> Rewrite(p[2], rest[p[1]])]
             it == CHOOSE f : f = [s \in SUBSET D |->
                                     IF s = {} THEN base
                                     ELSE Rewrite(f[s \ {Max(s)}], rest[Max(s)])]
             h == [k \in 0 .. n |-> it[1 .. k]]
  <1>1. n \in Nat /\ D = 1 .. n /\ \A k \in 1 .. n : rest[k] \in Atoms
    OBVIOUS
  <1> HIDE DEF n, D
  <1>2. step \in [(1 .. n) \X Results -> Results]
        /\ \A k \in 1 .. n : \A v \in Results : step[<<k, v>>] = Rewrite(v, rest[k])
    <2>1. \A k \in 1 .. n : \A v \in Results : Rewrite(v, rest[k]) \in Results
      BY <1>1, RewriteTyped
    <2> QED
      BY <2>1
  <1> HIDE DEF step
  <1>3. PICK g \in [SUBSET (1 .. n) -> Results] : Folded(g, n, base, step)
    BY <1>1, <1>2, FoldExists, Zenon
  <1>4. ASSUME NEW s \in SUBSET D, s # {} PROVE Max(s) \in s
    BY <1>1, <1>4, MaxOf
  <1>5. \A s \in SUBSET D : s # {} =>
           step[<<Max(s), g[s \ {Max(s)}]>>] = Rewrite(g[s \ {Max(s)}], rest[Max(s)])
    BY <1>1, <1>2, <1>3, <1>4
  <1>6. g = [s \in SUBSET D |-> IF s = {} THEN base
                                ELSE Rewrite(g[s \ {Max(s)}], rest[Max(s)])]
    BY <1>1, <1>3, <1>5 DEF Folded
  <1>7. it = [s \in SUBSET D |-> IF s = {} THEN base
                                 ELSE Rewrite(it[s \ {Max(s)}], rest[Max(s)])]
    BY <1>6, Zenon
  <1>8. FoldLeft(Rewrite, base, rest) = it[D]
    BY Zenon DEF FoldLeft, MapThenFoldSet, D
  <1> HIDE DEF it
  <1>9. ASSUME NEW k \in 1 .. n
        PROVE  it[1 .. k] = Rewrite(it[1 .. k - 1], rest[k])
    <2>1. 1 .. k \in SUBSET D /\ 1 .. k # {}
      <3>1. \A x \in 1 .. k : x \in 1 .. n
        BY <1>1
      <3>2. 1 .. k \subseteq D /\ k \in 1 .. k
        BY <1>1, <3>1
      <3> QED
        BY <3>2
    <2>2. Max(1 .. k) = k /\ (1 .. k) \ {k} = 1 .. k - 1
      BY <1>1, LastOfInterval
    <2>3. it[1 .. k] = Rewrite(it[(1 .. k) \ {Max(1 .. k)}], rest[Max(1 .. k)])
      BY <1>7, <2>1, Zenon
    <2> QED
      BY <2>2, <2>3
  <1>10. it[1 .. 0] = base
    <2>1. 1 .. 0 = {} /\ {} \in SUBSET D
      OBVIOUS
    <2> QED
      BY <1>7, <2>1
  <1>11. h[0] = base /\ \A k \in 1 .. n : h[k] = Rewrite(h[k - 1], rest[k])
    <2>1. 0 \in 0 .. n /\ \A k \in 1 .. n : k \in 0 .. n /\ k - 1 \in 0 .. n
      BY <1>1
    <2>2. \A k \in 0 .. n : h[k] = it[1 .. k]
      OBVIOUS
    <2> HIDE DEF h
    <2> QED
      BY <1>9, <1>10, <2>1, <2>2
  <1>12. h \in [0 .. n -> Results]
    <2> DEFINE T == {k \in 0 .. n : h[k] \in Results}
    <2>1. DOMAIN h = 0 .. n /\ h = [k \in 0 .. n |-> h[k]]
      OBVIOUS
    <2> HIDE DEF h
    <2>2. 0 \in T
      BY <1>1, <1>11
    <2>3. ASSUME NEW k \in 0 .. n - 1, k \in T PROVE k + 1 \in T
      <3>1. k + 1 \in 1 .. n /\ k + 1 \in 0 .. n /\ (k + 1) - 1 = k
        BY <1>1
      <3>2. h[k + 1] = Rewrite(h[k], rest[k + 1]) /\ rest[k + 1] \in Atoms
        BY <1>1, <1>11, <3>1
      <3> QED
        BY <2>3, <3>1, <3>2, RewriteTyped
    <2>4. 0 \in Int /\ n \in Int
      BY <1>1
    <2> HIDE DEF T
    <2>5. 0 .. n \subseteq T
      BY <2>2, <2>3, <2>4, IntervalInduction
    <2>6. \A k \in 0 .. n : h[k] \in Results
      BY <2>5 DEF T
    <2> QED
      BY <2>1, <2>6
  <1>13. FoldLeft(Rewrite, base, rest) = h[n]
    <2>1. n \in 0 .. n
      BY <1>1
    <2> QED
      BY <1>1, <1>8, <2>1
  <1> HIDE DEF h
  <1> QED
    BY <1>11, <1>12, <1>13 DEF n

-----------------------------------------------------------------------------
(* The atoms that are not free *)

\* h names the places of the members of kept among the first n of list
Picks(h, kept, list, n) ==
    /\ kept \in Seq(Atoms) /\ h \in [1 .. Len(kept) -> 1 .. n]
    /\ \A j \in 1 .. Len(kept) : kept[j] = list[h[j]] /\ ~ IsFree(list[h[j]])
    /\ \A j \in 1 .. Len(kept) : \A i \in 1 .. j - 1 : h[i] < h[j]
    /\ \A k \in 1 .. n : ~ IsFree(list[k]) => \E j \in 1 .. Len(kept) : h[j] = k

Keep(kept, a) == IF IsFree(a) THEN kept ELSE Append(kept, a)

LEMMA NotFreeFolds ==
    ASSUME NEW list \in Seq(Atoms)
    PROVE  \E g : /\ g[0] = <<>>
                  /\ \A k \in 1 .. Len(list) : g[k] = Keep(g[k - 1], list[k])
                  /\ NotFree(list) = g[Len(list)]
  <1> DEFINE n == Len(list)
             D == DOMAIN list
             R == Seq(Atoms)
             step == [p \in (1 .. n) \X R |-> Keep(p[2], list[p[1]])]
             it == CHOOSE f : f = [s \in SUBSET D |->
                                     IF s = {} THEN <<>>
                                     ELSE IF IsFree(list[Max(s)]) THEN f[s \ {Max(s)}]
                                          ELSE Append(f[s \ {Max(s)}], list[Max(s)])]
             h == [k \in 0 .. n |-> it[1 .. k]]
  <1>1. n \in Nat /\ D = 1 .. n /\ <<>> \in R /\ \A k \in 1 .. n : list[k] \in Atoms
    OBVIOUS
  <1> HIDE DEF n, D
  <1>2. step \in [(1 .. n) \X R -> R]
        /\ \A k \in 1 .. n : \A v \in R : step[<<k, v>>] = Keep(v, list[k])
    <2>1. \A k \in 1 .. n : \A v \in R : Keep(v, list[k]) \in R
      BY <1>1 DEF Keep
    <2> HIDE DEF R
    <2> QED
      BY <2>1
  <1> HIDE DEF step, R
  <1>3. PICK g \in [SUBSET (1 .. n) -> R] : Folded(g, n, <<>>, step)
    BY <1>1, <1>2, FoldExists, Zenon
  <1>4. ASSUME NEW s \in SUBSET D, s # {} PROVE Max(s) \in s
    BY <1>1, <1>4, MaxOf
  <1>5. \A s \in SUBSET D : s # {} =>
           step[<<Max(s), g[s \ {Max(s)}]>>] = Keep(g[s \ {Max(s)}], list[Max(s)])
    BY <1>1, <1>2, <1>3, <1>4
  <1>6. g = [s \in SUBSET D |-> IF s = {} THEN <<>>
                                ELSE Keep(g[s \ {Max(s)}], list[Max(s)])]
    BY <1>1, <1>3, <1>5 DEF Folded
  <1>7. it = [s \in SUBSET D |-> IF s = {} THEN <<>>
                                 ELSE Keep(it[s \ {Max(s)}], list[Max(s)])]
    BY <1>6, Zenon DEF Keep
  <1>8. NotFree(list) = it[D]
    BY Zenon DEF NotFree, FoldLeft, MapThenFoldSet, D
  <1> HIDE DEF it
  <1>9. ASSUME NEW k \in 1 .. n
        PROVE  it[1 .. k] = Keep(it[1 .. k - 1], list[k])
    <2>1. 1 .. k \in SUBSET D /\ 1 .. k # {}
      <3>1. \A x \in 1 .. k : x \in 1 .. n
        BY <1>1
      <3>2. 1 .. k \subseteq D /\ k \in 1 .. k
        BY <1>1, <3>1
      <3> QED
        BY <3>2
    <2>2. Max(1 .. k) = k /\ (1 .. k) \ {k} = 1 .. k - 1
      BY <1>1, LastOfInterval
    <2>3. it[1 .. k] = Keep(it[(1 .. k) \ {Max(1 .. k)}], list[Max(1 .. k)])
      BY <1>7, <2>1, Zenon
    <2> QED
      BY <2>2, <2>3
  <1>10. it[1 .. 0] = <<>>
    <2>1. 1 .. 0 = {} /\ {} \in SUBSET D
      OBVIOUS
    <2> QED
      BY <1>7, <2>1
  <1>11. h[0] = <<>> /\ \A k \in 1 .. n : h[k] = Keep(h[k - 1], list[k])
    <2>1. 0 \in 0 .. n /\ \A k \in 1 .. n : k \in 0 .. n /\ k - 1 \in 0 .. n
      BY <1>1
    <2>2. \A k \in 0 .. n : h[k] = it[1 .. k]
      OBVIOUS
    <2> HIDE DEF h
    <2> QED
      BY <1>9, <1>10, <2>1, <2>2
  <1>12. NotFree(list) = h[n]
    <2>1. n \in 0 .. n
      BY <1>1
    <2> QED
      BY <1>1, <1>8, <2>1
  <1> HIDE DEF h
  <1> QED
    BY <1>11, <1>12 DEF n

LEMMA PicksMore ==
    ASSUME NEW list \in Seq(Atoms), NEW k \in 0 .. Len(list) - 1, NEW h, NEW kept,
           Picks(h, kept, list, k)
    PROVE  \E g : Picks(g, Keep(kept, list[k + 1]), list, k + 1)
  <1> DEFINE m == Len(kept)
             a == list[k + 1]
             e == Append(kept, a)
             g == [j \in 1 .. m + 1 |-> IF j = m + 1 THEN k + 1 ELSE h[j]]
  <1>1. /\ kept \in Seq(Atoms) /\ m \in Nat /\ k \in Nat /\ k + 1 \in 1 .. Len(list)
        /\ a \in Atoms /\ \A j \in 1 .. m : h[j] \in 1 .. k
    BY DEF Picks
  <1>2. h \in [1 .. m -> 1 .. k]
    BY DEF Picks
  <1>3. \A j \in 1 .. m : kept[j] = list[h[j]] /\ ~ IsFree(list[h[j]])
    BY DEF Picks
  <1>4. \A j \in 1 .. m : \A i \in 1 .. j - 1 : h[i] < h[j]
    BY DEF Picks
  <1>5. \A i \in 1 .. k : ~ IsFree(list[i]) => \E j \in 1 .. m : h[j] = i
    BY DEF Picks
  <1>6. CASE IsFree(a)
    <2>1. Keep(kept, a) = kept
      BY <1>6 DEF Keep
    <2>2. h \in [1 .. m -> 1 .. k + 1]
      BY <1>1, <1>2
    <2>3. \A i \in 1 .. k + 1 : ~ IsFree(list[i]) => \E j \in 1 .. m : h[j] = i
      <3>1. \A i \in 1 .. k + 1 : i = k + 1 \/ i \in 1 .. k
        BY <1>1
      <3> QED
        BY <3>1, <1>5, <1>6
    <2>4. Picks(h, kept, list, k + 1)
      BY <1>1, <1>3, <1>4, <2>2, <2>3 DEF Picks
    <2> QED
      BY <2>1, <2>4
  <1>7. CASE ~ IsFree(a)
    <2>1. Keep(kept, a) = e
      BY <1>7 DEF Keep
    <2>2. e \in Seq(Atoms) /\ Len(e) = m + 1 /\ e[m + 1] = a
          /\ \A j \in 1 .. m : e[j] = kept[j]
      BY <1>1
    <2>3. g[m + 1] = k + 1 /\ \A j \in 1 .. m : g[j] = h[j]
      BY <1>1
    <2>4. g \in [1 .. m + 1 -> 1 .. k + 1]
      BY <1>1
    <2> HIDE DEF e, g, m, a
    <2>5. \A j \in 1 .. m + 1 : j = m + 1 \/ j \in 1 .. m
      BY <1>1
    <2>6. \A j \in 1 .. m + 1 : e[j] = list[g[j]] /\ ~ IsFree(list[g[j]])
      BY <1>3, <1>7, <2>2, <2>3, <2>5 DEF a
    <2>7. \A j \in 1 .. m + 1 : \A i \in 1 .. j - 1 : g[i] < g[j]
      <3> TAKE j \in 1 .. m + 1
      <3> TAKE i \in 1 .. j - 1
      <3>1. i \in 1 .. m
        BY <1>1
      <3>2. h[i] <= k /\ h[i] \in Nat /\ g[i] = h[i]
        BY <1>1, <2>3, <3>1
      <3>3. CASE j = m + 1
        BY <3>2, <3>3, <1>1, <2>3
      <3>4. CASE j \in 1 .. m
        BY <3>2, <3>4, <1>4, <2>3
      <3> QED
        BY <3>3, <3>4, <2>5
    <2>8. \A i \in 1 .. k + 1 : ~ IsFree(list[i]) => \E j \in 1 .. m + 1 : g[j] = i
      <3>1. \A i \in 1 .. k + 1 : i = k + 1 \/ i \in 1 .. k
        BY <1>1
      <3>2. m + 1 \in 1 .. m + 1 /\ \A j \in 1 .. m : j \in 1 .. m + 1
        BY <1>1
      <3> QED
        BY <3>1, <3>2, <1>5, <2>3
    <2>9. Picks(g, e, list, k + 1)
      BY <2>2, <2>4, <2>6, <2>7, <2>8 DEF Picks
    <2> QED
      BY <2>1, <2>9 DEF a
  <1> QED
    BY <1>6, <1>7

LEMMA NotFreeKeeps ==
    ASSUME NEW list \in Seq(Atoms)
    PROVE  \E h : Picks(h, NotFree(list), list, Len(list))
  <1> DEFINE n == Len(list)
  <1>1. n \in Nat
    OBVIOUS
  <1>2. PICK g : /\ g[0] = <<>>
                 /\ \A k \in 1 .. n : g[k] = Keep(g[k - 1], list[k])
                 /\ NotFree(list) = g[n]
    BY NotFreeFolds
  <1> DEFINE T == {k \in 0 .. n : \E h : Picks(h, g[k], list, k)}
             none == [j \in 1 .. 0 |-> 1]
  <1>3. 0 \in T
    <2>1. none \in [1 .. 0 -> 1 .. 0] /\ Len(<<>>) = 0 /\ <<>> \in Seq(Atoms)
      OBVIOUS
    <2> HIDE DEF none
    <2>2. Picks(none, <<>>, list, 0)
      BY <2>1 DEF Picks
    <2>3. 0 \in 0 .. n
      BY <1>1
    <2> QED
      BY <1>2, <2>2, <2>3
  <1>4. ASSUME NEW k \in 0 .. n - 1, k \in T PROVE k + 1 \in T
    <2>1. k + 1 \in 1 .. n /\ k + 1 \in 0 .. n /\ (k + 1) - 1 = k
      BY <1>1
    <2>2. PICK h : Picks(h, g[k], list, k)
      BY <1>4
    <2>3. \E e : Picks(e, Keep(g[k], list[k + 1]), list, k + 1)
      BY <2>2, PicksMore
    <2>4. g[k + 1] = Keep(g[k], list[k + 1])
      BY <1>2, <2>1
    <2> QED
      BY <2>1, <2>3, <2>4
  <1> HIDE DEF T
  <1>5. 0 .. n \subseteq T
    <2>1. 0 \in Int /\ n \in Int
      BY <1>1
    <2> HIDE DEF n
    <2> QED
      BY <1>3, <1>4, <2>1, IntervalInduction
  <1>6. n \in T
    BY <1>1, <1>5
  <1> QED
    BY <1>2, <1>6 DEF T

-----------------------------------------------------------------------------
(* Atoms of the tree written one behind the other *)

Fits(a) == a.start + 2 + Len(Data(a)) <= a.end

\* an atom of the tree is where the file has it
Stands(f, a) ==
    /\ ReadAtom(f, a.start).type = a.type
    /\ End(f, a.start) = a.end
    /\ a.type = "free" /\ ~ a.large => a.end = a.start + 2 + a.size
    /\ Fits(a)

Writes == Seq([at : Nat, cell : Cell])

LEMMA StandsWritten ==
    ASSUME NEW g, NEW a \in Atoms, NEW at \in Nat, NEW n, n = Len(Data(a)),
           ReadAtom(g, at) = Atom(a.type, at, at + 2 + n, n, FALSE, Data(a))
    PROVE  Stands(g, Written(a, at))
  <1> DEFINE b == Written(a, at)
  <1>1. n \in Nat
    BY DataTyped
  <1>2. /\ b \in Atoms /\ b.type = a.type /\ b.start = at /\ b.end = at + 2 + n
        /\ b.size = n /\ b.content = a.content
    BY WrittenAtom
  <1> HIDE DEF b
  <1>3. Len(Data(b)) = n
    <2>1. CASE a.type = "free"
      BY <1>2, <2>1, DataTyped
    <2>2. CASE a.type # "free"
      <3>1. Data(b) = b.content /\ Data(a) = a.content
        BY <1>2, <2>2, DataTyped
      <3> QED
        BY <1>2, <3>1
    <2> QED
      BY <2>1, <2>2
  <1>4. Fits(b)
    BY <1>1, <1>2, <1>3 DEF Fits
  <1>5. ReadAtom(g, at).type = a.type /\ ReadAtom(g, at).end = at + 2 + n
    BY DEF Atom
  <1>6. ReadAtom(g, b.start).type = b.type /\ End(g, b.start) = b.end
    BY <1>2, <1>5 DEF End
  <1>7. b.end = b.start + 2 + b.size
    BY <1>2
  <1> QED
    BY <1>4, <1>6, <1>7 DEF Stands, b

\* the atoms to be written do not overlap, and none begins before x
InRow(rest, x) ==
    /\ \A j \in 1 .. Len(rest) : Fits(rest[j]) /\ x <= rest[j].start
    /\ \A j \in 1 .. Len(rest) : \A i \in 1 .. j - 1 : rest[i].end <= rest[j].start

Laid(g, T, x, b, a, e) ==
    /\ b.start \in T /\ x <= b.start /\ b.end <= e /\ b.end <= a.end
    /\ b = Written(a, b.start)
    /\ Stands(g, b)

\* the first k atoms of rest have been written from x on, which turns f into g
Row(f, x, base, rest, k, done, g, T, w) ==
    /\ done \in Results
    /\ w \in Writes /\ done.writes = base.writes \o w
    /\ Lays(f, w, g, {p \in Nat : x <= p})
    /\ Tiles(g, T, x, done.position)
    /\ k = 0 => done.position = x
    /\ k # 0 => done.position <= rest[k].end
    /\ Len(done.atoms) = Len(base.atoms) + k
    /\ \A i \in 1 .. Len(base.atoms) : done.atoms[i] = base.atoms[i]
    /\ \A j \in 1 .. k :
          Laid(g, T, x, done.atoms[Len(base.atoms) + j], rest[j], done.position)
    /\ \A j \in 1 .. k : \A i \in 1 .. j - 1 :
          done.atoms[Len(base.atoms) + i].end <= done.atoms[Len(base.atoms) + j].start
    /\ \A a \in T : \E j \in 1 .. k : done.atoms[Len(base.atoms) + j].start = a

LEMMA StandsSame ==
    ASSUME NEW f, NEW g, NEW b, ReadAtom(g, b.start) = ReadAtom(f, b.start), Stands(f, b)
    PROVE  Stands(g, b)
  BY DEF Stands, End

LEMMA RowStep ==
    ASSUME NEW f \in Disk, NEW x \in Nat, NEW base \in Results, NEW rest \in Seq(Atoms),
           InRow(rest, x), NEW k \in 0 .. Len(rest) - 1, NEW done, NEW g, NEW T, NEW w,
           Row(f, x, base, rest, k, done, g, T, w)
    PROVE  \E h, U, v : Row(f, x, base, rest, k + 1, Rewrite(done, rest[k + 1]), h, U, v)
  <1> DEFINE a == rest[k + 1]
             n == Len(Data(a))
             e == done.position
             nb == Len(base.atoms)
             r == Rewrite(done, a)
             P == {p \in Nat : x <= p}
             b == Written(a, e)
             U == T \cup {e}
             u == AtomWrites(a, e)
  <1>1. /\ done \in Results /\ w \in Writes /\ done.writes = base.writes \o w
        /\ Lays(f, w, g, P) /\ Tiles(g, T, x, e)
    BY DEF Row
  <1>2. /\ k = 0 => e = x
        /\ k # 0 => e <= rest[k].end
        /\ Len(done.atoms) = nb + k
    BY DEF Row
  <1>3. \A i \in 1 .. nb : done.atoms[i] = base.atoms[i]
    BY DEF Row
  <1>4. \A j \in 1 .. k : Laid(g, T, x, done.atoms[nb + j], rest[j], e)
    BY DEF Row
  <1>5. \A j \in 1 .. k : \A i \in 1 .. j - 1 :
           done.atoms[nb + i].end <= done.atoms[nb + j].start
    BY DEF Row
  <1>6. \A t \in T : \E j \in 1 .. k : done.atoms[nb + j].start = t
    BY DEF Row
  <1>7. /\ a \in Atoms /\ n \in Nat /\ Data(a) \in Seq(Cell) /\ k \in Nat /\ nb \in Nat
        /\ a.type \in TypeNames /\ a.start \in Nat /\ a.end \in Nat /\ k + 1 \in 1 .. Len(rest)
    <2>1. a \in Atoms /\ k \in Nat /\ k + 1 \in 1 .. Len(rest)
      OBVIOUS
    <2>2. base.atoms \in Seq(Atoms)
      BY DEF Results
    <2>3. a.type \in TypeNames /\ a.start \in Nat /\ a.end \in Nat
      BY <2>1 DEF Atoms
    <2> QED
      BY <2>1, <2>2, <2>3, DataTyped
  <1>8. e \in Nat /\ e <= Len(g) /\ x <= e /\ g \in Disk /\ Len(g) \in Nat /\ Len(f) \in Nat
    BY <1>1, LaysKeep DEF Tiles
  <1>9. /\ r \in Results /\ r.atoms = Append(done.atoms, b)
        /\ r.writes = done.writes \o u
        /\ r.position = e + 2 + n
    BY <1>1, <1>7, RewriteTyped
  <1>10. PICK h : /\ Lays(g, u, h, Place(e, n))
                  /\ Len(h) = IF e + 2 + n <= Len(g) THEN Len(g) ELSE e + 2 + n
                  /\ Whole(h, e)
                  /\ ReadAtom(h, e) = Atom(a.type, e, e + 2 + n, n, FALSE, Data(a))
    BY <1>7, <1>8, AtomLaid
  <1>11. /\ b \in Atoms /\ b.type = a.type /\ b.start = e /\ b.end = e + 2 + n
    BY <1>7, <1>8, WrittenAtom
  <1> HIDE DEF a, n, e, nb, r, b, u
  <1>12. h \in Disk /\ Len(h) \in Nat /\ Len(g) <= Len(h) /\ r.position <= Len(h)
         /\ \A p \in x + 1 .. e : h[p] = g[p]
    <2>1. /\ h \in Disk /\ Len(h) \in Nat /\ Len(g) <= Len(h)
          /\ \A p \in 1 .. Len(g) : p - 1 \notin Place(e, n) => h[p] = g[p]
      BY <1>10, LaysKeep
    <2>2. \A p \in x + 1 .. e : p \in 1 .. Len(g) /\ p - 1 \notin Place(e, n)
      BY <1>7, <1>8 DEF Place
    <2>3. r.position <= Len(h)
      BY <1>7, <1>8, <1>9, <1>10
    <2> QED
      BY <2>1, <2>2, <2>3
  <1>13. End(h, e) = e + 2 + n
    BY <1>10 DEF End, Atom
  <1>14. Tiles(h, T, x, e) /\ \A t \in T : ReadAtom(h, t) = ReadAtom(g, t)
    <2>1. e <= Len(h)
      BY <1>8, <1>12
    <2> QED
      BY <1>1, <1>8, <1>12, <2>1, TilesSame
  <1>15. Tiles(h, U, x, e + 2 + n)
    <2>1. Tiles(h, {e}, e, e + 2 + n)
      BY <1>8, <1>10, <1>12, <1>13, TileOne
    <2> QED
      BY <1>8, <1>12, <1>14, <2>1, TilesJoin
  <1>16. Lays(f, w \o u, h, P)
    <2>1. P \cup Place(e, n) = P
      BY <1>7, <1>8 DEF Place
    <2> HIDE DEF P
    <2>2. Lays(f, w \o u, h, P \cup Place(e, n))
      BY <1>1, <1>10, LaysJoin
    <2> QED
      BY <2>1, <2>2
  <1>17. u \in Writes /\ base.writes \in Writes
    BY <1>7, <1>8, AtomWritesTyped DEF u, Writes, Results
  <1>18. w \o u \in Writes /\ r.writes = base.writes \o (w \o u)
    <2> DEFINE A == [at : Nat, cell : Cell]
               bw == base.writes
    <2>1. w \in Seq(A) /\ u \in Seq(A) /\ bw \in Seq(A)
      BY <1>1, <1>17 DEF Writes
    <2>2. r.writes = (bw \o w) \o u
      BY <1>1, <1>9
    <2> HIDE DEF A, bw
    <2>3. (bw \o w) \o u = bw \o (w \o u) /\ w \o u \in Seq(A)
      BY <2>1, ConcatAssociative
    <2> QED
      BY <2>2, <2>3 DEF A, bw, Writes
  <1>19. done.atoms \in Seq(Atoms)
    BY <1>1 DEF Results
  <1>20. /\ Len(r.atoms) = nb + (k + 1) /\ r.atoms[nb + (k + 1)] = b
         /\ \A i \in 1 .. nb : r.atoms[i] = base.atoms[i]
         /\ \A j \in 1 .. k : r.atoms[nb + j] = done.atoms[nb + j]
    <2>1. /\ Len(r.atoms) = Len(done.atoms) + 1 /\ r.atoms[Len(done.atoms) + 1] = b
          /\ \A i \in 1 .. Len(done.atoms) : r.atoms[i] = done.atoms[i]
      BY <1>9, <1>11, <1>19
    <2>2. \A i \in 1 .. nb : i \in 1 .. Len(done.atoms)
      BY <1>2, <1>7
    <2>3. \A j \in 1 .. k : nb + j \in 1 .. Len(done.atoms)
      BY <1>2, <1>7
    <2>4. Len(done.atoms) + 1 = nb + (k + 1)
      BY <1>2, <1>7
    <2> QED
      BY <1>3, <2>1, <2>2, <2>3, <2>4
  <1>21. e <= a.start /\ a.start + 2 + n <= a.end
    <2>1. Fits(a) /\ x <= a.start /\ \A i \in 1 .. (k + 1) - 1 : rest[i].end <= a.start
      BY <1>7 DEF InRow, a
    <2>2. CASE k = 0
      BY <1>2, <2>1, <2>2 DEF Fits, n
    <2>3. CASE k # 0
      <3>1. k \in 1 .. (k + 1) - 1 /\ k \in 1 .. Len(rest)
        BY <1>7, <2>3
      <3>2. rest[k].end \in Nat
        <4>1. rest[k] \in Atoms
          BY <3>1
        <4> QED
          BY <4>1 DEF Atoms
      <3>3. e <= rest[k].end /\ rest[k].end <= a.start
        BY <1>2, <2>1, <2>3, <3>1
      <3> QED
        BY <1>7, <1>8, <2>1, <3>2, <3>3 DEF Fits, n
    <2> QED
      BY <2>2, <2>3
  <1>22. e + 2 + n <= a.end /\ e \in Nat /\ n \in Nat
    BY <1>7, <1>8, <1>21
  <1>23. \A j \in 1 .. k : /\ Laid(h, U, x, r.atoms[nb + j], rest[j], e + 2 + n)
                           /\ r.atoms[nb + j].end <= e
    <2> TAKE j \in 1 .. k
    <2> DEFINE c == done.atoms[nb + j]
    <2>1. c \in Atoms
      BY <1>2, <1>7, <1>19
    <2>2. r.atoms[nb + j] = c
      BY <1>20
    <2>3. Laid(g, T, x, c, rest[j], e)
      BY <1>4
    <2>4. c.end \in Nat /\ c.start \in Nat
      BY <2>1 DEF Atoms
    <2> HIDE DEF c
    <2>5. /\ c.start \in T /\ x <= c.start /\ c.end <= e /\ c.end <= rest[j].end
          /\ c = Written(rest[j], c.start) /\ Stands(g, c)
      BY <2>3 DEF Laid
    <2>6. Stands(h, c)
      BY <1>14, <2>5, StandsSame
    <2>7. c.end <= e + 2 + n
      BY <1>22, <2>4, <2>5
    <2>8. Laid(h, U, x, c, rest[j], e + 2 + n)
      BY <2>5, <2>6, <2>7 DEF Laid
    <2> QED
      BY <2>2, <2>5, <2>8
  <1>24. Laid(h, U, x, b, a, e + 2 + n)
    <2>1. Stands(h, b)
      BY <1>7, <1>8, <1>10, StandsWritten DEF b, n
    <2>2. b = Written(a, b.start)
      BY <1>11 DEF b
    <2> QED
      BY <1>8, <1>11, <1>22, <2>1, <2>2 DEF Laid
  <1>25. \A j \in 1 .. k + 1 : j = k + 1 \/ j \in 1 .. k
    BY <1>7
  <1>26. \A j \in 1 .. k + 1 : Laid(h, U, x, r.atoms[nb + j], rest[j], e + 2 + n)
    BY <1>20, <1>23, <1>24, <1>25 DEF a
  <1>27. \A j \in 1 .. k + 1 : \A i \in 1 .. j - 1 :
            r.atoms[nb + i].end <= r.atoms[nb + j].start
    <2> TAKE j \in 1 .. k + 1
    <2> TAKE i \in 1 .. j - 1
    <2>1. i \in 1 .. k
      BY <1>7
    <2>2. CASE j = k + 1
      BY <1>11, <1>20, <1>23, <2>1, <2>2
    <2>3. CASE j \in 1 .. k
      BY <1>5, <1>20, <2>1, <2>3
    <2> QED
      BY <1>25, <2>2, <2>3
  <1>28. \A t \in U : \E j \in 1 .. k + 1 : r.atoms[nb + j].start = t
    <2>1. k + 1 \in 1 .. k + 1 /\ \A j \in 1 .. k : j \in 1 .. k + 1
      BY <1>7
    <2>2. r.atoms[nb + (k + 1)].start = e
      BY <1>11, <1>20
    <2> QED
      BY <1>6, <1>20, <2>1, <2>2
  <1> HIDE DEF P, U
  <1>29. k + 1 # 0 /\ r.position <= rest[k + 1].end
    BY <1>7, <1>9, <1>22 DEF a
  <1>30. Row(f, x, base, rest, k + 1, r, h, U, w \o u)
    BY <1>9, <1>15, <1>16, <1>18, <1>20, <1>26, <1>27, <1>28, <1>29 DEF Row, nb, P
  <1> QED
    BY <1>30 DEF r, a

LEMMA RowWritten ==
    ASSUME NEW f \in Disk, NEW base \in Results, NEW rest \in Seq(Atoms),
           base.position <= Len(f), InRow(rest, base.position)
    PROVE  \E g, T, w : Row(f, base.position, base, rest, Len(rest),
                            FoldLeft(Rewrite, base, rest), g, T, w)
  <1> DEFINE x == base.position
             n == Len(rest)
  <1>1. n \in Nat /\ x \in Nat /\ base.writes \in Writes /\ base.atoms \in Seq(Atoms)
    BY DEF Results, Writes
  <1>2. PICK s : /\ s \in [0 .. n -> Results] /\ s[0] = base
                 /\ \A k \in 1 .. n : s[k] = Rewrite(s[k - 1], rest[k])
                 /\ FoldLeft(Rewrite, base, rest) = s[n]
    BY RewriteFolds
  <1> DEFINE K == {k \in 0 .. n : \E g, T, w : Row(f, x, base, rest, k, s[k], g, T, w)}
  <1>3. Row(f, x, base, rest, 0, base, f, {}, <<>>)
    <2>1. Tiles(f, {}, x, x)
      BY <1>1, TileNone
    <2>2. {p \in Nat : x <= p} \in SUBSET Nat
      OBVIOUS
    <2>3. Lays(f, <<>>, f, {p \in Nat : x <= p})
      BY <2>2, LaysNothing
    <2>4. <<>> \in Writes /\ base.writes \o <<>> = base.writes
      <3> DEFINE bw == base.writes
                 A == [at : Nat, cell : Cell]
      <3>1. bw \in Seq(A)
        BY <1>1 DEF Writes
      <3> HIDE DEF bw, A
      <3>2. bw \o <<>> = bw /\ <<>> \in Seq(A)
        BY <3>1
      <3> QED
        BY <3>2 DEF bw, A, Writes
    <2>5. Len(base.atoms) = Len(base.atoms) + 0
      BY <1>1
    <2> HIDE DEF x
    <2> QED
      BY <2>1, <2>3, <2>4, <2>5 DEF Row, x
  <1>4. 0 \in K
    <2>1. 0 \in 0 .. n
      BY <1>1
    <2> HIDE DEF x
    <2> QED
      BY <1>2, <1>3, <2>1
  <1>5. ASSUME NEW k \in 0 .. n - 1, k \in K PROVE k + 1 \in K
    <2>1. PICK g, T, w : Row(f, x, base, rest, k, s[k], g, T, w)
      BY <1>5
    <2>2. k + 1 \in 0 .. n /\ k + 1 \in 1 .. n /\ (k + 1) - 1 = k
      BY <1>1
    <2>3. \E h, U, v : Row(f, x, base, rest, k + 1, Rewrite(s[k], rest[k + 1]), h, U, v)
      <3> HIDE DEF x
      <3> QED
        BY <1>1, <2>1, RowStep DEF x
    <2>4. s[k + 1] = Rewrite(s[k], rest[k + 1])
      BY <1>2, <2>2
    <2> HIDE DEF x
    <2> QED
      BY <2>2, <2>3, <2>4
  <1>6. n \in K
    <2>1. 0 \in Int /\ n \in Int
      BY <1>1
    <2> HIDE DEF K, n
    <2>2. 0 .. n \subseteq K
      BY <1>4, <1>5, <2>1, IntervalInduction
    <2> QED
      BY <1>1, <2>2
  <1> HIDE DEF x
  <1> QED
    BY <1>2, <1>6 DEF x

-----------------------------------------------------------------------------
(* Files with one movie *)

\* the cell at (counted from 1) is media data of the atom at a
Holds(d, a, at) ==
    LET r == ReadAtom(d, a) IN r.type = "mdat" /\ r.end - r.size < at /\ at <= r.end

\* all atoms can be read, those that hold something end before limit, and
\* all media is inside mdat atoms
Orderly(d, S, media, limit) ==
    /\ \A a \in S : ReadAtom(d, a).type # "unreadable"
    /\ \A a \in S : ReadAtom(d, a).type = "mdat" => End(d, a) <= a + MaxSize
    /\ \A a \in S : \/ ReadAtom(d, a).type = "moov" \/ IsFree(ReadAtom(d, a))
                    \/ End(d, a) <= limit
    /\ \A at \in media : \E a \in S : Holds(d, a, at)

OneMoov(d, S, m) == m \in S /\ \A a \in S : (ReadAtom(d, a).type = "moov") <=> (a = m)

\* the atom at m holds all of version v of the movie
IsMovie(d, m, v) ==
    LET r == ReadAtom(d, m)
    IN  ~ r.large /\ r.size > 0 /\ r.content = MoovData(v, r.size)

Ready(d, media, limit, v) ==
    \E S, e : /\ Filled(d, S, e) /\ Orderly(d, S, media, limit)
              /\ \E m \in S : OneMoov(d, S, m) /\ IsMovie(d, m, v) /\ m <= limit

\* list is what is read from the atoms at S
Listed(d, S, e, list, m) ==
    /\ list \in Seq(Atoms) /\ m \in 1 .. Len(list)
    /\ Tiles(d, S, 0, e)
    /\ \A i \in 1 .. Len(list) : /\ list[i] = ReadAtom(d, list[i].start)
                                 /\ list[i].start \in S /\ Stands(d, list[i])
    /\ \A a \in S : \E i \in 1 .. Len(list) : list[i].start = a
    /\ list[1].start = 0 /\ list[Len(list)].end = e
    /\ \A i \in 1 .. Len(list) - 1 : list[i + 1].start = list[i].end
    /\ \A j \in 1 .. Len(list) : \A i \in 1 .. j - 1 : list[i].end <= list[j].start
    /\ \A i \in 1 .. Len(list) : (list[i].type = "moov") <=> (i = m)

LEMMA AtomTyped ==
    ASSUME NEW t \in TypeNames, NEW s \in Nat, NEW e \in Nat, NEW z \in Nat,
           NEW l \in BOOLEAN, NEW c \in Seq(Cell)
    PROVE  Atom(t, s, e, z, l, c) \in Atoms
  BY Zenon DEF Atom, Atoms

LEMMA ReadTyped ==
    ASSUME NEW d \in Disk, NEW at \in Nat, Whole(d, at)
    PROVE  ReadAtom(d, at) \in Atoms /\ Stands(d, ReadAtom(d, at))
  <1> DEFINE r == ReadAtom(d, at)
             span == SpanOf(d, at)
             h == HeaderOf(d, at)
             t == CellAt(d, at + 1)[2]
             l == (CellAt(d, at)[2] = 1)
             c == SubSeq(d, at + h + 1, at + span)
  <1>1. r = Atom(t, at, at + span, span - h, l, c)
    BY WholeRead
  <1>2. /\ r.start = at /\ r.type \in TypeNames
        /\ r.end \in Nat /\ r.size \in Nat
        /\ r.end = at + (IF r.large THEN 4 ELSE 2) + r.size
        /\ r.content \in Seq(Cell) /\ Len(r.content) = r.size
    BY Parts
  <1>3. r.large \in BOOLEAN
    BY Parts
  <1> HIDE DEF l, c, t, span, h
  <1>4. /\ r.type = t /\ r.end = at + span /\ r.size = span - h /\ r.content = c
        /\ r.large = l
    <2> HIDE DEF r
    <2>1. r.large = l
      BY <1>1, Zenon DEF Atom
    <2>2. r.type = t /\ r.end = at + span /\ r.size = span - h /\ r.content = c
      BY <1>1 DEF Atom
    <2> QED
      BY <2>1, <2>2
  <1>5. r \in Atoms
    <2>1. /\ t \in TypeNames /\ at + span \in Nat /\ span - h \in Nat /\ l \in BOOLEAN
          /\ c \in Seq(Cell)
      BY <1>2, <1>3, <1>4, Zenon
    <2> QED
      BY <1>1, <2>1, AtomTyped
  <1> HIDE DEF r
  <1>6. r.end >= at + 2 + r.size
    BY <1>2, <1>3
  <1>7. Len(Data(r)) = r.size
    <2>1. CASE r.type = "free"
      BY <1>5, <2>1, DataTyped
    <2>2. CASE r.type # "free"
      <3>1. Data(r) = r.content
        BY <1>5, <2>2, DataTyped
      <3> QED
        BY <1>2, <3>1
    <2> QED
      BY <2>1, <2>2
  <1>8. Fits(r)
    BY <1>2, <1>6, <1>7 DEF Fits
  <1>9. ReadAtom(d, r.start) = r
    BY <1>2 DEF r
  <1>10. ~ r.large => r.end = r.start + 2 + r.size
    BY <1>2
  <1>11. Stands(d, r)
    BY <1>8, <1>9, <1>10 DEF Stands, End
  <1> QED
    BY <1>5, <1>11 DEF r

LEMMA ListedOnce ==
    ASSUME NEW d \in Disk, NEW S, NEW e, Filled(d, S, e), NEW mo \in S, OneMoov(d, S, mo)
    PROVE  \E m : Listed(d, S, e, ReadAtoms(d), m) /\ ReadAtoms(d)[m].start = mo
  <1> DEFINE list == ReadAtoms(d)
             n == Len(list)
  <1>1. /\ \A i \in 1 .. n : list[i].start \in S
        /\ \A a \in S : \E i \in 1 .. n : list[i].start = a
        /\ n # 0 => list[n].end = e
    BY FilledRead
  <1>2. Follows(d, list)
    BY ReadFollows
  <1> HIDE DEF list
  <1>3. /\ n \in Nat
        /\ \A i \in 1 .. n : list[i] = ReadAtom(d, list[i].start) /\ list[i].start \in Nat
        /\ n # 0 => list[1].start = 0
        /\ \A i \in 1 .. n - 1 : list[i + 1].start = list[i].end
    BY <1>2 DEF Follows
  <1>4. Tiles(d, S, 0, e) /\ \A a \in S : Whole(d, a)
    BY DEF Filled, Tiles
  <1>5. \A i \in 1 .. n : list[i] \in Atoms /\ Stands(d, list[i])
    BY <1>1, <1>3, <1>4, ReadTyped
  <1>6. list \in Seq(Atoms)
    <2>1. list \in Seq(Range(list))
      BY <1>2 DEF Follows
    <2>2. list = [i \in 1 .. n |-> list[i]]
      BY <2>1
    <2> HIDE DEF n
    <2>3. list \in [1 .. n -> Atoms]
      BY <1>5, <2>2
    <2> QED
      BY <1>3, <2>3
  <1>7. \A j \in 1 .. n : \A i \in 1 .. j - 1 : list[i].end <= list[j].start
    <2> TAKE j \in 1 .. n
    <2> TAKE i \in 1 .. j - 1
    <2>1. i \in 1 .. n /\ i < j
      BY <1>3
    <2> HIDE DEF n
    <2> QED
      BY <1>2, <2>1, ReadOrder DEF n
  <1>8. PICK m \in 1 .. n : list[m].start = mo
    BY <1>1
  <1>9. \A i \in 1 .. n : (list[i].type = "moov") <=> (i = m)
    <2> TAKE i \in 1 .. n
    <2>1. list[i].start \in S /\ ((list[i].type = "moov") <=> (list[i].start = mo))
      BY <1>1, <1>3 DEF OneMoov
    <2>2. list[i].start = mo => i = m
      <3> SUFFICES ASSUME list[i].start = mo, i # m PROVE FALSE
        OBVIOUS
      <3>1. \A k \in 1 .. n : list[k].start + 2 <= list[k].end /\ list[k].start \in Nat
                              /\ list[k].end \in Nat
        <4> TAKE k \in 1 .. n
        <4>1. list[k] \in Atoms /\ Fits(list[k])
          BY <1>5 DEF Stands
        <4>2. Len(Data(list[k])) \in Nat
          BY <4>1, DataTyped
        <4>3. list[k].start \in Nat /\ list[k].end \in Nat
          BY <4>1 DEF Atoms
        <4> QED
          BY <4>1, <4>2, <4>3 DEF Fits
      <3>2. CASE i < m
        <4>1. i \in 1 .. m - 1
          BY <3>2
        <4>2. list[i].end <= list[m].start
          BY <1>7, <1>8, <4>1
        <4> QED
          BY <1>8, <3>1, <4>2
      <3>3. CASE m < i
        <4>1. m \in 1 .. i - 1
          BY <1>8, <3>3
        <4>2. list[m].end <= list[i].start
          BY <1>7, <1>8, <4>1
        <4> QED
          BY <1>8, <3>1, <4>2
      <3> QED
        BY <1>8, <3>2, <3>3
    <2> QED
      BY <1>8, <2>1, <2>2
  <1>10. n # 0
    BY <1>3, <1>8
  <1>11. Listed(d, S, e, list, m)
    BY <1>1, <1>3, <1>4, <1>5, <1>6, <1>7, <1>8, <1>9, <1>10 DEF Listed
  <1> QED
    BY <1>8, <1>11 DEF list

LEMMA MoovIs ==
    ASSUME NEW list, NEW m \in DOMAIN list, DOMAIN list \subseteq Int,
           \A i \in DOMAIN list : (list[i].type = "moov") <=> (i = m)
    PROVE  OfType(list, "moov") = {m} /\ Moov(list) = m
  <1>1. OfType(list, "moov") = {m}
    BY DEF OfType
  <1>2. {m} \in SUBSET Int /\ m \in {m} /\ \A x \in {m} : m <= x
    OBVIOUS
  <1>3. Min({m}) = m
    BY <1>2, MinIs
  <1> QED
    BY <1>1, <1>3 DEF Moov

LEMMA ListedMoov ==
    ASSUME NEW d, NEW S, NEW e, NEW list, NEW m, Listed(d, S, e, list, m)
    PROVE  OfType(list, "moov") = {m} /\ Moov(list) = m
  <1>1. /\ list \in Seq(Atoms) /\ m \in 1 .. Len(list)
        /\ \A i \in 1 .. Len(list) : (list[i].type = "moov") <=> (i = m)
    BY DEF Listed
  <1>2. DOMAIN list = 1 .. Len(list) /\ 1 .. Len(list) \subseteq Int
    BY <1>1
  <1>3. m \in DOMAIN list /\ DOMAIN list \subseteq Int
        /\ \A i \in DOMAIN list : (list[i].type = "moov") <=> (i = m)
    BY <1>1, <1>2
  <1> QED
    BY <1>3, MoovIs

LEMMA ReadyUsable ==
    ASSUME NEW d \in Disk, NEW media, NEW limit, NEW v \in Nat, Ready(d, media, limit, v)
    PROVE  ~ Unusable(ReadAtoms(d)) /\ MovieIn(d) = v
  <1> DEFINE list == ReadAtoms(d)
  <1>1. PICK S, e : /\ Filled(d, S, e) /\ Orderly(d, S, media, limit)
                    /\ \E m \in S : OneMoov(d, S, m) /\ IsMovie(d, m, v) /\ m <= limit
    BY DEF Ready
  <1>2. PICK mo \in S : OneMoov(d, S, mo) /\ IsMovie(d, mo, v)
    BY <1>1
  <1>3. PICK m : Listed(d, S, e, list, m) /\ list[m].start = mo
    BY <1>1, <1>2, ListedOnce
  <1> HIDE DEF list
  <1>4. OfType(list, "moov") = {m} /\ Moov(list) = m
    BY <1>3, ListedMoov
  <1>5. /\ m \in 1 .. Len(list) /\ DOMAIN list = 1 .. Len(list) /\ list \in Seq(Atoms)
        /\ \A i \in 1 .. Len(list) : list[i] = ReadAtom(d, list[i].start)
                                     /\ list[i].start \in S
    BY <1>3 DEF Listed
  <1>6. OfType(list, "unreadable") = {}
    BY <1>1, <1>5 DEF Orderly, OfType
  <1>7. ~ Unusable(list)
    <2>1. Cardinality({m}) = 1
      BY FS_Singleton
    <2> QED
      BY <1>4, <1>6, <2>1 DEF Unusable
  <1> DEFINE r == list[m]
             z == r.size
  <1>8. r.size > 0 /\ r.content = MoovData(v, r.size) /\ r.size \in Nat
    <2>1. r = ReadAtom(d, mo) /\ r \in Atoms
      BY <1>3, <1>5
    <2> QED
      BY <1>2, <2>1 DEF IsMovie, Atoms
  <1> HIDE DEF r
  <1> DEFINE data == r.content
  <1>9. data = [k \in 1 .. z |-> <<"moov", v, k>>] /\ z \in Nat /\ z > 0
    BY <1>8 DEF MoovData
  <1> HIDE DEF z
  <1>10. data # <<>> /\ Len(data) = z /\ Head(data) = <<"moov", v, 1>>
    BY <1>9
  <1>11. Head(data)[1] = "moov" /\ Head(data)[2] = v
    BY <1>10
  <1>12. data = MoovData(v, Len(data))
    BY <1>8, <1>10 DEF z
  <1> HIDE DEF data
  <1>13. MovieIn(d) = v
    <2>1. {m} # {}
      OBVIOUS
    <2> QED
      BY <1>4, <1>6, <1>10, <1>11, <1>12, <2>1, Zenon DEF MovieIn, list, r, data
  <1> QED
    BY <1>7, <1>13 DEF list

-----------------------------------------------------------------------------
(* Where the media is *)

\* the positions that do not hold media
Safe(media) == {p \in Nat : p + 1 \notin media}

LEMMA HeldWhere ==
    ASSUME NEW d \in Disk, NEW S, NEW s, NEW e, Tiles(d, S, s, e), NEW a \in S,
           NEW at \in Nat, Holds(d, a, at)
    PROVE  a + 2 < at /\ at <= End(d, a) /\ End(d, a) <= e
  <1>1. Whole(d, a) /\ a \in Nat /\ End(d, a) <= e
    BY DEF Tiles
  <1> DEFINE r == ReadAtom(d, a)
  <1>2. /\ r.size \in Nat /\ r.end \in Nat /\ r.large \in BOOLEAN
        /\ r.end = a + (IF r.large THEN 4 ELSE 2) + r.size
    BY <1>1, Parts
  <1>3. r.end - r.size < at /\ at <= r.end
    BY DEF Holds
  <1>4. End(d, a) = r.end
    BY DEF End
  <1> HIDE DEF r
  <1> QED
    BY <1>1, <1>2, <1>3, <1>4

\* media is in no atom of another type, in no header, and not behind the atoms
LEMMA MediaApart ==
    ASSUME NEW d \in Disk, NEW S, NEW e, Tiles(d, S, 0, e), NEW media \in SUBSET Nat,
           NEW limit, Orderly(d, S, media, limit)
    PROVE  /\ \A at \in media : at <= e
           /\ \A a \in S : a \in Safe(media) /\ a + 1 \in Safe(media)
           /\ \A b \in S : ReadAtom(d, b).type # "mdat" =>
                              \A at \in media : at <= b \/ End(d, b) < at
  <1>1. \A at \in media : \E a \in S : Holds(d, a, at)
    BY DEF Orderly
  <1>2. /\ \A a \in S : a \in Nat /\ End(d, a) \in Nat /\ a + 2 <= End(d, a)
        /\ \A a, b \in S : a < b => End(d, a) <= b
        /\ e \in Nat
    <2>1. \A a \in S : a \in Nat /\ End(d, a) \in Nat /\ a + 2 <= End(d, a)
      BY TileEnds
    <2> QED
      BY <2>1 DEF Tiles
  <1>3. \A at \in media : \A a \in S : Holds(d, a, at) =>
           a + 2 < at /\ at <= End(d, a) /\ End(d, a) <= e
    BY HeldWhere
  <1>4. \A at \in media : at <= e
    BY <1>1, <1>2, <1>3
  <1>5. ASSUME NEW a \in S, NEW at \in media PROVE at # a + 1 /\ at # a + 2
    <2>1. PICK b \in S : Holds(d, b, at)
      BY <1>1
    <2>2. b + 2 < at /\ at <= End(d, b) /\ b \in Nat /\ End(d, b) \in Nat /\ a \in Nat
          /\ at \in Nat
      BY <1>2, <1>3, <2>1
    <2>3. CASE a = b
      BY <2>2, <2>3
    <2>4. CASE a < b
      BY <2>2, <2>4
    <2>5. CASE b < a
      <3>1. End(d, b) <= a
        BY <1>2, <2>5
      <3> QED
        BY <2>2, <3>1
    <2> QED
      BY <2>2, <2>3, <2>4, <2>5
  <1>6. ASSUME NEW b \in S, ReadAtom(d, b).type # "mdat", NEW at \in media
        PROVE  at <= b \/ End(d, b) < at
    <2>1. PICK a \in S : Holds(d, a, at)
      BY <1>1
    <2>2. a # b
      BY <1>6, <2>1 DEF Holds
    <2>3. a + 2 < at /\ at <= End(d, a) /\ a \in Nat /\ End(d, a) \in Nat /\ b \in Nat
          /\ at \in Nat /\ End(d, b) \in Nat
      BY <1>2, <1>3, <2>1
    <2>4. CASE a < b
      <3>1. End(d, a) <= b
        BY <1>2, <2>4
      <3> QED
        BY <2>3, <3>1
    <2>5. CASE b < a
      <3>1. End(d, b) <= a
        BY <1>2, <2>5
      <3> QED
        BY <2>3, <3>1
    <2> QED
      BY <2>2, <2>3, <2>4, <2>5
  <1>7. \A a \in S : a \in Safe(media) /\ a + 1 \in Safe(media)
    <2> TAKE a \in S
    <2>1. a \in Nat /\ a + 1 \in Nat /\ (a + 1) + 1 = a + 2
      BY <1>2
    <2> QED
      BY <1>5, <2>1 DEF Safe
  <1> QED
    BY <1>4, <1>6, <1>7

LEMMA SafePlaces ==
    ASSUME NEW d \in Disk, NEW S, NEW e, Tiles(d, S, 0, e), NEW media \in SUBSET Nat,
           NEW limit, Orderly(d, S, media, limit)
    PROVE  /\ {p \in Nat : e <= p} \subseteq Safe(media)
           /\ \A b \in S : ReadAtom(d, b).type # "mdat" => b .. End(d, b) - 1 \subseteq Safe(media)
  <1>1. e \in Nat /\ \A at \in media : at <= e
    BY MediaApart DEF Tiles
  <1>2. {p \in Nat : e <= p} \subseteq Safe(media)
    BY <1>1 DEF Safe
  <1>3. ASSUME NEW b \in S, ReadAtom(d, b).type # "mdat", NEW p \in b .. End(d, b) - 1
        PROVE  p \in Safe(media)
    <2>1. b \in Nat /\ End(d, b) \in Nat
      BY TileEnds
    <2>2. \A at \in media : at <= b \/ End(d, b) < at
      BY <1>3, MediaApart
    <2>3. p \in Nat /\ p + 1 \in Nat /\ ~ (p + 1 <= b) /\ ~ (End(d, b) < p + 1)
      BY <2>1
    <2> QED
      BY <2>2, <2>3 DEF Safe
  <1> QED
    BY <1>2, <1>3

LEMMA OrderlySame ==
    ASSUME NEW d, NEW f, NEW S, NEW T, NEW media, NEW limit \in Int, NEW more \in Int,
           limit <= more, Orderly(d, S, media, limit),
           \A a \in S : End(d, a) \in Int,
           \A a \in T : a \in S /\ ReadAtom(f, a) = ReadAtom(d, a),
           \A at \in media : \A a \in S : Holds(d, a, at) => a \in T
    PROVE  Orderly(f, T, media, more)
  <1>1. \A a \in T : a \in S /\ ReadAtom(f, a) = ReadAtom(d, a) /\ End(f, a) = End(d, a)
    BY DEF End
  <1>2. \A a \in T : ReadAtom(f, a).type # "unreadable"
    BY <1>1 DEF Orderly
  <1>3. \A a \in T : ReadAtom(f, a).type = "mdat" => End(f, a) <= a + MaxSize
    BY <1>1 DEF Orderly
  <1>4. \A a \in T : \/ ReadAtom(f, a).type = "moov" \/ IsFree(ReadAtom(f, a))
                     \/ End(f, a) <= more
    <2> TAKE a \in T
    <2>1. a \in S /\ End(d, a) \in Int
      BY <1>1
    <2>2. \/ ReadAtom(d, a).type = "moov" \/ IsFree(ReadAtom(d, a)) \/ End(d, a) <= limit
      BY <2>1 DEF Orderly
    <2> QED
      BY <1>1, <2>1, <2>2
  <1>5. \A at \in media : \E a \in T : Holds(f, a, at)
    <2> TAKE at \in media
    <2>1. PICK a \in S : Holds(d, a, at)
      BY DEF Orderly
    <2>2. a \in T
      BY <2>1
    <2>3. Holds(f, a, at)
      BY <1>1, <2>1, <2>2 DEF Holds
    <2> QED
      BY <2>2, <2>3
  <1> QED
    BY <1>2, <1>3, <1>4, <1>5 DEF Orderly

-----------------------------------------------------------------------------
(* Modify makes room for moov *)

\* the first k atoms of the tree are on the disk, whose atoms at S reach to e,
\* and those that are not in the tree are free
Tree(f, S, list, k, e) ==
    /\ list \in Seq(Atoms) /\ k \in 0 .. Len(list)
    /\ Tiles(f, S, 0, e)
    /\ \A i \in 1 .. k : list[i].start \in S /\ Stands(f, list[i])
    /\ \A j \in 1 .. k : \A i \in 1 .. j - 1 : list[i].end <= list[j].start
    /\ \A a \in S : ~ IsFree(ReadAtom(f, a)) => \E i \in 1 .. k : list[i].start = a

\* the last atom of the tree is moov, which will be written at p
Room(f, S, list, p, media, limit) ==
    LET n == Len(list)
    IN  /\ n # 0 /\ Tree(f, S, list, n - 1, p) /\ list[n].type = "moov"
        /\ n > 1 => list[n - 1].end = p
        /\ n > 1 /\ list[n - 1].type = "mdat" =>
              list[n - 1] = ReadAtom(f, list[n - 1].start)
        /\ \A a \in S : ReadAtom(f, a).type # "moov"
        /\ Orderly(f, S, media, limit) /\ p <= limit

LEMMA ListedAtoms ==
    ASSUME NEW d, NEW S, NEW e, NEW list, NEW m, Listed(d, S, e, list, m)
    PROVE  \A i \in 1 .. Len(list) :
              /\ list[i] \in Atoms /\ list[i].start \in Nat
              /\ list[i].end \in Nat /\ list[i].start + 2 <= list[i].end
              /\ list[i].end = End(d, list[i].start)
  <1> TAKE i \in 1 .. Len(list)
  <1>1. list[i] \in Atoms /\ Stands(d, list[i])
    BY DEF Listed
  <1> DEFINE a == list[i]
  <1> HIDE DEF a
  <1>2. a \in Atoms /\ Fits(a) /\ End(d, a.start) = a.end
    BY <1>1 DEF Stands, a
  <1>3. a.start \in Nat /\ a.end \in Nat
    BY <1>2 DEF Atoms
  <1>4. Len(Data(a)) \in Nat
    BY <1>2, DataTyped
  <1>5. a.start + 2 <= a.end
    BY <1>2, <1>3, <1>4 DEF Fits
  <1> QED
    BY <1>2, <1>3, <1>5 DEF a

LEMMA RoomAtEnd ==
    ASSUME NEW d \in Disk, NEW S, NEW e, NEW list, NEW m, Listed(d, S, e, list, m),
           NEW media \in SUBSET Nat, NEW limit \in Int, Orderly(d, S, media, limit),
           NotFree(SubSeq(list, m + 1, Len(list))) = <<>>, list[m].start <= limit
    PROVE  LET room == MakeRoom(list)
           IN  /\ room.writes = <<>>
               /\ \E T : Room(d, T, room.atoms, room.position, media, limit)
  <1> DEFINE n == Len(list)
             p == list[m].start
             T == {a \in S : a < p}
             behind == SubSeq(list, m + 1, n)
             new == Append(SubSeq(list, 1, m - 1), list[m])
  <1>1. /\ list \in Seq(Atoms) /\ m \in 1 .. n /\ n \in Nat /\ m \in Nat
        /\ Tiles(d, S, 0, e)
        /\ \A i \in 1 .. n : /\ list[i] = ReadAtom(d, list[i].start)
                             /\ list[i].start \in S /\ Stands(d, list[i])
        /\ \A a \in S : \E i \in 1 .. n : list[i].start = a
    BY DEF Listed
  <1>2. /\ list[1].start = 0
        /\ \A i \in 1 .. n - 1 : list[i + 1].start = list[i].end
        /\ \A j \in 1 .. n : \A i \in 1 .. j - 1 : list[i].end <= list[j].start
        /\ \A i \in 1 .. n : (list[i].type = "moov") <=> (i = m)
    BY DEF Listed
  <1>3. \A i \in 1 .. n : /\ list[i] \in Atoms /\ list[i].start \in Nat
                          /\ list[i].end \in Nat /\ list[i].start + 2 <= list[i].end
                          /\ list[i].end = End(d, list[i].start)
    BY ListedAtoms
  <1>4. /\ new \in Seq(Atoms) /\ Len(new) = m
        /\ \A i \in 1 .. m : new[i] = list[i]
    <2> DEFINE front == SubSeq(list, 1, m - 1)
    <2>1. /\ front \in Seq(Atoms) /\ Len(front) = m - 1
          /\ \A i \in 1 .. m - 1 : front[i] = list[i]
      BY <1>1
    <2>2. list[m] \in Atoms
      BY <1>1
    <2> HIDE DEF front
    <2>3. /\ Append(front, list[m]) \in Seq(Atoms)
          /\ Len(Append(front, list[m])) = m
          /\ \A i \in 1 .. m : Append(front, list[m])[i] = list[i]
      BY <1>1, <2>1, <2>2
    <2> QED
      BY <2>3 DEF front
  <1>5. \A i \in m + 1 .. n : IsFree(list[i])
    <2>1. behind \in Seq(Atoms) /\ Len(behind) = n - m
          /\ \A k \in 1 .. n - m : behind[k] = list[m + k]
      BY <1>1
    <2> HIDE DEF behind
    <2>2. PICK h : Picks(h, <<>>, behind, n - m)
      BY <2>1, NotFreeKeeps DEF behind
    <2>3. \A k \in 1 .. n - m : IsFree(behind[k])
      BY <2>2 DEF Picks
    <2> TAKE i \in m + 1 .. n
    <2>4. i - m \in 1 .. n - m /\ m + (i - m) = i
      BY <1>1
    <2> QED
      BY <2>1, <2>3, <2>4
  <1>6. MakeRoom(list) = [atoms |-> new, writes |-> <<>>, position |-> p]
    <2>1. Moov(list) = m
      BY ListedMoov
    <2> QED
      BY <2>1 DEF MakeRoom
  <1> HIDE DEF new, behind
  <1>7. p \in S /\ p \in Nat
    BY <1>1, <1>3
  <1>8. Tiles(d, T, 0, p)
    BY <1>1, <1>7, TilesCut
  <1>9. \A i \in 1 .. m - 1 : list[i].start \in T
    <2> TAKE i \in 1 .. m - 1
    <2>1. i \in 1 .. n /\ list[i].end <= p
      BY <1>1, <1>2
    <2> QED
      BY <1>1, <1>3, <1>7, <2>1
  <1>10. \A a \in T : \E i \in 1 .. m - 1 : list[i].start = a
    <2> TAKE a \in T
    <2>1. a \in S /\ a < p
      OBVIOUS
    <2>2. PICK i \in 1 .. n : list[i].start = a
      BY <1>1, <2>1
    <2>3. ~ (i > m)
      <3> SUFFICES ASSUME i > m PROVE FALSE
        OBVIOUS
      <3>1. m \in 1 .. i - 1
        BY <1>1
      <3>2. list[m].end <= list[i].start
        BY <1>2, <3>1
      <3> QED
        BY <1>1, <1>3, <2>1, <2>2, <3>2
    <2>4. i # m
      BY <1>7, <2>1, <2>2
    <2>5. i \in 1 .. m - 1
      BY <1>1, <2>3, <2>4
    <2> QED
      BY <2>2, <2>5
  <1>11. Tree(d, T, new, m - 1, p)
    <2>1. \A i \in 1 .. m - 1 : i \in 1 .. m /\ i \in 1 .. n
      BY <1>1
    <2>2. \A i \in 1 .. m - 1 : new[i].start \in T /\ Stands(d, new[i])
      BY <1>1, <1>4, <1>9, <2>1
    <2>3. \A j \in 1 .. m - 1 : \A i \in 1 .. j - 1 : new[i].end <= new[j].start
      <3>1. \A j \in 1 .. m - 1 : \A i \in 1 .. j - 1 : i \in 1 .. m
        BY <1>1
      <3> QED
        BY <1>2, <1>4, <2>1, <3>1
    <2>4. \A a \in T : \E i \in 1 .. m - 1 : new[i].start = a
      BY <1>4, <1>10, <2>1
    <2>5. m - 1 \in 0 .. Len(new)
      BY <1>1, <1>4
    <2> HIDE DEF T, p
    <2> QED
      BY <1>4, <1>8, <2>2, <2>3, <2>4, <2>5 DEF Tree
  <1>12. \A a \in T : ReadAtom(d, a).type # "moov"
    <2> TAKE a \in T
    <2>1. PICK i \in 1 .. m - 1 : list[i].start = a
      BY <1>10
    <2>2. i \in 1 .. n /\ i # m
      BY <1>1
    <2> QED
      BY <1>1, <1>2, <2>1, <2>2
  <1>13. \A at \in media : \A a \in S : Holds(d, a, at) => a \in T
    <2> TAKE at \in media
    <2> TAKE a \in S
    <2> HAVE Holds(d, a, at)
    <2>1. ReadAtom(d, a).type = "mdat"
      BY DEF Holds
    <2>2. PICK i \in 1 .. n : list[i].start = a
      BY <1>1
    <2>3. list[i].type = "mdat"
      BY <1>1, <2>1, <2>2
    <2>4. i # m
      BY <1>2, <2>3
    <2>5. ~ (i \in m + 1 .. n)
      BY <1>5, <2>3 DEF IsFree
    <2>6. i \in 1 .. m - 1
      BY <1>1, <2>4, <2>5
    <2> QED
      BY <1>9, <2>2, <2>6
  <1>14. Orderly(d, T, media, limit)
    <2>1. \A a \in S : End(d, a) \in Int
      BY <1>1, TileEnds
    <2>2. \A a \in T : a \in S /\ ReadAtom(d, a) = ReadAtom(d, a)
      OBVIOUS
    <2>3. limit <= limit
      OBVIOUS
    <2> HIDE DEF T
    <2> QED
      BY <1>13, <2>1, <2>2, <2>3, OrderlySame
  <1>15. m > 1 => new[m - 1].end = p /\ new[m - 1] = ReadAtom(d, new[m - 1].start)
    <2> SUFFICES ASSUME m > 1
                 PROVE  new[m - 1].end = p /\ new[m - 1] = ReadAtom(d, new[m - 1].start)
      OBVIOUS
    <2>1. m - 1 \in 1 .. n - 1 /\ m - 1 \in 1 .. n /\ m - 1 \in 1 .. m /\ (m - 1) + 1 = m
      BY <1>1
    <2>2. list[m].start = list[m - 1].end
      BY <1>2, <2>1
    <2> QED
      BY <1>1, <1>4, <2>1, <2>2
  <1>16. m \in 1 .. m /\ new[m].type = "moov" /\ m # 0
    BY <1>1, <1>2, <1>4
  <1>17. Room(d, T, new, p, media, limit)
    <2> HIDE DEF T
    <2>1. p <= limit
      OBVIOUS
    <2> HIDE DEF p
    <2> QED
      BY <1>4, <1>11, <1>12, <1>14, <1>15, <1>16, <2>1 DEF Room
  <1> QED
    BY <1>6, <1>17

\* where the members of three sequences are in x, one after the other
InThree(x, r, s, t) ==
    /\ Len(x) = Len(r) + Len(s) + Len(t)
    /\ Len(r) \in Nat /\ Len(s) \in Nat /\ Len(t) \in Nat
    /\ \A i \in 1 .. Len(r) : x[i] = r[i]
    /\ \A i \in 1 .. Len(s) : x[Len(r) + i] = s[i]
    /\ \A i \in 1 .. Len(t) : x[Len(r) + Len(s) + i] = t[i]

LEMMA Joined ==
    ASSUME NEW A, NEW r \in Seq(A), NEW s \in Seq(A), NEW t \in Seq(A)
    PROVE  r \o s \o t \in Seq(A) /\ InThree(r \o s \o t, r, s, t)
  <1> DEFINE y == r \o s
             x == y \o t
  <1>1. /\ y \in Seq(A) /\ Len(y) = Len(r) + Len(s) /\ Len(r) \in Nat /\ Len(s) \in Nat
        /\ \A i \in 1 .. Len(r) : y[i] = r[i]
        /\ \A i \in 1 .. Len(s) : y[Len(r) + i] = s[i]
    BY Concatenated
  <1> HIDE DEF y
  <1>2. /\ x \in Seq(A) /\ Len(x) = Len(y) + Len(t) /\ Len(t) \in Nat
        /\ \A i \in 1 .. Len(y) : x[i] = y[i]
        /\ \A i \in 1 .. Len(t) : x[Len(y) + i] = t[i]
    <2>1. y \in Seq(A)
      BY <1>1
    <2> QED
      BY <2>1, Concatenated
  <1>3. x = r \o s \o t
    BY DEF y
  <1> HIDE DEF x
  <1>4. \A i \in 1 .. Len(r) : x[i] = r[i]
    BY <1>1, <1>2
  <1>5. \A i \in 1 .. Len(s) : x[Len(r) + i] = s[i]
    BY <1>1, <1>2
  <1>6. \A i \in 1 .. Len(t) : x[Len(r) + Len(s) + i] = t[i]
    BY <1>1, <1>2
  <1>7. InThree(x, r, s, t)
    BY <1>1, <1>2, <1>4, <1>5, <1>6 DEF InThree
  <1> QED
    BY <1>2, <1>3, <1>7

\* an atom is replaced by another of the same length
LEMMA TileReplaced ==
    ASSUME NEW d \in Disk, NEW S, NEW e, Tiles(d, S, 0, e), NEW b \in S,
           NEW f \in Disk, e <= Len(f), Whole(f, b), End(f, b) = End(d, b),
           \A k \in 1 .. e : k <= b \/ End(d, b) < k => f[k] = d[k]
    PROVE  /\ Tiles(f, S, 0, e)
           /\ \A a \in S : a # b => ReadAtom(f, a) = ReadAtom(d, a)
  <1> DEFINE y == End(d, b)
             L == {a \in S : a < b}
             R == {a \in S : a >= b}
             Q == {a \in R : a >= y}
  <1>1. b \in Nat /\ y \in Nat /\ b + 2 <= y /\ e \in Nat /\ y <= e /\ y \in S \cup {e}
        /\ S \in SUBSET Nat /\ Len(d) \in Nat /\ Len(f) \in Nat /\ e <= Len(d)
    <2>1. b \in Nat /\ y \in Nat /\ b + 2 <= y
      BY TileEnds
    <2>2. e \in Nat /\ y <= e /\ y \in S \cup {e} /\ S \in SUBSET Nat /\ e <= Len(d)
      BY DEF Tiles
    <2> QED
      BY <2>1, <2>2 DEF Disk
  <1>2. Tiles(d, L, 0, b) /\ Tiles(d, R, b, e)
    <2>1. b \in S \cup {e}
      OBVIOUS
    <2> QED
      BY <2>1, TilesCut
  <1>3. Tiles(d, Q, y, e)
    <2>1. y \in R \cup {e}
      BY <1>1
    <2> HIDE DEF R, y
    <2> QED
      BY <1>2, <2>1, TilesCut
  <1>4. \A a \in S : a \in L \/ a = b \/ a \in Q
    <2> TAKE a \in S
    <2>1. a > b => y <= a
      BY DEF Tiles
    <2> QED
      BY <1>1, <2>1
  <1>5. S = (L \cup {b}) \cup Q
    BY <1>4
  <1> HIDE DEF y, L, R, Q
  <1>6. Tiles(f, L, 0, b) /\ \A a \in L : ReadAtom(f, a) = ReadAtom(d, a)
    <2>1. b <= Len(f) /\ \A k \in 0 + 1 .. b : f[k] = d[k]
      BY <1>1
    <2> QED
      BY <1>2, <2>1, TilesSame
  <1>7. Tiles(f, Q, y, e) /\ \A a \in Q : ReadAtom(f, a) = ReadAtom(d, a)
    <2>1. \A k \in y + 1 .. e : f[k] = d[k]
      BY <1>1 DEF y
    <2> QED
      BY <1>3, <2>1, TilesSame
  <1>8. Tiles(f, {b}, b, y)
    BY <1>1, TileOne DEF y
  <1>9. Tiles(f, L \cup {b}, 0, y)
    BY <1>1, <1>6, <1>8, TilesJoin
  <1>10. Tiles(f, S, 0, e)
    BY <1>1, <1>5, <1>7, <1>9, TilesJoin
  <1>11. \A a \in S : a # b => ReadAtom(f, a) = ReadAtom(d, a)
    BY <1>4, <1>6, <1>7
  <1> QED
    BY <1>10, <1>11

LEMMA RoomBehind ==
    ASSUME NEW d \in Disk, NEW S, NEW e, NEW list, NEW m, Listed(d, S, e, list, m),
           NEW media \in SUBSET Nat, NEW limit \in Int, Orderly(d, S, media, limit),
           NotFree(SubSeq(list, m + 1, Len(list))) # <<>>, ~ list[m].large
    PROVE  LET room == MakeRoom(list)
           IN  \E f, T : /\ Lays(d, room.writes, f, Safe(media))
                         /\ Room(f, T, room.atoms, room.position, media, limit)
  <1> DEFINE n == Len(list)
             mo == list[m].start
             z == list[m].size
             behind == SubSeq(list, m + 1, n)
             after == NotFree(behind)
             K == Len(after)
             free == Atom("free", 0, 0, z, FALSE, <<>>)
             b == Written(free, mo)
             front == SubSeq(list, 1, m - 1)
             x == Append(front, b)
             new == x \o after \o <<list[m]>>
  <1>1. /\ list \in Seq(Atoms) /\ m \in 1 .. n /\ n \in Nat /\ m \in Nat
        /\ Tiles(d, S, 0, e)
        /\ \A i \in 1 .. n : /\ list[i] = ReadAtom(d, list[i].start)
                             /\ list[i].start \in S /\ Stands(d, list[i])
        /\ \A a \in S : \E i \in 1 .. n : list[i].start = a
    BY DEF Listed
  <1>2. /\ list[n].end = e
        /\ \A i \in 1 .. n - 1 : list[i + 1].start = list[i].end
        /\ \A j \in 1 .. n : \A i \in 1 .. j - 1 : list[i].end <= list[j].start
        /\ \A i \in 1 .. n : (list[i].type = "moov") <=> (i = m)
    BY DEF Listed
  <1>3. \A i \in 1 .. n : /\ list[i] \in Atoms /\ list[i].start \in Nat
                          /\ list[i].end \in Nat /\ list[i].start + 2 <= list[i].end
                          /\ list[i].end = End(d, list[i].start)
    BY ListedAtoms
  <1>4. PICK h : Picks(h, after, behind, n - m)
    <2>1. behind \in Seq(Atoms) /\ Len(behind) = n - m
      BY <1>1
    <2> HIDE DEF behind
    <2> QED
      BY <2>1, NotFreeKeeps
  <1>5. \A k \in 1 .. n - m : behind[k] = list[m + k]
    BY <1>1
  <1>6. after # <<>>
    OBVIOUS
  <1>7. MakeRoom(list) = [atoms |-> new, writes |-> AtomWrites(free, mo),
                          position |-> Last(after).end]
    <2>1. Moov(list) = m
      BY ListedMoov
    <2> QED
      BY <1>6, <2>1 DEF MakeRoom
  <1>8. /\ front \in Seq(Atoms) /\ Len(front) = m - 1
        /\ \A i \in 1 .. m - 1 : front[i] = list[i]
    BY <1>1
  <1> HIDE DEF behind, after, front
  <1>9. after \in Seq(Atoms) /\ K \in Nat /\ K # 0
    BY <1>4, <1>6 DEF Picks
  <1>10. mo \in Nat /\ z \in Nat /\ mo \in S /\ Whole(d, mo) /\ list[m] \in Atoms
    BY <1>1, <1>3 DEF Tiles, Atoms
  <1>11. End(d, mo) = mo + 2 + z
    <2>1. ReadAtom(d, mo) = list[m]
      BY <1>1
    <2>2. ReadAtom(d, mo).end = mo + (IF ReadAtom(d, mo).large THEN 4 ELSE 2)
                                   + ReadAtom(d, mo).size
      BY <1>10, Parts
    <2> QED
      BY <1>10, <2>1, <2>2 DEF End
  <1> HIDE DEF mo, z
  <1>12. free \in Atoms /\ free.type = "free" /\ free.size = z
    <2>1. "free" \in TypeNames /\ 0 \in Nat /\ <<>> \in Seq(Cell)
      <3>1. "free" \in TypeNames
        BY TypeNamesAssumption
      <3>2. 0 \in Nat
        OBVIOUS
      <3>3. <<>> \in Seq(Cell)
        OBVIOUS
      <3> QED
        BY <3>1, <3>2, <3>3
    <2>3. FALSE \in BOOLEAN
      BY Zenon
    <2>2. free \in Atoms
      BY <1>10, <2>1, <2>3, AtomTyped
    <2> QED
      BY <2>2 DEF Atom
  <1> HIDE DEF free
  <1>13. /\ b \in Atoms /\ b.type = "free" /\ b.start = mo /\ b.end = mo + 2 + z
         /\ Data(free) \in Seq(Cell) /\ Len(Data(free)) = z
    <2>1. Data(free) \in Seq(Cell) /\ Len(Data(free)) = z
      BY <1>12, DataTyped
    <2> QED
      BY <1>10, <1>12, <2>1, WrittenAtom
  <1>14. e \in Nat /\ Len(d) \in Nat /\ e <= Len(d) /\ mo + 2 + z <= e
    <2>1. Len(d) \in Nat
      BY DEF Disk
    <2> QED
      BY <1>1, <1>10, <1>11, <2>1 DEF Tiles
  <1>15. PICK f : /\ Lays(d, AtomWrites(free, mo), f, Place(mo, z))
                  /\ Len(f) = Len(d) /\ Whole(f, mo)
                  /\ ReadAtom(f, mo) = Atom("free", mo, mo + 2 + z, z, FALSE, Data(free))
    <2>1. mo <= Len(d) /\ mo + 2 + z <= Len(d)
      BY <1>10, <1>14
    <2> DEFINE y == Len(Data(free))
    <2>2. \E f : /\ Lays(d, AtomWrites(free, mo), f, Place(mo, y))
                 /\ Len(f) = IF mo + 2 + y <= Len(d) THEN Len(d) ELSE mo + 2 + y
                 /\ Whole(f, mo)
                 /\ ReadAtom(f, mo) = Atom(free.type, mo, mo + 2 + y, y, FALSE, Data(free))
      <3>1. free.type \in TypeNames /\ Data(free) \in Seq(Cell) /\ mo \in Nat /\ mo <= Len(d)
        <4>1. "free" \in TypeNames
          BY TypeNamesAssumption
        <4> HIDE DEF b
        <4> QED
          BY <1>10, <1>12, <1>13, <2>1, <4>1
      <3> HIDE DEF b
      <3> QED
        BY <3>1, AtomLaid
    <2>3. y = z
      BY <1>13
    <2> HIDE DEF y
    <2> QED
      BY <1>12, <2>1, <2>2, <2>3
  <1>16. End(f, mo) = mo + 2 + z /\ ReadAtom(f, mo).type = "free"
    BY <1>15 DEF End, Atom
  <1>17. f \in Disk /\ \A p \in 1 .. Len(d) : p - 1 \notin Place(mo, z) => f[p] = d[p]
    BY <1>15, LaysKeep
  <1>18. /\ Tiles(f, S, 0, e)
         /\ \A a \in S : a # mo => ReadAtom(f, a) = ReadAtom(d, a)
    <2>1. \A k \in 1 .. e : k <= mo \/ End(d, mo) < k => f[k] = d[k]
      <3> TAKE k \in 1 .. e
      <3> HAVE k <= mo \/ End(d, mo) < k
      <3>1. k \in 1 .. Len(d) /\ k - 1 \notin Place(mo, z)
        BY <1>10, <1>11, <1>14 DEF Place
      <3> QED
        BY <1>17, <3>1
    <2>2. e <= Len(f) /\ End(f, mo) = End(d, mo)
      BY <1>11, <1>14, <1>15, <1>16
    <2> QED
      BY <1>1, <1>10, <1>15, <1>17, <2>1, <2>2, TileReplaced
  <1>19. Lays(d, AtomWrites(free, mo), f, Safe(media))
    <2>1. ReadAtom(d, mo).type # "mdat"
      BY <1>1, <1>2 DEF mo
    <2>2. mo .. End(d, mo) - 1 \subseteq Safe(media)
      BY <1>1, <1>10, <2>1, SafePlaces
    <2>3. Place(mo, z) \subseteq Safe(media) /\ Safe(media) \in SUBSET Nat
      BY <1>10, <1>11, <2>2 DEF Place, Safe
    <2> QED
      BY <1>15, <2>3, LaysAt
  <1>20. \A j \in 1 .. K : /\ h[j] \in 1 .. n - m /\ m + h[j] \in 1 .. n
                           /\ m + h[j] # m /\ m \in 1 .. (m + h[j]) - 1
                           /\ after[j] = list[m + h[j]] /\ ~ IsFree(after[j])
    <2> TAKE j \in 1 .. K
    <2>1. h[j] \in 1 .. n - m /\ after[j] = behind[h[j]] /\ ~ IsFree(behind[h[j]])
      BY <1>4 DEF Picks
    <2> QED
      BY <1>1, <1>5, <2>1
  <1>21. \A j \in 1 .. K : \A i \in 1 .. j - 1 : h[i] < h[j]
    BY <1>4 DEF Picks
  <1>22. \A k \in m + 1 .. n : ~ IsFree(list[k]) => \E j \in 1 .. K : m + h[j] = k
    <2> TAKE k \in m + 1 .. n
    <2> HAVE ~ IsFree(list[k])
    <2>1. k - m \in 1 .. n - m /\ m + (k - m) = k
      BY <1>1
    <2>2. \E j \in 1 .. K : h[j] = k - m
      BY <1>4, <1>5, <2>1 DEF Picks
    <2> QED
      BY <2>1, <2>2
  <1> DEFINE q == m + h[K]
             p == list[q].end
             T == {a \in S : a < p}
             N == m + K + 1
  <1>23. /\ K \in 1 .. K /\ q \in 1 .. n /\ p \in Nat /\ Last(after).end = p
         /\ q # m /\ after[K] = list[q] /\ m \in 1 .. q - 1
    <2>1. K \in 1 .. K
      BY <1>9
    <2>2. Last(after) = after[K]
      BY DEF Last
    <2> QED
      BY <1>3, <1>20, <2>1, <2>2
  <1>24. /\ new \in Seq(Atoms) /\ Len(new) = N
         /\ \A i \in 1 .. m - 1 : new[i] = list[i]
         /\ new[m] = b
         /\ \A j \in 1 .. K : new[m + j] = after[j]
         /\ new[N] = list[m]
    <2>1. x \in Seq(Atoms) /\ Len(x) = m /\ x[m] = b /\ \A i \in 1 .. m - 1 : x[i] = list[i]
      BY <1>1, <1>8, <1>13
    <2>2. <<list[m]>> \in Seq(Atoms) /\ Len(<<list[m]>>) = 1 /\ <<list[m]>>[1] = list[m]
      BY <1>10
    <2> DEFINE t == <<list[m]>>
    <2> HIDE DEF x, t
    <2>3. /\ x \o after \o t \in Seq(Atoms) /\ Len(x \o after \o t) = m + K + Len(t)
          /\ \A i \in 1 .. m : (x \o after \o t)[i] = x[i]
          /\ \A i \in 1 .. K : (x \o after \o t)[m + i] = after[i]
          /\ \A i \in 1 .. Len(t) : (x \o after \o t)[m + K + i] = t[i]
      <3>1. x \in Seq(Atoms) /\ after \in Seq(Atoms) /\ t \in Seq(Atoms)
        BY <1>9, <2>1, <2>2 DEF t
      <3>2. /\ x \o after \o t \in Seq(Atoms)
            /\ Len(x \o after \o t) = Len(x) + Len(after) + Len(t)
            /\ \A i \in 1 .. Len(x) : (x \o after \o t)[i] = x[i]
            /\ \A i \in 1 .. Len(after) : (x \o after \o t)[Len(x) + i] = after[i]
            /\ \A i \in 1 .. Len(t) : (x \o after \o t)[Len(x) + Len(after) + i] = t[i]
        BY <3>1, Joined DEF InThree
      <3> QED
        BY <2>1, <3>2
    <2>4. new = x \o after \o t
      BY DEF t
    <2> HIDE DEF new
    <2>5. Len(new) = N /\ new[N] = list[m]
      BY <2>2, <2>3, <2>4 DEF t
    <2>6. \A i \in 1 .. m - 1 : i \in 1 .. m
      BY <1>1
    <2>7. m \in 1 .. m
      BY <1>1
    <2> QED
      BY <2>1, <2>3, <2>4, <2>5, <2>6, <2>7
  <1> HIDE DEF new, b, x, K
  <1>25. p \in S \cup {e}
    <2>1. CASE q = n
      BY <1>2, <2>1
    <2>2. CASE q # n
      <3>1. q \in 1 .. n - 1 /\ q + 1 \in 1 .. n
        BY <1>1, <1>23, <2>2
      <3> QED
        BY <1>1, <1>2, <3>1
    <2> QED
      BY <2>1, <2>2
  <1> HIDE DEF q
  <1>26. Tiles(f, T, 0, p)
    BY <1>17, <1>18, <1>25, TilesCut
  <1>27. \A i \in 1 .. q : list[i].start \in T
    <2> TAKE i \in 1 .. q
    <2>1. i \in 1 .. n
      BY <1>1, <1>23
    <2>2. list[i].start < p
      <3>1. CASE i = q
        BY <1>3, <1>23, <3>1
      <3>2. CASE i # q
        <4>1. i \in 1 .. q - 1
          BY <1>23, <3>2
        <4>2. list[i].end <= list[q].start
          BY <1>2, <1>23, <4>1
        <4>3. /\ list[i].start \in Nat /\ list[i].end \in Nat
              /\ list[i].start + 2 <= list[i].end
          BY <1>3, <2>1
        <4>4. /\ list[q].start \in Nat /\ list[q].end \in Nat
              /\ list[q].start + 2 <= list[q].end
          BY <1>3, <1>23
        <4>5. p = list[q].end
          BY <1>23
        <4> HIDE DEF p
        <4> QED
          BY <4>2, <4>3, <4>4, <4>5
      <3> QED
        BY <3>1, <3>2
    <2> QED
      BY <1>1, <2>1, <2>2
  <1>28. \A j \in 1 .. K : m + h[j] \in 1 .. q
    <2> TAKE j \in 1 .. K
    <2>1. CASE j = K
      BY <1>23, <2>1 DEF q
    <2>2. CASE j # K
      <3>1. j \in 1 .. K - 1
        BY <1>9, <2>2 DEF K
      <3>2. h[j] < h[K]
        BY <1>21, <1>23, <3>1
      <3>3. h[j] \in Nat /\ h[j] > 0 /\ h[K] \in Nat
        <4>1. h[j] \in 1 .. n - m /\ n \in Nat /\ m \in Nat
          BY <1>1, <1>20
        <4>2. h[K] \in 1 .. n - m
          BY <1>20, <1>23
        <4> QED
          BY <4>1, <4>2
      <3>4. q = m + h[K] /\ m \in Nat
        BY <1>1 DEF q
      <3> QED
        BY <3>2, <3>3, <3>4
    <2> QED
      BY <2>1, <2>2
  <1>29. \A i \in 1 .. n : i # m => list[i].start # mo /\ Stands(f, list[i])
    <2> TAKE i \in 1 .. n
    <2> HAVE i # m
    <2>1. list[i].start # mo
      <3> SUFFICES ASSUME list[i].start = mo PROVE FALSE
        OBVIOUS
      <3>1. list[i] = list[m]
        BY <1>1 DEF mo
      <3> QED
        BY <1>1, <1>2, <3>1
    <2>2. ReadAtom(f, list[i].start) = ReadAtom(d, list[i].start)
      BY <1>1, <1>18, <2>1
    <2>3. Stands(f, list[i])
      BY <1>1, <2>2, StandsSame
    <2> QED
      BY <2>1, <2>3
  <1>30. \A i \in 1 .. m + K : new[i].start \in T /\ Stands(f, new[i])
    <2> TAKE i \in 1 .. m + K
    <2>1. CASE i \in 1 .. m - 1
      <3>1. i \in 1 .. n /\ i # m /\ i \in 1 .. q
        BY <1>1, <1>23, <2>1
      <3> QED
        BY <1>24, <1>27, <1>29, <2>1, <3>1
    <2>2. CASE i = m
      <3>1. m \in 1 .. q
        BY <1>1, <1>23
      <3>2. Stands(f, b)
        BY <1>10, <1>12, <1>13, <1>15, StandsWritten DEF b
      <3> QED
        BY <1>13, <1>24, <1>27, <2>2, <3>1, <3>2 DEF mo
    <2>3. CASE i \in m + 1 .. m + K
      <3>1. i - m \in 1 .. K /\ m + (i - m) = i
        BY <1>1, <1>9, <2>3 DEF K
      <3>2. new[i] = list[m + h[i - m]]
        BY <1>20, <1>24, <3>1
      <3> QED
        BY <1>20, <1>27, <1>28, <1>29, <3>1, <3>2
    <2> QED
      BY <1>1, <1>9, <2>1, <2>2, <2>3 DEF K
  <1>31. \A j \in 1 .. m + K : \A i \in 1 .. j - 1 : new[i].end <= new[j].start
    <2> DEFINE at(i) == IF i <= m THEN i ELSE m + h[i - m]
    <2>1. K \in Nat
      BY <1>9 DEF K
    <2>2. \A i \in 1 .. m + K : /\ at(i) \in 1 .. n /\ new[i].start = list[at(i)].start
                                /\ new[i].end = list[at(i)].end
      <3> TAKE i \in 1 .. m + K
      <3>1. CASE i \in 1 .. m - 1
        BY <1>1, <1>24, <3>1
      <3>2. CASE i = m
        <4>1. list[m].end = mo + 2 + z
          BY <1>1, <1>3, <1>11 DEF mo
        <4> QED
          BY <1>1, <1>13, <1>24, <3>2, <4>1 DEF mo
      <3>3. CASE i \in m + 1 .. m + K
        <4>1. i - m \in 1 .. K /\ m + (i - m) = i /\ ~ (i <= m)
          BY <1>1, <2>1, <3>3
        <4> QED
          BY <1>20, <1>24, <4>1
      <3> QED
        BY <1>1, <2>1, <3>1, <3>2, <3>3
    <2> TAKE j \in 1 .. m + K
    <2> TAKE i \in 1 .. j - 1
    <2>3. i \in 1 .. m + K /\ i < j
      BY <1>1, <2>1
    <2>4. at(i) \in 1 .. at(j) - 1
      <3>1. CASE j <= m
        BY <1>1, <2>3, <3>1
      <3>2. CASE j > m /\ i <= m
        <4>1. j - m \in 1 .. K
          BY <1>1, <2>1, <3>2
        <4>2. h[j - m] \in 1 .. n - m
          BY <1>20, <4>1
        <4> QED
          BY <1>1, <2>3, <3>2, <4>2
      <3>3. CASE i > m
        <4>1. j - m \in 1 .. K /\ i - m \in 1 .. (j - m) - 1 /\ i - m \in 1 .. K
          BY <1>1, <2>1, <2>3, <3>3
        <4>2. h[i - m] < h[j - m] /\ h[i - m] \in 1 .. n - m /\ h[j - m] \in 1 .. n - m
          BY <1>20, <1>21, <4>1
        <4>3. at(i) = m + h[i - m] /\ at(j) = m + h[j - m]
          BY <1>1, <2>3, <3>3
        <4> HIDE DEF at
        <4>4. h[i - m] \in Nat /\ h[j - m] \in Nat /\ h[i - m] > 0 /\ m \in Nat
          BY <1>1, <4>2
        <4> DEFINE hi == h[i - m]
                   hj == h[j - m]
        <4>5. hi < hj /\ hi \in Nat /\ hj \in Nat /\ hi > 0
          BY <4>2, <4>4
        <4>6. at(i) = m + hi /\ at(j) = m + hj
          BY <4>3
        <4> HIDE DEF hi, hj
        <4> QED
          BY <4>4, <4>5, <4>6
      <3> QED
        BY <1>1, <2>3, <3>1, <3>2, <3>3
    <2> HIDE DEF at
    <2>5. list[at(i)].end <= list[at(j)].start
      BY <1>2, <2>2, <2>4
    <2> QED
      BY <2>2, <2>3, <2>5
  <1>32. \A a \in T : ~ IsFree(ReadAtom(f, a)) => \E i \in 1 .. m + K : new[i].start = a
    <2> TAKE a \in T
    <2> HAVE ~ IsFree(ReadAtom(f, a))
    <2>1. a \in S /\ a # mo
      BY <1>16 DEF IsFree
    <2>2. PICK i \in 1 .. n : list[i].start = a
      BY <1>1, <2>1
    <2>3. ~ IsFree(list[i]) /\ i # m
      BY <1>1, <1>18, <2>1, <2>2 DEF mo
    <2>4. CASE i \in 1 .. m - 1
      <3>1. i \in 1 .. m + K
        BY <1>1, <1>9, <2>4 DEF K
      <3> QED
        BY <1>24, <2>2, <2>4, <3>1
    <2>5. CASE i \in m + 1 .. n
      <3>1. PICK j \in 1 .. K : m + h[j] = i
        BY <1>22, <2>3, <2>5
      <3>2. m + j \in 1 .. m + K
        BY <1>1, <1>9, <3>1 DEF K
      <3>3. new[m + j].start = a
        BY <1>20, <1>24, <2>2, <3>1
      <3> QED
        BY <3>2, <3>3
    <2> QED
      BY <1>1, <2>3, <2>4, <2>5
  <1>33. N - 1 = m + K /\ N \in Nat /\ N > 1 /\ N # 0 /\ N - 1 \in 0 .. N
    BY <1>1, <1>9 DEF K
  <1>34. Tree(f, T, new, N - 1, p)
    <2> HIDE DEF T, p, N
    <2> QED
      BY <1>24, <1>26, <1>30, <1>31, <1>32, <1>33 DEF Tree
  <1>35. new[N - 1] = list[q]
    BY <1>23, <1>24, <1>33
  <1>36. new[N - 1].end = p /\ new[N].type = "moov"
    BY <1>1, <1>2, <1>24, <1>35
  <1>37. new[N - 1] = ReadAtom(f, new[N - 1].start)
    <2>1. list[q].start # mo /\ list[q].start \in S /\ list[q] = ReadAtom(d, list[q].start)
      BY <1>1, <1>23, <1>29
    <2> QED
      BY <1>18, <1>35, <2>1
  <1>38. \A a \in T : ReadAtom(f, a).type # "moov"
    <2> TAKE a \in T
    <2>1. CASE a = mo
      BY <1>16, <2>1
    <2>2. CASE a # mo
      <3>1. PICK i \in 1 .. n : list[i].start = a
        BY <1>1
      <3>2. i # m /\ ReadAtom(f, a) = list[i]
        BY <1>1, <1>18, <2>2, <3>1 DEF mo
      <3> QED
        BY <1>2, <3>2
    <2> QED
      BY <2>1, <2>2
  <1>39. Orderly(f, T, media, limit)
    <2> DEFINE U == T \ {mo}
    <2>1. \A a \in S : End(d, a) \in Int
      BY <1>1, TileEnds
    <2>2. \A a \in U : a \in S /\ ReadAtom(f, a) = ReadAtom(d, a)
      BY <1>18
    <2>3. \A at \in media : \A a \in S : Holds(d, a, at) => a \in U
      <3> TAKE at \in media
      <3> TAKE a \in S
      <3> HAVE Holds(d, a, at)
      <3>1. ReadAtom(d, a).type = "mdat"
        BY DEF Holds
      <3>2. PICK i \in 1 .. n : list[i].start = a
        BY <1>1
      <3>3. list[i].type = "mdat" /\ i # m
        BY <1>1, <1>2, <3>1, <3>2
      <3>4. ~ IsFree(list[i])
        BY <3>3 DEF IsFree
      <3>5. i \in 1 .. q
        <4>1. CASE i \in 1 .. m
          BY <1>1, <1>23, <4>1
        <4>2. CASE i \in m + 1 .. n
          BY <1>22, <1>28, <3>4, <4>2
        <4> QED
          BY <1>1, <4>1, <4>2
      <3>6. a \in T /\ a # mo
        BY <1>27, <1>29, <3>2, <3>3, <3>5
      <3> QED
        BY <3>6
    <2>4. limit <= limit
      OBVIOUS
    <2> HIDE DEF U
    <2>5. Orderly(f, U, media, limit)
      BY <2>1, <2>2, <2>3, <2>4, OrderlySame
    <2>6. \A a \in T : a \in U \/ a = mo
      BY DEF U
    <2>7. U \subseteq T
      BY DEF U
    <2>8. IsFree(ReadAtom(f, mo)) /\ ReadAtom(f, mo).type = "free"
      BY <1>16 DEF IsFree
    <2> HIDE DEF T
    <2> QED
      BY <2>5, <2>6, <2>7, <2>8 DEF Orderly
  <1>40. p <= limit
    <2>1. list[q].start \in S /\ list[q] = ReadAtom(d, list[q].start)
          /\ list[q].end = End(d, list[q].start)
      BY <1>1, <1>3, <1>23
    <2>2. list[q].type # "moov" /\ ~ IsFree(list[q])
      BY <1>2, <1>20, <1>23
    <2> QED
      BY <2>1, <2>2 DEF Orderly
  <1>41. Room(f, T, new, p, media, limit)
    <2> HIDE DEF T, p, N
    <2> QED
      BY <1>24, <1>33, <1>34, <1>36, <1>37, <1>38, <1>39, <1>40 DEF Room
  <1>42. Last(after).end = p
    BY <1>23
  <1> HIDE DEF T, p
  <1> QED
    BY <1>7, <1>19, <1>41, <1>42

-----------------------------------------------------------------------------
(* Modify begins an mdat atom *)

\* the last atoms of the tree are an mdat that begins at q, to be finished at
\* pos, and moov
Modified(f, S, q, list, pos, media, limit) ==
    LET n == Len(list)
    IN  /\ n > 1 /\ list[n].type = "moov"
        /\ list[n - 1].type = "mdat" /\ list[n - 1].start = q
        /\ list[n - 1].content = <<>>
        /\ pos \in {q + 2, q + 4} /\ q <= limit /\ pos <= Len(f)
        /\ pos = q + 2 \/ pos <= limit
        /\ CellAt(f, q + 1) = Type("mdat")
        /\ Tree(f, S, list, n - 2, q)
        /\ \A a \in S : ReadAtom(f, a).type # "moov"
        /\ Orderly(f, S, media, limit)

LEMMA TypeCell ==
    ASSUME NEW c \in Cell, IsType(c)
    PROVE  c = Type(c[2])
  BY DEF Cell, IsType, Type, Zero

LEMMA Inserted ==
    ASSUME NEW A, NEW list \in Seq(A), NEW i \in 1 .. Len(list), NEW x \in A
    PROVE  LET new == InsertAt(list, i, x)
           IN  /\ new \in Seq(A) /\ Len(new) = Len(list) + 1
               /\ \A k \in 1 .. i - 1 : new[k] = list[k]
               /\ new[i] = x
               /\ \A k \in i .. Len(list) : new[k + 1] = list[k]
  <1> DEFINE r == SubSeq(list, 1, i - 1)
             s == <<x>>
             t == SubSeq(list, i, Len(list))
             new == r \o s \o t
             n == Len(list)
  <1>1. n \in Nat /\ i \in Nat /\ i <= n /\ i >= 1
    OBVIOUS
  <1>2. r \in Seq(A) /\ Len(r) = i - 1 /\ \A k \in 1 .. i - 1 : r[k] = list[k]
    OBVIOUS
  <1>3. s \in Seq(A) /\ Len(s) = 1 /\ s[1] = x
    OBVIOUS
  <1>4. t \in Seq(A) /\ Len(t) = n - i + 1 /\ \A k \in 1 .. n - i + 1 : t[k] = list[i + k - 1]
    OBVIOUS
  <1>5. InsertAt(list, i, x) = new
    BY DEF InsertAt
  <1> HIDE DEF r, s, t
  <1>6. /\ new \in Seq(A) /\ Len(new) = Len(r) + Len(s) + Len(t)
        /\ \A k \in 1 .. Len(r) : new[k] = r[k]
        /\ \A k \in 1 .. Len(s) : new[Len(r) + k] = s[k]
        /\ \A k \in 1 .. Len(t) : new[Len(r) + Len(s) + k] = t[k]
    <2>1. r \in Seq(A) /\ s \in Seq(A) /\ t \in Seq(A)
      BY <1>2, <1>3, <1>4
    <2>2. new \in Seq(A) /\ InThree(new, r, s, t)
      BY <2>1, Joined
    <2> HIDE DEF new
    <2> QED
      BY <2>2 DEF InThree
  <1> HIDE DEF new, n
  <1>7. Len(new) = n + 1
    BY <1>1, <1>2, <1>3, <1>4, <1>6
  <1>8. \A k \in 1 .. i - 1 : new[k] = list[k]
    BY <1>2, <1>6
  <1>9. new[i] = x
    <2>1. 1 \in 1 .. Len(s) /\ Len(r) + 1 = i
      BY <1>1, <1>2, <1>3
    <2> QED
      BY <1>3, <1>6, <2>1
  <1>10. \A k \in i .. n : new[k + 1] = list[k]
    <2> TAKE k \in i .. n
    <2>1. k - i + 1 \in 1 .. Len(t) /\ Len(r) + Len(s) + (k - i + 1) = k + 1
          /\ i + (k - i + 1) - 1 = k
      BY <1>1, <1>2, <1>3, <1>4
    <2> DEFINE j == k - i + 1
    <2>2. j \in 1 .. n - i + 1 /\ j \in 1 .. Len(t)
      BY <1>1, <1>4, <2>1
    <2>3. new[Len(r) + Len(s) + j] = t[j] /\ t[j] = list[i + j - 1]
      BY <1>4, <1>6, <2>2
    <2> QED
      BY <2>1, <2>3
  <1> QED
    BY <1>5, <1>6, <1>7, <1>8, <1>9, <1>10 DEF n

LEMMA MdatBegun ==
    ASSUME NEW f \in Disk, NEW S, NEW list, NEW p, NEW media \in SUBSET Nat,
           NEW limit \in Int, Room(f, S, list, p, media, limit)
    PROVE  \E g, T : /\ Lays(f, BeginMdatWrites(p), g, Safe(media))
                     /\ Len(list) > 1 =>
                          Modified(g, T, p + 2, InsertAt(list, Len(list), BegunMdat(p)),
                                   p + 4, media, limit + 2)
                     /\ InsertAt(list, Len(list), BegunMdat(p)) \in Seq(Atoms)
  <1> DEFINE n == Len(list)
             b == BegunMdat(p)
             new == InsertAt(list, Len(list), b)
             cells == <<Number(2), Type("free"), Number(0), Type("mdat")>>
             T == S \cup {p}
  <1>1. /\ n # 0 /\ Tree(f, S, list, n - 1, p) /\ list[n].type = "moov"
        /\ \A a \in S : ReadAtom(f, a).type # "moov"
        /\ Orderly(f, S, media, limit) /\ p <= limit
    BY DEF Room
  <1>2. /\ list \in Seq(Atoms) /\ Tiles(f, S, 0, p) /\ p \in Nat /\ p <= Len(f)
        /\ Len(f) \in Nat /\ n \in Nat
        /\ \A i \in 1 .. n - 1 : list[i].start \in S /\ Stands(f, list[i])
        /\ \A j \in 1 .. n - 1 : \A i \in 1 .. j - 1 : list[i].end <= list[j].start
        /\ \A a \in S : ~ IsFree(ReadAtom(f, a)) => \E i \in 1 .. n - 1 : list[i].start = a
    <2>1. list \in Seq(Atoms) /\ Len(f) \in Nat /\ n \in Nat
      BY <1>1 DEF Tree, Disk
    <2> QED
      BY <1>1, <2>1 DEF Tree, Tiles
  <1>3. b \in Atoms /\ b.type = "mdat" /\ b.start = p + 2 /\ b.content = <<>>
    <2>1. "mdat" \in TypeNames
      BY TypeNamesAssumption
    <2>2. FALSE \in BOOLEAN
      BY Zenon
    <2>3. <<>> \in Seq(Cell) /\ p + 2 \in Nat /\ p + 4 \in Nat /\ 0 \in Nat
      BY <1>2
    <2>4. Atom("mdat", p + 2, p + 4, 0, FALSE, <<>>) \in Atoms
      BY <2>1, <2>2, <2>3, AtomTyped
    <2> QED
      BY <2>4 DEF BegunMdat, Atom
  <1> HIDE DEF b
  <1>4. /\ new \in Seq(Atoms) /\ Len(new) = n + 1
        /\ \A k \in 1 .. n - 1 : new[k] = list[k]
        /\ new[n] = b /\ new[n + 1] = list[n]
    <2>1. n \in 1 .. n
      BY <1>1, <1>2
    <2> HIDE DEF n
    <2>2. /\ new \in Seq(Atoms) /\ Len(new) = n + 1
          /\ \A k \in 1 .. n - 1 : new[k] = list[k]
          /\ new[n] = b
          /\ \A k \in n .. n : new[k + 1] = list[k]
      <3> DEFINE N == Len(list)
                 y == InsertAt(list, N, b)
      <3>1. /\ y \in Seq(Atoms) /\ Len(y) = N + 1
            /\ \A k \in 1 .. N - 1 : y[k] = list[k]
            /\ y[N] = b
            /\ \A k \in N .. N : y[k + 1] = list[k]
        <4>1. list \in Seq(Atoms) /\ N \in 1 .. N /\ b \in Atoms
          BY <1>2, <1>3, <2>1 DEF n
        <4>2. N \in 1 .. Len(list) /\ N = Len(list)
          BY <4>1
        <4> HIDE DEF N
        <4>3. /\ y \in Seq(Atoms) /\ Len(y) = Len(list) + 1
              /\ \A k \in 1 .. N - 1 : y[k] = list[k]
              /\ y[N] = b
              /\ \A k \in N .. Len(list) : y[k + 1] = list[k]
          <5>1. list \in Seq(Atoms)
            BY <4>1
          <5>2. b \in Atoms
            BY <4>1
          <5>3. N \in 1 .. Len(list)
            BY <4>2
          <5> HIDE DEF cells, T
          <5> QED
            BY <5>1, <5>2, <5>3, Inserted
        <4> HIDE DEF y
        <4> QED
          BY <4>2, <4>3
      <3>2. n = N /\ new = y
        BY DEF n
      <3> HIDE DEF N, y
      <3> QED
        BY <3>1, <3>2
    <2>3. n \in n .. n
      BY <1>2
    <2> QED
      BY <2>2, <2>3
  <1> HIDE DEF new
  <1>5. /\ cells \in Seq(Cell) /\ Len(cells) = 4 /\ cells[1] = Number(2)
        /\ cells[2] = Type("free") /\ cells[3] = Number(0) /\ cells[4] = Type("mdat")
    <2>1. Number(2) \in Cell /\ Number(0) \in Cell
      BY Cells
    <2>2. Type("free") \in Cell /\ Type("mdat") \in Cell
      BY Cells, TypeNamesAssumption
    <2> QED
      BY <2>1, <2>2
  <1>6. BeginMdatWrites(p) = CellsFrom(p, cells)
    BY DEF BeginMdatWrites
  <1> HIDE DEF cells
  <1> DEFINE g == Over(f, p, cells, Len(cells))
  <1>7. /\ Lays(f, CellsFrom(p, cells), g, p .. p + Len(cells) - 1)
        /\ Len(g) = IF p + Len(cells) <= Len(f) THEN Len(f) ELSE p + Len(cells)
        /\ \A k \in 1 .. Len(cells) : g[p + k] = cells[k]
    BY <1>2, <1>5, LaysCells
  <1> HIDE DEF g
  <1>8. /\ Lays(f, CellsFrom(p, cells), g, p .. p + 3) /\ Len(g) \in Nat
        /\ p + 4 <= Len(g) /\ Len(f) <= Len(g)
        /\ g[p + 1] = Number(2) /\ g[p + 2] = Type("free") /\ g[p + 3] = Number(0)
        /\ g[p + 4] = Type("mdat")
    <2>1. p + Len(cells) - 1 = p + 3 /\ p + Len(cells) = p + 4
      BY <1>2, <1>5
    <2>2. \A k \in {1, 2, 3, 4} : g[p + k] = cells[k]
      BY <1>5, <1>7
    <2> QED
      BY <1>2, <1>5, <1>7, <2>1, <2>2
  <1>9. g \in Disk /\ \A k \in 1 .. p : g[k] = f[k]
    <2>1. /\ g \in Disk
          /\ \A k \in 1 .. Len(f) : k - 1 \notin p .. p + 3 => g[k] = f[k]
      <3>1. Lays(f, CellsFrom(p, cells), g, p .. p + 3)
        BY <1>8
      <3> DEFINE P == p .. p + 3
                 w == CellsFrom(p, cells)
      <3>3. Lays(f, w, g, P)
        BY <3>1
      <3> HIDE DEF P, w
      <3>2. g \in Disk /\ \A k \in 1 .. Len(f) : k - 1 \notin P => g[k] = f[k]
        BY <3>3, LaysKeep
      <3> QED
        BY <3>2 DEF P
    <2> QED
      BY <1>2, <2>1
  <1>10. Whole(g, p) /\ End(g, p) = p + 2 /\ ReadAtom(g, p).type = "free"
    <2>1. CellAt(g, p) = Number(2 + 0) /\ CellAt(g, p + 1) = Type("free")
      <3>1. p + 1 + 1 = p + 2 /\ 2 + 0 = 2
        BY <1>2
      <3> QED
        BY <1>8, <3>1 DEF CellAt
    <2>2. p + 2 + 0 <= Len(g) /\ 0 \in Nat /\ "free" \in TypeNames
      BY <1>2, <1>8, TypeNamesAssumption
    <2>3. /\ Whole(g, p)
          /\ ReadAtom(g, p) = Atom("free", p, p + 2 + 0, 0, FALSE,
                                   SubSeq(g, p + 3, p + 2 + 0))
      BY <1>2, <1>9, <2>1, <2>2, Fresh
    <2> QED
      BY <1>2, <2>3 DEF Atom, End
  <1>11. /\ Tiles(g, S, 0, p) /\ \A a \in S : ReadAtom(g, a) = ReadAtom(f, a)
    <2>1. p <= Len(g) /\ \A k \in 0 + 1 .. p : g[k] = f[k]
      BY <1>2, <1>8, <1>9
    <2> QED
      BY <1>2, <1>9, <2>1, TilesSame
  <1>12. Tiles(g, T, 0, p + 2)
    <2>1. Tiles(g, {p}, p, p + 2)
      BY <1>2, <1>9, <1>10, TileOne
    <2> QED
      BY <1>9, <1>11, <2>1, TilesJoin
  <1>13. Lays(f, BeginMdatWrites(p), g, Safe(media))
    <2>1. {x \in Nat : p <= x} \subseteq Safe(media)
      BY <1>1, <1>2, SafePlaces
    <2>2. p .. p + 3 \subseteq Safe(media) /\ Safe(media) \in SUBSET Nat
      BY <1>2, <2>1 DEF Safe
    <2> QED
      BY <1>6, <1>8, <2>2, LaysAt
  <1>14. \A a \in T : a \in S \/ a = p
    OBVIOUS
  <1>15. S \subseteq T
    OBVIOUS
  <1> HIDE DEF T
  <1>16. Tree(g, T, new, (n + 1) - 2, p + 2)
    <2>1. \A i \in 1 .. n - 1 : new[i].start \in T /\ Stands(g, new[i])
      <3> TAKE i \in 1 .. n - 1
      <3>1. list[i].start \in S /\ Stands(f, list[i]) /\ new[i] = list[i]
        BY <1>2, <1>4
      <3> QED
        BY <1>11, <1>15, <3>1, StandsSame
    <2>2. \A j \in 1 .. n - 1 : \A i \in 1 .. j - 1 : new[i].end <= new[j].start
      <3>1. \A j \in 1 .. n - 1 : \A i \in 1 .. j - 1 : i \in 1 .. n - 1
        BY <1>2
      <3> QED
        BY <1>2, <1>4, <3>1
    <2>3. \A a \in T : ~ IsFree(ReadAtom(g, a)) => \E i \in 1 .. n - 1 : new[i].start = a
      <3> TAKE a \in T
      <3> HAVE ~ IsFree(ReadAtom(g, a))
      <3>1. a \in S
        BY <1>10, <1>14 DEF IsFree
      <3> QED
        BY <1>2, <1>4, <1>11, <3>1
    <2>4. (n + 1) - 2 = n - 1 /\ n - 1 \in 0 .. Len(new)
      BY <1>1, <1>2, <1>4
    <2> QED
      BY <1>4, <1>12, <2>1, <2>2, <2>3, <2>4 DEF Tree
  <1>17. \A a \in T : ReadAtom(g, a).type # "moov"
    BY <1>1, <1>10, <1>11, <1>14
  <1>18. Orderly(g, T, media, limit + 2)
    <2>1. \A a \in S : End(f, a) \in Int
      BY <1>2, TileEnds
    <2>2. limit + 2 \in Int /\ limit <= limit + 2
      OBVIOUS
    <2>3. \A a \in S : a \in S /\ ReadAtom(g, a) = ReadAtom(f, a)
      BY <1>11
    <2>4. Orderly(g, S, media, limit + 2)
      BY <1>1, <2>1, <2>2, <2>3, OrderlySame
    <2>5. ReadAtom(g, p).type = "free" /\ IsFree(ReadAtom(g, p))
      BY <1>10 DEF IsFree
    <2> QED
      BY <1>14, <1>15, <2>4, <2>5 DEF Orderly
  <1>19. ASSUME n > 1
         PROVE  Modified(g, T, p + 2, new, p + 4, media, limit + 2)
    <2>1. /\ Len(new) > 1 /\ new[Len(new)].type = "moov" /\ Len(new) = n + 1
          /\ new[Len(new) - 1].type = "mdat" /\ new[Len(new) - 1].start = p + 2
          /\ new[Len(new) - 1].content = <<>>
      <3>1. (n + 1) - 1 = n
        BY <1>2
      <3> QED
        BY <1>1, <1>2, <1>3, <1>4, <1>19, <3>1
    <2>2. /\ p + 4 \in {(p + 2) + 2, (p + 2) + 4} /\ p + 2 <= limit + 2
          /\ p + 4 = (p + 2) + 2
      BY <1>1, <1>2
    <2>3. CellAt(g, (p + 2) + 1) = Type("mdat")
      <3>1. (p + 2) + 1 + 1 = p + 4
        BY <1>2
      <3> QED
        BY <1>8, <3>1 DEF CellAt
    <2> QED
      BY <1>8, <1>16, <1>17, <1>18, <2>1, <2>2, <2>3 DEF Modified
  <1> QED
    BY <1>4, <1>13, <1>19 DEF new, b

LEMMA MdatReused ==
    ASSUME NEW f \in Disk, NEW S, NEW list, NEW p, NEW media \in SUBSET Nat,
           NEW limit \in Int, Room(f, S, list, p, media, limit), Len(list) > 1,
           list[Len(list) - 1].type = "mdat", ~ (list[Len(list) - 1].size > 0)
    PROVE  \E q, T : Modified(f, T, q, list, p, media, limit)
  <1> DEFINE n == Len(list)
             q == list[n - 1].start
             T == {a \in S : a < q}
  <1>1. /\ n # 0 /\ Tree(f, S, list, n - 1, p) /\ list[n].type = "moov"
        /\ \A a \in S : ReadAtom(f, a).type # "moov"
        /\ Orderly(f, S, media, limit) /\ p <= limit
        /\ list[n - 1].end = p /\ list[n - 1] = ReadAtom(f, q)
    BY DEF Room
  <1>2. /\ list \in Seq(Atoms) /\ Tiles(f, S, 0, p) /\ p \in Nat /\ p <= Len(f)
        /\ Len(f) \in Nat /\ n \in Nat /\ n > 1
        /\ \A i \in 1 .. n - 1 : list[i].start \in S /\ Stands(f, list[i])
        /\ \A j \in 1 .. n - 1 : \A i \in 1 .. j - 1 : list[i].end <= list[j].start
        /\ \A a \in S : ~ IsFree(ReadAtom(f, a)) => \E i \in 1 .. n - 1 : list[i].start = a
    <2>1. list \in Seq(Atoms) /\ Len(f) \in Nat /\ n \in Nat
      BY <1>1 DEF Tree, Disk
    <2> QED
      BY <1>1, <2>1 DEF Tree, Tiles
  <1>3. /\ q \in S /\ q \in Nat /\ Whole(f, q) /\ End(f, q) = p
        /\ n - 1 \in 1 .. n - 1 /\ list[n - 1] \in Atoms
    <2>1. n - 1 \in 1 .. n - 1
      BY <1>2
    <2>2. q \in S /\ list[n - 1] \in Atoms
      BY <1>2, <2>1
    <2>3. q \in Nat /\ Whole(f, q)
      BY <1>2, <2>2 DEF Tiles
    <2> QED
      BY <1>1, <2>1, <2>2, <2>3 DEF End
  <1>4. list[n - 1].type = "mdat" /\ ~ (list[n - 1].size > 0)
    OBVIOUS
  <1> HIDE DEF q, n
  <1>5. p \in {q + 2, q + 4} /\ CellAt(f, q + 1) = Type("mdat") /\ ReadAtom(f, q).size = 0
        /\ list[n - 1].content = <<>>
    <2> DEFINE r == ReadAtom(f, q)
    <2>1. /\ r.type = CellAt(f, q + 1)[2] /\ r.size \in Nat /\ r.large \in BOOLEAN
          /\ r.end = q + (IF r.large THEN 4 ELSE 2) + r.size
          /\ r.content \in Seq(Cell) /\ Len(r.content) = r.size
      BY <1>3, Parts
    <2>2. r.end = p /\ r.type = "mdat" /\ ~ (r.size > 0) /\ list[n - 1] = r
      BY <1>1, <1>4
    <2> HIDE DEF r
    <2>3. r.size = 0 /\ p \in {q + 2, q + 4}
      BY <1>3, <2>1, <2>2
    <2>4. IsType(CellAt(f, q + 1)) /\ q + 1 < Len(f) /\ q + 1 \in Nat
      BY <1>3 DEF Whole
    <2>5. CellAt(f, q + 1) \in Cell
      BY <2>4, Opaque
    <2>6. CellAt(f, q + 1) = Type(CellAt(f, q + 1)[2])
      BY <2>4, <2>5, TypeCell
    <2>7. r.content = <<>>
      BY <2>1, <2>3
    <2> QED
      BY <2>1, <2>2, <2>3, <2>6, <2>7 DEF r
  <1>6. Tiles(f, T, 0, q)
    BY <1>2, <1>3, TilesCut
  <1>7. \A i \in 1 .. n - 2 : list[i].start \in T
    <2> TAKE i \in 1 .. n - 2
    <2>1. i \in 1 .. n - 1 /\ i \in 1 .. (n - 1) - 1 /\ i \in 1 .. n
      BY <1>2
    <2>2. list[i].start \in S /\ Stands(f, list[i]) /\ list[i].end <= q
      BY <1>2, <1>3, <2>1 DEF q
    <2>3. list[i].end = End(f, list[i].start)
      BY <2>2 DEF Stands
    <2>4. list[i].start \in Nat /\ list[i].start + 2 <= End(f, list[i].start)
          /\ End(f, list[i].start) \in Nat
      BY <1>2, <2>2, TileEnds
    <2> QED
      BY <1>3, <2>2, <2>3, <2>4
  <1>8. \A a \in S : a # q => a \in T
    <2> TAKE a \in S
    <2> HAVE a # q
    <2>1. a \in Nat /\ a < p
      BY <1>2, TileEnds
    <2>2. ~ (q < a)
      <3>1. q < a => End(f, q) <= a
        BY <1>2, <1>3 DEF Tiles
      <3> QED
        BY <1>2, <1>3, <2>1, <3>1
    <2> QED
      BY <1>3, <2>1, <2>2
  <1>9. T \subseteq S /\ q \notin T
    BY <1>3
  <1> HIDE DEF T
  <1>10. Tree(f, T, list, n - 2, q)
    <2>1. \A i \in 1 .. n - 2 : i \in 1 .. n - 1
      BY <1>2
    <2>2. \A i \in 1 .. n - 2 : list[i].start \in T /\ Stands(f, list[i])
      BY <1>2, <1>7, <2>1
    <2>3. \A j \in 1 .. n - 2 : \A i \in 1 .. j - 1 : list[i].end <= list[j].start
      BY <1>2, <2>1
    <2>4. \A a \in T : ~ IsFree(ReadAtom(f, a)) => \E i \in 1 .. n - 2 : list[i].start = a
      <3> TAKE a \in T
      <3> HAVE ~ IsFree(ReadAtom(f, a))
      <3>1. PICK i \in 1 .. n - 1 : list[i].start = a
        BY <1>2, <1>9
      <3>2. i # n - 1
        BY <1>9, <3>1 DEF q
      <3>3. i \in 1 .. n - 2
        BY <1>2, <3>1, <3>2
      <3> QED
        BY <3>1, <3>3
    <2>5. n - 2 \in 0 .. Len(list)
      BY <1>2 DEF n
    <2> QED
      BY <1>2, <1>6, <2>2, <2>3, <2>4, <2>5 DEF Tree
  <1>11. \A a \in T : ReadAtom(f, a).type # "moov"
    BY <1>1, <1>9
  <1>12. Orderly(f, T, media, limit)
    <2>1. \A a \in S : End(f, a) \in Int
      BY <1>2, TileEnds
    <2>2. \A a \in T : a \in S /\ ReadAtom(f, a) = ReadAtom(f, a)
      BY <1>9
    <2>3. \A at \in media : \A a \in S : Holds(f, a, at) => a \in T
      <3> TAKE at \in media
      <3> TAKE a \in S
      <3> HAVE Holds(f, a, at)
      <3>1. a # q
        <4> SUFFICES ASSUME a = q PROVE FALSE
          OBVIOUS
        <4>1. ReadAtom(f, q).end - 0 < at /\ at <= ReadAtom(f, q).end
          BY <1>5 DEF Holds
        <4>2. ReadAtom(f, q).end = p
          BY <1>3 DEF End
        <4> QED
          BY <1>2, <4>1, <4>2
      <3> QED
        BY <1>8, <3>1
    <2>4. limit <= limit
      OBVIOUS
    <2> QED
      BY <1>1, <2>1, <2>2, <2>3, <2>4, OrderlySame
  <1>13. q <= limit
    BY <1>1, <1>2, <1>3, <1>5
  <1>14. Modified(f, T, q, list, p, media, limit)
    <2>1. n = Len(list) /\ q = list[n - 1].start
      BY DEF n, q
    <2> QED
      BY <1>1, <1>2, <1>4, <1>5, <1>10, <1>11, <1>12, <1>13, <2>1 DEF Modified
  <1> QED
    BY <1>14

-----------------------------------------------------------------------------
(* Close finishes the last mdat and writes moov behind it *)

\* the whole tree is on the disk, and version v of the movie in it
Complete(f, S, list, pos, media, limit, v) ==
    /\ Tree(f, S, list, Len(list), pos)
    /\ Orderly(f, S, media, limit)
    /\ \E i \in 1 .. Len(list) :
          /\ list[i].type = "moov"
          /\ list[i].content = MoovData(v, list[i].size) /\ list[i].size > 0
          /\ OneMoov(f, S, list[i].start) /\ IsMovie(f, list[i].start, v)
          /\ list[i].start <= limit /\ pos <= limit + 2 + list[i].size

LEMMA Appended ==
    ASSUME NEW A, NEW s \in Seq(A), NEW a \in A
    PROVE  /\ Append(s, a) \in Seq(A) /\ Len(Append(s, a)) = Len(s) + 1
           /\ Len(s) \in Nat
           /\ \A i \in 1 .. Len(s) : Append(s, a)[i] = s[i]
           /\ Append(s, a)[Len(s) + 1] = a
  OBVIOUS

\* one more atom behind the tree
LEMMA TreeMore ==
    ASSUME NEW f \in Disk, NEW g \in Disk, NEW S, NEW list, NEW x,
           Tree(f, S, list, Len(list), x),
           x <= Len(g), \A k \in 1 .. x : g[k] = f[k],
           NEW b \in Atoms, b.start = x, Whole(g, x), Stands(g, b)
    PROVE  /\ Tree(g, S \cup {x}, Append(list, b), Len(Append(list, b)), b.end)
           /\ \A a \in S : ReadAtom(g, a) = ReadAtom(f, a)
           /\ x \in Nat /\ x \notin S
  <1> DEFINE n == Len(list)
             new == Append(list, b)
             T == S \cup {x}
  <1>1. /\ list \in Seq(Atoms) /\ Tiles(f, S, 0, x) /\ x \in Nat
        /\ \A i \in 1 .. n : list[i].start \in S /\ Stands(f, list[i])
        /\ \A j \in 1 .. n : \A i \in 1 .. j - 1 : list[i].end <= list[j].start
        /\ \A a \in S : ~ IsFree(ReadAtom(f, a)) => \E i \in 1 .. n : list[i].start = a
    BY DEF Tree, Tiles
  <1>2. /\ new \in Seq(Atoms) /\ Len(new) = n + 1 /\ n \in Nat
        /\ \A i \in 1 .. n : new[i] = list[i]
        /\ new[n + 1] = b
    BY <1>1, Appended
  <1> HIDE DEF new
  <1>3. Tiles(g, S, 0, x) /\ \A a \in S : ReadAtom(g, a) = ReadAtom(f, a)
    <2>1. \A k \in 0 + 1 .. x : g[k] = f[k]
      OBVIOUS
    <2> QED
      BY <1>1, <2>1, TilesSame
  <1>4. End(g, x) = b.end /\ b.end \in Nat
    BY DEF Stands, Atoms
  <1>5. Tiles(g, T, 0, b.end)
    <2>1. Tiles(g, {x}, x, b.end)
      BY <1>1, <1>4, TileOne
    <2> QED
      BY <1>3, <2>1, TilesJoin
  <1>6. \A a \in S : a < x /\ a \in Nat /\ End(f, a) <= x
    <2>1. \A a \in S : a < x /\ a \in Nat
      BY <1>1, TileEnds
    <2> QED
      BY <1>1, <2>1 DEF Tiles
  <1>7. \A j \in 1 .. n + 1 : j = n + 1 \/ j \in 1 .. n
    BY <1>2
  <1>8. \A i \in 1 .. n : list[i].end <= x
    <2> TAKE i \in 1 .. n
    <2>1. list[i].start \in S /\ End(f, list[i].start) = list[i].end
      BY <1>1 DEF Stands
    <2> QED
      BY <1>6, <2>1
  <1>9. S \subseteq T /\ x \in T /\ \A a \in T : a \in S \/ a = x
    OBVIOUS
  <1> HIDE DEF T
  <1>10. \A i \in 1 .. n + 1 : new[i].start \in T /\ Stands(g, new[i])
    <2> TAKE i \in 1 .. n + 1
    <2>1. CASE i = n + 1
      BY <1>2, <1>9, <2>1
    <2>2. CASE i \in 1 .. n
      <3>1. list[i].start \in S /\ Stands(f, list[i]) /\ new[i] = list[i]
        BY <1>1, <1>2, <2>2
      <3> QED
        BY <1>3, <1>9, <3>1, StandsSame
    <2> QED
      BY <1>7, <2>1, <2>2
  <1>11. \A j \in 1 .. n + 1 : \A i \in 1 .. j - 1 : new[i].end <= new[j].start
    <2> TAKE j \in 1 .. n + 1
    <2> TAKE i \in 1 .. j - 1
    <2>1. i \in 1 .. n
      BY <1>2
    <2>2. CASE j = n + 1
      BY <1>2, <1>8, <2>1, <2>2
    <2>3. CASE j \in 1 .. n
      BY <1>1, <1>2, <2>1, <2>3
    <2> QED
      BY <1>7, <2>2, <2>3
  <1>12. \A a \in T : ~ IsFree(ReadAtom(g, a)) => \E i \in 1 .. n + 1 : new[i].start = a
    <2> TAKE a \in T
    <2> HAVE ~ IsFree(ReadAtom(g, a))
    <2>1. CASE a = x
      <3>1. n + 1 \in 1 .. n + 1
        BY <1>2
      <3> QED
        BY <1>2, <2>1, <3>1
    <2>2. CASE a \in S
      <3>1. PICK i \in 1 .. n : list[i].start = a
        BY <1>1, <1>3, <2>2
      <3>2. i \in 1 .. n + 1
        BY <1>2
      <3> QED
        BY <1>2, <3>1, <3>2
    <2> QED
      BY <1>9, <2>1, <2>2
  <1>13. n + 1 \in 0 .. Len(new)
    BY <1>2
  <1> HIDE DEF n
  <1>14. Tree(g, T, new, n + 1, b.end)
    BY <1>2, <1>5, <1>10, <1>11, <1>12, <1>13 DEF Tree
  <1>15. x \notin S
    BY <1>1, <1>6
  <1> QED
    BY <1>1, <1>2, <1>3, <1>14, <1>15 DEF new, T

LEMMA MoovAppended ==
    ASSUME NEW f \in Disk, NEW S, NEW list, NEW x, NEW media \in SUBSET Nat,
           NEW limit \in Int, NEW v,
           Tree(f, S, list, Len(list), x), Orderly(f, S, media, limit),
           \A a \in S : ReadAtom(f, a).type # "moov", x <= limit,
           NEW moov \in Atoms, moov.type = "moov", moov.size > 0,
           moov.content = MoovData(v, moov.size)
    PROVE  LET b == Written(moov, x)
           IN  \E g, T : /\ Lays(f, AtomWrites(moov, x), g, Safe(media))
                         /\ Complete(g, T, Append(list, b), b.end, media, limit, v)
  <1> DEFINE b == Written(moov, x)
             z == moov.size
             n == Len(list)
             T == S \cup {x}
  <1>1. list \in Seq(Atoms) /\ Tiles(f, S, 0, x) /\ x \in Nat /\ x <= Len(f) /\ n \in Nat
        /\ Len(f) \in Nat
    <2>1. list \in Seq(Atoms)
      BY DEF Tree
    <2> QED
      BY <2>1 DEF Tree, Tiles, Disk
  <1>2. /\ Data(moov) = moov.content /\ Data(moov) \in Seq(Cell) /\ z \in Nat /\ z > 0
        /\ Len(Data(moov)) = z /\ moov.type \in TypeNames
    <2>1. z \in Nat /\ z > 0 /\ moov.type \in TypeNames
      BY DEF Atoms
    <2>2. Data(moov) = moov.content /\ Data(moov) \in Seq(Cell)
      BY DataTyped
    <2>3. Len(MoovData(v, z)) = z
      <3> HIDE DEF z
      <3> QED
        BY <2>1 DEF MoovData
    <2> QED
      BY <2>1, <2>2, <2>3
  <1>3. /\ b \in Atoms /\ b.type = "moov" /\ b.start = x /\ b.end = x + 2 + z
        /\ b.size = z /\ b.content = moov.content
    <2>1. /\ b \in Atoms /\ b.type = moov.type /\ b.start = x
          /\ b.end = x + 2 + Len(Data(moov)) /\ b.size = Len(Data(moov))
          /\ b.content = moov.content
      BY <1>1, WrittenAtom
    <2> HIDE DEF b
    <2> QED
      BY <1>2, <2>1
  <1>4. PICK g : /\ Lays(f, AtomWrites(moov, x), g, Place(x, z))
                 /\ Len(g) = IF x + 2 + z <= Len(f) THEN Len(f) ELSE x + 2 + z
                 /\ Whole(g, x)
                 /\ ReadAtom(g, x) = Atom(moov.type, x, x + 2 + z, z, FALSE, Data(moov))
    <2> DEFINE y == Len(Data(moov))
    <2>1. \E g : /\ Lays(f, AtomWrites(moov, x), g, Place(x, y))
                 /\ Len(g) = IF x + 2 + y <= Len(f) THEN Len(f) ELSE x + 2 + y
                 /\ Whole(g, x)
                 /\ ReadAtom(g, x) = Atom(moov.type, x, x + 2 + y, y, FALSE, Data(moov))
      <3> HIDE DEF z
      <3> QED
        BY <1>1, <1>2, AtomLaid
    <2>2. y = z
      BY <1>2
    <2> HIDE DEF y
    <2> QED
      BY <2>1, <2>2
  <1>5. g \in Disk /\ Len(g) \in Nat /\ x <= Len(g) /\ \A k \in 1 .. x : g[k] = f[k]
    <2>1. /\ g \in Disk /\ Len(g) \in Nat
          /\ \A k \in 1 .. Len(f) : k - 1 \notin Place(x, z) => g[k] = f[k]
      BY <1>4, LaysKeep
    <2>2. \A k \in 1 .. x : k \in 1 .. Len(f) /\ k - 1 \notin Place(x, z)
      BY <1>1, <1>2 DEF Place
    <2> QED
      BY <1>1, <1>2, <1>4, <2>1, <2>2
  <1>6. Stands(g, b)
    BY <1>1, <1>2, <1>4, StandsWritten
  <1> HIDE DEF b, z
  <1>7. /\ Tree(g, T, Append(list, b), Len(Append(list, b)), b.end)
        /\ \A a \in S : ReadAtom(g, a) = ReadAtom(f, a)
        /\ x \notin S
    BY <1>3, <1>4, <1>5, <1>6, TreeMore
  <1>8. Lays(f, AtomWrites(moov, x), g, Safe(media))
    <2>1. {p \in Nat : x <= p} \subseteq Safe(media)
      BY <1>1, SafePlaces
    <2>2. Place(x, z) \subseteq Safe(media)
      <3>1. Place(x, z) \subseteq {p \in Nat : x <= p}
        BY <1>1, <1>2 DEF Place
      <3> QED
        BY <2>1, <3>1
    <2>3. Safe(media) \in SUBSET Nat
      BY DEF Safe
    <2> QED
      BY <1>4, <2>2, <2>3, LaysAt
  <1>9. /\ ReadAtom(g, x).type = "moov" /\ ReadAtom(g, x).size = z
        /\ ReadAtom(g, x).content = moov.content
    BY <1>2, <1>4 DEF Atom
  <1>10. ~ ReadAtom(g, x).large
    <2>1. ReadAtom(g, x).large = FALSE
      <3> DEFINE r == ReadAtom(g, x)
      <3>1. r = Atom(moov.type, x, x + 2 + z, z, FALSE, Data(moov))
        BY <1>4
      <3> HIDE DEF r
      <3>2. r.large = FALSE
        BY <3>1, Zenon DEF Atom
      <3> QED
        BY <3>2 DEF r
    <2> QED
      BY <2>1, Zenon
  <1>11. \A a \in T : a \in S \/ a = x
    OBVIOUS
  <1>12. S \subseteq T /\ x \in T
    OBVIOUS
  <1> HIDE DEF T
  <1>13. Orderly(g, T, media, limit)
    <2>1. \A a \in S : End(f, a) \in Int
      BY <1>1, TileEnds
    <2>2. \A a \in S : a \in S /\ ReadAtom(g, a) = ReadAtom(f, a)
      BY <1>7
    <2>3. limit <= limit
      OBVIOUS
    <2>4. Orderly(g, S, media, limit)
      BY <2>1, <2>2, <2>3, OrderlySame
    <2> QED
      BY <1>9, <1>11, <1>12, <2>4 DEF Orderly
  <1>14. OneMoov(g, T, x)
    BY <1>7, <1>9, <1>11, <1>12 DEF OneMoov
  <1>15. IsMovie(g, x, v)
    BY <1>2, <1>9, <1>10 DEF IsMovie, z
  <1> DEFINE new == Append(list, b)
  <1>16. new[n + 1] = b /\ Len(new) = n + 1 /\ n + 1 \in 1 .. Len(new)
    BY <1>1, <1>3, Appended
  <1> HIDE DEF new, n
  <1>17. Tree(g, T, new, Len(new), b.end)
    BY <1>7 DEF new
  <1>18. b.end <= limit + 2 + b.size /\ b.start <= limit
    BY <1>1, <1>2, <1>3
  <1>19. b.content = MoovData(v, b.size) /\ b.size > 0
    BY <1>2, <1>3 DEF z
  <1>20. Complete(g, T, new, b.end, media, limit, v)
    BY <1>3, <1>13, <1>14, <1>15, <1>16, <1>17, <1>18, <1>19 DEF Complete
  <1> QED
    BY <1>8, <1>20 DEF b, new

LEMMA FinishedAtom ==
    ASSUME NEW a \in Atoms, NEW pos \in Nat, a.start + 2 <= pos, pos <= a.start + MaxSize
    PROVE  LET b == FinishedMdat(a, pos)
           IN  /\ b \in Atoms /\ b.type = a.type /\ b.start = a.start /\ b.end = pos
               /\ b.size = pos - a.start - 2 /\ b.content = a.content
               /\ FinishMdatWrites(a, pos) = CellsFrom(a.start, <<Number(pos - a.start)>>)
  <1> DEFINE b == FinishedMdat(a, pos)
             span == pos - a.start
             R == [type : TypeNames, start : Nat, end : Nat, size : Nat, large : BOOLEAN,
                   content : Seq(Cell)]
  <1>1. a.start \in Nat /\ MaxSize \in Nat /\ a \in R
    BY MaxSizeAssumption DEF Atoms
  <1>2. span <= MaxSize /\ span - 2 \in Nat /\ span - 2 = pos - a.start - 2
    BY <1>1
  <1>3. b = [a EXCEPT !.start = a.start, !.end = pos, !.size = span - 2]
    BY <1>1, <1>2 DEF FinishedMdat
  <1>4. FinishMdatWrites(a, pos) = CellsFrom(a.start, <<Number(span)>>)
    BY <1>2 DEF FinishMdatWrites
  <1> HIDE DEF b, span
  <1>5. /\ b.type = a.type /\ b.start = a.start /\ b.end = pos
        /\ b.size = span - 2 /\ b.content = a.content
    BY <1>1, <1>3
  <1>6. b \in R
    BY <1>1, <1>2, <1>3
  <1>7. b \in Atoms
    BY <1>6 DEF Atoms
  <1> QED
    BY <1>2, <1>4, <1>5, <1>7 DEF b, span

LEMMA MdatFinished ==
    ASSUME NEW f \in Disk, NEW q \in Nat, NEW pos \in Nat, q + 2 <= pos, pos <= Len(f),
           CellAt(f, q + 1) = Type("mdat")
    PROVE  \E g : /\ Lays(f, CellsFrom(q, <<Number(pos - q)>>), g, {q})
                  /\ g \in Disk /\ Len(g) = Len(f)
                  /\ \A k \in 1 .. Len(f) : k # q + 1 => g[k] = f[k]
                  /\ Whole(g, q) /\ ReadAtom(g, q).type = "mdat" /\ End(g, q) = pos
                  /\ ReadAtom(g, q).size = pos - q - 2
  <1> DEFINE n == pos - q - 2
             c == Number(pos - q)
  <1>1. n \in Nat /\ pos - q = 2 + n /\ q + 2 + n = pos /\ Len(f) \in Nat /\ pos - q \in Nat
    BY DEF Disk
  <1>2. c \in Cell
    BY <1>1, Cells
  <1>3. PICK g : /\ Lays(f, CellsFrom(q, <<c>>), g, {q})
                 /\ Len(g) = Len(f) /\ g[q + 1] = c
    <2>1. q < Len(f)
      BY <1>1
    <2> HIDE DEF c
    <2> QED
      BY <1>2, <2>1, CellLaid
  <1>4. g \in Disk /\ \A k \in 1 .. Len(f) : k # q + 1 => g[k] = f[k]
    <2>1. g \in Disk /\ \A k \in 1 .. Len(f) : k - 1 \notin {q} => g[k] = f[k]
      BY <1>3, LaysKeep
    <2>2. \A k \in 1 .. Len(f) : k # q + 1 => k - 1 \notin {q}
      BY <1>1
    <2> QED
      BY <2>1, <2>2
  <1>5. CellAt(g, q) = Number(2 + n) /\ CellAt(g, q + 1) = Type("mdat")
    <2>1. q + 1 + 1 \in 1 .. Len(f) /\ q + 1 + 1 # q + 1
      BY <1>1
    <2>2. g[q + 1 + 1] = f[q + 1 + 1]
      BY <1>4, <2>1
    <2>3. CellAt(g, q) = Number(2 + n)
      BY <1>1, <1>3 DEF CellAt
    <2> QED
      BY <2>2, <2>3 DEF CellAt
  <1> HIDE DEF n
  <1>6. /\ Whole(g, q)
        /\ ReadAtom(g, q) = Atom("mdat", q, q + 2 + n, n, FALSE,
                                 SubSeq(g, q + 3, q + 2 + n))
    <2>1. q + 2 + n <= Len(g) /\ "mdat" \in TypeNames
      BY <1>1, <1>3, TypeNamesAssumption
    <2>2. g \in Disk /\ n \in Nat
      BY <1>1, <1>4
    <2> HIDE DEF c
    <2> QED
      BY <1>5, <2>1, <2>2, Fresh
  <1>7. ReadAtom(g, q).type = "mdat" /\ ReadAtom(g, q).end = q + 2 + n
        /\ ReadAtom(g, q).size = n
    BY <1>6 DEF Atom
  <1>8. End(g, q) = pos
    BY <1>1, <1>7 DEF End
  <1> QED
    BY <1>3, <1>4, <1>6, <1>7, <1>8 DEF n

LEMMA TreeFront ==
    ASSUME NEW f \in Disk, NEW g \in Disk, NEW S, NEW list, NEW k, NEW e,
           Tree(f, S, list, k, e), e <= Len(g), \A p \in 1 .. e : g[p] = f[p]
    PROVE  LET front == SubSeq(list, 1, k)
           IN  /\ Tree(g, S, front, Len(front), e) /\ Len(front) = k
               /\ front \in Seq(Atoms) /\ \A i \in 1 .. k : front[i] = list[i]
               /\ \A a \in S : ReadAtom(g, a) = ReadAtom(f, a)
  <1> DEFINE front == SubSeq(list, 1, k)
  <1>1. /\ list \in Seq(Atoms) /\ k \in 0 .. Len(list) /\ Tiles(f, S, 0, e)
        /\ \A i \in 1 .. k : list[i].start \in S /\ Stands(f, list[i])
        /\ \A j \in 1 .. k : \A i \in 1 .. j - 1 : list[i].end <= list[j].start
        /\ \A a \in S : ~ IsFree(ReadAtom(f, a)) => \E i \in 1 .. k : list[i].start = a
    BY DEF Tree
  <1>2. /\ front \in Seq(Atoms) /\ Len(front) = k /\ k \in Nat
        /\ \A i \in 1 .. k : front[i] = list[i]
    BY <1>1
  <1> HIDE DEF front
  <1>3. Tiles(g, S, 0, e) /\ \A a \in S : ReadAtom(g, a) = ReadAtom(f, a)
    <2>1. \A p \in 0 + 1 .. e : g[p] = f[p]
      OBVIOUS
    <2> QED
      BY <1>1, <2>1, TilesSame
  <1>4. \A i \in 1 .. k : front[i].start \in S /\ Stands(g, front[i])
    <2> TAKE i \in 1 .. k
    <2>1. list[i].start \in S /\ Stands(f, list[i]) /\ front[i] = list[i]
      BY <1>1, <1>2
    <2> QED
      BY <1>3, <2>1, StandsSame
  <1>5. \A j \in 1 .. k : \A i \in 1 .. j - 1 : front[i].end <= front[j].start
    <2>1. \A j \in 1 .. k : \A i \in 1 .. j - 1 : i \in 1 .. k
      BY <1>2
    <2> QED
      BY <1>1, <1>2, <2>1
  <1>6. \A a \in S : ~ IsFree(ReadAtom(g, a)) => \E i \in 1 .. k : front[i].start = a
    BY <1>1, <1>2, <1>3
  <1>7. k \in 0 .. Len(front)
    BY <1>2
  <1>8. Tree(g, S, front, k, e)
    BY <1>2, <1>3, <1>4, <1>5, <1>6, <1>7 DEF Tree
  <1> QED
    BY <1>2, <1>3, <1>8 DEF front

LEMMA LastMdatIs ==
    ASSUME NEW list \in Seq(Atoms), NEW m \in 1 .. Len(list), list[m].type = "mdat",
           \A i \in m + 1 .. Len(list) : list[i].type # "mdat"
    PROVE  LastMdat(list) = m /\ OfType(list, "mdat") # {}
  <1> DEFINE X == OfType(list, "mdat")
  <1>1. X = {i \in 1 .. Len(list) : list[i].type = "mdat"} /\ Len(list) \in Nat
    BY DEF OfType
  <1>2. X \in SUBSET Int /\ m \in X /\ \A x \in X : x <= m
    BY <1>1
  <1> HIDE DEF X
  <1>3. Max(X) = m
    BY <1>2, MaxIs
  <1> QED
    BY <1>2, <1>3 DEF LastMdat, X

LEMMA FoldOne ==
    ASSUME NEW base \in Results, NEW a \in Atoms
    PROVE  FoldLeft(Rewrite, base, <<a>>) = Rewrite(base, a)
  <1> DEFINE rest == <<a>>
  <1>1. rest \in Seq(Atoms) /\ Len(rest) = 1 /\ rest[1] = a
    OBVIOUS
  <1> HIDE DEF rest
  <1>2. PICK g : /\ g \in [0 .. Len(rest) -> Results] /\ g[0] = base
                 /\ \A k \in 1 .. Len(rest) : g[k] = Rewrite(g[k - 1], rest[k])
                 /\ FoldLeft(Rewrite, base, rest) = g[Len(rest)]
    BY <1>1, RewriteFolds
  <1>3. 1 \in 1 .. Len(rest) /\ 1 - 1 = 0
    BY <1>1
  <1>4. g[1] = Rewrite(g[0], a)
    BY <1>1, <1>2, <1>3
  <1> QED
    BY <1>1, <1>2, <1>4 DEF rest

LEMMA MovieFinished ==
    ASSUME NEW f \in Disk, NEW S, NEW q, NEW list \in Seq(Atoms), NEW pos \in Nat,
           NEW media \in SUBSET Nat, NEW limit \in Int, NEW v,
           Modified(f, S, q, list, pos, media, limit),
           list[Len(list)].size > 0,
           list[Len(list)].content = MoovData(v, list[Len(list)].size)
    PROVE  LET done == RootFinish(list, pos)
           IN  /\ OfType(list, "mdat") # {} /\ done \in Results
               /\ \E g, T : /\ Lays(f, done.writes, g, Safe(media))
                            /\ Complete(g, T, done.atoms, done.position, media, limit, v)
               /\ Len(done.atoms) # 0 /\ done.atoms[Len(done.atoms)].type = "moov"
  <1> DEFINE n == Len(list)
             moov == list[n]
             mdat == list[n - 1]
             fin == FinishedMdat(mdat, pos)
             span == pos - q
             front == SubSeq(list, 1, n - 2)
             empty == fin.size = 0
             start == IF empty THEN fin.start ELSE pos
             before == IF empty THEN front ELSE Append(front, fin)
             w == FinishMdatWrites(mdat, pos)
             base == [atoms |-> before, writes |-> w, position |-> start]
             done == RootFinish(list, pos)
  <1>1. /\ n > 1 /\ list[n].type = "moov"
        /\ list[n - 1].type = "mdat" /\ list[n - 1].start = q
        /\ list[n - 1].content = <<>>
        /\ pos \in {q + 2, q + 4} /\ q <= limit /\ pos <= Len(f)
        /\ pos = q + 2 \/ pos <= limit
        /\ CellAt(f, q + 1) = Type("mdat")
        /\ Tree(f, S, list, n - 2, q)
        /\ \A a \in S : ReadAtom(f, a).type # "moov"
        /\ Orderly(f, S, media, limit)
    BY DEF Modified
  <1>2. /\ n \in Nat /\ n - 1 \in 1 .. n /\ n \in 1 .. n /\ moov \in Atoms /\ mdat \in Atoms
        /\ q \in Nat /\ Len(f) \in Nat /\ (n - 1) + 1 = n /\ (n - 1) - 1 = n - 2
    <2>1. n \in Nat /\ n - 1 \in 1 .. n /\ n \in 1 .. n /\ (n - 1) + 1 = n
          /\ (n - 1) - 1 = n - 2
      BY <1>1
    <2>2. moov \in Atoms /\ mdat \in Atoms
      BY <2>1
    <2>3. q \in Nat
      BY <1>1, <2>2 DEF Atoms
    <2> QED
      BY <2>1, <2>2, <2>3 DEF Disk
  <1>3. LastMdat(list) = n - 1 /\ OfType(list, "mdat") # {}
    <2>1. \A i \in (n - 1) + 1 .. n : i = n
      <3> HIDE DEF n
      <3> QED
        BY <1>2
    <2>2. \A i \in (n - 1) + 1 .. n : list[i].type # "mdat"
      BY <1>1, <2>1
    <2>3. list[n - 1].type = "mdat" /\ n - 1 \in 1 .. n
      BY <1>1, <1>2
    <2> QED
      BY <2>2, <2>3, LastMdatIs
  <1>4. SubSeq(list, n, n) = <<moov>>
    <2> DEFINE one == SubSeq(list, n, n)
    <2>1. one \in Seq(Atoms) /\ Len(one) = 1 /\ one[1] = moov
      <3>1. n \in 1 .. Len(list) /\ n \in Nat
        BY <1>2
      <3> HIDE DEF n
      <3>2. /\ SubSeq(list, n, n) \in Seq(Atoms) /\ Len(SubSeq(list, n, n)) = n - n + 1
            /\ SubSeq(list, n, n)[1] = list[n + 1 - 1]
        BY <3>1
      <3>3. n - n + 1 = 1 /\ n + 1 - 1 = n
        BY <3>1
      <3> QED
        BY <3>2, <3>3
    <2> HIDE DEF one, moov
    <2>2. one = <<moov>>
      BY <1>2, <2>1
    <2> QED
      BY <2>2 DEF one
  <1>5. done = FoldLeft(Rewrite, base, <<moov>>)
    BY <1>2, <1>3, <1>4 DEF RootFinish
  <1>6. moov.type = "moov" /\ moov.size > 0 /\ moov.content = MoovData(v, moov.size)
    BY <1>1
  <1>7. /\ fin \in Atoms /\ fin.type = "mdat" /\ fin.start = q /\ fin.end = pos
        /\ fin.size = pos - q - 2 /\ fin.content = <<>>
        /\ w = CellsFrom(q, <<Number(pos - q)>>)
    <2>1. /\ mdat.start + 2 <= pos /\ pos <= mdat.start + MaxSize /\ mdat.start = q
          /\ mdat.type = "mdat" /\ mdat.content = <<>>
      BY <1>1, <1>2, MaxSizeAssumption
    <2> HIDE DEF mdat
    <2> QED
      BY <1>2, <2>1, FinishedAtom
  <1>8. PICK g : /\ Lays(f, CellsFrom(q, <<Number(pos - q)>>), g, {q})
                 /\ g \in Disk /\ Len(g) = Len(f)
                 /\ \A k \in 1 .. Len(f) : k # q + 1 => g[k] = f[k]
                 /\ Whole(g, q) /\ ReadAtom(g, q).type = "mdat" /\ End(g, q) = pos
                 /\ ReadAtom(g, q).size = pos - q - 2
    <2>1. q + 2 <= pos /\ pos <= Len(f) /\ CellAt(f, q + 1) = Type("mdat")
      BY <1>1, <1>2
    <2> QED
      BY <1>2, <2>1, MdatFinished
  <1>9. Tiles(f, S, 0, q) /\ list \in Seq(Atoms)
    BY <1>1 DEF Tree
  <1>10. Lays(f, w, g, Safe(media))
    <2>1. {p \in Nat : q <= p} \subseteq Safe(media)
      BY <1>1, <1>9, SafePlaces
    <2>2. {q} \subseteq Safe(media)
      BY <1>2, <2>1
    <2>3. Safe(media) \in SUBSET Nat
      BY DEF Safe
    <2>4. Lays(f, w, g, {q})
      BY <1>7, <1>8
    <2> QED
      BY <2>2, <2>3, <2>4, LaysAt
  <1> HIDE DEF fin, w
  <1>11. \A k \in 1 .. q : g[k] = f[k]
    BY <1>1, <1>2, <1>8
  <1>12. /\ Tree(g, S, front, Len(front), q) /\ Len(front) = n - 2
         /\ front \in Seq(Atoms)
         /\ \A a \in S : ReadAtom(g, a) = ReadAtom(f, a)
    <2>1. q <= Len(g)
      BY <1>1, <1>2, <1>8
    <2>2. /\ Tree(f, S, list, n - 2, q) /\ n - 2 \in 0 .. Len(list)
          /\ f \in Disk /\ g \in Disk /\ q \in Nat
      BY <1>1, <1>2, <1>8
    <2> HIDE DEF n
    <2>3. LET to == SubSeq(list, 1, n - 2)
          IN  /\ Tree(g, S, to, Len(to), q) /\ Len(to) = n - 2
              /\ to \in Seq(Atoms) /\ \A i \in 1 .. n - 2 : to[i] = list[i]
              /\ \A a \in S : ReadAtom(g, a) = ReadAtom(f, a)
      <3>1. Tree(f, S, list, n - 2, q) /\ f \in Disk /\ g \in Disk
        BY <2>2
      <3> QED
        BY <1>11, <2>1, <3>1, TreeFront
    <2> QED
      BY <2>3
  <1> HIDE DEF front
  <1>13. Orderly(g, S, media, limit)
    <2>1. \A a \in S : End(f, a) \in Int
      BY <1>9, TileEnds
    <2>2. \A a \in S : a \in S /\ ReadAtom(g, a) = ReadAtom(f, a)
      BY <1>12
    <2>3. limit <= limit
      OBVIOUS
    <2> QED
      BY <1>1, <2>1, <2>2, <2>3, OrderlySame
  <1>14. \E U : /\ Tree(g, U, before, Len(before), start)
                /\ Orderly(g, U, media, limit)
                /\ \A a \in U : ReadAtom(g, a).type # "moov"
                /\ start <= limit /\ start \in Nat /\ before \in Seq(Atoms)
    <2>1. CASE fin.size = 0
      <3>1. before = front /\ start = q
        BY <1>7, <2>1
      <3>2. \A a \in S : ReadAtom(g, a).type # "moov"
        BY <1>1, <1>12
      <3> HIDE DEF before, start
      <3> QED
        BY <1>1, <1>2, <1>12, <1>13, <3>1, <3>2
    <2>2. CASE fin.size # 0
      <3> DEFINE U == S \cup {q}
      <3>1. before = Append(front, fin) /\ start = pos
        BY <2>2
      <3>2. pos <= limit /\ pos = q + 4
        BY <1>1, <1>2, <1>7, <2>2
      <3>3. Stands(g, fin)
        <4>1. Len(Data(fin)) = 0
          <5>1. Data(fin) = fin.content
            BY <1>7, DataTyped
          <5> QED
            BY <1>7, <5>1
        <4>2. Fits(fin)
          BY <1>2, <1>7, <3>2, <4>1 DEF Fits
        <4> QED
          BY <1>7, <1>8, <4>2 DEF Stands
      <3>4. /\ Tree(g, U, Append(front, fin), Len(Append(front, fin)), fin.end)
        <4>1. q <= Len(g) /\ \A k \in 1 .. q : g[k] = g[k]
          BY <1>1, <1>2, <1>8
        <4>2. fin \in Atoms /\ fin.start = q /\ Whole(g, q) /\ g \in Disk /\ q \in Nat
          BY <1>2, <1>7, <1>8
        <4>3. Tree(g, S, front, Len(front), q) /\ front \in Seq(Atoms)
          BY <1>12
        <4> QED
          BY <3>3, <4>1, <4>2, <4>3, TreeMore
      <3>5. \A a \in U : a \in S \/ a = q
        OBVIOUS
      <3>6. S \subseteq U
        OBVIOUS
      <3> HIDE DEF U
      <3>7. Orderly(g, U, media, limit)
        <4>1. End(g, q) <= q + MaxSize /\ End(g, q) <= limit
          BY <1>2, <1>8, <3>2, MaxSizeAssumption
        <4>2. ReadAtom(g, q).type = "mdat"
          BY <1>8
        <4> QED
          BY <1>13, <3>5, <3>6, <4>1, <4>2 DEF Orderly
      <3>8. \A a \in U : ReadAtom(g, a).type # "moov"
        BY <1>1, <1>8, <1>12, <3>5
      <3>9. Append(front, fin) \in Seq(Atoms)
        BY <1>7, <1>12
      <3> HIDE DEF before, start
      <3> QED
        BY <1>7, <3>1, <3>2, <3>4, <3>7, <3>8, <3>9
    <2> QED
      BY <2>1, <2>2
  <1>15. base \in Results
    <2>1. w \in Seq([at : Nat, cell : Cell])
      <3>1. pos - q \in Nat
        BY <1>1, <1>2
      <3>2. Number(pos - q) \in Cell
        BY <3>1, Cells
      <3>3. <<Number(pos - q)>> \in Seq(Cell)
        BY <3>2
      <3> QED
        BY <1>2, <1>7, <3>3, CellsFromTyped
    <2> HIDE DEF before, start
    <2>2. before \in Seq(Atoms) /\ start \in Nat
      BY <1>14
    <2> QED
      BY <2>1, <2>2 DEF Results
  <1>16. base.atoms = before /\ base.writes = w /\ base.position = start
    BY Zenon
  <1> HIDE DEF base, before, start
  <1>17. done = Rewrite(base, moov)
    <2> HIDE DEF moov, done
    <2> QED
      BY <1>2, <1>5, <1>15, FoldOne
  <1> DEFINE b == Written(moov, start)
  <1>18. /\ done \in Results
         /\ done.atoms = Append(before, b)
         /\ done.writes = w \o AtomWrites(moov, start)
         /\ done.position = b.end
    <2>1. done.position = Written(moov, base.position).end
      BY <1>17 DEF Rewrite
    <2> HIDE DEF moov, done
    <2>2. /\ Rewrite(base, moov) \in Results
          /\ Rewrite(base, moov).atoms = Append(base.atoms, Written(moov, base.position))
          /\ Rewrite(base, moov).writes = base.writes \o AtomWrites(moov, base.position)
      BY <1>2, <1>15, RewriteTyped
    <2> QED
      BY <1>16, <1>17, <2>1, <2>2
  <1>19. PICK U : /\ Tree(g, U, before, Len(before), start)
                  /\ Orderly(g, U, media, limit)
                  /\ \A a \in U : ReadAtom(g, a).type # "moov"
    BY <1>14
  <1>20. start <= limit /\ start \in Nat /\ before \in Seq(Atoms)
    BY <1>14
  <1>21. b \in Atoms /\ b.type = "moov"
    <2> HIDE DEF moov
    <2> QED
      BY <1>2, <1>6, <1>20, WrittenAtom
  <1>22. PICK h, T : /\ Lays(g, AtomWrites(moov, start), h, Safe(media))
                     /\ Complete(h, T, Append(before, b), b.end, media, limit, v)
    <2> HIDE DEF moov
    <2> QED
      BY <1>2, <1>6, <1>8, <1>19, <1>20, MoovAppended
  <1>23. Lays(f, done.writes, h, Safe(media))
    <2>1. Safe(media) \cup Safe(media) = Safe(media)
      OBVIOUS
    <2> HIDE DEF done
    <2> QED
      BY <1>10, <1>18, <1>22, <2>1, LaysJoin
  <1>24. Complete(h, T, done.atoms, done.position, media, limit, v)
    BY <1>18, <1>22
  <1>25. Len(done.atoms) # 0 /\ done.atoms[Len(done.atoms)].type = "moov"
    <2> HIDE DEF done, b
    <2>1. /\ Len(Append(before, b)) = Len(before) + 1 /\ Len(before) \in Nat
          /\ Append(before, b)[Len(before) + 1] = b
      BY <1>20, <1>21, Appended
    <2> QED
      BY <1>18, <1>21, <2>1
  <1> HIDE DEF done
  <1>26. \E x, y : /\ Lays(f, done.writes, x, Safe(media))
                   /\ Complete(x, y, done.atoms, done.position, media, limit, v)
    BY <1>23, <1>24
  <1> QED
    BY <1>3, <1>18, <1>25, <1>26 DEF done

-----------------------------------------------------------------------------
(* Close finishes the root once more after moov has been moved *)

\* where the atoms behind mdat are written again: over it when it is empty
Behind(mdat) == IF mdat.end = mdat.start + 2 THEN mdat.start ELSE mdat.end

\* the m-th atom is the last mdat; front is the tree before it
LEMMA LastMdatParts ==
    ASSUME NEW f \in Disk, NEW S, NEW list, NEW x,
           Tree(f, S, list, Len(list), x),
           NEW media \in SUBSET Nat, NEW limit \in Int, Orderly(f, S, media, limit),
           NEW m \in 1 .. Len(list), list[m].type = "mdat",
           \A i \in m + 1 .. Len(list) : list[i].type # "mdat"
    PROVE  LET q == list[m].start
               e == list[m].end
           IN  /\ list[m] \in Atoms /\ q \in S /\ q \in Nat /\ e \in Nat /\ x \in Nat
               /\ q + 2 <= e /\ e <= q + MaxSize /\ e <= x /\ x <= Len(f)
               /\ End(f, q) = e /\ e \in S \cup {x}
               /\ ReadAtom(f, q).type = "mdat" /\ Whole(f, q)
               /\ CellAt(f, q + 1) = Type("mdat")
               /\ \A at \in media : at <= Behind(list[m])
  <1> DEFINE q == list[m].start
             e == list[m].end
             n == Len(list)
  <1>1. /\ list \in Seq(Atoms) /\ Tiles(f, S, 0, x)
        /\ \A i \in 1 .. n : list[i].start \in S /\ Stands(f, list[i])
        /\ \A j \in 1 .. n : \A i \in 1 .. j - 1 : list[i].end <= list[j].start
        /\ \A a \in S : ~ IsFree(ReadAtom(f, a)) => \E i \in 1 .. n : list[i].start = a
    BY DEF Tree
  <1>2. list[m] \in Atoms /\ q \in Nat /\ e \in Nat
    <2>1. list[m] \in Atoms
      BY <1>1
    <2> QED
      BY <2>1 DEF Atoms
  <1>3. q \in S /\ End(f, q) = e /\ ReadAtom(f, q).type = "mdat"
    BY <1>1 DEF Stands
  <1>4. q + 2 <= e /\ x \in Nat /\ x <= Len(f) /\ e <= x /\ e \in S \cup {x} /\ Whole(f, q)
    <2>1. q + 2 <= End(f, q)
      BY <1>1, <1>3, TileEnds
    <2>2. x \in Nat /\ x <= Len(f) /\ End(f, q) <= x /\ End(f, q) \in S \cup {x} /\ Whole(f, q)
      BY <1>1, <1>3 DEF Tiles
    <2> QED
      BY <1>3, <2>1, <2>2
  <1>5. e <= q + MaxSize
    BY <1>3 DEF Orderly
  <1>6. CellAt(f, q + 1) = Type("mdat")
    <2>1. IsType(CellAt(f, q + 1)) /\ q + 1 < Len(f)
      BY <1>4 DEF Whole
    <2>2. CellAt(f, q + 1) \in Cell
      BY <1>2, <2>1, Opaque
    <2>3. ReadAtom(f, q).type = CellAt(f, q + 1)[2]
      BY <1>2, <1>4, Parts
    <2> QED
      BY <1>3, <2>1, <2>2, <2>3, TypeCell
  <1>7. \A at \in media : at <= Behind(list[m])
    <2> TAKE at \in media
    <2>1. PICK a \in S : Holds(f, a, at)
      BY DEF Orderly
    <2>2. a + 2 < at /\ at <= End(f, a) /\ at \in Nat /\ a \in Nat
      <3>1. at \in Nat
        OBVIOUS
      <3>2. a + 2 < at /\ at <= End(f, a)
        BY <1>1, <2>1, <3>1, HeldWhere
      <3> QED
        BY <1>1, <3>1, <3>2 DEF Tiles
    <2>3. ReadAtom(f, a).type = "mdat"
      BY <2>1 DEF Holds
    <2>4. PICK i \in 1 .. n : list[i].start = a
      BY <1>1, <2>3 DEF IsFree
    <2>5. list[i].type = "mdat" /\ list[i].end = End(f, a)
      BY <1>1, <2>3, <2>4 DEF Stands
    <2>6. i <= m
      <3>1. i \in m + 1 .. n \/ i <= m
        BY <1>1
      <3> QED
        BY <2>5, <3>1
    <2>7. CASE i = m
      BY <1>2, <2>2, <2>4, <2>5, <2>7 DEF Behind
    <2>8. CASE i # m
      <3>1. i \in 1 .. m - 1
        BY <2>6, <2>8
      <3>2. list[i].end <= q
        BY <1>1, <3>1
      <3>3. End(f, a) \in Int
        BY <1>1, TileEnds
      <3>4. at <= q
        BY <1>2, <2>2, <2>5, <3>2, <3>3
      <3>5. q <= Behind(list[m])
        BY <1>2, <1>4 DEF Behind
      <3> HIDE DEF q
      <3>6. Behind(list[m]) \in Int
        BY <1>2, <1>4 DEF Behind, q
      <3>7. q \in Int
        BY <1>2
      <3> QED
        BY <2>2, <3>4, <3>5, <3>6, <3>7
    <2> QED
      BY <2>7, <2>8
  <1> QED
    BY <1>2, <1>3, <1>4, <1>5, <1>6, <1>7

LEMMA MdatAgain ==
    ASSUME NEW f \in Disk, NEW S, NEW list, NEW x,
           Tree(f, S, list, Len(list), x),
           NEW media \in SUBSET Nat, NEW limit \in Int, Orderly(f, S, media, limit),
           NEW m \in 1 .. Len(list), list[m].type = "mdat",
           \A i \in m + 1 .. Len(list) : list[i].type # "mdat"
    PROVE  LET q == list[m].start
               e == list[m].end
           IN  \E g : /\ Lays(f, FinishMdatWrites(list[m], e), g, Safe(media))
                      /\ g \in Disk /\ Tiles(g, S, 0, x)
                      /\ \A a \in S : a # q => ReadAtom(g, a) = ReadAtom(f, a)
                      /\ ReadAtom(g, q).type = "mdat" /\ End(g, q) = e
                      /\ ReadAtom(g, q).size = e - q - 2
                      /\ Stands(g, FinishedMdat(list[m], e))
                      /\ FinishedMdat(list[m], e) \in Atoms
                      /\ FinishedMdat(list[m], e).start = q
                      /\ FinishedMdat(list[m], e).end = e
                      /\ FinishedMdat(list[m], e).size = e - q - 2
                      /\ FinishMdatWrites(list[m], e) \in Writes
  <1> DEFINE q == list[m].start
             e == list[m].end
             fin == FinishedMdat(list[m], e)
             w == FinishMdatWrites(list[m], e)
  <1>1. /\ list[m] \in Atoms /\ q \in S /\ q \in Nat /\ e \in Nat /\ x \in Nat
        /\ q + 2 <= e /\ e <= q + MaxSize /\ e <= x /\ x <= Len(f)
        /\ End(f, q) = e /\ e \in S \cup {x}
        /\ ReadAtom(f, q).type = "mdat" /\ Whole(f, q)
        /\ CellAt(f, q + 1) = Type("mdat")
    <2>1. /\ Tree(f, S, list, Len(list), x) /\ Orderly(f, S, media, limit)
          /\ list[m].type = "mdat" /\ \A i \in m + 1 .. Len(list) : list[i].type # "mdat"
      OBVIOUS
    <2>2. LET q0 == list[m].start
              e0 == list[m].end
          IN  /\ list[m] \in Atoms /\ q0 \in S /\ q0 \in Nat /\ e0 \in Nat /\ x \in Nat
              /\ q0 + 2 <= e0 /\ e0 <= q0 + MaxSize /\ e0 <= x /\ x <= Len(f)
              /\ End(f, q0) = e0 /\ e0 \in S \cup {x}
              /\ ReadAtom(f, q0).type = "mdat" /\ Whole(f, q0)
              /\ CellAt(f, q0 + 1) = Type("mdat")
              /\ \A at \in media : at <= Behind(list[m])
      BY <2>1, LastMdatParts, Zenon
    <2> QED
      BY <2>2
  <1>2. /\ fin \in Atoms /\ fin.type = "mdat" /\ fin.start = q /\ fin.end = e
        /\ fin.size = e - q - 2 /\ fin.content = list[m].content
        /\ w = CellsFrom(q, <<Number(e - q)>>)
    BY <1>1, FinishedAtom
  <1>3. Tiles(f, S, 0, x) /\ Stands(f, list[m])
    BY DEF Tree
  <1>4. Len(f) \in Nat
    BY DEF Disk
  <1> HIDE DEF fin, w, q, e
  <1>5. PICK g : /\ Lays(f, CellsFrom(q, <<Number(e - q)>>), g, {q})
                 /\ g \in Disk /\ Len(g) = Len(f)
                 /\ \A k \in 1 .. Len(f) : k # q + 1 => g[k] = f[k]
                 /\ Whole(g, q) /\ ReadAtom(g, q).type = "mdat" /\ End(g, q) = e
                 /\ ReadAtom(g, q).size = e - q - 2
    <2>1. e <= Len(f)
      BY <1>1, <1>4
    <2> QED
      BY <1>1, <2>1, MdatFinished
  <1>6. Lays(f, w, g, Safe(media))
    <2>1. q \in Safe(media)
      BY <1>1, <1>3, MediaApart
    <2>2. {q} \subseteq Safe(media) /\ Safe(media) \in SUBSET Nat
      BY <2>1 DEF Safe
    <2>3. Lays(f, w, g, {q})
      BY <1>2, <1>5
    <2> QED
      BY <2>2, <2>3, LaysAt
  <1>7. Tiles(g, S, 0, x) /\ \A a \in S : a # q => ReadAtom(g, a) = ReadAtom(f, a)
    <2>1. \A k \in 1 .. x : k <= q \/ End(f, q) < k => g[k] = f[k]
      BY <1>1, <1>4, <1>5
    <2>2. x <= Len(g) /\ End(g, q) = End(f, q)
      BY <1>1, <1>5
    <2>3. Tiles(f, S, 0, x) /\ q \in S /\ g \in Disk /\ Whole(g, q)
      BY <1>1, <1>3, <1>5
    <2> HIDE DEF q
    <2> QED
      BY <2>1, <2>2, <2>3, TileReplaced
  <1>8. Stands(g, fin)
    <2>1. Data(fin) = Data(list[m])
      <3>1. Data(fin) = fin.content /\ Data(list[m]) = list[m].content
        BY <1>1, <1>2, DataTyped
      <3> QED
        BY <1>2, <3>1
    <2>2. Fits(fin)
      <3>1. list[m].start + 2 + Len(Data(list[m])) <= list[m].end
        BY <1>3 DEF Stands, Fits
      <3>2. fin.start = list[m].start /\ fin.end = list[m].end
        BY <1>2 DEF q, e
      <3> QED
        BY <2>1, <3>1, <3>2 DEF Fits
    <2> QED
      BY <1>2, <1>5, <2>2 DEF Stands
  <1>9. w \in Writes
    <2>1. e - q \in Nat
      BY <1>1
    <2>2. Number(e - q) \in Cell
      BY <2>1, Cells
    <2>3. <<Number(e - q)>> \in Seq(Cell)
      BY <2>2
    <2> QED
      BY <1>1, <1>2, <2>3, CellsFromTyped DEF Writes
  <1> QED
    BY <1>2, <1>5, <1>6, <1>7, <1>8, <1>9 DEF fin, w, q, e

\* the tree done on h is the one on g and a row of atoms behind it
Longer(g, S, x, rest, done, h, U) ==
    /\ Tree(h, S \cup U, done.atoms, Len(done.atoms), done.position)
    /\ h \in Disk
    /\ \A a \in S : ReadAtom(h, a) = ReadAtom(g, a)
    /\ \A a \in U : /\ x <= a /\ a \in Nat
                    /\ \E j \in 1 .. Len(rest) :
                          /\ ReadAtom(h, a).type = rest[j].type
                          /\ End(h, a) <= rest[j].end

\* a row of atoms written behind a tree makes the tree longer
LEMMA RowTree ==
    ASSUME NEW g \in Disk, NEW S, NEW x \in Nat, NEW base \in Results,
           Tree(g, S, base.atoms, Len(base.atoms), x), NEW rest \in Seq(Atoms),
           NEW done, NEW h, NEW U, NEW w,
           Row(g, x, base, rest, Len(rest), done, h, U, w)
    PROVE  Longer(g, S, x, rest, done, h, U)
  <1> DEFINE before == base.atoms
             b == Len(before)
             k == Len(rest)
             list == done.atoms
             T == S \cup U
             e == done.position
  <1>1. /\ before \in Seq(Atoms) /\ Tiles(g, S, 0, x)
        /\ \A i \in 1 .. b : before[i].start \in S /\ Stands(g, before[i])
        /\ \A j \in 1 .. b : \A i \in 1 .. j - 1 : before[i].end <= before[j].start
        /\ \A a \in S : ~ IsFree(ReadAtom(g, a)) => \E i \in 1 .. b : before[i].start = a
    BY DEF Tree
  <1>2. /\ done \in Results
        /\ Lays(g, w, h, {p \in Nat : x <= p})
        /\ Tiles(h, U, x, e)
        /\ Len(list) = b + k
        /\ \A i \in 1 .. b : list[i] = before[i]
        /\ \A j \in 1 .. k : Laid(h, U, x, list[b + j], rest[j], e)
        /\ \A j \in 1 .. k : \A i \in 1 .. j - 1 : list[b + i].end <= list[b + j].start
        /\ \A a \in U : \E j \in 1 .. k : list[b + j].start = a
    BY DEF Row
  <1>3. list \in Seq(Atoms) /\ b \in Nat /\ k \in Nat /\ e \in Nat
    BY <1>1, <1>2 DEF Results
  <1>4. h \in Disk /\ Len(g) <= Len(h) /\ Len(g) \in Nat /\ Len(h) \in Nat
        /\ \A p \in 1 .. Len(g) : p - 1 \notin {q \in Nat : x <= q} => h[p] = g[p]
    BY <1>2, LaysKeep
  <1>5. Tiles(h, S, 0, x) /\ \A a \in S : ReadAtom(h, a) = ReadAtom(g, a)
    <2>1. x <= Len(g)
      BY <1>1 DEF Tiles
    <2>2. x <= Len(h) /\ \A p \in 0 + 1 .. x : h[p] = g[p]
      <3>1. \A p \in 1 .. x : p - 1 \notin {q \in Nat : x <= q} /\ p \in 1 .. Len(g)
        BY <1>4, <2>1
      <3> QED
        BY <1>4, <2>1, <3>1
    <2> QED
      BY <1>1, <1>4, <2>2, TilesSame
  <1>6. Tiles(h, T, 0, e)
    BY <1>2, <1>4, <1>5, TilesJoin
  <1>7. \A i \in 1 .. b : /\ list[i].start \in S /\ Stands(h, list[i])
                          /\ list[i].end <= x /\ list[i].end \in Nat
    <2> TAKE i \in 1 .. b
    <2>1. list[i] = before[i] /\ before[i].start \in S /\ Stands(g, before[i])
      BY <1>1, <1>2
    <2>2. Stands(h, before[i])
      BY <1>5, <2>1, StandsSame
    <2>3. End(h, before[i].start) <= x /\ End(h, before[i].start) = before[i].end
      BY <1>5, <2>1, <2>2 DEF Tiles, Stands
    <2>4. before[i] \in Atoms
      BY <1>1
    <2>5. before[i].end \in Nat
      BY <2>4 DEF Atoms
    <2> QED
      BY <2>1, <2>2, <2>3, <2>5
  <1>8. \A j \in 1 .. k : /\ list[b + j].start \in U /\ Stands(h, list[b + j])
                          /\ x <= list[b + j].start /\ list[b + j].start \in Nat
                          /\ list[b + j].type = rest[j].type
                          /\ list[b + j].end <= rest[j].end
    <2> TAKE j \in 1 .. k
    <2>1. Laid(h, U, x, list[b + j], rest[j], e)
      BY <1>2
    <2>2. b + j \in 1 .. Len(list)
      BY <1>2, <1>3
    <2>3. list[b + j] \in Atoms
      BY <1>3, <2>2
    <2>4. list[b + j].start \in Nat /\ rest[j] \in Atoms
      <3>1. rest[j] \in Atoms
        OBVIOUS
      <3> HIDE DEF list, b
      <3> QED
        BY <2>3, <3>1 DEF Atoms
    <2> DEFINE s == list[b + j].start
    <2>5. list[b + j] = Written(rest[j], s)
      BY <2>1 DEF Laid
    <2> HIDE DEF s
    <2>6. Written(rest[j], s).type = rest[j].type
      BY <2>4, WrittenAtom DEF s
    <2> QED
      BY <2>1, <2>4, <2>5, <2>6 DEF Laid
  <1>9. \A i \in 1 .. Len(list) : i \in 1 .. b \/ \E j \in 1 .. k : i = b + j
    <2> TAKE i \in 1 .. Len(list)
    <2>1. CASE i <= b
      BY <1>3, <2>1
    <2>2. CASE i > b
      <3>1. i - b \in 1 .. k /\ i = b + (i - b)
        BY <1>2, <1>3, <2>2
      <3> QED
        BY <3>1
    <2> QED
      BY <1>3, <2>1, <2>2
  <1> HIDE DEF list, e, b, k
  <1>10. \A i \in 1 .. Len(list) : list[i].start \in T /\ Stands(h, list[i])
    BY <1>7, <1>8, <1>9
  <1>11. \A j \in 1 .. Len(list) : \A i \in 1 .. j - 1 : list[i].end <= list[j].start
    <2> TAKE j \in 1 .. Len(list)
    <2> TAKE i \in 1 .. j - 1
    <2>0. i \in 1 .. Len(list) /\ i < j /\ Len(list) \in Nat
      BY <1>3
    <2>1. CASE j \in 1 .. b
      <3>1. i \in 1 .. b
        BY <1>3, <2>0, <2>1
      <3>2. before[i].end <= before[j].start
        BY <1>1, <2>1 DEF b
      <3> QED
        BY <1>2, <2>1, <3>1, <3>2
    <2>2. CASE j \notin 1 .. b
      <3>1. PICK l \in 1 .. k : j = b + l
        BY <1>9, <2>2
      <3>2. CASE i \in 1 .. b
        <4>1. list[i].end <= x /\ x <= list[b + l].start
          BY <1>7, <1>8, <3>2
        <4>2. list[i].end \in Nat /\ list[b + l].start \in Nat
          BY <1>7, <1>8, <3>2
        <4> QED
          BY <3>1, <4>1, <4>2
      <3>3. CASE i \notin 1 .. b
        <4>1. PICK r \in 1 .. k : i = b + r
          BY <1>9, <2>0, <3>3
        <4>2. r \in 1 .. l - 1
          BY <1>3, <2>0, <3>1, <4>1
        <4>3. list[b + r].end <= list[b + l].start
          BY <1>2, <4>2
        <4> QED
          BY <3>1, <4>1, <4>3
      <3> QED
        BY <3>2, <3>3
    <2> QED
      BY <2>1, <2>2
  <1>12. \A a \in T : ~ IsFree(ReadAtom(h, a)) => \E i \in 1 .. Len(list) : list[i].start = a
    <2> SUFFICES ASSUME NEW a \in T, ~ IsFree(ReadAtom(h, a))
                 PROVE  \E i \in 1 .. Len(list) : list[i].start = a
      OBVIOUS
    <2>1. CASE a \in S
      <3>1. PICK i \in 1 .. b : before[i].start = a
        BY <1>1, <1>5, <2>1 DEF b
      <3>2. i \in 1 .. Len(list) /\ list[i] = before[i]
        BY <1>2, <1>3
      <3> QED
        BY <3>1, <3>2
    <2>2. CASE a \in U
      <3>1. PICK j \in 1 .. k : list[b + j].start = a
        BY <1>2, <2>2
      <3>2. b + j \in 1 .. Len(list)
        BY <1>2, <1>3
      <3> QED
        BY <3>1, <3>2
    <2> QED
      BY <2>1, <2>2
  <1>13. Tree(h, T, list, Len(list), e)
    <2>1. Len(list) \in 0 .. Len(list)
      BY <1>3
    <2> QED
      BY <1>3, <1>6, <1>10, <1>11, <1>12, <2>1 DEF Tree
  <1>14. \A a \in U : /\ x <= a /\ a \in Nat
                      /\ \E j \in 1 .. k : /\ ReadAtom(h, a).type = rest[j].type
                                           /\ End(h, a) <= rest[j].end
    <2> TAKE a \in U
    <2>1. PICK j \in 1 .. k : list[b + j].start = a
      BY <1>2
    <2>2. /\ Stands(h, list[b + j]) /\ x <= a /\ a \in Nat
          /\ list[b + j].type = rest[j].type /\ list[b + j].end <= rest[j].end
      BY <1>8, <2>1
    <2>3. ReadAtom(h, a).type = list[b + j].type /\ End(h, a) = list[b + j].end
      BY <2>1, <2>2 DEF Stands
    <2> QED
      BY <2>2, <2>3
  <1> QED
    BY <1>4, <1>5, <1>13, <1>14 DEF list, e, b, k, Longer

\* the tree before the m-th atom, and that atom finished, if it is not empty
Before(list, m) ==
    LET fin == FinishedMdat(list[m], list[m].end)
    IN  IF fin.size = 0 THEN SubSeq(list, 1, m - 1)
        ELSE Append(SubSeq(list, 1, m - 1), fin)

\* on the disk g the last mdat of f has been finished, and T tiles what is before x0
Begun(f, S, list, x, m, P, g, T) ==
    LET q == list[m].start
        e == list[m].end
        x0 == Behind(list[m])
        before == Before(list, m)
    IN  /\ Lays(f, FinishMdatWrites(list[m], e), g, P)
        /\ FinishMdatWrites(list[m], e) \in Writes
        /\ g \in Disk /\ Tree(g, T, before, Len(before), x0)
        /\ x0 \in Nat /\ x0 <= x /\ x0 <= Len(g)
        /\ m - 1 <= Len(before)
        /\ \A i \in 1 .. m - 1 : before[i] = list[i]
        /\ \A a \in S : a < q => a \in T
        /\ \A a \in T : /\ a # q => a \in S /\ ReadAtom(g, a) = ReadAtom(f, a)
                        /\ a = q => /\ ReadAtom(g, a).type = "mdat"
                                    /\ End(g, a) = e
                                    /\ ReadAtom(g, a).size = e - q - 2
        /\ e # q + 2 => q \in T
        /\ e = q + 2 <=> FinishedMdat(list[m], e).size = 0
        /\ x0 = IF FinishedMdat(list[m], e).size = 0 THEN q ELSE e

\* the tree up to the last mdat, on the disk on which it has been finished
LEMMA BeforeTree ==
    ASSUME NEW f \in Disk, NEW S, NEW list, NEW x,
           Tree(f, S, list, Len(list), x),
           NEW media \in SUBSET Nat, NEW limit \in Int, Orderly(f, S, media, limit),
           NEW m \in 1 .. Len(list), list[m].type = "mdat",
           \A i \in m + 1 .. Len(list) : list[i].type # "mdat"
    PROVE  \E g, T : Begun(f, S, list, x, m, Safe(media), g, T)
  <1> DEFINE q == list[m].start
             e == list[m].end
             x0 == Behind(list[m])
             fin == FinishedMdat(list[m], e)
             front == SubSeq(list, 1, m - 1)
             before == Before(list, m)
             w == FinishMdatWrites(list[m], e)
  <1>0. /\ Tree(f, S, list, Len(list), x) /\ Orderly(f, S, media, limit)
        /\ list[m].type = "mdat" /\ \A i \in m + 1 .. Len(list) : list[i].type # "mdat"
    OBVIOUS
  <1>1. /\ list[m] \in Atoms /\ q \in S /\ q \in Nat /\ e \in Nat /\ x \in Nat
        /\ q + 2 <= e /\ e <= q + MaxSize /\ e <= x /\ x <= Len(f)
        /\ End(f, q) = e /\ e \in S \cup {x}
        /\ ReadAtom(f, q).type = "mdat" /\ Whole(f, q)
    <2>2. LET q0 == list[m].start
              e0 == list[m].end
          IN  /\ list[m] \in Atoms /\ q0 \in S /\ q0 \in Nat /\ e0 \in Nat /\ x \in Nat
              /\ q0 + 2 <= e0 /\ e0 <= q0 + MaxSize /\ e0 <= x /\ x <= Len(f)
              /\ End(f, q0) = e0 /\ e0 \in S \cup {x}
              /\ ReadAtom(f, q0).type = "mdat" /\ Whole(f, q0)
              /\ CellAt(f, q0 + 1) = Type("mdat")
              /\ \A at \in media : at <= Behind(list[m])
      BY <1>0, LastMdatParts, Zenon
    <2> QED
      BY <2>2
  <1>2. PICK g : /\ Lays(f, w, g, Safe(media))
                 /\ g \in Disk /\ Tiles(g, S, 0, x)
                 /\ \A a \in S : a # q => ReadAtom(g, a) = ReadAtom(f, a)
                 /\ ReadAtom(g, q).type = "mdat" /\ End(g, q) = e
                 /\ ReadAtom(g, q).size = e - q - 2
                 /\ Stands(g, fin) /\ fin \in Atoms /\ fin.start = q /\ fin.end = e
                 /\ fin.size = e - q - 2
                 /\ w \in Writes
    <2>1. LET q0 == list[m].start
              e0 == list[m].end
          IN  \E g : /\ Lays(f, FinishMdatWrites(list[m], e0), g, Safe(media))
                     /\ g \in Disk /\ Tiles(g, S, 0, x)
                     /\ \A a \in S : a # q0 => ReadAtom(g, a) = ReadAtom(f, a)
                     /\ ReadAtom(g, q0).type = "mdat" /\ End(g, q0) = e0
                     /\ ReadAtom(g, q0).size = e0 - q0 - 2
                     /\ Stands(g, FinishedMdat(list[m], e0))
                     /\ FinishedMdat(list[m], e0) \in Atoms
                     /\ FinishedMdat(list[m], e0).start = q0
                     /\ FinishedMdat(list[m], e0).end = e0
                     /\ FinishedMdat(list[m], e0).size = e0 - q0 - 2
                     /\ FinishMdatWrites(list[m], e0) \in Writes
      BY <1>0, MdatAgain, Zenon
    <2> QED
      BY <2>1, Zenon
  <1>3. /\ list \in Seq(Atoms) /\ Len(list) \in Nat
        /\ \A i \in 1 .. Len(list) : list[i].start \in S /\ Stands(f, list[i])
        /\ \A j \in 1 .. Len(list) : \A i \in 1 .. j - 1 : list[i].end <= list[j].start
        /\ \A a \in S : ~ IsFree(ReadAtom(f, a)) =>
                           \E i \in 1 .. Len(list) : list[i].start = a
    BY <1>0 DEF Tree
  <1>4. /\ front \in Seq(Atoms) /\ Len(front) = m - 1
        /\ \A i \in 1 .. m - 1 : front[i] = list[i]
    BY <1>3
  <1>5. m \in Nat /\ m - 1 \in Nat /\ \A i \in 1 .. m - 1 : i \in 1 .. Len(list)
    BY <1>3
  <1> HIDE DEF fin, w, front
  <1>6. \A a \in S : /\ a \in Nat /\ End(g, a) \in Nat /\ a < End(g, a) /\ End(g, a) <= x
                     /\ a < q => End(g, a) <= q
    <2> TAKE a \in S
    <2>1. a \in Nat /\ End(g, a) \in Nat /\ a + 2 <= End(g, a)
      BY <1>2, TileEnds
    <2>2. End(g, a) <= x /\ (a < q => End(g, a) <= q)
      BY <1>1, <1>2 DEF Tiles
    <2> QED
      BY <2>1, <2>2
  <1> DEFINE F == {a \in S : a < q}
  <1>7. Tiles(g, F, 0, q)
    BY <1>1, <1>2, TilesCut
  <1>8. Tree(g, F, front, Len(front), q)
    <2>1. \A i \in 1 .. m - 1 : front[i].start \in F /\ Stands(g, front[i])
      <3> TAKE i \in 1 .. m - 1
      <3>1. front[i] = list[i] /\ list[i].start \in S /\ Stands(f, list[i])
            /\ list[i].end <= q
        BY <1>3, <1>4, <1>5
      <3>2. list[i].end = End(f, list[i].start)
        BY <3>1 DEF Stands
      <3>3. list[i].start # q
        BY <1>1, <3>1, <3>2
      <3>4. ReadAtom(g, list[i].start) = ReadAtom(f, list[i].start)
        BY <1>2, <3>1, <3>3
      <3>5. Stands(g, list[i])
        BY <3>1, <3>4, StandsSame
      <3>6. End(g, list[i].start) <= q
        BY <3>1, <3>2, <3>4 DEF End
      <3>7. list[i].start < q
        BY <1>1, <1>6, <3>1, <3>6
      <3> QED
        BY <3>1, <3>5, <3>7
    <2>2. \A j \in 1 .. m - 1 : \A i \in 1 .. j - 1 : front[i].end <= front[j].start
      <3> TAKE j \in 1 .. m - 1
      <3> TAKE i \in 1 .. j - 1
      <3>1. i \in 1 .. m - 1 /\ j \in 1 .. Len(list)
        BY <1>5
      <3> QED
        BY <1>3, <1>4, <3>1
    <2>3. \A a \in F : ~ IsFree(ReadAtom(g, a)) => \E i \in 1 .. m - 1 : front[i].start = a
      <3> SUFFICES ASSUME NEW a \in F, ~ IsFree(ReadAtom(g, a))
                   PROVE  \E i \in 1 .. m - 1 : front[i].start = a
        OBVIOUS
      <3>1. a \in S /\ a < q /\ a # q /\ a \in Nat
        BY <1>1, <1>6
      <3>2. ReadAtom(g, a) = ReadAtom(f, a)
        BY <1>2, <3>1
      <3>3. PICK i \in 1 .. Len(list) : list[i].start = a
        BY <1>3, <3>1, <3>2
      <3>4. i \in 1 .. m - 1
        <4>1. CASE i = m
          BY <3>1, <3>3, <4>1
        <4>2. CASE i > m
          <5>1. m \in 1 .. i - 1
            BY <1>5, <4>2
          <5>2. e <= a
            BY <1>3, <3>3, <5>1
          <5> QED
            BY <1>1, <3>1, <5>2
        <4> QED
          BY <1>5, <4>1, <4>2
      <3> QED
        BY <1>4, <3>3, <3>4
    <2>4. m - 1 \in 0 .. Len(front)
      BY <1>4, <1>5
    <2> HIDE DEF F
    <2> QED
      BY <1>4, <1>7, <2>1, <2>2, <2>3, <2>4 DEF Tree
  <1>9. e = q + 2 <=> fin.size = 0
    BY <1>1, <1>2
  <1>10. x0 = IF fin.size = 0 THEN q ELSE e
    BY <1>9 DEF Behind
  <1>11. Len(f) <= Len(g) /\ Len(f) \in Nat /\ Len(g) \in Nat
    BY <1>2, LaysKeep
  <1>12. \A a \in F : a \in S /\ ReadAtom(g, a) = ReadAtom(f, a) /\ a # q
    <2>1. \A a \in F : a \in S /\ a # q
      BY <1>1
    <2> QED
      BY <1>2, <2>1
  <1>13. \A a \in S : a < q => a \in F
    OBVIOUS
  <1>14. CASE fin.size = 0
    <2>1. before = front /\ x0 = q
      BY <1>10, <1>14 DEF Before, fin, front
    <2>2. e = q + 2
      BY <1>9, <1>14
    <2>3. x0 \in Nat /\ x0 <= x /\ x0 <= Len(g)
      BY <1>1, <1>11, <2>1
    <2> HIDE DEF F, before, x0
    <2>4. Tree(g, F, before, Len(before), x0) /\ m - 1 <= Len(before)
          /\ \A i \in 1 .. m - 1 : before[i] = list[i]
      BY <1>4, <1>5, <1>8, <2>1
    <2>5. \A a \in F : /\ a # q => a \in S /\ ReadAtom(g, a) = ReadAtom(f, a)
                       /\ a = q => /\ ReadAtom(g, a).type = "mdat"
                                   /\ End(g, a) = e
                                   /\ ReadAtom(g, a).size = e - q - 2
      BY <1>12
    <2> HIDE DEF q, e
    <2> QED
      BY <1>2, <1>9, <1>10, <1>13, <2>2, <2>3, <2>4, <2>5
      DEF fin, w, before, x0, q, e, Begun
  <1>15. CASE fin.size # 0
    <2> DEFINE T == F \cup {q}
    <2>1. before = Append(front, fin) /\ x0 = e
      BY <1>10, <1>15 DEF Before, fin, front
    <2>2. e # q + 2
      BY <1>9, <1>15
    <2>3. x0 \in Nat /\ x0 <= x /\ x0 <= Len(g)
      BY <1>1, <1>11, <2>1
    <2>4. Whole(g, q)
      BY <1>1, <1>2 DEF Tiles
    <2>5. q <= Len(g) /\ \A p \in 1 .. q : g[p] = g[p]
      BY <1>1, <1>11
    <2> HIDE DEF F, before, x0
    <2>6. Tree(g, T, Append(front, fin), Len(Append(front, fin)), fin.end)
      <3>1. fin \in Atoms /\ fin.start = q /\ Stands(g, fin) /\ g \in Disk
        BY <1>2
      <3>2. q \in Nat
        BY <1>1
      <3> HIDE DEF q, T
      <3>3. Tree(g, F \cup {q}, Append(front, fin), Len(Append(front, fin)), fin.end)
        <4>1. Tree(g, F, front, Len(front), q) /\ g \in Disk /\ q <= Len(g)
          BY <1>8, <2>5, <3>1
        <4>2. \A p \in 1 .. q : g[p] = g[p]
          OBVIOUS
        <4>3. fin \in Atoms /\ fin.start = q /\ Whole(g, q) /\ Stands(g, fin)
          BY <2>4, <3>1
        <4> HIDE DEF fin, front
        <4> QED
          BY <4>1, <4>2, <4>3, TreeMore
      <3> QED
        BY <3>3 DEF T
    <2>7. /\ Len(Append(front, fin)) = m - 1 + 1
          /\ \A i \in 1 .. m - 1 : Append(front, fin)[i] = front[i]
      BY <1>2, <1>4, Appended
    <2>8. Tree(g, T, before, Len(before), x0) /\ m - 1 <= Len(before)
          /\ \A i \in 1 .. m - 1 : before[i] = list[i]
      <3>1. Tree(g, T, before, Len(before), x0)
        BY <1>2, <2>1, <2>6
      <3>2. m - 1 <= Len(before)
        BY <1>5, <2>1, <2>7
      <3> QED
        BY <1>4, <2>1, <2>7, <3>1, <3>2
    <2>9. \A a \in T : /\ a # q => a \in S /\ ReadAtom(g, a) = ReadAtom(f, a)
                       /\ a = q => /\ ReadAtom(g, a).type = "mdat"
                                   /\ End(g, a) = e
                                   /\ ReadAtom(g, a).size = e - q - 2
      BY <1>2, <1>12
    <2>10. q \in T /\ \A a \in S : a < q => a \in T
      BY <1>13
    <2> HIDE DEF q, e, T
    <2> QED
      BY <1>2, <1>9, <1>10, <2>2, <2>3, <2>8, <2>9, <2>10
      DEF fin, w, before, x0, q, e, Begun
  <1> QED
    BY <1>14, <1>15

LEMMA RootTyped ==
    ASSUME NEW list \in Seq(Atoms), NEW at, NEW m \in 1 .. Len(list), LastMdat(list) = m,
           Before(list, m) \in Seq(Atoms), at = list[m].end,
           FinishMdatWrites(list[m], at) \in Writes, Behind(list[m]) \in Nat,
           Behind(list[m]) = IF FinishedMdat(list[m], at).size = 0 THEN list[m].start
                             ELSE at,
           FinishedMdat(list[m], at).size = 0 => FinishedMdat(list[m], at).start = list[m].start
    PROVE  LET base == [atoms |-> Before(list, m), writes |-> FinishMdatWrites(list[m], at),
                        position |-> Behind(list[m])]
           IN  /\ base \in Results
               /\ RootFinish(list, at) =
                    FoldLeft(Rewrite, base, SubSeq(list, m + 1, Len(list)))
  <1> DEFINE fin == FinishedMdat(list[m], at)
             front == SubSeq(list, 1, m - 1)
             before == IF fin.size = 0 THEN front ELSE Append(front, fin)
             place == IF fin.size = 0 THEN fin.start ELSE at
             w == FinishMdatWrites(list[m], at)
             base == [atoms |-> Before(list, m), writes |-> w, position |-> Behind(list[m])]
             rest == SubSeq(list, m + 1, Len(list))
  <1>1. before = Before(list, m)
    BY DEF Before
  <1>2. place = Behind(list[m])
    OBVIOUS
  <1>3. RootFinish(list, at) =
          FoldLeft(Rewrite, [atoms |-> before, writes |-> w, position |-> place], rest)
    BY DEF RootFinish
  <1>4. base \in Results
    BY DEF Results, Writes
  <1> HIDE DEF before, place, rest, w
  <1>5. [atoms |-> before, writes |-> w, position |-> place] = base
    BY <1>1, <1>2
  <1> HIDE DEF base
  <1>6. RootFinish(list, at) = FoldLeft(Rewrite, base, rest)
    BY <1>3, <1>5
  <1> QED
    BY <1>4, <1>6 DEF base, rest, w

\* the root finished once more: h is what the writes make of f, and T tiles its tree
Again(f, S, list, x, P, m, h, T) ==
    LET q == list[m].start
        done == RootFinish(list, list[m].end)
    IN  /\ Lays(f, done.writes, h, P) /\ h \in Disk
        /\ Tree(h, T, done.atoms, Len(done.atoms), done.position)
        /\ done.position <= x /\ m - 1 <= Len(done.atoms)
        /\ \A i \in 1 .. m - 1 : done.atoms[i] = list[i]
        /\ \A a \in S : a < q => a \in T
        /\ \A a \in T : a < q => a \in S /\ ReadAtom(h, a) = ReadAtom(f, a)
        /\ \A a \in T : \/ a < q
                        \/ /\ a = q /\ ReadAtom(h, a).type = "mdat"
                           /\ End(h, a) = list[m].end
                           /\ ReadAtom(h, a).size = list[m].end - q - 2
                        \/ /\ q <= a
                           /\ \E j \in m + 1 .. Len(list) :
                                 /\ ReadAtom(h, a).type = list[j].type
                                 /\ End(h, a) <= list[j].end
        /\ list[m].end # q + 2 => q \in T /\ ReadAtom(h, q).type = "mdat"
                                  /\ End(h, q) = list[m].end
                                  /\ ReadAtom(h, q).size = list[m].end - q - 2

LEMMA RootAgain ==
    ASSUME NEW f \in Disk, NEW S, NEW list, NEW x,
           Tree(f, S, list, Len(list), x),
           NEW media \in SUBSET Nat, NEW limit \in Int, Orderly(f, S, media, limit),
           NEW m \in 1 .. Len(list), list[m].type = "mdat",
           \A i \in m + 1 .. Len(list) : list[i].type # "mdat"
    PROVE  LET done == RootFinish(list, list[m].end)
           IN  /\ done \in Results
               /\ \E h, T : Again(f, S, list, x, Safe(media), m, h, T)
  <1> DEFINE q == list[m].start
             e == list[m].end
             x0 == Behind(list[m])
             before == Before(list, m)
             w == FinishMdatWrites(list[m], e)
             base == [atoms |-> before, writes |-> w, position |-> x0]
             rest == SubSeq(list, m + 1, Len(list))
             done == RootFinish(list, e)
             n == Len(list)
             fin == FinishedMdat(list[m], e)
  <1>0. /\ Tree(f, S, list, Len(list), x) /\ Orderly(f, S, media, limit)
        /\ list[m].type = "mdat" /\ \A i \in m + 1 .. Len(list) : list[i].type # "mdat"
    OBVIOUS
  <1>1. /\ list[m] \in Atoms /\ q \in S /\ q \in Nat /\ e \in Nat /\ x \in Nat
        /\ q + 2 <= e /\ e <= q + MaxSize /\ e <= x
        /\ End(f, q) = e /\ \A at \in media : at <= x0
    <2>2. LET q0 == list[m].start
              e0 == list[m].end
          IN  /\ list[m] \in Atoms /\ q0 \in S /\ q0 \in Nat /\ e0 \in Nat /\ x \in Nat
              /\ q0 + 2 <= e0 /\ e0 <= q0 + MaxSize /\ e0 <= x /\ x <= Len(f)
              /\ End(f, q0) = e0 /\ e0 \in S \cup {x}
              /\ ReadAtom(f, q0).type = "mdat" /\ Whole(f, q0)
              /\ CellAt(f, q0 + 1) = Type("mdat")
              /\ \A at \in media : at <= Behind(list[m])
      BY <1>0, LastMdatParts, Zenon
    <2> QED
      BY <2>2
  <1>2. PICK g, T0 : /\ Lays(f, w, g, Safe(media)) /\ w \in Writes
                     /\ g \in Disk /\ Tree(g, T0, before, Len(before), x0)
                     /\ x0 \in Nat /\ x0 <= x /\ x0 <= Len(g)
                     /\ m - 1 <= Len(before)
                     /\ \A i \in 1 .. m - 1 : before[i] = list[i]
                     /\ \A a \in S : a < q => a \in T0
                     /\ \A a \in T0 : /\ a # q => a \in S /\ ReadAtom(g, a) = ReadAtom(f, a)
                                      /\ a = q => /\ ReadAtom(g, a).type = "mdat"
                                                  /\ End(g, a) = e
                                                  /\ ReadAtom(g, a).size = e - q - 2
                     /\ e # q + 2 => q \in T0
                     /\ e = q + 2 <=> fin.size = 0
                     /\ x0 = IF fin.size = 0 THEN q ELSE e
    <2>1. PICK g, T0 : Begun(f, S, list, x, m, Safe(media), g, T0)
      BY <1>0, BeforeTree
    <2> QED
      BY <2>1, Zenon DEF Begun
  <1>3. /\ list \in Seq(Atoms) /\ n \in Nat
        /\ \A i \in 1 .. n : list[i].start \in S /\ Stands(f, list[i])
        /\ \A j \in 1 .. n : \A i \in 1 .. j - 1 : list[i].end <= list[j].start
        /\ Tiles(f, S, 0, x)
    BY <1>0 DEF Tree
  <1>4. LastMdat(list) = m
    BY <1>3, LastMdatIs
  <1>5. before \in Seq(Atoms)
    BY <1>2 DEF Tree
  <1>6. fin.start = q
    <2>1. q + 2 <= e /\ e <= q + MaxSize
      BY <1>1
    <2> QED
      BY <1>1, <2>1, FinishedAtom
  <1>7. base \in Results /\ done = FoldLeft(Rewrite, base, rest)
    BY <1>2, <1>3, <1>4, <1>5, <1>6, RootTyped
  <1>8. base.atoms = before /\ base.position = x0 /\ base.writes = w
    BY Zenon
  <1>9. rest \in Seq(Atoms) /\ Len(rest) = n - m /\ m \in Nat
        /\ \A j \in 1 .. n - m : rest[j] = list[m + j]
    BY <1>3
  <1> HIDE DEF rest, base, done, before, w, n
  <1>10. InRow(rest, x0)
    <2>1. \A j \in 1 .. Len(rest) : rest[j] = list[m + j] /\ m + j \in 1 .. n
      BY <1>3, <1>9
    <2>2. \A j \in 1 .. Len(rest) : Fits(rest[j])
      BY <1>3, <2>1 DEF Stands
    <2>3. \A j \in 1 .. Len(rest) : x0 <= rest[j].start
      <3> TAKE j \in 1 .. Len(rest)
      <3>1. m \in 1 .. (m + j) - 1
        BY <1>3, <1>9
      <3>2. e <= list[m + j].start
        BY <1>3, <2>1, <3>1
      <3>3. rest[j] = list[m + j] /\ list[m + j] \in Atoms
        <4>1. rest[j] \in Atoms
          BY <1>9
        <4> QED
          BY <2>1, <4>1
      <3>4. list[m + j].start \in Nat
        BY <3>3 DEF Atoms
      <3> HIDE DEF x0, q, e
      <3>5. x0 <= e /\ x0 \in Nat /\ e \in Nat
        BY <1>1, <1>2
      <3>6. rest[j].start = list[m + j].start
        BY <3>3
      <3> QED
        BY <3>2, <3>4, <3>5, <3>6
    <2>4. \A j \in 1 .. Len(rest) : \A i \in 1 .. j - 1 : rest[i].end <= rest[j].start
      <3> TAKE j \in 1 .. Len(rest)
      <3> TAKE i \in 1 .. j - 1
      <3>1. i \in 1 .. Len(rest) /\ m + i \in 1 .. (m + j) - 1
        BY <1>3, <1>9
      <3>2. list[m + i].end <= list[m + j].start
        BY <1>3, <2>1, <3>1
      <3> QED
        BY <2>1, <3>1, <3>2
    <2> QED
      BY <2>2, <2>3, <2>4 DEF InRow
  <1>11. PICK h, U, u : Row(g, x0, base, rest, Len(rest), done, h, U, u)
    <2> HIDE DEF x0
    <2>1. base.position <= Len(g) /\ InRow(rest, base.position) /\ g \in Disk
      BY <1>2, <1>8, <1>10
    <2>2. \E h, U, u : Row(g, base.position, base, rest, Len(rest),
                           FoldLeft(Rewrite, base, rest), h, U, u)
      BY <1>7, <1>9, <2>1, RowWritten
    <2> QED
      BY <1>7, <1>8, <2>2
  <1> DEFINE T == T0 \cup U
  <1>12. /\ Tree(h, T, done.atoms, Len(done.atoms), done.position)
         /\ h \in Disk
         /\ \A a \in T0 : ReadAtom(h, a) = ReadAtom(g, a)
         /\ \A a \in U : /\ x0 <= a /\ a \in Nat
                         /\ \E j \in 1 .. Len(rest) :
                               /\ ReadAtom(h, a).type = rest[j].type
                               /\ End(h, a) <= rest[j].end
    <2> HIDE DEF x0
    <2>1. Tree(g, T0, base.atoms, Len(base.atoms), x0) /\ g \in Disk /\ x0 \in Nat
      BY <1>2, <1>8
    <2>2. base \in Results /\ rest \in Seq(Atoms)
      BY <1>7, <1>9
    <2> HIDE DEF T, q, e, fin
    <2>3. Longer(g, T0, x0, rest, done, h, U)
      BY <1>11, <2>1, <2>2, RowTree
    <2> QED
      BY <2>3 DEF T, Longer
  <1>13. /\ done \in Results /\ u \in Writes /\ done.writes = w \o u
         /\ Lays(g, u, h, {p \in Nat : x0 <= p})
         /\ Len(rest) = 0 => done.position = x0
         /\ Len(rest) # 0 => done.position <= rest[Len(rest)].end
         /\ Len(done.atoms) = Len(before) + Len(rest)
         /\ \A i \in 1 .. Len(before) : done.atoms[i] = before[i]
    <2> HIDE DEF x0
    <2> QED
      BY <1>8, <1>11 DEF Row
  <1>14. Lays(f, done.writes, h, Safe(media))
    <2>1. {p \in Nat : x0 <= p} \subseteq Safe(media)
      <3>1. \A at \in media : at <= x0 /\ at \in Nat
        BY <1>1
      <3> HIDE DEF x0
      <3>2. \A p \in Nat : x0 <= p => p + 1 \notin media
        BY <1>2, <3>1
      <3> QED
        BY <3>2 DEF Safe
    <2>2. Safe(media) \in SUBSET Nat
      BY DEF Safe
    <2>3. Lays(g, u, h, Safe(media))
      BY <1>13, <2>1, <2>2, LaysAt
    <2>4. Lays(f, w \o u, h, Safe(media) \cup Safe(media))
      BY <1>2, <2>3, LaysJoin
    <2>5. Safe(media) \cup Safe(media) = Safe(media)
      OBVIOUS
    <2> QED
      BY <1>13, <2>4, <2>5
  <1>15. done.position <= x
    <2> HIDE DEF x0
    <2>1. CASE Len(rest) = 0
      BY <1>2, <1>13, <2>1
    <2>2. CASE Len(rest) # 0
      <3>1. Len(rest) \in 1 .. n - m /\ m + Len(rest) = n /\ n \in 1 .. n
        BY <1>3, <1>9, <2>2
      <3>2. rest[Len(rest)] = list[n]
        BY <1>9, <3>1
      <3>3. list[n].end = End(f, list[n].start) /\ list[n].start \in S
        BY <1>3, <3>1 DEF Stands
      <3>4. End(f, list[n].start) <= x
        BY <1>3, <3>3 DEF Tiles
      <3>5. done.position \in Nat /\ End(f, list[n].start) \in Nat
        BY <1>3, <1>13, <3>3, TileEnds DEF Results
      <3> QED
        BY <1>1, <1>13, <2>2, <3>2, <3>3, <3>4, <3>5
    <2> QED
      BY <2>1, <2>2
  <1>16. /\ m - 1 <= Len(done.atoms)
         /\ \A i \in 1 .. m - 1 : done.atoms[i] = list[i]
    <2>1. Len(before) \in Nat /\ Len(rest) \in Nat
      BY <1>5, <1>9
    <2>2. m - 1 <= Len(done.atoms)
      BY <1>2, <1>9, <1>13, <2>1
    <2>3. \A i \in 1 .. m - 1 : i \in 1 .. Len(before)
      BY <1>2, <1>9, <2>1
    <2> QED
      BY <1>2, <1>13, <2>2, <2>3
  <1>17. \A a \in T0 : a \in Nat /\ (a < q \/ a = q)
    <2> TAKE a \in T0
    <2>1. Tiles(g, T0, 0, x0)
      BY <1>2 DEF Tree
    <2>2. a \in Nat /\ a < x0
      BY <1>2, <2>1, TileEnds
    <2>3. CASE a # q
      <3>1. a \in S
        BY <1>2, <2>3
      <3>2. q < a => e <= a
        BY <1>1, <1>3, <3>1 DEF Tiles
      <3> HIDE DEF x0, q, e
      <3>3. x0 <= e
        BY <1>1, <1>2
      <3> QED
        BY <1>1, <1>2, <2>2, <2>3, <3>2, <3>3
    <2> QED
      BY <2>2, <2>3
  <1>18. \A a \in U : a \in Nat /\ q <= a
    <2> HIDE DEF x0, q, e
    <2>1. q <= x0
      BY <1>1, <1>2
    <2>2. \A a \in U : a \in Nat /\ x0 <= a
      BY <1>12
    <2> QED
      BY <1>1, <1>2, <2>1, <2>2
  <1>19. \A a \in T : a < q => a \in S /\ ReadAtom(h, a) = ReadAtom(f, a)
    <2> TAKE a \in T
    <2> SUFFICES ASSUME a < q PROVE a \in S /\ ReadAtom(h, a) = ReadAtom(f, a)
      OBVIOUS
    <2> HIDE DEF q
    <2>1. a \in T0 /\ a # q
      BY <1>1, <1>17, <1>18
    <2> QED
      BY <1>2, <1>12, <2>1
  <1>20. \A a \in T : \/ a < q
                      \/ /\ a = q /\ ReadAtom(h, a).type = "mdat"
                         /\ End(h, a) = e
                         /\ ReadAtom(h, a).size = e - q - 2
                      \/ /\ q <= a
                         /\ \E j \in m + 1 .. n :
                               /\ ReadAtom(h, a).type = list[j].type
                               /\ End(h, a) <= list[j].end
    <2> TAKE a \in T
    <2> HIDE DEF q, e, x0
    <2>1. CASE a \in T0
      <3>1. ReadAtom(h, a) = ReadAtom(g, a)
        BY <1>12, <2>1
      <3>2. CASE a = q
        BY <1>2, <2>1, <3>1, <3>2 DEF End
      <3> QED
        BY <1>17, <2>1, <3>2
    <2>2. CASE a \in U
      <3>1. PICK j \in 1 .. Len(rest) : /\ ReadAtom(h, a).type = rest[j].type
                                        /\ End(h, a) <= rest[j].end
        BY <1>12, <2>2
      <3>2. rest[j] = list[m + j] /\ m + j \in m + 1 .. n
        BY <1>3, <1>9
      <3> QED
        BY <1>18, <2>2, <3>1, <3>2
    <2> QED
      BY <2>1, <2>2
  <1>21. e # q + 2 => q \in T /\ ReadAtom(h, q).type = "mdat" /\ End(h, q) = e
                      /\ ReadAtom(h, q).size = e - q - 2
    <2> SUFFICES ASSUME e # q + 2
                 PROVE  q \in T /\ ReadAtom(h, q).type = "mdat" /\ End(h, q) = e
                        /\ ReadAtom(h, q).size = e - q - 2
      OBVIOUS
    <2> HIDE DEF q, e, x0
    <2>1. q \in T0
      BY <1>2
    <2>2. ReadAtom(h, q) = ReadAtom(g, q)
      BY <1>12, <2>1
    <2> QED
      BY <1>2, <2>1, <2>2 DEF End
  <1>22. \A a \in S : a < q => a \in T
    BY <1>2
  <1> HIDE DEF q, e, x0, T
  <1>23. \E k, V : /\ Lays(f, done.writes, k, Safe(media)) /\ k \in Disk
                   /\ Tree(k, V, done.atoms, Len(done.atoms), done.position)
                   /\ done.position <= x /\ m - 1 <= Len(done.atoms)
                   /\ \A i \in 1 .. m - 1 : done.atoms[i] = list[i]
                   /\ \A a \in S : a < q => a \in V
                   /\ \A a \in V : a < q => a \in S /\ ReadAtom(k, a) = ReadAtom(f, a)
                   /\ \A a \in V : \/ a < q
                                   \/ /\ a = q /\ ReadAtom(k, a).type = "mdat"
                                      /\ End(k, a) = e
                                      /\ ReadAtom(k, a).size = e - q - 2
                                   \/ /\ q <= a
                                      /\ \E j \in m + 1 .. n :
                                            /\ ReadAtom(k, a).type = list[j].type
                                            /\ End(k, a) <= list[j].end
                   /\ e # q + 2 => q \in V /\ ReadAtom(k, q).type = "mdat"
                                   /\ End(k, q) = e
                                   /\ ReadAtom(k, q).size = e - q - 2
    BY <1>12, <1>14, <1>15, <1>16, <1>19, <1>20, <1>21, <1>22
  <1>24. \E k, V : Again(f, S, list, x, Safe(media), m, k, V)
    BY <1>23, Zenon DEF done, q, e, n, Again
  <1> QED
    BY <1>13, <1>24, Zenon DEF done, e

\* a complete tree with moov before the last mdat stays complete
LEMMA FinishedAgain ==
    ASSUME NEW f \in Disk, NEW S, NEW list, NEW x,
           Tree(f, S, list, Len(list), x),
           NEW media \in SUBSET Nat, NEW limit \in Int, Orderly(f, S, media, limit),
           x <= limit,
           NEW m \in 1 .. Len(list), list[m].type = "mdat",
           \A k \in m + 1 .. Len(list) : list[k].type # "mdat",
           NEW i \in 1 .. m - 1, NEW v,
           list[i].type = "moov", list[i].size > 0,
           list[i].content = MoovData(v, list[i].size),
           OneMoov(f, S, list[i].start), IsMovie(f, list[i].start, v)
    PROVE  LET done == RootFinish(list, list[m].end)
           IN  /\ done \in Results
               /\ \E h, T : /\ Lays(f, done.writes, h, Safe(media))
                            /\ Complete(h, T, done.atoms, done.position, media, limit, v)
  <1> DEFINE q == list[m].start
             e == list[m].end
             mo == list[i].start
             n == Len(list)
             done == RootFinish(list, e)
  <1>0. /\ Tree(f, S, list, Len(list), x) /\ Orderly(f, S, media, limit)
        /\ list[m].type = "mdat" /\ \A k \in m + 1 .. Len(list) : list[k].type # "mdat"
    OBVIOUS
  <1>1. /\ q \in S /\ q \in Nat /\ e \in Nat /\ x \in Nat
        /\ q + 2 <= e /\ e <= q + MaxSize /\ e <= x
        /\ End(f, q) = e /\ \A at \in media : at <= Behind(list[m])
    <2>2. LET q0 == list[m].start
              e0 == list[m].end
          IN  /\ list[m] \in Atoms /\ q0 \in S /\ q0 \in Nat /\ e0 \in Nat /\ x \in Nat
              /\ q0 + 2 <= e0 /\ e0 <= q0 + MaxSize /\ e0 <= x /\ x <= Len(f)
              /\ End(f, q0) = e0 /\ e0 \in S \cup {x}
              /\ ReadAtom(f, q0).type = "mdat" /\ Whole(f, q0)
              /\ CellAt(f, q0 + 1) = Type("mdat")
              /\ \A at \in media : at <= Behind(list[m])
      BY <1>0, LastMdatParts, Zenon
    <2> QED
      BY <2>2
  <1>2. /\ list \in Seq(Atoms) /\ n \in Nat /\ m \in Nat /\ i \in 1 .. n
        /\ \A k \in 1 .. n : list[k].start \in S /\ Stands(f, list[k])
        /\ \A j \in 1 .. n : \A k \in 1 .. j - 1 : list[k].end <= list[j].start
        /\ Tiles(f, S, 0, x)
    BY <1>0 DEF Tree
  <1>3. mo \in S /\ mo \in Nat /\ list[i].end \in Nat /\ mo < list[i].end /\ mo < q
    <2>1. mo \in S /\ list[i].end = End(f, mo) /\ list[i].end <= q
      BY <1>2 DEF Stands
    <2>2. mo \in Nat /\ End(f, mo) \in Nat /\ mo + 2 <= End(f, mo)
      BY <1>2, <2>1, TileEnds
    <2>3. q \in Nat /\ list[i].end \in Nat
      BY <1>1, <2>1, <2>2
    <2> HIDE DEF q
    <2> QED
      BY <2>1, <2>2, <2>3
  <1>4. done \in Results
    BY <1>0, RootAgain
  <1>5. PICK h, T : Again(f, S, list, x, Safe(media), m, h, T)
    BY <1>0, RootAgain
  <1>6. /\ Lays(f, done.writes, h, Safe(media)) /\ h \in Disk
        /\ Tree(h, T, done.atoms, Len(done.atoms), done.position)
        /\ done.position <= x /\ m - 1 <= Len(done.atoms)
        /\ \A k \in 1 .. m - 1 : done.atoms[k] = list[k]
        /\ \A a \in S : a < q => a \in T
        /\ \A a \in T : a < q => a \in S /\ ReadAtom(h, a) = ReadAtom(f, a)
        /\ \A a \in T : \/ a < q
                        \/ /\ a = q /\ ReadAtom(h, a).type = "mdat"
                           /\ End(h, a) = e
                           /\ ReadAtom(h, a).size = e - q - 2
                        \/ /\ q <= a
                           /\ \E j \in m + 1 .. Len(list) :
                                 /\ ReadAtom(h, a).type = list[j].type
                                 /\ End(h, a) <= list[j].end
        /\ e # q + 2 => q \in T /\ ReadAtom(h, q).type = "mdat"
                        /\ End(h, q) = e
                        /\ ReadAtom(h, q).size = e - q - 2
    BY <1>5, Zenon DEF Again
  <1> HIDE DEF done, q, e, mo, n
  <1>7. Tiles(h, T, 0, done.position)
    BY <1>6 DEF Tree
  <1>8. \A a \in T : a \in Nat /\ End(h, a) \in Nat
    BY <1>6, <1>7, TileEnds
  <1>9. \A j \in m + 1 .. n : /\ list[j].type \in TypeNames /\ list[j].type # "mdat"
                              /\ list[j].type # "moov"
                              /\ list[j].end \in Nat /\ list[j].end <= x
    <2> TAKE j \in m + 1 .. n
    <2>1. j \in 1 .. n /\ i \in 1 .. j - 1
      BY <1>2
    <2>2. list[j] \in Atoms
      BY <1>2, <2>1 DEF n
    <2>3. list[j].type \in TypeNames /\ list[j].end \in Nat
      BY <2>2 DEF Atoms
    <2>4. list[j].start \in S /\ End(f, list[j].start) = list[j].end
          /\ ReadAtom(f, list[j].start).type = list[j].type
      BY <1>2, <2>1 DEF Stands
    <2>5. list[j].end <= x
      BY <1>2, <2>4 DEF Tiles
    <2>6. list[i].end <= list[j].start
      BY <1>2, <2>1
    <2>7. list[j].type # "moov"
      <3>1. list[j].start # mo
        BY <1>3, <2>6
      <3> QED
        BY <2>4, <3>1 DEF OneMoov, mo
    <2>8. list[j].type # "mdat"
      BY <1>0 DEF n
    <2> QED
      BY <2>3, <2>5, <2>7, <2>8
  <1>10. Orderly(h, T, media, limit)
    <2>1. \A a \in T : ReadAtom(h, a).type # "unreadable"
      <3> TAKE a \in T
      <3>1. CASE a < q
        BY <1>6, <3>1 DEF Orderly
      <3>2. CASE a >= q
        <4> DEFINE t == ReadAtom(h, a).type
        <4>1. t = "mdat" \/ \E j \in m + 1 .. Len(list) : t = list[j].type
          <5>1. ~ (a < q)
            BY <1>1, <1>8, <3>2
          <5> QED
            BY <1>6, <5>1
        <4> HIDE DEF t
        <4>2. \A j \in m + 1 .. Len(list) : list[j].type \in TypeNames
          BY <1>9 DEF n
        <4>3. t \in TypeNames
          BY <4>1, <4>2, TypeNamesAssumption
        <4> QED
          BY <4>3, TypeNamesAssumption DEF t
      <3> QED
        BY <1>1, <1>8, <3>1, <3>2
    <2>2. \A a \in T : ReadAtom(h, a).type = "mdat" => End(h, a) <= a + MaxSize
      <3> SUFFICES ASSUME NEW a \in T, ReadAtom(h, a).type = "mdat"
                   PROVE  End(h, a) <= a + MaxSize
        OBVIOUS
      <3>1. CASE a < q
        BY <1>6, <3>1 DEF Orderly, End
      <3>2. CASE a >= q
        <4> DEFINE t == ReadAtom(h, a).type
        <4>0. \/ a = q /\ End(h, a) = e
              \/ \E j \in m + 1 .. Len(list) : t = list[j].type
          <5>1. ~ (a < q)
            BY <1>1, <1>8, <3>2
          <5> QED
            BY <1>6, <5>1
        <4>2. t = "mdat"
          OBVIOUS
        <4> HIDE DEF t
        <4>3. \A j \in m + 1 .. Len(list) : list[j].type # "mdat"
          BY <1>9 DEF n
        <4>1. a = q /\ End(h, a) = e
          BY <4>0, <4>2, <4>3
        <4> QED
          BY <1>1, <4>1
      <3> QED
        BY <1>1, <1>8, <3>1, <3>2
    <2>3. \A a \in T : \/ ReadAtom(h, a).type = "moov" \/ IsFree(ReadAtom(h, a))
                       \/ End(h, a) <= limit
      <3> TAKE a \in T
      <3>1. CASE a < q
        BY <1>6, <3>1 DEF Orderly, End
      <3>2. CASE a >= q
        <4>1. End(h, a) <= x
          <5>1. CASE End(h, a) = e
            BY <1>1, <5>1
          <5>2. CASE \E j \in m + 1 .. n : End(h, a) <= list[j].end
            BY <1>1, <1>8, <1>9, <5>2
          <5> QED
            BY <1>1, <1>6, <1>8, <3>2, <5>1, <5>2 DEF n
        <4> QED
          BY <1>1, <1>8, <4>1
      <3> QED
        BY <1>1, <1>8, <3>1, <3>2
    <2>4. \A at \in media : \E a \in T : Holds(h, a, at)
      <3> TAKE at \in media
      <3>1. PICK a \in S : Holds(f, a, at)
        BY DEF Orderly
      <3>2. at \in Nat /\ a + 2 < at /\ at <= End(f, a) /\ a \in Nat /\ End(f, a) \in Nat
        <4>1. at \in Nat
          OBVIOUS
        <4>2. a + 2 < at /\ at <= End(f, a)
          BY <1>2, <3>1, <4>1, HeldWhere
        <4> QED
          BY <1>2, <4>1, <4>2, TileEnds
      <3>3. CASE a < q
        <4>1. a \in T /\ ReadAtom(h, a) = ReadAtom(f, a)
          BY <1>6, <3>3
        <4> QED
          BY <3>1, <4>1 DEF Holds
      <3>4. CASE a = q
        <4>1. e # q + 2
          BY <1>1, <3>2, <3>4
        <4>2. q \in T /\ ReadAtom(h, q).type = "mdat" /\ End(h, q) = e
              /\ ReadAtom(h, q).size = e - q - 2
          BY <1>6, <4>1
        <4>3. ReadAtom(h, q).end - ReadAtom(h, q).size = q + 2
          BY <1>1, <4>2 DEF End
        <4>4. Holds(h, q, at)
          BY <1>1, <3>2, <3>4, <4>2, <4>3 DEF Holds, End
        <4> QED
          BY <4>2, <4>4
      <3>5. CASE q < a
        <4>1. e <= a
          BY <1>1, <1>2, <3>5 DEF Tiles
        <4>2. Behind(list[m]) <= e
          BY <1>1 DEF Behind, q, e
        <4>3. at <= Behind(list[m]) /\ Behind(list[m]) \in Nat
          BY <1>1 DEF Behind, q, e
        <4> QED
          BY <1>1, <3>2, <4>1, <4>2, <4>3
      <3> QED
        BY <1>1, <3>2, <3>3, <3>4, <3>5
    <2> QED
      BY <2>1, <2>2, <2>3, <2>4 DEF Orderly
  <1>11. mo \in T /\ ReadAtom(h, mo) = ReadAtom(f, mo)
    BY <1>3, <1>6
  <1>12. OneMoov(h, T, mo)
    <2>1. \A a \in T : (ReadAtom(h, a).type = "moov") <=> (a = mo)
      <3> TAKE a \in T
      <3>1. CASE a < q
        BY <1>6, <3>1 DEF OneMoov, mo
      <3>2. CASE a >= q
        <4>1. a # mo
          BY <1>1, <1>3, <1>8, <3>2
        <4>2. \/ ReadAtom(h, a).type = "mdat"
              \/ \E j \in m + 1 .. n : ReadAtom(h, a).type = list[j].type
          BY <1>1, <1>6, <1>8, <3>2 DEF n
        <4>3. ReadAtom(h, a).type # "moov"
          BY <1>9, <4>2
        <4> QED
          BY <4>1, <4>3
      <3> QED
        BY <1>1, <1>8, <3>1, <3>2
    <2> QED
      BY <1>11, <2>1 DEF OneMoov
  <1>13. IsMovie(h, mo, v)
    BY <1>11 DEF IsMovie, mo
  <1>14. /\ i \in 1 .. Len(done.atoms) /\ done.atoms[i] = list[i]
    <2>1. Len(done.atoms) \in Nat
      BY <1>4 DEF Results
    <2> QED
      BY <1>2, <1>6, <2>1
  <1>15. mo <= limit /\ done.position <= limit + 2 + list[i].size
    <2>1. list[i] \in Atoms /\ done.position \in Nat
      BY <1>2, <1>4 DEF Results
    <2>2. list[i].size \in Nat
      BY <2>1 DEF Atoms
    <2>3. done.position <= x /\ x <= limit /\ x \in Nat /\ mo \in Nat /\ mo < q
      BY <1>1, <1>3, <1>6
    <2>4. q <= x /\ q \in Nat
      BY <1>1
    <2> QED
      BY <2>1, <2>2, <2>3, <2>4
  <1>16. Complete(h, T, done.atoms, done.position, media, limit, v)
    <2>1. /\ list[i].type = "moov" /\ list[i].size > 0
          /\ list[i].content = MoovData(v, list[i].size)
      OBVIOUS
    <2> QED
      BY <1>6, <1>10, <1>12, <1>13, <1>14, <1>15, <2>1 DEF Complete, mo
  <1> QED
    BY <1>4, <1>6, <1>16 DEF done, e

-----------------------------------------------------------------------------
(* Close moves moov to the front *)

LEMMA HomeIs ==
    ASSUME NEW list \in Seq(Atoms), Homes(list) # {}
    PROVE  Min(Homes(list)) \in Homes(list)
  <1> DEFINE X == Homes(list)
  <1>1. X \in SUBSET Nat
    <2>1. \A i \in X : i \in 1 .. Len(list)
      BY DEF Homes, OfType
    <2> QED
      BY <2>1
  <1> HIDE DEF X
  <1>2. X # {}
    BY DEF X
  <1>3. PICK i \in X : \A j \in X : i <= j
    BY <1>1, <1>2, LeastNatural
  <1>4. X \in SUBSET Int
    BY <1>1
  <1>5. Min(X) = i
    BY <1>3, <1>4, MinIs
  <1> QED
    BY <1>5 DEF X

\* what Complete says of moov, of the one that Moov finds
LEMMA MoovOnly ==
    ASSUME NEW f \in Disk, NEW S, NEW list, NEW pos, NEW media, NEW limit, NEW v,
           Complete(f, S, list, pos, media, limit, v)
    PROVE  LET n == Len(list)
           IN  \E k \in 1 .. n :
                 /\ Moov(list) = k /\ list[k] \in Atoms
                 /\ \A j \in 1 .. n : (list[j].type = "moov") <=> (j = k)
                 /\ list[k].content = MoovData(v, list[k].size) /\ list[k].size > 0
                 /\ OneMoov(f, S, list[k].start) /\ list[k].start <= limit
                 /\ pos <= limit + 2 + list[k].size
  <1> DEFINE n == Len(list)
  <1>1. /\ list \in Seq(Atoms) /\ Tiles(f, S, 0, pos)
        /\ \A i \in 1 .. n : list[i].start \in S /\ Stands(f, list[i])
        /\ \A j \in 1 .. n : \A i \in 1 .. j - 1 : list[i].end <= list[j].start
    BY DEF Complete, Tree
  <1>2. PICK k \in 1 .. n :
          /\ list[k].type = "moov"
          /\ list[k].content = MoovData(v, list[k].size) /\ list[k].size > 0
          /\ OneMoov(f, S, list[k].start) /\ list[k].start <= limit
          /\ pos <= limit + 2 + list[k].size
    BY DEF Complete
  <1>3. n \in Nat /\ list[k] \in Atoms
    BY <1>1, <1>2
  <1>4. \A i \in 1 .. n : list[i].start < list[i].end /\ list[i].start \in Nat
                          /\ list[i].end \in Nat
    <2> TAKE i \in 1 .. n
    <2>1. list[i].start \in S /\ list[i].end = End(f, list[i].start)
      BY <1>1 DEF Stands
    <2>2. /\ list[i].start \in Nat /\ End(f, list[i].start) \in Nat
          /\ list[i].start + 2 <= End(f, list[i].start)
      BY <1>1, <2>1, TileEnds
    <2> QED
      BY <2>1, <2>2
  <1> HIDE DEF n
  <1>5. \A j \in 1 .. n : list[j].type = "moov" => list[j].start = list[k].start
    <2> TAKE j \in 1 .. n
    <2>1. list[j].start \in S /\ ReadAtom(f, list[j].start).type = list[j].type
      BY <1>1 DEF Stands
    <2> QED
      BY <1>2, <2>1 DEF OneMoov
  <1>6. \A j \in 1 .. n : list[j].type = "moov" => j = k
    <2> SUFFICES ASSUME NEW j \in 1 .. n, list[j].type = "moov", j # k
                 PROVE  FALSE
      OBVIOUS
    <2>1. list[j].start = list[k].start
      BY <1>5
    <2>2. j \in 1 .. k - 1 \/ k \in 1 .. j - 1
      BY <1>3
    <2>3. list[j].end <= list[k].start \/ list[k].end <= list[j].start
      BY <1>1, <2>2
    <2> QED
      BY <1>4, <2>1, <2>3
  <1>7. \A j \in 1 .. n : (list[j].type = "moov") <=> (j = k)
    BY <1>2, <1>6
  <1>8. Moov(list) = k
    <2>1. DOMAIN list = 1 .. n /\ k \in DOMAIN list /\ DOMAIN list \subseteq Int
      BY <1>1, <1>3 DEF n
    <2> QED
      BY <1>7, <2>1, MoovIs
  <1> QED
    BY <1>2, <1>3, <1>7, <1>8 DEF n

\* of a complete tree that ends with moov
LEMMA MoovLast ==
    ASSUME NEW f \in Disk, NEW S, NEW list, NEW pos, NEW media, NEW limit, NEW v,
           Complete(f, S, list, pos, media, limit, v),
           Len(list) # 0, list[Len(list)].type = "moov"
    PROVE  LET n == Len(list)
           IN  /\ Moov(list) = n /\ n \in 1 .. n /\ list[n] \in Atoms
               /\ \A j \in 1 .. n : (list[j].type = "moov") <=> (j = n)
               /\ list[n].content = MoovData(v, list[n].size) /\ list[n].size > 0
               /\ OneMoov(f, S, list[n].start) /\ list[n].start <= limit
  <1> DEFINE n == Len(list)
  <1>1. list \in Seq(Atoms)
    BY DEF Complete, Tree
  <1>2. n \in 1 .. n
    BY <1>1
  <1>3. PICK k \in 1 .. n :
          /\ Moov(list) = k /\ list[k] \in Atoms
          /\ \A j \in 1 .. n : (list[j].type = "moov") <=> (j = k)
          /\ list[k].content = MoovData(v, list[k].size) /\ list[k].size > 0
          /\ OneMoov(f, S, list[k].start) /\ list[k].start <= limit
    BY MoovOnly
  <1>4. k = n
    BY <1>2, <1>3
  <1> QED
    BY <1>2, <1>3, <1>4

\* what is left of a free atom once moov has been written over its front
Left(free, moov) ==
    LET there == Written(moov, free.start)
        rest  == [free EXCEPT !.size = free.size - moov.size - 2]
    IN  IF free.size = moov.size THEN <<>> ELSE <<Written(rest, there.end)>>

PlacedWrites(free, moov) ==
    LET there == Written(moov, free.start)
        rest  == [free EXCEPT !.size = free.size - moov.size - 2]
    IN  AtomWrites(moov, free.start)
            \o (IF Left(free, moov) = <<>> THEN <<>> ELSE AtomWrites(rest, there.end))

\* on g moov and what is left fill the place of the free atom of f
Placed(f, free, moov, g, C) ==
    LET b     == free.start
        z     == free.end
        there == Written(moov, b)
        left  == Left(free, moov)
    IN  /\ Lays(f, PlacedWrites(free, moov), g, b .. z - 1)
        /\ g \in Disk /\ Len(g) = Len(f)
        /\ Tiles(g, C, b, z) /\ b \in C
        /\ ReadAtom(g, b) = Atom("moov", b, b + 2 + moov.size, moov.size, FALSE, Data(moov))
        /\ \A c \in C : c # b => ReadAtom(g, c).type = "free"
        /\ Stands(g, there) /\ there \in Atoms /\ there.start = b /\ there.end <= z
        /\ left \in Seq(Atoms) /\ Len(left) \in {0, 1}
        /\ \A k \in 1 .. Len(left) : /\ left[k].start \in C /\ Stands(g, left[k])
                                     /\ left[k].type = "free"
                                     /\ there.end <= left[k].start /\ left[k].end <= z

LEMMA MoovPlaced ==
    ASSUME NEW f \in Disk, NEW S, NEW e, Tiles(f, S, 0, e),
           NEW free \in Atoms, free.start \in S, free.type = "free", Stands(f, free),
           ~ free.large, NEW moov \in Atoms, moov.type = "moov",
           Len(Data(moov)) = moov.size,
           free.size = moov.size \/ free.size >= moov.size + 2
    PROVE  \E g, C : Placed(f, free, moov, g, C)
  <1> DEFINE b == free.start
             z == free.end
             n == moov.size
             there == Written(moov, b)
             rest == [free EXCEPT !.size = free.size - n - 2]
             left == Left(free, moov)
  <1>1. b \in Nat /\ z \in Nat /\ n \in Nat /\ free.size \in Nat
    BY DEF Atoms
  <1>2. z = b + 2 + free.size /\ z <= Len(f) /\ Len(f) \in Nat
    <2>1. z = b + 2 + free.size
      BY DEF Stands
    <2>2. End(f, b) = z /\ End(f, b) <= e /\ e <= Len(f) /\ e \in Nat
      BY DEF Stands, Tiles
    <2>3. Len(f) \in Nat
      BY DEF Disk
    <2> QED
      BY <1>1, <2>1, <2>2, <2>3
  <1>3. PICK g : /\ Lays(f, AtomWrites(moov, b), g, Place(b, n))
                 /\ Len(g) = Len(f) /\ Whole(g, b)
                 /\ ReadAtom(g, b) = Atom("moov", b, b + 2 + n, n, FALSE, Data(moov))
    <2>1. Data(moov) \in Seq(Cell)
      BY DataTyped
    <2>2. moov.type \in TypeNames /\ b <= Len(f)
      BY <1>1, <1>2, TypeNamesAssumption
    <2>3. b + 2 + n <= Len(f)
      BY <1>1, <1>2
    <2> DEFINE k == Len(Data(moov))
    <2>4. \E h : /\ Lays(f, AtomWrites(moov, b), h, Place(b, k))
                 /\ Len(h) = IF b + 2 + k <= Len(f) THEN Len(f) ELSE b + 2 + k
                 /\ Whole(h, b)
                 /\ ReadAtom(h, b) = Atom(moov.type, b, b + 2 + k, k, FALSE, Data(moov))
      BY <1>1, <2>1, <2>2, AtomLaid
    <2>5. k = n
      OBVIOUS
    <2> HIDE DEF k, b, n
    <2> QED
      BY <2>3, <2>4, <2>5
  <1>4. /\ there \in Atoms /\ there.type = "moov" /\ there.start = b
        /\ there.end = b + 2 + n
    <2>1. /\ there \in Atoms /\ there.type = moov.type /\ there.start = b
          /\ there.end = b + 2 + Len(Data(moov))
      BY <1>1, WrittenAtom
    <2> HIDE DEF there
    <2> QED
      BY <2>1
  <1>5. g \in Disk
    BY <1>3, LaysKeep
  <1>6. End(g, b) = b + 2 + n
    BY <1>3 DEF End, Atom
  <1>7. Stands(g, there)
    BY <1>1, <1>3, StandsWritten
  <1> HIDE DEF there
  <1>8. CASE free.size = n
    <2>1. left = <<>> /\ PlacedWrites(free, moov) = AtomWrites(moov, b) \o <<>>
      BY <1>8 DEF Left, PlacedWrites
    <2>2. b + 2 + n = z
      BY <1>2, <1>8
    <2>3. Tiles(g, {b}, b, z)
      <3>1. Whole(g, b) /\ End(g, b) = z /\ g \in Disk /\ b \in Nat
        BY <1>1, <1>3, <1>5, <1>6, <2>2
      <3> HIDE DEF b, z
      <3>2. Tiles(g, {b}, b, End(g, b))
        BY <3>1, TileOne
      <3> QED
        BY <3>1, <3>2
    <2>4. Lays(f, PlacedWrites(free, moov), g, b .. z - 1)
      <3>1. Place(b, n) = b .. z - 1
        <4>1. b + 1 + n = z - 1
          BY <1>1, <2>2
        <4> QED
          BY <4>1 DEF Place
      <3>2. AtomWrites(moov, b) \o <<>> = AtomWrites(moov, b)
        <4>1. AtomWrites(moov, b) \in Seq([at : Nat, cell : Cell])
          BY <1>1, AtomWritesTyped
        <4> QED
          BY <4>1
      <3> QED
        BY <1>3, <2>1, <3>1, <3>2
    <2>5. left \in Seq(Atoms) /\ Len(left) = 0
      BY <2>1
    <2> HIDE DEF left, n, b, z
    <2>6. there.end <= z
      BY <1>1, <1>4, <2>2
    <2>7. \A k \in 1 .. Len(left) : FALSE
      BY <2>5
    <2>8. Placed(f, free, moov, g, {b})
      BY <1>3, <1>4, <1>5, <1>7, <2>3, <2>4, <2>5, <2>6, <2>7
      DEF Placed, left, b, z, n, there
    <2> QED
      BY <2>8
  <1>9. CASE free.size # n
    <2> DEFINE x == there.end
               k == free.size - n - 2
    <2>1. k \in Nat /\ x \in Nat /\ x = b + 2 + n /\ x + 2 + k = z
      <3>1. free.size >= n + 2
        BY <1>9
      <3> HIDE DEF n, b, z, there
      <3>2. n \in Nat /\ b \in Nat /\ free.size \in Nat
        BY <1>1, <1>2
      <3>3. x = b + 2 + n /\ z = b + 2 + free.size
        BY <1>2, <1>4
      <3> HIDE DEF x
      <3> QED
        BY <3>1, <3>2, <3>3
    <2>2. /\ rest \in Atoms /\ rest.type = "free" /\ rest.size = k
          /\ rest.large = FALSE
      <3> DEFINE R == [type : TypeNames, start : Nat, end : Nat, size : Nat,
                       large : BOOLEAN, content : Seq(Cell)]
      <3>1. free \in R
        BY DEF Atoms
      <3> HIDE DEF k
      <3>2. rest = [free EXCEPT !.size = k]
        BY DEF k
      <3>3. rest \in R /\ rest.type = "free" /\ rest.size = k
        BY <2>1, <3>1, <3>2
      <3>4. rest.large = free.large
        BY <3>1, <3>2
      <3>5. free.large = FALSE
        <4>1. free.large \in BOOLEAN
          BY <3>1
        <4> QED
          BY <4>1, Zenon
      <3> QED
        BY <3>3, <3>4, <3>5 DEF Atoms
    <2>3. Data(rest) \in Seq(Cell) /\ Len(Data(rest)) = k
      BY <2>2, DataTyped
    <2> HIDE DEF rest, x, k
    <2>4. PICK h : /\ Lays(g, AtomWrites(rest, x), h, Place(x, k))
                   /\ Len(h) = Len(g) /\ Whole(h, x)
                   /\ ReadAtom(h, x) = Atom("free", x, x + 2 + k, k, FALSE, Data(rest))
      <3>1. rest.type \in TypeNames /\ x <= Len(g)
        <4>1. x <= Len(g)
          BY <1>1, <1>2, <1>3, <2>1
        <4> QED
          BY <2>2, <4>1, TypeNamesAssumption
      <3>2. x + 2 + k <= Len(g)
        BY <1>2, <1>3, <2>1
      <3> DEFINE j == Len(Data(rest))
      <3>3. \E y : /\ Lays(g, AtomWrites(rest, x), y, Place(x, j))
                   /\ Len(y) = IF x + 2 + j <= Len(g) THEN Len(g) ELSE x + 2 + j
                   /\ Whole(y, x)
                   /\ ReadAtom(y, x) = Atom(rest.type, x, x + 2 + j, j, FALSE, Data(rest))
        BY <1>5, <2>1, <2>3, <3>1, AtomLaid
      <3>4. j = k
        BY <2>3
      <3> HIDE DEF j
      <3> QED
        BY <2>2, <3>2, <3>3, <3>4
    <2>5. h \in Disk /\ \A p \in 1 .. Len(g) : p - 1 \notin Place(x, k) => h[p] = g[p]
      BY <2>4, LaysKeep
    <2>6. Whole(h, b) /\ ReadAtom(h, b) = ReadAtom(g, b)
      <3>1. ReadAtom(g, b).end = x
        BY <1>6, <2>1 DEF End
      <3>2. x <= Len(h)
        BY <1>1, <1>2, <1>3, <2>1, <2>4
      <3>3. \A p \in b + 1 .. x : h[p] = g[p]
        <4>1. \A p \in b + 1 .. x : p \in 1 .. Len(g) /\ p - 1 \notin Place(x, k)
          <5> HIDE DEF b, n, z
          <5>1. x <= Len(g) /\ Len(g) \in Nat
            BY <1>2, <1>3, <2>4, <3>2
          <5>2. \A p \in b + 1 .. x : p \in 1 .. Len(g) /\ p - 1 < x /\ p \in Nat
            <6>1. b \in Nat /\ x \in Nat
              BY <1>1, <2>1
            <6> QED
              BY <5>1, <6>1
          <5>3. \A y \in Place(x, k) : x <= y /\ y \in Int
            BY <2>1 DEF Place
          <5> QED
            BY <2>1, <5>2, <5>3
        <4> QED
          BY <2>5, <4>1
      <3> HIDE DEF b
      <3> QED
        BY <1>1, <1>3, <1>5, <2>5, <3>1, <3>2, <3>3, Same
    <2>7. End(h, b) = x /\ End(h, x) = z
      <3>1. End(h, b) = x
        BY <1>6, <2>1, <2>6 DEF End
      <3>2. ReadAtom(h, x).end = x + 2 + k
        BY <2>4 DEF Atom
      <3> QED
        BY <2>1, <3>1, <3>2 DEF End
    <2> DEFINE C == {b} \cup {x}
    <2>8. Tiles(h, C, b, z)
      <3>1. Tiles(h, {b}, b, x)
        BY <1>1, <2>5, <2>6, <2>7, TileOne
      <3>2. Tiles(h, {x}, x, z)
        BY <2>1, <2>4, <2>5, <2>7, TileOne
      <3> QED
        BY <2>5, <3>1, <3>2, TilesJoin
    <2>9. left = <<Written(rest, x)>>
      BY <1>9 DEF Left, rest, x, there
    <2> DEFINE r == Written(rest, x)
    <2>10. /\ r \in Atoms /\ r.type = "free" /\ r.start = x /\ r.end = z
      <3>1. r \in Atoms /\ r.type = rest.type /\ r.start = x
            /\ r.end = x + 2 + Len(Data(rest))
        BY <2>1, <2>2, WrittenAtom
      <3> HIDE DEF r
      <3> QED
        BY <2>1, <2>2, <2>3, <3>1
    <2>11. Stands(h, r)
      BY <2>1, <2>2, <2>3, <2>4, StandsWritten
    <2> HIDE DEF r, left
    <2>12. left \in Seq(Atoms) /\ Len(left) = 1 /\ left[1] = r /\ left # <<>>
      BY <2>9, <2>10 DEF r
    <2>13. Lays(f, PlacedWrites(free, moov), h, b .. z - 1)
      <3>1. PlacedWrites(free, moov) = AtomWrites(moov, b) \o AtomWrites(rest, x)
        BY <2>12 DEF PlacedWrites, left, rest, x, there
      <3>2. Lays(f, AtomWrites(moov, b) \o AtomWrites(rest, x), h, Place(b, n) \cup Place(x, k))
        BY <1>3, <2>4, LaysJoin
      <3>3. Place(b, n) \cup Place(x, k) \subseteq b .. z - 1
        <4> HIDE DEF b, n, z
        <4>1. Place(b, n) \subseteq b .. z - 1
          BY <1>1, <2>1 DEF Place
        <4>2. Place(x, k) \subseteq b .. z - 1
          BY <1>1, <2>1 DEF Place
        <4> QED
          BY <4>1, <4>2
      <3>4. b .. z - 1 \in SUBSET Nat
        BY <1>1
      <3> QED
        BY <3>1, <3>2, <3>3, <3>4, LaysAt
    <2>14. Stands(h, there)
      BY <1>4, <1>7, <2>6, StandsSame
    <2>15. \A c \in C : c # b => ReadAtom(h, c).type = "free"
      BY <2>4 DEF Atom
    <2>16. ReadAtom(h, b) = Atom("moov", b, b + 2 + n, n, FALSE, Data(moov))
      BY <1>3, <2>6
    <2>17. \A i \in 1 .. Len(left) : /\ left[i].start \in C /\ Stands(h, left[i])
                                     /\ left[i].type = "free"
                                     /\ x <= left[i].start /\ left[i].end <= z
      <3> TAKE i \in 1 .. Len(left)
      <3>1. left[i] = r
        BY <2>12
      <3> QED
        BY <1>1, <2>1, <2>10, <2>11, <3>1
    <2>18. x <= z /\ Len(h) = Len(f)
      BY <1>1, <1>3, <2>1, <2>4
    <2>19. b \in C
      OBVIOUS
    <2> HIDE DEF C, n, b, z
    <2>20. Placed(f, free, moov, h, C)
      BY <1>4, <2>5, <2>8, <2>12, <2>13, <2>14, <2>15, <2>16, <2>17, <2>18, <2>19
      DEF Placed, left, b, z, n, there, x
    <2> QED
      BY <2>20
  <1> QED
    BY <1>8, <1>9

\* the tree with moov, its last atom, moved over the i-th, a free one
Moved(list, i) ==
    LET n     == Len(list)
        there == Written(list[n], list[i].start)
        rest  == SubSeq(list, 1, n - 1)
    IN  Append(SubSeq(list, 1, i - 1), there) \o Left(list[i], list[n])
            \o SubSeq(rest, i + 1, n - 1)

LEMMA MovedParts ==
    ASSUME NEW list \in Seq(Atoms), NEW i \in 1 .. Len(list) - 1,
           Written(list[Len(list)], list[i].start) \in Atoms,
           Left(list[i], list[Len(list)]) \in Seq(Atoms)
    PROVE  LET n     == Len(list)
               moved == Moved(list, i)
               left  == Left(list[i], list[n])
           IN  /\ moved \in Seq(Atoms) /\ Len(moved) = Len(left) + (n - 1)
               /\ \A j \in 1 .. i - 1 : moved[j] = list[j]
               /\ moved[i] = Written(list[n], list[i].start)
               /\ \A k \in 1 .. Len(left) : moved[i + k] = left[k]
               /\ \A j \in i + 1 .. n - 1 : moved[Len(left) + j] = list[j]
  <1> DEFINE n == Len(list)
             there == Written(list[n], list[i].start)
             left == Left(list[i], list[n])
             front == SubSeq(list, 1, i - 1)
             r == Append(front, there)
             rest == SubSeq(list, 1, n - 1)
             t == SubSeq(rest, i + 1, n - 1)
             moved == Moved(list, i)
  <1>1. n \in Nat /\ i \in Nat /\ i >= 1 /\ i <= n - 1
    OBVIOUS
  <1>2. front \in Seq(Atoms) /\ Len(front) = i - 1 /\ \A j \in 1 .. i - 1 : front[j] = list[j]
    BY <1>1
  <1>3. rest \in Seq(Atoms) /\ Len(rest) = n - 1 /\ \A j \in 1 .. n - 1 : rest[j] = list[j]
    BY <1>1
  <1>4. there \in Atoms /\ left \in Seq(Atoms)
    OBVIOUS
  <1>5. moved = r \o left \o t
    BY DEF Moved
  <1> HIDE DEF front, rest, n, there, left, moved
  <1>6. /\ r \in Seq(Atoms) /\ Len(r) = i
        /\ \A j \in 1 .. i - 1 : r[j] = list[j]
        /\ r[i] = there
    <2>1. /\ Append(front, there) \in Seq(Atoms)
          /\ Len(Append(front, there)) = i - 1 + 1
          /\ \A j \in 1 .. i - 1 : Append(front, there)[j] = front[j]
          /\ Append(front, there)[i - 1 + 1] = there
      BY <1>2, <1>4, Appended
    <2>2. i - 1 + 1 = i
      BY <1>1
    <2> QED
      BY <1>2, <2>1, <2>2
  <1>7. /\ t \in Seq(Atoms) /\ Len(t) = n - 1 - i
        /\ \A j \in 1 .. n - 1 - i : t[j] = rest[i + j]
    <2>1. t \in Seq(Atoms)
      BY <1>1, <1>3
    <2>2. Len(t) = n - 1 - i
      BY <1>1, <1>3
    <2>3. \A j \in 1 .. n - 1 - i : t[j] = rest[i + j]
      BY <1>1, <1>3
    <2> QED
      BY <2>1, <2>2, <2>3
  <1> HIDE DEF r, t
  <1>8. /\ moved \in Seq(Atoms) /\ Len(moved) = Len(r) + Len(left) + Len(t)
        /\ Len(left) \in Nat
        /\ \A j \in 1 .. Len(r) : moved[j] = r[j]
        /\ \A j \in 1 .. Len(left) : moved[Len(r) + j] = left[j]
        /\ \A j \in 1 .. Len(t) : moved[Len(r) + Len(left) + j] = t[j]
    <2>1. r \in Seq(Atoms) /\ left \in Seq(Atoms) /\ t \in Seq(Atoms)
      BY <1>4, <1>6, <1>7
    <2>2. /\ r \o left \o t \in Seq(Atoms)
          /\ Len(r \o left \o t) = Len(r) + Len(left) + Len(t)
          /\ \A j \in 1 .. Len(r) : (r \o left \o t)[j] = r[j]
          /\ \A j \in 1 .. Len(left) : (r \o left \o t)[Len(r) + j] = left[j]
          /\ \A j \in 1 .. Len(t) : (r \o left \o t)[Len(r) + Len(left) + j] = t[j]
      <3> DEFINE x == r \o left \o t
      <3>1. x \in Seq(Atoms) /\ InThree(x, r, left, t)
        BY <2>1, Joined
      <3> HIDE DEF x
      <3>2. /\ x \in Seq(Atoms) /\ Len(x) = Len(r) + Len(left) + Len(t)
            /\ \A j \in 1 .. Len(r) : x[j] = r[j]
            /\ \A j \in 1 .. Len(left) : x[Len(r) + j] = left[j]
            /\ \A j \in 1 .. Len(t) : x[Len(r) + Len(left) + j] = t[j]
        BY <3>1 DEF InThree
      <3> QED
        BY <3>2 DEF x
    <2>3. Len(left) \in Nat
      BY <2>1
    <2> QED
      BY <1>5, <2>2, <2>3
  <1>9. Len(moved) = Len(left) + (n - 1)
    BY <1>1, <1>6, <1>7, <1>8
  <1>10. \A j \in i + 1 .. n - 1 : moved[Len(left) + j] = list[j]
    <2> TAKE j \in i + 1 .. n - 1
    <2>1. j - i \in 1 .. n - 1 - i /\ i + (j - i) = j
          /\ Len(r) + Len(left) + (j - i) = Len(left) + j /\ j \in 1 .. n - 1
      <3>1. j \in Int /\ i + 1 <= j /\ j <= n - 1
        BY <1>1
      <3>2. Len(r) = i /\ Len(left) \in Nat
        BY <1>6, <1>8
      <3> QED
        BY <1>1, <3>1, <3>2
    <2>2. moved[Len(left) + j] = t[j - i]
      BY <1>7, <1>8, <2>1
    <2>3. t[j - i] = rest[j]
      BY <1>7, <2>1
    <2> QED
      BY <1>3, <2>1, <2>2, <2>3
  <1>11. \A j \in 1 .. i - 1 : moved[j] = list[j] /\ moved[i] = there
    <2>1. \A j \in 1 .. i - 1 : j \in 1 .. i
      BY <1>1
    <2>2. i \in 1 .. i
      BY <1>1
    <2> QED
      BY <1>6, <1>8, <2>1, <2>2
  <1>12. moved[i] = there
    BY <1>1, <1>6, <1>8
  <1> QED
    BY <1>6, <1>8, <1>9, <1>10, <1>11, <1>12 DEF n, there, left, moved

\* the tree without its last atom, and in place of the i-th what fills its place
LEMMA MovedTiles ==
    ASSUME NEW f \in Disk, NEW S, NEW e, Tiles(f, S, 0, e),
           NEW x \in S \cup {e}, NEW b \in S, b < x, NEW g \in Disk, Len(g) = Len(f),
           \A p \in 1 .. Len(f) : p <= b \/ End(f, b) < p => g[p] = f[p],
           NEW C, Tiles(g, C, b, End(f, b))
    PROVE  LET T1 == {a \in S : a < b}
               T3 == {a \in S : a < x /\ a >= End(f, b)}
           IN  /\ Tiles(g, T1 \cup C \cup T3, 0, x)
               /\ \A a \in T1 \cup T3 : ReadAtom(g, a) = ReadAtom(f, a)
               /\ \A a \in S : a < x => a = b \/ a \in T1 \/ a \in T3
  <1> DEFINE z == End(f, b)
             S1 == {a \in S : a < x}
             T1 == {a \in S : a < b}
             T3 == {a \in S : a < x /\ a >= z}
  <1>1. Tiles(f, S1, 0, x)
    BY TilesCut
  <1>2. /\ b \in Nat /\ z \in Nat /\ b + 2 <= z /\ b \in S1
        /\ x \in Nat /\ x <= Len(f) /\ Len(f) \in Nat
        /\ z <= x /\ z \in S1 \cup {x}
    <2>1. b \in S1
      OBVIOUS
    <2>2. b \in Nat /\ z \in Nat /\ b + 2 <= z
      BY TileEnds
    <2>3. x \in Nat /\ x <= Len(f) /\ z <= x /\ z \in S1 \cup {x}
      BY <1>1, <2>1 DEF Tiles
    <2>4. Len(f) \in Nat
      BY DEF Disk
    <2> QED
      BY <2>1, <2>2, <2>3, <2>4
  <1>3. Tiles(f, T1, 0, b)
    BY TilesCut
  <1>4. Tiles(f, T3, z, x)
    <2>1. Tiles(f, {a \in S1 : a >= z}, z, x)
      BY <1>1, <1>2, TilesCut
    <2>2. {a \in S1 : a >= z} = T3
      OBVIOUS
    <2> QED
      BY <2>1, <2>2
  <1> HIDE DEF z
  <1>5. Tiles(g, T1, 0, b) /\ \A a \in T1 : ReadAtom(g, a) = ReadAtom(f, a)
    <2>1. b <= Len(g) /\ \A p \in 0 + 1 .. b : g[p] = f[p]
      BY <1>2 DEF z
    <2> HIDE DEF T1
    <2> QED
      BY <1>3, <2>1, TilesSame
  <1>6. Tiles(g, T3, z, x) /\ \A a \in T3 : ReadAtom(g, a) = ReadAtom(f, a)
    <2>1. x <= Len(g) /\ \A p \in z + 1 .. x : g[p] = f[p]
      <3>1. \A p \in z + 1 .. x : p \in 1 .. Len(f) /\ z < p
        BY <1>2
      <3> QED
        BY <1>2, <3>1 DEF z
    <2> HIDE DEF T3
    <2> QED
      BY <1>4, <2>1, TilesSame
  <1>7. Tiles(g, C, b, z)
    BY DEF z
  <1>8. Tiles(g, T1 \cup C \cup T3, 0, x)
    <2> HIDE DEF T1, T3
    <2>1. Tiles(g, T1 \cup C, 0, z)
      BY <1>5, <1>7, TilesJoin
    <2> QED
      BY <1>6, <2>1, TilesJoin
  <1>9. \A a \in S : a < x => a = b \/ a \in T1 \/ a \in T3
    <2> TAKE a \in S
    <2>1. a \in Nat /\ (b < a => z <= a)
      BY TileEnds DEF Tiles, z
    <2> QED
      BY <1>2, <2>1
  <1> QED
    BY <1>5, <1>6, <1>8, <1>9 DEF z

\* moved is list without its last atom, and with there and left for the i-th
Replaced(list, moved, left, there, n, l, i) ==
    /\ Len(moved) = l + (n - 1) /\ n <= Len(list)
    /\ \A j \in 1 .. i - 1 : moved[j] = list[j]
    /\ moved[i] = there
    /\ \A k \in 1 .. l : moved[i + k] = left[k]
    /\ \A j \in i + 1 .. n - 1 : moved[l + j] = list[j]
    /\ \A j \in 1 .. n : \A k \in 1 .. j - 1 : list[k].end <= list[j].start
    /\ there.start = list[i].start /\ there.end <= list[i].end
    /\ list[i].start <= list[i].end
    /\ \A k \in 1 .. l : /\ there.end <= left[k].start /\ left[k].end <= list[i].end
                         /\ list[i].start <= left[k].start

LEMMA MovedOrder ==
    ASSUME NEW list \in Seq(Atoms), NEW moved \in Seq(Atoms), NEW left, NEW there,
           NEW n \in Nat, NEW l \in {0, 1}, NEW i \in 1 .. n - 1,
           Replaced(list, moved, left, there, n, l, i)
    PROVE  /\ \A j \in 1 .. Len(moved) : \/ j \in 1 .. i - 1
                                         \/ j = i
                                         \/ \E k \in 1 .. l : j = i + k
                                         \/ \E k \in i + 1 .. n - 1 : j = l + k
           /\ \A j \in 1 .. Len(moved) : \A k \in 1 .. j - 1 : moved[k].end <= moved[j].start
  <1> USE DEF Replaced
  <1>1. \A j \in 1 .. Len(moved) : \/ j \in 1 .. i - 1
                                   \/ j = i
                                   \/ \E k \in 1 .. l : j = i + k
                                   \/ \E k \in i + 1 .. n - 1 : j = l + k
    <2> TAKE j \in 1 .. Len(moved)
    <2>1. CASE j <= i
      BY <2>1
    <2>2. CASE j > i /\ j <= i + l
      <3>1. j - i \in 1 .. l /\ j = i + (j - i)
        BY <2>2
      <3> QED
        BY <3>1
    <2>3. CASE j > i + l
      <3>1. j - l \in i + 1 .. n - 1 /\ j = l + (j - l)
        BY <2>3
      <3> QED
        BY <3>1
    <2> QED
      BY <2>1, <2>2, <2>3
  <1>2. \A j \in 1 .. Len(moved) : moved[j].start \in Nat /\ moved[j].end \in Nat
    <2> TAKE j \in 1 .. Len(moved)
    <2>1. moved[j] \in Atoms
      OBVIOUS
    <2> QED
      BY <2>1 DEF Atoms
  <1>3. \A j \in 1 .. n : list[j].start \in Nat /\ list[j].end \in Nat
    <2> TAKE j \in 1 .. n
    <2>1. list[j] \in Atoms
      OBVIOUS
    <2> QED
      BY <2>1 DEF Atoms
  <1> DEFINE b == list[i].start
             z == list[i].end
  <1>4. /\ \A k \in 1 .. i - 1 : moved[k].end <= b
        /\ moved[i].start = b /\ moved[i].end <= z
        /\ \A k \in 1 .. l : /\ moved[i].end <= moved[i + k].start
                             /\ b <= moved[i + k].start
                             /\ moved[i + k].end <= z
        /\ \A k \in i + 1 .. n - 1 : z <= moved[l + k].start
        /\ b <= z /\ b \in Nat /\ z \in Nat
    <2>1. \A k \in 1 .. i - 1 : moved[k].end <= b
      OBVIOUS
    <2>2. \A k \in i + 1 .. n - 1 : z <= moved[l + k].start
      <3> TAKE k \in i + 1 .. n - 1
      <3>1. moved[l + k] = list[k] /\ k \in 1 .. n /\ i \in 1 .. k - 1
        OBVIOUS
      <3> QED
        BY <3>1
    <2>3. b \in Nat /\ z \in Nat
      BY <1>3
    <2> QED
      BY <2>1, <2>2, <2>3
  <1>5. \A j \in 1 .. Len(moved) : \A k \in 1 .. j - 1 : moved[k].end <= moved[j].start
    <2> TAKE j \in 1 .. Len(moved)
    <2> TAKE k \in 1 .. j - 1
    <2>0. k \in 1 .. Len(moved) /\ k < j
      OBVIOUS
    <2>1. moved[k].end \in Nat /\ moved[j].start \in Nat
      BY <1>2, <2>0
    <2> HIDE DEF b, z
    <2>2. CASE j \in 1 .. i - 1
      <3>1. k \in 1 .. i - 1 /\ moved[k] = list[k] /\ moved[j] = list[j] /\ j \in 1 .. n
        BY <2>2
      <3> QED
        BY <3>1
    <2>3. CASE j = i
      <3>1. k \in 1 .. i - 1
        BY <2>3
      <3> QED
        BY <1>4, <2>3, <3>1
    <2>4. CASE \E r \in 1 .. l : j = i + r
      <3>1. j = i + 1 /\ 1 \in 1 .. l
        BY <2>4
      <3>2. k = i \/ k \in 1 .. i - 1
        BY <3>1
      <3> QED
        BY <1>4, <2>1, <3>1, <3>2
    <2>5. CASE \E r \in i + 1 .. n - 1 : j = l + r
      <3>1. PICK r \in i + 1 .. n - 1 : j = l + r
        BY <2>5
      <3>2. z <= moved[j].start
        BY <1>4, <3>1
      <3>3. CASE k \in 1 .. i - 1 \/ k = i \/ \E c \in 1 .. l : k = i + c
        <4>1. moved[k].end <= z
          BY <1>4, <2>1, <3>3
        <4> QED
          BY <1>4, <2>1, <3>2, <4>1
      <3>4. CASE \E c \in i + 1 .. n - 1 : k = l + c
        <4>1. PICK c \in i + 1 .. n - 1 : k = l + c
          BY <3>4
        <4>2. c \in 1 .. r - 1 /\ r \in 1 .. n
          BY <2>0, <3>1, <4>1
        <4>3. list[c].end <= list[r].start
          BY <4>2
        <4> QED
          BY <3>1, <4>1, <4>3
      <3> QED
        BY <1>1, <2>0, <3>3, <3>4
    <2> QED
      BY <1>1, <2>2, <2>3, <2>4, <2>5
  <1> QED
    BY <1>1, <1>5

\* on g the tree T is that of f, with moov in front and without it at the end
InFront(f, list, i, media, limit, v, g, T) ==
    LET n     == Len(list)
        moov  == list[n]
        there == Written(moov, list[i].start)
        moved == Moved(list, i)
    IN  /\ Lays(f, PlacedWrites(list[i], moov), g, Safe(media)) /\ g \in Disk
        /\ Tree(g, T, moved, Len(moved), moov.start)
        /\ Orderly(g, T, media, limit) /\ moov.start <= limit
        /\ i \in 1 .. Len(moved) /\ moved[i] = there
        /\ there.type = "moov" /\ there.size > 0
        /\ there.content = MoovData(v, there.size)
        /\ OneMoov(g, T, there.start) /\ IsMovie(g, there.start, v)
        /\ \A j \in 1 .. i : moved[j].type # "mdat"
        /\ OfType(list, "mdat") # {} => OfType(moved, "mdat") # {}

LEMMA MoovMoved ==
    ASSUME NEW f \in Disk, NEW S, NEW list, NEW pos, NEW media \in SUBSET Nat,
           NEW limit \in Int, NEW v, Complete(f, S, list, pos, media, limit, v),
           Len(list) # 0, list[Len(list)].type = "moov", NEW i \in Homes(list)
    PROVE  \E g, T : InFront(f, list, i, media, limit, v, g, T)
  <1> DEFINE n == Len(list)
             moov == list[n]
             free == list[i]
             x == moov.start
             b == free.start
             z == free.end
             there == Written(moov, b)
             left == Left(free, moov)
             moved == Moved(list, i)
  <1>1. /\ Moov(list) = n /\ n \in 1 .. n /\ moov \in Atoms
        /\ \A j \in 1 .. n : (list[j].type = "moov") <=> (j = n)
        /\ moov.content = MoovData(v, moov.size) /\ moov.size > 0
        /\ OneMoov(f, S, x) /\ x <= limit
    BY MoovLast
  <1>2. /\ i \in 1 .. n - 1 /\ free.type = "free" /\ TakesMoov(free, moov)
        /\ \A j \in 1 .. i : list[j].type \notin {"moov", "mdat"}
    <2>1. /\ i \in DOMAIN list /\ free.type = "free" /\ TakesMoov(free, moov)
          /\ \A j \in 1 .. i : list[j].type \notin {"moov", "mdat"}
      BY <1>1 DEF Homes, OfType
    <2>2. i # n
      BY <1>1, <2>1
    <2>3. list \in Seq(Atoms)
      BY DEF Complete, Tree
    <2> QED
      BY <2>1, <2>2, <2>3
  <1>3. /\ list \in Seq(Atoms) /\ Tiles(f, S, 0, pos) /\ n \in Nat
        /\ \A j \in 1 .. n : list[j].start \in S /\ Stands(f, list[j])
        /\ \A j \in 1 .. n : \A k \in 1 .. j - 1 : list[k].end <= list[j].start
        /\ \A a \in S : ~ IsFree(ReadAtom(f, a)) => \E j \in 1 .. n : list[j].start = a
        /\ Orderly(f, S, media, limit)
    BY DEF Complete, Tree
  <1>4. /\ free \in Atoms /\ free.start \in S /\ Stands(f, free) /\ ~ free.large
        /\ free.size = moov.size \/ free.size >= moov.size + 2
        /\ x \in S
    <2>1. i \in 1 .. n /\ n \in 1 .. n
      BY <1>1, <1>2, <1>3
    <2>2. free \in Atoms
      BY <1>3, <2>1
    <2> QED
      BY <1>2, <1>3, <2>1, <2>2 DEF TakesMoov
  <1>5. Data(moov) = moov.content /\ Len(Data(moov)) = moov.size /\ moov.size \in Nat
        /\ moov.type = "moov"
    <2>1. Data(moov) = moov.content
      BY <1>1, DataTyped
    <2>2. moov.size \in Nat
      BY <1>1 DEF Atoms
    <2>3. Len(MoovData(v, moov.size)) = moov.size
      <3> DEFINE k == moov.size
      <3>1. k \in Nat
        BY <2>2
      <3> HIDE DEF k
      <3>2. Len(MoovData(v, k)) = k
        BY <3>1 DEF MoovData
      <3> QED
        BY <3>2 DEF k
    <2> QED
      BY <1>1, <2>1, <2>2, <2>3
  <1> HIDE DEF n, moov, free
  <1>6. PICK g, C : Placed(f, free, moov, g, C)
    BY <1>1, <1>2, <1>3, <1>4, <1>5, MoovPlaced
  <1>7. /\ Lays(f, PlacedWrites(free, moov), g, b .. z - 1)
        /\ g \in Disk /\ Len(g) = Len(f)
        /\ Tiles(g, C, b, z) /\ b \in C
        /\ ReadAtom(g, b) = Atom("moov", b, b + 2 + moov.size, moov.size, FALSE, Data(moov))
        /\ \A c \in C : c # b => ReadAtom(g, c).type = "free"
        /\ Stands(g, there) /\ there \in Atoms /\ there.start = b /\ there.end <= z
        /\ left \in Seq(Atoms) /\ Len(left) \in {0, 1}
        /\ \A k \in 1 .. Len(left) : /\ left[k].start \in C /\ Stands(g, left[k])
                                     /\ left[k].type = "free"
                                     /\ there.end <= left[k].start /\ left[k].end <= z
    BY <1>6, Zenon DEF Placed
  <1>8. /\ there.type = "moov" /\ there.size = moov.size
        /\ there.content = MoovData(v, moov.size) /\ there.end = b + 2 + moov.size
    <2>1. b \in Nat
      BY <1>4 DEF Atoms
    <2>2. /\ there.type = moov.type /\ there.size = Len(Data(moov))
          /\ there.content = moov.content /\ there.end = b + 2 + Len(Data(moov))
      BY <1>1, <2>1, WrittenAtom
    <2> HIDE DEF there
    <2> QED
      BY <1>1, <1>5, <2>2
  <1> HIDE DEF left, there
  <1>9. /\ moved \in Seq(Atoms) /\ Len(moved) = Len(left) + (n - 1)
        /\ \A j \in 1 .. i - 1 : moved[j] = list[j]
        /\ moved[i] = there
        /\ \A k \in 1 .. Len(left) : moved[i + k] = left[k]
        /\ \A j \in i + 1 .. n - 1 : moved[Len(left) + j] = list[j]
    BY <1>2, <1>3, <1>7, MovedParts DEF left, there, n, moov, free
  <1> HIDE DEF moved
  <1>10. /\ b \in Nat /\ z \in Nat /\ x \in Nat /\ b + 2 <= z /\ z <= x
         /\ End(f, b) = z /\ b \in S /\ x < pos /\ pos \in Nat
    <2>1. b \in Nat /\ z \in Nat
      BY <1>4 DEF Atoms
    <2>2. End(f, b) = z /\ b \in S
      BY <1>4 DEF Stands
    <2>3. b + 2 <= End(f, b)
      BY <1>3, <2>2, TileEnds
    <2>4. x \in Nat /\ x < pos
      BY <1>3, <1>4, TileEnds
    <2>5. z <= x
      <3>1. n \in 1 .. n /\ i \in 1 .. n - 1
        BY <1>1, <1>2
      <3> QED
        BY <1>3, <3>1 DEF free, moov
    <2>6. pos \in Nat
      BY <1>3 DEF Tiles
    <2> QED
      BY <2>1, <2>2, <2>3, <2>4, <2>5, <2>6
  <1>11. \A p \in 1 .. Len(f) : p <= b \/ End(f, b) < p => g[p] = f[p]
    <2>1. Len(f) \in Nat /\ \A p \in 1 .. Len(f) : p - 1 \notin b .. z - 1 => g[p] = f[p]
      <3> DEFINE P == b .. z - 1
                 w == PlacedWrites(free, moov)
      <3>1. Lays(f, w, g, P)
        BY <1>7
      <3> HIDE DEF P, w
      <3>2. /\ Len(f) \in Nat
            /\ \A p \in 1 .. Len(f) : p - 1 \notin P => g[p] = f[p]
        BY <3>1, LaysKeep
      <3> QED
        BY <3>2 DEF P
    <2> QED
      BY <1>10, <2>1
  <1> DEFINE T1 == {a \in S : a < b}
             T3 == {a \in S : a < x /\ a >= z}
             T == T1 \cup C \cup T3
  <1>12. /\ Tiles(g, T, 0, x)
         /\ \A a \in T1 \cup T3 : ReadAtom(g, a) = ReadAtom(f, a)
         /\ \A a \in S : a < x => a = b \/ a \in T1 \/ a \in T3
    <2>1. b < x /\ Tiles(g, C, b, End(f, b)) /\ Len(g) = Len(f) /\ x \in S \cup {pos}
      BY <1>4, <1>7, <1>10
    <2>2. b \in S /\ g \in Disk /\ Tiles(f, S, 0, pos)
      BY <1>3, <1>7, <1>10
    <2>3. LET U1 == {a \in S : a < b}
              U3 == {a \in S : a < x /\ a >= End(f, b)}
          IN  /\ Tiles(g, U1 \cup C \cup U3, 0, x)
              /\ \A a \in U1 \cup U3 : ReadAtom(g, a) = ReadAtom(f, a)
              /\ \A a \in S : a < x => a = b \/ a \in U1 \/ a \in U3
      <3> HIDE DEF b, x
      <3> QED
        BY <1>11, <2>1, <2>2, MovedTiles
    <2>4. End(f, b) = z
      BY <1>10
    <2> HIDE DEF b, x, z
    <2> QED
      BY <2>3, <2>4
  <1> HIDE DEF b, x, z
  <1>13. /\ \A j \in 1 .. Len(moved) : \/ j \in 1 .. i - 1
                                       \/ j = i
                                       \/ \E k \in 1 .. Len(left) : j = i + k
                                       \/ \E k \in i + 1 .. n - 1 : j = Len(left) + k
         /\ \A j \in 1 .. Len(moved) : \A k \in 1 .. j - 1 : moved[k].end <= moved[j].start
    <2>1. /\ there.start = list[i].start /\ there.end <= list[i].end
          /\ list[i].start <= list[i].end
      BY <1>7, <1>10 DEF b, z, free
    <2>2. \A k \in 1 .. Len(left) : /\ there.end <= left[k].start
                                    /\ left[k].end <= list[i].end
                                    /\ list[i].start <= left[k].start
      <3> TAKE k \in 1 .. Len(left)
      <3>1. there.end <= left[k].start /\ left[k].end <= z /\ left[k].start \in C
        BY <1>7
      <3>2. b <= left[k].start
        BY <1>7, <3>1 DEF Tiles
      <3> QED
        BY <3>1, <3>2 DEF b, z, free
    <2>3. n <= Len(list) /\ n \in Nat
      BY <1>3 DEF n
    <2> DEFINE l == Len(left)
    <2>4. l \in {0, 1} /\ Len(moved) = l + (n - 1)
      BY <1>7, <1>9
    <2>5. Replaced(list, moved, left, there, n, l, i)
      BY <1>2, <1>3, <1>9, <2>1, <2>2, <2>3, <2>4 DEF Replaced
    <2>6. list \in Seq(Atoms) /\ moved \in Seq(Atoms) /\ i \in 1 .. n - 1
      BY <1>2, <1>3, <1>9
    <2> HIDE DEF l
    <2>7. /\ \A j \in 1 .. Len(moved) : \/ j \in 1 .. i - 1
                                        \/ j = i
                                        \/ \E k \in 1 .. l : j = i + k
                                        \/ \E k \in i + 1 .. n - 1 : j = l + k
          /\ \A j \in 1 .. Len(moved) : \A k \in 1 .. j - 1 : moved[k].end <= moved[j].start
      <3>1. list \in Seq(Atoms) /\ moved \in Seq(Atoms) /\ n \in Nat /\ l \in {0, 1}
            /\ i \in 1 .. n - 1
        BY <2>3, <2>4, <2>6
      <3>2. Replaced(list, moved, left, there, n, l, i)
        BY <2>5
      <3> HIDE DEF n, moved, left, there
      <3> QED
        BY <3>1, <3>2, MovedOrder
    <2> QED
      BY <2>7 DEF l
  <1>14. \A j \in 1 .. n - 1 : j # i => /\ list[j].start \in T1 \cup T3
                                        /\ Stands(g, list[j])
    <2> SUFFICES ASSUME NEW j \in 1 .. n - 1, j # i
                 PROVE  list[j].start \in T1 \cup T3 /\ Stands(g, list[j])
      OBVIOUS
    <2>1. j \in 1 .. n /\ n \in 1 .. n /\ i \in 1 .. n /\ (j \in 1 .. i - 1 \/ i \in 1 .. j - 1)
      BY <1>1, <1>2, <1>3
    <2>2. list[j].start \in S /\ Stands(f, list[j]) /\ list[j].end <= x
      BY <1>3, <2>1 DEF x, moov
    <2>3. End(f, list[j].start) = list[j].end
      BY <2>2 DEF Stands
    <2>4. /\ list[j].start \in Nat /\ list[j].start + 2 <= End(f, list[j].start)
          /\ End(f, list[j].start) \in Nat
      BY <1>3, <2>2, TileEnds
    <2>5. list[j].start < x
      BY <1>10, <2>2, <2>3, <2>4
    <2>6. list[j].end <= b \/ z <= list[j].start
      BY <1>3, <2>1 DEF b, z, free
    <2>7. list[j].start # b
      BY <1>10, <2>3, <2>4, <2>6
    <2>8. list[j].start \in T1 \cup T3
      BY <1>12, <2>2, <2>5, <2>7
    <2>9. ReadAtom(g, list[j].start) = ReadAtom(f, list[j].start)
      BY <1>12, <2>8
    <2> HIDE DEF T1, T3
    <2> QED
      BY <2>2, <2>8, <2>9, StandsSame
  <1>15. \A j \in 1 .. Len(moved) : moved[j].start \in T /\ Stands(g, moved[j])
    <2> TAKE j \in 1 .. Len(moved)
    <2> HIDE DEF T1, T3
    <2>1. CASE j \in 1 .. i - 1
      <3>1. j \in 1 .. n - 1 /\ j # i /\ moved[j] = list[j]
        BY <1>2, <1>3, <1>9, <2>1
      <3> QED
        BY <1>14, <3>1
    <2>2. CASE j = i
      BY <1>7, <1>9, <2>2
    <2>3. CASE \E k \in 1 .. Len(left) : j = i + k
      BY <1>7, <1>9, <2>3
    <2>4. CASE \E k \in i + 1 .. n - 1 : j = Len(left) + k
      <3>1. PICK k \in i + 1 .. n - 1 : j = Len(left) + k
        BY <2>4
      <3>2. k \in 1 .. n - 1 /\ k # i /\ moved[j] = list[k]
        BY <1>2, <1>9, <3>1
      <3> QED
        BY <1>14, <3>2
    <2> QED
      BY <1>13, <2>1, <2>2, <2>3, <2>4
  <1>16. \A j \in 1 .. n - 1 : j # i => \E k \in 1 .. Len(moved) : moved[k] = list[j]
    <2> SUFFICES ASSUME NEW j \in 1 .. n - 1, j # i
                 PROVE  \E k \in 1 .. Len(moved) : moved[k] = list[j]
      OBVIOUS
    <2>1. Len(moved) = Len(left) + (n - 1) /\ Len(left) \in Nat
      BY <1>7, <1>9
    <2>2. CASE j < i
      <3>1. j \in 1 .. i - 1 /\ j \in 1 .. Len(moved)
        BY <1>2, <1>3, <2>1, <2>2
      <3> QED
        BY <1>9, <3>1
    <2>3. CASE j > i
      <3>1. j \in i + 1 .. n - 1 /\ Len(left) + j \in 1 .. Len(moved)
        BY <1>2, <1>3, <2>1, <2>3
      <3> QED
        BY <1>9, <3>1
    <2> QED
      BY <1>2, <2>2, <2>3
  \* an atom before moov that is not free is in the tree
  <1>17. \A a \in S : ~ IsFree(ReadAtom(f, a)) /\ a < x =>
            /\ a \in T1 \cup T3
            /\ \E k \in 1 .. Len(moved) : moved[k].start = a
    <2> SUFFICES ASSUME NEW a \in S, ~ IsFree(ReadAtom(f, a)), a < x
                 PROVE  a \in T1 \cup T3 /\ \E k \in 1 .. Len(moved) : moved[k].start = a
      OBVIOUS
    <2>1. PICK j \in 1 .. n : list[j].start = a
      BY <1>3
    <2>2. j # n
      BY <1>10, <2>1 DEF x, moov
    <2>3. j # i
      <3>1. ReadAtom(f, b).type = "free"
        BY <1>2, <1>4 DEF Stands, b
      <3>2. a # b
        BY <3>1 DEF IsFree
      <3> QED
        BY <2>1, <3>2 DEF b, free
    <2>4. j \in 1 .. n - 1
      BY <1>3, <2>2
    <2>5. list[j].start \in T1 \cup T3
      BY <1>14, <2>3, <2>4
    <2> HIDE DEF T1, T3
    <2> QED
      BY <1>16, <2>1, <2>3, <2>4, <2>5
  <1>18. \A a \in T : ~ IsFree(ReadAtom(g, a)) => \E k \in 1 .. Len(moved) : moved[k].start = a
    <2> SUFFICES ASSUME NEW a \in T, ~ IsFree(ReadAtom(g, a))
                 PROVE  \E k \in 1 .. Len(moved) : moved[k].start = a
      OBVIOUS
    <2>1. CASE a = b
      <3>1. i \in 1 .. Len(moved)
        BY <1>2, <1>3, <1>7, <1>9
      <3> QED
        BY <1>7, <1>9, <2>1, <3>1
    <2>2. CASE a \in C /\ a # b
      BY <1>7, <2>2 DEF IsFree
    <2>3. CASE a \in T1 \cup T3
      <3>1. ReadAtom(g, a) = ReadAtom(f, a)
        BY <1>12, <2>3
      <3>2. a \in S /\ a \in Nat
        BY <1>3, <2>3 DEF Tiles
      <3>3. a < x
        BY <1>10, <2>3, <3>2
      <3> QED
        BY <1>17, <3>1, <3>2, <3>3
    <2> QED
      BY <2>1, <2>2, <2>3
  <1>19. Tree(g, T, moved, Len(moved), x)
    <2>1. Len(moved) \in 0 .. Len(moved)
      BY <1>9
    <2> HIDE DEF T
    <2> QED
      BY <1>9, <1>12, <1>13, <1>15, <1>18, <2>1 DEF Tree
  <1>20. /\ ReadAtom(g, b).type = "moov" /\ ~ ReadAtom(g, b).large
         /\ ReadAtom(g, b).size = moov.size /\ ReadAtom(g, b).content = Data(moov)
    <2>1. LET r == Atom("moov", b, b + 2 + moov.size, moov.size, FALSE, Data(moov))
          IN  r.type = "moov" /\ r.large = FALSE /\ r.size = moov.size /\ r.content = Data(moov)
      BY Zenon DEF Atom
    <2> QED
      BY <1>7, <2>1, Zenon
  <1>21. Orderly(g, T, media, limit)
    <2>1. \A a \in T : \/ a \in S /\ ReadAtom(g, a) = ReadAtom(f, a)
                       \/ ReadAtom(g, a).type \in {"moov", "free"}
      BY <1>7, <1>12, <1>20
    <2>2. \A at \in media : \E a \in T : Holds(g, a, at)
      <3> TAKE at \in media
      <3>1. PICK a \in S : Holds(f, a, at)
        BY <1>3 DEF Orderly
      <3>2. ReadAtom(f, a).type = "mdat"
        BY <3>1 DEF Holds
      <3>3. a < x
        <4>1. PICK j \in 1 .. n : list[j].start = a
          BY <1>3, <3>2 DEF IsFree
        <4>2. list[j].type = "mdat"
          BY <1>3, <3>2, <4>1 DEF Stands
        <4>3. j # n
          BY <1>1, <4>2
        <4>4. j \in 1 .. n - 1 /\ n \in 1 .. n
          BY <1>3, <4>3
        <4>5. list[j].end <= x
          BY <1>3, <4>4 DEF x, moov
        <4>6. list[j].end = End(f, a)
          BY <1>3, <4>1 DEF Stands
        <4>7. a \in Nat /\ End(f, a) \in Nat /\ a + 2 <= End(f, a)
          BY <1>3, TileEnds
        <4> QED
          BY <1>10, <4>5, <4>6, <4>7
      <3>4. a \in T1 \cup T3
        BY <1>17, <3>2, <3>3 DEF IsFree
      <3>5. ReadAtom(g, a) = ReadAtom(f, a) /\ a \in T
        BY <1>12, <3>4
      <3> HIDE DEF T
      <3> QED
        BY <3>1, <3>5 DEF Holds
    <2> HIDE DEF T
    <2>3. \A a \in T : ReadAtom(g, a).type # "unreadable"
      BY <1>3, <2>1 DEF Orderly
    <2>4. \A a \in T : ReadAtom(g, a).type = "mdat" => End(g, a) <= a + MaxSize
      <3> SUFFICES ASSUME NEW a \in T, ReadAtom(g, a).type = "mdat"
                   PROVE  End(g, a) <= a + MaxSize
        OBVIOUS
      <3>1. a \in S /\ ReadAtom(g, a) = ReadAtom(f, a)
        BY <2>1
      <3> QED
        BY <1>3, <3>1 DEF Orderly, End
    <2>5. \A a \in T : \/ ReadAtom(g, a).type = "moov" \/ IsFree(ReadAtom(g, a))
                       \/ End(g, a) <= limit
      <3> TAKE a \in T
      <3>1. CASE a \in S /\ ReadAtom(g, a) = ReadAtom(f, a)
        BY <1>3, <3>1 DEF Orderly, End
      <3> QED
        BY <2>1, <3>1 DEF IsFree
    <2> QED
      BY <2>2, <2>3, <2>4, <2>5 DEF Orderly
  <1>22. OneMoov(g, T, b)
    <2>1. \A a \in T1 \cup T3 : ReadAtom(g, a).type # "moov" /\ a # b
      <3> TAKE a \in T1 \cup T3
      <3>1. a \in S /\ a \in Nat
        BY <1>3 DEF Tiles
      <3>2. a # x /\ a # b
        BY <1>10, <3>1
      <3>3. ReadAtom(f, a).type # "moov"
        BY <1>1, <3>1, <3>2 DEF OneMoov
      <3> QED
        BY <1>12, <3>2, <3>3
    <2>2. \A a \in C : (ReadAtom(g, a).type = "moov") <=> (a = b)
      BY <1>7, <1>20
    <2>3. b \in T
      BY <1>7
    <2>4. \A a \in T : (ReadAtom(g, a).type = "moov") <=> (a = b)
      BY <2>1, <2>2
    <2> QED
      BY <2>3, <2>4 DEF OneMoov
  <1>23. IsMovie(g, b, v)
    BY <1>1, <1>5, <1>20 DEF IsMovie
  <1>24. Lays(f, PlacedWrites(free, moov), g, Safe(media))
    <2>1. ReadAtom(f, b).type = "free"
      BY <1>2, <1>4 DEF Stands, b
    <2>2. b .. End(f, b) - 1 \subseteq Safe(media)
      BY <1>3, <1>10, <2>1, SafePlaces
    <2>3. b .. z - 1 \subseteq Safe(media) /\ Safe(media) \in SUBSET Nat
      BY <1>10, <2>2 DEF Safe
    <2> QED
      BY <1>7, <2>3, LaysAt DEF b, z
  <1>25. \A j \in 1 .. i : moved[j].type # "mdat"
    <2> TAKE j \in 1 .. i
    <2>1. CASE j = i
      BY <1>8, <1>9, <2>1
    <2>2. CASE j \in 1 .. i - 1
      BY <1>2, <1>9, <2>2
    <2> QED
      BY <1>2, <2>1, <2>2
  <1>26. OfType(list, "mdat") # {} => OfType(moved, "mdat") # {}
    <2> SUFFICES ASSUME OfType(list, "mdat") # {} PROVE OfType(moved, "mdat") # {}
      OBVIOUS
    <2>1. PICK j \in DOMAIN list : list[j].type = "mdat"
      BY DEF OfType
    <2>2. j \in 1 .. n /\ j # n /\ j # i
      BY <1>1, <1>2, <1>3, <2>1 DEF n, free
    <2>3. j \in 1 .. n - 1
      BY <1>3, <2>2
    <2>4. PICK k \in 1 .. Len(moved) : moved[k] = list[j]
      BY <1>16, <2>2, <2>3
    <2>5. k \in DOMAIN moved
      BY <1>9
    <2> QED
      BY <2>1, <2>4, <2>5 DEF OfType
  <1>27. i \in 1 .. Len(moved)
    BY <1>2, <1>3, <1>7, <1>9
  <1> HIDE DEF T
  <1>28. InFront(f, list, i, media, limit, v, g, T)
    BY <1>1, <1>7, <1>8, <1>9, <1>19, <1>21, <1>22, <1>23, <1>24, <1>25, <1>26, <1>27
    DEF InFront, n, moov, free, there, moved, x, b
  <1> QED
    BY <1>28

LEMMA LastRemoved ==
    ASSUME NEW A, NEW list \in Seq(A), Len(list) # 0
    PROVE  LET n == Len(list)
           IN  RemoveAt(list, n) = SubSeq(list, 1, n - 1) /\ Len(RemoveAt(list, n)) = n - 1
  <1> DEFINE n == Len(list)
             front == SubSeq(list, 1, n - 1)
             none == SubSeq(list, n + 1, n)
  <1>1. n \in Nat /\ n >= 1
    OBVIOUS
  <1>2. front \in Seq(A) /\ Len(front) = n - 1
    <2> DEFINE k == n - 1
    <2>1. k \in Nat /\ k <= Len(list) /\ Len(list) \in Nat
      BY <1>1
    <2> HIDE DEF k
    <2>2. SubSeq(list, 1, k) \in Seq(A) /\ Len(SubSeq(list, 1, k)) = k
      BY <2>1
    <2> QED
      BY <2>2 DEF k
  <1>3. none = <<>>
    <2>1. none \in Seq(A) /\ Len(none) = 0
      BY <1>1
    <2> HIDE DEF none
    <2> QED
      BY <2>1
  <1>4. RemoveAt(list, n) = front \o none
    BY DEF RemoveAt
  <1> HIDE DEF front, none
  <1>5. RemoveAt(list, n) = front
    BY <1>2, <1>3, <1>4
  <1> QED
    BY <1>2, <1>5 DEF front

LEMMA MoveIs ==
    ASSUME NEW list \in Seq(Atoms), Len(list) # 0, Moov(list) = Len(list),
           NEW i \in 1 .. Len(list),
           NEW m, LastMdat(Moved(list, i)) = m,
           RootFinish(Moved(list, i), Moved(list, i)[m].end) \in Results
    PROVE  LET again == RootFinish(Moved(list, i), Moved(list, i)[m].end)
               done == MoveToFront(list, i)
           IN  /\ done.atoms = again.atoms /\ done.position = again.position
               /\ done.writes = PlacedWrites(list[i], list[Len(list)]) \o again.writes
               /\ PlacedWrites(list[i], list[Len(list)]) \in Writes => done \in Results
  <1> DEFINE n == Len(list)
             moved == Moved(list, i)
             again == RootFinish(moved, moved[m].end)
             w == PlacedWrites(list[i], list[n])
             done == MoveToFront(list, i)
  <1>1. RemoveAt(list, n) = SubSeq(list, 1, n - 1) /\ Len(RemoveAt(list, n)) = n - 1
    BY LastRemoved
  <1>2. done = [again EXCEPT !.writes = w \o @]
    <2> DEFINE free == list[i]
               moov == list[n]
               rest == [free EXCEPT !.size = free.size - moov.size - 2]
               there == Written(moov, free.start)
               left == IF free.size = moov.size THEN <<>>
                       ELSE <<Written(rest, there.end)>>
               others == RemoveAt(list, n)
               behind == SubSeq(others, i + 1, Len(others))
               y == Append(SubSeq(list, 1, i - 1), there) \o left \o behind
               u == AtomWrites(moov, free.start)
                       \o (IF left = <<>> THEN <<>> ELSE AtomWrites(rest, there.end))
               r == RootFinish(y, y[LastMdat(y)].end)
    <2>1. done = [r EXCEPT !.writes = u \o @]
      BY DEF MoveToFront
    <2>2. left = Left(list[i], list[n])
      BY DEF Left
    <2>3. y = moved
      BY <1>1, <2>2 DEF Moved
    <2>4. u = w
      BY <2>2 DEF PlacedWrites
    <2> HIDE DEF y, u
    <2>5. r = again
      BY <2>3
    <2> HIDE DEF r, again
    <2> QED
      BY <2>1, <2>4, <2>5
  <1>3. again \in [atoms : Seq(Atoms), writes : Writes, position : Nat]
    BY DEF Results, Writes
  <1> HIDE DEF done, again, w
  <1>4. /\ done.atoms = again.atoms /\ done.position = again.position
        /\ done.writes = w \o again.writes
    BY <1>2, <1>3
  <1>5. w \in Writes => done \in Results
    <2> SUFFICES ASSUME w \in Writes PROVE done \in Results
      OBVIOUS
    <2>1. w \o again.writes \in Writes
      BY <1>3 DEF Writes
    <2>2. done \in [atoms : Seq(Atoms), writes : Writes, position : Nat]
      BY <1>2, <1>3, <2>1
    <2> QED
      BY <2>2 DEF Results, Writes
  <1> QED
    BY <1>4, <1>5 DEF done, again, w

LEMMA MovieMoved ==
    ASSUME NEW f \in Disk, NEW S, NEW list, NEW pos, NEW media \in SUBSET Nat,
           NEW limit \in Int, NEW v, Complete(f, S, list, pos, media, limit, v),
           Len(list) # 0, list[Len(list)].type = "moov", Homes(list) # {},
           OfType(list, "mdat") # {}
    PROVE  LET done == MoveToFront(list, Min(Homes(list)))
           IN  /\ done \in Results
               /\ \E g, T : /\ Lays(f, done.writes, g, Safe(media))
                            /\ Complete(g, T, done.atoms, done.position, media, limit, v)
  <1> DEFINE i == Min(Homes(list))
             n == Len(list)
             moved == Moved(list, i)
             w == PlacedWrites(list[i], list[n])
             there == Written(list[n], list[i].start)
             x == list[n].start
             done == MoveToFront(list, i)
  <1>1. list \in Seq(Atoms)
    BY DEF Complete, Tree
  <1>2. i \in Homes(list)
    BY <1>1, HomeIs
  <1> HIDE DEF i
  <1>3. PICK g, T : InFront(f, list, i, media, limit, v, g, T)
    BY <1>2, MoovMoved
  <1>4. /\ Lays(f, w, g, Safe(media)) /\ g \in Disk
        /\ Tree(g, T, moved, Len(moved), x)
        /\ Orderly(g, T, media, limit) /\ x <= limit
        /\ i \in 1 .. Len(moved) /\ moved[i] = there
        /\ there.type = "moov" /\ there.size > 0
        /\ there.content = MoovData(v, there.size)
        /\ OneMoov(g, T, there.start) /\ IsMovie(g, there.start, v)
        /\ \A j \in 1 .. i : moved[j].type # "mdat"
        /\ OfType(moved, "mdat") # {}
    BY <1>3, Zenon DEF InFront
  <1>5. Moov(list) = n /\ i \in 1 .. n
    <2>1. Moov(list) = n
      BY MoovLast
    <2>2. i \in 1 .. n
      BY <1>1, <1>2 DEF Homes, OfType
    <2> QED
      BY <2>1, <2>2
  <1> HIDE DEF moved, w, there, x
  <1>6. moved \in Seq(Atoms) /\ Len(moved) \in Nat
    BY <1>4 DEF Tree
  <1> DEFINE m == LastMdat(moved)
  <1>7. /\ m \in 1 .. Len(moved) /\ moved[m].type = "mdat"
        /\ \A j \in m + 1 .. Len(moved) : moved[j].type # "mdat"
    <2> DEFINE X == OfType(moved, "mdat")
    <2>1. X \in SUBSET (1 .. Len(moved)) /\ X # {}
      BY <1>4, <1>6 DEF OfType
    <2>2. \A j \in X : moved[j].type = "mdat"
      BY DEF OfType
    <2>3. \A j \in 1 .. Len(moved) : moved[j].type = "mdat" => j \in X
      BY <1>6 DEF OfType
    <2> HIDE DEF X
    <2>4. X \in SUBSET Int /\ Len(moved) \in Int /\ \A j \in X : j <= Len(moved)
      BY <1>6, <2>1
    <2>5. Max(X) \in X /\ \A j \in X : j <= Max(X)
      BY <2>1, <2>4, MaxInside
    <2>6. m \in X /\ \A j \in X : j <= m
      BY <2>5 DEF LastMdat, X
    <2> HIDE DEF m
    <2>7. \A j \in m + 1 .. Len(moved) : moved[j].type # "mdat"
      <3> SUFFICES ASSUME NEW j \in m + 1 .. Len(moved), moved[j].type = "mdat"
                   PROVE  FALSE
        OBVIOUS
      <3>1. j \in 1 .. Len(moved) /\ j > m
        BY <1>6, <2>1, <2>6
      <3>2. j <= m
        BY <2>3, <2>6, <3>1
      <3> QED
        BY <1>6, <2>1, <2>6, <3>1, <3>2
    <2> QED
      BY <2>1, <2>2, <2>6, <2>7
  <1> DEFINE again == RootFinish(moved, moved[m].end)
  <1>8. i \in 1 .. m - 1
    <2> HIDE DEF m
    <2>1. m \notin 1 .. i
      BY <1>4, <1>7
    <2> QED
      BY <1>4, <1>6, <1>7, <2>1
  <1>9. /\ again \in Results
        /\ \E h, U : /\ Lays(g, again.writes, h, Safe(media))
                     /\ Complete(h, U, again.atoms, again.position, media, limit, v)
    <2>1. /\ moved[i].type = "moov" /\ moved[i].size > 0
          /\ moved[i].content = MoovData(v, moved[i].size)
          /\ OneMoov(g, T, moved[i].start) /\ IsMovie(g, moved[i].start, v)
      BY <1>4
    <2>2. /\ g \in Disk /\ Tree(g, T, moved, Len(moved), x)
          /\ Orderly(g, T, media, limit) /\ x <= limit
      BY <1>4
    <2> HIDE DEF m, again
    <2>3. LET r == RootFinish(moved, moved[m].end)
          IN  /\ r \in Results
              /\ \E h, U : /\ Lays(g, r.writes, h, Safe(media))
                           /\ Complete(h, U, r.atoms, r.position, media, limit, v)
      BY <1>7, <1>8, <2>1, <2>2, FinishedAgain
    <2> QED
      BY <2>3 DEF again
  <1>10. PICK h, U : /\ Lays(g, again.writes, h, Safe(media))
                     /\ Complete(h, U, again.atoms, again.position, media, limit, v)
    BY <1>9
  <1>11. /\ done.atoms = again.atoms /\ done.position = again.position
         /\ done.writes = w \o again.writes
         /\ w \in Writes => done \in Results
    <2> HIDE DEF done, m
    <2>1. LastMdat(moved) = m
      BY DEF m
    <2> QED
      BY <1>1, <1>5, <1>9, <2>1, MoveIs DEF moved, w, done
  <1>12. w \in Writes
    <2>1. w \in Seq([at : Safe(media), cell : Cell])
      BY <1>4 DEF Lays
    <2>2. [at : Safe(media), cell : Cell] \subseteq [at : Nat, cell : Cell]
      BY DEF Safe
    <2> QED
      <3> DEFINE X == [at : Safe(media), cell : Cell]
                 Y == [at : Nat, cell : Cell]
      <3>1. w \in Seq(X) /\ X \subseteq Y
        BY <2>1, <2>2
      <3> HIDE DEF X, Y
      <3>2. w \in Seq(Y)
        BY <3>1, MoreMembers
      <3> QED
        BY <3>2 DEF Y, Writes
  <1>13. Lays(f, done.writes, h, Safe(media))
    <2>1. Lays(f, w \o again.writes, h, Safe(media) \cup Safe(media))
      <3> HIDE DEF again
      <3> QED
        BY <1>4, <1>10, LaysJoin
    <2>2. Safe(media) \cup Safe(media) = Safe(media)
      OBVIOUS
    <2> QED
      BY <1>11, <2>1, <2>2
  <1> HIDE DEF done, again
  <1>14. Complete(h, U, done.atoms, done.position, media, limit, v)
    BY <1>10, <1>11
  <1> QED
    BY <1>11, <1>12, <1>13, <1>14 DEF done, i

-----------------------------------------------------------------------------
(* Close marks the rest of the file as free, or cuts it off *)

\* what is behind the tree does not matter
LEMMA CompleteSame ==
    ASSUME NEW f \in Disk, NEW S, NEW list, NEW pos, NEW media \in SUBSET Nat,
           NEW limit \in Int, NEW v, Complete(f, S, list, pos, media, limit, v),
           NEW g \in Disk, pos <= Len(g), \A k \in 1 .. pos : g[k] = f[k]
    PROVE  Complete(g, S, list, pos, media, limit, v)
  <1> DEFINE n == Len(list)
  <1>1. /\ list \in Seq(Atoms) /\ n \in 0 .. n /\ Tiles(f, S, 0, pos)
        /\ \A i \in 1 .. n : list[i].start \in S /\ Stands(f, list[i])
        /\ \A j \in 1 .. n : \A i \in 1 .. j - 1 : list[i].end <= list[j].start
        /\ \A a \in S : ~ IsFree(ReadAtom(f, a)) => \E i \in 1 .. n : list[i].start = a
        /\ Orderly(f, S, media, limit)
    BY DEF Complete, Tree
  <1>2. PICK i \in 1 .. n :
          /\ list[i].type = "moov"
          /\ list[i].content = MoovData(v, list[i].size) /\ list[i].size > 0
          /\ OneMoov(f, S, list[i].start) /\ IsMovie(f, list[i].start, v)
          /\ list[i].start <= limit /\ pos <= limit + 2 + list[i].size
    BY DEF Complete
  <1> HIDE DEF n
  <1>3. Tiles(g, S, 0, pos) /\ \A a \in S : ReadAtom(g, a) = ReadAtom(f, a)
    <2>1. \A k \in 0 + 1 .. pos : g[k] = f[k]
      OBVIOUS
    <2> QED
      BY <1>1, <2>1, TilesSame
  <1>4. \A j \in 1 .. n : list[j].start \in S /\ Stands(g, list[j])
    BY <1>1, <1>3, StandsSame
  <1>5. Tree(g, S, list, n, pos)
    BY <1>1, <1>3, <1>4 DEF Tree, n
  <1>6. Orderly(g, S, media, limit)
    <2>1. \A a \in S : End(f, a) \in Int
      BY <1>1, TileEnds
    <2>2. \A a \in S : a \in S /\ ReadAtom(g, a) = ReadAtom(f, a)
      BY <1>3
    <2>3. limit <= limit
      OBVIOUS
    <2> QED
      BY <1>1, <2>1, <2>2, <2>3, OrderlySame
  <1>7. list[i].start \in S
    BY <1>1
  <1>8. OneMoov(g, S, list[i].start) /\ IsMovie(g, list[i].start, v)
    <2>1. ReadAtom(g, list[i].start) = ReadAtom(f, list[i].start)
      BY <1>3, <1>7
    <2>2. OneMoov(g, S, list[i].start)
      BY <1>2, <1>3 DEF OneMoov
    <2> QED
      BY <1>2, <2>1, <2>2 DEF IsMovie
  <1> QED
    BY <1>2, <1>5, <1>6, <1>8 DEF Complete, n

\* a complete tree up to the end of the file, but for what is too short for a header
LEMMA WholeReady ==
    ASSUME NEW f \in Disk, NEW S, NEW list, NEW pos, NEW media, NEW limit, NEW v,
           Complete(f, S, list, pos, media, limit, v), pos + 1 >= Len(f)
    PROVE  Ready(f, media, limit, v)
  <1>1. Tiles(f, S, 0, pos) /\ Orderly(f, S, media, limit)
        /\ \A i \in 1 .. Len(list) : list[i].start \in S
    BY DEF Complete, Tree
  <1>2. PICK i \in 1 .. Len(list) :
          /\ OneMoov(f, S, list[i].start) /\ IsMovie(f, list[i].start, v)
          /\ list[i].start <= limit
    BY DEF Complete
  <1>3. Filled(f, S, pos)
    BY <1>1 DEF Filled
  <1> QED
    BY <1>1, <1>2, <1>3 DEF Ready

\* the free atom that takes what is left of the file, and no more
Marked(f, S, list, pos, media, limit, v) ==
    /\ Complete(f, S, list, pos, media, limit, v)
    /\ Whole(f, pos) /\ ReadAtom(f, pos).type = "free" /\ End(f, pos) = Len(f)

LEMMA RestMarked ==
    ASSUME NEW f \in Disk, NEW S, NEW list, NEW pos, NEW media \in SUBSET Nat,
           NEW limit \in Int, NEW v, Complete(f, S, list, pos, media, limit, v),
           pos < Len(f)
    PROVE  LET n == Max({0, Len(f) - pos - 2})
               w == AtomWrites(Atom("free", 0, 0, n, FALSE, <<>>), pos)
           IN  /\ w \in Writes
               /\ \E g : /\ Lays(f, w, g, Safe(media))
                         /\ Marked(g, S, list, pos, media, limit, v)
  <1> DEFINE n == Max({0, Len(f) - pos - 2})
             free == Atom("free", 0, 0, n, FALSE, <<>>)
             w == AtomWrites(free, pos)
  <1>1. Tiles(f, S, 0, pos) /\ Orderly(f, S, media, limit) /\ pos \in Nat /\ Len(f) \in Nat
    <2>1. Tiles(f, S, 0, pos) /\ Orderly(f, S, media, limit)
      BY DEF Complete, Tree
    <2> QED
      BY <2>1 DEF Tiles, Disk
  <1>2. n \in Nat /\ n = IF Len(f) - pos >= 2 THEN Len(f) - pos - 2 ELSE 0
    <2> DEFINE X == {0, Len(f) - pos - 2}
               y == IF Len(f) - pos >= 2 THEN Len(f) - pos - 2 ELSE 0
    <2>1. X \in SUBSET Int /\ y \in X /\ (\A x \in X : x <= y) /\ y \in Nat
      BY <1>1
    <2> HIDE DEF X, y
    <2>2. Max(X) = y
      BY <2>1, MaxIs
    <2> QED
      BY <2>1, <2>2 DEF X, y
  <1> HIDE DEF n
  <1>3. free \in Atoms /\ free.type = "free" /\ free.size = n
    <2>1. "free" \in TypeNames /\ 0 \in Nat
      BY TypeNamesAssumption
    <2>2. <<>> \in Seq(Cell)
      OBVIOUS
    <2>3. FALSE \in BOOLEAN
      BY Zenon
    <2>4. free \in Atoms
      BY <1>2, <2>1, <2>2, <2>3, AtomTyped
    <2> QED
      BY <2>4 DEF Atom
  <1> HIDE DEF free
  <1>4. Data(free) \in Seq(Cell) /\ Len(Data(free)) = n
    BY <1>3, DataTyped
  <1>5. PICK g : /\ Lays(f, w, g, Place(pos, n))
                 /\ Len(g) = IF pos + 2 + n <= Len(f) THEN Len(f) ELSE pos + 2 + n
                 /\ Whole(g, pos)
                 /\ ReadAtom(g, pos) = Atom("free", pos, pos + 2 + n, n, FALSE, Data(free))
    <2>1. free.type \in TypeNames /\ pos <= Len(f)
      BY <1>1, <1>3, TypeNamesAssumption
    <2> DEFINE k == Len(Data(free))
    <2>2. \E h : /\ Lays(f, AtomWrites(free, pos), h, Place(pos, k))
                 /\ Len(h) = IF pos + 2 + k <= Len(f) THEN Len(f) ELSE pos + 2 + k
                 /\ Whole(h, pos)
                 /\ ReadAtom(h, pos) = Atom(free.type, pos, pos + 2 + k, k, FALSE, Data(free))
      BY <1>1, <1>4, <2>1, AtomLaid
    <2>3. k = n
      BY <1>4
    <2> HIDE DEF k
    <2> QED
      BY <1>3, <2>2, <2>3
  <1>6. g \in Disk /\ Len(f) <= Len(g) /\ Len(g) \in Nat
        /\ \A p \in 1 .. Len(f) : p - 1 \notin Place(pos, n) => g[p] = f[p]
    BY <1>5, LaysKeep
  <1>7. Lays(f, w, g, Safe(media))
    <2>1. {p \in Nat : pos <= p} \subseteq Safe(media)
      BY <1>1, SafePlaces
    <2>2. Place(pos, n) \subseteq {p \in Nat : pos <= p}
      <3> HIDE DEF w
      <3>1. pos \in Nat /\ n \in Nat
        BY <1>1, <1>2
      <3>2. \A p \in pos .. pos + 1 + n : p \in Nat /\ pos <= p
        BY <3>1
      <3> QED
        BY <3>2 DEF Place
    <2>3. Place(pos, n) \subseteq Safe(media) /\ Safe(media) \in SUBSET Nat
      BY <2>1, <2>2 DEF Safe
    <2> HIDE DEF w
    <2> QED
      BY <1>5, <2>3, LaysAt
  <1>8. Complete(g, S, list, pos, media, limit, v)
    <2>1. \A p \in 1 .. pos : p \in 1 .. Len(f) /\ p - 1 \notin Place(pos, n)
      <3>1. \A y \in Place(pos, n) : pos <= y
        BY <1>1, <1>2 DEF Place
      <3>2. \A p \in 1 .. pos : p \in 1 .. Len(f) /\ p - 1 < pos /\ p - 1 \in Int
        BY <1>1
      <3> QED
        BY <1>1, <3>1, <3>2
    <2>2. \A p \in 1 .. pos : g[p] = f[p]
      BY <1>6, <2>1
    <2>3. pos <= Len(g)
      BY <1>1, <1>6
    <2> QED
      BY <1>6, <2>2, <2>3, CompleteSame
  <1>9. ReadAtom(g, pos).type = "free" /\ End(g, pos) = pos + 2 + n
    BY <1>5 DEF Atom, End
  <1>10. pos + 2 + n = Len(g)
    <2>1. Len(g) = IF pos + 2 + n <= Len(f) THEN Len(f) ELSE pos + 2 + n
      BY <1>5
    <2>2. pos < Len(f) /\ pos \in Nat /\ Len(f) \in Nat
      BY <1>1
    <2>3. CASE Len(f) - pos >= 2
      <3>1. n = Len(f) - pos - 2
        BY <1>2, <2>3
      <3> QED
        BY <2>1, <2>2, <3>1
    <2>4. CASE ~ (Len(f) - pos >= 2)
      <3>1. n = 0
        BY <1>2, <2>4
      <3> QED
        BY <2>1, <2>2, <2>4, <3>1
    <2> QED
      BY <2>3, <2>4
  <1>11. Marked(g, S, list, pos, media, limit, v)
    BY <1>5, <1>8, <1>9, <1>10 DEF Marked
  <1>12. w \in Writes
    BY <1>1, <1>3, AtomWritesTyped DEF Writes
  <1> QED
    BY <1>7, <1>11, <1>12 DEF n, free, w

LEMMA MarkedReady ==
    ASSUME NEW f \in Disk, NEW S, NEW list, NEW pos, NEW media \in SUBSET Nat,
           NEW limit \in Int, NEW v, Marked(f, S, list, pos, media, limit, v)
    PROVE  Ready(f, media, limit, v) /\ Ready(SubSeq(f, 1, pos), media, limit, v)
  <1>1. /\ Complete(f, S, list, pos, media, limit, v)
        /\ Whole(f, pos) /\ ReadAtom(f, pos).type = "free" /\ End(f, pos) = Len(f)
    BY DEF Marked
  <1>2. /\ Tiles(f, S, 0, pos) /\ Orderly(f, S, media, limit) /\ pos \in Nat
        /\ pos <= Len(f) /\ Len(f) \in Nat
        /\ \A i \in 1 .. Len(list) : list[i].start \in S
    <2>1. /\ Tiles(f, S, 0, pos) /\ Orderly(f, S, media, limit)
          /\ \A i \in 1 .. Len(list) : list[i].start \in S
      BY <1>1 DEF Complete, Tree
    <2> QED
      BY <2>1 DEF Tiles, Disk
  <1>3. PICK i \in 1 .. Len(list) :
          /\ OneMoov(f, S, list[i].start) /\ IsMovie(f, list[i].start, v)
          /\ list[i].start <= limit
    BY <1>1 DEF Complete
  <1> DEFINE T == S \cup {pos}
             mo == list[i].start
  <1>4. Filled(f, T, Len(f))
    <2>1. Tiles(f, {pos}, pos, Len(f))
      BY <1>1, <1>2, TileOne
    <2>2. Tiles(f, T, 0, Len(f))
      BY <1>2, <2>1, TilesJoin
    <2> QED
      BY <1>2, <2>2 DEF Filled
  <1>5. Orderly(f, T, media, limit)
    <2>1. \A a \in T : a \in S \/ ReadAtom(f, a).type = "free"
      BY <1>1
    <2>2. S \subseteq T
      OBVIOUS
    <2> HIDE DEF T
    <2> QED
      BY <1>2, <2>1, <2>2 DEF Orderly, IsFree
  <1>6. mo \in S /\ OneMoov(f, T, mo)
    <2>1. mo \in S
      BY <1>2
    <2>2. ReadAtom(f, mo).type = "moov"
      BY <1>3, <2>1 DEF OneMoov
    <2>3. pos # mo
      BY <1>1, <2>2
    <2> QED
      BY <1>1, <1>3, <2>1, <2>3 DEF OneMoov
  <1>7. Ready(f, media, limit, v)
    BY <1>3, <1>4, <1>5, <1>6 DEF Ready
  <1> DEFINE g == SubSeq(f, 1, pos)
  <1>8. g \in Disk /\ Len(g) = pos /\ \A k \in 1 .. pos : g[k] = f[k]
    BY <1>2 DEF Disk
  <1> HIDE DEF g
  <1>9. Complete(g, S, list, pos, media, limit, v)
    BY <1>1, <1>2, <1>8, CompleteSame
  <1>10. Ready(g, media, limit, v)
    BY <1>2, <1>8, <1>9, WholeReady
  <1> QED
    BY <1>7, <1>10 DEF g

-----------------------------------------------------------------------------
(* Modify, all of it *)

\* moov is the only atom, or it follows an empty mdat
Opened(f, list, pos, media, limit) ==
    \/ Len(list) = 1 /\ list[1].type = "moov"
    \/ \E S, q : Modified(f, S, q, list, pos, media, limit)

\* the writes of w bring d to a disk on which list is opened
Opens(d, w, list, pos, media, limit) ==
    /\ list \in Seq(Atoms) /\ pos \in Nat
    /\ \E f : Lays(d, w, f, Safe(media)) /\ Opened(f, list, pos, media, limit)

LEMMA ModifiedMore ==
    ASSUME NEW f \in Disk, NEW S, NEW q, NEW list \in Seq(Atoms), NEW pos \in Nat, NEW media,
           NEW limit \in Int, Modified(f, S, q, list, pos, media, limit)
    PROVE  Modified(f, S, q, list, pos, media, limit + 2)
  <1>1. /\ Tree(f, S, list, Len(list) - 2, q) /\ Orderly(f, S, media, limit)
        /\ q <= limit /\ (pos = q + 2 \/ pos <= limit)
    BY DEF Modified
  <1>2. Tiles(f, S, 0, q) /\ q \in Nat
    BY <1>1 DEF Tree, Tiles
  <1>3. Orderly(f, S, media, limit + 2)
    <2>1. \A a \in S : End(f, a) \in Int
      BY <1>2, TileEnds
    <2> DEFINE more == limit + 2
    <2>2. more \in Int /\ limit <= more
      OBVIOUS
    <2> HIDE DEF more
    <2>3. Orderly(f, S, media, more)
      BY <1>1, <2>1, <2>2, OrderlySame
    <2> QED
      BY <2>3 DEF more
  <1>4. q <= limit + 2 /\ (pos = q + 2 \/ pos <= limit + 2)
    BY <1>1, <1>2
  <1> QED
    BY <1>3, <1>4 DEF Modified

LEMMA RoomMade ==
    ASSUME NEW d \in Disk, NEW media \in SUBSET Nat, NEW limit \in Int, NEW v,
           Ready(d, media, limit, v)
    PROVE  LET room == MakeRoom(ReadAtoms(d))
           IN  \E f, T : /\ Lays(d, room.writes, f, Safe(media))
                         /\ Room(f, T, room.atoms, room.position, media, limit)
  <1> DEFINE list == ReadAtoms(d)
             room == MakeRoom(list)
  <1>1. PICK S, e : /\ Filled(d, S, e) /\ Orderly(d, S, media, limit)
                    /\ \E m \in S : OneMoov(d, S, m) /\ IsMovie(d, m, v) /\ m <= limit
    BY DEF Ready
  <1>2. PICK mo \in S : OneMoov(d, S, mo) /\ IsMovie(d, mo, v) /\ mo <= limit
    BY <1>1
  <1>3. PICK m : Listed(d, S, e, list, m) /\ list[m].start = mo
    BY <1>1, <1>2, ListedOnce
  <1>4. ~ list[m].large
    <2>1. list[m] = ReadAtom(d, mo)
      BY <1>3 DEF Listed
    <2> QED
      BY <1>2, <2>1 DEF IsMovie
  <1> HIDE DEF list
  <1>5. CASE NotFree(SubSeq(list, m + 1, Len(list))) = <<>>
    <2>1. room.writes = <<>> /\ \E T : Room(d, T, room.atoms, room.position, media, limit)
      BY <1>1, <1>2, <1>3, <1>5, RoomAtEnd
    <2>2. Safe(media) \in SUBSET Nat
      BY DEF Safe
    <2>3. Lays(d, <<>>, d, Safe(media))
      BY <2>2, LaysNothing
    <2> HIDE DEF room
    <2> QED
      BY <2>1, <2>3 DEF room, list
  <1>6. CASE NotFree(SubSeq(list, m + 1, Len(list))) # <<>>
    <2>1. \E f, T : /\ Lays(d, room.writes, f, Safe(media))
                    /\ Room(f, T, room.atoms, room.position, media, limit)
      BY <1>1, <1>3, <1>4, <1>6, RoomBehind
    <2> QED
      BY <2>1 DEF list
  <1> QED
    BY <1>5, <1>6

LEMMA MovieOpened ==
    ASSUME NEW d \in Disk, NEW media \in SUBSET Nat, NEW limit \in Int, NEW v,
           Ready(d, media, limit, v)
    PROVE  LET room == MakeRoom(ReadAtoms(d))
               last == Len(room.atoms)
           IN  IF NeedsMdat(room.atoms)
               THEN Opens(d, room.writes \o BeginMdatWrites(room.position),
                          InsertAt(room.atoms, last, BegunMdat(room.position)),
                          room.position + 4, media, limit + 2)
               ELSE Opens(d, room.writes, room.atoms, room.position, media, limit + 2)
  <1> DEFINE room == MakeRoom(ReadAtoms(d))
             list == room.atoms
             p == room.position
             n == Len(list)
             new == InsertAt(list, n, BegunMdat(p))
  <1>1. PICK f, T : /\ Lays(d, room.writes, f, Safe(media))
                    /\ Room(f, T, list, p, media, limit)
    BY RoomMade
  <1> HIDE DEF room
  <1>2. /\ list \in Seq(Atoms) /\ n \in Nat /\ n # 0 /\ list[n].type = "moov"
        /\ p \in Nat /\ f \in Disk
    <2>1. n # 0 /\ Tree(f, T, list, n - 1, p) /\ list[n].type = "moov"
      BY <1>1 DEF Room
    <2>2. list \in Seq(Atoms) /\ p \in Nat
      BY <2>1 DEF Tree, Tiles
    <2>3. f \in Disk
      BY <1>1, LaysKeep
    <2> QED
      BY <2>1, <2>2, <2>3
  <1> HIDE DEF list, p
  <1>3. CASE NeedsMdat(list)
    <2>1. n > 1
      <3>1. Len(list) > 1
        BY <1>3, Zenon DEF NeedsMdat
      <3> QED
        BY <3>1
    <2>2. PICK g, U : /\ Lays(f, BeginMdatWrites(p), g, Safe(media))
                      /\ n > 1 => Modified(g, U, p + 2, new, p + 4, media, limit + 2)
                      /\ new \in Seq(Atoms)
      BY <1>1, <1>2, MdatBegun
    <2>3. Lays(d, room.writes \o BeginMdatWrites(p), g, Safe(media))
      <3>1. Lays(d, room.writes \o BeginMdatWrites(p), g, Safe(media) \cup Safe(media))
        BY <1>1, <2>2, LaysJoin
      <3>2. Safe(media) \cup Safe(media) = Safe(media)
        OBVIOUS
      <3> QED
        BY <3>1, <3>2
    <2>4. Opened(g, new, p + 4, media, limit + 2)
      BY <2>1, <2>2 DEF Opened
    <2>5. p + 4 \in Nat
      BY <1>2
    <2> HIDE DEF new
    <2>6. Opens(d, room.writes \o BeginMdatWrites(p), new, p + 4, media, limit + 2)
      BY <2>2, <2>3, <2>4, <2>5 DEF Opens
    <2> QED
      BY <1>3, <2>6 DEF new, list, p, room
  <1>4. CASE ~ NeedsMdat(list)
    <2>1. Opened(f, list, p, media, limit + 2)
      <3>1. CASE n = 1
        BY <1>2, <3>1 DEF Opened
      <3>2. CASE n # 1
        <4>1. n > 1
          <5>1. n \in Nat /\ n # 0 /\ n # 1
            BY <1>2, <3>2
          <5> HIDE DEF n
          <5> QED
            BY <5>1
        <4>2. list[n - 1].type = "mdat" /\ ~ (list[n - 1].size > 0)
          BY <1>4, <4>1 DEF NeedsMdat
        <4>3. PICK q, U : Modified(f, U, q, list, p, media, limit)
          BY <1>1, <1>2, <4>1, <4>2, MdatReused
        <4>4. Modified(f, U, q, list, p, media, limit + 2)
          BY <1>2, <4>3, ModifiedMore
        <4> QED
          BY <4>4 DEF Opened
      <3> QED
        BY <3>1, <3>2
    <2>2. Opens(d, room.writes, list, p, media, limit + 2)
      BY <1>1, <1>2, <2>1 DEF Opens
    <2> QED
      BY <1>4, <2>2 DEF list, p, room
  <1> QED
    BY <1>3, <1>4

-----------------------------------------------------------------------------
(* The steps of the program: what they need to know of the file *)

\* when nothing is left to be written, the disk is what it was to become
LEMMA LaysEmpty ==
    ASSUME NEW d, NEW f, NEW P, Lays(d, <<>>, f, P)
    PROVE  f = d
  <1>1. Len(<<>>) = 0
    OBVIOUS
  <1> QED
    BY <1>1 DEF Lays

\* the media data is where it was
Kept(d, old, media) == \A m \in media : m # 0 /\ m <= Len(d) /\ d[m] = old[m]

\* media data that no write touches is kept by the write
LEMMA MediaUntouched ==
    ASSUME NEW d \in Disk, NEW at, NEW cell \in Cell, NEW media \in SUBSET Nat,
           at \in Safe(media), NEW old, Kept(d, old, media)
    PROVE  Put(d, at, cell) \in Disk /\ Kept(Put(d, at, cell), old, media)
  <1> DEFINE e == Put(d, at, cell)
             p == IF at < Len(d) THEN at + 1 ELSE Len(d) + 1
  <1>1. at \in Nat /\ at + 1 \notin media /\ Len(d) \in Nat
    BY DEF Safe, Disk
  <1>2. /\ e \in Disk
        /\ Len(e) = IF at < Len(d) THEN Len(d) ELSE Len(d) + 1
        /\ \A k \in 1 .. Len(d) : k # p => e[k] = d[k]
    BY <1>1, PutCell
  <1> HIDE DEF e
  <1>3. \A m \in media : m # 0 /\ m <= Len(e) /\ e[m] = old[m]
    <2> TAKE m \in media
    <2>1. m \in Nat /\ m # 0 /\ m <= Len(d) /\ d[m] = old[m]
      BY DEF Kept
    <2>2. m \in 1 .. Len(d) /\ m # p /\ m <= Len(e)
      BY <1>1, <1>2, <2>1
    <2> QED
      BY <1>2, <2>1, <2>2
  <1> QED
    BY <1>2, <1>3 DEF e, Kept

\* and by cutting the file off behind its atoms
LEMMA MediaNotCut ==
    ASSUME NEW d \in Disk, NEW S, NEW list, NEW pos, NEW media \in SUBSET Nat,
           NEW limit, NEW v, Complete(d, S, list, pos, media, limit, v), NEW old,
           Kept(d, old, media)
    PROVE  SubSeq(d, 1, pos) \in Disk /\ Kept(SubSeq(d, 1, pos), old, media)
  <1> DEFINE e == SubSeq(d, 1, pos)
  <1>1. Tiles(d, S, 0, pos) /\ Orderly(d, S, media, limit)
    BY DEF Complete, Tree
  <1>2. pos \in Nat /\ pos <= Len(d) /\ Len(d) \in Nat
    BY <1>1 DEF Tiles, Disk
  <1>3. \A m \in media : m <= pos
    BY <1>1, MediaApart
  <1>4. e \in Disk /\ Len(e) = pos /\ \A k \in 1 .. pos : e[k] = d[k]
    BY <1>2 DEF Disk
  <1>5. \A m \in media : m \in 1 .. pos
    BY <1>2, <1>3 DEF Kept
  <1> QED
    BY <1>3, <1>4, <1>5 DEF Kept

\* what is read is a sequence of cells
LEMMA ContentTyped ==
    ASSUME NEW d \in Disk, NEW at \in Nat, at + 1 < Len(d)
    PROVE  ReadAtom(d, at).content \in Seq(Cell)
  <1> DEFINE r == ReadAtom(d, at)
             header == IF CellAt(d, at)[2] = 1 THEN 4 ELSE 2
  <1>1. r.end \in Nat /\ r.end <= Len(d) /\ Len(d) \in Nat
    BY AnyRead DEF Disk
  <1>2. r.content = <<>> \/ r.content = SubSeq(d, at + header + 1, r.end)
    BY DEF ReadAtom, Unreadable, Atom
  <1>3. header \in Nat
    OBVIOUS
  <1> HIDE DEF header, r
  <1>4. SubSeq(d, at + header + 1, r.end) \in Seq(Cell)
    BY <1>1, <1>3 DEF Disk
  <1>5. <<>> \in Seq(Cell)
    OBVIOUS
  <1>6. r.content \in Seq(Cell)
    BY <1>2, <1>4, <1>5
  <1> QED
    BY <1>6 DEF r

LEMMA MovieTyped ==
    ASSUME NEW d \in Disk
    PROVE  MovieIn(d) \in Int
  <1> DEFINE list == ReadAtoms(d)
             m    == Moov(list)
             data == list[m].content
  <1>1. CASE \/ OfType(list, "moov") = {} \/ OfType(list, "unreadable") # {}
             \/ data = <<>> \/ Head(data)[1] # "moov"
    BY <1>1 DEF MovieIn, NoMovie
  <1>2. CASE ~ (\/ OfType(list, "moov") = {} \/ OfType(list, "unreadable") # {}
                \/ data = <<>> \/ Head(data)[1] # "moov")
    <2>1. Follows(d, list)
      BY ReadFollows
    <2>2. DOMAIN list = 1 .. Len(list) /\ Len(list) \in Nat
      BY <2>1 DEF Follows
    <2>3. m \in 1 .. Len(list)
      <3>1. OfType(list, "moov") \subseteq 1 .. Len(list)
        BY <2>2 DEF OfType
      <3>2. OfType(list, "moov") \in SUBSET Nat /\ OfType(list, "moov") # {}
        BY <1>2, <3>1
      <3>3. PICK k \in OfType(list, "moov") : \A n \in OfType(list, "moov") : k <= n
        BY <3>2, LeastNatural
      <3>4. Min(OfType(list, "moov")) = k
        BY <3>2, <3>3, MinIs
      <3> QED
        BY <3>1, <3>4 DEF Moov
    <2>4. list[m] = ReadAtom(d, list[m].start) /\ list[m].start \in Nat
          /\ list[m].start + 1 < Len(d)
      BY <2>1, <2>3 DEF Follows
    <2>5. data \in Seq(Cell)
      BY <2>4, ContentTyped
    <2>6. Head(data) \in Cell
      BY <1>2, <2>5
    <2>7. Head(data)[2] \in Nat
      BY <1>2, <2>6, Cells
    <2>8. MovieIn(d) \in {Head(data)[2], NoMovie}
      BY Zenon DEF MovieIn
    <2> HIDE DEF data
    <2> QED
      BY <2>7, <2>8 DEF NoMovie
  <1> QED
    BY <1>1, <1>2

LEMMA MoovDataTyped ==
    ASSUME NEW v \in Nat, NEW size \in Nat
    PROVE  MoovData(v, size) \in Seq(Cell)
  <1>1. \A k \in 1 .. size : <<"moov", v, k>> \in Cell
    BY Cells
  <1> QED
    BY <1>1 DEF MoovData

-----------------------------------------------------------------------------
(* The files there may be *)

MediaOf(d) == {at \in 1 .. Len(d) : d[at][1] = "media"}

(***************************************************************************)
(* Either the program refuses the file, or every one of its atoms ends     *)
(* inside the file and says so itself, moov holds one movie and has no     *)
(* 64-bit header, no mdat is larger than a header of 32 bits can say, and  *)
(* all media data is in an mdat.                                           *)
(***************************************************************************)
Sound(d) ==
    LET list == ReadAtoms(d)
    IN  \/ Unusable(list)
        \/ /\ \A i \in 1 .. Len(list) :
                 /\ Whole(d, list[i].start)
                 /\ list[i].type = "moov" =>
                       /\ ~ list[i].large /\ list[i].size > 0
                       /\ list[i].content = MoovData(0, list[i].size)
                 /\ list[i].type = "mdat" => list[i].end <= list[i].start + MaxSize
           /\ \A at \in MediaOf(d) :
                 \E i \in 1 .. Len(list) : Holds(d, list[i].start, at)

\* a sound file is ready to be edited
LEMMA SoundReady ==
    ASSUME NEW d \in Disk, Sound(d), ~ Unusable(ReadAtoms(d))
    PROVE  Ready(d, MediaOf(d), Len(d), 0)
  <1> DEFINE list == ReadAtoms(d)
             n    == Len(list)
             S    == StartsOf(list)
             e    == EndOf(list)
             X    == OfType(list, "moov")
  <1>1. /\ Follows(d, list) /\ n \in Nat /\ DOMAIN list = 1 .. n
        /\ \A i \in 1 .. n : /\ list[i] = ReadAtom(d, list[i].start)
                             /\ list[i].start \in Nat
                             /\ list[i].start + 1 < Len(d)
    <2>1. Follows(d, list)
      BY ReadFollows
    <2> HIDE DEF list
    <2> QED
      BY <2>1 DEF Follows
  <1>2. /\ \A i \in 1 .. n :
              /\ Whole(d, list[i].start)
              /\ list[i].type = "moov" =>
                    /\ ~ list[i].large /\ list[i].size > 0
                    /\ list[i].content = MoovData(0, list[i].size)
              /\ list[i].type = "mdat" => list[i].end <= list[i].start + MaxSize
        /\ \A at \in MediaOf(d) : \E i \in 1 .. n : Holds(d, list[i].start, at)
    BY Zenon DEF Sound
  <1>3. PICK m : X = {m}
    <2>1. X \subseteq 1 .. n
      BY <1>1 DEF OfType
    <2>2. IsFiniteSet(X)
      <3>1. IsFiniteSet(1 .. n)
        BY <1>1, FS_Interval
      <3> HIDE DEF X, n
      <3> QED
        BY <2>1, <3>1, FS_Subset
    <2>3. Cardinality(X) = 1
      BY DEF Unusable
    <2> QED
      BY <2>2, <2>3, FS_Singleton
  <1>4. m \in 1 .. n /\ \A i \in 1 .. n : (list[i].type = "moov") <=> (i = m)
    <2>1. \A i \in 1 .. n : i \in X <=> list[i].type = "moov"
      BY <1>1 DEF OfType
    <2>2. m \in 1 .. n
      BY <1>1, <1>3 DEF OfType
    <2> QED
      BY <1>3, <2>1, <2>2
  <1>5. Filled(d, S, e)
    BY <1>1, <1>2, ReadFilled
  <1> HIDE DEF list, n, X
  <1>6. \A a \in S : \E i \in 1 .. n : a = list[i].start /\ ReadAtom(d, a) = list[i]
    BY <1>1 DEF StartsOf, n
  <1>7. \A i \in 1 .. n : list[i].start \in S
    BY DEF StartsOf, n
  <1>8. Orderly(d, S, MediaOf(d), Len(d))
    <2>1. \A a \in S : ReadAtom(d, a).type # "unreadable"
      <3> TAKE a \in S
      <3>1. PICK i \in 1 .. n : a = list[i].start /\ ReadAtom(d, a) = list[i]
        BY <1>6
      <3>2. ReadAtom(d, a) \in Atoms
        BY <1>1, <1>2, <3>1, ReadTyped
      <3>3. ReadAtom(d, a).type \in TypeNames
        BY <3>2 DEF Atoms
      <3> QED
        BY <3>3, TypeNamesAssumption
    <2>2. \A a \in S : ReadAtom(d, a).type = "mdat" => End(d, a) <= a + MaxSize
      BY <1>2, <1>6 DEF End
    <2>3. \A a \in S : End(d, a) <= Len(d)
      <3> TAKE a \in S
      <3>1. PICK i \in 1 .. n : a = list[i].start /\ ReadAtom(d, a) = list[i]
        BY <1>6
      <3> QED
        BY <1>1, <3>1, AnyRead DEF End
    <2>4. \A at \in MediaOf(d) : \E a \in S : Holds(d, a, at)
      BY <1>2, <1>7
    <2> QED
      BY <2>1, <2>2, <2>3, <2>4 DEF Orderly
  <1> DEFINE mo == list[m].start
  <1>9. ReadAtom(d, mo) = list[m] /\ mo \in S
    BY <1>1, <1>4, <1>7
  <1>10. OneMoov(d, S, mo)
    <2>1. \A a \in S : (ReadAtom(d, a).type = "moov") <=> (a = mo)
      <3> TAKE a \in S
      <3>1. PICK i \in 1 .. n : a = list[i].start /\ ReadAtom(d, a) = list[i]
        BY <1>6
      <3>2. (ReadAtom(d, a).type = "moov") <=> (i = m)
        BY <1>4, <3>1
      <3>3. a = mo => i = m
        BY <1>4, <1>9, <3>2
      <3> QED
        BY <3>1, <3>2, <3>3
    <2> QED
      BY <1>9, <2>1 DEF OneMoov
  <1>11. IsMovie(d, mo, 0)
    BY <1>2, <1>4, <1>9 DEF IsMovie
  <1>12. mo <= Len(d)
    BY <1>1, <1>4 DEF Disk
  <1> QED
    BY <1>5, <1>8, <1>9, <1>10, <1>11, <1>12 DEF Ready

-----------------------------------------------------------------------------
(* The invariant *)

\* what the file, and the header of a free atom for every edit, take
Limit == Len(original) + 2 * version

Typed ==
    /\ disk \in Disk /\ original \in Disk /\ found = MovieIn(disk)
    /\ atoms \in Seq(Atoms) /\ position \in Nat /\ writes \in Writes
    /\ version \in 0 .. MaxEdits
    /\ pc \in {"closed", "refused", "printed", "failed", "crashed",
               "modify", "edited", "finished", "moved", "marked"}

Ahead(f) == Lays(disk, writes, f, Safe(Media))

AtRest == pc \in {"closed", "refused", "printed", "failed", "edited"} => writes = <<>>

AtClosed ==
    pc = "closed" =>
        /\ \/ Ready(disk, Media, Limit, version)
           \/ version = 0 /\ Unusable(ReadAtoms(disk))
        /\ version > 0 => position <= Limit + 2 + atoms[Moov(atoms)].size

AtOpened ==
    pc \in {"modify", "edited"} =>
        \E f : Ahead(f) /\ Opened(f, atoms, position, Media, Limit)

AtEdited ==
    pc = "edited" =>
        LET moov == atoms[Len(atoms)]
        IN  moov.size > 0 /\ moov.content = MoovData(version, moov.size)

AtFinished ==
    /\ pc \in {"finished", "moved"} =>
          \E f, S : Ahead(f) /\ Complete(f, S, atoms, position, Media, Limit, version)
    /\ pc = "finished" => Len(atoms) # 0 /\ atoms[Len(atoms)].type = "moov"

AtMarked ==
    pc = "marked" =>
        \E f, S : Ahead(f) /\ Marked(f, S, atoms, position, Media, Limit, version)

Inv == /\ Typed /\ MediaKept
       /\ AtRest /\ AtClosed /\ AtOpened /\ AtEdited /\ AtFinished /\ AtMarked

LEMMA MediaNumbers ==
    ASSUME Typed
    PROVE  /\ Media \in SUBSET Nat /\ \A m \in Media : m # 0
           /\ Limit \in Int /\ version \in Nat /\ Len(original) \in Nat
  <1>1. Len(original) \in Nat /\ version \in Nat
    BY EditsAssumption DEF Typed, Disk
  <1> QED
    BY <1>1 DEF Media, Limit

LEMMA MediaIs ==
    ASSUME Typed
    PROVE  MediaKept <=> Kept(disk, original, Media)
  <1>1. \A m \in Media : m # 0
    BY MediaNumbers
  <1> QED
    BY <1>1 DEF MediaKept, Kept

LEMMA LaysWrites ==
    ASSUME NEW d, NEW w, NEW f, NEW P, Lays(d, w, f, P)
    PROVE  w \in Writes
  <1> DEFINE A == [at : P, cell : Cell]
             B == [at : Nat, cell : Cell]
  <1>1. w \in Seq(A) /\ P \subseteq Nat
    BY DEF Lays
  <1>2. A \subseteq B
    BY <1>1
  <1> HIDE DEF A, B
  <1>3. w \in Seq(B)
    BY <1>1, <1>2, MoreMembers
  <1> QED
    BY <1>3 DEF B, Writes

LEMMA InitTrue ==
    ASSUME \A d \in Files : Sound(d), Init
    PROVE  Inv
  <1>1. disk \in Disk /\ original = disk /\ version = 0 /\ pc = "closed"
        /\ writes = <<>> /\ atoms = <<>> /\ position = 0
    BY FilesAssumption DEF Init, Disk
  <1>2. Typed
    <2>1. version \in 0 .. MaxEdits
      BY <1>1, EditsAssumption
    <2>2. writes \in Writes /\ atoms \in Seq(Atoms)
      BY <1>1 DEF Writes
    <2> QED
      BY <1>1, <2>1, <2>2 DEF Init, Typed
  <1>3. MediaKept
    BY <1>1 DEF MediaKept, Media, Disk
  <1>4. Ready(disk, Media, Limit, version) \/ Unusable(ReadAtoms(disk))
    <2>1. Media = MediaOf(disk)
      BY <1>1 DEF Media, MediaOf
    <2>2. Limit = Len(disk)
      BY <1>1 DEF Limit, Disk
    <2>3. Sound(disk)
      BY DEF Init
    <2>4. ~ Unusable(ReadAtoms(disk)) => Ready(disk, MediaOf(disk), Len(disk), 0)
      BY <1>1, <2>3, SoundReady
    <2> QED
      BY <1>1, <2>1, <2>2, <2>4
  <1>5. AtRest /\ AtClosed /\ AtOpened /\ AtEdited /\ AtFinished /\ AtMarked
    BY <1>1, <1>4 DEF AtRest, AtClosed, AtOpened, AtEdited, AtFinished, AtMarked
  <1> QED
    BY <1>2, <1>3, <1>5 DEF Inv

\* a stop changes nothing that is on the disk
LEMMA StopKeeps ==
    ASSUME Inv, Refuse \/ PrintOnly \/ Fail \/ FinishFails \/ Crash
    PROVE  Inv'
  <1>1. /\ disk' = disk /\ original' = original /\ version' = version /\ found' = found
        /\ atoms' = atoms /\ position' = position /\ writes' = writes
        /\ pc' \in {"refused", "printed", "failed", "crashed"}
        /\ writes = <<>> \/ pc' = "crashed"
    BY DEF Inv, AtRest, Refuse, PrintOnly, Fail, FinishFails, Crash, After, memory, history
  <1>2. Typed'
    BY <1>1 DEF Inv, Typed
  <1>3. MediaKept'
    <2>1. Media' = Media
      BY <1>1 DEF Media
    <2> QED
      BY <1>1, <2>1 DEF Inv, MediaKept
  <1>4. AtRest'
    BY <1>1 DEF AtRest
  <1>5. AtClosed' /\ AtOpened' /\ AtEdited' /\ AtFinished' /\ AtMarked'
    BY <1>1 DEF AtClosed, AtOpened, AtEdited, AtFinished, AtMarked
  <1> QED
    BY <1>2, <1>3, <1>4, <1>5 DEF Inv

LEMMA ModifyKeeps ==
    ASSUME Inv, Modify
    PROVE  Inv'
  <1> DEFINE list == ReadAtoms(disk)
             room == MakeRoom(list)
  <1>1. /\ pc = "closed" /\ ~ Unusable(list) /\ writes = <<>>
        /\ Ready(disk, Media, Limit, version)
    BY DEF Inv, AtRest, AtClosed, Modify
  <1>2. /\ disk' = disk /\ original' = original /\ found' = found
        /\ version' = version + 1 /\ version < MaxEdits /\ pc' = "modify"
    BY DEF Modify
  <1>3. Media' = Media
    BY <1>2 DEF Media
  <1>4. Limit' = Limit + 2
    <2>1. version \in Nat /\ Len(original) \in Nat
      BY MediaNumbers DEF Inv
    <2> QED
      BY <1>2, <2>1 DEF Limit
  <1>5. disk \in Disk /\ Media \in SUBSET Nat /\ Limit \in Int
    BY MediaNumbers DEF Inv, Typed
  <1>6. Opens(disk, writes', atoms', position', Media, Limit + 2)
    <2>1. IF NeedsMdat(room.atoms)
          THEN /\ atoms' = InsertAt(room.atoms, Len(room.atoms), BegunMdat(room.position))
               /\ writes' = room.writes \o BeginMdatWrites(room.position)
               /\ position' = room.position + 4
          ELSE /\ atoms' = room.atoms
               /\ writes' = room.writes
               /\ position' = room.position
      BY Zenon DEF Modify
    <2>2. IF NeedsMdat(room.atoms)
          THEN Opens(disk, room.writes \o BeginMdatWrites(room.position),
                     InsertAt(room.atoms, Len(room.atoms), BegunMdat(room.position)),
                     room.position + 4, Media, Limit + 2)
          ELSE Opens(disk, room.writes, room.atoms, room.position, Media, Limit + 2)
      <3> HIDE DEF room
      <3>1. Ready(disk, Media, Limit, version)
        BY <1>1
      <3> QED
        BY <1>5, <3>1, MovieOpened, Zenon DEF room
    <2> HIDE DEF room
    <2> QED
      BY <2>1, <2>2
  <1>7. /\ atoms' \in Seq(Atoms) /\ position' \in Nat
        /\ \E f : Lays(disk, writes', f, Safe(Media))
                  /\ Opened(f, atoms', position', Media, Limit + 2)
    BY <1>6 DEF Opens
  <1>8. writes' \in Writes
    BY <1>7, LaysWrites
  <1>9. Typed'
    <2>1. version' \in 0 .. MaxEdits
      BY <1>2, EditsAssumption DEF Inv, Typed
    <2> QED
      BY <1>2, <1>7, <1>8, <2>1 DEF Inv, Typed
  <1>10. MediaKept'
    BY <1>2, <1>3 DEF Inv, MediaKept
  <1>11. AtOpened'
    BY <1>2, <1>3, <1>4, <1>7 DEF AtOpened, Ahead
  <1>12. AtRest' /\ AtClosed' /\ AtEdited' /\ AtFinished' /\ AtMarked'
    BY <1>2 DEF AtRest, AtClosed, AtEdited, AtFinished, AtMarked
  <1> QED
    BY <1>9, <1>10, <1>11, <1>12 DEF Inv

\* every write leads on to the same file, and touches no media data
LEMMA WriteKeeps ==
    ASSUME Inv, Write
    PROVE  Inv'
  <1> DEFINE at   == Head(writes).at
             cell == Head(writes).cell
  <1>1. /\ writes # <<>> /\ pc # "crashed" /\ writes' = Tail(writes)
        /\ disk' = Put(disk, at, cell) /\ found' = MovieIn(disk')
        /\ atoms' = atoms /\ position' = position /\ pc' = pc
        /\ version' = version /\ original' = original
    BY DEF Write, Becomes
  <1>2. pc \in {"modify", "finished", "moved", "marked"}
    BY <1>1 DEF Inv, Typed, AtRest
  <1>3. Media' = Media /\ Limit' = Limit
    BY <1>1 DEF Media, Limit
  <1>4. \A f : Ahead(f) => /\ Lays(disk', writes', f, Safe(Media))
                           /\ at \in Safe(Media) /\ cell \in Cell
    BY <1>1, LaysStep DEF Ahead
  <1>5. \E f : Ahead(f)
    BY <1>2 DEF Inv, AtOpened, AtFinished, AtMarked
  <1>6. at \in Safe(Media) /\ cell \in Cell
    BY <1>4, <1>5
  <1>7. disk' \in Disk /\ Kept(disk', original, Media)
    <2>1. disk \in Disk /\ Media \in SUBSET Nat /\ Kept(disk, original, Media)
      BY MediaNumbers, MediaIs DEF Inv, Typed
    <2> HIDE DEF at, cell
    <2> QED
      BY <1>1, <1>6, <2>1, MediaUntouched
  <1>8. Typed'
    <2>1. writes' \in Writes
      BY <1>1 DEF Inv, Typed, Writes
    <2> QED
      BY <1>1, <1>7, <2>1 DEF Inv, Typed
  <1>9. MediaKept'
    BY <1>1, <1>3, <1>7 DEF MediaKept, Kept
  <1>10. AtRest' /\ AtClosed' /\ AtEdited'
    BY <1>1, <1>2 DEF AtRest, AtClosed, AtEdited
  <1>11. AtOpened'
    BY <1>1, <1>3, <1>4 DEF Inv, AtOpened, Ahead
  <1>12. AtFinished'
    BY <1>1, <1>3, <1>4 DEF Inv, AtFinished, Ahead
  <1>13. AtMarked'
    BY <1>1, <1>3, <1>4 DEF Inv, AtMarked, Ahead
  <1> QED
    BY <1>8, <1>9, <1>10, <1>11, <1>12, <1>13 DEF Inv

\* new contents of moov leave everything else of an opened file alone
LEMMA MoovEdited ==
    ASSUME NEW f, NEW list \in Seq(Atoms), NEW pos, NEW media, NEW limit,
           Opened(f, list, pos, media, limit),
           NEW size \in Nat, NEW data \in Seq(Cell)
    PROVE  LET n     == Len(list)
               other == [list EXCEPT ![n].content = data, ![n].size = size]
           IN  /\ other \in Seq(Atoms) /\ Len(other) = n /\ n # 0
               /\ other[n].size = size /\ other[n].content = data
               /\ Opened(f, other, pos, media, limit)
  <1> DEFINE n     == Len(list)
             other == [list EXCEPT ![n].content = data, ![n].size = size]
  <1>1. n \in Nat /\ n # 0
    <2>1. n \in Nat
      OBVIOUS
    <2>2. n = 1 \/ n > 1
      BY DEF Opened, Modified
    <2> HIDE DEF n
    <2> QED
      BY <2>1, <2>2
  <1>2. list[n] \in Atoms /\ DOMAIN list = 1 .. n /\ n \in 1 .. n
        /\ list \in [1 .. n -> Atoms]
    BY <1>1
  <1> HIDE DEF n
  <1>3. /\ DOMAIN other = 1 .. n
        /\ \A i \in 1 .. n : i # n => other[i] = list[i]
        /\ other[n] = [list[n] EXCEPT !.content = data, !.size = size]
        /\ other = [i \in 1 .. n |-> other[i]]
    <2> DEFINE mid == [list EXCEPT ![n].content = data]
    <2>1. other = [mid EXCEPT ![n].size = size]
      OBVIOUS
    <2>2. /\ DOMAIN mid = 1 .. n /\ \A i \in 1 .. n : i # n => mid[i] = list[i]
          /\ mid[n] = [list[n] EXCEPT !.content = data]
      BY <1>2
    <2> HIDE DEF mid, other
    <2>3. /\ DOMAIN other = 1 .. n /\ \A i \in 1 .. n : i # n => other[i] = list[i]
          /\ other[n] = [mid[n] EXCEPT !.size = size]
          /\ other = [i \in 1 .. n |-> other[i]]
      BY <1>2, <2>1, <2>2
    <2> QED
      BY <2>2, <2>3
  <1> HIDE DEF other
  <1>4. other[n] \in Atoms /\ other[n].type = list[n].type
        /\ other[n].size = size /\ other[n].content = data
    <2> DEFINE moov == list[n]
    <2>1. moov \in [type : TypeNames, start : Nat, end : Nat, size : Nat,
                    large : BOOLEAN, content : Seq(Cell)]
      BY <1>2 DEF Atoms
    <2>2. other[n] = [moov EXCEPT !.content = data, !.size = size]
      BY <1>3
    <2> HIDE DEF moov
    <2>3. [moov EXCEPT !.content = data, !.size = size] \in
              [type : TypeNames, start : Nat, end : Nat, size : Nat,
               large : BOOLEAN, content : Seq(Cell)]
      BY <2>1
    <2>4. other[n].type = moov.type /\ other[n].size = size /\ other[n].content = data
      BY <2>1, <2>2
    <2> QED
      BY <2>2, <2>3, <2>4 DEF Atoms, moov
  <1>5. other \in Seq(Atoms) /\ Len(other) = n
    <2>1. \A i \in 1 .. n : list[i] \in Atoms
      BY <1>2
    <2>2. \A i \in 1 .. n : other[i] \in Atoms
      BY <1>3, <1>4, <2>1
    <2>3. n \in Nat /\ other = [i \in 1 .. n |-> other[i]]
      BY <1>1, <1>3
    <2> HIDE DEF n
    <2>4. other \in Seq(Atoms)
      BY <2>2, <2>3
    <2> QED
      BY <2>3, <2>4
  <1>6. Opened(f, other, pos, media, limit)
    <2>1. CASE n = 1 /\ list[1].type = "moov"
      BY <1>4, <1>5, <2>1 DEF Opened, n
    <2>2. CASE \E S, q : Modified(f, S, q, list, pos, media, limit)
      <3>1. PICK S, q : Modified(f, S, q, list, pos, media, limit)
        BY <2>2
      <3>2. n > 1 /\ n - 1 \in 1 .. n /\ n - 1 # n /\ n - 2 \in 0 .. n
            /\ \A i \in 1 .. n - 2 : i \in 1 .. n /\ i # n
        <4>1. n > 1
          BY <3>1 DEF Modified, n
        <4> QED
          BY <1>1, <4>1
      <3>3. Tree(f, S, list, n - 2, q)
        BY <3>1 DEF Modified, n
      <3>4. \A i \in 1 .. n - 2 : other[i] = list[i]
        BY <1>3, <3>2
      <3>5. Tree(f, S, other, n - 2, q)
        <4>1. \A j \in 1 .. n - 2 : \A i \in 1 .. j - 1 : i \in 1 .. n - 2
          BY <1>1
        <4>2. /\ Tiles(f, S, 0, q)
              /\ \A i \in 1 .. n - 2 : list[i].start \in S /\ Stands(f, list[i])
              /\ \A j \in 1 .. n - 2 : \A i \in 1 .. j - 1 : list[i].end <= list[j].start
              /\ \A a \in S : ~ IsFree(ReadAtom(f, a)) =>
                                 \E i \in 1 .. n - 2 : list[i].start = a
          BY <3>3 DEF Tree
        <4>3. \A j \in 1 .. n - 2 : \A i \in 1 .. j - 1 : other[i].end <= other[j].start
          BY <3>4, <4>1, <4>2
        <4>4. \A i \in 1 .. n - 2 : other[i].start \in S /\ Stands(f, other[i])
          BY <3>4, <4>2
        <4>5. \A a \in S : ~ IsFree(ReadAtom(f, a)) =>
                              \E i \in 1 .. n - 2 : other[i].start = a
          BY <3>4, <4>2
        <4> QED
          BY <1>1, <1>5, <3>2, <4>2, <4>3, <4>4, <4>5 DEF Tree
      <3>6. other[n - 1] = list[n - 1]
        BY <1>3, <3>2
      <3>7. Modified(f, S, q, other, pos, media, limit)
        BY <1>4, <1>5, <3>1, <3>2, <3>5, <3>6 DEF Modified, n
      <3> QED
        BY <3>7 DEF Opened
    <2> QED
      BY <2>1, <2>2 DEF Opened, n
  <1> QED
    BY <1>1, <1>4, <1>5, <1>6 DEF other, n

LEMMA EditKeeps ==
    ASSUME Inv, Edit
    PROVE  Inv'
  <1>1. /\ writes = <<>> /\ pc = "modify" /\ pc' = "edited"
        /\ disk' = disk /\ position' = position /\ writes' = writes
        /\ version' = version /\ original' = original /\ found' = found
    BY DEF Edit, After, history
  <1>2. PICK size \in MoovSizes :
          atoms' = [atoms EXCEPT ![Len(atoms)].content = MoovData(version, size),
                                 ![Len(atoms)].size = size]
    BY DEF Edit
  <1>3. Media' = Media /\ Limit' = Limit
    BY <1>1 DEF Media, Limit
  <1>4. PICK f : Ahead(f) /\ Opened(f, atoms, position, Media, Limit)
    BY <1>1 DEF Inv, AtOpened
  <1> DEFINE data == MoovData(version, size)
  <1>5. size \in Nat /\ size > 0 /\ data \in Seq(Cell) /\ atoms \in Seq(Atoms)
    <2>1. size \in Nat /\ size > 0
      BY EditsAssumption
    <2>2. version \in Nat
      BY MediaNumbers DEF Inv
    <2>3. data \in Seq(Cell)
      BY <2>1, <2>2, MoovDataTyped
    <2> QED
      BY <2>1, <2>3 DEF Inv, Typed
  <1> HIDE DEF data
  <1>6. /\ atoms' \in Seq(Atoms) /\ Len(atoms') = Len(atoms)
        /\ atoms'[Len(atoms)].size = size /\ atoms'[Len(atoms)].content = data
        /\ Opened(f, atoms', position, Media, Limit)
    <2> DEFINE other == [atoms EXCEPT ![Len(atoms)].content = data, ![Len(atoms)].size = size]
    <2>1. atoms' = other
      BY <1>2 DEF data
    <2>2. Opened(f, atoms, position, Media, Limit)
      BY <1>4
    <2>3. LET n  == Len(atoms)
              to == [atoms EXCEPT ![n].content = data, ![n].size = size]
          IN  /\ to \in Seq(Atoms) /\ Len(to) = n /\ n # 0
              /\ to[n].size = size /\ to[n].content = data
              /\ Opened(f, to, position, Media, Limit)
      <3>1. atoms \in Seq(Atoms) /\ size \in Nat /\ data \in Seq(Cell)
        BY <1>5
      <3> QED
        BY <2>2, <3>1, MoovEdited, Zenon
    <2>4. /\ other \in Seq(Atoms) /\ Len(other) = Len(atoms)
          /\ other[Len(atoms)].size = size /\ other[Len(atoms)].content = data
          /\ Opened(f, other, position, Media, Limit)
      BY <2>3, Zenon
    <2> HIDE DEF other
    <2> QED
      BY <2>1, <2>4
  <1>7. Typed'
    BY <1>1, <1>6 DEF Inv, Typed
  <1>8. MediaKept'
    BY <1>1, <1>3 DEF Inv, MediaKept
  <1>9. AtOpened'
    BY <1>1, <1>3, <1>4, <1>6 DEF AtOpened, Ahead
  <1>10. AtEdited'
    <2>1. data = MoovData(version', size)
      BY <1>1 DEF data
    <2> QED
      BY <1>5, <1>6, <2>1 DEF AtEdited
  <1>11. AtRest' /\ AtClosed' /\ AtFinished' /\ AtMarked'
    BY <1>1 DEF AtRest, AtClosed, AtFinished, AtMarked
  <1> QED
    BY <1>7, <1>8, <1>9, <1>10, <1>11 DEF Inv

\* what a step that only decides on writes leaves as it is
Deciding ==
    /\ disk' = disk /\ original' = original /\ found' = found /\ version' = version
    /\ pc' \in {"finished", "moved", "marked"}

LEMMA DecidedKeeps ==
    ASSUME Inv, Deciding, atoms' \in Seq(Atoms), position' \in Nat, writes' \in Writes
    PROVE  /\ Typed' /\ MediaKept' /\ Media' = Media /\ Limit' = Limit
           /\ AtRest' /\ AtClosed' /\ AtOpened' /\ AtEdited'
  <1>1. Media' = Media /\ Limit' = Limit
    BY DEF Deciding, Media, Limit
  <1>2. Typed'
    BY DEF Deciding, Inv, Typed
  <1>3. MediaKept'
    BY <1>1 DEF Deciding, Inv, MediaKept
  <1>4. AtRest' /\ AtClosed' /\ AtOpened' /\ AtEdited'
    BY DEF Deciding, AtRest, AtClosed, AtOpened, AtEdited
  <1> QED
    BY <1>1, <1>2, <1>3, <1>4

LEMMA FinishWriteKeeps ==
    ASSUME Inv, FinishWrite
    PROVE  Inv'
  <1> DEFINE done == RootFinish(atoms, position)
  <1>1. /\ writes = <<>> /\ pc = "edited" /\ OfType(atoms, "mdat") # {}
        /\ atoms' = done.atoms /\ writes' = done.writes /\ position' = done.position
        /\ pc' = "finished" /\ Deciding
    BY DEF FinishWrite, After, NothingToFinish, Deciding, history
  <1>2. Lays(disk, <<>>, disk, Safe(Media)) /\ Opened(disk, atoms, position, Media, Limit)
    <2>1. PICK f : Ahead(f) /\ Opened(f, atoms, position, Media, Limit)
      BY <1>1 DEF Inv, AtOpened
    <2>2. f = disk
      BY <1>1, <2>1, LaysEmpty DEF Ahead
    <2> QED
      BY <1>1, <2>1, <2>2 DEF Ahead
  <1>3. atoms \in Seq(Atoms) /\ position \in Nat /\ disk \in Disk
        /\ Media \in SUBSET Nat /\ Limit \in Int
    BY MediaNumbers DEF Inv, Typed
  <1>4. PICK S, q : Modified(disk, S, q, atoms, position, Media, Limit)
    <2>1. ~ (Len(atoms) = 1 /\ atoms[1].type = "moov")
      BY <1>1, <1>3 DEF OfType
    <2> QED
      BY <1>2, <2>1 DEF Opened
  <1>5. atoms[Len(atoms)].size > 0
        /\ atoms[Len(atoms)].content = MoovData(version, atoms[Len(atoms)].size)
    BY <1>1 DEF Inv, AtEdited
  <1> HIDE DEF done
  <1>6. /\ done \in Results
        /\ \E g, T : /\ Lays(disk, done.writes, g, Safe(Media))
                     /\ Complete(g, T, done.atoms, done.position, Media, Limit, version)
        /\ Len(done.atoms) # 0 /\ done.atoms[Len(done.atoms)].type = "moov"
    BY <1>3, <1>4, <1>5, MovieFinished DEF done
  <1>7. atoms' \in Seq(Atoms) /\ position' \in Nat /\ writes' \in Writes
    BY <1>1, <1>6 DEF Results, Writes
  <1>8. /\ Typed' /\ MediaKept' /\ Media' = Media /\ Limit' = Limit
        /\ AtRest' /\ AtClosed' /\ AtOpened' /\ AtEdited'
    BY <1>1, <1>7, DecidedKeeps
  <1>9. AtFinished' /\ AtMarked'
    BY <1>1, <1>6, <1>8 DEF AtFinished, AtMarked, Ahead, Deciding
  <1> QED
    BY <1>8, <1>9 DEF Inv

LEMMA MoveKeeps ==
    ASSUME Inv, MoveMoovAtomToFront
    PROVE  Inv'
  <1> DEFINE done == MoveToFront(atoms, Min(Homes(atoms)))
             moves == OfType(atoms, "mdat") # {} /\ Homes(atoms) # {}
  <1>1. /\ writes = <<>> /\ pc = "finished" /\ pc' = "moved" /\ Deciding
        /\ IF moves
           THEN /\ atoms' = done.atoms /\ writes' = done.writes
                /\ position' = done.position
           ELSE atoms' = atoms /\ writes' = writes /\ position' = position
    BY DEF MoveMoovAtomToFront, After, Deciding, history, memory
  <1>2. PICK f, S : Ahead(f) /\ Complete(f, S, atoms, position, Media, Limit, version)
    BY <1>1 DEF Inv, AtFinished
  <1>3. f = disk
    BY <1>1, <1>2, LaysEmpty DEF Ahead
  <1>4. Len(atoms) # 0 /\ atoms[Len(atoms)].type = "moov"
    BY <1>1 DEF Inv, AtFinished
  <1>5. disk \in Disk /\ Media \in SUBSET Nat /\ Limit \in Int
        /\ atoms \in Seq(Atoms) /\ position \in Nat /\ writes \in Writes
    BY MediaNumbers DEF Inv, Typed
  <1> HIDE DEF done
  <1>6. /\ atoms' \in Seq(Atoms) /\ position' \in Nat /\ writes' \in Writes
        /\ \E g, T : /\ Lays(disk, writes', g, Safe(Media))
                     /\ Complete(g, T, atoms', position', Media, Limit, version)
    <2>1. CASE moves
      <3>1. /\ done \in Results
            /\ \E g, T : /\ Lays(disk, done.writes, g, Safe(Media))
                         /\ Complete(g, T, done.atoms, done.position, Media, Limit, version)
        <4>1. Complete(disk, S, atoms, position, Media, Limit, version)
          BY <1>2, <1>3
        <4> QED
          BY <1>4, <1>5, <2>1, <4>1, MovieMoved DEF done
      <3> QED
        BY <1>1, <2>1, <3>1 DEF Results, Writes
    <2>2. CASE ~ moves
      BY <1>1, <1>2, <1>3, <1>5, <2>2 DEF Ahead
    <2> QED
      BY <2>1, <2>2
  <1>7. /\ Typed' /\ MediaKept' /\ Media' = Media /\ Limit' = Limit
        /\ AtRest' /\ AtClosed' /\ AtOpened' /\ AtEdited'
    BY <1>1, <1>6, DecidedKeeps
  <1>8. AtFinished' /\ AtMarked'
    BY <1>1, <1>6, <1>7 DEF AtFinished, AtMarked, Ahead, Deciding
  <1> QED
    BY <1>7, <1>8 DEF Inv

\* a file whose last atom is behind its tree, and the tree, may be closed
LEMMA ClosedKeeps ==
    ASSUME Inv, NEW f, NEW S, f \in Disk,
           Complete(f, S, atoms, position, Media, Limit, version),
           Ready(disk', Media, Limit, version),
           disk' \in Disk, Kept(disk', original, Media),
           found' = MovieIn(disk'), pc' = "closed", writes = <<>>,
           atoms' = atoms, position' = position, writes' = writes,
           version' = version, original' = original
    PROVE  Inv'
  <1>1. Media' = Media /\ Limit' = Limit
    BY DEF Media, Limit
  <1>2. Typed'
    BY DEF Inv, Typed
  <1>3. MediaKept'
    BY <1>1 DEF MediaKept, Kept
  <1>4. position <= Limit + 2 + atoms[Moov(atoms)].size
    BY MoovOnly
  <1>5. AtRest' /\ AtClosed' /\ AtOpened' /\ AtEdited' /\ AtFinished' /\ AtMarked'
    BY <1>1, <1>4 DEF AtRest, AtClosed, AtOpened, AtEdited, AtFinished, AtMarked
  <1> QED
    BY <1>2, <1>3, <1>5 DEF Inv

LEMMA MarkRestKeeps ==
    ASSUME Inv, MarkRest
    PROVE  Inv'
  <1>1. /\ writes = <<>> /\ pc = "moved" /\ disk' = disk /\ atoms' = atoms
        /\ position' = position /\ version' = version /\ original' = original
        /\ found' = found
    BY DEF MarkRest, After, history
  <1>2. PICK f, S : Ahead(f) /\ Complete(f, S, atoms, position, Media, Limit, version)
    BY <1>1 DEF Inv, AtFinished
  <1>3. f = disk
    BY <1>1, <1>2, LaysEmpty DEF Ahead
  <1>4. Complete(disk, S, atoms, position, Media, Limit, version)
    BY <1>2, <1>3
  <1>5. disk \in Disk /\ Media \in SUBSET Nat /\ Limit \in Int
        /\ atoms \in Seq(Atoms) /\ position \in Nat /\ found = MovieIn(disk)
    BY MediaNumbers DEF Inv, Typed
  <1>6. CASE position < Len(disk)
    <2> DEFINE w == AtomWrites(Atom("free", 0, 0, Max({0, Len(disk) - position - 2}),
                                    FALSE, <<>>), position)
    <2>1. writes' = w /\ pc' = "marked"
      BY <1>6 DEF MarkRest
    <2>2. /\ w \in Writes
          /\ \E g : /\ Lays(disk, w, g, Safe(Media))
                    /\ Marked(g, S, atoms, position, Media, Limit, version)
      BY <1>4, <1>5, <1>6, RestMarked
    <2> HIDE DEF w
    <2>3. Deciding
      BY <1>1, <2>1 DEF Deciding
    <2>4. /\ Typed' /\ MediaKept' /\ Media' = Media /\ Limit' = Limit
          /\ AtRest' /\ AtClosed' /\ AtOpened' /\ AtEdited'
      BY <1>1, <1>5, <2>1, <2>2, <2>3, DecidedKeeps
    <2>5. AtFinished' /\ AtMarked'
      BY <1>1, <2>1, <2>2, <2>4 DEF AtFinished, AtMarked, Ahead
    <2> QED
      BY <2>4, <2>5 DEF Inv
  <1>7. CASE ~ (position < Len(disk))
    <2>1. writes' = writes /\ pc' = "closed"
      BY <1>7 DEF MarkRest
    <2>2. position + 1 >= Len(disk)
      BY <1>5, <1>7 DEF Disk
    <2>3. Ready(disk, Media, Limit, version)
      BY <1>4, <1>5, <2>2, WholeReady
    <2>4. Kept(disk, original, Media)
      BY MediaIs DEF Inv
    <2> QED
      BY <1>1, <1>4, <1>5, <2>1, <2>3, <2>4, ClosedKeeps
  <1> QED
    BY <1>6, <1>7

LEMMA TruncateKeeps ==
    ASSUME Inv, Truncate
    PROVE  Inv'
  <1>1. /\ writes = <<>> /\ pc = "marked" /\ pc' = "closed" /\ atoms' = atoms
        /\ position' = position /\ writes' = writes /\ version' = version
        /\ original' = original /\ found' = MovieIn(disk')
        /\ disk' = disk \/ disk' = SubSeq(disk, 1, position)
    BY DEF Truncate, After, Becomes, memory
  <1>2. PICK f, S : Ahead(f) /\ Marked(f, S, atoms, position, Media, Limit, version)
    BY <1>1 DEF Inv, AtMarked
  <1>3. f = disk
    BY <1>1, <1>2, LaysEmpty DEF Ahead
  <1>4. Marked(disk, S, atoms, position, Media, Limit, version)
    BY <1>2, <1>3
  <1>5. Complete(disk, S, atoms, position, Media, Limit, version)
    BY <1>4 DEF Marked
  <1>6. disk \in Disk /\ Media \in SUBSET Nat /\ Limit \in Int
        /\ Kept(disk, original, Media)
    BY MediaNumbers, MediaIs DEF Inv, Typed
  <1>7. Ready(disk, Media, Limit, version)
        /\ Ready(SubSeq(disk, 1, position), Media, Limit, version)
    BY <1>4, <1>6, MarkedReady
  <1>8. SubSeq(disk, 1, position) \in Disk
        /\ Kept(SubSeq(disk, 1, position), original, Media)
    BY <1>5, <1>6, MediaNotCut
  <1>9. /\ Ready(disk', Media, Limit, version) /\ disk' \in Disk
        /\ Kept(disk', original, Media)
    BY <1>1, <1>6, <1>7, <1>8
  <1> QED
    BY <1>1, <1>5, <1>6, <1>9, ClosedKeeps

LEMMA StutterKeeps ==
    ASSUME Inv, UNCHANGED vars
    PROVE  Inv'
  <1>1. /\ disk' = disk /\ original' = original /\ version' = version /\ found' = found
        /\ atoms' = atoms /\ position' = position /\ writes' = writes /\ pc' = pc
    BY DEF vars, memory, history
  <1>2. Media' = Media /\ Limit' = Limit
    BY <1>1 DEF Media, Limit
  <1>3. Typed' /\ MediaKept'
    BY <1>1, <1>2 DEF Inv, Typed, MediaKept
  <1>4. AtRest' /\ AtClosed' /\ AtEdited'
    BY <1>1, <1>2 DEF Inv, AtRest, AtClosed, AtEdited
  <1>5. AtOpened' /\ AtFinished' /\ AtMarked'
    BY <1>1, <1>2 DEF Inv, AtOpened, AtFinished, AtMarked, Ahead
  <1> QED
    BY <1>3, <1>4, <1>5 DEF Inv

LEMMA StepKeeps ==
    ASSUME Inv, [Next]_vars
    PROVE  Inv'
  <1>1. CASE Refuse \/ PrintOnly \/ Fail \/ FinishFails \/ Crash
    BY <1>1, StopKeeps
  <1>2. CASE Modify
    BY <1>2, ModifyKeeps
  <1>3. CASE Write
    BY <1>3, WriteKeeps
  <1>4. CASE Edit
    BY <1>4, EditKeeps
  <1>5. CASE FinishWrite
    BY <1>5, FinishWriteKeeps
  <1>6. CASE MoveMoovAtomToFront
    BY <1>6, MoveKeeps
  <1>7. CASE MarkRest
    BY <1>7, MarkRestKeeps
  <1>8. CASE Truncate
    BY <1>8, TruncateKeeps
  <1>9. CASE UNCHANGED vars
    BY <1>9, StutterKeeps
  <1> QED
    BY <1>1, <1>2, <1>3, <1>4, <1>5, <1>6, <1>7, <1>8, <1>9 DEF Next

LEMMA InvTyped ==
    ASSUME Inv
    PROVE  TypeOK
  <1>1. \A i \in DOMAIN atoms : atoms[i].start \in Nat /\ atoms[i].end \in Nat
                                /\ atoms[i].size \in Nat
    <2> TAKE i \in DOMAIN atoms
    <2>1. atoms[i] \in Atoms
      BY DEF Inv, Typed
    <2> QED
      BY <2>1 DEF Atoms
  <1>2. \A k \in DOMAIN writes : writes[k].at \in Nat
    <2> TAKE k \in DOMAIN writes
    <2> DEFINE B == [at : Nat, cell : Cell]
    <2>1. writes \in Seq(B)
      BY DEF Inv, Typed, Writes
    <2> HIDE DEF B
    <2>2. writes[k] \in B
      BY <2>1
    <2> QED
      BY <2>2 DEF B
  <1>3. disk \in Disk /\ found \in Int
    BY MovieTyped DEF Inv, Typed
  <1> QED
    BY <1>1, <1>2, <1>3 DEF Inv, Typed, TypeOK, Disk, Stopped

\* a file that is ready shows its movie
LEMMA InvFound ==
    ASSUME Inv, pc = "closed", version > 0
    PROVE  found = version
  <1>1. Ready(disk, Media, Limit, version)
    BY MediaNumbers DEF Inv, AtClosed
  <1>2. disk \in Disk /\ version \in Nat /\ found = MovieIn(disk)
    BY MediaNumbers DEF Inv, Typed
  <1> QED
    BY <1>1, <1>2, ReadyUsable

LEMMA InvGrowth ==
    ASSUME Inv
    PROVE  GrowsSlowly
  <1> SUFFICES ASSUME pc = "closed", version > 0
               PROVE  position <= Len(original) + 2 * version + 2 + atoms[Moov(atoms)].size
    BY DEF GrowsSlowly
  <1>1. position <= Limit + 2 + atoms[Moov(atoms)].size
    BY DEF Inv, AtClosed
  <1> QED
    BY <1>1 DEF Limit

\* the invariant holds of every file that is sound before the first edit
THEOREM Invariance ==
    ASSUME \A d \in Files : Sound(d)
    PROVE  Spec => []Inv
  <1>1. Init => Inv
    BY InitTrue
  <1>2. Inv /\ [Next]_vars => Inv'
    BY StepKeeps
  <1> QED
    BY <1>1, <1>2, PTL DEF Spec

\* every atom of the tree, every write that is left and every cell of the
\* disk is what its type says, whatever Modify and Close do
THEOREM TypesRight ==
    ASSUME \A d \in Files : Sound(d)
    PROVE  Spec => []TypeOK
  <1>1. Inv => TypeOK
    BY InvTyped
  <1> QED
    BY <1>1, Invariance, PTL

\* Modify and Close never write over media data, and never cut it off:
\* wherever the program stops, the chunk offsets of moov remain right
THEOREM MediaStays ==
    ASSUME \A d \in Files : Sound(d)
    PROVE  Spec => []MediaKept
  <1>1. Inv => MediaKept
    BY DEF Inv
  <1> QED
    BY <1>1, Invariance, PTL

\* when MP4File::Close is done, a reader finds the movie as it was edited
\* last, and the file may be edited again
THEOREM ClosedPlays ==
    ASSUME \A d \in Files : Sound(d)
    PROVE  Spec => []ClosedIsPlayable
  <1>1. Inv => ClosedIsPlayable
    BY InvFound DEF ClosedIsPlayable
  <1> QED
    BY <1>1, Invariance, PTL

\* Close cuts the file off no further out than its first size, moov with its
\* header, and the header of one free atom for every edit, but for free space
\* that could not be cut off
THEOREM SlowGrowth ==
    ASSUME \A d \in Files : Sound(d)
    PROVE  Spec => []GrowsSlowly
  <1>1. Inv => GrowsSlowly
    BY InvGrowth
  <1> QED
    BY <1>1, Invariance, PTL
=============================================================================
