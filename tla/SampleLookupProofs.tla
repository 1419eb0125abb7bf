--------------------------- MODULE SampleLookupProofs ---------------------------
(***************************************************************************)
(* The look-up in the sample tables is right for tables of any length: the *)
(* entry of stts that is cached tells true times wherever the search for   *)
(* the next sample starts, the chunks of the copier are all samples one    *)
(* after the other, and the window of GetMaxBitrate holds what it should.  *)
(***************************************************************************)
EXTENDS SampleLookup, SampleTablesProofs

stts  == track.stts
stsc  == track.stsc
sizes == track.sizes

\* how many samples, and how much time, the first entries of stts have
Products(table) == [e \in 1 .. Len(table) |-> table[e].count * table[e].value]
SamplesTo(e) == Sums(Counts(stts))[e]
TimeTo(e)    == Sums(Products(stts))[e]

\* what is to be cached of an entry
EntryAt(e) == [index |-> e, sid |-> (1 + SamplesTo(e - 1)) % Word,
               elapsed |-> TimeTo(e - 1)]

Entered(entry) == \E e \in 1 .. Len(stts) : entry = EntryAt(e)

LEMMA TrackTables ==
    ASSUME track \in Tracks
    PROVE  /\ stts \in Table(Nat) /\ Len(stts) \in Nat \ {0}
           /\ stsc \in Seq([firstChunk : Nat, samples : Nat])
           /\ Len(stsc) \in Nat \ {0}
           /\ sizes \in Seq(Nat) /\ sizes \in Seq(0 .. Word - 1)
           /\ track.chunks \in Nat /\ track.scale \in Nat \ {0}
  <1> DEFINE W == 0 .. Word - 1
             A == [count : W, value : W]
             B == [count : Nat, value : Nat]
             C == [firstChunk : W, samples : W]
             D == [firstChunk : Nat, samples : Nat]
  <1>1. W \subseteq Nat
    BY WordFacts
  <1>2. A \subseteq B /\ C \subseteq D
    BY <1>1
  <1>3. /\ stts # <<>> /\ stts \in Seq(A) /\ stsc # <<>> /\ stsc \in Seq(C)
        /\ sizes \in Seq(W) /\ track.chunks \in Nat /\ track.scale \in Nat \ {0}
    BY TracksAssumption, Zenon DEF stts, stsc, sizes
  <1> HIDE DEF A, B, C, D, W
  <1>4. stts \in Seq(B) /\ stsc \in Seq(D) /\ sizes \in Seq(Nat)
    BY <1>1, <1>2, <1>3, MoreMembers, Zenon
  <1>5. Len(stts) \in Nat \ {0} /\ Len(stsc) \in Nat \ {0}
    BY <1>3
  <1> QED
    BY <1>3, <1>4, <1>5 DEF Table, B, D, W

LEMMA SizesCounted ==
    ASSUME track \in Tracks
    PROVE  Samples \in Nat /\ Samples + 1 < Word /\ Word \in Nat \ {0} /\ 1 < Word
  <1>1. Len(track.sizes) + 1 < Word
    BY TracksAssumption, Zenon
  <1>2. Len(track.sizes) \in Nat
    BY TrackTables DEF sizes
  <1> QED
    BY <1>1, <1>2, WordFacts DEF Samples

-----------------------------------------------------------------------------
(* Words *)

LEMMA ModAdd ==
    ASSUME NEW b \in Nat \ {0}, NEW x \in Int, NEW d \in Int
    PROVE  ((x % b) + d) % b = (x + d) % b
  <1> DEFINE r == x % b
             q == x \div b
             y == r + d
             p == y \div b
             s == y % b
  <1>1. r \in 0 .. b - 1 /\ q \in Int /\ x = b * q + r
    BY ModBounds
  <1> HIDE DEF r, q
  <1>2. y \in Int
    BY <1>1
  <1> HIDE DEF y
  <1>3. s \in 0 .. b - 1 /\ p \in Int /\ y = b * p + s
    BY <1>2, ModBounds
  <1> HIDE DEF s, p
  <1>4. x + d = b * (q + p) + s
    <2>1. x + d = b * q + y
      BY <1>1 DEF y
    <2>2. b * (q + p) = b * q + b * p
      BY <1>1, <1>3
    <2> QED
      BY <1>1, <1>3, <2>1, <2>2
  <1>5. q + p \in Int
    BY <1>1, <1>3
  <1>6. (b * (q + p) + s) % b = s
    BY <1>3, <1>5, ModUnique
  <1> QED
    BY <1>4, <1>6 DEF s, y, r

LEMMA ModSmall ==
    ASSUME NEW b \in Nat \ {0}, NEW a \in Nat, a < b
    PROVE  a % b = a
  <1> DEFINE q == a \div b
             r == a % b
             p == b * q
  <1>1. r \in 0 .. b - 1 /\ q \in Int /\ a = p + r
    BY ModBounds
  <1> HIDE DEF q, r
  <1>2. CASE q >= 1
    <2>1. p >= b /\ p \in Int
      BY <1>1, <1>2
    <2> HIDE DEF p
    <2> QED
      BY <1>1, <2>1
  <1>3. CASE q <= -1
    <2>1. p <= -b /\ p \in Int
      BY <1>1, <1>3
    <2> HIDE DEF p
    <2> QED
      BY <1>1, <2>1
  <1>4. CASE q = 0
    <2>1. p = 0
      BY <1>4
    <2> HIDE DEF p
    <2> QED
      BY <1>1, <2>1 DEF r
  <1> QED
    BY <1>1, <1>2, <1>3, <1>4

-----------------------------------------------------------------------------
(* stts *)

LEMMA ProductsTyped ==
    ASSUME NEW table \in Table(Nat)
    PROVE  /\ Products(table) \in Seq(Nat) /\ Len(Products(table)) = Len(table)
           /\ \A e \in 1 .. Len(table) :
                 Products(table)[e] = table[e].count * table[e].value
  <1> DEFINE n == Len(table)
             p(e) == table[e].count * table[e].value
  <1>1. n \in Nat /\ \A e \in 1 .. n : p(e) \in Nat
    BY EntriesTyped
  <1>2. [e \in 1 .. n |-> p(e)] \in [1 .. n -> Nat]
    BY <1>1
  <1> HIDE DEF n, p
  <1>3. [e \in 1 .. n |-> p(e)] \in Seq(Nat)
    BY <1>1, <1>2
  <1>4. Len([e \in 1 .. n |-> p(e)]) = n
    BY <1>1
  <1> QED
    BY <1>3, <1>4 DEF Products, n, p

LEMMA Totals ==
    ASSUME track \in Tracks
    PROVE  /\ SamplesTo(0) = 0 /\ TimeTo(0) = 0
           /\ \A e \in 0 .. Len(stts) : SamplesTo(e) \in Nat /\ TimeTo(e) \in Nat
           /\ \A e \in 1 .. Len(stts) :
                 /\ stts[e].count \in Nat /\ stts[e].value \in Nat
                 /\ SamplesTo(e) = SamplesTo(e - 1) + stts[e].count
                 /\ TimeTo(e) = TimeTo(e - 1) + stts[e].count * stts[e].value
  <1> DEFINE counts == Counts(stts)
             products == Products(stts)
             n == Len(stts)
  <1>1. stts \in Table(Nat)
    BY TrackTables
  <1>2. /\ counts \in Seq(Nat) /\ Len(counts) = n
        /\ \A e \in 1 .. n : counts[e] = stts[e].count
    BY <1>1, CountsTyped
  <1>3. /\ products \in Seq(Nat) /\ Len(products) = n
        /\ \A e \in 1 .. n : products[e] = stts[e].count * stts[e].value
    BY <1>1, ProductsTyped
  <1>4. n \in Nat /\ \A e \in 1 .. n : stts[e].count \in Nat /\ stts[e].value \in Nat
    BY <1>1, EntriesTyped
  <1> HIDE DEF counts, products, n
  <1>5. counts \in Seq(Int) /\ products \in Seq(Int)
    BY <1>2, <1>3
  <1>6. SumsOf(Sums(counts), counts) /\ SumsOf(Sums(products), products)
    BY <1>5, SumsAre
  <1>7. ASSUME NEW e \in 0 .. n
        PROVE  Sums(counts)[e] \in Nat /\ Sums(products)[e] \in Nat
    <2>1. e \in e .. n
      BY <1>4
    <2> QED
      BY <1>2, <1>3, <1>6, <2>1, SumsGrow
  <1> QED
    BY <1>2, <1>3, <1>4, <1>6, <1>7 DEF SumsOf, SamplesTo, TimeTo, counts, products, n

\* the search for an entry counts what the entries before it hold
LEMMA SearchCounts ==
    ASSUME track \in Tracks, NEW m \in 1 .. Len(stts), NEW i \in m .. Len(stts)
    PROVE  Reached(EntryAt(m), i) = EntryAt(i)
  <1> DEFINE from == EntryAt(m)
             at == CHOOSE g : g = [k \in from.index .. i |->
                     IF k = from.index THEN from
                     ELSE LET e == track.stts[k - 1]
                          IN  [index |-> k, sid |-> (g[k - 1].sid + e.count) % Word,
                               elapsed |-> g[k - 1].elapsed + e.count * e.value]]
             g == [k \in m .. i |-> EntryAt(k)]
  <1>1. from.index = m
    BY DEF EntryAt
  <1>2. Reached(from, i) = at[i]
    BY Zenon DEF Reached
  <1>3. Len(stts) \in Nat
    BY TrackTables
  <1>4. ASSUME NEW k \in m + 1 .. i
        PROVE  EntryAt(k) = [index |-> k,
                             sid |-> (EntryAt(k - 1).sid + stts[k - 1].count) % Word,
                             elapsed |-> EntryAt(k - 1).elapsed
                                           + stts[k - 1].count * stts[k - 1].value]
    <2> DEFINE j == k - 1
    <2>1. j \in 1 .. Len(stts) /\ j - 1 \in 0 .. Len(stts)
      BY <1>3
    <2> HIDE DEF j
    <2>2. /\ SamplesTo(j) = SamplesTo(j - 1) + stts[j].count
          /\ TimeTo(j) = TimeTo(j - 1) + stts[j].count * stts[j].value
          /\ SamplesTo(j - 1) \in Nat /\ stts[j].count \in Nat
      BY <2>1, Totals
    <2>3. /\ EntryAt(j).sid = (1 + SamplesTo(j - 1)) % Word
          /\ EntryAt(j).elapsed = TimeTo(j - 1)
      BY DEF EntryAt
    <2>4. EntryAt(k) = [index |-> k, sid |-> (1 + SamplesTo(j)) % Word,
                        elapsed |-> TimeTo(j)]
      BY DEF EntryAt, j
    <2>5. (1 + SamplesTo(j)) % Word = (EntryAt(j).sid + stts[j].count) % Word
      <3> DEFINE x == 1 + SamplesTo(j - 1)
                 c == stts[j].count
      <3>1. x \in Int /\ c \in Int /\ 1 + SamplesTo(j) = x + c
        BY <2>2
      <3>2. EntryAt(j).sid = x % Word
        BY <2>3
      <3> HIDE DEF x, c
      <3>3. ((x % Word) + c) % Word = (x + c) % Word
        BY <3>1, WordFacts, ModAdd
      <3> QED
        BY <3>1, <3>2, <3>3 DEF c
    <2>6. TimeTo(j) = EntryAt(j).elapsed + stts[j].count * stts[j].value
      BY <2>2, <2>3
    <2> QED
      BY <2>4, <2>5, <2>6 DEF j
  <1> DEFINE next(h, k) == LET e == track.stts[k - 1]
                           IN  [index |-> k, sid |-> (h[k - 1].sid + e.count) % Word,
                                elapsed |-> h[k - 1].elapsed + e.count * e.value]
  <1>5. ASSUME NEW k \in m .. i
        PROVE  g[k] = IF k = m THEN from ELSE next(g, k)
    <2>1. CASE k = m
      BY <2>1
    <2>2. CASE k # m
      <3>1. k \in m + 1 .. i /\ k - 1 \in m .. i
        BY <2>2
      <3>2. g[k] = EntryAt(k) /\ g[k - 1] = EntryAt(k - 1)
        BY <3>1
      <3> HIDE DEF g
      <3>3. g[k] = next(g, k)
        BY <1>4, <3>1, <3>2, Zenon DEF stts
      <3> QED
        BY <2>2, <3>3
    <2> QED
      BY <2>1, <2>2
  <1>6. g = [k \in m .. i |-> IF k = m THEN from ELSE next(g, k)]
    <2>1. g = [k \in m .. i |-> g[k]]
      OBVIOUS
    <2> HIDE DEF g, next
    <2> QED
      BY <1>5, <2>1, Zenon
  <1> HIDE DEF g
  <1>7. at = [k \in m .. i |-> IF k = m THEN from ELSE next(at, k)]
    <2> HIDE DEF from, next
    <2>1. \A h : [k \in from.index .. i |-> IF k = from.index THEN from ELSE next(h, k)]
                   = [k \in m .. i |-> IF k = m THEN from ELSE next(h, k)]
      BY <1>1
    <2>2. at = [k \in from.index .. i |->
                  IF k = from.index THEN from ELSE next(at, k)]
      <3>1. g = [k \in from.index .. i |-> IF k = from.index THEN from ELSE next(g, k)]
        BY <1>6, <2>1, Zenon
      <3> QED
        BY <3>1, Zenon DEF next
    <2> QED
      BY <2>1, <2>2
  <1> HIDE DEF at
  <1> DEFINE S == {k \in m .. i : at[k] = EntryAt(k)}
  <1>8. m \in S
    <2>1. m \in m .. i
      OBVIOUS
    <2> QED
      BY <1>7, <2>1
  <1>9. ASSUME NEW k \in m .. i - 1, k \in S PROVE k + 1 \in S
    <2>1. k + 1 \in m .. i /\ k + 1 # m /\ (k + 1) - 1 = k /\ k + 1 \in m + 1 .. i
      OBVIOUS
    <2>2. at[k + 1] = next(at, k + 1)
      BY <1>7, <2>1
    <2>3. at[k] = EntryAt(k)
      BY <1>9
    <2>4. next(at, k + 1) = EntryAt(k + 1)
      BY <1>4, <2>1, <2>3 DEF stts
    <2> QED
      BY <2>1, <2>2, <2>4
  <1> HIDE DEF S
  <1>10. i \in S
    <2>1. m \in Int /\ i \in Int /\ i \in m .. i
      OBVIOUS
    <2>2. m .. i \subseteq S
      BY <1>8, <1>9, <2>1, IntervalInduction
    <2> QED
      BY <2>1, <2>2
  <1> QED
    BY <1>2, <1>10 DEF S

LEMMA LeastIs ==
    ASSUME NEW S \in SUBSET Nat, S # {}
    PROVE  Min(S) \in S /\ \A x \in S : Min(S) <= x
  <1>1. PICK m \in S : \A x \in S : m <= x
    BY LeastNatural
  <1> QED
    BY <1>1 DEF Min

\* a cache that tells the truth, or none
Truthful(last) == last = NothingCached \/ Entered(last)

\* the numbers of all samples stts has are words
LEMMA Fits ==
    ASSUME track \in Tracks, CountsFit
    PROVE  \A e \in 0 .. Len(stts) : SamplesTo(e) \in Nat /\ 1 + SamplesTo(e) < Word
  <1> DEFINE n == Len(stts)
             h == Sums(Counts(stts))
  <1>1. stts \in Table(Nat) /\ n \in Nat
    BY TrackTables
  <1>2. Counts(stts) \in Seq(Nat) /\ Len(Counts(stts)) = n /\ Counts(stts) \in Seq(Int)
    BY <1>1, CountsTyped
  <1>3. SumsOf(h, Counts(stts))
    BY <1>2, SumsAre
  <1>4. SamplesTo(n) + 1 < Word
    BY <1>1, <1>3, Expanded DEF SamplesTo, CountsFit, stts
  <1>5. ASSUME NEW e \in 0 .. n PROVE SamplesTo(e) \in Nat /\ 1 + SamplesTo(e) < Word
    <2>1. e \in 0 .. Len(Counts(stts)) /\ n \in e .. Len(Counts(stts)) /\ n \in 0 .. n
      BY <1>1, <1>2
    <2>2. SamplesTo(e) <= SamplesTo(n)
      BY <1>2, <1>3, <2>1, SumsGrow DEF SamplesTo
    <2>3. SamplesTo(e) \in Nat /\ SamplesTo(n) \in Nat
      BY <2>1, Totals
    <2> HIDE DEF n
    <2> QED
      BY <1>4, <2>2, <2>3, WordFacts
  <1> QED
    BY <1>5

LEMMA ExactSid ==
    ASSUME track \in Tracks, CountsFit, NEW e \in 1 .. Len(stts)
    PROVE  EntryAt(e).sid = 1 + SamplesTo(e - 1)
  <1>1. e - 1 \in 0 .. Len(stts)
    BY TrackTables
  <1> DEFINE x == 1 + SamplesTo(e - 1)
  <1>2. x \in Nat /\ x < Word
    BY <1>1, Fits
  <1>3. EntryAt(e).sid = x % Word
    BY DEF EntryAt
  <1> HIDE DEF x
  <1>4. x % Word = x
    BY <1>2, WordFacts, ModSmall
  <1> QED
    BY <1>3, <1>4 DEF x

\* the entry that covers the sample
Covering(entry, sample) ==
    \E e \in 1 .. Len(stts) :
       /\ entry = EntryAt(e) /\ 1 + SamplesTo(e - 1) <= sample
       /\ sample < 1 + SamplesTo(e)

\* an entry of stts, and the right one if all samples can be counted
Right(entry, sample) ==
    Entered(entry) /\ (CountsFit => Covering(entry, sample))

\* an entry holds the samples up to the last of its own, as a word
LEMMA HoldsUpTo ==
    ASSUME track \in Tracks, NEW e \in 1 .. Len(stts), NEW sample
    PROVE  Holds(EntryAt(e), sample) <=> sample <= SamplesTo(e) % Word
  <1> DEFINE x == 1 + SamplesTo(e - 1)
             c == stts[e].count
  <1>1. SamplesTo(e - 1) \in Nat /\ c \in Nat /\ SamplesTo(e) = SamplesTo(e - 1) + c
    <2>1. e - 1 \in 0 .. Len(stts)
      BY TrackTables
    <2> QED
      BY <2>1, Totals
  <1>2. x \in Int /\ c - 1 \in Int /\ SamplesTo(e) = x + (c - 1)
    BY <1>1
  <1>3. EntryAt(e).index = e /\ EntryAt(e).sid = x % Word
    BY DEF EntryAt
  <1> HIDE DEF x
  <1>4. ((x % Word) + (c - 1)) % Word = (x + (c - 1)) % Word
    BY <1>2, WordFacts, ModAdd
  <1>5. (x % Word) + (c - 1) = (x % Word) + c - 1
    <2> DEFINE w == x % Word
    <2>1. w \in Int
      BY <1>2, WordFacts, ModBounds
    <2> HIDE DEF w, c
    <2>2. w + (c - 1) = w + c - 1
      BY <1>1, <2>1
    <2> QED
      BY <2>2 DEF w
  <1>6. Holds(EntryAt(e), sample) <=> sample <= ((x % Word) + c - 1) % Word
    BY <1>3, Zenon DEF Holds, stts
  <1> QED
    BY <1>2, <1>4, <1>5, <1>6, Zenon

\* wherever the search starts, it ends at an entry of stts, and if the samples
\* can be counted at the one that covers the sample
LEMMA FindsEntry ==
    ASSUME track \in Tracks, NEW last, Truthful(last),
           NEW sample \in Nat \ {0}, InTable(last, sample)
    PROVE  Right(Found(last, sample), sample)
  <1> DEFINE n == Len(stts)
             from == SearchFrom(last, sample)
             Ends == {i \in from.index .. n : Holds(Reached(from, i), sample)}
  <1>1. /\ n \in Nat \ {0} /\ SamplesTo(0) = 0 /\ TimeTo(0) = 0
        /\ \A e \in 0 .. n : SamplesTo(e) \in Nat
    BY TrackTables, Totals
  <1>2. PICK m \in 1 .. n : from = EntryAt(m)
                            /\ (CountsFit => 1 + SamplesTo(m - 1) <= sample)
    <2>1. CASE last.sid # 0 /\ sample >= last.sid
      <3>1. from = last
        BY <2>1 DEF SearchFrom
      <3>2. PICK e \in 1 .. n : last = EntryAt(e)
        BY <2>1 DEF Truthful, Entered, NothingCached
      <3>3. CountsFit => last.sid = 1 + SamplesTo(e - 1) /\ SamplesTo(e - 1) \in Nat
        <4>1. e - 1 \in 0 .. n
          BY <1>1
        <4> QED
          BY <1>1, <3>2, <4>1, ExactSid
      <3> HIDE DEF from, n
      <3>4. CountsFit => 1 + SamplesTo(e - 1) <= sample
        BY <2>1, <3>3
      <3> QED
        BY <3>1, <3>2, <3>4
    <2>2. CASE ~ (last.sid # 0 /\ sample >= last.sid)
      <3>1. from = [index |-> 1, sid |-> 1, elapsed |-> 0]
        BY <2>2 DEF SearchFrom
      <3>2. EntryAt(1) = [index |-> 1, sid |-> (1 + SamplesTo(0)) % Word,
                          elapsed |-> TimeTo(0)]
        BY DEF EntryAt
      <3>3. (1 + SamplesTo(0)) % Word = 1
        <4>1. 1 + SamplesTo(0) = 1 /\ 1 \in Nat /\ 1 < Word
          BY <1>1, SizesCounted
        <4> QED
          BY <4>1, WordFacts, ModSmall
      <3>4. from = EntryAt(1)
        BY <1>1, <3>1, <3>2, <3>3
      <3>5. 1 \in 1 .. n /\ 1 + SamplesTo(1 - 1) <= sample
        BY <1>1
      <3> HIDE DEF from, n
      <3> QED
        BY <3>4, <3>5
    <2> QED
      BY <2>1, <2>2
  <1>3. from.index = m
    BY <1>2 DEF EntryAt
  <1>4. Ends # {} /\ Found(last, sample) = Reached(from, Min(Ends))
    BY Zenon DEF InTable, Entries, Found, stts
  <1> HIDE DEF from
  <1>5. ASSUME NEW i \in m .. n
        PROVE  /\ Reached(from, i) = EntryAt(i)
               /\ CountsFit => (Holds(EntryAt(i), sample) <=> sample < 1 + SamplesTo(i))
    <2>1. Reached(from, i) = EntryAt(i)
      BY <1>2, SearchCounts
    <2>2. i \in 1 .. n /\ i \in 0 .. n
      BY <1>1
    <2>3. Holds(EntryAt(i), sample) <=> sample <= SamplesTo(i) % Word
      BY <2>2, HoldsUpTo
    <2>4. CountsFit => SamplesTo(i) % Word = SamplesTo(i) /\ SamplesTo(i) \in Nat
      <3> SUFFICES ASSUME CountsFit
                   PROVE  SamplesTo(i) % Word = SamplesTo(i) /\ SamplesTo(i) \in Nat
        OBVIOUS
      <3> DEFINE x == SamplesTo(i)
      <3>1. x \in Nat /\ 1 + x < Word
        BY <2>2, Fits
      <3> HIDE DEF x
      <3>2. x < Word
        BY <3>1, WordFacts
      <3>3. x % Word = x
        BY <3>1, <3>2, WordFacts, ModSmall
      <3> QED
        BY <3>1, <3>3 DEF x
    <2> HIDE DEF n
    <2>5. CountsFit => (sample <= SamplesTo(i) % Word <=> sample < 1 + SamplesTo(i))
      BY <2>4
    <2> QED
      BY <2>1, <2>3, <2>5, Zenon
  <1> DEFINE best == Min(Ends)
  <1>6. best \in Ends /\ \A i \in Ends : best <= i
    <2>1. Ends \in SUBSET Nat
      BY <1>1, <1>3
    <2> HIDE DEF Ends
    <2> QED
      BY <1>4, <2>1, LeastIs
  <1>7. best \in m .. n /\ best \in 1 .. n /\ Holds(Reached(from, best), sample)
    BY <1>1, <1>3, <1>6
  <1> HIDE DEF best
  <1>8. Reached(from, best) = EntryAt(best)
    BY <1>5, <1>7
  <1>9. ASSUME CountsFit
        PROVE  1 + SamplesTo(best - 1) <= sample /\ sample < 1 + SamplesTo(best)
    <2>0. sample < 1 + SamplesTo(best)
      BY <1>5, <1>7, <1>9
    <2>1. CASE best = m
      BY <1>2, <1>9, <2>0, <2>1
    <2>2. CASE best # m
      <3>1. best - 1 \in m .. n /\ ~ (best <= best - 1) /\ best - 1 \in 0 .. n
        BY <1>1, <1>7, <2>2
      <3>2. best - 1 \notin Ends
        BY <1>6, <3>1
      <3>3. ~ Holds(Reached(from, best - 1), sample)
        BY <1>3, <3>1, <3>2
      <3>4. ~ (sample < 1 + SamplesTo(best - 1))
        BY <1>5, <1>9, <3>1, <3>3
      <3>5. SamplesTo(best - 1) \in Nat
        BY <1>1, <3>1
      <3> QED
        BY <2>0, <3>4, <3>5
    <2> QED
      BY <2>1, <2>2
  <1> HIDE DEF Ends
  <1>10. Found(last, sample) = EntryAt(best)
    BY <1>4, <1>8 DEF best
  <1> QED
    BY <1>7, <1>9, <1>10, Zenon DEF Right, Entered, Covering, n

-----------------------------------------------------------------------------
(* Decoding times as the tables are expanded *)

LEMMA TimeInEntry ==
    ASSUME track \in Tracks, NEW e \in 1 .. Len(stts),
           LoadDTS(stts)[SamplesTo(e - 1)] = TimeTo(e - 1)
    PROVE  \A j \in 0 .. stts[e].count :
              LoadDTS(stts)[SamplesTo(e - 1) + j] = TimeTo(e - 1) + j * stts[e].value
  <1> DEFINE d == LoadDTS(stts)
             deltas == Expand(stts)
             s == SamplesTo(e - 1)
             t == TimeTo(e - 1)
             c == stts[e].count
             v == stts[e].value
             h == Sums(Counts(stts))
  <1>1. stts \in Table(Nat)
    BY TrackTables
  <1>2. SumsOf(h, Counts(stts))
    <2>1. Counts(stts) \in Seq(Int)
      BY <1>1, CountsTyped
    <2> QED
      BY <2>1, SumsAre
  <1>3. /\ deltas \in Seq(Nat) /\ Len(deltas) = SamplesTo(Len(stts))
        /\ Covers(stts, h, deltas)
    BY <1>1, <1>2, Expanded DEF SamplesTo
  <1>4. SumsOf(d, deltas)
    BY <1>1, LoadedDTS
  <1>5. /\ s \in Nat /\ c \in Nat /\ v \in Nat /\ SamplesTo(e) = s + c /\ t \in Nat
        /\ Len(stts) \in Nat /\ SamplesTo(e) \in Nat /\ SamplesTo(Len(stts)) \in Nat
        /\ h[e - 1] = s
    <2>1. e - 1 \in 0 .. Len(stts) /\ e \in 0 .. Len(stts) /\ Len(stts) \in 0 .. Len(stts)
      BY TrackTables
    <2> QED
      BY <2>1, TrackTables, Totals DEF SamplesTo
  <1>6. SamplesTo(e) <= SamplesTo(Len(stts))
    <2>1. Counts(stts) \in Seq(Nat) /\ Len(Counts(stts)) = Len(stts)
      BY <1>1, CountsTyped
    <2>2. e \in 0 .. Len(Counts(stts)) /\ Len(stts) \in e .. Len(Counts(stts))
      BY <1>5, <2>1
    <2> QED
      BY <1>2, <2>1, <2>2, SumsGrow DEF SamplesTo
  <1>7. ASSUME NEW j \in 1 .. c PROVE d[s + j] = d[s + (j - 1)] + v
    <2> DEFINE k == s + j
    <2>1. k \in 1 .. Len(deltas) /\ k - 1 = s + (j - 1)
      <3> DEFINE l == Len(deltas)
      <3>1. l = SamplesTo(Len(stts)) /\ s + c <= l /\ l \in Nat
        BY <1>3, <1>5, <1>6
      <3> HIDE DEF l, s, c
      <3>2. s + j \in 1 .. l /\ (s + j) - 1 = s + (j - 1)
        BY <1>5, <3>1
      <3> QED
        BY <3>2 DEF l
    <2>2. d[k] = d[k - 1] + deltas[k]
      BY <1>4, <2>1 DEF SumsOf
    <2>3. deltas[k] = v
      BY <1>3, <1>5 DEF Covers
    <2> HIDE DEF d, deltas, k, v
    <2>4. d[k] = d[k - 1] + v
      BY <2>2, <2>3
    <2> QED
      BY <2>1, <2>4 DEF k
  <1>8. d[s] = t
    OBVIOUS
  <1> HIDE DEF d, deltas, s, t, c, v, h
  <1> DEFINE S == {j \in 0 .. c : d[s + j] = t + j * v}
  <1>9. 0 \in S
    <2>1. s + 0 = s /\ t + 0 * v = t /\ 0 \in 0 .. c
      BY <1>5
    <2> QED
      BY <1>8, <2>1
  <1>10. ASSUME NEW j \in 0 .. c - 1, j \in S PROVE j + 1 \in S
    <2>1. j + 1 \in 1 .. c /\ (j + 1) - 1 = j /\ j + 1 \in 0 .. c
      BY <1>5
    <2>2. d[s + (j + 1)] = d[s + j] + v
      BY <1>7, <2>1
    <2>3. d[s + j] = t + j * v
      BY <1>10
    <2>4. (t + j * v) + v = t + (j + 1) * v
      BY <1>5
    <2> QED
      BY <2>1, <2>2, <2>3, <2>4
  <1>11. 0 .. c \subseteq S
    <2>1. 0 \in Int /\ c \in Int
      BY <1>5
    <2> HIDE DEF S
    <2> QED
      BY <1>9, <1>10, <2>1, IntervalInduction
  <1> QED
    BY <1>11 DEF d, s, t, c, v

LEMMA TimesInEntries ==
    ASSUME track \in Tracks
    PROVE  \A e \in 0 .. Len(stts) : LoadDTS(stts)[SamplesTo(e)] = TimeTo(e)
  <1> DEFINE n == Len(stts)
             S == {e \in 0 .. n : LoadDTS(stts)[SamplesTo(e)] = TimeTo(e)}
  <1>1. n \in Nat /\ SamplesTo(0) = 0 /\ TimeTo(0) = 0
    BY TrackTables, Totals
  <1>2. 0 \in S
    <2>1. LoadDTS(stts)[0] = 0
      BY TrackTables, LoadedDTS DEF SumsOf
    <2> QED
      BY <1>1, <2>1
  <1>3. ASSUME NEW e \in 0 .. n - 1, e \in S PROVE e + 1 \in S
    <2> DEFINE m == e + 1
    <2>1. m \in 1 .. n /\ m - 1 = e /\ m \in 0 .. n
      BY <1>1
    <2> HIDE DEF m
    <2>2. LoadDTS(stts)[SamplesTo(m - 1)] = TimeTo(m - 1)
      BY <1>3, <2>1
    <2>3. /\ stts[m].count \in Nat /\ stts[m].count \in 0 .. stts[m].count
          /\ SamplesTo(m) = SamplesTo(m - 1) + stts[m].count
          /\ TimeTo(m) = TimeTo(m - 1) + stts[m].count * stts[m].value
      BY <2>1, Totals
    <2>4. LoadDTS(stts)[SamplesTo(m - 1) + stts[m].count]
             = TimeTo(m - 1) + stts[m].count * stts[m].value
      BY <2>1, <2>2, <2>3, TimeInEntry
    <2>5. m \in S
      BY <2>1, <2>3, <2>4
    <2> QED
      BY <2>5 DEF m
  <1> HIDE DEF S
  <1>4. 0 .. n \subseteq S
    <2>1. 0 \in Int /\ n \in Int
      BY <1>1
    <2> HIDE DEF n
    <2> QED
      BY <1>2, <1>3, <2>1, IntervalInduction
  <1> QED
    BY <1>4 DEF S

\* the time told of a sample is what all samples before it last
LEMMA TimeOfCovered ==
    ASSUME track \in Tracks, CountsFit, NEW sample \in Nat \ {0}, NEW entry,
           Covering(entry, sample)
    PROVE  Time(entry, sample) = LoadDTS(stts)[sample - 1]
  <1>1. PICK e \in 1 .. Len(stts) : /\ entry = EntryAt(e)
                                    /\ 1 + SamplesTo(e - 1) <= sample
                                    /\ sample < 1 + SamplesTo(e)
    BY DEF Covering
  <1> DEFINE s == SamplesTo(e - 1)
             j == sample - (1 + s)
             v == stts[e].value
             c == stts[e].count
  <1>2. /\ s \in Nat /\ c \in Nat /\ v \in Nat /\ SamplesTo(e) = s + c
        /\ TimeTo(e - 1) \in Nat /\ e - 1 \in 0 .. Len(stts) /\ e \in 0 .. Len(stts)
    <2>1. e - 1 \in 0 .. Len(stts) /\ e \in 0 .. Len(stts)
      BY TrackTables
    <2> QED
      BY <2>1, Totals
  <1>3. entry.sid = 1 + s /\ entry.elapsed = TimeTo(e - 1) /\ entry.index = e
    <2>1. entry.elapsed = TimeTo(e - 1) /\ entry.index = e
      BY <1>1 DEF EntryAt
    <2> QED
      BY <1>1, <2>1, ExactSid
  <1>4. 1 + s <= sample /\ sample < 1 + (s + c) /\ 1 + (s + c) < Word
    BY <1>1, <1>2, Fits
  <1>5. Time(entry, sample) = TimeTo(e - 1) + (j % Word) * v
    BY <1>3 DEF Time, stts
  <1> HIDE DEF s, c, v
  <1>6. j \in 0 .. c /\ s + j = sample - 1 /\ j \in Nat /\ j < Word
    BY <1>2, <1>4, WordFacts
  <1>7. LoadDTS(stts)[SamplesTo(e - 1)] = TimeTo(e - 1)
    BY <1>2, TimesInEntries
  <1> HIDE DEF j
  <1>8. LoadDTS(stts)[s + j] = TimeTo(e - 1) + j * v
    BY <1>6, <1>7, TimeInEntry DEF s, c, v
  <1>9. j % Word = j
    BY <1>6, WordFacts, ModSmall
  <1> QED
    BY <1>5, <1>6, <1>8, <1>9

LEMMA TimeTyped ==
    ASSUME track \in Tracks, NEW sample \in Nat, NEW entry, Entered(entry)
    PROVE  Time(entry, sample) \in Nat
  <1>1. PICK e \in 1 .. Len(stts) : entry = EntryAt(e)
    BY DEF Entered
  <1> DEFINE x == 1 + SamplesTo(e - 1)
             t == TimeTo(e - 1)
             v == stts[e].value
             d == sample - (x % Word)
  <1>2. x \in Int /\ t \in Nat /\ v \in Nat
    <2>1. e - 1 \in 0 .. Len(stts)
      BY TrackTables
    <2> QED
      BY <2>1, Totals
  <1>3. entry.sid = x % Word /\ entry.elapsed = t /\ entry.index = e
    BY <1>1 DEF EntryAt
  <1>4. Time(entry, sample) = t + (d % Word) * v
    BY <1>3 DEF Time, stts
  <1> HIDE DEF x, t, v
  <1>5. x % Word \in Int
    BY <1>2, WordFacts, ModBounds
  <1>6. d \in Int
    BY <1>5
  <1> HIDE DEF d
  <1>7. d % Word \in Nat
    <2>1. d % Word \in 0 .. Word - 1
      BY <1>6, WordFacts, ModBounds
    <2> QED
      BY <2>1, WordFacts
  <1> DEFINE w == d % Word
  <1>8. w \in Nat
    BY <1>7
  <1> HIDE DEF w
  <1>9. t + w * v \in Nat
    BY <1>2, <1>8
  <1> QED
    BY <1>4, <1>9 DEF w

-----------------------------------------------------------------------------
(* stsc *)

Begins(i) == stsc[i].firstChunk
RunEnd(i) == IF i = Len(stsc) THEN track.chunks + 1 ELSE Begins(i + 1)

LEMMA RunsTyped ==
    ASSUME track \in Tracks
    PROVE  /\ Len(stsc) \in Nat \ {0} /\ DOMAIN stsc = 1 .. Len(stsc)
           /\ track.chunks \in Nat
           /\ \A i \in 1 .. Len(stsc) : Begins(i) \in Nat /\ stsc[i].samples \in Nat
           /\ Begins(1) = 1 /\ Begins(Len(stsc)) <= track.chunks + 1
           /\ \A i \in 1 .. Len(stsc) - 1 : Begins(i) < Begins(i + 1)
  <1> DEFINE D == [firstChunk : Nat, samples : Nat]
  <1>1. stsc \in Seq(D) /\ Len(stsc) \in Nat \ {0} /\ track.chunks \in Nat
    BY TrackTables
  <1>2. \A r \in D : r.firstChunk \in Nat /\ r.samples \in Nat
    OBVIOUS
  <1> HIDE DEF D
  <1>3. DOMAIN stsc = 1 .. Len(stsc) /\ \A i \in 1 .. Len(stsc) : stsc[i] \in D
    BY <1>1, Members, Zenon
  <1>4. /\ Begins(1) = 1 /\ Begins(Len(stsc)) <= track.chunks + 1
        /\ \A i \in 1 .. Len(stsc) - 1 : Begins(i) < Begins(i + 1)
    BY RunsAssumption, Zenon DEF Begins, stsc
  <1> QED
    BY <1>1, <1>2, <1>3, <1>4 DEF Begins

LEMMA RunsRise ==
    ASSUME track \in Tracks, NEW i \in 1 .. Len(stsc)
    PROVE  \A j \in i .. Len(stsc) : Begins(i) <= Begins(j)
  <1> DEFINE n == Len(stsc)
             S == {j \in i .. n : Begins(i) <= Begins(j)}
  <1>1. /\ n \in Nat /\ i \in 1 .. n
        /\ \A j \in 1 .. n : Begins(j) \in Nat
        /\ \A j \in 1 .. n - 1 : Begins(j) < Begins(j + 1)
    BY RunsTyped
  <1> HIDE DEF n
  <1>2. i \in S
    BY <1>1
  <1>3. ASSUME NEW j \in i .. n - 1, j \in S PROVE j + 1 \in S
    <2>1. j \in 1 .. n - 1 /\ j \in 1 .. n /\ j + 1 \in 1 .. n /\ j + 1 \in i .. n
      BY <1>1
    <2>2. Begins(j) < Begins(j + 1) /\ Begins(i) <= Begins(j)
      BY <1>1, <1>3, <2>1
    <2>3. Begins(i) <= Begins(j + 1)
      BY <1>1, <2>1, <2>2
    <2> QED
      BY <2>1, <2>3
  <1> HIDE DEF S
  <1>4. i .. n \subseteq S
    <2>1. i \in Int /\ n \in Int
      BY <1>1
    <2> QED
      BY <1>2, <1>3, <2>1, IntervalInduction
  <1> QED
    BY <1>4 DEF S, n

LEMMA RunOfChunk ==
    ASSUME track \in Tracks, NEW c \in 1 .. track.chunks
    PROVE  /\ StscIndex(c) \in 1 .. Len(stsc)
           /\ Begins(StscIndex(c)) <= c /\ c < RunEnd(StscIndex(c))
  <1> DEFINE n == Len(stsc)
             X == {i \in DOMAIN stsc : c < Begins(i)} \cup {n + 1}
             m == Min(X)
  <1>1. /\ n \in Nat \ {0} /\ DOMAIN stsc = 1 .. n /\ Begins(1) = 1
        /\ \A i \in 1 .. n : Begins(i) \in Nat
        /\ track.chunks \in Nat
    BY RunsTyped
  <1>2. StscIndex(c) = m - 1
    BY DEF StscIndex, Begins, stsc
  <1>3. m \in X /\ \A x \in X : m <= x
    <2>1. X \in SUBSET Nat /\ X # {}
      BY <1>1
    <2> HIDE DEF X
    <2> QED
      BY <2>1, LeastIs
  <1> HIDE DEF m, n
  <1>4. \A x \in X : x \in 2 .. n + 1
    BY <1>1
  <1>5. m \in 2 .. n + 1 /\ m - 1 \in 1 .. n
    BY <1>1, <1>3, <1>4
  <1>6. Begins(m - 1) <= c
    <2>1. m - 1 \notin X
      BY <1>3, <1>5
    <2>2. ~ (c < Begins(m - 1)) /\ Begins(m - 1) \in Nat
      BY <1>1, <1>5, <2>1
    <2> QED
      BY <2>2
  <1>7. c < RunEnd(m - 1)
    <2>1. CASE m = n + 1
      BY <1>1, <2>1 DEF RunEnd, n
    <2>2. CASE m # n + 1
      <3>1. c < Begins(m) /\ m - 1 # n /\ (m - 1) + 1 = m
        BY <1>1, <1>3, <1>5, <2>2
      <3> QED
        BY <3>1 DEF RunEnd, n
    <2> QED
      BY <2>1, <2>2
  <1> QED
    BY <1>2, <1>5, <1>6, <1>7 DEF n

LEMMA RunIsUnique ==
    ASSUME track \in Tracks, NEW c \in 1 .. track.chunks, NEW i \in 1 .. Len(stsc),
           Begins(i) <= c, c < RunEnd(i)
    PROVE  StscIndex(c) = i
  <1> DEFINE n == Len(stsc)
             j == StscIndex(c)
  <1>1. j \in 1 .. n /\ Begins(j) <= c /\ c < RunEnd(j)
    BY RunOfChunk
  <1>2. n \in Nat /\ \A k \in 1 .. n : Begins(k) \in Nat
    BY RunsTyped
  <1> HIDE DEF j
  <1>3. ASSUME NEW k \in 1 .. n, NEW l \in k + 1 .. n, c < RunEnd(k), Begins(l) <= c
        PROVE  FALSE
    <2>1. k # n /\ k + 1 \in 1 .. n /\ l \in 1 .. n
      BY <1>2
    <2>2. RunEnd(k) = Begins(k + 1)
      BY <2>1 DEF RunEnd
    <2>3. Begins(k + 1) <= Begins(l)
      BY <2>1, RunsRise
    <2>4. Begins(k + 1) \in Nat /\ Begins(l) \in Nat
      BY <1>2, <2>1
    <2> QED
      BY <1>3, <2>2, <2>3, <2>4
  <1>4. ~ (i < j) /\ ~ (j < i)
    BY <1>1, <1>2, <1>3
  <1> QED
    BY <1>1, <1>2, <1>4 DEF j

LEMMA FirstSamples ==
    ASSUME track \in Tracks
    PROVE  /\ FirstSample[1] = 1
           /\ \A i \in 1 .. Len(stsc) : FirstSample[i] \in Int
           /\ \A i \in 2 .. Len(stsc) :
                 FirstSample[i] = FirstSample[i - 1]
                                    + stsc[i - 1].samples * (Begins(i) - Begins(i - 1))
  <1> DEFINE n == Len(stsc)
             one == 1
             gain(i) == stsc[i - 1].samples * (Begins(i) - Begins(i - 1))
             step == [p \in (2 .. n) \X Int |-> p[2] + gain(p[1])]
             first == CHOOSE f : f = [i \in DOMAIN track.stsc |->
                        IF i = 1 THEN 1
                        ELSE f[i - 1] + track.stsc[i - 1].samples
                               * (track.stsc[i].firstChunk - track.stsc[i - 1].firstChunk)]
  <1>1. FirstSample = first
    BY Zenon DEF FirstSample
  <1>2. /\ n \in Nat \ {0} /\ DOMAIN stsc = 1 .. n
        /\ \A i \in 1 .. n : Begins(i) \in Nat /\ stsc[i].samples \in Nat
    BY RunsTyped
  <1> HIDE DEF n
  <1>3. ASSUME NEW i \in 2 .. n PROVE i - 1 \in 1 .. n /\ gain(i) \in Int
    <2>1. i - 1 \in 1 .. n /\ i \in 1 .. n
      BY <1>2
    <2>2. /\ Begins(i) \in Nat /\ Begins(i - 1) \in Nat /\ stsc[i - 1].samples \in Nat
      BY <1>2, <2>1
    <2> QED
      BY <2>1, <2>2
  <1> HIDE DEF gain
  <1>4. step \in [(2 .. n) \X Int -> Int] /\ \A i \in 2 .. n, v \in Int :
                                                step[<<i, v>>] = v + gain(i)
    BY <1>3
  <1>5. one \in Int /\ n \in Int /\ one <= n /\ one + 1 = 2
    BY <1>2
  <1> HIDE DEF step, one
  <1>6. PICK h \in [one .. n -> Int] : Stepped(h, one, n, one, step)
    <2>1. step \in [(one + 1 .. n) \X Int -> Int]
      BY <1>4, <1>5
    <2> QED
      BY <1>5, <2>1, Recursion, Zenon
  <1>7. /\ h \in [1 .. n -> Int] /\ h[1] = 1
        /\ \A i \in 2 .. n : h[i] = step[<<i, h[i - 1]>>]
    BY <1>6 DEF Stepped, one
  <1>8. \A i \in 2 .. n : h[i] = h[i - 1] + gain(i)
    BY <1>3, <1>4, <1>7
  <1>9. h = [i \in DOMAIN stsc |-> IF i = 1 THEN 1 ELSE h[i - 1] + gain(i)]
    <2>1. \A i \in 1 .. n : i = 1 \/ i \in 2 .. n
      BY <1>2
    <2>2. \A i \in 1 .. n : h[i] = IF i = 1 THEN 1 ELSE h[i - 1] + gain(i)
      BY <1>7, <1>8, <2>1, Zenon
    <2>3. h = [i \in 1 .. n |-> h[i]]
      BY <1>7
    <2> QED
      BY <1>2, <2>2, <2>3, Zenon
  <1>10. first = [i \in DOMAIN stsc |-> IF i = 1 THEN 1 ELSE first[i - 1] + gain(i)]
    BY <1>9, Zenon DEF gain, Begins, stsc
  <1> HIDE DEF first
  <1>11. first[1] = 1 /\ \A i \in 2 .. n : first[i] = first[i - 1] + gain(i)
    <2>1. \A i \in 1 .. n : first[i] = IF i = 1 THEN 1 ELSE first[i - 1] + gain(i)
      BY <1>2, <1>10, Zenon
    <2>2. 1 \in 1 .. n /\ \A i \in 2 .. n : i \in 1 .. n /\ i # 1
      BY <1>2
    <2> QED
      BY <2>1, <2>2, Zenon
  <1>12. \A i \in 1 .. n : first[i] \in Int
    <2> DEFINE S == {i \in 1 .. n : first[i] \in Int}
    <2>1. 1 \in S
      BY <1>2, <1>11
    <2>2. ASSUME NEW i \in 1 .. n - 1, i \in S PROVE i + 1 \in S
      <3>1. i + 1 \in 2 .. n /\ (i + 1) - 1 = i /\ i + 1 \in 1 .. n
        BY <1>2
      <3>2. first[i + 1] = first[i] + gain(i + 1) /\ gain(i + 1) \in Int
        BY <1>3, <1>11, <3>1
      <3> QED
        BY <2>2, <3>1, <3>2
    <2>3. 1 \in Int /\ n \in Int
      BY <1>2
    <2> HIDE DEF S
    <2>4. 1 .. n \subseteq S
      BY <2>1, <2>2, <2>3, IntervalInduction
    <2> QED
      BY <2>4 DEF S
  <1> QED
    BY <1>1, <1>11, <1>12 DEF n, gain

\* the samples before the next chunk, and those of every chunk
SamplesUpTo == [c \in 0 .. track.chunks |-> IF c = 0 THEN 0 ELSE LastSampleInChunk(c)]

ChunkCounts ==
    FlattenSeq([i \in DOMAIN track.stsc |->
                  [c \in 1 .. RunEnd(i) - track.stsc[i].firstChunk |->
                     track.stsc[i].samples]])

LEMMA CountsOfChunks ==
    ASSUME track \in Tracks
    PROVE  /\ ChunkCounts \in Seq(Nat) /\ Len(ChunkCounts) = track.chunks
           /\ \A c \in 1 .. track.chunks :
                 ChunkCounts[c] = stsc[StscIndex(c)].samples
  <1> DEFINE n == Len(stsc)
             runs == [i \in 1 .. n |-> [count |-> RunEnd(i) - Begins(i),
                                        value |-> stsc[i].samples]]
             h == [i \in 0 .. n |-> IF i = 0 THEN 0 ELSE RunEnd(i) - 1]
  <1>1. /\ n \in Nat \ {0} /\ DOMAIN stsc = 1 .. n /\ Begins(1) = 1
        /\ \A i \in 1 .. n : Begins(i) \in Nat /\ stsc[i].samples \in Nat
        /\ track.chunks \in Nat /\ Begins(n) <= track.chunks + 1
        /\ \A i \in 1 .. n - 1 : Begins(i) < Begins(i + 1)
    BY RunsTyped
  <1> HIDE DEF n
  <1>2. ASSUME NEW i \in 1 .. n
        PROVE  RunEnd(i) - Begins(i) \in Nat /\ RunEnd(i) \in Nat
    <2>1. CASE i = n
      BY <1>1, <2>1 DEF RunEnd, n
    <2>2. CASE i # n
      <3>1. i \in 1 .. n - 1 /\ i + 1 \in 1 .. n
        BY <1>1, <2>2
      <3>2. RunEnd(i) = Begins(i + 1)
        BY <2>2 DEF RunEnd, n
      <3> QED
        BY <1>1, <3>1, <3>2
    <2> QED
      BY <2>1, <2>2
  <1>3. runs \in Table(Nat) /\ Len(runs) = n
    <2> DEFINE E == [count : Nat, value : Nat]
               r(i) == [count |-> RunEnd(i) - Begins(i), value |-> stsc[i].samples]
    <2>1. \A i \in 1 .. n : r(i) \in E
      BY <1>1, <1>2
    <2> HIDE DEF E, r
    <2>2. [i \in 1 .. n |-> r(i)] \in Seq(E) /\ Len([i \in 1 .. n |-> r(i)]) = n
      BY <1>1, <2>1
    <2> QED
      BY <2>2 DEF Table, E, r
  <1>4. ASSUME NEW i \in 1 .. n
        PROVE  runs[i].count = RunEnd(i) - Begins(i) /\ runs[i].value = stsc[i].samples
    OBVIOUS
  <1>5. ChunkCounts = Expand(runs)
    <2> DEFINE a(i) == [c \in 1 .. RunEnd(i) - Begins(i) |-> stsc[i].samples]
               b(i) == [c \in 1 .. runs[i].count |-> runs[i].value]
    <2>1. \A i \in 1 .. n : a(i) = b(i)
      BY <1>4
    <2>2. DOMAIN runs = 1 .. n
      OBVIOUS
    <2>3. ChunkCounts = FlattenSeq([i \in DOMAIN stsc |-> a(i)])
      BY Zenon DEF ChunkCounts, Begins, stsc
    <2>4. Expand(runs) = FlattenSeq([i \in DOMAIN runs |-> b(i)])
      BY Zenon DEF Expand
    <2> HIDE DEF a, b, runs
    <2>5. [i \in 1 .. n |-> a(i)] = [i \in 1 .. n |-> b(i)]
      BY <2>1
    <2> QED
      BY <1>1, <2>2, <2>3, <2>4, <2>5, Zenon
  <1>6. h[0] = 0 /\ \A i \in 1 .. n : h[i] = RunEnd(i) - 1
    BY <1>1
  <1> HIDE DEF runs, h
  <1>7. ASSUME NEW i \in 1 .. n PROVE h[i - 1] = Begins(i) - 1
    <2>1. CASE i = 1
      BY <1>1, <1>6, <2>1
    <2>2. CASE i # 1
      <3>1. i - 1 \in 1 .. n /\ i - 1 # n /\ (i - 1) + 1 = i
        BY <1>1, <2>2
      <3>2. RunEnd(i - 1) = Begins(i)
        BY <3>1 DEF RunEnd, n
      <3> QED
        BY <1>6, <3>1, <3>2
    <2> QED
      BY <2>1, <2>2
  <1>8. SumsOf(h, Counts(runs))
    <2>1. /\ Len(Counts(runs)) = n
          /\ \A i \in 1 .. n : Counts(runs)[i] = RunEnd(i) - Begins(i)
      BY <1>3, <1>4, CountsTyped
    <2>2. ASSUME NEW i \in 1 .. n PROVE h[i] = h[i - 1] + (RunEnd(i) - Begins(i))
      <3>1. Begins(i) \in Nat /\ RunEnd(i) \in Nat
        BY <1>1, <1>2
      <3>2. h[i] = RunEnd(i) - 1 /\ h[i - 1] = Begins(i) - 1
        BY <1>6, <1>7
      <3> QED
        BY <3>1, <3>2
    <2> QED
      BY <1>6, <2>1, <2>2 DEF SumsOf
  <1>9. /\ Expand(runs) \in Seq(Nat) /\ Len(Expand(runs)) = h[n]
        /\ Covers(runs, h, Expand(runs))
    BY <1>3, <1>8, Expanded
  <1>10. h[n] = track.chunks
    <2>1. RunEnd(n) = track.chunks + 1 /\ n \in 1 .. n
      BY <1>1 DEF RunEnd, n
    <2> QED
      BY <1>1, <1>6, <2>1
  <1>11. ASSUME NEW c \in 1 .. track.chunks
         PROVE  Expand(runs)[c] = stsc[StscIndex(c)].samples
    <2> DEFINE i == StscIndex(c)
               j == c - Begins(i) + 1
    <2>1. i \in 1 .. n /\ Begins(i) <= c /\ c < RunEnd(i)
      BY RunOfChunk DEF n
    <2> HIDE DEF i
    <2>2. Begins(i) \in Nat /\ RunEnd(i) \in Nat
      BY <1>1, <1>2, <2>1
    <2>3. j \in 1 .. runs[i].count /\ h[i - 1] + j = c
      <3>1. h[i - 1] = Begins(i) - 1 /\ runs[i].count = RunEnd(i) - Begins(i)
        BY <1>4, <1>7, <2>1
      <3> QED
        BY <2>1, <2>2, <3>1
    <2> HIDE DEF j
    <2>4. Expand(runs)[h[i - 1] + j] = runs[i].value
      BY <1>3, <1>9, <2>1, <2>3 DEF Covers
    <2>5. runs[i].value = stsc[i].samples
      BY <1>4, <2>1
    <2> QED
      BY <2>3, <2>4, <2>5 DEF i
  <1> QED
    BY <1>5, <1>9, <1>10, <1>11

\* one chunk begins with the sample that follows the last of the one before it
LEMMA ChunksAdjoin ==
    ASSUME track \in Tracks, NEW c \in 1 .. track.chunks
    PROVE  /\ FirstSampleInChunk(c) \in Int /\ stsc[StscIndex(c)].samples \in Nat
           /\ LastSampleInChunk(c)
                = FirstSampleInChunk(c) + stsc[StscIndex(c)].samples - 1
           /\ SamplesUpTo[c - 1] = FirstSampleInChunk(c) - 1
  <1> DEFINE n == Len(stsc)
             i == StscIndex(c)
             s == stsc[i].samples
             b == Begins(i)
             f == FirstSample[i]
  <1>1. /\ n \in Nat \ {0} /\ Begins(1) = 1 /\ track.chunks \in Nat
        /\ \A k \in 1 .. n : Begins(k) \in Nat /\ stsc[k].samples \in Nat
        /\ \A k \in 1 .. n - 1 : Begins(k) < Begins(k + 1)
    BY RunsTyped
  <1>2. i \in 1 .. n /\ b <= c /\ c < RunEnd(i)
    BY RunOfChunk
  <1>3. /\ FirstSample[1] = 1 /\ \A k \in 1 .. n : FirstSample[k] \in Int
        /\ \A k \in 2 .. n : FirstSample[k] = FirstSample[k - 1]
                                + stsc[k - 1].samples * (Begins(k) - Begins(k - 1))
    BY FirstSamples
  <1>4. FirstSampleInChunk(c) = f + (c - b) * s
    BY DEF FirstSampleInChunk, Begins, stsc
  <1>5. LastSampleInChunk(c) = FirstSampleInChunk(c) + s - 1
    BY DEF LastSampleInChunk, stsc
  <1> HIDE DEF n, i
  <1>6. s \in Nat /\ b \in Nat /\ f \in Int /\ c - b \in Nat
    BY <1>1, <1>2, <1>3
  <1>7. FirstSampleInChunk(c) \in Int
    BY <1>4, <1>6
  <1>8. SamplesUpTo[c - 1] = FirstSampleInChunk(c) - 1
    <2>1. CASE c = 1
      <3>1. i = 1
        <4>1. ASSUME i # 1 PROVE FALSE
          <5>1. i \in 2 .. n /\ 1 \in 1 .. n - 1 /\ 1 + 1 = 2 /\ 2 \in 1 .. n
                /\ i \in 2 .. Len(stsc) /\ 2 \in 1 .. Len(stsc)
            BY <1>1, <1>2, <4>1 DEF n
          <5>2. Begins(1) < Begins(2) /\ Begins(2) <= Begins(i)
            BY <1>1, <5>1, RunsRise
          <5>3. Begins(i) <= 1 /\ Begins(i) \in Nat /\ Begins(2) \in Nat
            BY <1>1, <1>2, <2>1, <5>1
          <5> QED
            BY <1>1, <5>2, <5>3
        <4> QED
          BY <4>1
      <3>2. f = 1 /\ c - b = 0
        BY <1>1, <1>3, <2>1, <3>1
      <3>3. FirstSampleInChunk(c) = 1
        BY <1>4, <1>6, <3>2
      <3>4. SamplesUpTo[c - 1] = 0
        BY <1>1, <2>1 DEF SamplesUpTo
      <3> QED
        BY <3>3, <3>4
    <2>2. CASE c # 1
      <3> DEFINE p == c - 1
                 k == StscIndex(p)
      <3>1. p \in 1 .. track.chunks /\ SamplesUpTo[p] = LastSampleInChunk(p)
        <4>1. p \in 1 .. track.chunks /\ p \in 0 .. track.chunks /\ p # 0
          BY <1>1, <2>2
        <4> HIDE DEF p
        <4> QED
          BY <4>1 DEF SamplesUpTo
      <3>2. LastSampleInChunk(p)
               = FirstSample[k] + (p - Begins(k)) * stsc[k].samples + stsc[k].samples - 1
        BY DEF LastSampleInChunk, FirstSampleInChunk, Begins, stsc
      <3>3. CASE b < c
        <4>1. b <= p /\ p < RunEnd(i)
          <5>1. RunEnd(i) \in Nat
            BY <1>1, <1>2 DEF RunEnd, n
          <5> QED
            BY <1>2, <1>6, <3>1, <3>3, <5>1
        <4>2. k = i
          BY <1>2, <3>1, <4>1, RunIsUnique DEF n
        <4>3. LastSampleInChunk(p) = f + (p - b) * s + s - 1
          BY <3>2, <4>2
        <4> HIDE DEF f, b, s
        <4>4. f + (p - b) * s + s - 1 = f + (c - b) * s - 1
          <5>1. (p - b) * s + s = (c - b) * s
            BY <1>6, <4>1
          <5> QED
            BY <1>6, <4>1, <5>1
        <4> QED
          BY <1>4, <1>6, <3>1, <4>3, <4>4
      <3>4. CASE b = c
        <4> DEFINE m == i - 1
                   t == stsc[m].samples
                   a == Begins(m)
                   g == FirstSample[m]
        <4>1. i \in 2 .. n /\ m \in 1 .. n - 1 /\ m \in 1 .. n /\ m + 1 = i
          BY <1>1, <1>2, <2>2, <3>4
        <4>2. a \in Nat /\ t \in Nat /\ g \in Int /\ a < b
          BY <1>1, <1>3, <4>1
        <4>3. RunEnd(m) = b
          BY <4>1 DEF RunEnd, n
        <4>4. a <= p /\ p < RunEnd(m)
          BY <3>1, <3>4, <4>2, <4>3
        <4>5. k = m
          <5> HIDE DEF k, p, m
          <5>1. m \in 1 .. Len(stsc)
            BY <4>1 DEF n
          <5> QED
            BY <3>1, <4>4, <5>1, RunIsUnique DEF k
        <4>6. LastSampleInChunk(p) = g + (p - a) * t + t - 1
          BY <3>2, <4>5
        <4>7. f = g + t * (b - a)
          BY <1>3, <4>1
        <4> HIDE DEF f, b, s, a, g, t, m
        <4>8. g + (p - a) * t + t - 1 = f - 1
          <5>1. (p - a) * t + t = t * (b - a)
            BY <3>4, <4>2, <4>4, <1>6
          <5> QED
            BY <4>2, <4>4, <4>7, <5>1
        <4>9. FirstSampleInChunk(c) = f
          BY <1>4, <1>6, <3>4
        <4> QED
          BY <1>6, <3>1, <4>6, <4>8, <4>9
      <3> QED
        BY <1>2, <1>6, <3>3, <3>4
    <2> QED
      BY <2>1, <2>2
  <1> QED
    BY <1>5, <1>6, <1>7, <1>8 DEF i

LEMMA ChunkSums ==
    ASSUME track \in Tracks
    PROVE  SumsOf(SamplesUpTo, ChunkCounts)
  <1>1. /\ Len(ChunkCounts) = track.chunks /\ track.chunks \in Nat
        /\ \A c \in 1 .. track.chunks : ChunkCounts[c] = stsc[StscIndex(c)].samples
    BY CountsOfChunks, RunsTyped
  <1>2. SamplesUpTo[0] = 0
    BY <1>1 DEF SamplesUpTo
  <1>3. ASSUME NEW c \in 1 .. track.chunks
        PROVE  SamplesUpTo[c] = SamplesUpTo[c - 1] + stsc[StscIndex(c)].samples
    <2> DEFINE f == FirstSampleInChunk(c)
               s == stsc[StscIndex(c)].samples
    <2>1. /\ f \in Int /\ s \in Nat /\ LastSampleInChunk(c) = f + s - 1
          /\ SamplesUpTo[c - 1] = f - 1
      BY ChunksAdjoin
    <2>2. SamplesUpTo[c] = LastSampleInChunk(c)
      BY <1>1 DEF SamplesUpTo
    <2> QED
      BY <2>1, <2>2
  <1> QED
    BY <1>1, <1>2, <1>3 DEF SumsOf

-----------------------------------------------------------------------------
LEMMA TrackKept ==
    ASSUME track' = track
    PROVE  /\ stts' = stts /\ sizes' = sizes /\ Samples' = Samples
           /\ \A e : EntryAt(e)' = EntryAt(e)
           /\ SamplesUpTo' = SamplesUpTo
           /\ ChunkCounts' = ChunkCounts
           /\ CountsFit' = CountsFit
  <1>1. stts' = stts /\ sizes' = sizes /\ Samples' = Samples
    BY DEF stts, sizes, Samples
  <1>2. \A e : EntryAt(e)' = EntryAt(e)
    BY DEF EntryAt, SamplesTo, TimeTo, stts
  <1>3. ChunkCounts' = ChunkCounts
    BY DEF ChunkCounts, RunEnd, Begins, stsc
  <1>4. FirstSample' = FirstSample
    BY DEF FirstSample
  <1>5. \A c : StscIndex(c)' = StscIndex(c)
    BY DEF StscIndex
  <1>6. \A c : LastSampleInChunk(c)' = LastSampleInChunk(c)
    BY <1>4, <1>5 DEF LastSampleInChunk, FirstSampleInChunk
  <1>7. SamplesUpTo' = SamplesUpTo
    BY <1>6 DEF SamplesUpTo
  <1>8. CountsFit' = CountsFit
    BY DEF CountsFit
  <1> QED
    BY <1>1, <1>2, <1>3, <1>7, <1>8

-----------------------------------------------------------------------------
(* The inductive invariant *)

Words == 0 .. Word - 1

\* the sizes of the first samples together
SizesTo(s) == Sums(sizes)[s]

\* no chunk is larger than the word its size is counted in
ChunksFit ==
    \A c \in 1 .. track.chunks :
       TotalOf(SubSeq(sizes, FirstSampleInChunk(c), LastSampleInChunk(c))) < Word

LookupInv ==
    /\ Truthful(cached)
    /\ asked.sample \in 0 .. Samples + 1 /\ asked.time \in Nat
    /\ CountsFit /\ asked.sample > 0 => asked.time = LoadDTS(stts)[asked.sample - 1]

\* between two chunks: all samples before the next have been copied
CopyInv ==
    /\ chunk \in 1 .. track.chunks + 1 /\ copied \in Nat
    /\ SamplesUpTo[chunk - 1] \in 0 .. Samples
    /\ ChunksFit => copied = SizesTo(SamplesUpTo[chunk - 1])

WindowInv ==
    /\ window = [sid |-> window.sid, start |-> window.start, from |-> window.from,
                 bytes |-> window.bytes, lastTime |-> window.lastTime,
                 lastSize |-> window.lastSize, max |-> window.max]
    /\ window.sid \in 1 .. Samples + 1 /\ window.start \in 1 .. window.sid
    /\ window.bytes = (SizesTo(window.sid - 1) - SizesTo(window.start - 1)) % Word
    /\ window.lastSize \in Words /\ window.max \in Words
    /\ window.from \in Nat /\ window.lastTime \in Nat

Inv ==
    /\ track \in Tracks
    /\ LookupInv /\ CopyInv /\ WindowInv
    /\ Len(recorded) <= 1
    /\ pc \in {"copy", "copied", "close", "closed", "failed"}

LEMMA SizesAre ==
    ASSUME track \in Tracks
    PROVE  /\ Samples \in Nat /\ Samples = Len(sizes) /\ SizesTo(0) = 0
           /\ SumsOf(Sums(sizes), sizes) /\ sizes \in Seq(Int)
           /\ \A s \in 0 .. Samples : SizesTo(s) \in Nat
           /\ \A s \in 1 .. Samples : /\ sizes[s] \in Words
                                      /\ SizesTo(s) = SizesTo(s - 1) + sizes[s]
  <1> DEFINE list == sizes
             n == Len(list)
  <1>1. list \in Seq(Nat) /\ list \in Seq(Words) /\ Samples = n
    BY TrackTables DEF Samples, sizes, Words
  <1> HIDE DEF list
  <1>2. list \in Seq(Int) /\ n \in Nat /\ \A s \in 1 .. n : list[s] \in Words
    BY <1>1
  <1>3. SumsOf(Sums(list), list)
    BY <1>2, SumsAre
  <1>4. ASSUME NEW s \in 0 .. n PROVE Sums(list)[s] \in Nat
    <2>1. s \in s .. n
      BY <1>2
    <2> QED
      BY <1>1, <1>3, <2>1, SumsGrow
  <1>5. /\ Sums(list)[0] = 0
        /\ \A s \in 1 .. n : Sums(list)[s] = Sums(list)[s - 1] + list[s]
    BY <1>3 DEF SumsOf
  <1> QED
    BY <1>1, <1>2, <1>3, <1>4, <1>5 DEF SizesTo, list

LEMMA SizeOfPart ==
    ASSUME track \in Tracks, NEW i \in 1 .. Samples + 1, NEW j \in i - 1 .. Samples
    PROVE  /\ TotalOf(SubSeq(sizes, i, j)) = SizesTo(j) - SizesTo(i - 1)
           /\ TotalOf(SubSeq(sizes, i, j)) \in Int
  <1>1. /\ Samples \in Nat /\ Samples = Len(sizes)
        /\ SumsOf(Sums(sizes), sizes) /\ sizes \in Seq(Int)
        /\ \A s \in 0 .. Samples : SizesTo(s) \in Nat
    BY SizesAre
  <1>2. SumOf(SubSeq(sizes, i, j)) = Sums(sizes)[j] - Sums(sizes)[i - 1]
    BY <1>1, SumOfPart
  <1>3. TotalOf(SubSeq(sizes, i, j)) = SumOf(SubSeq(sizes, i, j))
    BY Zenon DEF TotalOf, SumOf
  <1>4. i - 1 \in 0 .. Samples /\ j \in 0 .. Samples
    BY <1>1
  <1> QED
    BY <1>1, <1>2, <1>3, <1>4 DEF SizesTo

\* asking for a sample keeps the cache truthful and tells the right time
LEMMA AskKeeps ==
    ASSUME track \in Tracks, track' = track,
           NEW entry, NEW sample \in 1 .. Samples + 1,
           Right(entry, sample), Ask(entry, sample)
    PROVE  LookupInv'
  <1>1. Samples \in Nat /\ sample \in Nat \ {0} /\ sample \in 0 .. Samples + 1
    BY SizesAre
  <1>2. Entered(entry) /\ Time(entry, sample) \in Nat
    BY <1>1, TimeTyped DEF Right
  <1>3. CountsFit => Time(entry, sample) = LoadDTS(stts)[sample - 1]
    BY <1>1, TimeOfCovered DEF Right
  <1>4. cached' = entry /\ asked' = [sample |-> sample, time |-> Time(entry, sample)]
    BY DEF Ask
  <1>5. /\ stts' = stts /\ Samples' = Samples /\ CountsFit' = CountsFit
        /\ \A e : EntryAt(e)' = EntryAt(e)
    BY TrackKept
  <1>6. Truthful(cached)'
    BY <1>2, <1>4, <1>5 DEF Truthful, Entered
  <1>7. asked'.sample = sample /\ asked'.time = Time(entry, sample)
    BY <1>4
  <1> QED
    BY <1>1, <1>2, <1>3, <1>5, <1>6, <1>7 DEF LookupInv

LEMMA LookupUnchanged ==
    ASSUME LookupInv, UNCHANGED <<track, cached, asked>>
    PROVE  LookupInv'
  <1>1. /\ stts' = stts /\ Samples' = Samples /\ CountsFit' = CountsFit
        /\ \A e : EntryAt(e)' = EntryAt(e)
    BY TrackKept
  <1> QED
    BY <1>1 DEF LookupInv, Truthful, Entered

LEMMA CopyUnchanged ==
    ASSUME CopyInv, UNCHANGED <<track, chunk, copied>>
    PROVE  CopyInv'
  <1>1. sizes' = sizes /\ Samples' = Samples /\ SamplesUpTo' = SamplesUpTo
    BY TrackKept
  <1>2. ChunksFit' = ChunksFit
    BY DEF ChunksFit, sizes, FirstSampleInChunk, LastSampleInChunk, StscIndex, FirstSample
  <1> QED
    BY <1>1, <1>2 DEF CopyInv, SizesTo

LEMMA WindowUnchanged ==
    ASSUME WindowInv, UNCHANGED <<track, window>>
    PROVE  WindowInv'
  <1>1. sizes' = sizes /\ Samples' = Samples
    BY TrackKept
  <1> QED
    BY <1>1 DEF WindowInv, SizesTo

LEMMA Initially ==
    ASSUME Init
    PROVE  Inv
  <1>1. track \in Tracks
    BY DEF Init
  <1>2. Samples \in Nat /\ SizesTo(0) = 0 /\ Word \in Nat \ {0}
    BY <1>1, SizesAre, WordFacts
  <1>3. LookupInv
    <2>1. /\ cached = NothingCached /\ asked.sample = 0 /\ asked.time = 0
      BY DEF Init
    <2> QED
      BY <1>2, <2>1 DEF LookupInv, Truthful
  <1>4. CopyInv
    <2>1. chunk = 1 /\ copied = 0 /\ track.chunks \in Nat
      BY <1>1, RunsTyped DEF Init
    <2>2. SamplesUpTo[0] = 0
      BY <2>1 DEF SamplesUpTo
    <2> QED
      BY <1>2, <2>1, <2>2 DEF CopyInv
  <1>5. WindowInv
    <2>1. /\ window.sid = 1 /\ window.start = 1 /\ window.from = 0
          /\ window.bytes = 0 /\ window.lastTime = 0 /\ window.lastSize = 0
          /\ window.max = 0
          /\ window = [sid |-> window.sid, start |-> window.start, from |-> window.from,
                       bytes |-> window.bytes, lastTime |-> window.lastTime,
                       lastSize |-> window.lastSize, max |-> window.max]
      BY DEF Init
    <2>2. 0 % Word = 0 /\ 0 \in Words
      <3>1. 0 \in -Word .. Word - 1 /\ ~ (0 < 0)
        BY <1>2
      <3> QED
        BY <1>2, <3>1, ModOf DEF Words
    <2> QED
      BY <1>2, <2>1, <2>2 DEF WindowInv
  <1>6. Len(recorded) <= 1 /\ pc \in {"copy", "copied", "close", "closed", "failed"}
    BY DEF Init
  <1> QED
    BY <1>1, <1>3, <1>4, <1>5, <1>6 DEF Inv

LEMMA CopyChunkKeeps ==
    ASSUME Inv, CopyChunk
    PROVE  Inv'
  <1> DEFINE f == FirstSampleInChunk(chunk)
             l == LastSampleInChunk(chunk)
             s == stsc[StscIndex(chunk)].samples
             next == chunk + 1
  <1>1. /\ track \in Tracks /\ track' = track /\ chunk \in 1 .. track.chunks
        /\ chunk' = next /\ copied' = copied + ChunkSize(chunk)
        /\ UNCHANGED <<window, recorded, pc>>
    BY RunsTyped DEF Inv, CopyInv, CopyChunk
  <1>2. /\ Samples \in Nat /\ track.chunks \in Nat
        /\ \A k \in 0 .. Samples : SizesTo(k) \in Nat
    BY <1>1, SizesAre, RunsTyped
  <1>3. /\ f \in Int /\ s \in Nat /\ l = f + s - 1 /\ SamplesUpTo[chunk - 1] = f - 1
    BY <1>1, ChunksAdjoin
  <1>4. InTable(cached, f) /\ l <= Samples
    BY DEF CopyChunk, Complete
  <1>5. f \in 1 .. Samples + 1 /\ l \in f - 1 .. Samples /\ f \in Nat \ {0}
    <2>1. SamplesUpTo[chunk - 1] \in 0 .. Samples
      BY DEF Inv, CopyInv
    <2> HIDE DEF f, l, s
    <2> QED
      BY <1>2, <1>3, <1>4, <2>1
  <1>6. TotalOf(SubSeq(sizes, f, l)) = SizesTo(l) - SizesTo(f - 1)
    BY <1>1, <1>5, SizeOfPart
  <1>7. Ask(Found(cached, f), f)
    BY DEF CopyChunk
  <1>8. ChunkSize(chunk) = TotalOf(SubSeq(sizes, f, l)) % Word
    BY DEF ChunkSize, sizes
  <1>9. next \in 1 .. track.chunks + 1 /\ next - 1 = chunk
    BY <1>1, <1>2
  <1>10. SamplesUpTo[chunk] = l
    BY <1>1 DEF SamplesUpTo
  <1>11. ChunksFit => TotalOf(SubSeq(sizes, f, l)) < Word
    BY <1>1 DEF ChunksFit
  <1>12. /\ CopyInv /\ LookupInv /\ WindowInv /\ Truthful(cached)
         /\ Len(recorded) <= 1
         /\ pc \in {"copy", "copied", "close", "closed", "failed"}
    BY DEF Inv, LookupInv
  <1> HIDE DEF f, l, s
  <1>13. LookupInv'
    <2>1. Right(Found(cached, f), f)
      BY <1>1, <1>4, <1>5, <1>12, FindsEntry
    <2> QED
      BY <1>1, <1>5, <1>7, <2>1, AskKeeps
  <1>14. SizesTo(l) \in Nat /\ SizesTo(f - 1) \in Nat /\ SizesTo(f - 1) <= SizesTo(l)
    <2>1. f - 1 \in 0 .. Samples /\ l \in 0 .. Samples
      BY <1>2, <1>5
    <2>2. SizesTo(f - 1) <= SizesTo(l)
      BY <1>1, <1>5, <2>1, TrackTables, SizesAre, SumsGrow DEF SizesTo
    <2> QED
      BY <1>2, <2>1, <2>2
  <1>15. CopyInv'
    <2>1. sizes' = sizes /\ Samples' = Samples /\ SamplesUpTo' = SamplesUpTo
      BY <1>1, TrackKept
    <2>2. ChunksFit' = ChunksFit
      BY <1>1 DEF ChunksFit, sizes, FirstSampleInChunk, LastSampleInChunk, StscIndex,
                  FirstSample
    <2>3. copied \in Nat /\ (ChunksFit => copied = SizesTo(f - 1))
      BY <1>3, <1>12 DEF CopyInv
    <2> DEFINE d == SizesTo(l) - SizesTo(f - 1)
    <2>0. d \in Nat
      BY <1>14
    <2>4. d \in Nat /\ (d % Word) \in Nat
      <3> HIDE DEF d
      <3> QED
        BY <2>0, WordFacts
    <2>5. d < Word => (d % Word) = d
      <3> HIDE DEF d
      <3>1. d < Word => d \in -Word .. Word - 1 /\ ~ (d < 0)
        BY <2>4, WordFacts
      <3> QED
        BY <3>1, WordFacts, ModOf
    <2>6. copied' = copied + (d % Word)
      BY <1>1, <1>6, <1>8, Zenon
    <2>7. ChunksFit => copied' = SizesTo(l)
      <3>1. ChunksFit => copied' = SizesTo(f - 1) + d
        BY <1>6, <1>11, <2>3, <2>5, <2>6
      <3> QED
        BY <1>14, <3>1
    <2>8. copied' \in Nat
      <3> HIDE DEF d
      <3> QED
        BY <2>3, <2>4, <2>6
    <2>9. SamplesUpTo[chunk' - 1] = l /\ l \in 0 .. Samples
      BY <1>1, <1>2, <1>5, <1>9, <1>10
    <2>10. chunk' \in 1 .. track'.chunks + 1
      BY <1>1, <1>9
    <2> HIDE DEF next
    <2> QED
      BY <2>1, <2>2, <2>7, <2>8, <2>9, <2>10 DEF CopyInv, SizesTo
  <1>16. WindowInv'
    BY <1>1, <1>12, WindowUnchanged
  <1> QED
    BY <1>1, <1>12, <1>13, <1>15, <1>16 DEF Inv

\* the next sample joins the window
LEMMA BytesGrow ==
    ASSUME track \in Tracks, NEW s \in 1 .. Samples, NEW i \in 1 .. s,
           NEW b, b = (SizesTo(s - 1) - SizesTo(i - 1)) % Word
    PROVE  (b + sizes[s]) % Word = (SizesTo(s) - SizesTo(i - 1)) % Word
  <1> DEFINE x == SizesTo(s - 1)
             y == SizesTo(i - 1)
             z == sizes[s]
  <1>1. x \in Int /\ y \in Int /\ z \in Int /\ SizesTo(s) = x + z /\ Word \in Nat \ {0}
    <2>1. /\ Samples \in Nat /\ \A k \in 0 .. Samples : SizesTo(k) \in Nat
          /\ SizesTo(s) = x + z /\ z \in Words
      BY SizesAre
    <2>2. s - 1 \in 0 .. Samples /\ i - 1 \in 0 .. Samples
      BY <2>1
    <2>3. x \in Nat /\ y \in Nat
      BY <2>1, <2>2
    <2>4. Word \in Nat \ {0} /\ z \in Nat
      BY <2>1, WordFacts DEF Words
    <2> QED
      BY <2>1, <2>3, <2>4
  <1>2. b = (x - y) % Word
    OBVIOUS
  <1> HIDE DEF x, y, z
  <1>3. x - y \in Int /\ (x - y) + z = (x + z) - y
    BY <1>1
  <1>4. (((x - y) % Word) + z) % Word = ((x - y) + z) % Word
    BY <1>1, <1>3, ModAdd
  <1> QED
    BY <1>1, <1>2, <1>3, <1>4 DEF y, z

\* a sample of the window: its entry and its time
LEMMA SlidingFinds ==
    ASSUME Inv, Sliding
    PROVE  /\ ThisSample \in 1 .. Samples /\ Samples \in Nat
           /\ Right(ThisEntry, ThisSample) /\ Entered(ThisEntry)
           /\ Truthful(ThisEntry)
           /\ ThisTime \in Nat
  <1>1. /\ track \in Tracks /\ Truthful(cached) /\ window.sid \in 1 .. Samples + 1
        /\ window.sid <= Samples /\ InTable(cached, window.sid)
    BY DEF Inv, LookupInv, WindowInv, Sliding, ThisSample
  <1>2. Samples \in Nat
    BY <1>1, SizesAre
  <1>3. window.sid \in 1 .. Samples /\ window.sid \in Nat \ {0}
    BY <1>1, <1>2
  <1>4. Right(ThisEntry, window.sid)
    BY <1>1, <1>3, FindsEntry DEF ThisEntry, ThisSample
  <1>5. Entered(ThisEntry)
    BY <1>4 DEF Right
  <1>6. Time(ThisEntry, window.sid) \in Nat
    BY <1>1, <1>3, <1>5, TimeTyped
  <1> QED
    BY <1>2, <1>3, <1>4, <1>5, <1>6 DEF Truthful, ThisTime, ThisSample

LEMMA TakeSampleKeeps ==
    ASSUME Inv, TakeSample
    PROVE  Inv'
  <1> DEFINE s == window.sid
             z == track.sizes[s]
  <1>1. /\ track \in Tracks /\ track' = track /\ UNCHANGED <<chunk, copied, recorded, pc>>
        /\ CopyInv /\ LookupInv /\ WindowInv /\ Len(recorded) <= 1
        /\ pc \in {"copy", "copied", "close", "closed", "failed"} /\ Sliding
        /\ Ask(ThisEntry, s)
    BY DEF Inv, TakeSample, ThisSample
  <1>2. /\ s \in 1 .. Samples /\ Samples \in Nat /\ Right(ThisEntry, s) /\ ThisTime \in Nat
    BY <1>1, SlidingFinds DEF ThisSample
  <1>3. LookupInv'
    <2>1. s \in 1 .. Samples + 1
      BY <1>2
    <2> HIDE DEF s
    <2> QED
      BY <1>1, <1>2, <2>1, AskKeeps
  <1>4. CopyInv'
    BY <1>1, CopyUnchanged
  <1>5. WindowInv'
    <2>1. sizes' = sizes /\ Samples' = Samples
      BY <1>1, TrackKept
    <2>2. /\ window'.sid = s + 1 /\ window'.start = window.start
          /\ window'.from = window.from /\ window'.lastTime = ThisTime
          /\ window'.lastSize = z /\ window'.max = window.max
          /\ window'.bytes = (window.bytes + z) % Word
          /\ window' = [sid |-> window'.sid, start |-> window'.start, from |-> window'.from,
                        bytes |-> window'.bytes, lastTime |-> window'.lastTime,
                        lastSize |-> window'.lastSize, max |-> window'.max]
      <3>1. window' = [window EXCEPT !.sid = @ + 1, !.bytes = (@ + z) % Word,
                                     !.lastTime = ThisTime, !.lastSize = z]
        BY DEF TakeSample, ThisSample
      <3>2. window = [sid |-> window.sid, start |-> window.start, from |-> window.from,
                      bytes |-> window.bytes, lastTime |-> window.lastTime,
                      lastSize |-> window.lastSize, max |-> window.max]
        BY <1>1 DEF WindowInv
      <3> QED
        BY <3>1, <3>2
    <2>3. /\ s \in 1 .. Samples + 1 /\ window.start \in 1 .. s
          /\ s + 1 \in 1 .. Samples + 1 /\ window.start \in 1 .. s + 1
          /\ (s + 1) - 1 = s
          /\ window.from \in Nat /\ window.max \in Words
      <3>1. window.start \in 1 .. s /\ window.from \in Nat /\ window.max \in Words
        BY <1>1 DEF WindowInv
      <3> HIDE DEF s
      <3> QED
        BY <1>2, <3>1
    <2>4. z \in Words
      BY <1>1, <1>2, SizesAre DEF sizes
    <2>5. window'.bytes = (SizesTo(s) - SizesTo(window.start - 1)) % Word
      BY <1>1, <1>2, <2>2, <2>3, BytesGrow DEF WindowInv, sizes
    <2> HIDE DEF s, z
    <2> QED
      BY <1>2, <2>1, <2>2, <2>3, <2>4, <2>5 DEF WindowInv, SizesTo
  <1> QED
    BY <1>1, <1>3, <1>4, <1>5 DEF Inv

\* the first sample of the window leaves it as the next sample joins
LEMMA BytesSlide ==
    ASSUME track \in Tracks, NEW s \in 1 .. Samples, NEW i \in 1 .. s,
           NEW b, b = (SizesTo(s - 1) - SizesTo(i - 1)) % Word
    PROVE  (b + sizes[s] - sizes[i]) % Word = (SizesTo(s) - SizesTo(i)) % Word
  <1> DEFINE x == SizesTo(s - 1)
             y == SizesTo(i - 1)
             z == sizes[s]
             w == sizes[i]
  <1>1. /\ x \in Int /\ y \in Int /\ z \in Int /\ w \in Int
        /\ SizesTo(s) = x + z /\ SizesTo(i) = y + w /\ Word \in Nat \ {0}
    <2>1. /\ Samples \in Nat /\ \A k \in 0 .. Samples : SizesTo(k) \in Nat
          /\ \A k \in 1 .. Samples : /\ sizes[k] \in Words
                                     /\ SizesTo(k) = SizesTo(k - 1) + sizes[k]
      BY SizesAre
    <2>2. s - 1 \in 0 .. Samples /\ i - 1 \in 0 .. Samples /\ i \in 1 .. Samples
      BY <2>1
    <2>3. x \in Nat /\ y \in Nat
      BY <2>1, <2>2
    <2>4. Word \in Nat \ {0} /\ z \in Nat /\ w \in Nat
      BY <2>1, <2>2, WordFacts DEF Words
    <2>5. SizesTo(s) = x + z /\ SizesTo(i) = y + w
      BY <2>1, <2>2
    <2> QED
      BY <2>3, <2>4, <2>5
  <1>2. b = (x - y) % Word
    OBVIOUS
  <1> HIDE DEF x, y, z, w
  <1>3. x - y \in Int /\ z - w \in Int /\ (x - y) + (z - w) = (x + z) - (y + w)
    BY <1>1
  <1>4. (((x - y) % Word) + (z - w)) % Word = ((x - y) + (z - w)) % Word
    BY <1>1, <1>3, ModAdd
  <1>5. b + z - w = ((x - y) % Word) + (z - w)
    <2> DEFINE r == (x - y) % Word
    <2>1. r \in Int /\ b = r
      BY <1>1, <1>2, <1>3
    <2> HIDE DEF r
    <2>2. b + z - w = r + (z - w)
      BY <1>1, <2>1
    <2> QED
      BY <2>2 DEF r
  <1> QED
    BY <1>1, <1>3, <1>4, <1>5 DEF z, w

\* what is counted of a second is a word
LEMMA CountedTyped ==
    ASSUME WindowInv, track \in Tracks, ThisTime \in Nat
    PROVE  Counted \in Words
  <1>1. Word \in Nat \ {0} /\ 0 \in Words
    BY WordFacts DEF Words
  <1>2. /\ window.lastTime \in Nat /\ window.from \in Nat /\ track.scale \in Nat
        /\ window.lastSize \in Nat
    <2>1. window.lastTime \in Nat /\ window.from \in Nat /\ window.lastSize \in Words
      BY DEF WindowInv
    <2>2. track.scale \in Nat
      BY TrackTables
    <2>3. window.lastSize \in Nat
      BY <1>1, <2>1 DEF Words
    <2> QED
      BY <2>1, <2>2, <2>3
  <1>3. LongWord \in Nat \ {0}
    <2> DEFINE W == Word
    <2>1. W \in Nat \ {0}
      BY <1>1
    <2> HIDE DEF W
    <2>2. W * W \in Nat \ {0}
      BY <2>1
    <2> QED
      BY <2>2 DEF LongWord, W
  <1>4. window.bytes \in Int
    <2> DEFINE i == window.start - 1
               j == window.sid - 1
    <2>1. window.bytes = (SizesTo(j) - SizesTo(i)) % Word
      BY DEF WindowInv
    <2>2. Samples \in Nat /\ \A s \in 0 .. Samples : SizesTo(s) \in Nat
      BY SizesAre
    <2>3. i \in 0 .. Samples /\ j \in 0 .. Samples
      BY <2>2 DEF WindowInv
    <2> HIDE DEF i, j
    <2>4. SizesTo(j) - SizesTo(i) \in Int
      BY <2>2, <2>3
    <2> DEFINE d == SizesTo(j) - SizesTo(i)
    <2> HIDE DEF d
    <2> QED
      BY <1>1, <2>1, <2>4, ModBounds DEF d
  <1>5. CASE ThisTime > window.lastTime
    <2> DEFINE lasts == ThisTime - window.lastTime
               time == (window.from + track.scale - window.lastTime) % LongWord
               share == (window.lastSize * time + lasts - 1) % LongWord
    <2>1. lasts \in Nat \ {0}
      BY <1>2, <1>5
    <2>2. time \in Int
      BY <1>2, <1>3
    <2> HIDE DEF lasts, time
    <2>3. share \in Int
      <3> DEFINE product == window.lastSize * time
      <3>1. product \in Int
        BY <1>2, <2>2
      <3> HIDE DEF product
      <3> QED
        BY <1>3, <2>1, <3>1 DEF product
    <2> HIDE DEF share
    <2>4. Overflow = (share \div lasts) % Word
      BY Zenon DEF Overflow, share, lasts, time
    <2> DEFINE parts == share \div lasts
    <2>5. parts \in Int
      BY <2>1, <2>3
    <2> HIDE DEF parts
    <2>6. Overflow \in Int
      BY <1>1, <2>4, <2>5 DEF parts
    <2>7. Counted = (window.bytes - Overflow) % Word
      BY <1>5 DEF Counted
    <2>8. window.bytes - Overflow \in Int
      BY <1>4, <2>6
    <2> DEFINE d == window.bytes - Overflow
    <2> HIDE DEF d
    <2>9. d % Word \in 0 .. Word - 1
      BY <1>1, <2>8, ModBounds DEF d
    <2> QED
      BY <2>7, <2>9 DEF Words, d
  <1>6. CASE ~ (ThisTime > window.lastTime)
    BY <1>1, <1>6 DEF Counted
  <1> QED
    BY <1>5, <1>6

LEMMA SlideWindowKeeps ==
    ASSUME Inv, SlideWindow
    PROVE  Inv'
  <1> DEFINE s == window.sid
             i == window.start
             z == track.sizes[s]
             next == i + 1
             entry == Found(ThisEntry, next)
  <1>1. /\ track \in Tracks /\ track' = track /\ UNCHANGED <<chunk, copied, recorded, pc>>
        /\ CopyInv /\ LookupInv /\ WindowInv /\ Len(recorded) <= 1
        /\ pc \in {"copy", "copied", "close", "closed", "failed"} /\ Sliding
        /\ ~ InSecond /\ InTable(ThisEntry, next) /\ Ask(entry, next)
    BY DEF Inv, SlideWindow
  <1>2. s \in 1 .. Samples /\ Samples \in Nat /\ Truthful(ThisEntry) /\ ThisTime \in Nat
    BY <1>1, SlidingFinds DEF ThisSample
  <1>3. i \in 1 .. s
    BY <1>1 DEF WindowInv
  <1>4. next \in Nat \ {0} /\ next \in 1 .. Samples + 1
    BY <1>2, <1>3
  <1>5. Right(entry, next)
    BY <1>1, <1>2, <1>4, FindsEntry
  <1>6. LookupInv'
    <2> HIDE DEF next, entry
    <2> QED
      BY <1>1, <1>4, <1>5, AskKeeps
  <1>7. CopyInv'
    BY <1>1, CopyUnchanged
  <1>8. WindowInv'
    <2>1. sizes' = sizes /\ Samples' = Samples
      BY <1>1, TrackKept
    <2> DEFINE most == Max({window.max, Counted})
    <2>2. window' = [sid |-> s + 1, start |-> next, from |-> Time(entry, next),
                     bytes |-> (window.bytes + z - track.sizes[i]) % Word,
                     lastTime |-> ThisTime, lastSize |-> z, max |-> most]
      BY DEF SlideWindow, ThisSample, Dropped
    <2>3. Time(entry, next) \in Nat
      BY <1>1, <1>4, <1>5, TimeTyped DEF Right
    <2>4. z \in Words
      BY <1>1, <1>2, SizesAre DEF sizes
    <2>5. (window.bytes + z - track.sizes[i]) % Word = (SizesTo(s) - SizesTo(i)) % Word
      BY <1>1, <1>2, <1>3, BytesSlide DEF WindowInv, sizes
    <2>6. most \in Words
      <3>1. Counted \in Words /\ window.max \in Words
        BY <1>1, <1>2, CountedTyped DEF WindowInv
      <3>2. Words \subseteq Int
        BY WordFacts DEF Words
      <3> DEFINE a == window.max
                 b == Counted
      <3> HIDE DEF a, b
      <3>3. a \in Int /\ b \in Int /\ {a, b} \in SUBSET Int /\ {a, b} # {}
        BY <3>1, <3>2 DEF a, b
      <3>4. PICK n \in {a, b} : \A x \in {a, b} : x <= n
        BY <3>3
      <3>5. Max({a, b}) = n
        BY <3>3, <3>4, MaxIs
      <3> QED
        BY <3>1, <3>4, <3>5 DEF a, b
    <2>7. /\ s + 1 \in 1 .. Samples + 1 /\ next \in 1 .. s + 1
          /\ (s + 1) - 1 = s /\ next - 1 = i
      BY <1>2, <1>3
    <2> HIDE DEF s, z, most, next, entry
    <2> QED
      BY <1>2, <2>1, <2>2, <2>3, <2>4, <2>5, <2>6, <2>7 DEF WindowInv, SizesTo
  <1> QED
    BY <1>1, <1>6, <1>7, <1>8 DEF Inv

LEMMA OthersKeep ==
    ASSUME Inv, CopyFails \/ CopyEnds \/ CloseFails \/ Record \/ UNCHANGED vars
    PROVE  Inv'
  <1>1. /\ UNCHANGED <<track, cached, asked, chunk, copied, window>>
        /\ Len(recorded') <= 1
        /\ pc' \in {"copy", "copied", "close", "closed", "failed"}
    <2>1. /\ Len(recorded) <= 1
          /\ pc \in {"copy", "copied", "close", "closed", "failed"}
      BY DEF Inv
    <2>2. CASE CopyFails \/ CopyEnds \/ CloseFails
      BY <2>1, <2>2 DEF CopyFails, CopyEnds, CloseFails
    <2>3. CASE Record
      <3>1. PICK r : recorded' = <<r>>
        BY <2>3, Zenon DEF Record
      <3>2. Len(recorded') = 1
        BY <3>1
      <3> QED
        BY <2>3, <3>2 DEF Record
    <2>4. CASE UNCHANGED vars
      BY <2>1, <2>4 DEF vars
    <2> QED
      BY <2>2, <2>3, <2>4
  <1>2. track \in Tracks /\ LookupInv /\ CopyInv /\ WindowInv
    BY DEF Inv
  <1>3. LookupInv' /\ CopyInv' /\ WindowInv'
    BY <1>1, <1>2, LookupUnchanged, CopyUnchanged, WindowUnchanged
  <1> QED
    BY <1>1, <1>2, <1>3 DEF Inv

\* The cache tells true times, the chunks copied are the first samples, and the
\* window of GetMaxBitrate is as it should be: what the properties follow from.
THEOREM LookupInvariance == Spec => []Inv
  <1>1. Init => Inv
    BY Initially
  <1>2. Inv /\ [Next]_vars => Inv'
    BY CopyChunkKeeps, TakeSampleKeeps, SlideWindowKeeps, OthersKeep DEF Next
  <1> QED
    BY <1>1, <1>2, PTL DEF Spec

-----------------------------------------------------------------------------
LEMMA InvTypes ==
    ASSUME Inv
    PROVE  TypeOK
  <1>1. /\ track \in Tracks /\ LookupInv /\ CopyInv /\ WindowInv /\ Len(recorded) <= 1
        /\ pc \in {"copy", "copied", "close", "closed", "failed"}
    BY DEF Inv
  <1>2. \/ cached = NothingCached
        \/ /\ cached.index \in DOMAIN track.stts
           /\ cached.sid \in Words /\ cached.elapsed \in Nat
    <2>1. CASE cached # NothingCached
      <3>1. PICK e \in 1 .. Len(stts) : cached = EntryAt(e)
        BY <1>1, <2>1 DEF LookupInv, Truthful, Entered
      <3>2. /\ cached.index = e /\ cached.sid = (1 + SamplesTo(e - 1)) % Word
            /\ cached.elapsed = TimeTo(e - 1)
        BY <3>1 DEF EntryAt
      <3>3. stts \in Table(Nat) /\ Len(stts) \in Nat
        BY <1>1, TrackTables
      <3>4. e - 1 \in 0 .. Len(stts)
        BY <3>3
      <3>5. SamplesTo(e - 1) \in Nat /\ TimeTo(e - 1) \in Nat
        BY <1>1, <3>4, Totals
      <3>6. cached.sid \in Words
        <4> DEFINE x == 1 + SamplesTo(e - 1)
        <4>1. x \in Int
          BY <3>5
        <4>2. cached.sid = x % Word
          BY <3>2
        <4> HIDE DEF x
        <4> QED
          BY <4>1, <4>2, WordFacts, ModBounds DEF Words
      <3>7. DOMAIN track.stts = 1 .. Len(stts)
        BY <3>3 DEF Table, stts
      <3> QED
        BY <3>2, <3>3, <3>5, <3>6, <3>7
    <2> QED
      BY <2>1
  <1>3. window.bytes \in Words
    <2> DEFINE i == window.start - 1
               j == window.sid - 1
               d == SizesTo(j) - SizesTo(i)
    <2>1. window.bytes = d % Word
      BY <1>1 DEF WindowInv
    <2>2. Samples \in Nat /\ \A s \in 0 .. Samples : SizesTo(s) \in Nat
      BY <1>1, SizesAre
    <2>3. i \in 0 .. Samples /\ j \in 0 .. Samples
      BY <1>1, <2>2 DEF WindowInv
    <2> HIDE DEF i, j
    <2>4. d \in Int
      BY <2>2, <2>3
    <2> HIDE DEF d
    <2> QED
      BY <2>1, <2>4, WordFacts, ModBounds DEF Words
  <1> QED
    BY <1>1, <1>2, <1>3 DEF TypeOK, LookupInv, CopyInv, WindowInv, Words

\* Every value of the look-up is in its range, in tables of any length.
THEOREM LookupTypes == Spec => []TypeOK
  BY LookupInvariance, InvTypes, PTL

\* Whatever was asked for before, the time told of a sample is the sum of the
\* durations before it, if a word counts the samples of stts: the entry cached
\* last never misleads a later search.
THEOREM TimesTold == Spec => []TimesAsStored
  <1>1. Inv => TimesAsStored
    BY DEF Inv, LookupInv, TimesAsStored, stts
  <1> QED
    BY <1>1, LookupInvariance, PTL

LEMMA InvWindow ==
    ASSUME Inv
    PROVE  WindowBytes
  <1> DEFINE i == window.start
             j == window.sid - 1
  <1>1. track \in Tracks /\ WindowInv
    BY DEF Inv
  <1>2. Samples \in Nat
    BY <1>1, SizesAre
  <1>3. i \in 1 .. Samples + 1 /\ j \in i - 1 .. Samples
    BY <1>1, <1>2 DEF WindowInv
  <1>4. window.bytes = (SizesTo(j) - SizesTo(i - 1)) % Word
    BY <1>1 DEF WindowInv
  <1> HIDE DEF i, j
  <1>5. TotalOf(SubSeq(sizes, i, j)) = SizesTo(j) - SizesTo(i - 1)
    BY <1>1, <1>3, SizeOfPart
  <1> QED
    BY <1>4, <1>5, Zenon DEF WindowBytes, sizes, i, j

\* However often GetMaxBitrate moves its window, the bytes it keeps are those
\* of the samples in the window, modulo the width of the counter.
THEOREM WindowSumKept == Spec => []WindowBytes
  BY LookupInvariance, InvWindow, PTL

LEMMA InvCopied ==
    ASSUME Inv, ChunksFit
    PROVE  EverySampleCopied
  <1> DEFINE c == chunk - 1
             s == SamplesUpTo[c]
             End(i) == IF i = Len(track.stsc) THEN track.chunks + 1
                       ELSE track.stsc[i + 1].firstChunk
             counts == FlattenSeq([i \in DOMAIN track.stsc |->
                          [k \in 1 .. End(i) - track.stsc[i].firstChunk |->
                             track.stsc[i].samples]])
  <1>1. /\ track \in Tracks /\ chunk \in 1 .. track.chunks + 1 /\ s \in 0 .. Samples
        /\ copied = SizesTo(s)
    BY DEF Inv, CopyInv
  <1>2. track.chunks \in Nat /\ Samples \in Nat /\ SizesTo(0) = 0 /\ SizesTo(s) \in Nat
    BY <1>1, SizesAre, RunsTyped
  <1>3. ChunkCounts = counts
    <2>1. \A i : RunEnd(i) = End(i)
      BY DEF RunEnd, Begins, stsc
    <2> HIDE DEF End
    <2> QED
      BY <2>1, Zenon DEF ChunkCounts
  <1> HIDE DEF counts
  <1>4. /\ ChunkCounts \in Seq(Nat) /\ Len(ChunkCounts) = track.chunks
        /\ SumsOf(SamplesUpTo, ChunkCounts)
    BY <1>1, CountsOfChunks, ChunkSums
  <1>5. TotalOf(SubSeq(ChunkCounts, 1, c)) = s
    <2>1. /\ ChunkCounts \in Seq(Int) /\ 1 \in 1 .. Len(ChunkCounts) + 1
          /\ c \in 1 - 1 .. Len(ChunkCounts)
      BY <1>1, <1>2, <1>4
    <2> HIDE DEF c
    <2>2. SumOf(SubSeq(ChunkCounts, 1, c)) = SamplesUpTo[c] - SamplesUpTo[1 - 1]
      BY <1>4, <2>1, SumOfPart
    <2>3. SamplesUpTo[1 - 1] = 0
      BY <1>4 DEF SumsOf
    <2>4. TotalOf(SubSeq(ChunkCounts, 1, c)) = SumOf(SubSeq(ChunkCounts, 1, c))
      BY Zenon DEF TotalOf, SumOf
    <2> QED
      BY <1>1, <2>2, <2>3, <2>4
  <1> HIDE DEF s
  <1>6. TotalOf(SubSeq(sizes, 1, s)) = SizesTo(s)
    <2>1. 1 \in 1 .. Samples + 1 /\ s \in 1 - 1 .. Samples /\ 1 - 1 = 0
      BY <1>1, <1>2
    <2>2. TotalOf(SubSeq(sizes, 1, s)) = SizesTo(s) - SizesTo(1 - 1)
      BY <1>1, <2>1, SizeOfPart
    <2> QED
      BY <1>2, <2>1, <2>2
  <1> QED
    BY <1>1, <1>3, <1>5, <1>6, Zenon DEF EverySampleCopied, sizes, c, counts

\* In a movie whose chunks are each smaller than the word their size is counted
\* in, the chunks that are copied one after the other hold every sample of the
\* track once, whatever runs of chunks stsc is made of.
THEOREM ChunksCoverSamples == Spec => [](ChunksFit => EverySampleCopied)
  <1>1. Inv => (ChunksFit => EverySampleCopied)
    BY InvCopied
  <1> QED
    BY <1>1, LookupInvariance, PTL

-----------------------------------------------------------------------------
(* GetMaxBitrate when all samples last equally long *)

Lasts == stts[1].value

Steady == Len(stts) = 1 /\ Lasts > 0

\* as many samples start in a second
PerSecond == (track.scale + Lasts - 1) \div Lasts

\* the size of the samples of a second
SecondSize(i) == SizesTo(i + PerSecond - 1) - SizesTo(i - 1)

\* the samples of no second are too large for the rate in bits to be recorded
SecondsFit ==
    Steady => \A i \in 1 .. Samples - PerSecond :
                 8 * TotalOf(SubSeq(sizes, i, i + PerSecond - 1)) < Word

LEMMA SteadyFacts ==
    ASSUME track \in Tracks, Steady
    PROVE  /\ Lasts \in Nat \ {0} /\ Lasts < Word
           /\ track.scale \in Nat \ {0} /\ PerSecond \in Nat \ {0}
           /\ (PerSecond - 1) * Lasts < track.scale
           /\ track.scale <= PerSecond * Lasts
  <1>1. /\ stts # <<>> /\ stts \in Seq([count : Words, value : Words])
        /\ track.scale \in Nat \ {0}
    BY TracksAssumption DEF stts, Words
  <1>2. stts[1] \in [count : Words, value : Words]
    <2> DEFINE R == [count : Words, value : Words]
    <2>1. 1 \in 1 .. Len(stts)
      BY DEF Steady
    <2>2. stts \in Seq(R)
      BY <1>1
    <2> HIDE DEF R
    <2>3. stts[1] \in R
      BY <2>1, <2>2
    <2> QED
      BY <2>3 DEF R
  <1>3. Lasts \in Words /\ Word \in Nat \ {0}
    BY <1>2, WordFacts DEF Lasts
  <1>4. Lasts \in Nat \ {0} /\ Lasts < Word
    BY <1>3 DEF Steady, Words
  <1> DEFINE a == track.scale
             b == Lasts
             x == a + b - 1
             n == PerSecond
  <1>5. a \in Nat \ {0} /\ b \in Nat \ {0} /\ x \in Nat
    BY <1>1, <1>4
  <1>6. n = x \div b
    BY DEF PerSecond
  <1> HIDE DEF a, b, n
  <1>7. n \in Int /\ b * n <= x /\ x < b * n + b
    <2> HIDE DEF x
    <2> QED
      BY <1>5, <1>6
  <1>8. (n - 1) * b < a /\ a <= n * b
    <2>1. b * n = n * b /\ (n - 1) * b = n * b - b
      BY <1>5, <1>7
    <2>2. n * b \in Int
      BY <1>5, <1>7
    <2> DEFINE p == n * b
    <2> HIDE DEF p
    <2> QED
      BY <1>5, <1>7, <2>1, <2>2 DEF p
  <1>9. n > 0
    <2> SUFFICES ASSUME n <= 0 PROVE FALSE
      BY <1>7
    <2>1. n * b <= 0 /\ n * b \in Int
      BY <1>5, <1>7
    <2> DEFINE p == n * b
    <2>2. p <= 0 /\ p \in Int /\ a <= p
      BY <1>8, <2>1
    <2> HIDE DEF p
    <2> QED
      BY <1>5, <2>2
  <1> QED
    BY <1>1, <1>4, <1>7, <1>8, <1>9 DEF n, a, b

\* the samples of a second are counted by their number
LEMMA InSecondIs ==
    ASSUME track \in Tracks, Steady, NEW k \in Int
    PROVE  k * Lasts < track.scale <=> k < PerSecond
  <1> DEFINE n == PerSecond
             b == Lasts
             a == track.scale
  <1>1. /\ b \in Nat \ {0} /\ a \in Nat /\ n \in Nat
        /\ (n - 1) * b < a /\ a <= n * b
    BY SteadyFacts
  <1> HIDE DEF n, b, a
  <1>2. CASE k < n
    <2>1. k <= n - 1
      BY <1>1, <1>2
    <2>2. k * b <= (n - 1) * b
      BY <1>1, <2>1
    <2> DEFINE p == (n - 1) * b
               q == k * b
    <2>3. p \in Int /\ q \in Int
      BY <1>1
    <2> HIDE DEF p, q
    <2> QED
      BY <1>1, <1>2, <2>2, <2>3 DEF n, b, a, p, q
  <1>3. CASE ~ (k < n)
    <2>1. n <= k
      BY <1>1, <1>3
    <2>2. n * b <= k * b
      BY <1>1, <2>1
    <2> DEFINE p == n * b
               q == k * b
    <2>3. p \in Int /\ q \in Int
      BY <1>1
    <2> HIDE DEF p, q
    <2>4. ~ (q < a)
      BY <1>1, <2>2, <2>3 DEF p, q
    <2> QED
      BY <1>3, <2>4 DEF n, b, a, q
  <1> QED
    BY <1>2, <1>3

\* the time of a sample
LEMMA SteadyTime ==
    ASSUME track \in Tracks, Steady, NEW s \in 1 .. Samples + 1,
           NEW entry, Entered(entry)
    PROVE  Time(entry, s) = (s - 1) * Lasts
  <1>1. PICK e \in 1 .. Len(stts) : entry = EntryAt(e)
    BY DEF Entered
  <1>2. e = 1
    BY <1>1 DEF Steady
  <1>3. SamplesTo(0) = 0 /\ TimeTo(0) = 0 /\ Lasts \in Nat
    BY Totals, SteadyFacts
  <1>4. entry.index = 1 /\ entry.sid = 1 /\ entry.elapsed = 0
    <2>1. entry = [index |-> 1, sid |-> (1 + SamplesTo(1 - 1)) % Word,
                   elapsed |-> TimeTo(1 - 1)]
      BY <1>1, <1>2 DEF EntryAt
    <2>2. 1 - 1 = 0 /\ 1 + 0 = 1
      OBVIOUS
    <2>3. 1 % Word = 1
      BY SizesCounted, ModSmall
    <2> QED
      BY <1>3, <2>1, <2>2, <2>3
  <1>5. s - 1 \in Nat /\ s - 1 < Word
    BY SizesCounted
  <1>6. (s - 1) % Word = s - 1
    <2> DEFINE j == s - 1
    <2>1. j \in Nat /\ j < Word
      BY <1>5
    <2> HIDE DEF j
    <2>2. j % Word = j
      BY <2>1, WordFacts, ModSmall
    <2> QED
      BY <2>2 DEF j
  <1>7. Time(entry, s) = 0 + ((s - 1) % Word) * Lasts
    BY <1>4 DEF Time, Lasts, stts
  <1>8. (s - 1) * Lasts \in Int
    BY <1>3, <1>5
  <1> DEFINE p == (s - 1) * Lasts
  <1>9. Time(entry, s) = 0 + p
    BY <1>6, <1>7
  <1> HIDE DEF p
  <1> QED
    BY <1>8, <1>9 DEF p

\* the part of the last sample that does not count is at most the sample
LEMMA ShareBounded ==
    ASSUME NEW z \in Nat, z < Word, NEW d \in Nat \ {0}, d < Word, NEW t \in 1 .. d
    PROVE  (((z * t + d - 1) % LongWord) \div d) % Word \in 0 .. z
  <1> DEFINE p == z * t
             x == p + d - 1
             W == Word
             L == W * W
  <1>1. W \in Nat \ {0}
    BY WordFacts
  <1>2. p \in Nat /\ p <= z * d
    BY <1>1
  <1>3. z * d \in Nat /\ z * d <= (W - 1) * (W - 1)
    BY <1>1
  <1>4. (W - 1) * (W - 1) = L - 2 * W + 1 /\ L \in Nat
    BY <1>1
  <1> HIDE DEF p, L
  <1>5. x \in Nat /\ x < L
    <2> DEFINE q == z * d
               r == (W - 1) * (W - 1)
    <2>1. q \in Nat /\ r \in Int /\ p <= q /\ q <= r /\ r = L - 2 * W + 1
      BY <1>1, <1>2, <1>3, <1>4
    <2> HIDE DEF q, r
    <2> QED
      BY <1>1, <1>2, <1>4, <2>1
  <1>6. x % L = x
    <2>1. L \in Nat \ {0}
      BY <1>4, <1>5
    <2> HIDE DEF x
    <2> QED
      BY <1>5, <2>1, ModSmall
  <1>7. x <= z * d + d - 1
    <2> DEFINE q == z * d
    <2> HIDE DEF q
    <2> QED
      BY <1>2, <1>3 DEF q
  <1> DEFINE y == x \div d
  <1>8. y \in Int /\ d * y <= x /\ x < d * y + d
    <2> HIDE DEF x
    <2> QED
      BY <1>5
  <1> HIDE DEF x, y
  <1>9. y >= 0
    <2> SUFFICES ASSUME y <= -1 PROVE FALSE
      BY <1>8
    <2>1. d * y <= -d
      BY <1>8
    <2> DEFINE q == d * y
    <2>2. q \in Int
      BY <1>8
    <2> HIDE DEF q
    <2> QED
      BY <1>5, <1>8, <2>1, <2>2 DEF q
  <1>10. y <= z
    <2> SUFFICES ASSUME y >= z + 1 PROVE FALSE
      BY <1>8
    <2>1. d * y >= d * (z + 1) /\ d * (z + 1) = z * d + d
      BY <1>8
    <2> DEFINE q == d * y
               r == z * d
    <2>2. q \in Int /\ r \in Int
      BY <1>3, <1>8
    <2>3. q <= x /\ x <= r + d - 1 /\ q >= r + d
      BY <1>7, <1>8, <2>1
    <2> HIDE DEF q, r
    <2> QED
      BY <1>5, <2>2, <2>3
  <1>11. y % W = y
    <2> HIDE DEF W
    <2> QED
      BY <1>1, <1>8, <1>9, <1>10 DEF W
  <1>12. (((z * t + d - 1) % LongWord) \div d) % Word = ((x % L) \div d) % W
    BY DEF x, p, L, LongWord
  <1> QED
    BY <1>6, <1>8, <1>9, <1>10, <1>11, <1>12 DEF y

\* the greatest rate so far is that of a second, less a part of a sample
MaxBetween ==
    /\ window.max = 0 \/ \E i \in 1 .. window.start - 1 : window.max <= SecondSize(i)
    /\ \A i \in 1 .. window.start - 1 : SecondSize(i) - MaxSampleSize <= window.max

\* a window that has been moved holds exactly the samples of a second
SteadyWindow ==
    /\ window.from = (window.start - 1) * Lasts
    /\ window.sid > 1 => /\ window.lastTime = (window.sid - 2) * Lasts
                         /\ window.lastSize = sizes[window.sid - 1]
    /\ window.sid <= window.start + PerSecond
    /\ window.start > 1 => window.sid = window.start + PerSecond
    /\ SecondsFit => MaxBetween

RecordInv ==
    pc = "closed" => /\ window.sid = Samples + 1
                     /\ recorded[1].maxBitrate = (8 * window.max) % Word

SteadyInv == Inv /\ (Steady => SteadyWindow) /\ RecordInv

LEMMA SteadyKept ==
    ASSUME track' = track
    PROVE  /\ Lasts' = Lasts /\ Steady' = Steady /\ PerSecond' = PerSecond
           /\ SecondsFit' = SecondsFit /\ MaxSampleSize' = MaxSampleSize
           /\ \A i : SecondSize(i)' = SecondSize(i)
           /\ sizes' = sizes /\ Samples' = Samples
  <1>1. stts' = stts /\ sizes' = sizes /\ Samples' = Samples
    BY TrackKept
  <1>2. Lasts' = Lasts
    BY <1>1 DEF Lasts
  <1>3. Steady' = Steady
    BY <1>1, <1>2 DEF Steady
  <1>4. PerSecond' = PerSecond
    BY <1>2 DEF PerSecond
  <1>5. SecondsFit' = SecondsFit
    BY <1>1, <1>3, <1>4 DEF SecondsFit
  <1>6. MaxSampleSize' = MaxSampleSize
    BY DEF MaxSampleSize
  <1>7. \A i : SecondSize(i)' = SecondSize(i)
    BY <1>1, <1>4 DEF SecondSize, SizesTo
  <1> QED
    BY <1>1, <1>2, <1>3, <1>4, <1>5, <1>6, <1>7

\* no sample is larger than the largest
LEMMA LargestSample ==
    ASSUME track \in Tracks
    PROVE  /\ MaxSampleSize \in Nat
           /\ \A s \in 1 .. Samples : sizes[s] <= MaxSampleSize
  <1> DEFINE X == Range(sizes) \cup {0}
  <1>1. Samples = Len(sizes) /\ sizes \in Seq(Int) /\ \A s \in 1 .. Samples : sizes[s] \in Words
    BY SizesAre
  <1>2. Word \in Nat \ {0}
    BY WordFacts
  <1>3. \A s \in 1 .. Samples : sizes[s] \in Range(sizes)
    BY <1>1 DEF Range
  <1>4. \A x \in Range(sizes) : x \in Words
    <2> TAKE x \in Range(sizes)
    <2>1. PICK s \in DOMAIN sizes : sizes[s] = x
      BY DEF Range
    <2>2. s \in 1 .. Samples
      BY <1>1
    <2> QED
      BY <1>1, <2>1, <2>2
  <1>5. X \in SUBSET Int /\ X # {} /\ \A x \in X : x <= Word
    BY <1>2, <1>4 DEF Words
  <1>6. 0 \in X /\ \A s \in 1 .. Samples : sizes[s] \in X
    BY <1>3
  <1> HIDE DEF X
  <1>7. Max(X) \in X /\ \A x \in X : x <= Max(X)
    <2>1. Word \in Int
      BY <1>2
    <2> QED
      BY <1>5, <2>1, MaxInside
  <1>8. Max(X) \in Int /\ 0 <= Max(X)
    BY <1>5, <1>6, <1>7
  <1> QED
    BY <1>6, <1>7, <1>8 DEF MaxSampleSize, X, sizes

\* the size of the samples of a second that ends within the track
LEMMA SecondIs ==
    ASSUME track \in Tracks, Steady, NEW i \in 1 .. Samples - PerSecond
    PROVE  /\ SecondSize(i) \in Nat
           /\ SecondSize(i) = TotalOf(SubSeq(sizes, i, i + PerSecond - 1))
           /\ sizes[i + PerSecond - 1] <= SecondSize(i)
           /\ SecondsFit => 8 * SecondSize(i) < Word
  <1> DEFINE n == PerSecond
             j == i + n - 1
  <1>1. n \in Nat \ {0} /\ Samples \in Nat
    BY SteadyFacts, SizesAre
  <1> HIDE DEF n
  <1>2. i \in 1 .. Samples + 1 /\ j \in i - 1 .. Samples /\ j \in 1 .. Samples
        /\ i - 1 \in 0 .. Samples /\ j - 1 \in 0 .. Samples /\ i - 1 <= j - 1
    BY <1>1 DEF n
  <1>3. TotalOf(SubSeq(sizes, i, j)) = SizesTo(j) - SizesTo(i - 1)
    <2> HIDE DEF j
    <2> QED
      BY <1>2, SizeOfPart
  <1>4. /\ SumsOf(Sums(sizes), sizes) /\ sizes \in Seq(Nat) /\ Samples = Len(sizes)
        /\ \A s \in 0 .. Samples : SizesTo(s) \in Nat
        /\ \A s \in 1 .. Samples : sizes[s] \in Nat /\ SizesTo(s) = SizesTo(s - 1) + sizes[s]
    BY TrackTables, SizesAre DEF Words
  <1>5. SizesTo(i - 1) <= SizesTo(j - 1)
    <2> DEFINE a == i - 1
               b == j - 1
    <2>1. a \in 0 .. Len(sizes) /\ b \in a .. Len(sizes)
      BY <1>1, <1>2, <1>4
    <2> HIDE DEF a, b
    <2>2. SizesTo(a) <= SizesTo(b)
      BY <1>4, <2>1, SumsGrow DEF SizesTo
    <2> QED
      BY <2>2 DEF a, b
  <1>6. SizesTo(j) = SizesTo(j - 1) + sizes[j] /\ sizes[j] \in Nat
        /\ SizesTo(j - 1) \in Nat /\ SizesTo(i - 1) \in Nat
    BY <1>2, <1>4
  <1> HIDE DEF j
  <1>7. SecondSize(i) = SizesTo(j) - SizesTo(i - 1)
    BY DEF SecondSize, j, n
  <1>8. SecondSize(i) \in Nat /\ sizes[j] <= SecondSize(i)
    BY <1>5, <1>6, <1>7
  <1>9. SecondsFit => 8 * TotalOf(SubSeq(sizes, i, j)) < Word
    BY DEF SecondsFit, j, n
  <1> QED
    BY <1>3, <1>7, <1>8, <1>9 DEF j, n

\* whether the next sample starts within the second
LEMMA WindowJoins ==
    ASSUME Inv, Steady, SteadyWindow, Sliding
    PROVE  InSecond <=> window.sid - window.start < PerSecond
  <1> DEFINE b == Lasts
             s == window.sid
             i == window.start
             a == track.scale
  <1>1. /\ track \in Tracks /\ WindowInv
    BY DEF Inv
  <1>2. b \in Nat \ {0} /\ a \in Nat \ {0}
    BY <1>1, SteadyFacts
  <1>3. /\ s \in 1 .. Samples /\ Samples \in Nat /\ Entered(ThisEntry)
        /\ s \in 1 .. Samples + 1
    BY SlidingFinds DEF ThisSample
  <1>4. i \in 1 .. s
    BY <1>1 DEF WindowInv
  <1>5. ThisTime = (s - 1) * b
    BY <1>1, <1>3, SteadyTime DEF ThisTime, ThisSample
  <1>6. window.from = (i - 1) * b
    BY DEF SteadyWindow
  <1>8. (s - i) * b = (s - 1) * b - (i - 1) * b
    BY <1>2, <1>3, <1>4
  <1>9. (s - i) * b < a <=> InSecond
    <2> DEFINE p == (s - 1) * b
               q == (i - 1) * b
               r == (s - i) * b
    <2>1. p \in Int /\ q \in Int
      BY <1>2, <1>3, <1>4
    <2>3. r = p - q
      BY <1>8
    <2>4. InSecond <=> p < q + a
      BY <1>5, <1>6 DEF InSecond
    <2> HIDE DEF p, q, r
    <2>2. r < a <=> p < q + a
      BY <1>2, <2>1, <2>3
    <2> QED
      BY <2>2, <2>4 DEF r
  <1>10. s - i \in Int
    BY <1>3, <1>4
  <1> QED
    BY <1>1, <1>9, <1>10, InSecondIs

\* where the window is when it is moved, and what it counts
LEMMA CountedSteady ==
    ASSUME Inv, Steady, SteadyWindow, Sliding, ~ InSecond
    PROVE  /\ window.sid = window.start + PerSecond
           /\ window.start \in 1 .. Samples - PerSecond
           /\ SecondsFit => /\ Counted \in Nat
                            /\ Counted <= SecondSize(window.start)
                            /\ SecondSize(window.start) - MaxSampleSize <= Counted
  <1> DEFINE n == PerSecond
             b == Lasts
             s == window.sid
             i == window.start
             a == track.scale
  <1>1. /\ track \in Tracks /\ WindowInv
    BY DEF Inv
  <1>2. /\ b \in Nat \ {0} /\ b < Word /\ a \in Nat \ {0} /\ n \in Nat \ {0}
        /\ (n - 1) * b < a /\ a <= n * b
    BY <1>1, SteadyFacts
  <1>3. /\ s \in 1 .. Samples /\ Samples \in Nat /\ Entered(ThisEntry)
        /\ s \in 1 .. Samples + 1
    BY SlidingFinds DEF ThisSample
  <1>4. i \in 1 .. s
    BY <1>1 DEF WindowInv
  <1>5. ThisTime = (s - 1) * b
    BY <1>1, <1>3, SteadyTime DEF ThisTime, ThisSample
  <1>6. /\ window.from = (i - 1) * b /\ s <= i + n
        /\ s > 1 => window.lastTime = (s - 2) * b /\ window.lastSize = sizes[s - 1]
    BY DEF SteadyWindow
  <1>10. ~ (s - i < n)
    BY WindowJoins
  <1>11. s = i + n /\ i \in 1 .. Samples - n /\ s > 1 /\ i \in Nat
    <2> HIDE DEF s, i, n
    <2> QED
      BY <1>2, <1>3, <1>4, <1>6, <1>10
  <1>12. ASSUME SecondsFit
         PROVE  /\ Counted \in Nat /\ Counted <= SecondSize(i)
                /\ SecondSize(i) - MaxSampleSize <= Counted
    <2> DEFINE B == SecondSize(i)
               z == sizes[s - 1]
               t == a - (n - 1) * b
               W == Word
    <2>1. B \in Nat /\ z <= B /\ 8 * B < Word
      <3>1. i + n - 1 = s - 1
        BY <1>2, <1>11
      <3>2. i \in 1 .. Samples - PerSecond
        BY <1>11
      <3>3. B \in Nat /\ sizes[i + n - 1] <= B /\ 8 * B < Word
        BY <1>1, <1>12, <3>2, SecondIs
      <3> QED
        BY <3>1, <3>3
    <2>2. z \in Words /\ z <= MaxSampleSize /\ MaxSampleSize \in Nat
      <3>1. s - 1 \in 1 .. Samples
        BY <1>3, <1>11
      <3> QED
        BY <1>1, <3>1, SizesAre, LargestSample
    <2>3. z \in Nat /\ z < Word /\ W \in Nat \ {0}
      BY <2>2, WordFacts DEF Words
    <2>4. window.bytes = B % W
      <3>1. window.bytes = (SizesTo(s - 1) - SizesTo(i - 1)) % Word
        BY <1>1 DEF WindowInv
      <3>2. i + n - 1 = s - 1
        BY <1>2, <1>11
      <3> QED
        BY <3>1, <3>2 DEF SecondSize
    <2>5. window.bytes = B
      <3> HIDE DEF B, W
      <3>1. B < W
        BY <2>1, <2>3 DEF W
      <3> QED
        BY <2>1, <2>3, <2>4, <3>1, ModSmall
    <2>6. /\ window.lastTime = (s - 2) * b /\ window.lastSize = z
          /\ ThisTime - window.lastTime = b /\ ThisTime > window.lastTime
          /\ window.from + a - window.lastTime = t
          /\ t \in 1 .. b
      <3>1. window.lastTime = (s - 2) * b /\ window.lastSize = z
        BY <1>6, <1>11
      <3>2. s - 2 = (i - 1) + (n - 1) /\ i - 1 \in Int /\ n - 1 \in Int /\ s - 1 = (s - 2) + 1
            /\ s - 2 \in Int
        BY <1>2, <1>11
      <3>3. (s - 2) * b = (i - 1) * b + (n - 1) * b
        BY <1>2, <3>2
      <3>4. (s - 1) * b = (s - 2) * b + b
        BY <1>2, <3>2
      <3>5. n * b = (n - 1) * b + b
        BY <1>2
      <3> DEFINE p == (s - 2) * b
                 q == (i - 1) * b
                 r == (n - 1) * b
      <3>6. p \in Int /\ q \in Int /\ r \in Int
        BY <1>2, <3>2
      <3>7. p = q + r /\ ThisTime = p + b /\ window.lastTime = p /\ window.from = q
            /\ r < a /\ a <= r + b /\ t = a - r
        BY <1>2, <1>5, <1>6, <3>1, <3>3, <3>4, <3>5
      <3> HIDE DEF p, q, r, t, b, a
      <3>8. /\ ThisTime - window.lastTime = b /\ ThisTime > window.lastTime
            /\ window.from + a - window.lastTime = t /\ t \in 1 .. b
        BY <1>2, <3>6, <3>7
      <3> QED
        BY <3>1, <3>8
    <2> DEFINE o == Overflow
    <2>7. o \in 0 .. z
      <3>1. t % LongWord = t
        <4>1. LongWord \in Nat \ {0} /\ Word <= LongWord
          BY <2>3 DEF LongWord
        <4>2. t \in Nat /\ t < LongWord
          <5>1. Word \in Nat
            BY <2>3
          <5> HIDE DEF t, b
          <5> QED
            BY <1>2, <2>6, <4>1, <5>1
        <4> HIDE DEF t
        <4> QED
          BY <4>1, <4>2, ModSmall
      <3>2. o = (((z * t + b - 1) % LongWord) \div b) % Word
        <4>1. Overflow = (((window.lastSize
                              * ((window.from + track.scale - window.lastTime) % LongWord)
                            + (ThisTime - window.lastTime) - 1) % LongWord)
                          \div (ThisTime - window.lastTime)) % Word
          BY Zenon DEF Overflow
        <4> HIDE DEF t, z, b
        <4> QED
          BY <2>6, <3>1, <4>1
      <3> HIDE DEF t, z, b, o
      <3> QED
        BY <1>2, <2>3, <2>6, <3>2, ShareBounded
    <2>8. Counted = (B - o) % W
      <3>1. Counted = (window.bytes - Overflow) % Word
        BY <2>6 DEF Counted
      <3> HIDE DEF B
      <3> QED
        BY <2>5, <3>1
    <2> HIDE DEF B, o, z, W
    <2>9. B - o \in Nat /\ B - o < W
      BY <2>1, <2>3, <2>7 DEF W
    <2>10. Counted = B - o
      <3> DEFINE d == B - o
      <3> HIDE DEF d
      <3>1. d % W = d
        BY <2>3, <2>9, ModSmall DEF d
      <3> QED
        BY <2>8, <3>1 DEF d
    <2>11. Counted \in Nat /\ Counted <= B /\ B - MaxSampleSize <= Counted
      BY <2>1, <2>2, <2>3, <2>7, <2>9, <2>10
    <2> QED
      BY <2>11 DEF B
  <1> QED
    BY <1>11, <1>12

LEMMA RecordedKept ==
    ASSUME SteadyInv, UNCHANGED <<track, recorded, pc>>, pc # "closed"
    PROVE  RecordInv'
  BY DEF RecordInv

LEMMA SteadyInitially ==
    ASSUME Init
    PROVE  SteadyInv
  <1>1. Inv /\ track \in Tracks
    BY Initially DEF Init
  <1>2. /\ window.sid = 1 /\ window.start = 1 /\ window.from = 0 /\ window.max = 0
        /\ pc \in {"copy", "close"}
    BY DEF Init
  <1>3. ASSUME Steady PROVE SteadyWindow
    <2>1. Lasts \in Nat /\ PerSecond \in Nat \ {0}
      BY <1>1, <1>3, SteadyFacts
    <2>2. (1 - 1) * Lasts = 0
      BY <2>1
    <2>3. MaxBetween
      BY <1>2 DEF MaxBetween
    <2> QED
      BY <1>2, <2>1, <2>2, <2>3 DEF SteadyWindow
  <1> QED
    BY <1>1, <1>2, <1>3 DEF SteadyInv, RecordInv

LEMMA TakeSampleSteady ==
    ASSUME SteadyInv, TakeSample
    PROVE  SteadyInv'
  <1> DEFINE s == window.sid
             z == track.sizes[s]
  <1>1. /\ Inv /\ Inv' /\ track \in Tracks /\ track' = track
        /\ UNCHANGED <<recorded, pc>> /\ pc = "close" /\ Sliding /\ InSecond
    BY TakeSampleKeeps DEF SteadyInv, Inv, TakeSample, Sliding
  <1>2. RecordInv'
    BY <1>1, RecordedKept
  <1>3. /\ Lasts' = Lasts /\ Steady' = Steady /\ PerSecond' = PerSecond
        /\ SecondsFit' = SecondsFit /\ MaxSampleSize' = MaxSampleSize
        /\ \A i : SecondSize(i)' = SecondSize(i)
        /\ sizes' = sizes
    BY <1>1, SteadyKept
  <1>4. ASSUME Steady PROVE SteadyWindow'
    <2>1. /\ SteadyWindow /\ WindowInv
      BY <1>1, <1>4 DEF SteadyInv, Inv
    <2>2. /\ window'.sid = s + 1 /\ window'.start = window.start
          /\ window'.from = window.from /\ window'.lastTime = ThisTime
          /\ window'.lastSize = z /\ window'.max = window.max
      <3>1. window' = [window EXCEPT !.sid = @ + 1, !.bytes = (@ + z) % Word,
                                     !.lastTime = ThisTime, !.lastSize = z]
        BY DEF TakeSample, ThisSample
      <3>2. window = [sid |-> window.sid, start |-> window.start, from |-> window.from,
                      bytes |-> window.bytes, lastTime |-> window.lastTime,
                      lastSize |-> window.lastSize, max |-> window.max]
        BY <2>1 DEF WindowInv
      <3> QED
        BY <3>1, <3>2
    <2>3. /\ s \in 1 .. Samples /\ Samples \in Nat /\ Entered(ThisEntry)
          /\ s \in 1 .. Samples + 1
      BY <1>1, SlidingFinds DEF ThisSample
    <2>4. ThisTime = (s - 1) * Lasts
      BY <1>1, <1>4, <2>3, SteadyTime DEF ThisTime, ThisSample
    <2>5. window.start \in 1 .. s
      BY <2>1 DEF WindowInv
    <2>6. s - window.start < PerSecond
      BY <1>1, <1>4, <2>1, WindowJoins
    <2>7. PerSecond \in Nat \ {0}
      BY <1>1, <1>4, SteadyFacts
    <2>8. s + 1 <= window.start + PerSecond /\ ~ (window.start > 1)
      <3>1. window.start > 1 => s = window.start + PerSecond
        BY <2>1 DEF SteadyWindow
      <3> HIDE DEF s
      <3> QED
        BY <2>3, <2>5, <2>6, <2>7, <3>1
    <2>9. (s + 1) - 2 = s - 1 /\ (s + 1) - 1 = s /\ s + 1 > 1
      BY <2>3
    <2>10. window.from = (window.start - 1) * Lasts /\ (SecondsFit => MaxBetween)
      BY <2>1 DEF SteadyWindow
    <2>11. SecondsFit' => MaxBetween'
      <3>1. MaxBetween' <=> MaxBetween
        BY <1>3, <2>2 DEF MaxBetween
      <3> QED
        BY <1>3, <2>10, <3>1
    <2>12. z = sizes[s]
      BY DEF sizes
    <2> HIDE DEF s, z
    <2> QED
      BY <1>3, <2>2, <2>4, <2>8, <2>9, <2>10, <2>11, <2>12 DEF SteadyWindow
  <1> QED
    BY <1>1, <1>2, <1>3, <1>4 DEF SteadyInv

LEMMA SlideWindowSteady ==
    ASSUME SteadyInv, SlideWindow
    PROVE  SteadyInv'
  <1> DEFINE s == window.sid
             i == window.start
             z == track.sizes[s]
             next == i + 1
             entry == Found(ThisEntry, next)
             most == Max({window.max, Counted})
  <1>1. /\ Inv /\ Inv' /\ track \in Tracks /\ track' = track
        /\ UNCHANGED <<recorded, pc>> /\ pc = "close" /\ Sliding /\ ~ InSecond
        /\ InTable(ThisEntry, next)
    BY SlideWindowKeeps DEF SteadyInv, Inv, SlideWindow, Sliding
  <1>2. RecordInv'
    BY <1>1, RecordedKept
  <1>3. /\ Lasts' = Lasts /\ Steady' = Steady /\ PerSecond' = PerSecond
        /\ SecondsFit' = SecondsFit /\ MaxSampleSize' = MaxSampleSize
        /\ \A k : SecondSize(k)' = SecondSize(k)
        /\ sizes' = sizes
    BY <1>1, SteadyKept
  <1>4. ASSUME Steady PROVE SteadyWindow'
    <2>1. /\ SteadyWindow /\ WindowInv
      BY <1>1, <1>4 DEF SteadyInv, Inv
    <2>2. /\ window'.sid = s + 1 /\ window'.start = next
          /\ window'.from = Time(entry, next) /\ window'.lastTime = ThisTime
          /\ window'.lastSize = z /\ window'.max = most
      <3>1. window' = [sid |-> s + 1, start |-> next, from |-> Time(entry, next),
                       bytes |-> (window.bytes + z - track.sizes[i]) % Word,
                       lastTime |-> ThisTime, lastSize |-> z, max |-> most]
        BY DEF SlideWindow, ThisSample, Dropped
      <3> HIDE DEF s, next, entry, z, most
      <3> QED
        BY <3>1
    <2>3. /\ s \in 1 .. Samples /\ Samples \in Nat /\ Entered(ThisEntry)
          /\ s \in 1 .. Samples + 1
          /\ Truthful(ThisEntry) /\ ThisTime \in Nat
      BY <1>1, SlidingFinds DEF ThisSample
    <2>4. ThisTime = (s - 1) * Lasts
      BY <1>1, <1>4, <2>3, SteadyTime DEF ThisTime, ThisSample
    <2>5. PerSecond \in Nat \ {0} /\ Lasts \in Nat
      BY <1>1, <1>4, SteadyFacts
    <2>6. /\ s = i + PerSecond /\ i \in 1 .. Samples - PerSecond
          /\ SecondsFit => /\ Counted \in Nat /\ Counted <= SecondSize(i)
                           /\ SecondSize(i) - MaxSampleSize <= Counted
      BY <1>1, <1>4, <2>1, CountedSteady
    <2>7. next \in Nat \ {0} /\ next - 1 = i /\ i \in Nat
      BY <2>5, <2>6
    <2>8. Time(entry, next) = (next - 1) * Lasts
      <3>1. Entered(entry)
        BY <1>1, <2>3, <2>7, FindsEntry DEF Right
      <3>2. next \in 1 .. Samples + 1
        BY <2>3, <2>5, <2>6, <2>7
      <3> HIDE DEF entry, next
      <3> QED
        BY <1>1, <1>4, <3>1, <3>2, SteadyTime
    <2>9. /\ (s + 1) - 2 = s - 1 /\ (s + 1) - 1 = s /\ s + 1 > 1
          /\ s + 1 = next + PerSecond
      BY <2>3, <2>5, <2>6, <2>7
    <2>10. ASSUME SecondsFit PROVE MaxBetween'
      <3>1. /\ window.max = 0 \/ \E k \in 1 .. i - 1 : window.max <= SecondSize(k)
            /\ \A k \in 1 .. i - 1 : SecondSize(k) - MaxSampleSize <= window.max
        BY <2>1, <2>10 DEF SteadyWindow, MaxBetween
      <3>2. window.max \in Nat /\ Counted \in Nat /\ MaxSampleSize \in Nat
        <4>1. window.max \in Words
          BY <2>1 DEF WindowInv
        <4> QED
          BY <1>1, <2>6, <2>10, <4>1, WordFacts, LargestSample DEF Words
      <3>3. /\ most \in {window.max, Counted} /\ window.max <= most /\ Counted <= most
            /\ most \in Nat
        <4> DEFINE a == window.max
                   b == Counted
        <4>1. a \in Nat /\ b \in Nat
          BY <3>2
        <4> HIDE DEF a, b
        <4>2. PICK n \in {a, b} : \A x \in {a, b} : x <= n
          BY <4>1
        <4>3. {a, b} \in SUBSET Int
          BY <4>1
        <4>4. Max({a, b}) = n
          BY <4>2, <4>3, MaxIs
        <4> QED
          BY <4>1, <4>2, <4>4 DEF a, b
      <3>4. \A k \in 1 .. i : SecondSize(k) \in Nat
        <4> TAKE k \in 1 .. i
        <4>1. k \in 1 .. Samples - PerSecond
          BY <2>3, <2>5, <2>6
        <4> QED
          BY <1>1, <1>4, <4>1, SecondIs
      <3>5. \A k \in 1 .. i : k = i \/ k \in 1 .. i - 1
        BY <2>7
      <3>6. i \in 1 .. i /\ 1 .. i - 1 \subseteq 1 .. i
        BY <2>6, <2>7, <2>5, <2>3
      <3> HIDE DEF most, i
      <3>7. most = 0 \/ \E k \in 1 .. i : most <= SecondSize(k)
        <4>1. CASE most = Counted
          BY <2>6, <2>10, <3>6, <4>1
        <4>2. CASE most = window.max
          BY <3>1, <3>6, <4>2
        <4> QED
          BY <3>3, <4>1, <4>2
      <3>8. \A k \in 1 .. i : SecondSize(k) - MaxSampleSize <= most
        <4> TAKE k \in 1 .. i
        <4> DEFINE m == SecondSize(k) - MaxSampleSize
        <4>1. m \in Int
          BY <3>2, <3>4
        <4>2. CASE k = i
          <5>1. m <= Counted
            BY <2>6, <2>10, <4>2
          <5> HIDE DEF m
          <5> QED
            BY <3>2, <3>3, <4>1, <5>1 DEF m
        <4>3. CASE k \in 1 .. i - 1
          <5>1. m <= window.max
            BY <3>1, <4>3
          <5> HIDE DEF m
          <5> QED
            BY <3>2, <3>3, <4>1, <5>1 DEF m
        <4> QED
          BY <3>5, <4>2, <4>3
      <3>9. window'.max = most /\ window'.start - 1 = i
        BY <2>2, <2>7
      <3> QED
        BY <1>3, <3>7, <3>8, <3>9 DEF MaxBetween
    <2>11. z = sizes[s]
      BY DEF sizes
    <2>12. s + 1 <= next + PerSecond
      BY <2>5, <2>7, <2>9
    <2> HIDE DEF s, z, next, entry, most
    <2> QED
      BY <1>3, <2>2, <2>4, <2>8, <2>9, <2>10, <2>11, <2>12 DEF SteadyWindow
  <1> QED
    BY <1>1, <1>2, <1>3, <1>4 DEF SteadyInv

LEMMA SteadyUnchanged ==
    ASSUME SteadyInv, Inv', UNCHANGED <<track, window>>, RecordInv'
    PROVE  SteadyInv'
  <1>1. /\ Lasts' = Lasts /\ Steady' = Steady /\ PerSecond' = PerSecond
        /\ SecondsFit' = SecondsFit /\ MaxSampleSize' = MaxSampleSize
        /\ \A i : SecondSize(i)' = SecondSize(i)
        /\ sizes' = sizes
    BY SteadyKept
  <1>2. MaxBetween' <=> MaxBetween
    BY <1>1 DEF MaxBetween
  <1>3. SteadyWindow' <=> SteadyWindow
    BY <1>1, <1>2 DEF SteadyWindow
  <1> QED
    BY <1>1, <1>3 DEF SteadyInv

LEMMA OthersSteady ==
    ASSUME SteadyInv,
           CopyChunk \/ CopyFails \/ CopyEnds \/ CloseFails \/ Record \/ UNCHANGED vars
    PROVE  SteadyInv'
  <1>1. Inv'
    BY CopyChunkKeeps, OthersKeep DEF SteadyInv
  <1>2. UNCHANGED <<track, window>>
    BY DEF CopyChunk, CopyFails, CopyEnds, CloseFails, Record, vars
  <1>3. RecordInv'
    <2>1. CASE CopyChunk \/ CopyFails \/ CopyEnds \/ CloseFails
      BY <2>1 DEF CopyChunk, CopyFails, CopyEnds, CloseFails, RecordInv
    <2>2. CASE Record
      <3>1. track \in Tracks /\ window.sid \in 1 .. Samples + 1
        BY DEF SteadyInv, Inv, WindowInv
      <3>2. Samples \in Nat /\ Samples' = Samples
        BY <1>2, <3>1, SizesAre DEF Samples
      <3>3. window.sid > Samples
        BY <2>2 DEF Record, ThisSample
      <3>4. window.sid = Samples + 1
        BY <3>1, <3>2, <3>3
      <3>5. recorded'[1].maxBitrate = (8 * window.max) % Word
        <4>1. recorded' = <<[bufferSize |-> MaxSampleSize,
                             maxBitrate |-> (8 * window.max) % Word,
                             avgBitrate |-> AvgBitrate % Word]>>
          BY <2>2 DEF Record
        <4> DEFINE x == (8 * window.max) % Word
                   y == AvgBitrate % Word
        <4> HIDE DEF x, y
        <4> QED
          BY <4>1 DEF x, y
      <3> QED
        BY <1>2, <3>2, <3>4, <3>5 DEF RecordInv
    <2>3. CASE UNCHANGED vars
      <3>1. recorded' = recorded /\ pc' = pc /\ window' = window /\ track' = track
        BY <2>3 DEF vars
      <3>2. Samples' = Samples
        BY <3>1 DEF Samples
      <3> QED
        BY <3>1, <3>2 DEF SteadyInv, RecordInv
    <2> QED
      BY <2>1, <2>2, <2>3
  <1> QED
    BY <1>1, <1>2, <1>3, SteadyUnchanged

LEMMA MaximumIs ==
    ASSUME SteadyInv, SecondsFit
    PROVE  SteadyMaximum
  <1> SUFFICES ASSUME pc = "closed", Steady
               PROVE  LET delta == track.stts[1].value
                          n == (track.scale + delta - 1) \div delta
                          seconds == {TotalOf(SubSeq(track.sizes, i, i + n - 1)) :
                                         i \in 1 .. Samples - n}
                          most == Max(seconds \cup {0})
                      IN  /\ recorded[1].maxBitrate <= 8 * most
                          /\ recorded[1].maxBitrate >= 8 * (most - MaxSampleSize)
    BY Zenon DEF SteadyMaximum, Steady, Lasts, stts
  <1> DEFINE n == PerSecond
             seconds == {TotalOf(SubSeq(sizes, i, i + n - 1)) : i \in 1 .. Samples - n}
             X == seconds \cup {0}
             m == window.max
             largest == MaxSampleSize
  <1>1. /\ track \in Tracks /\ WindowInv /\ SteadyWindow
        /\ window.sid = Samples + 1 /\ recorded[1].maxBitrate = (8 * m) % Word
    BY DEF SteadyInv, Inv, RecordInv
  <1>2. /\ n \in Nat \ {0} /\ Samples \in Nat /\ Word \in Nat \ {0} /\ largest \in Nat
    BY <1>1, SteadyFacts, SizesAre, WordFacts, LargestSample
  <1>3. window.start \in 1 .. Samples + 1
    BY <1>1 DEF WindowInv
  <1>4. /\ \A i \in 1 .. window.start - 1 : i \in 1 .. Samples - n
        /\ \A i \in 1 .. Samples - n : i \in 1 .. window.start - 1
    <2>1. /\ Samples + 1 <= window.start + n
          /\ window.start > 1 => Samples + 1 = window.start + n
      BY <1>1 DEF SteadyWindow
    <2> HIDE DEF n
    <2> QED
      BY <1>2, <1>3, <2>1
  <1>5. \A i \in 1 .. Samples - n :
           /\ SecondSize(i) \in Nat /\ 8 * SecondSize(i) < Word
           /\ SecondSize(i) = TotalOf(SubSeq(sizes, i, i + n - 1))
    BY <1>1, SecondIs
  <1>6. /\ m = 0 \/ \E i \in 1 .. Samples - n : m <= SecondSize(i)
        /\ \A i \in 1 .. Samples - n : SecondSize(i) - largest <= m
    BY <1>1, <1>4 DEF SteadyWindow, MaxBetween
  <1>7. m \in Nat
    BY <1>1, <1>2 DEF WindowInv, Words
  <1>8. seconds = {SecondSize(i) : i \in 1 .. Samples - n}
    BY <1>5
  <1> HIDE DEF n, seconds, m, largest
  <1>9. /\ X \in SUBSET Int /\ X # {} /\ 0 \in X /\ \A x \in X : x <= Word
        /\ \A i \in 1 .. Samples - n : SecondSize(i) \in X
    <2>1. \A i \in 1 .. Samples - n : SecondSize(i) <= Word
      BY <1>2, <1>5
    <2> QED
      BY <1>2, <1>5, <1>8, <2>1
  <1>10. \A x \in X : x = 0 \/ \E i \in 1 .. Samples - n : x = SecondSize(i)
    BY <1>8
  <1> HIDE DEF X
  <1> DEFINE most == Max(X)
  <1>11. most \in X /\ \A x \in X : x <= most
    <2>1. Word \in Int
      BY <1>2
    <2> QED
      BY <1>9, <2>1, MaxInside
  <1> HIDE DEF most
  <1>12. most \in Nat /\ m <= most /\ 8 * most < Word /\ most - largest <= m
    <2>1. most = 0 \/ \E i \in 1 .. Samples - n : most = SecondSize(i)
      BY <1>10, <1>11
    <2>2. most \in Nat /\ 8 * most < Word /\ most - largest <= m
      <3>1. CASE most = 0
        BY <1>2, <1>7, <3>1
      <3>2. CASE most # 0
        BY <1>5, <1>6, <2>1, <3>2
      <3> QED
        BY <3>1, <3>2
    <2>3. m <= most
      <3>1. CASE m = 0
        BY <2>2, <3>1
      <3>2. CASE m # 0
        <4>1. PICK i \in 1 .. Samples - n : m <= SecondSize(i)
          BY <1>6, <3>2
        <4>2. SecondSize(i) <= most /\ SecondSize(i) \in Nat
          BY <1>5, <1>9, <1>11
        <4> QED
          BY <1>7, <2>2, <4>1, <4>2
      <3> QED
        BY <3>1, <3>2
    <2> QED
      BY <2>2, <2>3
  <1>13. (8 * m) % Word = 8 * m
    <2> DEFINE e == 8 * m
    <2>1. e \in Nat /\ e < Word
      BY <1>2, <1>7, <1>12
    <2> HIDE DEF e
    <2>2. e % Word = e
      BY <1>2, <2>1, ModSmall
    <2> QED
      BY <2>2 DEF e
  <1>14. /\ recorded[1].maxBitrate <= 8 * most
         /\ recorded[1].maxBitrate >= 8 * (most - largest)
    BY <1>1, <1>2, <1>7, <1>12, <1>13
  <1> QED
    BY <1>14, Zenon DEF most, X, seconds, n, PerSecond, Lasts, stts, sizes, largest

\* When all samples last equally long, and no second of them is too large for
\* its rate to be recorded, closing the file records the greatest rate of the
\* track's seconds, less at most one sample: GetMaxBitrate misses no second.
THEOREM SteadyRecorded == Spec => [](SecondsFit => SteadyMaximum)
  <1>1. Init => SteadyInv
    BY SteadyInitially
  <1>2. SteadyInv /\ [Next]_vars => SteadyInv'
    BY TakeSampleSteady, SlideWindowSteady, OthersSteady DEF Next
  <1>3. SteadyInv => (SecondsFit => SteadyMaximum)
    BY MaximumIs
  <1> QED
    BY <1>1, <1>2, <1>3, PTL DEF Spec
=============================================================================
