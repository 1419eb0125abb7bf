----------------------------- MODULE ExecuteProofs -----------------------------
(***************************************************************************)
(* For every movie, command line and time code file: the groups of option  *)
(* -x hold deltas within one of each other and are as large as they can    *)
(* be, and the literal codes of -t increase; every frame gets the code of  *)
(* its line, and a file is refused for a reason only; the movie is edited  *)
(* when an option asks for it; what -p prints is what a later -t reads;    *)
(* a movie that was too long fits its boxes after rescaling; and however   *)
(* option -x moves the frames, they stay close to where they were.         *)
(***************************************************************************)
EXTENDS Execute, Induction, FiniteSetTheorems

-----------------------------------------------------------------------------
(* The inductive invariant *)

\* the codes have not been averaged yet
Collecting == {"getopt", "execute", "print", "load", "parse", "keep", "fix",
               "fixing", "average"}

FixRecord == [i : Nat, dts : Nat, vcts : Seq(Int), fixed : Seq(Int),
              timeDelta : Int, diff : Int]

Signed == -(IntModulus \div 2) .. IntModulus \div 2 - 1

Typed ==
    /\ movie \in Movies
    /\ args \in Seq(Arguments)
    /\ texts \in [Names -> Seq(Int)]
    /\ lines \in Seq(Int)
    /\ DOMAIN opt = DOMAIN NoOptions
    /\ opt.timecodeFile \in Names \cup {NoFile}
    /\ opt.audioTimeDelta \in Int /\ opt.requestedTimeScale \in Signed
    /\ pc = "load" => opt.timecodeFile # NoFile
    /\ fixing \in FixRecord
    /\ pc = "fixing" => fixing.dts > 0
    /\ pc \in Collecting => timecodes \in Seq(Int)

\* of the deltas ds the first n have been grouped, groups start at C, and the
\* last one has room for what is in lo .. hi
Fits(ds, n, C, lo, hi) ==
    /\ IF n = 0 THEN hi < lo ELSE hi - lo \in {1, 2}
    /\ \A i \in 1 .. n : Together(C, i, n) =>
          /\ lo <= ds[i] /\ ds[i] <= hi
          /\ hi - lo = 2 => ds[i] = lo + 1
    /\ n > 0 /\ hi - lo = 1 =>
          \E i, j \in 1 .. n : /\ Together(C, i, n) /\ Together(C, j, n)
                               /\ ds[i] = lo /\ ds[j] = hi

WithinOne(ds, n, C) ==
    \A i, j \in 1 .. n :
        i <= j /\ Together(C, i, j) => Distance(ds[i], ds[j]) <= 1

Maximal(ds, C) ==
    \A c \in C \ {1} :
        \E i \in 1 .. c - 1 :
            Together(C, i, c - 1) /\ Distance(ds[i], ds[c]) > 1

Grouped ==
    /\ deltas \in Seq(Int)
    /\ done \in 0 .. Len(deltas)
    /\ cuts \in SUBSET (1 .. done)
    /\ low \in Int /\ high \in Int
    /\ done > 0 => 1 \in cuts
    /\ Fits(deltas, done, cuts, low, high)
    /\ WithinOne(deltas, done, cuts)
    /\ Maximal(deltas, cuts)

\* where the codes come from, and that they increase until the editor has them
Literal ==
    /\ DOMAIN given = DOMAIN Nothing
    /\ pc \in Collecting \cup {"group", "convert", "rescale", "SetFPS"} =>
          given.codes = <<>>
    /\ pc \in {"keep", "fix", "fixing"} => ~ FromFile
    /\ pc \in {"average", "group", "convert"} => opt.optimizeTimecode
    /\ pc \in {"getopt", "execute", "print", "load"} => timecodes = <<>>
    /\ pc = "parse" => timecodes \in Seq(Int) /\ Increasing(timecodes)
    /\ pc = "rescale" /\ FromFile /\ ~ opt.optimizeTimecode =>
          timecodes \in Seq(Int) /\ Increasing(timecodes)
    /\ LiteralCodesIncrease

-----------------------------------------------------------------------------
(* Grouping *)

LEMMA TogetherBefore ==
    ASSUME NEW n \in Nat, NEW C \in SUBSET (1 .. n),
           NEW i \in Int, NEW j \in Int, j <= n
    PROVE  Together(C \cup {n + 1}, i, j) <=> Together(C, i, j)
BY DEF Together

\* the next delta starts a group of its own
LEMMA CutFits ==
    ASSUME NEW ds \in Seq(Int), NEW n \in Nat, n < Len(ds),
           NEW C \in SUBSET (1 .. n), NEW lo \in Int, NEW hi \in Int,
           Fits(ds, n, C, lo, hi), WithinOne(ds, n, C), Maximal(ds, C),
           ds[n + 1] < lo \/ ds[n + 1] > hi
    PROVE  /\ Fits(ds, n + 1, C \cup {n + 1}, ds[n + 1] - 1, ds[n + 1] + 1)
           /\ WithinOne(ds, n + 1, C \cup {n + 1})
           /\ Maximal(ds, C \cup {n + 1})
<1> DEFINE D == C \cup {n + 1}
<1>1. ASSUME NEW i \in 1 .. n + 1, Together(D, i, n + 1) PROVE i = n + 1
  <2>1. n + 1 \in D
    OBVIOUS
  <2>2. n + 1 <= i \/ n + 1 > n + 1
    BY <1>1, <2>1 DEF Together
  <2> QED BY <2>2
<1>2. ds[n + 1] \in Int
  OBVIOUS
<1>3. Fits(ds, n + 1, D, ds[n + 1] - 1, ds[n + 1] + 1)
  <2> DEFINE lo2 == ds[n + 1] - 1
             hi2 == ds[n + 1] + 1
  <2>1. n + 1 # 0 /\ hi2 - lo2 = 2 /\ hi2 - lo2 # 1 /\ hi2 - lo2 \in {1, 2}
    BY <1>2
  <2>2. ASSUME NEW i \in 1 .. n + 1, Together(D, i, n + 1)
        PROVE  lo2 <= ds[i] /\ ds[i] <= hi2 /\ ds[i] = lo2 + 1
    BY <1>1, <1>2, <2>2
  <2> HIDE DEF lo2, hi2, D
  <2>3. Fits(ds, n + 1, D, lo2, hi2)
    BY <2>1, <2>2 DEF Fits
  <2> QED BY <2>3 DEF lo2, hi2
<1>4. WithinOne(ds, n + 1, D)
  <2> SUFFICES ASSUME NEW i \in 1 .. n + 1, NEW j \in 1 .. n + 1,
                      i <= j, Together(D, i, j)
               PROVE  Distance(ds[i], ds[j]) <= 1
    BY DEF WithinOne
  <2>1. CASE j = n + 1
    <3>1. i = n + 1
      BY <1>1, <2>1
    <3> QED BY <1>2, <2>1, <3>1 DEF Distance
  <2>2. CASE j # n + 1
    <3>1. j \in 1 .. n /\ i \in 1 .. n /\ j <= n
      BY <2>2
    <3>2. Together(C, i, j)
      BY <3>1, TogetherBefore
    <3> QED BY <3>1, <3>2 DEF WithinOne
  <2> QED BY <2>1, <2>2
<1>5. Maximal(ds, D)
  <2> SUFFICES ASSUME NEW c \in D, c # 1
               PROVE  \E i \in 1 .. c - 1 : /\ Together(D, i, c - 1)
                                            /\ Distance(ds[i], ds[c]) > 1
    BY DEF Maximal
  <2>1. CASE c \in C
    <3>1. PICK i \in 1 .. c - 1 : /\ Together(C, i, c - 1)
                                  /\ Distance(ds[i], ds[c]) > 1
      BY <2>1 DEF Maximal
    <3>2. Together(D, i, c - 1)
      <4>1. c \in 1 .. n /\ i \in Int /\ c - 1 \in Int /\ c - 1 <= n
        BY <2>1, <3>1
      <4> QED BY <3>1, <4>1, TogetherBefore
    <3> QED BY <3>1, <3>2
  <2>2. CASE c = n + 1
    <3>1. n \in 1 .. n /\ c - 1 = n /\ Together(C, n, n)
      BY <2>2 DEF Together
    <3>2. ASSUME NEW i \in 1 .. n, Together(C, i, n),
                 Distance(ds[i], ds[n + 1]) > 1
          PROVE  \E k \in 1 .. c - 1 : /\ Together(D, k, c - 1)
                                       /\ Distance(ds[k], ds[c]) > 1
      <4>1. Together(D, i, c - 1)
        BY <3>1, <3>2, TogetherBefore
      <4> QED BY <2>2, <3>1, <3>2, <4>1
    <3>3. CASE hi - lo = 2
      <4>1. ds[n] = lo + 1 /\ ds[n] \in Int
        BY <3>1, <3>3 DEF Fits
      <4>2. Distance(ds[n], ds[n + 1]) > 1
        BY <4>1, <3>3, <1>2 DEF Distance
      <4> QED BY <4>2, <3>1, <3>2
    <3>4. CASE hi - lo = 1
      <4>1. PICK i, j \in 1 .. n : /\ Together(C, i, n) /\ Together(C, j, n)
                                   /\ ds[i] = lo /\ ds[j] = hi
        BY <3>1, <3>4 DEF Fits
      <4>2. CASE ds[n + 1] < lo
        <5>1. Distance(ds[j], ds[n + 1]) > 1
          BY <4>1, <4>2, <3>4, <1>2 DEF Distance
        <5> QED BY <4>1, <5>1, <3>2
      <4>3. CASE ds[n + 1] > hi
        <5>1. Distance(ds[i], ds[n + 1]) > 1
          BY <4>1, <4>3, <3>4, <1>2 DEF Distance
        <5> QED BY <4>1, <5>1, <3>2
      <4> QED BY <4>2, <4>3, <1>2
    <3>5. n # 0 /\ hi - lo \in {1, 2}
      BY <3>1 DEF Fits
    <3> QED BY <3>3, <3>4, <3>5
  <2> QED BY <2>1, <2>2
<1> QED BY <1>3, <1>4, <1>5

\* the next delta joins the last group, whose window is narrowed to lo2 .. hi2
LEMMA JoinFits ==
    ASSUME NEW ds \in Seq(Int), NEW n \in Nat, n < Len(ds),
           NEW C \in SUBSET (1 .. n), NEW lo \in Int, NEW hi \in Int,
           Fits(ds, n, C, lo, hi), WithinOne(ds, n, C),
           lo <= ds[n + 1], ds[n + 1] <= hi,
           NEW lo2 \in Int, NEW hi2 \in Int,
           IF ds[n] # ds[n + 1] /\ hi - lo = 2
           THEN IF ds[n] < ds[n + 1] THEN lo2 = ds[n] /\ hi2 = ds[n + 1]
                ELSE lo2 = ds[n + 1] /\ hi2 = ds[n]
           ELSE lo2 = lo /\ hi2 = hi
    PROVE  /\ Fits(ds, n + 1, C, lo2, hi2)
           /\ WithinOne(ds, n + 1, C)
<1> DEFINE d == ds[n + 1]
           b == ds[n]
<1>1. /\ n \in 1 .. n /\ n + 1 \in 1 .. n + 1 /\ b \in Int /\ d \in Int
      /\ hi - lo \in {1, 2}
  BY DEF Fits
<1>2. Together(C, n, n) /\ Together(C, n + 1, n + 1)
  BY <1>1 DEF Together
<1>3. /\ lo <= b /\ b <= hi
      /\ hi - lo = 2 => b = lo + 1
  BY <1>1, <1>2 DEF Fits
<1>4. ASSUME NEW i \in 1 .. n
      PROVE  Together(C, i, n + 1) <=> Together(C, i, n)
  BY <1>1 DEF Together
<1>5. /\ hi2 - lo2 \in {1, 2}
      /\ hi2 - lo2 = 2 => lo2 = lo /\ hi2 = hi /\ d = b /\ hi - lo = 2
      /\ hi - lo = 1 => lo2 = lo /\ hi2 = hi
      /\ hi - lo = 2 /\ hi2 - lo2 = 1 =>
            \/ b = lo2 /\ d = hi2
            \/ d = lo2 /\ b = hi2
      /\ lo2 <= d /\ d <= hi2 /\ lo2 <= b /\ b <= hi2
  BY <1>1, <1>3
<1>6. ASSUME NEW i \in 1 .. n + 1, Together(C, i, n + 1)
      PROVE  /\ lo2 <= ds[i] /\ ds[i] <= hi2
             /\ hi2 - lo2 = 2 => ds[i] = lo2 + 1
  <2>1. CASE i = n + 1
    BY <1>1, <1>3, <1>5, <2>1
  <2>2. CASE i # n + 1
    <3>1. i \in 1 .. n /\ Together(C, i, n) /\ ds[i] \in Int
      BY <1>4, <1>6, <2>2
    <3>2. /\ lo <= ds[i] /\ ds[i] <= hi
          /\ hi - lo = 2 => ds[i] = lo + 1
      BY <3>1 DEF Fits
    <3>3. CASE hi - lo = 1
      BY <3>1, <3>2, <3>3, <1>1, <1>5
    <3>4. CASE hi - lo = 2
      BY <3>1, <3>2, <3>4, <1>1, <1>3, <1>5
    <3> QED BY <3>3, <3>4, <1>1
  <2> QED BY <2>1, <2>2
<1>7. ASSUME hi2 - lo2 = 1
      PROVE  \E i, j \in 1 .. n + 1 :
                /\ Together(C, i, n + 1) /\ Together(C, j, n + 1)
                /\ ds[i] = lo2 /\ ds[j] = hi2
  <2>1. CASE hi - lo = 1
    <3>1. PICK i, j \in 1 .. n : /\ Together(C, i, n) /\ Together(C, j, n)
                                 /\ ds[i] = lo /\ ds[j] = hi
      BY <1>1, <2>1 DEF Fits
    <3>2. Together(C, i, n + 1) /\ Together(C, j, n + 1)
      BY <3>1, <1>4
    <3>3. i \in 1 .. n + 1 /\ j \in 1 .. n + 1
      OBVIOUS
    <3> QED BY <3>1, <3>2, <3>3, <2>1, <1>5
  <2>2. CASE hi - lo = 2
    <3>1. Together(C, n, n + 1) /\ n \in 1 .. n + 1
      BY <1>1, <1>2, <1>4
    <3>2. (b = lo2 /\ d = hi2) \/ (d = lo2 /\ b = hi2)
      BY <2>2, <1>5, <1>7
    <3> QED BY <3>1, <3>2, <1>1, <1>2
  <2> QED BY <2>1, <2>2, <1>1
<1>8. Fits(ds, n + 1, C, lo2, hi2)
  <2> HIDE DEF d, b
  <2> QED BY <1>5, <1>6, <1>7 DEF Fits
<1>9. WithinOne(ds, n + 1, C)
  <2> SUFFICES ASSUME NEW i \in 1 .. n + 1, NEW j \in 1 .. n + 1,
                      i <= j, Together(C, i, j)
               PROVE  Distance(ds[i], ds[j]) <= 1
    BY DEF WithinOne
  <2>1. CASE j # n + 1
    <3>1. i \in 1 .. n /\ j \in 1 .. n
      BY <2>1
    <3> QED BY <3>1 DEF WithinOne
  <2>2. CASE j = n + 1
    <3>1. /\ lo2 <= ds[i] /\ ds[i] <= hi2 /\ ds[i] \in Int
          /\ hi2 - lo2 = 2 => ds[i] = lo2 + 1
      BY <1>6, <2>2
    <3>2. hi2 - lo2 = 2 => d = lo2 + 1
      BY <1>3, <1>5
    <3> QED BY <3>1, <3>2, <2>2, <1>1, <1>5 DEF Distance
  <2> QED BY <2>1, <2>2
<1> QED BY <1>8, <1>9

LEMMA GroupKeeps == ASSUME Grouped, Group PROVE Grouped'
<1> DEFINE d == deltas[done + 1]
<1>1. /\ deltas \in Seq(Int) /\ done \in Nat /\ done < Len(deltas)
      /\ cuts \in SUBSET (1 .. done) /\ low \in Int /\ high \in Int
      /\ Fits(deltas, done, cuts, low, high)
      /\ WithinOne(deltas, done, cuts) /\ Maximal(deltas, cuts)
      /\ d \in Int /\ deltas' = deltas /\ done' = done + 1
      /\ done' \in 0 .. Len(deltas)
  BY DEF Grouped, Group
<1>2. CASE d < low \/ d > high
  <2>1. cuts' = cuts \cup {done + 1} /\ low' = d - 1 /\ high' = d + 1
    BY <1>2 DEF Group
  <2>2. cuts' \in SUBSET (1 .. done') /\ low' \in Int /\ high' \in Int
    BY <1>1, <2>1
  <2>3. 1 \in cuts'
    BY <1>1, <2>1 DEF Grouped
  <2> QED BY <1>1, <1>2, <2>1, <2>2, <2>3, CutFits DEF Grouped
<1>3. CASE ~ (d < low \/ d > high)
  <2>1. /\ cuts' = cuts
        /\ IF deltas[done] # d /\ high - low = 2
           THEN IF deltas[done] < d THEN low' = deltas[done] /\ high' = d
                ELSE low' = d /\ high' = deltas[done]
           ELSE low' = low /\ high' = high
    BY <1>3 DEF Group
  <2>2. low <= d /\ d <= high
    BY <1>1, <1>3
  <2>3. done # 0
    BY <1>1, <2>2 DEF Fits
  <2>4. deltas[done] \in Int /\ cuts' \in SUBSET (1 .. done')
    BY <1>1, <2>1, <2>3
  <2>5. low' \in Int /\ high' \in Int /\ 1 \in cuts'
    BY <1>1, <2>1, <2>3, <2>4 DEF Grouped
  <2> QED BY <1>1, <2>1, <2>2, <2>4, <2>5, JoinFits DEF Grouped
<1> QED BY <1>2, <1>3

LEMMA NoGroupsYet ==
    ASSUME NEW ds \in Seq(Int)
    PROVE  /\ Fits(ds, 0, {}, 1, 0) /\ WithinOne(ds, 0, {}) /\ Maximal(ds, {})
BY DEF Fits, WithinOne, Maximal

-----------------------------------------------------------------------------
(* Types *)

OptTyped(o) ==
    /\ DOMAIN o = DOMAIN NoOptions
    /\ o.timecodeFile \in Names \cup {NoFile}
    /\ o.audioTimeDelta \in Int /\ o.requestedTimeScale \in Signed

LEMMA NoOptionsTyped == OptTyped(NoOptions)
<1>1. IntModulus \in Nat \ {0} /\ (IntModulus % 2) = 0
  BY IntModulusAssumption
<1>2. 0 \in Signed
  BY <1>1 DEF Signed
<1> QED BY <1>2 DEF OptTyped, NoOptions

LEMMA SignedInts == ASSUME NEW x \in Int PROVE AsInt(x) \in Signed
<1> DEFINE h == IntModulus \div 2
<1>1. IntModulus \in Nat \ {0} /\ h \in Nat /\ IntModulus = 2 * h
  BY IntModulusAssumption
<1>2. ((x + h) % IntModulus) \in 0 .. IntModulus - 1
  BY <1>1
<1> QED BY <1>1, <1>2 DEF AsInt, Signed

LEMMA StoreTyped ==
    ASSUME NEW o, OptTyped(o), NEW c \in Arguments
    PROVE  OptTyped(Store(o, c))
<1>1. /\ c.ch \in {"i", "o", "p", "t", "r", "x", "c", "d", "A", "T"}
      /\ c.ch \in {"p", "t"} => c.arg \in Names
      /\ c.ch = "A" => c.arg \in Int
      /\ c.ch = "T" => AsInt(c.arg) \in Signed
  BY CommandLinesAssumption, SignedInts
<1>2. CASE c.ch = "i"
  BY <1>2 DEF Store, OptTyped, NoOptions
<1>3. CASE c.ch = "o"
  BY <1>3 DEF Store, OptTyped, NoOptions
<1>4. CASE c.ch = "p"
  BY <1>1, <1>4 DEF Store, OptTyped, NoOptions
<1>5. CASE c.ch = "t"
  BY <1>1, <1>5 DEF Store, OptTyped, NoOptions
<1>6. CASE c.ch = "r"
  BY <1>6 DEF Store, OptTyped, NoOptions
<1>7. CASE c.ch = "x"
  BY <1>7 DEF Store, OptTyped, NoOptions
<1>8. CASE c.ch = "c"
  BY <1>8 DEF Store, OptTyped, NoOptions
<1>9. CASE c.ch = "d"
  BY <1>9 DEF Store, OptTyped, NoOptions
<1>10. CASE c.ch = "A"
  BY <1>1, <1>10 DEF Store, OptTyped, NoOptions
<1>11. CASE c.ch = "T"
  BY <1>1, <1>11 DEF Store, OptTyped, NoOptions
<1> QED
  BY <1>1, <1>2, <1>3, <1>4, <1>5, <1>6, <1>7, <1>8, <1>9, <1>10, <1>11

LEMMA MovieTyped ==
    ASSUME Typed
    PROVE  /\ movie.cts \in Seq(Int) /\ movie.scale \in Nat \ {0}
           /\ movie.audio \in Seq(Nat \ {0}) /\ movie.audioScale \in Nat
           /\ Fraction \in Nat \ {0}
BY MoviesAssumption, FractionAssumption DEF Typed

LEMMA FunctionIsSeq ==
    ASSUME NEW n \in Int, NEW f \in [1 .. n -> Int]
    PROVE  f \in Seq(Int)
<1>1. CASE n \in Nat
  BY <1>1
<1>2. CASE n \notin Nat
  <2>1. 1 .. n = 1 .. 0
    BY <1>2
  <2>2. f \in [1 .. 0 -> Int]
    BY <2>1
  <2> QED BY <2>2
<1> QED BY <1>1, <1>2

LEMMA RoundedTyped == ASSUME NEW x \in Int PROVE Rounded(x) \in Int
<1>1. Fraction \in Nat \ {0}
  BY FractionAssumption
<1>2. /\ 2 * x + Fraction \in Int /\ 2 * Fraction \in Nat \ {0}
      /\ -(2 * x + Fraction) \in Int
  BY <1>1
<1>3. \A y \in Int : y \div (2 * Fraction) \in Int
  BY <1>2
<1> QED BY <1>2, <1>3 DEF Rounded, Truncated

LEMMA DeltasTyped ==
    ASSUME NEW list \in Seq(Int)
    PROVE  Deltas(list) \in Seq(Int)
<1>1. Fraction \in Nat \ {0}
  BY FractionAssumption
<1>2. ASSUME NEW i \in 1 .. Len(list) - 1
      PROVE  Rounded(list[i + 1] - Fraction * Rounded(list[i])) \in Int
  <2>1. list[i] \in Int /\ list[i + 1] \in Int
    OBVIOUS
  <2>2. Rounded(list[i]) \in Int
    BY <2>1, RoundedTyped
  <2>3. list[i + 1] - Fraction * Rounded(list[i]) \in Int
    BY <1>1, <2>1, <2>2
  <2> QED BY <2>3, RoundedTyped
<1>3. Deltas(list) \in [1 .. Len(list) - 1 -> Int]
  BY <1>2 DEF Deltas
<1> QED BY <1>3, FunctionIsSeq

LEMMA PrintedTyped == ASSUME Typed PROVE Printed \in Seq(Int)
<1> DEFINE times == [i \in 1 .. FrameCount |->
          (1000 * Fraction * (movie.cts[i] - movie.cts[1])) \div movie.scale]
<1>1. FrameCount \in Int
  <2>1. movie.cts \in Seq(Int)
    BY MovieTyped, Zenon
  <2> QED BY <2>1 DEF FrameCount
<1>2. ASSUME NEW i \in 1 .. FrameCount
      PROVE  (1000 * Fraction * (movie.cts[i] - movie.cts[1])) \div movie.scale \in Int
  <2>1. movie.cts[i] - movie.cts[1] \in Int
    <3>1. movie.cts \in Seq(Int)
      BY MovieTyped, Zenon
    <3>2. i \in DOMAIN movie.cts /\ 1 \in DOMAIN movie.cts
      BY <3>1 DEF FrameCount
    <3>3. movie.cts[i] \in Int /\ movie.cts[1] \in Int
      BY <3>1, <3>2
    <3> QED BY <3>3
  <2>2. \A x \in Int : 1000 * Fraction * x \in Int
    BY MovieTyped
  <2>3. \A x \in Int : x \div movie.scale \in Int
    BY MovieTyped
  <2> QED BY <2>1, <2>2, <2>3
<1>3. times \in Seq(Int)
  <2>1. times \in [1 .. FrameCount -> Int]
    BY <1>2
  <2> HIDE DEF times
  <2> QED BY <2>1, <1>1, FunctionIsSeq
<1>4. <<Skipped>> \in Seq(Int)
  BY DEF Skipped
<1> QED BY <1>3, <1>4 DEF Printed

LEMMA CompletedTyped ==
    ASSUME timecodes \in Seq(Int)
    PROVE  Completed \in Seq(Int)
<1>1. CASE Len(timecodes) = Wanted - 1 /\ Len(timecodes) >= 2
  <2>1. /\ timecodes[Len(timecodes)] \in Int
        /\ timecodes[Len(timecodes) - 1] \in Int
    BY <1>1
  <2>2. 2 * Last(timecodes) - timecodes[Len(timecodes) - 1] \in Int
    BY <2>1 DEF Last
  <2> QED BY <1>1, <2>2 DEF Completed
<1>2. CASE ~ (Len(timecodes) = Wanted - 1 /\ Len(timecodes) >= 2)
  BY <1>2 DEF Completed
<1> QED BY <1>1, <1>2

LEMMA FixedTyped == ASSUME Typed PROVE FixedCodes \in Seq(Int)
<1>1. fixing.vcts \in Seq(Int) /\ fixing.fixed \in Seq(Int) /\ fixing.diff \in Int
  BY DEF Typed, FixRecord
<1>2. \A n \in DOMAIN fixing.vcts : Fraction * (fixing.vcts[n] + fixing.diff) \in Int
  BY <1>1, MovieTyped
<1>3. [n \in DOMAIN fixing.vcts |-> Fraction * (fixing.vcts[n] + fixing.diff)]
      \in Seq(Int)
  <2>1. DOMAIN fixing.vcts = 1 .. Len(fixing.vcts) /\ Len(fixing.vcts) \in Int
    BY <1>1
  <2>2. [n \in DOMAIN fixing.vcts |-> Fraction * (fixing.vcts[n] + fixing.diff)]
        \in [1 .. Len(fixing.vcts) -> Int]
    BY <1>2, <2>1
  <2> QED BY <2>1, <2>2, FunctionIsSeq
<1> QED BY <1>1, <1>3 DEF FixedCodes

LEMMA KeptTyped ==
    ASSUME Typed
    PROVE  [i \in DOMAIN movie.cts |-> Fraction * (movie.cts[i] - movie.cts[1])]
           \in Seq(Int)
<1>1. \A i \in DOMAIN movie.cts :
          Fraction * (movie.cts[i] - movie.cts[1]) \in Int
  BY MovieTyped
<1>2. DOMAIN movie.cts = 1 .. Len(movie.cts) /\ Len(movie.cts) \in Int
  BY MovieTyped
<1>3. [i \in DOMAIN movie.cts |-> Fraction * (movie.cts[i] - movie.cts[1])]
      \in [1 .. Len(movie.cts) -> Int]
  BY <1>1, <1>2
<1> QED BY <1>2, <1>3, FunctionIsSeq

LEMMA EnterFixTyped ==
    ASSUME Typed, movie.audio # <<>>, EnterFix
    PROVE  fixing' \in FixRecord /\ fixing'.dts > 0
<1>1. Head(movie.audio) \in Nat \ {0}
  BY MovieTyped
<1>2. fixing' = [i |-> 1, dts |-> Head(movie.audio), vcts |-> movie.cts,
                 fixed |-> <<>>, timeDelta |-> 0, diff |-> 0]
  BY DEF EnterFix, NotFixing
<1> QED BY <1>1, <1>2, MovieTyped DEF FixRecord

LEMMA NextSampleTyped ==
    ASSUME Typed, fixing.dts > 0, NextSample
    PROVE  fixing' \in FixRecord /\ fixing'.dts > 0
<1>1. fixing.i \in Nat /\ fixing.dts \in Nat
  BY DEF Typed, FixRecord
<1> DEFINE more == IF fixing.i < Len(movie.audio)
                   THEN movie.audio[fixing.i + 1] ELSE 0
<1>2. more \in Nat
  BY <1>1, MovieTyped
<1>3. fixing' = [fixing EXCEPT !.i = @ + 1, !.dts = @ + more]
  BY DEF NextSample
<1> HIDE DEF more
<1>4. /\ fixing.i + 1 \in Nat /\ fixing.dts + more \in Nat
      /\ fixing.dts + more > 0
  BY <1>1, <1>2
<1>5. fixing \in FixRecord
  BY DEF Typed
<1>6. fixing'.i = fixing.i + 1 /\ fixing'.dts = fixing.dts + more
  BY <1>3, <1>5 DEF FixRecord
<1>7. fixing' \in FixRecord
  BY <1>3, <1>4, <1>5 DEF FixRecord
<1> QED BY <1>4, <1>6, <1>7

LEMMA WholeTyped == ASSUME NEW x \in Int PROVE WholeTicks(x) \in Int
BY FractionAssumption DEF WholeTicks

LEMMA FixCodeTyped ==
    ASSUME Typed, fixing.dts > 0, NEW delta \in Int, FixCode(delta)
    PROVE  fixing' \in FixRecord /\ fixing'.dts > 0
<1> DEFINE vcts  == Head(fixing.vcts)
           new   == (Fraction * vcts * delta * fixing.i) \div fixing.dts
           fixed == fixing.fixed
           step  == IF fixing.timeDelta = 0 THEN new - Last(fixed)
                    ELSE Smoothed(new, Last(fixed), fixing.timeDelta)
           diff  == WholeTicks(new - Fraction * vcts)
           moved == [fixing EXCEPT !.vcts = Tail(@), !.diff = diff]
<1>1. /\ fixing \in FixRecord /\ fixing.i \in Nat /\ fixing.dts \in Nat \ {0}
      /\ fixed \in Seq(Int) /\ fixing.vcts \in Seq(Int) /\ fixing.timeDelta \in Int
      /\ fixing.vcts # <<>>
  BY DEF Typed, FixRecord, FixCode, Heard
<1>2. vcts \in Int /\ Tail(fixing.vcts) \in Seq(Int)
  BY <1>1
<1>3. Fraction * vcts \in Int /\ Fraction * vcts * delta * fixing.i \in Int
  <2>1. Fraction \in Int
    BY FractionAssumption
  <2>2. \A x, y \in Int : x * y \in Int
    OBVIOUS
  <2>3. Fraction * vcts \in Int
    BY <1>2, <2>1, <2>2
  <2>4. Fraction * vcts * delta \in Int
    BY <2>2, <2>3
  <2> QED BY <1>1, <2>2, <2>3, <2>4
<1>4. new \in Int
  <2>1. \A x \in Int : x \div fixing.dts \in Int
    BY <1>1
  <2> QED BY <1>3, <2>1
<1>5. diff \in Int
  <2>1. new - Fraction * vcts \in Int
    BY <1>3, <1>4
  <2> QED BY <2>1, WholeTyped
<1>6. moved \in FixRecord /\ moved.dts = fixing.dts
  <2> HIDE DEF diff
  <2> QED BY <1>1, <1>2, <1>5 DEF FixRecord
<1>7. CASE fixed = <<>>
  <2>1. fixing' = [moved EXCEPT !.fixed = <<new>>]
    BY <1>7 DEF FixCode
  <2>2. <<new>> \in Seq(Int)
    BY <1>4
  <2> HIDE DEF new, moved
  <2> QED BY <1>1, <1>6, <2>1, <2>2 DEF FixRecord
<1>8. CASE fixed # <<>>
  <2>1. fixing' = [moved EXCEPT !.timeDelta = step,
                                !.fixed = Append(@, Last(@) + step)]
    BY <1>8 DEF FixCode
  <2>2. Last(fixed) \in Int
    BY <1>1, <1>8 DEF Last
  <2>3. step \in Int
    <3>1. \A x, d \in Int : (x \div 5) + (4 * d) \div 5 \in Int
      OBVIOUS
    <3>2. new - Last(fixed) \in Int /\ fixing.timeDelta \in Int
      <4> HIDE DEF new
      <4> QED BY <1>1, <1>4, <2>2
    <3> HIDE DEF new
    <3> QED BY <3>1, <3>2, Zenon DEF Smoothed
  <2>4. moved.fixed = fixed
    BY <1>1 DEF FixRecord
  <2>5. Append(fixed, Last(fixed) + step) \in Seq(Int)
    <3> HIDE DEF step
    <3> QED BY <1>1, <2>2, <2>3
  <2> HIDE DEF step, moved
  <2> QED BY <1>1, <1>6, <2>1, <2>3, <2>4, <2>5 DEF FixRecord
<1> QED BY <1>7, <1>8

(* One lemma for the steps that change what is typed *)

LEMMA ParseTyped ==
    ASSUME Typed, Load \/ ParseLine \/ ParseEnd
    PROVE  Typed'
<1>1. CASE Load
  <2>1. opt.timecodeFile \in Names
    BY <1>1 DEF Load, Typed
  <2>2. texts[opt.timecodeFile] \in Seq(Int)
    BY <2>1 DEF Typed
  <2> QED BY <1>1, <2>2 DEF Load, Kept, Typed, Collecting, codes
<1>2. CASE ParseLine
  <2>1. lines \in Seq(Int) /\ lines # <<>> /\ pc = "parse" /\ timecodes \in Seq(Int)
    BY <1>2 DEF ParseLine, Reading, Typed, Collecting
  <2>2. Tail(lines) \in Seq(Int) /\ Append(timecodes, Head(lines)) \in Seq(Int)
    BY <2>1
  <2>3. lines' \in Seq(Int) /\ timecodes' \in Seq(Int)
    BY <1>2, <2>1, <2>2 DEF ParseLine
  <2>4. pc' # "load" /\ pc' # "fixing"
    BY <1>2, <2>1 DEF ParseLine
  <2> QED BY <1>2, <2>3, <2>4 DEF ParseLine, Kept, Typed
<1>3. CASE ParseEnd
  <2>1. timecodes \in Seq(Int)
    BY <1>3 DEF ParseEnd, Typed, Collecting
  <2>2. timecodes' \in Seq(Int)
    BY <1>3, <2>1, CompletedTyped DEF ParseEnd
  <2>3. pc' # "load" /\ pc' # "fixing"
    BY <1>3 DEF ParseEnd, Average
  <2> QED BY <1>3, <2>2, <2>3 DEF ParseEnd, Kept, Typed, input
<1> QED BY <1>1, <1>2, <1>3

LEMMA TimesTyped ==
    ASSUME Typed, KeepTimes \/ BeginFix \/ Fix \/ EndFix
    PROVE  Typed'
<1>1. CASE KeepTimes
  BY <1>1, KeptTyped DEF KeepTimes, Kept, Typed, Average, input
<1>2. CASE BeginFix
  <2>1. CASE movie.audio = <<>>
    BY <1>2, <2>1 DEF BeginFix, Kept, Typed, Collecting, input, codes
  <2>2. CASE movie.audio # <<>>
    <3>1. pc' = "fixing" /\ fixing' \in FixRecord /\ fixing'.dts > 0
      BY <1>2, <2>2, EnterFixTyped DEF BeginFix
    <3> QED BY <1>2, <3>1 DEF BeginFix, Kept, Typed, Collecting, input, codes
  <2> QED BY <2>1, <2>2
<1>3. CASE Fix
  <2>1. fixing.dts > 0 /\ opt.audioTimeDelta \in Int
    BY <1>3 DEF Fix, Typed
  <2>2. fixing' \in FixRecord /\ fixing'.dts > 0
    BY <1>3, <2>1, FixCodeTyped, NextSampleTyped DEF Fix
  <2> QED BY <1>3, <2>2 DEF Fix, Kept, Typed, Collecting, input, codes
<1>4. CASE EndFix
  BY <1>4, FixedTyped DEF EndFix, Kept, Typed, Average, input
<1> QED BY <1>1, <1>2, <1>3, <1>4

LEMMA TypedKeeps == ASSUME Typed, [Next]_vars PROVE Typed'
<1>1. CASE GetOpt
  <2>1. args \in Seq(Arguments) /\ args # <<>>
    BY <1>1 DEF GetOpt, Typed
  <2>2. Head(args) \in Arguments /\ Tail(args) \in Seq(Arguments)
    BY <2>1
  <2>3. OptTyped(opt)
    BY DEF Typed, OptTyped
  <2>4. OptTyped(opt')
    BY <1>1, <2>2, <2>3, StoreTyped DEF GetOpt
  <2> QED BY <1>1, <2>2, <2>4
          DEF GetOpt, Kept, Typed, OptTyped, Collecting, codes
<1>2. CASE CheckOptions
  BY <1>2 DEF CheckOptions, Kept, Typed, Collecting, codes, input
<1>3. CASE Begin
  BY <1>3 DEF Begin, Kept, Typed, Collecting, codes, input
<1>4. CASE PrintTimeCodes
  <2>1. texts' \in [Names -> Seq(Int)]
    BY <1>4, PrintedTyped DEF PrintTimeCodes, Typed
  <2> QED BY <1>4, <2>1 DEF PrintTimeCodes, Typed, Collecting, codes
<1>5. CASE PrintFails
  BY <1>5 DEF PrintFails, Kept, Typed, Collecting, codes, input
<1>6. CASE Load \/ ParseLine \/ ParseEnd
  BY <1>6, ParseTyped
<1>7. CASE KeepTimes \/ BeginFix \/ Fix \/ EndFix
  BY <1>7, TimesTyped
<1>8. CASE EnterAverage
  BY <1>8 DEF EnterAverage, Kept, Typed, Collecting, input
<1>9. CASE GroupDelta
  BY <1>9 DEF GroupDelta, Kept, Typed, Collecting, input
<1>10. CASE LeaveAverage
  BY <1>10 DEF LeaveAverage, Kept, Typed, Collecting, input
<1>11. CASE ConvertToExactRanges
  BY <1>11 DEF ConvertToExactRanges, Kept, Typed, Collecting, input, NoOptions
<1>12. CASE SetFPS
  BY <1>12 DEF SetFPS, Kept, Typed, Collecting, input
<1>13. CASE SetTimeCodes
  BY <1>13 DEF SetTimeCodes, Kept, Typed, Collecting, input
<1>14. CASE Save
  BY <1>14 DEF Save, Kept, Typed, Collecting, input
<1>15. CASE Again
  <2>1. args' \in Seq(Arguments)
    BY <1>15, CommandLinesAssumption DEF Again
  <2>2. OptTyped(opt')
    BY <1>15, NoOptionsTyped DEF Again
  <2>3. NotFixing \in FixRecord
    BY DEF NotFixing, FixRecord
  <2>4. /\ fixing' \in FixRecord /\ lines' \in Seq(Int) /\ timecodes' \in Seq(Int)
        /\ pc' = "getopt" /\ movie' = movie /\ texts' = texts
    BY <1>15, <2>3 DEF Again
  <2> QED BY <2>1, <2>2, <2>4 DEF Typed, OptTyped
<1>16. CASE UNCHANGED vars
  BY <1>16 DEF vars, Typed, codes, input
<1> QED
  BY <1>1, <1>2, <1>3, <1>4, <1>5, <1>6, <1>7, <1>8, <1>9, <1>10, <1>11, <1>12,
     <1>13, <1>14, <1>15, <1>16 DEF Next

-----------------------------------------------------------------------------
(* Grouping *)

LEMMA GroupedKeeps == ASSUME Typed, Grouped, [Next]_vars PROVE Grouped'
<1>1. CASE UNCHANGED grouping
  BY <1>1 DEF grouping, Grouped
<1>2. CASE GroupDelta
  BY <1>2, GroupKeeps DEF GroupDelta
<1>3. CASE EnterAverage
  <2>1. deltas' \in Seq(Int)
    BY <1>3, DeltasTyped DEF EnterAverage, BeginAverage, Typed, Collecting
  <2>2. cuts' = {} /\ low' = 1 /\ high' = 0 /\ done' = 0
    BY <1>3 DEF EnterAverage, BeginAverage
  <2> QED BY <2>1, <2>2, NoGroupsYet DEF Grouped
<1>4. CASE Again
  <2>1. cuts' = {} /\ low' = 1 /\ high' = 0 /\ done' = 0
    BY <1>4 DEF Again, ForgetGroups
  <2>2. deltas' \in Seq(Int)
    BY <1>4 DEF Again, ForgetGroups
  <2> QED BY <2>1, <2>2, NoGroupsYet DEF Grouped
<1>5. [Next]_vars => UNCHANGED grouping \/ GroupDelta \/ EnterAverage \/ Again
  BY DEF Next, vars, codes, grouping, GetOpt, CheckOptions, Begin, PrintTimeCodes,
         PrintFails, Load, ParseLine, ParseEnd, KeepTimes, BeginFix, Fix, EndFix,
         LeaveAverage, EndAverage, ConvertToExactRanges, SetFPS, SetTimeCodes, Save
<1> QED BY <1>1, <1>2, <1>3, <1>4, <1>5

LEMMA GroupedIsEnough ==
    ASSUME Grouped
    PROVE  GroupsWithinOne /\ GroupsAreMaximal
BY DEF Grouped, WithinOne, Maximal, GroupsWithinOne, GroupsAreMaximal

-----------------------------------------------------------------------------
(* Literal codes *)

LEMMA AppendIncreasing ==
    ASSUME NEW list \in Seq(Int), Increasing(list), NEW x \in Int,
           list # <<>> => x > Last(list)
    PROVE  Append(list, x) \in Seq(Int) /\ Increasing(Append(list, x))
<1> DEFINE longer == Append(list, x)
<1>1. /\ longer \in Seq(Int) /\ Len(longer) = Len(list) + 1
      /\ \A i \in 1 .. Len(list) : longer[i] = list[i]
      /\ longer[Len(list) + 1] = x
  OBVIOUS
<1>2. ASSUME NEW i \in 1 .. Len(list) PROVE longer[i] < longer[i + 1]
  <2>1. CASE i = Len(list)
    <3>1. list # <<>> /\ Last(list) = list[i]
      BY <2>1 DEF Last
    <3> QED BY <3>1, <2>1, <1>1
  <2>2. CASE i # Len(list)
    <3>1. i \in 1 .. Len(list) - 1 /\ i + 1 \in 1 .. Len(list)
      BY <2>2
    <3>2. list[i] < list[i + 1]
      BY <3>1 DEF Increasing
    <3> QED BY <3>1, <3>2, <1>1
  <2> QED BY <2>1, <2>2
<1>3. Len(longer) - 1 = Len(list)
  BY <1>1
<1> QED BY <1>1, <1>2, <1>3 DEF Increasing

LEMMA CompletedIncreases ==
    ASSUME timecodes \in Seq(Int), Increasing(timecodes)
    PROVE  Completed \in Seq(Int) /\ Increasing(Completed)
<1>1. CASE Len(timecodes) = Wanted - 1 /\ Len(timecodes) >= 2
  <2> DEFINE n == Len(timecodes)
  <2>1. /\ n \in Nat /\ n - 1 \in 1 .. n - 1 /\ timecodes # <<>>
        /\ timecodes[n] \in Int /\ timecodes[n - 1] \in Int
        /\ Last(timecodes) = timecodes[n]
    BY <1>1 DEF Last
  <2>2. timecodes[n - 1] < timecodes[n]
    BY <2>1 DEF Increasing
  <2>3. /\ 2 * Last(timecodes) - timecodes[n - 1] \in Int
        /\ 2 * Last(timecodes) - timecodes[n - 1] > Last(timecodes)
    BY <2>1, <2>2
  <2> QED BY <1>1, <2>3, AppendIncreasing DEF Completed
<1>2. CASE ~ (Len(timecodes) = Wanted - 1 /\ Len(timecodes) >= 2)
  BY <1>2 DEF Completed
<1> QED BY <1>1, <1>2

LEMMA LiteralParse ==
    ASSUME Typed, Literal, Load \/ ParseLine \/ ParseEnd
    PROVE  Literal'
<1>1. CASE Load
  BY <1>1 DEF Load, Kept, Literal, LiteralCodesIncrease, Got, FromFile,
              Collecting, codes, Increasing
<1>2. CASE ParseLine
  <2>1. /\ lines \in Seq(Int) /\ lines # <<>> /\ pc = "parse"
        /\ timecodes \in Seq(Int) /\ Increasing(timecodes)
    BY <1>2 DEF ParseLine, Reading, Typed, Literal
  <2>2. timecodes' \in Seq(Int) /\ Increasing(timecodes') /\ pc' \in {"parse", "failed"}
    <3>1. CASE timecodes' = timecodes
      BY <1>2, <2>1, <3>1 DEF ParseLine
    <3>2. CASE timecodes' # timecodes
      <4>1. /\ timecodes' = Append(timecodes, Head(lines)) /\ pc' = pc
            /\ timecodes # <<>> => Head(lines) > Last(timecodes)
        BY <1>2, <3>2 DEF ParseLine, Taken
      <4> QED BY <2>1, <4>1, AppendIncreasing
    <3> QED BY <3>1, <3>2
  <2> QED BY <1>2, <2>1, <2>2 DEF ParseLine, Kept, Literal, LiteralCodesIncrease,
                                  Got, FromFile, Collecting
<1>3. CASE ParseEnd
  <2>1. timecodes \in Seq(Int) /\ Increasing(timecodes) /\ pc = "parse"
    BY <1>3 DEF ParseEnd, Literal
  <2>2. timecodes' \in Seq(Int) /\ Increasing(timecodes')
    BY <1>3, <2>1, CompletedIncreases DEF ParseEnd
  <2>3. /\ pc' \in {"failed", "average", "rescale"}
        /\ pc' = "average" => opt.optimizeTimecode
    BY <1>3 DEF ParseEnd, Average
  <2> QED BY <1>3, <2>1, <2>2, <2>3 DEF ParseEnd, Kept, Literal,
                 LiteralCodesIncrease, Got, FromFile, Collecting
<1> QED BY <1>1, <1>2, <1>3

LEMMA LiteralKeeps == ASSUME Typed, Literal, [Next]_vars PROVE Literal'
<1> USE DEF Literal, LiteralCodesIncrease, Got, FromFile, Collecting
<1>1. CASE GetOpt
  BY <1>1 DEF GetOpt, Kept, codes
<1>2. CASE CheckOptions
  BY <1>2 DEF CheckOptions, Kept, codes
<1>3. CASE Begin
  BY <1>3 DEF Begin, Kept, codes
<1>4. CASE PrintTimeCodes \/ PrintFails
  BY <1>4 DEF PrintTimeCodes, PrintFails, Kept, codes
<1>5. CASE Load \/ ParseLine \/ ParseEnd
  BY <1>5, LiteralParse
<1>6. CASE KeepTimes
  BY <1>6 DEF KeepTimes, Kept, Average
<1>7. CASE BeginFix
  BY <1>7 DEF BeginFix, Kept, codes
<1>8. CASE Fix
  BY <1>8 DEF Fix, Kept, codes
<1>9. CASE EndFix
  BY <1>9 DEF EndFix, Kept, Average, Nothing
<1>10. CASE EnterAverage
  BY <1>10 DEF EnterAverage, Kept
<1>11. CASE GroupDelta
  BY <1>11 DEF GroupDelta, Kept
<1>12. CASE LeaveAverage
  BY <1>12 DEF LeaveAverage, Kept
<1>13. CASE ConvertToExactRanges
  BY <1>13 DEF ConvertToExactRanges, Kept, codes, Typed, NoOptions
<1>14. CASE SetFPS
  BY <1>14 DEF SetFPS, Kept, codes, Nothing
<1>15. CASE SetTimeCodes
  BY <1>15 DEF SetTimeCodes, Kept, Nothing, Increasing
<1>16. CASE Save
  BY <1>16 DEF Save, Kept, codes
<1>17. CASE Again
  BY <1>17 DEF Again, Nothing
<1>18. CASE UNCHANGED vars
  BY <1>18 DEF vars, codes
<1> QED
  BY <1>1, <1>2, <1>3, <1>4, <1>5, <1>6, <1>7, <1>8, <1>9, <1>10, <1>11, <1>12,
     <1>13, <1>14, <1>15, <1>16, <1>17, <1>18 DEF Next

-----------------------------------------------------------------------------
(* The invariant holds *)

Inv == Typed /\ Grouped /\ Literal

LEMMA InitInv == Init => Inv
<1> SUFFICES ASSUME Init PROVE Inv
  OBVIOUS
<1>1. Typed
  <2>1. /\ movie \in Movies /\ args \in Seq(Arguments) /\ opt = NoOptions
        /\ fixing = NotFixing /\ lines = <<>> /\ timecodes = <<>> /\ pc = "getopt"
    BY CommandLinesAssumption DEF Init
  <2>2. texts \in [Names -> Seq(Int)]
    <3>1. PICK t \in TimeCodeFiles :
              texts = [n \in Names |-> IF n = "codes" THEN t ELSE Missing]
      BY DEF Init
    <3>2. t \in Seq(Int) /\ Missing \in Seq(Int)
      BY TimeCodeFilesAssumption DEF Missing
    <3> QED BY <3>1, <3>2
  <2>3. OptTyped(opt)
    BY <2>1, NoOptionsTyped
  <2>4. fixing \in FixRecord
    BY <2>1 DEF NotFixing, FixRecord
  <2>5. lines \in Seq(Int) /\ timecodes \in Seq(Int) /\ pc # "load" /\ pc # "fixing"
    BY <2>1
  <2> QED BY <2>1, <2>2, <2>3, <2>4, <2>5 DEF Typed, OptTyped
<1>2. Grouped
  <2>1. deltas \in Seq(Int) /\ cuts = {} /\ low = 1 /\ high = 0 /\ done = 0
    BY DEF Init, NoGroups
  <2> QED BY <2>1, NoGroupsYet DEF Grouped
<1>3. Literal
  BY DEF Init, Literal, Nothing, LiteralCodesIncrease, Got, FromFile, Collecting
<1> QED BY <1>1, <1>2, <1>3 DEF Inv

LEMMA InvHolds == Spec => []Inv
<1>1. Inv /\ [Next]_vars => Inv'
  BY TypedKeeps, GroupedKeeps, LiteralKeeps DEF Inv
<1> QED BY <1>1, InitInv, PTL DEF Spec

(***************************************************************************)
(* Two deltas of one group of option -x differ by one at most, whatever    *)
(* the frame times and however many of them: groupbyAdjacent narrows its   *)
(* window in time (main.cpp:104).                                          *)
(***************************************************************************)
THEOREM GroupsHoldNeighbours == Spec => []GroupsWithinOne
<1>1. Inv => GroupsWithinOne
  BY GroupedIsEnough DEF Inv
<1> QED BY <1>1, InvHolds, PTL

(***************************************************************************)
(* A group ends only before a delta that is too far from one of its own.   *)
(***************************************************************************)
THEOREM GroupsAreLargest == Spec => []GroupsAreMaximal
<1>1. Inv => GroupsAreMaximal
  BY GroupedIsEnough DEF Inv
<1> QED BY <1>1, InvHolds, PTL

(***************************************************************************)
(* For every time code file, the codes the track editor is given without   *)
(* -x increase, the one that is added for the end of the movie as well.    *)
(***************************************************************************)
THEOREM LiteralCodesAreInOrder == Spec => []LiteralCodesIncrease
<1>1. Inv => LiteralCodesIncrease
  BY DEF Inv, Literal
<1> QED BY <1>1, InvHolds, PTL

-----------------------------------------------------------------------------
(* Options *)

\* the letters of the options of the line c, of which those of a are not read
Letters(c, a) == {c[k].ch : k \in 1 .. Len(c) - Len(a)}

\* what the options say of the letters read, and the letters of the options
Told(o, S) ==
    /\ "p" \in S <=> o.printOnly
    /\ {"t", "p"} \cap S # {} <=> o.timecodeFile # NoFile
    /\ "x" \in S <=> o.optimizeTimecode
    /\ "c" \in S <=> o.compressDTS
    /\ "r" \in S => o.ranges # <<>> \/ o.optimizeTimecode
    /\ o.ranges # <<>> => {"r", "x"} \cap S # {}
    /\ o.audioDelay # 0 => "d" \in S
    /\ o.requestedTimeScale > 0 => "T" \in S
    /\ o.audioTimeDelta > 0 => "A" \in S

RangesTyped(o) == o.ranges \in Seq({c.arg : c \in Arguments}) \/ o.optimizeTimecode

Read == Letters(command, args)

Editing == {"t", "r", "x", "c", "d", "T", "A"}
Wished  == Editing \cap Read # {}

\* the steps that lead to new times
Timing == {"load", "parse", "keep", "fix", "fixing", "average", "group",
           "convert", "rescale", "SetFPS"}

\* the options not read are the last ones of the line
Rest ==
    /\ command \in Seq(Arguments) /\ args \in Seq(Arguments)
    /\ Len(args) <= Len(command)
    /\ \A j \in 1 .. Len(args) : args[j] = command[Len(command) - Len(args) + j]
    /\ pc # "getopt" => args = <<>>

Retimed == given.codes # <<>> \/ given.ranges # <<>>

\* the movie has frames, and is edited where an option says so
Purpose ==
    /\ DOMAIN opt = DOMAIN NoOptions /\ DOMAIN given = DOMAIN Nothing
    /\ Told(opt, Read)
    /\ RangesTyped(opt)
    /\ pc \in Timing => /\ Wished /\ ~ opt.printOnly /\ movie.cts # <<>>
    /\ pc \in {"save", "edited", "copied"} => ~ opt.printOnly
    /\ pc = "save" => \/ Wished /\ Retimed /\ modified
                      \/ ~ modified /\ opt.timecodeFile = NoFile
    /\ pc = "SetFPS" => opt.ranges # <<>> \/ opt.optimizeTimecode
    /\ pc = "edited" => Wished /\ Retimed
    /\ pc = "copied" => ~ modified /\ opt.timecodeFile = NoFile

LEMMA ReadMore ==
    ASSUME NEW c \in Seq(Arguments), NEW a \in Seq(Arguments), a # <<>>,
           Len(a) <= Len(c),
           \A j \in 1 .. Len(a) : a[j] = c[Len(c) - Len(a) + j]
    PROVE  /\ Letters(c, Tail(a)) = Letters(c, a) \cup {Head(a).ch}
           /\ Len(Tail(a)) <= Len(c)
           /\ \A j \in 1 .. Len(Tail(a)) :
                 Tail(a)[j] = c[Len(c) - Len(Tail(a)) + j]
<1> DEFINE n == Len(c) - Len(a)
<1>1. /\ n \in Nat /\ Len(Tail(a)) = Len(a) - 1 /\ Len(a) \in Nat \ {0}
      /\ Len(c) - Len(Tail(a)) = n + 1 /\ Len(c) \in Nat
  OBVIOUS
<1>2. Head(a) = c[n + 1]
  <2>1. Head(a) = a[1] /\ 1 \in 1 .. Len(a)
    BY <1>1
  <2> QED BY <2>1
<1>3. \A j \in 1 .. Len(Tail(a)) : Tail(a)[j] = c[n + 1 + j]
  <2> SUFFICES ASSUME NEW j \in 1 .. Len(Tail(a))
               PROVE  Tail(a)[j] = c[n + 1 + j]
    OBVIOUS
  <2>1. Tail(a)[j] = a[j + 1] /\ j + 1 \in 1 .. Len(a) /\ n + (j + 1) = n + 1 + j
    BY <1>1
  <2>2. a[j + 1] = c[n + (j + 1)]
    BY <2>1
  <2> QED BY <2>1, <2>2
<1> HIDE DEF n
<1>4. 1 .. n + 1 = (1 .. n) \cup {n + 1}
  BY <1>1
<1>5. {c[k].ch : k \in 1 .. n + 1} = {c[k].ch : k \in 1 .. n} \cup {c[n + 1].ch}
  BY <1>4
<1>6. Letters(c, Tail(a)) = {c[k].ch : k \in 1 .. n + 1}
  BY <1>1 DEF Letters
<1>7. Letters(c, a) = {c[k].ch : k \in 1 .. n}
  BY DEF Letters, n
<1> QED BY <1>1, <1>2, <1>3, <1>5, <1>6, <1>7

LEMMA StoreTold ==
    ASSUME NEW o, DOMAIN o = DOMAIN NoOptions, RangesTyped(o),
           NEW S, Told(o, S), NEW c \in Arguments
    PROVE  /\ DOMAIN Store(o, c) = DOMAIN NoOptions
           /\ RangesTyped(Store(o, c))
           /\ Told(Store(o, c), S \cup {c.ch})
<1> DEFINE n == Store(o, c)
           N == S \cup {c.ch}
<1>1. /\ c.ch \in {"i", "o", "p", "t", "r", "x", "c", "d", "A", "T"}
      /\ c.ch \in {"p", "t"} => c.arg \in Names
      /\ NoFile \notin Names
  BY CommandLinesAssumption DEF NoFile, Names
<1>2. DOMAIN n = DOMAIN NoOptions /\ RangesTyped(n) /\ Told(n, N)
  <2>2. CASE c.ch = "i"
    BY <2>2 DEF Store, RangesTyped, Told, NoOptions
  <2>3. CASE c.ch = "o"
    BY <2>3 DEF Store, RangesTyped, Told, NoOptions
  <2>4. CASE c.ch = "p"
    BY <1>1, <2>4 DEF Store, RangesTyped, Told, NoOptions
  <2>5. CASE c.ch = "t"
    BY <1>1, <2>5 DEF Store, RangesTyped, Told, NoOptions
  <2>6. CASE c.ch = "r"
    <3>1. n = [o EXCEPT !.ranges = Append(o.ranges, c.arg)]
      BY <2>6 DEF Store
    <3>2. /\ n.ranges = Append(o.ranges, c.arg)
          /\ DOMAIN n = DOMAIN NoOptions
          /\ n.printOnly = o.printOnly /\ n.timecodeFile = o.timecodeFile
          /\ n.optimizeTimecode = o.optimizeTimecode
          /\ n.compressDTS = o.compressDTS /\ n.audioDelay = o.audioDelay
          /\ n.requestedTimeScale = o.requestedTimeScale
          /\ n.audioTimeDelta = o.audioTimeDelta
      BY <3>1 DEF NoOptions
    <3>3. ~ o.optimizeTimecode => /\ n.ranges \in Seq({d.arg : d \in Arguments})
                                  /\ n.ranges # <<>>
      BY <3>2 DEF RangesTyped
    <3> HIDE DEF n
    <3> QED BY <2>6, <3>2, <3>3 DEF RangesTyped, Told
  <2>7. CASE c.ch = "x"
    BY <2>7 DEF Store, RangesTyped, Told, NoOptions
  <2>8. CASE c.ch = "c"
    BY <2>8 DEF Store, RangesTyped, Told, NoOptions
  <2>9. CASE c.ch = "d"
    BY <2>9 DEF Store, RangesTyped, Told, NoOptions
  <2>10. CASE c.ch = "A"
    BY <2>10 DEF Store, RangesTyped, Told, NoOptions
  <2>11. CASE c.ch = "T"
    BY <2>11 DEF Store, RangesTyped, Told, NoOptions
  <2> QED
    BY <1>1, <2>2, <2>3, <2>4, <2>5, <2>6, <2>7, <2>8, <2>9, <2>10, <2>11
<1> QED BY <1>2

LEMMA NothingTold ==
    ASSUME NEW c \in Seq(Arguments)
    PROVE  /\ Letters(c, c) = {} /\ Told(NoOptions, {}) /\ RangesTyped(NoOptions)
           /\ \A j \in 1 .. Len(c) : c[j] = c[Len(c) - Len(c) + j]
<1>1. Len(c) \in Nat /\ Len(c) - Len(c) = 0
  OBVIOUS
<1>2. Letters(c, c) = {}
  BY <1>1 DEF Letters
<1>3. Told(NoOptions, {}) /\ RangesTyped(NoOptions)
  BY DEF Told, NoOptions, RangesTyped
<1> QED BY <1>1, <1>2, <1>3

LEMMA RestKeeps == ASSUME Rest, [Next]_vars PROVE Rest'
<1>1. CASE GetOpt
  <2>1. /\ args # <<>> /\ args' = Tail(args) /\ command' = command
        /\ pc' = pc /\ pc = "getopt"
    BY <1>1 DEF GetOpt, Kept
  <2> QED BY <2>1, ReadMore DEF Rest
<1>2. CASE Again
  <2>1. args' \in Seq(Arguments) /\ command' = args' /\ pc' = "getopt"
    BY <1>2, CommandLinesAssumption DEF Again
  <2> QED BY <2>1, NothingTold DEF Rest
<1>3. CASE CheckOptions
  BY <1>3 DEF CheckOptions, Kept, input, Rest
<1>4. CASE UNCHANGED <<args, command>> /\ (pc # "getopt" \/ pc' = pc)
  BY <1>4 DEF Rest
<1>5. [Next]_vars => GetOpt \/ Again \/ CheckOptions
                     \/ (UNCHANGED <<args, command>> /\ (pc # "getopt" \/ pc' = pc))
  <2>1. Begin \/ PrintTimeCodes \/ PrintFails \/ Load \/ ParseLine \/ ParseEnd
        => UNCHANGED <<args, command>> /\ pc # "getopt"
    BY DEF Kept, input, Begin, PrintTimeCodes, PrintFails, Load, ParseLine,
           Reading, ParseEnd
  <2>2. KeepTimes \/ BeginFix \/ Fix \/ EndFix \/ EnterAverage \/ GroupDelta
        => UNCHANGED <<args, command>> /\ pc # "getopt"
    BY DEF Kept, input, KeepTimes, BeginFix, Fix, EndFix, EnterAverage, GroupDelta
  <2>3. LeaveAverage \/ ConvertToExactRanges \/ SetFPS \/ SetTimeCodes \/ Save
        => UNCHANGED <<args, command>> /\ pc # "getopt"
    BY DEF Kept, input, LeaveAverage, ConvertToExactRanges, SetFPS, SetTimeCodes,
           Save
  <2>4. UNCHANGED vars => UNCHANGED <<args, command>> /\ pc' = pc
    BY DEF vars, input
  <2> QED BY <2>1, <2>2, <2>3, <2>4 DEF Next
<1> QED BY <1>1, <1>2, <1>3, <1>4, <1>5

\* the program refuses a movie without a picture, and a picture has a frame
Pictured == \A m \in Movies : Len(m.cts) # 1

LEMMA NoFramesIn == Frames(<<>>) = 0
<1> DEFINE it == CHOOSE f : f = [s \in SUBSET (DOMAIN <<>>) |->
                                   IF s = {} THEN 0
                                   ELSE f[s \ {Max(s)}] + <<>>[Max(s)].numFrames]
           g  == [s \in SUBSET (DOMAIN <<>>) |-> 0]
<1>1. DOMAIN <<>> = {}
  OBVIOUS
<1>2. \A s \in SUBSET (DOMAIN <<>>) : s = {}
  BY <1>1
<1>3. g = [s \in SUBSET (DOMAIN <<>>) |->
             IF s = {} THEN 0 ELSE g[s \ {Max(s)}] + <<>>[Max(s)].numFrames]
  BY <1>2
<1>4. it = [s \in SUBSET (DOMAIN <<>>) |->
              IF s = {} THEN 0 ELSE it[s \ {Max(s)}] + <<>>[Max(s)].numFrames]
  <2> HIDE DEF g
  <2> QED BY <1>3, Zenon
<1>5. Frames(<<>>) = it[DOMAIN <<>>]
  BY Zenon DEF Frames, FoldLeft, MapThenFoldSet
<1> HIDE DEF it
<1>6. DOMAIN <<>> \in SUBSET (DOMAIN <<>>)
  OBVIOUS
<1>7. it[DOMAIN <<>>] = 0
  BY <1>1, <1>4, <1>6
<1> QED BY <1>5, <1>7

\* frame rates for a movie with frames are not none
LEMMA RangesGiven ==
    ASSUME Typed, Pictured, movie.cts # <<>>, NEW ranges,
           Frames(ranges) % IntModulus = FrameCount
    PROVE  ranges # <<>>
<1>1. movie.cts \in Seq(Int) /\ Len(movie.cts) # 1
  BY MovieTyped DEF Typed, Pictured
<1>2. FrameCount # 0
  BY <1>1 DEF FrameCount
<1>3. 0 % IntModulus = 0
  BY IntModulusAssumption
<1> QED BY <1>2, <1>3, NoFramesIn

LEMMA PurposeGetOpt == ASSUME Rest, Purpose, GetOpt PROVE Purpose'
<1>1. /\ args # <<>> /\ args' = Tail(args) /\ command' = command
      /\ opt' = Store(opt, Head(args)) /\ pc = "getopt" /\ pc' = pc
      /\ given' = given
  BY DEF GetOpt, Kept
<1>2. Head(args) \in Arguments
  BY <1>1 DEF Rest
<1>3. Read' = Read \cup {Head(args).ch}
  <2>1. Letters(command, Tail(args)) = Letters(command, args) \cup {Head(args).ch}
    BY <1>1, ReadMore DEF Rest
  <2>2. Read' = Letters(command, Tail(args))
    BY <1>1 DEF Read, Letters
  <2> QED BY <2>1, <2>2 DEF Read
<1>4. /\ DOMAIN opt' = DOMAIN NoOptions /\ RangesTyped(opt') /\ Told(opt', Read')
  BY <1>1, <1>2, <1>3, StoreTold DEF Purpose
<1>5. pc' \notin Timing \cup {"save", "SetFPS", "edited", "copied"}
  BY <1>1 DEF Timing
<1> QED BY <1>1, <1>4, <1>5 DEF Purpose, RangesTyped

LEMMA WishFollows ==
    ASSUME Purpose, movie.cts # <<>>, ~ opt.printOnly,
           \/ opt.ranges # <<>> \/ opt.timecodeFile # NoFile
           \/ modified /\ timecodes = <<>>
    PROVE  Wished
BY DEF Purpose, Told, Wished, Editing, modified

\* a step that leaves the options and the command line alone
LEMMA PurposeStays ==
    ASSUME Purpose, UNCHANGED <<args, command, opt, movie>>,
           DOMAIN given' = DOMAIN Nothing,
           pc' \in Timing => Wished /\ ~ opt.printOnly /\ movie.cts # <<>>,
           pc' \in {"save", "edited", "copied"} => ~ opt.printOnly,
           pc' = "save" => \/ Wished /\ Retimed' /\ modified'
                           \/ ~ modified' /\ opt.timecodeFile = NoFile,
           pc' = "SetFPS" => opt.ranges # <<>> \/ opt.optimizeTimecode,
           pc' = "edited" => Wished /\ Retimed',
           pc' = "copied" => ~ modified' /\ opt.timecodeFile = NoFile
    PROVE  Purpose'
<1>1. Read' = Read
  BY DEF Read, Letters
<1>2. Wished' = Wished
  BY <1>1 DEF Wished
<1>3. Told(opt', Read')
  BY <1>1 DEF Purpose
<1>4. DOMAIN opt' = DOMAIN NoOptions /\ RangesTyped(opt')
  BY DEF Purpose, RangesTyped
<1>5. /\ opt'.printOnly = opt.printOnly /\ movie'.cts = movie.cts
      /\ opt'.timecodeFile = opt.timecodeFile /\ opt'.ranges = opt.ranges
      /\ opt'.optimizeTimecode = opt.optimizeTimecode
  OBVIOUS
<1> QED BY <1>2, <1>3, <1>4, <1>5 DEF Purpose

LEMMA PurposeKeeps ==
    ASSUME Typed, Literal, Rest, Purpose, Pictured, [Next]_vars
    PROVE  Purpose'
<1>1. CASE GetOpt
  BY <1>1, PurposeGetOpt
<1>2. CASE CheckOptions \/ PrintTimeCodes \/ PrintFails
  <2>1. UNCHANGED <<args, command, opt, movie, given>>
    BY <1>2 DEF CheckOptions, PrintTimeCodes, PrintFails, Kept, input
  <2>2. pc' \in {"usage", "exclusive", "execute", "printed", "failed"}
    BY <1>2 DEF CheckOptions, PrintTimeCodes, PrintFails
  <2>3. DOMAIN given' = DOMAIN Nothing
    BY <2>1 DEF Purpose
  <2>4. pc' \notin Timing \cup {"save", "SetFPS", "edited", "copied"}
    BY <2>2 DEF Timing
  <2> QED BY <2>1, <2>3, <2>4, PurposeStays
<1>3. CASE Begin
  <2>1. UNCHANGED <<args, command, opt, movie, given, timecodes>> /\ timecodes = <<>>
    BY <1>3 DEF Begin, Kept, input, codes, Literal
  <2>2. DOMAIN given' = DOMAIN Nothing /\ (modified' <=> modified)
    BY <2>1 DEF Purpose, modified
  <2>3. CASE movie.cts = <<>> \/ opt.printOnly
    <3>1. pc' \in {"failed", "print"}
      BY <1>3, <2>3 DEF Begin
    <3>2. pc' \notin Timing \cup {"save", "SetFPS", "edited", "copied"}
      BY <3>1 DEF Timing
    <3> QED BY <2>1, <2>2, <3>2, PurposeStays
  <2>4. CASE movie.cts # <<>> /\ ~ opt.printOnly
    <3>1. \/ pc' = "SetFPS" /\ opt.ranges # <<>>
          \/ pc' = "load" /\ opt.timecodeFile # NoFile
          \/ pc' = "save" /\ ~ modified /\ opt.timecodeFile = NoFile
          \/ pc' \in {"fix", "keep"} /\ modified
      BY <1>3, <2>4 DEF Begin
    <3>2. pc' # "save" => Wished
      BY <2>1, <2>4, <3>1, WishFollows
    <3>3. pc' \notin {"edited", "copied"}
      BY <3>1
    <3>4. pc' = "save" => ~ modified' /\ opt.timecodeFile = NoFile
      BY <2>2, <3>1
    <3>5. pc' = "SetFPS" => opt.ranges # <<>>
      BY <3>1
    <3>6. pc' \in Timing => Wished
      BY <3>2 DEF Timing
    <3> QED BY <2>1, <2>2, <2>4, <3>3, <3>4, <3>5, <3>6, PurposeStays
  <2> QED BY <2>3, <2>4
<1>4. CASE \/ Load \/ ParseLine \/ ParseEnd \/ KeepTimes \/ BeginFix \/ Fix \/ EndFix
           \/ EnterAverage \/ GroupDelta \/ LeaveAverage
  <2>1. UNCHANGED <<args, command, opt, movie>> /\ DOMAIN given' = DOMAIN Nothing
    <3>1. CASE Load \/ ParseLine \/ ParseEnd \/ KeepTimes
      BY <3>1 DEF Load, ParseLine, ParseEnd, KeepTimes, Kept, input, Purpose
    <3>2. CASE BeginFix \/ Fix \/ EndFix
      BY <3>2 DEF BeginFix, Fix, EndFix, Kept, input, Purpose, Nothing
    <3>3. CASE EnterAverage \/ GroupDelta \/ LeaveAverage
      BY <3>3 DEF EnterAverage, GroupDelta, LeaveAverage, Kept, input, Purpose
    <3> QED BY <1>4, <3>1, <3>2, <3>3
  <2>2. pc \in Timing
    BY <1>4 DEF Timing, Load, ParseLine, Reading, ParseEnd, KeepTimes, BeginFix, Fix,
                EndFix, EnterAverage, GroupDelta, LeaveAverage
  <2>3. Wished /\ ~ opt.printOnly /\ movie.cts # <<>>
    BY <2>2 DEF Purpose
  <2>4. pc' \notin {"save", "SetFPS", "edited", "copied"}
    <3>1. CASE Load \/ ParseLine \/ ParseEnd \/ KeepTimes
      BY <3>1 DEF Load, ParseLine, ParseEnd, KeepTimes, Average, Reading
    <3>2. CASE BeginFix \/ Fix \/ EndFix
      BY <3>2 DEF BeginFix, Fix, EndFix, Average
    <3>3. CASE EnterAverage \/ GroupDelta \/ LeaveAverage
      BY <3>3 DEF EnterAverage, GroupDelta, LeaveAverage
    <3> QED BY <1>4, <3>1, <3>2, <3>3
  <2> QED BY <2>1, <2>3, <2>4, PurposeStays
<1>5. CASE ConvertToExactRanges
  <2>1. /\ UNCHANGED <<args, command, movie, given, timecodes>> /\ pc = "convert"
        /\ opt.optimizeTimecode /\ DOMAIN opt = DOMAIN NoOptions
    BY <1>5 DEF ConvertToExactRanges, Kept, input, codes, Literal, Purpose
  <2>2. /\ pc' \in {"SetFPS", "rescale"} /\ DOMAIN opt' = DOMAIN NoOptions
        /\ opt'.printOnly = opt.printOnly
        /\ opt'.timecodeFile = opt.timecodeFile
        /\ opt'.optimizeTimecode = opt.optimizeTimecode
        /\ opt'.compressDTS = opt.compressDTS /\ opt'.audioDelay = opt.audioDelay
        /\ opt'.requestedTimeScale = opt.requestedTimeScale
        /\ opt'.audioTimeDelta = opt.audioTimeDelta
    BY <1>5, <2>1 DEF ConvertToExactRanges, NoOptions
  <2>3. Wished /\ ~ opt.printOnly /\ movie.cts # <<>> /\ Told(opt, Read)
    BY <2>1 DEF Purpose, Timing
  <2>4. Read' = Read
    BY <2>1 DEF Read, Letters
  <2>5. Wished' /\ Told(opt', Read')
    BY <2>1, <2>2, <2>3, <2>4 DEF Wished, Told
  <2>6. RangesTyped(opt') /\ movie'.cts # <<>> /\ DOMAIN given' = DOMAIN Nothing
    BY <2>1, <2>2, <2>3 DEF RangesTyped, Purpose
  <2> QED BY <2>1, <2>2, <2>3, <2>5, <2>6 DEF Purpose, RangesTyped
<1>6. CASE SetFPS
  <2>1. /\ UNCHANGED <<args, command, opt, movie, timecodes>> /\ pc = "SetFPS"
        /\ DOMAIN given = DOMAIN Nothing
    BY <1>6 DEF SetFPS, Kept, input, codes, Purpose
  <2>2. /\ Wished /\ ~ opt.printOnly /\ movie.cts # <<>>
        /\ opt.ranges # <<>> \/ opt.optimizeTimecode
    BY <2>1 DEF Purpose, Timing
  <2>3. modified'
    BY <2>1, <2>2 DEF modified
  <2> DEFINE ranges == NormalizeFPSRange(opt.ranges, FrameCount)
  <2>4. CASE Frames(ranges) % IntModulus = FrameCount
    <3>1. /\ pc' = "save"
          /\ given' = [given EXCEPT !.ranges = ranges,
                                    !.scale = opt.requestedTimeScale]
      BY <1>6, <2>4 DEF SetFPS
    <3>2. ranges # <<>>
      <4> HIDE DEF ranges
      <4> QED BY <2>2, <2>4, RangesGiven
    <3> HIDE DEF ranges
    <3>3. DOMAIN given' = DOMAIN Nothing /\ given'.ranges = ranges
      BY <2>1, <3>1 DEF Nothing
    <3>4. Retimed'
      BY <3>2, <3>3 DEF Retimed
    <3> QED BY <2>1, <2>2, <2>3, <3>1, <3>3, <3>4, PurposeStays
  <2>5. CASE Frames(ranges) % IntModulus # FrameCount
    <3>1. pc' = "failed" /\ given' = given
      BY <1>6, <2>5 DEF SetFPS
    <3> QED BY <2>1, <3>1, PurposeStays DEF Timing
  <2> QED BY <2>4, <2>5
<1>7. CASE SetTimeCodes
  <2>1. /\ UNCHANGED <<args, command, opt, movie, timecodes>> /\ pc = "rescale"
        /\ DOMAIN given = DOMAIN Nothing
    BY <1>7 DEF SetTimeCodes, Kept, input, Purpose
  <2>2. Wished /\ ~ opt.printOnly /\ movie.cts # <<>>
    BY <2>1 DEF Purpose, Timing
  <2>3. CASE Len(timecodes) = Wanted
    <3>1. timecodes # <<>>
      <4>1. Wanted # 0
        BY <2>2, MovieTyped DEF Wanted, FrameCount
      <4> QED BY <2>3, <4>1
    <3>2. /\ pc' = "save" /\ given'.codes = timecodes
          /\ DOMAIN given' = DOMAIN Nothing
      BY <1>7, <2>1, <2>3 DEF SetTimeCodes, Nothing
    <3>3. modified' /\ Retimed'
      BY <2>1, <3>1, <3>2 DEF modified, Retimed
    <3> QED BY <2>1, <2>2, <3>2, <3>3, PurposeStays
  <2>4. CASE Len(timecodes) # Wanted
    <3>1. pc' = "failed" /\ given' = given
      BY <1>7, <2>4 DEF SetTimeCodes
    <3> QED BY <2>1, <3>1, PurposeStays DEF Timing
  <2> QED BY <2>3, <2>4
<1>8. CASE Save
  <2>1. /\ UNCHANGED <<args, command, opt, movie, timecodes, given>> /\ pc = "save"
        /\ pc' = IF modified THEN "edited" ELSE "copied"
        /\ DOMAIN given = DOMAIN Nothing
    BY <1>8 DEF Save, Kept, input, codes, Purpose
  <2>2. (modified' <=> modified) /\ (Retimed' <=> Retimed)
    BY <2>1 DEF modified, Retimed
  <2>3. /\ ~ opt.printOnly
        /\ \/ Wished /\ Retimed /\ modified
           \/ ~ modified /\ opt.timecodeFile = NoFile
    BY <2>1 DEF Purpose
  <2> QED BY <2>1, <2>2, <2>3, PurposeStays DEF Timing
<1>9. CASE Again
  <2>1. /\ args' \in Seq(Arguments) /\ command' = args' /\ opt' = NoOptions
        /\ given' = Nothing /\ pc' = "getopt"
    BY <1>9, CommandLinesAssumption DEF Again
  <2>2. Read' = {} /\ Told(opt', Read') /\ RangesTyped(opt')
    BY <2>1, NothingTold DEF Read
  <2> QED BY <2>1, <2>2 DEF Purpose, RangesTyped, Timing
<1>10. CASE UNCHANGED vars
  <2>1. UNCHANGED <<args, command, opt, movie, timecodes, given, pc>>
    BY <1>10 DEF vars, input, codes
  <2>2. (modified' <=> modified) /\ (Retimed' <=> Retimed)
    BY <2>1 DEF modified, Retimed
  <2> QED BY <2>1, <2>2, PurposeStays DEF Purpose
<1> QED
  BY <1>1, <1>2, <1>3, <1>4, <1>5, <1>6, <1>7, <1>8, <1>9, <1>10 DEF Next

LEMMA PurposeIsEnough == ASSUME Rest, Purpose PROVE EditedWhenAsked
<1>1. ASSUME pc \in {"edited", "copied"}, NEW letters
      PROVE  Given(letters) <=> letters \cap Read # {}
  <2>1. args = <<>>
    BY <1>1 DEF Rest
  <2>2. Len(command) - Len(args) = Len(command)
    BY <2>1 DEF Rest
  <2>3. DOMAIN command = 1 .. Len(command)
    BY DEF Rest
  <2> QED BY <2>2, <2>3 DEF Given, Read, Letters
<1>2. ASSUME pc = "copied"
      PROVE  ~ Given({"t", "r", "x", "c"}) /\ opt.audioDelay = 0
  <2>1. ~ modified /\ opt.timecodeFile = NoFile /\ Told(opt, Read)
    BY <1>2 DEF Purpose
  <2>2. {"t", "r", "x", "c"} \cap Read = {}
    BY <2>1 DEF Told, modified
  <2> QED BY <1>1, <1>2, <2>1, <2>2 DEF modified
<1>3. ASSUME pc = "edited"
      PROVE  Given({"t", "r", "x", "c", "d", "T", "A"}) /\ Retimed
  BY <1>1, <1>3 DEF Purpose, Wished, Editing
<1> QED BY <1>2, <1>3 DEF EditedWhenAsked, Retimed

LEMMA InitPurpose == Init => Rest /\ Purpose
<1> SUFFICES ASSUME Init PROVE Rest /\ Purpose
  OBVIOUS
<1>1. /\ args \in Seq(Arguments) /\ command = args /\ opt = NoOptions
      /\ given = Nothing /\ pc = "getopt"
  BY CommandLinesAssumption DEF Init
<1>2. Read = {} /\ Told(opt, Read) /\ RangesTyped(opt)
  BY <1>1, NothingTold DEF Read
<1>3. Rest
  BY <1>1, NothingTold DEF Rest
<1> QED BY <1>1, <1>2, <1>3 DEF Purpose, RangesTyped, Timing

(***************************************************************************)
(* For every command line and movie with a frame: the movie is copied only *)
(* if none of -t, -r, -x, -c and -d asked for more, and the editor adjusts *)
(* only times it was given, for an option of the line (main.cpp:360).      *)
(***************************************************************************)
THEOREM EditedForAnOption == Pictured => (Spec => []EditedWhenAsked)
<1> SUFFICES ASSUME Pictured PROVE Spec => []EditedWhenAsked
  OBVIOUS
<1>1. Inv /\ Rest /\ Purpose /\ [Next]_vars => (Rest /\ Purpose)'
  BY RestKeeps, PurposeKeeps DEF Inv
<1>2. Rest /\ Purpose => EditedWhenAsked
  BY PurposeIsEnough
<1> QED BY <1>1, <1>2, InitPurpose, InvHolds, PTL DEF Spec

-----------------------------------------------------------------------------
(* Time code files *)

\* the codes of the first lines of a text
StampsOf(h, text) ==
    /\ h[0] = <<>>
    /\ \A k \in 1 .. Len(text) :
          h[k] = IF text[k] = Skipped THEN h[k - 1] ELSE Append(h[k - 1], text[k])

LEMMA StampsFold ==
    ASSUME NEW text \in Seq(Int)
    PROVE  \E h : StampsOf(h, text) /\ Stamps(text) = h[Len(text)]
<1> DEFINE n == Len(text)
           D == DOMAIN text
           R == Seq(Int)
           step == [p \in (1 .. n) \X R |->
                      IF text[p[1]] = Skipped THEN p[2] ELSE Append(p[2], text[p[1]])]
           it == CHOOSE f : f = [s \in SUBSET D |->
                      IF s = {} THEN <<>>
                      ELSE IF text[Max(s)] = Skipped THEN f[s \ {Max(s)}]
                           ELSE Append(f[s \ {Max(s)}], text[Max(s)])]
           h == [k \in 0 .. n |-> it[1 .. k]]
<1>1. step \in [(1 .. n) \X R -> R]
  OBVIOUS
<1>2. ASSUME NEW k \in 1 .. n, NEW v \in R
      PROVE  step[<<k, v>>] = IF text[k] = Skipped THEN v ELSE Append(v, text[k])
  OBVIOUS
<1>3. n \in Nat /\ D = 1 .. n /\ <<>> \in R
  OBVIOUS
<1> HIDE DEF step, n, D, R
<1>4. PICK g \in [SUBSET (1 .. n) -> R] : Folded(g, n, <<>>, step)
  BY <1>1, <1>3, FoldExists, Zenon
<1>5. ASSUME NEW s \in SUBSET D, s # {} PROVE Max(s) \in s
  <2>1. s \in SUBSET Int /\ n \in Int /\ \A x \in s : x <= n
    BY <1>3
  <2> QED BY <1>5, <2>1, MaxInside, Zenon
<1>6. ASSUME NEW s \in SUBSET D, s # {}
      PROVE  step[<<Max(s), g[s \ {Max(s)}]>>]
               = IF text[Max(s)] = Skipped THEN g[s \ {Max(s)}]
                 ELSE Append(g[s \ {Max(s)}], text[Max(s)])
  <2>1. Max(s) \in 1 .. n /\ s \ {Max(s)} \in SUBSET (1 .. n)
    BY <1>3, <1>5, <1>6
  <2>2. g[s \ {Max(s)}] \in R
    BY <1>4, <2>1
  <2> QED BY <1>2, <2>1, <2>2
<1>7. g = [s \in SUBSET D |->
             IF s = {} THEN <<>>
             ELSE IF text[Max(s)] = Skipped THEN g[s \ {Max(s)}]
                  ELSE Append(g[s \ {Max(s)}], text[Max(s)])]
  BY <1>3, <1>4, <1>6 DEF Folded
<1>8. it = [s \in SUBSET D |->
              IF s = {} THEN <<>>
              ELSE IF text[Max(s)] = Skipped THEN it[s \ {Max(s)}]
                   ELSE Append(it[s \ {Max(s)}], text[Max(s)])]
  BY <1>7, Zenon
<1>9. Stamps(text) = it[D]
  BY Zenon DEF Stamps, FoldLeft, MapThenFoldSet, D
<1> HIDE DEF it
<1>10. ASSUME NEW k \in 1 .. n
       PROVE  it[1 .. k] = IF text[k] = Skipped THEN it[1 .. k - 1]
                           ELSE Append(it[1 .. k - 1], text[k])
  <2>1. 1 .. k \in SUBSET D /\ 1 .. k # {}
    <3>1. \A x \in 1 .. k : x \in 1 .. n
      BY <1>3
    <3>2. 1 .. k \subseteq D /\ k \in 1 .. k
      BY <1>3, <3>1
    <3> QED BY <3>2
  <2>2. Max(1 .. k) = k /\ (1 .. k) \ {k} = 1 .. k - 1
    BY LastOfInterval
  <2>3. it[1 .. k] = IF text[Max(1 .. k)] = Skipped THEN it[(1 .. k) \ {Max(1 .. k)}]
                     ELSE Append(it[(1 .. k) \ {Max(1 .. k)}], text[Max(1 .. k)])
    BY <1>8, <2>1, Zenon
  <2> QED BY <2>2, <2>3
<1>11. it[1 .. 0] = <<>>
  <2>1. 1 .. 0 = {} /\ {} \in SUBSET D
    OBVIOUS
  <2> QED BY <1>8, <2>1
<1>12. StampsOf(h, text)
  BY <1>3, <1>10, <1>11 DEF StampsOf, n
<1>13. Stamps(text) = h[Len(text)]
  BY <1>3, <1>9 DEF n
<1> QED BY <1>12, <1>13

Extends(list, start) ==
    /\ Len(start) <= Len(list)
    /\ \A j \in 1 .. Len(start) : list[j] = start[j]

\* a list that is longer by one
LEMMA ExtendsFurther ==
    ASSUME NEW start \in Seq(Int), NEW list \in Seq(Int), Extends(list, start),
           NEW longer \in Seq(Int), Len(longer) = Len(list) + 1,
           \A j \in 1 .. Len(list) : longer[j] = list[j]
    PROVE  Extends(longer, start)
<1>1. /\ Len(start) \in Nat /\ Len(list) \in Nat /\ Len(start) <= Len(list)
      /\ \A j \in 1 .. Len(start) : list[j] = start[j]
  BY DEF Extends
<1>2. Len(start) <= Len(longer)
  BY <1>1
<1>3. \A j \in 1 .. Len(start) : longer[j] = start[j]
  BY <1>1
<1> QED BY <1>2, <1>3 DEF Extends

\* what was read of a text is the beginning of all its codes
LEMMA StampsExtend ==
    ASSUME NEW text \in Seq(Int), NEW h, StampsOf(h, text), NEW k \in 0 .. Len(text)
    PROVE  h[k] \in Seq(Int) /\ Extends(h[Len(text)], h[k])
<1> DEFINE n == Len(text)
           S == {i \in 0 .. n : h[i] \in Seq(Int)}
           T == {i \in k .. n : h[i] \in Seq(Int) /\ Extends(h[i], h[k])}
<1>1. n \in Nat /\ 0 \in Int /\ n \in Int /\ k \in Int /\ k <= n
  OBVIOUS
<1>2. ASSUME NEW i \in 0 .. n - 1
      PROVE  /\ i + 1 \in 1 .. n /\ text[i + 1] \in Int
             /\ h[i + 1] = IF text[i + 1] = Skipped THEN h[i]
                           ELSE Append(h[i], text[i + 1])
  <2>1. i + 1 \in 1 .. n /\ (i + 1) - 1 = i
    BY <1>1
  <2> QED BY <2>1 DEF StampsOf
<1>3. 0 .. n \subseteq S
  <2>1. 0 \in S
    <3>1. h[0] = <<>> /\ <<>> \in Seq(Int) /\ 0 \in 0 .. n
      BY <1>1 DEF StampsOf
    <3> QED BY <3>1
  <2>2. \A i \in 0 .. n - 1 : i \in S => i + 1 \in S
    <3> SUFFICES ASSUME NEW i \in 0 .. n - 1, i \in S PROVE i + 1 \in S
      OBVIOUS
    <3>1. h[i] \in Seq(Int) /\ i + 1 \in 0 .. n
      BY <1>1
    <3>2. text[i + 1] \in Int => Append(h[i], text[i + 1]) \in Seq(Int)
      BY <3>1
    <3>3. h[i + 1] = h[i] \/ h[i + 1] = Append(h[i], text[i + 1])
      BY <1>2
    <3>4. text[i + 1] \in Int
      BY <1>2
    <3> QED BY <3>1, <3>2, <3>3, <3>4
  <2> HIDE DEF S, n
  <2> QED BY <1>1, <2>1, <2>2, IntervalInduction
<1>4. k .. n \subseteq T
  <2>1. k \in T
    BY <1>1, <1>3 DEF Extends
  <2>2. \A i \in k .. n - 1 : i \in T => i + 1 \in T
    <3> SUFFICES ASSUME NEW i \in k .. n - 1, i \in T PROVE i + 1 \in T
      OBVIOUS
    <3>1. /\ h[i] \in Seq(Int) /\ Extends(h[i], h[k]) /\ h[k] \in Seq(Int)
          /\ i \in 0 .. n - 1 /\ i + 1 \in k .. n
      BY <1>1, <1>3
    <3>2. h[i + 1] \in Seq(Int) /\ Extends(h[i + 1], h[k])
      <4>1. CASE text[i + 1] = Skipped
        BY <1>2, <3>1, <4>1
      <4>2. CASE text[i + 1] # Skipped
        <5>1. h[i + 1] = Append(h[i], text[i + 1]) /\ text[i + 1] \in Int
          BY <1>2, <3>1, <4>2
        <5>2. /\ h[i + 1] \in Seq(Int) /\ Len(h[i + 1]) = Len(h[i]) + 1
              /\ \A j \in 1 .. Len(h[i]) : h[i + 1][j] = h[i][j]
          BY <3>1, <5>1
        <5> HIDE DEF n
        <5> QED BY <3>1, <5>2, ExtendsFurther
      <4> QED BY <4>1, <4>2
    <3> QED BY <3>1, <3>2
  <2> HIDE DEF T, n
  <2> QED BY <1>1, <2>1, <2>2, IntervalInduction
<1>5. n \in k .. n /\ k \in 0 .. n
  BY <1>1
<1> QED BY <1>3, <1>4, <1>5

Text == texts[opt.timecodeFile]

\* k lines of the file have been read, h are the codes of its first lines
Reads(h, k) ==
    /\ StampsOf(h, Text) /\ Asked = h[Len(Text)]
    /\ k \in 0 .. Len(Text)
    /\ Len(lines) = Len(Text) - k
    /\ \A j \in 1 .. Len(lines) : lines[j] = Text[k + j]
    /\ timecodes = h[k]

\* every frame has the time of its line, and the last one its end
Timed(list) ==
    LET end == IF Len(Asked) > FrameCount THEN Asked[Wanted]
               ELSE 2 * Asked[FrameCount] - Asked[FrameCount - 1]
    IN  /\ Len(Asked) >= FrameCount
        /\ list = Append(SubSeq(Asked, 1, FrameCount), end)

TooFew   == Len(Asked) < Max({2, FrameCount})
Unsorted == ~ Increasing(SubSeq(Asked, 1, Min({Wanted, Len(Asked)})))

LEMMA MaxOfTwo ==
    ASSUME NEW a \in Int, NEW b \in Int
    PROVE  Max({a, b}) = IF a <= b THEN b ELSE a
<1>1. CASE a <= b
  <2>1. {a, b} \in SUBSET Int /\ b \in {a, b} /\ \A x \in {a, b} : x <= b
    BY <1>1
  <2> QED BY <1>1, <2>1, MaxIs
<1>2. CASE ~ (a <= b)
  <2>1. {a, b} \in SUBSET Int /\ a \in {a, b} /\ \A x \in {a, b} : x <= a
    BY <1>2
  <2> QED BY <1>2, <2>1, MaxIs
<1> QED BY <1>1, <1>2

LEMMA MinOfTwo ==
    ASSUME NEW a \in Int, NEW b \in Int
    PROVE  Min({a, b}) = IF a <= b THEN a ELSE b
<1>1. \A m \in {a, b} : (\A x \in {a, b} : m <= x) <=> m = IF a <= b THEN a ELSE b
  OBVIOUS
<1>2. (IF a <= b THEN a ELSE b) \in {a, b}
  OBVIOUS
<1>3. \E m \in {a, b} : \A x \in {a, b} : m <= x
  BY <1>1, <1>2
<1>4. Min({a, b}) \in {a, b} /\ \A x \in {a, b} : Min({a, b}) <= x
  BY <1>3 DEF Min
<1> QED BY <1>1, <1>4

\* all lines were read, or as many codes as are wanted
LEMMA WholeFile ==
    ASSUME Text \in Seq(Int), NEW h, NEW k, Reads(h, k), lines = <<>>
    PROVE  timecodes = Asked
<1>1. Len(lines) = 0 /\ Len(Text) \in Nat
  OBVIOUS
<1>2. k = Len(Text)
  BY <1>1 DEF Reads
<1> QED BY <1>2 DEF Reads

LEMMA AskedExtends ==
    ASSUME Text \in Seq(Int), NEW h, NEW k, Reads(h, k)
    PROVE  /\ Asked \in Seq(Int) /\ timecodes \in Seq(Int)
           /\ Extends(Asked, timecodes)
<1>1. /\ StampsOf(h, Text) /\ k \in 0 .. Len(Text) /\ Len(Text) \in 0 .. Len(Text)
      /\ Asked = h[Len(Text)] /\ timecodes = h[k]
  BY DEF Reads
<1>2. h[k] \in Seq(Int) /\ Extends(h[Len(Text)], h[k]) /\ h[Len(Text)] \in Seq(Int)
  BY <1>1, StampsExtend
<1> QED BY <1>1, <1>2

\* what the codes of the file come to
LEMMA CompletedTimes ==
    ASSUME Typed, movie.cts # <<>>, Text \in Seq(Int), NEW h, NEW k, Reads(h, k),
           ~ (Len(timecodes) < Wanted /\ lines # <<>>), Len(timecodes) <= Wanted
    PROVE  /\ Completed \in Seq(Int)
           /\ IF Len(Completed) = Wanted THEN Timed(Completed) ELSE TooFew
<1>1. /\ Asked \in Seq(Int) /\ timecodes \in Seq(Int) /\ Extends(Asked, timecodes)
  BY AskedExtends
<1>2. FrameCount \in Nat /\ Wanted = FrameCount + 1
  <2>1. movie.cts \in Seq(Int) /\ movie.cts # <<>>
    BY MovieTyped
  <2> QED BY <2>1 DEF FrameCount, Wanted
<1>3. Max({2, FrameCount}) = IF 2 <= FrameCount THEN FrameCount ELSE 2
  BY <1>2, MaxOfTwo
<1>4. lines = <<>> => timecodes = Asked
  BY WholeFile
<1>5. CASE Len(timecodes) = Wanted
  <2>1. Completed = timecodes
    BY <1>1, <1>2, <1>5 DEF Completed
  <2>2. Len(Asked) >= Wanted /\ \A j \in 1 .. Wanted : Asked[j] = timecodes[j]
    BY <1>1, <1>5 DEF Extends
  <2>3. Len(Asked) > FrameCount /\ Asked[Wanted] = timecodes[Wanted]
    BY <1>1, <1>2, <2>2
  <2>4. timecodes = Append(SubSeq(Asked, 1, FrameCount), Asked[Wanted])
    <3> DEFINE list == Append(SubSeq(Asked, 1, FrameCount), Asked[Wanted])
    <3>1. /\ SubSeq(Asked, 1, FrameCount) \in Seq(Int)
          /\ Len(SubSeq(Asked, 1, FrameCount)) = FrameCount
          /\ \A j \in 1 .. FrameCount : SubSeq(Asked, 1, FrameCount)[j] = Asked[j]
      BY <1>1, <1>2, <2>3
    <3>2. Asked[Wanted] \in Int
      BY <1>1, <1>2, <2>3
    <3>3. /\ list \in Seq(Int) /\ Len(list) = Wanted
          /\ \A j \in 1 .. FrameCount : list[j] = Asked[j]
          /\ list[Wanted] = Asked[Wanted]
      BY <1>2, <3>1, <3>2
    <3> HIDE DEF list
    <3>4. \A j \in 1 .. Wanted : list[j] = timecodes[j]
      BY <1>2, <2>2, <3>3
    <3>5. list = timecodes
      BY <1>1, <1>5, <3>3, <3>4
    <3> QED BY <3>5 DEF list
  <2> QED BY <1>1, <1>2, <1>5, <2>1, <2>3, <2>4 DEF Timed
<1>6. CASE Len(timecodes) # Wanted
  <2>1. timecodes = Asked /\ Len(Asked) <= FrameCount /\ Len(Asked) \in Nat
    BY <1>1, <1>2, <1>4, <1>6
  <2>2. CASE Len(Asked) = FrameCount /\ FrameCount >= 2
    <3>1. Completed = Append(Asked, 2 * Asked[FrameCount] - Asked[FrameCount - 1])
      BY <1>2, <2>1, <2>2 DEF Completed, Last
    <3>2. Asked[FrameCount] \in Int /\ Asked[FrameCount - 1] \in Int
      BY <1>1, <1>2, <2>2
    <3>3. 2 * Asked[FrameCount] - Asked[FrameCount - 1] \in Int
      BY <3>2
    <3>4. Completed \in Seq(Int) /\ Len(Completed) = Wanted
      BY <1>1, <1>2, <2>2, <3>1, <3>3
    <3>5. SubSeq(Asked, 1, FrameCount) = Asked
      BY <1>1, <1>2, <2>2
    <3>6. Timed(Completed)
      BY <1>2, <2>2, <3>1, <3>5 DEF Timed
    <3> QED BY <3>4, <3>6
  <2>3. CASE ~ (Len(Asked) = FrameCount /\ FrameCount >= 2)
    <3>1. Completed = Asked
      BY <1>2, <2>1, <2>3 DEF Completed
    <3>2. TooFew
      BY <1>2, <1>3, <2>1, <2>3 DEF TooFew
    <3> QED BY <1>1, <1>6, <2>1, <3>1, <3>2
  <2> QED BY <2>2, <2>3
<1> QED BY <1>5, <1>6

LEMMA NextLine ==
    ASSUME Text \in Seq(Int), lines \in Seq(Int), lines # <<>>,
           NEW h, NEW k, Reads(h, k)
    PROVE  /\ k + 1 \in 0 .. Len(Text) /\ Head(lines) \in Int
           /\ Len(Tail(lines)) = Len(Text) - (k + 1)
           /\ \A j \in 1 .. Len(Tail(lines)) : Tail(lines)[j] = Text[(k + 1) + j]
           /\ h[k + 1] = IF Head(lines) = Skipped THEN timecodes
                         ELSE Append(timecodes, Head(lines))
<1>1. /\ Len(lines) \in Nat \ {0} /\ Len(Tail(lines)) = Len(lines) - 1
      /\ Head(lines) = lines[1] /\ 1 \in 1 .. Len(lines) /\ Head(lines) \in Int
      /\ \A j \in 1 .. Len(Tail(lines)) : Tail(lines)[j] = lines[j + 1]
  OBVIOUS
<1>2. /\ k \in 0 .. Len(Text) /\ Len(Text) \in Nat /\ Len(lines) = Len(Text) - k
      /\ \A j \in 1 .. Len(lines) : lines[j] = Text[k + j]
      /\ StampsOf(h, Text) /\ timecodes = h[k]
  BY DEF Reads
<1>3. k + 1 \in 1 .. Len(Text) /\ k + 1 \in 0 .. Len(Text) /\ (k + 1) - 1 = k
  BY <1>1, <1>2
<1>4. Head(lines) = Text[k + 1]
  BY <1>1, <1>2
<1>5. h[k + 1] = IF Text[k + 1] = Skipped THEN h[k] ELSE Append(h[k], Text[k + 1])
  BY <1>2, <1>3 DEF StampsOf
<1>6. \A j \in 1 .. Len(Tail(lines)) : Tail(lines)[j] = Text[(k + 1) + j]
  <2> SUFFICES ASSUME NEW j \in 1 .. Len(Tail(lines))
               PROVE  Tail(lines)[j] = Text[(k + 1) + j]
    OBVIOUS
  <2>1. j + 1 \in 1 .. Len(lines) /\ k + (j + 1) = (k + 1) + j
    BY <1>1, <1>2
  <2>2. lines[j + 1] = Text[k + (j + 1)]
    BY <1>2, <2>1
  <2> QED BY <1>1, <2>1, <2>2
<1> QED BY <1>1, <1>2, <1>3, <1>4, <1>5, <1>6

\* the code that is not taken is out of order in the file
LEMMA NotTaken ==
    ASSUME Typed, movie.cts # <<>>, Text \in Seq(Int), lines \in Seq(Int),
           NEW h, NEW k, Reads(h, k),
           Reading, Head(lines) # Skipped, ~ Taken(Head(lines))
    PROVE  Unsorted
<1> DEFINE n == Len(timecodes)
           last  == Min({Wanted, Len(Asked)})
           first == SubSeq(Asked, 1, last)
<1>1. lines # <<>> /\ n < Wanted
  BY DEF Reading
<1>2. /\ Asked \in Seq(Int) /\ timecodes \in Seq(Int)
      /\ StampsOf(h, Text) /\ Asked = h[Len(Text)]
  BY AskedExtends DEF Reads
<1>3. /\ k + 1 \in 0 .. Len(Text) /\ Head(lines) \in Int
      /\ h[k + 1] = Append(timecodes, Head(lines))
  BY <1>1, NextLine
<1>4. Extends(Asked, Append(timecodes, Head(lines)))
  BY <1>2, <1>3, StampsExtend
<1>5. n \in Nat \ {0} /\ Head(lines) <= timecodes[n]
  BY <1>2, <1>3 DEF Taken, Last
<1>6. Len(Asked) >= n + 1 /\ Asked[n] = timecodes[n] /\ Asked[n + 1] = Head(lines)
  <2>1. /\ Len(Append(timecodes, Head(lines))) = n + 1
        /\ Append(timecodes, Head(lines))[n] = timecodes[n]
        /\ Append(timecodes, Head(lines))[n + 1] = Head(lines)
    BY <1>2, <1>3, <1>5
  <2>2. n \in 1 .. n + 1 /\ n + 1 \in 1 .. n + 1
    BY <1>5
  <2> QED BY <1>4, <2>1, <2>2 DEF Extends
<1>7. Wanted \in Int
  <2>1. movie.cts \in Seq(Int)
    BY MovieTyped
  <2> QED BY <2>1 DEF FrameCount, Wanted
<1>8. last = IF Wanted <= Len(Asked) THEN Wanted ELSE Len(Asked)
  <2>1. Len(Asked) \in Int
    BY <1>2
  <2> QED BY <1>7, <2>1, MinOfTwo
<1> HIDE DEF last
<1>9. n + 1 <= last /\ last <= Len(Asked) /\ last \in Nat
  <2> HIDE DEF n
  <2>1. n + 1 <= Wanted /\ n + 1 <= Len(Asked) /\ Len(Asked) \in Int /\ n \in Nat
    BY <1>1, <1>2, <1>5, <1>6, <1>7
  <2> QED BY <1>7, <1>8, <2>1
<1> HIDE DEF n
<1>10. /\ Len(first) = last
       /\ first[n] = Asked[n] /\ first[n + 1] = Asked[n + 1]
  <2> HIDE DEF first
  <2>1. Asked \in Seq(Int) /\ n \in 1 .. last /\ n + 1 \in 1 .. last
    BY <1>2, <1>5, <1>9
  <2>2. Len(first) = last /\ \A j \in 1 .. last : first[j] = Asked[j]
    BY <1>9, <2>1 DEF first
  <2> QED BY <2>1, <2>2, Zenon
<1>11. n \in 1 .. Len(first) - 1
  BY <1>5, <1>9, <1>10
<1>12. ~ (Asked[n] < Asked[n + 1])
  <2>1. timecodes[n] \in Int
    BY <1>2, <1>5 DEF n
  <2> QED BY <1>3, <1>5, <1>6, <2>1
<1>13. ~ (first[n] < first[n + 1])
  BY <1>10, <1>12
<1> HIDE DEF first
<1>14. ~ Increasing(first)
  BY <1>11, <1>13 DEF Increasing
<1> QED BY <1>14 DEF Unsorted, first, last

-----------------------------------------------------------------------------
(* The groups of -x cover the deltas *)

\* where the group that starts at c ends, of n deltas with groups from C on
EndOf(C, n, c)   == Min({x - 1 : x \in {y \in C : y > c}} \cup {n})
StartsUpto(C, c) == {x \in C : x <= c}

\* every group starts where the one before it ends
LEMMA NextGroup ==
    ASSUME NEW n \in Nat, NEW C \in SUBSET (1 .. n), NEW c \in C,
           NEW e, e = EndOf(C, n, c)
    PROVE  /\ e \in c .. n
           /\ IF StartsUpto(C, c) = C THEN e = n
              ELSE /\ e + 1 \in C
                   /\ StartsUpto(C, e + 1) = StartsUpto(C, c) \cup {e + 1}
                   /\ e + 1 \notin StartsUpto(C, c)
<1> USE DEF StartsUpto
<1> DEFINE T == {x - 1 : x \in {y \in C : y > c}} \cup {n}
<1>1. c \in 1 .. n
  OBVIOUS
<1>2. T \in SUBSET Nat /\ T # {} /\ \A x \in T : c <= x /\ x <= n
  OBVIOUS
<1>3. PICK m \in T : \A x \in T : m <= x
  <2> HIDE DEF T
  <2> QED BY <1>2, LeastNatural
<1>4. e = m
  <2>1. e = Min(T)
    BY DEF EndOf
  <2> HIDE DEF T
  <2>2. Min(T) \in T /\ \A x \in T : Min(T) <= x
    BY <1>3 DEF Min
  <2>3. m <= Min(T) /\ Min(T) <= m /\ m \in Nat /\ Min(T) \in Nat
    BY <1>2, <1>3, <2>2
  <2> QED BY <2>1, <2>3
<1>5. e \in T /\ \A x \in C : x > c => e <= x - 1
  <2>1. \A x \in C : x > c => x - 1 \in T
    OBVIOUS
  <2> HIDE DEF T
  <2> QED BY <1>3, <1>4, <2>1
<1>6. e \in c .. n
  <2> HIDE DEF T
  <2> QED BY <1>1, <1>2, <1>5
<1>7. CASE {x \in C : x <= c} = C
  <2>1. {y \in C : y > c} = {}
    <3>1. \A y \in C : y \in Int /\ y <= c
      BY <1>7
    <3>2. \A y \in C : ~ (y > c)
      BY <1>1, <3>1
    <3> QED BY <3>2
  <2>2. T = {n}
    BY <2>1
  <2> HIDE DEF T
  <2> QED BY <1>5, <1>6, <1>7, <2>2
<1>8. CASE {x \in C : x <= c} # C
  <2>1. PICK y \in C : y > c
    <3>1. PICK y \in C : ~ (y <= c)
      BY <1>8
    <3>2. y \in Int /\ c \in Int
      OBVIOUS
    <3> QED BY <3>1, <3>2
  <2>2. e <= y - 1 /\ y \in 1 .. n
    BY <1>5, <2>1
  <2>3. e # n
    BY <1>6, <2>2
  <2>4. PICK z \in C : z > c /\ e = z - 1
    BY <1>5, <2>3
  <2>5. z \in 1 .. n /\ e + 1 = z
    BY <2>4
  <2>6. {x \in C : x <= z} = {x \in C : x <= c} \cup {z}
    <3>1. \A x \in C : x > c => z <= x
      BY <1>5, <2>4, <2>5
    <3>2. ASSUME NEW x \in C PROVE x <= z <=> x <= c \/ x = z
      <4>1. x \in Int /\ c \in Int /\ z \in Int
        OBVIOUS
      <4> QED BY <2>4, <3>1, <4>1
    <3> QED BY <2>4, <3>2
  <2>7. z \notin {x \in C : x <= c}
    BY <1>1, <2>4, <2>5
  <2> QED BY <1>6, <1>8, <2>4, <2>5, <2>6, <2>7
<1> QED BY <1>6, <1>7, <1>8

Rank(C, c) == Cardinality(StartsUpto(C, c))

LEMMA RankGrows ==
    ASSUME NEW n \in Nat, NEW C \in SUBSET (1 .. n), NEW c \in C, NEW d \in C,
           Rank(C, c) = Rank(C, d)
    PROVE  c = d
<1>1. IsFiniteSet(1 .. n)
  BY FS_Interval
<1>2. \A S \in SUBSET (1 .. n) : IsFiniteSet(S)
  BY <1>1, FS_Subset
<1> DEFINE A(b) == StartsUpto(C, b)
<1> USE DEF StartsUpto
<1>3. IsFiniteSet(A(c)) /\ IsFiniteSet(A(d))
  BY <1>2
<1>4. CASE c <= d
  <2>1. A(c) \in SUBSET A(d) /\ d \in A(d)
    <3>1. \A x \in C : x \in Int /\ (x <= c => x <= d)
      BY <1>4
    <3>2. d <= d
      OBVIOUS
    <3> QED BY <3>1, <3>2
  <2>2. A(d) = A(c)
    <3> HIDE DEF A
    <3>1. Cardinality(A(d)) = Cardinality(A(c))
      BY DEF Rank, A
    <3> QED BY <1>3, <2>1, <3>1, FS_Subset
  <2> QED BY <1>4, <2>1, <2>2
<1>5. CASE d <= c
  <2>1. A(d) \in SUBSET A(c) /\ c \in A(c)
    <3>1. \A x \in C : x \in Int /\ (x <= d => x <= c)
      BY <1>5
    <3>2. c <= c
      OBVIOUS
    <3> QED BY <3>1, <3>2
  <2>2. A(c) = A(d)
    <3> HIDE DEF A
    <3>1. Cardinality(A(d)) = Cardinality(A(c))
      BY DEF Rank, A
    <3> QED BY <1>3, <2>1, <3>1, FS_Subset
  <2> QED BY <1>5, <2>1, <2>2
<1>6. c \in Int /\ d \in Int
  OBVIOUS
<1> QED BY <1>4, <1>5, <1>6

LEMMA FinitePart ==
    ASSUME NEW n \in Nat, NEW C \in SUBSET (1 .. n)
    PROVE  IsFiniteSet(C)
<1>1. 1 \in Int /\ n \in Int
  OBVIOUS
<1>2. IsFiniteSet(1 .. n)
  BY <1>1, FS_Interval
<1> QED BY <1>2, FS_Subset

LEMMA RankNext ==
    ASSUME NEW n \in Nat, NEW C \in SUBSET (1 .. n), NEW c \in C,
           NEW e, e = EndOf(C, n, c)
    PROVE  /\ e \in c .. n /\ Cardinality(C) \in Nat /\ Rank(C, c) \in Nat
           /\ Rank(C, c) = Cardinality(C) => e = n
           /\ Rank(C, c) # Cardinality(C) =>
                 e + 1 \in C /\ Rank(C, e + 1) = Rank(C, c) + 1
<1> DEFINE A == StartsUpto(C, c)
           B == StartsUpto(C, e + 1)
<1>1. A \in SUBSET C /\ A \in SUBSET (1 .. n)
  BY DEF StartsUpto
<1>2. IsFiniteSet(C) /\ IsFiniteSet(A) /\ A \in SUBSET C
  BY <1>1, FinitePart
<1>3. /\ e \in c .. n
      /\ IF A = C THEN e = n ELSE e + 1 \in C /\ B = A \cup {e + 1} /\ e + 1 \notin A
  BY NextGroup
<1>4. Rank(C, c) = Cardinality(A) /\ Rank(C, e + 1) = Cardinality(B)
  BY DEF Rank
<1> HIDE DEF A, B
<1>5. Cardinality(A) = Cardinality(C) => A = C
  BY <1>2, FS_Subset
<1>6. A # C => Cardinality(B) = Cardinality(A) + 1
  BY <1>2, <1>3, FS_AddElement
<1>7. Cardinality(A) \in Nat /\ Cardinality(C) \in Nat
  BY <1>2, FS_CardinalityType
<1> QED BY <1>3, <1>4, <1>5, <1>6, <1>7

Ends == [g \in 1 .. Cardinality(cuts) |-> GroupEnd(NthStart(g))]

\* the groups follow one another, from the first delta to the last
LEMMA GroupsFollow ==
    ASSUME Grouped, done = Len(deltas)
    PROVE  /\ Cardinality(cuts) \in Nat
           /\ Cardinality(cuts) = 0 => Len(deltas) = 0
           /\ \A g \in 1 .. Cardinality(cuts) :
                 /\ Averages[g].count = Ends[g] - NthStart(g) + 1
                 /\ NthStart(g) \in cuts
                 /\ NthStart(g) \in Nat /\ Ends[g] \in Nat
                 /\ NthStart(g) <= Ends[g]
                 /\ NthStart(g) = IF g = 1 THEN 1 ELSE Ends[g - 1] + 1
                 /\ g = Cardinality(cuts) => Ends[g] = Len(deltas)
<1> DEFINE n == Len(deltas)
           m == Cardinality(cuts)
           S == {g \in 1 .. m : \E c \in cuts : Rank(cuts, c) = g}
<1>1. /\ n \in Nat /\ cuts \in SUBSET (1 .. n) /\ (n > 0 => 1 \in cuts)
      /\ IsFiniteSet(cuts) /\ m \in Nat
  <2>1. n \in Nat /\ cuts \in SUBSET (1 .. n) /\ (n > 0 => 1 \in cuts)
    BY DEF Grouped
  <2>2. IsFiniteSet(cuts)
    BY <2>1, FinitePart
  <2> QED BY <2>1, <2>2, FS_CardinalityType
<1>2. m = 0 => n = 0
  BY <1>1, FS_EmptySet
<1>3. \A c : GroupEnd(c) = EndOf(cuts, n, c)
  BY DEF GroupEnd, EndOf
<1> HIDE DEF n, m
<1>4. ASSUME NEW c \in cuts
      PROVE  /\ GroupEnd(c) \in c .. n /\ Rank(cuts, c) \in Nat
             /\ Rank(cuts, c) = m => GroupEnd(c) = n
             /\ Rank(cuts, c) # m =>
                   /\ GroupEnd(c) + 1 \in cuts
                   /\ Rank(cuts, GroupEnd(c) + 1) = Rank(cuts, c) + 1
  <2>1. GroupEnd(c) = EndOf(cuts, n, c)
    BY <1>3
  <2> QED BY <1>1, <2>1, RankNext DEF m
<1>5. 1 \in cuts => Rank(cuts, 1) = 1
  <2> SUFFICES ASSUME 1 \in cuts PROVE Rank(cuts, 1) = 1
    OBVIOUS
  <2>1. {x \in cuts : x <= 1} = {1}
    <3>1. \A x \in cuts : x \in Nat /\ x >= 1
      BY <1>1
    <3>2. \A x \in cuts : x <= 1 <=> x = 1
      BY <3>1
    <3> QED BY <3>2
  <2> QED BY <2>1, FS_Singleton DEF Rank, StartsUpto
<1>6. cuts # {} => 1 \in cuts
  <2> SUFFICES ASSUME cuts # {} PROVE n > 0
    BY <1>1
  <2>1. PICK c \in cuts : TRUE
    OBVIOUS
  <2>2. c \in 1 .. n
    BY <1>1
  <2> QED BY <1>1, <2>2
<1>7. 1 .. m \subseteq S
  <2>1. 1 <= m => 1 \in S
    <3> SUFFICES ASSUME 1 <= m PROVE 1 \in S
      OBVIOUS
    <3>1. cuts # {}
      <4>1. m # 0
        BY <1>1
      <4> QED BY <1>1, <4>1, FS_EmptySet DEF m
    <3>2. 1 \in cuts
      BY <1>6, <3>1
    <3> QED BY <1>1, <1>5, <3>2
  <2>2. \A g \in 1 .. m - 1 : g \in S => g + 1 \in S
    <3> SUFFICES ASSUME NEW g \in 1 .. m - 1, g \in S PROVE g + 1 \in S
      OBVIOUS
    <3>1. PICK c \in cuts : Rank(cuts, c) = g
      OBVIOUS
    <3>2. g # m /\ g + 1 \in 1 .. m
      BY <1>1
    <3> QED BY <1>4, <3>1, <3>2
  <2> HIDE DEF S
  <2> QED BY <1>1, <2>1, <2>2, IntervalInduction
<1>8. ASSUME NEW g \in 1 .. m
      PROVE  NthStart(g) \in cuts /\ Rank(cuts, NthStart(g)) = g
  <2>1. g \in S
    BY <1>7
  <2>2. \E c \in cuts : Cardinality({x \in cuts : x <= c}) = g
    BY <2>1 DEF Rank, StartsUpto
  <2> QED BY <2>2 DEF NthStart, Rank, StartsUpto
<1>9. ASSUME NEW g \in 1 .. m
      PROVE  /\ Averages[g].count = Ends[g] - NthStart(g) + 1
             /\ NthStart(g) \in cuts
             /\ NthStart(g) \in Nat /\ Ends[g] \in Nat
             /\ NthStart(g) <= Ends[g]
             /\ g = m => Ends[g] = n
  <2>1. Ends[g] = GroupEnd(NthStart(g))
    BY DEF Ends, m
  <2>2. Averages[g].count = Ends[g] - NthStart(g) + 1
    BY <2>1 DEF Averages, GroupFrom, m
  <2>3. GroupEnd(NthStart(g)) \in NthStart(g) .. n /\ NthStart(g) \in 1 .. n
    BY <1>1, <1>4, <1>8
  <2>4. g = m => GroupEnd(NthStart(g)) = n
    BY <1>4, <1>8
  <2> QED BY <1>1, <1>8, <2>1, <2>2, <2>3, <2>4
<1>10. ASSUME NEW g \in 1 .. m
      PROVE  NthStart(g) = IF g = 1 THEN 1 ELSE Ends[g - 1] + 1
  <2>1. CASE g = 1
    <3>1. 1 \in cuts
      <4>1. cuts # {}
        BY <1>8
      <4> QED BY <1>6, <4>1
    <3> QED BY <1>1, <1>5, <1>8, <2>1, <3>1, RankGrows
  <2>2. CASE g # 1
    <3>1. g - 1 \in 1 .. m /\ g - 1 # m /\ (g - 1) + 1 = g
      BY <1>1, <2>2
    <3>2. Ends[g - 1] = GroupEnd(NthStart(g - 1))
      BY <3>1 DEF Ends, m
    <3>3. /\ Ends[g - 1] + 1 \in cuts
          /\ Rank(cuts, Ends[g - 1] + 1) = g
      BY <1>4, <1>8, <3>1, <3>2
    <3>4. NthStart(g) \in cuts /\ Rank(cuts, NthStart(g)) = g
      BY <1>8
    <3>5. NthStart(g) = Ends[g - 1] + 1
      BY <1>1, <3>3, <3>4, RankGrows
    <3> QED BY <2>2, <3>5
  <2> QED BY <2>1, <2>2
<1> QED BY <1>1, <1>2, <1>9, <1>10 DEF n, m

\* the fold over s of the indices of a sequence takes its largest index last
LEMMA LastIndex ==
    ASSUME NEW n \in Nat, NEW k \in 1 .. n
    PROVE  /\ 1 .. k \in SUBSET (1 .. n) /\ 1 .. k # {}
           /\ Max(1 .. k) = k /\ (1 .. k) \ {k} = 1 .. k - 1
<1>1. \A x \in 1 .. k : x \in 1 .. n
  OBVIOUS
<1>2. 1 .. k \subseteq 1 .. n /\ k \in 1 .. k
  BY <1>1
<1>3. Max(1 .. k) = k /\ (1 .. k) \ {k} = 1 .. k - 1
  BY LastOfInterval
<1> QED BY <1>2, <1>3

LEMMA MaxOfPart ==
    ASSUME NEW n \in Nat, NEW s \in SUBSET (1 .. n), s # {}
    PROVE  Max(s) \in 1 .. n /\ s \ {Max(s)} \in SUBSET (1 .. n)
<1>1. s \in SUBSET Int /\ n \in Int /\ \A x \in s : x <= n
  OBVIOUS
<1>2. Max(s) \in s
  BY <1>1, MaxInside, Zenon
<1> QED BY <1>2

\* the frames of some ranges are the sum of their numbers
LEMMA FramesFold ==
    ASSUME NEW V, \A r \in V : r.numFrames \in Int, NEW ranges \in Seq(V)
    PROVE  \E h : /\ h[0] = 0
                  /\ \A k \in 1 .. Len(ranges) : h[k] = h[k - 1] + ranges[k].numFrames
                  /\ Frames(ranges) = h[Len(ranges)]
<1> DEFINE n == Len(ranges)
           D == DOMAIN ranges
           step == [p \in (1 .. n) \X Int |-> p[2] + ranges[p[1]].numFrames]
           it == CHOOSE f : f = [s \in SUBSET D |->
                      IF s = {} THEN 0
                      ELSE f[s \ {Max(s)}] + ranges[Max(s)].numFrames]
           h == [k \in 0 .. n |-> it[1 .. k]]
<1>1. /\ n \in Nat /\ D = 1 .. n /\ 0 \in Int
      /\ \A k \in 1 .. n : ranges[k].numFrames \in Int
  OBVIOUS
<1>2. step \in [(1 .. n) \X Int -> Int]
  <2> HIDE DEF n, D
  <2> QED BY <1>1
<1>3. ASSUME NEW k \in 1 .. n, NEW v \in Int
      PROVE  step[<<k, v>>] = v + ranges[k].numFrames
  OBVIOUS
<1> HIDE DEF step, n, D
<1>4. PICK g \in [SUBSET (1 .. n) -> Int] : Folded(g, n, 0, step)
  BY <1>1, <1>2, FoldExists, Zenon
<1>5. ASSUME NEW s \in SUBSET (1 .. n), s # {}
      PROVE  step[<<Max(s), g[s \ {Max(s)}]>>]
               = g[s \ {Max(s)}] + ranges[Max(s)].numFrames
  <2>1. Max(s) \in 1 .. n /\ s \ {Max(s)} \in SUBSET (1 .. n)
    BY <1>1, <1>5, MaxOfPart
  <2>2. g[s \ {Max(s)}] \in Int
    BY <1>4, <2>1
  <2> QED BY <1>3, <2>1, <2>2
<1>6. g = [s \in SUBSET D |->
             IF s = {} THEN 0 ELSE g[s \ {Max(s)}] + ranges[Max(s)].numFrames]
  BY <1>1, <1>4, <1>5 DEF Folded
<1>7. it = [s \in SUBSET D |->
              IF s = {} THEN 0 ELSE it[s \ {Max(s)}] + ranges[Max(s)].numFrames]
  BY <1>6, Zenon
<1>8. Frames(ranges) = it[D]
  BY Zenon DEF Frames, FoldLeft, MapThenFoldSet, D
<1> HIDE DEF it
<1>9. ASSUME NEW k \in 1 .. n
      PROVE  it[1 .. k] = it[1 .. k - 1] + ranges[k].numFrames
  <2>1. /\ 1 .. k \in SUBSET D /\ 1 .. k # {}
        /\ Max(1 .. k) = k /\ (1 .. k) \ {k} = 1 .. k - 1
    BY <1>1, LastIndex
  <2>2. it[1 .. k] = it[(1 .. k) \ {Max(1 .. k)}] + ranges[Max(1 .. k)].numFrames
    BY <1>7, <2>1, Zenon
  <2> QED BY <2>1, <2>2
<1>10. it[1 .. 0] = 0
  <2>1. 1 .. 0 = {} /\ {} \in SUBSET D
    OBVIOUS
  <2> QED BY <1>7, <2>1
<1>11. /\ h[0] = 0
       /\ \A k \in 1 .. n : h[k] = h[k - 1] + ranges[k].numFrames
  BY <1>1, <1>9, <1>10
<1>12. Frames(ranges) = h[n]
  BY <1>1, <1>8
<1> HIDE DEF h
<1> QED BY <1>11, <1>12 DEF n

\* ranges that all have a number of frames are kept as they are
LEMMA RangesKept ==
    ASSUME NEW V, NEW ranges \in Seq(V), NEW frames,
           \A r \in V : /\ r.numFrames > 0
                        /\ [r EXCEPT !.numFrames = r.numFrames] = r
    PROVE  NormalizeFPSRange(ranges, frames) = ranges
<1> DEFINE n == Len(ranges)
           D == DOMAIN ranges
           R == Seq(V)
           Took(r, before) == [r EXCEPT !.numFrames =
                               IF @ > 0 THEN @ ELSE Max({0, frames - Frames(before)})]
           step == [p \in (1 .. n) \X R |-> Append(p[2], ranges[p[1]])]
           it == CHOOSE f : f = [s \in SUBSET D |->
                      IF s = {} THEN <<>>
                      ELSE Append(f[s \ {Max(s)}],
                                  Took(ranges[Max(s)], f[s \ {Max(s)}]))]
           h == [k \in 0 .. n |-> it[1 .. k]]
<1>1. /\ n \in Nat /\ D = 1 .. n /\ <<>> \in R
      /\ \A k \in 1 .. n : ranges[k] \in V
  OBVIOUS
<1>2. \A k \in 1 .. n : \A before : Took(ranges[k], before) = ranges[k]
  BY <1>1
<1>3. step \in [(1 .. n) \X R -> R]
  OBVIOUS
<1>4. ASSUME NEW k \in 1 .. n, NEW v \in R
      PROVE  step[<<k, v>>] = Append(v, ranges[k])
  OBVIOUS
<1>5. NormalizeFPSRange(ranges, frames) = it[D]
  BY Zenon DEF NormalizeFPSRange, FoldLeft, MapThenFoldSet, D
<1> HIDE DEF step, n, D, R, Took
<1>6. PICK g \in [SUBSET (1 .. n) -> R] : Folded(g, n, <<>>, step)
  BY <1>1, <1>3, FoldExists, Zenon
<1>7. ASSUME NEW s \in SUBSET (1 .. n), s # {}
      PROVE  step[<<Max(s), g[s \ {Max(s)}]>>]
               = Append(g[s \ {Max(s)}], Took(ranges[Max(s)], g[s \ {Max(s)}]))
  <2>1. Max(s) \in 1 .. n /\ s \ {Max(s)} \in SUBSET (1 .. n)
    BY <1>1, <1>7, MaxOfPart
  <2>2. g[s \ {Max(s)}] \in R
    BY <1>6, <2>1
  <2> QED BY <1>2, <1>4, <2>1, <2>2
<1>8. g = [s \in SUBSET D |->
             IF s = {} THEN <<>>
             ELSE Append(g[s \ {Max(s)}], Took(ranges[Max(s)], g[s \ {Max(s)}]))]
  BY <1>1, <1>6, <1>7 DEF Folded
<1>9. it = [s \in SUBSET D |->
              IF s = {} THEN <<>>
              ELSE Append(it[s \ {Max(s)}], Took(ranges[Max(s)], it[s \ {Max(s)}]))]
  BY <1>8, Zenon
<1> HIDE DEF it
<1>10. ASSUME NEW k \in 1 .. n
       PROVE  it[1 .. k] = Append(it[1 .. k - 1], ranges[k])
  <2>1. /\ 1 .. k \in SUBSET D /\ 1 .. k # {}
        /\ Max(1 .. k) = k /\ (1 .. k) \ {k} = 1 .. k - 1
    BY <1>1, LastIndex
  <2>2. it[1 .. k] = Append(it[(1 .. k) \ {Max(1 .. k)}],
                            Took(ranges[Max(1 .. k)], it[(1 .. k) \ {Max(1 .. k)}]))
    BY <1>9, <2>1, Zenon
  <2> QED BY <1>2, <2>1, <2>2
<1>11. it[1 .. 0] = <<>>
  <2>1. 1 .. 0 = {} /\ {} \in SUBSET D
    OBVIOUS
  <2> QED BY <1>9, <2>1
<1> DEFINE S == {k \in 0 .. n : it[1 .. k] = SubSeq(ranges, 1, k)}
<1>12. 0 .. n \subseteq S
  <2>1. 0 \in S
    <3>1. SubSeq(ranges, 1, 0) = <<>>
      OBVIOUS
    <3>2. 0 \in 0 .. n
      BY <1>1
    <3>3. it[1 .. 0] = SubSeq(ranges, 1, 0)
      BY <1>11, <3>1, Zenon
    <3> QED BY <3>2, <3>3
  <2>2. \A k \in 0 .. n - 1 : k \in S => k + 1 \in S
    <3> SUFFICES ASSUME NEW k \in 0 .. n - 1, k \in S PROVE k + 1 \in S
      OBVIOUS
    <3>1. k + 1 \in 1 .. n /\ (k + 1) - 1 = k /\ k + 1 \in 0 .. n
      BY <1>1
    <3>2. it[1 .. k + 1] = Append(SubSeq(ranges, 1, k), ranges[k + 1])
      BY <1>10, <3>1
    <3>3. Append(SubSeq(ranges, 1, k), ranges[k + 1]) = SubSeq(ranges, 1, k + 1)
      BY <1>1, <3>1 DEF n
    <3> QED BY <3>1, <3>2, <3>3
  <2>3. 0 \in Int /\ n \in Int
    BY <1>1
  <2> HIDE DEF S
  <2> QED BY <2>1, <2>2, <2>3, IntervalInduction
<1>13. it[1 .. n] = SubSeq(ranges, 1, n)
  BY <1>1, <1>12
<1>14. SubSeq(ranges, 1, n) = ranges
  BY DEF n
<1> QED BY <1>1, <1>5, <1>13, <1>14

\* the exact ranges of the groups are for as many frames as there are deltas
LEMMA ExactRangesCover ==
    ASSUME Grouped, done = Len(deltas), averages = Averages, NEW frames
    PROVE  Frames(NormalizeFPSRange(ExactRanges, frames)) = Len(deltas)
<1> DEFINE m == Cardinality(cuts)
           ranges == ExactRanges
           V == {ranges[g] : g \in 1 .. m}
<1>1. /\ m \in Nat
      /\ m = 0 => Len(deltas) = 0
      /\ \A g \in 1 .. m :
            /\ Averages[g].count = Ends[g] - NthStart(g) + 1
            /\ NthStart(g) \in Nat /\ Ends[g] \in Nat
            /\ NthStart(g) <= Ends[g]
            /\ NthStart(g) = IF g = 1 THEN 1 ELSE Ends[g - 1] + 1
            /\ g = m => Ends[g] = Len(deltas)
  BY GroupsFollow
<1>2. DOMAIN averages = 1 .. m
  BY DEF Averages
<1>3. ASSUME NEW g \in 1 .. m
      PROVE  /\ averages[g].count \in Nat /\ averages[g].count > 0
             /\ averages[g].count = Ends[g] - NthStart(g) + 1
  <2>1. averages[g].count = Ends[g] - NthStart(g) + 1
    BY <1>1
  <2>2. NthStart(g) \in Nat /\ Ends[g] \in Nat /\ NthStart(g) <= Ends[g]
    BY <1>1
  <2> QED BY <2>1, <2>2
<1>4. ASSUME NEW g \in 1 .. m
      PROVE  /\ ranges[g].numFrames = averages[g].count
             /\ [ranges[g] EXCEPT !.numFrames = ranges[g].numFrames] = ranges[g]
  <2> DEFINE rate == WellKnown[Min(Matches(averages[g]))]
  <2>1. ranges[g] = [numFrames |-> averages[g].count, num |-> rate.num,
                     denom |-> rate.denom]
    BY <1>2 DEF ExactRanges
  <2> HIDE DEF rate, ranges
  <2> QED BY <2>1
<1>5. ranges = [g \in 1 .. m |-> ranges[g]]
  BY <1>2 DEF ExactRanges
<1> HIDE DEF m, ranges
<1>6. ranges \in Seq(V) /\ Len(ranges) = m
  <2>1. ranges \in [1 .. m -> V]
    BY <1>5
  <2>2. m \in Nat
    BY <1>1
  <2> HIDE DEF V
  <2> QED BY <2>1, <2>2
<1>7. \A r \in V : /\ r.numFrames > 0 /\ r.numFrames \in Int
                   /\ [r EXCEPT !.numFrames = r.numFrames] = r
  <2> SUFFICES ASSUME NEW r \in V
               PROVE  /\ r.numFrames > 0 /\ r.numFrames \in Int
                      /\ [r EXCEPT !.numFrames = r.numFrames] = r
    OBVIOUS
  <2>1. PICK g \in 1 .. m : r = ranges[g]
    OBVIOUS
  <2>2. averages[g].count \in Nat /\ averages[g].count > 0
    BY <1>3
  <2>3. /\ r.numFrames = averages[g].count
        /\ [r EXCEPT !.numFrames = r.numFrames] = r
    BY <1>4, <2>1
  <2> QED BY <2>2, <2>3
<1> HIDE DEF V
<1>8. NormalizeFPSRange(ranges, frames) = ranges
  BY <1>6, <1>7, RangesKept
<1>9. PICK h : /\ h[0] = 0
               /\ \A k \in 1 .. m : h[k] = h[k - 1] + ranges[k].numFrames
               /\ Frames(ranges) = h[m]
  BY <1>6, <1>7, FramesFold
<1> DEFINE S == {g \in 0 .. m : h[g] = IF g = 0 THEN 0 ELSE Ends[g]}
<1>10. 0 .. m \subseteq S
  <2>1. 0 \in S
    BY <1>1, <1>9
  <2>2. \A g \in 0 .. m - 1 : g \in S => g + 1 \in S
    <3> SUFFICES ASSUME NEW g \in 0 .. m - 1, g \in S PROVE g + 1 \in S
      OBVIOUS
    <3>1. g + 1 \in 1 .. m /\ (g + 1) - 1 = g /\ g + 1 \in 0 .. m /\ g \in Nat
      BY <1>1
    <3>2. h[g + 1] = h[g] + (Ends[g + 1] - NthStart(g + 1) + 1)
      <4>1. h[g + 1] = h[(g + 1) - 1] + ranges[g + 1].numFrames
        BY <1>9, <3>1, Zenon
      <4>2. ranges[g + 1].numFrames = averages[g + 1].count
        BY <1>4, <3>1, Zenon
      <4>3. averages[g + 1].count = Ends[g + 1] - NthStart(g + 1) + 1
        BY <1>3, <3>1, Zenon
      <4> QED BY <3>1, <4>1, <4>2, <4>3, Zenon
    <3>3. /\ NthStart(g + 1) = IF g = 0 THEN 1 ELSE Ends[g] + 1
          /\ Ends[g + 1] \in Nat
          /\ g # 0 => Ends[g] \in Nat
      <4>1. g + 1 = 1 <=> g = 0
        BY <3>1
      <4>2. NthStart(g + 1) = IF g + 1 = 1 THEN 1 ELSE Ends[(g + 1) - 1] + 1
        BY <1>1, <3>1
      <4>3. g # 0 => g \in 1 .. m
        BY <1>1
      <4> QED BY <1>1, <3>1, <4>1, <4>2, <4>3
    <3>4. h[g] = IF g = 0 THEN 0 ELSE Ends[g]
      OBVIOUS
    <3>5. h[g + 1] = Ends[g + 1]
      BY <3>1, <3>2, <3>3, <3>4
    <3> QED BY <3>1, <3>5
  <2>3. 0 \in Int /\ m \in Int
    BY <1>1
  <2> HIDE DEF S
  <2> QED BY <2>1, <2>2, <2>3, IntervalInduction
<1>11. h[m] = IF m = 0 THEN 0 ELSE Ends[m]
  BY <1>1, <1>10
<1>12. m # 0 => m \in 1 .. m
  BY <1>1
<1>13. h[m] = Len(deltas)
  BY <1>1, <1>11, <1>12
<1> QED BY <1>8, <1>9, <1>13 DEF ranges

-----------------------------------------------------------------------------
(* Codes of a file on their way to the editor *)

\* the ranges are for as many frames as the movie has
Covering == Frames(NormalizeFPSRange(opt.ranges, FrameCount)) % IntModulus = FrameCount

\* nothing is printed, and the movie has frames
Moving ==
    pc \in Timing \cup {"save", "edited", "copied"} =>
        ~ opt.printOnly /\ movie.cts # <<>>

Reason == Text = Missing \/ Unsorted \/ TooFew

Literally == FromFile /\ ~ opt.optimizeTimecode

Parsed ==
    /\ pc = "print" => opt.printOnly
    /\ pc = "execute" /\ ~ opt.printOnly /\ FromFile => opt.ranges = <<>>
    /\ pc = "parse" => /\ FromFile /\ Len(timecodes) <= Wanted
                       /\ \E h : \E k : Reads(h, k)
    /\ pc = "rescale" /\ Literally =>
          IF Len(timecodes) = Wanted THEN Timed(timecodes) ELSE TooFew
    /\ pc \in {"average", "convert", "rescale"} /\ FromFile =>
          Len(timecodes) = Wanted \/ TooFew
    /\ pc = "average" /\ FromFile => timecodes # <<>>
    /\ pc \in {"group", "convert"} /\ FromFile => Len(deltas) + 1 = Wanted \/ TooFew
    /\ pc = "convert" => averages = Averages /\ done = Len(deltas)
    /\ pc = "SetFPS" /\ FromFile /\ ~ opt.printOnly => Covering \/ TooFew
    /\ Got /\ Literally => Timed(given.codes)
    /\ pc = "failed" /\ movie.cts # <<>> /\ FromFile /\ ~ opt.printOnly => Reason

LEMMA ParsedIsEnough == Parsed => EveryFrameTimed /\ RefusedForAReason
<1> SUFFICES ASSUME Parsed PROVE EveryFrameTimed /\ RefusedForAReason
  OBVIOUS
<1>1. EveryFrameTimed
  BY DEF Parsed, EveryFrameTimed, Literally, Timed
<1>2. RefusedForAReason
  BY DEF Parsed, RefusedForAReason, Reason, Text, Unsorted, TooFew
<1> QED BY <1>1, <1>2

\* the steps at which nothing is said
LEMMA NothingParsed ==
    ASSUME pc' \in {"getopt", "usage", "exclusive", "printed", "copied"}
    PROVE  Parsed'
BY DEF Parsed, Timing, Got

LEMMA NothingToParse == ASSUME pc = "getopt" PROVE Parsed
BY DEF Parsed, Timing, Got

\* a step that leaves the movie, the files and the options alone
LEMMA ParsedStays ==
    ASSUME UNCHANGED <<movie, texts, opt>>,
           pc' = "print" => opt.printOnly,
           pc' = "execute" /\ ~ opt.printOnly /\ FromFile => opt.ranges = <<>>,
           pc' = "parse" => /\ FromFile /\ Len(timecodes') <= Wanted
                            /\ \E h : \E k : Reads(h, k)',
           pc' = "rescale" /\ Literally =>
              IF Len(timecodes') = Wanted THEN Timed(timecodes') ELSE TooFew,
           pc' \in {"average", "convert", "rescale"} /\ FromFile =>
              Len(timecodes') = Wanted \/ TooFew,
           pc' = "average" /\ FromFile => timecodes' # <<>>,
           pc' \in {"group", "convert"} /\ FromFile =>
              Len(deltas') + 1 = Wanted \/ TooFew,
           pc' = "convert" => averages' = Averages' /\ done' = Len(deltas'),
           pc' = "SetFPS" /\ FromFile /\ ~ opt.printOnly => Covering \/ TooFew,
           Got' /\ Literally => Timed(given'.codes),
           pc' = "failed" /\ movie.cts # <<>> /\ FromFile /\ ~ opt.printOnly => Reason
    PROVE  Parsed'
<1>1. /\ FrameCount' = FrameCount /\ Asked' = Asked /\ Text' = Text
      /\ (FromFile' <=> FromFile) /\ opt' = opt /\ movie' = movie
  BY DEF FrameCount, Asked, Text, FromFile
<1>2. /\ Wanted' = Wanted /\ (TooFew' <=> TooFew) /\ (Literally' <=> Literally)
      /\ (Covering' <=> Covering)
  BY <1>1 DEF Wanted, TooFew, Literally, Covering
<1>3. Unsorted' <=> Unsorted
  BY <1>1, <1>2 DEF Unsorted
<1>4. Reason' <=> Reason
  BY <1>1, <1>2, <1>3 DEF Reason
<1>5. (Timed(timecodes))' <=> Timed(timecodes')
  BY <1>1, <1>2 DEF Timed
<1>6. (Timed(given.codes))' <=> Timed(given'.codes)
  BY <1>1, <1>2 DEF Timed
<1> QED BY <1>1, <1>2, <1>4, <1>5, <1>6 DEF Parsed

LEMMA AveragesSame ==
    ASSUME UNCHANGED <<deltas, cuts>>
    PROVE  Averages' = Averages
<1>0. deltas' = deltas /\ cuts' = cuts
  OBVIOUS
<1>1. ASSUME NEW g PROVE NthStart(g)' = NthStart(g)
  BY <1>0 DEF NthStart
<1>2. ASSUME NEW g PROVE GroupFrom(NthStart(g))' = GroupFrom(NthStart(g))
  <2>1. NthStart(g)' = NthStart(g)
    BY <1>1
  <2> DEFINE c == NthStart(g)
  <2>2. GroupEnd(c)' = GroupEnd(c)
    BY <1>0, <2>1 DEF GroupEnd
  <2>3. Elapsed(GroupEnd(c))' = Elapsed(GroupEnd(c))
    BY <1>0, <2>2, Zenon DEF Elapsed, FoldLeft, MapThenFoldSet
  <2>4. Elapsed(c - 1)' = Elapsed(c - 1)
    BY <1>0, <2>1, Zenon DEF Elapsed, FoldLeft, MapThenFoldSet
  <2> QED BY <2>1, <2>2, <2>3, <2>4 DEF GroupFrom
<1> QED BY <1>0, <1>2 DEF Averages

LEMMA FileTyped ==
    ASSUME Typed, FromFile
    PROVE  Text \in Seq(Int) /\ lines \in Seq(Int)
<1>1. opt.timecodeFile \in Names
  BY DEF Typed, FromFile
<1> QED BY <1>1 DEF Typed, Text

LEMMA CountTyped ==
    ASSUME Typed, movie.cts # <<>>
    PROVE  FrameCount \in Nat /\ Wanted = FrameCount + 1 /\ FrameCount < IntModulus
<1>1. movie.cts \in Seq(Int) /\ Len(movie.cts) <= IntModulus /\ IntModulus \in Nat
  BY MoviesAssumption, IntModulusAssumption DEF Typed
<1> QED BY <1>1 DEF FrameCount, Wanted

LEMMA ParsedLoad ==
    ASSUME Typed, Literal, Moving, Parsed, Load
    PROVE  Parsed'
<1>1. /\ pc = "load" /\ FromFile /\ timecodes = <<>> /\ UNCHANGED <<movie, texts, opt>>
      /\ timecodes' = timecodes /\ given' = given
  BY DEF Load, Kept, codes, Typed, Literal, FromFile
<1>2. ~ opt.printOnly /\ movie.cts # <<>>
  BY <1>1 DEF Moving, Timing
<1>3. pc # "execute" /\ (pc' = pc \/ pc' \in {"failed", "parse", "average", "rescale"})
  BY <1>1 DEF Load, ParseLine, ParseEnd, Average
<1>4. CASE Text = Missing
  <2>1. pc' = "failed"
    BY <1>4 DEF Load, Text
  <2>2. Reason
    BY <1>4 DEF Reason
  <2>3. pc' \notin Timing \cup {"execute"}
    BY <2>1 DEF Timing
  <2> QED BY <1>1, <1>2, <2>1, <2>2, <2>3, ParsedStays DEF Got
<1>5. CASE Text # Missing
  <2>1. pc' = "parse" /\ lines' = Text
    BY <1>5 DEF Load, Text
  <2>2. Text \in Seq(Int)
    BY <1>1, FileTyped
  <2>3. PICK h : StampsOf(h, Text) /\ Stamps(Text) = h[Len(Text)]
    BY <2>2, StampsFold
  <2>4. Text' = Text /\ Asked' = Asked /\ Asked = Stamps(Text)
    BY <1>1 DEF Text, Asked
  <2>5. /\ 0 \in 0 .. Len(Text) /\ Len(lines') = Len(Text) - 0
        /\ \A j \in 1 .. Len(lines') : lines'[j] = Text[0 + j]
    BY <2>1, <2>2
  <2>6. timecodes' = h[0]
    BY <1>1, <2>3 DEF StampsOf
  <2>7. Reads(h, 0)'
    BY <2>3, <2>4, <2>5, <2>6 DEF Reads
  <2>8. Len(timecodes') <= Wanted
    BY <1>1, <1>2, CountTyped
  <2>9. \E g : \E k : Reads(g, k)'
    BY <2>7
  <2> QED BY <1>1, <1>2, <1>3, <2>1, <2>8, <2>9, ParsedStays DEF Got
<1> QED BY <1>4, <1>5

LEMMA ParsedParseLine ==
    ASSUME Typed, Literal, Moving, Parsed, ParseLine
    PROVE  Parsed'
<1>1. /\ pc = "parse" /\ FromFile /\ Reading /\ UNCHANGED <<movie, texts, opt>>
      /\ lines' = Tail(lines) /\ given' = given /\ timecodes \in Seq(Int)
      /\ Len(timecodes) < Wanted
  BY DEF ParseLine, Reading, Kept, Parsed, Literal
<1>2. ~ opt.printOnly /\ movie.cts # <<>>
  BY <1>1 DEF Moving, Timing
<1>3. pc # "execute" /\ (pc' = pc \/ pc' \in {"failed", "parse", "average", "rescale"})
  BY <1>1 DEF Load, ParseLine, ParseEnd, Average
<1>4. PICK h : \E k : Reads(h, k)
  BY <1>1 DEF Parsed
<1>5. PICK k : Reads(h, k)
  BY <1>4
<1>6. Text \in Seq(Int) /\ lines \in Seq(Int) /\ lines # <<>>
  BY <1>1, FileTyped DEF Reading
<1>7. /\ k + 1 \in 0 .. Len(Text) /\ Head(lines) \in Int
      /\ Len(Tail(lines)) = Len(Text) - (k + 1)
      /\ \A j \in 1 .. Len(Tail(lines)) : Tail(lines)[j] = Text[(k + 1) + j]
      /\ h[k + 1] = IF Head(lines) = Skipped THEN timecodes
                    ELSE Append(timecodes, Head(lines))
  BY <1>5, <1>6, NextLine
<1>8. CASE Head(lines) # Skipped /\ ~ Taken(Head(lines))
  <2>1. pc' = "failed"
    BY <1>8 DEF ParseLine
  <2>2. Reason
    BY <1>1, <1>2, <1>5, <1>6, <1>8, NotTaken DEF Reason
  <2>3. pc' \notin Timing \cup {"execute"}
    BY <2>1 DEF Timing
  <2> QED BY <1>1, <1>2, <2>1, <2>2, <2>3, ParsedStays DEF Got
<1>9. CASE ~ (Head(lines) # Skipped /\ ~ Taken(Head(lines)))
  <2>1. pc' = "parse" /\ timecodes' = h[k + 1]
    BY <1>1, <1>7, <1>9 DEF ParseLine
  <2>2. Text' = Text /\ Asked' = Asked
    BY <1>1 DEF Text, Asked
  <2>3. StampsOf(h, Text) /\ Asked = h[Len(Text)]
    BY <1>5 DEF Reads
  <2>4. Reads(h, k + 1)'
    BY <1>1, <1>7, <2>1, <2>2, <2>3 DEF Reads
  <2>5. Len(timecodes') <= Wanted
    <3>1. Len(Append(timecodes, Head(lines))) = Len(timecodes) + 1
      BY <1>1, <1>7
    <3>2. Wanted \in Int /\ Len(timecodes) \in Nat
      BY <1>1, <1>2, CountTyped
    <3> QED BY <1>1, <1>7, <2>1, <3>1, <3>2
  <2>6. \E g : \E i : Reads(g, i)'
    BY <2>4
  <2> QED BY <1>1, <1>2, <1>3, <2>1, <2>5, <2>6, ParsedStays DEF Got
<1> QED BY <1>8, <1>9

LEMMA ParsedParseEnd ==
    ASSUME Typed, Literal, Moving, Parsed, ParseEnd
    PROVE  Parsed'
<1>1. /\ pc = "parse" /\ FromFile /\ ~ Reading /\ UNCHANGED <<movie, texts, opt>>
      /\ given' = given /\ timecodes \in Seq(Int) /\ Len(timecodes) <= Wanted
  BY DEF ParseEnd, Kept, input, Parsed, Literal
<1>2. ~ opt.printOnly /\ movie.cts # <<>>
  BY <1>1 DEF Moving, Timing
<1>3. pc # "execute" /\ (pc' = pc \/ pc' \in {"failed", "parse", "average", "rescale"})
  BY <1>1 DEF Load, ParseLine, ParseEnd, Average
<1>4. PICK h : \E k : Reads(h, k)
  BY <1>1 DEF Parsed
<1>5. PICK k : Reads(h, k)
  BY <1>4
<1>6. Text \in Seq(Int) /\ lines \in Seq(Int)
  BY <1>1, FileTyped
<1>7. ~ (Len(timecodes) < Wanted /\ lines # <<>>)
  BY <1>1 DEF Reading
<1>8. /\ Completed \in Seq(Int)
      /\ IF Len(Completed) = Wanted THEN Timed(Completed) ELSE TooFew
  BY <1>1, <1>2, <1>5, <1>6, <1>7, CompletedTimes
<1>9. FrameCount \in Nat /\ Wanted = FrameCount + 1
  BY <1>2, CountTyped
<1>10. CASE timecodes = <<>>
  <2>1. pc' = "failed"
    BY <1>10 DEF ParseEnd
  <2>2. Completed = <<>>
    BY <1>10 DEF Completed
  <2>3. TooFew
    BY <1>8, <1>9, <2>2
  <2>4. pc' \notin Timing \cup {"execute"}
    BY <2>1 DEF Timing
  <2> QED BY <1>1, <1>2, <2>1, <2>3, <2>4, ParsedStays DEF Got, Reason
<1>11. CASE timecodes # <<>>
  <2>1. pc' = Average /\ timecodes' = Completed
    BY <1>11 DEF ParseEnd
  <2>2. pc' \in {"average", "rescale"} /\ (pc' = "average" => opt.optimizeTimecode)
    BY <2>1 DEF Average
  <2>3. Completed # <<>>
    <3>1. CASE Completed = timecodes
      BY <1>11, <3>1
    <3>2. CASE Completed # timecodes
      <4>1. Len(Completed) = Len(timecodes) + 1
        <5>1. Last(timecodes) \in Int /\ timecodes[Len(timecodes) - 1] \in Int
          BY <1>1, <3>2 DEF Completed, Last
        <5>2. 2 * Last(timecodes) - timecodes[Len(timecodes) - 1] \in Int
          BY <5>1
        <5> QED BY <1>1, <3>2, <5>2 DEF Completed
      <4> QED BY <1>1, <4>1
    <3> QED BY <3>1, <3>2
  <2> QED BY <1>1, <1>2, <1>3, <1>8, <2>1, <2>2, <2>3, ParsedStays DEF Got
<1> QED BY <1>10, <1>11

LEMMA ParsedAveraging ==
    ASSUME Typed, Grouped, Literal, Moving, Parsed,
           EnterAverage \/ GroupDelta \/ LeaveAverage \/ ConvertToExactRanges
    PROVE  Parsed'
<1>1. /\ pc \in {"average", "group", "convert"} /\ UNCHANGED <<movie, texts>>
      /\ given' = given /\ opt.optimizeTimecode
  BY DEF EnterAverage, GroupDelta, LeaveAverage, ConvertToExactRanges, Kept, input,
         Literal
<1>2. ~ opt.printOnly /\ movie.cts # <<>> /\ DOMAIN opt = DOMAIN NoOptions
  BY <1>1 DEF Moving, Timing, Typed
<1>3. FrameCount \in Nat /\ Wanted = FrameCount + 1 /\ FrameCount < IntModulus
  BY <1>2, CountTyped
<1>4. deltas \in Seq(Int) /\ Len(deltas) \in Nat
  BY DEF Grouped
<1>5. CASE EnterAverage
  <2>1. /\ pc = "average" /\ pc' = "group" /\ opt' = opt
        /\ deltas' = Deltas(timecodes) /\ timecodes \in Seq(Int)
    BY <1>5 DEF EnterAverage, BeginAverage, Kept, Typed, Collecting
  <2>2. FromFile => Len(deltas') + 1 = Len(timecodes)
    <3> SUFFICES ASSUME FromFile PROVE Len(deltas') + 1 = Len(timecodes)
      OBVIOUS
    <3>1. timecodes # <<>>
      BY <2>1 DEF Parsed
    <3>2. DOMAIN deltas' = 1 .. Len(timecodes) - 1 /\ Len(timecodes) - 1 \in Nat
      BY <2>1, <3>1 DEF Deltas
    <3>3. deltas' \in Seq(Int)
      BY <2>1, DeltasTyped
    <3>4. Len(deltas') = Len(timecodes) - 1
      BY <3>2, <3>3
    <3> QED BY <3>2, <3>4
  <2>3. FromFile => Len(deltas') + 1 = Wanted \/ TooFew
    BY <2>1, <2>2 DEF Parsed
  <2> QED BY <1>1, <1>2, <2>1, <2>3, ParsedStays DEF Got
<1>6. CASE GroupDelta
  <2>1. /\ pc = "group" /\ pc' = pc /\ opt' = opt /\ deltas' = deltas
    BY <1>6 DEF GroupDelta, Group, Kept
  <2> QED BY <1>1, <1>2, <2>1, ParsedStays DEF Got, Parsed
<1>7. CASE LeaveAverage
  <2>1. /\ pc = "group" /\ pc' = "convert" /\ opt' = opt
        /\ UNCHANGED grouping /\ done = Len(deltas)
        /\ averages' = Averages
        /\ timecodes' = [i \in 1 .. Len(deltas) + 1 |-> AveragedCode(i - 1)]
    BY <1>7 DEF LeaveAverage, EndAverage, Kept
  <2>2. deltas' = deltas /\ done' = done /\ cuts' = cuts
    BY <2>1 DEF grouping
  <2>3. Averages' = Averages
    BY <2>2, AveragesSame
  <2>4. Len(timecodes') = Len(deltas) + 1
    BY <1>4, <2>1
  <2>5. FromFile => Len(deltas) + 1 = Wanted \/ TooFew
    BY <2>1 DEF Parsed
  <2> QED BY <1>1, <1>2, <2>1, <2>2, <2>3, <2>4, <2>5, ParsedStays DEF Got
<1>8. CASE ConvertToExactRanges
  <2>1. /\ pc = "convert" /\ timecodes' = timecodes
        /\ averages = Averages /\ done = Len(deltas)
        /\ FromFile => Len(deltas) + 1 = Wanted \/ TooFew
        /\ FromFile => Len(timecodes) = Wanted \/ TooFew
    BY <1>8 DEF ConvertToExactRanges, codes, Parsed
  <2>2. CASE AllWellKnown
    <3>1. opt' = [opt EXCEPT !.ranges = ExactRanges] /\ pc' = "SetFPS"
      BY <1>8, <2>2 DEF ConvertToExactRanges
    <3>2. /\ opt'.ranges = ExactRanges /\ opt'.timecodeFile = opt.timecodeFile
          /\ opt'.optimizeTimecode = opt.optimizeTimecode
          /\ opt'.printOnly = opt.printOnly
      BY <1>2, <3>1 DEF NoOptions
    <3>3. /\ FrameCount' = FrameCount /\ Asked' = Asked
          /\ (FromFile' <=> FromFile)
      BY <1>1, <3>2 DEF FrameCount, Asked, FromFile
    <3>4. TooFew' <=> TooFew
      BY <3>3 DEF TooFew
    <3>5. Frames(NormalizeFPSRange(ExactRanges, FrameCount)) = Len(deltas)
      BY <2>1, ExactRangesCover
    <3>6. Covering' <=> Len(deltas) % IntModulus = FrameCount
      BY <3>2, <3>3, <3>5 DEF Covering
    <3>7. Len(deltas) + 1 = Wanted => Len(deltas) % IntModulus = FrameCount
      <4>1. Len(deltas) + 1 = Wanted => Len(deltas) = FrameCount
        BY <1>3, <1>4
      <4>2. FrameCount % IntModulus = FrameCount
        BY <1>3, IntModulusAssumption
      <4> QED BY <4>1, <4>2
    <3>8. (FromFile => Covering \/ TooFew)'
      BY <2>1, <3>3, <3>4, <3>6, <3>7
    <3>9. opt'.optimizeTimecode /\ ~ Literally'
      BY <1>1, <3>2 DEF Literally
    <3> QED BY <3>1, <3>8, <3>9 DEF Parsed, Got
  <2>3. CASE ~ AllWellKnown
    <3>1. opt' = opt /\ pc' = "rescale"
      BY <1>8, <2>3 DEF ConvertToExactRanges
    <3>2. ~ Literally
      BY <1>1 DEF Literally
    <3> QED BY <1>1, <1>2, <2>1, <3>1, <3>2, ParsedStays DEF Got
  <2> QED BY <2>2, <2>3
<1> QED BY <1>5, <1>6, <1>7, <1>8

LEMMA ParsedGiven ==
    ASSUME Typed, Literal, Moving, Parsed, SetFPS \/ SetTimeCodes \/ Save
    PROVE  Parsed'
<1>1. UNCHANGED <<movie, texts, opt>>
  BY DEF SetFPS, SetTimeCodes, Save, Kept, input
<1>2. ~ opt.printOnly
  BY DEF SetFPS, SetTimeCodes, Save, Moving, Timing
<1>3. DOMAIN given = DOMAIN Nothing
  BY DEF Literal
<1>4. CASE SetFPS
  <2> DEFINE ranges == NormalizeFPSRange(opt.ranges, FrameCount)
  <2>1. pc = "SetFPS" /\ given.codes = <<>>
    BY <1>4 DEF SetFPS, Literal
  <2>2. FromFile => Covering \/ TooFew
    BY <1>2, <2>1 DEF Parsed
  <2>3. CASE Covering
    <3>1. pc' = "save" /\ given'.codes = given.codes
      BY <1>3, <1>4, <2>3 DEF SetFPS, Covering, Nothing
    <3>2. ~ Got'
      BY <2>1, <3>1 DEF Got
    <3> QED BY <1>1, <1>2, <3>1, <3>2, ParsedStays DEF Timing
  <2>4. CASE ~ Covering
    <3>1. pc' = "failed"
      BY <1>4, <2>4 DEF SetFPS, Covering
    <3>2. ~ Got'
      BY <3>1 DEF Got
    <3> QED BY <1>1, <1>2, <2>2, <2>4, <3>1, <3>2, ParsedStays DEF Timing, Reason
  <2> QED BY <2>3, <2>4
<1>5. CASE SetTimeCodes
  <2>1. pc = "rescale"
    BY <1>5 DEF SetTimeCodes
  <2>2. CASE Len(timecodes) = Wanted
    <3>1. pc' = "save" /\ given'.codes = timecodes
      BY <1>3, <1>5, <2>2 DEF SetTimeCodes, Nothing
    <3>2. Literally => Timed(timecodes)
      BY <2>1, <2>2 DEF Parsed
    <3> QED BY <1>1, <1>2, <3>1, <3>2, ParsedStays DEF Timing
  <2>3. CASE Len(timecodes) # Wanted
    <3>1. pc' = "failed"
      BY <1>5, <2>3 DEF SetTimeCodes
    <3>2. FromFile => TooFew
      BY <2>1, <2>3 DEF Parsed
    <3>3. ~ Got'
      BY <3>1 DEF Got
    <3> QED BY <1>1, <1>2, <3>1, <3>2, <3>3, ParsedStays DEF Timing, Reason
  <2> QED BY <2>2, <2>3
<1>6. CASE Save
  <2>1. pc = "save" /\ given' = given /\ pc' \in {"edited", "copied"}
    BY <1>6 DEF Save
  <2>2. Got' => Got
    BY <2>1 DEF Got
  <2>3. Got /\ Literally => Timed(given.codes)
    BY DEF Parsed
  <2> QED BY <1>1, <1>2, <2>1, <2>2, <2>3, ParsedStays DEF Timing
<1> QED BY <1>4, <1>5, <1>6

LEMMA ParsedKeeps ==
    ASSUME Inv, Moving, Parsed, [Next]_vars
    PROVE  Parsed'
<1>0. Typed /\ Grouped /\ Literal
  BY DEF Inv
<1>1. CASE GetOpt \/ Again \/ PrintTimeCodes
  BY <1>1, NothingParsed DEF GetOpt, Again, PrintTimeCodes
<1>2. CASE CheckOptions
  <2>1. pc' \in {"usage", "exclusive", "execute"} /\ UNCHANGED <<movie, texts, opt>>
    BY <1>2 DEF CheckOptions, Kept, input
  <2>2. CASE pc' = "execute"
    <3>1. opt.printOnly \/ opt.timecodeFile = NoFile \/ opt.ranges = <<>>
      BY <1>2, <2>2 DEF CheckOptions
    <3> QED BY <2>1, <2>2, <3>1, ParsedStays DEF Got, FromFile
  <2> QED BY <2>1, <2>2, NothingParsed
<1>3. CASE Begin
  <2>1. /\ pc = "execute" /\ UNCHANGED <<movie, texts, opt>> /\ given.codes = <<>>
        /\ given' = given
        /\ ~ opt.printOnly /\ FromFile => opt.ranges = <<>>
    BY <1>0, <1>3 DEF Begin, Kept, input, Literal, Collecting, Parsed
  <2>2. /\ pc' = "failed" => movie.cts = <<>>
        /\ pc' = "print" => opt.printOnly
        /\ pc' \in {"failed", "print", "SetFPS", "load", "save", "fix", "keep"}
    BY <1>3 DEF Begin
  <2>3. pc' = "SetFPS" => opt.ranges # <<>> /\ ~ opt.printOnly
    BY <1>3 DEF Begin
  <2>4. ~ Got'
    BY <2>1 DEF Got
  <2>5. pc' = "SetFPS" /\ FromFile => Covering \/ TooFew
    BY <1>3, <2>1, <2>3
  <2> QED BY <2>1, <2>2, <2>4, <2>5, ParsedStays DEF Timing
<1>4. CASE PrintFails
  <2>1. pc' = "failed" /\ UNCHANGED <<movie, texts, opt>> /\ opt.printOnly
    BY <1>4 DEF PrintFails, Kept, input, Parsed
  <2> QED BY <2>1, ParsedStays DEF Got, Timing
<1>5. CASE Load \/ ParseLine \/ ParseEnd
  BY <1>0, <1>5, ParsedLoad, ParsedParseLine, ParsedParseEnd
<1>6. CASE KeepTimes \/ BeginFix \/ Fix \/ EndFix
  <2>1. UNCHANGED <<movie, texts, opt>> /\ pc \in {"keep", "fix", "fixing"}
    BY <1>6 DEF KeepTimes, BeginFix, Fix, EndFix, Kept, input
  <2>2. ~ FromFile
    BY <1>0, <2>1 DEF Literal
  <2>3. pc' \in {"failed", "fixing", "average", "rescale"}
    BY <1>6 DEF KeepTimes, BeginFix, Fix, EndFix, Average
  <2> QED BY <2>1, <2>2, <2>3, ParsedStays DEF Got, Literally
<1>7. CASE EnterAverage \/ GroupDelta \/ LeaveAverage \/ ConvertToExactRanges
  BY <1>0, <1>7, ParsedAveraging
<1>8. CASE SetFPS \/ SetTimeCodes \/ Save
  BY <1>0, <1>8, ParsedGiven
<1>9. CASE UNCHANGED vars
  <2>1. /\ UNCHANGED <<movie, texts, opt, pc, timecodes, given, deltas, done, cuts>>
        /\ UNCHANGED <<averages, lines>>
    BY <1>9 DEF vars, codes, input, grouping
  <2>2. Text' = Text /\ Asked' = Asked
    BY <2>1 DEF Text, Asked
  <2>3. ASSUME NEW h, NEW k PROVE Reads(h, k)' <=> Reads(h, k)
    BY <2>1, <2>2 DEF Reads
  <2>4. Averages' = Averages
    BY <2>1, AveragesSame
  <2>5. Got' <=> Got
    BY <2>1 DEF Got
  <2> QED BY <2>1, <2>3, <2>4, <2>5, ParsedStays DEF Parsed
<1> QED
  BY <1>1, <1>2, <1>3, <1>4, <1>5, <1>6, <1>7, <1>8, <1>9 DEF Next

LEMMA MovingKeeps ==
    ASSUME Typed, Moving, [Next]_vars
    PROVE  Moving'
<1>1. CASE GetOpt \/ CheckOptions \/ PrintTimeCodes \/ PrintFails \/ Again
  <2>1. pc' \in {"getopt", "usage", "exclusive", "execute", "printed", "failed"}
    <3>1. CASE GetOpt \/ CheckOptions
      BY <3>1 DEF GetOpt, CheckOptions
    <3>2. CASE PrintTimeCodes \/ PrintFails \/ Again
      BY <3>2 DEF PrintTimeCodes, PrintFails, Again
    <3> QED BY <1>1, <3>1, <3>2
  <2> QED BY <2>1 DEF Moving, Timing
<1>2. CASE Begin
  <2>1. UNCHANGED <<movie, opt>>
    BY <1>2 DEF Begin, Kept
  <2>2. movie.cts = <<>> \/ opt.printOnly => pc' \in {"failed", "print"}
    BY <1>2 DEF Begin
  <2> QED BY <2>1, <2>2 DEF Moving, Timing
<1>3. CASE \/ Load \/ ParseLine \/ ParseEnd \/ KeepTimes \/ BeginFix \/ Fix \/ EndFix
           \/ EnterAverage \/ GroupDelta \/ LeaveAverage
           \/ SetFPS \/ SetTimeCodes \/ Save
  <2>1. UNCHANGED <<movie, opt>> /\ pc \in Timing \cup {"save"}
    <3>1. CASE Load \/ ParseLine \/ ParseEnd \/ KeepTimes
      BY <3>1 DEF Load, ParseLine, ParseEnd, KeepTimes, Kept, Reading, Timing
    <3>2. CASE BeginFix \/ Fix \/ EndFix
      BY <3>2 DEF BeginFix, Fix, EndFix, Kept, input, Timing
    <3>3. CASE EnterAverage \/ GroupDelta \/ LeaveAverage
      BY <3>3 DEF EnterAverage, GroupDelta, LeaveAverage, Kept, input, Timing
    <3>4. CASE SetFPS \/ SetTimeCodes \/ Save
      BY <3>4 DEF SetFPS, SetTimeCodes, Save, Kept, input, Timing
    <3> QED BY <1>3, <3>1, <3>2, <3>3, <3>4
  <2> QED BY <2>1 DEF Moving
<1>4. CASE ConvertToExactRanges
  <2>1. pc = "convert" /\ movie' = movie /\ DOMAIN opt = DOMAIN NoOptions
    BY <1>4 DEF ConvertToExactRanges, Kept, Typed
  <2>2. opt'.printOnly = opt.printOnly
    BY <1>4, <2>1 DEF ConvertToExactRanges, NoOptions
  <2> QED BY <2>1, <2>2 DEF Moving, Timing
<1>5. CASE UNCHANGED vars
  BY <1>5 DEF vars, Moving
<1> QED BY <1>1, <1>2, <1>3, <1>4, <1>5 DEF Next

LEMMA ParsedHolds == Spec => [](Moving /\ Parsed)
<1>1. Init => Moving /\ Parsed
  BY NothingToParse DEF Init, Moving, Timing
<1>2. Inv /\ (Moving /\ Parsed) /\ [Next]_vars => (Moving /\ Parsed)'
  BY MovingKeeps, ParsedKeeps DEF Inv
<1> QED BY <1>1, <1>2, InvHolds, PTL DEF Spec

(***************************************************************************)
(* With -t the editor is given the times of the file, line by line, and    *)
(* the end that is read or made up for it, for every movie, every file and *)
(* every command line, and in every run of the program (parseTimecode and  *)
(* the loop of execute, main.cpp).                                         *)
(***************************************************************************)
THEOREM FramesGetTheirLines == Spec => []EveryFrameTimed
<1>1. Moving /\ Parsed => EveryFrameTimed
  BY ParsedIsEnough
<1> QED BY <1>1, ParsedHolds, PTL

(***************************************************************************)
(* When the program fails on a movie with frames and a file of time codes, *)
(* the file is missing, does not increase, or is too short: neither the    *)
(* averaging of -x nor the exact rates it finds lose or add a frame that   *)
(* the editor would refuse.                                                *)
(***************************************************************************)
THEOREM FilesRefusedForAReason == Spec => []RefusedForAReason
<1>1. Moving /\ Parsed => RefusedForAReason
  BY ParsedIsEnough
<1> QED BY <1>1, ParsedHolds, PTL

-----------------------------------------------------------------------------
(* What -p prints is read again *)

\* a header, and codes that are not taken for comments
LEMMA StampsAfterHeader ==
    ASSUME NEW text \in Seq(Int), text # <<>>, text[1] = Skipped,
           \A j \in 2 .. Len(text) : text[j] # Skipped
    PROVE  /\ Len(Stamps(text)) = Len(text) - 1
           /\ \A j \in 1 .. Len(text) - 1 : Stamps(text)[j] = text[j + 1]
<1> DEFINE n == Len(text)
<1>1. PICK h : StampsOf(h, text) /\ Stamps(text) = h[n]
  BY StampsFold
<1> DEFINE Copied(i) == /\ h[i] \in Seq(Int) /\ Len(h[i]) = i - 1
                        /\ \A j \in 1 .. i - 1 : h[i][j] = text[j + 1]
           S == {i \in 1 .. n : Copied(i)}
<1>2. n \in Nat /\ n >= 1 /\ 1 \in Int /\ n \in Int
  OBVIOUS
<1>3. 1 \in S
  <2>1. h[0] = <<>> /\ h[1] = h[0]
    <3>1. 1 \in 1 .. n /\ 1 - 1 = 0
      BY <1>2
    <3> QED BY <1>1, <3>1 DEF StampsOf
  <2>2. h[1] \in Seq(Int) /\ Len(h[1]) = 1 - 1
    BY <2>1
  <2> QED BY <1>2, <2>2
<1>4. \A i \in 1 .. n - 1 : i \in S => i + 1 \in S
  <2> SUFFICES ASSUME NEW i \in 1 .. n - 1, i \in S PROVE i + 1 \in S
    OBVIOUS
  <2>1. i + 1 \in 2 .. n /\ i + 1 \in 1 .. n /\ (i + 1) - 1 = i /\ i \in Nat
    BY <1>2
  <2>2. text[i + 1] # Skipped /\ text[i + 1] \in Int
    BY <2>1
  <2>3. h[i + 1] = Append(h[i], text[i + 1])
    BY <1>1, <2>1, <2>2 DEF StampsOf
  <2>4. /\ h[i] \in Seq(Int) /\ Len(h[i]) = i - 1
        /\ \A j \in 1 .. i - 1 : h[i][j] = text[j + 1]
    OBVIOUS
  <2>5. /\ h[i + 1] \in Seq(Int) /\ Len(h[i + 1]) = i
        /\ \A j \in 1 .. i - 1 : h[i + 1][j] = h[i][j]
        /\ h[i + 1][i] = text[i + 1]
    BY <2>1, <2>2, <2>3, <2>4
  <2>6. \A j \in 1 .. i : h[i + 1][j] = text[j + 1]
    <3> SUFFICES ASSUME NEW j \in 1 .. i PROVE h[i + 1][j] = text[j + 1]
      OBVIOUS
    <3>1. CASE j = i
      BY <2>5, <3>1
    <3>2. CASE j # i
      <4>1. j \in 1 .. i - 1
        BY <2>1, <3>2
      <4> QED BY <2>4, <2>5, <4>1
    <3> QED BY <3>1, <3>2
  <2> QED BY <2>1, <2>5, <2>6
<1>5. 1 .. n \subseteq S
  <2> HIDE DEF S, n
  <2> QED BY <1>2, <1>3, <1>4, IntervalInduction
<1>6. n \in S
  <2>1. n \in 1 .. n
    BY <1>2
  <2> HIDE DEF S, n
  <2> QED BY <1>5, <2>1
<1> QED BY <1>1, <1>6

(***************************************************************************)
(* Frames are displayed in order, and what is printed of their times is    *)
(* exact.                                                                  *)
(***************************************************************************)
TimesAreExact ==
    \A m \in Movies : \A i \in DOMAIN m.cts :
        /\ m.cts[1] <= m.cts[i]
        /\ ((1000 * Fraction * (m.cts[i] - m.cts[1])) % m.scale) = 0

LEMMA PrintedStamps ==
    ASSUME TimesAreExact, movie \in Movies, NEW i \in 1 .. FrameCount
    PROVE  /\ Len(Stamps(Printed)) = FrameCount
           /\ Stamps(Printed)[i] * movie.scale
                = 1000 * Fraction * (movie.cts[i] - movie.cts[1])
<1> DEFINE V(j) == 1000 * Fraction * (movie.cts[j] - movie.cts[1])
           times == [j \in 1 .. FrameCount |-> V(j) \div movie.scale]
<1>1. /\ movie.cts \in Seq(Int) /\ movie.scale \in Nat \ {0} /\ Fraction \in Nat \ {0}
      /\ FrameCount = Len(movie.cts) - 1
  BY MoviesAssumption, FractionAssumption DEF FrameCount
<1>2. FrameCount \in Nat /\ FrameCount >= 1
  BY <1>1
<1>3. ASSUME NEW j \in 1 .. FrameCount
      PROVE  /\ V(j) \in Nat /\ (V(j) \div movie.scale) \in Nat
             /\ (V(j) \div movie.scale) * movie.scale = V(j)
  <2>1. /\ j \in DOMAIN movie.cts /\ movie.cts[j] \in Int /\ 1 \in DOMAIN movie.cts
        /\ movie.cts[1] \in Int
    BY <1>1, <1>2
  <2>2. movie.cts[1] <= movie.cts[j] /\ (V(j) % movie.scale) = 0
    BY <2>1 DEF TimesAreExact
  <2>3. movie.cts[j] - movie.cts[1] \in Nat /\ 1000 * Fraction \in Nat
    BY <1>1, <2>1, <2>2
  <2>4. V(j) \in Nat
    <3>1. \A a, b \in Nat : a * b \in Nat
      OBVIOUS
    <3> QED BY <2>3, <3>1
  <2> HIDE DEF V
  <2>5. ASSUME NEW a \in Nat, NEW b \in Nat \ {0}, (a % b) = 0
        PROVE  (a \div b) \in Nat /\ (a \div b) * b = a
    BY <2>5
  <2> QED BY <1>1, <2>2, <2>4, <2>5
<1>4. Printed = <<Skipped>> \o times
  BY DEF Printed
<1>5. times \in Seq(Int) /\ Len(times) = FrameCount
  <2>1. times \in [1 .. FrameCount -> Nat]
    BY <1>3
  <2> HIDE DEF times
  <2> QED BY <1>2, <2>1
<1>6. \A j \in 1 .. FrameCount : times[j] = V(j) \div movie.scale
  OBVIOUS
<1> HIDE DEF times, V
<1>7. /\ Printed \in Seq(Int) /\ Printed # <<>> /\ Len(Printed) = FrameCount + 1
      /\ Printed[1] = Skipped
      /\ \A j \in 1 .. FrameCount : Printed[j + 1] = times[j]
  BY <1>2, <1>4, <1>5 DEF Skipped
<1>8. \A j \in 2 .. Len(Printed) : Printed[j] # Skipped
  <2> SUFFICES ASSUME NEW j \in 2 .. Len(Printed) PROVE Printed[j] # Skipped
    OBVIOUS
  <2>1. j - 1 \in 1 .. FrameCount /\ (j - 1) + 1 = j
    BY <1>2, <1>7
  <2>2. times[j - 1] \in Nat
    BY <1>3, <1>6, <2>1
  <2>3. Printed[j] = times[j - 1]
    BY <1>7, <2>1
  <2> QED BY <2>2, <2>3 DEF Skipped
<1>9. /\ Len(Stamps(Printed)) = Len(Printed) - 1
      /\ \A j \in 1 .. Len(Printed) - 1 : Stamps(Printed)[j] = Printed[j + 1]
  <2> HIDE DEF Printed
  <2> QED BY <1>7, <1>8, StampsAfterHeader
<1>10. Stamps(Printed)[i] = V(i) \div movie.scale
  <2>1. i \in 1 .. Len(Printed) - 1
    BY <1>2, <1>7
  <2> QED BY <1>6, <1>7, <1>9, <2>1
<1>11. Len(Stamps(Printed)) = FrameCount
  BY <1>2, <1>7, <1>9
<1>12. Stamps(Printed)[i] * movie.scale = V(i)
  BY <1>3, <1>10
<1> QED BY <1>11, <1>12 DEF V

\* the file last printed is still there, and codes of a file are milliseconds
Reread ==
    /\ printed # NoFile => printed \in Names /\ texts[printed] = Printed
    /\ pc \in {"getopt", "execute", "print", "load", "parse"} => timeScale = 1000
    /\ pc \in {"average", "group", "convert", "rescale"} /\ FromFile => timeScale = 1000
    /\ Got /\ FromFile /\ opt.requestedTimeScale < 0 =>
          given.by = Ratio(movie.scale, 1000)

LEMMA RereadStays ==
    ASSUME Reread, UNCHANGED <<movie, texts, printed>>,
           pc' \in {"getopt", "execute", "print", "load", "parse"} => timeScale' = 1000,
           pc' \in {"average", "group", "convert", "rescale"} /\ FromFile' =>
              timeScale' = 1000,
           Got' /\ FromFile' /\ opt'.requestedTimeScale < 0 =>
              given'.by = Ratio(movie.scale, 1000)
    PROVE  Reread'
<1>1. Printed' = Printed
  BY DEF Printed, FrameCount
<1> QED BY <1>1 DEF Reread

LEMMA RereadKeeps ==
    ASSUME Typed, Literal, Reread, [Next]_vars
    PROVE  Reread'
<1>1. CASE GetOpt \/ CheckOptions \/ Begin \/ PrintFails
  <2>1. /\ UNCHANGED <<movie, texts, printed, timeScale>>
        /\ pc \in {"getopt", "execute", "print"}
        /\ pc' \notin {"average", "group", "convert", "rescale", "edited"}
        /\ given' = given /\ given.codes = <<>>
    <3>1. CASE GetOpt \/ CheckOptions
      BY <3>1 DEF GetOpt, CheckOptions, Kept, input, codes, Literal, Collecting
    <3>2. CASE Begin \/ PrintFails
      BY <3>2 DEF Begin, PrintFails, Kept, input, codes, Literal, Collecting
    <3> QED BY <1>1, <3>1, <3>2
  <2>2. timeScale = 1000
    BY <2>1 DEF Reread
  <2>3. ~ Got'
    BY <2>1 DEF Got
  <2> QED BY <2>1, <2>2, <2>3, RereadStays
<1>2. CASE PrintTimeCodes
  <2>1. /\ texts' = [texts EXCEPT ![opt.timecodeFile] = Printed]
        /\ printed' = opt.timecodeFile /\ pc' = "printed" /\ movie' = movie
    BY <1>2 DEF PrintTimeCodes
  <2>2. Printed' = Printed
    BY <2>1 DEF Printed, FrameCount
  <2>3. texts \in [Names -> Seq(Int)] /\ opt.timecodeFile \in Names \cup {NoFile}
    BY DEF Typed
  <2>4. printed' # NoFile => printed' \in Names /\ texts'[printed'] = Printed
    BY <2>1, <2>3
  <2> QED BY <2>1, <2>2, <2>4 DEF Reread, Got
<1>3. CASE Load \/ ParseLine \/ ParseEnd
  <2>1. /\ UNCHANGED <<movie, texts, printed, timeScale>>
        /\ pc \in {"load", "parse"}
        /\ pc' \notin {"save", "edited"}
    <3>1. CASE Load
      BY <3>1 DEF Load, Kept, codes
    <3>2. CASE ParseLine \/ ParseEnd
      BY <3>2 DEF ParseLine, ParseEnd, Kept, Reading, input, Average
    <3> QED BY <1>3, <3>1, <3>2
  <2>2. timeScale = 1000
    BY <2>1 DEF Reread
  <2> QED BY <2>1, <2>2, RereadStays DEF Got
<1>4. CASE KeepTimes \/ BeginFix \/ Fix \/ EndFix
  <2>1. UNCHANGED <<movie, texts, printed, opt>> /\ pc \in {"keep", "fix", "fixing"}
    BY <1>4 DEF KeepTimes, BeginFix, Fix, EndFix, Kept, input
  <2>2. ~ FromFile'
    BY <2>1 DEF Literal, FromFile
  <2>3. pc' \notin {"getopt", "execute", "print", "load", "parse"}
    BY <1>4 DEF KeepTimes, BeginFix, Fix, EndFix, Average
  <2> QED BY <2>1, <2>2, <2>3, RereadStays
<1>5. CASE EnterAverage \/ GroupDelta \/ LeaveAverage
  <2>1. /\ UNCHANGED <<movie, texts, printed, timeScale, opt>>
        /\ pc \in {"average", "group"} /\ pc' \in {"group", "convert"}
    BY <1>5 DEF EnterAverage, GroupDelta, LeaveAverage, Kept, input
  <2>2. FromFile' => timeScale = 1000
    BY <2>1 DEF Reread, FromFile
  <2> QED BY <2>1, <2>2, RereadStays DEF Got
<1>6. CASE ConvertToExactRanges
  <2>1. /\ UNCHANGED <<movie, texts, printed, timeScale>>
        /\ pc = "convert" /\ pc' \in {"SetFPS", "rescale"}
        /\ DOMAIN opt = DOMAIN NoOptions
    BY <1>6 DEF ConvertToExactRanges, Kept, input, codes, Typed
  <2>2. opt'.timecodeFile = opt.timecodeFile
    BY <1>6, <2>1 DEF ConvertToExactRanges, NoOptions
  <2>3. FromFile' => timeScale = 1000
    BY <2>1, <2>2 DEF Reread, FromFile
  <2> QED BY <2>1, <2>3, RereadStays DEF Got
<1>7. CASE SetFPS
  <2>1. /\ UNCHANGED <<movie, texts, printed>> /\ pc' \in {"failed", "save"}
        /\ given.codes = <<>> /\ DOMAIN given = DOMAIN Nothing
    BY <1>7 DEF SetFPS, Kept, input, Literal
  <2>2. given'.codes = <<>>
    BY <1>7, <2>1 DEF SetFPS, Nothing
  <2> QED BY <2>1, <2>2, RereadStays DEF Got
<1>8. CASE SetTimeCodes
  <2>1. /\ UNCHANGED <<movie, texts, printed, opt>> /\ pc' \in {"failed", "save"}
        /\ pc = "rescale" /\ DOMAIN given = DOMAIN Nothing
    BY <1>8 DEF SetTimeCodes, Kept, input, Literal
  <2>2. ASSUME pc' = "save", FromFile', opt'.requestedTimeScale < 0
        PROVE  given'.by = Ratio(movie.scale, 1000)
    <3>1. /\ timeScale = 1000 /\ opt.requestedTimeScale < 0
      BY <2>1, <2>2 DEF Reread, FromFile
    <3>2. opt.requestedTimeScale < 0 => ~ (opt.requestedTimeScale > 0)
      BY DEF Typed, Signed
    <3>3. ScaleFor(timecodes, opt.requestedTimeScale, movie.scale)
            = Ratio(movie.scale, 1000)
      BY <3>1, <3>2 DEF ScaleFor
    <3>4. given'.by = ScaleFor(timecodes, opt.requestedTimeScale, movie.scale)
      BY <1>8, <2>1, <2>2 DEF SetTimeCodes, Nothing
    <3> QED BY <3>3, <3>4
  <2> QED BY <2>1, <2>2, RereadStays DEF Got
<1>9. CASE Save
  <2>1. /\ UNCHANGED <<movie, texts, printed, timeScale, opt, given>>
        /\ pc = "save" /\ pc' \in {"edited", "copied"}
    BY <1>9 DEF Save, Kept, input, codes
  <2>2. Got' => Got
    BY <2>1 DEF Got
  <2>3. Got' /\ FromFile' /\ opt'.requestedTimeScale < 0 =>
           given'.by = Ratio(movie.scale, 1000)
    BY <2>1, <2>2 DEF Reread, FromFile
  <2> QED BY <2>1, <2>3, RereadStays
<1>10. CASE Again
  BY <1>10, RereadStays DEF Again, Got
<1>11. CASE UNCHANGED vars
  <2>1. UNCHANGED <<movie, texts, printed, timeScale, opt, given, pc>>
    BY <1>11 DEF vars, codes, input
  <2> QED BY <2>1, RereadStays DEF Reread, Got, FromFile
<1> QED
  BY <1>1, <1>2, <1>3, <1>4, <1>5, <1>6, <1>7, <1>8, <1>9, <1>10, <1>11 DEF Next

LEMMA RereadIsEnough ==
    ASSUME TimesAreExact, Typed, Moving, Parsed, Reread
    PROVE  PrintedRoundTrip
<1> SUFFICES ASSUME Got, FromFile, opt.timecodeFile = printed,
                    opt.requestedTimeScale < 0, ~ opt.optimizeTimecode,
                    NEW i \in 1 .. FrameCount
             PROVE  given.codes[i] * given.by.num
                      = Fraction * (movie.cts[i] - movie.cts[1]) * given.by.den
  BY DEF PrintedRoundTrip
<1>1. given.by.num = movie.scale /\ given.by.den = 1000
  BY DEF Reread, Ratio
<1>2. movie \in Movies /\ movie.cts # <<>>
  BY DEF Typed, Moving, Got
<1>3. Asked = Stamps(Printed)
  BY DEF Reread, Asked, FromFile
<1>4. /\ Len(Asked) = FrameCount
      /\ Asked[i] * movie.scale = 1000 * Fraction * (movie.cts[i] - movie.cts[1])
  BY <1>2, <1>3, PrintedStamps
<1>5. Timed(given.codes)
  BY DEF Parsed, Literally
<1>6. PICK end : given.codes = Append(SubSeq(Asked, 1, FrameCount), end)
  BY <1>5 DEF Timed
<1>7. FrameCount \in Nat
  BY <1>2, CountTyped
<1>8. given.codes[i] = Asked[i]
  <2>1. /\ DOMAIN SubSeq(Asked, 1, FrameCount) = 1 .. FrameCount
        /\ Len(SubSeq(Asked, 1, FrameCount)) = FrameCount
        /\ SubSeq(Asked, 1, FrameCount)[i] = Asked[i]
    BY <1>7
  <2>2. SubSeq(Asked, 1, FrameCount) \in Seq({Asked[j] : j \in 1 .. FrameCount})
    BY <1>7
  <2> QED BY <1>6, <1>7, <2>1, <2>2
<1>9. Fraction \in Int /\ movie.cts[i] - movie.cts[1] \in Int
  <2>1. movie.cts \in Seq(Int) /\ i \in 1 .. Len(movie.cts) /\ 1 \in 1 .. Len(movie.cts)
    BY <1>2, MoviesAssumption DEF FrameCount
  <2> QED BY <2>1, FractionAssumption
<1>10. 1000 * Fraction * (movie.cts[i] - movie.cts[1])
         = Fraction * (movie.cts[i] - movie.cts[1]) * 1000
  <2>1. \A a, b \in Int : 1000 * a * b = a * b * 1000
    OBVIOUS
  <2> QED BY <1>9, <2>1
<1> QED BY <1>1, <1>4, <1>8, <1>10

(***************************************************************************)
(* The times that -p prints come back exactly when -t reads them again and *)
(* -T keeps the time scale of the movie, provided that the times of each   *)
(* movie do not precede that of its first frame and that what is printed   *)
(* of them is exact: no line is taken for a comment, none is lost, and the *)
(* scale undoes the milliseconds.                                          *)
(***************************************************************************)
THEOREM PrintedIsReadBack == TimesAreExact => (Spec => []PrintedRoundTrip)
<1> SUFFICES ASSUME TimesAreExact PROVE Spec => []PrintedRoundTrip
  OBVIOUS
<1>1. Init => Reread
  BY DEF Init, Reread, Got, NoFile
<1>2. Inv /\ Reread /\ [Next]_vars => Reread'
  BY RereadKeeps DEF Inv
<1>3. Inv /\ (Moving /\ Parsed) /\ Reread => PrintedRoundTrip
  BY RereadIsEnough DEF Inv
<1> QED BY <1>1, <1>2, <1>3, InvHolds, ParsedHolds, PTL DEF Spec

-----------------------------------------------------------------------------
(* Rescaling *)

LEMMA SumTyped ==
    ASSUME NEW s \in Seq(Int)
    PROVE  FoldLeft(LAMBDA a, b : a + b, 0, s) \in Int
<1> DEFINE n == Len(s)
           D == DOMAIN s
           step == [p \in (1 .. n) \X Int |-> p[2] + s[p[1]]]
           it == CHOOSE f : f = [t \in SUBSET D |->
                      IF t = {} THEN 0 ELSE f[t \ {Max(t)}] + s[Max(t)]]
           S == {k \in 0 .. n : it[1 .. k] \in Int}
<1>1. n \in Nat /\ D = 1 .. n /\ 0 \in Int /\ n \in Int /\ \A k \in 1 .. n : s[k] \in Int
  OBVIOUS
<1>2. step \in [(1 .. n) \X Int -> Int]
  <2> HIDE DEF n, D
  <2> QED BY <1>1
<1>3. ASSUME NEW k \in 1 .. n, NEW v \in Int
      PROVE  step[<<k, v>>] = v + s[k]
  OBVIOUS
<1> HIDE DEF step, n, D
<1>4. PICK g \in [SUBSET (1 .. n) -> Int] : Folded(g, n, 0, step)
  BY <1>1, <1>2, FoldExists, Zenon
<1>5. ASSUME NEW t \in SUBSET (1 .. n), t # {}
      PROVE  step[<<Max(t), g[t \ {Max(t)}]>>] = g[t \ {Max(t)}] + s[Max(t)]
  <2>1. Max(t) \in 1 .. n /\ t \ {Max(t)} \in SUBSET (1 .. n)
    BY <1>1, <1>5, MaxOfPart
  <2>2. g[t \ {Max(t)}] \in Int
    BY <1>4, <2>1
  <2> QED BY <1>3, <2>1, <2>2
<1>6. g = [t \in SUBSET D |-> IF t = {} THEN 0 ELSE g[t \ {Max(t)}] + s[Max(t)]]
  BY <1>1, <1>4, <1>5 DEF Folded
<1>7. it = [t \in SUBSET D |-> IF t = {} THEN 0 ELSE it[t \ {Max(t)}] + s[Max(t)]]
  BY <1>6, Zenon
<1>8. FoldLeft(LAMBDA a, b : a + b, 0, s) = it[D]
  BY Zenon DEF FoldLeft, MapThenFoldSet, D
<1> HIDE DEF it
<1>9. ASSUME NEW k \in 1 .. n
      PROVE  it[1 .. k] = it[1 .. k - 1] + s[k]
  <2>1. /\ 1 .. k \in SUBSET D /\ 1 .. k # {}
        /\ Max(1 .. k) = k /\ (1 .. k) \ {k} = 1 .. k - 1
    BY <1>1, LastIndex
  <2>2. it[1 .. k] = it[(1 .. k) \ {Max(1 .. k)}] + s[Max(1 .. k)]
    BY <1>7, <2>1, Zenon
  <2> QED BY <2>1, <2>2
<1>10. 0 \in S
  <2>1. 1 .. 0 = {} /\ {} \in SUBSET D
    OBVIOUS
  <2>2. it[1 .. 0] = 0
    BY <1>7, <2>1
  <2> QED BY <1>1, <2>2
<1>11. \A k \in 0 .. n - 1 : k \in S => k + 1 \in S
  <2> SUFFICES ASSUME NEW k \in 0 .. n - 1, k \in S PROVE k + 1 \in S
    OBVIOUS
  <2>1. k + 1 \in 1 .. n /\ (k + 1) - 1 = k /\ k + 1 \in 0 .. n
    BY <1>1
  <2>2. it[1 .. (k + 1)] = it[1 .. ((k + 1) - 1)] + s[k + 1]
    BY <1>9, <2>1
  <2>3. it[1 .. k] \in Int /\ s[k + 1] \in Int
    BY <1>1, <2>1
  <2> QED BY <2>1, <2>2, <2>3
<1>12. 0 .. n \subseteq S
  <2> HIDE DEF S
  <2> QED BY <1>1, <1>10, <1>11, IntervalInduction
<1>13. it[1 .. n] \in Int
  <2>1. n \in 0 .. n
    BY <1>1
  <2> QED BY <1>12, <2>1
<1> QED BY <1>1, <1>8, <1>13

LEMMA ElapsedTyped ==
    ASSUME deltas \in Seq(Int), NEW n \in Int, n <= Len(deltas)
    PROVE  Elapsed(n) \in Int
<1> DEFINE s == SubSeq(deltas, 1, n)
<1>1. s \in Seq(Int)
  <2>1. \A i \in 1 .. n : deltas[i] \in Int
    OBVIOUS
  <2> QED BY <2>1
<1> HIDE DEF s
<1>2. FoldLeft(LAMBDA a, b : a + b, 0, s) \in Int
  BY <1>1, SumTyped
<1> QED BY <1>2 DEF Elapsed, s

\* a group has at least one delta
LEMMA GroupTyped ==
    ASSUME Grouped, done = Len(deltas), NEW c \in cuts
    PROVE  /\ c \in Nat /\ GroupEnd(c) \in c .. Len(deltas)
           /\ GroupFrom(c).count \in Nat \ {0} /\ GroupFrom(c).sum \in Int
<1>1. /\ Len(deltas) \in Nat /\ cuts \in SUBSET (1 .. Len(deltas))
      /\ deltas \in Seq(Int) /\ c \in 1 .. Len(deltas)
  BY DEF Grouped
<1>2. GroupEnd(c) = EndOf(cuts, Len(deltas), c)
  BY DEF GroupEnd, EndOf
<1>3. GroupEnd(c) \in c .. Len(deltas)
  <2> DEFINE n == Len(deltas)
             e == GroupEnd(c)
  <2>1. n \in Nat /\ cuts \in SUBSET (1 .. n) /\ c \in cuts /\ e = EndOf(cuts, n, c)
    BY <1>1, <1>2
  <2> HIDE DEF n, e
  <2>2. e \in c .. n
    BY <2>1, NextGroup
  <2> QED BY <2>2 DEF n, e
<1>4. /\ GroupEnd(c) \in Int /\ GroupEnd(c) <= Len(deltas)
      /\ c - 1 \in Int /\ c - 1 <= Len(deltas)
      /\ GroupEnd(c) - c + 1 \in Nat \ {0}
  BY <1>1, <1>3
<1>5. Elapsed(GroupEnd(c)) \in Int /\ Elapsed(c - 1) \in Int
  BY <1>1, <1>4, ElapsedTyped
<1>6. /\ GroupFrom(c).count = GroupEnd(c) - c + 1
      /\ GroupFrom(c).sum = Elapsed(GroupEnd(c)) - Elapsed(c - 1)
  BY DEF GroupFrom
<1> QED BY <1>1, <1>3, <1>4, <1>5, <1>6

LEMMA AveragedTyped ==
    ASSUME Grouped, done = Len(deltas), NEW i \in 0 .. Len(deltas)
    PROVE  AveragedCode(i) \in Int
<1>1. CASE i = 0
  BY <1>1 DEF AveragedCode
<1>2. CASE i # 0
  <2> DEFINE S == {c \in cuts : c <= i}
             c == GroupStart(i)
             g == GroupFrom(c)
  <2>1. S \in SUBSET Int /\ S # {} /\ \A x \in S : x <= i
    <3>1. i \in Int /\ 1 <= i /\ done > 0
      BY <1>2 DEF Grouped
    <3>2. 1 \in cuts /\ \A x \in cuts : x \in Int
      BY <3>1 DEF Grouped
    <3>3. 1 \in S
      BY <3>1, <3>2
    <3> QED BY <3>2, <3>3
  <2>2. c = Max(S) /\ i \in Int
    BY DEF GroupStart
  <2>3. c \in S
    <3> HIDE DEF S, c
    <3> QED BY <2>1, <2>2, MaxInside
  <2>4. c \in cuts
    BY <2>3
  <2> HIDE DEF S, c
  <2>5. c \in Nat /\ g.count \in Nat \ {0} /\ g.sum \in Int /\ c <= Len(deltas)
    BY <2>4, GroupTyped
  <2>6. Elapsed(c - 1) \in Int
    <3>1. c - 1 \in Int /\ c - 1 <= Len(deltas) /\ deltas \in Seq(Int)
      BY <2>5 DEF Grouped
    <3> QED BY <3>1, ElapsedTyped
  <2> DEFINE q == (Fraction * g.sum) \div g.count
  <2>7. q \in Int /\ Fraction * Elapsed(c - 1) \in Int
    <3>1. Fraction \in Int
      BY FractionAssumption
    <3>2. Fraction * g.sum \in Int /\ Fraction * Elapsed(c - 1) \in Int
      BY <2>5, <2>6, <3>1
    <3>3. \A a \in Int, b \in Nat \ {0} : (a \div b) \in Int
      OBVIOUS
    <3> HIDE DEF g
    <3> QED BY <2>5, <3>2, <3>3
  <2>8. AveragedCode(i) = Fraction * Elapsed(c - 1) + (i - c + 1) * q
    BY <1>2 DEF AveragedCode, c
  <2> HIDE DEF q
  <2>9. (i - c + 1) * q \in Int
    BY <2>5, <2>7
  <2> QED BY <2>7, <2>8, <2>9
<1> QED BY <1>1, <1>2

LEMMA AveragesTyped ==
    ASSUME Grouped, done = Len(deltas)
    PROVE  /\ \A g \in DOMAIN Averages : /\ Averages[g].count > 0
                                         /\ Averages[g].sum \in Int
           /\ [i \in 1 .. Len(deltas) + 1 |-> AveragedCode(i - 1)] \in Seq(Int)
<1>1. ASSUME NEW g \in DOMAIN Averages
      PROVE  Averages[g].count > 0 /\ Averages[g].sum \in Int
  <2> DEFINE c == NthStart(g)
  <2>1. g \in 1 .. Cardinality(cuts) /\ Averages[g] = GroupFrom(c)
    BY DEF Averages
  <2>2. c \in cuts
    BY <2>1, GroupsFollow
  <2> HIDE DEF c
  <2>3. GroupFrom(c).count \in Nat \ {0} /\ GroupFrom(c).sum \in Int
    BY <2>2, GroupTyped
  <2> QED BY <2>1, <2>3
<1>2. ASSUME NEW i \in 1 .. Len(deltas) + 1 PROVE AveragedCode(i - 1) \in Int
  <2>1. i - 1 \in 0 .. Len(deltas)
    BY DEF Grouped
  <2> QED BY <2>1, AveragedTyped
<1>3. Len(deltas) + 1 \in Nat
  BY DEF Grouped
<1>4. [i \in 1 .. Len(deltas) + 1 |-> AveragedCode(i - 1)]
        \in [1 .. Len(deltas) + 1 -> Int]
  BY <1>2
<1> QED BY <1>1, <1>3, <1>4, FunctionIsSeq

\* timeScale, averages and given hold numbers, and the program is at a step
Numbers ==
    /\ timecodes \in Seq(Int)
    /\ timeScale \in Nat
    /\ pc \in Collecting \cup {"group", "convert", "rescale"} => timeScale > 0
    /\ \A g \in DOMAIN averages : averages[g].count > 0 /\ averages[g].sum \in Int
    /\ given.by.num \in Nat \ {0} /\ given.by.den \in Nat \ {0}
    /\ runs \in 1 .. MaxRuns
    /\ Ended \/ pc \in Steps

\* the last frame has an end, and some power of ten makes the movie short enough
Rescalable ==
    pc = "rescale" /\ Len(timecodes) = Wanted =>
        Len(timecodes) >= 2 /\ ~ TooLong(timecodes, 10000)

LEMMA LeastPower ==
    ASSUME NEW S \in SUBSET PowersOfTen, S # {}
    PROVE  Min(S) \in S /\ \A x \in S : Min(S) <= x
<1>1. S \in SUBSET Nat
  BY DEF PowersOfTen
<1>2. PICK m \in S : \A x \in S : m <= x
  BY <1>1, LeastNatural
<1> QED BY <1>2 DEF Min

LEMMA NatDivided ==
    ASSUME NEW a \in Nat, NEW b \in Nat \ {0}
    PROVE  (a \div b) \in Nat
<1> DEFINE q == a \div b
<1>1. q \in Int /\ a < b * q + b
  OBVIOUS
<1>2. \A x \in Int, y \in Nat : x <= 0 => y * x <= 0
  OBVIOUS
<1> HIDE DEF q
<1>3. b * q + b = b * (q + 1) /\ q + 1 \in Int /\ b * (q + 1) \in Int
  BY <1>1
<1>4. q + 1 <= 0 => b * (q + 1) <= 0
  BY <1>2, <1>3
<1>5. ~ (q + 1 <= 0)
  <2> DEFINE p == b * (q + 1)
  <2>1. p \in Int /\ a < p /\ (q + 1 <= 0 => p <= 0)
    BY <1>1, <1>3, <1>4
  <2> HIDE DEF p
  <2> QED BY <2>1
<1>6. q \in Nat
  BY <1>1, <1>5
<1> QED BY <1>6 DEF q

LEMMA ScaleTyped ==
    ASSUME NEW list \in Seq(Int), Len(list) >= 2, ~ TooLong(list, 10000),
           timeScale \in Nat \ {0}, NEW r \in Int, NEW o \in Nat \ {0}, NEW s,
           s = ScaleFor(list, r, o)
    PROVE  /\ s.num \in Nat \ {0} /\ s.den \in Nat \ {0}
           /\ ScaledTimeScale(s) \in Nat
<1>1. \A a, b : Ratio(a, b).num = a /\ Ratio(a, b).den = b
  BY DEF Ratio
<1>2. s.num \in Nat \ {0} /\ s.den \in Nat \ {0}
  <2>1. CASE r # 0
    BY <1>1, <2>1 DEF ScaleFor
  <2>2. CASE r = 0 /\ TooLong(list, 1)
    <3> DEFINE S == {p \in PowersOfTen : ~ TooLong(list, p)}
    <3>1. S \in SUBSET PowersOfTen /\ S # {}
      BY DEF PowersOfTen
    <3>2. s = Ratio(1, Min(S))
      BY <2>2 DEF ScaleFor, Shrink
    <3> HIDE DEF S
    <3>3. Min(S) \in PowersOfTen
      BY <3>1, LeastPower
    <3> QED BY <1>1, <3>2, <3>3 DEF PowersOfTen
  <2>3. CASE r = 0 /\ ~ TooLong(list, 1) /\ timeScale < 100
    <3> DEFINE Enough(p) == \/ p * Duration(list) >= MaxDuration * Fraction
                            \/ p * timeScale >= 10000
               S == {p \in PowersOfTen : Enough(p)}
    <3>1. S \in SUBSET PowersOfTen /\ S # {}
      <4>1. 10000 \in PowersOfTen /\ 10000 * timeScale >= 10000
        BY DEF PowersOfTen
      <4> QED BY <4>1
    <3>2. s = IF Min(S) = 1 THEN Ratio(1, 10) ELSE Ratio(Min(S) \div 10, 1)
      BY <2>3 DEF ScaleFor, Grow
    <3> HIDE DEF S
    <3>3. Min(S) \in PowersOfTen
      BY <3>1, LeastPower
    <3>4. Min(S) = 1 \/ (Min(S) \div 10) \in {1, 10, 100, 1000}
      BY <3>3 DEF PowersOfTen
    <3> QED BY <1>1, <3>2, <3>4
  <2>4. CASE r = 0 /\ ~ TooLong(list, 1) /\ ~ (timeScale < 100)
    BY <1>1, <2>4 DEF ScaleFor
  <2> QED BY <2>1, <2>2, <2>3, <2>4
<1> DEFINE num == s.num
           den == s.den
           product == (timeScale * num) \div den
<1>3. timeScale * num \in Nat \ {0}
  <2>1. \A a, b \in Nat \ {0} : a * b \in Nat \ {0}
    OBVIOUS
  <2> QED BY <1>2, <2>1
<1>4. product \in Nat /\ (product * den = timeScale * num => product >= 1)
  <2>2. product \in Nat
    <3>1. timeScale * num \in Nat /\ den \in Nat \ {0}
      BY <1>2, <1>3
    <3>2. \A a \in Nat, b \in Nat \ {0} : (a \div b) \in Nat
      BY NatDivided
    <3> HIDE DEF num, den
    <3> QED BY <3>1, <3>2
  <2>3. product = 0 => product * den = 0
    BY <1>2
  <2> HIDE DEF product
  <2> QED BY <1>3, <2>2, <2>3
<1>5. ScaledTimeScale(s) = product \/
        (product * den = timeScale * num /\ ScaledTimeScale(s) = product - 1)
  BY DEF ScaledTimeScale
<1>6. ScaledTimeScale(s) \in Nat
  <2> HIDE DEF product
  <2> QED BY <1>4, <1>5
<1> QED BY <1>2, <1>6

LEMMA NumbersStay ==
    ASSUME Numbers, UNCHANGED <<timeScale, averages, given, runs>>,
           timecodes' \in Seq(Int), pc' \in Steps \cup {"usage", "exclusive",
              "failed", "printed", "copied", "edited"},
           pc \in Collecting \cup {"group", "convert", "rescale"} \/
              pc' \notin Collecting \cup {"group", "convert", "rescale"}
    PROVE  Numbers'
BY DEF Numbers, Ended

LEMMA NumbersKeep ==
    ASSUME Inv, Numbers, Rescalable, [Next]_vars
    PROVE  Numbers'
<1>0. Typed /\ Grouped /\ Literal /\ timecodes \in Seq(Int)
  BY DEF Inv, Numbers
<1> USE DEF Collecting, Steps
<1>1. CASE GetOpt \/ CheckOptions \/ Begin
  <2>1. /\ UNCHANGED <<timeScale, averages, given, runs, timecodes>>
        /\ pc \in {"getopt", "execute"}
        /\ pc' \in {"getopt", "usage", "exclusive", "execute", "failed", "print",
                    "SetFPS", "load", "save", "fix", "keep"}
    <3>1. CASE GetOpt \/ CheckOptions
      BY <3>1 DEF GetOpt, CheckOptions, Kept, codes
    <3>2. CASE Begin
      BY <3>2 DEF Begin, Kept, codes
    <3> QED BY <1>1, <3>1, <3>2
  <2> QED BY <1>0, <2>1, NumbersStay
<1>2. CASE PrintTimeCodes \/ PrintFails
  <2>1. /\ UNCHANGED <<timeScale, averages, given, runs, timecodes>>
        /\ pc' \in {"printed", "failed"}
    BY <1>2 DEF PrintTimeCodes, PrintFails, Kept, codes
  <2> QED BY <1>0, <2>1, NumbersStay
<1>3. CASE Load \/ ParseLine
  <2>1. /\ UNCHANGED <<timeScale, averages, given, runs>>
        /\ pc \in {"load", "parse"} /\ pc' \in {"failed", "parse"}
    <3>1. CASE Load
      BY <3>1 DEF Load, Kept, codes
    <3>2. CASE ParseLine
      BY <3>2 DEF ParseLine, Kept, Reading
    <3> QED BY <1>3, <3>1, <3>2
  <2>2. timecodes' \in Seq(Int)
    <3>1. CASE Load
      BY <1>0, <3>1 DEF Load, codes
    <3>2. CASE ParseLine
      <4>1. lines \in Seq(Int) /\ lines # <<>>
        BY <1>0, <3>2 DEF ParseLine, Reading, Typed
      <4>2. Append(timecodes, Head(lines)) \in Seq(Int)
        BY <1>0, <4>1
      <4> QED BY <1>0, <3>2, <4>2 DEF ParseLine
    <3> QED BY <1>3, <3>1, <3>2
  <2> QED BY <2>1, <2>2, NumbersStay
<1>4. CASE ParseEnd
  <2>1. /\ UNCHANGED <<timeScale, averages, given, runs>>
        /\ pc = "parse" /\ pc' \in {"failed", "average", "rescale"}
    BY <1>4 DEF ParseEnd, Kept, Average
  <2>2. timecodes' \in Seq(Int)
    BY <1>0, <1>4, CompletedTyped DEF ParseEnd
  <2> QED BY <2>1, <2>2, NumbersStay
<1>5. CASE KeepTimes \/ EndFix
  <2>1. /\ UNCHANGED <<averages, runs>> /\ timeScale' = movie.scale
        /\ pc' \in {"average", "rescale"}
    BY <1>5 DEF KeepTimes, EndFix, Kept, Average
  <2>2. timecodes' \in Seq(Int)
    BY <1>0, <1>5, KeptTyped, FixedTyped DEF KeepTimes, EndFix
  <2>3. movie.scale \in Nat \ {0}
    BY <1>0, MovieTyped
  <2>4. given'.by = given.by
    BY <1>0, <1>5 DEF KeepTimes, EndFix, Literal, Nothing
  <2> QED BY <2>1, <2>2, <2>3, <2>4 DEF Numbers
<1>6. CASE BeginFix \/ Fix
  <2>1. /\ UNCHANGED <<timeScale, averages, given, runs, timecodes>>
        /\ pc \in {"fix", "fixing"} /\ pc' \in {"failed", "fixing"}
    BY <1>6 DEF BeginFix, Fix, Kept, codes
  <2> QED BY <1>0, <2>1, NumbersStay
<1>7. CASE EnterAverage \/ GroupDelta
  <2>1. /\ UNCHANGED <<timeScale, averages, given, runs, timecodes>>
        /\ pc \in {"average", "group"} /\ pc' = "group"
    BY <1>7 DEF EnterAverage, GroupDelta, Kept
  <2> QED BY <1>0, <2>1, NumbersStay
<1>8. CASE LeaveAverage
  <2>1. /\ UNCHANGED <<timeScale, given, runs>>
        /\ pc = "group" /\ pc' = "convert" /\ done = Len(deltas)
        /\ averages' = Averages
        /\ timecodes' = [i \in 1 .. Len(deltas) + 1 |-> AveragedCode(i - 1)]
    BY <1>8 DEF LeaveAverage, EndAverage, Kept
  <2>2. /\ \A g \in DOMAIN averages' : averages'[g].count > 0 /\ averages'[g].sum \in Int
        /\ timecodes' \in Seq(Int)
    BY <1>0, <2>1, AveragesTyped
  <2> QED BY <2>1, <2>2 DEF Numbers
<1>9. CASE ConvertToExactRanges
  <2>1. /\ UNCHANGED <<timeScale, averages, given, runs, timecodes>>
        /\ pc = "convert" /\ pc' \in {"SetFPS", "rescale"}
    BY <1>9 DEF ConvertToExactRanges, Kept, codes
  <2> QED BY <1>0, <2>1, NumbersStay
<1>10. CASE SetFPS
  <2>1. /\ UNCHANGED <<timeScale, averages, runs, timecodes>>
        /\ pc' \in {"failed", "save"}
    BY <1>10 DEF SetFPS, Kept, codes
  <2>2. given'.by = given.by
    BY <1>0, <1>10 DEF SetFPS, Literal, Nothing
  <2> QED BY <2>1, <2>2 DEF Numbers, Ended
<1>11. CASE SetTimeCodes
  <2>1. /\ pc = "rescale" /\ UNCHANGED <<timecodes, averages, runs>>
        /\ timeScale \in Nat \ {0} /\ DOMAIN given = DOMAIN Nothing
    BY <1>0, <1>11 DEF SetTimeCodes, Kept, Numbers, Literal
  <2>2. CASE Len(timecodes) # Wanted
    <3>1. pc' = "failed" /\ UNCHANGED <<given, timeScale>>
      BY <1>11, <2>2 DEF SetTimeCodes
    <3> QED BY <1>0, <2>1, <3>1, NumbersStay
  <2>3. CASE Len(timecodes) = Wanted
    <3> DEFINE s == ScaleFor(timecodes, opt.requestedTimeScale, movie.scale)
    <3>1. /\ timeScale' = ScaledTimeScale(s) /\ pc' = "save"
          /\ given' = [given EXCEPT !.codes = timecodes, !.by = s, !.scale = timeScale']
      BY <1>11, <2>3 DEF SetTimeCodes
    <3>2. Len(timecodes) >= 2 /\ ~ TooLong(timecodes, 10000)
      BY <2>1, <2>3 DEF Rescalable
    <3>3. movie.scale \in Nat \ {0} /\ opt.requestedTimeScale \in Int
      BY <1>0, MovieTyped, IntModulusAssumption DEF Typed, Signed
    <3>4. /\ s.num \in Nat \ {0} /\ s.den \in Nat \ {0}
          /\ ScaledTimeScale(s) \in Nat
      <4> HIDE DEF s
      <4>1. s = ScaleFor(timecodes, opt.requestedTimeScale, movie.scale)
        BY DEF s
      <4> QED BY <1>0, <2>1, <3>2, <3>3, <4>1, ScaleTyped
    <3> HIDE DEF s
    <3>5. given'.by = s
      BY <2>1, <3>1 DEF Nothing
    <3> QED BY <1>0, <2>1, <3>1, <3>4, <3>5 DEF Numbers
  <2> QED BY <2>2, <2>3
<1>12. CASE Save
  <2>1. /\ UNCHANGED <<timeScale, averages, given, runs, timecodes>>
        /\ pc' \in {"edited", "copied"}
    BY <1>12 DEF Save, Kept, codes
  <2> QED BY <1>0, <2>1, NumbersStay
<1>13. CASE Again
  <2>1. /\ timecodes' = <<>> /\ timeScale' = 1000 /\ averages' = <<>>
        /\ given' = Nothing /\ pc' = "getopt" /\ runs' = runs + 1 /\ runs < MaxRuns
    BY <1>13 DEF Again
  <2>2. runs' \in 1 .. MaxRuns
    BY <2>1, MaxRunsAssumption DEF Numbers
  <2>3. given'.by.num = 1 /\ given'.by.den = 1
    BY <2>1 DEF Nothing, Ratio
  <2> QED BY <2>1, <2>2, <2>3 DEF Numbers
<1>14. CASE UNCHANGED vars
  BY <1>14 DEF vars, codes, Numbers, Ended
<1> QED
  BY <1>1, <1>2, <1>3, <1>4, <1>5, <1>6, <1>7, <1>8, <1>9, <1>10, <1>11, <1>12,
     <1>13, <1>14 DEF Next

LEMMA InitNumbers == Init => Numbers
BY MaxRunsAssumption DEF Init, Numbers, Nothing, Ratio, Collecting, Steps

LEMMA RereadHolds == Spec => []Reread
<1>1. Init => Reread
  BY DEF Init, Reread, Got, NoFile
<1>2. Inv /\ Reread /\ [Next]_vars => Reread'
  BY RereadKeeps DEF Inv
<1> QED BY <1>1, <1>2, InvHolds, PTL DEF Spec

LEMMA NumbersHold == Spec /\ []Rescalable => []Numbers
<1>1. Inv /\ Numbers /\ Rescalable /\ [Next]_vars => Numbers'
  BY NumbersKeep
<1> QED BY <1>1, InitNumbers, InvHolds, PTL DEF Spec

(***************************************************************************)
(* Every variable of the driver has its type, for every movie, file and    *)
(* command line, as long as a movie that is given new times ends after its *)
(* last frame and is at most 10^4 times too long: rescaleTimecode divides  *)
(* by ten until it fits, and the model knows the powers up to there.       *)
(***************************************************************************)
THEOREM ExecuteTypes == Spec /\ []Rescalable => []TypeOK
<1>1. Inv /\ Numbers /\ Reread => TypeOK
  <2> SUFFICES ASSUME Inv, Numbers, Reread PROVE TypeOK
    OBVIOUS
  <2>1. Typed /\ Grouped
    BY DEF Inv
  <2>2. printed \in Names \cup {NoFile}
    BY DEF Reread
  <2>3. deltas \in Seq(Int) /\ done \in 0 .. Len(deltas) /\ cuts \subseteq 1 .. done
        /\ low \in Int /\ high \in Int
    BY <2>1 DEF Grouped
  <2>4. /\ opt.requestedTimeScale \in -(IntModulus \div 2) .. IntModulus \div 2 - 1
        /\ opt.timecodeFile \in Names \cup {NoFile}
    BY <2>1 DEF Typed, Signed
  <2> QED BY <2>2, <2>3, <2>4 DEF TypeOK, Numbers
<1> QED BY <1>1, InvHolds, NumbersHold, RereadHolds, PTL

\* a movie that is scaled is at most 1000 times too long, and its last frame does
\* not end before it is displayed
Scalable ==
    pc = "rescale" /\ Len(timecodes) = Wanted =>
        /\ Len(timecodes) >= 2 /\ ~ TooLong(timecodes, 1000)
        /\ timecodes[Len(timecodes) - 1] <= timecodes[Len(timecodes)]

\* doubles divide a thousand by powers of ten without a loss
ExactScales == \A p \in PowersOfTen : ~ ScaleShort(1000, 1, p)

LEMMA Longer ==
    ASSUME NEW d \in Int, NEW p \in Nat \ {0}, ~ ((d - 1) \div Fraction >= p * MaxDuration)
    PROVE  d <= p * (MaxDuration * Fraction)
<1> DEFINE q == (d - 1) \div Fraction
           M == p * MaxDuration
<1>1. Fraction \in Nat \ {0} /\ MaxDuration \in Nat \ {0}
  BY FractionAssumption, IntModulusAssumption
<1>2. q \in Int /\ d - 1 < Fraction * q + Fraction
  <2>1. d - 1 \in Int
    OBVIOUS
  <2>2. \A a \in Int, b \in Nat \ {0} : (a \div b) \in Int /\ a < b * (a \div b) + b
    OBVIOUS
  <2> QED BY <1>1, <2>1, <2>2
<1>3. M \in Nat
  <2>1. \A a, b \in Nat : a * b \in Nat
    OBVIOUS
  <2> QED BY <1>1, <2>1
<1>4. q + 1 <= M
  <2> HIDE DEF M
  <2> QED BY <1>2, <1>3 DEF M
<1>5. Fraction * (q + 1) <= Fraction * M
  <2>1. \A a, b \in Int, c \in Nat : a <= b => c * a <= c * b
    OBVIOUS
  <2> HIDE DEF q, M
  <2>2. q + 1 \in Int /\ M \in Int /\ Fraction \in Nat
    BY <1>1, <1>2, <1>3
  <2> QED BY <1>4, <2>1, <2>2
<1>6. Fraction * (q + 1) = Fraction * q + Fraction
  <2> HIDE DEF q
  <2> QED BY <1>1, <1>2
<1>7. Fraction * M = p * (MaxDuration * Fraction)
  BY <1>1
<1> DEFINE x == Fraction * q
           y == Fraction * M
<1>8. x \in Int /\ y \in Int /\ d - 1 < x + Fraction /\ x + Fraction <= y
  <2>1. \A a, b \in Int : a * b \in Int
    OBVIOUS
  <2>2. x \in Int /\ y \in Int
    BY <1>1, <1>2, <1>3, <2>1
  <2>3. x + Fraction <= y
    BY <1>5, <1>6
  <2> QED BY <1>2, <2>2, <2>3
<1>9. d <= y
  <2> HIDE DEF x, y
  <2> QED BY <1>1, <1>8
<1> QED BY <1>7, <1>9

LEMMA ScaleInRange ==
    ASSUME NEW list \in Seq(Int), Len(list) >= 2, ~ TooLong(list, 1000),
           list[Len(list) - 1] <= list[Len(list)],
           timeScale \in Nat \ {0}, NEW o, NEW s, s = ScaleFor(list, 0, o)
    PROVE  /\ list[Len(list)] * s.num <= MaxDuration * Fraction * s.den
           /\ timeScale >= 100 => s.num = 1 /\ s.den \in {1, 10, 100, 1000}
<1> DEFINE last == list[Len(list)]
           d == Duration(list)
           L == MaxDuration * Fraction
<1>1. last \in Int /\ d \in Int /\ last <= d
  <2>1. list[Len(list)] \in Int /\ list[Len(list) - 1] \in Int
    OBVIOUS
  <2> QED BY <2>1 DEF Duration
<1>2. L \in Nat \ {0} /\ Fraction \in Nat \ {0} /\ MaxDuration \in Nat \ {0}
  <2>1. Fraction \in Nat \ {0} /\ MaxDuration \in Nat \ {0}
    BY FractionAssumption, IntModulusAssumption
  <2>2. \A a, b \in Nat \ {0} : a * b \in Nat \ {0}
    OBVIOUS
  <2> QED BY <2>1, <2>2
<1>3. ASSUME NEW p \in Nat \ {0}, ~ TooLong(list, p) PROVE d <= p * L
  <2> HIDE DEF d
  <2>1. ~ ((d - 1) \div Fraction >= p * MaxDuration)
    BY <1>3 DEF TooLong, d
  <2> QED BY <1>1, <2>1, Longer
<1>4. \A a, b : Ratio(a, b).num = a /\ Ratio(a, b).den = b
  BY DEF Ratio
<1>5. CASE TooLong(list, 1)
  <2> DEFINE S == {p \in PowersOfTen : ~ TooLong(list, p)}
  <2>1. S \in SUBSET PowersOfTen /\ 1000 \in S
    BY DEF PowersOfTen
  <2>2. s = Ratio(1, Min(S))
    BY <1>5 DEF ScaleFor, Shrink
  <2>3. Min(S) \in S /\ \A x \in S : Min(S) <= x
    <3> HIDE DEF S
    <3> QED BY <2>1, LeastPower
  <2>4. Min(S) \in {1, 10, 100, 1000} /\ ~ TooLong(list, Min(S))
    <3>1. Min(S) \in PowersOfTen /\ ~ TooLong(list, Min(S)) /\ Min(S) <= 1000
      BY <2>1, <2>3
    <3> QED BY <3>1 DEF PowersOfTen
  <2> DEFINE p == Min(S)
  <2>5. d <= p * L /\ p \in {1, 10, 100, 1000}
    BY <1>3, <2>4
  <2>6. s.num = 1 /\ s.den = p
    BY <1>4, <2>2
  <2> HIDE DEF S, p, d, last
  <2>7. last * 1 <= L * p
    BY <1>1, <1>2, <2>5
  <2> QED BY <2>5, <2>6, <2>7 DEF last
<1>6. CASE ~ TooLong(list, 1) /\ timeScale < 100
  <2> DEFINE Enough(p) == \/ p * Duration(list) >= MaxDuration * Fraction
                          \/ p * timeScale >= 10000
             S == {p \in PowersOfTen : Enough(p)}
             least == Min(S)
  <2>1. S \in SUBSET PowersOfTen /\ S # {}
    <3>1. 10000 \in PowersOfTen /\ 10000 * timeScale >= 10000
      BY DEF PowersOfTen
    <3> QED BY <3>1
  <2>2. s = IF least = 1 THEN Ratio(1, 10) ELSE Ratio(least \div 10, 1)
    BY <1>6 DEF ScaleFor, Grow
  <2>3. least \in S /\ \A x \in S : least <= x
    <3> HIDE DEF S
    <3> QED BY <2>1, LeastPower
  <2>4. d <= L
    <3>1. d <= 1 * L
      BY <1>3, <1>6
    <3> HIDE DEF d
    <3> QED BY <1>2, <3>1
  <2>5. CASE least = 1
    <3>1. s.num = 1 /\ s.den = 10
      BY <1>4, <2>2, <2>5
    <3> HIDE DEF d, last
    <3>2. last * 1 <= L * 10
      BY <1>1, <1>2, <2>4
    <3> QED BY <1>6, <3>1, <3>2 DEF last
  <2>6. CASE least # 1
    <3> DEFINE p == least \div 10
    <3>1. least \in {10, 100, 1000, 10000}
      BY <2>3, <2>6 DEF PowersOfTen
    <3>2. p \in {1, 10, 100, 1000} /\ p < least /\ p \in PowersOfTen
      <4> HIDE DEF least
      <4> QED BY <3>1 DEF PowersOfTen
    <3>3. p \notin S
      <4>1. p \in Int /\ least \in Int
        BY <3>1, <3>2
      <4> HIDE DEF p, S, least
      <4> QED BY <2>3, <3>2, <4>1
    <3>4. ~ (p * d >= L)
      <4> HIDE DEF p
      <4> QED BY <3>2, <3>3
    <3>5. s.num = p /\ s.den = 1
      BY <1>4, <2>2, <2>6
    <3> HIDE DEF p, d, last
    <3>6. last * p <= L * 1
      <4> HIDE DEF L
      <4>1. CASE p = 1
        BY <1>1, <1>2, <3>4, <4>1
      <4>2. CASE p = 10
        BY <1>1, <1>2, <3>4, <4>2
      <4>3. CASE p = 100
        BY <1>1, <1>2, <3>4, <4>3
      <4>4. CASE p = 1000
        BY <1>1, <1>2, <3>4, <4>4
      <4> QED BY <3>2, <4>1, <4>2, <4>3, <4>4
    <3> QED BY <1>6, <3>5, <3>6 DEF last
  <2> QED BY <2>5, <2>6
<1>7. CASE ~ TooLong(list, 1) /\ ~ (timeScale < 100)
  <2>1. s.num = 1 /\ s.den = 1
    BY <1>4, <1>7 DEF ScaleFor
  <2>2. d <= 1 * L
    BY <1>3, <1>7
  <2> HIDE DEF d, last
  <2>3. last * 1 <= L * 1
    BY <1>1, <1>2, <2>2
  <2> QED BY <2>1, <2>3 DEF last
<1> QED BY <1>5, <1>6, <1>7

LEMMA TooLongLess ==
    ASSUME NEW list, TooLong(list, 10000), (Duration(list) - 1) \div Fraction \in Int
    PROVE  TooLong(list, 1000)
<1>1. MaxDuration \in Nat
  BY IntModulusAssumption
<1> QED BY <1>1 DEF TooLong

LEMMA RescaledKeeps ==
    ASSUME ExactScales, Inv, Numbers, Reread, Scalable, RescaledInRange, [Next]_vars
    PROVE  RescaledInRange'
<1>0. Typed /\ Literal /\ timecodes \in Seq(Int)
  BY DEF Inv, Numbers
<1>1. CASE SetTimeCodes
  <2>1. /\ pc = "rescale" /\ UNCHANGED <<timecodes, opt, movie>>
        /\ timeScale \in Nat \ {0} /\ DOMAIN given = DOMAIN Nothing
    BY <1>0, <1>1 DEF SetTimeCodes, Kept, Numbers, Literal, Collecting
  <2>2. CASE Len(timecodes) # Wanted
    <3>1. pc' = "failed"
      BY <1>1, <2>2 DEF SetTimeCodes
    <3> QED BY <3>1 DEF RescaledInRange, Got
  <2>3. CASE Len(timecodes) = Wanted /\ opt.requestedTimeScale = 0
    <3> DEFINE s == ScaleFor(timecodes, 0, movie.scale)
    <3>1. /\ timeScale' = ScaledTimeScale(s) /\ pc' = "save"
          /\ given' = [given EXCEPT !.codes = timecodes, !.by = s, !.scale = timeScale']
      BY <1>1, <2>3 DEF SetTimeCodes
    <3>2. /\ Len(timecodes) >= 2 /\ ~ TooLong(timecodes, 1000)
          /\ timecodes[Len(timecodes) - 1] <= timecodes[Len(timecodes)]
      BY <2>1, <2>3 DEF Scalable
    <3>3. s = ScaleFor(timecodes, 0, movie.scale)
      OBVIOUS
    <3> HIDE DEF s
    <3>4. /\ timecodes[Len(timecodes)] * s.num <= MaxDuration * Fraction * s.den
          /\ timeScale >= 100 => s.num = 1 /\ s.den \in {1, 10, 100, 1000}
      <4>1. timecodes \in Seq(Int) /\ timeScale \in Nat \ {0}
        BY <1>0, <2>1
      <4> QED BY <3>2, <3>3, <4>1, ScaleInRange
    <3>5. /\ given'.by = s /\ given'.codes = timecodes
          /\ given'.scale = ScaledTimeScale(s)
      BY <2>1, <3>1 DEF Nothing
    <3>6. FromFile => ScaledTimeScale(s) * s.den = 1000 * s.num
      <4> SUFFICES ASSUME FromFile PROVE ScaledTimeScale(s) * s.den = 1000 * s.num
        OBVIOUS
      <4>1. timeScale = 1000
        BY <2>1 DEF Reread
      <4>2. s.num = 1 /\ s.den \in {1, 10, 100, 1000}
        BY <3>4, <4>1
      <4>3. ~ ScaleShort(timeScale, s.num, s.den)
        BY <4>1, <4>2 DEF ExactScales, PowersOfTen
      <4>4. ScaledTimeScale(s) = 1000 \div s.den
        BY <4>1, <4>2, <4>3 DEF ScaledTimeScale
      <4> QED BY <4>2, <4>4
    <3>7. Last(given'.codes) = timecodes[Len(timecodes)]
      BY <3>5 DEF Last
    <3>8. FromFile' <=> FromFile
      BY <2>1 DEF FromFile
    <3>9. /\ (Last(given.codes) * given.by.num <= MaxDuration * Fraction * given.by.den)'
          /\ FromFile' => given'.scale * given'.by.den = 1000 * given'.by.num
      BY <3>4, <3>5, <3>6, <3>7, <3>8
    <3> QED BY <3>9 DEF RescaledInRange
  <2>4. CASE opt.requestedTimeScale # 0
    BY <2>1, <2>4 DEF RescaledInRange
  <2> QED BY <2>2, <2>3, <2>4
<1>2. CASE Save
  <2>1. UNCHANGED <<given, opt>> /\ (Got' => Got)
    BY <1>2 DEF Save, Kept, Got
  <2>2. FromFile' <=> FromFile
    BY <2>1 DEF FromFile
  <2> QED BY <2>1, <2>2 DEF RescaledInRange
<1>3. CASE UNCHANGED vars
  <2>1. UNCHANGED <<given, opt, pc>>
    BY <1>3 DEF vars
  <2> QED BY <2>1 DEF RescaledInRange, Got, FromFile
<1>4. CASE Next /\ ~ SetTimeCodes /\ ~ Save
  <2>1. given'.codes = <<>> \/ pc' \notin {"save", "edited"}
    <3>1. CASE GetOpt \/ CheckOptions \/ PrintTimeCodes \/ PrintFails \/ Load \/ ParseLine
               \/ ParseEnd \/ KeepTimes
      <4>1. CASE GetOpt \/ CheckOptions \/ PrintTimeCodes \/ PrintFails
        BY <1>0, <4>1 DEF GetOpt, CheckOptions, PrintTimeCodes, PrintFails, Literal,
                          Collecting
      <4>2. CASE Load \/ ParseLine
        BY <1>0, <4>2 DEF Load, ParseLine, Reading, Literal, Collecting
      <4>3. CASE ParseEnd \/ KeepTimes
        BY <1>0, <4>3 DEF ParseEnd, KeepTimes, Average, Literal, Collecting
      <4> QED BY <3>1, <4>1, <4>2, <4>3
    <3>2. CASE Begin
      BY <1>0, <3>2 DEF Begin, Literal, Collecting
    <3>3. CASE BeginFix \/ Fix \/ EndFix
      BY <1>0, <3>3 DEF BeginFix, Fix, EndFix, Average, Literal, Collecting
    <3>4. CASE EnterAverage \/ GroupDelta \/ LeaveAverage \/ ConvertToExactRanges
      BY <1>0, <3>4 DEF EnterAverage, GroupDelta, LeaveAverage, ConvertToExactRanges,
                        Literal, Collecting
    <3>5. CASE SetFPS
      <4>1. DOMAIN given = DOMAIN Nothing /\ given.codes = <<>>
        BY <1>0, <3>5 DEF SetFPS, Literal
      <4> QED BY <3>5, <4>1 DEF SetFPS, Nothing
    <3>6. CASE Again
      BY <3>6 DEF Again
    <3> QED BY <1>4, <3>1, <3>2, <3>3, <3>4, <3>5, <3>6 DEF Next
  <2> QED BY <2>1 DEF RescaledInRange, Got
<1> QED BY <1>1, <1>2, <1>3, <1>4

(***************************************************************************)
(* Without -T the movie given to the editor is never longer than its box   *)
(* can say, and milliseconds stay milliseconds: rescaleTimecode, for every *)
(* list of codes whose last frame does not end before it is displayed, up  *)
(* to movies a thousand times too long (beyond that the scale of 1000      *)
(* would become less than one).                                            *)
(***************************************************************************)
THEOREM ScaleFits == ExactScales => (Spec /\ []Scalable => []RescaledInRange)
<1> SUFFICES ASSUME ExactScales PROVE Spec /\ []Scalable => []RescaledInRange
  OBVIOUS
<1>1. Init => RescaledInRange
  BY DEF Init, RescaledInRange, Got
<1>2. Inv /\ Numbers /\ Reread /\ Scalable /\ RescaledInRange /\ [Next]_vars
        => RescaledInRange'
  BY RescaledKeeps
<1>3. Numbers /\ Scalable => Rescalable
  <2> SUFFICES ASSUME Numbers, Scalable, pc = "rescale", Len(timecodes) = Wanted
               PROVE  Len(timecodes) >= 2 /\ ~ TooLong(timecodes, 10000)
    BY DEF Rescalable
  <2>1. timecodes \in Seq(Int) /\ Len(timecodes) >= 2 /\ ~ TooLong(timecodes, 1000)
    BY DEF Numbers, Scalable
  <2>2. Duration(timecodes) - 1 \in Int
    <3>1. timecodes[Len(timecodes)] \in Int /\ timecodes[Len(timecodes) - 1] \in Int
      BY <2>1
    <3> QED BY <3>1 DEF Duration
  <2>3. (Duration(timecodes) - 1) \div Fraction \in Int
    BY <2>2, FractionAssumption
  <2> QED BY <2>1, <2>3, TooLongLess
<1>4. Inv /\ Numbers /\ Scalable /\ [Next]_vars => Numbers'
  BY <1>3, NumbersKeep
<1> QED BY <1>1, <1>2, <1>4, InitNumbers, InvHolds, RereadHolds, PTL DEF Spec

-----------------------------------------------------------------------------
(* Rounding to ticks *)

\* the quotient is told by its bounds
LEMMA QuotientIs ==
    ASSUME NEW b \in Nat \ {0}, NEW a \in Int, NEW q \in Int, b * q <= a, a < b * q + b
    PROVE  a \div b = q
<1> DEFINE p == a \div b
           x == b * p
           y == b * q
           z == b * (p - q)
<1>1. p \in Int /\ x \in Int /\ x <= a /\ a < x + b
  OBVIOUS
<1>2. y \in Int /\ y <= a /\ a < y + b
  OBVIOUS
<1>3. z = x - y /\ z \in Int
  BY <1>1
<1>4. p - q >= 1 => z >= b
  BY <1>1
<1>5. p - q <= -1 => z <= -b
  BY <1>1
<1>6. p - q \in Int
  BY <1>1
<1> HIDE DEF p, x, y, z
<1>7. ~ (p - q >= 1) /\ ~ (p - q <= -1)
  BY <1>1, <1>2, <1>3, <1>4, <1>5
<1>8. p = q
  BY <1>1, <1>6, <1>7
<1> QED BY <1>8 DEF p

\* a code is rounded to within half a tick
LEMMA RoundedNear ==
    ASSUME NEW x \in Int, 2 * x + Fraction >= 0
    PROVE  /\ Rounded(x) \in Int
           /\ 2 * (Fraction * Rounded(x)) <= 2 * x + Fraction
           /\ 2 * x + Fraction < 2 * (Fraction * Rounded(x)) + 2 * Fraction
<1> DEFINE a == 2 * x + Fraction
           b == 2 * Fraction
           q == a \div b
           p == b * q
           f == Fraction * q
<1>1. Fraction \in Nat \ {0}
  BY FractionAssumption
<1>2. a \in Int /\ b \in Nat \ {0}
  BY <1>1
<1>3. Rounded(x) = q
  BY DEF Rounded, Truncated
<1>4. q \in Int /\ p \in Int /\ p <= a /\ a < p + b
  <2> HIDE DEF a, b
  <2> QED BY <1>2
<1>5. p = 2 * f /\ f \in Int
  <2>1. q \in Int
    BY <1>4
  <2> HIDE DEF q
  <2> QED BY <1>1, <2>1
<1> HIDE DEF q, p
<1> QED BY <1>3, <1>4, <1>5

\* a whole number of ticks may be taken off before or after rounding
LEMMA RoundedShift ==
    ASSUME NEW x \in Int, NEW n \in Int, 2 * x + Fraction >= 0,
           2 * (x - Fraction * n) + Fraction >= 0
    PROVE  Rounded(x - Fraction * n) = Rounded(x) - n
<1> DEFINE b == 2 * Fraction
           m == Fraction * n
           r == Rounded(x)
           f == Fraction * r
           a == 2 * (x - m) + Fraction
           g == Fraction * (r - n)
<1>1. Fraction \in Nat \ {0}
  BY FractionAssumption
<1>2. r \in Int /\ 2 * f <= 2 * x + Fraction /\ 2 * x + Fraction < 2 * f + 2 * Fraction
  BY RoundedNear
<1>3. m \in Int /\ f \in Int /\ a \in Int /\ b \in Nat \ {0}
  BY <1>1, <1>2
<1>4. g = f - m /\ b * (r - n) = 2 * g /\ r - n \in Int
  <2>1. r \in Int
    BY <1>2
  <2> HIDE DEF r
  <2> QED BY <1>1, <2>1
<1>5. b * (r - n) <= a /\ a < b * (r - n) + b
  <2> HIDE DEF m, f, g, r
  <2> QED BY <1>1, <1>2, <1>3, <1>4
<1>6. a \div b = r - n
  <2> HIDE DEF a, b, r
  <2> QED BY <1>3, <1>4, <1>5, QuotientIs
<1>7. Rounded(x - m) = a \div b
  BY DEF Rounded, Truncated
<1> QED BY <1>6, <1>7

\* what FoldLeft adds up in the driver is a sum
LEMMA ElapsedIsSum ==
    ASSUME deltas \in Seq(Int), NEW n \in 0 .. Len(deltas)
    PROVE  Elapsed(n) = Sums(deltas)[n] /\ Elapsed(n) \in Int
<1> DEFINE h == Sums(deltas)
           s == SubSeq(deltas, 1, n)
<1>1. SumsOf(h, deltas)
  BY SumsAre
<1>2. 1 \in 1 .. Len(deltas) + 1 /\ n \in 1 - 1 .. Len(deltas) /\ 1 - 1 = 0
  OBVIOUS
<1> HIDE DEF h
<1>3. SumOf(SubSeq(deltas, 1, n)) = h[n] - h[1 - 1]
  BY <1>1, <1>2, SumOfPart
<1>4. h[0] = 0 /\ h[n] \in Int
  BY <1>1, SumUnique DEF SumsOf
<1>5. SumOf(s) = h[n]
  BY <1>2, <1>3, <1>4
<1>6. Elapsed(n) = SumOf(s)
  BY Zenon DEF Elapsed, SumOf, s
<1> QED BY <1>4, <1>5, <1>6 DEF h

\* no code is before the one in front of it, nor before zero
Ascending(list) ==
    /\ \A i \in 1 .. Len(list) : list[i] >= 0
    /\ \A i \in 1 .. Len(list) - 1 : list[i] <= list[i + 1]

\* a delta is the rounded rest after what was rounded before
LEMMA DeltaIs ==
    ASSUME NEW list \in Seq(Int), Ascending(list), NEW i \in 1 .. Len(list) - 1
    PROVE  /\ i \in 1 .. Len(Deltas(list))
           /\ Deltas(list)[i] = Rounded(list[i + 1]) - Rounded(list[i])
           /\ Rounded(list[i]) \in Int /\ Rounded(list[i + 1]) \in Int
<1> DEFINE x == list[i + 1]
           y == list[i]
           n == Rounded(y)
           m == Fraction * n
<1>1. Fraction \in Nat \ {0}
  BY FractionAssumption
<1>2. i \in 1 .. Len(list) /\ i + 1 \in 1 .. Len(list)
  OBVIOUS
<1>3. x \in Int /\ y \in Int /\ y >= 0 /\ x >= 0 /\ y <= x
  BY <1>2 DEF Ascending
<1> HIDE DEF x, y
<1>4. 2 * x + Fraction >= 0 /\ 2 * y + Fraction >= 0
  BY <1>1, <1>3
<1>5. n \in Int /\ 2 * m <= 2 * y + Fraction
  BY <1>3, <1>4, RoundedNear
<1>6. m \in Int
  BY <1>1, <1>5
<1>7. 2 * (x - m) + Fraction >= 0
  <2> HIDE DEF m, n
  <2> QED BY <1>1, <1>3, <1>5, <1>6
<1>8. Rounded(x - m) = Rounded(x) - n
  <2> HIDE DEF n
  <2> QED BY <1>3, <1>4, <1>5, <1>7, RoundedShift
<1>9. DOMAIN Deltas(list) = 1 .. Len(list) - 1
      /\ Deltas(list)[i] = Rounded(x - m)
  BY DEF Deltas, x, y
<1>10. Len(Deltas(list)) = Len(list) - 1
  <2>1. Deltas(list) \in Seq(Int) /\ Len(list) - 1 \in Nat
    BY DeltasTyped
  <2> QED BY <1>9, <2>1
<1>11. Rounded(x) \in Int
  BY <1>3, RoundedTyped
<1> QED BY <1>5, <1>8, <1>9, <1>10, <1>11 DEF x, y

\* one delta for each code but the last
LEMMA DeltasLength ==
    ASSUME NEW list \in Seq(Int), list # <<>>
    PROVE  Deltas(list) \in Seq(Int) /\ Len(Deltas(list)) = Len(list) - 1
<1>1. Deltas(list) \in Seq(Int) /\ Len(list) - 1 \in Nat
  BY DeltasTyped
<1>2. DOMAIN Deltas(list) = 1 .. Len(list) - 1
  BY DEF Deltas
<1> QED BY <1>1, <1>2

\* the deltas up to a code add up to the code, rounded: nothing is lost
LEMMA DeltasSum ==
    ASSUME NEW list \in Seq(Int), list # <<>>, Ascending(list)
    PROVE  \A i \in 0 .. Len(list) - 1 :
              Sums(Deltas(list))[i] = Rounded(list[i + 1]) - Rounded(list[1])
<1> DEFINE D == Deltas(list)
           n == Len(list) - 1
           h == Sums(D)
           S == {i \in 0 .. n : h[i] = Rounded(list[i + 1]) - Rounded(list[1])}
<1>1. n \in Nat /\ D \in Seq(Int) /\ Len(D) = n
  BY DeltasLength
<1>2. SumsOf(h, D)
  <2> HIDE DEF D
  <2> QED BY <1>1, SumsAre
<1>3. 0 \in S
  <2>1. h[0] = 0
    BY <1>2 DEF SumsOf
  <2>2. list[1] \in Int
    OBVIOUS
  <2>3. Rounded(list[1]) \in Int
    BY <2>2, RoundedTyped
  <2>4. 0 \in 0 .. n /\ 0 + 1 = 1
    BY <1>1
  <2> HIDE DEF h, n
  <2> QED BY <2>1, <2>3, <2>4
<1>4. ASSUME NEW i \in 0 .. n - 1, i \in S PROVE i + 1 \in S
  <2>1. i + 1 \in 1 .. n /\ (i + 1) - 1 = i /\ i + 1 \in 0 .. n
    BY <1>1
  <2>2. h[i + 1] = h[i] + D[i + 1]
    <3> HIDE DEF h, n
    <3> QED BY <1>1, <1>2, <2>1 DEF SumsOf
  <2>3. /\ D[i + 1] = Rounded(list[(i + 1) + 1]) - Rounded(list[i + 1])
        /\ Rounded(list[i + 1]) \in Int /\ Rounded(list[(i + 1) + 1]) \in Int
    BY <2>1, DeltaIs
  <2>4. list[1] \in Int
    OBVIOUS
  <2>5. Rounded(list[1]) \in Int
    BY <2>4, RoundedTyped
  <2>6. h[i] = Rounded(list[i + 1]) - Rounded(list[1])
    BY <1>4
  <2>7. h[i + 1] = Rounded(list[(i + 1) + 1]) - Rounded(list[1])
    <3> HIDE DEF h, D
    <3> QED BY <2>2, <2>3, <2>5, <2>6
  <2> HIDE DEF h, D, n
  <2> QED BY <2>1, <2>7
<1>5. 0 .. n \subseteq S
  <2>1. 0 \in Int /\ n \in Int
    BY <1>1
  <2> HIDE DEF S, n
  <2> QED BY <1>3, <1>4, <2>1, IntervalInduction
<1> HIDE DEF h, D
<1> QED BY <1>5 DEF h, D

\* rounding moves no code by more than one tick against the first
LEMMA RoundingNear ==
    ASSUME NEW list \in Seq(Int), list # <<>>, Ascending(list),
           NEW i \in 0 .. Len(list) - 1
    PROVE  Distance(Fraction * Sums(Deltas(list))[i], list[i + 1] - list[1])
              <= Fraction
<1> DEFINE x == list[i + 1]
           y == list[1]
           p == Fraction * Rounded(x)
           q == Fraction * Rounded(y)
           s == Sums(Deltas(list))[i]
<1>1. Fraction \in Nat \ {0}
  BY FractionAssumption
<1>2. i + 1 \in 1 .. Len(list) /\ 1 \in 1 .. Len(list)
  OBVIOUS
<1>3. x \in Int /\ y \in Int /\ x >= 0 /\ y >= 0
  BY <1>2 DEF Ascending
<1>4. s = Rounded(x) - Rounded(y)
  BY DeltasSum
<1> HIDE DEF x, y, s
<1>5. 2 * x + Fraction >= 0 /\ 2 * y + Fraction >= 0
  BY <1>1, <1>3
<1>6. /\ Rounded(x) \in Int
      /\ 2 * p <= 2 * x + Fraction /\ 2 * x + Fraction < 2 * p + 2 * Fraction
  BY <1>3, <1>5, RoundedNear
<1>7. /\ Rounded(y) \in Int
      /\ 2 * q <= 2 * y + Fraction /\ 2 * y + Fraction < 2 * q + 2 * Fraction
  BY <1>3, <1>5, RoundedNear
<1>8. p \in Int /\ q \in Int /\ Fraction * s = p - q
  <2>1. \A a, b \in Int : Fraction * (a - b) = Fraction * a - Fraction * b
    BY <1>1
  <2>2. p \in Int /\ q \in Int
    BY <1>1, <1>6, <1>7
  <2> QED BY <1>4, <1>6, <1>7, <2>1, <2>2
<1> HIDE DEF p, q
<1> DEFINE z == Fraction * s
<1>9. z = p - q
  BY <1>8
<1> HIDE DEF z
<1>10. Distance(z, x - y) <= Fraction
  BY <1>1, <1>3, <1>6, <1>7, <1>8, <1>9 DEF Distance
<1> QED BY <1>10 DEF x, y, s, z

-----------------------------------------------------------------------------
(* Groups of two neighbouring deltas *)

\* multiples of sums
LEMMA Distribute ==
    \A x, y, z \in Int :
        /\ x * y \in Int /\ x * z \in Int
        /\ x * (y + z) = x * y + x * z
        /\ x * (y - z) = x * y - x * z
OBVIOUS

\* how much the sum up to j exceeds the one up to i, of values lo or one more
LEMMA SmallSteps ==
    ASSUME NEW ds \in Seq(Int), NEW h, SumsOf(h, ds), NEW lo \in Int,
           NEW i \in 0 .. Len(ds), NEW e \in i .. Len(ds),
           \A k \in i + 1 .. e : ds[k] \in {lo, lo + 1}
    PROVE  \A j \in i .. e : (h[j] - j * lo) - (h[i] - i * lo) \in 0 .. j - i
<1> DEFINE b(j) == h[j] - j * lo
           S == {j \in i .. e : b(j) - b(i) \in 0 .. j - i}
<1>1. \A j \in 0 .. Len(ds) : h[j] \in Int
  BY SumUnique
<1>2. \A j \in i .. e : b(j) \in Int
  BY <1>1
<1>3. i \in S
  <2>1. i \in i .. e /\ b(i) \in Int
    BY <1>2
  <2> HIDE DEF b
  <2> QED BY <2>1
<1>4. ASSUME NEW j \in i .. e - 1, j \in S PROVE j + 1 \in S
  <2>1. j + 1 \in 1 .. Len(ds) /\ (j + 1) - 1 = j /\ j + 1 \in i .. e /\ j \in i .. e
        /\ j + 1 \in i + 1 .. e
    OBVIOUS
  <2>2. h[j + 1] = h[j] + ds[j + 1]
    BY <2>1 DEF SumsOf
  <2>3. ds[j + 1] = lo \/ ds[j + 1] = lo + 1
    BY <2>1
  <2>4. (j + 1) * lo = j * lo + lo /\ j * lo \in Int /\ h[j] \in Int
    BY <1>1
  <2>5. b(j + 1) = b(j) \/ b(j + 1) = b(j) + 1
    BY <2>2, <2>3, <2>4
  <2>6. b(j) \in Int /\ b(i) \in Int /\ b(j) - b(i) \in 0 .. j - i
    BY <1>2, <1>4, <2>1
  <2> HIDE DEF b
  <2>7. b(j + 1) \in Int
    BY <2>5, <2>6
  <2>8. j - i \in Int /\ (j + 1) - i \in Int /\ (j + 1) - i = (j - i) + 1
    OBVIOUS
  <2>9. b(j + 1) - b(i) \in 0 .. (j + 1) - i
    <3> DEFINE x == b(j)
               y == b(j + 1)
               z == b(i)
               m == j - i
               n == (j + 1) - i
    <3>1. /\ x \in Int /\ y \in Int /\ z \in Int /\ m \in Int
          /\ n = m + 1 /\ x - z \in 0 .. m
      BY <2>6, <2>7, <2>8, Zenon
    <3>2. y = x \/ y = x + 1
      BY <2>5, Zenon
    <3> HIDE DEF x, y, z, m, n
    <3>3. y - z \in 0 .. n
      BY <3>1, <3>2
    <3> QED BY <3>3, Zenon DEF y, z, n
  <2> QED BY <2>1, <2>9
<1>5. i .. e \subseteq S
  <2>1. i \in Int /\ e \in Int
    OBVIOUS
  <2> HIDE DEF S
  <2> QED BY <1>3, <1>4, <2>1, IntervalInduction
<1> QED BY <1>5

\* no group starts inside another
LEMMA InsideGroup ==
    ASSUME Grouped, done = Len(deltas), NEW c \in cuts
    PROVE  \A x \in cuts : x <= c \/ x > GroupEnd(c)
<1> DEFINE n == Len(deltas)
           e == GroupEnd(c)
<1>1. n \in Nat /\ cuts \in SUBSET (1 .. n) /\ c \in cuts /\ e = EndOf(cuts, n, c)
  BY DEF Grouped, GroupEnd, EndOf
<1> HIDE DEF n, e
<1>2. /\ e \in c .. n
      /\ IF StartsUpto(cuts, c) = cuts THEN e = n
         ELSE StartsUpto(cuts, e + 1) = StartsUpto(cuts, c) \cup {e + 1}
  BY <1>1, NextGroup
<1>3. ASSUME NEW x \in cuts, ~ (x <= c), ~ (x > e) PROVE FALSE
  <2>1. x \in Int /\ c \in Int /\ e \in Int /\ x <= e + 1 /\ x # e + 1
    BY <1>1, <1>2, <1>3
  <2>2. x \notin StartsUpto(cuts, c)
    BY <1>3 DEF StartsUpto
  <2>3. x \in StartsUpto(cuts, e + 1)
    BY <2>1 DEF StartsUpto
  <2> QED BY <1>2, <2>1, <2>2, <2>3
<1> QED BY <1>3 DEF e

\* all deltas of a group are one number or the next
LEMMA GroupHoldsTwo ==
    ASSUME Grouped, done = Len(deltas), NEW c \in cuts
    PROVE  \E lo \in Int : \A k \in c .. GroupEnd(c) : deltas[k] \in {lo, lo + 1}
<1> DEFINE e == GroupEnd(c)
           d == deltas[c]
<1>1. c \in Nat /\ e \in c .. Len(deltas) /\ c \in 1 .. Len(deltas)
  BY GroupTyped DEF Grouped
<1>2. deltas \in Seq(Int) /\ WithinOne(deltas, Len(deltas), cuts)
  BY DEF Grouped
<1> HIDE DEF e
<1>3. ASSUME NEW i \in c .. e, NEW j \in c .. e
      PROVE  /\ deltas[i] \in Int /\ deltas[j] \in Int
             /\ deltas[i] - deltas[j] <= 1 /\ deltas[j] - deltas[i] <= 1
  <2>1. i \in 1 .. Len(deltas) /\ j \in 1 .. Len(deltas)
    BY <1>1
  <2>2. deltas[i] \in Int /\ deltas[j] \in Int
    BY <1>2, <2>1
  <2>3. \A x \in cuts : x <= c \/ x > e
    BY InsideGroup DEF e
  <2>4. Together(cuts, i, j) /\ Together(cuts, j, i)
    <3>1. \A x \in cuts : x \in Int
      BY DEF Grouped
    <3>2. \A x \in cuts : (x <= i \/ x > j) /\ (x <= j \/ x > i)
      BY <1>1, <2>3, <3>1
    <3> QED BY <3>2 DEF Together
  <2>5. i <= j => Distance(deltas[i], deltas[j]) <= 1
    BY <1>2, <2>1, <2>4 DEF WithinOne
  <2>6. j <= i => Distance(deltas[j], deltas[i]) <= 1
    BY <1>2, <2>1, <2>4 DEF WithinOne
  <2>7. i <= j \/ j <= i
    OBVIOUS
  <2> QED BY <2>2, <2>5, <2>6, <2>7 DEF Distance
<1>4. c \in c .. e
  BY <1>1
<1>5. d \in Int
  BY <1>3, <1>4
<1>6. CASE \E j \in c .. e : deltas[j] = d - 1
  <2>1. PICK j \in c .. e : deltas[j] = d - 1
    BY <1>6
  <2>2. ASSUME NEW k \in c .. e PROVE deltas[k] \in {d - 1, (d - 1) + 1}
    <3>1. /\ deltas[k] \in Int /\ deltas[k] - d <= 1 /\ d - deltas[k] <= 1
      BY <1>3, <1>4
    <3>2. deltas[k] - (d - 1) <= 1
      BY <1>3, <2>1
    <3> QED BY <1>5, <3>1, <3>2
  <2> DEFINE lo == d - 1
  <2>3. lo \in Int /\ \A k \in c .. e : deltas[k] \in {lo, lo + 1}
    BY <1>5, <2>2
  <2> HIDE DEF lo
  <2> QED BY <2>3 DEF e
<1>7. CASE ~ \E j \in c .. e : deltas[j] = d - 1
  <2>1. ASSUME NEW k \in c .. e PROVE deltas[k] \in {d, d + 1}
    <3>1. /\ deltas[k] \in Int /\ deltas[k] - d <= 1 /\ d - deltas[k] <= 1
      BY <1>3, <1>4
    <3>2. deltas[k] # d - 1
      BY <1>7
    <3> QED BY <1>5, <3>1, <3>2
  <2> QED BY <1>5, <2>1 DEF e
<1> QED BY <1>6, <1>7

\* a part of N deltas, of which b are one larger, a of them among the first m,
\* is a quarter of N off the average at most
LEMMA Quarter ==
    ASSUME NEW N \in Nat, NEW m \in 0 .. N, NEW a \in 0 .. m, NEW b \in Nat,
           b - a \in 0 .. N - m
    PROVE  /\ a * N \in Int /\ m * b \in Int /\ N * N \in Int
           /\ 4 * (a * N - m * b) <= N * N
           /\ 4 * (m * b - a * N) <= N * N
<1> DEFINE u == N - m
           v == b - a
<1>1. u \in Nat /\ v \in 0 .. u /\ N = m + u /\ b = a + v /\ m \in Nat /\ a \in Nat
  OBVIOUS
<1> HIDE DEF u, v
<1> DEFINE au == a * u
           mv == m * v
           mu == m * u
           mm == m * m
           uu == u * u
           ma == m * a
<1>2. /\ au \in Nat /\ mv \in Nat /\ mu \in Nat /\ mm \in Nat /\ uu \in Nat /\ ma \in Nat
  BY <1>1
<1>3. au <= mu
  <2>1. (m - a) * u \in Nat /\ (m - a) * u = m * u - a * u
    <3>1. m - a \in Nat
      BY <1>1
    <3> QED BY <1>1, <3>1
  <2> HIDE DEF u
  <2> QED BY <1>2, <2>1
<1>4. mv <= mu
  <2>1. u - v \in Nat
    BY <1>1
  <2>2. m * (u - v) \in Nat /\ m * (u - v) = m * u - m * v
    BY <1>1, <2>1
  <2> QED BY <1>2, <2>2
<1>5. a * N = ma + au /\ m * b = ma + mv
  BY <1>1
<1>6. N * N = mm + 2 * mu + uu
  BY <1>1
<1>7. 2 * mu <= mm + uu
  <2> DEFINE w == (m - u) * (m - u)
  <2>1. w = mm - 2 * mu + uu
    BY <1>1
  <2>2. w \in Int /\ w >= 0
    BY <1>1
  <2> HIDE DEF w, mm, mu, uu
  <2> QED BY <1>2, <2>1, <2>2
<1> HIDE DEF au, mv, mu, mm, uu, ma
<1>8. 4 * au <= N * N /\ 4 * mv <= N * N
  BY <1>2, <1>3, <1>4, <1>6, <1>7
<1>9. a * N - m * b = au - mv /\ m * b - a * N = mv - au
  BY <1>2, <1>5
<1>10. a * N \in Int /\ m * b \in Int /\ N * N \in Int
  BY <1>2, <1>5, <1>6
<1> QED BY <1>2, <1>8, <1>9, <1>10

-----------------------------------------------------------------------------
(* The groups -x makes *)

\* where the first groups end
Reach(g) == IF g = 0 THEN 0 ELSE Ends[g]

\* how many frames each of them has
Sizes == [g \in 1 .. Cardinality(cuts) |-> Averages[g].count]

\* the g-th group, its sum as a difference of sums
LEMMA GroupIs ==
    ASSUME Grouped, done = Len(deltas), NEW g \in 1 .. Cardinality(cuts)
    PROVE  /\ NthStart(g) \in cuts
           /\ NthStart(g) = Reach(g - 1) + 1 /\ GroupEnd(NthStart(g)) = Reach(g)
           /\ Reach(g - 1) \in 0 .. Len(deltas) /\ Reach(g) \in 0 .. Len(deltas)
           /\ Averages[g] = GroupFrom(NthStart(g))
           /\ Averages[g].count \in Nat \ {0}
           /\ Averages[g].count = Reach(g) - Reach(g - 1)
           /\ Averages[g].sum = Sums(deltas)[Reach(g)] - Sums(deltas)[Reach(g - 1)]
<1> DEFINE m == Cardinality(cuts)
           c == NthStart(g)
           e == GroupEnd(c)
<1>0. m \in Nat /\ Ends[g] = e /\ Averages[g] = GroupFrom(c)
  BY GroupsFollow DEF Ends, Averages
<1>1. /\ c \in cuts /\ Ends[g] \in Nat /\ c \in Nat
      /\ c = IF g = 1 THEN 1 ELSE Ends[g - 1] + 1
  BY GroupsFollow
<1>2. g \in Nat /\ g # 0 /\ (g - 1 = 0 <=> g = 1)
  BY <1>0
<1>3. Reach(g) = e
  BY <1>0, <1>2 DEF Reach
<1>4. c = Reach(g - 1) + 1
  BY <1>1, <1>2 DEF Reach
<1>5. c \in Nat /\ e \in c .. Len(deltas) /\ c \in 1 .. Len(deltas)
  BY <1>1, GroupTyped DEF Grouped
<1>6. g = 1 \/ g - 1 \in 1 .. m
  BY <1>0, <1>2
<1>7. Reach(g - 1) \in Int
  <2>1. CASE g = 1
    BY <2>1, <1>2 DEF Reach
  <2>2. CASE g # 1
    <3>1. g - 1 \in 1 .. m
      BY <1>6, <2>2
    <3>2. Ends[g - 1] \in Nat
      BY <3>1, GroupsFollow
    <3> QED BY <1>2, <2>2, <3>2 DEF Reach
  <2> QED BY <2>1, <2>2
<1> HIDE DEF m, c, e
<1>8. /\ c - 1 = Reach(g - 1) /\ Reach(g - 1) \in 0 .. Len(deltas)
      /\ Reach(g) \in 0 .. Len(deltas) /\ e - c + 1 = Reach(g) - Reach(g - 1)
      /\ e - c + 1 \in Nat \ {0} /\ e \in 0 .. Len(deltas) /\ c - 1 \in 0 .. Len(deltas)
  BY <1>3, <1>4, <1>5, <1>7
<1>9. deltas \in Seq(Int)
  BY DEF Grouped
<1>10. Elapsed(e) = Sums(deltas)[e]
  BY <1>8, <1>9, ElapsedIsSum
<1>11. Elapsed(c - 1) = Sums(deltas)[c - 1]
  BY <1>8, <1>9, ElapsedIsSum
<1>12. /\ Averages[g].count = e - c + 1
       /\ Averages[g].sum = Elapsed(e) - Elapsed(c - 1)
  BY <1>0 DEF GroupFrom, e
<1> QED BY <1>0, <1>1, <1>3, <1>4, <1>8, <1>10, <1>11, <1>12 DEF m, c, e

\* the sizes of the groups, added up, are where they end
LEMMA SizesAre ==
    ASSUME Grouped, done = Len(deltas)
    PROVE  /\ Cardinality(cuts) \in Nat
           /\ Sizes \in Seq(Nat) /\ Len(Sizes) = Cardinality(cuts)
           /\ SumsOf([g \in 0 .. Cardinality(cuts) |-> Reach(g)], Sizes)
           /\ Reach(Cardinality(cuts)) = Len(deltas)
<1> DEFINE m == Cardinality(cuts)
           h == [g \in 0 .. m |-> Reach(g)]
<1>1. m \in Nat
  BY GroupsFollow
<1>2. ASSUME NEW g \in 1 .. m
      PROVE  /\ Averages[g].count \in Nat
             /\ h[g] = h[g - 1] + Averages[g].count
  <2>1. g \in 0 .. m /\ g - 1 \in 0 .. m
    BY <1>1
  <2>2. /\ Averages[g].count \in Nat
        /\ Averages[g].count = Reach(g) - Reach(g - 1)
        /\ Reach(g) \in Int /\ Reach(g - 1) \in Int
    BY GroupIs
  <2>3. h[g] = Reach(g) /\ h[g - 1] = Reach(g - 1)
    BY <2>1
  <2> QED BY <2>2, <2>3
<1>3. Sizes \in [1 .. m -> Nat] /\ \A g \in 1 .. m : Sizes[g] = Averages[g].count
  BY <1>2 DEF Sizes
<1>4. Sizes \in Seq(Nat) /\ Len(Sizes) = m
  BY <1>1, <1>3
<1>5. h[0] = 0
  BY <1>1 DEF Reach
<1>6. SumsOf(h, Sizes)
  <2> HIDE DEF h
  <2> QED BY <1>2, <1>3, <1>4, <1>5 DEF SumsOf
<1>7. Reach(m) = Len(deltas)
  <2>1. CASE m = 0
    BY <2>1, GroupsFollow DEF Reach
  <2>2. CASE m # 0
    <3>1. m \in 1 .. m
      BY <1>1, <2>2
    <3> QED BY <2>2, <3>1, GroupsFollow DEF Reach
  <2> QED BY <2>1, <2>2
<1> QED BY <1>1, <1>4, <1>6, <1>7

\* every delta is in a group
LEMMA GroupOf ==
    ASSUME Grouped, done = Len(deltas), NEW i \in 1 .. Len(deltas)
    PROVE  \E g \in 1 .. Cardinality(cuts) :
              /\ i - Reach(g - 1) \in 1 .. Averages[g].count
              /\ GroupStart(i) = NthStart(g)
<1> DEFINE m == Cardinality(cuts)
           h == [g \in 0 .. m |-> Reach(g)]
<1>1. /\ m \in Nat /\ Sizes \in Seq(Nat) /\ Len(Sizes) = m /\ SumsOf(h, Sizes)
      /\ Reach(m) = Len(deltas)
  BY SizesAre
<1>2. h[m] = Len(deltas)
  BY <1>1
<1>3. i \in 1 .. h[Len(Sizes)]
  BY <1>1, <1>2
<1>4. Inside(i, h, Sizes)
  <2> HIDE DEF h, m
  <2> QED BY <1>1, <1>3, Located
<1>5. PICK g \in 1 .. m : \E j \in 1 .. Sizes[g] : i = h[g - 1] + j
  <2> HIDE DEF h, m
  <2> QED BY <1>1, <1>4 DEF Inside
<1>6. PICK j \in 1 .. Sizes[g] : i = h[g - 1] + j
  BY <1>5
<1>7. g - 1 \in 0 .. m /\ Sizes[g] = Averages[g].count
  BY <1>1 DEF Sizes
<1>8. i = Reach(g - 1) + j /\ j \in 1 .. Averages[g].count
  BY <1>6, <1>7
<1>9. /\ NthStart(g) \in cuts
      /\ NthStart(g) = Reach(g - 1) + 1 /\ GroupEnd(NthStart(g)) = Reach(g)
      /\ Reach(g - 1) \in 0 .. Len(deltas) /\ Reach(g) \in 0 .. Len(deltas)
      /\ Averages[g].count = Reach(g) - Reach(g - 1)
  BY GroupIs
<1> DEFINE c == NthStart(g)
           S == {x \in cuts : x <= i}
<1>10. c \in cuts /\ c <= i /\ i <= GroupEnd(c) /\ c \in Int /\ GroupEnd(c) \in Int
  BY <1>8, <1>9
<1>11. \A x \in cuts : x <= c \/ x > GroupEnd(c)
  BY <1>10, InsideGroup
<1>12. cuts \in SUBSET Int
  BY DEF Grouped
<1> HIDE DEF c
<1>13. S \in SUBSET Int /\ c \in S /\ \A x \in S : x <= c
  <2>1. S \in SUBSET Int /\ c \in S
    BY <1>10, <1>12
  <2>2. ASSUME NEW x \in S PROVE x <= c
    <3>1. x \in cuts /\ x \in Int /\ x <= i /\ i \in Int
      BY <1>12
    <3>2. x <= c \/ x > GroupEnd(c)
      BY <1>11, <3>1
    <3> QED BY <1>10, <3>1, <3>2
  <2> QED BY <2>1, <2>2
<1>14. Max(S) = c
  <2> HIDE DEF S
  <2> QED BY <1>13, MaxIs
<1>15. GroupStart(i) = c
  BY <1>14 DEF GroupStart
<1>16. i - Reach(g - 1) \in 1 .. Averages[g].count
  BY <1>8, <1>9
<1> QED BY <1>15, <1>16 DEF c

-----------------------------------------------------------------------------
(* Averaging moves a frame by a quarter of its group *)

\* the same with a multiple of a number added to every delta
LEMMA QuarterShift ==
    ASSUME NEW N \in Nat, NEW k \in 0 .. N, NEW E \in Int, NEW s \in Int, NEW lo \in Int,
           E - k * lo \in 0 .. k, s - N * lo \in 0 .. N,
           (s - N * lo) - (E - k * lo) \in 0 .. N - k
    PROVE  /\ E * N \in Int /\ k * s \in Int /\ N * N \in Int
           /\ 4 * (E * N - k * s) <= N * N
           /\ 4 * (k * s - E * N) <= N * N
<1> DEFINE q == k * lo
           w == N * lo
           a == E - q
           b == s - w
           aN == a * N
           kb == k * b
           EN == E * N
           ks == k * s
           NN == N * N
           v == k * w
<1>1. q \in Int /\ w \in Int /\ a \in 0 .. k /\ b \in Nat /\ b - a \in 0 .. N - k
  OBVIOUS
<1>2. q * N = v /\ v \in Int
  BY <1>1
<1> HIDE DEF q, w
<1>3. a \in Int /\ b \in Int /\ E = a + q /\ s = b + w
  BY <1>1
<1> HIDE DEF a, b
<1>4. /\ aN \in Int /\ kb \in Int /\ NN \in Int
      /\ 4 * (aN - kb) <= NN
      /\ 4 * (kb - aN) <= NN
  BY <1>1, Quarter
<1>5. EN = aN + q * N /\ ks = kb + v
  BY <1>1, <1>3
<1> HIDE DEF aN, kb, EN, ks, NN, v
<1>6. /\ EN \in Int /\ ks \in Int
      /\ 4 * (EN - ks) <= NN
      /\ 4 * (ks - EN) <= NN
  BY <1>2, <1>4, <1>5
<1> QED BY <1>4, <1>6 DEF EN, ks, NN

\* the sum of the first k deltas of a group differs from k times their average
\* by a quarter of the group at most
LEMMA GroupQuarter ==
    ASSUME Grouped, done = Len(deltas), NEW g \in 1 .. Cardinality(cuts),
           NEW N, N = Averages[g].count, NEW s, s = Averages[g].sum,
           NEW k \in 0 .. N, NEW E, E = Sums(deltas)[Reach(g - 1) + k] - Sums(deltas)[Reach(g - 1)]
    PROVE  /\ E \in Int /\ s \in Int /\ E * N \in Int /\ k * s \in Int /\ N * N \in Int
           /\ 4 * (E * N - k * s) <= N * N
           /\ 4 * (k * s - E * N) <= N * N
<1> DEFINE h == Sums(deltas)
           c == NthStart(g)
           r == Reach(g - 1)
           e == Reach(g)
<1>1. /\ c \in cuts /\ c = r + 1 /\ GroupEnd(c) = e
      /\ r \in 0 .. Len(deltas) /\ e \in 0 .. Len(deltas)
      /\ N \in Nat \ {0} /\ N = e - r
      /\ s = h[e] - h[r]
  BY GroupIs
<1>2. deltas \in Seq(Int) /\ Len(deltas) \in Nat
  BY DEF Grouped
<1>3. SumsOf(h, deltas)
  BY <1>2, SumsAre
<1>4. PICK lo \in Int : \A j \in c .. e : deltas[j] \in {lo, lo + 1}
  BY <1>1, GroupHoldsTwo
<1>5. E = h[r + k] - h[r]
  OBVIOUS
<1> HIDE DEF h, c, r, e
<1>6. /\ e \in r .. Len(deltas) /\ r + k \in r .. e /\ r + k \in 0 .. Len(deltas)
      /\ e \in r + k .. Len(deltas) /\ k \in Int /\ e \in r .. e /\ e \in r + k .. e
  BY <1>1, <1>2
<1>7. \A j \in r + 1 .. e : deltas[j] \in {lo, lo + 1}
  BY <1>1, <1>4
<1>8. \A j \in r .. e : (h[j] - j * lo) - (h[r] - r * lo) \in 0 .. j - r
  BY <1>1, <1>2, <1>3, <1>6, <1>7, SmallSteps
<1>9. \A j \in (r + k) + 1 .. e : deltas[j] \in {lo, lo + 1}
  BY <1>1, <1>6, <1>7
<1>10. \A j \in r + k .. e : (h[j] - j * lo) - (h[r + k] - (r + k) * lo) \in 0 .. j - (r + k)
  BY <1>2, <1>3, <1>6, <1>9, SmallSteps
<1>11. h[r] \in Int /\ h[r + k] \in Int /\ h[e] \in Int
  BY <1>1, <1>2, <1>3, <1>6, SumUnique
<1> DEFINE p == r * lo
           q == k * lo
           t == e * lo
           u == (r + k) * lo
           w == N * lo
<1>12. /\ (h[r + k] - u) - (h[r] - p) \in 0 .. (r + k) - r
       /\ (h[e] - t) - (h[r] - p) \in 0 .. e - r
       /\ (h[e] - t) - (h[r + k] - u) \in 0 .. e - (r + k)
  BY <1>6, <1>8, <1>10
<1>13. p \in Int /\ q \in Int /\ t \in Int /\ w \in Int /\ u = p + q /\ w = t - p
  <2>1. \A x, y \in Int : x * lo \in Int /\ (x + y) * lo = x * lo + y * lo
                             /\ (x - y) * lo = x * lo - y * lo
    OBVIOUS
  <2>2. r \in Int /\ k \in Int /\ e \in Int /\ N \in Int /\ N = e - r
    BY <1>1, <1>6
  <2>3. (r + k) * lo = p + q /\ (e - r) * lo = t - p
    BY <2>1, <2>2, Zenon
  <2> QED BY <2>1, <2>2, <2>3
<1>14. (r + k) - r = k /\ e - (r + k) = N - k /\ N \in Nat /\ k \in Int /\ e - r = N
  BY <1>1, <1>6
<1> HIDE DEF p, q, t, u, w
<1>15. /\ E - q = (h[r + k] - u) - (h[r] - p)
       /\ s - w = (h[e] - t) - (h[r] - p)
       /\ (s - w) - (E - q) = (h[e] - t) - (h[r + k] - u)
       /\ E \in Int /\ s \in Int
  <2> DEFINE hr == h[r]
             hk == h[r + k]
             he == h[e]
  <2>1. E = hk - hr /\ s = he - hr
    BY <1>1, <1>5
  <2>2. hr \in Int /\ hk \in Int /\ he \in Int
    BY <1>11
  <2> HIDE DEF hr, hk, he
  <2>4. u \in Int
    BY <1>13
  <2>3. /\ E - q = (hk - u) - (hr - p)
        /\ s - w = (he - t) - (hr - p)
        /\ (s - w) - (E - q) = (he - t) - (hk - u)
        /\ E \in Int /\ s \in Int
    <3>1. E \in Int /\ s \in Int
      BY <2>1, <2>2
    <3>2. E - q = (hk - u) - (hr - p)
      <4>1. p \in Int /\ q \in Int /\ u = p + q /\ E = hk - hr
        BY <1>13, <2>1, Zenon
      <4> QED BY <2>2, <2>4, <3>1, <4>1
    <3>3. s - w = (he - t) - (hr - p)
      BY <1>13, <2>1, <2>2, <3>1
    <3>4. (s - w) - (E - q) = (he - t) - (hk - u)
      BY <1>13, <2>2, <2>4, <3>1, <3>2, <3>3
    <3> QED BY <3>1, <3>2, <3>3, <3>4, Zenon
  <2> QED BY <2>3, Zenon DEF hr, hk, he
<1>16. E - q \in 0 .. k /\ s - w \in 0 .. N /\ (s - w) - (E - q) \in 0 .. N - k
  BY <1>12, <1>14, <1>15, Zenon
<1>17. E - k * lo \in 0 .. k /\ s - N * lo \in 0 .. N
       /\ (s - N * lo) - (E - k * lo) \in 0 .. N - k
  BY <1>16 DEF q, w
<1>18. k \in 0 .. N /\ E \in Int /\ s \in Int /\ lo \in Int
  BY <1>15
<1> QED BY <1>14, <1>17, <1>18, QuarterShift, Zenon

\* averages are whole numbers of the units time codes are counted in
ExactAverages == \A g \in DOMAIN averages : Fraction % averages[g].count = 0

\* averaging moves a frame by a quarter of its group at most
LEMMA AveragedNear ==
    ASSUME Grouped, done = Len(deltas), NEW i \in 1 .. Len(deltas),
           averages = Averages, ExactAverages
    PROVE  \E g \in DOMAIN averages :
              4 * Distance(AveragedCode(i), Fraction * Sums(deltas)[i])
                 <= Fraction * averages[g].count
<1>1. PICK g \in 1 .. Cardinality(cuts) :
              /\ i - Reach(g - 1) \in 1 .. Averages[g].count
              /\ GroupStart(i) = NthStart(g)
  BY GroupOf
<1> DEFINE h == Sums(deltas)
           c == NthStart(g)
           r == Reach(g - 1)
           e == Reach(g)
           N == Averages[g].count
           s == Averages[g].sum
           k == i - r
           E == h[r + k] - h[r]
           f == Fraction \div N
<1>2. /\ c \in cuts /\ c = r + 1
      /\ r \in 0 .. Len(deltas) /\ e \in 0 .. Len(deltas)
      /\ Averages[g] = GroupFrom(c)
      /\ N \in Nat \ {0} /\ N = e - r
  BY GroupIs
<1>3. deltas \in Seq(Int) /\ Len(deltas) \in Nat /\ Fraction \in Nat \ {0}
  BY FractionAssumption DEF Grouped
<1>4. g \in DOMAIN averages /\ averages[g].count = N
  BY DEF Averages
<1>5. Fraction % N = 0
  BY <1>4 DEF ExactAverages
<1>6. k \in 1 .. N /\ k \in 0 .. N
  BY <1>1, <1>2
<1>7. /\ E \in Int /\ s \in Int /\ E * N \in Int /\ k * s \in Int /\ N * N \in Int
      /\ 4 * (E * N - k * s) <= N * N
      /\ 4 * (k * s - E * N) <= N * N
  <2>1. N = Averages[g].count /\ s = Averages[g].sum /\ k \in 0 .. N
        /\ E = Sums(deltas)[Reach(g - 1) + k] - Sums(deltas)[Reach(g - 1)]
    BY <1>6
  <2> HIDE DEF N, s, k, E
  <2> QED BY <2>1, GroupQuarter
<1>8. r + k = i /\ i \in 0 .. Len(deltas) /\ i # 0
  BY <1>2, <1>3, <1>6
<1>9. Elapsed(r) = h[r] /\ Elapsed(r) \in Int
  BY <1>2, <1>3, ElapsedIsSum
<1>10. AveragedCode(i) = Fraction * Elapsed(c - 1) + (i - c + 1) * ((Fraction * s) \div N)
  BY <1>1, <1>2, <1>8 DEF AveragedCode
<1> HIDE DEF h, c, r, e, N, s, k, E
<1>11. c - 1 = r /\ i - c + 1 = k /\ k \in Int /\ h[r] \in Int /\ h[i] = h[r] + E
  <2>1. E = h[r + k] - h[r]
    BY DEF E
  <2>2. h[i] \in Int
    <3>1. SumsOf(h, deltas)
      BY <1>3, SumsAre DEF h
    <3> QED BY <1>3, <1>8, <3>1, SumUnique
  <2>3. c - 1 = r /\ i - c + 1 = k /\ k \in Int
    BY <1>2, <1>6, <1>8
  <2> QED BY <1>8, <1>9, <2>1, <2>2, <2>3
<1>12. f \in Int /\ Fraction = N * f
  <2>1. \A a \in Int, b \in Nat \ {0} : a \div b \in Int /\ a = b * (a \div b) + (a % b)
    OBVIOUS
  <2>2. N \in Nat \ {0} /\ Fraction \in Int
    BY <1>2, <1>3
  <2>3. Fraction \div N \in Int /\ Fraction = N * (Fraction \div N) + (Fraction % N)
    BY <2>1, <2>2, Zenon
  <2>4. N * (Fraction \div N) \in Int
    BY <2>2, <2>3
  <2> QED BY <1>5, <2>3, <2>4 DEF f
<1>13. f > 0
  <2>1. f <= 0 => N * f <= 0
    BY <1>2, <1>12
  <2> DEFINE x == N * f
  <2>2. x = Fraction /\ (f <= 0 => x <= 0)
    BY <1>12, <2>1
  <2> HIDE DEF f, x
  <2> QED BY <1>3, <1>12, <2>2
<1> HIDE DEF f
<1>14. (Fraction * s) \div N = f * s
  <2> DEFINE a == Fraction * s
             q == f * s
  <2>1. a = N * q /\ a \in Int /\ q \in Int
    BY <1>2, <1>7, <1>12
  <2>2. N * q <= a /\ a < N * q + N
    <3> DEFINE x == N * q
    <3>1. a = x /\ N \in Nat \ {0}
      BY <1>2, <2>1
    <3> HIDE DEF x, a, q
    <3>2. x <= a /\ a < x + N
      BY <2>1, <3>1
    <3> QED BY <3>2 DEF x
  <2> HIDE DEF a, q
  <2>3. a \div N = q
    BY <1>2, <2>1, <2>2, QuotientIs
  <2> QED BY <2>3 DEF a, q
<1> DEFINE EN == E * N
           ks == k * s
           NN == N * N
           z == EN - ks
           A == Fraction * h[i]
           C == AveragedCode(i)
           B == Fraction * N
<1>15. EN \in Int /\ ks \in Int /\ NN \in Int /\ 4 * (EN - ks) <= NN /\ 4 * (ks - EN) <= NN
  BY <1>7
<1> DEFINE x == f * EN
           y == f * ks
           w == Fraction * h[r]
           v == f * NN
<1>20. x \in Int /\ y \in Int /\ w \in Int /\ v \in Int
  <2>1. \A a, b \in Int : a * b \in Int
    OBVIOUS
  <2>2. f \in Int /\ Fraction \in Int /\ h[r] \in Int
    BY <1>3, <1>11, <1>12
  <2> HIDE DEF EN, ks, NN
  <2> QED BY <1>15, <2>1, <2>2
<1>16. A = Fraction * h[r] + f * EN /\ A \in Int
  <2>1. Fraction \in Int /\ E \in Int /\ h[r] \in Int /\ h[i] = h[r] + E
    BY <1>3, <1>7, <1>11
  <2>2. A = Fraction * h[r] + Fraction * E
    <3>1. Fraction * (h[r] + E) = Fraction * h[r] + Fraction * E
      BY <2>1, Distribute, Zenon
    <3> QED BY <2>1, <3>1, Zenon
  <2>3. Fraction * E = f * (E * N)
    BY <1>2, <1>7, <1>12
  <2>4. Fraction * h[r] \in Int /\ f * EN \in Int
    BY <1>20
  <2> QED BY <2>2, <2>3, <2>4
<1>17. C = Fraction * h[r] + f * ks /\ C \in Int
  <2>1. C = Fraction * h[r] + k * (f * s)
    BY <1>9, <1>10, <1>11, <1>14
  <2>2. k * (f * s) = f * (k * s)
    BY <1>7, <1>11, <1>12
  <2>3. Fraction * h[r] \in Int /\ f * ks \in Int
    BY <1>20
  <2> QED BY <2>1, <2>2, <2>3
<1>18. B = f * NN /\ B \in Int
  BY <1>2, <1>12, <1>15
<1>19. 4 * (f * EN) - 4 * (f * ks) <= f * NN /\ 4 * (f * ks) - 4 * (f * EN) <= f * NN
  <2> HIDE DEF EN, ks, NN
  <2>1. \A a, b \in Int : a <= b => f * a <= f * b
    BY <1>12, <1>13
  <2>2. f * (4 * (EN - ks)) <= f * NN /\ f * (4 * (ks - EN)) <= f * NN
    BY <1>15, <2>1
  <2>3. /\ f * (4 * (EN - ks)) = 4 * (f * EN) - 4 * (f * ks)
        /\ f * (4 * (ks - EN)) = 4 * (f * ks) - 4 * (f * EN)
    BY <1>12, <1>15
  <2> QED BY <2>2, <2>3
<1>21. A = w + x /\ C = w + y /\ B = v /\ 4 * x - 4 * y <= v /\ 4 * y - 4 * x <= v
  BY <1>16, <1>17, <1>18, <1>19
<1> HIDE DEF A, B, C, x, y, w, v
<1>22. 4 * Distance(C, A) <= B
  BY <1>16, <1>17, <1>18, <1>20, <1>21 DEF Distance
<1> QED BY <1>4, <1>22 DEF A, B, C, h

-----------------------------------------------------------------------------
(* The exact ranges *)

\* the values after the i-th, up to the e-th, are p
AllAre(ds, i, e, p) == \A k \in i + 1 .. e : ds[k] = p

\* so their sums are the sum up to the i-th and multiples of p
Evenly(h, i, e, p) == \A j \in i .. e : h[j] = h[i] + (j - i) * p

\* equal values add up evenly
LEMMA EqualSteps ==
    ASSUME NEW ds \in Seq(Int), NEW h, SumsOf(h, ds), NEW p \in Int,
           NEW i \in 0 .. Len(ds), NEW e \in i .. Len(ds),
           AllAre(ds, i, e, p)
    PROVE  Evenly(h, i, e, p)
<1> DEFINE S == {j \in i .. e : h[j] = h[i] + (j - i) * p}
<1>1. \A j \in 0 .. Len(ds) : h[j] \in Int
  BY SumUnique
<1>2. i \in S
  <2>1. (i - i) * p = 0 /\ h[i] \in Int /\ i \in i .. e
    BY <1>1
  <2> QED BY <2>1
<1>3. ASSUME NEW j \in i .. e - 1, j \in S PROVE j + 1 \in S
  <2>1. j + 1 \in 1 .. Len(ds) /\ (j + 1) - 1 = j /\ j + 1 \in i .. e
        /\ j + 1 \in i + 1 .. e /\ j - i \in Int
    OBVIOUS
  <2>2. h[j + 1] = h[j] + p
    BY <2>1 DEF SumsOf, AllAre
  <2>3. ((j + 1) - i) * p = (j - i) * p + p /\ (j - i) * p \in Int /\ h[i] \in Int
    <3>1. \A x \in Int : (x + 1) * p = x * p + p /\ x * p \in Int
      OBVIOUS
    <3>2. (j + 1) - i = (j - i) + 1
      BY <2>1
    <3> QED BY <1>1, <2>1, <3>1, <3>2
  <2>4. h[j] = h[i] + (j - i) * p
    BY <1>3
  <2>5. h[j + 1] = h[i] + ((j + 1) - i) * p
    <3> DEFINE x == (j - i) * p
               y == ((j + 1) - i) * p
    <3>1. h[j] = h[i] + x /\ y = x + p /\ x \in Int /\ h[i] \in Int
      BY <2>3, <2>4
    <3> HIDE DEF x, y
    <3>2. h[j + 1] = h[i] + y
      BY <2>2, <3>1
    <3> QED BY <3>2 DEF y
  <2> QED BY <2>1, <2>5
<1>4. i .. e \subseteq S
  <2>1. i \in Int /\ e \in Int
    OBVIOUS
  <2> HIDE DEF S
  <2> QED BY <1>2, <1>3, <2>1, IntervalInduction
<1> QED BY <1>4 DEF Evenly

\* the rate a group is given, and how long a frame lasts at it
RateOf(g)  == WellKnown[Min(Matches(averages[g]))]
FrameOf(g) == (RateOf(g).denom * Second) \div RateOf(g).num

\* a frame lasts a whole number of units
LEMMA RateIs ==
    ASSUME AllWellKnown, NEW g \in DOMAIN averages
    PROVE  /\ CloseTo(averages[g], RateOf(g))
           /\ RateOf(g).num \in Nat \ {0} /\ RateOf(g).denom \in Nat \ {0}
           /\ FrameOf(g) \in Nat
           /\ FrameOf(g) * RateOf(g).num = RateOf(g).denom * Second
<1> DEFINE S == Matches(averages[g])
           m == Min(S)
<1>1. S # {} /\ S \in SUBSET (1 .. 5)
  BY DEF AllWellKnown, Matches, Searched
<1>2. m \in S
  <2> HIDE DEF S
  <2>1. S \in SUBSET Nat
    BY <1>1
  <2>2. PICK x \in S : \A y \in S : x <= y
    BY <1>1, <2>1, LeastNatural
  <2> QED BY <2>2 DEF Min
<1>3. CloseTo(averages[g], WellKnown[m])
  BY <1>2 DEF Matches
<1>4. RateOf(g) = WellKnown[m]
  BY DEF RateOf
<1> HIDE DEF S, m
<1>5. m \in 1 .. 5
  BY <1>1, <1>2
<1>6. m \in {1, 2, 3, 4, 5}
  BY <1>5
<1> DEFINE r == RateOf(g)
<1>7. \/ r.num = 18000 /\ r.denom = 1001
      \/ r.num = 24000 /\ r.denom = 1001
      \/ r.num = 25 /\ r.denom = 1
      \/ r.num = 30000 /\ r.denom = 1001
      \/ r.num = 50 /\ r.denom = 1
  BY <1>4, <1>6 DEF WellKnown, Rate
<1>8. FrameOf(g) = (r.denom * Second) \div r.num
  BY DEF FrameOf
<1> HIDE DEF r
<1>9. /\ r.num \in Nat \ {0} /\ r.denom \in Nat \ {0}
      /\ FrameOf(g) \in Nat /\ FrameOf(g) * r.num = r.denom * Second
  BY <1>7, <1>8 DEF Second
<1> QED BY <1>3, <1>4, <1>9 DEF r

\* the frames of the exact ranges
Exactly == FlattenSeq([r \in DOMAIN ExactRanges |->
                [j \in 1 .. ExactRanges[r].numFrames |->
                   (ExactRanges[r].denom * Second) \div ExactRanges[r].num]])

\* the frames of a group are equally long in the exact ranges
LEMMA ExactFrames ==
    ASSUME Grouped, done = Len(deltas), averages = Averages, AllWellKnown
    PROVE  /\ Exactly \in Seq(Int) /\ Len(Exactly) = Len(deltas)
           /\ \A g \in 1 .. Cardinality(cuts) : \A j \in 1 .. Averages[g].count :
                 Exactly[Reach(g - 1) + j] = FrameOf(g)
<1> DEFINE m == Cardinality(cuts)
           h == [g \in 0 .. m |-> Reach(g)]
           part(r) == [j \in 1 .. ExactRanges[r].numFrames |->
                   (ExactRanges[r].denom * Second) \div ExactRanges[r].num]
           parts == [r \in DOMAIN ExactRanges |-> part(r)]
<1>1. /\ m \in Nat /\ Sizes \in Seq(Nat) /\ Len(Sizes) = m /\ SumsOf(h, Sizes)
      /\ Reach(m) = Len(deltas)
  BY SizesAre
<1>2. DOMAIN averages = 1 .. m /\ DOMAIN ExactRanges = 1 .. m
  BY DEF Averages, ExactRanges
<1>3. ASSUME NEW g \in 1 .. m
      PROVE  /\ part(g) = [j \in 1 .. Averages[g].count |-> FrameOf(g)]
             /\ FrameOf(g) \in Int /\ Averages[g].count \in Nat
  <2>1. g \in DOMAIN averages
    BY <1>2
  <2>2. ExactRanges[g] = [numFrames |-> averages[g].count, num |-> RateOf(g).num,
                          denom |-> RateOf(g).denom]
    BY <2>1 DEF ExactRanges, RateOf
  <2>3. FrameOf(g) \in Int
    BY <2>1, RateIs
  <2>4. Averages[g].count \in Nat
    BY GroupIs
  <2>5. part(g) = [j \in 1 .. Averages[g].count |-> FrameOf(g)]
    <3> DEFINE R == ExactRanges[g]
    <3>1. R.numFrames = Averages[g].count /\ R.num = RateOf(g).num
          /\ R.denom = RateOf(g).denom
      BY <2>2
    <3>2. part(g) = [j \in 1 .. R.numFrames |-> (R.denom * Second) \div R.num]
      OBVIOUS
    <3> HIDE DEF R, part
    <3> QED BY <3>1, <3>2, Zenon DEF FrameOf
  <2> QED BY <2>3, <2>4, <2>5
<1>4. Exactly = FlattenSeq(parts)
  BY Zenon DEF Exactly
<1>5. \A g \in 1 .. m : parts[g] = part(g)
  BY <1>2
<1> HIDE DEF part
<1>6. \A g \in 1 .. m : parts[g] \in Seq(Int) /\ Len(parts[g]) = Averages[g].count
  <2> SUFFICES ASSUME NEW g \in 1 .. m
               PROVE  parts[g] \in Seq(Int) /\ Len(parts[g]) = Averages[g].count
    OBVIOUS
  <2> DEFINE N == Averages[g].count
             p == FrameOf(g)
  <2>1. parts[g] = [j \in 1 .. N |-> p] /\ N \in Nat /\ p \in Int
    BY <1>3, <1>5
  <2> HIDE DEF N, p, parts
  <2>2. parts[g] \in [1 .. N -> Int]
    BY <2>1
  <2>3. parts[g] \in Seq(Int) /\ Len(parts[g]) = N
    BY <2>1, <2>2
  <2> QED BY <2>3 DEF N
<1>7. parts \in Seq(Seq(Int)) /\ Len(parts) = m
  <2>1. parts \in [1 .. m -> Seq(Int)]
    BY <1>2, <1>6
  <2> HIDE DEF parts, m
  <2> QED BY <1>1, <2>1
<1> HIDE DEF parts
<1>8. Lengths(parts) = Sizes
  <2>1. Lengths(parts) = [g \in 1 .. m |-> Len(parts[g])]
    BY <1>7 DEF Lengths
  <2>2. Sizes = [g \in 1 .. m |-> Averages[g].count]
    BY DEF Sizes
  <2> QED BY <1>6, <2>1, <2>2
<1>9. SumsOf(h, Lengths(parts))
  BY <1>1, <1>8
<1> HIDE DEF h
<1>10. /\ Exactly \in Seq(Int) /\ Len(Exactly) = h[m]
       /\ FlattenedTo(Exactly, parts, h, m)
  BY <1>4, <1>7, <1>9, Flattened
<1>11. \A g \in 0 .. m : h[g] = Reach(g)
  BY DEF h
<1>12. ASSUME NEW g \in 1 .. m, NEW j \in 1 .. Averages[g].count
       PROVE  Exactly[Reach(g - 1) + j] = FrameOf(g)
  <2>1. j \in 1 .. Len(parts[g])
    BY <1>6
  <2>2. Exactly[h[g - 1] + j] = parts[g][j]
    BY <1>10, <2>1 DEF FlattenedTo
  <2>3. parts[g][j] = FrameOf(g)
    BY <1>3, <1>5
  <2>4. h[g - 1] = Reach(g - 1)
    BY <1>1, <1>11
  <2> QED BY <2>2, <2>3, <2>4
<1>13. Len(Exactly) = Len(deltas)
  BY <1>1, <1>10, <1>11
<1> QED BY <1>10, <1>12, <1>13 DEF m

-----------------------------------------------------------------------------
(* How far off a rate may be *)

\* a common factor cancels
LEMMA CancelFactor ==
    ASSUME NEW n \in Nat \ {0}, NEW x \in Int, NEW y \in Int, n * x <= n * y
    PROVE  x <= y
<1> SUFFICES ASSUME x >= y + 1 PROVE FALSE
  OBVIOUS
<1> DEFINE p == n * x
           q == n * y
           r == n * (x - y)
           d == x - y
<1>1. p \in Int /\ q \in Int /\ r = p - q
  OBVIOUS
<1>2. d \in Nat \ {0}
  OBVIOUS
<1>3. r = n * d
  OBVIOUS
<1> HIDE DEF d
<1>4. n * d >= n
  BY <1>2
<1> HIDE DEF p, q, r
<1>5. p <= q
  BY DEF p, q
<1> QED BY <1>1, <1>3, <1>4, <1>5

\* a sum of N deltas that is D off, as convertToExactRanges tolerates it
Tolerated(D, N, num) == D <= num \/ 2048 * D <= N * num

\* N frames last a second longer or shorter at most, or one part in 2048
Tolerable(u, N) ==
    /\ u \in Int
    /\ 2048 * u <= 2048 * Second + Second * N
    /\ -(2048 * u) <= 2048 * Second + Second * N

\* how much longer N frames of P units last than they did, at the time scale T
LEMMA RateBound ==
    ASSUME NEW N \in Nat, NEW T \in Nat, NEW P \in Nat, NEW s \in Int,
           NEW num \in Nat \ {0}, NEW denom \in Nat, P * num = denom * Second,
           NEW D, D = Distance(s * num, (N * denom) * T),
           Tolerated(D, N, num),
           NEW u, u = N * (P * T) - s * Second
    PROVE  Tolerable(u, N)
<1> DEFINE a == (N * denom) * T
           b == s * num
           U == num * u
           M == N * num
<1>1. a \in Int /\ b \in Int /\ M \in Nat
  BY SMT
<1>2. U = Second * (a - b)
  <2> DEFINE x == N * (P * T)
             y == s * Second
             c == N * T
             z == P * num
             w == denom * Second
  <2>1. Second \in Nat
    BY SMT DEF Second
  <2>2. x \in Int /\ y \in Int /\ c \in Int /\ z \in Int /\ w \in Int
    BY <2>1, SMT
  <2>3. num * x = c * z
    BY SMT
  <2>4. c * w = Second * a
    BY <2>1, SMT
  <2>5. num * y = Second * b
    BY <2>1, SMT
  <2>6. num * (x - y) = num * x - num * y
    <3> HIDE DEF x, y
    <3> QED BY <2>2, SMT
  <2>7. Second * (a - b) = Second * a - Second * b
    <3> HIDE DEF a, b
    <3> QED BY <1>1, <2>1, SMT
  <2>8. z = w
    BY SMT
  <2>9. num * x = Second * a
    <3> HIDE DEF a, x, c, z, w
    <3> QED BY <2>3, <2>4, <2>8, SMT
  <2>10. num * (x - y) = Second * (a - b)
    <3> HIDE DEF a, b, x, y
    <3> QED BY <2>5, <2>6, <2>7, <2>9, SMT
  <2>11. u = x - y /\ u \in Int
    BY <2>2, SMT
  <2> HIDE DEF a, b, x, y
  <2> QED BY <1>1, <2>1, <2>2, <2>10, <2>11, SMT
<1>3. u \in Int
  <2>1. N * (P * T) \in Int /\ s * Second \in Int
    BY SMT DEF Second
  <2> QED BY <2>1, SMT
<1>4. U \in Int
  BY <1>3, SMT
<1>5. D = Distance(b, a)
  BY SMT
<1>6. D <= num \/ 2048 * D <= M
  BY SMT DEF Tolerated
<1> HIDE DEF a, b, M
<1>7. D \in Nat /\ D >= a - b /\ D >= b - a
  BY <1>1, <1>5, SMT DEF Distance
<1>8. U = 360000 * (a - b)
  BY <1>2, SMT DEF Second
<1> HIDE DEF U
<1>9. \/ U <= 360000 * num /\ -U <= 360000 * num
      \/ 2048 * U <= 360000 * M /\ -(2048 * U) <= 360000 * M
  BY <1>1, <1>6, <1>7, <1>8, SMT
<1>10. num * 360000 = 360000 * num /\ num * (-u) = -U
       /\ num * (2048 * u) = 2048 * U /\ num * (-(2048 * u)) = -(2048 * U)
       /\ num * (360000 * N) = 360000 * M
  BY <1>3, SMT DEF U, M
<1>11. CASE U <= 360000 * num /\ -U <= 360000 * num
  <2>1. num * u <= num * 360000 /\ num * (-u) <= num * 360000
    BY <1>10, <1>11, SMT DEF U
  <2>2. -u \in Int /\ 360000 \in Int
    BY <1>3, SMT
  <2>3. u <= 360000
    BY <1>3, <2>1, <2>2, CancelFactor, SMT
  <2>4. -u <= 360000
    BY <1>3, <2>1, <2>2, CancelFactor, SMT
  <2>5. Second = 360000
    BY SMT DEF Second
  <2> QED BY <1>3, <2>3, <2>4, <2>5, SMT DEF Tolerable
<1>12. CASE 2048 * U <= 360000 * M /\ -(2048 * U) <= 360000 * M
  <2> DEFINE v == 2048 * u
             w == 360000 * N
             v2 == -(2048 * u)
  <2>1. v \in Int /\ w \in Int /\ v2 \in Int /\ v2 = -v
    BY <1>3, SMT
  <2>2. num * v <= num * w /\ num * v2 <= num * w
    BY <1>10, <1>12, SMT
  <2> HIDE DEF v, w, v2
  <2>3. v <= w
    BY <2>1, <2>2, CancelFactor, SMT
  <2>4. v2 <= w
    BY <2>1, <2>2, CancelFactor, SMT
  <2>5. Second = 360000
    BY SMT DEF Second
  <2> QED BY <1>3, <2>1, <2>3, <2>4, <2>5, SMT DEF v, w, Tolerable
<1> QED BY <1>9, <1>11, <1>12, SMT

\* the first k of N deltas of sum s are E together, a quarter of N off at most
QuarterOff(E, N, k, s) ==
    4 * (E * N - k * s) <= N * N /\ 4 * (k * s - E * N) <= N * N

\* at most C in 2048 parts, either way
Bounded(u, C) == 2048 * u <= C /\ -(2048 * u) <= C

\* the same for a part of a group
PartlyBounded(w, N, C) ==
    /\ w \in Int
    /\ 8192 * w <= 4 * C + 2048 * (Second * N)
    /\ -(8192 * w) <= 4 * C + 2048 * (Second * N)

\* the same for the first k of the frames, E the sum of their deltas
LEMMA InsideBound ==
    ASSUME NEW N \in Nat \ {0}, NEW k \in 0 .. N, NEW E \in Int, NEW s \in Int,
           NEW q \in Int, NEW u, u = N * q - s * Second, NEW C \in Nat,
           Bounded(u, C), QuarterOff(E, N, k, s),
           NEW w, w = k * q - Second * E
    PROVE  PartlyBounded(w, N, C)
<1> DEFINE en == E * N
           ks == k * s
           kq == k * q
           nn == N * N
           nc == N * C
           ku == k * u
           nw == N * w
           nq == N * q
           b  == 4 * C + 2048 * (360000 * N)
           b2 == -w
<1>1. Second = 360000
  BY SMT DEF Second
<1>2. /\ en \in Int /\ ks \in Int /\ kq \in Int /\ nn \in Int /\ nc \in Int
      /\ nq \in Int
  BY SMT
<1>3. u = nq - 360000 * s /\ u \in Int
  BY <1>1, <1>2, SMT
<1>4. w = kq - 360000 * E /\ w \in Int
  BY <1>1, <1>2, SMT
<1>5. nw = N * kq - 360000 * en
  <2> DEFINE z == 360000 * E
  <2>1. N * z = 360000 * en /\ z \in Int
    BY SMT
  <2>2. \A x, y \in Int : N * (x - y) = N * x - N * y
    BY SMT
  <2>3. w = kq - z
    BY <1>4, SMT
  <2> HIDE DEF en, kq, z
  <2>4. N * (kq - z) = N * kq - N * z
    BY <1>2, <2>1, <2>2, SMT
  <2> QED BY <2>1, <2>3, <2>4, SMT
<1>6. ku = k * nq - 360000 * ks
  <2> DEFINE z == 360000 * s
  <2>1. k * z = 360000 * ks /\ z \in Int
    BY SMT
  <2>2. \A x, y \in Int : k * (x - y) = k * x - k * y
    BY SMT
  <2>3. u = nq - z
    BY <1>3, SMT
  <2> HIDE DEF ks, nq, z
  <2>4. k * (nq - z) = k * nq - k * z
    BY <1>2, <2>1, <2>2, SMT
  <2> QED BY <2>1, <2>3, <2>4, SMT
<1>7. N * kq = k * nq /\ N * kq \in Int
  BY SMT
<1>8. ku \in Int /\ nw \in Int
  BY <1>3, <1>4, SMT
<1>9. nw = ku + 360000 * (ks - en)
  <2> HIDE DEF nw, ku, ks, en, kq, nq
  <2> QED BY <1>2, <1>5, <1>6, <1>7, SMT
<1>10. 2048 * ku <= nc /\ -(2048 * ku) <= nc
  <2> DEFINE v == 2048 * u
             kv == k * v
             kc == k * C
             z  == k * (C - v)
             z2 == k * (C + v)
             z3 == (N - k) * C
  <2>1. v \in Int /\ kv = 2048 * ku /\ v <= C /\ -v <= C
    BY <1>3, SMT DEF Bounded
  <2> HIDE DEF v
  <2>2. kv \in Int /\ kc \in Int /\ z = kc - kv /\ z2 = kc + kv /\ z3 = nc - kc
    BY <2>1, SMT
  <2>3. z >= 0
    <3>1. C - v \in Nat
      BY <2>1, SMT
    <3> QED BY <3>1, SMT
  <2>4. z2 >= 0
    <3>1. C + v \in Nat
      BY <2>1, SMT
    <3> QED BY <3>1, SMT
  <2>5. z3 >= 0
    <3>1. N - k \in Nat
      BY SMT
    <3> QED BY <3>1, SMT
  <2> HIDE DEF kv, kc, z, z2, z3, ku, nc
  <2> QED BY <1>2, <1>8, <2>1, <2>2, <2>3, <2>4, <2>5, SMT
<1>11. 4 * (en - ks) <= nn /\ 4 * (ks - en) <= nn
  BY SMT DEF QuarterOff
<1>12. N * (8192 * w) = 8192 * nw /\ N * (8192 * b2) = -(8192 * nw)
       /\ N * b = 4 * nc + 2048 * (360000 * nn)
  BY <1>4, SMT
<1>13. /\ 8192 * nw <= 4 * nc + 2048 * (360000 * nn)
       /\ -(8192 * nw) <= 4 * nc + 2048 * (360000 * nn)
  <2> HIDE DEF nw, ku, ks, en, nc, nn
  <2> QED BY <1>2, <1>8, <1>9, <1>10, <1>11, SMT
<1> DEFINE x == 8192 * w
           y == 8192 * b2
<1>14. x \in Int /\ y \in Int /\ b \in Int /\ y = -x
  BY <1>4, SMT
<1>15. N * x <= N * b /\ N * y <= N * b
  <2> HIDE DEF nw, nc, nn, b, b2
  <2> QED BY <1>12, <1>13, SMT
<1>16. w \in Int
  BY <1>4, SMT
<1> HIDE DEF x, y, b
<1>17. x <= b
  BY <1>14, <1>15, CancelFactor, SMT
<1>18. y <= b
  BY <1>14, <1>15, CancelFactor, SMT
<1>19. b = 4 * C + 2048 * (Second * N)
  BY <1>1, SMT DEF b
<1> QED BY <1>14, <1>16, <1>17, <1>18, <1>19, SMT DEF x, PartlyBounded

-----------------------------------------------------------------------------
(* The drift of the exact ranges *)

\* how much longer a group lasts at its rate, at the time scale of the deltas
LEMMA GroupLonger ==
    ASSUME Grouped, done = Len(deltas), averages = Averages, AllWellKnown,
           timeScale \in Nat, NEW g \in 1 .. Cardinality(cuts),
           NEW N, N = Averages[g].count, NEW s, s = Averages[g].sum,
           NEW u, u = N * (FrameOf(g) * timeScale) - s * Second
    PROVE  Tolerable(u, N)
<1> DEFINE r == RateOf(g)
           num == r.num
           denom == r.denom
           P == FrameOf(g)
           D == Distance(s * num, (N * denom) * timeScale)
<1>1. g \in DOMAIN averages
  BY DEF Averages
<1>2. /\ num \in Nat \ {0} /\ denom \in Nat /\ P \in Nat
      /\ P * num = denom * Second
  BY <1>1, RateIs
<1>3. N \in Nat /\ s \in Int
  <2>1. N \in Nat
    BY GroupIs
  <2>2. s \in Int
    BY <1>1, AveragesTyped
  <2> QED BY <2>1, <2>2
<1>4. CloseTo(averages[g], r)
  BY <1>1, RateIs
<1>5. N = averages[g].count /\ s = averages[g].sum
  OBVIOUS
<1>6. Tolerated(D, N, num)
  <2> DEFINE a == averages[g]
             apart == Distance(a.sum * r.num, a.count * r.denom * timeScale)
  <2>1. \/ apart < r.num
        \/ apart = r.num
        \/ 2048 * apart < a.count * r.num
    <3> HIDE DEF a, r
    <3> QED BY <1>4 DEF CloseTo, a
  <2>2. apart \in Int /\ r.num \in Int /\ a.count * r.num \in Int
    <3>1. a.sum \in Int /\ a.count \in Int /\ r.num \in Int /\ r.denom \in Int
      BY <1>2, <1>3, <1>5
    <3> HIDE DEF a, r
    <3>2. a.sum * r.num \in Int /\ a.count * r.denom * timeScale \in Int
          /\ a.count * r.num \in Int
      BY <3>1
    <3> DEFINE x == a.sum * r.num
               y == a.count * r.denom * timeScale
    <3>3. x \in Int /\ y \in Int
      BY <3>2
    <3> HIDE DEF x, y
    <3>4. Distance(x, y) \in Int
      BY <3>3 DEF Distance
    <3> QED BY <3>1, <3>2, <3>4 DEF x, y
  <2> DEFINE m == a.count * r.num
             k == r.num
  <2>3. Tolerated(apart, a.count, r.num)
    <3> HIDE DEF apart, m, k
    <3>1. apart < k \/ apart = k \/ 2048 * apart < m
      BY <2>1 DEF m, k
    <3>2. apart \in Int /\ k \in Int /\ m \in Int
      BY <2>2 DEF m, k
    <3>3. apart <= k \/ 2048 * apart <= m
      BY <3>1, <3>2, SMT
    <3> QED BY <3>3 DEF Tolerated, m, k
  <2>4. D = apart
    BY <1>5
  <2> HIDE DEF apart, D, r
  <2> QED BY <1>5, <2>3, <2>4
<1>7. timeScale \in Nat /\ u = N * (P * timeScale) - s * Second
  OBVIOUS
<1>8. D = Distance(s * num, (N * denom) * timeScale)
  OBVIOUS
<1> HIDE DEF D, r, num, denom, P
<1> QED BY <1>2, <1>3, <1>6, <1>7, <1>8, RateBound, Zenon

\* how much later the frame after i others is displayed than it was
Drift(i) == Sums(Exactly)[i] * timeScale - Second * Sums(deltas)[i]

\* the drift a group adds is what its frames are longer by
LEMMA DriftMoves ==
    ASSUME Grouped, done = Len(deltas), averages = Averages, AllWellKnown,
           timeScale \in Nat, NEW g \in 1 .. Cardinality(cuts),
           NEW k \in 0 .. Averages[g].count,
           NEW R, R = Reach(g - 1), NEW E, E = Sums(deltas)[R + k] - Sums(deltas)[R]
    PROVE  /\ Drift(R) \in Int /\ Drift(R + k) \in Int /\ E \in Int
           /\ FrameOf(g) * timeScale \in Int
           /\ Drift(R + k)
                = Drift(R) + (k * (FrameOf(g) * timeScale) - Second * E)
<1> DEFINE N == Averages[g].count
           P == FrameOf(g)
           X == Sums(Exactly)
           H == Sums(deltas)
           T == timeScale
<1>1. N \in Nat /\ R \in 0 .. Len(deltas) /\ R + N \in 0 .. Len(deltas) /\ R \in Nat
  <2>1. /\ N \in Nat /\ N = Reach(g) - Reach(g - 1)
        /\ Reach(g - 1) \in 0 .. Len(deltas) /\ Reach(g) \in 0 .. Len(deltas)
    BY GroupIs
  <2> HIDE DEF N
  <2> QED BY <2>1
<1>2. /\ Exactly \in Seq(Int) /\ Len(Exactly) = Len(deltas)
      /\ \A j \in 1 .. N : Exactly[R + j] = P
  BY ExactFrames
<1>3. deltas \in Seq(Int) /\ Len(deltas) \in Nat
  BY DEF Grouped
<1>4. SumsOf(X, Exactly) /\ SumsOf(H, deltas)
  BY <1>2, <1>3, SumsAre
<1>5. P \in Int
  <2>1. g \in DOMAIN averages
    BY DEF Averages
  <2> QED BY <2>1, RateIs
<1>6. k \in 0 .. N
  OBVIOUS
<1> HIDE DEF N, P, X, H
<1>7. R + k \in R .. R + N /\ R + k \in 0 .. Len(deltas) /\ (R + k) - R = k
  BY <1>1, <1>6
<1>8. \A j \in R + 1 .. R + N : Exactly[j] = P
  <2> SUFFICES ASSUME NEW j \in R + 1 .. R + N PROVE Exactly[j] = P
    OBVIOUS
  <2>1. j - R \in 1 .. N /\ R + (j - R) = j
    BY <1>1
  <2> QED BY <1>2, <2>1
<1>9. X[R + k] = X[R] + k * P
  <2>1. R \in 0 .. Len(Exactly) /\ R + N \in R .. Len(Exactly)
    BY <1>1, <1>2, <1>3
  <2>2. AllAre(Exactly, R, R + N, P)
    BY <1>8 DEF AllAre
  <2>3. Evenly(X, R, R + N, P)
    BY <1>2, <1>4, <1>5, <2>1, <2>2, EqualSteps
  <2> QED BY <1>7, <2>3 DEF Evenly
<1>10. X[R] \in Int /\ X[R + k] \in Int
  BY <1>1, <1>2, <1>4, <1>7, SumUnique
<1>11. H[R] \in Int /\ H[R + k] \in Int
  BY <1>1, <1>3, <1>4, <1>7, SumUnique
<1>12. E = H[R + k] - H[R]
  BY DEF H
<1>13. Second \in Nat /\ T \in Nat /\ k \in Int
  BY <1>1, <1>6, SMT DEF Second
<1>14. Drift(R) = X[R] * T - Second * H[R]
       /\ Drift(R + k) = X[R + k] * T - Second * H[R + k]
  BY DEF Drift, X, H
<1> DEFINE a == X[R]
           b == H[R]
           c == H[R + k]
           q == P * T
           kp == k * P
<1>15. a \in Int /\ b \in Int /\ c \in Int /\ E = c - b /\ X[R + k] = a + kp
       /\ q \in Int /\ kp \in Int
  BY <1>5, <1>9, <1>10, <1>11, <1>12, <1>13
<1>16. Drift(R) = a * T - Second * b /\ Drift(R + k) = (a + kp) * T - Second * c
  BY <1>14, <1>15
<1>17. kp * T = k * q
  BY <1>5, <1>13
<1> HIDE DEF a, b, c, q, kp, T
<1>18. (a + kp) * T = a * T + k * q /\ a * T \in Int /\ k * q \in Int
  <2>1. (a + kp) * T = a * T + kp * T
    BY <1>13, <1>15
  <2> QED BY <1>13, <1>15, <1>17, <2>1
<1>19. Second * E = Second * c - Second * b /\ Second * c \in Int /\ Second * b \in Int
  <2>1. Second \in Int
    BY <1>13
  <2>2. /\ Second * c \in Int /\ Second * b \in Int
        /\ Second * (c - b) = Second * c - Second * b
    BY <1>15, <2>1, Distribute, Zenon
  <2> QED BY <1>15, <2>2, Zenon
<1> DEFINE at == a * T
           kq == k * q
           sb == Second * b
           sc == Second * c
           se == Second * E
<1>20. /\ at \in Int /\ kq \in Int /\ sb \in Int /\ sc \in Int /\ se = sc - sb
       /\ Drift(R) = at - sb /\ Drift(R + k) = (at + kq) - sc
  BY <1>16, <1>18, <1>19
<1> HIDE DEF at, kq, sb, sc, se
<1>21. /\ Drift(R) \in Int /\ Drift(R + k) \in Int
       /\ Drift(R + k) = Drift(R) + (kq - se)
  BY <1>20
<1>22. E \in Int
  BY <1>15
<1> QED BY <1>15, <1>21, <1>22 DEF kq, se, q, T, P

\* at the end of the g-th group
SmallDrift(g) ==
    /\ Drift(Reach(g)) \in Int
    /\ 2048 * Drift(Reach(g)) <= 2048 * (Second * g) + Second * Reach(g)
    /\ -(2048 * Drift(Reach(g))) <= 2048 * (Second * g) + Second * Reach(g)

\* the drift after one group more
LEMMA DriftGrows ==
    ASSUME NEW d \in Int, NEW u, NEW N \in Nat, Tolerable(u, N), NEW g \in Nat,
           NEW R \in Nat,
           2048 * d <= 2048 * (Second * g) + Second * R,
           -(2048 * d) <= 2048 * (Second * g) + Second * R
    PROVE  /\ d + u \in Int
           /\ 2048 * (d + u) <= 2048 * (Second * (g + 1)) + Second * (R + N)
           /\ -(2048 * (d + u)) <= 2048 * (Second * (g + 1)) + Second * (R + N)
BY SMT DEF Tolerable, Second

\* the drift at the ends of groups, group by group
LEMMA DriftAtEnds ==
    ASSUME Grouped, done = Len(deltas), averages = Averages, AllWellKnown,
           timeScale \in Nat
    PROVE  \A g \in 0 .. Cardinality(cuts) : SmallDrift(g)
<1> DEFINE m == Cardinality(cuts)
           S == {g \in 0 .. m : SmallDrift(g)}
<1>1. m \in Nat
  BY SizesAre
<1>2. 0 \in S
  <2>1. Reach(0) = 0
    BY DEF Reach
  <2>2. Exactly \in Seq(Int) /\ deltas \in Seq(Int)
    BY ExactFrames DEF Grouped
  <2>3. SumsOf(Sums(Exactly), Exactly) /\ SumsOf(Sums(deltas), deltas)
    BY <2>2, SumsAre
  <2>4. Sums(Exactly)[0] = 0 /\ Sums(deltas)[0] = 0
    BY <2>3 DEF SumsOf
  <2>5. Drift(0) = 0
    BY <2>4, SMT DEF Drift, Second
  <2>6. SmallDrift(0)
    BY <2>1, <2>5, SMT DEF SmallDrift, Second
  <2> QED BY <1>1, <2>6
<1>3. ASSUME NEW g \in 0 .. m - 1, g \in S PROVE g + 1 \in S
  <2> DEFINE N == Averages[g + 1].count
             s == Averages[g + 1].sum
             R == Reach(g)
             P == FrameOf(g + 1)
             E == Sums(deltas)[R + N] - Sums(deltas)[R]
             u == N * (P * timeScale) - s * Second
  <2>1. g + 1 \in 1 .. m /\ (g + 1) - 1 = g /\ g \in Nat /\ g + 1 \in 0 .. m
    BY <1>1
  <2>2. /\ R \in Nat /\ N \in Nat /\ R + N = Reach(g + 1) /\ s = E
        /\ s \in Int /\ N \in 0 .. N
    <3>1. /\ Reach(g) \in 0 .. Len(deltas) /\ Reach(g + 1) \in 0 .. Len(deltas)
          /\ N \in Nat \ {0} /\ N = Reach(g + 1) - Reach(g)
          /\ s = Sums(deltas)[Reach(g + 1)] - Sums(deltas)[Reach(g)]
      BY <2>1, GroupIs
    <3> HIDE DEF N, s
    <3>2. R \in Nat /\ N \in Nat /\ R + N = Reach(g + 1) /\ N \in 0 .. N
      BY <3>1
    <3>3. s = E
      BY <3>1, <3>2
    <3>4. s \in Int
      <4>1. SumsOf(Sums(deltas), deltas) /\ deltas \in Seq(Int)
        BY SumsAre DEF Grouped
      <4>2. Sums(deltas)[Reach(g + 1)] \in Int /\ Sums(deltas)[Reach(g)] \in Int
        BY <3>1, <4>1, SumUnique
      <4> QED BY <3>1, <4>2
    <3> QED BY <3>2, <3>3, <3>4
  <2>3. Tolerable(u, N)
    <3>1. u = N * (FrameOf(g + 1) * timeScale) - s * Second
      OBVIOUS
    <3> HIDE DEF u
    <3> QED BY <2>1, <3>1, GroupLonger, Zenon
  <2>4. /\ Drift(R) \in Int /\ P * timeScale \in Int
        /\ Drift(R + N) = Drift(R) + (N * (P * timeScale) - Second * E)
    <3>1. R = Reach((g + 1) - 1)
      BY <2>1
    <3>2. N \in 0 .. Averages[g + 1].count
      BY <2>2
    <3>3. E = Sums(deltas)[R + N] - Sums(deltas)[R]
      OBVIOUS
    <3> HIDE DEF R, N, E
    <3> QED BY <2>1, <3>1, <3>2, <3>3, DriftMoves, Zenon DEF P
  <2>5. Drift(R + N) = Drift(R) + u
    <3> DEFINE q == P * timeScale
    <3>1. q \in Int /\ Drift(R + N) = Drift(R) + (N * q - Second * s) /\ N \in Int
      BY <2>2, <2>4
    <3>2. u = N * q - s * Second
      OBVIOUS
    <3> HIDE DEF q, s, u, N, E
    <3>3. Second * s = s * Second
      BY <2>2, SMT DEF Second
    <3> QED BY <3>1, <3>2, <3>3
  <2>6. /\ 2048 * Drift(R) <= 2048 * (Second * g) + Second * R
        /\ -(2048 * Drift(R)) <= 2048 * (Second * g) + Second * R
    <3>1. SmallDrift(g)
      BY <1>3
    <3> QED BY <3>1 DEF SmallDrift
  <2> DEFINE d == Drift(R)
  <2> HIDE DEF u, N
  <2>7. /\ d + u \in Int
        /\ 2048 * (d + u) <= 2048 * (Second * (g + 1)) + Second * (R + N)
        /\ -(2048 * (d + u)) <= 2048 * (Second * (g + 1)) + Second * (R + N)
    <3>1. /\ d \in Int /\ 2048 * d <= 2048 * (Second * g) + Second * R
          /\ -(2048 * d) <= 2048 * (Second * g) + Second * R
      BY <2>4, <2>6
    <3>2. R \in Nat /\ N \in Nat /\ g \in Nat
      BY <2>1, <2>2
    <3> HIDE DEF d, R
    <3> QED BY <2>3, <3>1, <3>2, DriftGrows
  <2>8. Drift(Reach(g + 1)) = d + u /\ Reach(g + 1) = R + N
    BY <2>2, <2>5
  <2> HIDE DEF d, R
  <2>9. SmallDrift(g + 1)
    BY <2>7, <2>8 DEF SmallDrift
  <2> QED BY <2>1, <2>9
<1>4. 0 .. m \subseteq S
  <2>1. 0 \in Int /\ m \in Int
    BY <1>1
  <2> HIDE DEF S, m
  <2> QED BY <1>2, <1>3, <2>1, IntervalInduction
<1> QED BY <1>4

\* inside the g-th group
DriftWithin(x, g) ==
    /\ x \in Int
    /\ 2048 * x <= 2048 * (Second * g) + Second * Reach(g)
                     + 512 * (Second * Averages[g].count)
    /\ -(2048 * x) <= 2048 * (Second * g) + Second * Reach(g)
                     + 512 * (Second * Averages[g].count)

\* the drift of every frame
LEMMA DriftInside ==
    ASSUME Grouped, done = Len(deltas), averages = Averages, AllWellKnown,
           timeScale \in Nat, NEW i \in 1 .. Len(deltas)
    PROVE  \E g \in 1 .. Cardinality(cuts) : DriftWithin(Drift(i), g)
<1>1. PICK g \in 1 .. Cardinality(cuts) : i - Reach(g - 1) \in 1 .. Averages[g].count
  BY GroupOf
<1> DEFINE N == Averages[g].count
           s == Averages[g].sum
           R == Reach(g - 1)
           k == i - R
           P == FrameOf(g)
           q == P * timeScale
           E == Sums(deltas)[R + k] - Sums(deltas)[R]
           u == N * q - s * Second
           w == k * q - Second * E
           C == 2048 * Second + Second * N
<1>2. Cardinality(cuts) \in Nat /\ g - 1 \in 0 .. Cardinality(cuts)
  BY SizesAre
<1>3. SmallDrift(g - 1)
  BY <1>2, DriftAtEnds
<1>4. /\ N \in Nat \ {0} /\ R \in Nat /\ R + N = Reach(g)
  <2>1. /\ Reach(g - 1) \in 0 .. Len(deltas) /\ Reach(g) \in 0 .. Len(deltas)
        /\ N \in Nat \ {0} /\ N = Reach(g) - Reach(g - 1)
    BY GroupIs
  <2> HIDE DEF N
  <2> QED BY <2>1
<1>5. k \in 0 .. N /\ R + k = i
  <2>1. k \in 1 .. N
    BY <1>1
  <2> HIDE DEF N
  <2> QED BY <1>4, <2>1
<1>6. /\ Drift(R) \in Int /\ E \in Int /\ q \in Int
      /\ Drift(R + k) = Drift(R) + (k * q - Second * E)
  <2>1. R = Reach(g - 1) /\ k \in 0 .. Averages[g].count
        /\ E = Sums(deltas)[R + k] - Sums(deltas)[R]
    BY <1>5
  <2> HIDE DEF R, k, E
  <2> QED BY <2>1, DriftMoves, Zenon DEF q, P
<1>7. Tolerable(u, N)
  <2>1. u = N * (FrameOf(g) * timeScale) - s * Second
    OBVIOUS
  <2> HIDE DEF u
  <2> QED BY <2>1, GroupLonger, Zenon
<1>8. s \in Int /\ QuarterOff(E, N, k, s)
  <2>1. N = Averages[g].count /\ s = Averages[g].sum /\ k \in 0 .. N
        /\ E = Sums(deltas)[Reach(g - 1) + k] - Sums(deltas)[Reach(g - 1)]
    BY <1>5
  <2> HIDE DEF N, s, k, E
  <2> QED BY <2>1, GroupQuarter, Zenon DEF QuarterOff
<1>9. C \in Nat /\ Bounded(u, C)
  <2>1. C \in Nat
    BY <1>4, SMT DEF Second
  <2> HIDE DEF N, u
  <2> QED BY <1>7, <2>1, SMT DEF Tolerable, Bounded
<1>10. PartlyBounded(w, N, C)
  <2>1. u = N * q - s * Second /\ w = k * q - Second * E
    OBVIOUS
  <2> HIDE DEF N, s, k, E, q, u, w, C
  <2> QED BY <1>4, <1>5, <1>6, <1>8, <1>9, <2>1, InsideBound
<1>11. /\ 2048 * Drift(R) <= 2048 * (Second * (g - 1)) + Second * R
       /\ -(2048 * Drift(R)) <= 2048 * (Second * (g - 1)) + Second * R
  <2> HIDE DEF R
  <2> QED BY <1>3, SMT DEF SmallDrift, R
<1> DEFINE d == Drift(R)
           f == g - 1
<1>12. Drift(i) = d + w
  <2>1. d = Drift(R) /\ w = k * q - Second * E
    OBVIOUS
  <2> HIDE DEF R, k, q, E, d, w
  <2> QED BY <1>5, <1>6, <2>1
<1>13. d \in Int /\ f \in Nat /\ f + 1 = g
       /\ 2048 * d <= 2048 * (Second * f) + Second * R
       /\ -(2048 * d) <= 2048 * (Second * f) + Second * R
  BY <1>2, <1>6, <1>11
<1>14. C = 2048 * Second + Second * N
  OBVIOUS
<1> HIDE DEF N, s, R, k, P, q, E, u, w, C, d, f
<1>15. /\ d + w \in Int
       /\ 2048 * (d + w)
            <= 2048 * (Second * (f + 1)) + Second * (R + N) + 512 * (Second * N)
       /\ -(2048 * (d + w))
            <= 2048 * (Second * (f + 1)) + Second * (R + N) + 512 * (Second * N)
  <2>1. /\ w \in Int
        /\ 8192 * w <= 4 * C + 2048 * (Second * N)
        /\ -(8192 * w) <= 4 * C + 2048 * (Second * N)
    BY <1>10, SMT DEF PartlyBounded
  <2> QED BY <1>4, <1>13, <1>14, <2>1, SMT DEF Second
<1>16. DriftWithin(Drift(i), g)
  <2>1. f + 1 = g /\ R + N = Reach(g) /\ Drift(i) = d + w
    BY <1>4, <1>12, <1>13
  <2>2. N = Averages[g].count
    BY DEF N
  <2> QED BY <1>15, <2>1, <2>2 DEF DriftWithin
<1> QED BY <1>16

-----------------------------------------------------------------------------
(* Averaged codes stay in sync *)

\* rounding moves a frame by one tick at most
Near ==
    Len(deltas) = FrameCount =>
        \A i \in 0 .. FrameCount :
            /\ Before[i + 1] - Before[1] \in Int
            /\ Distance(Fraction * Sums(deltas)[i], Before[i + 1] - Before[1])
                  <= Fraction

Largest == Max({averages[g].count : g \in DOMAIN averages})

\* the largest group is a group, and none is larger
LEMMA LargestIs ==
    ASSUME Grouped, done = Len(deltas), averages = Averages, averages # <<>>
    PROVE  /\ Largest \in Nat \ {0}
           /\ \A g \in 1 .. Cardinality(cuts) : averages[g].count <= Largest
           /\ Cardinality(cuts) \in Nat /\ Len(averages) = Cardinality(cuts)
           /\ DOMAIN averages = 1 .. Cardinality(cuts)
<1> DEFINE m == Cardinality(cuts)
           n == Len(deltas)
           S == {averages[g].count : g \in DOMAIN averages}
<1>1. m \in Nat
  BY SizesAre
<1>2. DOMAIN averages = 1 .. m
  BY DEF Averages
<1>3. \A g \in 1 .. m : averages[g].count \in Nat \ {0} /\ averages[g].count <= n
  <2> SUFFICES ASSUME NEW g \in 1 .. m
               PROVE  averages[g].count \in Nat \ {0} /\ averages[g].count <= n
    OBVIOUS
  <2> DEFINE N == Averages[g].count
  <2>1. /\ Reach(g - 1) \in 0 .. Len(deltas) /\ Reach(g) \in 0 .. Len(deltas)
        /\ N \in Nat \ {0} /\ N = Reach(g) - Reach(g - 1)
    BY GroupIs
  <2> HIDE DEF N
  <2>2. N \in Nat \ {0} /\ N <= n
    BY <2>1
  <2> QED BY <2>2 DEF N
<1>4. m # 0
  <2> SUFFICES ASSUME m = 0 PROVE FALSE
    OBVIOUS
  <2>1. 1 .. m = {}
    BY <1>1
  <2>2. Averages = [g \in 1 .. m |-> GroupFrom(NthStart(g))]
    BY DEF Averages
  <2> HIDE DEF m
  <2>3. Averages = <<>>
    BY <2>1, <2>2
  <2> QED BY <2>3
<1>5. 1 \in 1 .. m
  BY <1>1, <1>4
<1>6. S \in SUBSET Int /\ S # {} /\ \A x \in S : x <= n /\ x \in Nat \ {0}
  <2> HIDE DEF m, n
  <2> QED BY <1>2, <1>3, <1>5
<1>7. n \in Int
  BY DEF Grouped
<1>8. \A g \in 1 .. m : averages[g].count \in S
  BY <1>2
<1> HIDE DEF S, m, n
<1>9. Max(S) \in S /\ \A x \in S : x <= Max(S)
  BY <1>6, <1>7, MaxInside
<1>10. Largest = Max(S)
  BY DEF Largest, S
<1>11. Len(averages) = m
  BY <1>1, <1>2
<1> QED BY <1>1, <1>2, <1>6, <1>8, <1>9, <1>10, <1>11 DEF m

\* a quarter of a group is a quarter of the largest at most
LEMMA CloseAverage ==
    ASSUME NEW F \in Nat, NEW x \in Int, NEW y \in Int, NEW b \in Int,
           NEW N \in Nat, NEW L \in Nat, N <= L,
           4 * Distance(x, y) <= F * N, Distance(y, b) <= F
    PROVE  4 * Distance(x, b) <= (L + 4) * F
<1> DEFINE fn == F * N
           fl == F * L
           d  == F * (L - N)
           t  == (L + 4) * F
<1>1. fn \in Int /\ fl \in Int /\ d = fl - fn /\ t = fl + 4 * F
  OBVIOUS
<1>2. d >= 0
  <2>1. L - N \in Nat
    OBVIOUS
  <2> QED BY <2>1
<1>3. 4 * Distance(x, y) <= fn
  OBVIOUS
<1> HIDE DEF fn, fl, d, t
<1>4. 4 * Distance(x, b) <= t
  BY <1>1, <1>2, <1>3 DEF Distance
<1> QED BY <1>4 DEF t

\* the bound for codes that have been averaged
LEMMA CodesInSync ==
    ASSUME Grouped, done = Len(deltas), Len(deltas) = FrameCount,
           averages = Averages, averages # <<>>, ExactAverages, Near,
           NEW i \in 0 .. FrameCount
    PROVE  4 * Distance(AveragedCode(i), Before[i + 1] - Before[1])
              <= (Largest + 4) * Fraction
<1> DEFINE b == Before[i + 1] - Before[1]
           s == Sums(deltas)[i]
           y == Fraction * s
           x == AveragedCode(i)
<1>1. Fraction \in Nat
  BY FractionAssumption
<1>2. b \in Int /\ Distance(y, b) <= Fraction
  BY DEF Near
<1>3. SumsOf(Sums(deltas), deltas) /\ deltas \in Seq(Int) /\ i \in 0 .. Len(deltas)
  BY SumsAre DEF Grouped
<1>4. s \in Int /\ Sums(deltas)[0] = 0
  BY <1>3, SumUnique DEF SumsOf
<1>5. x \in Int
  BY <1>3, AveragedTyped
<1>6. y \in Int
  <2> HIDE DEF s
  <2> QED BY <1>1, <1>4
<1>7. Largest \in Nat /\ \A g \in DOMAIN averages : averages[g].count <= Largest
  BY LargestIs
<1> HIDE DEF b
<1>8. \E N \in Nat : N <= Largest /\ 4 * Distance(x, y) <= Fraction * N
  <2>1. CASE i = 0
    <3>1. x = 0
      BY <2>1 DEF AveragedCode
    <3>2. y = 0
      <4>1. s = 0
        BY <1>4, <2>1
      <4> HIDE DEF s
      <4> QED BY <1>1, <4>1
    <3> HIDE DEF x, y
    <3>3. 0 \in Nat /\ 0 <= Largest /\ 4 * Distance(x, y) <= Fraction * 0
      BY <1>1, <1>7, <3>1, <3>2 DEF Distance
    <3> QED BY <3>3
  <2>2. CASE i # 0
    <3>1. i \in 1 .. Len(deltas)
      BY <1>3, <2>2
    <3>2. PICK g \in DOMAIN averages :
             4 * Distance(x, y) <= Fraction * averages[g].count
      BY <3>1, AveragedNear
    <3>3. averages[g].count \in Nat
      <4>1. g \in 1 .. Cardinality(cuts)
        BY LargestIs
      <4> QED BY <4>1, GroupIs
    <3> QED BY <1>7, <3>2, <3>3
  <2> QED BY <2>1, <2>2
<1>9. PICK N \in Nat : N <= Largest /\ 4 * Distance(x, y) <= Fraction * N
  BY <1>8
<1> HIDE DEF x, y
<1>10. 4 * Distance(x, b) <= (Largest + 4) * Fraction
  BY <1>1, <1>2, <1>5, <1>6, <1>7, <1>9, CloseAverage
<1> QED BY <1>10 DEF x, b

-----------------------------------------------------------------------------
(* Exact ranges stay in sync *)

\* a second is a whole number of ticks
LEMMA TickScaled ==
    ASSUME Second % Fraction = 0, NEW h \in Int, NEW b \in Int,
           Distance(Fraction * h, b) <= Fraction
    PROVE  /\ b * (Second \div Fraction) \in Int
           /\ Second * h - b * (Second \div Fraction) <= Second
           /\ b * (Second \div Fraction) - Second * h <= Second
<1> DEFINE F == Fraction
           r == Second \div F
           fh == F * h
           x == fh - b
           br == b * r
<1>1. F \in Nat \ {0} /\ Second \in Nat
  BY FractionAssumption, SMT DEF Second
<1>2. r \in Nat /\ F * r = Second
  <2>1. \A a \in Nat : \A c \in Nat \ {0} :
           a % c = 0 => (a \div c) \in Nat /\ c * (a \div c) = a
    OBVIOUS
  <2> QED BY <1>1, <2>1
<1>3. fh \in Int
  BY <1>1
<1> HIDE DEF F, r
<1>4. br \in Int
  BY <1>2
<1>5. x <= F /\ -x <= F /\ x \in Int
  <2>1. Distance(fh, b) <= F
    BY DEF F
  <2> HIDE DEF fh
  <2> QED BY <1>1, <1>3, <2>1 DEF Distance
<1>6. r * x = Second * h - br /\ r * x \in Int
  <2>1. r * fh = Second * h
    <3>1. r * fh = (F * r) * h
      BY <1>1, <1>2
    <3> QED BY <1>2, <3>1
  <2>2. r * (fh - b) = r * fh - r * b
    <3> HIDE DEF fh
    <3> QED BY <1>2, <1>3
  <2>3. r * b = br
    BY <1>2
  <2>4. r * x \in Int
    <3> HIDE DEF x
    <3> QED BY <1>2, <1>5
  <2> HIDE DEF fh, br
  <2> QED BY <2>1, <2>2, <2>3, <2>4
<1>7. r * x <= Second /\ -(r * x) <= Second
  <2> DEFINE y == F - x
             z == F + x
             rx == r * x
             rf == F * r
  <2>1. y \in Nat /\ z \in Nat
    <3> HIDE DEF x
    <3> QED BY <1>1, <1>5
  <2>2. r * y >= 0 /\ r * z >= 0
    <3> HIDE DEF y, z
    <3> QED BY <1>2, <2>1
  <2> HIDE DEF x
  <2>3. r * y = rf - rx /\ r * z = rf + rx /\ rx \in Int /\ rf \in Int
    BY <1>1, <1>2, <1>5
  <2>4. rf = Second
    BY <1>2
  <2> HIDE DEF rx, rf, y, z
  <2>5. rx <= Second /\ -rx <= Second
    BY <1>1, <2>2, <2>3, <2>4
  <2> QED BY <2>5 DEF rx
<1> DEFINE rx == r * x
           sh == Second * h
<1>8. sh \in Int
  BY <1>1
<1> HIDE DEF x, rx, br, sh
<1>9. sh - br <= Second /\ br - sh <= Second
  BY <1>1, <1>4, <1>6, <1>7, <1>8 DEF rx, sh
<1> QED BY <1>4, <1>9 DEF br, sh, r, F

\* a frame of the g-th group, which ends after R deltas and has N of them
SmallBy(x, g, R, N) ==
    /\ 2048 * x <= 2048 * (Second * g) + Second * R + 512 * (Second * N)
    /\ -(2048 * x) <= 2048 * (Second * g) + Second * R + 512 * (Second * N)

\* of F frames in M groups, of which the largest has L
RangeClose(t, b, L, M, F) ==
    Distance(t, b) <= (L + 4 + 4 * M) * (Second \div 4) + (F * Second) \div 2048

\* the drift of a frame is within the bound of exact ranges
LEMMA CloseRange ==
    ASSUME NEW x \in Int, NEW t \in Int, NEW b \in Int, NEW s \in Int,
           NEW g \in Nat, NEW M \in Nat, g <= M, NEW R \in Nat, NEW F \in Nat, R <= F,
           NEW N \in Nat, NEW L \in Nat, N <= L, x = t - s,
           SmallBy(x, g, R, N), s - b <= Second, b - s <= Second
    PROVE  RangeClose(t, b, L, M, F)
<1> DEFINE q == (F * Second) \div 2048
           d == Distance(t, b)
<1>1. /\ d \in Int /\ q \in Int /\ F * Second < 2048 * q + 2048
  BY SMT DEF Distance, Second
<1>2. d = t - b \/ d = b - t
  BY SMT DEF Distance
<1> HIDE DEF q, d
<1>3. 2048 * d <= 2048 * ((L + 4 + 4 * M) * 90000) + F * Second
  BY <1>1, <1>2, SMT DEF Second, SmallBy
<1>4. d <= (L + 4 + 4 * M) * 90000 + q
  BY <1>1, <1>3, SMT DEF Second
<1>5. Second \div 4 = 90000
  BY SMT DEF Second
<1>6. d <= (L + 4 + 4 * M) * (Second \div 4) + q
  BY <1>4, <1>5, SMT
<1> QED BY <1>6, SMT DEF d, q, RangeClose

\* what ExactTime adds up, with the exact ranges
LEMMA ExactTimeIs ==
    ASSUME Grouped, done = Len(deltas), averages = Averages, AllWellKnown,
           given.ranges = ExactRanges, NEW i \in 0 .. Len(deltas)
    PROVE  ExactTime(i) = Sums(Exactly)[i] /\ Sums(Exactly)[i] \in Int
<1> DEFINE X == Exactly
           h == Sums(X)
<1>1. X \in Seq(Int) /\ Len(X) = Len(deltas)
  BY ExactFrames
<1>2. ExactTime(i) = SumOf(SubSeq(X, 1, i))
  BY Zenon DEF ExactTime, Exactly, SumOf
<1> HIDE DEF X
<1>3. SumsOf(h, X)
  BY <1>1, SumsAre
<1>4. 1 \in 1 .. Len(X) + 1 /\ i \in 1 - 1 .. Len(X) /\ 1 - 1 = 0
  BY <1>1
<1> HIDE DEF h
<1>5. SumOf(SubSeq(X, 1, i)) = h[i] - h[1 - 1]
  BY <1>1, <1>3, <1>4, SumOfPart
<1>6. h[0] = 0 /\ h[i] \in Int
  BY <1>1, <1>3, <1>4, SumUnique DEF SumsOf
<1>7. ExactTime(i) = h[i]
  BY <1>2, <1>4, <1>5, <1>6
<1> QED BY <1>6, <1>7 DEF h, X

\* the bound for exact ranges
LEMMA RangesInSync ==
    ASSUME Second % Fraction = 0,
           Grouped, done = Len(deltas), Len(deltas) = FrameCount,
           averages = Averages, averages # <<>>, Near, AllWellKnown,
           timeScale \in Nat, given.ranges = ExactRanges,
           NEW i \in 0 .. FrameCount
    PROVE  Distance(ExactTime(i) * timeScale,
                    (Before[i + 1] - Before[1]) * (Second \div Fraction))
              <= (Largest + 4 + 4 * Len(averages)) * (Second \div 4)
                 + (FrameCount * Second) \div 2048
<1> DEFINE b == Before[i + 1] - Before[1]
           h == Sums(deltas)[i]
           t == ExactTime(i) * timeScale
           s == Second * h
           c == b * (Second \div Fraction)
           x == Drift(i)
<1>1. b \in Int /\ Distance(Fraction * h, b) <= Fraction
  BY DEF Near
<1>2. i \in 0 .. Len(deltas) /\ deltas \in Seq(Int) /\ Len(deltas) \in Nat
  BY DEF Grouped
<1>3. ExactTime(i) = Sums(Exactly)[i] /\ Sums(Exactly)[i] \in Int
  BY <1>2, ExactTimeIs
<1>4. SumsOf(Sums(deltas), deltas)
  BY <1>2, SumsAre
<1>5. h \in Int
  BY <1>2, <1>4, SumUnique
<1>6. Second \in Nat
  BY SMT DEF Second
<1>7. x = t - s
  BY <1>3, Zenon DEF Drift
<1>8. t \in Int /\ s \in Int
  <2>1. t \in Int
    BY <1>3
  <2> HIDE DEF h
  <2>2. s \in Int
    BY <1>5, <1>6
  <2> QED BY <2>1, <2>2
<1>9. /\ c \in Int /\ s - c <= Second /\ c - s <= Second
  <2> HIDE DEF b, h
  <2> QED BY <1>1, <1>5, TickScaled
<1>10. /\ Largest \in Nat
       /\ \A g \in 1 .. Cardinality(cuts) : averages[g].count <= Largest
       /\ Cardinality(cuts) \in Nat /\ Len(averages) = Cardinality(cuts)
  BY LargestIs
<1>11. \E g \in Nat, R \in Nat, N \in Nat :
          /\ g <= Len(averages) /\ R <= Len(deltas) /\ N <= Largest /\ SmallBy(x, g, R, N)
  <2>1. CASE i = 0
    <3>1. SmallDrift(0)
      BY <1>10, DriftAtEnds
    <3>2. Reach(0) = 0
      BY DEF Reach
    <3>3. x = Drift(0)
      BY <2>1
    <3> HIDE DEF x
    <3>4. SmallBy(x, 0, 0, 0)
      BY <3>1, <3>2, <3>3, SMT DEF SmallDrift, SmallBy, Second
    <3> QED BY <1>2, <1>10, <3>4
  <2>2. CASE i # 0
    <3>1. i \in 1 .. Len(deltas)
      BY <1>2, <2>2
    <3>2. PICK g \in 1 .. Cardinality(cuts) : DriftWithin(x, g)
      BY <3>1, DriftInside
    <3>3. /\ Reach(g) \in 0 .. Len(deltas) /\ Averages[g].count \in Nat
      BY GroupIs
    <3>4. averages[g].count <= Largest /\ averages[g].count = Averages[g].count
      BY <1>10
    <3> HIDE DEF x
    <3>5. SmallBy(x, g, Reach(g), Averages[g].count)
      BY <3>2, SMT DEF DriftWithin, SmallBy
    <3>6. g \in Nat /\ g <= Len(averages) /\ Reach(g) \in Nat /\ Reach(g) <= Len(deltas)
      BY <1>10, <3>3
    <3>7. Averages[g].count <= Largest
      BY <3>4
    <3> QED BY <3>3, <3>5, <3>6, <3>7
  <2> QED BY <2>1, <2>2
<1>12. PICK g \in Nat, R \in Nat, N \in Nat :
          /\ g <= Len(averages) /\ R <= Len(deltas) /\ N <= Largest /\ SmallBy(x, g, R, N)
  BY <1>11
<1>13. FrameCount \in Nat /\ R <= FrameCount /\ Len(averages) \in Nat
  BY <1>2, <1>10, <1>12
<1>14. x \in Int
  BY <1>7, <1>8
<1> HIDE DEF b, h, t, s, c, x
<1>15. RangeClose(t, c, Largest, Len(averages), FrameCount)
  BY <1>7, <1>8, <1>9, <1>10, <1>12, <1>13, <1>14, CloseRange
<1> QED BY <1>15, Zenon DEF RangeClose, t, c, b

-----------------------------------------------------------------------------
(* From the codes of the movie to those given to the editor *)

\* the codes that are averaged are as far apart as they were in the beginning
Placed ==
    Len(timecodes) = Wanted =>
        \A i \in 0 .. FrameCount :
            timecodes[i + 1] - timecodes[1] = Before[i + 1] - Before[1]

\* the codes to be averaged are in order
InOrder == pc = "average" => Ascending(timecodes)

\* what averageTimecode leaves in the codes
AveragedCodes == [i \in 1 .. Len(deltas) + 1 |-> AveragedCode(i - 1)]

\* the codes have been averaged
Optimized == averages # <<>> /\ pc \in {"convert", "rescale", "SetFPS", "save"}

\* what the codes come from until they are averaged, and what comes of them
Collected ==
    /\ pc \in Collecting \cup {"group"} => averages = <<>> /\ timeScale \in Nat
    /\ pc = "keep" => ~ (opt.audioTimeDelta > 0)
    /\ pc \in {"fix", "fixing"} => opt.audioTimeDelta > 0
    /\ pc = "fixing" => Len(fixing.fixed) + Len(fixing.vcts) = Len(movie.cts)
    /\ pc = "average" => Len(timecodes) \in 1 .. Wanted /\ Placed

Compared ==
    /\ pc = "group" => Len(deltas) <= FrameCount /\ Near
    /\ Optimized =>
          /\ averages = Averages /\ done = Len(deltas)
          /\ Len(deltas) <= FrameCount /\ Near
    /\ Optimized /\ pc \in {"convert", "rescale"} => timecodes = AveragedCodes
    /\ Optimized /\ pc \in {"convert", "SetFPS"} => timeScale \in Nat
    /\ Optimized /\ pc = "SetFPS" => AllWellKnown /\ opt.ranges = ExactRanges
    /\ Optimized /\ pc = "save" =>
          /\ Len(deltas) = FrameCount
          /\ IF given.codes # <<>> THEN given.codes = AveragedCodes
             ELSE timeScale \in Nat /\ AllWellKnown /\ given.ranges = ExactRanges

Synced == Collected /\ Compared

\* steps that leave the source of the codes alone leave these definitions alone
LEMMA BeforeSame ==
    ASSUME UNCHANGED <<movie, texts, fixing>>, opt'.timecodeFile = opt.timecodeFile,
           opt'.audioTimeDelta = opt.audioTimeDelta
    PROVE  Before' = Before /\ FrameCount' = FrameCount /\ Wanted' = Wanted
<1>1. /\ FrameCount' = FrameCount /\ Asked' = Asked /\ (FromFile' <=> FromFile)
      /\ movie' = movie /\ fixing' = fixing
  BY DEF FrameCount, Asked, FromFile
<1>2. Wanted' = Wanted
  BY <1>1 DEF Wanted
<1>3. FixedCodes' = FixedCodes
  BY <1>1 DEF FixedCodes
<1> QED BY <1>1, <1>2, <1>3 DEF Before

LEMMA NearSame ==
    ASSUME Before' = Before, FrameCount' = FrameCount, deltas' = deltas, Near
    PROVE  Near'
BY DEF Near

LEMMA AveragedSame ==
    ASSUME UNCHANGED <<deltas, cuts>>
    PROVE  AveragedCodes' = AveragedCodes
<1>1. deltas' = deltas /\ cuts' = cuts
  OBVIOUS
<1>2. ASSUME NEW i PROVE AveragedCode(i)' = AveragedCode(i)
  <2> DEFINE c == GroupStart(i)
  <2>1. c' = c
    BY <1>1 DEF GroupStart
  <2>2. GroupEnd(c)' = GroupEnd(c)
    BY <1>1, <2>1 DEF GroupEnd
  <2>3. Elapsed(GroupEnd(c))' = Elapsed(GroupEnd(c))
    BY <1>1, <2>2, Zenon DEF Elapsed, FoldLeft, MapThenFoldSet
  <2>4. Elapsed(c - 1)' = Elapsed(c - 1)
    BY <1>1, <2>1, Zenon DEF Elapsed, FoldLeft, MapThenFoldSet
  <2>5. GroupFrom(c)' = GroupFrom(c)
    BY <2>1, <2>2, <2>3, <2>4 DEF GroupFrom
  <2> QED BY <2>1, <2>4, <2>5 DEF AveragedCode
<1> QED BY <1>1, <1>2 DEF AveragedCodes

LEMMA KnownSame ==
    ASSUME UNCHANGED <<averages, timeScale>>
    PROVE  (AllWellKnown' <=> AllWellKnown) /\ ExactRanges' = ExactRanges
<1>1. averages' = averages /\ timeScale' = timeScale
  OBVIOUS
<1>2. ASSUME NEW g PROVE Matches(averages[g])' = Matches(averages[g])
  BY <1>1 DEF Matches, CloseTo
<1> QED BY <1>1, <1>2 DEF AllWellKnown, ExactRanges

\* a step at which nothing has been averaged
LEMMA SyncedPlain ==
    ASSUME averages' = <<>>, timeScale' \in Nat,
           pc' \notin {"fixing", "average", "group"},
           pc' = "keep" => ~ (opt'.audioTimeDelta > 0),
           pc' = "fix" => opt'.audioTimeDelta > 0
    PROVE  Synced'
BY DEF Synced, Collected, Compared, Optimized

\* a step after which nothing more is edited
LEMMA SyncedEnded ==
    ASSUME pc' \in {"usage", "exclusive", "failed", "printed", "copied", "edited"}
    PROVE  Synced'
BY DEF Synced, Collected, Compared, Optimized, Collecting

\* a movie is edited again from the start
LEMMA SyncedBegins ==
    ASSUME Synced,
           \/ GetOpt \/ CheckOptions \/ Begin \/ PrintTimeCodes \/ PrintFails
           \/ Load \/ ParseLine
    PROVE  Synced'
<1>1. averages = <<>> /\ timeScale \in Nat
  <2>1. pc \in Collecting
    BY DEF GetOpt, CheckOptions, Begin, PrintTimeCodes, PrintFails, Load, ParseLine,
           Reading, Collecting
  <2> QED BY <2>1 DEF Synced, Collected
<1>2. CASE GetOpt \/ CheckOptions
  <2>1. UNCHANGED <<averages, timeScale>>
    BY <1>2 DEF GetOpt, CheckOptions, codes
  <2>2. pc' \in {"getopt", "usage", "exclusive", "execute"}
    BY <1>2 DEF GetOpt, CheckOptions
  <2> QED BY <1>1, <2>1, <2>2, SyncedPlain
<1>3. CASE Begin
  <2>1. UNCHANGED <<averages, timeScale, opt>>
    BY <1>3 DEF Begin, codes
  <2>2. /\ pc' \in {"failed", "print", "SetFPS", "load", "save", "fix", "keep"}
        /\ pc' = "fix" => opt.audioTimeDelta > 0
        /\ pc' = "keep" => ~ (opt.audioTimeDelta > 0)
    BY <1>3 DEF Begin
  <2> QED BY <1>1, <2>1, <2>2, SyncedPlain
<1>4. CASE PrintTimeCodes \/ PrintFails
  BY <1>4, SyncedEnded DEF PrintTimeCodes, PrintFails
<1>5. CASE Load \/ ParseLine
  <2>1. UNCHANGED <<averages, timeScale>>
    BY <1>5 DEF Load, ParseLine, codes
  <2>2. pc' \in {"failed", "parse"}
    BY <1>5 DEF Load, ParseLine, Reading
  <2> QED BY <1>1, <2>1, <2>2, SyncedPlain
<1> QED BY <1>2, <1>3, <1>4, <1>5

\* one more element
LEMMA AppendLonger ==
    ASSUME NEW list \in Seq(Int), NEW x
    PROVE  Len(Append(list, x)) = Len(list) + 1
<1> DEFINE S == Int \cup {x}
<1>1. list \in Seq(S) /\ x \in S
  <2>1. Len(list) \in Nat /\ \A i \in 1 .. Len(list) : list[i] \in S
    OBVIOUS
  <2>2. list \in [1 .. Len(list) -> S]
    BY <2>1
  <2> QED BY <2>1, <2>2
<1> HIDE DEF S
<1> QED BY <1>1

\* the loop of option -A
LEMMA SyncedFix ==
    ASSUME Typed, Synced, BeginFix \/ Fix
    PROVE  Synced'
<1>1. /\ pc \in {"fix", "fixing"} /\ UNCHANGED <<averages, timeScale, opt, movie>>
      /\ pc' \in {"failed", "fixing"}
  BY DEF BeginFix, Fix, codes, Kept
<1>2. averages = <<>> /\ timeScale \in Nat /\ opt.audioTimeDelta > 0
  BY <1>1 DEF Synced, Collected, Collecting
<1>3. CASE pc' = "failed"
  BY <1>3, SyncedEnded
<1>4. CASE pc' = "fixing"
  <2>1. Len(fixing'.fixed) + Len(fixing'.vcts) = Len(movie'.cts)
    <3>1. CASE BeginFix
      <4>1. fixing' = [i |-> 1, dts |-> Head(movie.audio), vcts |-> movie.cts,
                       fixed |-> <<>>, timeDelta |-> 0, diff |-> 0]
        BY <1>4, <3>1 DEF BeginFix, EnterFix, NotFixing
      <4>2. fixing'.fixed = <<>> /\ fixing'.vcts = movie.cts /\ movie' = movie
        BY <1>1, <4>1
      <4>3. Len(movie.cts) \in Nat
        BY MovieTyped
      <4> QED BY <4>2, <4>3
    <3>2. CASE Fix
      <4>1. /\ pc = "fixing" /\ fixing \in FixRecord
            /\ Len(fixing.fixed) + Len(fixing.vcts) = Len(movie.cts)
        BY <3>2 DEF Fix, Synced, Collected, Typed
      <4>2. fixing.fixed \in Seq(Int) /\ fixing.vcts \in Seq(Int)
        BY <4>1 DEF FixRecord
      <4>3. CASE NextSample
        <5> DEFINE n == fixing.i + 1
                   m == fixing.dts + (IF fixing.i < Len(movie.audio)
                                      THEN movie.audio[fixing.i + 1] ELSE 0)
        <5>1. fixing' = [fixing EXCEPT !.i = n, !.dts = m]
          BY <4>3 DEF NextSample
        <5> HIDE DEF n, m
        <5>2. fixing'.fixed = fixing.fixed /\ fixing'.vcts = fixing.vcts
          BY <4>1, <5>1 DEF FixRecord
        <5> QED BY <1>1, <4>1, <5>2
      <4>4. ASSUME NEW delta, FixCode(delta)
            PROVE  Len(fixing'.fixed) + Len(fixing'.vcts) = Len(movie'.cts)
        <5> DEFINE vcts  == Head(fixing.vcts)
                   new   == (Fraction * vcts * delta * fixing.i) \div fixing.dts
                   fixed == fixing.fixed
                   step  == IF fixing.timeDelta = 0 THEN new - Last(fixed)
                            ELSE Smoothed(new, Last(fixed), fixing.timeDelta)
                   diff  == WholeTicks(new - Fraction * vcts)
                   y     == Last(fixed) + step
        <5>1. fixing.vcts # <<>>
          BY <4>4 DEF FixCode, Heard
        <5>2. Len(Tail(fixing.vcts)) = Len(fixing.vcts) - 1
          BY <4>2, <5>1
        <5>3. fixing' = IF fixed = <<>>
                        THEN [[fixing EXCEPT !.vcts = Tail(@), !.diff = diff]
                                 EXCEPT !.fixed = <<new>>]
                        ELSE [[fixing EXCEPT !.vcts = Tail(@), !.diff = diff]
                                 EXCEPT !.timeDelta = step,
                                        !.fixed = Append(@, Last(@) + step)]
          BY <4>4 DEF FixCode
        <5> HIDE DEF new, step, diff
        <5>4. fixing'.vcts = Tail(fixing.vcts)
          BY <4>1, <5>3 DEF FixRecord
        <5>5. fixing'.fixed = IF fixed = <<>> THEN <<new>> ELSE Append(fixed, y)
          BY <4>1, <5>3 DEF FixRecord
        <5>6. Len(Append(fixed, y)) = Len(fixed) + 1
          <6> HIDE DEF y
          <6> QED BY <4>2, AppendLonger
        <5>7. Len(fixing'.fixed) = Len(fixed) + 1
          <6>1. CASE fixed = <<>>
            BY <5>5, <6>1
          <6>2. CASE fixed # <<>>
            BY <5>5, <5>6, <6>2
          <6> QED BY <6>1, <6>2
        <5> DEFINE a == Len(fixing.fixed)
                   b == Len(fixing.vcts)
                   c == Len(movie.cts)
        <5>8. a \in Nat /\ b \in Nat /\ a + b = c
          <6>1. a \in Nat /\ b \in Nat
            BY <4>2
          <6>2. a + b = c
            BY <4>1
          <6> QED BY <6>1, <6>2
        <5>9. /\ Len(fixing'.fixed) = a + 1 /\ Len(fixing'.vcts) = b - 1
              /\ Len(movie'.cts) = c
          BY <1>1, <5>2, <5>4, <5>7
        <5> HIDE DEF a, b, c
        <5> QED BY <5>8, <5>9
      <4> QED BY <3>2, <4>3, <4>4 DEF Fix
    <3> QED BY <3>1, <3>2
  <2> QED BY <1>1, <1>2, <1>4, <2>1 DEF Synced, Collected, Compared, Optimized
<1> QED BY <1>1, <1>3, <1>4

\* the codes are the times the frames had
LEMMA PlacedAt ==
    ASSUME averages' = <<>>, timeScale' \in Nat,
           pc' \in {"average", "rescale"}, FrameCount' \in Nat,
           Wanted' = FrameCount' + 1,
           Len(timecodes') \in 1 .. Wanted',
           Len(timecodes') = Wanted' =>
              \A i \in 1 .. Wanted' :
                 timecodes'[i] - timecodes'[1] = Before'[i] - Before'[1]
    PROVE  Synced'
<1>1. Placed'
  <2>1. PICK n \in Nat : n = FrameCount'
    OBVIOUS
  <2>2. PICK m : m = Wanted'
    OBVIOUS
  <2>3. m = n + 1
    BY <2>1, <2>2
  <2>4. \A i \in 0 .. n : i + 1 \in 1 .. n + 1
    OBVIOUS
  <2> QED BY <2>1, <2>2, <2>3, <2>4 DEF Placed
<1> QED BY <1>1 DEF Synced, Collected, Compared, Optimized

\* the codes of the movie itself
LEMMA SyncedTimes ==
    ASSUME Typed, Moving, Literal, Synced, KeepTimes \/ EndFix
    PROVE  Synced'
<1>1. /\ pc \in {"keep", "fixing"} /\ UNCHANGED <<averages, opt, movie, texts, fixing>>
      /\ pc' \in {"average", "rescale"} /\ timeScale' = movie.scale
  BY DEF KeepTimes, EndFix, input, Kept, Average
<1>2. averages = <<>> /\ movie.cts # <<>> /\ ~ FromFile
  BY <1>1 DEF Synced, Collected, Collecting, Moving, Timing, Literal
<1>3. FrameCount \in Nat /\ Wanted = FrameCount + 1 /\ Len(movie.cts) = Wanted
  <2>1. FrameCount \in Nat /\ Wanted = FrameCount + 1
    BY <1>2, CountTyped
  <2>2. Len(movie.cts) \in Nat
    BY MovieTyped
  <2> QED BY <2>1, <2>2 DEF FrameCount
<1>4. Before' = Before /\ FrameCount' = FrameCount /\ Wanted' = Wanted
  BY <1>1, BeforeSame
<1>5. timeScale' \in Nat
  BY <1>1, MovieTyped
<1>6. CASE KeepTimes
  <2> DEFINE c == movie.cts
  <2>1. timecodes' = [i \in DOMAIN c |-> Fraction * (c[i] - c[1])]
    BY <1>6 DEF KeepTimes
  <2>2. Before = [i \in DOMAIN c |-> Fraction * c[i]]
    BY <1>2, <1>6 DEF KeepTimes, Before, Synced, Collected
  <2>3. /\ c \in Seq(Int) /\ DOMAIN c = 1 .. Wanted /\ Fraction \in Nat
        /\ Len(c) = Wanted
    BY <1>3, MovieTyped
  <2>4. timecodes' \in Seq(Int)
    BY <2>1, KeptTyped
  <2> HIDE DEF c
  <2>5. Len(timecodes') = Wanted
    <3>1. DOMAIN timecodes' = 1 .. Wanted
      BY <2>1, <2>3
    <3> QED BY <1>3, <2>4, <3>1
  <2>6. ASSUME NEW i \in 1 .. Wanted
        PROVE  timecodes'[i] - timecodes'[1] = Before[i] - Before[1]
    <3>1. 1 \in 1 .. Wanted
      BY <1>3
    <3>2. c[i] \in Int /\ c[1] \in Int
      BY <2>3, <3>1
    <3>3. timecodes'[i] = Fraction * (c[i] - c[1])
          /\ timecodes'[1] = Fraction * (c[1] - c[1])
          /\ Before[i] = Fraction * c[i] /\ Before[1] = Fraction * c[1]
      BY <2>1, <2>2, <2>3, <3>1
    <3>4. \A x, y \in Int : Fraction * (x - y) = Fraction * x - Fraction * y
                            /\ Fraction * (y - y) = 0 /\ Fraction * x \in Int
      BY <2>3
    <3> DEFINE x == Fraction * c[i]
               y == Fraction * c[1]
    <3>5. /\ Fraction * (c[i] - c[1]) = x - y
          /\ Fraction * (c[1] - c[1]) = 0 /\ x \in Int /\ y \in Int
      BY <3>2, <3>4
    <3> QED BY <3>3, <3>5
  <2>7. Len(timecodes') \in 1 .. Wanted
    BY <1>3, <2>5
  <2> QED BY <1>1, <1>2, <1>3, <1>4, <1>5, <2>6, <2>7, PlacedAt
<1>7. CASE EndFix
  <2>1. pc = "fixing" /\ timecodes' = FixedCodes
    BY <1>7 DEF EndFix
  <2>2. Before = FixedCodes
    BY <1>2, <2>1 DEF Before, Synced, Collected
  <2>3. Len(FixedCodes) = Wanted
    <3> DEFINE f == fixing.fixed
               v == fixing.vcts
               t == [n \in DOMAIN v |-> Fraction * (v[n] + fixing.diff)]
    <3>1. f \in Seq(Int) /\ v \in Seq(Int) /\ fixing.diff \in Int
          /\ Len(f) + Len(v) = Wanted
      BY <1>3, <2>1 DEF Typed, FixRecord, Synced, Collected
    <3>2. \A n \in DOMAIN v : Fraction * (v[n] + fixing.diff) \in Int
      BY <3>1, MovieTyped
    <3>3. t \in [1 .. Len(v) -> Int] /\ Len(v) \in Nat
      BY <3>1, <3>2
    <3>4. FixedCodes = f \o t
      BY DEF FixedCodes
    <3> HIDE DEF f, v, t
    <3>5. t \in Seq(Int) /\ Len(t) = Len(v)
      BY <3>3
    <3>6. Len(f \o t) = Len(f) + Len(t)
      <4>1. f \in Seq(Int) /\ t \in Seq(Int)
        BY <3>1, <3>5
      <4> QED BY <4>1
    <3> QED BY <3>1, <3>4, <3>5, <3>6
  <2>4. Len(timecodes') \in 1 .. Wanted
    BY <1>3, <2>1, <2>3
  <2>5. \A i \in 1 .. Wanted : timecodes'[i] - timecodes'[1] = Before[i] - Before[1]
    BY <2>1, <2>2
  <2> QED BY <1>1, <1>2, <1>3, <1>4, <1>5, <2>4, <2>5, PlacedAt
<1> QED BY <1>6, <1>7

\* where an appended element is
LEMMA AppendAt ==
    ASSUME NEW list \in Seq(Int), NEW x, NEW i \in 1 .. Len(list) + 1
    PROVE  Append(list, x)[i] = IF i = Len(list) + 1 THEN x ELSE list[i]
<1> DEFINE S == Int \cup {x}
<1>1. list \in Seq(S) /\ x \in S
  <2>1. Len(list) \in Nat /\ \A k \in 1 .. Len(list) : list[k] \in S
    OBVIOUS
  <2>2. list \in [1 .. Len(list) -> S]
    BY <2>1
  <2> QED BY <2>1, <2>2
<1> HIDE DEF S
<1> QED BY <1>1

\* the codes of a file are what -x starts from
LEMMA TimedIsBefore ==
    ASSUME Typed, movie.cts # <<>>, FromFile, Asked \in Seq(Int), NEW list, Timed(list),
           NEW i \in 1 .. Wanted
    PROVE  list[i] = Before[i]
<1> DEFINE A == Asked
           n == FrameCount
           B == SubSeq(A, 1, n)
           last == IF Len(A) > n THEN A[Wanted] ELSE 2 * A[n] - A[n - 1]
<1>1. n \in Nat /\ Wanted = n + 1
  BY CountTyped
<1>2. Len(A) >= n /\ list = Append(B, last)
  BY Zenon DEF Timed
<1>3. Before = IF Len(A) > n THEN SubSeq(A, 1, Wanted)
               ELSE Append(A, 2 * A[n] - A[n - 1])
  BY DEF Before
<1> HIDE DEF A, n, last
<1>4. A \in Seq(Int)
  BY DEF A
<1>5. B \in Seq(Int) /\ Len(B) = n /\ \A j \in 1 .. n : B[j] = A[j]
  BY <1>1, <1>2, <1>4
<1> HIDE DEF B
<1>6. i \in 1 .. Len(B) + 1
  BY <1>1, <1>5
<1>7. list[i] = IF i = Len(B) + 1 THEN last ELSE B[i]
  BY <1>2, <1>5, <1>6, AppendAt
<1>8. list[i] = IF i = n + 1 THEN last ELSE A[i]
  BY <1>1, <1>5, <1>6, <1>7
<1>9. CASE Len(A) > n
  <2>1. Before[i] = A[i]
    BY <1>1, <1>3, <1>4, <1>9
  <2>2. last = A[Wanted]
    BY <1>9 DEF last
  <2> QED BY <1>1, <1>8, <2>1, <2>2
<1>10. CASE ~ (Len(A) > n)
  <2>1. Len(A) = n
    BY <1>1, <1>2, <1>4, <1>10
  <2>2. i \in 1 .. Len(A) + 1
    BY <1>1, <2>1
  <2>3. last = 2 * A[n] - A[n - 1] /\ Before = Append(A, last)
    BY <1>3, <1>10 DEF last
  <2>4. Before[i] = IF i = Len(A) + 1 THEN last ELSE A[i]
    BY <1>4, <2>2, <2>3, AppendAt
  <2> QED BY <1>8, <2>1, <2>4
<1> QED BY <1>9, <1>10

\* the end of parsing a file of time codes
LEMMA SyncedParseEnd ==
    ASSUME Typed, Literal, Moving, Parsed, Synced, ParseEnd
    PROVE  Synced'
<1>1. /\ pc = "parse" /\ FromFile /\ ~ Reading /\ UNCHANGED <<movie, texts, opt, fixing>>
      /\ UNCHANGED <<averages, timeScale>>
      /\ timecodes \in Seq(Int) /\ Len(timecodes) <= Wanted
  BY DEF ParseEnd, Kept, input, Parsed, Literal
<1>2. movie.cts # <<>> /\ averages = <<>> /\ timeScale \in Nat
  BY <1>1 DEF Moving, Timing, Synced, Collected, Collecting
<1>3. PICK h : \E k : Reads(h, k)
  BY <1>1 DEF Parsed
<1>4. PICK k : Reads(h, k)
  BY <1>3
<1>5. Text \in Seq(Int) /\ lines \in Seq(Int)
  BY <1>1, FileTyped
<1>6. ~ (Len(timecodes) < Wanted /\ lines # <<>>)
  BY <1>1 DEF Reading
<1>7. /\ Completed \in Seq(Int)
      /\ IF Len(Completed) = Wanted THEN Timed(Completed) ELSE TooFew
  BY <1>1, <1>2, <1>4, <1>5, <1>6, CompletedTimes
<1>8. FrameCount \in Nat /\ Wanted = FrameCount + 1
  BY <1>2, CountTyped
<1>9. Before' = Before /\ FrameCount' = FrameCount /\ Wanted' = Wanted
  BY <1>1, BeforeSame
<1>10. CASE timecodes = <<>>
  <2>1. pc' = "failed"
    BY <1>10 DEF ParseEnd
  <2> QED BY <2>1, SyncedEnded
<1>11. CASE timecodes # <<>>
  <2>1. /\ pc' = Average /\ timecodes' = Completed
        /\ pc' \in {"average", "rescale"}
    BY <1>11 DEF ParseEnd, Average
  <2>2. Len(Completed) \in 1 .. Wanted
    <3>1. CASE Len(timecodes) = Wanted - 1 /\ Len(timecodes) >= 2
      <4> DEFINE x == 2 * Last(timecodes) - timecodes[Len(timecodes) - 1]
      <4>1. Completed = Append(timecodes, x)
        BY <3>1 DEF Completed
      <4> HIDE DEF x
      <4>2. Len(Append(timecodes, x)) = Len(timecodes) + 1
        BY <1>1, AppendLonger
      <4>3. Len(Completed) = Wanted
        BY <1>8, <3>1, <4>1, <4>2
      <4> QED BY <1>8, <4>3
    <3>2. CASE ~ (Len(timecodes) = Wanted - 1 /\ Len(timecodes) >= 2)
      <4>1. Completed = timecodes
        BY <3>2 DEF Completed
      <4>2. Len(timecodes) \in Nat \ {0}
        BY <1>1, <1>11
      <4> QED BY <1>1, <1>8, <4>1, <4>2
    <3> QED BY <3>1, <3>2
  <2>3. ASSUME Len(timecodes') = Wanted, NEW i \in 1 .. Wanted
        PROVE  timecodes'[i] - timecodes'[1] = Before[i] - Before[1]
    <3>1. Asked \in Seq(Int)
      BY <1>4, <1>5, AskedExtends
    <3>2. Timed(timecodes') /\ 1 \in 1 .. Wanted
      BY <1>7, <1>8, <2>1, <2>3
    <3>3. timecodes'[i] = Before[i]
      BY <1>1, <1>2, <3>1, <3>2, TimedIsBefore
    <3>4. timecodes'[1] = Before[1]
      BY <1>1, <1>2, <3>1, <3>2, TimedIsBefore
    <3> QED BY <3>3, <3>4
  <2>4. averages' = <<>> /\ timeScale' \in Nat
    BY <1>1, <1>2
  <2>5. /\ FrameCount' \in Nat /\ Wanted' = FrameCount' + 1
        /\ Len(timecodes') \in 1 .. Wanted'
    BY <1>8, <1>9, <2>1, <2>2
  <2>6. Len(timecodes') = Wanted' =>
           \A i \in 1 .. Wanted' :
              timecodes'[i] - timecodes'[1] = Before'[i] - Before'[1]
    BY <1>9, <2>3
  <2> QED BY <2>1, <2>4, <2>5, <2>6, PlacedAt
<1> QED BY <1>10, <1>11

\* grouping and averaging
LEMMA SyncedAveraging ==
    ASSUME Typed, Grouped, Literal, Moving, Parsed, Synced, InOrder,
           EnterAverage \/ GroupDelta \/ LeaveAverage
    PROVE  Synced'
<1>1. /\ pc \in {"average", "group"} /\ UNCHANGED <<movie, texts, opt, fixing, timeScale>>
      /\ averages = <<>> /\ timeScale \in Nat
  BY DEF EnterAverage, GroupDelta, LeaveAverage, Kept, input, Synced, Collected,
         Collecting
<1>2. movie.cts # <<>>
  BY <1>1 DEF Moving, Timing
<1>3. FrameCount \in Nat /\ Wanted = FrameCount + 1
  BY <1>2, CountTyped
<1>4. Before' = Before /\ FrameCount' = FrameCount /\ Wanted' = Wanted
  BY <1>1, BeforeSame
<1>5. CASE EnterAverage
  <2>1. /\ pc = "average" /\ pc' = "group" /\ averages' = averages
        /\ deltas' = Deltas(timecodes) /\ timecodes \in Seq(Int)
    BY <1>5 DEF EnterAverage, BeginAverage, Typed, Collecting
  <2>2. Ascending(timecodes) /\ Len(timecodes) \in 1 .. Wanted /\ Placed
    BY <2>1 DEF InOrder, Synced, Collected
  <2>3. timecodes # <<>>
    BY <1>3, <2>2
  <2>4. Len(Deltas(timecodes)) = Len(timecodes) - 1
    BY <2>1, <2>3, DeltasLength
  <2>5. Len(deltas') <= FrameCount
    BY <1>3, <2>1, <2>2, <2>4
  <2>6. ASSUME Len(deltas') = FrameCount, NEW i \in 0 .. FrameCount
        PROVE  /\ Before[i + 1] - Before[1] \in Int
               /\ Distance(Fraction * Sums(deltas')[i], Before[i + 1] - Before[1])
                     <= Fraction
    <3>1. Len(timecodes) = Wanted
      BY <1>3, <2>1, <2>2, <2>4, <2>6
    <3>2. timecodes[i + 1] - timecodes[1] = Before[i + 1] - Before[1]
      BY <2>2, <3>1 DEF Placed
    <3>3. timecodes[i + 1] - timecodes[1] \in Int
      <4>1. i + 1 \in 1 .. Len(timecodes) /\ 1 \in 1 .. Len(timecodes)
        BY <1>3, <3>1
      <4>2. timecodes[i + 1] \in Int /\ timecodes[1] \in Int
        BY <2>1, <4>1
      <4> QED BY <4>2
    <3>4. i \in 0 .. Len(timecodes) - 1
      BY <1>3, <3>1
    <3>5. Distance(Fraction * Sums(Deltas(timecodes))[i], timecodes[i + 1] - timecodes[1])
             <= Fraction
      BY <2>1, <2>2, <2>3, <3>4, RoundingNear
    <3> QED BY <2>1, <3>2, <3>3, <3>5
  <2>7. Near'
    BY <1>4, <2>6 DEF Near
  <2> QED BY <1>1, <1>4, <2>1, <2>5, <2>7 DEF Synced, Collected, Compared, Optimized
<1>6. CASE GroupDelta
  <2>1. pc = "group" /\ pc' = pc /\ averages' = averages /\ deltas' = deltas
    BY <1>6 DEF GroupDelta, Group
  <2>2. Len(deltas) <= FrameCount /\ Near
    BY <2>1 DEF Synced, Compared
  <2>3. Near'
    BY <1>4, <2>1, <2>2, NearSame
  <2> QED BY <1>1, <1>4, <2>1, <2>2, <2>3 DEF Synced, Collected, Compared, Optimized
<1>7. CASE LeaveAverage
  <2>1. /\ pc = "group" /\ pc' = "convert" /\ UNCHANGED grouping /\ done = Len(deltas)
        /\ averages' = Averages /\ timecodes' = AveragedCodes
    BY <1>7 DEF LeaveAverage, EndAverage, AveragedCodes
  <2>2. deltas' = deltas /\ done' = done /\ cuts' = cuts
    BY <2>1 DEF grouping
  <2>3. Averages' = Averages /\ AveragedCodes' = AveragedCodes
    BY <2>2, AveragesSame, AveragedSame
  <2>4. Len(deltas) <= FrameCount /\ Near
    BY <2>1 DEF Synced, Compared
  <2>5. Near'
    BY <1>4, <2>2, <2>4, NearSame
  <2>6. averages' = Averages' /\ done' = Len(deltas') /\ Len(deltas') <= FrameCount'
        /\ timecodes' = AveragedCodes' /\ timeScale' \in Nat
    BY <1>1, <1>4, <2>1, <2>2, <2>3, <2>4
  <2> QED BY <2>1, <2>5, <2>6 DEF Synced, Collected, Compared, Optimized, Collecting
<1> QED BY <1>5, <1>6, <1>7

\* convertToExactRanges
LEMMA SyncedConverted ==
    ASSUME Typed, Literal, Synced, ConvertToExactRanges
    PROVE  Synced'
<1>1. /\ pc = "convert" /\ UNCHANGED <<movie, texts, fixing, given>>
      /\ UNCHANGED <<timecodes, timeScale, averages, grouping>>
      /\ DOMAIN opt = DOMAIN NoOptions
  BY DEF ConvertToExactRanges, Kept, input, codes, Typed
<1>2. deltas' = deltas /\ done' = done /\ cuts' = cuts
  BY <1>1 DEF grouping
<1>3. /\ pc' \in {"SetFPS", "rescale"}
      /\ pc' = "SetFPS" => AllWellKnown /\ opt'.ranges = ExactRanges
      /\ opt'.timecodeFile = opt.timecodeFile
      /\ opt'.audioTimeDelta = opt.audioTimeDelta
  <2>1. CASE AllWellKnown
    <3>1. opt' = [opt EXCEPT !.ranges = ExactRanges] /\ pc' = "SetFPS"
      BY <2>1 DEF ConvertToExactRanges
    <3> QED BY <1>1, <2>1, <3>1 DEF NoOptions
  <2>2. CASE ~ AllWellKnown
    <3>1. opt' = opt /\ pc' = "rescale"
      BY <2>2 DEF ConvertToExactRanges
    <3> QED BY <3>1
  <2> QED BY <2>1, <2>2
<1>4. /\ Before' = Before /\ FrameCount' = FrameCount /\ Averages' = Averages
      /\ AveragedCodes' = AveragedCodes
      /\ (AllWellKnown' <=> AllWellKnown) /\ ExactRanges' = ExactRanges
  BY <1>1, <1>2, <1>3, BeforeSame, AveragesSame, AveragedSame, KnownSame
<1>5. CASE averages = <<>>
  BY <1>1, <1>3, <1>5 DEF Synced, Collected, Compared, Optimized, Collecting
<1>6. CASE averages # <<>>
  <2>1. /\ averages = Averages /\ done = Len(deltas)
        /\ Len(deltas) <= FrameCount /\ Near /\ timecodes = AveragedCodes
        /\ timeScale \in Nat
    BY <1>1, <1>6 DEF Synced, Compared, Optimized
  <2>2. Near'
    BY <1>2, <1>4, <2>1, NearSame
  <2> QED BY <1>1, <1>2, <1>3, <1>4, <2>1, <2>2
          DEF Synced, Collected, Compared, Optimized, Collecting
<1> QED BY <1>5, <1>6

\* the exact ranges are given to the editor as they are
LEMMA ExactRangesStay ==
    ASSUME Grouped, done = Len(deltas), averages = Averages, NEW frames
    PROVE  NormalizeFPSRange(ExactRanges, frames) = ExactRanges
<1> DEFINE m == Cardinality(cuts)
           V == {ExactRanges[g] : g \in 1 .. m}
<1>1. m \in Nat /\ DOMAIN ExactRanges = 1 .. m
  BY SizesAre DEF Averages, ExactRanges
<1>2. ExactRanges \in [1 .. m -> V]
  <2>1. ExactRanges = [g \in 1 .. m |-> ExactRanges[g]]
    <3>1. ExactRanges = [g \in DOMAIN ExactRanges |-> ExactRanges[g]]
      BY DEF ExactRanges
    <3> HIDE DEF m
    <3> QED BY <1>1, <3>1
  <2> HIDE DEF m
  <2> QED BY <2>1
<1>3. ExactRanges \in Seq(V)
  <2> HIDE DEF m, V
  <2> QED BY <1>1, <1>2
<1>4. \A r \in V : /\ r.numFrames > 0
                   /\ [r EXCEPT !.numFrames = r.numFrames] = r
  <2> SUFFICES ASSUME NEW g \in 1 .. m
               PROVE  /\ ExactRanges[g].numFrames > 0
                      /\ [ExactRanges[g] EXCEPT !.numFrames = ExactRanges[g].numFrames]
                            = ExactRanges[g]
    BY Zenon
  <2> DEFINE rate == WellKnown[Min(Matches(averages[g]))]
             n == averages[g].count
  <2>1. ExactRanges[g] = [numFrames |-> n, num |-> rate.num, denom |-> rate.denom]
    BY <1>1 DEF ExactRanges
  <2>2. n \in Nat \ {0}
    BY GroupIs
  <2> DEFINE a == rate.num
             b == rate.denom
  <2> HIDE DEF n, rate, a, b
  <2>3. ExactRanges[g] = [numFrames |-> n, num |-> a, denom |-> b]
    BY <2>1 DEF a, b
  <2> QED BY <2>2, <2>3
<1> HIDE DEF V
<1> QED BY <1>3, <1>4, RangesKept

\* what is handed to the editor
LEMMA SyncedGiven ==
    ASSUME Typed, Grouped, Literal, Moving, Synced, SetFPS \/ SetTimeCodes
    PROVE  Synced'
<1>1. /\ pc \in {"SetFPS", "rescale"} /\ UNCHANGED <<movie, texts, fixing, opt>>
      /\ UNCHANGED <<timecodes, averages, grouping>>
      /\ given.codes = <<>> /\ DOMAIN given = DOMAIN Nothing
      /\ pc' \in {"failed", "save"}
  BY DEF SetFPS, SetTimeCodes, Kept, input, codes, Literal
<1>2. deltas' = deltas /\ done' = done /\ cuts' = cuts
  BY <1>1 DEF grouping
<1>3. /\ Before' = Before /\ FrameCount' = FrameCount /\ Averages' = Averages
      /\ AveragedCodes' = AveragedCodes
  BY <1>1, <1>2, BeforeSame, AveragesSame, AveragedSame
<1>4. CASE pc' = "failed"
  BY <1>4, SyncedEnded
<1>5. CASE averages = <<>>
  BY <1>1, <1>5 DEF Synced, Collected, Compared, Optimized, Collecting
<1>6. CASE pc' = "save" /\ averages # <<>>
  <2>1. /\ averages = Averages /\ done = Len(deltas)
        /\ Len(deltas) <= FrameCount /\ Near
    BY <1>1, <1>6 DEF Synced, Compared, Optimized
  <2>2. Near'
    BY <1>2, <1>3, <2>1, NearSame
  <2>3. movie.cts # <<>>
    BY <1>1 DEF Moving, Timing
  <2>4. FrameCount \in Nat /\ Wanted = FrameCount + 1 /\ FrameCount < IntModulus
    BY <2>3, CountTyped
  <2>5. deltas \in Seq(Int) /\ Len(deltas) \in Nat
    BY DEF Grouped
  <2>6. CASE SetFPS
    <3>1. pc = "SetFPS" /\ UNCHANGED <<averages, timeScale>>
      BY <2>6 DEF SetFPS, codes
    <3>2. timeScale \in Nat /\ AllWellKnown /\ opt.ranges = ExactRanges
      BY <1>6, <3>1 DEF Synced, Compared, Optimized
    <3>3. (AllWellKnown' <=> AllWellKnown) /\ ExactRanges' = ExactRanges
      BY <3>1, KnownSame
    <3>4. NormalizeFPSRange(opt.ranges, FrameCount) = ExactRanges
      BY <2>1, <3>2, ExactRangesStay
    <3>5. Frames(NormalizeFPSRange(opt.ranges, FrameCount)) = Len(deltas)
      BY <2>1, <3>2, ExactRangesCover
    <3>6. /\ Len(deltas) % IntModulus = FrameCount
          /\ given' = [given EXCEPT !.ranges = ExactRanges,
                                    !.scale = opt.requestedTimeScale]
      BY <1>6, <2>6, <3>4, <3>5 DEF SetFPS
    <3>7. Len(deltas) = FrameCount
      <4>1. Len(deltas) % IntModulus = Len(deltas)
        BY <2>1, <2>4, <2>5, IntModulusAssumption
      <4> QED BY <3>6, <4>1
    <3>8. given'.codes = <<>> /\ given'.ranges = ExactRanges
      BY <1>1, <3>6 DEF Nothing
    <3> QED BY <1>1, <1>2, <1>3, <1>6, <2>1, <2>2, <3>1, <3>2, <3>3, <3>7, <3>8
            DEF Synced, Collected, Compared, Optimized, Collecting
  <2>7. CASE SetTimeCodes
    <3>1. pc = "rescale"
      BY <2>7 DEF SetTimeCodes
    <3>2. timecodes = AveragedCodes
      BY <1>6, <3>1 DEF Synced, Compared, Optimized
    <3>3. Len(timecodes) = Wanted /\ given'.codes = timecodes
      BY <1>1, <1>6, <2>7 DEF SetTimeCodes, Nothing
    <3>4. Len(timecodes) = Len(deltas) + 1
      BY <2>5, <3>2 DEF AveragedCodes
    <3>5. Len(deltas) = FrameCount
      BY <2>4, <2>5, <3>3, <3>4
    <3>6. given'.codes # <<>>
      BY <2>5, <3>3, <3>4
    <3> QED BY <1>1, <1>2, <1>3, <1>6, <2>1, <2>2, <3>2, <3>3, <3>5, <3>6
            DEF Synced, Collected, Compared, Optimized, Collecting
  <2> QED BY <2>6, <2>7
<1> QED BY <1>1, <1>4, <1>5, <1>6

\* every step of the driver
LEMMA SyncedKeeps ==
    ASSUME Inv, Moving, Parsed, Synced, InOrder, [Next]_vars
    PROVE  Synced'
<1>0. Typed /\ Grouped /\ Literal
  BY DEF Inv
<1>1. CASE \/ GetOpt \/ CheckOptions \/ Begin \/ PrintTimeCodes \/ PrintFails
           \/ Load \/ ParseLine
  BY <1>1, SyncedBegins
<1>2. CASE BeginFix \/ Fix
  BY <1>0, <1>2, SyncedFix
<1>3. CASE KeepTimes \/ EndFix
  BY <1>0, <1>3, SyncedTimes
<1>4. CASE ParseEnd
  BY <1>0, <1>4, SyncedParseEnd
<1>5. CASE EnterAverage \/ GroupDelta \/ LeaveAverage
  BY <1>0, <1>5, SyncedAveraging
<1>6. CASE ConvertToExactRanges
  BY <1>0, <1>6, SyncedConverted
<1>7. CASE SetFPS \/ SetTimeCodes
  BY <1>0, <1>7, SyncedGiven
<1>8. CASE Save
  BY <1>8, SyncedEnded DEF Save
<1>9. CASE Again
  BY <1>9, SyncedPlain DEF Again
<1>10. CASE UNCHANGED vars
  <2>1. /\ UNCHANGED <<movie, texts, fixing, opt, pc, given>>
        /\ UNCHANGED <<timecodes, timeScale, averages, deltas, done, cuts>>
    BY <1>10 DEF vars, codes, input, grouping
  <2>2. /\ Before' = Before /\ FrameCount' = FrameCount /\ Averages' = Averages
        /\ Wanted' = Wanted /\ AveragedCodes' = AveragedCodes
        /\ (AllWellKnown' <=> AllWellKnown) /\ ExactRanges' = ExactRanges
    BY <2>1, BeforeSame, AveragesSame, AveragedSame, KnownSame
  <2>3. (Placed' <=> Placed) /\ (Near' <=> Near) /\ (Optimized' <=> Optimized)
    BY <2>1, <2>2 DEF Placed, Near, Optimized
  <2>4. Collected'
    BY <2>1, <2>2, <2>3 DEF Synced, Collected
  <2>5. Compared'
    BY <2>1, <2>2, <2>3 DEF Synced, Compared
  <2> QED BY <2>4, <2>5 DEF Synced
<1> QED BY <1>1, <1>2, <1>3, <1>4, <1>5, <1>6, <1>7, <1>8, <1>9, <1>10 DEF Next

\* what is known when the movie is saved implies the property
LEMMA SyncedIsEnough ==
    ASSUME Second % Fraction = 0, Grouped, Synced, ExactAverages
    PROVE  OptimizedInSync
<1> SUFFICES ASSUME pc = "save", averages # <<>>, NEW i \in 0 .. FrameCount
             PROVE  IF given.codes # <<>>
                    THEN 4 * Distance(given.codes[i + 1], Before[i + 1] - Before[1])
                            <= (Largest + 4) * Fraction
                    ELSE Distance(ExactTime(i) * timeScale,
                                  (Before[i + 1] - Before[1]) * (Second \div Fraction))
                            <= (Largest + 4 + 4 * Len(averages)) * (Second \div 4)
                               + (FrameCount * Second) \div 2048
  BY Zenon DEF OptimizedInSync, Largest
<1>1. /\ averages = Averages /\ done = Len(deltas) /\ Near
      /\ Len(deltas) = FrameCount
      /\ IF given.codes # <<>> THEN given.codes = AveragedCodes
         ELSE timeScale \in Nat /\ AllWellKnown /\ given.ranges = ExactRanges
  BY DEF Synced, Compared, Optimized
<1>2. CASE given.codes # <<>>
  <2>1. 4 * Distance(AveragedCode(i), Before[i + 1] - Before[1])
           <= (Largest + 4) * Fraction
    BY <1>1, CodesInSync
  <2>2. i + 1 \in 1 .. Len(deltas) + 1 /\ (i + 1) - 1 = i
    <3>1. Len(deltas) \in Nat
      BY DEF Grouped
    <3> QED BY <1>1, <3>1
  <2>3. given.codes[i + 1] = AveragedCode(i)
    BY <1>1, <1>2, <2>2 DEF AveragedCodes
  <2> QED BY <1>2, <2>1, <2>3, Zenon
<1>3. CASE ~ (given.codes # <<>>)
  <2>1. timeScale \in Nat /\ AllWellKnown /\ given.ranges = ExactRanges
    BY <1>1, <1>3
  <2>2. Distance(ExactTime(i) * timeScale,
                 (Before[i + 1] - Before[1]) * (Second \div Fraction))
           <= (Largest + 4 + 4 * Len(averages)) * (Second \div 4)
              + (FrameCount * Second) \div 2048
    BY <1>1, <2>1, RangesInSync
  <2> QED BY <1>3, <2>2
<1> QED BY <1>2, <1>3

(***************************************************************************)
(* However option -x moves the frames, they stay in sync: averaged codes   *)
(* are within a quarter of the largest group, and a tick, of where they    *)
(* were, and frames of exact ranges a tick per range, and one frame in     *)
(* 2048, further off: averageTimecode, groupbyAdjacent and                 *)
(* convertToExactRanges, for every movie and file whose codes are in order *)
(* when they are averaged (only -A may put one before another), as long as *)
(* the averages and a second are whole numbers of the units codes are      *)
(* counted in.                                                             *)
(***************************************************************************)
THEOREM AveragedStaysInSync ==
    Second % Fraction = 0 =>
        (Spec /\ []InOrder /\ []ExactAverages => []OptimizedInSync)
<1> SUFFICES ASSUME Second % Fraction = 0
             PROVE  Spec /\ []InOrder /\ []ExactAverages => []OptimizedInSync
  OBVIOUS
<1>1. Init => Synced
  BY DEF Init, Synced, Collected, Compared, Optimized
<1>2. Inv /\ Moving /\ Parsed /\ Synced /\ InOrder /\ [Next]_vars => Synced'
  BY SyncedKeeps
<1>3. Inv /\ Synced /\ ExactAverages => OptimizedInSync
  BY SyncedIsEnough DEF Inv
<1> QED BY <1>1, <1>2, <1>3, InvHolds, ParsedHolds, PTL DEF Spec
=============================================================================
