------------------------------- MODULE TimeCodes -------------------------------
(***************************************************************************)
(* What main.cpp does to a list of time codes before the track editor gets *)
(* it: averaging of option -x, the exchange for well-known frame rates,    *)
(* and the change of time scale.  A time code is a whole number of         *)
(* 1 / Fraction ticks, and Fraction is a multiple of every divisor that    *)
(* turns up.                                                               *)
(***************************************************************************)
EXTENDS FrameRates

CONSTANTS
    Fraction,
    CloseOnTie(_, _),       \* sum and count of a group that differs from a rate
                            \* by exactly the bound, and less so in doubles
    ScaleShort(_, _, _)     \* a product timeScale * (num / den) that is a whole
                            \* number, and just below it in doubles

ASSUME FractionAssumption == Fraction \in Nat \ {0}

VARIABLES
    timecodes,  \* Option::timecodes
    timeScale,  \* Option::timeScale
    averages,   \* Option::averages: [count, sum] of every group of deltas
    deltas,     \* locals of averageTimecode and groupbyAdjacent:
    cuts,       \* the positions in deltas where a group starts
    low, high,  \* the deltas that fit the last group
    done        \* how many deltas have been put into a group

grouping == <<deltas, cuts, low, high, done>>

\* int(x + 0.5)
Rounded(code) == Truncated(2 * code + Fraction, 2 * Fraction)

NoGroups == deltas = <<>> /\ cuts = {} /\ low = 1 /\ high = 0 /\ done = 0

-----------------------------------------------------------------------------
(* averageTimecode *)

\* the distances of the time codes from the rounded ones before, rounded
Deltas(codes) ==
    [i \in 1 .. Len(codes) - 1 |->
        Rounded(codes[i + 1] - Fraction * Rounded(codes[i]))]

BeginAverage ==
    /\ deltas' = Deltas(timecodes)
    /\ cuts' = {} /\ low' = 1 /\ high' = 0 /\ done' = 0

ForgetGroups ==
    /\ deltas' = <<>>
    /\ cuts' = {} /\ low' = 1 /\ high' = 0 /\ done' = 0

\* mutant: the window is not narrowed once both of its ends are known
BugGroup ==
    /\ done < Len(deltas)
    /\ LET d == deltas[done + 1]
       IN  IF d < low \/ d > high
           THEN cuts' = cuts \cup {done + 1} /\ low' = d - 1 /\ high' = d + 1
           ELSE UNCHANGED <<cuts, low, high>>
    /\ done' = done + 1
    /\ UNCHANGED deltas

\* mutant: a group takes only what is one more than its first delta
BugWindow ==
    /\ done < Len(deltas)
    /\ LET d == deltas[done + 1]
       IN  IF d < low \/ d > high
           THEN cuts' = cuts \cup {done + 1} /\ low' = d /\ high' = d + 1
           ELSE UNCHANGED <<cuts, low, high>>
    /\ done' = done + 1
    /\ UNCHANGED deltas

(***************************************************************************)
(* One turn of groupbyAdjacent.  A group that holds one value so far takes *)
(* what is one more or one less; the first different value decides which.  *)
(***************************************************************************)
Group ==
    /\ done < Len(deltas)
    /\ LET d == deltas[done + 1]
           before == deltas[done]
       IN  IF d < low \/ d > high
           THEN cuts' = cuts \cup {done + 1} /\ low' = d - 1 /\ high' = d + 1
           ELSE /\ IF before # d /\ high - low = 2
                   THEN IF before < d THEN low' = before /\ high' = d
                        ELSE low' = d /\ high' = before
                   ELSE UNCHANGED <<low, high>>
                /\ UNCHANGED cuts
    /\ done' = done + 1
    /\ UNCHANGED deltas

Elapsed(n) == FoldLeft(LAMBDA a, b : a + b, 0, SubSeq(deltas, 1, n))

\* where the group of the i-th delta starts and ends
GroupStart(i) == Max({c \in cuts : c <= i})
GroupEnd(i)   == Min({c - 1 : c \in {x \in cuts : x > i}} \cup {Len(deltas)})

GroupFrom(c) ==
    [count |-> GroupEnd(c) - c + 1, sum |-> Elapsed(GroupEnd(c)) - Elapsed(c - 1)]

\* mutant: each group is averaged without its last delta
BugAveragedCode(i) ==
    IF i = 0 THEN 0
    ELSE LET c == GroupStart(i)
             g == GroupFrom(c)
         IN  Fraction * Elapsed(c - 1)
             + (i - c + 1) * ((Fraction * (g.sum - deltas[GroupEnd(c)])) \div g.count)

\* every frame of a group is given the average delta of the group
AveragedCode(i) ==
    IF i = 0 THEN 0
    ELSE LET c == GroupStart(i)
             g == GroupFrom(c)
         IN  Fraction * Elapsed(c - 1) + (i - c + 1) * ((Fraction * g.sum) \div g.count)

\* where the g-th group starts
NthStart(g) == CHOOSE c \in cuts : Cardinality({x \in cuts : x <= c}) = g
Averages    == [g \in 1 .. Cardinality(cuts) |-> GroupFrom(NthStart(g))]

EndAverage ==
    /\ done = Len(deltas)
    /\ averages' = Averages
    /\ timecodes' = [i \in 1 .. Len(deltas) + 1 |-> AveragedCode(i - 1)]
    /\ UNCHANGED grouping

-----------------------------------------------------------------------------
(* convertToExactRanges *)

Rate(n, d) == [num |-> n, denom |-> d]

WellKnown == <<Rate(18000, 1001), Rate(24000, 1001), Rate(25, 1),
               Rate(30000, 1001), Rate(50, 1), Rate(60000, 1001)>>

\* spEnd: the search ends before the last entry
Searched == 1 .. 5

Distance(a, b) == IF a < b THEN b - a ELSE a - b

\* the average delta differs from that of the rate by less than one part in
\* the number of frames, or 2^-11 if there are more than 2^11
CloseTo(avg, rate) ==
    LET apart == Distance(avg.sum * rate.num, avg.count * rate.denom * timeScale)
    IN  \/ apart < rate.num
        \/ apart = rate.num /\ CloseOnTie(avg.sum, avg.count)
        \/ avg.count > 2048 /\ 2048 * apart < avg.count * rate.num

Matches(avg) == {r \in Searched : CloseTo(avg, WellKnown[r])}

AllWellKnown == \A g \in DOMAIN averages : Matches(averages[g]) # {}

ExactRanges ==
    [g \in DOMAIN averages |->
        LET rate == WellKnown[Min(Matches(averages[g]))]
        IN  [numFrames |-> averages[g].count, num |-> rate.num,
             denom |-> rate.denom]]

-----------------------------------------------------------------------------
(* rescaleTimecode: every time code is multiplied by num / den *)

Ratio(n, d) == [num |-> n, den |-> d]

\* of the end of the last frame, which is taken to last as long as the one
\* before the end does
Duration(codes) == 2 * codes[Len(codes)] - codes[Len(codes) - 1]

\* enough to shrink a movie of 10^4 times the longest duration
PowersOfTen == {1, 10, 100, 1000, 10000}

\* more than p times the longest duration
TooLong(codes, p) == (Duration(codes) - 1) \div Fraction >= p * MaxDuration

\* mutant: the movie may be one power of ten too long
BugShrink(codes) ==
    Ratio(1, Max({p \in PowersOfTen :
                     p = 1 \/ TooLong(codes, p)}))

\* the largest power of ten at which the movie is short enough
Shrink(codes) ==
    Ratio(1, Min({p \in PowersOfTen : ~ TooLong(codes, p)}))

\* the time scale is less than 100: the largest power of ten that leaves it
\* below 10000 and the movie short enough; one tenth if that is exceeded by one
Grow(codes) ==
    LET Enough(p) == \/ p * Duration(codes) >= MaxDuration * Fraction
                     \/ p * timeScale >= 10000
        least == Min({p \in PowersOfTen : Enough(p)})
    IN  IF least = 1 THEN Ratio(1, 10) ELSE Ratio(least \div 10, 1)

ScaleFor(codes, requested, original) ==
    IF requested > 0 THEN Ratio(requested, timeScale)
    ELSE IF requested < 0 THEN Ratio(original, timeScale)
    ELSE IF TooLong(codes, 1) THEN Shrink(codes)
    ELSE IF timeScale < 100 THEN Grow(codes)
    ELSE Ratio(1, 1)

\* an integer is multiplied by a double, and the product is truncated
ScaledTimeScale(s) ==
    LET product == (timeScale * s.num) \div s.den
    IN  IF product * s.den = timeScale * s.num /\ ScaleShort(timeScale, s.num, s.den)
        THEN product - 1 ELSE product
=============================================================================
