------------------------------ MODULE FrameRates ------------------------------
(***************************************************************************)
(* From frame-rate ranges to time codes: the part of TrackEditor::SetFPS   *)
(* that does not touch the track (mp4trackx.cpp).  A range says that its   *)
(* numFrames next frames are played at num / denom frames per second.      *)
(* Time codes are counted in ticks, timeScale of them per second.          *)
(***************************************************************************)
EXTENDS Rounding, SequencesExt

CONSTANTS
    IntModulus,     \* 2^32: an int is a number modulo this, centred on zero
    TooLargeInt,    \* what a double too large for an int is converted to
    MaxDuration     \* 0x7fffffff, the longest duration a box should hold

ASSUME IntModulusAssumption ==
    /\ IntModulus \in Nat /\ IntModulus % 2 = 0 /\ IntModulus > 2000
    /\ MaxDuration \in Nat \ {0} /\ MaxDuration \div 2 < IntModulus

\* the conversion is undefined: the processor gives INT_MIN or INT_MAX
ASSUME TooLargeIntAssumption ==
    TooLargeInt \in {-(IntModulus \div 2), IntModulus \div 2 - 1}

AsInt(x) == ((x + IntModulus \div 2) % IntModulus) - IntModulus \div 2

Divides(d, n) == n % d = 0

\* division truncates towards zero
Truncated(a, b) == IF a >= 0 THEN a \div b ELSE -((-a) \div b)
Remainder(a, b) == LET m == Max({b, -b})
                   IN  IF a >= 0 THEN a % m ELSE -((-a) % m)

euclid[p \in Int \X Int] ==
    IF p[2] = 0 THEN p[1] ELSE euclid[<<p[2], Remainder(p[1], p[2])>>]

gcd(a, b) == euclid[<<a, b>>]

\* mutant: the wrong one of the two is divided by the gcd
BugLcm(a, b) == AsInt(a * (a \div gcd(a, b)))

\* a is positive; of a negative b the gcd may be negative
lcm(a, b) ==
    LET g == gcd(a, b)
    IN  AsInt(b * (IF g > 0 THEN a \div g ELSE -(a \div (-g))))

Frames(ranges) == FoldLeft(LAMBDA sum, r : sum + r.numFrames, 0, ranges)

\* a range of zero frames takes what is left of the movie
NormalizeFPSRange(ranges, frames) ==
    LET Rest(done) == Max({0, frames - Frames(done)})
        Take(done, r) == Append(done, [r EXCEPT !.numFrames =
                                           IF @ > 0 THEN @ ELSE Rest(done)])
    IN  FoldLeft(Take, <<>>, ranges)

Lowest(r) == [r EXCEPT !.num = @ \div gcd(r.num, r.denom),
                       !.denom = @ \div gcd(r.num, r.denom)]

\* int *= 100.0 / minDenom, and the int becomes a uint32_t
Refined(multiple, minDenom) ==
    LET finer == IF minDenom < 100 THEN Truncated(multiple * 100, minDenom)
                 ELSE multiple
    IN  (IF finer = AsInt(finer) THEN finer ELSE TooLargeInt) % IntModulus

(***************************************************************************)
(* The least common multiple of the numerators, refined when the           *)
(* denominators are small; 1000 when the int overflows, which the C++      *)
(* tells by a multiple that is zero or not a multiple.  Overflow of an int *)
(* is undefined and wraps around in what compilers make of it.             *)
(***************************************************************************)
CalcTimeScale(ranges) ==
    LET lowest == [i \in DOMAIN ranges |-> Lowest(ranges[i])]
        scale[i \in 0 .. Len(ranges)] ==
            IF i = 0 THEN 1 ELSE lcm(lowest[i].num, scale[i - 1])
        exact == \A i \in DOMAIN ranges :
                    scale[i] # 0 /\ Divides(lowest[i].num, scale[i])
        minDenom == Min({lowest[i].denom : i \in DOMAIN ranges})
    IN  IF exact THEN Refined(scale[Len(ranges)], minDenom) ELSE 1000

\* static_cast<uint64_t>(offset / over + 0.5), undefined below zero: x86, where
\* TooLargeInt is negative, wraps it around and ARM gives zero
AsTime(offset, over) ==
    IF offset >= 0 THEN HalfUp(offset, 1, over)
    ELSE IF TooLargeInt >= 0 THEN 0
    ELSE (-Max({0, HalfUp(-offset, 1, over) - 1})) % (IntModulus * IntModulus)

(***************************************************************************)
(* The time code of every frame, and of the end of the last one.  delta    *)
(* is timeScale / num * denom, for which the uint32_t becomes an int, and  *)
(* the offset of a frame is the sum of the deltas before it, a rational    *)
(* over the product of the numerators.                                     *)
(***************************************************************************)
CalcSampleTimes(ranges, timeScale) ==
    LET rates == FlattenSeq([r \in DOMAIN ranges |->
                               [j \in 1 .. ranges[r].numFrames |-> ranges[r]]])
        over == FoldLeft(LAMBDA product, r : product * r.num, 1, ranges)
        offset[i \in 0 .. Len(rates)] ==
            IF i = 0 THEN 0
            ELSE offset[i - 1]
                 + AsInt(timeScale) * rates[i].denom * (over \div rates[i].num)
    IN  [i \in 0 .. Len(rates) |-> AsTime(offset[i], over)]

\* 100 * 10^k as a uint32_t
Hundred[k \in 0 .. 10] == IF k = 0 THEN 100 ELSE (10 * Hundred[k - 1]) % IntModulus

\* the last ones wrap around before one of them passes 2^31
ASSUME HundredsAssumption == \E k \in 0 .. 10 : Hundred[k] >= IntModulus \div 2

\* of these, the first that is not below scale * MaxDuration / duration
TooFine(scale, duration) ==
    LET most == (scale * MaxDuration - 1) \div duration
    IN  Hundred[Min({k \in 0 .. 10 : Hundred[k] > most})]

\* mutant: the power of ten that is not below it is taken
BugShrunkTimeScale(scale, duration) == TooFine(scale, duration)

\* a tenth of that: the largest power of ten below it, ten at least
ShrunkTimeScale(scale, duration) == TooFine(scale, duration) \div 10

(***************************************************************************)
(* SetFPS on a track of the given number of frames whose current time      *)
(* scale is kept when requested is negative; zero asks for a computed one. *)
(* ranges are normalized and hold that number of frames.                   *)
(***************************************************************************)
ChosenTimeScale(ranges, requested, current) ==
    LET scale == IF requested = 0 THEN CalcTimeScale(ranges)
                 ELSE IF requested > 0 THEN requested ELSE current
        duration == CalcSampleTimes(ranges, scale)[Frames(ranges)]
    IN  IF duration > MaxDuration /\ requested = 0
        THEN ShrunkTimeScale(scale, duration)
        ELSE scale
=============================================================================
