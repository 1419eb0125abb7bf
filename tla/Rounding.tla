------------------------------- MODULE Rounding -------------------------------
(***************************************************************************)
(* The arithmetic on doubles the editor relies on (mp4trackx.cpp).  A      *)
(* double is an exact rational here, orig * (num / den), except where the  *)
(* difference shows: when the exact value lies half-way between two        *)
(* integers and num / den is not a binary fraction, the double may fall    *)
(* below the half, and adding 0.5 and truncating then rounds it down.      *)
(* RoundsLow says when, and nothing is assumed about it.                   *)
(***************************************************************************)
EXTENDS Integers

CONSTANT RoundsLow(_, _, _)     \* of orig, num, den

\* multiplying by 1 or by 1/2 is exact
BinaryFraction(num, den) == num = den \/ den = 2 * num

Nearest(orig, num, den) == (2 * orig * num + den) \div (2 * den)

Tied(orig, num, den) ==
    2 * den * Nearest(orig, num, den) = 2 * orig * num + den

\* static_cast<int64_t>(orig * scale + 0.5) with scale = num / den
HalfUp(orig, num, den) ==
    IF /\ Tied(orig, num, den)
       /\ ~ BinaryFraction(num, den)
       /\ RoundsLow(orig, num, den)
    THEN Nearest(orig, num, den) - 1
    ELSE Nearest(orig, num, den)
=============================================================================
