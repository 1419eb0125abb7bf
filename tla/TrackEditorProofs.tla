--------------------------- MODULE TrackEditorProofs ---------------------------
(***************************************************************************)
(* AdjustTimeCodes of TrackEditor, for files of any length, any time codes *)
(* and any delay: frames are decoded and displayed in order, none is       *)
(* displayed before it is decoded, and the picture is delayed for that by  *)
(* no more than it must be.  Before it SetFPS, for any frame rates: a time *)
(* scale of its own choice keeps the movie within what a box can hold, and *)
(* gives the frames of a range the same length.                            *)
(***************************************************************************)
EXTENDS TrackEditor, Induction

-----------------------------------------------------------------------------
(* What the rounding of scaled time codes guarantees, whatever a double     *)
(* does to a product that lies half-way between two integers.               *)

LEMMA DivBounds ==
    ASSUME NEW a \in Int, NEW b \in Nat \ {0}
    PROVE  /\ a \div b \in Int
           /\ b * (a \div b) <= a
           /\ a < b * (a \div b) + b
  OBVIOUS

\* HalfUp is within one half of the exact product.
LEMMA HalfUpBounds ==
    ASSUME NEW orig \in Int, NEW num \in Int, NEW den \in Nat \ {0}
    PROVE  /\ HalfUp(orig, num, den) \in Int
           /\ 2 * den * HalfUp(orig, num, den) >= 2 * orig * num - den
           /\ 2 * den * HalfUp(orig, num, den) <= 2 * orig * num + den
  <1> DEFINE exact == 2 * orig * num + den
             nearest == Nearest(orig, num, den)
  <1>1. nearest \in Int /\ 2 * den * nearest <= exact
                        /\ exact < 2 * den * nearest + 2 * den
    <2>1. exact \in Int /\ 2 * den \in Nat \ {0}
      OBVIOUS
    <2>2. nearest = exact \div (2 * den)
      BY DEF Nearest
    <2> QED
      BY <2>1, <2>2, DivBounds
  <1>2. CASE HalfUp(orig, num, den) = nearest
    BY <1>1, <1>2
  <1>3. CASE HalfUp(orig, num, den) = nearest - 1
             /\ Tied(orig, num, den)
    <2>1. 2 * den * nearest = exact
      BY <1>3 DEF Tied
    <2>2. 2 * den * (nearest - 1) = 2 * den * nearest - 2 * den
      BY <1>1
    <2> QED
      BY <1>1, <1>3, <2>1, <2>2
  <1> QED
    BY <1>2, <1>3 DEF HalfUp

LEMMA HalfUpType ==
    ASSUME NEW orig \in Int, NEW num \in Nat, NEW den \in Nat \ {0}
    PROVE  HalfUp(orig, num, den) \in Int
  BY HalfUpBounds

LEMMA Monotone ==
    ASSUME NEW a \in Int, NEW b \in Int, NEW c \in Nat, a <= b
    PROVE  c * a <= c * b
  OBVIOUS

LEMMA Cancel ==
    ASSUME NEW a \in Int, NEW b \in Int, NEW c \in Nat \ {0}, c * a > c * b
    PROVE  a >= b + 1
  <1> SUFFICES ASSUME a <= b PROVE FALSE
    OBVIOUS
  <1> QED
    BY Monotone

\* A scale of one or more moves no time code back.
LEMMA StretchedCode ==
    ASSUME NEW orig \in Nat, NEW num \in Nat, NEW den \in Nat \ {0}, den <= num
    PROVE  HalfUp(orig, num, den) >= orig
  <1> DEFINE h == HalfUp(orig, num, den)
  <1>1. h \in Int /\ 2 * den * h >= 2 * orig * num - den
    BY HalfUpBounds
  <1>2. orig * num >= orig * den
    BY Monotone
  <1>3. (2 * den) * (h + 1) > (2 * den) * orig
    <2>1. (2 * den) * (h + 1) = 2 * den * h + 2 * den
      BY <1>1
    <2>2. (2 * den) * orig = 2 * (orig * den) /\ 2 * orig * num = 2 * (orig * num)
      OBVIOUS
    <2> HIDE DEF h
    <2> QED
      BY <1>1, <1>2, <2>1, <2>2
  <1>4. h + 1 >= orig + 1
    BY <1>1, <1>3, Cancel
  <1> QED
    BY <1>1, <1>4

\* The rounded images of two time codes are as far apart as the exact ones,
\* within one tick.
LEMMA ImageGap ==
    ASSUME NEW o \in Int, NEW p \in Int, NEW num \in Nat, NEW den \in Nat \ {0},
           p - o >= 2
    PROVE  2 * den * HalfUp(p, num, den)
             >= 2 * den * HalfUp(o, num, den) + 4 * num - 2 * den
  <1> DEFINE ho == HalfUp(o, num, den)
             hp == HalfUp(p, num, den)
  <1>1. ho \in Int /\ 2 * den * ho <= 2 * o * num + den
    BY HalfUpBounds
  <1>2. hp \in Int /\ 2 * den * hp >= 2 * p * num - den
    BY HalfUpBounds
  <1>3. num * p >= num * (o + 2)
    BY Monotone
  <1>4. 2 * p * num >= 2 * o * num + 4 * num
    <2>1. num * (o + 2) = o * num + 2 * num /\ num * p = p * num
      OBVIOUS
    <2>2. 2 * p * num = 2 * (p * num) /\ 2 * o * num = 2 * (o * num)
      OBVIOUS
    <2> QED
      BY <1>3, <2>1, <2>2
  <1> HIDE DEF ho, hp
  <1> QED
    BY <1>1, <1>2, <1>4 DEF ho, hp

\* A scale of one changes nothing.
LEMMA ScaleOfOne ==
    ASSUME NEW orig \in Int, NEW den \in Nat \ {0}
    PROVE  HalfUp(orig, den, den) = orig
  <1> DEFINE n == (2 * orig * den + den) \div (2 * den)
             b == 2 * den
  <1>1. HalfUp(orig, den, den) = n
    BY DEF HalfUp, BinaryFraction, Nearest
  <1>2. b \in Nat \ {0} /\ 2 * orig * den + den \in Int
    OBVIOUS
  <1>3. n \in Int /\ b * n <= 2 * orig * den + den
                  /\ 2 * orig * den + den < b * n + b
    BY <1>2, DivBounds
  <1>4. 2 * orig * den = b * orig /\ b * (orig + 1) = b * orig + b
                               /\ b * (n + 1) = b * n + b
    BY <1>3
  <1> HIDE DEF n
  <1>5. b * (orig + 1) > b * n /\ b * (n + 1) > b * orig
    BY <1>2, <1>3, <1>4
  <1>6. orig + 1 >= n + 1 /\ n + 1 >= orig + 1
    BY <1>2, <1>3, <1>5, Cancel
  <1> QED
    BY <1>1, <1>3, <1>6 DEF n

\* A scale of one or more keeps time codes two ticks apart.
LEMMA StretchedGap ==
    ASSUME NEW o \in Int, NEW p \in Int, NEW num \in Nat, NEW den \in Nat \ {0},
           den <= num, p - o >= 2
    PROVE  HalfUp(p, num, den) - HalfUp(o, num, den) >= 2
  <1> DEFINE ho == HalfUp(o, num, den)
             hp == HalfUp(p, num, den)
  <1>1. ho \in Int /\ hp \in Int
    BY HalfUpBounds
  <1>2. CASE num = den
    BY <1>2, ScaleOfOne
  <1>3. CASE num > den
    <2>1. 2 * den * hp >= 2 * den * ho + 4 * num - 2 * den
      BY ImageGap
    <2> HIDE DEF ho, hp
    <2>2. (2 * den) * hp > (2 * den) * (ho + 1)
      <3>1. (2 * den) * (ho + 1) = 2 * den * ho + 2 * den
        BY <1>1
      <3> QED
        BY <1>1, <1>3, <2>1, <3>1
    <2>3. hp >= ho + 2
      BY <1>1, <2>2, Cancel
    <2> QED
      BY <1>1, <2>3 DEF ho, hp
  <1> QED
    BY <1>2, <1>3

\* A scale of one or more keeps time codes in order.
LEMMA StretchedOrder ==
    ASSUME NEW o \in Int, NEW p \in Int, NEW num \in Nat, NEW den \in Nat \ {0},
           den <= num, p > o
    PROVE  HalfUp(p, num, den) > HalfUp(o, num, den)
  <1> DEFINE ho == HalfUp(o, num, den)
             hp == HalfUp(p, num, den)
  <1>1. ho \in Int /\ 2 * den * ho <= 2 * o * num + den
    BY HalfUpBounds
  <1>2. hp \in Int /\ 2 * den * hp >= 2 * p * num - den
    BY HalfUpBounds
  <1>3. CASE num = den
    BY <1>3, ScaleOfOne
  <1>4. CASE num > den
    <2>1. num * p >= num * (o + 1)
      BY Monotone
    <2>2. 2 * p * num >= 2 * o * num + 2 * num
      <3>1. num * (o + 1) = o * num + num /\ num * p = p * num
        OBVIOUS
      <3>2. 2 * p * num = 2 * (p * num) /\ 2 * o * num = 2 * (o * num)
        OBVIOUS
      <3> QED
        BY <2>1, <3>1, <3>2
    <2> HIDE DEF ho, hp
    <2>3. (2 * den) * hp > (2 * den) * ho
      BY <1>1, <1>2, <1>4, <2>2
    <2> QED
      BY <1>1, <1>2, <2>3, Cancel DEF ho, hp
  <1> QED
    BY <1>3, <1>4

\* A scale of one or less moves no time code forward, nor before zero.
LEMMA NarrowedCode ==
    ASSUME NEW orig \in Nat, NEW num \in Nat, NEW den \in Nat \ {0}, num <= den
    PROVE  HalfUp(orig, num, den) \in 0 .. orig
  <1> DEFINE h == HalfUp(orig, num, den)
  <1>1. /\ h \in Int
        /\ 2 * den * h >= 2 * orig * num - den
        /\ 2 * den * h <= 2 * orig * num + den
    BY HalfUpBounds
  <1>2. orig * num <= orig * den /\ orig * num >= 0
    BY Monotone
  <1>3. /\ (2 * den) * (orig + 1) > (2 * den) * h
        /\ (2 * den) * (h + 1) > (2 * den) * 0
    <2>1. /\ (2 * den) * (h + 1) = 2 * den * h + 2 * den
          /\ (2 * den) * (orig + 1) = 2 * (orig * den) + 2 * den
          /\ 2 * orig * num = 2 * (orig * num) /\ (2 * den) * 0 = 0
      BY <1>1
    <2> HIDE DEF h
    <2> QED
      BY <1>1, <1>2, <2>1
  <1>4. orig + 1 >= h + 1 /\ h + 1 >= 0 + 1
    BY <1>1, <1>3, Cancel
  <1> HIDE DEF h
  <1> QED
    BY <1>1, <1>4 DEF h

\* A scale of one half or more keeps apart what was two ticks apart.
LEMMA HalvedGap ==
    ASSUME NEW o \in Int, NEW p \in Int, NEW num \in Nat, NEW den \in Nat \ {0},
           den <= 2 * num, p - o >= 2
    PROVE  HalfUp(p, num, den) >= HalfUp(o, num, den) + 1
  <1> DEFINE ho == HalfUp(o, num, den)
             hp == HalfUp(p, num, den)
  <1>1. ho \in Int /\ hp \in Int
    BY HalfUpBounds
  <1>2. CASE den = 2 * num
    <2> DEFINE x == 2 * o * num + den
               y == 2 * p * num + den
               b == 2 * den
    <2>1. ho = x \div b /\ hp = y \div b
      BY <1>2 DEF HalfUp, BinaryFraction, Nearest
    <2>2. b \in Nat \ {0} /\ x \in Int /\ y \in Int
      OBVIOUS
    <2>3. b * ho <= x /\ y < b * hp + b
      BY <2>1, <2>2, DivBounds
    <2>4. num * p >= num * (o + 2)
      BY Monotone
    <2>5. y >= x + b
      <3>1. num * (o + 2) = o * num + 2 * num /\ num * p = p * num
        OBVIOUS
      <3>2. 2 * p * num = 2 * (p * num) /\ 2 * o * num = 2 * (o * num)
        OBVIOUS
      <3> QED
        BY <1>2, <2>4, <3>1, <3>2
    <2> HIDE DEF x, y, b, ho, hp
    <2>6. b * hp > b * ho
      BY <1>1, <2>2, <2>3, <2>5
    <2> QED
      BY <1>1, <2>2, <2>6, Cancel DEF ho, hp
  <1>3. CASE den < 2 * num
    <2>1. 2 * den * hp >= 2 * den * ho + 4 * num - 2 * den
      BY ImageGap
    <2> HIDE DEF ho, hp
    <2>2. (2 * den) * hp > (2 * den) * ho
      BY <1>1, <1>3, <2>1
    <2> QED
      BY <1>1, <2>2, Cancel DEF ho, hp
  <1> QED
    BY <1>2, <1>3

LEMMA StretchedZero ==
    ASSUME NEW num \in Nat, NEW den \in Nat \ {0}
    PROVE  HalfUp(0, num, den) \in Int /\ HalfUp(0, num, den) >= 0
  <1> DEFINE h == HalfUp(0, num, den)
  <1>1. h \in Int /\ 2 * den * h >= 2 * 0 * num - den
    BY HalfUpBounds
  <1>2. 2 * 0 * num = 0
    OBVIOUS
  <1>3. (2 * den) * (h + 1) = 2 * den * h + 2 * den /\ (2 * den) * 0 = 0
    BY <1>1
  <1> HIDE DEF h
  <1>4. (2 * den) * (h + 1) > (2 * den) * 0
    BY <1>1, <1>2, <1>3
  <1>5. h + 1 >= 0 + 1
    BY <1>1, <1>4, Cancel
  <1> QED
    BY <1>1, <1>5 DEF h

LEMMA PositiveFactor ==
    ASSUME NEW x \in Int, NEW den \in Nat \ {0},
           NEW off \in Nat \ {0}, NEW num \in Nat \ {0}, x * den >= off * num
    PROVE  x > 0
  <1>1. off * num >= off * 1
    BY Monotone
  <1>2. den * x > den * 0
    <2>1. den * x = x * den /\ off * 1 = off /\ off * num \in Int /\ den * 0 = 0
      OBVIOUS
    <2>2. x * den \in Int
      OBVIOUS
    <2> QED
      BY <1>1, <2>1, <2>2
  <1> QED
    BY <1>2, Cancel

-----------------------------------------------------------------------------
(* The inductive invariant.  t is the time code function a loop works on,  *)
(* l the locals of the loop and a the time codes asked for.                *)

Rising(a) == \A i \in Frame : a[i + 1] > a[i]
Apart(a)  == \A i \in Frame : a[i + 1] - a[i] >= 2

LoopRecord == [code : {"factor", "delay", "compress"}, n : 0 .. LastSlot + 1,
               prev : Int, offset : Nat, off : Nat \ {0}, factor : Nat,
               num : Nat \ {0}, den : Nat \ {0}]

\* time codes no loop has squeezed: those asked for, delayed or not
Shifted(t, a) ==
    /\ t \in [Slots -> Int]
    /\ t[0] \in Nat /\ Rising(t)
    /\ Apart(a) => Apart(t)

\* DelayTimeCodes: the frames before the n-th have been moved, but not by the
\* whole delay
DelayLoop(t, l, a) ==
    \/ l = Ctsf!Idle /\ t = a
    \/ l \in LoopRecord /\ l.code = "factor" /\ l.factor > 0
       /\ l.off = a[1] /\ t = a
    \/ /\ l \in LoopRecord /\ l.code = "delay" /\ l.n > 0 /\ l.den <= l.num
       /\ t \in [Slots -> Int]
       /\ \A i \in Slots :
             IF 0 < i /\ i < l.n
             THEN /\ t[i] = HalfUp(a[i], l.num, l.den)
                  /\ t[i] < a[i] + l.offset
             ELSE t[i] = a[i]

\* CompressTimeCodes: the frames before the n-th are in order, those after it
\* are as far apart as they were, and the n-th is two ticks or more from a
\* time code that is moved no further than the last frame was
Squeezed(t, l) ==
    /\ l.den <= 2 * l.num
    /\ l.prev = IF l.n = 1 THEN 0 ELSE t[l.n - 1]
    /\ l.n > 1 => t[1] > 0
    /\ \A i \in Frame : 0 < i /\ i < l.n - 1 => t[i] < t[i + 1]
    /\ \A i \in Frame : l.n <= i => t[i + 1] - t[i] >= 2
    /\ l.n <= LastSlot => \E o \in Nat : /\ t[l.n] - o >= 2
                                         /\ l.prev <= HalfUp(o, l.num, l.den) + 1

\* no frame so far was moved past the place of the next, which is still where
\* it was: moving it back cannot bring it up against the last one
Backward(t, l) ==
    /\ l.prev \in Nat /\ l.num <= l.den
    /\ \A i \in Frame : l.n <= i => t[i] < t[i + 1]
    /\ l.n <= LastSlot => l.prev < t[l.n]

NoLater(s, t) == \A i \in Slots : s[i] <= t[i]

CompressLoop(t, l, a) ==
    \/ l = Ctsf!Idle /\ Shifted(t, a)
    \/ /\ l \in LoopRecord /\ l.code = "compress" /\ l.n > 0
       /\ t \in [Slots -> Int]
       /\ Backward(t, l)
       /\ Apart(a) => l.prev \in Nat /\ Squeezed(t, l)

\* what a compressing loop leaves behind
Compressed(t, a) ==
    /\ t \in [Slots -> Int]
    /\ Apart(a) => t[1] > 0 /\ \A i \in Frame \ {0} : t[i] < t[i + 1]

\* the first frame displayed waits for initialDelay and no longer, and some
\* frame is displayed at the very tick it is decoded
Tight ==
    /\ cts[0] = initialDelay
    /\ initialDelay > 0 => \E n \in Slots : dts[ctsIndex[n]] = cts[n]

DelayEnough == initialDelay \in Nat
               /\ \A n \in Slots : dts[ctsIndex[n]] <= cts[n] + initialDelay

Stage ==
    /\ pc = "timed" => dts = asked /\ cts = asked
    /\ pc = "delayCTS" => dts = asked /\ DelayLoop(cts, loop, asked)
    /\ pc = "delayDTS" => Shifted(cts, asked) /\ DelayLoop(dts, loop, asked)
    /\ pc = "rebase" => Shifted(dts, asked) /\ Shifted(cts, asked)
    /\ pc = "compressCTS" => Shifted(dts, asked) /\ cts[0] = 0
                             /\ CompressLoop(cts, loop, asked)
    /\ pc = "measure" => Shifted(dts, asked) /\ cts[0] = 0
                         /\ Compressed(cts, asked)
    /\ pc = "compressDTS" => DelayEnough /\ cts[0] = 0
                             /\ Compressed(cts, asked)
                             /\ CompressLoop(dts, loop, asked)
    /\ pc = "remeasure" => DelayEnough /\ cts[0] = 0
                           /\ Compressed(cts, asked)
                           /\ Compressed(dts, asked)
    /\ pc \in {"adjusted", "edited"} =>
          /\ Compressed(dts, asked)
          /\ cts \in [Slots -> Int]
          /\ Apart(asked) => \A n \in Frame : cts[n] < cts[n + 1]
          /\ \A n \in Slots : dts[ctsIndex[n]] <= cts[n]
          /\ Tight

LoopPcs == {"delayCTS", "delayDTS", "compressCTS", "compressDTS"}
PCs     == {"closed", "loaded", "failed"} \cup Editing

Framing ==
    /\ pc \in PCs
    /\ pc \notin LoopPcs => loop = Ctsf!Idle
    /\ ctsIndex \in [Slots -> Slots]
    /\ compressDTS \in BOOLEAN /\ audioDelay \in Int
    /\ pc \in {"delayCTS", "delayDTS"} => audioDelay < 0
    /\ pc = "compressCTS" => audioDelay > 0

Inv == Framing /\ (Spaced(1) /\ pc \in Editing => Stage)

-----------------------------------------------------------------------------
(* The loops keep their part of the invariant. *)

LEMMA SlotsFacts ==
    /\ 0 \in Slots /\ 1 \in Slots /\ LastSlot \in Slots /\ Slots \subseteq Nat
    /\ \A i \in Frame : i \in Slots /\ i + 1 \in Slots
  BY LastSlotAssumption DEF Slots, Frame

LEMMA AskedIsShifted ==
    ASSUME NEW a \in [Slots -> Nat], Rising(a)
    PROVE  Shifted(a, a)
  <1>1. a \in [Slots -> Int]
    OBVIOUS
  <1> QED
    BY <1>1, SlotsFacts DEF Shifted

\* the locals after one more frame, once the factor is known, and raised
Advanced(l, code) == [l EXCEPT !.n = @ + 1, !.prev = code]

LEMMA FrameLocals ==
    ASSUME NEW l \in LoopRecord, l.n <= LastSlot, NEW code \in Int
    PROVE  /\ Advanced(l, code) \in LoopRecord
           /\ Advanced(l, code).n = l.n + 1 /\ Advanced(l, code).prev = code
           /\ Advanced(l, code).code = l.code
           /\ Advanced(l, code).offset = l.offset /\ Advanced(l, code).off = l.off
           /\ Advanced(l, code).num = l.num /\ Advanced(l, code).den = l.den
  <1>1. l.n + 1 \in 0 .. LastSlot + 1
    BY LastSlotAssumption DEF LoopRecord
  <1> DEFINE x == l.n + 1
             m == [l EXCEPT !.n = x, !.prev = code]
  <1> HIDE DEF x
  <1>2. /\ m \in LoopRecord /\ m.n = x /\ m.prev = code /\ m.code = l.code
        /\ m.offset = l.offset /\ m.off = l.off
        /\ m.num = l.num /\ m.den = l.den
    BY <1>1 DEF LoopRecord, x
  <1>3. m = Advanced(l, code)
    BY DEF Advanced, x
  <1> QED
    BY <1>2, <1>3 DEF x

LEMMA FactorLocals ==
    ASSUME NEW l \in LoopRecord, NEW x \in Nat \ {0}, NEW y \in Nat \ {0}
    PROVE  LET m == [code |-> "delay", n |-> 1, prev |-> 0, offset |-> l.offset,
                     off |-> l.off, factor |-> l.factor, num |-> x, den |-> y]
           IN  /\ m \in LoopRecord /\ m.code = "delay" /\ m.n = 1
               /\ m.num = x /\ m.den = y /\ m.offset = l.offset
  BY LastSlotAssumption DEF LoopRecord

LEMMA RaisedLocals ==
    ASSUME NEW l \in LoopRecord
    PROVE  LET m == [l EXCEPT !.factor = @ + 1]
           IN  /\ m \in LoopRecord /\ m.code = l.code /\ m.off = l.off
               /\ m.factor > 0
  BY DEF LoopRecord

LEMMA EnterDelayKeeps ==
    ASSUME NEW a \in [Slots -> Nat], Rising(a), NEW offset \in Nat
    PROVE  DelayLoop(a, [code |-> "factor", n |-> 0, prev |-> 0,
                         offset |-> offset, off |-> a[1], factor |-> 2,
                         num |-> 1, den |-> 1], a)
  <1> DEFINE l == [code |-> "factor", n |-> 0, prev |-> 0, offset |-> offset,
                   off |-> a[1], factor |-> 2, num |-> 1, den |-> 1]
  <1>1. a[1] \in Nat \ {0}
    <2>1. 0 \in Frame
      BY LastSlotAssumption DEF Frame
    <2> QED
      BY <2>1, SlotsFacts DEF Rising
  <1>2. l \in LoopRecord /\ l.code = "factor" /\ l.factor > 0 /\ l.off = a[1]
    BY <1>1, LastSlotAssumption DEF LoopRecord
  <1> HIDE DEF l
  <1>3. DelayLoop(a, l, a)
    BY <1>2 DEF DelayLoop
  <1> QED
    BY <1>3 DEF l

LEMMA DelayFrameKeeps ==
    ASSUME NEW a \in [Slots -> Nat], NEW t, NEW l,
           DelayLoop(t, l, a), l.code = "delay", l.n <= LastSlot,
           HalfUp(t[l.n], l.num, l.den) < t[l.n] + l.offset
    PROVE  DelayLoop([t EXCEPT ![l.n] = HalfUp(t[l.n], l.num, l.den)],
                     Advanced(l, HalfUp(t[l.n], l.num, l.den)),
                     a)
  <1> DEFINE h  == HalfUp(t[l.n], l.num, l.den)
             t2 == [t EXCEPT ![l.n] = h]
             l2 == Advanced(l, h)
  <1>1. /\ l \in LoopRecord /\ l.n > 0 /\ l.den <= l.num
        /\ t \in [Slots -> Int]
        /\ \A i \in Slots :
              IF 0 < i /\ i < l.n
              THEN t[i] = HalfUp(a[i], l.num, l.den) /\ t[i] < a[i] + l.offset
              ELSE t[i] = a[i]
    BY DEF DelayLoop, Ctsf!Idle
  <1>2. l.n \in Slots /\ l.n \in Nat /\ l.num \in Nat /\ l.den \in Nat \ {0}
    BY <1>1, LastSlotAssumption DEF LoopRecord, Slots
  <1>3. t[l.n] = a[l.n]
    BY <1>1, <1>2
  <1>4. h \in Int
    <2>1. t[l.n] \in Int
      BY <1>1, <1>2
    <2> QED
      BY <1>2, <2>1, HalfUpType
  <1>5. l2 \in LoopRecord /\ l2.n = l.n + 1 /\ l2.code = "delay"
        /\ l2.num = l.num /\ l2.den = l.den /\ l2.offset = l.offset
    <2>1. l \in LoopRecord
      BY <1>1
    <2> QED
      BY <1>4, <2>1, FrameLocals
  <1>6. t2 \in [Slots -> Int]
    BY <1>1, <1>2, <1>4
  <1>7. ASSUME NEW i \in Slots
        PROVE  IF 0 < i /\ i < l2.n
               THEN /\ t2[i] = HalfUp(a[i], l2.num, l2.den)
                    /\ t2[i] < a[i] + l2.offset
               ELSE t2[i] = a[i]
    <2>1. i \in Nat
      BY SlotsFacts
    <2>2. CASE i = l.n
      BY <1>1, <1>2, <1>3, <1>5, <2>2
    <2>3. CASE i # l.n
      <3>1. t2[i] = t[i]
        BY <1>1, <2>3
      <3>2. (0 < i /\ i < l2.n) <=> (0 < i /\ i < l.n)
        BY <1>2, <1>5, <2>1, <2>3
      <3> HIDE DEF t2, l2
      <3> QED
        BY <1>1, <1>5, <3>1, <3>2
    <2> QED
      BY <2>2, <2>3
  <1> HIDE DEF h, t2, l2
  <1>8. DelayLoop(t2, l2, a)
    BY <1>1, <1>2, <1>5, <1>6, <1>7 DEF DelayLoop
  <1> QED
    BY <1>8 DEF h, t2, l2

LEMMA DelayTailShifts ==
    ASSUME NEW a \in [Slots -> Nat], Rising(a), NEW t, NEW l,
           DelayLoop(t, l, a), l.code = "delay"
    PROVE  Shifted([i \in Slots |-> IF i < l.n THEN t[i] ELSE t[i] + l.offset], a)
  <1> DEFINE s == [i \in Slots |-> IF i < l.n THEN t[i] ELSE t[i] + l.offset]
  <1>1. /\ l \in LoopRecord /\ l.n > 0 /\ l.den <= l.num
        /\ t \in [Slots -> Int]
        /\ \A i \in Slots :
              IF 0 < i /\ i < l.n
              THEN t[i] = HalfUp(a[i], l.num, l.den) /\ t[i] < a[i] + l.offset
              ELSE t[i] = a[i]
    BY DEF DelayLoop, Ctsf!Idle
  <1>2. l.n \in Nat /\ l.num \in Nat /\ l.den \in Nat \ {0} /\ l.offset \in Nat
    BY <1>1, LastSlotAssumption DEF LoopRecord
  <1>3. s \in [Slots -> Int]
    BY <1>1, <1>2
  <1>4. s[0] = a[0]
    BY <1>1, <1>2, SlotsFacts
  <1>5. ASSUME NEW i \in Slots, i > 0
        PROVE  s[i] = IF i < l.n THEN HalfUp(a[i], l.num, l.den)
                                 ELSE a[i] + l.offset
    BY <1>1, <1>2, <1>5
  <1>6. ASSUME NEW i \in Frame
        PROVE  s[i + 1] > s[i]
    <2>1. /\ i \in Nat /\ i \in Slots /\ i + 1 \in Slots
          /\ a[i] \in Nat /\ a[i + 1] \in Nat /\ a[i + 1] > a[i]
      BY SlotsFacts DEF Rising, Frame
    <2>2. s[i] \in Int /\ s[i + 1] \in Int
      BY <1>3, <2>1
    <2>3. HalfUp(a[i + 1], l.num, l.den) >= a[i + 1]
      BY <1>1, <1>2, <2>1, StretchedCode
    <2>4. CASE i = 0
      <3> HIDE DEF s
      <3>1. s[i + 1] >= a[i + 1]
        BY <1>2, <1>5, <2>1, <2>3
      <3> QED
        BY <1>4, <2>1, <2>2, <2>4, <3>1
    <2>5. CASE i > 0 /\ i + 1 < l.n
      <3>1. HalfUp(a[i + 1], l.num, l.den) > HalfUp(a[i], l.num, l.den)
        BY <1>1, <1>2, <2>1, StretchedOrder
      <3> HIDE DEF s
      <3> QED
        BY <1>2, <1>5, <2>1, <2>5, <3>1
    <2>6. CASE i > 0 /\ i + 1 = l.n
      <3>1. s[i] = t[i] /\ t[i] < a[i] + l.offset /\ t[i] \in Int
        BY <1>1, <1>2, <2>1, <2>6
      <3>2. s[i + 1] = a[i + 1] + l.offset
        BY <1>1, <1>2, <2>1, <2>6
      <3> HIDE DEF s
      <3> QED
        BY <1>2, <2>1, <3>1, <3>2
    <2>7. CASE i > 0 /\ i >= l.n
      <3> HIDE DEF s
      <3> QED
        BY <1>2, <1>5, <2>1, <2>7
    <2> QED
      BY <1>2, <2>1, <2>4, <2>5, <2>6, <2>7
  <1>7. ASSUME Apart(a), NEW i \in Frame
        PROVE  s[i + 1] - s[i] >= 2
    <2>1. /\ i \in Nat /\ i \in Slots /\ i + 1 \in Slots
          /\ a[i] \in Nat /\ a[i + 1] \in Nat /\ a[i + 1] - a[i] >= 2
      BY <1>7, SlotsFacts DEF Apart, Frame
    <2>2. s[i] \in Int /\ s[i + 1] \in Int
      BY <1>3, <2>1
    <2>3. HalfUp(a[i + 1], l.num, l.den) >= a[i + 1]
      BY <1>1, <1>2, <2>1, StretchedCode
    <2>4. CASE i = 0
      <3> HIDE DEF s
      <3>1. s[i + 1] >= a[i + 1]
        BY <1>2, <1>5, <2>1, <2>3
      <3> QED
        BY <1>4, <2>1, <2>2, <2>4, <3>1
    <2>5. CASE i > 0 /\ i + 1 < l.n
      <3>1. HalfUp(a[i + 1], l.num, l.den) - HalfUp(a[i], l.num, l.den) >= 2
        BY <1>1, <1>2, <2>1, StretchedGap
      <3> HIDE DEF s
      <3> QED
        BY <1>2, <1>5, <2>1, <2>5, <3>1
    <2>6. CASE i > 0 /\ i + 1 = l.n
      <3>1. s[i] = t[i] /\ t[i] < a[i] + l.offset /\ t[i] \in Int
        BY <1>1, <1>2, <2>1, <2>6
      <3>2. s[i + 1] = a[i + 1] + l.offset
        BY <1>1, <1>2, <2>1, <2>6
      <3> HIDE DEF s
      <3> QED
        BY <1>2, <2>1, <3>1, <3>2
    <2>7. CASE i > 0 /\ i >= l.n
      <3> HIDE DEF s
      <3> QED
        BY <1>2, <1>5, <2>1, <2>7
    <2> QED
      BY <1>2, <2>1, <2>4, <2>5, <2>6, <2>7
  <1> HIDE DEF s
  <1>8. Shifted(s, a)
    BY <1>3, <1>4, <1>6, <1>7, SlotsFacts DEF Shifted, Apart, Rising
  <1> QED
    BY <1>8 DEF s

LEMMA EnterCompressKeeps ==
    ASSUME NEW a \in [Slots -> Nat], NEW t, Shifted(t, a), NEW offset \in Nat
    PROVE  CompressLoop(t,
               [code |-> "compress", n |-> 1, prev |-> 0, offset |-> offset,
                off |-> t[1], factor |-> 0,
                num |-> IF offset <= t[1] THEN t[1] ELSE 1,
                den |-> IF offset <= t[1] THEN offset + t[1] ELSE 2], a)
  <1> DEFINE num == IF offset <= t[1] THEN t[1] ELSE 1
             den == IF offset <= t[1] THEN offset + t[1] ELSE 2
             l == [code |-> "compress", n |-> 1, prev |-> 0, offset |-> offset,
                   off |-> t[1], factor |-> 0, num |-> num, den |-> den]
  <1>1. t \in [Slots -> Int] /\ t[0] \in Nat /\ t[1] \in Nat \ {0} /\ Rising(t)
    <2>1. 0 \in Frame
      BY LastSlotAssumption DEF Frame
    <2> QED
      BY <2>1, SlotsFacts DEF Shifted, Rising
  <1>2. /\ num \in Nat \ {0} /\ den \in Nat \ {0}
        /\ den <= 2 * num /\ num <= den
    BY <1>1
  <1> HIDE DEF num, den
  <1>3. /\ l \in LoopRecord /\ l.code = "compress" /\ l.n = 1 /\ l.prev = 0
        /\ l.num = num /\ l.den = den
    BY <1>1, <1>2, LastSlotAssumption DEF LoopRecord
  <1> HIDE DEF l
  <1>4. ASSUME Apart(a)
        PROVE  Squeezed(t, l)
    <2>1. Apart(t)
      BY <1>4 DEF Shifted
    <2>2. t[1] - 0 >= 2
      <3>1. 0 \in Frame
        BY LastSlotAssumption DEF Frame
      <3> QED
        BY <1>1, <2>1, <3>1 DEF Apart
    <2>3. HalfUp(0, num, den) \in Int /\ HalfUp(0, num, den) >= 0
      BY <1>2, StretchedZero
    <2>4. \E o \in Nat : t[1] - o >= 2 /\ 0 <= HalfUp(o, num, den) + 1
      BY <2>2, <2>3
    <2>5. \A i \in Frame : ~ (0 < i /\ i < l.n - 1)
      BY <1>3 DEF Frame
    <2> QED
      BY <1>2, <1>3, <2>1, <2>4, <2>5 DEF Squeezed, Apart
  <1>5. Backward(t, l)
    BY <1>1, <1>2, <1>3 DEF Backward, Rising
  <1>6. CompressLoop(t, l, a)
    BY <1>1, <1>3, <1>4, <1>5 DEF CompressLoop
  <1> QED
    BY <1>6 DEF l, num, den

\* the code CompressTimeCodes gives to the n-th frame
SqueezedCode(t, l) ==
    LET cur == HalfUp(t[l.n], l.num, l.den)
    IN  IF cur = l.prev THEN cur + 1 ELSE cur

LEMMA CompressFrameKeeps ==
    ASSUME NEW a \in [Slots -> Nat], NEW t, NEW l,
           CompressLoop(t, l, a), l.code = "compress", l.n <= LastSlot
    PROVE  /\ CompressLoop([t EXCEPT ![l.n] = SqueezedCode(t, l)],
                           Advanced(l, SqueezedCode(t, l)), a)
           /\ [t EXCEPT ![l.n] = SqueezedCode(t, l)][0] = t[0]
           /\ NoLater([t EXCEPT ![l.n] = SqueezedCode(t, l)], t)
  <1> DEFINE cur == HalfUp(t[l.n], l.num, l.den)
             c == SqueezedCode(t, l)
             t2 == [t EXCEPT ![l.n] = c]
             l2 == Advanced(l, c)
  <1>1. /\ l \in LoopRecord /\ l.n > 0 /\ t \in [Slots -> Int]
        /\ Apart(a) => l.prev \in Nat /\ Squeezed(t, l)
        /\ Backward(t, l)
    BY DEF CompressLoop, Ctsf!Idle
  <1>2. /\ l.n \in Slots /\ l.n \in Nat /\ l.prev \in Int
        /\ l.num \in Nat \ {0} /\ l.den \in Nat \ {0}
    BY <1>1, LastSlotAssumption DEF LoopRecord, Slots
  <1>3. t[l.n] \in Int
    BY <1>1, <1>2
  <1>4. cur \in Int
    BY <1>2, <1>3, HalfUpType
  <1> HIDE DEF cur
  <1>5. c \in Int /\ c <= cur + 1 /\ c >= cur /\ c # l.prev
    <2>1. c = IF cur = l.prev THEN cur + 1 ELSE cur
      BY DEF SqueezedCode, cur
    <2> HIDE DEF c
    <2> QED
      BY <1>2, <1>4, <2>1
  <1> HIDE DEF c
  <1>6. /\ l2 \in LoopRecord /\ l2.n = l.n + 1 /\ l2.prev = c
        /\ l2.code = "compress" /\ l2.num = l.num /\ l2.den = l.den
    BY <1>1, <1>5, FrameLocals
  <1>7. /\ t2 \in [Slots -> Int] /\ t2[l.n] = c
        /\ \A i \in Slots : i # l.n => t2[i] = t[i]
    BY <1>1, <1>2, <1>5
  <1> HIDE DEF t2, l2
  <1>8. ASSUME Apart(a)
        PROVE  c \in Nat /\ Squeezed(t2, l2)
    <2>1. /\ l.prev \in Nat /\ l.den <= 2 * l.num
          /\ l.prev = IF l.n = 1 THEN 0 ELSE t[l.n - 1]
          /\ l.n > 1 => t[1] > 0
      BY <1>1, <1>8 DEF Squeezed
    <2>2. \A i \in Frame : 0 < i /\ i < l.n - 1 => t[i] < t[i + 1]
      BY <1>1, <1>8 DEF Squeezed
    <2>3. \A i \in Frame : l.n <= i => t[i + 1] - t[i] >= 2
      BY <1>1, <1>8 DEF Squeezed
    <2>4. PICK o \in Nat : t[l.n] - o >= 2
                           /\ l.prev <= HalfUp(o, l.num, l.den) + 1
      BY <1>1, <1>8 DEF Squeezed
    <2>5. t[l.n] \in Nat
      BY <1>3, <2>4
    <2>6. cur >= l.prev
      <3>1. cur >= HalfUp(o, l.num, l.den) + 1
        BY <1>2, <1>3, <2>1, <2>4, HalvedGap DEF cur
      <3>2. HalfUp(o, l.num, l.den) \in Int
        BY <1>2, HalfUpType
      <3> QED
        BY <1>2, <1>4, <2>4, <3>1, <3>2
    <2>7. c > l.prev /\ c \in Nat
      BY <1>2, <1>4, <1>5, <2>1, <2>6
    <2>8. l2.prev = IF l2.n = 1 THEN 0 ELSE t2[l2.n - 1]
      BY <1>2, <1>6, <1>7, <1>1
    <2>9. t2[1] > 0
      BY <1>1, <1>2, <1>7, <2>1, <2>7, SlotsFacts
    <2>10. ASSUME NEW i \in Frame, 0 < i, i < l2.n - 1
           PROVE  t2[i] < t2[i + 1]
      <3>1. i \in Slots /\ i + 1 \in Slots /\ i \in Nat /\ i < l.n
        <4>1. i \in Nat /\ i \in Slots /\ i + 1 \in Slots
          BY SlotsFacts DEF Slots
        <4>2. i < l.n
          <5>1. l2.n = l.n + 1 /\ l.n \in Nat
            BY <1>2, <1>6
          <5> QED
            BY <2>10, <4>1, <5>1
        <4> QED
          BY <4>1, <4>2
      <3>2. t2[i] = t[i]
        BY <1>2, <1>7, <3>1
      <3>3. CASE i + 1 = l.n
        <4>1. l.prev = t[i]
          BY <1>2, <2>1, <2>10, <3>1, <3>3
        <4> QED
          BY <1>7, <2>7, <3>2, <3>3, <4>1
      <3>4. CASE i + 1 # l.n
        BY <1>2, <1>7, <2>2, <2>10, <3>1, <3>2, <3>4
      <3> QED
        BY <3>3, <3>4
    <2>11. ASSUME NEW i \in Frame, l2.n <= i
           PROVE  t2[i + 1] - t2[i] >= 2
      <3>1. i \in Slots /\ i + 1 \in Slots /\ i \in Nat /\ i > l.n
        <4>1. i \in Nat /\ i \in Slots /\ i + 1 \in Slots
          BY SlotsFacts DEF Slots
        <4>2. i > l.n
          <5>1. l2.n = l.n + 1 /\ l.n \in Nat
            BY <1>2, <1>6
          <5> QED
            BY <2>11, <4>1, <5>1
        <4> QED
          BY <4>1, <4>2
      <3> QED
        BY <1>2, <1>7, <2>3, <3>1
    <2>12. ASSUME l2.n <= LastSlot
           PROVE  \E p \in Nat : t2[l2.n] - p >= 2
                                 /\ l2.prev <= HalfUp(p, l2.num, l2.den) + 1
      <3>1. l.n \in Frame /\ l.n + 1 \in Slots
        BY <1>2, <1>6, <2>12, LastSlotAssumption DEF Frame, Slots
      <3>2. t2[l2.n] = t[l.n + 1]
        BY <1>2, <1>6, <1>7, <3>1
      <3>3. t[l.n + 1] - t[l.n] >= 2
        BY <1>2, <2>3, <3>1
      <3> QED
        BY <1>5, <1>6, <2>5, <3>2, <3>3 DEF cur
    <2> QED
      BY <1>6, <2>1, <2>7, <2>8, <2>9, <2>10, <2>11, <2>12 DEF Squeezed
  <1>9. c \in Nat /\ c <= t[l.n]
    <2>1. l.prev \in Nat /\ l.num <= l.den /\ l.prev < t[l.n]
      BY <1>1 DEF Backward
    <2>2. cur \in 0 .. t[l.n]
      <3>1. t[l.n] \in Nat /\ l.num \in Nat /\ l.den \in Nat \ {0}
        BY <1>2, <1>3, <2>1
      <3>2. HalfUp(t[l.n], l.num, l.den) \in 0 .. t[l.n]
        BY <2>1, <3>1, NarrowedCode
      <3> QED
        BY <3>2, Zenon DEF cur
    <2>3. c = IF cur = l.prev THEN cur + 1 ELSE cur
      BY DEF SqueezedCode, cur, c
    <2> QED
      BY <1>3, <2>1, <2>2, <2>3
  <1>10. Backward(t2, l2)
    <2>1. /\ l.num <= l.den
          /\ \A i \in Frame : l.n <= i => t[i] < t[i + 1]
      BY <1>1 DEF Backward
    <2>2. ASSUME NEW i \in Frame, l2.n <= i
          PROVE  t2[i] < t2[i + 1]
      <3>1. i \in Slots /\ i + 1 \in Slots /\ i \in Nat
        BY SlotsFacts DEF Slots
      <3>2. i # l.n /\ i + 1 # l.n /\ l.n <= i
        BY <1>2, <1>6, <2>2, <3>1
      <3> QED
        BY <1>7, <2>1, <3>1, <3>2
    <2>3. ASSUME l2.n <= LastSlot
          PROVE  l2.prev < t2[l2.n]
      <3>1. l.n \in Frame /\ l.n + 1 \in Slots /\ l.n + 1 # l.n
        BY <1>2, <1>6, <2>3, LastSlotAssumption DEF Frame, Slots
      <3>2. t2[l2.n] = t[l.n + 1]
        BY <1>6, <1>7, <3>1
      <3>3. t[l.n] < t[l.n + 1] /\ t[l.n + 1] \in Int
        BY <1>1, <1>2, <2>1, <3>1
      <3> QED
        BY <1>3, <1>6, <1>9, <3>2, <3>3
    <2> QED
      BY <1>6, <1>9, <2>1, <2>2, <2>3 DEF Backward
  <1>11. CompressLoop(t2, l2, a)
    BY <1>1, <1>2, <1>6, <1>7, <1>8, <1>10 DEF CompressLoop
  <1>12. t2[0] = t[0]
    BY <1>1, <1>2, <1>7, SlotsFacts
  <1>13. NoLater(t2, t)
    BY <1>1, <1>7, <1>9 DEF NoLater
  <1> QED
    BY <1>11, <1>12, <1>13 DEF t2, l2, c

LEMMA CompressTailOrders ==
    ASSUME NEW a \in [Slots -> Nat], NEW t, NEW l,
           CompressLoop(t, l, a), l.code = "compress",
           l.n <= LastSlot =>
               (t[l.n] - l.offset - l.prev) * l.den >= l.off * l.num
    PROVE  LET s == [i \in Slots |-> IF i < l.n THEN t[i] ELSE t[i] - l.offset]
           IN  Compressed(s, a) /\ s[0] = t[0] /\ NoLater(s, t)
  <1> DEFINE s == [i \in Slots |-> IF i < l.n THEN t[i] ELSE t[i] - l.offset]
  <1>1. /\ l \in LoopRecord /\ l.n > 0 /\ t \in [Slots -> Int]
        /\ Apart(a) => l.prev \in Nat /\ Squeezed(t, l)
    BY DEF CompressLoop, Ctsf!Idle
  <1>2. /\ l.n \in Nat /\ l.prev \in Int /\ l.offset \in Nat
        /\ l.off \in Nat \ {0} /\ l.num \in Nat \ {0} /\ l.den \in Nat \ {0}
    BY <1>1, LastSlotAssumption DEF LoopRecord
  <1>3. s \in [Slots -> Int] /\ s[0] = t[0]
    BY <1>1, <1>2, SlotsFacts
  <1>4. \A i \in Slots : s[i] = IF i < l.n THEN t[i] ELSE t[i] - l.offset
    OBVIOUS
  <1>5. \A i \in Slots : t[i] \in Int
    BY <1>1
  <1>6. ASSUME l.n <= LastSlot
        PROVE  l.n \in Slots /\ s[l.n] > l.prev
    <2>1. l.n \in Slots
      BY <1>2, <1>6 DEF Slots
    <2>2. t[l.n] \in Int
      BY <1>5, <2>1
    <2> DEFINE x == t[l.n] - l.offset - l.prev
    <2>3. x \in Int /\ x * l.den >= l.off * l.num
      BY <1>2, <1>6, <2>2
    <2> HIDE DEF x
    <2>4. x > 0
      BY <1>2, <2>3, PositiveFactor
    <2> QED
      BY <1>2, <1>4, <2>1, <2>2, <2>4 DEF x
  <1> HIDE DEF s
  <1>7. ASSUME Apart(a)
        PROVE  s[1] > 0 /\ \A i \in Frame \ {0} : s[i] < s[i + 1]
    <2>1. /\ l.prev \in Nat
          /\ l.prev = IF l.n = 1 THEN 0 ELSE t[l.n - 1]
          /\ l.n > 1 => t[1] > 0
      BY <1>1, <1>7 DEF Squeezed
    <2>2. \A i \in Frame : 0 < i /\ i < l.n - 1 => t[i] < t[i + 1]
      BY <1>1, <1>7 DEF Squeezed
    <2>3. \A i \in Frame : l.n <= i => t[i + 1] - t[i] >= 2
      BY <1>1, <1>7 DEF Squeezed
    <2>4. s[1] > 0
      <3>1. CASE l.n = 1
        BY <1>3, <1>6, <2>1, <3>1, LastSlotAssumption, SlotsFacts
      <3>2. CASE l.n > 1
        BY <1>4, <2>1, <3>2, SlotsFacts
      <3> QED
        BY <1>1, <1>2, <3>1, <3>2
    <2>5. ASSUME NEW i \in Frame \ {0}
          PROVE  s[i] < s[i + 1]
      <3>1. i \in Slots /\ i + 1 \in Slots /\ i \in Nat /\ i > 0 /\ i + 1 <= LastSlot
        BY LastSlotAssumption DEF Frame, Slots
      <3>2. CASE i + 1 < l.n
        BY <1>2, <1>4, <2>2, <3>1, <3>2
      <3>3. CASE i + 1 = l.n
        <4>1. s[i] = l.prev
          BY <1>2, <1>4, <2>1, <3>1, <3>3
        <4> QED
          BY <1>2, <1>6, <3>1, <3>3, <4>1
      <3>4. CASE i >= l.n
        <4>1. s[i] = t[i] - l.offset /\ s[i + 1] = t[i + 1] - l.offset
          BY <1>2, <1>4, <3>1, <3>4
        <4>2. t[i + 1] - t[i] >= 2
          BY <2>3, <3>4
        <4> QED
          BY <1>2, <1>5, <3>1, <4>1, <4>2
      <3> QED
        BY <1>2, <3>1, <3>2, <3>3, <3>4
    <2> QED
      BY <2>4, <2>5
  <1>8. Compressed(s, a) /\ s[0] = t[0] /\ NoLater(s, t)
    BY <1>2, <1>3, <1>4, <1>5, <1>7 DEF Compressed, NoLater
  <1> QED
    BY <1>8 DEF s

-----------------------------------------------------------------------------
(* The same, said of the actions on the composition times ... *)

LEMMA Instances ==
    /\ Ctsf!Slots = Slots /\ Dtsf!Slots = Slots /\ Dtsf!Idle = Ctsf!Idle
    /\ \A o, n, d : Ctsf!HalfUp(o, n, d) = HalfUp(o, n, d)
    /\ \A o, n, d : Dtsf!HalfUp(o, n, d) = HalfUp(o, n, d)
  BY DEF Slots, Ctsf!Slots, Dtsf!Slots, Ctsf!Idle, Dtsf!Idle,
         HalfUp, Nearest, Tied, BinaryFraction,
         Ctsf!HalfUp, Ctsf!Nearest, Ctsf!Tied, Ctsf!BinaryFraction,
         Dtsf!HalfUp, Dtsf!Nearest, Dtsf!Tied, Dtsf!BinaryFraction

LEMMA IdleIsNoLoop ==
    Ctsf!Idle.code = "idle" /\ Ctsf!Idle.n = 0
  BY DEF Ctsf!Idle

LEMMA CtsDelays ==
    ASSUME asked \in [Slots -> Nat], Rising(asked),
           DelayLoop(cts, loop, asked), NEW offset \in Nat,
           \/ Ctsf!EnterDelay(offset) \/ Ctsf!RaiseFactor
           \/ Ctsf!FixFactor \/ Ctsf!DelayFrame
    PROVE  DelayLoop(cts', loop', asked)
  <1>1. CASE Ctsf!EnterDelay(offset)
    <2>1. loop.code = "idle" /\ cts' = cts
      BY <1>1 DEF Ctsf!EnterDelay
    <2>2. cts = asked
      BY <2>1 DEF DelayLoop
    <2>3. loop' = [code |-> "factor", n |-> 0, prev |-> 0, offset |-> offset,
                   off |-> asked[1], factor |-> 2, num |-> 1, den |-> 1]
      BY <1>1, <2>2 DEF Ctsf!EnterDelay
    <2> QED
      BY <2>1, <2>2, <2>3, EnterDelayKeeps
  <1>2. CASE Ctsf!RaiseFactor
    <2>1. /\ loop.code = "factor" /\ cts' = cts
          /\ loop' = [loop EXCEPT !.factor = @ + 1]
      BY <1>2 DEF Ctsf!RaiseFactor
    <2>2. loop \in LoopRecord /\ loop.off = asked[1] /\ cts = asked
      BY <2>1, IdleIsNoLoop DEF DelayLoop
    <2>3. /\ loop' \in LoopRecord /\ loop'.code = "factor"
          /\ loop'.off = loop.off /\ loop'.factor > 0
      BY <2>1, <2>2, RaisedLocals
    <2> QED
      BY <2>1, <2>2, <2>3 DEF DelayLoop
  <1>3. CASE Ctsf!FixFactor
    <2> DEFINE x == loop.offset + loop.factor * loop.off
               y == loop.factor * loop.off
    <2>1. loop.code = "factor" /\ cts' = cts
      BY <1>3 DEF Ctsf!FixFactor
    <2>2. /\ loop \in LoopRecord /\ loop.factor > 0
          /\ loop.off = asked[1] /\ cts = asked
      BY <2>1, IdleIsNoLoop DEF DelayLoop
    <2>3. x \in Nat \ {0} /\ y \in Nat \ {0} /\ y <= x
      <3>1. /\ loop.offset \in Nat /\ loop.factor \in Nat \ {0}
            /\ loop.off \in Nat \ {0}
        BY <2>2 DEF LoopRecord
      <3>2. loop.factor * loop.off >= loop.factor * 1
        BY <3>1, Monotone
      <3> QED
        BY <3>1, <3>2
    <2>4. loop' = [code |-> "delay", n |-> 1, prev |-> 0, offset |-> loop.offset,
                   off |-> loop.off, factor |-> loop.factor, num |-> x, den |-> y]
      BY <1>3 DEF Ctsf!FixFactor, Ctsf!FactorNum, Ctsf!FactorDen
    <2> HIDE DEF x, y
    <2>5. /\ loop' \in LoopRecord /\ loop'.code = "delay" /\ loop'.n = 1
          /\ loop'.num = x /\ loop'.den = y
      BY <2>2, <2>3, <2>4, FactorLocals
    <2>6. asked \in [Slots -> Int]
      OBVIOUS
    <2>7. \A i \in Slots : ~ (0 < i /\ i < 1)
      BY SlotsFacts
    <2> QED
      BY <2>1, <2>2, <2>3, <2>5, <2>6, <2>7 DEF DelayLoop
  <1>4. CASE Ctsf!DelayFrame
    <2> DEFINE h == HalfUp(cts[loop.n], loop.num, loop.den)
    <2>1. h = Ctsf!DelayedCode
      BY Instances DEF Ctsf!DelayedCode
    <2>2. /\ loop.code = "delay" /\ loop.n <= LastSlot
          /\ ~ (h >= cts[loop.n] + loop.offset)
          /\ cts' = [cts EXCEPT ![loop.n] = h]
          /\ loop' = [loop EXCEPT !.n = @ + 1, !.prev = h]
      BY <1>4, <2>1 DEF Ctsf!DelayFrame, Ctsf!Delaying, Ctsf!FullyDelayed
    <2>3. h < cts[loop.n] + loop.offset
      <3>1. /\ loop \in LoopRecord /\ loop.n > 0
            /\ cts \in [Slots -> Int]
        BY <2>2, IdleIsNoLoop DEF DelayLoop
      <3>2. /\ loop.n \in Slots /\ loop.num \in Nat /\ loop.den \in Nat \ {0}
            /\ loop.offset \in Int
        BY <2>2, <3>1, LastSlotAssumption DEF LoopRecord, Slots
      <3>3. cts[loop.n] \in Int
        BY <3>1, <3>2
      <3>4. h \in Int
        BY <3>2, <3>3, HalfUpType
      <3> QED
        BY <2>2, <3>2, <3>3, <3>4
    <2>4. loop' = Advanced(loop, h)
      BY <2>2 DEF Advanced
    <2>5. /\ loop.code = "delay" /\ loop.n <= LastSlot
          /\ cts' = [cts EXCEPT ![loop.n] = h]
      BY <2>2
    <2>6. DelayLoop([cts EXCEPT ![loop.n] = h], Advanced(loop, h), asked)
      BY <2>3, <2>5, DelayFrameKeeps
    <2> QED
      BY <2>4, <2>5, <2>6
  <1> QED
    BY <1>1, <1>2, <1>3, <1>4

LEMMA CtsDelayed ==
    ASSUME asked \in [Slots -> Nat], Rising(asked),
           DelayLoop(cts, loop, asked), Ctsf!DelayTail
    PROVE  Shifted(cts', asked) /\ loop' = Ctsf!Idle
  <1>1. /\ loop.code = "delay" /\ loop' = Ctsf!Idle
        /\ cts' = [i \in Slots |-> IF i < loop.n THEN cts[i]
                                   ELSE cts[i] + loop.offset]
    BY Instances DEF Ctsf!DelayTail
  <1> QED
    BY <1>1, DelayTailShifts

LEMMA CtsCompresses ==
    ASSUME asked \in [Slots -> Nat], CompressLoop(cts, loop, asked),
           NEW offset \in Nat,
           Ctsf!EnterCompress(offset) \/ Ctsf!CompressFrame
    PROVE  CompressLoop(cts', loop', asked) /\ cts'[0] = cts[0]
  <1>1. CASE Ctsf!EnterCompress(offset)
    <2>1. loop.code = "idle" /\ cts' = cts
      BY <1>1 DEF Ctsf!EnterCompress
    <2>2. Shifted(cts, asked)
      BY <2>1 DEF CompressLoop
    <2>3. loop' = [code |-> "compress", n |-> 1, prev |-> 0, offset |-> offset,
                   off |-> cts[1], factor |-> 0,
                   num |-> IF offset <= cts[1] THEN cts[1] ELSE 1,
                   den |-> IF offset <= cts[1] THEN offset + cts[1] ELSE 2]
      BY <1>1 DEF Ctsf!EnterCompress
    <2>4. CompressLoop(cts, loop', asked)
      BY <2>2, <2>3, EnterCompressKeeps
    <2> QED
      BY <2>1, <2>4
  <1>2. CASE Ctsf!CompressFrame
    <2> DEFINE c == SqueezedCode(cts, loop)
    <2>1. c = Ctsf!CompressedCode
      BY Instances DEF Ctsf!CompressedCode, SqueezedCode
    <2> HIDE DEF c
    <2>2. /\ loop.code = "compress" /\ loop.n <= LastSlot
          /\ cts' = [cts EXCEPT ![loop.n] = c]
      BY <1>2, <2>1 DEF Ctsf!CompressFrame, Ctsf!Compressing
    <2>3. loop' = Advanced(loop, c)
      BY <1>2, <2>1 DEF Ctsf!CompressFrame, Advanced
    <2>4. /\ CompressLoop([cts EXCEPT ![loop.n] = c], Advanced(loop, c), asked)
          /\ [cts EXCEPT ![loop.n] = c][0] = cts[0]
      BY <2>2, CompressFrameKeeps DEF c
    <2> QED
      BY <2>2, <2>3, <2>4
  <1> QED
    BY <1>1, <1>2

LEMMA CtsCompressed ==
    ASSUME asked \in [Slots -> Nat], CompressLoop(cts, loop, asked),
           Ctsf!CompressTail
    PROVE  Compressed(cts', asked) /\ loop' = Ctsf!Idle /\ cts'[0] = cts[0]
  <1>1. /\ loop.code = "compress" /\ loop' = Ctsf!Idle
        /\ cts' = [i \in Slots |-> IF i < loop.n THEN cts[i]
                                   ELSE cts[i] - loop.offset]
    BY Instances DEF Ctsf!CompressTail
  <1>2. loop.n <= LastSlot =>
            (cts[loop.n] - loop.offset - loop.prev) * loop.den
              >= loop.off * loop.num
    BY DEF Ctsf!CompressTail, Ctsf!Compressing, Ctsf!CaughtUp
  <1> QED
    BY <1>1, <1>2, CompressTailOrders

-----------------------------------------------------------------------------
(* ... and of those on the decoding times. *)

LEMMA DtsDelays ==
    ASSUME asked \in [Slots -> Nat], Rising(asked),
           DelayLoop(dts, loop, asked), NEW offset \in Nat,
           \/ Dtsf!EnterDelay(offset) \/ Dtsf!RaiseFactor
           \/ Dtsf!FixFactor \/ Dtsf!DelayFrame
    PROVE  DelayLoop(dts', loop', asked)
  <1>1. CASE Dtsf!EnterDelay(offset)
    <2>1. loop.code = "idle" /\ dts' = dts
      BY <1>1 DEF Dtsf!EnterDelay
    <2>2. dts = asked
      BY <2>1 DEF DelayLoop
    <2>3. loop' = [code |-> "factor", n |-> 0, prev |-> 0, offset |-> offset,
                   off |-> asked[1], factor |-> 2, num |-> 1, den |-> 1]
      BY <1>1, <2>2 DEF Dtsf!EnterDelay
    <2> QED
      BY <2>1, <2>2, <2>3, EnterDelayKeeps
  <1>2. CASE Dtsf!RaiseFactor
    <2>1. /\ loop.code = "factor" /\ dts' = dts
          /\ loop' = [loop EXCEPT !.factor = @ + 1]
      BY <1>2 DEF Dtsf!RaiseFactor
    <2>2. loop \in LoopRecord /\ loop.off = asked[1] /\ dts = asked
      BY <2>1, IdleIsNoLoop DEF DelayLoop
    <2>3. /\ loop' \in LoopRecord /\ loop'.code = "factor"
          /\ loop'.off = loop.off /\ loop'.factor > 0
      BY <2>1, <2>2, RaisedLocals
    <2> QED
      BY <2>1, <2>2, <2>3 DEF DelayLoop
  <1>3. CASE Dtsf!FixFactor
    <2> DEFINE x == loop.offset + loop.factor * loop.off
               y == loop.factor * loop.off
    <2>1. loop.code = "factor" /\ dts' = dts
      BY <1>3 DEF Dtsf!FixFactor
    <2>2. /\ loop \in LoopRecord /\ loop.factor > 0
          /\ loop.off = asked[1] /\ dts = asked
      BY <2>1, IdleIsNoLoop DEF DelayLoop
    <2>3. x \in Nat \ {0} /\ y \in Nat \ {0} /\ y <= x
      <3>1. /\ loop.offset \in Nat /\ loop.factor \in Nat \ {0}
            /\ loop.off \in Nat \ {0}
        BY <2>2 DEF LoopRecord
      <3>2. loop.factor * loop.off >= loop.factor * 1
        BY <3>1, Monotone
      <3> QED
        BY <3>1, <3>2
    <2>4. loop' = [code |-> "delay", n |-> 1, prev |-> 0, offset |-> loop.offset,
                   off |-> loop.off, factor |-> loop.factor, num |-> x, den |-> y]
      BY <1>3 DEF Dtsf!FixFactor, Dtsf!FactorNum, Dtsf!FactorDen
    <2> HIDE DEF x, y
    <2>5. /\ loop' \in LoopRecord /\ loop'.code = "delay" /\ loop'.n = 1
          /\ loop'.num = x /\ loop'.den = y
      BY <2>2, <2>3, <2>4, FactorLocals
    <2>6. asked \in [Slots -> Int]
      OBVIOUS
    <2>7. \A i \in Slots : ~ (0 < i /\ i < 1)
      BY SlotsFacts
    <2> QED
      BY <2>1, <2>2, <2>3, <2>5, <2>6, <2>7 DEF DelayLoop
  <1>4. CASE Dtsf!DelayFrame
    <2> DEFINE h == HalfUp(dts[loop.n], loop.num, loop.den)
    <2>1. h = Dtsf!DelayedCode
      BY Instances DEF Dtsf!DelayedCode
    <2>2. /\ loop.code = "delay" /\ loop.n <= LastSlot
          /\ ~ (h >= dts[loop.n] + loop.offset)
          /\ dts' = [dts EXCEPT ![loop.n] = h]
          /\ loop' = [loop EXCEPT !.n = @ + 1, !.prev = h]
      BY <1>4, <2>1 DEF Dtsf!DelayFrame, Dtsf!Delaying, Dtsf!FullyDelayed
    <2>3. h < dts[loop.n] + loop.offset
      <3>1. /\ loop \in LoopRecord /\ loop.n > 0
            /\ dts \in [Slots -> Int]
        BY <2>2, IdleIsNoLoop DEF DelayLoop
      <3>2. /\ loop.n \in Slots /\ loop.num \in Nat /\ loop.den \in Nat \ {0}
            /\ loop.offset \in Int
        BY <2>2, <3>1, LastSlotAssumption DEF LoopRecord, Slots
      <3>3. dts[loop.n] \in Int
        BY <3>1, <3>2
      <3>4. h \in Int
        BY <3>2, <3>3, HalfUpType
      <3> QED
        BY <2>2, <3>2, <3>3, <3>4
    <2>4. loop' = Advanced(loop, h)
      BY <2>2 DEF Advanced
    <2>5. /\ loop.code = "delay" /\ loop.n <= LastSlot
          /\ dts' = [dts EXCEPT ![loop.n] = h]
      BY <2>2
    <2>6. DelayLoop([dts EXCEPT ![loop.n] = h], Advanced(loop, h), asked)
      BY <2>3, <2>5, DelayFrameKeeps
    <2> QED
      BY <2>4, <2>5, <2>6
  <1> QED
    BY <1>1, <1>2, <1>3, <1>4

LEMMA DtsDelayed ==
    ASSUME asked \in [Slots -> Nat], Rising(asked),
           DelayLoop(dts, loop, asked), Dtsf!DelayTail
    PROVE  Shifted(dts', asked) /\ loop' = Ctsf!Idle
  <1>1. /\ loop.code = "delay" /\ loop' = Ctsf!Idle
        /\ dts' = [i \in Slots |-> IF i < loop.n THEN dts[i]
                                   ELSE dts[i] + loop.offset]
    BY Instances DEF Dtsf!DelayTail
  <1> QED
    BY <1>1, DelayTailShifts

LEMMA DtsCompresses ==
    ASSUME asked \in [Slots -> Nat], CompressLoop(dts, loop, asked),
           NEW offset \in Nat,
           Dtsf!EnterCompress(offset) \/ Dtsf!CompressFrame
    PROVE  CompressLoop(dts', loop', asked) /\ NoLater(dts', dts)
  <1>1. CASE Dtsf!EnterCompress(offset)
    <2>1. loop.code = "idle" /\ dts' = dts
      BY <1>1 DEF Dtsf!EnterCompress
    <2>2. Shifted(dts, asked)
      BY <2>1 DEF CompressLoop
    <2>3. loop' = [code |-> "compress", n |-> 1, prev |-> 0, offset |-> offset,
                   off |-> dts[1], factor |-> 0,
                   num |-> IF offset <= dts[1] THEN dts[1] ELSE 1,
                   den |-> IF offset <= dts[1] THEN offset + dts[1] ELSE 2]
      BY <1>1 DEF Dtsf!EnterCompress
    <2>4. CompressLoop(dts, loop', asked)
      BY <2>2, <2>3, EnterCompressKeeps
    <2>5. NoLater(dts, dts)
      BY <2>2 DEF NoLater, Shifted
    <2> QED
      BY <2>1, <2>4, <2>5
  <1>2. CASE Dtsf!CompressFrame
    <2> DEFINE c == SqueezedCode(dts, loop)
    <2>1. c = Dtsf!CompressedCode
      BY Instances DEF Dtsf!CompressedCode, SqueezedCode
    <2> HIDE DEF c
    <2>2. /\ loop.code = "compress" /\ loop.n <= LastSlot
          /\ dts' = [dts EXCEPT ![loop.n] = c]
      BY <1>2, <2>1 DEF Dtsf!CompressFrame, Dtsf!Compressing
    <2>3. loop' = Advanced(loop, c)
      BY <1>2, <2>1 DEF Dtsf!CompressFrame, Advanced
    <2>4. /\ CompressLoop([dts EXCEPT ![loop.n] = c], Advanced(loop, c), asked)
          /\ NoLater([dts EXCEPT ![loop.n] = c], dts)
      BY <2>2, CompressFrameKeeps DEF c
    <2> QED
      BY <2>2, <2>3, <2>4
  <1> QED
    BY <1>1, <1>2

LEMMA DtsCompressed ==
    ASSUME asked \in [Slots -> Nat], CompressLoop(dts, loop, asked),
           Dtsf!CompressTail
    PROVE  Compressed(dts', asked) /\ loop' = Ctsf!Idle /\ NoLater(dts', dts)
  <1>1. /\ loop.code = "compress" /\ loop' = Ctsf!Idle
        /\ dts' = [i \in Slots |-> IF i < loop.n THEN dts[i]
                                   ELSE dts[i] - loop.offset]
    BY Instances DEF Dtsf!CompressTail
  <1>2. loop.n <= LastSlot =>
            (dts[loop.n] - loop.offset - loop.prev) * loop.den
              >= loop.off * loop.num
    BY DEF Dtsf!CompressTail, Dtsf!Compressing, Dtsf!CaughtUp
  <1> QED
    BY <1>1, <1>2, CompressTailOrders

-----------------------------------------------------------------------------
(* Between the loops *)

LEMMA TicksSign ==
    ASSUME NEW ms \in Int, NEW scale \in Nat
    PROVE  /\ ms < 0 => -InTicks(ms, scale) \in Nat
           /\ ms > 0 => InTicks(ms, scale) \in Nat
  <1> DEFINE x == ms * scale
  <1>1. x \in Int /\ (ms < 0 => x <= 0) /\ (ms > 0 => x >= 0)
    OBVIOUS
  <1> DEFINE ticks == Truncated(x, 1000)
  <1>2. ticks \in Int /\ (ms < 0 => ticks <= 0) /\ (ms > 0 => ticks >= 0)
    <2> HIDE DEF x
    <2> QED
      BY <1>1 DEF Truncated
  <1>3. InTicks(ms, scale) \in {ticks,
              IF ticks > 0 THEN ticks - 1 ELSE IF ticks < 0 THEN ticks + 1 ELSE 0}
    <2> HIDE DEF x
    <2>1. InTicks(ms, scale) =
             IF ticks # 0 /\ 1000 * ticks = x /\ TicksShort(ms, scale)
             THEN IF ticks > 0 THEN ticks - 1 ELSE ticks + 1
             ELSE ticks
      BY DEF InTicks, x
    <2> HIDE DEF ticks
    <2> QED
      BY <1>2, <2>1
  <1> HIDE DEF ticks
  <1> QED
    BY <1>2, <1>3

LEMMA SpacedFacts ==
    ASSUME Spaced(1)
    PROVE  asked \in [Slots -> Nat] /\ Rising(asked) /\ timeScale \in Nat
  <1>1. /\ timeScale \in Nat /\ asked \in [Slots -> Nat]
        /\ \A i \in Frame : asked[i + 1] - asked[i] >= 1
    BY DEF Spaced
  <1>2. ASSUME NEW i \in Frame
        PROVE  asked[i + 1] > asked[i]
    <2>1. asked[i] \in Nat /\ asked[i + 1] \in Nat
      BY <1>1, SlotsFacts
    <2> QED
      BY <1>1, <2>1
  <1> QED
    BY <1>1, <1>2 DEF Rising

LEMMA ShiftedIsCompressed ==
    ASSUME NEW t, NEW a, Shifted(t, a)
    PROVE  Compressed(t, a)
  <1>1. /\ t \in [Slots -> Int] /\ t[0] \in Nat /\ t[1] > t[0] /\ t[1] \in Int
        /\ Rising(t) /\ (Apart(a) => Apart(t))
    <2>1. 0 \in Frame
      BY LastSlotAssumption DEF Frame
    <2> QED
      BY <2>1, SlotsFacts DEF Shifted, Rising
  <1>2. ASSUME Apart(a), NEW i \in Frame \ {0}
        PROVE  t[i] < t[i + 1]
    <2>1. t[i] \in Int /\ t[i + 1] \in Int /\ t[i + 1] - t[i] >= 2
      BY <1>1, <1>2, SlotsFacts DEF Apart
    <2> QED
      BY <2>1
  <1> QED
    BY <1>1, <1>2 DEF Compressed

LEMMA RebasedIsShifted ==
    ASSUME NEW t, NEW a, Shifted(t, a)
    PROVE  LET s == [n \in Slots |-> t[n] + (-t[0])]
           IN  Shifted(s, a) /\ s[0] = 0
  <1> DEFINE s == [n \in Slots |-> t[n] + (-t[0])]
  <1>1. /\ t \in [Slots -> Int] /\ t[0] \in Nat /\ t[1] > t[0] /\ t[1] \in Int
        /\ Rising(t) /\ (Apart(a) => Apart(t))
    <2>1. 0 \in Frame
      BY LastSlotAssumption DEF Frame
    <2> QED
      BY <2>1, SlotsFacts DEF Shifted, Rising
  <1>2. s \in [Slots -> Int] /\ s[0] = 0 /\ s[1] > 0
    BY <1>1, SlotsFacts
  <1>3. ASSUME Apart(a), NEW i \in Frame
        PROVE  s[i + 1] - s[i] >= 2
    <2>1. /\ i \in Slots /\ i + 1 \in Slots
          /\ t[i] \in Int /\ t[i + 1] \in Int /\ t[i + 1] - t[i] >= 2
      BY <1>1, <1>3, SlotsFacts DEF Apart
    <2> QED
      BY <1>1, <2>1
  <1>4. ASSUME NEW i \in Frame
        PROVE  s[i + 1] > s[i]
    <2>1. /\ i \in Slots /\ i + 1 \in Slots
          /\ t[i] \in Int /\ t[i + 1] \in Int /\ t[i + 1] > t[i]
      BY <1>1, SlotsFacts DEF Rising
    <2> QED
      BY <1>1, <2>1
  <1> HIDE DEF s
  <1>5. Shifted(s, a)
    BY <1>2, <1>3, <1>4 DEF Shifted, Apart, Rising
  <1> QED
    BY <1>2, <1>5 DEF s

LEMMA MovedInOrder ==
    ASSUME NEW c, NEW a, Compressed(c, a), c[0] = 0, NEW d \in Int
    PROVE  LET s == [n \in Slots |-> c[n] + d]
           IN  /\ s \in [Slots -> Int]
               /\ Apart(a) => \A n \in Frame : s[n] < s[n + 1]
  <1> DEFINE s == [n \in Slots |-> c[n] + d]
  <1>1. /\ c \in [Slots -> Int]
        /\ Apart(a) => c[1] > 0 /\ \A i \in Frame \ {0} : c[i] < c[i + 1]
    BY DEF Compressed
  <1>2. ASSUME Apart(a), NEW n \in Frame
        PROVE  s[n] < s[n + 1]
    <2>1. n \in Slots /\ n + 1 \in Slots /\ c[n] \in Int /\ c[n + 1] \in Int
      BY <1>1, SlotsFacts
    <2>2. c[n] < c[n + 1]
      BY <1>1, <1>2
    <2> QED
      BY <2>1, <2>2
  <1> QED
    BY <1>1, <1>2

LEMMA DelaySuffices ==
    ASSUME dts \in [Slots -> Int], cts \in [Slots -> Int],
           ctsIndex \in [Slots -> Slots],
           NEW d \in Lateness \cup {0}, IsInitialDelay(d)
    PROVE  d \in Nat /\ \A n \in Slots : dts[ctsIndex[n]] <= cts[n] + d
  <1>1. \A n \in Slots : dts[ctsIndex[n]] - cts[n] \in Int
    OBVIOUS
  <1>2. d \in Int
    BY <1>1 DEF Lateness
  <1>3. d >= 0 /\ \A n \in Slots : dts[ctsIndex[n]] - cts[n] <= d
    BY DEF Lateness, IsInitialDelay
  <1>4. ASSUME NEW n \in Slots
        PROVE  dts[ctsIndex[n]] <= cts[n] + d
    <2>1. dts[ctsIndex[n]] \in Int /\ cts[n] \in Int
      OBVIOUS
    <2>2. dts[ctsIndex[n]] - cts[n] <= d
      BY <1>3
    <2> QED
      BY <1>2, <2>1, <2>2
  <1> QED
    BY <1>2, <1>3, <1>4

-----------------------------------------------------------------------------
(* The invariant is inductive. *)

LEMMA Initially == Init => Inv
  <1> SUFFICES ASSUME Init PROVE Inv
    OBVIOUS
  <1>1. /\ ctsIndex = [i \in Slots |-> i] /\ loop = Ctsf!Idle
        /\ compressDTS = FALSE /\ audioDelay = 0 /\ pc = "closed"
    BY DEF Init
  <1>2. ctsIndex \in [Slots -> Slots] /\ compressDTS \in BOOLEAN /\ audioDelay \in Int
    <2>1. ctsIndex \in [Slots -> Slots]
      BY <1>1
    <2>2. compressDTS \in BOOLEAN
      BY <1>1
    <2>3. audioDelay \in Int
      BY <1>1
    <2> QED
      BY <2>1, <2>2, <2>3
  <1>3. pc \in PCs /\ pc \notin Editing
        /\ pc \notin {"delayCTS", "delayDTS", "compressCTS"}
    BY <1>1 DEF PCs, Editing
  <1> QED
    BY <1>1, <1>2, <1>3 DEF Inv, Framing

LEMMA OpenKeeps ==
    ASSUME Inv, Open
    PROVE  Inv'
  <1>1. /\ pc' = "loaded" /\ loop' = loop /\ loop = Ctsf!Idle
        /\ compressDTS' \in BOOLEAN /\ audioDelay' \in Int
    BY DelaysAssumption DEF Open, Inv, Framing, LoopPcs
  <1>2. ctsIndex' \in [Slots -> Slots]
    BY DEF Open, SortedOrders
  <1> QED
    BY <1>1, <1>2 DEF Inv, Framing, PCs, LoopPcs, Editing

LEMMA TimesGiven ==
    ASSUME Inv, pc = "loaded",
           UNCHANGED <<ctsIndex, options, loop>>,
           pc' = "failed" \/ (pc' = "timed" /\ dts' = asked' /\ cts' = asked')
    PROVE  Inv'
  <1>1. Framing'
    BY DEF Inv, Framing, PCs, LoopPcs, Editing, options
  <1>2. pc' \in Editing => Stage'
    BY DEF Editing, Stage
  <1> QED
    BY <1>1, <1>2 DEF Inv

LEMMA SetFPSKeeps ==
    ASSUME Inv, NEW fps \in FrameRateLists, SetFPS(fps)
    PROVE  Inv'
  <1>1. pc = "loaded" /\ UNCHANGED <<ctsIndex, options, loop>>
    BY DEF SetFPS
  <1>2. pc' = "failed" \/ (pc' = "timed" /\ dts' = asked' /\ cts' = asked')
    BY DEF SetFPS, GiveTimes
  <1> QED
    BY <1>1, <1>2, TimesGiven

LEMMA SetTimeCodesKeeps ==
    ASSUME Inv, NEW list \in TimeCodeLists, SetTimeCodes(list)
    PROVE  Inv'
  <1>1. pc = "loaded" /\ UNCHANGED <<ctsIndex, options, loop>>
    BY DEF SetTimeCodes
  <1>2. pc' = "failed" \/ (pc' = "timed" /\ dts' = asked' /\ cts' = asked')
    BY DEF SetTimeCodes, GiveTimes
  <1> QED
    BY <1>1, <1>2, TimesGiven

LEMMA KeepTimeCodesKeeps ==
    ASSUME Inv, KeepTimeCodes
    PROVE  Inv'
  <1>1. pc = "loaded" /\ UNCHANGED <<ctsIndex, options, loop>>
    BY DEF KeepTimeCodes
  <1>2. pc' = "timed" /\ dts' = asked' /\ cts' = asked'
    BY DEF KeepTimeCodes, GiveTimes
  <1> QED
    BY <1>1, <1>2, TimesGiven

\* what holds in every step of AdjustTimeCodes
LEMMA WhileAdjusting ==
    ASSUME Inv, Unadjusted, pc \in Editing, pc' \in Editing,
           pc' \in {"delayCTS", "delayDTS"} => audioDelay < 0,
           pc' = "compressCTS" => audioDelay > 0,
           pc' \notin LoopPcs => loop' = Ctsf!Idle,
           Spaced(1) => Stage'
    PROVE  Inv'
  <1>1. /\ UNCHANGED <<asked, timeScale, ctsIndex, audioDelay>>
        /\ compressDTS' = compressDTS
    BY DEF Unadjusted, options, history
  <1>2. Framing'
    BY <1>1 DEF Inv, Framing, PCs
  <1>3. Spaced(1)' => Spaced(1)
    BY <1>1 DEF Spaced
  <1> QED
    BY <1>2, <1>3 DEF Inv

LEMMA AskedKept ==
    ASSUME Unadjusted
    PROVE  UNCHANGED <<asked, timeScale, ctsIndex, audioDelay, compressDTS>>
  BY DEF Unadjusted, options, history

LEMMA BeginAdjustKeeps ==
    ASSUME Inv, BeginAdjust
    PROVE  Inv'
  <1>1. /\ pc = "timed" /\ Unadjusted /\ UNCHANGED <<dts, cts, initialDelay, loop>>
        /\ pc' = IF compressDTS /\ audioDelay < 0 THEN "delayCTS" ELSE "rebase"
    BY DEF BeginAdjust, times
  <1>2. loop = Ctsf!Idle
    BY <1>1 DEF Inv, Framing, LoopPcs
  <1>3. ASSUME Spaced(1)
        PROVE  Stage'
    <2>1. dts' = asked' /\ cts' = asked' /\ asked' = asked
      BY <1>1, <1>3, AskedKept DEF Inv, Stage, Editing
    <2>2. Shifted(asked, asked)
      BY <1>3, SpacedFacts, AskedIsShifted
    <2>3. DelayLoop(asked, Ctsf!Idle, asked)
      BY DEF DelayLoop
    <2> QED
      BY <1>1, <1>2, <2>1, <2>2, <2>3 DEF Stage
  <1> QED
    BY <1>1, <1>2, <1>3, WhileAdjusting DEF Editing

LEMMA DelayCTSKeeps ==
    ASSUME Inv, DelayCTS
    PROVE  Inv'
  <1> DEFINE offset == -AudioDelayInTimeScale
  <1>1. /\ pc = "delayCTS" /\ Unadjusted /\ dts' = dts /\ asked' = asked
    BY AskedKept DEF DelayCTS
  <1>2. audioDelay \in Int /\ audioDelay < 0
    BY <1>1 DEF Inv, Framing
  <1>3. ASSUME Spaced(1)
        PROVE  /\ asked \in [Slots -> Nat] /\ Rising(asked) /\ offset \in Nat
               /\ dts = asked /\ DelayLoop(cts, loop, asked)
    <2>1. dts = asked /\ DelayLoop(cts, loop, asked)
      BY <1>1, <1>3 DEF Inv, Stage, Editing
    <2> QED
      BY <1>2, <1>3, <2>1, SpacedFacts, TicksSign DEF AudioDelayInTimeScale
  <1>4. CASE /\ \/ Ctsf!EnterDelay(offset) \/ Ctsf!RaiseFactor
                \/ Ctsf!FixFactor \/ Ctsf!DelayFrame
             /\ pc' = "delayCTS"
    <2> HIDE DEF offset
    <2>1. ASSUME Spaced(1)
          PROVE  Stage'
      <3>1. DelayLoop(cts', loop', asked)
        BY <1>3, <1>4, <2>1, CtsDelays
      <3>2. dts' = asked
        BY <1>1, <1>3, <2>1
      <3> QED
        BY <1>1, <1>4, <3>1, <3>2 DEF Stage
    <2> QED
      BY <1>1, <1>2, <1>4, <2>1, WhileAdjusting DEF Editing, LoopPcs
  <1>5. CASE Ctsf!DelayTail /\ pc' = "delayDTS"
    <2> HIDE DEF offset
    <2>1. ASSUME Spaced(1)
          PROVE  Stage'
      <3>1. Shifted(cts', asked) /\ loop' = Ctsf!Idle
        BY <1>3, <1>5, <2>1, CtsDelayed
      <3>2. DelayLoop(dts', loop', asked)
        BY <1>1, <1>3, <2>1, <3>1 DEF DelayLoop
      <3> QED
        BY <1>1, <1>5, <3>1, <3>2 DEF Stage
    <2> QED
      BY <1>1, <1>2, <1>5, <2>1, WhileAdjusting DEF Editing, LoopPcs
  <1> QED
    BY <1>4, <1>5 DEF DelayCTS

LEMMA DelayDTSKeeps ==
    ASSUME Inv, DelayDTS
    PROVE  Inv'
  <1> DEFINE offset == -AudioDelayInTimeScale
  <1>1. /\ pc = "delayDTS" /\ Unadjusted /\ cts' = cts /\ asked' = asked
    BY AskedKept DEF DelayDTS
  <1>2. audioDelay \in Int /\ audioDelay < 0
    BY <1>1 DEF Inv, Framing
  <1>3. ASSUME Spaced(1)
        PROVE  /\ asked \in [Slots -> Nat] /\ Rising(asked) /\ offset \in Nat
               /\ Shifted(cts, asked) /\ DelayLoop(dts, loop, asked)
    <2>1. Shifted(cts, asked) /\ DelayLoop(dts, loop, asked)
      BY <1>1, <1>3 DEF Inv, Stage, Editing
    <2> QED
      BY <1>2, <1>3, <2>1, SpacedFacts, TicksSign DEF AudioDelayInTimeScale
  <1>4. CASE /\ \/ Dtsf!EnterDelay(offset) \/ Dtsf!RaiseFactor
                \/ Dtsf!FixFactor \/ Dtsf!DelayFrame
             /\ pc' = "delayDTS"
    <2> HIDE DEF offset
    <2>1. ASSUME Spaced(1)
          PROVE  Stage'
      <3>1. DelayLoop(dts', loop', asked)
        BY <1>3, <1>4, <2>1, DtsDelays
      <3>2. Shifted(cts', asked)
        BY <1>1, <1>3, <2>1
      <3> QED
        BY <1>1, <1>4, <3>1, <3>2 DEF Stage
    <2> QED
      BY <1>1, <1>2, <1>4, <2>1, WhileAdjusting DEF Editing, LoopPcs
  <1>5. CASE Dtsf!DelayTail /\ pc' = "rebase"
    <2> HIDE DEF offset
    <2>1. loop' = Ctsf!Idle
      BY <1>5, Instances DEF Dtsf!DelayTail
    <2>2. ASSUME Spaced(1)
          PROVE  Stage'
      <3>1. Shifted(dts', asked)
        BY <1>3, <1>5, <2>2, DtsDelayed
      <3>2. Shifted(cts', asked)
        BY <1>1, <1>3, <2>2
      <3> QED
        BY <1>1, <1>5, <3>1, <3>2 DEF Stage
    <2> QED
      BY <1>1, <1>5, <2>1, <2>2, WhileAdjusting DEF Editing
  <1> QED
    BY <1>4, <1>5 DEF DelayDTS

LEMMA RebaseKeeps ==
    ASSUME Inv, Rebase
    PROVE  Inv'
  <1>1. /\ pc = "rebase" /\ Unadjusted /\ dts' = dts /\ loop' = loop
        /\ asked' = asked
        /\ cts' = [n \in Slots |-> cts[n] + (-cts[0])]
        /\ pc' = IF compressDTS /\ audioDelay > 0 THEN "compressCTS" ELSE "measure"
    BY AskedKept DEF Rebase, OffsetCTS
  <1>2. loop = Ctsf!Idle
    BY <1>1 DEF Inv, Framing, LoopPcs
  <1>3. ASSUME Spaced(1)
        PROVE  Stage'
    <2>1. Shifted(dts, asked) /\ Shifted(cts, asked)
      BY <1>1, <1>3 DEF Inv, Stage, Editing
    <2>2. Shifted(cts', asked) /\ cts'[0] = 0
      BY <1>1, <2>1, RebasedIsShifted
    <2>3. Compressed(cts', asked) /\ CompressLoop(cts', Ctsf!Idle, asked)
      BY <2>2, ShiftedIsCompressed DEF CompressLoop
    <2>4. Shifted(dts', asked') /\ Compressed(cts', asked')
          /\ CompressLoop(cts', loop', asked')
      BY <1>1, <1>2, <2>1, <2>3
    <2> QED
      BY <1>1, <2>2, <2>4 DEF Stage
  <1> QED
    BY <1>1, <1>2, <1>3, WhileAdjusting DEF Editing

LEMMA CompressCTSKeeps ==
    ASSUME Inv, CompressCTS
    PROVE  Inv'
  <1> DEFINE offset == AudioDelayInTimeScale
  <1>1. /\ pc = "compressCTS" /\ Unadjusted /\ dts' = dts /\ asked' = asked
    BY AskedKept DEF CompressCTS
  <1>2. audioDelay \in Int /\ audioDelay > 0
    BY <1>1 DEF Inv, Framing
  <1>3. ASSUME Spaced(1)
        PROVE  /\ asked \in [Slots -> Nat] /\ offset \in Nat
               /\ Shifted(dts, asked) /\ cts[0] = 0
               /\ CompressLoop(cts, loop, asked)
    <2>1. Shifted(dts, asked) /\ cts[0] = 0 /\ CompressLoop(cts, loop, asked)
      BY <1>1, <1>3 DEF Inv, Stage, Editing
    <2> QED
      BY <1>2, <1>3, <2>1, SpacedFacts, TicksSign DEF AudioDelayInTimeScale
  <1>4. CASE /\ Ctsf!EnterCompress(offset) \/ Ctsf!CompressFrame
             /\ pc' = "compressCTS"
    <2> HIDE DEF offset
    <2>1. ASSUME Spaced(1)
          PROVE  Stage'
      <3>1. CompressLoop(cts', loop', asked) /\ cts'[0] = 0
        BY <1>3, <1>4, <2>1, CtsCompresses
      <3>2. Shifted(dts', asked)
        BY <1>1, <1>3, <2>1
      <3> QED
        BY <1>1, <1>4, <3>1, <3>2 DEF Stage
    <2> QED
      BY <1>1, <1>2, <1>4, <2>1, WhileAdjusting DEF Editing, LoopPcs
  <1>5. CASE Ctsf!CompressTail /\ pc' = "measure"
    <2> HIDE DEF offset
    <2>1. loop' = Ctsf!Idle
      BY <1>5 DEF Ctsf!CompressTail
    <2>2. ASSUME Spaced(1)
          PROVE  Stage'
      <3>1. Compressed(cts', asked) /\ cts'[0] = 0
        BY <1>3, <1>5, <2>2, CtsCompressed
      <3>2. Shifted(dts', asked)
        BY <1>1, <1>3, <2>2
      <3> QED
        BY <1>1, <1>5, <3>1, <3>2 DEF Stage
    <2> QED
      BY <1>1, <1>5, <2>1, <2>2, WhileAdjusting DEF Editing
  <1> QED
    BY <1>4, <1>5 DEF CompressCTS

\* the last step of AdjustTimeCodes: composition times move by the delay
LEMMA FinalOffset ==
    ASSUME Inv, Spaced(1), Unadjusted, dts' = dts, pc' = "adjusted",
           Compressed(dts, asked), Compressed(cts, asked), cts[0] = 0,
           NEW d \in Lateness \cup {0}, IsInitialDelay(d), OffsetCTS(d),
           initialDelay' = d
    PROVE  Stage'
  <1>1. /\ asked' = asked /\ ctsIndex' = ctsIndex
        /\ ctsIndex \in [Slots -> Slots]
    BY AskedKept DEF Inv, Framing
  <1>2. dts \in [Slots -> Int] /\ cts \in [Slots -> Int]
    BY DEF Compressed
  <1>3. d \in Nat /\ \A n \in Slots : dts[ctsIndex[n]] <= cts[n] + d
    BY <1>1, <1>2, DelaySuffices
  <1>4. cts' = [n \in Slots |-> cts[n] + d]
    BY DEF OffsetCTS
  <1>5. /\ cts' \in [Slots -> Int]
        /\ Apart(asked) => \A n \in Frame : cts'[n] < cts'[n + 1]
    <2>1. d \in Int
      BY <1>3
    <2> QED
      BY <1>4, <2>1, MovedInOrder
  <1>6. \A n \in Slots : dts'[ctsIndex'[n]] <= cts'[n]
    BY <1>1, <1>3, <1>4
  <1>7. Tight'
    <2>1. cts'[0] = initialDelay'
      BY <1>3, <1>4, SlotsFacts
    <2>2. ASSUME initialDelay' > 0
          PROVE  \E n \in Slots : dts'[ctsIndex'[n]] = cts'[n]
      <3>1. PICK n \in Slots : d = dts[ctsIndex[n]] - cts[n]
        BY <1>3, <2>2 DEF Lateness
      <3>2. dts[ctsIndex[n]] \in Int /\ cts[n] \in Int
        BY <1>1, <1>2
      <3>3. dts[ctsIndex[n]] = cts[n] + d
        BY <1>3, <3>1, <3>2
      <3> QED
        BY <1>1, <1>4, <3>3
    <2> QED
      BY <2>1, <2>2 DEF Tight
  <1>8. Compressed(dts', asked') /\ (Apart(asked') => Apart(asked))
    BY <1>1
  <1> QED
    BY <1>5, <1>6, <1>7, <1>8 DEF Stage

LEMMA MeasureKeeps ==
    ASSUME Inv, Measure
    PROVE  Inv'
  <1>1. /\ pc = "measure" /\ Unadjusted /\ dts' = dts /\ loop' = loop
        /\ asked' = asked
    BY AskedKept DEF Measure
  <1>2. PICK d \in Lateness \cup {0} :
            /\ IsInitialDelay(d)
            /\ initialDelay' = d
            /\ IF compressDTS
               THEN pc' = "compressDTS" /\ cts' = cts
               ELSE pc' = "adjusted" /\ OffsetCTS(d)
    BY DEF Measure
  <1>3. loop = Ctsf!Idle /\ ctsIndex \in [Slots -> Slots]
    BY <1>1 DEF Inv, Framing, LoopPcs
  <1>4. ASSUME Spaced(1)
        PROVE  Stage'
    <2>1. Shifted(dts, asked) /\ cts[0] = 0 /\ Compressed(cts, asked)
      BY <1>1, <1>4 DEF Inv, Stage, Editing
    <2>2. Compressed(dts, asked)
      BY <2>1, ShiftedIsCompressed
    <2>3. CASE pc' = "adjusted" /\ OffsetCTS(d)
      BY <1>1, <1>2, <1>4, <2>1, <2>2, <2>3, FinalOffset
    <2>4. CASE pc' = "compressDTS" /\ cts' = cts
      <3>1. DelayEnough'
        <4>1. d \in Nat /\ \A n \in Slots : dts[ctsIndex[n]] <= cts[n] + d
          BY <1>2, <1>3, <2>1, <2>2, DelaySuffices DEF Compressed
        <4> QED
          BY <1>1, <1>2, <2>4, <4>1, AskedKept DEF DelayEnough
      <3>2. CompressLoop(dts', loop', asked') /\ Compressed(cts', asked')
        BY <1>1, <1>3, <2>1, <2>4 DEF CompressLoop
      <3> QED
        BY <2>1, <2>4, <3>1, <3>2 DEF Stage
    <2> QED
      BY <1>2, <2>3, <2>4
  <1> QED
    BY <1>1, <1>2, <1>3, <1>4, WhileAdjusting DEF Editing

\* moving the decoding times back leaves the delay long enough
LEMMA StillEnough ==
    ASSUME DelayEnough, ctsIndex \in [Slots -> Slots],
           dts \in [Slots -> Int], dts' \in [Slots -> Int],
           cts \in [Slots -> Int], NoLater(dts', dts),
           UNCHANGED <<cts, ctsIndex, initialDelay>>
    PROVE  DelayEnough'
  <1>1. ASSUME NEW n \in Slots
        PROVE  dts'[ctsIndex[n]] <= cts[n] + initialDelay
    <2>1. /\ dts[ctsIndex[n]] \in Int /\ dts'[ctsIndex[n]] \in Int
          /\ cts[n] \in Int /\ initialDelay \in Nat
          /\ dts'[ctsIndex[n]] <= dts[ctsIndex[n]]
          /\ dts[ctsIndex[n]] <= cts[n] + initialDelay
      BY DEF DelayEnough, NoLater
    <2> QED
      BY <2>1
  <1> QED
    BY <1>1 DEF DelayEnough

LEMMA CompressDTSKeeps ==
    ASSUME Inv, CompressDTS
    PROVE  Inv'
  <1>1. /\ pc = "compressDTS" /\ Unadjusted /\ cts' = cts /\ asked' = asked
        /\ initialDelay' = initialDelay /\ ctsIndex' = ctsIndex
        /\ ctsIndex \in [Slots -> Slots]
    BY AskedKept DEF CompressDTS, Inv, Framing
  <1>2. ASSUME Spaced(1)
        PROVE  /\ asked \in [Slots -> Nat] /\ initialDelay \in Nat
               /\ DelayEnough /\ cts[0] = 0 /\ Compressed(cts, asked)
               /\ CompressLoop(dts, loop, asked)
               /\ dts \in [Slots -> Int] /\ cts \in [Slots -> Int]
    <2>1. /\ DelayEnough /\ cts[0] = 0 /\ Compressed(cts, asked)
          /\ CompressLoop(dts, loop, asked)
      BY <1>1, <1>2 DEF Inv, Stage, Editing
    <2>2. dts \in [Slots -> Int] /\ cts \in [Slots -> Int]
      BY <2>1 DEF CompressLoop, Compressed, Shifted
    <2> QED
      BY <1>2, <2>1, <2>2, SpacedFacts DEF DelayEnough
  <1>3. CASE /\ Dtsf!EnterCompress(initialDelay) \/ Dtsf!CompressFrame
             /\ pc' = "compressDTS"
    <2>1. ASSUME Spaced(1)
          PROVE  Stage'
      <3>1. CompressLoop(dts', loop', asked) /\ NoLater(dts', dts)
        BY <1>2, <1>3, <2>1, DtsCompresses
      <3>2. Compressed(cts', asked) /\ cts'[0] = 0
        BY <1>1, <1>2, <2>1
      <3>3. dts' \in [Slots -> Int]
        BY <3>1 DEF CompressLoop, Shifted
      <3>4. DelayEnough'
        BY <1>1, <1>2, <2>1, <3>1, <3>3, StillEnough
      <3> QED
        BY <1>1, <1>3, <3>1, <3>2, <3>4 DEF Stage
    <2> QED
      BY <1>1, <1>3, <2>1, WhileAdjusting DEF Editing, LoopPcs
  <1>4. CASE Dtsf!CompressTail /\ pc' = "remeasure"
    <2>1. loop' = Ctsf!Idle
      BY <1>4, Instances DEF Dtsf!CompressTail
    <2>2. ASSUME Spaced(1)
          PROVE  Stage'
      <3>1. Compressed(dts', asked) /\ NoLater(dts', dts)
        BY <1>2, <1>4, <2>2, DtsCompressed
      <3>2. Compressed(cts', asked) /\ cts'[0] = 0
        BY <1>1, <1>2, <2>2
      <3>3. DelayEnough'
        BY <1>1, <1>2, <2>2, <3>1, StillEnough DEF Compressed
      <3> QED
        BY <1>1, <1>4, <3>1, <3>2, <3>3 DEF Stage
    <2> QED
      BY <1>1, <1>4, <2>1, <2>2, WhileAdjusting DEF Editing
  <1> QED
    BY <1>3, <1>4 DEF CompressDTS

LEMMA RemeasureKeeps ==
    ASSUME Inv, Remeasure
    PROVE  Inv'
  <1>1. /\ pc = "remeasure" /\ pc' = "adjusted" /\ Unadjusted
        /\ dts' = dts /\ loop' = loop
    BY DEF Remeasure
  <1>2. PICK d \in Lateness \cup {0} :
            IsInitialDelay(d) /\ OffsetCTS(d) /\ initialDelay' = d
    BY DEF Remeasure
  <1>3. loop = Ctsf!Idle
    BY <1>1 DEF Inv, Framing, LoopPcs
  <1>4. ASSUME Spaced(1)
        PROVE  Stage'
    <2>1. cts[0] = 0 /\ Compressed(cts, asked) /\ Compressed(dts, asked)
      BY <1>1, <1>4 DEF Inv, Stage, Editing
    <2> QED
      BY <1>1, <1>2, <1>4, <2>1, FinalOffset
  <1> QED
    BY <1>1, <1>3, <1>4, WhileAdjusting DEF Editing

LEMMA DoEditKeeps ==
    ASSUME Inv, DoEditTimeCodes
    PROVE  Inv'
  <1>1. /\ pc = "adjusted" /\ pc' = "edited"
        /\ UNCHANGED <<dts, cts, ctsIndex, asked, timeScale, initialDelay,
                       compressDTS, audioDelay, loop>>
    BY DEF DoEditTimeCodes, times, options, history
  <1>2. Framing'
    BY <1>1 DEF Inv, Framing, PCs, LoopPcs, Editing
  <1>3. Spaced(1)' => Stage'
    <2>1. Spaced(1)' => Spaced(1)
      BY <1>1 DEF Spaced
    <2>2. Spaced(1) => Stage
      BY <1>1 DEF Inv, Editing
    <2>3. Stage => Stage'
      BY <1>1 DEF Stage, Tight, DelayEnough
    <2> QED
      BY <2>1, <2>2, <2>3
  <1> QED
    BY <1>2, <1>3 DEF Inv

LEMMA SavedKeeps ==
    ASSUME Inv, SaveCopy \/ SaveInPlace
    PROVE  Inv'
  <1>1. /\ pc' = "closed" /\ pc \in {"edited", "loaded"}
        /\ UNCHANGED <<ctsIndex, compressDTS, audioDelay, loop>>
    BY DEF SaveCopy, SaveInPlace, Saved, Unmodified, options
  <1> QED
    BY <1>1 DEF Inv, Framing, PCs, LoopPcs, Editing

LEMMA StutterKeeps ==
    ASSUME Inv, UNCHANGED vars
    PROVE  Inv'
  <1>1. UNCHANGED <<dts, cts, ctsIndex, timeScale, initialDelay, asked,
                    compressDTS, audioDelay, loop, pc>>
    BY DEF vars, times, options, history
  <1>2. Framing' /\ (Spaced(1)' => Spaced(1)) /\ (Stage => Stage')
    <2>1. Framing'
      BY <1>1 DEF Inv, Framing
    <2>2. Spaced(1)' => Spaced(1)
      BY <1>1 DEF Spaced
    <2>3. Stage => Stage'
      BY <1>1 DEF Stage, Tight, DelayEnough
    <2> QED
      BY <2>1, <2>2, <2>3
  <1> QED
    BY <1>1, <1>2 DEF Inv

(***************************************************************************)
(* In every state the loops of AdjustTimeCodes have left their frames in   *)
(* the order and at the distance the next step relies on.                  *)
(***************************************************************************)
THEOREM Invariance == Spec => []Inv
  <1>1. Init => Inv
    BY Initially
  <1>2. Inv /\ [Next]_vars => Inv'
    <2> SUFFICES ASSUME Inv, [Next]_vars
                 PROVE  Inv'
      OBVIOUS
    <2>1. CASE Open
      BY <2>1, OpenKeeps
    <2>2. CASE \E fps \in FrameRateLists : SetFPS(fps)
      BY <2>2, SetFPSKeeps
    <2>3. CASE \E list \in TimeCodeLists : SetTimeCodes(list)
      BY <2>3, SetTimeCodesKeeps
    <2>4. CASE KeepTimeCodes
      BY <2>4, KeepTimeCodesKeeps
    <2>5. CASE Adjust
      BY <2>5, BeginAdjustKeeps, DelayCTSKeeps, DelayDTSKeeps, RebaseKeeps,
         CompressCTSKeeps, MeasureKeeps, CompressDTSKeeps, RemeasureKeeps
         DEF Adjust
    <2>6. CASE DoEditTimeCodes
      BY <2>6, DoEditKeeps
    <2>7. CASE SaveCopy \/ SaveInPlace
      BY <2>7, SavedKeeps
    <2>8. CASE UNCHANGED vars
      BY <2>8, StutterKeeps
    <2> QED
      BY <2>1, <2>2, <2>3, <2>4, <2>5, <2>6, <2>7, <2>8 DEF Next
  <1> QED
    BY <1>1, <1>2, PTL DEF Spec

LEMMA StageWhenAdjusted ==
    ASSUME Inv, Adjusted, Spaced(1)
    PROVE  /\ Compressed(dts, asked)
           /\ Apart(asked) => \A n \in Frame : cts[n] < cts[n + 1]
           /\ \A n \in Slots : dts[ctsIndex[n]] <= cts[n]
           /\ Tight
  BY DEF Adjusted, Inv, Stage, Editing

LEMMA TwoTicksApart ==
    ASSUME Spaced(2)
    PROVE  Spaced(1) /\ Apart(asked)
  <1>1. /\ timeScale \in Nat /\ asked \in [Slots -> Nat]
        /\ \A i \in Frame : asked[i + 1] - asked[i] >= 2
    BY DEF Spaced
  <1>2. ASSUME NEW i \in Frame
        PROVE  asked[i + 1] - asked[i] >= 1
    <2>1. asked[i] \in Nat /\ asked[i + 1] \in Nat
      BY <1>1, SlotsFacts
    <2> QED
      BY <1>1, <2>1
  <1> QED
    BY <1>1, <1>2 DEF Spaced, Apart

(***************************************************************************)
(* Whatever the file, the options and the delay, AdjustTimeCodes hands     *)
(* DoEditTimeCodes strictly increasing decoding times, so that no sample   *)
(* duration of stts is zero or wraps, if the time codes asked for are two  *)
(* ticks apart.                                                            *)
(***************************************************************************)
THEOREM DecodesInOrder == Spec => []DecodeOrder
  <1>1. Inv => DecodeOrder
    BY StageWhenAdjusted, TwoTicksApart DEF DecodeOrder, Compressed
  <1> QED
    BY <1>1, Invariance, PTL

(***************************************************************************)
(* ... and strictly increasing composition times: frames keep their order  *)
(* on the screen and none shares its time with another.                    *)
(***************************************************************************)
THEOREM DisplaysInOrder == Spec => []DisplayOrder
  <1>1. Inv => DisplayOrder
    BY StageWhenAdjusted, TwoTicksApart DEF DisplayOrder
  <1> QED
    BY <1>1, Invariance, PTL

(***************************************************************************)
(* Whenever the time codes asked for are increasing, every frame is        *)
(* decoded no later than it is displayed once AdjustTimeCodes is done,     *)
(* for whatever order of frames the file has and whatever it compresses.   *)
(***************************************************************************)
THEOREM DecodesInTime == Spec => []DecodedInTime
  <1>1. Inv => DecodedInTime
    BY StageWhenAdjusted DEF DecodedInTime
  <1> QED
    BY <1>1, Invariance, PTL

(***************************************************************************)
(* ... and the picture waits no longer than that takes: the first frame is *)
(* displayed after exactly the delay the edit list cuts off again, and if  *)
(* there is any some frame is displayed the moment it is decoded.          *)
(***************************************************************************)
THEOREM DelaysNoLonger == Spec => []ShortestDelay
  <1>1. Inv => ShortestDelay
    BY StageWhenAdjusted DEF ShortestDelay, Tight
  <1> QED
    BY <1>1, Invariance, PTL

(***************************************************************************)
(* With -c the second measurement of the delay is never longer than the    *)
(* first: CompressTimeCodes moves no decoding time forward, not even when  *)
(* it has to tell two frames apart that were rounded to the same tick.     *)
(***************************************************************************)
THEOREM CompressionNeverDelays == Spec => CompressionHelps
  <1>1. ASSUME Inv, Remeasure, Spaced(1)
        PROVE  initialDelay' <= initialDelay
    <2>1. /\ pc = "remeasure" /\ ctsIndex \in [Slots -> Slots]
          /\ DelayEnough /\ dts \in [Slots -> Int] /\ cts \in [Slots -> Int]
      BY <1>1 DEF Remeasure, Inv, Framing, Stage, Editing, Compressed
    <2>2. CASE initialDelay' = 0
      BY <2>1, <2>2 DEF DelayEnough
    <2>3. CASE initialDelay' # 0
      <3>1. initialDelay' \in Lateness
        BY <1>1, <2>3 DEF Remeasure
      <3>2. PICK n \in Slots : initialDelay' = dts[ctsIndex[n]] - cts[n]
        BY <3>1 DEF Lateness
      <3>3. /\ dts[ctsIndex[n]] \in Int /\ cts[n] \in Int
            /\ initialDelay \in Nat
            /\ dts[ctsIndex[n]] <= cts[n] + initialDelay
        BY <2>1 DEF DelayEnough
      <3> QED
        BY <3>2, <3>3
    <2> QED
      BY <2>2, <2>3
  <1>2. ASSUME Next, pc = "remeasure"
        PROVE  Remeasure
    BY <1>2 DEF Next, Adjust, Open, SetFPS, SetTimeCodes, KeepTimeCodes,
       BeginAdjust, DelayCTS, DelayDTS, Rebase, CompressCTS, Measure,
       CompressDTS, DoEditTimeCodes, SaveCopy, SaveInPlace, Saved, Unmodified
  <1>3. Inv /\ [Next]_vars =>
            [pc = "remeasure" /\ Spaced(1) => initialDelay' <= initialDelay]_vars
    BY <1>1, <1>2
  <1> QED
    BY <1>3, Invariance, PTL DEF Spec, CompressionHelps

-----------------------------------------------------------------------------
(* Frame rates: the greatest common divisor that Euclid's algorithm finds *)

Upto(k) == {b \in Int : -k <= b /\ b <= k}

\* h is what gcd computes of second numbers of k or less
Euclid(h, k) ==
    /\ h \in [Int \X Upto(k) -> Int]
    /\ \A a \in Int : \A b \in Upto(k) :
          h[<<a, b>>] = IF b = 0 THEN a ELSE h[<<b, Remainder(a, b)>>]

LEMMA RemainderSmaller ==
    ASSUME NEW a \in Int, NEW b \in Int, b # 0
    PROVE  /\ Remainder(a, b) \in Int
           /\ b > 0 => -b < Remainder(a, b) /\ Remainder(a, b) < b
           /\ b < 0 => b < Remainder(a, b) /\ Remainder(a, b) < -b
           /\ a >= 0 /\ b > 0 => Remainder(a, b) = a % b /\ Remainder(a, b) >= 0
  <1> DEFINE m == IF b > 0 THEN b ELSE -b
  <1>1. Max({b, -b}) = m /\ m \in Nat \ {0}
    <2>1. {b, -b} \in SUBSET Int /\ m \in {b, -b} /\ \A x \in {b, -b} : x <= m
      OBVIOUS
    <2> HIDE DEF m
    <2>2. Max({b, -b}) = m
      BY <2>1, MaxIs
    <2> QED
      BY <2>2 DEF m
  <1>2. (a % m) \in 0 .. m - 1 /\ ((-a) % m) \in 0 .. m - 1
    <2> HIDE DEF m
    <2> QED
      BY <1>1
  <1>3. Remainder(a, b) = IF a >= 0 THEN a % m ELSE -((-a) % m)
    BY <1>1 DEF Remainder
  <1> QED
    BY <1>1, <1>2, <1>3

LEMMA EuclidExists ==
    ASSUME NEW n \in Nat
    PROVE  \E h : Euclid(h, n)
  <1> DEFINE S == {k \in 0 .. n : \E h : Euclid(h, k)}
  <1>1. 0 \in S
    <2> DEFINE h == [p \in Int \X Upto(0) |-> p[1]]
    <2>1. h \in [Int \X Upto(0) -> Int]
      OBVIOUS
    <2>2. ASSUME NEW a \in Int, NEW b \in Upto(0) PROVE b = 0 /\ h[<<a, b>>] = a
      BY DEF Upto
    <2> HIDE DEF h
    <2>3. Euclid(h, 0)
      BY <2>1, <2>2 DEF Euclid
    <2> QED
      BY <2>3
  <1>2. ASSUME NEW k \in 0 .. n - 1, k \in S PROVE k + 1 \in S
    <2>1. PICK g : Euclid(g, k)
      BY <1>2
    <2> DEFINE Value(a, b) == IF b = 0 THEN a ELSE g[<<b, Remainder(a, b)>>]
               h == [p \in Int \X Upto(k + 1) |-> Value(p[1], p[2])]
    <2>2. ASSUME NEW a \in Int, NEW b \in Upto(k + 1), b # 0
          PROVE  Remainder(a, b) \in Upto(k) /\ b \in Int
      BY <2>2, RemainderSmaller DEF Upto
    <2>3. ASSUME NEW a \in Int, NEW b \in Upto(k + 1) PROVE Value(a, b) \in Int
      <3>1. CASE b = 0
        BY <3>1
      <3>2. CASE b # 0
        <4>1. <<b, Remainder(a, b)>> \in Int \X Upto(k)
          BY <2>2, <3>2
        <4> QED
          BY <2>1, <3>2, <4>1 DEF Euclid
      <3> QED
        BY <3>1, <3>2
    <2>4. \A a \in Int : \A b \in Upto(k + 1) : h[<<a, b>>] = Value(a, b)
      OBVIOUS
    <2>5. h \in [Int \X Upto(k + 1) -> Int]
      BY <2>3
    <2> HIDE DEF h
    <2>6. ASSUME NEW a \in Int, NEW b \in Upto(k + 1)
          PROVE  h[<<a, b>>] = IF b = 0 THEN a ELSE h[<<b, Remainder(a, b)>>]
      <3>1. CASE b = 0
        BY <2>4, <3>1
      <3>2. CASE b # 0
        <4> DEFINE c == Remainder(a, b)
        <4>1. b \in Int /\ c \in Upto(k) /\ c \in Upto(k + 1)
          BY <2>2, <3>2 DEF Upto
        <4>2. h[<<b, c>>] = Value(b, c)
          BY <2>4, <4>1
        <4>3. g[<<b, c>>] = IF c = 0 THEN b ELSE g[<<c, Remainder(b, c)>>]
          BY <2>1, <4>1 DEF Euclid
        <4>4. h[<<a, b>>] = g[<<b, c>>]
          BY <2>4, <3>2
        <4> QED
          BY <3>2, <4>2, <4>3, <4>4
      <3> QED
        BY <3>1, <3>2
    <2>7. Euclid(h, k + 1)
      BY <2>5, <2>6 DEF Euclid
    <2> QED
      BY <2>7
  <1> HIDE DEF S
  <1>3. 0 .. n \subseteq S
    BY <1>1, <1>2, IntervalInduction
  <1> QED
    BY <1>3 DEF S

LEMMA EuclidUnique ==
    ASSUME NEW m \in Nat, NEW n \in Nat, NEW g, NEW h, Euclid(g, m), Euclid(h, n),
           NEW a \in Int, NEW b \in Upto(m), b \in Upto(n)
    PROVE  g[<<a, b>>] = h[<<a, b>>]
  <1> DEFINE l == IF m <= n THEN m ELSE n
             S == {k \in 0 .. l : \A x \in Int : \A y \in Upto(k) : g[<<x, y>>] = h[<<x, y>>]}
  <1>1. \A k \in 0 .. l : Upto(k) \subseteq Upto(m) /\ Upto(k) \subseteq Upto(n)
    BY DEF Upto
  <1>2. 0 \in S
    <2>1. ASSUME NEW x \in Int, NEW y \in Upto(0) PROVE g[<<x, y>>] = h[<<x, y>>]
      <3>1. y = 0 /\ y \in Upto(m) /\ y \in Upto(n)
        BY DEF Upto
      <3> QED
        BY <3>1 DEF Euclid
    <2> QED
      BY <2>1
  <1>3. ASSUME NEW k \in 0 .. l - 1, k \in S PROVE k + 1 \in S
    <2>1. ASSUME NEW x \in Int, NEW y \in Upto(k + 1) PROVE g[<<x, y>>] = h[<<x, y>>]
      <3>1. y \in Upto(m) /\ y \in Upto(n) /\ y \in Int
        BY <1>1 DEF Upto
      <3>2. CASE y = 0
        BY <3>1, <3>2 DEF Euclid
      <3>3. CASE y # 0
        <4>1. Remainder(x, y) \in Upto(k)
          <5>1. k \in Int /\ -(k + 1) <= y /\ y <= k + 1
            BY DEF Upto
          <5>2. /\ Remainder(x, y) \in Int
                /\ y > 0 => -y < Remainder(x, y) /\ Remainder(x, y) < y
                /\ y < 0 => y < Remainder(x, y) /\ Remainder(x, y) < -y
            BY <3>1, <3>3, RemainderSmaller
          <5>3. -k <= Remainder(x, y) /\ Remainder(x, y) <= k
            BY <3>1, <3>3, <5>1, <5>2
          <5> QED
            BY <5>2, <5>3 DEF Upto
        <4>2. g[<<y, Remainder(x, y)>>] = h[<<y, Remainder(x, y)>>]
          BY <1>3, <3>1, <4>1
        <4> QED
          BY <3>1, <3>3, <4>2 DEF Euclid
      <3> QED
        BY <3>2, <3>3
    <2> QED
      BY <2>1
  <1>4. l \in Nat /\ b \in Upto(l)
    BY DEF Upto
  <1> HIDE DEF S, l
  <1>5. 0 .. l \subseteq S
    BY <1>2, <1>3, <1>4, IntervalInduction
  <1> QED
    BY <1>4, <1>5 DEF S

LEMMA EuclidIs ==
    \A a \in Int, b \in Int :
        euclid[<<a, b>>] = IF b = 0 THEN a ELSE euclid[<<b, Remainder(a, b)>>]
  <1> DEFINE Size(b) == IF b > 0 THEN b ELSE -b
             Some(k) == CHOOSE h : Euclid(h, k)
             g == [p \in Int \X Int |-> Some(Size(p[2]))[<<p[1], p[2]>>]]
  <1>1. ASSUME NEW k \in Nat PROVE Euclid(Some(k), k)
    BY EuclidExists
  <1> HIDE DEF Some
  <1>2. \A b \in Int : Size(b) \in Nat /\ b \in Upto(Size(b))
    BY DEF Upto
  <1>3. ASSUME NEW a \in Int, NEW b \in Int
        PROVE  Some(Size(b))[<<a, b>>] \in Int
    <2>1. Euclid(Some(Size(b)), Size(b)) /\ <<a, b>> \in Int \X Upto(Size(b))
      BY <1>1, <1>2
    <2> HIDE DEF Size
    <2> QED
      BY <2>1 DEF Euclid
  <1>4. \A a \in Int, b \in Int : g[<<a, b>>] = Some(Size(b))[<<a, b>>]
    OBVIOUS
  <1>5. g \in [Int \X Int -> Int]
    BY <1>3
  <1>6. ASSUME NEW a \in Int, NEW b \in Int
        PROVE  g[<<a, b>>] = IF b = 0 THEN a ELSE g[<<b, Remainder(a, b)>>]
    <2>1. Euclid(Some(Size(b)), Size(b)) /\ Size(b) \in Nat /\ b \in Upto(Size(b))
      BY <1>1, <1>2
    <2>2. g[<<a, b>>] = IF b = 0 THEN a ELSE Some(Size(b))[<<b, Remainder(a, b)>>]
      <3> HIDE DEF Size, g
      <3> QED
        BY <1>4, <2>1 DEF Euclid
    <2>3. ASSUME b # 0
          PROVE  Some(Size(b))[<<b, Remainder(a, b)>>] = g[<<b, Remainder(a, b)>>]
      <3> DEFINE c == Remainder(a, b)
      <3>1. c \in Int /\ c \in Upto(Size(b))
        BY <2>3, RemainderSmaller DEF Upto
      <3>2. Euclid(Some(Size(c)), Size(c)) /\ Size(c) \in Nat /\ c \in Upto(Size(c))
        BY <1>1, <1>2, <3>1
      <3>3. g[<<b, c>>] = Some(Size(c))[<<b, c>>]
        <4> HIDE DEF g, c
        <4> QED
          BY <1>4, <3>1
      <3> HIDE DEF Size, g, c
      <3> QED
        BY <2>1, <3>1, <3>2, <3>3, EuclidUnique DEF c
    <2> HIDE DEF g
    <2> QED
      BY <2>2, <2>3
  <1> HIDE DEF g
  <1>7. g = [p \in Int \X Int |->
                IF p[2] = 0 THEN p[1] ELSE g[<<p[2], Remainder(p[1], p[2])>>]]
    <2>1. \A p \in Int \X Int :
             g[p] = IF p[2] = 0 THEN p[1] ELSE g[<<p[2], Remainder(p[1], p[2])>>]
      BY <1>6
    <2> QED
      BY <1>5, <2>1
  <1>8. euclid = [p \in Int \X Int |->
                IF p[2] = 0 THEN p[1] ELSE euclid[<<p[2], Remainder(p[1], p[2])>>]]
    BY <1>7, Zenon DEF euclid
  <1> QED
    BY <1>8

LEMMA GcdTyped ==
    ASSUME NEW a \in Int, NEW b \in Int
    PROVE  gcd(a, b) \in Int /\ (a # 0 => gcd(a, b) # 0)
  <1> DEFINE n == IF b > 0 THEN b ELSE -b
             Fine(x, y) == euclid[<<x, y>>] \in Int /\ (x # 0 => euclid[<<x, y>>] # 0)
             S == {k \in 0 .. n : \A x \in Int : \A y \in Upto(k) : Fine(x, y)}
  <1>1. n \in Nat /\ b \in Upto(n)
    BY DEF Upto
  <1>2. 0 \in S
    <2>1. ASSUME NEW x \in Int, NEW y \in Upto(0) PROVE Fine(x, y)
      <3>1. y = 0 /\ y \in Int
        BY DEF Upto
      <3> QED
        BY <3>1, EuclidIs
    <2> HIDE DEF Fine
    <2> QED
      BY <1>1, <2>1
  <1>3. ASSUME NEW k \in 0 .. n - 1, k \in S PROVE k + 1 \in S
    <2>1. ASSUME NEW x \in Int, NEW y \in Upto(k + 1) PROVE Fine(x, y)
      <3>1. k \in Int /\ y \in Int /\ -(k + 1) <= y /\ y <= k + 1
        BY DEF Upto
      <3>2. CASE y = 0
        BY <3>1, <3>2, EuclidIs
      <3>3. CASE y # 0
        <4>1. Remainder(x, y) \in Upto(k)
          BY <3>1, <3>3, RemainderSmaller DEF Upto
        <4>2. Fine(y, Remainder(x, y))
          <5> HIDE DEF Fine
          <5> QED
            BY <1>3, <3>1, <4>1
        <4>3. euclid[<<x, y>>] = euclid[<<y, Remainder(x, y)>>]
          BY <3>1, <3>3, EuclidIs
        <4> QED
          BY <3>3, <4>2, <4>3
      <3> QED
        BY <3>2, <3>3
    <2> HIDE DEF Fine
    <2> QED
      BY <1>1, <2>1
  <1> HIDE DEF S, n
  <1>4. 0 .. n \subseteq S
    BY <1>1, <1>2, <1>3, IntervalInduction
  <1>5. Fine(a, b)
    BY <1>1, <1>4 DEF S
  <1> QED
    BY <1>5 DEF gcd

\* d divides n, told with a factor
Factor(d, n) == \E q \in Int : n = d * q

LEMMA GcdDivides ==
    ASSUME NEW a \in Nat \ {0}, NEW b \in Nat
    PROVE  /\ gcd(a, b) \in Nat \ {0}
           /\ Factor(gcd(a, b), a) /\ Factor(gcd(a, b), b)
  <1> DEFINE Good(x, y) == LET g == euclid[<<x, y>>]
                           IN  g \in Nat \ {0} /\ Factor(g, x) /\ Factor(g, y)
             S == {k \in 0 .. b : \A x \in Nat \ {0} : \A y \in 0 .. k : Good(x, y)}
  <1>1. 0 \in S
    <2>1. ASSUME NEW x \in Nat \ {0}, NEW y \in 0 .. 0 PROVE Good(x, y)
      <3>1. y = 0 /\ x \in Int /\ 0 \in Int
        OBVIOUS
      <3>3. euclid[<<x, 0>>] = x
        BY <3>1, EuclidIs
      <3>2. x = x * 1 /\ 0 = x * 0
        OBVIOUS
      <3> QED
        BY <3>1, <3>2, <3>3 DEF Factor
    <2> HIDE DEF Good
    <2> QED
      BY <2>1
  <1>2. ASSUME NEW k \in 0 .. b - 1, k \in S PROVE k + 1 \in S
    <2>1. ASSUME NEW x \in Nat \ {0}, NEW y \in 0 .. k + 1 PROVE Good(x, y)
      <3>1. CASE y = 0
        <4>1. y \in 0 .. k
          BY <3>1
        <4> HIDE DEF Good
        <4> QED
          BY <1>2, <4>1
      <3>2. CASE y # 0
        <4> DEFINE r == Remainder(x, y)
                   g == euclid[<<y, r>>]
        <4>1. y \in Nat \ {0} /\ r = x % y /\ r \in 0 .. k
          BY <3>2, RemainderSmaller
        <4>2. Good(y, r)
          <5> HIDE DEF Good, r
          <5> QED
            BY <1>2, <4>1
        <4>3. euclid[<<x, y>>] = g
          BY <3>2, EuclidIs
        <4> HIDE DEF g
        <4>4. g \in Nat \ {0} /\ Factor(g, y) /\ Factor(g, r)
          BY <4>2 DEF g
        <4>5. PICK p \in Int : y = g * p
          BY <4>4 DEF Factor
        <4>6. PICK q \in Int : r = g * q
          BY <4>4 DEF Factor
        <4>7. x = y * (x \div y) + r /\ x \div y \in Int
          BY <4>1
        <4> DEFINE d == x \div y
        <4>8. x = g * (p * d + q) /\ p * d + q \in Int
          <5>1. d \in Int /\ x = (g * p) * d + g * q
            BY <4>5, <4>6, <4>7
          <5> HIDE DEF d
          <5> QED
            BY <4>4, <5>1
        <4>9. Factor(g, x)
          <5> DEFINE c == p * d + q
          <5>1. c \in Int /\ x = g * c
            BY <4>8
          <5> HIDE DEF c
          <5> QED
            BY <5>1 DEF Factor
        <4> QED
          BY <4>3, <4>4, <4>9
      <3> QED
        BY <3>1, <3>2
    <2> HIDE DEF Good
    <2> QED
      BY <2>1
  <1> HIDE DEF S
  <1>3. 0 .. b \subseteq S
    BY <1>1, <1>2, IntervalInduction
  <1>4. Good(a, b)
    <2> HIDE DEF Good
    <2> QED
      BY <1>3 DEF S
  <1> QED
    BY <1>4 DEF gcd

-----------------------------------------------------------------------------
(* Ranges of frames *)

RateRange == [numFrames : Nat, num : Nat \ {0}, denom : Nat \ {0}]

\* the factor that one number has in another
LEMMA Quotient ==
    ASSUME NEW d \in Nat \ {0}, NEW n \in Nat \ {0}, Factor(d, n)
    PROVE  /\ n \div d \in Nat \ {0} /\ n = d * (n \div d)
           /\ (n % d) = 0
  <1>1. PICK q \in Int : n = d * q
    BY DEF Factor
  <1>2. n \div d \in Int /\ (n % d) \in 0 .. d - 1 /\ n = d * (n \div d) + (n % d)
    OBVIOUS
  <1> DEFINE p == n \div d
             r == n % d
  <1> HIDE DEF p, r
  <1>3. p \in Int /\ r \in 0 .. d - 1 /\ d * q = d * p + r
    BY <1>1, <1>2 DEF p, r
  <1>4. q = p
    <2>1. d * (p + 1) > d * q /\ d * (q + 1) > d * p
      <3>1. d * (p + 1) = d * p + d /\ d * (q + 1) = d * q + d
        BY <1>3
      <3>2. d * p \in Int /\ d * q \in Int
        BY <1>3
      <3> QED
        BY <1>3, <3>1, <3>2
    <2>2. p + 1 >= q + 1 /\ q + 1 >= p + 1
      BY <1>3, <2>1, Cancel
    <2> QED
      BY <1>3, <2>2
  <1>5. r = 0 /\ p > 0
    <2>1. d * p = d * q
      BY <1>4
    <2>2. r = 0
      BY <1>3, <2>1
    <2>3. p # 0
      <3> SUFFICES ASSUME p = 0 PROVE FALSE
        OBVIOUS
      <3> QED
        BY <1>1, <1>4
    <2>4. p >= 0
      <3> SUFFICES ASSUME p <= -1 PROVE FALSE
        BY <1>3
      <3>1. d * p <= d * (-1)
        BY <1>3, Monotone
      <3> QED
        BY <1>1, <1>4, <3>1
    <2> QED
      BY <1>3, <2>2, <2>3, <2>4
  <1> QED
    BY <1>2, <1>3, <1>5 DEF p, r

LEMMA LowestTyped ==
    ASSUME NEW r \in RateRange
    PROVE  /\ Lowest(r) \in RateRange /\ Lowest(r).numFrames = r.numFrames
           /\ \E g \in Nat \ {0} : /\ r.num = g * Lowest(r).num
                                  /\ r.denom = g * Lowest(r).denom
  <1> DEFINE g == gcd(r.num, r.denom)
  <1>1. r.numFrames \in Nat /\ r.num \in Nat \ {0} /\ r.denom \in Nat \ {0}
    BY DEF RateRange
  <1>2. g \in Nat \ {0} /\ Factor(g, r.num) /\ Factor(g, r.denom)
    BY <1>1, GcdDivides
  <1>3. Lowest(r) = [r EXCEPT !.num = @ \div g, !.denom = @ \div g]
    BY DEF Lowest
  <1> HIDE DEF g
  <1>4. /\ r.num \div g \in Nat \ {0} /\ r.num = g * (r.num \div g)
        /\ r.denom \div g \in Nat \ {0} /\ r.denom = g * (r.denom \div g)
    BY <1>1, <1>2, Quotient
  <1>5. Lowest(r) = [numFrames |-> r.numFrames, num |-> r.num \div g,
                     denom |-> r.denom \div g]
    BY <1>3 DEF RateRange
  <1> QED
    BY <1>1, <1>2, <1>4, <1>5 DEF RateRange

\* A fold takes as many steps as there are ranges and every value before it is of
\* the type; said of each fold by itself, as a step cannot be a parameter.
PlusFrames(sum, r) == sum + r.numFrames

LEMMA FramesFold ==
    ASSUME NEW ranges \in Seq(RateRange)
    PROVE  \E h : /\ h[0] = 0 /\ Frames(ranges) = h[Len(ranges)]
                  /\ \A k \in 1 .. Len(ranges) :
                        h[k] = PlusFrames(h[k - 1], ranges[k])
                  /\ \A k \in 0 .. Len(ranges) : h[k] \in Nat
  <1> DEFINE n == Len(ranges)
             D == DOMAIN ranges
             R == Nat
             step == [p \in (1 .. n) \X R |-> PlusFrames(p[2], ranges[p[1]])]
             it == CHOOSE f : f = [s \in SUBSET D |->
                      IF s = {} THEN 0
                      ELSE PlusFrames(f[s \ {Max(s)}], ranges[Max(s)])]
             h == [k \in 0 .. n |-> it[1 .. k]]
  <1>1. n \in Nat /\ D = 1 .. n /\ 0 \in R
    OBVIOUS
  <1>2. \A k \in 1 .. n, v \in R : PlusFrames(v, ranges[k]) \in R
    <2>1. \A k \in 1 .. n : ranges[k] \in RateRange
      OBVIOUS
    <2> QED
      BY <2>1 DEF RateRange, PlusFrames
  <1>3. step \in [(1 .. n) \X R -> R]
    <2> HIDE DEF n, D, R
    <2> QED
      BY <1>2
  <1>4. \A k \in 1 .. n, v \in R : step[<<k, v>>] = PlusFrames(v, ranges[k])
    OBVIOUS
  <1>5. Frames(ranges) = it[D]
    BY Zenon DEF Frames, FoldLeft, MapThenFoldSet, PlusFrames
  <1> HIDE DEF step, n, D, R
  <1>6. PICK g \in [SUBSET (1 .. n) -> R] : Folded(g, n, 0, step)
    BY <1>1, <1>3, FoldExists, Zenon
  <1>7. ASSUME NEW s \in SUBSET D, s # {} PROVE Max(s) \in s
    <2>1. s \in SUBSET Int /\ n \in Int /\ \A x \in s : x <= n
      BY <1>1
    <2> QED
      BY <1>7, <2>1, MaxInside, Zenon
  <1>8. ASSUME NEW s \in SUBSET D, s # {}
        PROVE  step[<<Max(s), g[s \ {Max(s)}]>>]
                 = PlusFrames(g[s \ {Max(s)}], ranges[Max(s)])
    <2>1. Max(s) \in 1 .. n /\ s \ {Max(s)} \in SUBSET (1 .. n)
      BY <1>1, <1>7, <1>8
    <2>2. g[s \ {Max(s)}] \in R
      BY <1>6, <2>1, Zenon
    <2> QED
      BY <1>4, <2>1, <2>2
  <1>9. g = [s \in SUBSET D |->
               IF s = {} THEN 0 ELSE PlusFrames(g[s \ {Max(s)}], ranges[Max(s)])]
    BY <1>1, <1>6, <1>8, Zenon DEF Folded
  <1>10. it = [s \in SUBSET D |->
               IF s = {} THEN 0 ELSE PlusFrames(it[s \ {Max(s)}], ranges[Max(s)])]
    BY <1>9, Zenon
  <1> HIDE DEF it
  <1>11. it[1 .. 0] = 0
    <2>1. 1 .. 0 = {} /\ {} \in SUBSET D
      OBVIOUS
    <2> QED
      BY <1>10, <2>1
  <1>12. ASSUME NEW k \in 1 .. n
         PROVE  it[1 .. k] = PlusFrames(it[1 .. k - 1], ranges[k])
    <2>1. 1 .. k \in SUBSET D /\ 1 .. k # {}
      <3>1. (\A x \in 1 .. k : x \in 1 .. n) /\ k \in 1 .. k
        BY <1>1
      <3> QED
        BY <1>1, <3>1
    <2>2. Max(1 .. k) = k /\ (1 .. k) \ {k} = 1 .. k - 1
      BY <1>1, LastOfInterval
    <2>3. it[1 .. k] = PlusFrames(it[(1 .. k) \ {Max(1 .. k)}], ranges[Max(1 .. k)])
      BY <1>10, <2>1, Zenon
    <2> QED
      BY <2>2, <2>3
  <1>13. h[0] = 0 /\ h[n] = it[D]
    BY <1>1, <1>11
  <1>14. ASSUME NEW k \in 1 .. n PROVE h[k] = PlusFrames(h[k - 1], ranges[k])
    <2>1. k \in 0 .. n /\ k - 1 \in 0 .. n
      BY <1>1
    <2>2. h[k] = it[1 .. k] /\ h[k - 1] = it[1 .. k - 1]
      BY <2>1
    <2> HIDE DEF h
    <2> QED
      BY <1>12, <2>2
  <1> HIDE DEF h
  <1> DEFINE S == {k \in 0 .. n : h[k] \in R}
  <1>15. 0 \in S
    BY <1>1, <1>13
  <1>16. ASSUME NEW k \in 0 .. n - 1, k \in S PROVE k + 1 \in S
    <2>1. k + 1 \in 1 .. n /\ (k + 1) - 1 = k /\ k + 1 \in 0 .. n
      BY <1>1
    <2>2. h[k + 1] = PlusFrames(h[k], ranges[k + 1])
      BY <1>14, <2>1
    <2> QED
      BY <1>2, <1>16, <2>1, <2>2
  <1> HIDE DEF S
  <1>17. 0 .. n \subseteq S
    <2>1. 0 \in Int /\ n \in Int
      BY <1>1
    <2> QED
      BY <1>15, <1>16, <2>1, IntervalInduction
  <1>18. \A k \in 0 .. n : h[k] \in R
    BY <1>17 DEF S
  <1> QED
    BY <1>5, <1>13, <1>14, <1>18 DEF n, R

\* the product of the numerators, over which CalcSampleTimes counts
Over(ranges) == FoldLeft(LAMBDA product, r : product * r.num, 1, ranges)
TimesNum(product, r) == product * r.num

LEMMA OverFold ==
    ASSUME NEW ranges \in Seq(RateRange)
    PROVE  \E h : /\ h[0] = 1 /\ Over(ranges) = h[Len(ranges)]
                  /\ \A k \in 1 .. Len(ranges) :
                        h[k] = TimesNum(h[k - 1], ranges[k])
                  /\ \A k \in 0 .. Len(ranges) : h[k] \in (Nat \ {0})
  <1> DEFINE n == Len(ranges)
             D == DOMAIN ranges
             R == (Nat \ {0})
             step == [p \in (1 .. n) \X R |-> TimesNum(p[2], ranges[p[1]])]
             it == CHOOSE f : f = [s \in SUBSET D |->
                      IF s = {} THEN 1
                      ELSE TimesNum(f[s \ {Max(s)}], ranges[Max(s)])]
             h == [k \in 0 .. n |-> it[1 .. k]]
  <1>1. n \in Nat /\ D = 1 .. n /\ 1 \in R
    OBVIOUS
  <1>2. \A k \in 1 .. n, v \in R : TimesNum(v, ranges[k]) \in R
    <2>1. \A k \in 1 .. n : ranges[k] \in RateRange
      OBVIOUS
    <2>2. ASSUME NEW a \in Nat \ {0}, NEW b \in Nat \ {0} PROVE a * b \in Nat \ {0}
      <3>1. a * b >= a * 1
        BY Monotone
      <3> QED
        BY <3>1
    <2>3. ASSUME NEW k \in 1 .. n, NEW v \in R PROVE TimesNum(v, ranges[k]) \in R
      <3>1. ranges[k].num \in Nat \ {0}
        BY <2>1 DEF RateRange
      <3> QED
        BY <2>2, <3>1 DEF TimesNum
    <2> QED
      BY <2>3
  <1>3. step \in [(1 .. n) \X R -> R]
    <2> HIDE DEF n, D, R
    <2> QED
      BY <1>2
  <1>4. \A k \in 1 .. n, v \in R : step[<<k, v>>] = TimesNum(v, ranges[k])
    OBVIOUS
  <1>5. Over(ranges) = it[D]
    BY Zenon DEF Over, FoldLeft, MapThenFoldSet, TimesNum
  <1> HIDE DEF step, n, D, R
  <1>6. PICK g \in [SUBSET (1 .. n) -> R] : Folded(g, n, 1, step)
    BY <1>1, <1>3, FoldExists, Zenon
  <1>7. ASSUME NEW s \in SUBSET D, s # {} PROVE Max(s) \in s
    <2>1. s \in SUBSET Int /\ n \in Int /\ \A x \in s : x <= n
      BY <1>1
    <2> QED
      BY <1>7, <2>1, MaxInside, Zenon
  <1>8. ASSUME NEW s \in SUBSET D, s # {}
        PROVE  step[<<Max(s), g[s \ {Max(s)}]>>]
                 = TimesNum(g[s \ {Max(s)}], ranges[Max(s)])
    <2>1. Max(s) \in 1 .. n /\ s \ {Max(s)} \in SUBSET (1 .. n)
      BY <1>1, <1>7, <1>8
    <2>2. g[s \ {Max(s)}] \in R
      BY <1>6, <2>1, Zenon
    <2> QED
      BY <1>4, <2>1, <2>2
  <1>9. g = [s \in SUBSET D |->
               IF s = {} THEN 1 ELSE TimesNum(g[s \ {Max(s)}], ranges[Max(s)])]
    BY <1>1, <1>6, <1>8, Zenon DEF Folded
  <1>10. it = [s \in SUBSET D |->
               IF s = {} THEN 1 ELSE TimesNum(it[s \ {Max(s)}], ranges[Max(s)])]
    BY <1>9, Zenon
  <1> HIDE DEF it
  <1>11. it[1 .. 0] = 1
    <2>1. 1 .. 0 = {} /\ {} \in SUBSET D
      OBVIOUS
    <2> QED
      BY <1>10, <2>1
  <1>12. ASSUME NEW k \in 1 .. n
         PROVE  it[1 .. k] = TimesNum(it[1 .. k - 1], ranges[k])
    <2>1. 1 .. k \in SUBSET D /\ 1 .. k # {}
      <3>1. (\A x \in 1 .. k : x \in 1 .. n) /\ k \in 1 .. k
        BY <1>1
      <3> QED
        BY <1>1, <3>1
    <2>2. Max(1 .. k) = k /\ (1 .. k) \ {k} = 1 .. k - 1
      BY <1>1, LastOfInterval
    <2>3. it[1 .. k] = TimesNum(it[(1 .. k) \ {Max(1 .. k)}], ranges[Max(1 .. k)])
      BY <1>10, <2>1, Zenon
    <2> QED
      BY <2>2, <2>3
  <1>13. h[0] = 1 /\ h[n] = it[D]
    BY <1>1, <1>11
  <1>14. ASSUME NEW k \in 1 .. n PROVE h[k] = TimesNum(h[k - 1], ranges[k])
    <2>1. k \in 0 .. n /\ k - 1 \in 0 .. n
      BY <1>1
    <2>2. h[k] = it[1 .. k] /\ h[k - 1] = it[1 .. k - 1]
      BY <2>1
    <2> HIDE DEF h
    <2> QED
      BY <1>12, <2>2
  <1> HIDE DEF h
  <1> DEFINE S == {k \in 0 .. n : h[k] \in R}
  <1>15. 0 \in S
    BY <1>1, <1>13
  <1>16. ASSUME NEW k \in 0 .. n - 1, k \in S PROVE k + 1 \in S
    <2>1. k + 1 \in 1 .. n /\ (k + 1) - 1 = k /\ k + 1 \in 0 .. n
      BY <1>1
    <2>2. h[k + 1] = TimesNum(h[k], ranges[k + 1])
      BY <1>14, <2>1
    <2> QED
      BY <1>2, <1>16, <2>1, <2>2
  <1> HIDE DEF S
  <1>17. 0 .. n \subseteq S
    <2>1. 0 \in Int /\ n \in Int
      BY <1>1
    <2> QED
      BY <1>15, <1>16, <2>1, IntervalInduction
  <1>18. \A k \in 0 .. n : h[k] \in R
    BY <1>17 DEF S
  <1> QED
    BY <1>5, <1>13, <1>14, <1>18 DEF n, R

TimesMore(m, r) == m * (Lowest(r).num \div gcd(Lowest(r).num, m))

LEMMA TimesMoreIs ==
    ASSUME NEW m \in Nat \ {0}, NEW r \in RateRange
    PROVE  /\ TimesMore(m, r) \in Nat \ {0}
           /\ Factor(m, TimesMore(m, r)) /\ Factor(Lowest(r).num, TimesMore(m, r))
  <1> DEFINE a == Lowest(r).num
             g == gcd(a, m)
             b == a \div g
  <1>1. a \in Nat \ {0}
    BY LowestTyped DEF RateRange
  <1>2. TimesMore(m, r) = m * b
    BY DEF TimesMore
  <1> HIDE DEF a
  <1>3. g \in Nat \ {0} /\ Factor(g, a) /\ Factor(g, m)
    BY <1>1, GcdDivides
  <1> HIDE DEF g
  <1>4. b \in Nat \ {0} /\ a = g * b
    BY <1>1, <1>3, Quotient
  <1>5. PICK q \in Int : m = g * q
    BY <1>3 DEF Factor
  <1> HIDE DEF b
  <1>6. m * b = a * q
    <2>1. m * b = (g * q) * b /\ a * q = (g * b) * q
      BY <1>4, <1>5
    <2>2. (g * q) * b = (g * b) * q
      BY <1>3, <1>4
    <2> QED
      BY <2>1, <2>2
  <1>7. m * b \in Nat \ {0} /\ b \in Int
    <2>1. m * b >= m * 1
      BY <1>4, Monotone
    <2> QED
      BY <1>4, <2>1
  <1> QED
    BY <1>2, <1>6, <1>7 DEF Factor, a

LEMMA MultipleFold ==
    ASSUME NEW ranges \in Seq(RateRange)
    PROVE  \E h : /\ h[0] = 1 /\ Multiple(ranges) = h[Len(ranges)]
                  /\ \A k \in 1 .. Len(ranges) :
                        h[k] = TimesMore(h[k - 1], ranges[k])
                  /\ \A k \in 0 .. Len(ranges) : h[k] \in (Nat \ {0})
  <1> DEFINE n == Len(ranges)
             D == DOMAIN ranges
             R == (Nat \ {0})
             step == [p \in (1 .. n) \X R |-> TimesMore(p[2], ranges[p[1]])]
             it == CHOOSE f : f = [s \in SUBSET D |->
                      IF s = {} THEN 1
                      ELSE TimesMore(f[s \ {Max(s)}], ranges[Max(s)])]
             h == [k \in 0 .. n |-> it[1 .. k]]
  <1>1. n \in Nat /\ D = 1 .. n /\ 1 \in R
    OBVIOUS
  <1>2. \A k \in 1 .. n, v \in R : TimesMore(v, ranges[k]) \in R
    BY TimesMoreIs
  <1>3. step \in [(1 .. n) \X R -> R]
    <2> HIDE DEF n, D, R
    <2> QED
      BY <1>2
  <1>4. \A k \in 1 .. n, v \in R : step[<<k, v>>] = TimesMore(v, ranges[k])
    OBVIOUS
  <1>5. Multiple(ranges) = it[D]
    BY Zenon DEF Multiple, FoldLeft, MapThenFoldSet, TimesMore
  <1> HIDE DEF step, n, D, R
  <1>6. PICK g \in [SUBSET (1 .. n) -> R] : Folded(g, n, 1, step)
    BY <1>1, <1>3, FoldExists, Zenon
  <1>7. ASSUME NEW s \in SUBSET D, s # {} PROVE Max(s) \in s
    <2>1. s \in SUBSET Int /\ n \in Int /\ \A x \in s : x <= n
      BY <1>1
    <2> QED
      BY <1>7, <2>1, MaxInside, Zenon
  <1>8. ASSUME NEW s \in SUBSET D, s # {}
        PROVE  step[<<Max(s), g[s \ {Max(s)}]>>]
                 = TimesMore(g[s \ {Max(s)}], ranges[Max(s)])
    <2>1. Max(s) \in 1 .. n /\ s \ {Max(s)} \in SUBSET (1 .. n)
      BY <1>1, <1>7, <1>8
    <2>2. g[s \ {Max(s)}] \in R
      BY <1>6, <2>1, Zenon
    <2> QED
      BY <1>4, <2>1, <2>2
  <1>9. g = [s \in SUBSET D |->
               IF s = {} THEN 1 ELSE TimesMore(g[s \ {Max(s)}], ranges[Max(s)])]
    BY <1>1, <1>6, <1>8, Zenon DEF Folded
  <1>10. it = [s \in SUBSET D |->
               IF s = {} THEN 1 ELSE TimesMore(it[s \ {Max(s)}], ranges[Max(s)])]
    BY <1>9, Zenon
  <1> HIDE DEF it
  <1>11. it[1 .. 0] = 1
    <2>1. 1 .. 0 = {} /\ {} \in SUBSET D
      OBVIOUS
    <2> QED
      BY <1>10, <2>1
  <1>12. ASSUME NEW k \in 1 .. n
         PROVE  it[1 .. k] = TimesMore(it[1 .. k - 1], ranges[k])
    <2>1. 1 .. k \in SUBSET D /\ 1 .. k # {}
      <3>1. (\A x \in 1 .. k : x \in 1 .. n) /\ k \in 1 .. k
        BY <1>1
      <3> QED
        BY <1>1, <3>1
    <2>2. Max(1 .. k) = k /\ (1 .. k) \ {k} = 1 .. k - 1
      BY <1>1, LastOfInterval
    <2>3. it[1 .. k] = TimesMore(it[(1 .. k) \ {Max(1 .. k)}], ranges[Max(1 .. k)])
      BY <1>10, <2>1, Zenon
    <2> QED
      BY <2>2, <2>3
  <1>13. h[0] = 1 /\ h[n] = it[D]
    BY <1>1, <1>11
  <1>14. ASSUME NEW k \in 1 .. n PROVE h[k] = TimesMore(h[k - 1], ranges[k])
    <2>1. k \in 0 .. n /\ k - 1 \in 0 .. n
      BY <1>1
    <2>2. h[k] = it[1 .. k] /\ h[k - 1] = it[1 .. k - 1]
      BY <2>1
    <2> HIDE DEF h
    <2> QED
      BY <1>12, <2>2
  <1> HIDE DEF h
  <1> DEFINE S == {k \in 0 .. n : h[k] \in R}
  <1>15. 0 \in S
    BY <1>1, <1>13
  <1>16. ASSUME NEW k \in 0 .. n - 1, k \in S PROVE k + 1 \in S
    <2>1. k + 1 \in 1 .. n /\ (k + 1) - 1 = k /\ k + 1 \in 0 .. n
      BY <1>1
    <2>2. h[k + 1] = TimesMore(h[k], ranges[k + 1])
      BY <1>14, <2>1
    <2> QED
      BY <1>2, <1>16, <2>1, <2>2
  <1> HIDE DEF S
  <1>17. 0 .. n \subseteq S
    <2>1. 0 \in Int /\ n \in Int
      BY <1>1
    <2> QED
      BY <1>15, <1>16, <2>1, IntervalInduction
  <1>18. \A k \in 0 .. n : h[k] \in R
    BY <1>17 DEF S
  <1> QED
    BY <1>5, <1>13, <1>14, <1>18 DEF n, R

Taken(frames, done, r) ==
    Append(done, [r EXCEPT !.numFrames =
                     IF @ > 0 THEN @ ELSE Max({0, frames - Frames(done)})])

LEMMA TakenTyped ==
    ASSUME NEW frames \in Int, NEW done \in Seq(RateRange), NEW r \in RateRange
    PROVE  Taken(frames, done, r) \in Seq(RateRange)
  <1> DEFINE rest == frames - Frames(done)
             m == IF rest > 0 THEN rest ELSE 0
  <1>1. Frames(done) \in Nat
    BY FramesFold
  <1>2. Max({0, rest}) \in Nat
    <2>1. rest \in Int
      BY <1>1
    <2> HIDE DEF rest
    <2>2. {0, rest} \in SUBSET Int /\ m \in {0, rest} /\ \A x \in {0, rest} : x <= m
      BY <2>1
    <2>3. m \in Nat
      BY <2>1
    <2> HIDE DEF m
    <2> QED
      BY <2>2, <2>3, MaxIs
  <1> DEFINE c == IF r.numFrames > 0 THEN r.numFrames ELSE Max({0, rest})
             next == [r EXCEPT !.numFrames = c]
  <1>3. c \in Nat
    <2> HIDE DEF rest
    <2> QED
      BY <1>2 DEF RateRange
  <1>4. Taken(frames, done, r) = Append(done, next)
    BY Zenon DEF Taken
  <1> HIDE DEF c
  <1>5. next \in RateRange
    BY <1>3 DEF RateRange
  <1> HIDE DEF next
  <1> QED
    BY <1>4, <1>5

LEMMA NormalizedFold ==
    ASSUME NEW ranges \in Seq(RateRange), NEW frames \in Int
    PROVE  \E h : /\ h[0] = <<>> /\ NormalizeFPSRange(ranges, frames) = h[Len(ranges)]
                  /\ \A k \in 1 .. Len(ranges) :
                        h[k] = Taken(frames, h[k - 1], ranges[k])
                  /\ \A k \in 0 .. Len(ranges) : h[k] \in Seq(RateRange)
  <1> DEFINE n == Len(ranges)
             D == DOMAIN ranges
             R == Seq(RateRange)
             step == [p \in (1 .. n) \X R |-> Taken(frames, p[2], ranges[p[1]])]
             it == CHOOSE f : f = [s \in SUBSET D |->
                      IF s = {} THEN <<>>
                      ELSE Taken(frames, f[s \ {Max(s)}], ranges[Max(s)])]
             h == [k \in 0 .. n |-> it[1 .. k]]
  <1>1. n \in Nat /\ D = 1 .. n /\ <<>> \in R
    OBVIOUS
  <1>2. \A k \in 1 .. n, v \in R : Taken(frames, v, ranges[k]) \in R
    <2>1. \A k \in 1 .. n : ranges[k] \in RateRange
      OBVIOUS
    <2> QED
      BY <2>1, TakenTyped
  <1>3. step \in [(1 .. n) \X R -> R]
    <2> HIDE DEF n, D, R
    <2> QED
      BY <1>2
  <1>4. \A k \in 1 .. n, v \in R : step[<<k, v>>] = Taken(frames, v, ranges[k])
    OBVIOUS
  <1>5. NormalizeFPSRange(ranges, frames) = it[D]
    BY Zenon DEF NormalizeFPSRange, FoldLeft, MapThenFoldSet, Taken
  <1> HIDE DEF step, n, D, R
  <1>6. PICK g \in [SUBSET (1 .. n) -> R] : Folded(g, n, <<>>, step)
    BY <1>1, <1>3, FoldExists, Zenon
  <1>7. ASSUME NEW s \in SUBSET D, s # {} PROVE Max(s) \in s
    <2>1. s \in SUBSET Int /\ n \in Int /\ \A x \in s : x <= n
      BY <1>1
    <2> QED
      BY <1>7, <2>1, MaxInside, Zenon
  <1>8. ASSUME NEW s \in SUBSET D, s # {}
        PROVE  step[<<Max(s), g[s \ {Max(s)}]>>]
                 = Taken(frames, g[s \ {Max(s)}], ranges[Max(s)])
    <2>1. Max(s) \in 1 .. n /\ s \ {Max(s)} \in SUBSET (1 .. n)
      BY <1>1, <1>7, <1>8
    <2>2. g[s \ {Max(s)}] \in R
      BY <1>6, <2>1, Zenon
    <2> QED
      BY <1>4, <2>1, <2>2
  <1>9. g = [s \in SUBSET D |->
               IF s = {} THEN <<>> ELSE Taken(frames, g[s \ {Max(s)}], ranges[Max(s)])]
    BY <1>1, <1>6, <1>8, Zenon DEF Folded
  <1>10. it = [s \in SUBSET D |->
               IF s = {} THEN <<>> ELSE Taken(frames, it[s \ {Max(s)}], ranges[Max(s)])]
    BY <1>9, Zenon
  <1> HIDE DEF it
  <1>11. it[1 .. 0] = <<>>
    <2>1. 1 .. 0 = {} /\ {} \in SUBSET D
      OBVIOUS
    <2> QED
      BY <1>10, <2>1
  <1>12. ASSUME NEW k \in 1 .. n
         PROVE  it[1 .. k] = Taken(frames, it[1 .. k - 1], ranges[k])
    <2>1. 1 .. k \in SUBSET D /\ 1 .. k # {}
      <3>1. (\A x \in 1 .. k : x \in 1 .. n) /\ k \in 1 .. k
        BY <1>1
      <3> QED
        BY <1>1, <3>1
    <2>2. Max(1 .. k) = k /\ (1 .. k) \ {k} = 1 .. k - 1
      BY <1>1, LastOfInterval
    <2>3. it[1 .. k] = Taken(frames, it[(1 .. k) \ {Max(1 .. k)}], ranges[Max(1 .. k)])
      BY <1>10, <2>1, Zenon
    <2> QED
      BY <2>2, <2>3
  <1>13. h[0] = <<>> /\ h[n] = it[D]
    BY <1>1, <1>11
  <1>14. ASSUME NEW k \in 1 .. n PROVE h[k] = Taken(frames, h[k - 1], ranges[k])
    <2>1. k \in 0 .. n /\ k - 1 \in 0 .. n
      BY <1>1
    <2>2. h[k] = it[1 .. k] /\ h[k - 1] = it[1 .. k - 1]
      BY <2>1
    <2> HIDE DEF h
    <2> QED
      BY <1>12, <2>2
  <1> HIDE DEF h
  <1> DEFINE S == {k \in 0 .. n : h[k] \in R}
  <1>15. 0 \in S
    BY <1>1, <1>13
  <1>16. ASSUME NEW k \in 0 .. n - 1, k \in S PROVE k + 1 \in S
    <2>1. k + 1 \in 1 .. n /\ (k + 1) - 1 = k /\ k + 1 \in 0 .. n
      BY <1>1
    <2>2. h[k + 1] = Taken(frames, h[k], ranges[k + 1])
      BY <1>14, <2>1
    <2> QED
      BY <1>2, <1>16, <2>1, <2>2
  <1> HIDE DEF S
  <1>17. 0 .. n \subseteq S
    <2>1. 0 \in Int /\ n \in Int
      BY <1>1
    <2> QED
      BY <1>15, <1>16, <2>1, IntervalInduction
  <1>18. \A k \in 0 .. n : h[k] \in R
    BY <1>17 DEF S
  <1> QED
    BY <1>5, <1>13, <1>14, <1>18 DEF n, R

-----------------------------------------------------------------------------
(* Time codes of frame-rate ranges *)

FrameCounts(ranges) == [r \in 1 .. Len(ranges) |-> ranges[r].numFrames]

\* the range of every frame
RatesOf(ranges) == FlattenSeq([r \in DOMAIN ranges |->
                                 [j \in 1 .. ranges[r].numFrames |-> ranges[r]]])

LEMMA RatesAre ==
    ASSUME NEW ranges \in Seq(RateRange)
    PROVE  /\ FrameCounts(ranges) \in Seq(Nat)
           /\ Len(FrameCounts(ranges)) = Len(ranges)
           /\ RatesOf(ranges) \in Seq(RateRange)
           /\ Len(RatesOf(ranges)) = Frames(ranges)
           /\ Frames(ranges) = SumOf(FrameCounts(ranges))
           /\ \A h : SumsOf(h, FrameCounts(ranges)) =>
                \A r \in 1 .. Len(ranges) : \A j \in 1 .. ranges[r].numFrames :
                   RatesOf(ranges)[h[r - 1] + j] = ranges[r]
  <1> DEFINE n == Len(ranges)
             R == RateRange
             rows == [r \in 1 .. n |-> [j \in 1 .. ranges[r].numFrames |-> ranges[r]]]
             counts == FrameCounts(ranges)
  <1>1. n \in Nat /\ DOMAIN ranges = 1 .. n /\ \A r \in 1 .. n : ranges[r] \in R
    OBVIOUS
  <1>2. \A r \in 1 .. n : ranges[r].numFrames \in Nat
    BY <1>1 DEF RateRange
  <1> HIDE DEF R, n
  <1>3. counts \in Seq(Nat) /\ Len(counts) = n
        /\ \A r \in 1 .. n : counts[r] = ranges[r].numFrames
    BY <1>1, <1>2 DEF FrameCounts, n
  <1>4. ASSUME NEW r \in 1 .. n
        PROVE  /\ [j \in 1 .. ranges[r].numFrames |-> ranges[r]] \in Seq(R)
               /\ Len([j \in 1 .. ranges[r].numFrames |-> ranges[r]]) = ranges[r].numFrames
    <2> DEFINE c == ranges[r].numFrames
               v == ranges[r]
    <2>1. c \in Nat /\ v \in R
      BY <1>1, <1>2
    <2> HIDE DEF c, v
    <2>2. [j \in 1 .. c |-> v] \in Seq(R) /\ Len([j \in 1 .. c |-> v]) = c
      BY <2>1
    <2> QED
      BY <2>2 DEF c, v
  <1>5. rows \in Seq(Seq(R)) /\ Len(rows) = n
    BY <1>1, <1>4
  <1>6. \A r \in 1 .. n : /\ Len(rows[r]) = ranges[r].numFrames
                          /\ \A j \in 1 .. ranges[r].numFrames : rows[r][j] = ranges[r]
    BY <1>4
  <1>7. RatesOf(ranges) = FlattenSeq(rows)
    BY <1>1 DEF RatesOf
  <1> HIDE DEF rows, counts
  <1>8. counts = Lengths(rows)
    <2>1. \A r \in 1 .. n : counts[r] = Len(rows[r])
      BY <1>3, <1>6
    <2>2. counts = [r \in 1 .. n |-> Len(rows[r])]
      BY <1>3, <2>1
    <2> QED
      BY <1>5, <2>2, Zenon DEF Lengths
  <1>9. ASSUME NEW h, SumsOf(h, counts)
        PROVE  /\ RatesOf(ranges) \in Seq(R) /\ Len(RatesOf(ranges)) = h[n]
               /\ \A r \in 1 .. n : \A j \in 1 .. ranges[r].numFrames :
                    RatesOf(ranges)[h[r - 1] + j] = ranges[r]
    <2>1. /\ FlattenSeq(rows) \in Seq(R) /\ Len(FlattenSeq(rows)) = h[Len(rows)]
          /\ FlattenedTo(FlattenSeq(rows), rows, h, Len(rows))
      BY <1>5, <1>8, <1>9, Flattened, Zenon
    <2> QED
      BY <1>5, <1>6, <1>7, <2>1 DEF FlattenedTo
  <1>10. PICK g : /\ g[0] = 0 /\ Frames(ranges) = g[n]
                  /\ \A k \in 1 .. n : g[k] = PlusFrames(g[k - 1], ranges[k])
    BY FramesFold DEF n
  <1>11. SumsOf(g, counts)
    BY <1>3, <1>10 DEF SumsOf, PlusFrames
  <1>12. SumOf(counts) = g[n]
    <2>1. counts \in Seq(Int)
      BY <1>3
    <2> QED
      BY <1>3, <1>11, <2>1, SumUnique
  <1> QED
    BY <1>3, <1>9, <1>10, <1>11, <1>12 DEF counts, R, n

\* how long each frame lasts, in units of 1 / Over(ranges) of a second, and
\* when it begins
Lasts(ranges) ==
    [i \in 1 .. Len(RatesOf(ranges)) |->
        RatesOf(ranges)[i].denom * (Over(ranges) \div RatesOf(ranges)[i].num)]
Begins(ranges) == Sums(Lasts(ranges))

LEMMA LastsTyped ==
    ASSUME NEW ranges \in Seq(RateRange)
    PROVE  /\ Over(ranges) \in Nat \ {0} /\ Lasts(ranges) \in Seq(Nat)
           /\ Len(Lasts(ranges)) = Frames(ranges) /\ Frames(ranges) \in Nat
           /\ SumsOf(Begins(ranges), Lasts(ranges))
           /\ \A i \in 0 .. Frames(ranges) : Begins(ranges)[i] \in Nat
  <1> DEFINE rs == RatesOf(ranges)
             over == Over(ranges)
             n == Len(rs)
             list == [i \in 1 .. n |-> rs[i].denom * (over \div rs[i].num)]
  <1>1. rs \in Seq(RateRange) /\ n = Frames(ranges)
    BY RatesAre
  <1>2. over \in Nat \ {0}
    <2>1. Len(ranges) \in 0 .. Len(ranges)
      OBVIOUS
    <2> QED
      BY <2>1, OverFold
  <1>3. Lasts(ranges) = list
    BY DEF Lasts
  <1> HIDE DEF rs, over
  <1>4. ASSUME NEW i \in 1 .. n PROVE rs[i].denom * (over \div rs[i].num) \in Nat
    <2>1. rs[i] \in RateRange
      BY <1>1
    <2>2. rs[i].denom \in Nat /\ rs[i].num \in Nat \ {0}
      BY <2>1 DEF RateRange
    <2>3. over \div rs[i].num \in Nat
      BY <1>2, <2>2
    <2> QED
      BY <2>2, <2>3
  <1>5. n \in Nat
    BY <1>1
  <1> HIDE DEF n
  <1>6. list \in Seq(Nat) /\ Len(list) = n
    BY <1>4, <1>5
  <1> HIDE DEF list
  <1>7. SumsOf(Sums(list), list)
    <2>1. list \in Seq(Int)
      BY <1>6
    <2> QED
      BY <2>1, SumsAre
  <1>8. ASSUME NEW i \in 0 .. n PROVE Sums(list)[i] \in Nat
    <2>1. i \in i .. Len(list) /\ i \in 0 .. Len(list)
      BY <1>5, <1>6
    <2> QED
      BY <1>6, <1>7, <2>1, SumsGrow
  <1> QED
    BY <1>1, <1>2, <1>3, <1>5, <1>6, <1>7, <1>8 DEF Begins, over, n

LEMMA AsIntTyped ==
    ASSUME NEW x \in Int
    PROVE  /\ AsInt(x) \in Int
           /\ -(IntModulus \div 2) <= AsInt(x) /\ AsInt(x) < IntModulus \div 2
           /\ -(IntModulus \div 2) <= x /\ x < IntModulus \div 2 => AsInt(x) = x
           /\ x \in 0 .. IntModulus - 1 /\ AsInt(x) >= 0 => AsInt(x) = x
  <1> DEFINE M == IntModulus
             m == M \div 2
  <1>1. M \in Nat \ {0} /\ m \in Nat /\ M = 2 * m
    BY IntModulusAssumption
  <1>2. AsInt(x) = ((x + m) % M) - m
    BY DEF AsInt
  <1> HIDE DEF M, m
  <1>3. (x + m) % M \in 0 .. M - 1
    BY <1>1
  <1>4. x + m \in 0 .. M - 1 => (x + m) % M = x + m
    BY <1>1
  <1>5. x \in m .. M - 1 => (x + m) % M = x + m - M
    <2> SUFFICES ASSUME x \in m .. M - 1 PROVE (x + m) % M = x + m - M
      OBVIOUS
    <2>1. x + m = M * 1 + (x + m - M) /\ x + m - M \in 0 .. M - 1
      BY <1>1
    <2> QED
      BY <1>1, <2>1
  <1> QED
    BY <1>1, <1>2, <1>3, <1>4, <1>5 DEF M, m

\* the time code of a frame is its beginning in ticks
LEMMA TimesAre ==
    ASSUME NEW ranges \in Seq(RateRange), NEW scale \in Int
    PROVE  CalcSampleTimes(ranges, scale) =
             [i \in 0 .. Frames(ranges) |->
                 AsTime(AsInt(scale) * Begins(ranges)[i], Over(ranges))]
  <1> DEFINE s == AsInt(scale)
             rs == RatesOf(ranges)
             over == Over(ranges)
             n == Len(rs)
             d(i) == s * rs[i].denom * (over \div rs[i].num)
             offset == CHOOSE g : g = [i \in 0 .. Len(rs) |->
                          IF i = 0 THEN 0
                          ELSE g[i - 1] + s * rs[i].denom * (over \div rs[i].num)]
             b == Begins(ranges)
             k == [i \in 0 .. n |-> s * b[i]]
  <1>1. rs \in Seq(RateRange) /\ n = Frames(ranges) /\ n \in Nat /\ over \in Nat \ {0}
    BY RatesAre, LastsTyped
  <1>2. s \in Int
    BY AsIntTyped
  <1>3. \A i \in 0 .. n : b[i] \in Nat
    BY <1>1, LastsTyped
  <1>4. CalcSampleTimes(ranges, scale) = [i \in 0 .. n |-> AsTime(offset[i], over)]
    BY Zenon DEF CalcSampleTimes, RatesOf, Over
  <1>5. b[0] = 0 /\ \A i \in 1 .. n : b[i] = b[i - 1] + rs[i].denom * (over \div rs[i].num)
    BY <1>1, LastsTyped DEF SumsOf, Lasts
  <1>6. \A i \in 1 .. n : rs[i].denom \in Nat /\ over \div rs[i].num \in Nat
    <2> HIDE DEF rs, over
    <2>1. ASSUME NEW i \in 1 .. n PROVE rs[i].denom \in Nat /\ over \div rs[i].num \in Nat
      <3>1. rs[i] \in RateRange
        BY <1>1
      <3>2. rs[i].denom \in Nat /\ rs[i].num \in Nat \ {0}
        BY <3>1 DEF RateRange
      <3> QED
        BY <1>1, <3>2
    <2> QED
      BY <2>1
  <1> HIDE DEF s, rs, over, n, b
  <1>7. ASSUME NEW i \in 1 .. n PROVE s * b[i] = s * b[i - 1] + d(i) /\ d(i) \in Int
    <2> DEFINE x == rs[i].denom
               y == over \div rs[i].num
               c == b[i - 1]
    <2>1. x \in Nat /\ y \in Nat /\ c \in Nat /\ b[i] = c + x * y
      <3>1. i - 1 \in 0 .. n
        BY <1>1
      <3> QED
        BY <1>3, <1>5, <1>6, <3>1
    <2> HIDE DEF x, y, c
    <2>2. s * (c + x * y) = s * c + s * x * y /\ s * x * y \in Int
      BY <1>2, <2>1
    <2> QED
      BY <2>1, <2>2 DEF x, y, c
  <1>8. k = [i \in 0 .. n |-> IF i = 0 THEN 0 ELSE k[i - 1] + d(i)]
    <2>1. ASSUME NEW i \in 0 .. n
          PROVE  s * b[i] = IF i = 0 THEN 0 ELSE k[i - 1] + d(i)
      <3>1. CASE i = 0
        BY <1>2, <1>5, <3>1
      <3>2. CASE i # 0
        <4>1. i \in 1 .. n /\ i - 1 \in 0 .. n
          BY <1>1, <3>2
        <4>2. k[i - 1] = s * b[i - 1]
          BY <4>1
        <4> HIDE DEF k, d
        <4> QED
          BY <1>7, <3>2, <4>1, <4>2
      <3> QED
        BY <3>1, <3>2
    <2> HIDE DEF d
    <2> QED
      BY <2>1, Zenon
  <1> HIDE DEF k
  <1>9. offset = [i \in 0 .. n |-> IF i = 0 THEN 0 ELSE offset[i - 1] + d(i)]
    BY <1>8, Zenon DEF n
  <1> HIDE DEF offset, d
  <1> DEFINE S == {i \in 0 .. n : offset[i] = s * b[i]}
  <1>10. 0 \in S
    BY <1>1, <1>2, <1>5, <1>9
  <1>11. ASSUME NEW i \in 0 .. n - 1, i \in S PROVE i + 1 \in S
    <2>1. i + 1 \in 1 .. n /\ i + 1 \in 0 .. n /\ (i + 1) - 1 = i /\ i + 1 # 0
      BY <1>1
    <2>2. offset[i + 1] = offset[i] + d(i + 1)
      BY <1>9, <2>1
    <2>3. s * b[i + 1] = s * b[i] + d(i + 1)
      BY <1>7, <2>1
    <2> QED
      BY <1>11, <2>1, <2>2, <2>3
  <1> HIDE DEF S
  <1>12. 0 .. n \subseteq S
    <2>1. 0 \in Int /\ n \in Int
      BY <1>1
    <2> QED
      BY <1>10, <1>11, <2>1, IntervalInduction
  <1>13. \A i \in 0 .. n : offset[i] = s * b[i]
    BY <1>12 DEF S
  <1>14. CalcSampleTimes(ranges, scale) = [i \in 0 .. n |-> AsTime(s * b[i], over)]
    BY <1>4, <1>13, Zenon
  <1> QED
    BY <1>1, <1>14 DEF s, b, over

-----------------------------------------------------------------------------
(* The computed time scale *)

LEMMA MinInside ==
    ASSUME NEW S \in SUBSET Nat, S # {}
    PROVE  Min(S) \in S /\ \A x \in S : Min(S) <= x
  <1>1. PICK m \in S : \A x \in S : m <= x
    BY LeastNatural
  <1> QED
    BY <1>1 DEF Min

LEMMA LcmTyped ==
    ASSUME NEW a \in Nat \ {0}, NEW b \in Int
    PROVE  lcm(a, b) \in Int
  <1> DEFINE g == gcd(a, b)
             q == IF g > 0 THEN a \div g ELSE -(a \div (-g))
  <1>1. g \in Int /\ g # 0
    BY GcdTyped
  <1>2. lcm(a, b) = AsInt(b * q)
    BY DEF lcm
  <1> HIDE DEF g
  <1>3. q \in Int
    <2>1. CASE g > 0
      <3>1. a \div g \in Int
        BY <1>1, <2>1
      <3> QED
        BY <2>1, <3>1
    <2>2. CASE ~ g > 0
      <3> DEFINE f == -g
      <3>1. f \in Nat \ {0}
        BY <1>1, <2>2
      <3> HIDE DEF f
      <3>2. a \div f \in Int
        BY <3>1
      <3> QED
        BY <2>2, <3>2 DEF f
    <2> QED
      BY <2>1, <2>2
  <1> HIDE DEF q
  <1>4. b * q \in Int
    BY <1>3
  <1> QED
    BY <1>2, <1>4, AsIntTyped

\* the multiples that CalcTimeScale computes, and its test of them
Scales(h, ranges) ==
    /\ h[0] = 1
    /\ \A i \in 1 .. Len(ranges) : h[i] = lcm(Lowest(ranges[i]).num, h[i - 1])
Exact(h, ranges) ==
    \A i \in DOMAIN ranges : h[i] # 0 /\ Divides(Lowest(ranges[i]).num, h[i])
Denominators(ranges) == {Lowest(ranges[i]).denom : i \in DOMAIN ranges}

LEMMA ScaleComputed ==
    ASSUME NEW ranges \in Seq(RateRange)
    PROVE  \E h : /\ Scales(h, ranges) /\ \A i \in 0 .. Len(ranges) : h[i] \in Int
                  /\ CalcTimeScale(ranges) =
                       IF Exact(h, ranges)
                       THEN Refined(h[Len(ranges)], Min(Denominators(ranges)))
                       ELSE 1000
  <1> DEFINE n == Len(ranges)
             low == [i \in DOMAIN ranges |-> Lowest(ranges[i])]
             step == [p \in (0 + 1 .. n) \X Int |-> lcm(low[p[1]].num, p[2])]
             scale == CHOOSE g : g = [i \in 0 .. Len(ranges) |->
                         IF i = 0 THEN 1 ELSE lcm(low[i].num, g[i - 1])]
  <1>1. n \in Nat /\ DOMAIN ranges = 1 .. n
    OBVIOUS
  <1>2. \A i \in 1 .. n : low[i].num \in Nat \ {0}
    <2>1. ASSUME NEW i \in 1 .. n PROVE low[i].num \in Nat \ {0}
      <3>1. ranges[i] \in RateRange /\ low[i] = Lowest(ranges[i])
        OBVIOUS
      <3>2. Lowest(ranges[i]) \in RateRange
        BY <3>1, LowestTyped
      <3> QED
        BY <3>1, <3>2 DEF RateRange
    <2> QED
      BY <2>1
  <1>3. CalcTimeScale(ranges) =
          IF \A i \in DOMAIN ranges : scale[i] # 0 /\ Divides(low[i].num, scale[i])
          THEN Refined(scale[Len(ranges)], Min({low[i].denom : i \in DOMAIN ranges}))
          ELSE 1000
    BY Zenon DEF CalcTimeScale
  <1>4. \A i \in DOMAIN ranges : low[i] = Lowest(ranges[i])
    OBVIOUS
  <1> HIDE DEF low
  <1>5. ASSUME NEW i \in 0 + 1 .. n, NEW v \in Int PROVE lcm(low[i].num, v) \in Int
    <2>1. i \in 1 .. n
      BY <1>1
    <2> QED
      BY <1>2, <2>1, LcmTyped
  <1>6. step \in [(0 + 1 .. n) \X Int -> Int]
        /\ \A i \in 0 + 1 .. n, v \in Int : step[<<i, v>>] = lcm(low[i].num, v)
    <2> HIDE DEF n
    <2> QED
      BY <1>1, <1>5
  <1> HIDE DEF step, n
  <1>7. PICK g \in [0 .. n -> Int] : Stepped(g, 0, n, 1, step)
    <2>1. 0 \in Int /\ n \in Int /\ 0 <= n /\ 1 \in Int
      BY <1>1
    <2> QED
      BY <1>6, <2>1, Recursion, Zenon
  <1>8. g = [i \in 0 .. n |-> IF i = 0 THEN 1 ELSE lcm(low[i].num, g[i - 1])]
    <2>1. ASSUME NEW i \in 0 .. n
          PROVE  g[i] = IF i = 0 THEN 1 ELSE lcm(low[i].num, g[i - 1])
      <3>1. CASE i = 0
        BY <1>7, <3>1 DEF Stepped
      <3>2. CASE i # 0
        <4>1. i \in 0 + 1 .. n /\ i - 1 \in 0 .. n
          BY <1>1, <3>2
        <4>2. g[i] = step[<<i, g[i - 1]>>] /\ g[i - 1] \in Int
          BY <1>7, <4>1 DEF Stepped
        <4> QED
          BY <1>6, <3>2, <4>1, <4>2
      <3> QED
        BY <3>1, <3>2
    <2>2. g = [i \in 0 .. n |-> g[i]]
      BY <1>7
    <2> QED
      BY <2>1, <2>2, Zenon
  <1>9. scale = [i \in 0 .. n |-> IF i = 0 THEN 1 ELSE lcm(low[i].num, scale[i - 1])]
    BY <1>8, Zenon DEF n
  <1> HIDE DEF scale
  <1>10. scale[0] = 1 /\ \A i \in 1 .. n : scale[i] = lcm(low[i].num, scale[i - 1])
    <2>1. ASSUME NEW i \in 1 .. n PROVE i \in 0 .. n /\ i # 0
      OBVIOUS
    <2>2. 0 \in 0 .. n
      BY <1>1
    <2> QED
      BY <1>9, <2>1, <2>2, Zenon
  <1>11. Scales(scale, ranges)
    BY <1>1, <1>4, <1>10 DEF Scales, n
  <1> DEFINE S == {i \in 0 .. n : scale[i] \in Int}
  <1>12. 0 \in S
    BY <1>1, <1>10
  <1>13. ASSUME NEW i \in 0 .. n - 1, i \in S PROVE i + 1 \in S
    <2>1. i + 1 \in 1 .. n /\ i + 1 \in 0 .. n /\ (i + 1) - 1 = i
      BY <1>1
    <2>2. scale[i + 1] = lcm(low[i + 1].num, scale[i])
      BY <1>10, <2>1
    <2>3. i + 1 \in 0 + 1 .. n /\ scale[i] \in Int
      BY <1>13, <2>1
    <2>4. lcm(low[i + 1].num, scale[i]) \in Int
      BY <1>5, <2>3, Zenon
    <2> QED
      BY <2>1, <2>2, <2>4
  <1> HIDE DEF S
  <1>14. 0 .. n \subseteq S
    <2>1. 0 \in Int /\ n \in Int
      BY <1>1
    <2> QED
      BY <1>12, <1>13, <2>1, IntervalInduction
  <1>15. \A i \in 0 .. n : scale[i] \in Int
    BY <1>14 DEF S
  <1>16. /\ (\A i \in DOMAIN ranges : scale[i] # 0 /\ Divides(low[i].num, scale[i]))
              <=> Exact(scale, ranges)
         /\ {low[i].denom : i \in DOMAIN ranges} = Denominators(ranges)
    BY <1>4 DEF Exact, Denominators
  <1> QED
    BY <1>3, <1>11, <1>15, <1>16, Zenon DEF n

LEMMA DenominatorsTyped ==
    ASSUME NEW ranges \in Seq(RateRange), Len(ranges) # 0
    PROVE  /\ Min(Denominators(ranges)) \in Denominators(ranges)
           /\ Min(Denominators(ranges)) \in Nat \ {0}
  <1>1. 1 \in DOMAIN ranges
    OBVIOUS
  <1>2. ASSUME NEW i \in DOMAIN ranges PROVE Lowest(ranges[i]).denom \in Nat \ {0}
    <2>1. ranges[i] \in RateRange
      OBVIOUS
    <2>2. Lowest(ranges[i]) \in RateRange
      BY <2>1, LowestTyped
    <2> QED
      BY <2>2 DEF RateRange
  <1>3. Denominators(ranges) \in SUBSET (Nat \ {0}) /\ Denominators(ranges) # {}
    BY <1>1, <1>2 DEF Denominators
  <1>4. Denominators(ranges) \in SUBSET Nat
    BY <1>3
  <1> QED
    BY <1>3, <1>4, MinInside

LEMMA TruncatedTyped ==
    ASSUME NEW a \in Int, NEW b \in Nat \ {0}
    PROVE  /\ Truncated(a, b) \in Int
           /\ a >= b \/ a <= -b => Truncated(a, b) # 0
  <1>1. /\ a \div b \in Int /\ b * (a \div b) <= a /\ a < b * (a \div b) + b
        /\ (-a) \div b \in Int /\ b * ((-a) \div b) <= -a /\ -a < b * ((-a) \div b) + b
    BY DivBounds
  <1> DEFINE p == a \div b
             q == (-a) \div b
  <1>2. Truncated(a, b) = IF a >= 0 THEN p ELSE -q
    BY DEF Truncated
  <1> HIDE DEF p, q
  <1>3. p \in Int /\ q \in Int /\ a < b * p + b /\ -a < b * q + b
    BY <1>1 DEF p, q
  <1>4. (a >= b => p # 0) /\ (a <= -b => q # 0)
    <2>1. p = 0 => b * p = 0
      OBVIOUS
    <2>2. q = 0 => b * q = 0
      OBVIOUS
    <2> QED
      BY <1>3, <2>1, <2>2
  <1> QED
    BY <1>2, <1>3, <1>4

\* a scale of zero is never computed
LEMMA RefinedTyped ==
    ASSUME NEW multiple \in Int, NEW denom \in Nat \ {0}
    PROVE  /\ Refined(multiple, denom) \in 0 .. IntModulus - 1
           /\ multiple # 0 => Refined(multiple, denom) # 0
  <1> DEFINE finer == IF denom < 100 THEN Truncated(multiple * 100, denom)
                      ELSE multiple
             int == IF finer = AsInt(finer) THEN finer ELSE TooLargeInt
             M == IntModulus
             m == IntModulus \div 2
  <1>1. M \in Nat /\ m \in Nat /\ M = 2 * m /\ m > 1
    BY IntModulusAssumption
  <1>2. Refined(multiple, denom) = (int % M)
    BY DEF Refined
  <1>3. finer \in Int /\ (multiple # 0 => finer # 0)
    <2>1. multiple * 100 \in Int
          /\ (multiple # 0 => multiple * 100 >= 100 \/ multiple * 100 <= -100)
      OBVIOUS
    <2>2. Truncated(multiple * 100, denom) \in Int
      BY <2>1, TruncatedTyped
    <2>3. multiple # 0 /\ denom < 100 => Truncated(multiple * 100, denom) # 0
      BY <2>1, TruncatedTyped
    <2> QED
      BY <2>2, <2>3
  <1> HIDE DEF finer
  <1>4. /\ int \in Int /\ -m <= int /\ int < m
        /\ multiple # 0 => int # 0
    BY <1>1, <1>3, AsIntTyped, TooLargeIntAssumption
  <1> HIDE DEF int, M, m
  <1>5. int % M \in 0 .. M - 1
    BY <1>1, <1>4
  <1>6. int >= 0 => int % M = int
    BY <1>1, <1>4
  <1>7. int < 0 => int % M = int + M
    <2> SUFFICES ASSUME int < 0 PROVE int % M = int + M
      OBVIOUS
    <2>1. int = M * (-1) + (int + M) /\ int + M \in 0 .. M - 1
      BY <1>1, <1>4
    <2> QED
      BY <1>1, <2>1
  <1>8. multiple # 0 => int % M # 0
    BY <1>1, <1>4, <1>6, <1>7
  <1> QED
    BY <1>2, <1>5, <1>8 DEF M

LEMMA TimeScaleTyped ==
    ASSUME NEW ranges \in Seq(RateRange), Len(ranges) # 0
    PROVE  CalcTimeScale(ranges) \in 1 .. IntModulus - 1
  <1>1. PICK h : /\ Scales(h, ranges) /\ \A i \in 0 .. Len(ranges) : h[i] \in Int
                 /\ CalcTimeScale(ranges) =
                      IF Exact(h, ranges)
                      THEN Refined(h[Len(ranges)], Min(Denominators(ranges)))
                      ELSE 1000
    BY ScaleComputed
  <1> DEFINE d == Min(Denominators(ranges))
             x == h[Len(ranges)]
  <1>2. Len(ranges) \in DOMAIN ranges /\ Len(ranges) \in 0 .. Len(ranges)
    OBVIOUS
  <1>3. x \in Int /\ (Exact(h, ranges) => x # 0)
    BY <1>1, <1>2 DEF Exact
  <1>4. d \in Nat \ {0}
    BY DenominatorsTyped
  <1> HIDE DEF d, x
  <1>5. Refined(x, d) \in 0 .. IntModulus - 1 /\ (x # 0 => Refined(x, d) # 0)
    BY <1>3, <1>4, RefinedTyped
  <1>6. 1000 \in 1 .. IntModulus - 1 /\ IntModulus \in Nat
    BY IntModulusAssumption
  <1> QED
    BY <1>1, <1>3, <1>5, <1>6 DEF d, x

LEMMA HundredsAre ==
    /\ Hundred \in [0 .. 10 -> Nat] /\ Hundred[0] = 100
    /\ \A k \in 1 .. 10 : Hundred[k] = (10 * Hundred[k - 1]) % IntModulus
  <1> DEFINE M == IntModulus
             step == [p \in (0 + 1 .. 10) \X Nat |-> (10 * p[2]) % M]
             next(k, h) == IF k = 0 THEN 100 ELSE (10 * h[k - 1]) % M
  <1>1. M \in Nat \ {0}
    BY IntModulusAssumption
  <1> HIDE DEF M
  <1>2. \A v \in Nat : ((10 * v) % M) \in Nat
    BY <1>1
  <1>3. /\ step \in [(0 + 1 .. 10) \X Nat -> Nat]
        /\ \A k \in 0 + 1 .. 10, v \in Nat : step[<<k, v>>] = (10 * v) % M
    BY <1>2
  <1> HIDE DEF step
  <1>4. PICK g \in [0 .. 10 -> Nat] : Stepped(g, 0, 10, 100, step)
    <2>1. 0 \in Int /\ 10 \in Int /\ 0 <= 10 /\ 100 \in Nat
      OBVIOUS
    <2> QED
      BY <1>3, <2>1, Recursion, Zenon
  <1>5. ASSUME NEW k \in 0 .. 10 PROVE g[k] = next(k, g)
    <2>1. CASE k = 0
      BY <1>4, <2>1 DEF Stepped
    <2>2. CASE k # 0
      <3>1. k \in 0 + 1 .. 10 /\ k - 1 \in 0 .. 10
        BY <2>2
      <3>2. g[k] = step[<<k, g[k - 1]>>] /\ g[k - 1] \in Nat
        BY <1>4, <3>1 DEF Stepped
      <3> QED
        BY <1>3, <2>2, <3>1, <3>2
    <2> QED
      BY <2>1, <2>2
  <1>6. g = [k \in 0 .. 10 |-> next(k, g)]
    <2>1. g = [k \in 0 .. 10 |-> g[k]]
      BY <1>4
    <2> HIDE DEF next
    <2> QED
      BY <1>5, <2>1, Zenon
  <1>7. Hundred = [k \in 0 .. 10 |-> next(k, Hundred)]
    BY <1>6, Zenon DEF Hundred, M
  <1>8. \A k \in 0 .. 10 : Hundred[k] = next(k, Hundred)
    <2> HIDE DEF next
    <2> QED
      BY <1>7, Zenon
  <1> DEFINE S == {k \in 0 .. 10 : Hundred[k] \in Nat}
  <1>9. 0 \in S
    BY <1>8
  <1>10. ASSUME NEW k \in 0 .. 10 - 1, k \in S PROVE k + 1 \in S
    <2>1. k + 1 \in 0 .. 10 /\ k + 1 # 0 /\ (k + 1) - 1 = k
      OBVIOUS
    <2>2. Hundred[k + 1] = (10 * Hundred[k]) % M
      BY <1>8, <2>1
    <2> QED
      BY <1>2, <1>10, <2>1, <2>2
  <1> HIDE DEF S
  <1>11. 0 .. 10 \subseteq S
    <2>1. 0 \in Int /\ 10 \in Int
      OBVIOUS
    <2> QED
      BY <1>9, <1>10, <2>1, IntervalInduction
  <1>12. \A k \in 0 .. 10 : Hundred[k] \in Nat
    BY <1>11 DEF S
  <1>13. Hundred \in [0 .. 10 -> Nat]
    <2>1. Hundred = [k \in 0 .. 10 |-> Hundred[k]]
      <3> HIDE DEF next
      <3> QED
        BY <1>7, <1>8, Zenon
    <2> QED
      BY <1>12, <2>1
  <1>14. Hundred[0] = 100
    BY <1>8
  <1>15. ASSUME NEW k \in 1 .. 10 PROVE Hundred[k] = (10 * Hundred[k - 1]) % M
    <2>1. k \in 0 .. 10 /\ k # 0
      OBVIOUS
    <2> QED
      BY <1>8, <2>1
  <1> QED
    BY <1>13, <1>14, <1>15 DEF M

\* the scale that is searched: ten, or no more than makes the movie fit
LEMMA ShrunkScale ==
    ASSUME NEW scale \in Nat, NEW duration \in Nat \ {0},
           (scale * MaxDuration - 1) \div duration < IntModulus \div 2
    PROVE  LET most == (scale * MaxDuration - 1) \div duration
               shrunk == ShrunkTimeScale(scale, duration)
           IN  /\ shrunk \in 10 .. IntModulus \div 10
               /\ shrunk = 10 \/ shrunk <= most
  <1> DEFINE most == (scale * MaxDuration - 1) \div duration
             S == {k \in 0 .. 10 : Hundred[k] > most}
             k == Min(S)
             M == IntModulus
  <1>1. M \in Nat /\ M > 2000
    BY IntModulusAssumption
  <1>2. most \in Int /\ most < IntModulus \div 2
    BY IntModulusAssumption
  <1>3. ShrunkTimeScale(scale, duration) = Hundred[k] \div 10
    BY DEF ShrunkTimeScale, TooFine
  <1> HIDE DEF most
  <1>4. S # {}
    <2>1. PICK j \in 0 .. 10 : Hundred[j] >= IntModulus \div 2
      BY HundredsAssumption
    <2>2. Hundred[j] > most
      BY <1>1, <1>2, <2>1, HundredsAre
    <2> QED
      BY <2>2
  <1>5. S \in SUBSET Nat
    OBVIOUS
  <1>6. k \in S /\ \A j \in S : k <= j
    BY <1>4, <1>5, MinInside
  <1>7. k \in 0 .. 10 /\ Hundred[k] > most /\ \A j \in 0 .. 10 : j < k => Hundred[j] <= most
    <2>1. \A j \in 0 .. 10 : Hundred[j] \in Int
      BY HundredsAre
    <2> QED
      BY <1>2, <1>6, <2>1
  <1> HIDE DEF k, S, M
  <1>8. CASE k = 0
    <2>1. Hundred[k] \div 10 = 10
      BY <1>8, HundredsAre
    <2> QED
      BY <1>1, <1>3, <2>1 DEF M
  <1>9. CASE k # 0
    <2> DEFINE p == Hundred[k - 1]
               q == Hundred[k]
    <2>1. k \in 1 .. 10 /\ k - 1 \in 0 .. 10 /\ 0 \in 0 .. 10 /\ 0 < k
      BY <1>7, <1>9
    <2>2. p \in Nat /\ q = (10 * p) % M /\ p <= most /\ q > most /\ Hundred[0] <= most
      BY <1>7, <2>1, HundredsAre DEF M
    <2> HIDE DEF p, q
    <2>3. most >= 100
      BY <2>2, HundredsAre
    <2>4. q \in 0 .. M - 1 /\ q <= 10 * p
      BY <1>1, <2>2
    <2>5. q \div 10 <= p /\ q \div 10 \in 10 .. M \div 10
      BY <1>1, <1>2, <2>2, <2>3, <2>4
    <2> QED
      BY <1>2, <1>3, <2>2, <2>5 DEF M, most, q
  <1> QED
    BY <1>8, <1>9

-----------------------------------------------------------------------------
(* A movie too long for the computed scale *)

LEMMA RoundedFromZero ==
    ASSUME NEW x \in Nat, NEW over \in Nat \ {0}
    PROVE  HalfUp(x, 1, over) \in Nat
  <1> DEFINE h == HalfUp(x, 1, over)
  <1>1. h \in Int /\ 2 * over * h >= 2 * x * 1 - over
    BY HalfUpBounds
  <1> HIDE DEF h
  <1>2. 2 * over * h >= -over
    <2>1. 2 * x * 1 >= 0
      OBVIOUS
    <2>2. 2 * over * h \in Int
      BY <1>1
    <2> QED
      BY <1>1, <2>1, <2>2
  <1>3. h >= 0
    <2> SUFFICES ASSUME h <= -1 PROVE FALSE
      BY <1>1
    <2>1. (2 * over) * h <= (2 * over) * (-1)
      BY <1>1, Monotone
    <2> DEFINE w == 2 * over * h
    <2>2. (2 * over) * h = w /\ (2 * over) * (-1) = -(2 * over) /\ w \in Int
      BY <1>1
    <2>3. w >= -over
      BY <1>2
    <2> HIDE DEF w
    <2> QED
      BY <2>1, <2>2, <2>3
  <1> QED
    BY <1>1, <1>3 DEF h

LEMMA TimeTyped ==
    ASSUME NEW x \in Int, NEW over \in Nat \ {0}
    PROVE  AsTime(x, over) \in Nat
  <1>1. CASE x >= 0
    BY <1>1, RoundedFromZero DEF AsTime
  <1>2. CASE x < 0 /\ TooLargeInt >= 0
    BY <1>2 DEF AsTime
  <1>3. CASE x < 0 /\ ~ TooLargeInt >= 0
    <2> DEFINE h == HalfUp(-x, 1, over) - 1
               y == Max({0, h})
               m == IntModulus * IntModulus
    <2>1. h \in Int
      BY <1>3, RoundedFromZero
    <2> HIDE DEF h
    <2>2. y \in Int
      <3> DEFINE z == IF h > 0 THEN h ELSE 0
      <3>1. {0, h} \in SUBSET Int /\ z \in {0, h} /\ (\A v \in {0, h} : v <= z) /\ z \in Int
        BY <2>1
      <3> HIDE DEF z
      <3> QED
        BY <3>1, MaxIs
    <2>3. m \in Nat \ {0}
      <3>1. IntModulus * IntModulus >= IntModulus * 1
        BY IntModulusAssumption, Monotone
      <3> QED
        BY <3>1, IntModulusAssumption
    <2>4. AsTime(x, over) = (-y) % m
      BY <1>3 DEF AsTime, h
    <2> HIDE DEF y, m
    <2> QED
      BY <2>2, <2>3, <2>4
  <1> QED
    BY <1>1, <1>2, <1>3

\* what is not longer than the box at a scale, as the search computes it
LEMMA SmallerFits ==
    ASSUME NEW over \in Nat \ {0}, NEW k \in Nat, NEW s \in Nat, NEW t \in Nat,
           HalfUp(s * k, 1, over) > MaxDuration,
           t <= (s * MaxDuration - 1) \div HalfUp(s * k, 1, over)
    PROVE  HalfUp(t * k, 1, over) <= MaxDuration
  <1> DEFINE d == HalfUp(s * k, 1, over)
             h == HalfUp(t * k, 1, over)
             x == s * k
             p == t * k
             m == MaxDuration
             q == (s * m - 1) \div d
  <1>1. m \in Nat \ {0}
    BY IntModulusAssumption
  <1>2. x \in Nat /\ p \in Nat /\ s * p = t * x
    <2>1. s * (t * k) = t * (s * k)
      OBVIOUS
    <2> QED
      BY <2>1
  <1>3. d \in Nat /\ 2 * over * d >= 2 * x - over
    <2>1. d \in Nat
      BY <1>2, RoundedFromZero
    <2>2. x \in Int /\ 1 \in Int
      BY <1>2
    <2>3. 2 * over * d >= 2 * x * 1 - over
      BY <2>2, HalfUpBounds
    <2>4. 2 * x * 1 = 2 * x
      BY <1>2
    <2> QED
      BY <2>1, <2>3, <2>4
  <1>4. h \in Nat /\ 2 * over * h <= 2 * p + over
    <2>1. h \in Nat
      BY <1>2, RoundedFromZero
    <2>2. p \in Int /\ 1 \in Int
      BY <1>2
    <2>3. 2 * over * h <= 2 * p * 1 + over
      BY <2>2, HalfUpBounds
    <2>4. 2 * p * 1 = 2 * p
      BY <1>2
    <2> QED
      BY <2>1, <2>3, <2>4
  <1>5. d > m /\ t <= q
    OBVIOUS
  <1> HIDE DEF d, h, x, p, m
  <1>6. d \in Nat \ {0} /\ s * m - 1 \in Int
    BY <1>1, <1>3, <1>5
  <1>7. q \in Int /\ d * q <= s * m - 1
    BY <1>6, DivBounds
  <1> HIDE DEF q
  <1>8. d * t <= s * m - 1
    <2>1. d * t <= d * q
      BY <1>5, <1>6, <1>7, Monotone
    <2>2. d * t \in Int /\ d * q \in Int
      BY <1>6, <1>7
    <2> QED
      BY <1>6, <1>7, <2>1, <2>2
  <1>9. t + 1 <= s
    <2>1. s * m <= s * d
      BY <1>1, <1>5, <1>6, Monotone
    <2>2. s * d = d * s /\ s * m \in Int /\ d * s \in Int /\ d * t \in Int
      BY <1>1, <1>6
    <2>3. d * s > d * t
      BY <1>8, <2>1, <2>2
    <2> QED
      BY <1>6, <2>3, Cancel
  <1> SUFFICES ASSUME h >= m + 1 PROVE FALSE
    BY <1>1, <1>4 DEF h, m
  <1> DEFINE a == d * t
             b == s * m
             e == over * d
             f == over * m
  <1>10. a \in Int /\ b \in Int /\ e \in Int /\ f \in Int /\ a <= b - 1
    BY <1>1, <1>6, <1>8
  <1>11. 2 * x <= 2 * e + over
    <2>1. 2 * over * d = 2 * e
      BY <1>6
    <2> HIDE DEF e
    <2> QED
      BY <1>2, <1>3, <1>10, <2>1
  <1>12. 2 * p >= 2 * f + over
    <2>1. (2 * over) * (m + 1) <= (2 * over) * h
      BY <1>1, <1>4, Monotone
    <2>2. (2 * over) * (m + 1) = 2 * f + 2 * over /\ (2 * over) * h = 2 * over * h
          /\ 2 * over * h \in Int
      BY <1>1, <1>4
    <2> HIDE DEF f
    <2> QED
      BY <1>2, <1>4, <1>10, <2>1, <2>2
  <1> HIDE DEF e, f
  <1>13. t * (2 * x) <= t * (2 * e + over)
    BY <1>2, <1>10, <1>11, Monotone
  <1>14. s * (2 * f + over) <= s * (2 * p)
    BY <1>2, <1>10, <1>12, Monotone
  <1>15. s * (2 * p) = t * (2 * x)
    <2>1. s * (2 * p) = 2 * (s * p) /\ t * (2 * x) = 2 * (t * x)
      BY <1>2
    <2> QED
      BY <1>2, <2>1
  <1>16. t * (2 * e + over) = over * (2 * a + t)
    <2>1. t * e = over * a
      <3>1. t * (over * d) = over * (d * t)
        BY <1>6
      <3> QED
        BY <3>1 DEF e
    <2>2. t * (2 * e + over) = 2 * (t * e) + t * over
      BY <1>10
    <2>3. over * (2 * a + t) = 2 * (over * a) + t * over
      BY <1>10
    <2> QED
      BY <2>1, <2>2, <2>3
  <1>17. s * (2 * f + over) = over * (2 * b + s)
    <2>1. s * f = over * b
      <3>1. s * (over * m) = over * (s * m)
        BY <1>1
      <3> QED
        BY <3>1 DEF f
    <2>2. s * (2 * f + over) = 2 * (s * f) + s * over
      BY <1>10
    <2>3. over * (2 * b + s) = 2 * (over * b) + s * over
      BY <1>10
    <2> QED
      BY <2>1, <2>2, <2>3
  <1> HIDE DEF a, b
  <1>18. over * (2 * b + s) <= over * (2 * a + t)
    <2> DEFINE u == t * (2 * e + over)
               v == s * (2 * f + over)
    <2>1. u \in Int /\ v \in Int /\ v <= s * (2 * p) /\ t * (2 * x) <= u
          /\ t * (2 * x) \in Int
      BY <1>2, <1>10, <1>13, <1>14
    <2> HIDE DEF u, v
    <2>2. v <= u
      BY <1>15, <2>1
    <2> QED
      BY <1>16, <1>17, <2>2 DEF u, v
  <1>19. over * (2 * b + s) > over * (2 * a + t)
    <2>1. 2 * b + s >= (2 * a + t) + 1
      BY <1>9, <1>10
    <2> DEFINE y == 2 * b + s
               z == 2 * a + t
    <2>2. y \in Int /\ z \in Int
      BY <1>10
    <2>3. over * (z + 1) <= over * y
      BY <1>10, <2>1, <2>2, Monotone
    <2> HIDE DEF y, z
    <2>4. over * (z + 1) = over * z + over /\ over * z \in Int /\ over * y \in Int
      BY <2>2
    <2>5. over * y > over * z
      BY <2>3, <2>4
    <2> QED
      BY <2>5 DEF y, z
  <1>20. over * (2 * b + s) \in Int /\ over * (2 * a + t) \in Int
    BY <1>10
  <1> QED
    BY <1>18, <1>19, <1>20

\* An int that wraps around below zero gives times that only wrap around as
\* well; the search then begins and ends with a hundred.
LEMMA WrappedScale ==
    ASSUME NEW over \in Nat \ {0}, NEW k \in Nat, NEW a \in Int, a < 0,
           NEW scale \in Nat, scale < IntModulus,
           -(IntModulus \div 2) <= a,
           HalfUp(10 * k, 1, over) <= MaxDuration,
           AsTime(a * k, over) > MaxDuration
    PROVE  (scale * MaxDuration - 1) \div AsTime(a * k, over) < 3
  <1> DEFINE d == AsTime(a * k, over)
             b == -a
             x == b * k
             h == HalfUp(x, 1, over)
             h10 == HalfUp(10 * k, 1, over)
             m == MaxDuration
             M == IntModulus
             y == Max({0, h - 1})
             q == (scale * m - 1) \div d
  <1>1. /\ M \in Nat /\ M > 2000 /\ m \in Nat \ {0} /\ m < 2 * M
        /\ M \div 2 \in Nat /\ M = 2 * (M \div 2)
    BY IntModulusAssumption
  <1>2. x \in Nat /\ a * k = -x /\ b \in Nat \ {0} /\ 2 * b <= M
    BY <1>1
  <1>3. x # 0 /\ a * k < 0
    <2> SUFFICES ASSUME x = 0 PROVE FALSE
      BY <1>2
    <2>1. k = 0
      <3> SUFFICES ASSUME k >= 1 PROVE FALSE
        OBVIOUS
      <3>1. b * k >= b * 1
        BY <1>2, Monotone
      <3> QED
        BY <1>2, <3>1
    <2>2. a * k = 10 * k /\ a * k >= 0
      BY <2>1
    <2>3. AsTime(a * k, over) = HalfUp(10 * k, 1, over)
      BY <2>2 DEF AsTime
    <2>4. d \in Nat
      BY TimeTyped
    <2> QED
      BY <1>1, <2>3, <2>4
  <1>4. ~ TooLargeInt >= 0 /\ d = (-y) % (M * M)
    <2>1. a * k \in Int /\ ~ (a * k >= 0) /\ -(a * k) = x
      BY <1>2, <1>3
    <2> DEFINE z == a * k
    <2> HIDE DEF z, x, m
    <2>2. AsTime(z, over) = IF TooLargeInt >= 0 THEN 0
                            ELSE (-Max({0, HalfUp(-z, 1, over) - 1})) % (M * M)
      BY <2>1 DEF AsTime, z
    <2>3. -z = x /\ AsTime(z, over) > m
      BY <2>1 DEF z, m
    <2>4. ~ TooLargeInt >= 0
      BY <1>1, <2>2, <2>3 DEF m
    <2> QED
      BY <2>2, <2>3, <2>4 DEF z
  <1>5. h \in Nat /\ 2 * over * h <= 2 * x + over
    <2>1. h \in Nat
      BY <1>2, RoundedFromZero
    <2>2. x \in Int /\ 1 \in Int
      BY <1>2
    <2> HIDE DEF x
    <2>3. 2 * over * h <= 2 * x * 1 + over
      BY <2>2, HalfUpBounds
    <2>4. 2 * x * 1 = 2 * x
      BY <2>2
    <2> QED
      BY <2>1, <2>3, <2>4
  <1>6. h10 \in Nat /\ 2 * over * h10 >= 20 * k - over /\ h10 <= m
    <2>1. h10 \in Nat
      BY RoundedFromZero
    <2>2. 10 * k \in Int /\ 1 \in Int
      OBVIOUS
    <2>3. 2 * over * h10 >= 2 * (10 * k) * 1 - over
      BY <2>2, HalfUpBounds
    <2> QED
      BY <2>1, <2>3
  <1>7. 20 * k <= over * (2 * m + 1)
    <2>1. (2 * over) * h10 <= (2 * over) * m
      BY <1>1, <1>6, Monotone
    <2>2. over * (2 * m + 1) = (2 * over) * m + over /\ (2 * over) * m \in Int
      BY <1>1
    <2>3. (2 * over) * h10 = 2 * over * h10 /\ 2 * over * h10 \in Int
      BY <1>6
    <2> QED
      BY <1>1, <1>6, <2>1, <2>2, <2>3
  <1> HIDE DEF h, h10, x, d, m, M, y, b
  <1>8. 40 * h <= 2 * b * (2 * m + 1) + 20
    <2> DEFINE c == over * (2 * m + 1)
               e == b * (2 * m + 1)
    <2>1. b * (20 * k) <= b * c
      BY <1>1, <1>2, <1>7, Monotone
    <2>2. b * (20 * k) = 20 * x
      BY <1>2 DEF x
    <2>3. b * c = over * e /\ e \in Int /\ c \in Int
      BY <1>1, <1>2
    <2>4. 20 * x <= over * e
      BY <2>1, <2>2, <2>3
    <2> HIDE DEF c, e
    <2>5. over * (40 * h) <= over * (2 * e + 20)
      <3>1. over * (40 * h) = 20 * (2 * over * h) /\ 2 * over * h \in Int
        BY <1>5
      <3>2. over * (2 * e + 20) = 2 * (over * e) + 20 * over /\ over * e \in Int
        BY <2>3
      <3>3. 20 * (2 * over * h) <= 40 * x + 20 * over
        BY <1>2, <1>5, <3>1
      <3> QED
        BY <1>2, <2>4, <3>1, <3>2, <3>3
    <2>6. 40 * h <= 2 * e + 20
      <3> SUFFICES ASSUME 40 * h > 2 * e + 20 PROVE FALSE
        BY <1>5, <2>3
      <3> DEFINE u == 2 * e + 20
                 v == 40 * h
      <3>1. u \in Int /\ v \in Int /\ u + 1 <= v
        BY <1>5, <2>3
      <3>2. over * (u + 1) <= over * v
        BY <3>1, Monotone
      <3>3. over * v <= over * u
        BY <2>5
      <3> HIDE DEF u, v
      <3>4. over * (u + 1) = over * u + over /\ over * u \in Int /\ over * v \in Int
        BY <3>1
      <3> QED
        BY <3>2, <3>3, <3>4
    <2>7. 2 * b * (2 * m + 1) = 2 * e
      BY <1>1, <1>2 DEF e
    <2> QED
      BY <2>6, <2>7
  <1> DEFINE s == M * M
  <1>9. 2 * b * (2 * m + 1) <= 4 * s
    <2>1. (2 * m + 1) * (2 * b) <= (2 * m + 1) * M
      BY <1>1, <1>2, Monotone
    <2>2. M * (2 * m + 1) <= M * (4 * M)
      BY <1>1, Monotone
    <2>3. (2 * m + 1) * (2 * b) = 2 * b * (2 * m + 1) /\ (2 * m + 1) * M = M * (2 * m + 1)
          /\ M * (4 * M) = 4 * s
      BY <1>1, <1>2
    <2>4. 2 * b * (2 * m + 1) \in Int /\ M * (2 * m + 1) \in Int /\ s \in Int
      BY <1>1, <1>2
    <2> HIDE DEF s
    <2> QED
      BY <2>1, <2>2, <2>3, <2>4
  <1>10. s \in Nat /\ s > 2000
    <2>1. M * 2000 <= M * M
      BY <1>1, Monotone
    <2> QED
      BY <1>1, <2>1
  <1>11. 40 * h <= 4 * s + 20
    <2> DEFINE c == 2 * b * (2 * m + 1)
    <2>1. c \in Int /\ 40 * h <= c + 20 /\ c <= 4 * s
      BY <1>1, <1>2, <1>8, <1>9
    <2> HIDE DEF c, s
    <2> QED
      BY <1>5, <1>10, <2>1
  <1>12. y \in Nat /\ y <= h /\ (y = 0 \/ y = h - 1)
    <2> DEFINE z == IF h - 1 > 0 THEN h - 1 ELSE 0
    <2>1. {0, h - 1} \in SUBSET Int /\ z \in {0, h - 1} /\ \A v \in {0, h - 1} : v <= z
      BY <1>5
    <2>2. z \in Nat /\ z <= h /\ (z = 0 \/ z = h - 1)
      BY <1>5
    <2> HIDE DEF z
    <2> QED
      BY <2>1, <2>2, MaxIs DEF y
  <1> HIDE DEF s
  <1>13. 10 * y <= s /\ y < s
    BY <1>5, <1>10, <1>11, <1>12
  <1>14. d > m /\ d = (-y) % s
    BY <1>4 DEF s, d, m
  <1>15. y # 0
    <2> SUFFICES ASSUME y = 0 PROVE FALSE
      OBVIOUS
    <2>1. (-y) % s = 0
      BY <1>10
    <2> QED
      BY <1>1, <1>14, <2>1
  <1>16. d = s - y
    <2>1. -y = s * (-1) + (s - y) /\ s - y \in 0 .. s - 1
      BY <1>10, <1>12, <1>13, <1>15
    <2>2. (-y) % s = s - y
      BY <1>10, <1>12, <2>1
    <2> QED
      BY <1>14, <2>2
  <1>17. 10 * d >= 9 * s /\ d \in Nat \ {0}
    BY <1>10, <1>12, <1>13, <1>16
  <1>18. scale * m <= 2 * s
    <2>1. scale * m <= scale * (2 * M)
      BY <1>1, Monotone
    <2>2. (2 * M) * scale <= (2 * M) * M
      BY <1>1, Monotone DEF M
    <2>3. scale * (2 * M) = (2 * M) * scale /\ (2 * M) * M = 2 * s
          /\ scale * m \in Int /\ (2 * M) * scale \in Int /\ (2 * M) * M \in Int
      BY <1>1 DEF s
    <2> QED
      BY <2>1, <2>2, <2>3
  <1>19. q \in Int /\ d * q <= scale * m - 1
    <2>1. scale * m - 1 \in Int
      BY <1>1
    <2> QED
      BY <1>17, <2>1, DivBounds
  <1> HIDE DEF q
  <1> SUFFICES ASSUME q >= 3 PROVE FALSE
    BY <1>19 DEF q, d, m
  <1>20. d * 3 <= d * q
    BY <1>17, <1>19, Monotone
  <1>21. scale * m \in Int /\ d * q \in Int
    BY <1>1, <1>17, <1>19
  <1> QED
    BY <1>10, <1>17, <1>18, <1>19, <1>20, <1>21

\* SetFPS with a computed scale gives a movie that fits, if it does with ten
\* ticks a second
LEMMA ChosenFits ==
    ASSUME NEW ranges \in Seq(RateRange), Len(ranges) # 0, NEW current,
           CalcSampleTimes(ranges, 10)[Frames(ranges)] <= MaxDuration
    PROVE  LET scale == ChosenTimeScale(ranges, 0, current)
           IN  /\ scale \in 1 .. IntModulus - 1
               /\ CalcSampleTimes(ranges, scale)[Frames(ranges)] <= MaxDuration
  <1> DEFINE n == Frames(ranges)
             over == Over(ranges)
             k == Begins(ranges)[n]
             scale == CalcTimeScale(ranges)
             d == CalcSampleTimes(ranges, scale)[n]
             a == AsInt(scale)
             shrunk == ShrunkTimeScale(scale, d)
             M == IntModulus
             Ends(s) == AsTime(AsInt(s) * k, over)
  <1>1. M \in Nat /\ M > 2000 /\ M \div 2 \in Nat /\ M = 2 * (M \div 2)
        /\ MaxDuration \in Nat \ {0}
    BY IntModulusAssumption
  <1>2. n \in Nat /\ over \in Nat \ {0} /\ k \in Nat
    BY LastsTyped
  <1>3. scale \in 1 .. M - 1
    BY TimeScaleTyped
  <1>4. ASSUME NEW s \in Int PROVE CalcSampleTimes(ranges, s)[n] = Ends(s)
    <2> DEFINE t == [i \in 0 .. n |-> AsTime(AsInt(s) * Begins(ranges)[i], over)]
    <2>1. CalcSampleTimes(ranges, s) = t
      BY TimesAre
    <2>2. n \in 0 .. n
      BY <1>2
    <2>3. t[n] = Ends(s)
      BY <2>2
    <2> HIDE DEF t
    <2> QED
      BY <2>1, <2>3
  <1>5. ChosenTimeScale(ranges, 0, current) = IF d > MaxDuration THEN shrunk ELSE scale
    BY DEF ChosenTimeScale
  <1>6. a \in Int /\ -(M \div 2) <= a /\ a < M \div 2 /\ (a >= 0 => a = scale)
    BY <1>1, <1>3, AsIntTyped
  <1>7. AsInt(10) = 10
    BY <1>1, AsIntTyped
  <1>8. d = AsTime(a * k, over) /\ d \in Nat
    <2>1. d = Ends(scale)
      BY <1>3, <1>4
    <2>2. a * k \in Int
      BY <1>2, <1>6
    <2>3. Ends(scale) = AsTime(a * k, over)
      OBVIOUS
    <2> HIDE DEF a, d, Ends
    <2> QED
      BY <1>2, <2>1, <2>2, <2>3, TimeTyped
  <1>9. HalfUp(10 * k, 1, over) <= MaxDuration
    <2>1. Ends(10) <= MaxDuration
      BY <1>4
    <2>2. AsInt(10) * k = 10 * k /\ 10 * k >= 0
      BY <1>2, <1>7
    <2> QED
      BY <2>1, <2>2 DEF AsTime
  <1> HIDE DEF n, over, k, scale, d, a, M
  <1>10. CASE ~ d > MaxDuration
    BY <1>1, <1>3, <1>5, <1>8, <1>10 DEF d, M, n, scale
  <1>11. CASE d > MaxDuration
    <2> DEFINE most == (scale * MaxDuration - 1) \div d
    <2>1. d \in Nat \ {0} /\ scale \in Nat /\ scale < IntModulus
      BY <1>1, <1>3, <1>8, <1>11 DEF M
    <2>2. most \in Int /\ most < IntModulus \div 2
      <3>1. CASE a >= 0
        <4>1. d * most <= scale * MaxDuration - 1 /\ most \in Int
          <5>1. scale * MaxDuration - 1 \in Int
            BY <1>1, <2>1
          <5> QED
            BY <2>1, <5>1, DivBounds
        <4> HIDE DEF most
        <4>2. scale * MaxDuration <= scale * d
          BY <1>1, <1>11, <2>1, Monotone
        <4>3. scale * d = d * scale /\ d * scale \in Int /\ d * most \in Int
              /\ scale * MaxDuration \in Int
          BY <1>1, <2>1, <4>1
        <4>4. d * scale > d * most
          BY <4>1, <4>2, <4>3
        <4>5. scale >= most + 1
          BY <2>1, <4>1, <4>4, Cancel
        <4> QED
          <5> DEFINE half == M \div 2
          <5>1. half \in Nat /\ half = IntModulus \div 2 /\ scale < half
            BY <1>1, <1>6, <3>1 DEF M
          <5> HIDE DEF half
          <5>2. most < half /\ most \in Int
            BY <2>1, <4>1, <4>5, <5>1
          <5> QED
            BY <5>1, <5>2
      <3>2. CASE a < 0
        <4>1. most \in Int
          <5>1. scale * MaxDuration - 1 \in Int
            BY <1>1, <2>1
          <5> QED
            BY <2>1, <5>1, DivBounds
        <4>2. AsTime(a * k, over) > MaxDuration /\ -(IntModulus \div 2) <= a
          BY <1>6, <1>8, <1>11 DEF M
        <4>3. (scale * MaxDuration - 1) \div AsTime(a * k, over) < 3
          BY <1>2, <1>6, <1>9, <2>1, <3>2, <4>2, WrappedScale
        <4>4. most < 3
          BY <1>8, <4>3
        <4> HIDE DEF most
        <4> QED
          BY <1>1, <4>1, <4>4 DEF M
      <3> QED
        BY <1>6, <3>1, <3>2
    <2>3. shrunk \in 10 .. IntModulus \div 10 /\ (shrunk = 10 \/ shrunk <= most)
      <3>1. (scale * MaxDuration - 1) \div d < IntModulus \div 2
        BY <2>2
      <3> HIDE DEF most
      <3> QED
        BY <2>1, <3>1, ShrunkScale DEF most
    <2> HIDE DEF shrunk, most
    <2>4. shrunk \in 1 .. M - 1 /\ shrunk \in Int /\ AsInt(shrunk) = shrunk /\ shrunk \in Nat
      <3>1. shrunk \in Int /\ 10 <= shrunk /\ shrunk < M \div 2
        BY <1>1, <2>3 DEF M
      <3>2. AsInt(shrunk) = shrunk
        BY <1>1, <3>1, AsIntTyped DEF M
      <3> QED
        BY <1>1, <3>1, <3>2
    <2>5. CalcSampleTimes(ranges, shrunk)[n] = HalfUp(shrunk * k, 1, over)
      <3>1. shrunk * k >= 0
        BY <1>2, <2>4
      <3>2. CalcSampleTimes(ranges, shrunk)[n] = AsTime(AsInt(shrunk) * k, over)
        BY <1>4, <2>4
      <3> QED
        BY <2>4, <3>1, <3>2 DEF AsTime
    <2>6. HalfUp(shrunk * k, 1, over) <= MaxDuration
      <3>1. CASE shrunk = 10
        BY <1>9, <3>1
      <3>2. CASE shrunk # 10
        <4>1. shrunk <= most
          BY <2>3, <3>2
        <4>2. a >= 0
          <5> SUFFICES ASSUME a < 0 PROVE FALSE
            BY <1>6
          <5>1. AsTime(a * k, over) > MaxDuration /\ -(IntModulus \div 2) <= a
            BY <1>6, <1>8, <1>11 DEF M
          <5>2. (scale * MaxDuration - 1) \div AsTime(a * k, over) < 3
            BY <1>2, <1>6, <1>9, <2>1, <5>1, WrappedScale
          <5>3. most < 3
            BY <1>8, <5>2 DEF most
          <5> QED
            BY <2>2, <2>3, <4>1, <5>3
        <4>3. d = HalfUp(scale * k, 1, over)
          <5>1. a = scale /\ scale * k >= 0
            BY <1>2, <1>6, <2>1, <4>2
          <5> QED
            BY <1>8, <5>1 DEF AsTime
        <4>4. HalfUp(scale * k, 1, over) > MaxDuration
              /\ shrunk <= (scale * MaxDuration - 1) \div HalfUp(scale * k, 1, over)
          BY <1>11, <4>1, <4>3 DEF most
        <4> QED
          BY <1>2, <2>1, <2>4, <4>4, SmallerFits
      <3> QED
        BY <3>1, <3>2
    <2>7. ChosenTimeScale(ranges, 0, current) = shrunk
      BY <1>5, <1>11
    <2> QED
      BY <2>4, <2>5, <2>6, <2>7 DEF M, n
  <1> QED
    BY <1>10, <1>11

-----------------------------------------------------------------------------
(* Rates given to the editor *)

Normalized(fps) == NormalizeFPSRange(fps.ranges, LastSlot)

LEMMA NormalizedTyped ==
    ASSUME NEW fps \in FrameRateLists
    PROVE  /\ Normalized(fps) \in Seq(RateRange) /\ fps.scale \in Int
           /\ Frames(Normalized(fps)) \in Nat
           /\ Frames(Normalized(fps)) % Word = LastSlot =>
                 Frames(Normalized(fps)) = LastSlot /\ Len(Normalized(fps)) # 0
  <1> DEFINE given == fps.ranges
             ranges == Normalized(fps)
             n == Frames(ranges)
  <1>1. given \in Seq(RateRange) /\ fps.scale \in Int /\ n < Word
    BY FrameRateListsAssumption DEF RateRange, Normalized
  <1>2. LastSlot \in Int /\ Len(given) \in 0 .. Len(given)
    BY <1>1, LastSlotAssumption
  <1>3. ranges \in Seq(RateRange)
    BY <1>1, <1>2, NormalizedFold DEF Normalized
  <1> HIDE DEF ranges
  <1>4. PICK h : /\ h[0] = 0 /\ Frames(ranges) = h[Len(ranges)]
                 /\ \A k \in 0 .. Len(ranges) : h[k] \in Nat
    BY <1>3, FramesFold
  <1>5. n \in Nat /\ (Len(ranges) = 0 => n = 0)
    <2>1. Len(ranges) \in 0 .. Len(ranges)
      BY <1>3
    <2> QED
      BY <1>4, <2>1
  <1> HIDE DEF n
  <1>6. n % Word = n
    BY <1>1, <1>5, WordAssumption
  <1>7. LastSlot # 0
    BY LastSlotAssumption
  <1> QED
    BY <1>1, <1>3, <1>5, <1>6, <1>7 DEF n, ranges

\* where the scale has been computed, the time codes are those of the rates
FromRates ==
    Computed =>
        \E fps \in FrameRateLists :
           /\ rates.ranges = Normalized(fps) /\ Frames(rates.ranges) = LastSlot
           /\ rates.ranges \in Seq(RateRange) /\ Len(rates.ranges) # 0
           /\ \E current : timeScale = ChosenTimeScale(rates.ranges, 0, current)
           /\ asked = CalcSampleTimes(rates.ranges, timeScale)

LEMMA FromRatesNext ==
    ASSUME FromRates, [Next]_vars
    PROVE  FromRates'
  <1>1. ASSUME NEW fps \in FrameRateLists, SetFPS(fps)
        PROVE  FromRates'
    <2> DEFINE ranges == Normalized(fps)
    <2>1. CASE Frames(ranges) % Word # LastSlot
      <3>1. pc' = "failed"
        BY <1>1, <2>1 DEF SetFPS, Normalized
      <3> QED
        BY <3>1 DEF FromRates, Computed
    <2>2. CASE Frames(ranges) % Word = LastSlot
      <3>1. /\ timeScale' = ChosenTimeScale(ranges, fps.scale, timeScale)
            /\ asked' = CalcSampleTimes(ranges, timeScale')
            /\ rates' = [ranges |-> ranges, scale |-> fps.scale]
        BY <1>1, <2>2 DEF SetFPS, Normalized, GiveTimes
      <3>2. /\ ranges \in Seq(RateRange) /\ Frames(ranges) = LastSlot
            /\ Len(ranges) # 0
        BY <2>2, NormalizedTyped
      <3> SUFFICES ASSUME Computed' PROVE FromRates'
        BY DEF FromRates
      <3>3. fps.scale = 0 /\ rates'.ranges = ranges
        BY <3>1 DEF Computed
      <3>4. timeScale' = ChosenTimeScale(ranges, 0, timeScale)
        BY <3>1, <3>3
      <3> QED
        BY <3>1, <3>2, <3>3, <3>4 DEF FromRates
    <2> QED
      BY <2>1, <2>2
  <1>2. ASSUME NEW list \in TimeCodeLists, SetTimeCodes(list)
        PROVE  FromRates'
    <2>1. pc' = "failed" \/ rates' = NoRates
      BY <1>2 DEF SetTimeCodes
    <2> QED
      BY <2>1 DEF FromRates, Computed, NoRates
  <1>3. CASE KeepTimeCodes
    BY <1>3 DEF KeepTimeCodes, FromRates, Computed, NoRates
  <1>4. CASE Adjust
    <2>1. pc' # "timed"
      BY <1>4 DEF Adjust, BeginAdjust, DelayCTS, DelayDTS, Rebase, CompressCTS, Measure,
                  CompressDTS, Remeasure
    <2> QED
      BY <2>1 DEF FromRates, Computed
  <1>5. CASE Open \/ DoEditTimeCodes \/ SaveCopy \/ SaveInPlace
    <2>1. pc' # "timed"
      BY <1>5 DEF Open, DoEditTimeCodes, SaveCopy, SaveInPlace, Saved
    <2> QED
      BY <2>1 DEF FromRates, Computed
  <1>6. CASE UNCHANGED vars
    <2>1. UNCHANGED <<pc, rates, timeScale, asked>>
      BY <1>6 DEF vars, history
    <2>2. Computed' = Computed
      BY <2>1 DEF Computed
    <2> QED
      BY <2>1, <2>2 DEF FromRates
  <1> QED
    BY <1>1, <1>2, <1>3, <1>4, <1>5, <1>6 DEF Next

LEMMA FromRatesAlways == Spec => []FromRates
  <1>1. Init => FromRates
    BY DEF Init, FromRates, Computed
  <1> QED
    BY <1>1, FromRatesNext, PTL DEF Spec

\* every list of rates gives a movie that fits with ten ticks a second
TenTicksFit ==
    \A fps \in FrameRateLists :
        Frames(Normalized(fps)) = LastSlot =>
            CalcSampleTimes(Normalized(fps), 10)[LastSlot] <= MaxDuration

(***************************************************************************)
(* SetFPS with a scale of its own choice keeps the movie within 31 bits,   *)
(* whatever the rates, their multiple and its overflows are, for every     *)
(* movie that fits with ten ticks a second: the coarsest scale it tries.   *)
(***************************************************************************)
THEOREM DurationKept == TenTicksFit => (Spec => []DurationFits)
  <1> SUFFICES ASSUME TenTicksFit PROVE Spec => []DurationFits
    OBVIOUS
  <1>1. FromRates => DurationFits
    <2> SUFFICES ASSUME FromRates, Computed PROVE asked[LastSlot] <= MaxDuration
      BY DEF DurationFits
    <2> DEFINE ranges == rates.ranges
    <2>1. PICK fps \in FrameRateLists :
             /\ ranges = Normalized(fps) /\ Frames(ranges) = LastSlot
             /\ ranges \in Seq(RateRange) /\ Len(ranges) # 0
             /\ \E current : timeScale = ChosenTimeScale(ranges, 0, current)
             /\ asked = CalcSampleTimes(ranges, timeScale)
      BY DEF FromRates
    <2>2. PICK current : timeScale = ChosenTimeScale(ranges, 0, current)
      BY <2>1
    <2> HIDE DEF ranges
    <2>3. CalcSampleTimes(ranges, 10)[Frames(ranges)] <= MaxDuration
      BY <2>1 DEF TenTicksFit
    <2>4. CalcSampleTimes(ranges, timeScale)[Frames(ranges)] <= MaxDuration
      BY <2>1, <2>2, <2>3, ChosenFits
    <2> QED
      BY <2>1, <2>4
  <1> QED
    BY <1>1, FromRatesAlways, PTL

-----------------------------------------------------------------------------
(* Frames of one range last equally long *)

LEMMA FactorOfFactor ==
    ASSUME NEW a \in Int, NEW b \in Int, NEW c \in Int, Factor(a, b), Factor(b, c)
    PROVE  Factor(a, c)
  <1>1. PICK p \in Int : b = a * p
    BY DEF Factor
  <1>2. PICK q \in Int : c = b * q
    BY DEF Factor
  <1>3. c = a * (p * q) /\ p * q \in Int
    <2>1. (a * p) * q = a * (p * q)
      BY <1>1, <1>2
    <2> QED
      BY <1>1, <1>2, <2>1
  <1> QED
    BY <1>3 DEF Factor

LEMMA FactorIsLess ==
    ASSUME NEW d \in Nat \ {0}, NEW n \in Nat \ {0}, Factor(d, n)
    PROVE  d <= n /\ Divides(d, n)
  <1> DEFINE q == n \div d
  <1>1. q \in Nat \ {0} /\ n = d * q /\ Divides(d, n)
    BY Quotient DEF Divides
  <1> HIDE DEF q
  <1>2. d * 1 <= d * q
    BY <1>1, Monotone
  <1> QED
    BY <1>1, <1>2

LEMMA FactorOfItself ==
    ASSUME NEW d \in Int
    PROVE  Factor(d, d)
  <1>1. 1 \in Int /\ d = d * 1
    OBVIOUS
  <1> QED
    BY <1>1 DEF Factor

\* what grows by factors is a multiple of each of its earlier values
LEMMA Multiples ==
    ASSUME NEW n \in Nat, NEW h, \A i \in 0 .. n : h[i] \in Nat \ {0},
           \A i \in 1 .. n : Factor(h[i - 1], h[i])
    PROVE  \A i \in 0 .. n : h[i] <= h[n] /\ Factor(h[i], h[n])
  <1> DEFINE S == {k \in 0 .. n : \A i \in 0 .. k : Factor(h[i], h[k])}
  <1>1. 0 \in S
    <2>1. \A i \in 0 .. 0 : i = 0
      OBVIOUS
    <2>2. h[0] \in Int
      OBVIOUS
    <2> QED
      BY <2>1, <2>2, FactorOfItself
  <1>2. ASSUME NEW k \in 0 .. n - 1, k \in S PROVE k + 1 \in S
    <2>1. k + 1 \in 1 .. n /\ k + 1 \in 0 .. n /\ (k + 1) - 1 = k /\ k \in 0 .. n
      OBVIOUS
    <2>2. Factor(h[k], h[k + 1]) /\ h[k] \in Int /\ h[k + 1] \in Int
      BY <2>1
    <2>3. ASSUME NEW i \in 0 .. k + 1 PROVE Factor(h[i], h[k + 1])
      <3>1. CASE i = k + 1
        BY <2>2, <3>1, FactorOfItself
      <3>2. CASE i # k + 1
        <4>1. i \in 0 .. k /\ i \in 0 .. n
          BY <3>2
        <4>2. Factor(h[i], h[k]) /\ h[i] \in Int
          BY <1>2, <4>1
        <4> QED
          BY <2>2, <4>2, FactorOfFactor
      <3> QED
        BY <3>1, <3>2
    <2> QED
      BY <2>1, <2>3
  <1> HIDE DEF S
  <1>3. 0 .. n \subseteq S
    <2>1. 0 \in Int /\ n \in Int
      OBVIOUS
    <2> QED
      BY <1>1, <1>2, <2>1, IntervalInduction
  <1>4. n \in S
    BY <1>3
  <1>5. ASSUME NEW i \in 0 .. n PROVE h[i] <= h[n] /\ Factor(h[i], h[n])
    <2>1. Factor(h[i], h[n]) /\ h[i] \in Nat \ {0} /\ h[n] \in Nat \ {0}
      BY <1>4 DEF S
    <2> QED
      BY <2>1, FactorIsLess
  <1> QED
    BY <1>5

LEMMA OverDivided ==
    ASSUME NEW ranges \in Seq(RateRange)
    PROVE  \A r \in 1 .. Len(ranges) : Factor(ranges[r].num, Over(ranges))
  <1> DEFINE n == Len(ranges)
  <1>1. PICK h : /\ h[0] = 1 /\ Over(ranges) = h[n]
                 /\ \A k \in 1 .. n : h[k] = TimesNum(h[k - 1], ranges[k])
                 /\ \A k \in 0 .. n : h[k] \in Nat \ {0}
    BY OverFold
  <1>2. n \in Nat
    OBVIOUS
  <1>3. ASSUME NEW r \in 1 .. n
        PROVE  /\ h[r] = h[r - 1] * ranges[r].num /\ h[r - 1] \in Int
               /\ ranges[r].num \in Int
    <2>1. ranges[r] \in RateRange /\ r - 1 \in 0 .. n
      OBVIOUS
    <2> QED
      BY <1>1, <2>1 DEF RateRange, TimesNum
  <1> HIDE DEF n
  <1>4. \A r \in 1 .. n : Factor(h[r - 1], h[r]) /\ Factor(ranges[r].num, h[r])
    <2>1. ASSUME NEW r \in 1 .. n
          PROVE  Factor(h[r - 1], h[r]) /\ Factor(ranges[r].num, h[r])
      <3> DEFINE a == h[r - 1]
                 b == ranges[r].num
      <3>1. a \in Int /\ b \in Int /\ h[r] = a * b
        BY <1>3
      <3> HIDE DEF a, b
      <3>2. h[r] = b * a
        BY <3>1
      <3> QED
        BY <3>1, <3>2 DEF Factor, a, b
    <2> QED
      BY <2>1
  <1>5. \A r \in 0 .. n : Factor(h[r], h[n])
    BY <1>1, <1>2, <1>4, Multiples
  <1>6. ASSUME NEW r \in 1 .. n PROVE Factor(ranges[r].num, h[n])
    <2>1. /\ ranges[r].num \in Int /\ h[r] \in Int /\ h[n] \in Int
          /\ Factor(ranges[r].num, h[r]) /\ Factor(h[r], h[n])
      <3>1. r \in 0 .. n /\ n \in 0 .. n
        BY <1>2
      <3> QED
        BY <1>1, <1>3, <1>4, <1>5, <3>1
    <2> QED
      BY <2>1, FactorOfFactor
  <1> QED
    BY <1>1, <1>6 DEF n

LEMMA LcmIs ==
    ASSUME NEW m \in Nat \ {0}, NEW r \in RateRange,
           TimesMore(m, r) < IntModulus \div 2
    PROVE  lcm(Lowest(r).num, m) = TimesMore(m, r)
  <1> DEFINE a == Lowest(r).num
             g == gcd(a, m)
  <1>1. a \in Nat \ {0}
    BY LowestTyped DEF RateRange
  <1> HIDE DEF a
  <1>2. g \in Nat \ {0}
    BY <1>1, GcdDivides
  <1>3. lcm(a, m) = AsInt(m * (a \div g))
    BY <1>2 DEF lcm
  <1>4. TimesMore(m, r) = m * (a \div g)
    BY DEF TimesMore, a
  <1>5. TimesMore(m, r) \in Nat
    BY TimesMoreIs
  <1>6. AsInt(TimesMore(m, r)) = TimesMore(m, r)
    BY <1>5, AsIntTyped, IntModulusAssumption
  <1> QED
    BY <1>3, <1>4, <1>6 DEF a

\* the scale is a multiple of every numerator, unless the int overflows
LEMMA ScaleIsMultiple ==
    ASSUME NEW ranges \in Seq(RateRange), Len(ranges) # 0,
           Multiple(ranges) < IntModulus \div 2
    PROVE  /\ CalcTimeScale(ranges) = Refined(Multiple(ranges), Coarsest(ranges))
           /\ Multiple(ranges) \in Nat \ {0} /\ Coarsest(ranges) \in Nat \ {0}
           /\ \A r \in 1 .. Len(ranges) : Factor(Lowest(ranges[r]).num, Multiple(ranges))
  <1> DEFINE n == Len(ranges)
             half == IntModulus \div 2
  <1>1. PICK g : /\ g[0] = 1 /\ Multiple(ranges) = g[n]
                 /\ \A k \in 1 .. n : g[k] = TimesMore(g[k - 1], ranges[k])
                 /\ \A k \in 0 .. n : g[k] \in Nat \ {0}
    BY MultipleFold
  <1>2. n \in Nat /\ DOMAIN ranges = 1 .. n /\ \A r \in 1 .. n : ranges[r] \in RateRange
    OBVIOUS
  <1>3. PICK h : /\ Scales(h, ranges)
                 /\ CalcTimeScale(ranges) =
                      IF Exact(h, ranges)
                      THEN Refined(h[n], Min(Denominators(ranges)))
                      ELSE 1000
    BY ScaleComputed
  <1> HIDE DEF n
  <1>4. \A k \in 1 .. n : Factor(g[k - 1], g[k]) /\ Factor(Lowest(ranges[k]).num, g[k])
    <2>1. ASSUME NEW k \in 1 .. n
          PROVE  Factor(g[k - 1], g[k]) /\ Factor(Lowest(ranges[k]).num, g[k])
      <3>1. k - 1 \in 0 .. n
        BY <1>2
      <3>2. g[k - 1] \in Nat \ {0} /\ ranges[k] \in RateRange
            /\ g[k] = TimesMore(g[k - 1], ranges[k])
        BY <1>1, <1>2, <3>1
      <3> QED
        BY <3>2, TimesMoreIs
    <2> QED
      BY <2>1
  <1>5. \A k \in 0 .. n : g[k] <= g[n] /\ Factor(g[k], g[n])
    BY <1>1, <1>2, <1>4, Multiples
  <1>6. g[n] \in Nat \ {0} /\ g[n] < half
    <2>1. n \in 0 .. n
      BY <1>2
    <2> QED
      BY <1>1, <2>1
  <1> DEFINE S == {k \in 0 .. n : h[k] = g[k]}
  <1>7. 0 \in S
    BY <1>1, <1>2, <1>3 DEF Scales
  <1>8. ASSUME NEW k \in 0 .. n - 1, k \in S PROVE k + 1 \in S
    <2>1. k + 1 \in 1 .. n /\ k + 1 \in 0 .. n /\ (k + 1) - 1 = k /\ k \in 0 .. n
      BY <1>2
    <2>2. h[k + 1] = lcm(Lowest(ranges[k + 1]).num, g[k])
      BY <1>3, <1>8, <2>1 DEF Scales, n
    <2>3. g[k + 1] = TimesMore(g[k], ranges[k + 1]) /\ g[k] \in Nat \ {0}
          /\ ranges[k + 1] \in RateRange
      BY <1>1, <1>2, <2>1
    <2>4. TimesMore(g[k], ranges[k + 1]) < half
      <3>1. half \in Int
        BY IntModulusAssumption
      <3>2. g[k + 1] \in Int /\ g[k + 1] <= g[n]
        BY <1>1, <1>5, <2>1
      <3> HIDE DEF half
      <3> QED
        BY <1>6, <2>3, <3>1, <3>2
    <2> HIDE DEF S
    <2>5. lcm(Lowest(ranges[k + 1]).num, g[k]) = TimesMore(g[k], ranges[k + 1])
      BY <2>3, <2>4, LcmIs
    <2> QED
      BY <2>1, <2>2, <2>3, <2>5 DEF S
  <1> HIDE DEF S, half
  <1>9. 0 .. n \subseteq S
    <2>1. 0 \in Int /\ n \in Int
      BY <1>2
    <2> QED
      BY <1>7, <1>8, <2>1, IntervalInduction
  <1>10. \A k \in 0 .. n : h[k] = g[k]
    BY <1>9 DEF S
  <1>11. ASSUME NEW k \in 1 .. n
         PROVE  h[k] # 0 /\ Divides(Lowest(ranges[k]).num, h[k])
    <2>1. k \in 0 .. n /\ h[k] = g[k] /\ g[k] \in Nat \ {0}
      BY <1>1, <1>2, <1>10
    <2>2. Lowest(ranges[k]).num \in Nat \ {0}
      BY <1>2, LowestTyped DEF RateRange
    <2>3. Factor(Lowest(ranges[k]).num, g[k])
      BY <1>4
    <2> QED
      BY <2>1, <2>2, <2>3, FactorIsLess
  <1>12. Exact(h, ranges)
    BY <1>2, <1>11 DEF Exact
  <1>13. Min(Denominators(ranges)) = Coarsest(ranges)
    <2>1. Denominators(ranges) = {Lowest(r).denom : r \in Range(ranges)}
      BY DEF Denominators, Range
    <2> QED
      BY <2>1 DEF Coarsest
  <1>14. ASSUME NEW r \in 1 .. n PROVE Factor(Lowest(ranges[r]).num, g[n])
    <2>1. /\ Lowest(ranges[r]).num \in Int /\ g[r] \in Int /\ g[n] \in Int
          /\ Factor(Lowest(ranges[r]).num, g[r]) /\ Factor(g[r], g[n])
      <3>1. r \in 0 .. n
        BY <1>2
      <3>2. Lowest(ranges[r]).num \in Int
        BY <1>2, LowestTyped DEF RateRange
      <3> QED
        BY <1>1, <1>4, <1>5, <1>6, <3>1, <3>2
    <2> QED
      BY <2>1, FactorOfFactor
  <1>15. n \in 0 .. n
    BY <1>2
  <1>16. Min(Denominators(ranges)) \in Nat \ {0}
    BY DenominatorsTyped
  <1> QED
    BY <1>1, <1>3, <1>6, <1>10, <1>12, <1>13, <1>14, <1>15, <1>16 DEF n

\* a whole quotient is rounded to itself
LEMMA WholeTime ==
    ASSUME NEW over \in Nat \ {0}, NEW t \in Nat
    PROVE  AsTime(over * t, over) = t
  <1> DEFINE x == over * t
             h == HalfUp(x, 1, over)
  <1>1. x \in Nat
    OBVIOUS
  <1>2. x \in Int /\ 1 \in Int
    BY <1>1
  <1>3. x = over * t
    OBVIOUS
  <1> HIDE DEF x
  <1>4. /\ h \in Int /\ 2 * over * h >= 2 * x * 1 - over
        /\ 2 * over * h <= 2 * x * 1 + over
    BY <1>2, HalfUpBounds
  <1>5. AsTime(x, over) = h
    BY <1>1 DEF AsTime
  <1> HIDE DEF h
  <1> DEFINE p == over * h
  <1>6. 2 * over * h = 2 * p /\ p \in Int
    BY <1>4
  <1>7. CASE h > t
    <2>1. over * (t + 1) <= over * h
      BY <1>4, <1>7, Monotone
    <2>2. over * (t + 1) = x + over
      BY <1>3
    <2> HIDE DEF p
    <2> QED
      BY <1>2, <1>4, <1>6, <2>1, <2>2 DEF p
  <1>8. CASE h < t
    <2>1. over * (h + 1) <= over * t
      BY <1>4, <1>8, Monotone
    <2>2. over * (h + 1) = p + over
      BY <1>4
    <2> HIDE DEF p
    <2> QED
      BY <1>2, <1>3, <1>4, <1>6, <2>1, <2>2
  <1> QED
    BY <1>4, <1>5, <1>7, <1>8 DEF x

\* a scale that is a multiple of the numerator gives a frame whole ticks
LEMMA WholeLast ==
    ASSUME NEW r \in RateRange, NEW scale \in Nat, NEW over \in Nat \ {0},
           Factor(Lowest(r).num, scale), Factor(r.num, over)
    PROVE  Factor(over, scale * (r.denom * (over \div r.num)))
  <1> DEFINE o == over \div r.num
             ln == Lowest(r).num
             ld == Lowest(r).denom
             num == r.num
             denom == r.denom
  <1>1. PICK g \in Nat \ {0} : num = g * ln /\ denom = g * ld
    BY LowestTyped
  <1>2. ln \in Nat \ {0} /\ ld \in Nat \ {0} /\ num \in Nat \ {0}
    BY LowestTyped DEF RateRange
  <1>3. o \in Nat \ {0} /\ over = num * o
    BY <1>2, Quotient
  <1>4. PICK z \in Int : scale = ln * z
    BY DEF Factor
  <1> HIDE DEF o, ln, ld, num, denom
  <1>5. scale * (denom * o) = over * (ld * z)
    <2>1. scale * (denom * o) = (ln * z) * ((g * ld) * o)
      BY <1>1, <1>4
    <2>2. over * (ld * z) = ((g * ln) * o) * (ld * z)
      BY <1>1, <1>3
    <2>3. (ln * z) * ((g * ld) * o) = ((g * ln) * o) * (ld * z)
      BY <1>2, <1>3
    <2> QED
      BY <2>1, <2>2, <2>3
  <1>6. ld * z \in Int
    BY <1>2
  <1> QED
    BY <1>5, <1>6 DEF Factor, o, denom, num

\* the scale asked for in SteadyRates is the one computed
FineScale(ranges) ==
    IF Coarsest(ranges) < 100 THEN Multiple(ranges) * (100 \div Coarsest(ranges))
    ELSE Multiple(ranges)

LEMMA FineScaleComputed ==
    ASSUME NEW ranges \in Seq(RateRange), Len(ranges) # 0,
           100 % Coarsest(ranges) = 0 \/ Coarsest(ranges) >= 100,
           FineScale(ranges) < IntModulus \div 2
    PROVE  /\ CalcTimeScale(ranges) = FineScale(ranges)
           /\ FineScale(ranges) \in Nat \ {0} /\ FineScale(ranges) < IntModulus
           /\ AsInt(FineScale(ranges)) = FineScale(ranges)
           /\ \A r \in 1 .. Len(ranges) :
                 Factor(Lowest(ranges[r]).num, FineScale(ranges))
  <1> DEFINE c == Coarsest(ranges)
             m == Multiple(ranges)
             q == 100 \div c
             scale == FineScale(ranges)
             half == IntModulus \div 2
  <1>1. m \in Nat \ {0}
    <2>1. Len(ranges) \in 0 .. Len(ranges)
      OBVIOUS
    <2> QED
      BY <2>1, MultipleFold
  <1>2. c \in Nat \ {0}
    <2>1. Denominators(ranges) = {Lowest(r).denom : r \in Range(ranges)}
      BY DEF Denominators, Range
    <2> QED
      BY <2>1, DenominatorsTyped DEF Coarsest
  <1>3. half \in Nat /\ half < IntModulus /\ IntModulus \in Nat
    BY IntModulusAssumption
  <1>4. scale = (IF c < 100 THEN m * q ELSE m) /\ scale < half
    BY DEF FineScale
  <1>5. (100 % c) = 0 \/ c >= 100
    OBVIOUS
  <1> HIDE DEF c, m, scale
  <1>6. c < 100 => 100 = c * q /\ q \in Nat \ {0}
    BY <1>2, <1>5
  <1> HIDE DEF q
  <1>7. /\ scale \in Nat \ {0} /\ m <= scale
        /\ Factor(m, scale)
    <2>1. CASE c < 100
      <3>1. q \in Nat \ {0} /\ scale = m * q /\ q \in Int
        BY <1>4, <1>6, <2>1
      <3>2. m * 1 <= m * q
        BY <1>1, <3>1, Monotone
      <3>3. Factor(m, scale)
        BY <3>1 DEF Factor
      <3> QED
        BY <1>1, <3>1, <3>2, <3>3
    <2>2. CASE ~ (c < 100)
      <3>1. scale = m /\ m \in Int
        BY <1>1, <1>4, <2>2
      <3> QED
        BY <1>1, <3>1, FactorOfItself
    <2> QED
      BY <2>1, <2>2
  <1>8. m < half
    <2> HIDE DEF half
    <2> QED
      BY <1>1, <1>3, <1>4, <1>7
  <1>9. /\ CalcTimeScale(ranges) = Refined(m, c)
        /\ \A r \in 1 .. Len(ranges) : Factor(Lowest(ranges[r]).num, m)
    BY <1>8, ScaleIsMultiple DEF m, c
  <1>10. AsInt(scale) = scale
    BY <1>3, <1>4, <1>7, AsIntTyped
  <1>11. (IF c < 100 THEN Truncated(m * 100, c) ELSE m) = scale
    <2>1. CASE c < 100
      <3> DEFINE p == m * q
      <3>1. m * 100 = c * p /\ m * 100 >= 0 /\ p \in Nat
        <4>1. m * (c * q) = c * (m * q)
          BY <1>1, <1>2, <1>6, <2>1
        <4> QED
          BY <1>1, <1>6, <2>1, <4>1
      <3>2. scale = p
        BY <1>4, <2>1
      <3> HIDE DEF p
      <3>3. Truncated(m * 100, c) = (c * p) \div c
        BY <3>1 DEF Truncated
      <3>4. (c * p) \div c = p
        <4> DEFINE e == (c * p) \div c
        <4>1. c * p \in Int
          BY <1>2, <3>1
        <4>2. e \in Int /\ c * e <= c * p /\ c * p < c * e + c
          BY <1>2, <4>1, DivBounds
        <4> HIDE DEF e
        <4>3. c * (e + 1) = c * e + c
          BY <1>2, <4>2
        <4>4. CASE e > p
          <5>1. c * (p + 1) <= c * e /\ c * (p + 1) = c * p + c
            BY <1>2, <3>1, <4>2, <4>4, Monotone
          <5> DEFINE x == c * p
                     y == c * e
          <5>2. x \in Int /\ y \in Int
            BY <1>2, <3>1, <4>2
          <5> HIDE DEF x, y
          <5> QED
            BY <1>2, <4>2, <5>1, <5>2 DEF x, y
        <4>5. CASE e < p
          <5>1. c * (e + 1) <= c * p
            BY <1>2, <3>1, <4>2, <4>5, Monotone
          <5> DEFINE x == c * p
                     y == c * e
          <5>2. x \in Int /\ y \in Int
            BY <1>2, <3>1, <4>2
          <5>3. y + c <= x /\ x < y + c
            BY <4>2, <4>3, <5>1
          <5> HIDE DEF x, y
          <5> QED
            BY <1>2, <5>2, <5>3
        <4> QED
          BY <3>1, <4>2, <4>4, <4>5 DEF e
      <3> QED
        BY <2>1, <3>2, <3>3, <3>4
    <2>2. CASE ~ (c < 100)
      BY <1>4, <2>2
    <2> QED
      BY <2>1, <2>2
  <1>12. (scale % IntModulus) = scale
    <2> HIDE DEF half
    <2>1. scale < IntModulus
      BY <1>3, <1>4, <1>7
    <2> QED
      BY <1>3, <1>7, <2>1
  <1>13. Refined(m, c) = scale
    BY <1>10, <1>11, <1>12 DEF Refined
  <1>14. ASSUME NEW r \in 1 .. Len(ranges)
         PROVE  Factor(Lowest(ranges[r]).num, scale)
    <2>1. ranges[r] \in RateRange
      OBVIOUS
    <2>2. Lowest(ranges[r]).num \in Int /\ m \in Int /\ scale \in Int
      BY <1>1, <1>7, <2>1, LowestTyped DEF RateRange
    <2> QED
      BY <1>7, <1>9, <2>2, FactorOfFactor
  <1>15. scale < IntModulus
    <2> HIDE DEF half
    <2> QED
      BY <1>3, <1>4, <1>7
  <1> QED
    BY <1>7, <1>9, <1>10, <1>13, <1>14, <1>15 DEF scale

\* at such a scale every frame begins at a whole tick
LEMMA WholeBegins ==
    ASSUME NEW ranges \in Seq(RateRange), NEW scale \in Nat,
           \A r \in 1 .. Len(ranges) : Factor(Lowest(ranges[r]).num, scale)
    PROVE  /\ \A i \in 0 .. Frames(ranges) :
                 Factor(Over(ranges), scale * Begins(ranges)[i])
           /\ \A i \in 1 .. Frames(ranges) : RatesOf(ranges)[i] \in Range(ranges)
  <1> DEFINE n == Frames(ranges)
             over == Over(ranges)
             b == Begins(ranges)
             lasts == Lasts(ranges)
             list == RatesOf(ranges)
  <1>1. /\ over \in Nat \ {0} /\ n \in Nat /\ Len(lasts) = n
        /\ SumsOf(b, lasts) /\ \A i \in 0 .. n : b[i] \in Nat
        /\ lasts \in Seq(Nat)
    BY LastsTyped
  <1>2. list \in Seq(RateRange) /\ Len(list) = n
    BY RatesAre
  <1>3. \A i \in 1 .. n : lasts[i] = list[i].denom * (over \div list[i].num)
    BY <1>2 DEF Lasts
  <1>4. \A i \in 1 .. n : list[i] \in Range(ranges)
    <2>1. PICK h : SumsOf(h, FrameCounts(ranges))
      <3>1. FrameCounts(ranges) \in Seq(Int)
        BY RatesAre
      <3> QED
        BY <3>1, SumsExist
    <2>2. /\ FrameCounts(ranges) \in Seq(Nat) /\ Len(FrameCounts(ranges)) = Len(ranges)
          /\ n = h[Len(ranges)] /\ h[0] = 0
          /\ \A r \in 1 .. Len(ranges) : h[r] = h[r - 1] + ranges[r].numFrames
      <3>1. FrameCounts(ranges) \in Seq(Int)
        BY RatesAre
      <3>2. SumOf(FrameCounts(ranges)) = h[Len(FrameCounts(ranges))]
        BY <2>1, <3>1, SumUnique
      <3> QED
        BY <2>1, <3>2, RatesAre DEF SumsOf, FrameCounts
    <2>3. \A r \in 1 .. Len(ranges) : \A j \in 1 .. ranges[r].numFrames :
             list[h[r - 1] + j] = ranges[r]
      BY <2>1, RatesAre
    <2> DEFINE m == Len(ranges)
               S == {k \in 0 .. m : \A i \in 1 .. h[k] : list[i] \in Range(ranges)}
    <2>4. m \in Nat
      OBVIOUS
    <2>5. 0 \in S
      BY <2>2, <2>4
    <2>6. ASSUME NEW k \in 0 .. m - 1, k \in S PROVE k + 1 \in S
      <3>1. k + 1 \in 1 .. m /\ k + 1 \in 0 .. m /\ (k + 1) - 1 = k /\ k \in 0 .. m
        BY <2>4
      <3>2. h[k] \in Nat /\ h[k + 1] = h[k] + ranges[k + 1].numFrames
        <4>1. k \in 0 .. Len(FrameCounts(ranges)) /\ k \in k .. Len(FrameCounts(ranges))
          BY <2>2, <3>1
        <4>2. h[k] \in Nat
          BY <2>1, <2>2, <4>1, SumsGrow
        <4> QED
          BY <2>2, <3>1, <4>2
      <3>3. ranges[k + 1] \in RateRange /\ ranges[k + 1] \in Range(ranges)
        BY <3>1 DEF Range
      <3>4. ranges[k + 1].numFrames \in Nat
        BY <3>3 DEF RateRange
      <3>5. ASSUME NEW i \in 1 .. h[k + 1] PROVE list[i] \in Range(ranges)
        <4>1. CASE i <= h[k]
          <5>1. i \in 1 .. h[k]
            BY <3>2, <4>1
          <5> QED
            BY <2>6, <5>1
        <4>2. CASE i > h[k]
          <5> DEFINE j == i - h[k]
          <5>1. j \in 1 .. ranges[k + 1].numFrames /\ h[k] + j = i
            BY <3>2, <3>4, <4>2
          <5>2. list[h[k] + j] = ranges[k + 1]
            BY <2>3, <3>1, <5>1
          <5> QED
            BY <3>3, <5>1, <5>2
        <4> QED
          BY <3>2, <3>4, <4>1, <4>2
      <3> QED
        BY <3>1, <3>5
    <2> HIDE DEF S, m
    <2>7. 0 .. m \subseteq S
      <3>1. 0 \in Int /\ m \in Int
        BY <2>4
      <3> QED
        BY <2>5, <2>6, <3>1, IntervalInduction
    <2>8. m \in S
      BY <2>4, <2>7
    <2> QED
      BY <2>2, <2>8 DEF S, m
  <1> DEFINE T == {k \in 0 .. n : Factor(over, scale * b[k])}
  <1> HIDE DEF n, over, b, lasts, list
  <1>5. 0 \in T
    <2>1. b[0] = 0 /\ scale * 0 = over * 0 /\ 0 \in 0 .. n /\ 0 \in Int
      BY <1>1 DEF SumsOf
    <2> QED
      BY <2>1 DEF Factor
  <1>6. ASSUME NEW k \in 0 .. n - 1, k \in T PROVE k + 1 \in T
    <2>1. k + 1 \in 1 .. n /\ k + 1 \in 0 .. n /\ (k + 1) - 1 = k /\ k \in 0 .. n
      BY <1>1
    <2> DEFINE r == list[k + 1]
               last == lasts[k + 1]
    <2>2. /\ b[k + 1] = b[k] + last /\ last \in Nat /\ b[k] \in Nat
          /\ last = r.denom * (over \div r.num)
      BY <1>1, <1>3, <2>1 DEF SumsOf
    <2>3. PICK i \in 1 .. Len(ranges) : r = ranges[i]
      BY <1>4, <2>1 DEF Range
    <2>4. r \in RateRange /\ Factor(Lowest(r).num, scale)
      BY <2>3
    <2>5. Factor(r.num, over)
      BY <2>3, OverDivided DEF over
    <2> HIDE DEF r
    <2>6. Factor(over, scale * last)
      BY <1>1, <2>2, <2>4, <2>5, WholeLast
    <2> HIDE DEF last
    <2>7. PICK p \in Int : scale * b[k] = over * p
      BY <1>6 DEF Factor
    <2>8. PICK q \in Int : scale * last = over * q
      BY <2>6 DEF Factor
    <2>9. scale * b[k + 1] = over * (p + q) /\ p + q \in Int
      <3>1. scale * (b[k] + last) = scale * b[k] + scale * last
        BY <2>2
      <3>2. over * (p + q) = over * p + over * q
        BY <1>1
      <3> QED
        BY <2>2, <2>7, <2>8, <3>1, <3>2
    <2> QED
      BY <2>1, <2>9 DEF Factor
  <1> HIDE DEF T
  <1>7. 0 .. n \subseteq T
    <2>1. 0 \in Int /\ n \in Int
      BY <1>1
    <2> QED
      BY <1>5, <1>6, <2>1, IntervalInduction
  <1> QED
    BY <1>4, <1>7 DEF T, n, over, b, list

\* equal rates in a row: equal gaps
LEMMA EqualGaps ==
    ASSUME NEW ranges \in Seq(RateRange), NEW scale \in Nat, AsInt(scale) = scale,
           \A r \in 1 .. Len(ranges) : Factor(Lowest(ranges[r]).num, scale),
           NEW i \in 0 .. Frames(ranges) - 2,
           RatesOf(ranges)[i + 1] = RatesOf(ranges)[i + 2]
    PROVE  LET codes == CalcSampleTimes(ranges, scale)
           IN  codes[i + 2] - codes[i + 1] = codes[i + 1] - codes[i]
  <1> DEFINE n == Frames(ranges)
             over == Over(ranges)
             b == Begins(ranges)
             lasts == Lasts(ranges)
             codes == CalcSampleTimes(ranges, scale)
  <1>1. /\ over \in Nat \ {0} /\ n \in Nat /\ Len(lasts) = n
        /\ SumsOf(b, lasts) /\ \A k \in 0 .. n : b[k] \in Nat
        /\ lasts \in Seq(Nat)
    BY LastsTyped
  <1>2. \A k \in 0 .. n : Factor(over, scale * b[k])
    BY WholeBegins
  <1>3. \A k \in 0 .. n : codes[k] = AsTime(scale * b[k], over)
    <2>1. codes = [k \in 0 .. n |-> AsTime(AsInt(scale) * b[k], over)]
      <3>1. scale \in Int
        OBVIOUS
      <3> QED
        BY <3>1, TimesAre
    <2> HIDE DEF codes, b, over, n
    <2> QED
      BY <2>1
  <1>4. i \in 0 .. n /\ i + 1 \in 0 .. n /\ i + 2 \in 0 .. n
        /\ i + 1 \in 1 .. n /\ i + 2 \in 1 .. n
        /\ (i + 1) - 1 = i /\ (i + 2) - 1 = i + 1
    BY <1>1
  <1>5. lasts[i + 1] = lasts[i + 2]
    <2>1. Len(RatesOf(ranges)) = n
      BY RatesAre
    <2> QED
      BY <1>4, <2>1 DEF Lasts
  <1> DEFINE w == lasts[i + 1]
  <1>6. w \in Nat /\ b[i + 1] = b[i] + w /\ b[i + 2] = b[i + 1] + w
    <2>1. lasts[i + 1] \in Nat
      BY <1>1, <1>4
    <2>2. /\ b[i + 1] = b[(i + 1) - 1] + lasts[i + 1]
          /\ b[i + 2] = b[(i + 2) - 1] + lasts[i + 2]
      BY <1>1, <1>4 DEF SumsOf
    <2> HIDE DEF b, lasts
    <2> QED
      BY <1>4, <1>5, <2>1, <2>2
  <1> HIDE DEF n, over, b, lasts, codes, w
  <1>7. ASSUME NEW k \in 0 .. n
        PROVE  codes[k] \in Nat /\ scale * b[k] = over * codes[k]
    <2>1. PICK t \in Int : scale * b[k] = over * t
      BY <1>2 DEF Factor
    <2>2. b[k] \in Nat
      BY <1>1
    <2>3. scale * b[k] \in Nat
      BY <2>2
    <2>4. t >= 0
      <3>1. CASE t <= -1
        <4>1. over * t <= over * (-1)
          BY <1>1, <3>1, Monotone
        <4> QED
          BY <1>1, <2>1, <2>3, <4>1
      <3> QED
        BY <3>1
    <2>5. t \in Nat
      BY <2>4
    <2>6. AsTime(over * t, over) = t
      BY <1>1, <2>5, WholeTime
    <2> QED
      BY <1>3, <2>1, <2>5, <2>6
  <1> DEFINE x == codes[i]
             y == codes[i + 1]
             z == codes[i + 2]
             u == scale * w
  <1>8. /\ x \in Nat /\ y \in Nat /\ z \in Nat /\ u \in Nat
        /\ over * y = over * x + u /\ over * z = over * y + u
    <2>1. /\ scale * b[i] = over * x /\ scale * b[i + 1] = over * y
          /\ scale * b[i + 2] = over * z /\ x \in Nat /\ y \in Nat /\ z \in Nat
      BY <1>4, <1>7
    <2>2. b[i] \in Nat /\ b[i + 1] \in Nat
      BY <1>1, <1>4
    <2>3. /\ scale * (b[i] + w) = scale * b[i] + u
          /\ scale * (b[i + 1] + w) = scale * b[i + 1] + u
      <3>1. \A p \in Nat : scale * (p + w) = scale * p + scale * w
        BY <1>6
      <3> QED
        BY <2>2, <3>1
    <2>4. u \in Nat
      BY <1>6
    <2> HIDE DEF x, y, z, u
    <2> QED
      BY <1>6, <2>1, <2>3, <2>4
  <1> HIDE DEF x, y, z, u
  <1>9. over * (z - y) = over * (y - x)
    <2>1. over * (z - y) = over * z - over * y /\ over * (y - x) = over * y - over * x
      BY <1>1, <1>8
    <2> DEFINE p == over * x
               q == over * y
               r == over * z
    <2>2. p \in Int /\ q \in Int /\ r \in Int
      BY <1>1, <1>8
    <2>3. over * (z - y) = r - q /\ over * (y - x) = q - p
      BY <2>1
    <2>4. q = p + u /\ r = q + u
      BY <1>8
    <2> HIDE DEF p, q, r
    <2> QED
      BY <1>8, <2>2, <2>3, <2>4
  <1>10. z - y = y - x
    <2>1. z - y \in Int /\ y - x \in Int
      BY <1>8
    <2>2. CASE z - y > y - x
      <3> DEFINE k == z - y
                 l == y - x
      <3>1. l + 1 <= k /\ k \in Int /\ l \in Int /\ over * k = over * l
        BY <1>9, <2>1, <2>2
      <3> HIDE DEF k, l
      <3>2. over * (l + 1) <= over * k /\ over * (l + 1) = over * l + over
        BY <1>1, <3>1, Monotone
      <3> QED
        BY <1>1, <3>1, <3>2
    <2>3. CASE z - y < y - x
      <3> DEFINE k == z - y
                 l == y - x
      <3>1. k + 1 <= l /\ k \in Int /\ l \in Int /\ over * k = over * l
        BY <1>9, <2>1, <2>3
      <3> HIDE DEF k, l
      <3>2. over * (k + 1) <= over * l /\ over * (k + 1) = over * k + over
        BY <1>1, <3>1, Monotone
      <3> QED
        BY <1>1, <3>1, <3>2
    <2> QED
      BY <2>1, <2>2, <2>3
  <1> QED
    BY <1>10 DEF x, y, z, codes

\* the first frame of a range comes after those of the ranges before it
LEMMA FirstOfRange ==
    ASSUME NEW ranges \in Seq(RateRange), NEW r \in 1 .. Len(ranges),
           NEW i \in Frames(SubSeq(ranges, 1, r - 1)) ..
                     Frames(SubSeq(ranges, 1, r - 1)) + ranges[r].numFrames - 2
    PROVE  /\ i \in 0 .. Frames(ranges) - 2
           /\ RatesOf(ranges)[i + 1] = RatesOf(ranges)[i + 2]
  <1> DEFINE counts == FrameCounts(ranges)
             part == SubSeq(ranges, 1, r - 1)
             m == Len(ranges)
             nf == ranges[r].numFrames
  <1>1. PICK h : SumsOf(h, counts)
    <2>1. counts \in Seq(Int)
      BY RatesAre
    <2> QED
      BY <2>1, SumsExist
  <1>2. counts \in Seq(Nat) /\ counts \in Seq(Int) /\ Len(counts) = m /\ m \in Nat
    BY RatesAre
  <1>3. Frames(ranges) = h[m]
    BY <1>1, <1>2, SumUnique, RatesAre
  <1>4. part \in Seq(RateRange)
    OBVIOUS
  <1>5. FrameCounts(part) = SubSeq(counts, 1, r - 1)
    <2>1. /\ Len(part) = r - 1 /\ \A k \in 1 .. r - 1 : part[k] = ranges[k]
      OBVIOUS
    <2>2. /\ SubSeq(counts, 1, r - 1) \in Seq(Nat)
          /\ Len(SubSeq(counts, 1, r - 1)) = r - 1
          /\ \A k \in 1 .. r - 1 : SubSeq(counts, 1, r - 1)[k] = counts[k]
      BY <1>2
    <2>3. \A k \in 1 .. r - 1 : counts[k] = ranges[k].numFrames
      BY DEF FrameCounts
    <2>4. FrameCounts(part) \in Seq(Nat) /\ Len(FrameCounts(part)) = r - 1
      BY <1>4, <2>1, RatesAre
    <2>5. \A k \in 1 .. r - 1 : FrameCounts(part)[k] = part[k].numFrames
      BY <2>1 DEF FrameCounts
    <2> DEFINE a == FrameCounts(part)
               b == SubSeq(counts, 1, r - 1)
    <2>6. a \in Seq(Nat) /\ Len(a) = r - 1 /\ b \in Seq(Nat) /\ Len(b) = r - 1
      BY <2>2, <2>4
    <2>7. \A k \in 1 .. r - 1 : a[k] = b[k]
      BY <2>1, <2>2, <2>3, <2>5
    <2> HIDE DEF a, b
    <2>8. a = b
      BY <2>6, <2>7
    <2> QED
      BY <2>8 DEF a, b
  <1>6. Frames(part) = h[r - 1]
    <2>1. Frames(part) = SumOf(FrameCounts(part))
      BY <1>4, RatesAre
    <2>2. /\ 1 \in 1 .. Len(counts) + 1 /\ r - 1 \in 1 - 1 .. Len(counts) /\ 1 - 1 = 0
      BY <1>2
    <2>3. SumOf(SubSeq(counts, 1, r - 1)) = h[r - 1] - h[0]
      <3> HIDE DEF counts
      <3>1. SumOf(SubSeq(counts, 1, r - 1)) = h[r - 1] - h[1 - 1]
        BY <1>1, <1>2, <2>2, SumOfPart
      <3> QED
        BY <2>2, <3>1
    <2>4. h[0] = 0 /\ h[r - 1] \in Int
      <3>1. r - 1 \in 0 .. Len(counts)
        BY <1>2
      <3> QED
        BY <1>1, <1>2, <3>1, SumUnique DEF SumsOf
    <2>5. h[r - 1] - h[0] = h[r - 1]
      BY <2>4
    <2> HIDE DEF part, counts
    <2> QED
      BY <1>5, <2>1, <2>3, <2>5
  <1>7. /\ h[r - 1] \in Nat /\ h[r] = h[r - 1] + nf /\ nf \in Nat /\ h[r] <= h[m]
        /\ h[m] \in Nat
    <2>1. /\ r - 1 \in 0 .. Len(counts) /\ r - 1 \in r - 1 .. Len(counts)
          /\ r \in 0 .. Len(counts) /\ m \in r .. Len(counts) /\ r \in 1 .. Len(counts)
          /\ m \in 0 .. Len(counts) /\ m \in m .. Len(counts)
      BY <1>2
    <2>2. h[r - 1] \in Nat /\ h[r] <= h[m] /\ h[m] \in Nat
      BY <1>1, <1>2, <2>1, SumsGrow
    <2>3. h[r] = h[r - 1] + counts[r] /\ counts[r] = nf
      BY <1>1, <2>1 DEF SumsOf, FrameCounts
    <2>4. nf \in Nat
      <3>1. ranges[r] \in RateRange
        OBVIOUS
      <3> QED
        BY <3>1 DEF RateRange
    <2> QED
      BY <2>2, <2>3, <2>4
  <1>8. \A j \in 1 .. nf : RatesOf(ranges)[h[r - 1] + j] = ranges[r]
    BY <1>1, RatesAre
  <1> DEFINE j == i + 1 - h[r - 1]
  <1>9. i \in h[r - 1] .. h[r - 1] + nf - 2
    BY <1>6
  <1> HIDE DEF nf, counts, part, m
  <1>10. /\ j \in 1 .. nf /\ j + 1 \in 1 .. nf /\ i \in 0 .. h[m] - 2
         /\ h[r - 1] + j = i + 1 /\ h[r - 1] + (j + 1) = i + 2
    <2> DEFINE a == h[r - 1]
               b == h[r]
               c == h[m]
    <2>1. /\ a \in Nat /\ b = a + nf /\ nf \in Nat /\ b <= c /\ c \in Nat
          /\ i \in a .. a + nf - 2 /\ j = i + 1 - a
      BY <1>7, <1>9
    <2> HIDE DEF a, b, c, j
    <2>2. /\ j \in 1 .. nf /\ j + 1 \in 1 .. nf /\ i \in 0 .. c - 2
          /\ a + j = i + 1 /\ a + (j + 1) = i + 2
      BY <2>1
    <2> QED
      BY <2>2 DEF a, c
  <1> HIDE DEF j
  <1> QED
    BY <1>3, <1>8, <1>10

(***************************************************************************)
(* With a scale of SetFPS's own choice, every frame of a range lasts as    *)
(* long as the others of it, when 100 can be divided by the smallest       *)
(* denominator, nothing overflows and the movie fits.                      *)
(***************************************************************************)
THEOREM SteadyKept == Spec => []SteadyRates
  <1>1. FromRates => SteadyRates
    <2> DEFINE ranges == rates.ranges
               scale == FineScale(ranges)
               n == LastSlot
    <2> SUFFICES ASSUME FromRates, Computed,
                        100 % Coarsest(ranges) = 0 \/ Coarsest(ranges) >= 100,
                        scale < IntModulus \div 2,
                        CalcSampleTimes(ranges, scale)[n] <= MaxDuration
                 PROVE  Steady
      BY DEF SteadyRates, FineScale
    <2>1. PICK fps \in FrameRateLists :
             /\ ranges = Normalized(fps) /\ Frames(ranges) = LastSlot
             /\ ranges \in Seq(RateRange) /\ Len(ranges) # 0
             /\ \E current : timeScale = ChosenTimeScale(ranges, 0, current)
             /\ asked = CalcSampleTimes(ranges, timeScale)
      BY DEF FromRates
    <2>2. PICK current : timeScale = ChosenTimeScale(ranges, 0, current)
      BY <2>1
    <2>3. /\ CalcTimeScale(ranges) = scale /\ scale \in Nat /\ AsInt(scale) = scale
          /\ \A r \in 1 .. Len(ranges) : Factor(Lowest(ranges[r]).num, scale)
      BY <2>1, FineScaleComputed
    <2> HIDE DEF scale
    <2>4. timeScale = scale
      <3> DEFINE last == CalcSampleTimes(ranges, scale)[n]
      <3>1. last \in Nat
        <4>1. /\ Over(ranges) \in Nat \ {0} /\ n \in Nat
              /\ Begins(ranges)[n] \in Nat /\ scale \in Int
          <5>1. LastSlot \in 0 .. Frames(ranges)
            BY <2>1, LastsTyped
          <5> QED
            BY <2>1, <2>3, <5>1, LastsTyped
        <4>2. last = AsTime(AsInt(scale) * Begins(ranges)[n], Over(ranges))
          BY <2>1, <4>1, TimesAre
        <4>3. scale * Begins(ranges)[n] \in Int
          BY <2>3, <4>1
        <4> QED
          BY <2>3, <4>1, <4>2, <4>3, TimeTyped
      <3>2. ~ (last > MaxDuration)
        <4> HIDE DEF last
        <4>1. last <= MaxDuration
          BY DEF last
        <4> QED
          BY <3>1, <4>1, IntModulusAssumption
      <3>3. ChosenTimeScale(ranges, 0, current) = CalcTimeScale(ranges)
        <4> HIDE DEF ranges
        <4> QED
          BY <2>1, <2>3, <3>2 DEF ChosenTimeScale
      <3> QED
        BY <2>2, <2>3, <3>3
    <2> HIDE DEF ranges
    <2>5. ASSUME NEW r \in DOMAIN ranges,
                 NEW i \in Frames(SubSeq(ranges, 1, r - 1)) ..
                           Frames(SubSeq(ranges, 1, r - 1)) + ranges[r].numFrames - 2
          PROVE  asked[i + 2] - asked[i + 1] = asked[i + 1] - asked[i]
      <3>1. r \in 1 .. Len(ranges)
        BY <2>1
      <3>2. /\ i \in 0 .. Frames(ranges) - 2
            /\ RatesOf(ranges)[i + 1] = RatesOf(ranges)[i + 2]
        BY <2>1, <3>1, FirstOfRange
      <3> QED
        BY <2>1, <2>3, <2>4, <3>2, EqualGaps
    <2> QED
      BY <2>5 DEF Steady, ranges
  <1> QED
    BY <1>1, FromRatesAlways, PTL
=============================================================================
