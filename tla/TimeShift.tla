------------------------------ MODULE TimeShift ------------------------------
(***************************************************************************)
(* The two loops that move time codes so that audio and video are played   *)
(* with a given offset: TrackEditor::CompressTimeCodes and                 *)
(* TrackEditor::DelayTimeCodes (mp4trackx.cpp).  Both are templates over a *)
(* functor timeCode(n), a reference to the n-th time code; here tc is the  *)
(* function that functor stands for, and the module is instantiated once   *)
(* for the decoding times and once for the composition times.              *)
(*                                                                         *)
(* One action is one turn of a loop.                                       *)
(***************************************************************************)
EXTENDS Rounding

CONSTANT LastSlot   \* slots 0 .. LastSlot-1 are the frames of the track,
                    \* LastSlot is the extra entry that ends the last one

VARIABLES
    tc,     \* the time codes, a function on Slots
    loop    \* the locals of the loop being run

Slots == 0 .. LastSlot

Idle == [code |-> "idle", n |-> 0, prev |-> 0, offset |-> 0, off |-> 0,
         factor |-> 0, num |-> 1, den |-> 1]

-----------------------------------------------------------------------------
\* mutant: the scale is not kept from falling below TC_COMPRESS_SCALE_MIN
BugEnterCompress(offset) ==
    /\ loop.code = "idle"
    /\ loop' = [code |-> "compress", n |-> 1, prev |-> 0, offset |-> offset,
                off |-> tc[1], factor |-> 0,
                num |-> tc[1], den |-> offset + tc[1]]
    /\ UNCHANGED tc

\* CompressTimeCodes: scale = max(off / (offset + off), TC_COMPRESS_SCALE_MIN)
EnterCompress(offset) ==
    /\ loop.code = "idle"
    /\ loop' = [code |-> "compress", n |-> 1, prev |-> 0, offset |-> offset,
                off |-> tc[1], factor |-> 0,
                num |-> IF offset <= tc[1] THEN tc[1] ELSE 1,
                den |-> IF offset <= tc[1] THEN offset + tc[1] ELSE 2]
    /\ UNCHANGED tc

\* mutant: the code before is forgotten
BugCaughtUp == (tc[loop.n] - loop.offset) * loop.den >= loop.off * loop.num

\* orig - offset >= prev + off * scale: the full offset can be taken from here
CaughtUp ==
    (tc[loop.n] - loop.offset - loop.prev) * loop.den >= loop.off * loop.num

Compressing == loop.n <= LastSlot /\ ~ CaughtUp

CompressedCode ==
    LET cur == HalfUp(tc[loop.n], loop.num, loop.den)
    IN  IF cur = loop.prev THEN cur + 1 ELSE cur

CompressFrame ==
    /\ loop.code = "compress"
    /\ Compressing
    /\ tc' = [tc EXCEPT ![loop.n] = CompressedCode]
    /\ loop' = [loop EXCEPT !.n = @ + 1, !.prev = CompressedCode]

\* mutant: the rest is moved the other way
BugCompressTailSign ==
    /\ loop.code = "compress"
    /\ ~ Compressing
    /\ tc' = [i \in Slots |-> IF i < loop.n THEN tc[i] ELSE tc[i] + loop.offset]
    /\ loop' = Idle

\* the loop ends at a break or at the end, and the rest moves by the offset
CompressTail ==
    /\ loop.code = "compress"
    /\ ~ Compressing
    /\ tc' = [i \in Slots |-> IF i < loop.n THEN tc[i] ELSE tc[i] - loop.offset]
    /\ loop' = Idle

-----------------------------------------------------------------------------
\* DelayTimeCodes: the factor is raised until the scale is TC_DELAY_SCALE or less
DelayScaleLimit == 4

\* mutant: the first factor tried is far too large
BugEnterDelay(offset) ==
    /\ loop.code = "idle"
    /\ loop' = [code |-> "factor", n |-> 0, prev |-> 0, offset |-> offset,
                off |-> tc[1], factor |-> 16, num |-> 1, den |-> 1]
    /\ UNCHANGED tc

EnterDelay(offset) ==
    /\ loop.code = "idle"
    /\ loop' = [code |-> "factor", n |-> 0, prev |-> 0, offset |-> offset,
                off |-> tc[1], factor |-> 2, num |-> 1, den |-> 1]
    /\ UNCHANGED tc

\* scale = (offset / factor + off) / off, as a quotient of integers
FactorNum == loop.offset + loop.factor * loop.off
FactorDen == loop.factor * loop.off

\* mutant: the factor is not raised
BugRaiseFactor ==
    /\ loop.code = "factor"
    /\ FactorNum > DelayScaleLimit * FactorDen
    /\ UNCHANGED <<tc, loop>>

RaiseFactor ==
    /\ loop.code = "factor"
    /\ FactorNum > DelayScaleLimit * FactorDen
    /\ loop' = [loop EXCEPT !.factor = @ + 1]
    /\ UNCHANGED tc

FixFactor ==
    /\ loop.code = "factor"
    /\ FactorNum <= DelayScaleLimit * FactorDen
    /\ loop' = [code |-> "delay", n |-> 1, prev |-> 0, offset |-> loop.offset,
                off |-> loop.off, factor |-> loop.factor,
                num |-> FactorNum, den |-> FactorDen]
    /\ UNCHANGED tc

DelayedCode == HalfUp(tc[loop.n], loop.num, loop.den)

FullyDelayed == DelayedCode >= tc[loop.n] + loop.offset

Delaying == loop.n <= LastSlot /\ ~ FullyDelayed

DelayFrame ==
    /\ loop.code = "delay"
    /\ Delaying
    /\ tc' = [tc EXCEPT ![loop.n] = DelayedCode]
    /\ loop' = [loop EXCEPT !.n = @ + 1, !.prev = DelayedCode]

\* mutant: the frame at which the loop breaks is not moved
BugDelayTail ==
    /\ loop.code = "delay"
    /\ ~ Delaying
    /\ tc' = [i \in Slots |-> IF i <= loop.n THEN tc[i] ELSE tc[i] + loop.offset]
    /\ loop' = Idle

DelayTail ==
    /\ loop.code = "delay"
    /\ ~ Delaying
    /\ tc' = [i \in Slots |-> IF i < loop.n THEN tc[i] ELSE tc[i] + loop.offset]
    /\ loop' = Idle

=============================================================================
