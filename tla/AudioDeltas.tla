------------------------------ MODULE AudioDeltas ------------------------------
(***************************************************************************)
(* fixAudioTimeCodes of main.cpp (option -A): every sample of the first    *)
(* audio track is made to last equally long, and each frame of the picture *)
(* is moved along with the sound that is heard with it, smoothed by a      *)
(* filter.                                                                 *)
(***************************************************************************)
EXTENDS TimeCodes

CONSTANT Movies     \* the files the program may be given

\* no sample of the sound is empty, and frames are counted in 32 bits
ASSUME MoviesAssumption ==
    \A m \in Movies : /\ m.cts \in Seq(Int) /\ m.scale \in Nat \ {0}
                      /\ Len(m.cts) <= IntModulus
                      /\ m.audio \in Seq(Nat \ {0}) /\ m.audioScale \in Nat

VARIABLES
    movie,      \* cts: display times of the frames in order and of their end,
                \* scale; audio: durations of the samples of the first audio
                \* track, <<>> if there is none, audioScale
    fixing      \* the locals of fixAudioTimeCodes

FrameCount == Len(movie.cts) - 1

\* dts is DTS(i) of the audio track: the end of its i-th sample
NotFixing == [i |-> 0, dts |-> 0, vcts |-> <<>>, fixed |-> <<>>, timeDelta |-> 0,
              diff |-> 0]

EnterFix == fixing' = [NotFixing EXCEPT !.i = 1, !.dts = Head(movie.audio),
                                        !.vcts = movie.cts]

\* the i-th sample of the sound is not over when the next frame is displayed
Heard ==
    /\ fixing.vcts # <<>>
    /\ Head(fixing.vcts) * movie.audioScale <= fixing.dts * movie.scale

Fixing == fixing.i <= Len(movie.audio)

\* int64_t of a double, in ticks
WholeTicks(code) == IF code >= 0 THEN code \div Fraction ELSE -((-code) \div Fraction)

\* alpha is 0.2
Smoothed(new, last, timeDelta) == (new - last) \div 5 + (4 * timeDelta) \div 5

FixCode(delta) ==
    /\ Fixing /\ Heard
    /\ LET vcts  == Head(fixing.vcts)
           new   == (Fraction * vcts * delta * fixing.i) \div fixing.dts
           fixed == fixing.fixed
           step  == IF fixing.timeDelta = 0 THEN new - Last(fixed)
                    ELSE Smoothed(new, Last(fixed), fixing.timeDelta)
           moved == [fixing EXCEPT !.vcts = Tail(@),
                                   !.diff = WholeTicks(new - Fraction * vcts)]
       IN  fixing' = IF fixed = <<>> THEN [moved EXCEPT !.fixed = <<new>>]
                     ELSE [moved EXCEPT !.timeDelta = step,
                                        !.fixed = Append(@, Last(@) + step)]

NextSample ==
    /\ Fixing /\ ~ Heard
    /\ fixing' = [fixing EXCEPT !.i = @ + 1,
                    !.dts = @ + (IF fixing.i < Len(movie.audio)
                                 THEN movie.audio[fixing.i + 1] ELSE 0)]

\* what is displayed after the end of the sound follows the last frame before
FixedCodes ==
    fixing.fixed \o [n \in DOMAIN fixing.vcts |->
                        Fraction * (fixing.vcts[n] + fixing.diff)]

\* the sample table of the audio track, rewritten
StaticAudio(delta) == [n \in DOMAIN movie.audio |-> delta]
=============================================================================
