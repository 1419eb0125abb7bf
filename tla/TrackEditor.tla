----------------------------- MODULE TrackEditor -----------------------------
(***************************************************************************)
(* The life of a TrackEditor on the video track of a file (mp4trackx.cpp), *)
(* driven as execute() of main.cpp drives it: the constructor loads the    *)
(* sample tables, SetFPS or SetTimeCodes gives every frame a new time,     *)
(* AdjustTimeCodes moves decoding and composition times until every frame  *)
(* is decoded before it is displayed, DoEditTimeCodes writes the tables    *)
(* and the edit lists back, and the file is saved.  A later run of the     *)
(* program may load what an earlier one saved.                             *)
(*                                                                         *)
(* AdjustTimeCodes is split at its loops, which are those of TimeShift.    *)
(***************************************************************************)
EXTENDS FrameRates, SampleTables, FiniteSets

CONSTANTS
    LastSlot,       \* number of frames of the track, index of the extra entry
    AudioTracks,    \* the 'soun' tracks of the file
    Files,          \* the files the first run may be given
    TimeCodeLists,  \* [times, scale]: a -t file, rescaled, in ticks / Fraction
    Fraction,       \* the time codes of a list are multiples of 1 / Fraction
    FrameRateLists, \* [ranges, scale]: the -r options and -T
    Delays,         \* -d, in milliseconds
    TicksShort(_, _),   \* of -d and a time scale: their double falls short
    MaxRuns         \* how many times the program is run on the file

ASSUME LastSlotAssumption == LastSlot \in Nat \ {0}
ASSUME FractionAssumption == Fraction \in Nat \ {0}
ASSUME DelaysAssumption   == Delays \subseteq Int
ASSUME MaxRunsAssumption  == MaxRuns \in Nat
ASSUME AudioTracksAssumption == IsFiniteSet(AudioTracks)

\* the 1000 ticks of a list, or those of the track, or a positive -T
ASSUME TimeCodeListsAssumption ==
    \A list \in TimeCodeLists : list.scale \in Nat \ {0}

\* the tables of a file have one value for every frame
ASSUME FilesAssumption ==
    LET tables == Seq([count : Nat, value : 0 .. Word - 1])
        edits  == Seq([mediaTime : Int, duration : Nat])
    IN  \A f \in Files :
           /\ f.video \in [stts : tables, hasCtts : BOOLEAN, ctts : tables,
                           timeScale : Nat \ {0}, duration : Nat, tkhd : Nat,
                           elst : edits]
           /\ Len(Expand(f.video.stts)) = LastSlot
           /\ f.video.hasCtts => Len(Expand(f.video.ctts)) = LastSlot
           /\ f.audio \in [AudioTracks -> [timeScale : Nat \ {0}, duration : Nat,
                                           tkhd : Nat, elst : edits]]
           /\ f.movie \in [timeScale : Nat \ {0}, duration : Nat]

\* rates are positive, and a list of times has fewer than 2^32 members
ASSUME FrameRateListsAssumption ==
    \A fps \in FrameRateLists :
       /\ fps.ranges \in Seq([numFrames : Nat, num : Nat \ {0}, denom : Nat \ {0}])
       /\ fps.scale \in Int
       /\ Frames(NormalizeFPSRange(fps.ranges, LastSlot)) < Word

VARIABLES
    video,          \* boxes: stts, ctts (if hasCtts), elst, timeScale,
                    \*        duration (both of mdhd), tkhd (duration)
    audio,          \* for each audio track: timeScale, duration, elst, tkhd
    movie,          \* mvhd: timeScale, duration
    dts,            \* DTS(n): decoding time of the n-th frame decoded
    cts,            \* CTS(n): composition time of the n-th frame displayed
    ctsIndex,       \* which decoded frame is displayed n-th
    timeScale, initialDelay, compressDTS, audioDelay,   \* TrackEditor members
    loop,           \* locals of the loop being run
    pc,             \* how far the run has come
    asked,          \* history: the time codes given to the editor
    rates,          \* history: the frame rates they come from, if any
    runs            \* history: runs completed

boxes   == <<video, audio, movie>>
times   == <<dts, cts>>
options == <<compressDTS, audioDelay>>
history == <<asked, rates, runs>>
vars    == <<boxes, times, ctsIndex, timeScale, initialDelay, options, loop,
             pc, history>>

Ctsf == INSTANCE TimeShift WITH tc <- cts
Dtsf == INSTANCE TimeShift WITH tc <- dts

Slots  == 0 .. LastSlot
Frame  == 0 .. LastSlot - 1
Zeroes == [i \in Slots |-> 0]
NoRates == [ranges |-> <<>>, scale |-> -1]

\* milliseconds / 1000.0 * scale: a whole number of ticks may come out just
\* below itself, and is then truncated to one tick less
InTicks(milliseconds, scale) ==
    LET ticks == Truncated(milliseconds * scale, 1000)
    IN  IF /\ ticks # 0 /\ 1000 * ticks = milliseconds * scale
           /\ TicksShort(milliseconds, scale)
        THEN IF ticks > 0 THEN ticks - 1 ELSE ticks + 1
        ELSE ticks

AudioDelayInTimeScale == InTicks(audioDelay, timeScale)

Init ==
    /\ \E f \in Files : video = f.video /\ audio = f.audio /\ movie = f.movie
    /\ dts = Zeroes /\ cts = Zeroes /\ ctsIndex = [i \in Slots |-> i]
    /\ timeScale = 1 /\ initialDelay = 0
    /\ compressDTS = FALSE /\ audioDelay = 0
    /\ loop = Ctsf!Idle
    /\ pc = "closed"
    /\ asked = Zeroes /\ rates = NoRates
    /\ runs = 0

-----------------------------------------------------------------------------
\* std::sort leaves equal elements in any order
SortedOrders(t) ==
    {p \in [Slots -> Slots] : /\ \A i, j \in Slots : p[i] = p[j] => i = j
                              /\ \A i \in Frame : t[p[i]] <= t[p[i + 1]]}

Open ==
    /\ pc = "closed"
    /\ runs < MaxRuns
    /\ timeScale' = video.timeScale
    /\ dts' = LoadDTS(video.stts)
    /\ LET loaded == LoadCTS(dts', video.hasCtts, video.ctts) IN
         \E p \in SortedOrders(loaded) :
            /\ ctsIndex' = p
            /\ cts' = [n \in Slots |-> loaded[p[n]]]
    /\ compressDTS' \in BOOLEAN
    /\ audioDelay' \in Delays
    /\ initialDelay' = 0
    /\ pc' = "loaded"
    /\ UNCHANGED <<boxes, loop, asked, rates, runs>>

\* the n-th frame displayed and the n-th frame decoded get the same time
GiveTimes(t) ==
    /\ dts' = t
    /\ cts' = t
    /\ asked' = t
    /\ pc' = "timed"

SetFPS(fps) ==
    /\ pc = "loaded"
    /\ LET ranges == NormalizeFPSRange(fps.ranges, LastSlot) IN
         IF Frames(ranges) % Word # LastSlot
         THEN /\ pc' = "failed"
              /\ UNCHANGED <<times, timeScale, asked, rates>>
         ELSE /\ timeScale' = ChosenTimeScale(ranges, fps.scale, timeScale)
              /\ GiveTimes(CalcSampleTimes(ranges, timeScale'))
              /\ rates' = [ranges |-> ranges, scale |-> fps.scale]
    /\ UNCHANGED <<boxes, ctsIndex, initialDelay, options, loop, runs>>

SetTimeCodes(list) ==
    /\ pc = "loaded"
    /\ IF Len(list.times) # LastSlot + 1
       THEN /\ pc' = "failed"
            /\ UNCHANGED <<times, timeScale, asked, rates>>
       ELSE /\ GiveTimes([i \in Slots |->
                 (2 * list.times[i + 1] + Fraction) \div (2 * Fraction)])
            /\ timeScale' = list.scale
            /\ rates' = NoRates
    /\ UNCHANGED <<boxes, ctsIndex, initialDelay, options, loop, runs>>

\* execute() without -t and -r: the times the track has, from its first frame
KeepTimeCodes ==
    /\ pc = "loaded"
    /\ compressDTS \/ audioDelay # 0
    /\ GiveTimes([n \in Slots |-> cts[n] - cts[0]])
    /\ rates' = NoRates
    /\ UNCHANGED <<boxes, ctsIndex, timeScale, initialDelay, options, loop,
                   runs>>

-----------------------------------------------------------------------------
(* AdjustTimeCodes, from one loop to the next *)

Unadjusted == UNCHANGED <<boxes, ctsIndex, timeScale, options, history>>

BeginAdjust ==
    /\ pc = "timed"
    /\ pc' = IF compressDTS /\ audioDelay < 0 THEN "delayCTS" ELSE "rebase"
    /\ UNCHANGED <<times, initialDelay, loop>>
    /\ Unadjusted

DelayCTS ==
    /\ pc = "delayCTS"
    /\ \/ /\ \/ Ctsf!EnterDelay(-AudioDelayInTimeScale)
             \/ Ctsf!RaiseFactor \/ Ctsf!FixFactor \/ Ctsf!DelayFrame
          /\ pc' = "delayCTS"
       \/ Ctsf!DelayTail /\ pc' = "delayDTS"
    /\ UNCHANGED <<dts, initialDelay>>
    /\ Unadjusted

DelayDTS ==
    /\ pc = "delayDTS"
    /\ \/ /\ \/ Dtsf!EnterDelay(-AudioDelayInTimeScale)
             \/ Dtsf!RaiseFactor \/ Dtsf!FixFactor \/ Dtsf!DelayFrame
          /\ pc' = "delayDTS"
       \/ Dtsf!DelayTail /\ pc' = "rebase"
    /\ UNCHANGED <<cts, initialDelay>>
    /\ Unadjusted

OffsetCTS(off) == cts' = [n \in Slots |-> cts[n] + off]

\* the first frame displayed is displayed at zero
Rebase ==
    /\ pc = "rebase"
    /\ OffsetCTS(-cts[0])
    /\ pc' = IF compressDTS /\ audioDelay > 0 THEN "compressCTS" ELSE "measure"
    /\ UNCHANGED <<dts, initialDelay, loop>>
    /\ Unadjusted

CompressCTS ==
    /\ pc = "compressCTS"
    /\ \/ /\ Ctsf!EnterCompress(AudioDelayInTimeScale) \/ Ctsf!CompressFrame
          /\ pc' = "compressCTS"
       \/ Ctsf!CompressTail /\ pc' = "measure"
    /\ UNCHANGED <<dts, initialDelay>>
    /\ Unadjusted

\* mutant: the n-th frame displayed taken for the n-th decoded
BugLateness == {dts[n] - cts[n] : n \in Slots}

\* CalcInitialDelay: the longest a frame is decoded after it is displayed
Lateness == {dts[ctsIndex[n]] - cts[n] : n \in Slots}
IsInitialDelay(d) == d >= 0 /\ \A late \in Lateness : late <= d

Measure ==
    /\ pc = "measure"
    /\ \E d \in Lateness \cup {0} :
         /\ IsInitialDelay(d)
         /\ initialDelay' = d
         /\ IF compressDTS
            THEN pc' = "compressDTS" /\ UNCHANGED cts
            ELSE pc' = "adjusted" /\ OffsetCTS(d)
    /\ UNCHANGED <<dts, loop>>
    /\ Unadjusted

CompressDTS ==
    /\ pc = "compressDTS"
    /\ \/ /\ Dtsf!EnterCompress(initialDelay) \/ Dtsf!CompressFrame
          /\ pc' = "compressDTS"
       \/ Dtsf!CompressTail /\ pc' = "remeasure"
    /\ UNCHANGED <<cts, initialDelay>>
    /\ Unadjusted

\* mutant: the delay measured before the decoding times moved is kept
BugRemeasure ==
    /\ pc = "remeasure"
    /\ OffsetCTS(initialDelay)
    /\ pc' = "adjusted"
    /\ UNCHANGED <<dts, loop, initialDelay>>
    /\ Unadjusted

Remeasure ==
    /\ pc = "remeasure"
    /\ \E d \in Lateness \cup {0} :
         /\ IsInitialDelay(d)
         /\ initialDelay' = d
         /\ OffsetCTS(d)
    /\ pc' = "adjusted"
    /\ UNCHANGED <<dts, loop>>
    /\ Unadjusted

-----------------------------------------------------------------------------
\* mutant: offsets written in display order
BugSampleCTS == cts

\* cts of the i-th frame decoded
SampleCTS == [i \in Slots |-> cts[CHOOSE n \in Slots : ctsIndex[n] = i]]

MediaDuration == cts[LastSlot] - cts[0]

\* any edit list there was is dropped; the duration is that of the tkhd
UpdateElst(mediaTime, tkhd) ==
    IF mediaTime # 0
    THEN <<[mediaTime |-> mediaTime, duration |-> tkhd]>>
    ELSE <<>>

\* mutant: the delay of the picture is not cut off again
BugVideoEdit == IF ~ compressDTS /\ audioDelay > 0
                THEN AudioDelayInTimeScale ELSE 0

VideoEdit == initialDelay + (IF ~ compressDTS /\ audioDelay > 0
                             THEN AudioDelayInTimeScale ELSE 0)
AudioEdit(a) == IF ~ compressDTS /\ audioDelay < 0
                THEN InTicks(-audioDelay, audio[a].timeScale) ELSE 0

MdhdIsStale ==
    timeScale # video.timeScale \/ MediaDuration # video.duration

LongestTrack ==
    Max({0, video.tkhd} \cup {audio[a].tkhd : a \in AudioTracks})

DoEditTimeCodes ==
    /\ pc = "adjusted"
    /\ video' = [video EXCEPT
          !.timeScale = IF MdhdIsStale THEN timeScale ELSE @,
          !.duration  = IF MdhdIsStale THEN MediaDuration ELSE @,
          !.stts = UpdateStts(dts),
          !.ctts = IF video.hasCtts THEN UpdateCtts(dts, SampleCTS) ELSE @,
          !.elst = UpdateElst(VideoEdit, video.tkhd)]
    /\ audio' = [a \in AudioTracks |-> [audio[a] EXCEPT
          !.elst = UpdateElst(AudioEdit(a), audio[a].tkhd)]]
    /\ movie' = [movie EXCEPT !.duration =
          IF MdhdIsStale THEN LongestTrack ELSE @]
    /\ pc' = "edited"
    /\ UNCHANGED <<times, ctsIndex, timeScale, initialDelay, options, loop,
                   history>>

-----------------------------------------------------------------------------
(* Saving.  Copying to a new file writes the boxes as they are; closing a  *)
(* file modified in place first finishes every track (mp4track.cpp).       *)

Unmodified == pc = "loaded" /\ ~ compressDTS /\ audioDelay = 0

Saved ==
    /\ pc = "edited" \/ Unmodified
    /\ pc' = "closed"
    /\ runs' = runs + 1
    /\ UNCHANGED <<times, ctsIndex, timeScale, initialDelay, options, loop,
                   asked, rates>>

SaveCopy == Saved /\ UNCHANGED boxes

ToMovieDuration(track) == (track.duration * movie.timeScale) \div track.timeScale

EditTotalDuration(elst) == FoldLeft(LAMBDA sum, e : sum + e.duration, 0, elst)

FinishWrite(track) ==
    [track EXCEPT !.tkhd = IF track.elst = <<>> THEN ToMovieDuration(track)
                           ELSE EditTotalDuration(track.elst)]

SaveInPlace ==
    /\ Saved
    /\ video' = FinishWrite(video)
    /\ audio' = [a \in AudioTracks |-> FinishWrite(audio[a])]
    /\ movie' = [movie EXCEPT !.duration =
          Max({@, video'.tkhd} \cup {audio'[a].tkhd : a \in AudioTracks})]

-----------------------------------------------------------------------------
Adjust == \/ BeginAdjust \/ DelayCTS \/ DelayDTS \/ Rebase
          \/ CompressCTS \/ Measure \/ CompressDTS \/ Remeasure

Next ==
    \/ Open
    \/ \E fps \in FrameRateLists : SetFPS(fps)
    \/ \E list \in TimeCodeLists : SetTimeCodes(list)
    \/ KeepTimeCodes
    \/ Adjust
    \/ DoEditTimeCodes
    \/ SaveCopy \/ SaveInPlace

Spec == Init /\ [][Next]_vars

\* the program is sequential: it takes its next step
FairSpec == Spec /\ WF_vars(Adjust) /\ WF_vars(DoEditTimeCodes)

-----------------------------------------------------------------------------
Editing == {"timed", "delayCTS", "delayDTS", "rebase", "compressCTS",
            "measure", "compressDTS", "remeasure", "adjusted", "edited"}

\* Every variable has its type; the sample tables hold words.
TypeOK ==
    LET Table(t) == \A e \in DOMAIN t : t[e].count \in Nat
                                       /\ t[e].value \in 0 .. Word - 1
    IN  /\ Table(video.stts) /\ Table(video.ctts)
        /\ video.timeScale \in Nat \ {0} /\ video.duration \in Nat
        /\ video.tkhd \in Nat /\ movie.duration \in Nat
        /\ \A a \in AudioTracks : audio[a].tkhd \in Nat
        /\ dts \in [Slots -> Int] /\ cts \in [Slots -> Int]
        /\ ctsIndex \in [Slots -> Slots]
        /\ timeScale \in Nat \ {0} /\ initialDelay \in Nat
        /\ compressDTS \in BOOLEAN /\ audioDelay \in Int
        /\ asked \in [Slots -> Nat]
        /\ pc \in {"closed", "loaded", "failed"} \cup Editing
        /\ runs \in 0 .. MaxRuns

\* the time codes asked for are at least gap ticks apart
Spaced(gap) ==
    /\ timeScale \in Nat
    /\ asked \in [Slots -> Nat]
    /\ \A i \in Frame : asked[i + 1] - asked[i] >= gap

Adjusted == pc \in {"adjusted", "edited"}

(***************************************************************************)
(* AdjustTimeCodes never lets two frames be decoded at the same time or    *)
(* out of order, so no delta UpdateStts writes is zero or negative.  The   *)
(* time of frame 0 is not written: the first delta is the time of frame 1. *)
(***************************************************************************)
DecodeOrder ==
    Adjusted /\ Spaced(2) =>
        dts[1] > 0 /\ \A i \in Frame \ {0} : dts[i] < dts[i + 1]

\* Nor are two frames displayed at the same time or out of their order.
DisplayOrder ==
    Adjusted /\ Spaced(2) => \A n \in Frame : cts[n] < cts[n + 1]

(***************************************************************************)
(* After AdjustTimeCodes every frame is decoded no later than it is        *)
(* displayed (README.rst:144).                                             *)
(***************************************************************************)
DecodedInTime ==
    Adjusted /\ Spaced(1) => \A n \in Slots : dts[ctsIndex[n]] <= cts[n]

\* ... and the delay this costs is the shortest one: the first frame is
\* displayed after exactly that delay, and some frame needs all of it.
ShortestDelay ==
    Adjusted /\ Spaced(1) =>
        /\ cts[0] = initialDelay
        /\ initialDelay > 0 => \E n \in Slots : dts[ctsIndex[n]] = cts[n]

\* Compressing the decoding times of distinct time codes never makes the
\* delay longer (README.rst:166: compression minimizes the CTS delay).
CompressionHelps ==
    [][pc = "remeasure" /\ Spaced(1) => initialDelay' <= initialDelay]_vars

-----------------------------------------------------------------------------
(* What a player makes of the boxes written *)

ReadDTS == LoadDTS(video.stts)
ReadCTS == LoadCTS(ReadDTS, video.hasCtts, video.ctts)

MediaTime(elst) == IF elst = <<>> THEN 0 ELSE elst[1].mediaTime

\* when the n-th frame is seen, the edit list applied
Played(n) == ReadCTS[ctsIndex[n]] - MediaTime(video.elst)

\* how long after the time asked for it that is
Late(n) == Played(n) - (asked[n] - asked[0])

(***************************************************************************)
(* Without -c, sound and picture are offset by the edit lists alone: each  *)
(* frame is seen at the time asked for, less a positive audio delay, and a *)
(* negative one is cut from every audio track.                             *)
(***************************************************************************)
PlainTiming ==
    pc = "edited" /\ ~ compressDTS /\ Spaced(1) =>
        LET early == IF audioDelay > 0 THEN AudioDelayInTimeScale ELSE 0
        IN  /\ \A n \in Frame :
                 asked[0] = 0 \/ ctsIndex[n] # 0 => Late(n) = -early
            /\ \A a \in AudioTracks :
                 MediaTime(audio[a].elst) =
                     InTicks(IF audioDelay < 0 THEN -audioDelay ELSE 0,
                             audio[a].timeScale)

\* the frames are asked for at times no closer than the first two
NoShorterGap ==
    \A i \in Frame : asked[i + 1] - asked[i] >= asked[1] - asked[0]

(***************************************************************************)
(* UpdateStts and UpdateCtts write tables that LoadDTS and LoadCTS read    *)
(* back: no time is lost to the run-length code, to the width of a field,  *)
(* or to the frames left out, and a track without ctts box only loses its  *)
(* composition times when -c has moved them forward.                       *)
(***************************************************************************)
ReadBack ==
    /\ pc = "edited" /\ Spaced(2) /\ asked[0] = 0
    /\ video.hasCtts \/ ~ compressDTS \/ audioDelay <= 0
    => /\ ReadDTS = dts
       /\ \A i \in Frame : ReadCTS[i] = SampleCTS[i]

(***************************************************************************)
(* With -c the picture is moved instead, by no more than the audio delay   *)
(* at any frame and never the wrong way (README.rst:192).                  *)
(***************************************************************************)
ShiftWithinDelay ==
    pc = "edited" /\ compressDTS /\ Spaced(2) /\ asked[0] = 0 /\ NoShorterGap =>
        \A n \in Frame : IF audioDelay > 0
                         THEN Late(n) \in -AudioDelayInTimeScale .. 0
                         ELSE Late(n) \in 0 .. -AudioDelayInTimeScale

\* With -c, the whole delay is reached soon and kept.
DelayReached ==
    LET gap   == asked[1]
        delay == AudioDelayInTimeScale
        size  == IF delay < 0 THEN -delay ELSE delay
    IN  pc = "edited" /\ compressDTS /\ Spaced(2) /\ asked[0] = 0 /\ NoShorterGap
        => \A n \in Frame : asked[n] >= 2 * (gap + size) => Late(n) = -delay

(***************************************************************************)
(* A file that was given time codes two ticks apart is found again with    *)
(* its frames in the order of the run before, however it was saved.        *)
(***************************************************************************)
DisplayOrderKept ==
    [][pc = "closed" /\ runs > 0 /\ Spaced(2) /\ asked[0] = 0
       => ctsIndex' = ctsIndex]_vars

\* Usable time codes, once given, are always written: every loop ends.
AlwaysEdited == pc = "timed" /\ Spaced(1) ~> pc = "edited"

-----------------------------------------------------------------------------
(* Frame rates *)

\* frame rates were given and the time scale computed from them
Computed == pc = "timed" /\ rates.scale = 0

\* consecutive frames of the same range last equally long
Steady ==
    LET ranges == rates.ranges
        First(r) == Frames(SubSeq(ranges, 1, r - 1))
    IN  \A r \in DOMAIN ranges :
          \A i \in First(r) .. First(r) + ranges[r].numFrames - 2 :
             asked[i + 2] - asked[i + 1] = asked[i + 1] - asked[i]

\* the smallest denominator and a common multiple of the numerators, in lowest
\* terms and in integers of any size
Coarsest(ranges) == Min({Lowest(r).denom : r \in Range(ranges)})
Multiple(ranges) ==
    FoldLeft(LAMBDA m, r : m * (Lowest(r).num \div gcd(Lowest(r).num, m)),
             1, ranges)

(***************************************************************************)
(* With -r and the time scale computed by SetFPS, the frames of a range    *)
(* all last the same number of ticks (README.rst:120), if the smallest     *)
(* denominator divides the 100 the scale is refined by, an int holds 100   *)
(* times the common multiple and the movie fits at that scale.             *)
(***************************************************************************)
SteadyRates ==
    LET ranges   == rates.ranges
        coarsest == Coarsest(ranges)
        multiple == Multiple(ranges)
        scale    == IF coarsest < 100 THEN multiple * (100 \div coarsest)
                    ELSE multiple
    IN  /\ Computed
        /\ 100 % coarsest = 0 \/ coarsest >= 100
        /\ scale < IntModulus \div 2
        /\ CalcSampleTimes(ranges, scale)[LastSlot] <= MaxDuration
        => Steady

\* The computed time scale keeps the movie within what a box can hold.
DurationFits == Computed => asked[LastSlot] <= MaxDuration

-----------------------------------------------------------------------------
(* What the documents say and the code does not do *)

\* file_prop.h:205: the movie's duration is the maximum duration of all its
\* tracks, in the time scale of the movie.
MovieIsLongestTrack ==
    pc = "closed" /\ runs > 0 =>
        movie.duration = Max({ToMovieDuration(video)} \cup
                             {ToMovieDuration(audio[a]) : a \in AudioTracks})
=============================================================================
