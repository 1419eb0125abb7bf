------------------------------- MODULE Execute -------------------------------
(***************************************************************************)
(* The driver, main.cpp: main1 reads the command line option by option,    *)
(* execute() opens the movie and decides by the options where the times of *)
(* its frames come from, and the track editor is given frame rates or time *)
(* codes.  What the editor makes of them is TrackEditor, what happens to   *)
(* the files is FileCopy and InPlaceEdit.                                  *)
(***************************************************************************)
EXTENDS AudioDeltas

CONSTANTS
    CommandLines,   \* sequences of options [ch, arg]
    TimeCodeFiles,  \* what the file named "codes" may hold before the first run
    MaxRuns         \* how many times the program is run

VARIABLES
    args,       \* the options not read yet
    opt,        \* the other members of Option
    texts,      \* the lines of the time code files there are, by name
    lines,      \* those of the open file not read yet
    given,      \* what the editor was given last
    pc,
    runs,       \* history: runs begun
    command,    \* history: all options of this run
    printed     \* history: the name of the file written by -p, if any

codes == <<timecodes, timeScale, averages, grouping>>
input == <<args, texts, lines>>
vars  == <<codes, movie, fixing, input, opt, given, pc, runs, command, printed>>

NoFile  == "none"
Names   == {"codes", "other"}
Skipped == -1           \* a comment, or a line that holds no number
Missing == <<-2>>       \* there is no such file

ASSUME MaxRunsAssumption == MaxRuns \in Nat \ {0}

ASSUME TimeCodeFilesAssumption ==
    \A t \in TimeCodeFiles : t \in Seq(Int)

Arguments == UNION {{line[k] : k \in DOMAIN line} : line \in CommandLines}

ASSUME CommandLinesAssumption ==
    /\ CommandLines \subseteq Seq(Arguments)
    /\ \A c \in Arguments :
          /\ c.ch \in {"i", "o", "p", "t", "r", "x", "c", "d", "A", "T"}
          /\ c.ch \in {"p", "t"} => c.arg \in Names
          /\ c.ch \in {"A", "T"} => c.arg \in Int

NoOptions ==
    [inplace |-> FALSE, printOnly |-> FALSE, dst |-> FALSE,
     timecodeFile |-> NoFile, ranges |-> <<>>, compressDTS |-> FALSE,
     optimizeTimecode |-> FALSE, audioDelay |-> 0, audioTimeDelta |-> 0,
     requestedTimeScale |-> 0]

\* audio is the new table of the audio track
Nothing == [ranges |-> <<>>, codes |-> <<>>, by |-> Ratio(1, 1), scale |-> 0,
            audio |-> <<>>]

Init ==
    /\ movie \in Movies
    /\ texts \in {[n \in Names |-> IF n = "codes" THEN t ELSE Missing] :
                     t \in TimeCodeFiles}
    /\ args \in CommandLines /\ command = args
    /\ opt = NoOptions
    /\ timecodes = <<>> /\ timeScale = 1000 /\ averages = <<>> /\ NoGroups
    /\ fixing = NotFixing /\ lines = <<>> /\ given = Nothing
    /\ pc = "getopt"
    /\ runs = 1 /\ printed = NoFile

Kept == UNCHANGED <<movie, runs, command, printed>>

-----------------------------------------------------------------------------
(* main1 *)

\* mutant: the unsigned number of -T is not read as a signed one
BugStore(o, c) ==
    CASE c.ch = "i" -> [o EXCEPT !.inplace = TRUE]
      [] c.ch = "o" -> [o EXCEPT !.dst = TRUE]
      [] c.ch = "p" -> [o EXCEPT !.printOnly = TRUE, !.timecodeFile = c.arg]
      [] c.ch = "t" -> [o EXCEPT !.timecodeFile = c.arg]
      [] c.ch = "r" -> [o EXCEPT !.ranges = Append(@, c.arg)]
      [] c.ch = "x" -> [o EXCEPT !.optimizeTimecode = TRUE]
      [] c.ch = "c" -> [o EXCEPT !.compressDTS = TRUE]
      [] c.ch = "d" -> [o EXCEPT !.audioDelay = c.arg]
      [] c.ch = "A" -> [o EXCEPT !.audioTimeDelta = c.arg]
      [] c.ch = "T" -> [o EXCEPT !.requestedTimeScale = c.arg]

\* one option is stored; later ones take the place of earlier ones, except -r
Store(o, c) ==
    CASE c.ch = "i" -> [o EXCEPT !.inplace = TRUE]
      [] c.ch = "o" -> [o EXCEPT !.dst = TRUE]
      [] c.ch = "p" -> [o EXCEPT !.printOnly = TRUE, !.timecodeFile = c.arg]
      [] c.ch = "t" -> [o EXCEPT !.timecodeFile = c.arg]
      [] c.ch = "r" -> [o EXCEPT !.ranges = Append(@, c.arg)]
      [] c.ch = "x" -> [o EXCEPT !.optimizeTimecode = TRUE]
      [] c.ch = "c" -> [o EXCEPT !.compressDTS = TRUE]
      [] c.ch = "d" -> [o EXCEPT !.audioDelay = c.arg]
      [] c.ch = "A" -> [o EXCEPT !.audioTimeDelta = c.arg]
      [] c.ch = "T" -> [o EXCEPT !.requestedTimeScale = AsInt(c.arg)]

GetOpt ==
    /\ pc = "getopt" /\ args # <<>>
    /\ opt' = Store(opt, Head(args))
    /\ args' = Tail(args)
    /\ UNCHANGED <<codes, fixing, texts, lines, given, pc>> /\ Kept

CheckOptions ==
    /\ pc = "getopt" /\ args = <<>>
    /\ pc' = IF ~ opt.printOnly /\ ~ opt.inplace /\ ~ opt.dst THEN "usage"
             ELSE IF /\ ~ opt.printOnly
                     /\ opt.timecodeFile # NoFile /\ opt.ranges # <<>>
             THEN "exclusive"
             ELSE "execute"
    /\ UNCHANGED <<codes, fixing, input, opt, given>> /\ Kept

-----------------------------------------------------------------------------
(* execute *)

\* mutant: -x alone does not count
BugModified ==
    \/ opt.compressDTS \/ opt.audioDelay # 0 \/ opt.ranges # <<>>
    \/ timecodes # <<>> \/ opt.requestedTimeScale > 0 \/ opt.audioTimeDelta > 0

modified ==
    \/ opt.compressDTS \/ opt.audioDelay # 0 \/ opt.ranges # <<>>
    \/ timecodes # <<>> \/ opt.optimizeTimecode
    \/ opt.requestedTimeScale > 0 \/ opt.audioTimeDelta > 0

\* where the times come from; a movie without a video track is refused
Begin ==
    /\ pc = "execute"
    /\ pc' = IF movie.cts = <<>> THEN "failed"
             ELSE IF opt.printOnly THEN "print"
             ELSE IF opt.ranges # <<>> THEN "SetFPS"
             ELSE IF opt.timecodeFile # NoFile THEN "load"
             ELSE IF ~ modified THEN "save"
             ELSE IF opt.audioTimeDelta > 0 THEN "fix"
             ELSE "keep"
    /\ UNCHANGED <<codes, fixing, input, opt, given>> /\ Kept

\* mutant: the times are not counted from the first frame
BugPrinted == <<Skipped>> \o
    [i \in 1 .. FrameCount |-> (1000 * Fraction * movie.cts[i]) \div movie.scale]

\* a header line, and the time of every frame in milliseconds
Printed == <<Skipped>> \o
    [i \in 1 .. FrameCount |->
        (1000 * Fraction * (movie.cts[i] - movie.cts[1])) \div movie.scale]

PrintTimeCodes ==
    /\ pc = "print"
    /\ texts' = [texts EXCEPT ![opt.timecodeFile] = Printed]
    /\ printed' = opt.timecodeFile
    /\ pc' = "printed"
    /\ UNCHANGED <<codes, movie, fixing, args, lines, opt, given, runs,
                   command>>

\* the file cannot be written
PrintFails ==
    /\ pc = "print"
    /\ pc' = "failed"
    /\ UNCHANGED <<codes, fixing, input, opt, given>> /\ Kept

-----------------------------------------------------------------------------
(* Time code files *)

Load ==
    /\ pc = "load"
    /\ LET text == texts[opt.timecodeFile]
       IN  IF text = Missing THEN pc' = "failed" /\ UNCHANGED lines
           ELSE pc' = "parse" /\ lines' = text
    /\ UNCHANGED <<codes, fixing, args, texts, opt, given>> /\ Kept

\* one more code than there are frames is wanted, and no line is read after it
\* mutant: one more
BugWanted == FrameCount + 2
Wanted == FrameCount + 1
Reading == pc = "parse" /\ Len(timecodes) < Wanted /\ lines # <<>>

\* mutant: a code that repeats the one before it is taken
BugTaken(code) == timecodes # <<>> => code >= Last(timecodes)

Taken(code) == timecodes # <<>> => code > Last(timecodes)

ParseLine ==
    /\ Reading
    /\ lines' = Tail(lines)
    /\ IF Head(lines) = Skipped THEN UNCHANGED <<timecodes, pc>>
       ELSE IF Taken(Head(lines))
       THEN timecodes' = Append(timecodes, Head(lines)) /\ UNCHANGED pc
       ELSE pc' = "failed" /\ UNCHANGED timecodes
    /\ UNCHANGED <<timeScale, averages, grouping, fixing, args, texts, opt, given>>
    /\ Kept

\* mutant: the last frame lasts as long as all frames before it
BugCompleted ==
    IF Len(timecodes) = Wanted - 1 /\ Len(timecodes) >= 2
    THEN Append(timecodes, 2 * Last(timecodes) - Head(timecodes))
    ELSE timecodes

\* only the end is missing: the last frame lasts as long as the one before it
Completed ==
    IF Len(timecodes) = Wanted - 1 /\ Len(timecodes) >= 2
    THEN Append(timecodes, 2 * Last(timecodes) - timecodes[Len(timecodes) - 1])
    ELSE timecodes

Average == IF opt.optimizeTimecode THEN "average" ELSE "rescale"

ParseEnd ==
    /\ pc = "parse" /\ ~ Reading
    /\ IF timecodes = <<>>
       THEN pc' = "failed" /\ UNCHANGED timecodes
       ELSE pc' = Average /\ timecodes' = Completed
    /\ UNCHANGED <<timeScale, averages, grouping, fixing, input, opt, given>>
    /\ Kept

-----------------------------------------------------------------------------
(* Without a time code file *)

\* the times the frames have, from the first one on
KeepTimes ==
    /\ pc = "keep"
    /\ timecodes' = [i \in DOMAIN movie.cts |-> Fraction * (movie.cts[i] - movie.cts[1])]
    /\ timeScale' = movie.scale
    /\ pc' = Average
    /\ UNCHANGED <<averages, grouping, fixing, input, opt, given>> /\ Kept

\* without an audio track -A is refused
BeginFix ==
    /\ pc = "fix"
    /\ IF movie.audio = <<>> THEN pc' = "failed" /\ UNCHANGED fixing
       ELSE pc' = "fixing" /\ EnterFix
    /\ UNCHANGED <<codes, input, opt, given>> /\ Kept

Fix ==
    /\ pc = "fixing"
    /\ FixCode(opt.audioTimeDelta) \/ NextSample
    /\ UNCHANGED <<codes, input, opt, given, pc>> /\ Kept

EndFix ==
    /\ pc = "fixing" /\ ~ Fixing
    /\ timecodes' = FixedCodes
    /\ timeScale' = movie.scale
    /\ given' = [given EXCEPT !.audio = StaticAudio(opt.audioTimeDelta)]
    /\ pc' = Average
    /\ UNCHANGED <<averages, grouping, fixing, input, opt>> /\ Kept

-----------------------------------------------------------------------------
(* Averaging, and what the track editor is given *)

EnterAverage ==
    /\ pc = "average"
    /\ BeginAverage
    /\ pc' = "group"
    /\ UNCHANGED <<timecodes, timeScale, averages, fixing, input, opt, given>>
    /\ Kept

GroupDelta ==
    /\ pc = "group"
    /\ Group
    /\ UNCHANGED <<timecodes, timeScale, averages, fixing, input, opt, given, pc>>
    /\ Kept

LeaveAverage ==
    /\ pc = "group"
    /\ EndAverage
    /\ pc' = "convert"
    /\ UNCHANGED <<timeScale, fixing, input, opt, given>> /\ Kept

\* all groups are close to a well-known rate, or none is exchanged for one
ConvertToExactRanges ==
    /\ pc = "convert"
    /\ IF AllWellKnown
       THEN opt' = [opt EXCEPT !.ranges = ExactRanges] /\ pc' = "SetFPS"
       ELSE pc' = "rescale" /\ UNCHANGED opt
    /\ UNCHANGED <<codes, fixing, input, given>> /\ Kept

\* the editor refuses frame rates for more or fewer frames than there are
SetFPS ==
    /\ pc = "SetFPS"
    /\ LET ranges == NormalizeFPSRange(opt.ranges, FrameCount)
       IN  IF Frames(ranges) % IntModulus # FrameCount
           THEN pc' = "failed" /\ UNCHANGED given
           ELSE /\ given' = [given EXCEPT !.ranges = ranges,
                                          !.scale = opt.requestedTimeScale]
                /\ pc' = "save"
    /\ UNCHANGED <<codes, fixing, input, opt>> /\ Kept

\* rescaleTimecode, and the editor refuses too many or too few codes
SetTimeCodes ==
    /\ pc = "rescale"
    /\ IF Len(timecodes) # Wanted
       THEN pc' = "failed" /\ UNCHANGED <<given, timeScale>>
       ELSE LET s == ScaleFor(timecodes, opt.requestedTimeScale, movie.scale)
            IN  /\ timeScale' = ScaledTimeScale(s)
                /\ given' = [given EXCEPT !.codes = timecodes, !.by = s,
                                          !.scale = timeScale']
                /\ pc' = "save"
    /\ UNCHANGED <<timecodes, averages, grouping, fixing, input, opt>> /\ Kept

Save ==
    /\ pc = "save"
    /\ pc' = IF modified THEN "edited" ELSE "copied"
    /\ UNCHANGED <<codes, fixing, input, opt, given>> /\ Kept

Ended == pc \in {"usage", "exclusive", "failed", "printed", "copied", "edited"}

\* the program is run again on the same movie, unless that has been edited
Again ==
    /\ Ended /\ runs < MaxRuns
    /\ ~ (pc = "edited" /\ opt.inplace)
    /\ args' \in CommandLines /\ command' = args'
    /\ opt' = NoOptions
    /\ timecodes' = <<>> /\ timeScale' = 1000 /\ averages' = <<>> /\ ForgetGroups
    /\ fixing' = NotFixing /\ lines' = <<>> /\ given' = Nothing
    /\ pc' = "getopt"
    /\ runs' = runs + 1
    /\ UNCHANGED <<movie, texts, printed>>

Next ==
    \/ GetOpt \/ CheckOptions \/ Begin
    \/ PrintTimeCodes \/ PrintFails
    \/ Load \/ ParseLine \/ ParseEnd
    \/ KeepTimes
    \/ BeginFix \/ Fix \/ EndFix
    \/ EnterAverage \/ GroupDelta \/ LeaveAverage \/ ConvertToExactRanges
    \/ SetFPS \/ SetTimeCodes
    \/ Save \/ Again

Spec == Init /\ [][Next]_vars

-----------------------------------------------------------------------------
Steps == {"getopt", "execute", "print", "load", "parse", "keep", "fix", "fixing",
          "average", "group", "convert", "rescale", "SetFPS", "save"}

\* Every variable has its type; stored options have the type of their member.
TypeOK ==
    /\ timecodes \in Seq(Int) /\ timeScale \in Nat
    /\ \A g \in DOMAIN averages : averages[g].count > 0 /\ averages[g].sum \in Int
    /\ deltas \in Seq(Int) /\ done \in 0 .. Len(deltas) /\ cuts \subseteq 1 .. done
    /\ low \in Int /\ high \in Int
    /\ opt.requestedTimeScale \in -(IntModulus \div 2) .. IntModulus \div 2 - 1
    /\ opt.timecodeFile \in Names \cup {NoFile}
    /\ given.by.num \in Nat \ {0} /\ given.by.den \in Nat \ {0}
    /\ Ended \/ pc \in Steps
    /\ runs \in 1 .. MaxRuns /\ printed \in Names \cup {NoFile}

\* with groups that start there, the i-th and the j-th delta are in one
Together(starts, i, j) == \A c \in starts : c <= i \/ c > j

(***************************************************************************)
(* "each group can hold continuous numbers within [n, n + 1] for some n"   *)
(* (main.cpp:104): no two deltas of a group are further apart than that.   *)
(***************************************************************************)
GroupsWithinOne ==
    \A i, j \in 1 .. done :
        i <= j /\ Together(cuts, i, j) => Distance(deltas[i], deltas[j]) <= 1

(***************************************************************************)
(* Groups are as large as they can be: one ends only before a delta that   *)
(* would not fit.                                                          *)
(***************************************************************************)
GroupsAreMaximal ==
    \A c \in cuts \ {1} :
        \E i \in 1 .. c - 1 :
            Together(cuts, i, c - 1) /\ Distance(deltas[i], deltas[c]) > 1

-----------------------------------------------------------------------------
(* Time code files *)

Stamps(text) ==
    FoldLeft(LAMBDA list, line : IF line = Skipped THEN list ELSE Append(list, line),
             <<>>, text)
Increasing(list) == \A i \in 1 .. Len(list) - 1 : list[i] < list[i + 1]

FromFile == opt.timecodeFile # NoFile
Asked    == Stamps(texts[opt.timecodeFile])
Got      == pc \in {"save", "edited"} /\ given.codes # <<>>

(***************************************************************************)
(* With -t every frame is given the time of its line, wherever comments    *)
(* stand and however many lines follow; the end of the last frame is the   *)
(* next line, or without one the frame lasts as long as the frame before.  *)
(***************************************************************************)
EveryFrameTimed ==
    Got /\ FromFile /\ ~ opt.optimizeTimecode =>
        LET codesGiven == given.codes
            end == IF Len(Asked) > FrameCount THEN Asked[Wanted]
                   ELSE 2 * Asked[FrameCount] - Asked[FrameCount - 1]
        IN  /\ Len(Asked) >= FrameCount
            /\ codesGiven = Append(SubSeq(Asked, 1, FrameCount), end)

(***************************************************************************)
(* A time code file is refused for a reason: it is not there, its codes do *)
(* not increase, or there are too few of them; a single one is too few to  *)
(* tell when a single frame ends.                                          *)
(***************************************************************************)
RefusedForAReason ==
    pc = "failed" /\ movie.cts # <<>> /\ FromFile /\ ~ opt.printOnly =>
        \/ texts[opt.timecodeFile] = Missing
        \/ ~ Increasing(SubSeq(Asked, 1, Min({Wanted, Len(Asked)})))
        \/ Len(Asked) < Max({2, FrameCount})

\* Without -x the editor is given times that increase from frame to frame.
LiteralCodesIncrease ==
    Got /\ FromFile /\ ~ opt.optimizeTimecode => Increasing(given.codes)

(***************************************************************************)
(* What -p prints and -t reads again with -T keep are the times the frames *)
(* had, from the first one on.                                             *)
(***************************************************************************)
PrintedRoundTrip ==
    /\ Got /\ FromFile /\ opt.timecodeFile = printed
    /\ opt.requestedTimeScale < 0 /\ ~ opt.optimizeTimecode
    => \A i \in 1 .. FrameCount :
         given.codes[i] * given.by.num
             = Fraction * (movie.cts[i] - movie.cts[1]) * given.by.den

-----------------------------------------------------------------------------
(* Averages and exact rates *)

\* the time codes -x starts from
Before ==
    IF FromFile
    THEN IF Len(Asked) > FrameCount THEN SubSeq(Asked, 1, Wanted)
         ELSE Append(Asked, 2 * Asked[FrameCount] - Asked[FrameCount - 1])
    ELSE IF opt.audioTimeDelta > 0 THEN FixedCodes
    ELSE [i \in DOMAIN movie.cts |-> Fraction * movie.cts[i]]

\* a second has this many units, of which every well-known rate has a whole
\* number in a frame
Second == 360000

\* when the frame after i others is displayed, with the ranges given
ExactTime(i) ==
    LET frames == FlattenSeq([r \in DOMAIN given.ranges |->
                     [j \in 1 .. given.ranges[r].numFrames |->
                        (given.ranges[r].denom * Second) \div given.ranges[r].num]])
    IN  FoldLeft(LAMBDA a, b : a + b, 0, SubSeq(frames, 1, i))

(***************************************************************************)
(* However -x moves a frame, it stays close to the time it had: averaging  *)
(* moves it by a quarter of its group at most, and rounding by one tick,   *)
(* since every group ends when it did; each exact rate adds at most one    *)
(* tick more over its range, or one in 2048 frames (main.cpp:77).          *)
(***************************************************************************)
OptimizedInSync ==
    pc = "save" /\ opt.optimizeTimecode /\ averages # <<>> =>
        LET largest == Max({averages[g].count : g \in DOMAIN averages})
            Close(i) ==
                IF given.codes # <<>>
                THEN 4 * Distance(given.codes[i + 1], Before[i + 1] - Before[1])
                         <= (largest + 4) * Fraction
                ELSE Distance(ExactTime(i) * timeScale,
                              (Before[i + 1] - Before[1]) * (Second \div Fraction))
                         <= (largest + 4 + 4 * Len(averages)) * (Second \div 4)
                            + (FrameCount * Second) \div 2048
        IN  \A i \in 0 .. FrameCount : Close(i)

(***************************************************************************)
(* Without -T the movie is made short enough for its time scale, and time  *)
(* codes in milliseconds keep their speed.                                 *)
(***************************************************************************)
RescaledInRange ==
    Got /\ opt.requestedTimeScale = 0 =>
        /\ Last(given.codes) * given.by.num <= MaxDuration * Fraction * given.by.den
        /\ FromFile => given.scale * given.by.den = 1000 * given.by.num

-----------------------------------------------------------------------------
(* Options *)

Given(letters) == \E k \in DOMAIN command : command[k].ch \in letters

(***************************************************************************)
(* README.rst:73: with one of -t, -r, -x, -c, -d the time codes are edited *)
(* and otherwise the movie is copied; the editor never adjusts times it    *)
(* has not been given.                                                     *)
(***************************************************************************)
EditedWhenAsked ==
    /\ pc = "copied" => ~ Given({"t", "r", "x", "c"}) /\ opt.audioDelay = 0
    /\ pc = "edited" => /\ Given({"t", "r", "x", "c", "d", "T", "A"})
                        /\ given.codes # <<>> \/ given.ranges # <<>>

-----------------------------------------------------------------------------
(* What the documents say and the code does not do *)

(***************************************************************************)
(* README.rst:110: if every delta is close to a well-known rate, the rates *)
(* are taken; 60000/1001 is the last of the table (main.cpp:67).           *)
(***************************************************************************)
WellKnownRatesTaken ==
    pc = "rescale" /\ averages # <<>> =>
        \E g \in DOMAIN averages :
            \A r \in DOMAIN WellKnown : ~ CloseTo(averages[g], WellKnown[r])

\* when the first i samples of the sound are over, in ticks of the sound
SoundEnd(i) == FoldLeft(+, 0, SubSeq(movie.audio, 1, i))

\* the n-th frame is displayed while the i-th sample of the sound is heard
HeardWith(n, i) ==
    /\ movie.cts[n] * movie.audioScale <= SoundEnd(i) * movie.scale
    /\ i > 1 => movie.cts[n] * movie.audioScale > SoundEnd(i - 1) * movie.scale

(***************************************************************************)
(* main.cpp:445: -A will "modify video timestamps to keep them in sync":   *)
(* a frame displayed while the i-th sample is heard, which now begins at   *)
(* (i - 1) * audioTimeDelta, is displayed during that sample, the one      *)
(* before it or the one after it.                                          *)
(***************************************************************************)
VideoInSync ==
    Got /\ ~ FromFile /\ ~ opt.optimizeTimecode /\ opt.audioTimeDelta > 0 =>
        LET sample == Fraction * opt.audioTimeDelta * movie.scale
        IN  \A n \in DOMAIN movie.cts, i \in DOMAIN movie.audio :
                HeardWith(n, i) =>
                    /\ (i - 2) * sample <= given.codes[n] * movie.audioScale
                    /\ given.codes[n] * movie.audioScale <= (i + 1) * sample
=============================================================================
