# A TLA+ verification of mp4fpsmod

mp4fpsmod changes the frame rate and the time codes of an mp4 movie without
touching its frames: it reads the sample tables of the video track, gives every
frame a new decoding and composition time, writes the tables back, and either
copies the movie to a new file or modifies it in place. This directory models
the parts of the program that decide *which* times are written and *what* ends
up in the destination, checks them with TLC and proves the central facts with
TLAPS.

Paths below are relative to the repository (`src/` in `PROJECT.json` is its
root); `mp4trackx.cpp`, `mp4filex.cpp` and `main.cpp` are in its directory
`src/`, libmp4v2 in `mp4v2/`.

## 1. Inventory

| Component | State | Operations | Modelled by |
|---|---|---|---|
| `TrackEditor` (mp4trackx.cpp) | `m_stts`, `m_ctts`, `m_ctsIndex`, `m_timeScale`, `m_initialDelay`, `m_compressDTS`, `m_audioDelay` | constructor (load), `SetFPS`, `SetTimeCodes`, `AdjustTimeCodes`, `DoEditTimeCodes` | `TrackEditor`, on top of `TimeShift`, `SampleTables`, `FrameRates`, `Rounding` |
| `MP4FileCopy` (mp4filex.cpp) | source and destination handles, next chunk of each track, `m_mvhd_timescale` | `start`, `copyNextChunk`, `finish`, destructor | `FileCopy`, against `Remux` |
| Driver, `execute()` (main.cpp) | the movie, the options, the time codes | reads, edits, copies or closes, reports | `Execute` |
| Command line, `main1` | options | one option after the other; two refusals | `Execute` |
| Time code files and `-x` (main.cpp) | a list of time codes, groups of deltas | `parseTimecodeV2`, `averageTimecode`, `groupbyAdjacent`, `convertToExactRanges`, `rescaleTimecode` | `TimeCodes`, `Execute` |
| Printing (`-p`, main.cpp) | a file that `-t` may read later | `printTimeCodes` | `Execute` |
| Audio deltas (`-A`, main.cpp) | stts of the first audio track, the times of the picture | `fixAudioTimeCodes` | `AudioDeltas`, `Execute` |
| In-place editing (`MP4File::Modify`, `Close`) | the file on disk, the atoms at its top level | making room for moov, `FinishWrite`, `MoveMoovAtomToFront` | `InPlaceEdit` on `AtomFile`, against `MovieOnDisk`; durations in `TrackEditor` |
| Sample and chunk look-up (`MP4Track`) | stts, stsc, stsz, the cached position in stts | `GetChunkTime`, `GetChunkSize`, `GetSampleTimes`, `GetMaxBitrate` | `SampleLookup` |
| Atoms and chunk tables (libmp4v2) | moov, mdat, udta, free atoms | `BeginOptimalWrite`, `FinishOptimalWrite`, `ReadChunk`, `RewriteChunk` | as far as copying and in-place editing need them, in `FileCopy`, `AtomFile` and `SampleLookup` |
| File streams (libplatform) | position, failbit, buffer | open, read, write, close | as far as the copier needs them, in `FileCopy` |
| Error wording, platform shims, the rest of libmp4v2 | | | no: wording, vendored code, or not reached |

**How they interact.** `execute()` opens the movie, constructs a `TrackEditor`
on the video track, calls `SetFPS` or `SetTimeCodes` (with the codes of a `-t`
file, or with the times the track already has when only `-c` or `-d` is given),
then `AdjustTimeCodes` and `DoEditTimeCodes`. The editor writes into the boxes
the `MP4File` holds in memory. Then the `MP4File` is written: by `MP4FileCopy`,
which shares it, swaps its one current file handle between source and
destination and rewrites its chunk offset tables while it still reads through
them; or by `Close`, when the file was opened for modification. The program is
sequential: there are no threads, no messages and no timers.

**What is hard about it.** The arithmetic of the time codes: four loops that run
one after the other on decoding and composition times kept in two different
orders, each stopping at a condition on rounded values; run-length tables with
32-bit fields that hold signed numbers; multiples that overflow an `int`. The
copier: chunks interleaved by times in different scales, a moov atom whose size
is not known until the chunks have moved, 32- and 64-bit variants of tables and
headers, and a failure of any read or write, with a destructor that tries to
finish the file all the same. Editing in place: the file is the only copy of the
movie, and it is changed in three passes (`Modify`, `Close`, and once more when
moov moves to the front) of which any write may be the last. The driver: options
that override each other, a file name shared by two of them, groups of deltas
found with a window that narrows as it goes, and a filter. `PROJECT.json` lists the hazards line by line.

**What makes each component correct.**

* Editor: decoding times and composition times stay in order; no frame is
  decoded after it is displayed; the delay this costs is the shortest; the
  tables written read back as the times computed; the picture is shifted
  against the sound by what `-d` asks for and by no more than that at any
  frame; every loop ends; display order survives a second run; frames of one
  frame-rate range last equally long.
* Copier: chunks are in order of time; the room reserved for moov suffices;
  what is reported as a success can be read back; what is reported as a failure
  has touched nothing, or left a file that can be read as far as it was copied;
  the source is kept.
* Driver: every frame gets the time of its line, or the file is refused for a
  reason; groups of `-x` are as large as they can be and no larger; no frame is
  moved far; what `-p` prints `-t` reads; the movie is edited when that was asked.
* In-place editing: whoever opens the file at any moment finds the old movie, the
  new one, or none, and after a close the new one; media is never touched; editing
  again and again does not make the file grow.
* Look-up: a cached position never changes an answer; every sample is copied once.

## 2. The modules

### Rounding, TimeShift, SampleTables, FrameRates

`Rounding` is the one place where doubles appear: `HalfUp(orig, num, den)` is
`static_cast<int64_t>(orig * scale + 0.5)` with `scale = num / den`. A double is
taken to be the exact rational, except at a tie: there, unless the scale is a
binary fraction, the constant operator `RoundsLow` decides whether the sum of
`0.5` stays below the integer. The proofs assume nothing about `RoundsLow`, so
they hold whichever way each tie falls; TLC runs with "always down". Away from
ties the error of a double (about 1e-16 relative) cannot change the integer for
times below 2^50. Truncation has the same edge: milliseconds in ticks (`InTicks`)
may come out one tick short when the exact product is a whole number, as
9 ms do at 3000 and at 48 000 ticks a second; the constant operator `TicksShort`
says when, and the runs give it the values doubles have.

`TimeShift` has the two loops that move time codes, `CompressTimeCodes` and
`DelayTimeCodes`, one action per turn: `EnterCompress`, `CompressFrame`,
`CompressTail`; `EnterDelay`, `RaiseFactor` and `FixFactor` (the search for a
factor with which the scale is at most `TC_DELAY_SCALE`), `DelayFrame`,
`DelayTail`. In the code both are templates over a functor that returns a
reference to the n-th time code; here the module has the variable `tc` in its
place and is instantiated twice, on composition and on decoding times.

`SampleTables` is the stts and ctts tables, read (`LoadDTS`, `LoadCTS`) and
written (`UpdateStts`, `UpdateCtts`) with run-length entries and fields that are
words modulo `Word`.

`FrameRates` is `SetFPS` before it touches the track: ranges normalised (a range
of zero frames takes the rest), the time scale as the least common multiple of the
numerators (`lcm`, by Euclid's algorithm on an `int` that may be negative once a
multiple has overflowed, so `gcd` has the signs that `%` of C++ gives it), refined
by 100 over the smallest denominator, the sample times, and the search for a
smaller scale in powers of ten kept in 32 bits (`Hundred`). An `int` becomes a
`uint32_t` and back on the way (`Refined`, `CalcSampleTimes`). Three steps are
undefined in C++: the overflow of an `int`, which wraps around here as in the
builds of the usual compilers; the conversion to `int` of a double that is too
large, which gives the constant `TooLargeInt`, the smallest `int` on x86 and the
largest on ARM; and the conversion of a negative double to an unsigned time
(`AsTime`), which wraps around on x86 and gives zero on ARM. The runs take ARM,
where times stay small enough to compute; the proofs cover both.

### TrackEditor

One behaviour is one or more runs of the program on a file. `pc` says how far a
run has come:

    closed -> loaded -> timed -> [delayCTS -> delayDTS] -> rebase -> [compressCTS]
           -> measure -> [compressDTS -> remeasure] -> adjusted -> edited -> closed

| Action | Code |
|---|---|
| `Open` | the constructor of `TrackEditor`: tables to times, `std::sort` of the frames by composition time (any order of equal ones) |
| `SetFPS`, `SetTimeCodes` | the members of that name, called with `-r` and with `-t` |
| `KeepTimeCodes` | `execute()` with `-c` or `-d` alone: the composition times the track has, from zero |
| `BeginAdjust` … `Remeasure` | `AdjustTimeCodes`, cut at its loops |
| `DoEditTimeCodes` | mdhd and mvhd durations, both tables, the edit lists of the video and of every audio track |
| `SaveCopy` | the boxes as they are (the copier never calls `FinishWrite`) |
| `SaveInPlace` | `MP4File::Close`: `MP4Track::FinishWrite` and the durations of tkhd and mvhd |

`dts[n]` is the time of the n-th frame in decoding order, `cts[n]` of the n-th in
display order, `ctsIndex[n]` the frame displayed n-th, as `DTS(n)`, `CTS(n)` and
`m_ctsIndex` in the code. The index `LastSlot` is the extra entry the
constructor appends to know how long the last frame lasts. `asked`, `rates`
and `runs` are history variables, for the properties.

### FileCopy

A file is a set of extents; writing over an extent destroys it (`Put`). `offset`
is the chunk tables of the `MP4File` in memory, which say where a chunk is in
the source until it is copied and where it is in the destination from then on.
Each call that reads or writes has an action in which it succeeds and one in
which it fails, and a failed stream stays failed. The library is compiled as
C++11 (Makefile.am:25), in which an exception that leaves a destructor ends the
program; `Unwind` is the way from a throw through the destructor of the copier
to the handler in `execute()`. A stream that failed refuses what `finish` writes, and
after a failed read the source is still the current file, so most failures end the
program. `TimeFails` does not: `GetChunkTime` and
`MP4ConvertTime` throw while the destination is the current file and no stream has
failed ("sample id out of range", no run in stsc, a time scale of zero). The destructor
then finishes a destination with the chunks copied so far, whose moov still lists the others
at their places in the source, and the failure is reported. The field `timed` of a track
says how many of its chunks come before the first without a time. `FinishUnflushed` is a last write that only fails
when the stream is closed, which `~File` does not report.

`Remux` is the abstract specification: `Take` adds one chunk behind all others, one
that is no later than any still missing, and `Report` ends the program, with success
when all chunks are there, with failure when there are none or when the next chunk of
a track has no time. `FileCopy` implements it
with `made` the chunks that can be found in the destination, `before` their order
there, and `result` from `pc`. The hint-track rule, tables, headers and failures are
`FileCopy`'s own; that none of them loses, repeats or moves a chunk is the refinement.

### InPlaceEdit, AtomFile, MovieOnDisk

`AtomFile` is a file of *cells* of four bytes: a number, a type or payload. It has
the reader of the top level (`ReadAtom`, `ReadAtoms`: 64-bit sizes, sizes that
reach to the end, sizes cut off at the end) and the writer, which returns the list
of writes in their order (`AtomWrites`: size zero, type, data, and back to fill
the size in; the mdat atom with its spare eight bytes). `TypeNames` are the types
there are, of which the code knows moov, mdat and free. `InPlaceEdit` decides in
one action what a step of `Modify` or `Close` writes, and `Write` lets one cell
reach the disk; `Crash` may come between any two, and so may `Fail` and
`PrintOnly`, the ways out of `execute()` that do not close the file.

| Action | Code |
|---|---|
| `Refuse`, `Modify` | `MP4File::Modify`: moov goes to the end of the tree, a free atom in its place, an empty mdat before it |
| `Edit` | what the editor makes of moov: another size, and data of the next version |
| `FinishWrite`, `FinishFails` | `MP4RootAtom::FinishWrite`: the last mdat finished or removed, the atoms behind it written |
| `MoveMoovAtomToFront` | the member of that name, which finishes the root once more |
| `MarkRest`, `Truncate` | the end of `MP4File::FinishWrite` |

`found` is what a reader would find at this moment: the version of the first moov
atom if the file can be read and its data is whole. `MovieOnDisk` is the abstract
specification: four actions, in which a reader finds the old version, the new one
or nothing. `InPlaceEdit` implements it with `saved <- pc \in {"closed",
"refused"}`.

### TimeCodes, AudioDeltas, Execute

`TimeCodes` has `groupbyAdjacent` as an action for each delta (`Group`; the groups
are the positions in `cuts` where one starts), and the other functions on lists
of time codes as operators: `AveragedCode` and `EndAverage`, `CloseTo` and
`ExactRanges`, `ScaleFor`.
Time codes are integers in units of `1 / Fraction` tick. Where a double decides by
an error in its last place, the constants `CloseOnTie` and `ScaleShort` say how; the
run gives them the values doubles have.

`AudioDeltas` is `fixAudioTimeCodes`: `NextSample` and `FixCode` are the outer and
the inner loop, `Smoothed` the filter.

`Execute` extends both. `GetOpt` and `CheckOptions` are `main1`; `Begin` chooses by
the options where the times come from, in the order of the conditions in
`execute()`; `Load`, `ParseLine`, `ParseEnd` read a file line by line;
`PrintTimeCodes` writes the file that a later run may read (`texts`); `SetFPS` and
`SetTimeCodes` record in `given` what the editor is called with. `Again` is another
run on the same movie.

### SampleLookup

The look-ups of `MP4Track` the program reaches: `CopyChunk` asks for the time and
the size of one chunk after the other, as `copyNextChunk` does, and `TakeSample`,
`SlideWindow` and `Record` are `GetMaxBitrate` and the end of `FinishWrite`, sample
by sample. `cached` is the position in stts from which `GetSampleTimes` goes on. Numbers
of samples are unsigned words, so that the first sample of an entry wraps around
(`Reached`, `Holds`, `Time`) in a table whose counts add up to a word or more;
`CountsFit` is said of the others.

## 3. The runs

Every passing run explores its whole state space. The modules `MC…` give the
constants their values.

| Run | Question | Result |
|---|---|---|
| `TrackEditor` | Are the times made by `AdjustTimeCodes` in order, in time, with the shortest delay, and do the tables say what was asked for? | holds, 168 000 states |
| `TrackEditorRerun` | Does a second run of the program, after a copy or after editing in place, find the file as the first meant it? | holds, 333 000 states |
| `FrameRates` | Do frames of one range last equally long, does the movie fit in a box, and do all loops of the editor end? | holds, 94 000 states |
| `FileCopy` | Is a success playable, and what is left after a failure? Is there room for moov? Are chunks copied once and in order, as `Remux` has it? | holds, 21 000 states |
| `InPlaceEdit` | What does a reader find, between any two writes and after any stop? Does the file grow? | holds, 26 000 states |
| `Execute` | Does the editor get what the options and the file ask for? Are groups right, and frames close to where they were? | holds, 67 000 states |
| `SampleLookup` | Are times right whatever is cached, is each sample copied once, is the window of a second what it should be? | holds, 4 900 states |
| `MovieDuration`, `SourceKept`, `HugeMdat`, `WellKnownRates`, `AudioDelta` | what a document or a check in the code says and the code does not do | violated, section 5 |

**Bounds of the editor.** Five frames and the extra entry: two frames may be
reordered past two others with one to spare on each side, and each loop can
break at its first, middle and last frame or not at all. The five files have no
ctts box, positive offsets, negative offsets at a variable rate, a deep
reordering, and a first decoded frame that is not the first displayed. All
sequences of the gaps 2, 3 and 8½ ticks are enumerated (243 lists), besides
lists that do not start at zero, one that is too dense and one too short. The
delays of `-d` (−9, −5, 0, 3 and 9 ms, in scales of 500 to 3000) are shorter
than, about as long as and longer than several gaps, so the floor of the
compression scale and the raising of the delay factor both happen. `Word` is
2^16 in place of 2^32: it only has to be larger than every time in the run.
`TrackEditorRerun` takes fewer lists to afford two runs and two ways to save;
the lists of `FrameRates`, for the loops, take gaps of 1 and 5 ticks.

**Bounds of the frame rates.** `IntModulus` is 2^13 and `MaxDuration` 12 000 so
that multiples of small numerators overflow, at once or when they are refined,
and small movies are too long. The eight rates are taken in
all pairs, with ranges that fill, exceed or leave part of the movie.

**Bounds of the copier.** Offsets are 32-bit up to 200, chunks 4, 30 or 70 bytes
and begin at 30 or 150, so that tables change from stco to co64 and back, in
one track or several, and mdat outgrows its small header. Times tie within a
track, across tracks and across time scales, with and without hint tracks. Either
of two tracks loses the times of all its chunks, or of those behind the first or
second. One operation may fail at any point; a second failure can only be the destructor's.

**Bounds of in-place editing.** Twelve files have moov before, between and behind
the other atoms, free atoms that moov fits exactly, with room, or not at all, a
64-bit mdat header that is needed or not, an empty mdat, no mdat, no moov and two.
An edit gives moov 2, 3, 4 or 6 cells where it had 4, so it shrinks, grows and
stays; three edits follow each other, each meeting what the last has left, moov at the front or the end.
`MaxSize`, the number a cell can hold, is 24 cells; in the passing run no atom is
larger, in `HugeMdat` one is.

**Bounds of the driver.** Movies of up to five frames; files of up to seven lines
with comments first, last and between, too few, just enough and too many codes, a
repeated code, none, and no file; 24 command lines, each option alone and those
that interact (`-p` before `-t`, `-t` with `-T`, `-x` with all sources). Two runs,
since the second may read what the first printed. `MaxDuration` is 1500 so that
a movie is too long by one and two powers of ten. Groups of deltas need four
or five deltas to narrow a window and leave it.

**Bounds of the look-up.** Eight samples in chunks of one to four, one to three
runs in every table, a table that is too short, durations of zero, and samples
longer than a second. `Word` is 512 in place of 2^32, more than the sizes and samples of a
track; one stts has 520 samples, so that the number of the first sample wraps around to
the range of samples the track has.

**Preconditions.** `Spaced(gap)` says that the time codes asked for are at least
`gap` ticks apart. Codes that are not increasing never reach the editor:
`parseTimecodeV2` refuses them, and `SetFPS` makes them from positive rates; but
two codes may round to the same tick or to adjacent ones. The order of the
*decoding* and *composition* times needs a gap of two: with one tick `-c` makes
decoding times go back (section 5). `DecodedInTime`,
`ShortestDelay` and `CompressionHelps` need one. `SteadyRates` leaves out the cases
in which the arithmetic of `CalcTimeScale` cannot do what it is for: a smallest
denominator that does not divide 100 and a refined multiple too large for an `int`
(both in section 5), and a movie too long for the scale, which gets a power of
ten instead. `NoShorterGap` in
`ShiftWithinDelay` and `DelayReached` is there because after a first gap that is
longer than others the scale is wrong for these: the picture runs ahead of the
sound (section 5). The exclusion in `ReadBack` of a track without ctts box
under `-c` with a positive delay is a case the code does not handle: it has
no table to put the composition times in.

**Fairness.** `FairSpec` has weak fairness of `Adjust` and of `DoEditTimeCodes`,
and of nothing else. The program is sequential and waits for nobody between
`AdjustTimeCodes` and `DoEditTimeCodes`, so it takes its next step; that a loop
ends is then a fact about its variables. Nothing is assumed of the user: a
run need not be started, and another not after it.

**Deadlock** is not checked: runs of the program, and the program, end.

**Mutants.** Each property is broken by a plausible bug in the code, written as a
definition `Bug…` before the one it stands for and listed under `mutants`.

## 4. The proofs

Theorems hold for every value of the constants that satisfies the assumptions
named in the modules: files, movies, lists and ranges of any length, any number of
runs. Hypotheses beyond those are part of a theorem's statement, and each stands
for something the code does not guard against; TLC has evaluated each of them in the
states of the passing runs of its module, and what is not said otherwise below holds
in all of them.

| Module | Proves |
|---|---|
| `Induction` | lemmas: induction over an interval, sums, folds, flattening |
| `SampleTablesProofs` | `RunLengthKeepsValues`, `SttsReadBack` |
| `TrackEditorProofs` | `DecodesInOrder`, `DisplaysInOrder`, `DecodesInTime`, `DelaysNoLonger`, `CompressionNeverDelays`, on `Invariance`; `DurationKept`, `SteadyKept` |
| `ReadBackProofs` | `WrittenIsRead`, `PlainTimingKept`, `OrderKept`, `TimesStayDistinct`, `ShiftKeptWithinDelay`, `WholeDelayReached`, `TypesKept` |
| `FileCopyProofs` | `FailureLeavesReadable`, `MoovHasRoom`, `CopyTypes`, `CopiesInOrder`, `SuccessPlays`, `CopyImplementsRemux` |
| `InPlaceEditProofs` | `MediaStays`, `ClosedPlays`, `SlowGrowth`, `TypesRight`, on `Invariance` |
| `ExecuteProofs` | `GroupsHoldNeighbours`, `GroupsAreLargest`, `LiteralCodesAreInOrder`, `FramesGetTheirLines`, `FilesRefusedForAReason`, `EditedForAnOption`, `PrintedIsReadBack`, `ScaleFits`, `AveragedStaysInSync`, `ExecuteTypes` |
| `SampleLookupProofs` | `LookupTypes`, `TimesTold`, `WindowSumKept`, `SteadyRecorded`, `ChunksCoverSamples`, on `LookupInvariance` |

**Induction over data.** Tables, files of time codes and ranges of rates are
sequences, and what the code computes of them is a recursive function or a fold.
The induction theorems of the library take a predicate as a parameter, which the
provers cannot instantiate; a *set* they can: `IntervalInduction` says of a set
that holds `a`, and with `k` its successor up to `b`, that it holds `a .. b`, and
follows from well-foundedness of the natural numbers (`WFMin`). A recursive
function `f` is `CHOOSE g : g = [...]` to the prover, so each use first proves
that there is such a function (`Recursion` builds it value by value) and then has
its equation. With these `Induction` shows what sums, `FoldLeft`, `MapThenFoldSet`
and `FlattenSeq` compute.

### The times (`TrackEditorProofs`)

*The inductive invariant.* The properties speak of the end of
`AdjustTimeCodes`; to be inductive, `Inv` says for each stage what has been
established so far. A time code function on which no compression has run is
`Shifted`: it starts at a natural number and is as far apart as what was asked
for. While `DelayTimeCodes` runs, `DelayLoop` says that the codes before the n-th
are the image of those asked for under the scale and have not yet reached the
whole delay; that they are *that image* and not merely increasing is what shows
that the tail, moved by the whole delay at once, does not land before them
(`DelayTailShifts`). While `CompressTimeCodes` runs, `Squeezed` says that the codes
before the n-th increase, and that the n-th is at least two ticks after some
code whose image is no less than the last code written, less one. The slack of
one is the `if (cur == prev) ++cur` of the code; a scale of one half or more maps
two ticks to one, so the slack never accumulates (`CompressFrameKeeps`). At the
break, the condition `orig - offset >= prev + off * scale` gives the order between
the squeezed part and the tail (`CompressTailOrders`). The facts about `HalfUp`
come first, stated for bounds that hold whichever way ties fall.
`DecodesInTime` then needs no order at all: the last delay measured is at least
every lateness, and all composition times move by it (`DelaySuffices`). That the
delay is the shortest (`Tight`) adds that the maximum is taken: some frame is as late
as the delay measured, and the first composition time is zero until it is added.
Nothing is assumed here of the loaded tables: time codes that are `Spaced` say all
that is needed.

That compression never makes the delay longer holds for time codes that are only
distinct, where order may fail, so it has a weaker invariant of its own in `Inv`:
`Backward` says that the frames from the n-th on are where they were and that the
last one written lies before the n-th. Then no frame of the compressed list is later
than before (`NoLater`), and a delay that was enough (`DelayEnough`) still is. Two
frames that share a tick would refute it: `++cur` puts the second one tick later.

### The frame rates (`TrackEditorProofs`)

`SteadyKept` has no hypothesis. `gcd` divides both numbers whatever their signs
(induction on Euclid's remainder), so a multiple that has not overflowed is
one of each lowest numerator; a scale that is such a multiple, times a whole
refinement, gives every rate a delta that is a whole number of ticks, and the
sum of whole deltas is a whole number that rounding leaves alone. So frames of
equal rates are equally long. If the `int` has overflowed, the property's own
bound on the multiple fails: the fold of `lcm` is at most its exact counterpart.

`DurationKept` says that a movie that gets a computed scale fits its box, whatever
the multiple and its overflows were. All times are multiples of one unit, so a
duration is linear in the scale up to rounding, and the power of ten found is no
larger than the scale that would just fit; when the scale has wrapped to a
negative `int` the search goes down to ten. Ten is the coarsest scale the code
tries, so the hypothesis is `TenTicksFit`: each list of rates fits with ten ticks
a second. A movie for which it fails does not fit, whatever the code does.

### What is written is read (`SampleTablesProofs`, `ReadBackProofs`)

A run-length table expands to the values it was made of (`RunLengthKeepsValues`,
induction on the values: the last entry grows or a new one is appended), and
decoding times that ascend by less than a word come back from stts
(`SttsReadBack`). In `ReadBackProofs`, `Known` says of each stage what the variables
have to do with the file and with the times asked for: `FileInv`, that tables have
one value for every frame; `Course`, that `ctsIndex` is a permutation that orders the
composition times; the delay, the edit lists and the scale of mdhd. Then:

* `WrittenIsRead`: the next reader finds `dts` and `cts` as adjusted.
* `PlainTimingKept`: without `-c` a player shows every frame when it was asked for.
* `OrderKept`: `Found` carries the order of the editor into the file and from there into
  the next run. Time codes two ticks apart are needed, since `-c` may otherwise
  make two frames share a tick, and then the next run may sort them either way;
  `TimesStayDistinct`: under that condition, that no two frames share a time need
  only be assumed of the files as they first are.
* `ShiftKeptWithinDelay`, `WholeDelayReached`: `Path` describes each composition time as
  that asked for, moved by what the loops have done so far. `SqueezeRun` bounds how
  far a compressed frame may be from its old time: the scale makes the first gap
  shorter, and by `NoShorterGap` a later one by no less, so the shift grows until the
  break and is the delay from then on; `DelayRun` is the same for a delay.
* `TypesKept`: the one conjunct that needs an argument is that the media duration is
  a natural number: the last time is never before the first, through every loop
  and rounding (`Ends`).

Hypotheses. `Usable`: the time codes the editor is given increase; two equal first
ones make `DelayTimeCodes` divide by zero, and the result is a NaN. `Distinct`
(`DistinctTimes` of the first file): a run finds no two frames of one composition
time, for `std::sort` leaves these in any order. `TablesFit` (`Fitting`, when tables are
written): deltas fit 32 bits and offsets 31; the code writes them without a check.
`Held`: a positive delay is compressed only into a track that has a ctts box, since
without one composition times are not written. A theorem says `[]` of these and so
speaks of every state up to the first in which they fail. In the runs `Usable` and
`TablesFit` hold in every state, `Distinct` of every file a run begins with and of every
one written but those that `-c` has given times one tick apart, and `Held` of all but
`PlainFile` with `-c` and a positive delay, of which TLC checks the two properties.

### The copier (`FileCopyProofs`)

`MoviesAssumption` says that the times of the chunks of a track do not decrease,
which holds because deltas in stts are unsigned, chunks are not empty, and no two
begin at the same place; it is assumed of the chunks that have a time. The theorems
have invariants of their own. For `FailureLeavesReadable` it says that of an exception
with the destination open: either it has left a current file that refuses the writes of
the destructor (`Writable` is false), so that the program ends, or the next chunk of a
track has no time. In that case the destination is finished as after a success, and the argument
for `SuccessPlays` below says that it can be read back, with the chunks copied. For `MoovHasRoom` it is where mdat starts: `Reserved`, the place it would have if
every table were as wide as it can be, *whichever were wide when the copy began*; the
1024 bytes of `FreeRoom` are not needed for it. For `CopiesInOrder`, the order of
`Remux` said of the bytes, `OrderInv`: the chunks
copied begin no later than `position`, the rest are in the source where the tables
say, and none copied is later than the next of any track; the time of a chunk is a
quotient, and quotients keep order (`Quotients`). That no atom written by `finish` is
a chunk (`AtomsFinished`) is all that is needed of the moov atom. The refinement needs
the three together and `PlaceInv`: the chunks copied are those already taken, and they
lie between the header of mdat and `position`. So a chunk written overwrites none
(`RewriteChunkRemuxes`), and neither do the headers written in the end, which by the
room for moov stay in front of the first chunk (`HeadersClear`). It is stated for a
destination other than the source: the same path is `SourceKept` in section 5.
`CopyTypes` holds of both: types, and that extents of the destination never overlap.
`TypeInv` adds to the types the two invariants above and
that mdat begins where `Reserved` says or later, so that the header `finish` writes has
a place; and a write replaces what it overlaps (`PutAllPlaced`), so that extents stay
apart wherever it falls.

`SuccessPlays` and `FailureLeavesReadable` read the finished file (`Delivered`: closed
after `finish`, whichever way it was reached). While chunks are copied, `Laid` says that the
chunks taken are where the tables in memory say, the last one ends at `position`, and
what `begin` wrote in front of mdat is still there. The writes of `finish` are apart
from each other (`FinishPlaces`), so that none undoes another and ftyp, moov, perhaps
udta, free and mdat follow each other to the end of the file. If the last write was
lost on closing, the atoms of `begin` still do, when moov has kept its size. Atoms
that follow each other are found by the recursion of the reader (`ReachedRead`):
their positions increase, so there are no more of them than extents in the file.

### In-place editing (`InPlaceEditProofs`)

The theorems are about files that are `Sound`: either `Modify` refuses them, or each
of their atoms ends inside the file and says so in its header (no size of zero, none
cut off), moov holds one movie behind a header of 32 bits, no mdat is larger than such
a header can say, and all media data is in an mdat. A size of zero and a larger mdat are where
`Close` goes wrong (section 5); the rest is what a file that plays has. All files of
the run `InPlaceEdit` are sound, that of `HugeMdat` is not. Nothing is
assumed of the order of atoms, of free space, or of the sizes an edit gives to moov.

What the file is like between two writes is not easily said, so the invariant speaks of
the file the writes that are left lead to: `Lays(disk, writes, f, Safe(Media))` says
that they make `f` out of `disk` and fall on no media data. Media data therefore stays
whenever the program stops (`WriteKeeps`). Of `f` it says:

* `Tiles(f, S, s, e)`: the atoms that begin at the positions `S` fill `s .. e`, each
  ending inside the file. `Tiles` are joined, cut and replaced (`TilesJoin`, `TilesCut`,
  `TileReplaced`), and a file filled with them is read as what they are (`FilledRead`).
* `Tree(f, S, list, k, e)`: the first `k` atoms in memory are such tiles, in order,
  with their type and end, and what is not among them is free.
* `Orderly`: none is unreadable, no mdat is too large for its header, every media cell
  is inside an mdat, and what is neither moov nor free ends within the limit `GrowsSlowly` speaks of.
* After `Modify` the last atom in memory is moov and the last of the file an empty mdat
  (`Modified`), or moov is the only atom; while `Close` goes on the tree is `Complete`: one moov,
  whose data is that of the edit; in the end the rest of the file is one free atom
  (`Marked`), so that it makes no difference whether cutting it off succeeds.

That each step of `Modify` and `Close` leads from one to the next is `RoomMade`,
`MdatBegun` and `MdatReused`; `MovieFinished` for the root finished the first time,
by `RowWritten`, which follows atom by atom how they are written one behind the
other, each no further back than it was read; `MoovPlaced`, `MoovMoved` and `FinishedAgain` for moov moved
to the front; and `RestMarked`. A file ready to be edited (`Ready`) is what `Sound` gives in
the beginning and every `Close` in the end, so any number of edits may follow.

### The driver (`ExecuteProofs`)

* `GroupsHoldNeighbours`, `GroupsAreLargest` say of the end what each turn of
  `groupbyAdjacent` must keep. The
  invariant `Grouped` relates the window to the group: while `high - low` is two all
  deltas of the last group equal the one in its middle; once it is one, all are
  `low` or `high` *and both occur* (which maximality needs: whatever does not fit is
  more than one away from the one or the other). `TogetherBefore`, `CutFits` and
  `JoinFits` are the steps.
* `LiteralCodesAreInOrder`: `Literal` follows a list of codes from the first line to
  the editor: it increases while it is read, the code that is added for the end keeps
  it so, and without `-x` nothing changes it before it is given.
* `FramesGetTheirLines`, `FilesRefusedForAReason`: `Parsed` follows the file line by line:
  the codes are those of the lines read so far, comments skipped. That `-x` loses and
  adds no frame is that the frame counts of its groups add up to the number of deltas,
  a sum over a list that grows while it is summed.
* `EditedForAnOption`: why the code decided to edit is remembered from `getopt` to the
  end of the run. `Pictured`: no movie has exactly one composition time, that is no
  frame and the end; `-x` would then have no range to give.
* `PrintedIsReadBack`: `Reread` says that the file printed last still holds what was
  printed and that the time scale of a file is 1000 ticks. `TimesAreExact`: no time
  precedes the first, and milliseconds are exact in units of `1 / Fraction`.
* `ScaleFits`, `ExecuteTypes`: `rescaleTimecode` finds the least power of ten that is
  enough. `Rescalable`: a list of codes has two members and is at most 10^4 times too
  long, the powers the model has. `Scalable`: at most 1000 times, beyond which a scale
  of 1000 becomes less than one, and the last frame does not end before it is shown.
  `ExactScales`: a double divides 1000 by a power of ten without loss. The types let
  deltas be negative: with `-A` and `-x` the codes may be out of order (section 5).

* `AveragedStaysInSync` adds up what `-x` does to a frame. Deltas are rounded so that
  what one loses the next regains (`DeltasSum`), so a frame stays within a tick
  (`RoundingNear`). A group holds two neighbouring numbers, and a part of it is off the
  average most when one half has all the larger ones: a quarter of the group
  (`Quarter`). Averaging therefore moves a frame by no more (`AveragedNear`), and every
  group ends when it did. With exact ranges it does not: `RateBound` is what
  `convertToExactRanges` tolerates of a group, a tick or one part in 2048, and `Drift`
  what it comes to over the groups before a frame (`DriftAtEnds`). The attempt to
  prove the bound without the 2048th failed, since a range of more frames than that may
  drift by more than a tick, longer than any in a run. The invariant `Synced` follows
  the codes from their source to the editor. Hypotheses: codes are in order when
  averaged (`InOrder`; `-A` may break it, section 5), an average is a whole number of
  units (`ExactAverages`, a matter of `Fraction`) and so is a second.

All hypotheses hold in every state of the run `Execute`.

### The look-up (`SampleLookupProofs`)

`LookupInvariance`: the position cached in stts is that of an entry, its time is the sum
over the entries before it and its sample number that sum modulo a word (`Truthful`), and
the chunks copied hold just the samples before the next chunk. `CountsFit`, a part of
the property `TimesTold` is about, makes the sample number the sum itself (`ExactSid`); then a
search that begins at such an entry finds what a search from the start finds, because sums
do not decrease, and the entry found is the one that covers the sample (`Covering`). Types
and the sums of the window need only that the search ends at an entry, and hold of every
table. The window of `GetMaxBitrate` is a sum over an interval that loses its first and
gains its next member; `WindowBytes` is about 32-bit words. `ChunksCoverSamples` is stated
for `ChunksFit`: no chunk has 2^32 bytes, the width of the size the copier asks for.

`SteadyRecorded` compares sums over different windows. If all samples last equally
long, `SteadyWindow` holds: once moved, the window has exactly the `PerSecond` samples
of a second, since it is filled until the next sample would not start in it; and the
maximum so far (`MaxBetween`) is zero or at most the bytes of some second that is past,
and at least those of each such second less the largest sample. The sample that is
interpolated at the edge of the window is why it is no equality: its share of bytes is
between none and all (`ShareBounded`). The hypothesis `SecondsFit` is that the bits of each
second fit the 32-bit field of the rate.

### Only model-checked

That `InPlaceEdit` implements `MovieOnDisk`, which reads the file at every write;
every invariant a run checks is proved. `AlwaysEdited` is liveness under fairness, out of reach of the prover;
that each step has a successor would need ENABLED.

## 5. Where code and documents disagree

The first five have a run in which TLC finds the disagreement.

* `MovieDuration`: a copied movie keeps its old duration in mvhd, which is
  computed from tkhd durations nobody has updated (mp4trackx.cpp:318;
  mp4v2/include/mp4v2/file_prop.h:205).
* `SourceKept`: `-o` naming the source truncates it before it is read
  (mp4filex.cpp:28; README.rst:66).
* `HugeMdat`: with more than 32 bits of media in an mdat behind moov, editing in
  place puts the header of mdat over the end of the new moov (mp4atom.cpp:536;
  mp4v2/include/mp4v2/file.h:94).
* `WellKnownRates`: 60000/1001 is in the table of rates and never compared
  (main.cpp:69; README.rst:110).
* `AudioDelta`: `-A` may put frames far from the sound they are heard with, since each
  follows the one before it at a smoothed distance (main.cpp:315; main.cpp:445). In the
  run the sound needs no change, and the frame shown at 2040 ms gets 472 ms. The filter may
  even put a frame before the one displayed before it.

Others were met on the way, by a property that was first stated without the
exception it now has, or by reading; they have no run of their own.

* The check that is to notice a multiple that has overflowed looks at a remainder,
  which a wrapped product may pass, since it stays divisible by every power of two
  in the last numerator: in ints of 13 bits 129 and 64 give the multiple 64
  (mp4trackx.cpp:172; mp4trackx.cpp:173). `SteadyRates` therefore only speaks of
  multiples that an int holds.
* With time codes one tick apart, `-c` makes decoding times go back, and
  `UpdateStts` writes the negative delta as an unsigned word near 2^32
  (mp4trackx.cpp:230; README.rst:166). Composition times of such codes may become
  equal, and the run after that may sort these frames the other way: in three runs
  TLC finds the display order lost, if the times are not two ticks apart.
* With `-c` and a positive delay at a variable rate the picture runs ahead of the
  sound by more than the delay, since the scale comes from the first gap alone
  (mp4trackx.cpp:228; README.rst:194).
* A first time code other than zero goes into the duration of the first frame, and
  all later frames move against it (mp4trackx.cpp:355; README.rst:112).
* The time scale computed for 7/3 frames per second is truncated to 233, in which
  no frame lasts a whole number of ticks; a multiple above 2^31 / 100 misses the
  same promise (mp4trackx.cpp:179; README.rst:120).
* A top-level udta atom is overwritten by a free atom when moov has not changed
  size (atom_root.cpp:146; README.rst:73).
* `-T n` may give a scale one less than n, since n / 1000 * 1000 is truncated: 1001
  becomes 1000 (main.cpp:191; main.cpp:442).
* `-p` with `-i` leaves the file without a movie if moov was not its last atom, and
  so does any failure after `Modify` (main.cpp:344; README.rst:68). Each edit in
  place of a movie with moov at the end leaves eight bytes of free atom behind.
* An mdat of size zero, which reaches to the end of the file, swallows the moov that
  `Close` appends (mp4atom.cpp:140).
* `-p` and `-t` share one file name: after `-t in -p out` or `-p out -t in` the last
  name is written (main.cpp:483).
* `--static-audio-timedelta` is in the usage and not among the long options;
  `--keep-timescale` is accepted and does nothing (main.cpp:443, 458).
* `GetMaxBitrate` subtracts the part of the last sample that lies inside the second
  where its comment speaks of the part outside, and when the next sample starts
  after the moved second the part is negative in unsigned arithmetic; the recorded
  rate is then too large (mp4track.cpp:838). Movies shorter than a second get 0. The
  4-bit sample sizes of stz2 are told apart by `(sampleId - 1) / 2 == 0` (line 647).
* An stts whose counts add up to 2^32 or more tells wrong times of samples that exist,
  since the number of the first sample of an entry wraps around (mp4track.cpp:1098).
* If the copy fails because a chunk has no time, an unfinished destination is left whose moov
  lists the missing chunks where they are in the source (mp4filex.cpp:63).

## 6. What is not modelled

* Doubles beyond rounding at ties; unsigned 64-bit times that wrap because a
  negative composition offset exceeds the decoding time; tracks without frames;
  tables that disagree on the number of frames; tracks whose first two frames
  have the same composition time (`DelayTimeCodes` would divide by zero).
* Ties in `std::sort` are in the model; in the files of the runs only the extra
  entry can tie.
* Time codes of a `-t` file are multiples of `1 / Fraction` tick; in `TrackEditor` they
  are the constant `TimeCodeLists`, of which the lists `Execute` gives the editor are
  instances. Negative times, with which `rescaleTimecode` does not end, and a movie
  of one time code with `-x`, which has no range to give, are excluded.
* `-x` rounds towards zero, as the conversion to `int` does; a group whose deltas add up
  to less than zero, which only `-A` can make, is not modelled as the code adds them,
  in 64 unsigned bits.
* `-A` with audio samples that last no time: the first one divides by zero.
* An stsc that names more samples than there are: with one size for all samples
  `GetSampleSize` knows no end and the copier goes on, where `SampleLookup` fails.
* Modification times in mvhd, tkhd and mdhd.
* The contents of atoms other than the tables of a track, of which the copier only knows
  the size; iTunes tags, hint tracks, ISMA: none of them reached by the program.
* The time of a chunk is computed afresh where the copier caches it; it depends
  on tables that do not change while the movie is copied.

* Most of libmp4v2, by lines the largest part of the repository: its parser and
  generator of atoms, properties and descriptors, hint tracks, ISMA, iTunes tags, its
  own command line tools and the Windows layer. The program reaches the parser and
  writer of boxes only as a bijection between bytes and the tables the modules
  above have; nothing of the rest is called. The share of lines mapped is small for
  that reason.

## 7. Plan

Done, in this order: the times (`TrackEditor`), the destination (`FileCopy`), proofs
of order, of decoding in time, of the shortest delay and of the copier; in-place editing
(`InPlaceEdit`), the driver (`TimeCodes`, `AudioDeltas`, `Execute`) and proofs about
grouping and literal time codes; the look-up of samples (`SampleLookup`); induction
over data and with it proofs of the look-up, of the tables read back, of the shift
`-c` makes, of the frame rates and of the rest of the driver; proofs of in-place editing.

Left:

1. The refinement of `MovieOnDisk` by `InPlaceEdit`.
2. A composition of `Execute` and `TrackEditor`, in which the codes given are those
   adjusted.
