----------------------------- MODULE SampleLookup -----------------------------
(***************************************************************************)
(* How libmp4v2 finds its way in the tables of a track (mp4track.cpp) when *)
(* the program saves a movie: the copier asks for the time and the size of *)
(* one chunk after the other, and closing a file that was edited in place  *)
(* slides a window of one second over the samples of a track with an esds  *)
(* box, to record its greatest bit rate.  Both ask for times of samples,   *)
(* which are counted from the entry of stts that was found last.           *)
(***************************************************************************)
EXTENDS SampleTables

CONSTANT Tracks     \* stts; stsc: entries [firstChunk, samples]; chunks, how
                    \* many there are; sizes of the samples; scale

ASSUME TracksAssumption ==
    LET field == 0 .. Word - 1
    IN  \A t \in Tracks :
           /\ t.stts # <<>> /\ t.stts \in Seq([count : field, value : field])
           /\ t.stsc # <<>> /\ t.stsc \in Seq([firstChunk : field, samples : field])
           /\ t.sizes \in Seq(field) /\ Len(t.sizes) + 1 < Word
           /\ t.chunks \in Nat /\ t.scale \in Nat \ {0}

\* the runs of stsc follow each other, as the format has it; the program does
\* not check this, and what its look-up does in any other table is not modelled
ASSUME RunsAssumption ==
    \A t \in Tracks :
       LET n == Len(t.stsc)
           From(i) == t.stsc[i].firstChunk
       IN  /\ From(1) = 1 /\ From(n) <= t.chunks + 1
           /\ \A i \in 1 .. n - 1 : From(i) < From(i + 1)

VARIABLES
    track,
    cached,     \* m_cachedSttsIndex, m_cachedSttsSid, m_cachedSttsElapsed
    asked,      \* history: the last sample asked for, and the time that was told
    chunk,      \* the next chunk to copy
    copied,     \* history: how many bytes have been copied
    window,     \* the locals of GetMaxBitrate
    recorded,   \* bufferSizeDB, maxBitrate and avgBitrate of esds
    pc

vars == <<track, cached, asked, chunk, copied, window, recorded, pc>>

Samples == Len(track.sizes)
LongWord == Word * Word

TotalOf(list) == FoldLeft(LAMBDA a, b : a + b, 0, list)

NothingCached == [index |-> 0, sid |-> 0, elapsed |-> 0]

Init ==
    /\ track \in Tracks
    /\ cached = NothingCached
    /\ asked = [sample |-> 0, time |-> 0]
    /\ chunk = 1 /\ copied = 0
    /\ window = [sid |-> 1, start |-> 1, from |-> 0, bytes |-> 0, lastTime |-> 0,
                 lastSize |-> 0, max |-> 0]
    /\ recorded = <<>>
    /\ pc \in {"copy", "close"}

-----------------------------------------------------------------------------
(* stsc: runs of chunks with equally many samples *)

\* the implicit column firstSample, computed when the box is read
FirstSample ==
    LET first[i \in DOMAIN track.stsc] ==
            IF i = 1 THEN 1
            ELSE first[i - 1] + track.stsc[i - 1].samples
                   * (track.stsc[i].firstChunk - track.stsc[i - 1].firstChunk)
    IN  first

StscIndex(c) ==
    Min({i \in DOMAIN track.stsc : c < track.stsc[i].firstChunk}
        \cup {Len(track.stsc) + 1}) - 1

\* mutant: chunks are counted from the first of the track
BugFirstSampleInChunk(c) ==
    LET i == StscIndex(c)
    IN  FirstSample[i] + (c - 1) * track.stsc[i].samples

FirstSampleInChunk(c) ==
    LET i == StscIndex(c)
    IN  FirstSample[i] + (c - track.stsc[i].firstChunk) * track.stsc[i].samples

LastSampleInChunk(c) ==
    FirstSampleInChunk(c) + track.stsc[StscIndex(c)].samples - 1

ChunkSize(c) ==
    TotalOf(SubSeq(track.sizes, FirstSampleInChunk(c), LastSampleInChunk(c)))
    % Word

-----------------------------------------------------------------------------
(* stts: runs of samples that last equally long *)

\* mutant: sid has more bits than the numbers of samples
BugReached(from, index) ==
    LET at[i \in from.index .. index] ==
            IF i = from.index THEN from
            ELSE LET e == track.stts[i - 1]
                 IN  [index |-> i, sid |-> at[i - 1].sid + e.count,
                      elapsed |-> at[i - 1].elapsed + e.count * e.value]
    IN  at[index]

\* sid and elapsed when the search that starts from an entry is at another; the
\* numbers of samples are unsigned words, the 64 bits of a time are enough
Reached(from, index) ==
    LET at[i \in from.index .. index] ==
            IF i = from.index THEN from
            ELSE LET e == track.stts[i - 1]
                 IN  [index |-> i, sid |-> (at[i - 1].sid + e.count) % Word,
                      elapsed |-> at[i - 1].elapsed + e.count * e.value]
    IN  at[index]

Holds(entry, sample) ==
    sample <= (entry.sid + track.stts[entry.index].count - 1) % Word

\* mutant: a search for an earlier sample goes on at the entry found last
BugSearchFrom(last, sample) ==
    IF last.sid # 0 /\ sample >= last.sid THEN last
    ELSE [index |-> Max({1, last.index}), sid |-> 1, elapsed |-> 0]

\* the entry found last, unless the sample is before it; 0 is no number of a sample
SearchFrom(last, sample) ==
    IF last.sid # 0 /\ sample >= last.sid THEN last
    ELSE [index |-> 1, sid |-> 1, elapsed |-> 0]

Entries(last, sample) ==
    LET from == SearchFrom(last, sample)
    IN  {i \in from.index .. Len(track.stts) : Holds(Reached(from, i), sample)}

InTable(last, sample) == Entries(last, sample) # {}

\* the new cache after GetSampleTimes, and what it tells
Found(last, sample) ==
    Reached(SearchFrom(last, sample), Min(Entries(last, sample)))

Time(entry, sample) ==
    entry.elapsed + ((sample - entry.sid) % Word) * track.stts[entry.index].value

Ask(entry, sample) ==
    /\ cached' = entry
    /\ asked' = [sample |-> sample, time |-> Time(entry, sample)]

-----------------------------------------------------------------------------
(* The copier *)

\* stts and stsz have the samples of the chunk; a stsz with one size for all of
\* them has no end, and a chunk of more samples than the track is copied from it
Complete(c) ==
    /\ InTable(cached, FirstSampleInChunk(c))
    /\ LastSampleInChunk(c) <= Samples

\* copyNextChunk, for this track: GetChunkTime, then ReadChunk
CopyChunk ==
    /\ pc = "copy" /\ chunk <= track.chunks
    /\ Complete(chunk)
    /\ LET first == FirstSampleInChunk(chunk)
       IN  Ask(Found(cached, first), first)
    /\ copied' = copied + ChunkSize(chunk)
    /\ chunk' = chunk + 1
    /\ UNCHANGED <<track, window, recorded, pc>>

\* "sample id out of range", or a value beyond the end of a table
CopyFails ==
    /\ pc = "copy" /\ chunk <= track.chunks
    /\ ~ Complete(chunk)
    /\ pc' = "failed"
    /\ UNCHANGED <<track, cached, asked, chunk, copied, window, recorded>>

CopyEnds ==
    /\ pc = "copy" /\ chunk > track.chunks
    /\ pc' = "copied"
    /\ UNCHANGED <<track, cached, asked, chunk, copied, window, recorded>>

-----------------------------------------------------------------------------
(* GetMaxBitrate, one sample at a time *)

ThisSample == window.sid
ThisEntry  == Found(cached, ThisSample)
ThisTime   == Time(ThisEntry, ThisSample)

Sliding  == pc = "close" /\ ThisSample <= Samples /\ InTable(cached, ThisSample)
InSecond == ThisTime < window.from + track.scale

\* the sample starts within the second
TakeSample ==
    /\ Sliding /\ InSecond
    /\ Ask(ThisEntry, ThisSample)
    /\ window' = [window EXCEPT !.sid = @ + 1,
                                !.bytes = (@ + track.sizes[ThisSample]) % Word,
                                !.lastTime = ThisTime,
                                !.lastSize = track.sizes[ThisSample]]
    /\ UNCHANGED <<track, chunk, copied, recorded, pc>>

\* mutant: the time the last sample starts after the second began
BugOverflow ==
    LET lasts == ThisTime - window.lastTime
    IN  ((window.lastSize * (window.lastTime - window.from) + lasts - 1)
            \div lasts) % Word

\* the share of the last sample that is not counted, rounded up; the time is
\* unsigned and wraps around when the last sample starts after the second
Overflow ==
    LET time == (window.from + track.scale - window.lastTime) % LongWord
        lasts == ThisTime - window.lastTime
    IN  (((window.lastSize * time + lasts - 1) % LongWord) \div lasts) % Word

Counted == IF ThisTime > window.lastTime THEN (window.bytes - Overflow) % Word ELSE 0

\* mutant: the sample that is dropped is the one the next second starts with
BugDropped == window.start + 1
Dropped == window.start

\* it does not: the second is over, and the next one starts one sample later
SlideWindow ==
    /\ Sliding /\ ~ InSecond
    /\ LET next == window.start + 1
           entry == Found(ThisEntry, next)
       IN  /\ InTable(ThisEntry, next)
           /\ Ask(entry, next)
           /\ window' = [sid |-> window.sid + 1, start |-> next,
                         from |-> Time(entry, next),
                         bytes |-> (window.bytes + track.sizes[ThisSample]
                                      - track.sizes[Dropped]) % Word,
                         lastTime |-> ThisTime,
                         lastSize |-> track.sizes[ThisSample],
                         max |-> Max({window.max, Counted})]
    /\ UNCHANGED <<track, chunk, copied, recorded, pc>>

\* Close fails: the movie is longer than its stts
CloseFails ==
    /\ pc = "close" /\ ThisSample <= Samples
    /\ ~ InTable(cached, ThisSample)
    /\ pc' = "failed"
    /\ UNCHANGED <<track, cached, asked, chunk, copied, window, recorded>>

MaxSampleSize == Max(Range(track.sizes) \cup {0})

MediaDuration == TotalOf(Expand(track.stts))

\* ceil, in bits per second
AvgBitrate ==
    IF MediaDuration = 0 THEN 0
    ELSE (TotalOf(track.sizes) * 8 * track.scale + MediaDuration - 1)
             \div MediaDuration

\* FinishWrite
Record ==
    /\ pc = "close" /\ ThisSample > Samples
    /\ recorded' = <<[bufferSize |-> MaxSampleSize,
                      maxBitrate |-> (8 * window.max) % Word,
                      avgBitrate |-> AvgBitrate % Word]>>
    /\ pc' = "closed"
    /\ UNCHANGED <<track, cached, asked, chunk, copied, window>>

Next ==
    \/ CopyChunk \/ CopyFails \/ CopyEnds
    \/ TakeSample \/ SlideWindow \/ CloseFails \/ Record

Spec == Init /\ [][Next]_vars

-----------------------------------------------------------------------------
TypeOK ==
    /\ track \in Tracks
    /\ \/ cached = NothingCached
       \/ /\ cached.index \in DOMAIN track.stts
          /\ cached.sid \in 0 .. Word - 1 /\ cached.elapsed \in Nat
    /\ asked.sample \in 0 .. Samples + 1 /\ asked.time \in Nat
    /\ chunk \in 1 .. track.chunks + 1 /\ copied \in Nat
    /\ window.sid \in 1 .. Samples + 1 /\ window.start \in 1 .. window.sid
    /\ {window.bytes, window.lastSize, window.max} \subseteq 0 .. Word - 1
    /\ window.from \in Nat /\ window.lastTime \in Nat
    /\ Len(recorded) <= 1
    /\ pc \in {"copy", "copied", "close", "closed", "failed"}

\* the samples stts has can be counted in a word
CountsFit == Len(Expand(track.stts)) + 1 < Word

(***************************************************************************)
(* Whatever sample was asked for before, and in whichever order, the time  *)
(* told of a sample (GetSampleTimes) is the sum of all durations before    *)
(* it, unless stts has more samples than can be counted.                   *)
(***************************************************************************)
TimesAsStored ==
    CountsFit /\ asked.sample > 0 =>
        asked.time = LoadDTS(track.stts)[asked.sample - 1]

(***************************************************************************)
(* Chunk by chunk (GetChunkSize), every sample is copied exactly once: the *)
(* bytes copied are those of all samples before the next chunk, and in the *)
(* end those of the track.                                                 *)
(***************************************************************************)
EverySampleCopied ==
    LET End(i) == IF i = Len(track.stsc) THEN track.chunks + 1
                  ELSE track.stsc[i + 1].firstChunk
        counts == FlattenSeq([i \in DOMAIN track.stsc |->
                      [c \in 1 .. End(i) - track.stsc[i].firstChunk |->
                         track.stsc[i].samples]])
    IN  copied = TotalOf(SubSeq(track.sizes, 1,
                                TotalOf(SubSeq(counts, 1, chunk - 1))))

(***************************************************************************)
(* The sum GetMaxBitrate keeps does not drift, however often the window is *)
(* moved: it is the size of the samples from the first of the window on,   *)
(* as an unsigned word.                                                    *)
(***************************************************************************)
WindowBytes ==
    window.bytes =
        TotalOf(SubSeq(track.sizes, window.start, window.sid - 1)) % Word

(***************************************************************************)
(* If all samples last equally long, as option -A makes them, the greatest *)
(* bit rate is that of as many samples as start in a second, less at most  *)
(* one of them.  A second the track ends in is not looked at.              *)
(***************************************************************************)
SteadyMaximum ==
    pc = "closed" /\ Len(track.stts) = 1 /\ track.stts[1].value > 0 =>
        LET delta == track.stts[1].value
            n == (track.scale + delta - 1) \div delta
            seconds == {TotalOf(SubSeq(track.sizes, i, i + n - 1)) :
                           i \in 1 .. Samples - n}
            most == Max(seconds \cup {0})
        IN  /\ recorded[1].maxBitrate <= 8 * most
            /\ recorded[1].maxBitrate >= 8 * (most - MaxSampleSize)
=============================================================================
