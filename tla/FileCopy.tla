------------------------------ MODULE FileCopy ------------------------------
(***************************************************************************)
(* MP4FileCopy (mp4filex.cpp) as execute() of main.cpp uses it: a movie    *)
(* that has been read, and perhaps edited, is written to a new file, moov  *)
(* before mdat, with the chunks of all tracks interleaved by time.         *)
(*                                                                         *)
(* The copier swaps the one file handle of MP4File between the source and  *)
(* the destination, and rewrites the chunk offsets of the movie in place:  *)
(* until a chunk is copied its entry says where it is in the source, from  *)
(* then on where it is in the destination.  Every call that reads or       *)
(* writes may fail, so may the search for the time of a chunk, and the     *)
(* destructor of the copier finishes the file whichever way it is left.    *)
(*                                                                         *)
(* A file is a set of extents, the bytes from at to at + size: a chunk of  *)
(* a track, or the start of an atom that claims span bytes.                *)
(***************************************************************************)
EXTENDS Integers, FiniteSets, SequencesExt

CONSTANTS
    Movies,     \* [tracks, scale, udta]; a track is [hint, scale, timed,
                \* chunks], a chunk is [time, size, at]; hint is TRUE of a
                \* hint track; udta is the size of a top-level udta atom, zero
                \* if none; timed is how many chunks come before the first
                \* whose time cannot be told, because stts or stsc does not
                \* reach it or the time scale is zero
    SamePath,   \* whether -o may name the source: a subset of BOOLEAN
    MaxUInt32,  \* 2^32 - 1, the largest 32-bit offset or size
    FreeRoom,   \* 1024, what is reserved for a moov that grows
    FtypSize,   \* size of the ftyp atom
    MoovSize    \* size of the moov atom without chunk offsets

\* the chunks that have a time follow each other in time, and no two chunks are
\* at the same place
IsMovie(m) ==
    LET at(t, c) == m.tracks[t].chunks[c]
    IN  /\ m.scale \in Nat /\ m.udta \in Nat
        /\ Len(m.tracks) \in Nat /\ DOMAIN m.tracks = 1 .. Len(m.tracks)
        /\ \A t \in DOMAIN m.tracks :
              /\ m.tracks[t].scale \in Nat \ {0} /\ m.tracks[t].timed \in Nat
              /\ Len(m.tracks[t].chunks) \in Nat
              /\ DOMAIN m.tracks[t].chunks = 1 .. Len(m.tracks[t].chunks)
              /\ \A c \in DOMAIN m.tracks[t].chunks :
                    /\ at(t, c).time \in Nat /\ at(t, c).at \in Nat
                    /\ at(t, c).size \in Nat \ {0}
                    /\ \A d \in DOMAIN m.tracks[t].chunks :
                          c <= d /\ d <= m.tracks[t].timed
                            => at(t, c).time <= at(t, d).time
                    /\ \A u \in DOMAIN m.tracks :
                         \A d \in DOMAIN m.tracks[u].chunks :
                            at(t, c).at = at(u, d).at => t = u /\ c = d

ASSUME MoviesAssumption    == \A m \in Movies : IsMovie(m)
ASSUME SamePathAssumption  == SamePath \subseteq BOOLEAN
ASSUME MaxUInt32Assumption == MaxUInt32 \in Nat
ASSUME SizesAssumption ==
    FreeRoom \in Nat /\ FtypSize \in Nat \ {0} /\ MoovSize \in Nat \ {0}

VARIABLES
    movie,      \* what MP4File holds in memory, apart from:
    offset,     \* the chunk offset tables
    source, target,     \* the contents of the two files
    same,       \* the destination is the source
    file,       \* MP4File::m_file
    dst,        \* MP4FileCopy::m_dst
    position,   \* of the destination
    current,    \* next chunk of each track
    chunk,      \* the chunk in the buffer
    moov, mdat, \* the atoms as begun: start, size of moov, and the chunk
                \* offsets in the moov atom of the destination
    failed,     \* the streams whose failbit is set
    pc,
    unflushed   \* history: closing the destination lost the last write

disks == <<source, target, same>>
atoms == <<moov, mdat>>
vars  == <<movie, offset, disks, file, dst, position, current, chunk, atoms,
           failed, pc, unflushed>>

Tracks    == DOMAIN movie.tracks
Chunks(t) == DOMAIN movie.tracks[t].chunks
Final(t)  == Len(movie.tracks[t].chunks)
Size(t, c) == movie.tracks[t].chunks[c].size

Atom(kind, at, size, span) ==
    [kind |-> kind, at |-> at, size |-> size, span |-> span, of |-> <<0, 0>>]
ChunkExtent(of, at, size) ==
    [kind |-> "chunk", at |-> at, size |-> size, span |-> 0, of |-> of]

End(e) == e.at + e.size

\* writing over an extent, in part or in full, destroys it: what is left of a
\* disk, and of the writes themselves, is what no later write touches
Apart(e, f) == End(e) <= f.at \/ End(f) <= e.at
Put(disk, e) == {f \in disk : Apart(f, e)} \cup {e}
PutAll(disk, writes) ==
    {f \in disk : \A i \in DOMAIN writes : Apart(f, writes[i])}
    \cup {writes[i] : i \in {j \in DOMAIN writes :
             \A k \in DOMAIN writes : k > j => Apart(writes[j], writes[k])}}

SourceOf(m) ==
    UNION {{LET k == m.tracks[t].chunks[c] IN ChunkExtent(<<t, c>>, k.at, k.size) :
              c \in DOMAIN m.tracks[t].chunks} : t \in DOMAIN m.tracks}

Garbage == <<0, 0>>
Nothing == [track |-> 0, of |-> Garbage]

\* file.Read(opt.src) and, perhaps, an edit; then the copier is constructed
Init ==
    /\ movie \in Movies
    /\ same \in SamePath
    /\ offset = [t \in Tracks |-> [c \in Chunks(t) |->
                                      movie.tracks[t].chunks[c].at]]
    /\ source = SourceOf(movie) /\ target = {}
    /\ file = "src" /\ dst = "none" /\ position = 0
    /\ current = [t \in Tracks |-> 1] /\ chunk = Nothing
    /\ moov = [start |-> 0, size |-> 0, table |-> <<>>]
    /\ mdat = [start |-> 0]
    /\ failed = {} /\ pc = "start" /\ unflushed = FALSE

-----------------------------------------------------------------------------
(* start *)

OpenFails ==
    /\ pc = "start"
    /\ file' = "dst"
    /\ pc' = "unwind"
    /\ UNCHANGED <<movie, offset, disks, dst, position, current, chunk, atoms,
                   failed, unflushed>>

\* MODE_CREATE truncates what was there
OpenTarget ==
    /\ pc = "start"
    /\ file' = "dst" /\ dst' = "dst"
    /\ target' = {}
    /\ source' = IF same THEN {} ELSE source
    /\ pc' = "begin"
    /\ UNCHANGED <<movie, offset, same, position, current, chunk, atoms,
                   failed, unflushed>>

\* a table with an offset that needs it is written as co64, else as stco
Wide(t) == \E c \in Chunks(t) : offset[t][c] > MaxUInt32

\* the entries of all chunk offset tables, of four or of eight bytes
Entries     == UNION {{t} \X Chunks(t) : t \in Tracks}
WideEntries == {e \in Entries : Wide(e[1])}

CurrentMoovSize ==
    MoovSize + 4 * Cardinality(Entries) + 4 * Cardinality(WideEntries)

\* mutant: no room for tables that become co64
BugRoom == FreeRoom

Room == FreeRoom + 4 * Cardinality(Entries \ WideEntries)

MoovAtom(at) == Atom("moov", at, CurrentMoovSize, CurrentMoovSize)

UdtaAtom(at) ==
    IF movie.udta = 0 THEN <<>>
    ELSE <<Atom("udta", at, movie.udta, movie.udta)>>

\* BeginOptimalWrite: the free room and the eight bytes before mdat are not
\* written, apart from the headers of two free atoms
MoovStart == FtypSize
FreeStart == MoovStart + CurrentMoovSize + movie.udta
MdatStart == FreeStart + 8 + Room + 8

BeginOptimalWrite ==
    <<Atom("ftyp", 0, FtypSize, FtypSize), MoovAtom(MoovStart)>>
    \o UdtaAtom(MoovStart + CurrentMoovSize)
    \o <<Atom("free", FreeStart, 8, Room + 8),
         Atom("free", MdatStart - 8, 8, 8),
         Atom("mdat", MdatStart, 8, 0)>>

Begin ==
    /\ pc = "begin"
    /\ target' = PutAll(target, BeginOptimalWrite)
    /\ moov' = [start |-> MoovStart, size |-> CurrentMoovSize,
                table |-> offset]
    /\ mdat' = [start |-> MdatStart]
    /\ position' = MdatStart + 8
    /\ pc' = "copy"
    /\ UNCHANGED <<movie, offset, source, same, file, dst, current, chunk,
                   failed, unflushed>>

\* an exception leaves the block in which the copier lives
Throw(handle) ==
    /\ failed' = failed \cup {handle}
    /\ pc' = "unwind"

\* a write fails: what came before it is in the file; a movie without mdat, for
\* which GetLastMdatIndex throws, ends in the same way, since finish asks again
BeginFails ==
    /\ pc = "begin"
    /\ \E n \in 0 .. Len(BeginOptimalWrite) - 1 :
          target' = PutAll(target, SubSeq(BeginOptimalWrite, 1, n))
    /\ Throw("dst")
    /\ UNCHANGED <<movie, offset, source, same, file, dst, position, current,
                   chunk, atoms, unflushed>>

-----------------------------------------------------------------------------
(* copyNextChunk *)

Left == {t \in Tracks : current[t] <= Final(t)}

\* GetChunkTime and MP4ConvertTime tell the time of the next chunk of each track
Timed == \A t \in Left : current[t] <= movie.tracks[t].timed

\* they throw, while the destination is m_file and no stream has failed
TimeFails ==
    /\ pc = "copy"
    /\ ~ Timed
    /\ pc' = "unwind"
    /\ UNCHANGED <<movie, offset, disks, file, dst, position, current, chunk,
                   atoms, failed, unflushed>>

\* the time of the next chunk of a track, in the time scale of the movie
Time(t) == (movie.tracks[t].chunks[current[t]].time * movie.scale)
               \div movie.tracks[t].scale

Earliest == {t \in Left : \A u \in Left : Time(t) <= Time(u)}
Hints    == {t \in Earliest : movie.tracks[t].hint}

\* mutant: one track after the other
BugIsNext(t) == t \in Left /\ \A u \in Left : t <= u

\* of several tracks the last hint track goes first, or else the first track
IsNext(t) ==
    IF Hints # {} THEN t \in Hints /\ \A u \in Hints : u <= t
    ELSE t \in Earliest /\ \A u \in Earliest : t <= u

\* what the source has at these bytes: in a file truncated meanwhile, anything
BytesAt(at, size) ==
    {e.of : e \in {f \in source : f.at = at /\ f.size = size}}

ReadChunk ==
    /\ pc = "copy"
    /\ Left # {} /\ Timed
    /\ \E t \in Tracks :
          /\ IsNext(t)
          /\ LET found == BytesAt(offset[t][current[t]], Size(t, current[t]))
             IN  chunk' \in [track : {t},
                                of : IF found = {} THEN {Garbage} ELSE found]
    /\ file' = "src"
    /\ pc' = "write"
    /\ UNCHANGED <<movie, offset, disks, dst, position, current, atoms, failed,
                   unflushed>>

\* or the size of the chunk cannot be told, before anything is read
ReadFails ==
    /\ pc = "copy"
    /\ Left # {} /\ Timed
    /\ file' = "src"
    /\ failed' \in {failed, failed \cup {"src"}}
    /\ pc' = "unwind"
    /\ UNCHANGED <<movie, offset, disks, dst, position, current, chunk, atoms,
                   unflushed>>

\* mutant: the chunk is counted twice
BugRewriteChunk ==
    /\ pc = "write"
    /\ file' = dst
    /\ LET t == chunk.track
           c == current[t]
       IN  /\ target' = Put(target, ChunkExtent(chunk.of, position, Size(t, c)))
           /\ offset' = [offset EXCEPT ![t][c] = position]
           /\ position' = position + Size(t, c)
           /\ current' = [current EXCEPT ![t] = c + 2]
    /\ chunk' = Nothing
    /\ pc' = "copy"
    /\ UNCHANGED <<movie, source, same, dst, atoms, failed, unflushed>>

RewriteChunk ==
    /\ pc = "write"
    /\ file' = dst
    /\ LET t == chunk.track
           c == current[t]
       IN  /\ target' = Put(target, ChunkExtent(chunk.of, position, Size(t, c)))
           /\ offset' = [offset EXCEPT ![t][c] = position]
           /\ position' = position + Size(t, c)
           /\ current' = [current EXCEPT ![t] = c + 1]
    /\ chunk' = Nothing
    /\ pc' = "copy"
    /\ UNCHANGED <<movie, source, same, dst, atoms, failed, unflushed>>

WriteFails ==
    /\ pc = "write"
    /\ file' = dst
    /\ Throw("dst")
    /\ UNCHANGED <<movie, offset, disks, dst, position, current, chunk, atoms,
                   unflushed>>

EndOfLoop ==
    /\ pc = "copy"
    /\ Left = {}
    /\ pc' = "finish"
    /\ UNCHANGED <<movie, offset, disks, file, dst, position, current, chunk,
                   atoms, failed, unflushed>>

-----------------------------------------------------------------------------
(* finish, which the destructor calls *)

\* mdat is given its size, in a 16-byte header that also takes the place of
\* the free atom before it when the size needs 64 bits
LargeMdat == position - mdat.start > MaxUInt32

\* mutant: the larger header does not start earlier
BugFinishedMdat ==
    Atom("mdat", mdat.start, IF LargeMdat THEN 16 ELSE 8, position - mdat.start)

FinishedMdat ==
    IF LargeMdat
    THEN Atom("mdat", mdat.start - 8, 16, position - mdat.start + 8)
    ELSE Atom("mdat", mdat.start, 8, position - mdat.start)

\* the udta atom is only written again when the moov atom before it has moved it
Resized == CurrentMoovSize # moov.size
MoovEnd == moov.start + CurrentMoovSize + (IF Resized THEN movie.udta ELSE 0)

\* ASSERT of FinishOptimalWrite
RoomLeft == MoovEnd = FinishedMdat.at \/ FinishedMdat.at - MoovEnd >= 8

FinishOptimalWrite ==
    <<FinishedMdat, MoovAtom(moov.start)>>
    \o (IF Resized THEN UdtaAtom(moov.start + CurrentMoovSize) ELSE <<>>)
    \o (IF FinishedMdat.at > MoovEnd
        THEN <<Atom("free", MoovEnd, 8, FinishedMdat.at - MoovEnd)>> ELSE <<>>)

\* mutant: a stream that has failed is used as if it had not
BugCanFinish == file = dst /\ RoomLeft

\* a failed stream fails again, and the source is open for reading only
CanFinish == file \notin failed /\ file = dst /\ RoomLeft

\* the first n writes reach the file
FinishUpTo(n) ==
    /\ target' = PutAll(target, SubSeq(FinishOptimalWrite, 1, n))
    /\ moov' = IF n >= 2 THEN [moov EXCEPT !.table = offset] ELSE moov
    /\ dst' = "none" /\ file' = "src"
    /\ UNCHANGED <<movie, offset, source, same, position, current, chunk, mdat,
                   failed>>

AllWrites == Len(FinishOptimalWrite)

\* the copier is destroyed, at the end of the loop or by an exception on its way
\* to the handler in execute; with the destination open it is finished
Finishing == pc \in {"finish", "unwind"} /\ dst = "dst"

Reported == IF pc = "finish" THEN "reported success" ELSE "reported failure"

Finish ==
    /\ Finishing /\ CanFinish
    /\ FinishUpTo(AllWrites)
    /\ pc' = Reported
    /\ UNCHANGED unflushed

\* the header of the last free atom is still in the stream's buffer when the
\* destination is closed, and ~File does not ask whether that succeeds
FinishUnflushed ==
    /\ Finishing /\ CanFinish
    /\ FinishedMdat.at > MoovEnd
    /\ FinishUpTo(AllWrites - 1)
    /\ pc' = Reported
    /\ unflushed' = TRUE

\* an exception that leaves a destructor ends the program
FinishFails ==
    /\ Finishing
    /\ \E n \in 0 .. AllWrites - 1 : (n > 0 => CanFinish) /\ FinishUpTo(n)
    /\ pc' = "terminated"
    /\ UNCHANGED unflushed

\* the destination has not been opened
Unwind ==
    /\ pc = "unwind" /\ dst = "none"
    /\ pc' = "reported failure"
    /\ UNCHANGED <<movie, offset, disks, file, dst, position, current, chunk,
                   atoms, failed, unflushed>>

-----------------------------------------------------------------------------
Start  == OpenFails \/ OpenTarget \/ Begin \/ BeginFails
Copy   == \/ TimeFails \/ ReadChunk \/ ReadFails \/ RewriteChunk \/ WriteFails
          \/ EndOfLoop
Leave  == Finish \/ FinishUnflushed \/ FinishFails \/ Unwind

Next == Start \/ Copy \/ Leave
Spec == Init /\ [][Next]_vars

-----------------------------------------------------------------------------
Done == pc \in {"reported success", "reported failure", "terminated"}

TypeOK ==
    /\ movie \in Movies /\ same \in BOOLEAN
    /\ file \in {"src", "dst"} /\ dst \in {"none", "dst"}
    /\ position \in Nat
    /\ \A t \in Tracks : /\ current[t] \in 1 .. Final(t) + 1
                        /\ \A c \in Chunks(t) : offset[t][c] \in Nat
    /\ failed \subseteq {"src", "dst"}
    /\ \A e \in target : e.at \in Nat /\ e.size \in Nat \ {0} /\ e.span \in Nat
    /\ \A e, f \in target : e = f \/ Apart(e, f)
    /\ Done \/ pc \in {"start", "begin", "copy", "write", "finish", "unwind"}

(***************************************************************************)
(* Chunks are copied in the order of their times, whatever their tracks    *)
(* (copyNextChunk): none in the destination is later than one still to be  *)
(* copied, nor than one that follows it.                                   *)
(***************************************************************************)
TimeOf(t, c) == (movie.tracks[t].chunks[c].time * movie.scale)
                    \div movie.tracks[t].scale

IsChunk(e) == e.kind = "chunk"
Copied     == {e \in target : IsChunk(e)}

Interleaved ==
    ~ same =>
      /\ \A e, f \in Copied : e.at < f.at =>
            TimeOf(e.of[1], e.of[2]) <= TimeOf(f.of[1], f.of[2])
      /\ \A e \in Copied : \A t \in Left :
            current[t] <= movie.tracks[t].timed =>
                TimeOf(e.of[1], e.of[2]) <= Time(t)

(***************************************************************************)
(* The room BeginOptimalWrite reserves is enough whichever tables change   *)
(* between stco and co64, and however many chunks have been moved when the *)
(* copier is left: the ASSERT of FinishOptimalWrite holds and moov stays   *)
(* clear of mdat, also when the header of mdat grows.                      *)
(***************************************************************************)
RoomSuffices == Finishing /\ failed = {} => FinishedMdat.at - MoovEnd >= 8

(***************************************************************************)
(* Reading the destination back: atom after atom from the start, and each  *)
(* of some chunks where the table in the moov atom says it is.             *)
(***************************************************************************)
AtomAt(at) == {e \in target : e.span > 0 /\ e.at = at}

AtomsRead ==
    LET reached[n \in 0 .. Cardinality(target)] ==
            IF n = 0 THEN AtomAt(0)
            ELSE reached[n - 1] \cup
                 UNION {AtomAt(e.at + e.span) : e \in reached[n - 1]}
    IN  reached[Cardinality(target)]

Playable(entries) ==
    LET eof == Max({End(e) : e \in target})
    IN  /\ \E e \in AtomsRead : e.at + e.span = eof
        /\ \E a \in AtomsRead : a.kind = "moov"
        /\ \E a \in AtomsRead :
              /\ a.kind = "mdat"
              /\ \A n \in entries :
                    LET e == ChunkExtent(n, moov.table[n[1]][n[2]], Size(n[1], n[2]))
                    IN  /\ e \in target
                        /\ a.at + a.size <= e.at
                        /\ End(e) <= a.at + a.span

\* the last write may have been lost on closing when moov has kept its size
HeadersWhole == ~ same /\ (unflushed => ~ Resized)

(***************************************************************************)
(* Success is only reported of a destination that can be read back, with   *)
(* every chunk of every track; if the last write was lost on closing, then *)
(* at least when the moov atom has kept its size.                          *)
(***************************************************************************)
SuccessIsPlayable ==
    pc = "reported success" /\ HeadersWhole => Playable(Entries)

(***************************************************************************)
(* A failure that is reported to the user has left both files alone, or a  *)
(* chunk has no time.  Then the destructor of the copier has finished the  *)
(* destination: it can be read back, with the chunks before that one.  All *)
(* other failures that follow the opening of the destination end the       *)
(* program in the destructor.                                              *)
(***************************************************************************)
CopiedEntries == {n \in Entries : n[2] < current[n[1]]}

FailureIsReadable ==
    pc = "reported failure" =>
        \/ target = {} /\ source = SourceOf(movie)
        \/ ~ Timed /\ (HeadersWhole => Playable(CopiedEntries))

(***************************************************************************)
(* Whatever fails, the copier puts each chunk of the source once into the  *)
(* destination and in the order of time; none of them is lost again when   *)
(* the headers are written, success is only reported of all of them, and   *)
(* failure of none or of those before one without a time: MP4FileCopy      *)
(* implements Remux.                                                       *)
(***************************************************************************)
Made   == {e.of : e \in Copied}
Before == {<<p[1].of, p[2].of>> :
              p \in {q \in Copied \X Copied : q[1].at < q[2].at}}
Result ==
    CASE pc = "reported success" -> "success"
      [] pc = "reported failure" -> "failure"
      [] pc = "terminated"       -> "ended"
      [] OTHER                   -> "none"

Promise == INSTANCE Remux WITH made <- Made, before <- Before, result <- Result

Remuxes == Promise!Spec

-----------------------------------------------------------------------------
(* What the documents say and the code does not do *)

\* README.rst:66: "In any cases, the original mp4 is kept as it is".
SourceKept == source = SourceOf(movie)
=============================================================================
