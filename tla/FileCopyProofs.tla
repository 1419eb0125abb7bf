---------------------------- MODULE FileCopyProofs ----------------------------
(***************************************************************************)
(* The copier, for every movie and every size: where a failure may end,    *)
(* whether there is room for moov, in which order chunks are copied, that  *)
(* all of this implements Remux, the types of its state, and that a file   *)
(* that is left behind when the end is reported can be read back.          *)
(***************************************************************************)
EXTENDS FileCopy, Induction, FiniteSetTheorems, SequenceTheorems, TLAPS

Untouched == target = {} /\ source = SourceOf(movie)

\* an exception that leaves the copier with the destination open leaves m_file
\* at a stream that refuses the writes of the destructor too, one that has failed
\* or the source, unless it was thrown as a chunk has no time
Writable == file \notin failed /\ file = dst

Inv ==
    /\ dst \in {"none", "dst"}
    /\ pc = "start" => dst = "none" /\ failed = {} /\ Untouched
    /\ pc \in {"begin", "copy", "write", "finish"} => dst = "dst" /\ failed = {}
    /\ pc \in {"begin", "copy", "finish"} => file = "dst"
    /\ pc = "unwind" => IF dst = "none" THEN Untouched
                        ELSE Writable => failed = {} /\ ~ Timed
    /\ pc = "reported failure" => Untouched \/ ~ Timed

LEMMA StartKeeps ==
    ASSUME Inv, Start
    PROVE  Inv'
  <1>1. CASE OpenFails
    BY <1>1 DEF OpenFails, Inv, Untouched, disks
  <1>2. CASE OpenTarget
    BY <1>2 DEF OpenTarget, Inv
  <1>3. CASE Begin
    BY <1>3 DEF Begin, Inv
  <1>4. CASE BeginFails
    BY <1>4 DEF BeginFails, Inv, Throw, Writable
  <1> QED
    BY <1>1, <1>2, <1>3, <1>4 DEF Start

LEMMA CopyKeeps ==
    ASSUME Inv, Copy
    PROVE  Inv'
  <1>1. CASE TimeFails
    <2>1. Timed' = Timed
      BY <1>1 DEF TimeFails, Timed, Left, Tracks, Final
    <2> QED
      BY <1>1, <2>1 DEF TimeFails, Inv
  <1>2. CASE ReadChunk
    BY <1>2 DEF ReadChunk, Inv
  <1>3. CASE ReadFails
    BY <1>3 DEF ReadFails, Inv, Writable
  <1>4. CASE RewriteChunk
    BY <1>4 DEF RewriteChunk, Inv
  <1>5. CASE WriteFails
    BY <1>5 DEF WriteFails, Inv, Throw, Writable
  <1>6. CASE EndOfLoop
    BY <1>6 DEF EndOfLoop, Inv
  <1> QED
    BY <1>1, <1>2, <1>3, <1>4, <1>5, <1>6 DEF Copy

LEMMA LeaveKeeps ==
    ASSUME Inv, Leave
    PROVE  Inv'
  <1>1. CASE Finish \/ FinishUnflushed
    <2>1. /\ movie' = movie /\ current' = current /\ dst' = "none"
          /\ pc' = Reported /\ Finishing /\ Writable
      BY <1>1 DEF Finish, FinishUnflushed, FinishUpTo, CanFinish, Writable
    <2>2. Timed' = Timed
      BY <2>1 DEF Timed, Left, Tracks, Final
    <2> QED
      BY <2>1, <2>2 DEF Inv, Finishing, Reported
  <1>2. CASE FinishFails
    BY <1>2 DEF FinishFails, FinishUpTo, Inv
  <1>3. CASE Unwind
    BY <1>3 DEF Unwind, Inv, Untouched, disks
  <1> QED
    BY <1>1, <1>2, <1>3 DEF Leave

LEMMA StepKeeps ==
    ASSUME Inv, [Next]_vars
    PROVE  Inv'
  <1>1. CASE UNCHANGED vars
    BY <1>1 DEF vars, disks, Inv, Untouched, Writable, Timed, Left, Tracks, Final
  <1> QED
    BY <1>1, StartKeeps, CopyKeeps, LeaveKeeps DEF Next

LEMMA InitKeeps == Init => Inv
  BY DEF Init, Inv, Untouched

-----------------------------------------------------------------------------
(* The room for moov *)

LEMMA TracksOfMovie ==
    ASSUME movie \in Movies
    PROVE  /\ movie.udta \in Nat /\ movie.scale \in Nat
           /\ Len(movie.tracks) \in Nat /\ Tracks = 1 .. Len(movie.tracks)
           /\ \A t \in Tracks : Final(t) \in Nat /\ Chunks(t) = 1 .. Final(t)
  BY MoviesAssumption DEF IsMovie, Tracks, Chunks, Final

LEMMA FiniteTables ==
    ASSUME movie \in Movies
    PROVE  IsFiniteSet(Entries)
  <1> DEFINE Table == [t \in Tracks |-> {t} \X Chunks(t)]
             Tables == {{t} \X Chunks(t) : t \in Tracks}
  <1>1. IsFiniteSet(Tracks)
    BY TracksOfMovie, FS_Interval
  <1>2. Table \in Surjection(Tracks, Tables)
    BY DEF Surjection
  <1>3. IsFiniteSet(Tables)
    BY <1>1, <1>2, FS_Surjection
  <1>4. ASSUME NEW T \in Tables
        PROVE  IsFiniteSet(T)
    <2>1. PICK t \in Tracks : T = {t} \X Chunks(t)
      OBVIOUS
    <2>2. IsFiniteSet({t})
      BY FS_Singleton
    <2>3. IsFiniteSet(Chunks(t))
      <3>1. Final(t) \in Int /\ Chunks(t) = 1 .. Final(t)
        BY TracksOfMovie
      <3>2. IsFiniteSet(1 .. Final(t))
        BY <3>1, FS_Interval
      <3> QED
        BY <3>1, <3>2, Zenon
    <2>4. IsFiniteSet({t} \X Chunks(t))
      BY <2>2, <2>3, FS_Product, Zenon
    <2> QED
      BY <2>1, <2>4, Zenon
  <1> QED
    BY <1>3, <1>4, FS_UNION DEF Entries

\* a table takes four bytes for each of its entries, or eight
LEMMA TableSizes ==
    ASSUME movie \in Movies
    PROVE  /\ Cardinality(Entries) \in Nat
           /\ Cardinality(WideEntries) \in 0 .. Cardinality(Entries)
           /\ Cardinality(Entries \ WideEntries) =
                Cardinality(Entries) - Cardinality(WideEntries)
  <1>1. IsFiniteSet(Entries) /\ WideEntries \in SUBSET Entries
    BY FiniteTables DEF WideEntries
  <1>2. Entries \cap WideEntries = WideEntries
    BY <1>1
  <1>3. Cardinality(Entries) \in Nat
    BY <1>1, FS_CardinalityType
  <1>4. /\ IsFiniteSet(WideEntries)
        /\ Cardinality(WideEntries) <= Cardinality(Entries)
    BY <1>1, FS_Subset
  <1>5. Cardinality(WideEntries) \in Nat
    BY <1>4, FS_CardinalityType
  <1>6. Cardinality(Entries \ WideEntries) =
           Cardinality(Entries) - Cardinality(WideEntries)
    BY <1>1, <1>2, FS_Difference
  <1> QED
    BY <1>3, <1>4, <1>5, <1>6

\* mdat starts where it would if every table became as wide as it can
Reserved == MoovStart + MoovSize + 8 * Cardinality(Entries) + movie.udta
                + FreeRoom + 16

\* BeginOptimalWrite has returned, and no stream has failed since
Begun ==
    \/ pc \in {"copy", "write", "finish"}
    \/ pc = "unwind" /\ dst = "dst" /\ failed = {}

RoomInv ==
    /\ movie \in Movies
    /\ pc = "start" => dst = "none"
    /\ Begun => moov.start = MoovStart /\ mdat.start = Reserved

LEMMA Reserving ==
    ASSUME movie \in Movies
    PROVE  MdatStart = Reserved /\ Reserved \in Nat
  <1>1. /\ Cardinality(Entries) \in Nat
        /\ Cardinality(WideEntries) \in 0 .. Cardinality(Entries)
        /\ Cardinality(Entries \ WideEntries) =
              Cardinality(Entries) - Cardinality(WideEntries)
    BY TableSizes
  <1>2. FtypSize \in Nat /\ MoovSize \in Nat /\ FreeRoom \in Nat /\ movie.udta \in Nat
    BY SizesAssumption, TracksOfMovie
  <1> QED
    BY <1>1, <1>2 DEF MdatStart, FreeStart, MoovStart, CurrentMoovSize, Room, Reserved

LEMMA RoomKeeps ==
    ASSUME RoomInv, [Next]_vars
    PROVE  RoomInv'
  <1>1. movie' = movie
    BY DEF Next, Start, Copy, Leave, vars, OpenFails, OpenTarget, Begin,
       BeginFails, TimeFails, ReadChunk, ReadFails, RewriteChunk, WriteFails,
       EndOfLoop, Finish, FinishUnflushed, FinishFails, Unwind, FinishUpTo
  <1>2. Reserved' = Reserved /\ MoovStart' = MoovStart /\ movie' \in Movies
    BY <1>1 DEF RoomInv, Reserved, MoovStart, Entries, Tracks, Chunks
  <1>3. pc' = "start" => dst' = "none"
    BY DEF RoomInv, Next, Start, Copy, Leave, vars, OpenFails, OpenTarget, Begin,
       BeginFails, Throw, TimeFails, ReadChunk, ReadFails, RewriteChunk,
       WriteFails, EndOfLoop, Finish, FinishUnflushed, FinishFails, Unwind,
       FinishUpTo, Reported
  <1>4. ASSUME Begun'
        PROVE  moov'.start = MoovStart /\ mdat'.start = Reserved
    <2>1. CASE Begin
      BY <2>1, Reserving DEF Begin, RoomInv
    <2>2. CASE ~ Begin
      <3>1. moov' = moov /\ mdat' = mdat /\ Begun
        BY <1>4, <2>2 DEF Begun, RoomInv, Next, Start, Copy, Leave, vars, atoms,
           OpenFails, OpenTarget, BeginFails, Throw, TimeFails, ReadChunk,
           ReadFails, RewriteChunk, WriteFails, EndOfLoop, Finish,
           FinishUnflushed, FinishFails, Unwind, FinishUpTo, Reported
      <3> QED
        BY <3>1 DEF RoomInv
    <2> QED
      BY <2>1, <2>2
  <1> QED
    BY <1>2, <1>3, <1>4 DEF RoomInv

\* the assertion of FinishOptimalWrite
LEMMA RoomForMoov ==
    ASSUME RoomInv, Begun
    PROVE  /\ FinishedMdat.at - MoovEnd >= 8
           /\ FinishedMdat.at \in Int /\ FinishedMdat.at <= mdat.start
           /\ MoovEnd \in Nat /\ CurrentMoovSize \in Nat
  <1>1. moov.start = MoovStart /\ mdat.start = Reserved /\ movie \in Movies
    BY DEF RoomInv
  <1>2. FinishedMdat.at = mdat.start - 8 \/ FinishedMdat.at = mdat.start
    BY DEF FinishedMdat, Atom
  <1>3. /\ Cardinality(Entries) \in Nat
        /\ Cardinality(WideEntries) \in 0 .. Cardinality(Entries)
    BY <1>1, TableSizes
  <1>4. /\ FtypSize \in Nat /\ MoovSize \in Nat /\ FreeRoom \in Nat
        /\ movie.udta \in Nat
    BY <1>1, SizesAssumption, TracksOfMovie
  <1>5. MoovEnd = MoovStart + CurrentMoovSize + movie.udta
        \/ MoovEnd = MoovStart + CurrentMoovSize + 0
    BY <1>1 DEF MoovEnd
  <1>6. mdat.start \in Nat
    BY <1>1, Reserving
  <1> QED
    BY <1>1, <1>2, <1>3, <1>4, <1>5, <1>6 DEF MoovStart, CurrentMoovSize, Reserved

(***************************************************************************)
(* However many chunks a movie has, and whichever of its tables change     *)
(* between 32 and 64 bits while it is copied, what BeginOptimalWrite has   *)
(* reserved takes the moov atom, the udta atom behind it and the larger    *)
(* header of mdat: the ASSERT of FinishOptimalWrite holds.  The 1024 bytes *)
(* it adds are not needed for that.                                        *)
(***************************************************************************)
THEOREM MoovHasRoom == Spec => []RoomSuffices
  <1>1. Init => RoomInv
    BY DEF Init, RoomInv, Begun
  <1>2. RoomInv /\ [Next]_vars => RoomInv'
    BY RoomKeeps
  <1>3. RoomInv => RoomSuffices
    BY RoomForMoov DEF RoomSuffices, Finishing, Begun
  <1> QED
    BY <1>1, <1>2, <1>3, PTL DEF Spec

-----------------------------------------------------------------------------
(* The order of the chunks *)

NoChunks(w) == \A i \in DOMAIN w : ~ IsChunk(w[i])

LEMMA ChunksLeft ==
    ASSUME NEW disk, NEW w, NoChunks(w)
    PROVE  {e \in PutAll(disk, w) : IsChunk(e)} \subseteq {e \in disk : IsChunk(e)}
  BY DEF PutAll, NoChunks

LEMMA FirstWrites ==
    ASSUME NEW S, NEW w \in Seq(S), NEW n \in 0 .. Len(w)
    PROVE  /\ SubSeq(w, 1, n) \in Seq(S)
           /\ \A i \in DOMAIN SubSeq(w, 1, n) : SubSeq(w, 1, n)[i] \in S
  <1>1. \A i \in 1 .. n : w[i] \in S
    BY ElementOfSeq
  <1>2. /\ SubSeq(w, 1, n) \in Seq(S)
        /\ Len(SubSeq(w, 1, n)) = IF 1 <= n THEN n - 1 + 1 ELSE 0
        /\ \A i \in 1 .. n - 1 + 1 : SubSeq(w, 1, n)[i] = w[1 + i - 1]
    BY <1>1, SubSeqProperties
  <1>3. DOMAIN SubSeq(w, 1, n) = 1 .. Len(SubSeq(w, 1, n))
    BY <1>2, LenProperties
  <1> QED
    BY <1>2, <1>3, ElementOfSeq

\* BeginOptimalWrite and FinishOptimalWrite write atoms
BeginAtoms ==
    {Atom("ftyp", 0, FtypSize, FtypSize), MoovAtom(MoovStart),
     Atom("free", FreeStart, 8, Room + 8), Atom("free", MdatStart - 8, 8, 8),
     Atom("mdat", MdatStart, 8, 0)}
    \cup (IF movie.udta # 0
          THEN {Atom("udta", MoovStart + CurrentMoovSize, movie.udta, movie.udta)}
          ELSE {})

LEMMA BeginWrites ==
    /\ BeginOptimalWrite \in Seq(BeginAtoms)
    /\ Len(BeginOptimalWrite) \in Nat
    /\ \A n \in 0 .. Len(BeginOptimalWrite) :
          /\ SubSeq(BeginOptimalWrite, 1, n) \in Seq(BeginAtoms)
          /\ \A i \in DOMAIN SubSeq(BeginOptimalWrite, 1, n) :
                SubSeq(BeginOptimalWrite, 1, n)[i] \in BeginAtoms
  <1> DEFINE a == Atom("ftyp", 0, FtypSize, FtypSize)
             b == MoovAtom(MoovStart)
             c == Atom("free", FreeStart, 8, Room + 8)
             d == Atom("free", MdatStart - 8, 8, 8)
             e == Atom("mdat", MdatStart, 8, 0)
             S == BeginAtoms
             udta == UdtaAtom(MoovStart + CurrentMoovSize)
  <1>1. a \in S /\ b \in S /\ c \in S /\ d \in S /\ e \in S
    BY DEF BeginAtoms
  <1>2. udta = <<>> \/ \E u \in S : udta = <<u>>
    BY DEF UdtaAtom, BeginAtoms
  <1>3. BeginOptimalWrite = <<a, b>> \o udta \o <<c, d, e>>
    BY DEF BeginOptimalWrite
  <1> HIDE DEF a, b, c, d, e, S, udta
  <1>4. <<a, b>> \in Seq(S) /\ udta \in Seq(S) /\ <<c, d, e>> \in Seq(S)
    <2>1. <<a, b>> \in Seq(S)
      BY <1>1
    <2>2. <<c, d, e>> \in Seq(S)
      BY <1>1
    <2>3. (\A u \in S : <<u>> \in Seq(S)) /\ <<>> \in Seq(S)
      OBVIOUS
    <2> QED
      BY <1>2, <2>1, <2>2, <2>3
  <1>5. BeginOptimalWrite \in Seq(S)
    BY <1>3, <1>4, ConcatProperties
  <1>6. Len(BeginOptimalWrite) \in Nat
    BY <1>5, LenProperties
  <1> QED
    BY <1>5, <1>6, FirstWrites DEF S

LEMMA AtomsBegun ==
    /\ Len(BeginOptimalWrite) \in Nat /\ NoChunks(BeginOptimalWrite)
    /\ \A n \in 0 .. Len(BeginOptimalWrite) :
          NoChunks(SubSeq(BeginOptimalWrite, 1, n))
  <1>1. \A e \in BeginAtoms : ~ IsChunk(e)
    BY DEF BeginAtoms, IsChunk, Atom, MoovAtom
  <1>2. NoChunks(BeginOptimalWrite)
    BY <1>1, BeginWrites, LenProperties, ElementOfSeq DEF NoChunks
  <1> QED
    BY <1>1, <1>2, BeginWrites DEF NoChunks

FinishAtoms ==
    {FinishedMdat, MoovAtom(moov.start)}
    \cup (IF Resized /\ movie.udta # 0
          THEN {Atom("udta", moov.start + CurrentMoovSize, movie.udta, movie.udta)}
          ELSE {})
    \cup (IF FinishedMdat.at > MoovEnd
          THEN {Atom("free", MoovEnd, 8, FinishedMdat.at - MoovEnd)} ELSE {})

LEMMA FinishWrites ==
    /\ AllWrites \in Nat \ {0}
    /\ \A n \in 0 .. AllWrites :
          /\ SubSeq(FinishOptimalWrite, 1, n) \in Seq(FinishAtoms)
          /\ \A i \in DOMAIN SubSeq(FinishOptimalWrite, 1, n) :
                SubSeq(FinishOptimalWrite, 1, n)[i] \in FinishAtoms
  <1> DEFINE a == FinishedMdat
             b == MoovAtom(moov.start)
             S == FinishAtoms
             udta == IF Resized THEN UdtaAtom(moov.start + CurrentMoovSize) ELSE <<>>
             free == IF FinishedMdat.at > MoovEnd
                     THEN <<Atom("free", MoovEnd, 8, FinishedMdat.at - MoovEnd)>>
                     ELSE <<>>
  <1>1. a \in S /\ b \in S
    BY DEF FinishAtoms
  <1>2. /\ udta = <<>> \/ \E u \in S : udta = <<u>>
        /\ free = <<>> \/ \E c \in S : free = <<c>>
    BY DEF UdtaAtom, FinishAtoms
  <1>3. FinishOptimalWrite = <<a, b>> \o udta \o free
    BY DEF FinishOptimalWrite
  <1> HIDE DEF a, b, S, udta, free
  <1>4. <<a, b>> \in Seq(S) /\ udta \in Seq(S) /\ free \in Seq(S)
    <2>1. <<a, b>> \in Seq(S)
      BY <1>1
    <2>2. (\A u \in S : <<u>> \in Seq(S)) /\ <<>> \in Seq(S)
      OBVIOUS
    <2> QED
      BY <1>2, <2>1, <2>2
  <1>5. FinishOptimalWrite \in Seq(S)
    BY <1>3, <1>4, ConcatProperties
  <1>6. Len(FinishOptimalWrite) \in Nat \ {0}
    <2>1. /\ Len(<<a, b>>) = 2 /\ Len(udta) \in Nat /\ Len(free) \in Nat
      BY <1>4, LenProperties
    <2>2. <<a, b>> \o udta \in Seq(S)
          /\ Len(<<a, b>> \o udta) = Len(<<a, b>>) + Len(udta)
      BY <1>4, ConcatProperties
    <2>3. Len(FinishOptimalWrite) = Len(<<a, b>>) + Len(udta) + Len(free)
      BY <1>3, <1>4, <2>2, ConcatProperties
    <2> QED
      BY <2>1, <2>3
  <1> QED
    BY <1>5, <1>6, FirstWrites DEF AllWrites, S

LEMMA AtomsFinished ==
    /\ AllWrites \in Nat \ {0}
    /\ \A n \in 0 .. AllWrites : NoChunks(SubSeq(FinishOptimalWrite, 1, n))
  <1>1. \A e \in FinishAtoms : ~ IsChunk(e)
    BY DEF FinishAtoms, IsChunk, Atom, MoovAtom, FinishedMdat
  <1> QED
    BY <1>1, FinishWrites DEF NoChunks

-----------------------------------------------------------------------------
Pairs == {p \in Tracks \X Nat : p[2] \in Chunks(p[1])}

\* no chunk of the destination is behind position, its time is not later than
\* that of any chunk still to be copied, nor of any chunk behind it
Ordered ==
    /\ \A e \in Copied : e.at \in Nat /\ e.of \in Pairs
    /\ \A e, f \in Copied :
          e.at < f.at => TimeOf(e.of[1], e.of[2]) <= TimeOf(f.of[1], f.of[2])
    /\ \A e \in Copied : \A t \in Left :
          current[t] <= movie.tracks[t].timed => TimeOf(e.of[1], e.of[2]) <= Time(t)

\* the tables still say where the chunks to be copied are in the source
Tables ==
    /\ DOMAIN current = Tracks /\ DOMAIN offset = Tracks
    /\ \A t \in Tracks :
          /\ current[t] \in 1 .. Final(t) + 1
          /\ DOMAIN offset[t] = Chunks(t)
          /\ \A c \in Chunks(t) :
                c >= current[t] => offset[t][c] = movie.tracks[t].chunks[c].at

OrderInv ==
    /\ movie \in Movies /\ same \in BOOLEAN
    /\ ~ same =>
         /\ source = SourceOf(movie)
         /\ Tables
         /\ Ordered
         /\ pc \in {"start", "begin"} => Copied = {}
         /\ pc \in {"copy", "write"} =>
               position \in Nat /\ \A e \in Copied : e.at <= position
         /\ pc = "write" => /\ Timed /\ chunk.track \in Earliest
                            /\ chunk.of = <<chunk.track, current[chunk.track]>>

LEMMA Quotients ==
    ASSUME NEW a \in Nat, NEW b \in Nat, NEW k \in Nat \ {0}, a <= b
    PROVE  a \div k \in Nat /\ a \div k <= b \div k
  <1>1. /\ a \div k \in Int /\ b \div k \in Int
        /\ k * (a \div k) <= a /\ a < k * (a \div k) + k
        /\ k * (b \div k) <= b /\ b < k * (b \div k) + k
    OBVIOUS
  <1>2. \A x, y \in Int : x >= y => k * x >= k * y
    OBVIOUS
  <1> DEFINE x == a \div k
             y == b \div k
  <1>3. k * (y + 1) = k * y + k /\ k * (x + 1) = k * x + k /\ k * 0 = 0
    BY <1>1
  <1> HIDE DEF x, y
  <1>4. k * x < k * (y + 1) /\ k * 0 < k * (x + 1)
    BY <1>1, <1>3 DEF x, y
  <1>5. x \in Int /\ y \in Int
    BY <1>1 DEF x, y
  <1> QED
    BY <1>2, <1>4, <1>5 DEF x, y

\* times stay in order in the time scale of the movie
LEMMA TimesInOrder ==
    ASSUME movie \in Movies, NEW t \in Tracks, NEW c \in Chunks(t)
    PROVE  /\ TimeOf(t, c) \in Nat
           /\ \A d \in Chunks(t) : c <= d /\ d <= movie.tracks[t].timed
                                     => TimeOf(t, c) <= TimeOf(t, d)
  <1> DEFINE at(i) == movie.tracks[t].chunks[i]
  <1>1. /\ movie.scale \in Nat /\ movie.tracks[t].scale \in Nat \ {0}
        /\ \A i \in Chunks(t) : at(i).time \in Nat
        /\ \A i, j \in Chunks(t) : i <= j /\ j <= movie.tracks[t].timed
                                     => at(i).time <= at(j).time
    BY MoviesAssumption DEF IsMovie, Tracks, Chunks
  <1>2. at(c).time * movie.scale \in Nat
    BY <1>1
  <1>3. TimeOf(t, c) \in Nat
    BY <1>1, <1>2, Quotients DEF TimeOf
  <1>4. ASSUME NEW d \in Chunks(t), c <= d, d <= movie.tracks[t].timed
        PROVE  TimeOf(t, c) <= TimeOf(t, d)
    <2>1. /\ at(c).time \in Nat /\ at(d).time \in Nat
          /\ at(c).time <= at(d).time
      BY <1>1, <1>4
    <2> DEFINE x == at(c).time
               y == at(d).time
    <2>2. x * movie.scale \in Nat /\ y * movie.scale \in Nat
          /\ x * movie.scale <= y * movie.scale
      <3> HIDE DEF x, y
      <3>1. x \in Nat /\ y \in Nat /\ x <= y
        BY <2>1 DEF x, y
      <3> QED
        BY <1>1, <3>1
    <2> QED
      BY <1>1, <2>2, Quotients DEF TimeOf
  <1> QED
    BY <1>3, <1>4

\* what every step does that copies nothing
LEMMA NothingCopied ==
    ASSUME OrderInv, UNCHANGED <<movie, offset, same, current>>,
           ~ same => source' = source,
           Copied' \subseteq Copied,
           pc' \notin {"copy", "write"}, pc' \in {"start", "begin"} => Copied' = {}
    PROVE  OrderInv'
  <1>1. movie' \in Movies /\ same' \in BOOLEAN
    BY DEF OrderInv
  <1> SUFFICES ASSUME ~ same'
               PROVE  /\ source' = SourceOf(movie')
                      /\ Tables' /\ Ordered'
    BY <1>1 DEF OrderInv
  <1>2. source = SourceOf(movie) /\ Tables /\ Ordered /\ source' = source
    BY DEF OrderInv
  <1>3. Tables'
    BY <1>2 DEF Tables, Tracks, Final, Chunks
  <1>4. Ordered'
    <2>1. Pairs' = Pairs /\ Left' = Left
      BY DEF Pairs, Left, Tracks, Chunks, Final
    <2>2. \A t, c : TimeOf(t, c)' = TimeOf(t, c)
      BY DEF TimeOf
    <2>3. \A t : Time(t)' = Time(t)
      BY DEF Time
    <2> QED
      BY <1>2, <2>1, <2>2, <2>3 DEF Ordered
  <1> QED
    BY <1>2, <1>3, <1>4

LEMMA StartOrdered ==
    ASSUME OrderInv, Start
    PROVE  OrderInv'
  <1>1. CASE OpenFails
    <2>1. /\ UNCHANGED <<movie, offset, same, source, target, current>>
          /\ pc' = "unwind" /\ Copied' \subseteq Copied
      BY <1>1 DEF OpenFails, disks, Copied
    <2> QED
      BY <2>1, NothingCopied
  <1>2. CASE OpenTarget
    <2>1. /\ UNCHANGED <<movie, offset, same, current>>
          /\ ~ same => source' = source
          /\ pc' = "begin" /\ Copied' = {}
      BY <1>2 DEF OpenTarget, Copied
    <2> QED
      BY <2>1, NothingCopied
  <1>3. CASE Begin
    <2>1. /\ UNCHANGED <<movie, offset, same, source, current>>
          /\ pc = "begin" /\ pc' = "copy" /\ position' = MdatStart + 8
          /\ target' = PutAll(target, BeginOptimalWrite)
      BY <1>3 DEF Begin
    <2>2. Copied' \subseteq Copied
      BY <2>1, AtomsBegun, ChunksLeft DEF Copied
    <2>3. movie' \in Movies /\ same' \in BOOLEAN /\ position' \in Nat
      BY <2>1, Reserving DEF OrderInv
    <2> SUFFICES ASSUME ~ same'
                 PROVE  /\ source' = SourceOf(movie')
                        /\ Tables' /\ Ordered' /\ Copied' = {}
      BY <2>1, <2>3 DEF OrderInv
    <2>4. source = SourceOf(movie) /\ Tables /\ Copied = {}
      BY <2>1 DEF OrderInv
    <2>5. Tables' /\ Copied' = {}
      BY <2>1, <2>2, <2>4 DEF Tables, Tracks, Final, Chunks
    <2> QED
      BY <2>1, <2>4, <2>5 DEF Ordered
  <1>4. CASE BeginFails
    <2>1. /\ UNCHANGED <<movie, offset, same, source, current>>
          /\ pc' = "unwind"
      BY <1>4 DEF BeginFails, Throw
    <2>2. PICK n \in 0 .. Len(BeginOptimalWrite) - 1 :
              target' = PutAll(target, SubSeq(BeginOptimalWrite, 1, n))
      BY <1>4 DEF BeginFails
    <2>3. n \in 0 .. Len(BeginOptimalWrite)
      BY <2>2, AtomsBegun
    <2>4. Copied' \subseteq Copied
      BY <2>2, <2>3, AtomsBegun, ChunksLeft DEF Copied
    <2> QED
      BY <2>1, <2>4, NothingCopied
  <1> QED
    BY <1>1, <1>2, <1>3, <1>4 DEF Start

\* the source has the chunk the table says, and no other, at that place
LEMMA ChunkFound ==
    ASSUME movie \in Movies, source = SourceOf(movie),
           NEW t \in Tracks, NEW c \in Chunks(t)
    PROVE  BytesAt(movie.tracks[t].chunks[c].at, Size(t, c)) = {<<t, c>>}
  <1> DEFINE k(u, d) == movie.tracks[u].chunks[d]
  <1>1. \A u \in Tracks : \A d \in Chunks(u) :
            k(t, c).at = k(u, d).at => t = u /\ c = d
    BY MoviesAssumption DEF IsMovie, Tracks, Chunks
  <1>2. ASSUME NEW e \in source
        PROVE  \E u \in Tracks : \E d \in Chunks(u) :
                  e = ChunkExtent(<<u, d>>, k(u, d).at, k(u, d).size)
    BY <1>2 DEF SourceOf, Tracks, Chunks
  <1>3. ChunkExtent(<<t, c>>, k(t, c).at, k(t, c).size) \in source
    BY DEF SourceOf, Tracks, Chunks
  <1>4. ASSUME NEW e \in source, e.at = k(t, c).at
        PROVE  e.of = <<t, c>>
    BY <1>1, <1>2, <1>4 DEF ChunkExtent
  <1>5. <<t, c>> \in BytesAt(k(t, c).at, Size(t, c))
    BY <1>3 DEF BytesAt, ChunkExtent, Size
  <1> QED
    BY <1>4, <1>5 DEF BytesAt

LEMMA ReadChunkOrdered ==
    ASSUME OrderInv, ReadChunk
    PROVE  OrderInv'
  <1>1. /\ UNCHANGED <<movie, offset, same, source, target, current, position>>
        /\ pc = "copy" /\ pc' = "write"
    BY DEF ReadChunk, disks
  <1>2. Tracks' = Tracks /\ Left' = Left /\ Earliest' = Earliest
        /\ Copied' = Copied /\ Pairs' = Pairs /\ Timed'
    BY <1>1 DEF ReadChunk, Tracks, Left, Earliest, Copied, Pairs, Chunks, Final,
       Time, Timed
  <1>3. movie' \in Movies /\ same' \in BOOLEAN
    BY <1>1 DEF OrderInv
  <1> SUFFICES ASSUME ~ same'
               PROVE  /\ source' = SourceOf(movie') /\ Tables' /\ Ordered'
                      /\ position' \in Nat /\ \A e \in Copied' : e.at <= position'
                      /\ Timed' /\ chunk'.track \in Earliest'
                      /\ chunk'.of = <<chunk'.track, current'[chunk'.track]>>
    BY <1>1, <1>3 DEF OrderInv
  <1>4. /\ movie \in Movies /\ source = SourceOf(movie) /\ Tables /\ Ordered
        /\ position \in Nat /\ \A e \in Copied : e.at <= position
    BY <1>1 DEF OrderInv
  <1>5. Tables' /\ Ordered'
    <2>1. Tables'
      BY <1>1, <1>4 DEF Tables, Tracks, Final, Chunks
    <2>2. (\A t, c : TimeOf(t, c)' = TimeOf(t, c)) /\ (\A t : Time(t)' = Time(t))
      BY <1>1 DEF TimeOf, Time
    <2> QED
      BY <1>1, <1>2, <1>4, <2>1, <2>2 DEF Ordered
  <1>6. PICK t \in Tracks :
           /\ IsNext(t)
           /\ LET found == BytesAt(offset[t][current[t]], Size(t, current[t]))
              IN  chunk' \in [track : {t},
                              of : IF found = {} THEN {Garbage} ELSE found]
    BY DEF ReadChunk
  <1>7. t \in Earliest /\ t \in Left
    BY <1>6 DEF IsNext, Hints, Earliest
  <1>8. current[t] \in Chunks(t)
    BY <1>4, <1>7, TracksOfMovie DEF Left, Tables
  <1>9. BytesAt(offset[t][current[t]], Size(t, current[t])) = {<<t, current[t]>>}
    <2>1. offset[t][current[t]] = movie.tracks[t].chunks[current[t]].at
      BY <1>4, <1>8, TracksOfMovie DEF Tables
    <2> QED
      BY <1>4, <1>8, <2>1, ChunkFound
  <1>10. chunk' \in [track : {t}, of : {<<t, current[t]>>}]
    BY <1>6, <1>9
  <1>11. chunk'.track = t /\ chunk'.of = <<t, current[t]>>
    BY <1>10
  <1> QED
    BY <1>1, <1>2, <1>4, <1>5, <1>7, <1>11

LEMMA RewriteChunkOrdered ==
    ASSUME OrderInv, RewriteChunk
    PROVE  OrderInv'
  <1> DEFINE t == chunk.track
             c == current[t]
             new == ChunkExtent(chunk.of, position, Size(t, c))
  <1>1. /\ UNCHANGED <<movie, same, source>>
        /\ pc = "write" /\ pc' = "copy"
        /\ target' = Put(target, new)
        /\ offset' = [offset EXCEPT ![t][c] = position]
        /\ position' = position + Size(t, c)
        /\ current' = [current EXCEPT ![t] = c + 1]
    BY DEF RewriteChunk
  <1>2. movie' \in Movies /\ same' \in BOOLEAN
    BY <1>1 DEF OrderInv
  <1> SUFFICES ASSUME ~ same'
               PROVE  /\ source' = SourceOf(movie') /\ Tables' /\ Ordered'
                      /\ position' \in Nat /\ \A e \in Copied' : e.at <= position'
    BY <1>1, <1>2 DEF OrderInv
  <1>3. /\ movie \in Movies /\ source = SourceOf(movie) /\ Tables /\ Ordered
        /\ position \in Nat /\ \A e \in Copied : e.at <= position
        /\ Timed /\ t \in Earliest /\ chunk.of = <<t, c>>
    BY <1>1 DEF OrderInv
  <1>4. /\ t \in Tracks /\ c \in Chunks(t) /\ c \in 1 .. Final(t)
        /\ \A u \in Left : Time(t) <= Time(u)
    BY <1>3, TracksOfMovie DEF Earliest, Left, Tables
  <1>5. Tracks' = Tracks /\ Pairs' = Pairs
        /\ (\A u : Chunks(u)' = Chunks(u) /\ Final(u)' = Final(u))
        /\ (\A u, d : TimeOf(u, d)' = TimeOf(u, d))
    BY <1>1 DEF Tracks, Pairs, Chunks, Final, TimeOf
  <1>6. Size(t, c) \in Nat
    BY <1>3, <1>4, MoviesAssumption DEF IsMovie, Size, Tracks, Chunks
  <1>7. new.at = position /\ new.of = <<t, c>> /\ <<t, c>> \in Pairs
    BY <1>3, <1>4, TracksOfMovie DEF ChunkExtent, Pairs
  <1>8. Copied' \subseteq Copied \cup {new}
    BY <1>1 DEF Copied, Put
  <1> HIDE DEF new
  <1>9. /\ current'[t] = c + 1
        /\ \A u \in Tracks : u # t => current'[u] = current[u]
        /\ DOMAIN current' = Tracks
    BY <1>1, <1>3, <1>4 DEF Tables
  <1>10. Tables'
    <2>1. ASSUME NEW u \in Tracks
          PROVE  /\ current'[u] \in 1 .. Final(u) + 1
                 /\ DOMAIN offset'[u] = Chunks(u)
                 /\ \A d \in Chunks(u) : d >= current'[u] =>
                       offset'[u][d] = movie.tracks[u].chunks[d].at
      <3>1. /\ current[u] \in 1 .. Final(u) + 1 /\ DOMAIN offset[u] = Chunks(u)
            /\ \A d \in Chunks(u) : d >= current[u] =>
                  offset[u][d] = movie.tracks[u].chunks[d].at
            /\ Final(u) \in Nat /\ Chunks(u) = 1 .. Final(u)
        BY <1>3, TracksOfMovie DEF Tables
      <3>2. CASE u = t
        <4>1. offset'[t] = [offset[t] EXCEPT ![c] = position]
          BY <1>1, <1>3, <1>4 DEF Tables
        <4>2. \A d \in Chunks(t) : d # c => offset'[t][d] = offset[t][d]
          BY <3>1, <3>2, <4>1
        <4>3. current'[t] \in 1 .. Final(t) + 1
          BY <1>4, <1>9, <3>1, <3>2
        <4>4. \A d \in Chunks(t) : d >= current'[t] => d # c /\ d >= c
          BY <1>4, <1>9, <3>1, <3>2
        <4> QED
          BY <3>1, <3>2, <4>1, <4>2, <4>3, <4>4
      <3>3. CASE u # t
        <4>1. offset'[u] = offset[u]
          BY <1>1, <1>3, <3>3 DEF Tables
        <4> QED
          BY <1>9, <3>1, <3>3, <4>1
      <3> QED
        BY <3>2, <3>3
    <2>2. DOMAIN offset' = Tracks
      BY <1>1, <1>3 DEF Tables
    <2> QED
      BY <1>1, <1>5, <1>9, <2>1, <2>2 DEF Tables
  <1>11. \A e \in Copied : /\ e.at \in Nat /\ e.of \in Pairs
                           /\ TimeOf(e.of[1], e.of[2]) \in Nat
    <2>1. \A p \in Pairs : TimeOf(p[1], p[2]) \in Nat
      BY <1>3, TimesInOrder DEF Pairs
    <2> QED
      BY <1>3, <2>1 DEF Ordered
  <1>12. TimeOf(t, c) \in Nat
    BY <1>3, <1>4, TimesInOrder
  <1>13. Time(t) = TimeOf(t, c) /\ t \in Left
    BY <1>3 DEF Time, TimeOf, Earliest
  <1>14. \A e \in Copied : \A u \in Left : TimeOf(e.of[1], e.of[2]) <= Time(u)
    BY <1>3 DEF Ordered, Timed
  \* the chunks to be copied are no earlier than the one that was
  <1>15. ASSUME NEW u \in Left', current'[u] <= movie.tracks[u].timed
         PROVE  /\ TimeOf(t, c) <= Time(u)'
                /\ \A e \in Copied : TimeOf(e.of[1], e.of[2]) <= Time(u)'
    <2>1. /\ u \in Tracks /\ current'[u] <= Final(u)
          /\ Time(u)' = TimeOf(u, current'[u])
      BY <1>1, <1>5 DEF Left, Time, TimeOf
    <2>2. CASE u = t
      <3>1. c + 1 \in Chunks(t)
        BY <1>3, <1>4, <1>9, <2>1, <2>2, TracksOfMovie
      <3>2. TimeOf(t, c) <= TimeOf(t, c + 1) /\ TimeOf(t, c + 1) \in Nat
        <4>1. c <= c + 1
          BY <1>4, TracksOfMovie, <1>3
        <4> QED
          BY <1>3, <1>4, <1>9, <1>15, <2>2, <3>1, <4>1, TimesInOrder
      <3>3. \A e \in Copied : TimeOf(e.of[1], e.of[2]) <= TimeOf(t, c)
        BY <1>13, <1>14
      <3> QED
        BY <1>9, <1>11, <1>12, <2>1, <2>2, <3>2, <3>3
    <2>3. CASE u # t
      <3>1. u \in Left /\ Time(u)' = Time(u)
        BY <1>9, <2>1, <2>3 DEF Left, Time, TimeOf
      <3> QED
        BY <1>4, <1>13, <1>14, <3>1
    <2> QED
      BY <2>2, <2>3
  <1>16. Ordered'
    <2>1. \A e \in Copied' : e.at \in Nat /\ e.of \in Pairs
      BY <1>3, <1>7, <1>8, <1>11
    <2>2. ASSUME NEW e \in Copied', NEW f \in Copied', e.at < f.at
          PROVE  TimeOf(e.of[1], e.of[2]) <= TimeOf(f.of[1], f.of[2])
      <3>1. CASE e \in Copied /\ f \in Copied
        BY <1>3, <2>2, <3>1 DEF Ordered
      <3>2. CASE e \in Copied /\ f = new
        BY <1>7, <1>13, <1>14, <3>2
      <3>3. CASE e = new /\ f \in Copied
        <4>1. f.at <= position /\ f.at \in Nat /\ position < f.at
          BY <1>3, <1>7, <1>11, <2>2, <3>3
        <4> QED
          BY <1>3, <4>1
      <3>4. CASE e = new /\ f = new
        BY <1>3, <1>7, <2>2, <3>4
      <3> QED
        BY <1>8, <3>1, <3>2, <3>3, <3>4
    <2>3. ASSUME NEW e \in Copied', NEW u \in Left',
                 current'[u] <= movie.tracks[u].timed
          PROVE  TimeOf(e.of[1], e.of[2]) <= Time(u)'
      BY <1>7, <1>8, <1>15, <2>3
    <2> QED
      BY <1>1, <1>5, <2>1, <2>2, <2>3 DEF Ordered
  <1>17. position' \in Nat /\ \A e \in Copied' : e.at <= position'
    BY <1>1, <1>3, <1>6, <1>7, <1>8, <1>11
  <1> QED
    BY <1>1, <1>3, <1>10, <1>16, <1>17

LEMMA CopyOrdered ==
    ASSUME OrderInv, Copy
    PROVE  OrderInv'
  <1>1. CASE TimeFails \/ ReadFails \/ WriteFails \/ EndOfLoop
    <2>1. /\ UNCHANGED <<movie, offset, same, source, target, current>>
          /\ pc' \in {"unwind", "finish"}
      BY <1>1 DEF TimeFails, ReadFails, WriteFails, EndOfLoop, Throw, disks
    <2>2. Copied' \subseteq Copied
      BY <2>1 DEF Copied
    <2> QED
      BY <2>1, <2>2, NothingCopied
  <1> QED
    BY <1>1, ReadChunkOrdered, RewriteChunkOrdered DEF Copy

LEMMA LeaveOrdered ==
    ASSUME OrderInv, Leave
    PROVE  OrderInv'
  <1>1. ASSUME NEW n \in 0 .. AllWrites, FinishUpTo(n)
        PROVE  UNCHANGED <<movie, offset, same, source, current>>
               /\ Copied' \subseteq Copied
    <2>1. target' = PutAll(target, SubSeq(FinishOptimalWrite, 1, n))
      BY <1>1 DEF FinishUpTo
    <2>2. Copied' \subseteq Copied
      BY <2>1, AtomsFinished, ChunksLeft DEF Copied
    <2> QED
      BY <1>1, <2>2 DEF FinishUpTo
  <1>2. \A n \in 0 .. AllWrites - 1 : n \in 0 .. AllWrites
    BY AtomsFinished
  <1>3. 0 \in 0 .. AllWrites /\ AllWrites \in 0 .. AllWrites
    BY AtomsFinished
  <1>4. UNCHANGED <<movie, offset, same, source, current>>
        /\ Copied' \subseteq Copied
    <2>1. CASE Finish
      BY <1>1, <1>3, <2>1 DEF Finish
    <2>2. CASE FinishUnflushed
      <3>1. AllWrites - 1 \in 0 .. AllWrites
        BY <2>2, AtomsFinished
      <3> QED
        BY <1>1, <2>2, <3>1 DEF FinishUnflushed
    <2>3. CASE FinishFails
      BY <1>1, <1>2, <2>3 DEF FinishFails
    <2>4. CASE Unwind
      BY <2>4 DEF Unwind, disks, Copied
    <2> QED
      BY <2>1, <2>2, <2>3, <2>4 DEF Leave
  <1>5. pc' \in {"reported success", "reported failure", "terminated"}
    BY DEF Leave, Finish, FinishUnflushed, FinishFails, Unwind, Reported
  <1> QED
    BY <1>4, <1>5, NothingCopied

LEMMA InitOrdered == Init => OrderInv
  <1> SUFFICES ASSUME Init PROVE OrderInv
    OBVIOUS
  <1>1. /\ movie \in Movies /\ same \in BOOLEAN /\ source = SourceOf(movie)
        /\ target = {} /\ pc = "start"
        /\ current = [t \in Tracks |-> 1]
        /\ offset = [t \in Tracks |-> [c \in Chunks(t) |->
                                         movie.tracks[t].chunks[c].at]]
    BY SamePathAssumption DEF Init
  <1>2. Tables
    BY <1>1, TracksOfMovie DEF Tables
  <1>3. Copied = {} /\ Ordered
    BY <1>1 DEF Copied, Ordered
  <1> QED
    BY <1>1, <1>2, <1>3 DEF OrderInv

LEMMA StepOrdered ==
    ASSUME OrderInv, [Next]_vars
    PROVE  OrderInv'
  <1>1. CASE UNCHANGED vars
    <2>1. UNCHANGED <<movie, offset, source, target, same, position, current,
                      chunk, pc>>
      BY <1>1 DEF vars, disks
    <2>2. /\ Tables' = Tables /\ Ordered' = Ordered /\ Copied' = Copied
          /\ Earliest' = Earliest /\ Timed' = Timed
      BY <2>1 DEF Tables, Ordered, Copied, Earliest, Timed, Left, Time, TimeOf,
         Pairs, Tracks, Chunks, Final
    <2> QED
      BY <2>1, <2>2 DEF OrderInv
  <1> QED
    BY <1>1, StartOrdered, CopyOrdered, LeaveOrdered DEF Next

(***************************************************************************)
(* Whatever tracks a movie has, in whatever time scales, its chunks are    *)
(* copied in the order of their times in the time scale of the movie:      *)
(* none lies before one that is earlier, and none still to be copied is    *)
(* earlier than one that has been.                                         *)
(***************************************************************************)
THEOREM CopiesInOrder == Spec => []Interleaved
  <1>1. Init => OrderInv
    BY InitOrdered
  <1>2. OrderInv /\ [Next]_vars => OrderInv'
    BY StepOrdered
  <1>3. OrderInv => Interleaved
    BY DEF OrderInv, Ordered, Interleaved, Copied, IsChunk
  <1> QED
    BY <1>1, <1>2, <1>3, PTL DEF Spec

-----------------------------------------------------------------------------
(* The copier implements Remux *)

\* the chunks that have been taken
Taken == {p \in Pairs : p[2] < current[p[1]]}

\* the copied chunks lie between the header of mdat and position, and they are
\* those that have been taken
PlaceInv ==
    /\ pc \in {"start", "begin"} => Copied = {} /\ Taken = {}
    /\ pc = "finish" => Left = {}
    /\ Begun =>
          /\ position \in Nat /\ Reserved + 8 <= position
          /\ Made = Taken
          /\ \A e \in Copied : /\ e.at \in Nat /\ e.size \in Nat \ {0}
                               /\ Reserved + 8 <= e.at /\ End(e) <= position

RemuxInv == Inv /\ RoomInv /\ OrderInv /\ PlaceInv /\ ~ same

LEMMA AllPairs ==
    ASSUME movie \in Movies
    PROVE  Promise!All = Pairs
  BY TracksOfMovie DEF Promise!All, Pairs, Tracks, Chunks

\* writes apart from all chunks leave them
LEMMA ChunksStay ==
    ASSUME NEW disk, NEW w, NoChunks(w),
           \A e \in disk : IsChunk(e) => \A i \in DOMAIN w : Apart(e, w[i])
    PROVE  {e \in PutAll(disk, w) : IsChunk(e)} = {e \in disk : IsChunk(e)}
  BY DEF PutAll, NoChunks

\* a step that leaves the chunks alone
LEMMA ChunksKept ==
    ASSUME Copied' = Copied
    PROVE  Made' = Made /\ Before' = Before
  BY DEF Made, Before

\* the chunk taken goes behind all others and is no later than any to come
LEMMA RewriteChunkRemuxes ==
    ASSUME RemuxInv, RewriteChunk
    PROVE  PlaceInv' /\ Promise!Next
  <1> DEFINE t == chunk.track
             c == current[t]
             new == ChunkExtent(chunk.of, position, Size(t, c))
             n == <<t, c>>
  <1>1. /\ UNCHANGED <<movie, same>> /\ pc = "write" /\ pc' = "copy"
        /\ target' = Put(target, new)
        /\ position' = position + Size(t, c)
        /\ current' = [current EXCEPT ![t] = c + 1]
    BY DEF RewriteChunk
  <1>2. /\ movie \in Movies /\ Tables
        /\ Timed /\ t \in Earliest /\ chunk.of = n
        /\ position \in Nat /\ Reserved + 8 <= position
        /\ Made = Taken
        /\ \A e \in Copied : /\ e.at \in Nat /\ e.size \in Nat \ {0}
                             /\ Reserved + 8 <= e.at /\ End(e) <= position
    BY <1>1 DEF RemuxInv, OrderInv, PlaceInv, Begun
  <1>3. /\ t \in Tracks /\ t \in Left /\ c \in Chunks(t) /\ c \in 1 .. Final(t)
        /\ \A u \in Left : Time(t) <= Time(u)
        /\ DOMAIN current = Tracks
    BY <1>2, TracksOfMovie DEF Earliest, Left, Tables
  <1>4. Size(t, c) \in Nat \ {0}
    BY <1>2, <1>3, MoviesAssumption DEF IsMovie, Size, Tracks, Chunks
  <1>5. new.at = position /\ new.of = n /\ new.size = Size(t, c) /\ IsChunk(new)
    BY <1>2 DEF ChunkExtent, IsChunk
  <1> HIDE DEF new
  <1>6. Copied' = Copied \cup {new}
    <2>1. \A e \in Copied : Apart(e, new)
      BY <1>2, <1>5 DEF Apart
    <2> QED
      BY <1>1, <1>5, <2>1 DEF Copied, Put
  <1>7. Pairs' = Pairs /\ Reserved' = Reserved /\ Reserved \in Nat
    BY <1>1, <1>2, Reserving DEF Pairs, Tracks, Chunks, Reserved, MoovStart, Entries
  <1>8. n \in Pairs /\ n \notin Taken
    BY <1>2, <1>3, TracksOfMovie DEF Pairs, Taken
  <1>9. Made' = Made \cup {n}
    BY <1>5, <1>6 DEF Made
  <1>10. Taken' = Taken \cup {n}
    <2>1. \A p \in Pairs : p[2] \in Nat /\ p[1] \in Tracks
      BY DEF Pairs
    <2>2. \A p \in Pairs : p[1] # t => current'[p[1]] = current[p[1]]
      BY <1>1, <1>3, <2>1
    <2>3. current'[t] = c + 1 /\ c \in Nat
      BY <1>1, <1>2, <1>3, TracksOfMovie
    <2>4. \A p \in Pairs : p[1] = t => (p[2] < current'[t] <=> p[2] < c \/ p = n)
      BY <2>1, <2>3 DEF Pairs
    <2> QED
      BY <1>7, <1>8, <2>2, <2>4 DEF Taken
  <1>11. Before' = Before \cup (Made \X {n})
    <2>1. \A e \in Copied : e.at < new.at /\ ~ (new.at < e.at)
      BY <1>2, <1>5 DEF End
    <2>2. ~ (new.at < new.at)
      BY <1>2, <1>5
    <2> DEFINE Q(S) == {q \in S \X S : q[1].at < q[2].at}
    <2>3. Q(Copied \cup {new}) = Q(Copied) \cup (Copied \X {new})
      BY <2>1, <2>2
    <2>4. Before' = {<<p[1].of, p[2].of>> : p \in Q(Copied) \cup (Copied \X {new})}
      BY <1>6, <2>3 DEF Before
    <2>5. {<<p[1].of, p[2].of>> : p \in Copied \X {new}} = Made \X {n}
      <3>1. \A p \in Copied \X {new} :
               p[1] \in Copied /\ p[2].of = n /\ <<p[1].of, p[2].of>> = <<p[1].of, n>>
        BY <1>5
      <3>2. \A e \in Copied : \E p \in Copied \X {new} : p[1] = e
        <4> TAKE e \in Copied
        <4> WITNESS <<e, new>> \in Copied \X {new}
        <4> QED
          OBVIOUS
      <3> HIDE DEF n
      <3>3. Made \X {n} = {<<e.of, n>> : e \in Copied}
        BY DEF Made
      <3> DEFINE after == {<<p[1].of, p[2].of>> : p \in Copied \X {new}}
      <3>4. ASSUME NEW x \in after
            PROVE  x \in {<<e.of, n>> : e \in Copied}
        <4>1. PICK p \in Copied \X {new} : x = <<p[1].of, p[2].of>>
          OBVIOUS
        <4> QED
          BY <3>1, <4>1
      <3>5. ASSUME NEW x \in {<<e.of, n>> : e \in Copied}
            PROVE  x \in after
        <4>1. PICK e \in Copied : x = <<e.of, n>>
          OBVIOUS
        <4>2. PICK p \in Copied \X {new} : p[1] = e
          BY <3>2
        <4> QED
          BY <3>1, <4>1, <4>2
      <3> QED
        BY <3>3, <3>4, <3>5
    <2> QED
      BY <2>4, <2>5 DEF Before
  <1>12. ASSUME NEW m \in Pairs \ Made
         PROVE  /\ Promise!Timed(m) => Promise!Time(n) <= Promise!Time(m)
                /\ n[1] = m[1] => n[2] <= m[2]
                /\ Promise!First(m) => Promise!Timed(m)
    <2> DEFINE u == m[1]
               d == m[2]
    <2>1. /\ u \in Tracks /\ d \in Chunks(u) /\ d \in Nat /\ m = <<u, d>>
          /\ current[u] \in Nat /\ current[u] <= d
          /\ current[u] \in 1 .. Final(u) + 1 /\ Chunks(u) = 1 .. Final(u)
          /\ Final(u) \in Nat
      BY <1>2, <1>12, TracksOfMovie DEF Pairs, Taken, Tables
    <2>2. current[u] \in Chunks(u) /\ u \in Left
      BY <2>1 DEF Left
    <2>3. Time(t) = TimeOf(t, c) /\ Time(u) = TimeOf(u, current[u])
      BY DEF Time, TimeOf
    <2>4. /\ TimeOf(u, current[u]) \in Nat /\ TimeOf(u, d) \in Nat
          /\ TimeOf(t, c) \in Nat
          /\ d <= movie.tracks[u].timed => TimeOf(u, current[u]) <= TimeOf(u, d)
      BY <1>2, <1>3, <2>1, <2>2, TimesInOrder
    <2>5. /\ Promise!Time(n) = TimeOf(t, c) /\ Promise!Time(m) = TimeOf(u, d)
          /\ Promise!Timed(m) <=> d <= movie.tracks[u].timed
      BY DEF Promise!Time, Promise!Timed, TimeOf
    <2>6. ASSUME Promise!First(m)
          PROVE  Promise!Timed(m)
      <3> DEFINE k == <<u, current[u]>>
      <3>1. k \in Pairs \ Made
        BY <1>2, <2>1, <2>2 DEF Pairs, Taken
      <3>2. d <= current[u]
        BY <1>2, <2>6, <3>1, AllPairs DEF Promise!First
      <3>3. d = current[u]
        BY <2>1, <3>2
      <3>4. current[u] <= movie.tracks[u].timed
        BY <1>2, <2>2 DEF Timed
      <3> QED
        BY <2>5, <3>3, <3>4
    <2>7. Promise!Timed(m) => Promise!Time(n) <= Promise!Time(m)
      <3>1. Time(t) <= Time(u)
        BY <1>3, <2>2
      <3> QED
        BY <2>3, <2>4, <2>5, <3>1
    <2>8. t = u => c <= d
      BY <2>1
    <2> QED
      BY <2>6, <2>7, <2>8
  <1>13. PlaceInv'
    <2>1. \A e \in Copied' : /\ e.at \in Nat /\ e.size \in Nat \ {0}
                             /\ Reserved + 8 <= e.at /\ End(e) <= position'
      <3>1. ASSUME NEW e \in Copied
            PROVE  /\ e.at \in Nat /\ e.size \in Nat \ {0}
                   /\ Reserved + 8 <= e.at /\ End(e) <= position'
        BY <1>1, <1>2, <1>4, <3>1 DEF End
      <3>2. /\ new.at \in Nat /\ new.size \in Nat \ {0}
            /\ Reserved + 8 <= new.at /\ End(new) <= position'
        BY <1>1, <1>2, <1>4, <1>5 DEF End
      <3> QED
        BY <1>6, <3>1, <3>2
    <2>2. position' \in Nat /\ Reserved + 8 <= position'
      BY <1>1, <1>2, <1>4, <1>7
    <2> QED
      BY <1>1, <1>2, <1>7, <1>9, <1>10, <2>1, <2>2 DEF PlaceInv
  <1> HIDE DEF n
  <1>14. Promise!Next
    <2>1. Result = "none" /\ Result' = "none"
      BY <1>1 DEF Result
    <2>2. Promise!First(n)
      BY <1>2, <1>8, <1>12, AllPairs DEF Promise!First
    <2>3. Promise!Take(n)
      BY <1>1, <1>2, <1>9, <1>11, <1>12, <2>1, <2>2, AllPairs DEF Promise!Take
    <2> QED
      BY <1>2, <1>8, <2>3, AllPairs DEF Promise!Next
  <1> QED
    BY <1>13, <1>14

\* a step of the copier that the promise does not see
Hidden == UNCHANGED <<movie, Made, Before, Result>>

LEMMA StartRemuxes ==
    ASSUME RemuxInv, Start
    PROVE  PlaceInv' /\ Hidden
  <1>1. movie' = movie /\ Result' = Result /\ pc \in {"start", "begin"}
        /\ (pc' = "unwind" \/ OpenTarget \/ Begin)
    BY DEF Start, OpenFails, OpenTarget, Begin, BeginFails, Throw, Result
  <1>2. Copied = {} /\ Taken = {}
    BY <1>1 DEF RemuxInv, PlaceInv
  <1>3. Copied' = {}
    <2>1. CASE OpenFails \/ OpenTarget
      BY <1>2, <2>1 DEF OpenFails, OpenTarget, disks, Copied
    <2>2. CASE Begin
      BY <1>2, <2>2, AtomsBegun, ChunksLeft DEF Begin, Copied
    <2>3. CASE BeginFails
      <3>1. PICK k \in 0 .. Len(BeginOptimalWrite) - 1 :
                target' = PutAll(target, SubSeq(BeginOptimalWrite, 1, k))
        BY <2>3 DEF BeginFails
      <3>2. k \in 0 .. Len(BeginOptimalWrite)
        BY <3>1, AtomsBegun
      <3> QED
        BY <1>2, <3>1, <3>2, AtomsBegun, ChunksLeft DEF Copied
    <2> QED
      BY <2>1, <2>2, <2>3 DEF Start
  <1>4. PlaceInv'
    <2>1. CASE pc' = "unwind"
      <3>1. ~ Begun'
        BY <2>1 DEF RemuxInv, Inv, Start, OpenFails, OpenTarget, Begin, BeginFails,
           Throw, Begun
      <3> QED
        BY <2>1, <3>1 DEF PlaceInv
    <2>2. CASE OpenTarget
      <3>1. UNCHANGED <<movie, current>> /\ pc' = "begin"
        BY <2>2 DEF OpenTarget
      <3>2. Taken' = {}
        BY <1>2, <3>1 DEF Taken, Pairs, Tracks, Chunks
      <3> QED
        BY <1>3, <3>1, <3>2 DEF PlaceInv, Begun
    <2>3. CASE Begin
      <3>1. /\ UNCHANGED <<movie, current, offset>> /\ pc = "begin" /\ pc' = "copy"
            /\ position' = MdatStart + 8
        BY <2>3 DEF Begin
      <3>2. movie \in Movies /\ OrderInv' /\ ~ same'
        BY <2>3, StartOrdered DEF RemuxInv, RoomInv, Begin, Start
      <3>3. MdatStart = Reserved /\ Reserved \in Nat /\ Reserved' = Reserved
        BY <3>1, <3>2, Reserving
           DEF Reserved, MoovStart, Entries, Tracks, Chunks
      <3>4. Made' = {}
        BY <1>3 DEF Made
      <3>5. Taken' = {}
        BY <1>2, <3>1 DEF Taken, Pairs, Tracks, Chunks
      <3> QED
        BY <1>3, <3>1, <3>3, <3>4, <3>5 DEF PlaceInv
    <2> QED
      BY <1>1, <2>1, <2>2, <2>3
  <1> QED
    BY <1>1, <1>2, <1>3, <1>4 DEF Hidden, Made, Before

LEMMA CopyRemuxes ==
    ASSUME RemuxInv, Copy
    PROVE  PlaceInv' /\ (Promise!Next \/ Hidden)
  <1>1. CASE TimeFails \/ ReadChunk \/ ReadFails \/ WriteFails \/ EndOfLoop
    <2>1. /\ UNCHANGED <<movie, target, current, position>>
          /\ Result' = Result /\ pc \in {"copy", "write"}
          /\ pc' \in {"write", "unwind", "finish"}
          /\ pc' = "finish" => Left = {}
      BY <1>1 DEF TimeFails, ReadChunk, ReadFails, WriteFails, EndOfLoop, Throw,
         disks, Result
    <2>2. /\ Copied' = Copied /\ Taken' = Taken /\ Reserved' = Reserved
          /\ Left' = Left
      BY <2>1 DEF Copied, Taken, Pairs, Tracks, Chunks, Reserved, MoovStart,
         Entries, Left, Final
    <2>3. Made' = Made /\ Before' = Before
      BY <2>2, ChunksKept
    <2>4. PlaceInv'
      BY <2>1, <2>2, <2>3 DEF RemuxInv, PlaceInv, Begun
    <2> QED
      BY <2>1, <2>3, <2>4 DEF Hidden
  <1>2. CASE RewriteChunk
    BY <1>2, RewriteChunkRemuxes
  <1> QED
    BY <1>1, <1>2 DEF Copy

\* what the destructor writes, if it writes: a stream that has failed, or the
\* source, takes nothing
LEMMA Leaving ==
    ASSUME Inv, Leave
    PROVE  \/ Unwind /\ target' = target
           \/ /\ Finishing
              /\ \E n \in 0 .. AllWrites : FinishUpTo(n) /\ (Begun \/ target' = target)
  <1>1. ASSUME FinishUpTo(0)
        PROVE  target' = target
    <2>1. target' = PutAll(target, SubSeq(FinishOptimalWrite, 1, 0))
      BY <1>1 DEF FinishUpTo
    <2>2. DOMAIN SubSeq(FinishOptimalWrite, 1, 0) = {}
      OBVIOUS
    <2> QED
      BY <2>1, <2>2 DEF PutAll
  <1>2. /\ 0 \in 0 .. AllWrites /\ AllWrites \in 0 .. AllWrites
        /\ AllWrites - 1 \in 0 .. AllWrites
        /\ \A k \in 0 .. AllWrites - 1 : k \in 0 .. AllWrites /\ (k = 0 \/ k > 0)
    BY FinishWrites
  <1>3. ASSUME Finishing, CanFinish
        PROVE  Begun
    BY <1>3 DEF Finishing, CanFinish, Inv, Writable, Begun
  <1>4. CASE Finish
    BY <1>2, <1>3, <1>4 DEF Finish
  <1>5. CASE FinishUnflushed
    BY <1>2, <1>3, <1>5 DEF FinishUnflushed
  <1>6. CASE FinishFails
    <2>1. PICK n \in 0 .. AllWrites - 1 : (n > 0 => CanFinish) /\ FinishUpTo(n)
      BY <1>6 DEF FinishFails
    <2> QED
      BY <1>1, <1>2, <1>3, <1>6, <2>1 DEF FinishFails
  <1>7. CASE Unwind
    BY <1>7 DEF Unwind, disks
  <1> QED
    BY <1>4, <1>5, <1>6, <1>7 DEF Leave

\* the headers written at the end are clear of the chunks
LEMMA HeadersClear ==
    ASSUME RemuxInv, Begun, NEW n \in 0 .. AllWrites, FinishUpTo(n)
    PROVE  Copied' = Copied
  <1> DEFINE w == SubSeq(FinishOptimalWrite, 1, n)
  <1>1. target' = PutAll(target, w) /\ NoChunks(w)
    BY AtomsFinished DEF FinishUpTo
  <1>2. \A i \in DOMAIN w : w[i] \in FinishAtoms
    BY FinishWrites
  <1>3. /\ mdat.start = Reserved /\ moov.start = MoovStart /\ movie \in Movies
        /\ \A e \in Copied : e.at \in Nat /\ Reserved + 8 <= e.at
    BY DEF RemuxInv, RoomInv, PlaceInv
  <1>4. /\ FinishedMdat.at - MoovEnd >= 8 /\ FinishedMdat.at \in Int
        /\ FinishedMdat.at <= mdat.start
        /\ MoovEnd \in Nat /\ CurrentMoovSize \in Nat
    BY RoomForMoov DEF RemuxInv
  <1>5. Reserved \in Nat /\ movie.udta \in Nat /\ MoovStart \in Nat
    BY <1>3, Reserving, TracksOfMovie, SizesAssumption DEF MoovStart
  <1>6. \A a \in FinishAtoms : End(a) \in Int /\ End(a) <= Reserved + 8
    <2>1. End(FinishedMdat) = mdat.start + 8
      BY <1>3, <1>5 DEF FinishedMdat, Atom, End
    <2>2. End(MoovAtom(moov.start)) = MoovStart + CurrentMoovSize
          /\ MoovStart + CurrentMoovSize <= MoovEnd
      BY <1>3, <1>4, <1>5 DEF MoovAtom, Atom, End, MoovEnd
    <2>3. ASSUME Resized
          PROVE  End(Atom("udta", moov.start + CurrentMoovSize, movie.udta,
                          movie.udta)) = MoovEnd
      BY <1>3, <1>4, <1>5, <2>3 DEF Atom, End, MoovEnd
    <2>4. End(Atom("free", MoovEnd, 8, FinishedMdat.at - MoovEnd)) = MoovEnd + 8
      BY DEF Atom, End
    <2> HIDE DEF End
    <2>5. ASSUME NEW a \in FinishAtoms
          PROVE  End(a) \in {mdat.start + 8, MoovStart + CurrentMoovSize, MoovEnd,
                             MoovEnd + 8}
      BY <2>1, <2>2, <2>3, <2>4 DEF FinishAtoms
    <2> QED
      BY <1>3, <1>4, <1>5, <2>2, <2>5
  <1>7. \A e \in target : IsChunk(e) => \A i \in DOMAIN w : Apart(e, w[i])
    BY <1>2, <1>3, <1>5, <1>6 DEF Apart, Copied
  <1> HIDE DEF w
  <1> QED
    BY <1>1, <1>7, ChunksStay DEF Copied

\* all have been copied, or the next of a track has no time
LEMMA Outcome ==
    ASSUME RemuxInv, Begun
    PROVE  /\ pc = "finish" => Made = Promise!All
           /\ ~ Timed => \E n \in Promise!All : Promise!First(n) /\ ~ Promise!Timed(n)
  <1>1. Made = Taken /\ movie \in Movies /\ Promise!All = Pairs
    BY AllPairs DEF RemuxInv, PlaceInv, RoomInv
  <1>2. ASSUME NEW t \in Tracks
        PROVE  /\ Final(t) \in Nat /\ Chunks(t) = 1 .. Final(t)
               /\ current[t] \in 1 .. Final(t) + 1
    <2>1. Tables
      BY DEF RemuxInv, OrderInv
    <2> QED
      BY <1>1, <2>1, TracksOfMovie DEF Tables
  <1>3. ASSUME pc = "finish"
        PROVE  Made = Promise!All
    <2>1. Left = {}
      BY <1>3 DEF RemuxInv, PlaceInv
    <2>2. ASSUME NEW p \in Pairs
          PROVE  p[2] < current[p[1]]
      <3>1. p[1] \in Tracks /\ p[2] \in Chunks(p[1])
        BY DEF Pairs
      <3>2. ~ (current[p[1]] <= Final(p[1]))
        BY <2>1, <3>1 DEF Left
      <3> QED
        BY <1>2, <3>1, <3>2
    <2> QED
      BY <1>1, <2>2 DEF Taken
  <1>4. ASSUME ~ Timed
        PROVE  \E n \in Promise!All : Promise!First(n) /\ ~ Promise!Timed(n)
    <2>1. PICK t \in Left : ~ (current[t] <= movie.tracks[t].timed)
      BY <1>4 DEF Timed
    <2> DEFINE n == <<t, current[t]>>
    <2>2. t \in Tracks /\ current[t] \in Chunks(t) /\ current[t] \in Nat
      BY <1>2, <2>1 DEF Left
    <2>3. n \in Pairs \ Made
      BY <1>1, <2>2 DEF Pairs, Taken
    <2>4. ASSUME NEW m \in Pairs \ Made, m[1] = t
          PROVE  current[t] <= m[2]
      <3>1. m[2] \in Nat
        BY DEF Pairs
      <3> QED
        BY <1>1, <2>2, <2>4, <3>1 DEF Taken
    <2>5. Promise!First(n)
      BY <1>1, <2>3, <2>4 DEF Promise!First
    <2>6. ~ Promise!Timed(n)
      BY <2>1 DEF Promise!Timed
    <2> HIDE DEF n
    <2> QED
      BY <1>1, <2>3, <2>5, <2>6
  <1> QED
    BY <1>3, <1>4

LEMMA LeaveRemuxes ==
    ASSUME RemuxInv, Leave
    PROVE  PlaceInv' /\ Promise!Next
  <1>1. /\ movie' = movie /\ Result = "none"
        /\ pc' \in {"reported success", "reported failure", "terminated"}
    BY DEF Leave, Finish, FinishUnflushed, FinishFails, Unwind, FinishUpTo, Result,
       Finishing, Reported
  <1>2. PlaceInv'
    BY <1>1 DEF PlaceInv, Begun
  <1>3. Copied' = Copied
    BY Leaving, HeadersClear DEF RemuxInv, Copied
  <1>4. Made' = Made /\ Before' = Before
    BY <1>3, ChunksKept
  <1>5. ASSUME NEW r \in {"success", "failure", "ended"}, Result' = r,
               r = "success" => Made = Promise!All,
               r = "failure" =>
                  \/ Made = {}
                  \/ \E n \in Promise!All : Promise!First(n) /\ ~ Promise!Timed(n)
        PROVE  PlaceInv' /\ Promise!Next
    BY <1>1, <1>2, <1>4, <1>5 DEF Promise!Report, Promise!Next
  <1>6. CASE Finish \/ FinishUnflushed
    <2>1. Finishing /\ CanFinish /\ pc' = Reported
      BY <1>6 DEF Finish, FinishUnflushed
    <2>2. Begun /\ (pc = "unwind" => ~ Timed)
      BY <2>1 DEF Finishing, CanFinish, RemuxInv, Inv, Writable, Begun
    <2>3. CASE pc = "finish"
      <3>1. Result' = "success"
        BY <2>1, <2>3 DEF Reported, Result
      <3> QED
        BY <1>5, <2>2, <2>3, <3>1, Outcome
    <2>4. CASE pc = "unwind"
      <3>1. Result' = "failure"
        BY <2>1, <2>4 DEF Reported, Result
      <3> QED
        BY <1>5, <2>2, <2>4, <3>1, Outcome
    <2> QED
      BY <2>1, <2>3, <2>4 DEF Finishing
  <1>7. CASE FinishFails
    <2>1. Result' = "ended"
      BY <1>7 DEF FinishFails, Result
    <2> QED
      BY <1>5, <2>1
  <1>8. CASE Unwind
    <2>1. Result' = "failure" /\ target = {}
      BY <1>8 DEF Unwind, Result, RemuxInv, Inv, Untouched
    <2>2. Made = {}
      BY <2>1 DEF Made, Copied
    <2> QED
      BY <1>5, <2>1, <2>2
  <1> QED
    BY <1>2, <1>6, <1>7, <1>8 DEF Leave

LEMMA RemuxInit == Init /\ ~ same => RemuxInv /\ Promise!Init
  <1> SUFFICES ASSUME Init, ~ same PROVE RemuxInv /\ Promise!Init
    OBVIOUS
  <1>1. /\ movie \in Movies /\ target = {} /\ pc = "start"
        /\ current = [t \in Tracks |-> 1]
    BY DEF Init
  <1>2. Inv /\ RoomInv /\ OrderInv
    BY <1>1, InitOrdered, InitKeeps DEF Init, RoomInv, Begun
  <1>3. Taken = {} /\ Copied = {}
    BY <1>1, TracksOfMovie DEF Taken, Pairs, Copied
  <1>4. PlaceInv
    BY <1>1, <1>3 DEF PlaceInv, Begun
  <1>5. Made = {} /\ Before = {} /\ Result = "none"
    BY <1>1, <1>3 DEF Made, Before, Result
  <1> QED
    BY <1>1, <1>2, <1>4, <1>5 DEF RemuxInv, Promise!Init

LEMMA RemuxStep ==
    ASSUME RemuxInv, [Next]_vars
    PROVE  RemuxInv' /\ [Promise!Next]_(Promise!vars)
  <1>1. Inv' /\ RoomInv' /\ OrderInv'
    BY StepKeeps, RoomKeeps, StepOrdered DEF RemuxInv
  <1>2. same' = same
    BY DEF RemuxInv, Next, Start, Copy, Leave, vars, disks, OpenFails,
       OpenTarget, Begin, BeginFails, TimeFails, ReadChunk, ReadFails,
       RewriteChunk, WriteFails, EndOfLoop, Finish, FinishUnflushed,
       FinishFails, Unwind, FinishUpTo
  <1>3. PlaceInv' /\ (Promise!Next \/ Hidden)
    <2>1. CASE UNCHANGED vars
      <3>1. UNCHANGED <<movie, target, current, position, pc, dst, failed>>
        BY <2>1 DEF vars, disks
      <3>2. /\ Copied' = Copied /\ Taken' = Taken /\ Reserved' = Reserved
            /\ Left' = Left /\ Result' = Result
        BY <3>1 DEF Copied, Taken, Pairs, Tracks, Chunks, Reserved, MoovStart,
           Entries, Left, Final, Result
      <3>3. Made' = Made /\ Before' = Before
        BY <3>2, ChunksKept
      <3> QED
        BY <3>1, <3>2, <3>3 DEF RemuxInv, PlaceInv, Begun, Hidden
    <2> QED
      BY <2>1, StartRemuxes, CopyRemuxes, LeaveRemuxes DEF Next
  <1> QED
    BY <1>1, <1>2, <1>3 DEF RemuxInv, Hidden, Promise!vars

(***************************************************************************)
(* For every movie, and whatever fails: copying to another path puts each  *)
(* chunk once into the destination, in the order of time, the headers      *)
(* written in the end overwrite none of them, success is reported of all   *)
(* of them or not at all, and failure of none of them or of those before   *)
(* one that has no time.                                                   *)
(***************************************************************************)
THEOREM CopyImplementsRemux == Spec /\ ~ same => Remuxes
  <1>1. Init /\ ~ same => RemuxInv /\ Promise!Init
    BY RemuxInit
  <1>2. RemuxInv /\ [Next]_vars => RemuxInv' /\ [Promise!Next]_(Promise!vars)
    BY RemuxStep
  <1> QED
    BY <1>1, <1>2, PTL DEF Spec, Remuxes, Promise!Spec

-----------------------------------------------------------------------------
(* Types, and that no two extents of the destination overlap *)

IsExtent(e)      == e.at \in Nat /\ e.size \in Nat \ {0} /\ e.span \in Nat
WellPlaced(disk) == /\ \A e \in disk : IsExtent(e)
                    /\ \A e, f \in disk : e = f \/ Apart(e, f)

LEMMA PutPlaced ==
    ASSUME NEW disk, WellPlaced(disk), NEW e, IsExtent(e)
    PROVE  WellPlaced(Put(disk, e))
  BY DEF WellPlaced, Put, Apart

LEMMA PutAllPlaced ==
    ASSUME NEW disk, WellPlaced(disk), NEW S, NEW w \in Seq(S),
           \A e \in S : IsExtent(e)
    PROVE  WellPlaced(PutAll(disk, w))
  <1> DEFINE left == {f \in disk : \A i \in DOMAIN w : Apart(f, w[i])}
             kept == {j \in DOMAIN w :
                        \A k \in DOMAIN w : k > j => Apart(w[j], w[k])}
  <1>1. DOMAIN w = 1 .. Len(w) /\ Len(w) \in Nat /\ \A i \in DOMAIN w : w[i] \in S
    BY LenProperties, ElementOfSeq
  <1>2. PutAll(disk, w) = left \cup {w[i] : i \in kept}
    BY DEF PutAll
  <1>3. ASSUME NEW e \in PutAll(disk, w)
        PROVE  IsExtent(e)
    BY <1>1, <1>2, <1>3 DEF WellPlaced
  <1>4. ASSUME NEW e \in left, NEW f \in left
        PROVE  e = f \/ Apart(e, f)
    BY <1>4 DEF WellPlaced
  <1>5. ASSUME NEW e \in left, NEW i \in kept
        PROVE  Apart(e, w[i]) /\ Apart(w[i], e)
    BY <1>5 DEF Apart
  <1>6. ASSUME NEW i \in kept, NEW j \in kept
        PROVE  w[i] = w[j] \/ Apart(w[i], w[j])
    <2>1. i \in Nat /\ j \in Nat
      BY <1>1
    <2>2. CASE i < j
      BY <2>1, <2>2
    <2>3. CASE j < i
      <3>1. Apart(w[j], w[i])
        BY <2>1, <2>3
      <3> QED
        BY <3>1 DEF Apart
    <2> QED
      BY <2>1, <2>2, <2>3
  <1> HIDE DEF left, kept
  <1> QED
    BY <1>2, <1>3, <1>4, <1>5, <1>6 DEF WellPlaced

LEMMA SizesOfMoov ==
    ASSUME movie \in Movies
    PROVE  /\ CurrentMoovSize \in Nat \ {0} /\ Room \in Nat
           /\ MoovStart \in Nat /\ FreeStart \in Nat /\ MdatStart \in Nat
           /\ MdatStart - 8 \in Nat
  <1>1. /\ Cardinality(Entries) \in Nat
        /\ Cardinality(WideEntries) \in 0 .. Cardinality(Entries)
        /\ Cardinality(Entries \ WideEntries) =
              Cardinality(Entries) - Cardinality(WideEntries)
    BY TableSizes
  <1>2. FtypSize \in Nat /\ MoovSize \in Nat \ {0} /\ FreeRoom \in Nat
        /\ movie.udta \in Nat
    BY SizesAssumption, TracksOfMovie
  <1>3. CurrentMoovSize \in Nat \ {0} /\ Room \in Nat
    BY <1>1, <1>2 DEF CurrentMoovSize, Room
  <1> QED
    BY <1>2, <1>3 DEF MoovStart, FreeStart, MdatStart

LEMMA BeginAtomsPlaced ==
    ASSUME movie \in Movies, NEW e \in BeginAtoms
    PROVE  IsExtent(e)
  <1>1. /\ CurrentMoovSize \in Nat \ {0} /\ Room \in Nat
        /\ MoovStart \in Nat /\ FreeStart \in Nat /\ MdatStart \in Nat
        /\ MdatStart - 8 \in Nat
        /\ FtypSize \in Nat \ {0} /\ movie.udta \in Nat
    BY SizesOfMoov, SizesAssumption, TracksOfMovie
  <1> QED
    BY <1>1 DEF BeginAtoms, MoovAtom, Atom, IsExtent

LEMMA FinishAtomsPlaced ==
    ASSUME RoomInv, Begun, position \in Nat, Reserved + 8 <= position,
           NEW e \in FinishAtoms
    PROVE  IsExtent(e)
  <1>1. /\ mdat.start = Reserved /\ moov.start = MoovStart /\ movie \in Movies
    BY DEF RoomInv
  <1>2. /\ CurrentMoovSize \in Nat \ {0} /\ MoovStart \in Nat
        /\ movie.udta \in Nat /\ Reserved \in Nat
    BY <1>1, SizesOfMoov, TracksOfMovie, Reserving
  <1>3. /\ FinishedMdat.at - MoovEnd >= 8 /\ FinishedMdat.at \in Int
        /\ MoovEnd \in Nat
    BY RoomForMoov
  <1>4. IsExtent(FinishedMdat)
    <2>1. FinishedMdat.at \in Nat
      BY <1>3
    <2>2. /\ FinishedMdat.size \in {8, 16}
          /\ FinishedMdat.span \in {position - mdat.start + 8, position - mdat.start}
      BY DEF FinishedMdat, Atom
    <2> QED
      BY <1>1, <1>2, <2>1, <2>2 DEF IsExtent
  <1>5. IsExtent(MoovAtom(moov.start))
    BY <1>1, <1>2 DEF MoovAtom, Atom, IsExtent
  <1>6. movie.udta # 0 =>
          IsExtent(Atom("udta", moov.start + CurrentMoovSize, movie.udta, movie.udta))
    BY <1>1, <1>2 DEF Atom, IsExtent
  <1>7. IsExtent(Atom("free", MoovEnd, 8, FinishedMdat.at - MoovEnd))
    BY <1>3 DEF Atom, IsExtent
  <1> QED
    BY <1>4, <1>5, <1>6, <1>7 DEF FinishAtoms

Domains ==
    /\ DOMAIN current = Tracks /\ DOMAIN offset = Tracks
    /\ \A t \in Tracks : DOMAIN offset[t] = Chunks(t)

TypeInv ==
    /\ Inv /\ RoomInv /\ TypeOK /\ Domains
    /\ pc = "write" => chunk.track \in Left
    /\ Begun => Reserved + 8 <= position

\* a step that only writes to the destination, or opens it
LEMMA TypesKept ==
    ASSUME TypeInv, UNCHANGED <<movie, same, offset, current>>,
           Inv', RoomInv', WellPlaced(target'),
           file' \in {"src", "dst"}, dst' \in {"none", "dst"},
           failed' \subseteq {"src", "dst"}, position' \in Nat,
           Done' \/ pc' \in {"start", "begin", "copy", "write", "finish", "unwind"},
           pc' = "write" => chunk'.track \in Left,
           Begun' => Reserved + 8 <= position'
    PROVE  TypeInv'
  <1>1. /\ Tracks' = Tracks /\ (\A t : Chunks(t)' = Chunks(t) /\ Final(t)' = Final(t))
        /\ Left' = Left /\ Reserved' = Reserved
    BY DEF Tracks, Chunks, Final, Left, Reserved, MoovStart, Entries
  <1>2. Domains'
    BY <1>1 DEF TypeInv, Domains
  <1>3. TypeOK'
    BY <1>1 DEF TypeInv, TypeOK, WellPlaced, IsExtent
  <1> QED
    BY <1>1, <1>2, <1>3 DEF TypeInv

LEMMA PlacedNow ==
    ASSUME TypeInv
    PROVE  WellPlaced(target) /\ movie \in Movies
  BY DEF TypeInv, TypeOK, WellPlaced, IsExtent

LEMMA StartTyped ==
    ASSUME TypeInv, Start
    PROVE  TypeInv'
  <1>1. Inv' /\ RoomInv'
    BY StepKeeps, RoomKeeps DEF TypeInv, Next
  <1>2. /\ UNCHANGED <<movie, same, offset, current>>
        /\ file' \in {"src", "dst"} /\ dst' \in {"none", "dst"}
        /\ failed' \subseteq {"src", "dst"}
        /\ pc' \in {"begin", "copy", "unwind"}
    BY DEF Start, OpenFails, OpenTarget, Begin, BeginFails, Throw, disks, TypeInv,
       TypeOK
  <1>3. WellPlaced(target')
    <2>1. CASE OpenFails
      BY <2>1, PlacedNow DEF OpenFails, disks
    <2>2. CASE OpenTarget
      BY <2>2 DEF OpenTarget, WellPlaced
    <2>3. CASE Begin
      BY <2>3, PlacedNow, BeginWrites, BeginAtomsPlaced, PutAllPlaced DEF Begin
    <2>4. CASE BeginFails
      <3>1. PICK k \in 0 .. Len(BeginOptimalWrite) - 1 :
                target' = PutAll(target, SubSeq(BeginOptimalWrite, 1, k))
        BY <2>4 DEF BeginFails
      <3>2. k \in 0 .. Len(BeginOptimalWrite)
        BY <3>1, BeginWrites
      <3> QED
        BY <3>1, <3>2, PlacedNow, BeginWrites, BeginAtomsPlaced, PutAllPlaced
    <2> QED
      BY <2>1, <2>2, <2>3, <2>4 DEF Start
  <1>4. position' \in Nat /\ (Begun' => Reserved + 8 <= position')
    <2>1. CASE Begin
      <3>1. position' = MdatStart + 8 /\ MdatStart = Reserved /\ Reserved \in Nat
        BY <2>1, PlacedNow, Reserving DEF Begin
      <3> QED
        BY <3>1
    <2>2. CASE ~ Begin
      BY <2>2 DEF Start, OpenFails, OpenTarget, BeginFails, Throw, TypeInv, TypeOK,
         Inv, Begun
    <2> QED
      BY <2>1, <2>2
  <1> QED
    BY <1>1, <1>2, <1>3, <1>4, TypesKept

LEMMA RewriteChunkTyped ==
    ASSUME TypeInv, RewriteChunk
    PROVE  TypeInv'
  <1> DEFINE t == chunk.track
             c == current[t]
             new == ChunkExtent(chunk.of, position, Size(t, c))
  <1>1. /\ UNCHANGED <<movie, same, failed, dst>> /\ pc = "write" /\ pc' = "copy"
        /\ file' = dst
        /\ target' = Put(target, new)
        /\ offset' = [offset EXCEPT ![t][c] = position]
        /\ position' = position + Size(t, c)
        /\ current' = [current EXCEPT ![t] = c + 1]
    BY DEF RewriteChunk
  <1>2. /\ movie \in Movies /\ Domains /\ t \in Left /\ position \in Nat
        /\ \A u \in Tracks : /\ current[u] \in 1 .. Final(u) + 1
                             /\ \A d \in Chunks(u) : offset[u][d] \in Nat
        /\ Reserved + 8 <= position /\ failed \subseteq {"src", "dst"}
        /\ dst \in {"none", "dst"} /\ same \in BOOLEAN
    BY <1>1 DEF TypeInv, TypeOK, Begun
  <1>3. t \in Tracks /\ c \in Chunks(t) /\ c \in 1 .. Final(t) /\ Final(t) \in Nat
    BY <1>2, TracksOfMovie DEF Left
  <1>4. Size(t, c) \in Nat \ {0}
    BY <1>2, <1>3, MoviesAssumption DEF IsMovie, Size, Tracks, Chunks
  <1>5. WellPlaced(target')
    <2>1. IsExtent(new)
      BY <1>2, <1>4 DEF ChunkExtent, IsExtent
    <2> QED
      BY <1>1, <2>1, PlacedNow, PutPlaced
  <1>6. /\ Tracks' = Tracks /\ (\A u : Chunks(u)' = Chunks(u) /\ Final(u)' = Final(u))
        /\ Reserved' = Reserved /\ Reserved \in Nat
    BY <1>1, <1>2, Reserving DEF Tracks, Chunks, Final, Reserved, MoovStart, Entries
  <1>7. /\ Domains'
        /\ \A u \in Tracks : /\ current'[u] \in 1 .. Final(u) + 1
                             /\ \A d \in Chunks(u) : offset'[u][d] \in Nat
    <2>1. DOMAIN current' = Tracks /\ DOMAIN offset' = Tracks
      BY <1>1, <1>2 DEF Domains
    <2>2. ASSUME NEW u \in Tracks
          PROVE  /\ current'[u] \in 1 .. Final(u) + 1
                 /\ DOMAIN offset'[u] = Chunks(u)
                 /\ \A d \in Chunks(u) : offset'[u][d] \in Nat
      <3>1. current[u] \in 1 .. Final(u) + 1 /\ DOMAIN offset[u] = Chunks(u)
            /\ \A d \in Chunks(u) : offset[u][d] \in Nat
        BY <1>2 DEF Domains
      <3>2. CASE u = t
        <4>1. offset'[t] = [offset[t] EXCEPT ![c] = position] /\ current'[t] = c + 1
          BY <1>1, <1>2, <1>3 DEF Domains
        <4> QED
          BY <1>2, <1>3, <3>1, <3>2, <4>1
      <3>3. CASE u # t
        <4>1. offset'[u] = offset[u] /\ current'[u] = current[u]
          BY <1>1, <1>2, <3>3 DEF Domains
        <4> QED
          BY <3>1, <4>1
      <3> QED
        BY <3>2, <3>3
    <2> QED
      BY <1>6, <2>1, <2>2 DEF Domains
  <1>8. TypeOK'
    <2>1. position' \in Nat
      BY <1>1, <1>2, <1>4
    <2>2. file' \in {"src", "dst"}
      <3>1. dst = "dst"
        BY <1>1 DEF TypeInv, Inv
      <3> QED
        BY <1>1, <3>1
    <2> QED
      BY <1>1, <1>2, <1>5, <1>6, <1>7, <2>1, <2>2 DEF TypeOK, WellPlaced, IsExtent
  <1>9. Reserved' + 8 <= position'
    BY <1>1, <1>2, <1>4, <1>6
  <1>10. Inv' /\ RoomInv'
    BY StepKeeps, RoomKeeps DEF TypeInv, Next, Copy
  <1> QED
    BY <1>1, <1>7, <1>8, <1>9, <1>10 DEF TypeInv

LEMMA CopyTyped ==
    ASSUME TypeInv, Copy
    PROVE  TypeInv'
  <1>1. CASE TimeFails \/ ReadChunk \/ ReadFails \/ WriteFails \/ EndOfLoop
    <2>1. /\ UNCHANGED <<movie, same, offset, current, target, position>>
          /\ pc \in {"copy", "write"}
          /\ file' \in {"src", dst, file} /\ dst' = dst
          /\ failed' \subseteq failed \cup {"src", "dst"}
          /\ pc' \in {"write", "finish", "unwind"}
      BY <1>1 DEF TimeFails, ReadChunk, ReadFails, WriteFails, EndOfLoop, Throw,
         disks
    <2>2. /\ file \in {"src", "dst"} /\ dst = "dst"
          /\ failed \subseteq {"src", "dst"} /\ position \in Nat
          /\ Reserved + 8 <= position
      BY <2>1 DEF TypeInv, TypeOK, Inv, Begun
    <2>3. Inv' /\ RoomInv'
      BY StepKeeps, RoomKeeps DEF TypeInv, Next
    <2>4. ASSUME pc' = "write"
          PROVE  chunk'.track \in Left
      <3>1. CASE ReadChunk
        <4>1. PICK t \in Tracks : IsNext(t) /\ \E S : chunk' \in [track : {t}, of : S]
          BY <3>1 DEF ReadChunk
        <4> QED
          BY <4>1 DEF IsNext, Hints, Earliest
      <3>2. CASE ~ ReadChunk
        BY <1>1, <2>4, <3>2 DEF TimeFails, ReadFails, WriteFails, EndOfLoop, Throw
      <3> QED
        BY <3>1, <3>2
    <2>5. WellPlaced(target')
      BY <2>1, PlacedNow
    <2> QED
      BY <2>1, <2>2, <2>3, <2>4, <2>5, TypesKept
  <1>2. CASE RewriteChunk
    BY <1>2, RewriteChunkTyped
  <1> QED
    BY <1>1, <1>2 DEF Copy

LEMMA LeaveTyped ==
    ASSUME TypeInv, Leave
    PROVE  TypeInv'
  <1>1. Inv' /\ RoomInv'
    BY StepKeeps, RoomKeeps DEF TypeInv, Next
  <1>2. /\ UNCHANGED <<movie, same, offset, current, position, failed>>
        /\ file' \in {"src", file} /\ dst' \in {"none", dst} /\ Done'
        /\ pc' \notin {"copy", "write", "finish", "unwind"}
    BY DEF Leave, Finish, FinishUnflushed, FinishFails, Unwind, FinishUpTo, disks,
       Done, Reported
  <1>3. /\ file \in {"src", "dst"} /\ dst \in {"none", "dst"}
        /\ failed \subseteq {"src", "dst"} /\ position \in Nat
    BY DEF TypeInv, TypeOK
  <1>4. WellPlaced(target')
    <2>1. CASE target' = target
      BY <2>1, PlacedNow
    <2>2. CASE target' # target
      <3>1. PICK n \in 0 .. AllWrites : FinishUpTo(n) /\ Begun
        BY <2>2, Leaving DEF TypeInv
      <3>2. target' = PutAll(target, SubSeq(FinishOptimalWrite, 1, n))
        BY <3>1 DEF FinishUpTo
      <3>3. \A e \in FinishAtoms : IsExtent(e)
        BY <1>3, <3>1, FinishAtomsPlaced DEF TypeInv
      <3> QED
        BY <3>2, <3>3, PlacedNow, FinishWrites, PutAllPlaced
    <2> QED
      BY <2>1, <2>2
  <1>5. ~ Begun'
    BY <1>2 DEF Begun
  <1> QED
    BY <1>1, <1>2, <1>3, <1>4, <1>5, TypesKept

LEMMA InitTyped ==
    ASSUME Init
    PROVE  TypeInv
  <1>1. /\ movie \in Movies /\ same \in BOOLEAN /\ target = {} /\ pc = "start"
        /\ current = [t \in Tracks |-> 1]
        /\ offset = [t \in Tracks |-> [c \in Chunks(t) |->
                                          movie.tracks[t].chunks[c].at]]
        /\ file = "src" /\ dst = "none" /\ position = 0 /\ failed = {}
    BY SamePathAssumption DEF Init
  <1>2. Inv /\ RoomInv /\ ~ Begun
    BY InitKeeps DEF Init, RoomInv, Begun
  <1>3. Domains
    BY <1>1 DEF Domains
  <1>4. \A t \in Tracks : \A c \in Chunks(t) : movie.tracks[t].chunks[c].at \in Nat
    BY <1>1, MoviesAssumption DEF IsMovie, Tracks, Chunks
  <1>5. TypeOK
    BY <1>1, <1>4, TracksOfMovie DEF TypeOK
  <1> QED
    BY <1>1, <1>2, <1>3, <1>5 DEF TypeInv

LEMMA StepTyped ==
    ASSUME TypeInv, [Next]_vars
    PROVE  TypeInv'
  <1>1. CASE UNCHANGED vars
    <2>1. UNCHANGED <<movie, same, offset, current, target, file, dst, position,
                      failed, pc, chunk>>
      BY <1>1 DEF vars, disks
    <2>2. Inv' /\ RoomInv' /\ WellPlaced(target')
      BY <2>1, PlacedNow, StepKeeps, RoomKeeps DEF TypeInv
    <2>3. Done' = Done /\ Begun' = Begun
      BY <2>1 DEF Done, Begun
    <2> QED
      BY <2>1, <2>2, <2>3, TypesKept DEF TypeInv, TypeOK
  <1> QED
    BY <1>1, StartTyped, CopyTyped, LeaveTyped DEF Next

(***************************************************************************)
(* The types of the copier's state.  Of the destination this says that     *)
(* extents have a size and that none overlaps another: every write, even   *)
(* the one that overlaps what was there, leaves the file well placed.      *)
(***************************************************************************)
THEOREM CopyTypes == Spec => []TypeOK
  <1>1. Init => TypeInv
    BY InitTyped
  <1>2. TypeInv /\ [Next]_vars => TypeInv'
    BY StepTyped
  <1>3. TypeInv => TypeOK
    BY DEF TypeInv
  <1> QED
    BY <1>1, <1>2, <1>3, PTL DEF Spec

-----------------------------------------------------------------------------
(* What is left behind is playable *)

\* atoms that follow each other from the start of a file
Path(disk, s, n) ==
    /\ n \in Nat \ {0} /\ s \in [1 .. n -> disk] /\ s[1].at = 0
    /\ \A i \in 1 .. n : s[i].at \in Nat /\ s[i].span \in Nat \ {0}
    /\ \A i \in 1 .. n - 1 : s[i + 1].at = s[i].at + s[i].span

Reached(disk, e) == \E n : \E s : Path(disk, s, n) /\ s[n] = e

LEMMA FirstReached ==
    ASSUME NEW disk, NEW e \in disk, e.at = 0, e.span \in Nat \ {0}
    PROVE  Reached(disk, e)
  <1> DEFINE s == [i \in 1 .. 1 |-> e]
  <1>1. Path(disk, s, 1) /\ s[1] = e
    BY DEF Path
  <1> QED
    BY <1>1 DEF Reached

LEMMA NextReached ==
    ASSUME NEW disk, NEW e, Reached(disk, e), NEW f \in disk,
           f.at = e.at + e.span, f.span \in Nat \ {0}
    PROVE  Reached(disk, f)
  <1>1. PICK n, s : Path(disk, s, n) /\ s[n] = e
    BY DEF Reached
  <1> DEFINE r == [i \in 1 .. n + 1 |-> IF i = n + 1 THEN f ELSE s[i]]
  <1>2. n \in Nat \ {0} /\ s \in [1 .. n -> disk] /\ n \in 1 .. n
        /\ s[n].at \in Nat /\ s[n].span \in Nat \ {0}
    BY <1>1 DEF Path
  <1>3. f.at \in Nat
    BY <1>1, <1>2
  <1>4. /\ r \in [1 .. n + 1 -> disk] /\ r[n + 1] = f
        /\ \A i \in 1 .. n : r[i] = s[i]
    BY <1>2
  <1> HIDE DEF r
  <1>5. Path(disk, r, n + 1)
    <2>1. r[1].at = 0
      BY <1>1, <1>2, <1>4 DEF Path
    <2>2. \A i \in 1 .. n + 1 : r[i].at \in Nat /\ r[i].span \in Nat \ {0}
      <3> SUFFICES ASSUME NEW i \in 1 .. n + 1
                   PROVE  r[i].at \in Nat /\ r[i].span \in Nat \ {0}
        OBVIOUS
      <3>1. i = n + 1 \/ i \in 1 .. n
        BY <1>2
      <3> QED
        BY <1>1, <1>3, <1>4, <3>1 DEF Path
    <2>3. ASSUME NEW i \in 1 .. (n + 1) - 1
          PROVE  r[i + 1].at = r[i].at + r[i].span
      <3>1. i \in 1 .. n
        BY <1>2
      <3>2. i = n \/ (i \in 1 .. n - 1 /\ i + 1 \in 1 .. n)
        BY <1>2
      <3> QED
        BY <1>1, <1>4, <3>1, <3>2 DEF Path
    <2> QED
      BY <1>2, <1>4, <2>1, <2>2, <2>3 DEF Path
  <1> QED
    BY <1>4, <1>5 DEF Reached

\* the positions of atoms that follow each other increase
LEMMA PathInjective ==
    ASSUME NEW disk, NEW n, NEW s, Path(disk, s, n), IsFiniteSet(disk)
    PROVE  n <= Cardinality(disk) /\ Cardinality(disk) \in Nat
  <1>1. n \in Nat \ {0} /\ s \in [1 .. n -> disk]
    BY DEF Path
  <1>2. ASSUME NEW i \in 1 .. n, NEW j \in 1 .. n, i < j
        PROVE  s[i].at < s[j].at
    <2> DEFINE S == {k \in 1 .. n : s[i].at < s[k].at}
    <2>1. i + 1 \in S
      <3>1. i \in 1 .. n - 1 /\ i + 1 \in 1 .. n
        BY <1>1, <1>2
      <3>2. s[i + 1].at = s[i].at + s[i].span /\ s[i].at \in Nat
            /\ s[i].span \in Nat \ {0}
        BY <3>1 DEF Path
      <3> QED
        BY <3>1, <3>2
    <2>2. ASSUME NEW k \in i + 1 .. n - 1, k \in S
          PROVE  k + 1 \in S
      <3>1. k \in 1 .. n - 1 /\ k + 1 \in 1 .. n
        BY <1>1, <2>2
      <3>2. /\ s[k + 1].at = s[k].at + s[k].span /\ s[k].at \in Nat
            /\ s[k].span \in Nat \ {0} /\ s[i].at \in Nat
        BY <3>1 DEF Path
      <3> QED
        BY <2>2, <3>1, <3>2
    <2>3. i + 1 \in Int /\ n \in Int
      BY <1>1
    <2> HIDE DEF S
    <2>4. i + 1 .. n \subseteq S
      BY <2>1, <2>2, <2>3, IntervalInduction
    <2>5. j \in i + 1 .. n
      BY <1>1, <1>2
    <2> QED
      BY <2>4, <2>5 DEF S
  <1>3. ASSUME NEW i \in 1 .. n, NEW j \in 1 .. n, s[i] = s[j]
        PROVE  i = j
    <2>1. s[i].at \in Nat /\ ~ (i < j) /\ ~ (j < i)
      BY <1>2, <1>3 DEF Path
    <2> QED
      BY <1>1, <2>1
  <1>4. s \in Injection(1 .. n, disk)
    BY <1>1, <1>3 DEF Injection, IsInjective
  <1>5. Cardinality(1 .. n) <= Cardinality(disk)
    BY <1>4, FS_Injection
  <1>6. Cardinality(1 .. n) = n
    <2>1. 1 \in Int /\ n \in Int /\ ~ (1 > n)
      BY <1>1
    <2>2. Cardinality(1 .. n) = n - 1 + 1
      BY <2>1, FS_Interval
    <2> QED
      BY <2>1, <2>2
  <1> QED
    BY <1>5, <1>6, FS_CardinalityType

LEMMA ReachedRead ==
    ASSUME IsFiniteSet(target), NEW e, Reached(target, e)
    PROVE  e \in AtomsRead
  <1>1. PICK n, s : Path(target, s, n) /\ s[n] = e
    BY DEF Reached
  <1> DEFINE N == Cardinality(target)
             Follow(S) == S \cup UNION {AtomAt(x.at + x.span) : x \in S}
             R == SUBSET target
             step == [p \in (1 .. N) \X R |-> Follow(p[2])]
             reached == CHOOSE g : g = [k \in 0 .. N |->
                           IF k = 0 THEN AtomAt(0)
                           ELSE g[k - 1] \cup
                                UNION {AtomAt(x.at + x.span) : x \in g[k - 1]}]
  <1>2. n \in Nat \ {0} /\ s \in [1 .. n -> target] /\ n <= N /\ N \in Nat
    BY <1>1, PathInjective DEF Path
  <1>3. \A at : AtomAt(at) \in R
    BY DEF AtomAt
  <1>4. ASSUME NEW S \in R PROVE Follow(S) \in R
    BY <1>3
  <1>5. step \in [(1 .. N) \X R -> R]
        /\ \A k \in 1 .. N : \A S \in R : step[<<k, S>>] = Follow(S)
    BY <1>4
  <1> HIDE DEF step, Follow, R
  <1>6. PICK g \in [0 .. N -> R] : Stepped(g, 0, N, AtomAt(0), step)
    <2>1. 0 \in Int /\ N \in Int /\ 0 <= N /\ AtomAt(0) \in R /\ 0 + 1 = 1
      BY <1>2, <1>3
    <2>2. step \in [(0 + 1 .. N) \X R -> R]
      BY <1>5, <2>1
    <2> HIDE DEF N
    <2> QED
      BY <2>1, <2>2, Recursion, Zenon
  <1>7. /\ g[0] = AtomAt(0)
        /\ \A k \in 1 .. N : g[k] = Follow(g[k - 1])
    <2>1. \A k \in 1 .. N : k \in 0 + 1 .. N /\ k - 1 \in 0 .. N
      BY <1>2
    <2> QED
      BY <1>5, <1>6, <2>1 DEF Stepped
  <1> HIDE DEF N
  <1>8. g = [k \in 0 .. N |-> IF k = 0 THEN AtomAt(0)
                              ELSE g[k - 1] \cup
                                   UNION {AtomAt(x.at + x.span) : x \in g[k - 1]}]
    <2>1. \A k \in 0 .. N : k # 0 => k \in 1 .. N
      BY <1>2
    <2> QED
      BY <1>6, <1>7, <2>1 DEF Follow
  <1>9. reached = [k \in 0 .. N |->
                      IF k = 0 THEN AtomAt(0)
                      ELSE reached[k - 1] \cup
                           UNION {AtomAt(x.at + x.span) : x \in reached[k - 1]}]
    BY <1>8, Zenon
  <1>10. AtomsRead = reached[N]
    BY Zenon DEF AtomsRead, N
  <1> HIDE DEF reached
  <1>11. /\ reached[0] = AtomAt(0)
         /\ \A k \in 1 .. N : reached[k] = Follow(reached[k - 1])
    <2>1. 0 \in 0 .. N /\ \A k \in 1 .. N : k \in 0 .. N /\ k # 0
      BY <1>2
    <2> QED
      BY <1>9, <2>1, Zenon DEF Follow
  <1> DEFINE S == {i \in 1 .. n : s[i] \in reached[i - 1]}
  <1>12. 1 \in S
    <2>1. s[1] \in AtomAt(0)
      BY <1>1, <1>2 DEF Path, AtomAt
    <2> QED
      BY <1>2, <1>11, <2>1
  <1>13. ASSUME NEW i \in 1 .. n - 1, i \in S
         PROVE  i + 1 \in S
    <2>1. i + 1 \in 1 .. n /\ i \in 1 .. N /\ (i + 1) - 1 = i
      BY <1>2, <1>13
    <2>2. s[i + 1] \in AtomAt(s[i].at + s[i].span)
      BY <1>1, <1>2, <1>13, <2>1 DEF Path, AtomAt
    <2>3. s[i + 1] \in Follow(reached[i - 1])
      BY <1>13, <2>2 DEF Follow
    <2> QED
      BY <1>11, <2>1, <2>3
  <1>14. n \in S
    <2>1. 1 \in Int /\ n \in Int /\ n \in 1 .. n
      BY <1>2
    <2> HIDE DEF S
    <2>2. 1 .. n \subseteq S
      BY <1>12, <1>13, <2>1, IntervalInduction
    <2> QED
      BY <2>1, <2>2
  <1> DEFINE T == {k \in 0 .. N : e \in reached[k]}
  <1>15. n - 1 \in T
    BY <1>1, <1>2, <1>14
  <1>16. ASSUME NEW k \in n - 1 .. N - 1, k \in T
         PROVE  k + 1 \in T
    <2>1. k + 1 \in 1 .. N /\ k + 1 \in 0 .. N /\ (k + 1) - 1 = k
      BY <1>2, <1>16
    <2>2. e \in Follow(reached[k])
      BY <1>16 DEF Follow
    <2> QED
      BY <1>11, <2>1, <2>2
  <1>17. N \in T
    <2>1. n - 1 \in Int /\ N \in Int /\ N \in n - 1 .. N
      BY <1>2
    <2> HIDE DEF T
    <2>2. n - 1 .. N \subseteq T
      BY <1>15, <1>16, <2>1, IntervalInduction
    <2> QED
      BY <2>1, <2>2
  <1> QED
    BY <1>10, <1>17

\* every chunk that has been taken is where the table says, behind the header of
\* an mdat atom that is reached and ends with the file, as does whatever is
\* written last
Complete(disk, table) ==
    /\ IsFiniteSet(disk)
    /\ \A e \in disk : End(e) \in Nat /\ End(e) <= position
    /\ \E e \in disk : End(e) = position
    /\ \E a : Reached(disk, a) /\ a.kind = "moov"
    /\ \E a : /\ Reached(disk, a) /\ a.kind = "mdat"
              /\ a.at + a.span = position /\ a.at + a.size = Reserved + 8
    /\ \A t \in Tracks : \A c \in Chunks(t) : c < current[t] =>
          LET e == ChunkExtent(<<t, c>>, table[t][c], Size(t, c))
          IN  e \in disk /\ Reserved + 8 <= e.at

LEMMA CompletePlayable ==
    ASSUME Complete(target, moov.table), position \in Nat
    PROVE  Playable(CopiedEntries)
  <1> DEFINE ends == {End(e) : e \in target}
  <1>1. /\ IsFiniteSet(target)
        /\ \A e \in target : End(e) \in Nat /\ End(e) <= position
        /\ \E e \in target : End(e) = position
    BY DEF Complete
  <1>2. Max(ends) = position
    <2>1. ends \in SUBSET Int /\ position \in ends /\ \A x \in ends : x <= position
      BY <1>1
    <2> HIDE DEF ends
    <2> QED
      BY <2>1, MaxIs
  <1>3. PICK a : Reached(target, a) /\ a.kind = "moov"
    BY DEF Complete
  <1>4. PICK m : /\ Reached(target, m) /\ m.kind = "mdat"
                 /\ m.at + m.span = position /\ m.at + m.size = Reserved + 8
    BY DEF Complete
  <1>5. a \in AtomsRead /\ m \in AtomsRead
    BY <1>1, <1>3, <1>4, ReachedRead
  <1>6. ASSUME NEW t \in Tracks, NEW c \in Chunks(t), c < current[t]
        PROVE  LET e == ChunkExtent(<<t, c>>, moov.table[t][c], Size(t, c))
               IN  /\ e \in target /\ m.at + m.size <= e.at
                   /\ End(e) <= m.at + m.span
    <2> DEFINE e == ChunkExtent(<<t, c>>, moov.table[t][c], Size(t, c))
    <2>1. e \in target /\ Reserved + 8 <= e.at
      BY <1>6 DEF Complete
    <2> HIDE DEF e
    <2>2. m.at + m.size <= e.at /\ End(e) <= m.at + m.span
      BY <1>1, <1>4, <2>1
    <2> QED
      BY <2>1, <2>2 DEF e
  <1> HIDE DEF ends
  <1>7. /\ \E e \in AtomsRead : e.at + e.span = Max(ends)
        /\ \E e \in AtomsRead : e.kind = "moov"
    BY <1>2, <1>3, <1>4, <1>5
  <1>8. \E e \in AtomsRead :
           /\ e.kind = "mdat"
           /\ \A n \in CopiedEntries :
                 LET f == ChunkExtent(n, moov.table[n[1]][n[2]], Size(n[1], n[2]))
                 IN  /\ f \in target /\ e.at + e.size <= f.at
                     /\ End(f) <= e.at + e.span
    <2>1. \A n \in CopiedEntries : /\ n[1] \in Tracks /\ n[2] \in Chunks(n[1])
                                   /\ n[2] < current[n[1]] /\ n = <<n[1], n[2]>>
      BY DEF CopiedEntries, Entries
    <2>2. \A n \in CopiedEntries :
             LET f == ChunkExtent(n, moov.table[n[1]][n[2]], Size(n[1], n[2]))
             IN  /\ f \in target /\ m.at + m.size <= f.at
                 /\ End(f) <= m.at + m.span
      BY <1>6, <2>1
    <2> QED
      BY <1>4, <1>5, <2>2
  <1> QED
    BY <1>7, <1>8 DEF Playable, ends

\* what has been written before the first chunk
OldFree == MoovStart + moov.size + movie.udta
Opened ==
    {Atom("ftyp", 0, FtypSize, FtypSize),
     Atom("moov", MoovStart, moov.size, moov.size),
     Atom("free", OldFree, 8, Reserved - 8 - OldFree),
     Atom("free", Reserved - 8, 8, 8),
     Atom("mdat", Reserved, 8, 0)}
    \cup (IF movie.udta # 0
          THEN {Atom("udta", MoovStart + moov.size, movie.udta, movie.udta)} ELSE {})

\* while chunks are copied: those that have been taken are where the tables say,
\* the last of them ends at position, and the first atoms are untouched
Laid ==
    /\ moov = [start |-> MoovStart, size |-> moov.size, table |-> moov.table]
    /\ moov.size \in Nat \ {0} /\ OldFree + 16 <= Reserved
    /\ IsFiniteSet(target) /\ Opened \subseteq target
    /\ \A e \in target : End(e) <= position
    /\ position = Reserved + 8 \/ \E e \in Copied : End(e) = position
    /\ \A t \in Tracks : \A c \in Chunks(t) :
          c < current[t] =>
             ChunkExtent(<<t, c>>, offset[t][c], Size(t, c)) \in target

\* a file is left behind when the end is reported
Delivered == pc = "reported success" \/ (pc = "reported failure" /\ ~ Untouched)

PlayInv ==
    /\ RemuxInv /\ TypeInv
    /\ pc = "begin" => target = {}
    /\ Begun => Laid
    /\ pc = "reported success" => Left = {}
    /\ Delivered /\ (unflushed => ~ Resized) => Complete(target, moov.table)

\* writes that are apart from each other are all there
LEMMA WritesStay ==
    ASSUME NEW disk, NEW w,
           \A i, j \in DOMAIN w : j > i => Apart(w[i], w[j])
    PROVE  /\ \A i \in DOMAIN w : w[i] \in PutAll(disk, w)
           /\ \A f \in disk : (\A i \in DOMAIN w : Apart(f, w[i])) =>
                 f \in PutAll(disk, w)
           /\ PutAll(disk, w) \subseteq disk \cup {w[i] : i \in DOMAIN w}
  BY DEF PutAll

\* a concatenation, member by member
LEMMA Joined ==
    ASSUME NEW S, NEW s \in Seq(S), NEW t \in Seq(S)
    PROVE  /\ DOMAIN (s \o t) = 1 .. Len(s) + Len(t)
           /\ \A i \in 1 .. Len(s) : (s \o t)[i] = s[i]
           /\ \A i \in 1 .. Len(t) : (s \o t)[Len(s) + i] = t[i]
  <1> DEFINE w == s \o t
  <1>1. /\ w \in Seq(S) /\ Len(w) = Len(s) + Len(t)
        /\ \A i \in 1 .. Len(s) + Len(t) :
              w[i] = IF i <= Len(s) THEN s[i] ELSE t[i - Len(s)]
    BY ConcatProperties
  <1>2. Len(s) \in Nat /\ Len(t) \in Nat
    BY LenProperties
  <1> HIDE DEF w
  <1>3. /\ \A i \in 1 .. Len(s) : i \in 1 .. Len(s) + Len(t)
        /\ \A i \in 1 .. Len(t) : /\ Len(s) + i \in 1 .. Len(s) + Len(t)
                                  /\ ~ (Len(s) + i <= Len(s))
                                  /\ Len(s) + i - Len(s) = i
    BY <1>2
  <1> QED
    BY <1>1, <1>2, <1>3, LenProperties DEF w

LEMMA TwoAndThree ==
    ASSUME NEW a, NEW b, NEW c, NEW d, NEW e, NEW w, w = <<a, b>> \o <<c, d, e>>
    PROVE  /\ DOMAIN w = 1 .. 5 /\ w[1] = a /\ w[2] = b /\ w[3] = c /\ w[4] = d
           /\ w[5] = e
  <1> DEFINE S == {a, b, c, d, e}
  <1>1. <<a, b>> \in Seq(S) /\ <<c, d, e>> \in Seq(S)
    OBVIOUS
  <1> HIDE DEF S
  <1> QED
    BY <1>1, Joined

LEMMA TwoOneAndThree ==
    ASSUME NEW a, NEW b, NEW u, NEW c, NEW d, NEW e, NEW w,
           w = <<a, b>> \o <<u>> \o <<c, d, e>>
    PROVE  /\ DOMAIN w = 1 .. 6 /\ w[1] = a /\ w[2] = b /\ w[3] = u /\ w[4] = c
           /\ w[5] = d /\ w[6] = e
  <1> DEFINE S == {a, b, u, c, d, e}
             v == <<a, b>> \o <<u>>
  <1>1. <<a, b>> \in Seq(S) /\ <<u>> \in Seq(S) /\ <<c, d, e>> \in Seq(S)
    OBVIOUS
  <1> HIDE DEF S
  <1>2. v \in Seq(S) /\ Len(v) = 3 /\ v[1] = a /\ v[2] = b /\ v[3] = u
    BY <1>1, ConcatProperties
  <1> HIDE DEF v
  <1> QED
    BY <1>1, <1>2, Joined DEF v

LEMMA BeginWritesAll ==
    ASSUME movie \in Movies
    PROVE  PutAll({}, BeginOptimalWrite) = BeginAtoms
  <1> DEFINE a == Atom("ftyp", 0, FtypSize, FtypSize)
             b == MoovAtom(MoovStart)
             u == Atom("udta", MoovStart + CurrentMoovSize, movie.udta, movie.udta)
             c == Atom("free", FreeStart, 8, Room + 8)
             d == Atom("free", MdatStart - 8, 8, 8)
             e == Atom("mdat", MdatStart, 8, 0)
             w == BeginOptimalWrite
             udta == UdtaAtom(MoovStart + CurrentMoovSize)
  <1>1. /\ CurrentMoovSize \in Nat \ {0} /\ Room \in Nat
        /\ FtypSize \in Nat \ {0} /\ movie.udta \in Nat
        /\ MoovStart = FtypSize /\ FreeStart = MoovStart + CurrentMoovSize + movie.udta
        /\ MdatStart = FreeStart + 8 + Room + 8
    BY SizesOfMoov, SizesAssumption, TracksOfMovie DEF MoovStart, FreeStart, MdatStart
  <1>2. /\ a.at = 0 /\ End(a) = MoovStart
        /\ b.at = MoovStart /\ End(b) = MoovStart + CurrentMoovSize
        /\ u.at = MoovStart + CurrentMoovSize /\ End(u) = FreeStart
        /\ c.at = FreeStart /\ End(c) = FreeStart + 8
        /\ d.at = MdatStart - 8 /\ End(d) = MdatStart
        /\ e.at = MdatStart /\ End(e) = MdatStart + 8
    BY <1>1 DEF Atom, MoovAtom, End
  <1>3. w = <<a, b>> \o udta \o <<c, d, e>>
    BY DEF BeginOptimalWrite
  <1>4. /\ movie.udta = 0 => udta = <<>>
        /\ movie.udta # 0 => udta = <<u>>
    BY DEF UdtaAtom
  <1>5. BeginAtoms = {a, b, c, d, e} \cup (IF movie.udta # 0 THEN {u} ELSE {})
    BY DEF BeginAtoms
  <1> HIDE DEF a, b, c, d, e, u, w, udta
  <1>6. /\ Apart(a, b) /\ Apart(a, u) /\ Apart(a, c) /\ Apart(a, d) /\ Apart(a, e)
        /\ Apart(b, u) /\ Apart(b, c) /\ Apart(b, d) /\ Apart(b, e)
        /\ Apart(u, c) /\ Apart(u, d) /\ Apart(u, e)
        /\ Apart(c, d) /\ Apart(c, e) /\ Apart(d, e)
    BY <1>1, <1>2 DEF Apart
  <1>7. CASE movie.udta = 0
    <2>1. w = <<a, b>> \o <<c, d, e>>
      BY <1>3, <1>4, <1>7
    <2>2. /\ DOMAIN w = 1 .. 5 /\ w[1] = a /\ w[2] = b /\ w[3] = c /\ w[4] = d
          /\ w[5] = e
      BY <2>1, TwoAndThree
    <2>3. /\ \A i, j \in DOMAIN w : j > i => Apart(w[i], w[j])
          /\ {w[i] : i \in DOMAIN w} = {a, b, c, d, e}
          /\ \A i \in DOMAIN w : w[i] \in {a, b, c, d, e}
          /\ \A x \in {a, b, c, d, e} : \E i \in DOMAIN w : w[i] = x
      BY <1>6, <2>2
    <2> QED
      BY <1>5, <1>7, <2>3, WritesStay DEF w
  <1>8. CASE movie.udta # 0
    <2>1. w = <<a, b>> \o <<u>> \o <<c, d, e>>
      BY <1>3, <1>4, <1>8
    <2>2. /\ DOMAIN w = 1 .. 6 /\ w[1] = a /\ w[2] = b /\ w[3] = u /\ w[4] = c
          /\ w[5] = d /\ w[6] = e
      BY <2>1, TwoOneAndThree
    <2>3. /\ \A i, j \in DOMAIN w : j > i => Apart(w[i], w[j])
          /\ {w[i] : i \in DOMAIN w} = {a, b, u, c, d, e}
          /\ \A x \in {a, b, u, c, d, e} : \E i \in DOMAIN w : w[i] = x
      BY <1>6, <2>2
    <2> QED
      BY <1>5, <1>8, <2>3, WritesStay DEF w
  <1> QED
    BY <1>7, <1>8

LEMMA FewAtoms ==
    /\ IsFiniteSet(BeginAtoms)
    /\ \A disk, w, n : IsFiniteSet(disk) /\ n \in Nat /\ DOMAIN w = 1 .. n =>
          IsFiniteSet(PutAll(disk, w))
  <1>1. ASSUME NEW a, NEW b, NEW c, NEW d, NEW e, NEW u
        PROVE  IsFiniteSet({a, b, c, d, e} \cup {u}) /\ IsFiniteSet({a, b, c, d, e})
    <2>1. \A S, x : IsFiniteSet(S) => IsFiniteSet(S \cup {x})
      BY FS_AddElement
    <2>2. IsFiniteSet({a} \cup {b} \cup {c} \cup {d} \cup {e})
      BY <2>1, FS_Singleton, Zenon
    <2>3. {a, b, c, d, e} = {a} \cup {b} \cup {c} \cup {d} \cup {e}
      OBVIOUS
    <2> QED
      BY <2>1, <2>2, <2>3, Zenon
  <1>2. ASSUME NEW disk, NEW w, NEW n \in Nat, IsFiniteSet(disk), DOMAIN w = 1 .. n
        PROVE  IsFiniteSet(PutAll(disk, w))
    <2> DEFINE S == {w[i] : i \in 1 .. n}
               f == [i \in 1 .. n |-> w[i]]
    <2>1. f \in Surjection(1 .. n, S)
      BY DEF Surjection
    <2>5. IsFiniteSet(1 .. n)
      BY FS_Interval
    <2>2. IsFiniteSet(S)
      BY <2>1, <2>5, FS_Surjection
    <2>3. IsFiniteSet(disk \cup S)
      BY <1>2, <2>2, FS_Union
    <2>4. PutAll(disk, w) \in SUBSET (disk \cup S)
      BY <1>2 DEF PutAll
    <2> QED
      BY <2>3, <2>4, FS_Subset
  <1>3. IsFiniteSet(BeginAtoms)
    <2> DEFINE five == {Atom("ftyp", 0, FtypSize, FtypSize), MoovAtom(MoovStart),
                        Atom("free", FreeStart, 8, Room + 8),
                        Atom("free", MdatStart - 8, 8, 8),
                        Atom("mdat", MdatStart, 8, 0)}
               u == Atom("udta", MoovStart + CurrentMoovSize, movie.udta, movie.udta)
    <2>1. IsFiniteSet(five) /\ IsFiniteSet(five \cup {u})
      BY <1>1
    <2>2. BeginAtoms = five \cup (IF movie.udta # 0 THEN {u} ELSE {})
      BY DEF BeginAtoms
    <2> HIDE DEF five, u
    <2>3. BeginAtoms = five \/ BeginAtoms = five \cup {u}
      BY <2>2
    <2> QED
      BY <2>1, <2>3
  <1> QED
    BY <1>2, <1>3

LEMMA BeginLaid ==
    ASSUME PlayInv, Begin
    PROVE  Laid'
  <1>1. /\ UNCHANGED <<movie, offset, current>> /\ pc = "begin" /\ pc' = "copy"
        /\ target' = PutAll(target, BeginOptimalWrite)
        /\ moov' = [start |-> MoovStart, size |-> CurrentMoovSize, table |-> offset]
        /\ position' = MdatStart + 8
    BY DEF Begin
  <1>2. movie \in Movies /\ target = {} /\ Taken = {} /\ Tables
    BY <1>1 DEF PlayInv, RemuxInv, RoomInv, PlaceInv, OrderInv
  <1>3. target' = BeginAtoms
    BY <1>1, <1>2, BeginWritesAll
  <1>4. /\ CurrentMoovSize \in Nat \ {0} /\ Room \in Nat
        /\ FtypSize \in Nat \ {0} /\ movie.udta \in Nat
        /\ MoovStart = FtypSize /\ FreeStart = MoovStart + CurrentMoovSize + movie.udta
        /\ MdatStart = FreeStart + 8 + Room + 8 /\ MdatStart = Reserved
    BY <1>2, SizesOfMoov, SizesAssumption, TracksOfMovie, Reserving
       DEF MoovStart, FreeStart, MdatStart
  <1>5. /\ MoovStart' = MoovStart /\ Reserved' = Reserved /\ OldFree' = FreeStart
        /\ \A t : Chunks(t)' = Chunks(t)
        /\ Tracks' = Tracks
    BY <1>1, <1>4 DEF MoovStart, Reserved, Entries, Tracks, Chunks, OldFree
  <1>6. Opened' = BeginAtoms
    <2>1. Reserved - 8 - FreeStart = Room + 8 /\ MdatStart - 8 = Reserved - 8
      BY <1>4
    <2>2. movie' = movie /\ moov'.size = CurrentMoovSize
      BY <1>1
    <2> QED
      BY <1>4, <1>5, <2>1, <2>2 DEF Opened, BeginAtoms, MoovAtom
  <1>7. \A e \in BeginAtoms : End(e) <= MdatStart + 8
    BY <1>4 DEF BeginAtoms, MoovAtom, Atom, End
  <1>8. \A t \in Tracks : \A c \in Chunks(t) : ~ (c < current[t])
    <2> SUFFICES ASSUME NEW t \in Tracks, NEW c \in Chunks(t), c < current[t]
                 PROVE  FALSE
      OBVIOUS
    <2>1. c \in Nat
      BY <1>2, TracksOfMovie
    <2>2. <<t, c>> \in Pairs
      BY <2>1 DEF Pairs
    <2> QED
      BY <1>2, <2>2 DEF Taken
  <1>9. moov' = [start |-> MoovStart', size |-> moov'.size, table |-> moov'.table]
    BY <1>1, <1>5
  <1>10. moov'.size \in Nat \ {0} /\ OldFree' + 16 <= Reserved'
    BY <1>1, <1>4, <1>5
  <1>11. IsFiniteSet(target')
    BY <1>3, FewAtoms
  <1>12. \A t \in Tracks' : \A c \in Chunks(t)' : ~ (c < current'[t])
    BY <1>1, <1>5, <1>8
  <1>13. /\ \A e \in target' : End(e) <= position'
         /\ position' = Reserved' + 8
    BY <1>1, <1>3, <1>4, <1>5, <1>7
  <1> QED
    BY <1>3, <1>6, <1>9, <1>10, <1>11, <1>12, <1>13 DEF Laid

LEMMA RewriteChunkLaid ==
    ASSUME PlayInv, RewriteChunk
    PROVE  Laid'
  <1> DEFINE t == chunk.track
             c == current[t]
             new == ChunkExtent(chunk.of, position, Size(t, c))
  <1>1. /\ UNCHANGED <<movie, moov>> /\ pc = "write" /\ pc' = "copy"
        /\ target' = Put(target, new)
        /\ offset' = [offset EXCEPT ![t][c] = position]
        /\ position' = position + Size(t, c)
        /\ current' = [current EXCEPT ![t] = c + 1]
    BY DEF RewriteChunk, atoms
  <1>2. /\ movie \in Movies /\ Tables /\ Laid /\ TypeOK
        /\ t \in Earliest /\ chunk.of = <<t, c>>
        /\ position \in Nat /\ Reserved + 8 <= position
    BY <1>1 DEF PlayInv, TypeInv, RemuxInv, RoomInv, OrderInv, PlaceInv, Begun
  <1>3. /\ t \in Tracks /\ c \in Chunks(t) /\ c \in 1 .. Final(t)
        /\ Final(t) \in Nat /\ Chunks(t) = 1 .. Final(t)
    BY <1>2, TracksOfMovie DEF Earliest, Left, Tables
  <1>4. Size(t, c) \in Nat \ {0}
    BY <1>2, <1>3, MoviesAssumption DEF IsMovie, Size, Tracks, Chunks
  <1>5. /\ new.at = position /\ IsChunk(new) /\ End(new) = position'
        /\ new = ChunkExtent(<<t, c>>, position, Size(t, c))
    BY <1>1, <1>2 DEF ChunkExtent, IsChunk, End
  <1> HIDE DEF new
  <1>6. \A e \in target : Apart(e, new) /\ End(e) \in Nat /\ End(e) <= position
    BY <1>2, <1>5 DEF Apart, Laid, TypeOK, End
  <1>7. target' = target \cup {new}
    BY <1>1, <1>6 DEF Put
  <1>8. /\ Tracks' = Tracks /\ Reserved' = Reserved /\ MoovStart' = MoovStart
        /\ OldFree' = OldFree /\ Opened' = Opened
        /\ \A u : Chunks(u)' = Chunks(u)
        /\ \A u, d : Size(u, d)' = Size(u, d)
    BY <1>1 DEF MoovStart, Reserved, Entries, Tracks, Chunks, OldFree, Opened, Size
  <1>9. IsFiniteSet(target')
    BY <1>2, <1>7, FS_AddElement DEF Laid
  <1>10. /\ \A e \in target' : End(e) <= position'
         /\ \E e \in Copied' : End(e) = position'
    <2>1. position' \in Nat /\ position <= position'
      BY <1>1, <1>2, <1>4
    <2>2. \A e \in target : End(e) <= position'
      BY <1>2, <1>6, <2>1
    <2> QED
      BY <1>5, <1>7, <2>1, <2>2 DEF Copied
  <1>11. ASSUME NEW u \in Tracks, NEW d \in Chunks(u), d < current'[u]
         PROVE  ChunkExtent(<<u, d>>, offset'[u][d], Size(u, d)) \in target'
    <2>1. /\ DOMAIN current = Tracks /\ DOMAIN offset = Tracks
          /\ DOMAIN offset[u] = Chunks(u) /\ d \in Nat
      BY <1>2, TracksOfMovie DEF Tables
    <2>2. CASE u = t /\ d = c
      <3>1. offset'[u][d] = position
        BY <1>1, <1>3, <2>1, <2>2
      <3> QED
        BY <1>5, <1>7, <2>2, <3>1
    <2>3. CASE ~ (u = t /\ d = c)
      <3>1. offset'[u][d] = offset[u][d]
        BY <1>1, <1>3, <2>1, <2>3
      <3>2. d < current[u]
        <4>1. CASE u = t
          <5>1. current'[u] = c + 1 /\ d # c /\ c \in Nat
            BY <1>1, <1>3, <2>1, <2>3, <4>1
          <5> QED
            BY <1>11, <2>1, <4>1, <5>1
        <4>2. CASE u # t
          BY <1>1, <1>11, <2>1, <4>2
        <4> QED
          BY <4>1, <4>2
      <3>3. ChunkExtent(<<u, d>>, offset[u][d], Size(u, d)) \in target
        BY <1>2, <3>2 DEF Laid
      <3> QED
        BY <1>7, <3>1, <3>3
    <2> QED
      BY <2>2, <2>3
  <1>12. \A u \in Tracks' : \A d \in Chunks(u)' : d < current'[u] =>
            ChunkExtent(<<u, d>>, offset'[u][d], Size(u, d)') \in target'
    BY <1>8, <1>11
  <1>13. /\ moov' = [start |-> MoovStart', size |-> moov'.size, table |-> moov'.table]
         /\ moov'.size \in Nat \ {0} /\ OldFree' + 16 <= Reserved'
         /\ Opened' \subseteq target'
    BY <1>1, <1>2, <1>7, <1>8 DEF Laid
  <1> QED
    BY <1>9, <1>10, <1>12, <1>13 DEF Laid

\* what finish knows of its writes
LEMMA FinishPlaces ==
    ASSUME PlayInv, Begun
    PROVE  LET a == FinishedMdat
           IN  /\ mdat.start = Reserved /\ moov.start = MoovStart /\ movie \in Movies
               /\ Reserved \in Nat /\ MoovStart \in Nat \ {0} /\ movie.udta \in Nat
               /\ CurrentMoovSize \in Nat \ {0} /\ MoovEnd \in Nat
               /\ position \in Nat /\ Reserved + 8 <= position
               /\ a.at \in Nat /\ MoovEnd + 8 <= a.at /\ End(a) = Reserved + 8
               /\ a.at + a.size = Reserved + 8 /\ a.at + a.span = position
               /\ a.span \in Nat \ {0} /\ a.kind = "mdat"
               /\ a.at = Reserved \/ a.at = Reserved - 8
               /\ MoovEnd = MoovStart + CurrentMoovSize
                               + (IF Resized THEN movie.udta ELSE 0)
  <1>1. /\ mdat.start = Reserved /\ moov.start = MoovStart /\ movie \in Movies
        /\ position \in Nat /\ Reserved + 8 <= position
    BY DEF PlayInv, RemuxInv, RoomInv, TypeInv, TypeOK
  <1>2. /\ Reserved \in Nat /\ MoovStart \in Nat \ {0} /\ movie.udta \in Nat
        /\ CurrentMoovSize \in Nat \ {0}
    BY <1>1, SizesOfMoov, Reserving, TracksOfMovie, SizesAssumption DEF MoovStart
  <1>3. /\ FinishedMdat.at - MoovEnd >= 8 /\ FinishedMdat.at \in Int
        /\ MoovEnd \in Nat
    BY RoomForMoov DEF PlayInv, RemuxInv
  <1>4. /\ MoovEnd = MoovStart + CurrentMoovSize
                       + (IF Resized THEN movie.udta ELSE 0)
        /\ MoovEnd + 8 <= FinishedMdat.at /\ FinishedMdat.at \in Nat
    BY <1>1, <1>3 DEF MoovEnd
  <1>5. /\ End(FinishedMdat) = Reserved + 8
        /\ FinishedMdat.at + FinishedMdat.size = Reserved + 8
        /\ FinishedMdat.at + FinishedMdat.span = position
        /\ FinishedMdat.span \in Nat \ {0} /\ FinishedMdat.kind = "mdat"
        /\ FinishedMdat.at = Reserved \/ FinishedMdat.at = Reserved - 8
    BY <1>1, <1>2 DEF FinishedMdat, Atom, End
  <1> QED
    BY <1>1, <1>2, <1>3, <1>4, <1>5

\* whichever writes finish got to: if they led to mdat the file is complete
LEMMA Completed ==
    ASSUME PlayInv, Begun, NEW w, NEW n \in Nat \ {0}, DOMAIN w = 1 .. n,
           w[1] = FinishedMdat,
           \A i, j \in DOMAIN w : j > i => Apart(w[i], w[j]),
           \A i \in DOMAIN w : End(w[i]) \in Nat /\ End(w[i]) <= Reserved + 8,
           NEW disk, disk = PutAll(target, w), Reached(disk, FinishedMdat),
           \E a : Reached(disk, a) /\ a.kind = "moov"
    PROVE  Complete(disk, offset)
  <1>1. /\ Reserved \in Nat /\ position \in Nat /\ Reserved + 8 <= position
        /\ movie \in Movies
        /\ LET a == FinishedMdat
           IN  /\ a.kind = "mdat" /\ End(a) = Reserved + 8
               /\ a.at + a.span = position /\ a.at + a.size = Reserved + 8
    BY FinishPlaces
  <1>2. Laid /\ TypeOK /\ PlaceInv /\ Tables
    BY DEF PlayInv, RemuxInv, OrderInv, TypeInv
  <1>3. /\ \A i \in DOMAIN w : w[i] \in disk
        /\ \A f \in target : (\A i \in DOMAIN w : Apart(f, w[i])) => f \in disk
        /\ disk \subseteq target \cup {w[i] : i \in DOMAIN w}
    BY WritesStay
  <1>4. ASSUME NEW e \in Copied
        PROVE  e \in disk /\ Reserved + 8 <= e.at
    <2>1. e.at \in Nat /\ Reserved + 8 <= e.at /\ e \in target
      BY <1>2 DEF PlaceInv, Copied
    <2>2. \A i \in DOMAIN w : Apart(e, w[i])
      BY <1>1, <2>1 DEF Apart
    <2> QED
      BY <1>3, <2>1, <2>2
  <1>5. FinishedMdat \in disk
    BY <1>3
  <1>6. \A e \in disk : End(e) \in Nat /\ End(e) <= position
    <2>1. \A e \in target : End(e) \in Nat /\ End(e) <= position
      BY <1>2 DEF Laid, TypeOK, End
    <2>2. \A i \in DOMAIN w : End(w[i]) \in Nat /\ End(w[i]) <= position
      BY <1>1
    <2> QED
      BY <1>3, <2>1, <2>2
  <1>7. \E e \in disk : End(e) = position
    BY <1>1, <1>2, <1>4, <1>5 DEF Laid
  <1>8. ASSUME NEW t \in Tracks, NEW c \in Chunks(t), c < current[t]
        PROVE  LET e == ChunkExtent(<<t, c>>, offset[t][c], Size(t, c))
               IN  e \in disk /\ Reserved + 8 <= e.at
    <2> DEFINE e == ChunkExtent(<<t, c>>, offset[t][c], Size(t, c))
    <2>2. e \in target
      BY <1>2, <1>8 DEF Laid
    <2>3. IsChunk(e)
      BY DEF ChunkExtent, IsChunk
    <2> HIDE DEF e
    <2> QED
      BY <1>4, <2>2, <2>3 DEF Copied, e
  <1>9. IsFiniteSet(disk)
    BY <1>2, FewAtoms DEF Laid
  <1>10. \E a : /\ Reached(disk, a) /\ a.kind = "mdat"
                /\ a.at + a.span = position /\ a.at + a.size = Reserved + 8
    BY <1>1
  <1> QED
    BY <1>6, <1>7, <1>8, <1>9, <1>10 DEF Complete

\* moov, mdat and the free atom between them
LEMMA ThreeWrites ==
    ASSUME NEW a, NEW b, NEW f, NEW w, w = <<a, b>> \o <<>> \o <<f>>
    PROVE  /\ Len(w) = 3 /\ SubSeq(w, 1, 3) = w /\ DOMAIN w = 1 .. 3
           /\ w[1] = a /\ w[2] = b /\ w[3] = f
           /\ DOMAIN SubSeq(w, 1, 2) = 1 .. 2
           /\ SubSeq(w, 1, 2)[1] = a /\ SubSeq(w, 1, 2)[2] = b
  <1> DEFINE S == {a, b, f}
  <1>1. <<a, b>> \in Seq(S) /\ <<f>> \in Seq(S) /\ <<a, b>> \o <<>> = <<a, b>>
    OBVIOUS
  <1> HIDE DEF S
  <1>2. /\ w \in Seq(S) /\ Len(w) = 3 /\ w[1] = a /\ w[2] = b /\ w[3] = f
        /\ DOMAIN w = 1 .. 3
    BY <1>1, ConcatProperties, LenProperties
  <1>3. SubSeq(w, 1, 3) = w
    BY <1>2, SubSeqFull
  <1>4. /\ DOMAIN SubSeq(w, 1, 2) = 1 .. 2
        /\ SubSeq(w, 1, 2)[1] = a /\ SubSeq(w, 1, 2)[2] = b
    BY <1>2
  <1> QED
    BY <1>2, <1>3, <1>4

\* and with the udta atom behind moov
LEMMA FourWrites ==
    ASSUME NEW a, NEW b, NEW u, NEW f, NEW w, w = <<a, b>> \o <<u>> \o <<f>>
    PROVE  /\ Len(w) = 4 /\ SubSeq(w, 1, 4) = w /\ DOMAIN w = 1 .. 4
           /\ w[1] = a /\ w[2] = b /\ w[3] = u /\ w[4] = f
  <1> DEFINE S == {a, b, u, f}
             x == <<a, b>>
             y == <<u>>
             z == <<f>>
  <1>1. /\ x \in Seq(S) /\ y \in Seq(S) /\ z \in Seq(S)
        /\ Len(x) = 2 /\ x[1] = a /\ x[2] = b
        /\ Len(y) = 1 /\ y[1] = u /\ Len(z) = 1 /\ z[1] = f
    OBVIOUS
  <1>2. w = x \o y \o z
    OBVIOUS
  <1> HIDE DEF S, x, y, z
  <1>3. /\ x \o y \in Seq(S) /\ Len(x \o y) = 3
        /\ (x \o y)[1] = a /\ (x \o y)[2] = b /\ (x \o y)[3] = u
    BY <1>1, ConcatProperties
  <1>4. /\ w \in Seq(S) /\ Len(w) = 4 /\ w[1] = a /\ w[2] = b /\ w[3] = u
        /\ w[4] = f
    BY <1>1, <1>2, <1>3, ConcatProperties
  <1>5. DOMAIN w = 1 .. 4 /\ SubSeq(w, 1, 4) = w
    BY <1>4, LenProperties, SubSeqFull
  <1> QED
    BY <1>4, <1>5

\* the atoms that finish writes lead from the ftyp atom to mdat
LEMMA FinishedComplete ==
    ASSUME PlayInv, Begun, NEW disk,
           disk = PutAll(target, SubSeq(FinishOptimalWrite, 1, AllWrites))
    PROVE  Complete(disk, offset) /\ AllWrites >= 2
  <1> DEFINE a == FinishedMdat
             b == MoovAtom(moov.start)
             u == Atom("udta", moov.start + CurrentMoovSize, movie.udta, movie.udta)
             f == Atom("free", MoovEnd, 8, FinishedMdat.at - MoovEnd)
             o == Atom("ftyp", 0, FtypSize, FtypSize)
             w == FinishOptimalWrite
             udta == IF Resized THEN UdtaAtom(moov.start + CurrentMoovSize) ELSE <<>>
             free == IF FinishedMdat.at > MoovEnd THEN <<f>> ELSE <<>>
             more == Resized /\ movie.udta # 0
  <1>1. /\ moov.start = MoovStart
        /\ Reserved \in Nat /\ MoovStart \in Nat \ {0} /\ movie.udta \in Nat
        /\ CurrentMoovSize \in Nat \ {0} /\ MoovEnd \in Nat
        /\ a.at \in Nat /\ MoovEnd + 8 <= a.at /\ End(a) = Reserved + 8
        /\ a.span \in Nat \ {0} /\ (a.at = Reserved \/ a.at = Reserved - 8)
        /\ MoovEnd = MoovStart + CurrentMoovSize
                        + (IF Resized THEN movie.udta ELSE 0)
        /\ MoovStart = FtypSize
    BY FinishPlaces DEF MoovStart
  <1>2. /\ o.at = 0 /\ o.span = MoovStart /\ End(o) = MoovStart
        /\ b.at = MoovStart /\ b.span = CurrentMoovSize /\ b.kind = "moov"
        /\ End(b) = MoovStart + CurrentMoovSize
        /\ u.at = MoovStart + CurrentMoovSize /\ u.span = movie.udta
        /\ End(u) = MoovStart + CurrentMoovSize + movie.udta
        /\ f.at = MoovEnd /\ f.span = a.at - MoovEnd /\ End(f) = MoovEnd + 8
    BY <1>1 DEF Atom, MoovAtom, End
  <1>3. o \in target
    BY DEF PlayInv, Laid, Opened
  <1>4. w = <<a, b>> \o udta \o free
    BY DEF FinishOptimalWrite
  <1>5. /\ free = <<f>>
        /\ more => udta = <<u>>
        /\ ~ more => udta = <<>>
    BY <1>1 DEF UdtaAtom
  <1>6. MoovEnd = MoovStart + CurrentMoovSize + (IF more THEN movie.udta ELSE 0)
    BY <1>1
  <1>7. AllWrites = Len(w)
    BY DEF AllWrites
  <1>8. disk = PutAll(target, SubSeq(w, 1, AllWrites))
    OBVIOUS
  <1> HIDE DEF a, b, u, f, o, w, udta, free, more
  <1>9. /\ Apart(o, a) /\ Apart(o, b) /\ Apart(o, f)
        /\ Apart(a, b) /\ Apart(a, f) /\ Apart(b, f)
        /\ more => Apart(o, u) /\ Apart(a, u) /\ Apart(b, u) /\ Apart(u, f)
    BY <1>1, <1>2, <1>6 DEF Apart
  <1>10. /\ End(a) \in Nat /\ End(a) <= Reserved + 8
         /\ End(b) \in Nat /\ End(b) <= Reserved + 8
         /\ End(f) \in Nat /\ End(f) <= Reserved + 8
         /\ more => End(u) \in Nat /\ End(u) <= Reserved + 8
    BY <1>1, <1>2, <1>6
  <1>11. CASE more
    <2>1. w = <<a, b>> \o <<u>> \o <<f>>
      BY <1>4, <1>5, <1>11
    <2>2. /\ Len(w) = 4 /\ SubSeq(w, 1, 4) = w /\ DOMAIN w = 1 .. 4
          /\ w[1] = a /\ w[2] = b /\ w[3] = u /\ w[4] = f
      <3> DEFINE F(p, q, r, s, x) ==
                   /\ Len(x) = 4 /\ SubSeq(x, 1, 4) = x /\ DOMAIN x = 1 .. 4
                   /\ x[1] = p /\ x[2] = q /\ x[3] = r /\ x[4] = s
      <3>1. \A p, q, r, s, x : x = <<p, q>> \o <<r>> \o <<s>> => F(p, q, r, s, x)
        BY FourWrites
      <3> HIDE DEF F
      <3>2. F(a, b, u, f, w)
        BY <2>1, <3>1
      <3> QED
        BY <3>2 DEF F
    <2>3. disk = PutAll(target, w)
      BY <1>7, <1>8, <2>2
    <2>4. /\ \A i, j \in DOMAIN w : j > i => Apart(w[i], w[j])
          /\ \A i \in DOMAIN w : End(w[i]) \in Nat /\ End(w[i]) <= Reserved + 8
          /\ \A i \in DOMAIN w : Apart(o, w[i])
      BY <1>9, <1>10, <1>11, <2>2
    <2>5. o \in disk /\ a \in disk /\ b \in disk /\ u \in disk /\ f \in disk
      <3>1. \A i \in DOMAIN w : w[i] \in disk
        BY <2>3, <2>4, WritesStay
      <3>2. o \in disk
        BY <1>3, <2>3, <2>4, WritesStay
      <3> QED
        BY <2>2, <3>1, <3>2
    <2>6. Reached(disk, o)
      BY <1>1, <1>2, <2>5, FirstReached
    <2>7. Reached(disk, b)
      BY <1>1, <1>2, <2>5, <2>6, NextReached
    <2>8. Reached(disk, u)
      <3>1. u.at = b.at + b.span /\ u.span \in Nat \ {0}
        BY <1>1, <1>2, <1>11 DEF more
      <3> QED
        BY <2>5, <2>7, <3>1, NextReached
    <2>9. Reached(disk, f)
      <3>1. f.at = u.at + u.span /\ f.span \in Nat \ {0}
        BY <1>1, <1>2, <1>6, <1>11
      <3> QED
        BY <2>5, <2>8, <3>1, NextReached
    <2>10. Reached(disk, a)
      <3>1. a.at = f.at + f.span
        BY <1>1, <1>2
      <3> QED
        BY <1>1, <2>5, <2>9, <3>1, NextReached
    <2>11. Complete(disk, offset)
      <3>1. w[1] = FinishedMdat /\ Reached(disk, FinishedMdat)
        BY <2>2, <2>10 DEF a
      <3>2. 4 \in Nat \ {0} /\ \E x : Reached(disk, x) /\ x.kind = "moov"
        BY <1>2, <2>7
      <3> QED
        BY <2>2, <2>3, <2>4, <3>1, <3>2, Completed
    <2> QED
      BY <1>7, <2>2, <2>11
  <1>12. CASE ~ more
    <2>1. w = <<a, b>> \o <<>> \o <<f>>
      BY <1>4, <1>5, <1>12
    <2>2. /\ Len(w) = 3 /\ SubSeq(w, 1, 3) = w /\ DOMAIN w = 1 .. 3
          /\ w[1] = a /\ w[2] = b /\ w[3] = f
      BY <2>1, ThreeWrites
    <2>3. disk = PutAll(target, w)
      BY <1>7, <1>8, <2>2
    <2>4. /\ \A i, j \in DOMAIN w : j > i => Apart(w[i], w[j])
          /\ \A i \in DOMAIN w : End(w[i]) \in Nat /\ End(w[i]) <= Reserved + 8
          /\ \A i \in DOMAIN w : Apart(o, w[i])
      BY <1>9, <1>10, <2>2
    <2>5. o \in disk /\ a \in disk /\ b \in disk /\ f \in disk
      <3>1. \A i \in DOMAIN w : w[i] \in disk
        BY <2>3, <2>4, WritesStay
      <3>2. o \in disk
        BY <1>3, <2>3, <2>4, WritesStay
      <3> QED
        BY <2>2, <3>1, <3>2
    <2>6. Reached(disk, o)
      BY <1>1, <1>2, <2>5, FirstReached
    <2>7. Reached(disk, b)
      BY <1>1, <1>2, <2>5, <2>6, NextReached
    <2>8. Reached(disk, f)
      <3>1. f.at = b.at + b.span /\ f.span \in Nat \ {0}
        BY <1>1, <1>2, <1>6, <1>12
      <3> QED
        BY <2>5, <2>7, <3>1, NextReached
    <2>9. Reached(disk, a)
      <3>1. a.at = f.at + f.span
        BY <1>1, <1>2
      <3> QED
        BY <1>1, <2>5, <2>8, <3>1, NextReached
    <2>10. Complete(disk, offset)
      <3>1. w[1] = FinishedMdat /\ Reached(disk, FinishedMdat)
        BY <2>2, <2>9 DEF a
      <3>2. 3 \in Nat \ {0} /\ \E x : Reached(disk, x) /\ x.kind = "moov"
        BY <1>2, <2>7
      <3> QED
        BY <2>2, <2>3, <2>4, <3>1, <3>2, Completed
    <2> QED
      BY <1>7, <2>2, <2>10
  <1> QED
    BY <1>11, <1>12

\* without the last write the atoms written before the first chunk lead there,
\* if moov has kept its size
LEMMA UnflushedComplete ==
    ASSUME PlayInv, Begun, ~ Resized, NEW disk,
           disk = PutAll(target, SubSeq(FinishOptimalWrite, 1, AllWrites - 1))
    PROVE  Complete(disk, offset) /\ AllWrites = 3
  <1> DEFINE a == FinishedMdat
             b == MoovAtom(moov.start)
             f == Atom("free", MoovEnd, 8, FinishedMdat.at - MoovEnd)
             o == Atom("ftyp", 0, FtypSize, FtypSize)
             u == Atom("udta", MoovStart + moov.size, movie.udta, movie.udta)
             g == Atom("free", OldFree, 8, Reserved - 8 - OldFree)
             h == Atom("free", Reserved - 8, 8, 8)
             w == FinishOptimalWrite
             v == SubSeq(w, 1, 2)
  <1>1. /\ moov.start = MoovStart
        /\ Reserved \in Nat /\ MoovStart \in Nat \ {0} /\ movie.udta \in Nat
        /\ CurrentMoovSize \in Nat \ {0} /\ MoovEnd \in Nat
        /\ a.at \in Nat /\ MoovEnd + 8 <= a.at /\ End(a) = Reserved + 8
        /\ a.span \in Nat \ {0} /\ (a.at = Reserved \/ a.at = Reserved - 8)
        /\ MoovStart = FtypSize
    BY FinishPlaces DEF MoovStart
  <1>2. /\ moov.size = CurrentMoovSize /\ OldFree + 16 <= Reserved
        /\ OldFree = MoovStart + CurrentMoovSize + movie.udta
        /\ Opened \subseteq target
    BY DEF PlayInv, Laid, Resized, OldFree
  <1>3. o \in target /\ g \in target /\ h \in target
        /\ (movie.udta # 0 => u \in target)
    BY <1>2 DEF Opened
  <1>4. /\ o.at = 0 /\ o.span = MoovStart /\ End(o) = MoovStart
        /\ b.at = MoovStart /\ b.span = CurrentMoovSize /\ b.kind = "moov"
        /\ End(b) = MoovStart + CurrentMoovSize
        /\ u.at = MoovStart + CurrentMoovSize /\ u.span = movie.udta
        /\ End(u) = OldFree
        /\ g.at = OldFree /\ g.span = Reserved - 8 - OldFree /\ End(g) = OldFree + 8
        /\ h.at = Reserved - 8 /\ h.span = 8 /\ End(h) = Reserved
    BY <1>1, <1>2 DEF Atom, MoovAtom, End
  <1>5. w = <<a, b>> \o <<>> \o <<f>>
    <2>1. FinishedMdat.at > MoovEnd
      BY <1>1
    <2> QED
      BY <2>1 DEF FinishOptimalWrite
  <1>6. AllWrites = Len(w) /\ Len(w) = 3 /\ DOMAIN v = 1 .. 2 /\ v[1] = a /\ v[2] = b
    BY <1>5, ThreeWrites DEF AllWrites
  <1>7. disk = PutAll(target, v)
    BY <1>6
  <1> HIDE DEF a, b, f, o, u, g, h, w, v
  <1>8. /\ Apart(a, b) /\ Apart(o, a) /\ Apart(o, b) /\ Apart(g, a) /\ Apart(g, b)
        /\ Apart(u, a) /\ Apart(u, b) /\ Apart(h, b)
        /\ a.at = Reserved => Apart(h, a)
    BY <1>1, <1>2, <1>4 DEF Apart
  <1>9. /\ \A i, j \in DOMAIN v : j > i => Apart(v[i], v[j])
        /\ \A i \in DOMAIN v : End(v[i]) \in Nat /\ End(v[i]) <= Reserved + 8
    BY <1>1, <1>2, <1>4, <1>6, <1>8
  <1>10. /\ o \in disk /\ a \in disk /\ b \in disk /\ g \in disk
         /\ movie.udta # 0 => u \in disk
         /\ a.at = Reserved => h \in disk
    <2>1. \A i \in DOMAIN v : v[i] \in disk
      BY <1>7, <1>9, WritesStay
    <2>2. \A e \in target : Apart(e, a) /\ Apart(e, b) => e \in disk
      <3>1. \A e : Apart(e, a) /\ Apart(e, b) => \A i \in DOMAIN v : Apart(e, v[i])
        BY <1>6
      <3> QED
        BY <1>7, <1>9, <3>1, WritesStay
    <2> QED
      BY <1>3, <1>6, <1>8, <2>1, <2>2
  <1>11. Reached(disk, o)
    BY <1>1, <1>4, <1>10, FirstReached
  <1>12. Reached(disk, b)
    BY <1>1, <1>4, <1>10, <1>11, NextReached
  <1>13. Reached(disk, g)
    <2>1. g.span \in Nat \ {0}
      BY <1>1, <1>2, <1>4
    <2>2. CASE movie.udta = 0
      <3>1. g.at = b.at + b.span
        BY <1>1, <1>2, <1>4, <2>2
      <3> QED
        BY <1>10, <1>12, <2>1, <3>1, NextReached
    <2>3. CASE movie.udta # 0
      <3>1. u.at = b.at + b.span /\ u.span \in Nat \ {0}
        BY <1>1, <1>4, <2>3
      <3>2. Reached(disk, u)
        BY <1>10, <1>12, <2>3, <3>1, NextReached
      <3>3. g.at = u.at + u.span
        BY <1>1, <1>2, <1>4
      <3> QED
        BY <1>10, <2>1, <3>2, <3>3, NextReached
    <2> QED
      BY <2>2, <2>3
  <1>14. Reached(disk, a)
    <2>1. g.at + g.span = Reserved - 8
      BY <1>1, <1>2, <1>4
    <2>2. CASE a.at = Reserved - 8
      <3>1. a.at = g.at + g.span
        BY <2>1, <2>2
      <3> QED
        BY <1>1, <1>10, <1>13, <3>1, NextReached
    <2>3. CASE a.at = Reserved
      <3>1. h.at = g.at + g.span /\ h.span \in Nat \ {0}
        BY <1>4, <2>1
      <3>2. Reached(disk, h)
        BY <1>10, <1>13, <2>3, <3>1, NextReached
      <3>3. a.at = h.at + h.span
        BY <1>1, <1>4, <2>3
      <3> QED
        BY <1>1, <1>10, <3>2, <3>3, NextReached
    <2> QED
      BY <1>1, <2>2, <2>3
  <1>15. v[1] = FinishedMdat /\ Reached(disk, FinishedMdat)
    BY <1>6, <1>14 DEF a
  <1>16. 2 \in Nat \ {0} /\ \E x : Reached(disk, x) /\ x.kind = "moov"
    BY <1>4, <1>12
  <1> QED
    BY <1>6, <1>7, <1>9, <1>15, <1>16, Completed

\* a step that neither copies nor finishes leaves what has been laid down
LEMMA LaidKept ==
    ASSUME PlayInv, UNCHANGED <<movie, offset, target, current, position, moov>>
    PROVE  Laid' = Laid
  <1>1. /\ Tracks' = Tracks /\ Reserved' = Reserved /\ MoovStart' = MoovStart
        /\ OldFree' = OldFree /\ Opened' = Opened /\ Copied' = Copied
        /\ \A u : Chunks(u)' = Chunks(u)
        /\ \A u, d : Size(u, d)' = Size(u, d)
    BY DEF MoovStart, Reserved, Entries, Tracks, Chunks, OldFree, Opened, Size, Copied
  <1> QED
    BY <1>1 DEF Laid

LEMMA CompleteKept ==
    ASSUME UNCHANGED <<movie, position, current>>, NEW disk, NEW table,
           Complete(disk, table), target' = disk, moov'.table = table
    PROVE  Complete(target, moov.table)'
  <1>1. /\ Tracks' = Tracks /\ Reserved' = Reserved
        /\ \A u : Chunks(u)' = Chunks(u)
        /\ \A u, d : Size(u, d)' = Size(u, d)
    BY DEF MoovStart, Reserved, Entries, Tracks, Chunks, Size
  <1> QED
    BY <1>1 DEF Complete

LEMMA FinishPlays ==
    ASSUME PlayInv, Finish \/ FinishUnflushed, unflushed' => ~ Resized'
    PROVE  Complete(target, moov.table)'
  <1> DEFINE disk == target'
  <1>1. Begun /\ UNCHANGED <<movie, offset, position, current>>
    BY DEF Finish, FinishUnflushed, FinishUpTo, Finishing, CanFinish, PlayInv,
       TypeInv, Inv, Writable, Begun
  <1>2. Laid /\ AllWrites \in Nat \ {0}
    BY <1>1, AtomsFinished DEF PlayInv
  <1>3. AllWrites >= 2
    BY <1>1, FinishedComplete
  <1>4. DOMAIN moov = {"start", "size", "table"}
    BY <1>2 DEF Laid
  <1>5. CASE Finish
    <2>1. /\ target' = PutAll(target, SubSeq(FinishOptimalWrite, 1, AllWrites))
          /\ moov' = [moov EXCEPT !.table = offset]
      BY <1>2, <1>3, <1>5 DEF Finish, FinishUpTo
    <2>2. Complete(disk, offset)
      BY <1>1, <2>1, FinishedComplete
    <2>3. moov'.table = offset
      BY <1>4, <2>1
    <2> QED
      BY <1>1, <2>2, <2>3, CompleteKept
  <1>6. CASE FinishUnflushed
    <2>1. /\ target' = PutAll(target, SubSeq(FinishOptimalWrite, 1, AllWrites - 1))
          /\ moov' = IF AllWrites - 1 >= 2 THEN [moov EXCEPT !.table = offset]
                     ELSE moov
          /\ unflushed' = TRUE
      BY <1>6 DEF FinishUnflushed, FinishUpTo
    <2>2. moov'.size = moov.size
      BY <1>4, <2>1
    <2>3. ~ Resized
      <3>1. CurrentMoovSize' = CurrentMoovSize
        BY <1>1 DEF CurrentMoovSize, WideEntries, Entries, Wide, Tracks, Chunks
      <3> QED
        BY <2>1, <2>2, <3>1 DEF Resized
    <2>4. Complete(disk, offset)
      BY <1>1, <2>1, <2>3, UnflushedComplete
    <2>5. AllWrites = 3
      BY <1>1, <2>3, UnflushedComplete
    <2>6. moov'.table = offset
      BY <1>4, <2>1, <2>5
    <2> QED
      BY <1>1, <2>4, <2>6, CompleteKept
  <1> QED
    BY <1>5, <1>6

LEMMA AllCopied ==
    ASSUME Left = {}, TypeOK
    PROVE  CopiedEntries = Entries
  <1>1. ASSUME NEW n \in Entries
        PROVE  n[2] < current[n[1]]
    <2>1. PICK t \in Tracks : n \in {t} \X Chunks(t)
      BY DEF Entries
    <2>2. n[1] = t /\ n[2] \in Chunks(t)
      BY <2>1
    <2>3. /\ Final(t) \in Nat /\ n[2] \in 1 .. Final(t)
          /\ ~ (current[t] <= Final(t)) /\ current[t] \in 1 .. Final(t) + 1
      BY <2>2, TracksOfMovie DEF TypeOK, Left
    <2> QED
      BY <2>2, <2>3
  <1> QED
    BY <1>1 DEF CopiedEntries

LEMMA StepPlays ==
    ASSUME PlayInv, [Next]_vars
    PROVE  PlayInv'
  <1>1. RemuxInv' /\ TypeInv'
    BY RemuxStep, StepTyped DEF PlayInv
  <1>2. ASSUME pc' = "begin" PROVE target' = {}
    <2>1. OpenTarget \/ UNCHANGED vars
      BY <1>2 DEF Next, Start, Copy, Leave, OpenFails, Begin, BeginFails, Throw,
         TimeFails, ReadChunk, ReadFails, RewriteChunk, WriteFails, EndOfLoop,
         Finish, FinishUnflushed, FinishFails, Unwind, Reported
    <2> QED
      BY <1>2, <2>1 DEF OpenTarget, vars, disks, PlayInv
  <1>3. ASSUME Begun' PROVE Laid'
    <2>1. CASE Begin
      BY <2>1, BeginLaid
    <2>2. CASE RewriteChunk
      BY <2>2, RewriteChunkLaid
    <2>3. CASE TimeFails \/ ReadChunk \/ ReadFails \/ WriteFails \/ EndOfLoop
               \/ UNCHANGED vars
      <3>1. /\ UNCHANGED <<movie, offset, target, current, position, moov>>
            /\ Begun
        BY <1>3, <2>3 DEF TimeFails, ReadChunk, ReadFails, WriteFails, EndOfLoop,
           Throw, vars, disks, atoms, Begun
      <3> QED
        BY <3>1, LaidKept DEF PlayInv
    <2>4. CASE OpenFails \/ OpenTarget \/ BeginFails
      BY <1>3, <2>4 DEF OpenFails, OpenTarget, BeginFails, Throw, PlayInv, TypeInv,
         Inv, Begun
    <2>5. CASE Leave
      BY <1>3, <2>5 DEF Leave, Finish, FinishUnflushed, FinishFails, Unwind,
         Reported, Begun
    <2> QED
      BY <2>1, <2>2, <2>3, <2>4, <2>5 DEF Next, Start, Copy
  <1>4. \/ Finish \/ FinishUnflushed \/ Unwind \/ UNCHANGED vars
        \/ pc' \notin {"reported success", "reported failure"}
    BY DEF Next, Start, Copy, Leave, OpenFails, OpenTarget, Begin, BeginFails,
       Throw, TimeFails, ReadChunk, ReadFails, RewriteChunk, WriteFails, EndOfLoop,
       FinishFails
  <1>5. ASSUME pc' = "reported success" PROVE Left' = {}
    <2>1. pc = "finish" \/ pc = "reported success"
      BY <1>4, <1>5 DEF Finish, FinishUnflushed, Finishing, Reported, Unwind, vars
    <2>2. UNCHANGED <<movie, current>>
      BY <1>4, <1>5 DEF Finish, FinishUnflushed, FinishUpTo, Unwind, vars
    <2>3. Left = {}
      BY <2>1 DEF PlayInv, RemuxInv, PlaceInv
    <2> QED
      BY <2>2, <2>3 DEF Left, Tracks, Final
  <1>6. ASSUME Delivered', unflushed' => ~ Resized'
        PROVE  Complete(target, moov.table)'
    <2>1. CASE Finish \/ FinishUnflushed
      BY <1>6, <2>1, FinishPlays
    <2>2. CASE Unwind
      <3>1. Untouched /\ UNCHANGED <<movie, source, target>> /\ pc' = "reported failure"
        BY <2>2 DEF Unwind, disks, PlayInv, TypeInv, Inv
      <3> QED
        BY <1>6, <3>1 DEF Delivered, Untouched
    <2>3. CASE UNCHANGED vars
      <3>1. UNCHANGED <<movie, offset, source, target, position, current, moov, pc,
                        unflushed>>
        BY <2>3 DEF vars, disks, atoms
      <3>2. Resized' = Resized /\ Delivered' = Delivered
        BY <3>1 DEF Resized, CurrentMoovSize, WideEntries, Entries, Wide, Tracks,
           Chunks, Delivered, Untouched
      <3>3. Complete(target, moov.table)
        BY <1>6, <3>1, <3>2 DEF PlayInv
      <3> QED
        BY <3>1, <3>3, CompleteKept
    <2> QED
      BY <1>4, <1>6, <2>1, <2>2, <2>3 DEF Delivered
  <1> QED
    BY <1>1, <1>2, <1>3, <1>5, <1>6 DEF PlayInv

LEMMA InitPlays == Init /\ ~ same => PlayInv
  <1> SUFFICES ASSUME Init, ~ same PROVE PlayInv
    OBVIOUS
  <1>1. RemuxInv /\ TypeInv /\ pc = "start"
    BY RemuxInit, InitTyped DEF Init
  <1> QED
    BY <1>1 DEF PlayInv, Begun, Delivered

LEMMA SameKept == same /\ [Next]_vars => same'
  BY DEF Next, Start, Copy, Leave, vars, disks, OpenFails, OpenTarget, Begin,
     BeginFails, TimeFails, ReadChunk, ReadFails, RewriteChunk, WriteFails,
     EndOfLoop, Finish, FinishUnflushed, FinishFails, Unwind, FinishUpTo

(***************************************************************************)
(* For every movie, and whichever calls fail: a success that is reported   *)
(* is of a file that can be read back from its first atom to its end, with *)
(* every chunk of every track where the table in moov says, within mdat.   *)
(* If the last write was lost on closing, this needs that moov has kept    *)
(* its size.                                                               *)
(***************************************************************************)
THEOREM SuccessPlays == Spec => []SuccessIsPlayable
  <1>1. PlayInv => SuccessIsPlayable
    <2> SUFFICES ASSUME PlayInv, pc = "reported success", HeadersWhole
                 PROVE  Playable(Entries)
      BY DEF SuccessIsPlayable
    <2>1. Playable(CopiedEntries)
      BY CompletePlayable DEF PlayInv, TypeInv, TypeOK, Delivered, HeadersWhole
    <2>2. Left = {} /\ TypeOK
      BY DEF PlayInv, TypeInv
    <2> QED
      BY <2>1, <2>2, AllCopied
  <1>2. same => SuccessIsPlayable
    BY DEF SuccessIsPlayable, HeadersWhole
  <1> QED
    BY <1>1, <1>2, InitPlays, StepPlays, SameKept, PTL DEF Spec

(***************************************************************************)
(* For every movie: a failure is only reported if nothing has been written *)
(* or if a chunk has no time, and then the destination can be read back    *)
(* with the chunks before that one.  Every other failure after the opening *)
(* of the destination ends the program: the destructor of MP4FileCopy      *)
(* calls finish(), which writes to the stream that failed, or to the       *)
(* source, and throws.                                                     *)
(***************************************************************************)
THEOREM FailureLeavesReadable == Spec => []FailureIsReadable
  <1>1. Inv /\ PlayInv => FailureIsReadable
    <2> SUFFICES ASSUME Inv, PlayInv, pc = "reported failure", ~ Untouched
                 PROVE  ~ Timed /\ (HeadersWhole => Playable(CopiedEntries))
      BY DEF FailureIsReadable, Untouched
    <2>1. ~ Timed
      BY DEF Inv
    <2>2. ASSUME HeadersWhole PROVE Playable(CopiedEntries)
      BY <2>2, CompletePlayable
         DEF PlayInv, TypeInv, TypeOK, Delivered, HeadersWhole
    <2> QED
      BY <2>1, <2>2
  <1>2. Inv /\ same => FailureIsReadable
    BY DEF Inv, Untouched, FailureIsReadable, HeadersWhole
  <1> QED
    BY <1>1, <1>2, InitKeeps, StepKeeps, InitPlays, StepPlays, SameKept, PTL
       DEF Spec
=============================================================================
