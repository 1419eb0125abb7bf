------------------------------- MODULE AtomFile -------------------------------
(***************************************************************************)
(* A file as a sequence of atoms, the way libmp4v2 reads and writes its    *)
(* top level (mp4atom.cpp, atom_free.cpp).  A file is a sequence of cells  *)
(* of four bytes: a number, the four letters of a type, or payload.  All   *)
(* positions and sizes count cells, so that the header of an atom is two   *)
(* cells, its size and its type, or four when the size needs 64 bits.      *)
(***************************************************************************)
EXTENDS Integers, SequencesExt

CONSTANTS
    MaxSize,    \* 0xffffffff, the largest size a single cell holds
    TypeNames   \* what four letters may stand for

ASSUME MaxSizeAssumption == MaxSize \in Nat /\ MaxSize > 4
ASSUME TypeNamesAssumption ==
    {"moov", "mdat", "free"} \subseteq TypeNames /\ "unreadable" \notin TypeNames

Number(n) == <<"number", n>>
Type(t)   == <<"type", t>>
Zero      == <<"zero">>

\* payload of the media, of the v-th version of moov, and of anything else
Cell == ({"number"} \X Nat) \cup ({"type"} \X TypeNames) \cup {Zero}
            \cup ({"media", "other"} \X Nat) \cup ({"moov"} \X Nat \X Nat)

IsNumber(cell) == cell[1] = "number"
IsType(cell)   == cell[1] = "type"

\* position 0 is the first cell
CellAt(d, at) == d[at + 1]

\* a write past the end extends the file
Put(d, at, cell) == IF at < Len(d) THEN [d EXCEPT ![at + 1] = cell]
                    ELSE Append(d, cell)

-----------------------------------------------------------------------------
(* Reading *)

\* an atom of the tree; content is what it writes after its header
Atom(type, start, end, size, large, content) ==
    [type |-> type, start |-> start, end |-> end, size |-> size,
     large |-> large, content |-> content]

\* payload, or a size smaller than its own header: nothing sure can be read
Unreadable(d, at) == Atom("unreadable", at, Len(d), 0, FALSE, <<>>)

\* 64 bits of size after the type
LargeSize(d, at) == CellAt(d, at + 2)[2] * (MaxSize + 1) + CellAt(d, at + 3)[2]

HasLargeSize(d, at) ==
    /\ at + 3 < Len(d)
    /\ IsNumber(CellAt(d, at + 2)) /\ IsNumber(CellAt(d, at + 3))

(***************************************************************************)
(* MP4Atom::ReadAtom: a size of one announces the 64-bit one, a size of    *)
(* zero reaches to the end of the file, and an atom that would reach       *)
(* further is cut off there.                                               *)
(***************************************************************************)
ReadAtom(d, at) ==
    LET number == CellAt(d, at)
        type   == CellAt(d, at + 1)
        large  == number[2] = 1
        header == IF large THEN 4 ELSE 2
        span   == IF number[2] = 0 THEN Len(d) - at
                  ELSE IF large THEN LargeSize(d, at) ELSE number[2]
        end    == Min({at + span, Len(d)})
    IN  IF ~ IsNumber(number) \/ ~ IsType(type) THEN Unreadable(d, at)
        ELSE IF large /\ ~ HasLargeSize(d, at) THEN Unreadable(d, at)
        ELSE IF span < header THEN Unreadable(d, at)
        ELSE Atom(type[2], at, end, end - at - header, large,
                  SubSeq(d, at + header + 1, end))

(***************************************************************************)
(* MP4Atom::ReadChildAtoms of the root: one atom after the other.  What is *)
(* too short for a header at the end is passed over.  start[n] holds the   *)
(* position of the atom that follows n others, if there is one.            *)
(***************************************************************************)
ReadAtoms(d) ==
    LET start[n \in 0 .. Len(d) \div 2] ==
            {at \in IF n = 0 THEN {0} ELSE {ReadAtom(d, s).end : s \in start[n - 1]} :
                at + 1 < Len(d)}
        count == Cardinality({n \in DOMAIN start : start[n] # {}})
    IN  [n \in 1 .. count |-> ReadAtom(d, CHOOSE at \in start[n - 1] : TRUE)]

-----------------------------------------------------------------------------
(* Writing: a list of writes [at, cell], in the order in which they happen *)

CellsFrom(at, cells) ==
    [k \in DOMAIN cells |-> [at |-> at + k - 1, cell |-> cells[k]]]

\* MP4FreeAtom::Write fills its data with zeros
Data(atom) == IF atom.type = "free" THEN [k \in 1 .. atom.size |-> Zero]
              ELSE atom.content

(***************************************************************************)
(* MP4Atom::Write: BeginWrite leaves the size at zero, the data follows,   *)
(* and FinishWrite goes back to fill the size in.                          *)
(***************************************************************************)
AtomWrites(atom, at) ==
    CellsFrom(at, <<Number(0), Type(atom.type)>> \o Data(atom))
        \o CellsFrom(at, <<Number(2 + Len(Data(atom)))>>)

\* the atom in memory once it has been written
Written(atom, at) ==
    LET size == Len(Data(atom))
    IN  [atom EXCEPT !.start = at, !.end = at + 2 + size, !.size = size]

\* MP4Atom::BeginWrite of mdat puts a free header before its own
BeginMdatWrites(at) ==
    CellsFrom(at, <<Number(2), Type("free"), Number(0), Type("mdat")>>)
BegunMdat(at) == Atom("mdat", at + 2, at + 4, 0, FALSE, <<>>)

(***************************************************************************)
(* MP4Atom::FinishWrite of mdat at the current position: the size goes     *)
(* into the header, or a header that needs 64 bits is put eight bytes      *)
(* earlier, where BeginWrite has left room.                                *)
(***************************************************************************)
FinishMdatWrites(mdat, position) ==
    LET span == position - mdat.start
        size == span + 2
    IN  IF span <= MaxSize THEN CellsFrom(mdat.start, <<Number(span)>>)
        ELSE CellsFrom(mdat.start - 2,
                       <<Number(1), Type("mdat"), Number(size \div (MaxSize + 1)),
                         Number(size % (MaxSize + 1))>>)

\* mutant: the data of mdat counted as if every header had 64 bits
BugFinishedMdat(mdat, position) ==
    LET span == position - mdat.start
    IN  [mdat EXCEPT !.start = IF span <= MaxSize THEN @ ELSE @ - 2,
                     !.end = position, !.size = span - 4]

FinishedMdat(mdat, position) ==
    LET span == position - mdat.start
    IN  [mdat EXCEPT !.start = IF span <= MaxSize THEN @ ELSE @ - 2,
                     !.end = position, !.size = span - 2]
=============================================================================
