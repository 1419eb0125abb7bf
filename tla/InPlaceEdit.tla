----------------------------- MODULE InPlaceEdit -----------------------------
(***************************************************************************)
(* Editing a movie in its own file (option -i): MP4File::Modify makes room *)
(* for a new moov atom, the time codes are edited in memory, and           *)
(* MP4File::Close writes the new moov, moves it to the front if a free     *)
(* atom there can take it, and cuts the file off behind the last atom      *)
(* (mp4file.cpp, atom_root.cpp).                                           *)
(*                                                                         *)
(* A step of Modify or Close decides what will be written; the cells reach *)
(* the file one at a time, and the program may stop between any two.       *)
(***************************************************************************)
EXTENDS AtomFile

CONSTANTS
    Files,      \* the files there are before the first run
    MoovSizes,  \* data sizes an edit may give to the moov atom
    MaxEdits    \* how many times the file is edited

ASSUME FilesAssumption == \A d \in Files : d \in Seq(Cell)
ASSUME EditsAssumption == MoovSizes \subseteq Nat \ {0} /\ MaxEdits \in Nat

VARIABLES
    disk,       \* the contents of the file
    atoms,      \* the children of the root atom
    position,   \* where the next write goes
    writes,     \* what has been decided to be written
    pc,
    version,    \* history: how often the file has been edited
    original,   \* history: the file before the first edit
    found       \* history: the version of the movie a reader finds on the disk

memory  == <<atoms, position, writes>>
history == <<version, original, found>>
vars    == <<disk, memory, pc, history>>

MoovData(v, size) == [k \in 1 .. size |-> <<"moov", v, k>>]

IsFree(atom)   == atom.type \in {"free", "skip"}
OfType(list, type) == {i \in DOMAIN list : list[i].type = type}
NotFree(list)  == FoldLeft(LAMBDA kept, a : IF IsFree(a) THEN kept ELSE Append(kept, a),
                           <<>>, list)
Moov(list)     == Min(OfType(list, "moov"))
LastMdat(list) == Max(OfType(list, "mdat"))

NoMovie == -1

\* what a reader finds: the version of the first moov atom, if it holds all
\* of one version and nothing else
MovieIn(d) ==
    LET list == ReadAtoms(d)
        data == list[Moov(list)].content
    IN  IF OfType(list, "moov") = {} \/ OfType(list, "unreadable") # {} THEN NoMovie
        ELSE IF data = <<>> \/ Head(data)[1] # "moov" THEN NoMovie
        ELSE LET v == Head(data)[2]
             IN  IF data = MoovData(v, Len(data)) THEN v ELSE NoMovie

Init ==
    /\ disk \in Files
    /\ atoms = <<>> /\ position = 0 /\ writes = <<>>
    /\ pc = "closed"
    /\ version = 0 /\ original = disk /\ found = MovieIn(disk)

-----------------------------------------------------------------------------
(* Modify *)

\* no moov at all, two of them, or a file that cannot be read: nothing is
\* written, and an exception ends the run
Unusable(list) ==
    \/ OfType(list, "unreadable") # {}
    \/ Cardinality(OfType(list, "moov")) # 1

Refuse ==
    /\ pc = "closed"
    /\ version < MaxEdits
    /\ Unusable(ReadAtoms(disk))
    /\ pc' = "refused"
    /\ UNCHANGED <<disk, memory, history>>

\* mutant: the free atom is given the size of the whole moov atom
BugMakeRoom(list) ==
    LET m     == Moov(list)
        moov  == list[m]
        after == NotFree(SubSeq(list, m + 1, Len(list)))
        free  == Atom("free", 0, 0, moov.size + 2, FALSE, <<>>)
        front == SubSeq(list, 1, m - 1)
    IN  IF after = <<>>
        THEN [atoms |-> Append(front, moov), writes |-> <<>>,
              position |-> moov.start]
        ELSE [atoms |-> Append(front, Written(free, moov.start)) \o after
                            \o <<moov>>,
              writes |-> AtomWrites(free, moov.start),
              position |-> Last(after).end]

\* mutant: a moov atom that is the last is kept on the disk like any other
BugLeaveRoom(list) ==
    LET m     == Moov(list)
        moov  == list[m]
        after == NotFree(SubSeq(list, m + 1, Len(list)))
        free  == Atom("free", 0, 0, moov.size, FALSE, <<>>)
    IN  [atoms |-> Append(SubSeq(list, 1, m - 1), Written(free, moov.start))
                       \o after \o <<moov>>,
         writes |-> AtomWrites(free, moov.start),
         position |-> IF after = <<>> THEN moov.end ELSE Last(after).end]

(***************************************************************************)
(* The moov atom becomes the last of the tree, and free atoms behind it    *)
(* are forgotten.  If it was the last of the file, the next write goes     *)
(* over it; if not, a free atom takes its place on the disk.               *)
(***************************************************************************)
MakeRoom(list) ==
    LET m     == Moov(list)
        moov  == list[m]
        after == NotFree(SubSeq(list, m + 1, Len(list)))
        free  == Atom("free", 0, 0, moov.size, FALSE, <<>>)
        front == SubSeq(list, 1, m - 1)
    IN  IF after = <<>>
        THEN [atoms |-> Append(front, moov), writes |-> <<>>,
              position |-> moov.start]
        ELSE [atoms |-> Append(front, Written(free, moov.start)) \o after
                            \o <<moov>>,
              writes |-> AtomWrites(free, moov.start),
              position |-> Last(after).end]

\* unless an empty mdat atom precedes moov, a new one is begun there
NeedsMdat(list) ==
    LET previous == list[Len(list) - 1]
    IN  Len(list) > 1 /\ (previous.type # "mdat" \/ previous.size > 0)

Modify ==
    /\ pc = "closed"
    /\ version < MaxEdits
    /\ LET list == ReadAtoms(disk)
           room == MakeRoom(list)
           last == Len(room.atoms)
       IN  /\ ~ Unusable(list)
           /\ IF NeedsMdat(room.atoms)
              THEN /\ atoms' = InsertAt(room.atoms, last, BegunMdat(room.position))
                   /\ writes' = room.writes \o BeginMdatWrites(room.position)
                   /\ position' = room.position + 4
              ELSE /\ atoms' = room.atoms
                   /\ writes' = room.writes
                   /\ position' = room.position
    /\ version' = version + 1
    /\ pc' = "modify"
    /\ UNCHANGED <<disk, original, found>>

-----------------------------------------------------------------------------
(* One cell reaches the file; the next step follows the last one *)

Becomes(d) == disk' = d /\ found' = MovieIn(d)

Write ==
    /\ writes # <<>>
    /\ pc # "crashed"
    /\ Becomes(Put(disk, Head(writes).at, Head(writes).cell))
    /\ writes' = Tail(writes)
    /\ UNCHANGED <<atoms, position, pc, version, original>>

After(step) == writes = <<>> /\ pc = step

\* execute() edits the tables of moov, which may change its size
Edit ==
    /\ After("modify")
    /\ \E size \in MoovSizes :
         atoms' = [atoms EXCEPT ![Len(atoms)].content = MoovData(version, size),
                                ![Len(atoms)].size = size]
    /\ pc' = "edited"
    /\ UNCHANGED <<disk, position, writes, history>>

\* execute() prints the time codes and returns, without closing the file
PrintOnly ==
    /\ After("modify")
    /\ pc' = "printed"
    /\ UNCHANGED <<disk, memory, history>>

\* no video track, no or bad time codes: an exception leaves execute(), and
\* the destructor of MP4File writes nothing
Fail ==
    /\ After("modify")
    /\ pc' = "failed"
    /\ UNCHANGED <<disk, memory, history>>

-----------------------------------------------------------------------------
(* Close *)

\* MP4RootAtom::FinishWrite, of one atom behind the last mdat: it is written again
Rewrite(done, a) ==
    [atoms    |-> Append(done.atoms, Written(a, done.position)),
     writes   |-> done.writes \o AtomWrites(a, done.position),
     position |-> Written(a, done.position).end]

(***************************************************************************)
(* MP4RootAtom::FinishWrite: the last mdat atom is finished, or removed    *)
(* when it is empty, and every atom behind it is written again.            *)
(***************************************************************************)
RootFinish(list, at) ==
    LET m     == LastMdat(list)
        mdat  == FinishedMdat(list[m], at)
        empty == mdat.size = 0
        front == SubSeq(list, 1, m - 1)
    IN  FoldLeft(Rewrite,
                 [atoms    |-> IF empty THEN front ELSE Append(front, mdat),
                  writes   |-> FinishMdatWrites(list[m], at),
                  position |-> IF empty THEN mdat.start ELSE at],
                 SubSeq(list, m + 1, Len(list)))

\* an ASSERT fails in a file without mdat
NothingToFinish == OfType(atoms, "mdat") = {}

FinishWrite ==
    /\ After("edited")
    /\ ~ NothingToFinish
    /\ LET done == RootFinish(atoms, position)
       IN  /\ atoms' = done.atoms
           /\ writes' = done.writes
           /\ position' = done.position
    /\ pc' = "finished"
    /\ UNCHANGED <<disk, history>>

FinishFails ==
    /\ After("edited")
    /\ NothingToFinish
    /\ pc' = "failed"
    /\ UNCHANGED <<disk, memory, history>>

\* a free atom that moov fits exactly, or with room for another free atom
TakesMoov(free, moov) ==
    /\ ~ free.large /\ free.size <= MaxSize - 2
    /\ free.size = moov.size \/ free.size >= moov.size + 2

\* of the free atoms before the first moov and mdat, those that can take moov
Homes(list) ==
    {i \in OfType(list, "free") :
        /\ TakesMoov(list[i], list[Moov(list)])
        /\ \A j \in 1 .. i : list[j].type \notin {"moov", "mdat"}}

(***************************************************************************)
(* MoveMoovAtomToFront: moov is written over the first free atom that can  *)
(* take it, what is left of that atom follows, and the root is finished    *)
(* once more from the end of the last mdat atom.                           *)
(***************************************************************************)
MoveToFront(list, i) ==
    LET free  == list[i]
        moov  == list[Moov(list)]
        rest  == [free EXCEPT !.size = free.size - moov.size - 2]
        there == Written(moov, free.start)
        left  == IF free.size = moov.size THEN <<>>
                 ELSE <<Written(rest, there.end)>>
        others == RemoveAt(list, Moov(list))
        behind == SubSeq(others, i + 1, Len(others))
        moved == Append(SubSeq(list, 1, i - 1), there) \o left \o behind
        again == RootFinish(moved, moved[LastMdat(moved)].end)
    IN  [again EXCEPT !.writes =
            AtomWrites(moov, free.start)
            \o (IF left = <<>> THEN <<>> ELSE AtomWrites(rest, there.end)) \o @]

MoveMoovAtomToFront ==
    /\ After("finished")
    /\ IF OfType(atoms, "mdat") # {} /\ Homes(atoms) # {}
       THEN LET done == MoveToFront(atoms, Min(Homes(atoms)))
            IN  /\ atoms' = done.atoms
                /\ writes' = done.writes
                /\ position' = done.position
       ELSE UNCHANGED memory
    /\ pc' = "moved"
    /\ UNCHANGED <<disk, history>>

\* mutant: what is left behind the last atom is not marked
BugMarkRest ==
    /\ After("moved")
    /\ pc' = IF position < Len(disk) THEN "marked" ELSE "closed"
    /\ UNCHANGED <<disk, memory, history>>

\* FinishWrite: what is left of the file is marked as free
MarkRest ==
    /\ After("moved")
    /\ IF position < Len(disk)
       THEN /\ writes' = AtomWrites(Atom("free", 0, 0,
                             Max({0, Len(disk) - position - 2}), FALSE, <<>>),
                             position)
            /\ pc' = "marked"
       ELSE UNCHANGED writes /\ pc' = "closed"
    /\ UNCHANGED <<disk, atoms, position, history>>

\* and then cut off; nobody asks whether that has succeeded
Truncate ==
    /\ After("marked")
    /\ Becomes(disk) \/ Becomes(SubSeq(disk, 1, position))
    /\ pc' = "closed"
    /\ UNCHANGED <<memory, version, original>>

\* a write fails, or the program is killed
Crash ==
    /\ pc \in {"modify", "edited", "finished", "moved", "marked"}
    /\ pc' = "crashed"
    /\ UNCHANGED <<disk, memory, history>>

-----------------------------------------------------------------------------
Next ==
    \/ Refuse \/ Modify
    \/ Write
    \/ Edit \/ PrintOnly \/ Fail
    \/ FinishWrite \/ FinishFails \/ MoveMoovAtomToFront \/ MarkRest \/ Truncate
    \/ Crash

Spec == Init /\ [][Next]_vars

-----------------------------------------------------------------------------
Media == {at \in 1 .. Len(original) : original[at][1] = "media"}

Stopped == pc \in {"closed", "refused", "printed", "failed", "crashed"}

TypeOK ==
    /\ disk \in Seq(Cell)
    /\ \A i \in DOMAIN atoms : /\ atoms[i].start \in Nat
                              /\ atoms[i].end \in Nat
                              /\ atoms[i].size \in Nat
    /\ position \in Nat
    /\ \A k \in DOMAIN writes : writes[k].at \in Nat
    /\ version \in 0 .. MaxEdits /\ found \in Int
    /\ Stopped \/ pc \in {"modify", "edited", "finished", "moved", "marked"}

(***************************************************************************)
(* Whatever is written and wherever the program stops, no media data is    *)
(* touched: the chunk offsets of any moov atom remain right.               *)
(***************************************************************************)
MediaKept ==
    \A at \in Media : at <= Len(disk) /\ disk[at] = original[at]

(***************************************************************************)
(* A file that has been closed holds the edited movie, and can be edited   *)
(* again.                                                                  *)
(***************************************************************************)
ClosedIsPlayable == pc = "closed" /\ version > 0 => found = version

(***************************************************************************)
(* Editing a file again and again does not pile up moov atoms: beyond its  *)
(* first size the file only ever holds one, with its header, and the       *)
(* header of a free atom for every edit, apart from free space at the end  *)
(* that could not be cut off.                                              *)
(***************************************************************************)
GrowsSlowly ==
    pc = "closed" /\ version > 0 =>
        position <= Len(original) + 2 * version + 2 + atoms[Moov(atoms)].size

(***************************************************************************)
(* Whoever opens the file, between any two writes and after any stop,      *)
(* finds the movie as it was, the edited one or none, and after a close    *)
(* the edited one: Modify and Close implement MovieOnDisk.                 *)
(***************************************************************************)
OnDisk == INSTANCE MovieOnDisk WITH
              saved <- pc \in {"closed", "refused"}

OldNewOrNone == OnDisk!Spec

-----------------------------------------------------------------------------
(* What the documents say and the code does not do *)

\* file.h:95 of libmp4v2: closing a modified file "will write out all pending
\* information to disk".
EditReachesDisk == pc = "closed" => found = version
=============================================================================
