----------------------------- MODULE SampleTables -----------------------------
(***************************************************************************)
(* The run-length tables of a track, stts (decoding deltas) and ctts       *)
(* (composition offsets), as the track editor reads and writes them        *)
(* (mp4trackx.cpp).  A table is a sequence of entries [count, value]; the  *)
(* values are unsigned words, and a signed number is stored modulo Word.   *)
(* Decoding and composition times are functions on 0 .. n where n is the   *)
(* number of frames: the last one is the extra entry the editor appends    *)
(* to know how long the last frame lasts.                                  *)
(***************************************************************************)
EXTENDS Integers, SequencesExt

CONSTANT Word   \* 2^32 in the program, the number of values of a table field

ASSUME WordAssumption == Word \in Nat /\ Word % 2 = 0 /\ Word > 0

Signed(w) == IF 2 * w >= Word THEN w - Word ELSE w

\* one value per frame, in decoding order
Expand(table) ==
    FlattenSeq([e \in DOMAIN table |->
                   [j \in 1 .. table[e].count |-> table[e].value]])

\* adjacent equal values share an entry
RunLength(values) ==
    LET Extend(table, v) ==
            IF table # <<>> /\ Last(table).value = v
            THEN [table EXCEPT ![Len(table)].count = @ + 1]
            ELSE Append(table, [count |-> 1, value |-> v])
    IN  FoldLeft(Extend, <<>>, values)

-----------------------------------------------------------------------------
\* decoding times are the running sums of the deltas
LoadDTS(stts) ==
    LET deltas == Expand(stts)
        dts[i \in 0 .. Len(deltas)] ==
            IF i = 0 THEN 0 ELSE dts[i - 1] + deltas[i]
    IN  dts

\* a track without ctts is displayed in decoding order; with one, the extra
\* entry follows the last displayed frame by the last decoding delta
LoadCTS(dts, hasCtts, ctts) ==
    IF ~ hasCtts THEN dts ELSE
    LET n == Max(DOMAIN dts)
        offsets == Expand(ctts)
        cts == [i \in 0 .. n - 1 |-> dts[i] + Signed(offsets[i + 1])]
    IN  [i \in 0 .. n |-> IF i < n THEN cts[i]
                          ELSE Max(Range(cts) \cup {0}) + dts[n] - dts[n - 1]]

\* mutants: the deltas are not words; the last frame gets no delta
BugUnsignedStts(dts) ==
    LET n == Max(DOMAIN dts)
    IN  RunLength([i \in 1 .. n |-> IF i = 1 THEN dts[1] ELSE dts[i] - dts[i - 1]])
BugShortStts(dts) ==
    LET n == Max(DOMAIN dts)
    IN  RunLength([i \in 1 .. n - 1 |->
                     (dts[i] - (IF i = 1 THEN 0 ELSE dts[i - 1])) % Word])

\* prev_dts starts at zero, so the first delta also holds the time of frame 0
UpdateStts(dts) ==
    LET n == Max(DOMAIN dts)
        Prev(i) == IF i = 1 THEN 0 ELSE dts[i - 1]
    IN  RunLength([i \in 1 .. n |-> (dts[i] - Prev(i)) % Word])

UpdateCtts(dts, cts) ==
    LET n == Max(DOMAIN dts)
    IN  RunLength([i \in 1 .. n |-> (cts[i - 1] - dts[i - 1]) % Word])
=============================================================================
