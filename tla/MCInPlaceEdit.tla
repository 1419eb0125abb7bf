---------------------------- MODULE MCInPlaceEdit ----------------------------
(***************************************************************************)
(* Small files for InPlaceEdit: every order of moov and mdat, with and     *)
(* without free atoms before, between and behind them.                     *)
(***************************************************************************)
EXTENDS InPlaceEdit

Cells(type, data) == <<Number(2 + Len(data)), Type(type)>> \o data

Payload(kind, n) == [k \in 1 .. n |-> <<kind, k>>]

Ftyp     == Cells("ftyp", Payload("other", 1))
Uuid     == Cells("uuid", Payload("other", 2))
Free(n)  == Cells("free", [k \in 1 .. n |-> Zero])
OldMoov  == Cells("moov", MoovData(0, 4))
Mdat(n)  == Cells("mdat", Payload("media", n))

\* mdat with a 64-bit size, needed or not
LongMdat(n) ==
    <<Number(1), Type("mdat"), Number((4 + n) \div (MaxSize + 1)),
      Number((4 + n) % (MaxSize + 1))>> \o Payload("media", n)

MCFiles ==
    {Ftyp \o OldMoov \o Mdat(3),
     Ftyp \o Mdat(3) \o OldMoov,
     Ftyp \o Mdat(3) \o OldMoov \o Free(1),
     Ftyp \o Mdat(2) \o Free(0) \o OldMoov,
     Ftyp \o Mdat(2) \o Mdat(0) \o OldMoov,
     Ftyp \o Free(8) \o Mdat(3) \o OldMoov,
     Ftyp \o Free(1) \o OldMoov \o Free(2) \o LongMdat(3) \o Uuid,
     Ftyp \o Free(6) \o OldMoov \o Mdat(2) \o Uuid \o Free(3),
     OldMoov \o Mdat(3) \o Uuid,
     OldMoov, Mdat(2), OldMoov \o Mdat(3) \o OldMoov}

\* more media than a single cell can count
MCHugeFile == {Ftyp \o OldMoov \o LongMdat(MaxSize)}

MCTypeNames == {"ftyp", "moov", "mdat", "free", "uuid"}

MCMoovSizes == {2, 3, 4, 6}
=============================================================================
