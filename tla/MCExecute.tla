------------------------------ MODULE MCExecute ------------------------------
(***************************************************************************)
(* Movies of a few frames, time code files with comments, and combinations *)
(* of options for Execute.                                                 *)
(***************************************************************************)
EXTENDS Execute

Movie(cts, scale, audio, audioScale) ==
    [cts |-> cts, scale |-> scale, audio |-> audio, audioScale |-> audioScale]

Silent(cts, scale) == Movie(cts, scale, <<>>, 1)

MCMovies ==
    {Silent(<<>>, 1), Silent(<<0, 40>>, 1000),
     \* 30000/1001, rounded, with a delay of the first frame
     Silent(<<7, 40, 74, 107, 140, 174>>, 1000),
     \* in 24ths of a second, and too long for its time scale
     Silent(<<0, 1, 2, 3, 4>>, 24), Silent(<<0, 400, 1000, 2000>>, 1000),
     \* 25 and then 24000/1001 frames per second, in a fine time scale
     Silent(<<0, 240, 480, 720, 970, 1220>>, 6000),
     \* sound of 3, 5 and 4 ticks a sample
     Movie(<<0, 4, 8, 15>>, 1000, <<3, 5, 4>>, 1000),
     Movie(<<2, 9, 12, 14, 20>>, 1000, <<4, 4, 4>>, 2000)}

Ms(list) == [i \in DOMAIN list |-> Fraction * list[i]]

MCTimeCodeFiles ==
    {Missing, <<>>, <<Skipped>>,
     <<Skipped>> \o Ms(<<0, 42, 83, 125, 167, 208>>),
     Ms(<<0, 33>>) \o <<Skipped>> \o Ms(<<67, 100, 150, 180, 220>>),
     Ms(<<10, 27, 43, 60>>) \o <<Skipped, Skipped>>,
     Ms(<<0, 17, 33, 50, 67, 67>>), Ms(<<0, 42, 83, 126, 167>>),
     Ms(<<5, 25, 45>>), Ms(<<40>>),
     Ms(<<0, 400, 1000, 5000, 20000>>),
     Ms(<<0, 150, 300, 455>>), Ms(<<0, 20, 40, 61>>)}

Opt(ch, arg) == [ch |-> ch, arg |-> arg]
O == Opt("o", "out")   I == Opt("i", "")    X == Opt("x", "")
C == Opt("c", "")      Keep == Opt("T", -1) T(name) == Opt("t", name)
P(name) == Opt("p", name)
R(n, num, den) == Opt("r", [numFrames |-> n, num |-> num, denom |-> den])

MCCommandLines ==
    {<<>>, <<O>>, <<O, X>>, <<X, C, I>>, <<O, Opt("d", 5)>>, <<O, Keep>>,
     <<O, T("codes"), Opt("T", IntModulus - 8)>>,
     <<O, Opt("T", 3000)>>, <<O, Opt("T", 3000), X>>,
     <<O, T("codes")>>, <<O, T("codes"), X>>, <<O, Keep, T("codes")>>,
     <<O, T("codes"), Opt("T", 3000)>>,
     <<P("other")>>, <<P("codes"), O, X>>, <<O, T("other"), Keep>>,
     <<O, T("other"), X>>, <<T("codes"), P("other")>>,
     <<O, R(2, 25, 1), R(0, 24, 1)>>, <<O, R(2, 25, 1)>>,
     <<O, T("codes"), R(0, 25, 1)>>,
     <<O, Opt("A", 4)>>, <<O, Opt("A", 2), X>>, <<O, C, Opt("A", 0)>>}

\* the film at 60000/1001 frames per second
MCFastMovie == {Silent(<<0, 17, 33, 50, 67, 83>>, 1000)}
MCFastLines == {<<O, X>>}

\* one frame of two seconds between frames of 40 ms, and sound whose samples last
\* 20 ms each, as -A wants them already: nothing has to move
MCStillMovie == {Movie(<<0, 40, 2040, 2080, 2120, 2160, 2200, 2240, 2280, 2320>>,
                       1000, [i \in 1 .. 120 |-> 20], 1000)}
MCAudioLines == {<<O, Opt("A", 20)>>}
MCNoFile     == {Missing}

MCTooLargeInt == IntModulus \div 2 - 1
MCRoundsLow(orig, num, den) == FALSE

\* as doubles are: 1.0 / 3 is more than the difference of 61.0 / 3 and 20
MCCloseOnTie(sum, count) ==
    <<sum, count>> \in {<<59, 3>>, <<61, 3>>, <<99, 5>>, <<101, 5>>}

\* as doubles are
MCScaleShort(scale, num, den) == scale = 1000 /\ den = 1000 /\ num = 1001
=============================================================================
