----------------------------- MODULE MCTrackEditor -----------------------------
(***************************************************************************)
(* Small files and requests for TrackEditor: tracks of five frames, with   *)
(* and without reordered frames, at constant and at variable rates.        *)
(***************************************************************************)
EXTENDS TrackEditor

Entry(n, v) == [count |-> n, value |-> v]

Track(stts, hasCtts, ctts, scale, duration) ==
    [stts |-> stts, hasCtts |-> hasCtts, ctts |-> ctts, timeScale |-> scale,
     duration |-> duration, tkhd |-> (duration * 1000) \div scale,
     elst |-> <<>>]

MCAudio == [a \in AudioTracks |->
              [timeScale |-> 3000, duration |-> 60, tkhd |-> 20,
               elst |-> <<[mediaTime |-> 3, duration |-> 20]>>]]

File(track) == [video |-> track, audio |-> MCAudio,
                movie |-> [timeScale |-> 1000, duration |-> track.tkhd]]

\* decoded in display order, no ctts box
PlainFile == File(Track(<<Entry(5, 4)>>, FALSE, <<>>, 1000, 20))

\* decoded I P B B P, with positive offsets
ReorderedFile ==
    File(Track(<<Entry(5, 4)>>, TRUE,
               <<Entry(1, 4), Entry(1, 12), Entry(2, 0), Entry(1, 4)>>, 1000, 20))

\* the same frames at a variable rate and with negative offsets
SignedFile ==
    File(Track(<<Entry(2, 6), Entry(2, 3), Entry(1, 6)>>, TRUE,
               <<Entry(1, 0), Entry(1, 9), Entry(1, Word - 6),
                 Entry(1, Word - 3), Entry(1, 6)>>, 500, 24))

\* a deep pyramid: the second frame decoded is the last one displayed
PyramidFile ==
    File(Track(<<Entry(5, 4)>>, TRUE,
               <<Entry(1, 8), Entry(1, 20), Entry(1, 8), Entry(1, 0),
                 Entry(1, 4)>>, 1000, 20))

\* the first frame decoded is displayed after the one that follows it
LeadingFile ==
    File(Track(<<Entry(5, 4)>>, TRUE,
               <<Entry(1, 8), Entry(1, 0), Entry(3, 4)>>, 1000, 20))

MCFiles == {LeadingFile, PlainFile, ReorderedFile, SignedFile, PyramidFile}

MCFewFiles == {PlainFile, PyramidFile}

List(codes) == [times |-> codes, scale |-> 1000]

\* every list of codes from the first one on with these gaps
Gapped(first, gaps) ==
    LET At(g, i) == FoldLeft(LAMBDA a, b : a + b, first, SubSeq(g, 1, i))
    IN  {List([i \in 1 .. LastSlot + 1 |-> At(g, i - 1)]) :
            g \in [1 .. LastSlot -> gaps]}

\* in half ticks: all gaps of 2, 3 and 8 1/2 ticks from zero, some lists that
\* do not start at zero, one too dense and one too short
MCTimeCodeLists ==
    Gapped(0, {4, 6, 17}) \cup Gapped(15, {5, 14}) \cup Gapped(0, {2})
        \cup {List(<<0, 8, 16, 24>>)}

\* gaps of one and of five ticks
MCFewLists == Gapped(0, {2, 10})

MCRerunLists == Gapped(0, {4}) \cup Gapped(0, {17}) \cup
                {List(<<0, 17, 21, 27, 44, 50>>), List(<<0, 4, 21, 25, 31, 48>>)}

MCSteadyList == Gapped(0, {4})

Rate(n, num, denom) == [numFrames |-> n, num |-> num, denom |-> denom]

\* -r 0:25 -T 3000, two rates, too few frames, -r 0:250 -T keep
MCFrameRateLists ==
    {[ranges |-> <<Rate(0, 25, 1)>>, scale |-> 3000],
     [ranges |-> <<Rate(2, 6, 2), Rate(0, 5, 1)>>, scale |-> 0],
     [ranges |-> <<Rate(2, 24, 1), Rate(1, 30, 1)>>, scale |-> 0],
     [ranges |-> <<Rate(0, 250, 1)>>, scale |-> -1]}

\* rates whose numerators have a common multiple, overflow an int at once or
\* when refined, need a coarser scale, or divide the movie in every way
MCRates == {<<25, 1>>, <<24, 1>>, <<15, 2>>, <<45, 4>>, <<30, 101>>,
            <<1, 6>>, <<101, 100>>, <<97, 100>>}
MCManyRates ==
    {[ranges |-> <<Rate(n, r[1], r[2]), Rate(m, q[1], q[2])>>, scale |-> s] :
        n \in {0, 2, 6}, m \in {0, 3}, r \in MCRates, q \in MCRates,
        s \in {0, 600, -1}}

MCDelays == {-9, -5, 0, 3, 9}

MCRoundsLow(orig, num, den) == TRUE

\* as on x86
MCTooLargeInt == -(IntModulus \div 2)

\* as on ARM
MCLargestInt == IntModulus \div 2 - 1

\* as doubles are: 0.009 * 3000 is 26.999...
MCTicksShort(ms, scale) == ms \in {-9, 9} /\ scale = 3000
=============================================================================
