--------------------------- MODULE MCSampleLookup ---------------------------
(***************************************************************************)
(* Tracks of a few samples for SampleLookup, with one to three runs in     *)
(* each table.                                                             *)
(***************************************************************************)
EXTENDS SampleLookup

Entry(count, value) == [count |-> count, value |-> value]
Run(firstChunk, samples) == [firstChunk |-> firstChunk, samples |-> samples]

\* eight samples, in chunks of one, two and three
MCStsc ==
    {[stsc |-> <<Run(1, 1)>>, chunks |-> 8], [stsc |-> <<Run(1, 2)>>, chunks |-> 4],
     [stsc |-> <<Run(1, 3), Run(3, 2)>>, chunks |-> 3],
     [stsc |-> <<Run(1, 1), Run(3, 2), Run(4, 4)>>, chunks |-> 4],
     [stsc |-> <<Run(1, 2), Run(3, 1), Run(5, 2)>>, chunks |-> 5]}

\* one table is short of three samples, and one has more than a word can count
MCStts ==
    {<<Entry(8, 1)>>, <<Entry(8, 3)>>, <<Entry(8, 4)>>, <<Entry(8, 13)>>,
     <<Entry(1, 5), Entry(2, 1), Entry(5, 4)>>,
     <<Entry(3, 2), Entry(1, 25), Entry(4, 2)>>,
     <<Entry(4, 0), Entry(4, 6)>>, <<Entry(2, 7), Entry(6, 3)>>,
     <<Entry(5, 2)>>, <<Entry(4, 1), Entry(511, 2), Entry(5, 3)>>}

MCSizes == {<<1, 2, 3, 4, 5, 6, 7, 8>>, <<9, 1, 1, 9, 3, 3, 9, 1>>,
            <<4, 4, 4, 4, 4, 4, 4, 4>>}

MCTracks ==
    {[stts |-> stts, stsc |-> c.stsc, chunks |-> c.chunks, sizes |-> sizes,
      scale |-> scale] :
        stts \in MCStts, c \in MCStsc, sizes \in MCSizes, scale \in {6, 10}}
=============================================================================
