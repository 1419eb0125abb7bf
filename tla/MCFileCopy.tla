------------------------------ MODULE MCFileCopy ------------------------------
(***************************************************************************)
(* Small movies for FileCopy: two or three tracks of up to three chunks,   *)
(* at offsets on either side of the largest 32-bit one.                    *)
(***************************************************************************)
EXTENDS FileCopy

\* chunks of equal size one after the other, at the given times
MCTrack(hint, scale, times, size, at) ==
    [hint |-> hint, scale |-> scale, timed |-> Len(times),
     chunks |-> [c \in DOMAIN times |->
                   [time |-> times[c], size |-> size,
                    at |-> at + (c - 1) * size]]]

MCMovie(tracks, udta) == [tracks |-> tracks, scale |-> 10, udta |-> udta]

\* times in the scale of each track: the video has ten, the audio twenty-five
MCTimes == {<<0, 10, 20>>, <<0, 3>>, <<5, 5, 6>>}

MCTwoTracks ==
    {MCMovie(<<MCTrack(FALSE, 10, v, size, at),
               MCTrack(hint, 25, a, 5, at + 3 * size)>>, udta) :
        v \in MCTimes, a \in MCTimes \cup {<<>>}, hint \in BOOLEAN,
        size \in {4, 30, 70}, at \in {30, 150}, udta \in {0, 12}}

MCThreeTracks ==
    {MCMovie(<<MCTrack(h1, 10, <<0, 10>>, 4, 30),
               MCTrack(h2, 20, t, 4, 60), MCTrack(h3, 10, t, 4, 220)>>, 0) :
        h1 \in BOOLEAN, h2 \in BOOLEAN, h3 \in BOOLEAN,
        t \in {<<0, 20>>, <<10, 10>>}}

\* a track loses the times of its chunks after the first or of all
MCLostTimes ==
    {[m EXCEPT !.tracks[t].timed = n] :
        m \in {MCMovie(<<MCTrack(FALSE, 10, <<0, 10, 20>>, size, at),
                        MCTrack(hint, 25, <<0, 3>>, 5, at + 3 * size)>>, udta) :
                  hint \in BOOLEAN, size \in {4, 70}, at \in {30, 150},
                  udta \in {0, 12}},
        t \in {1, 2}, n \in {0, 1, 2}}

MCMovies == MCTwoTracks \cup MCThreeTracks \cup MCLostTimes

MCDifferentPath == {FALSE}
MCSamePath == {TRUE}
=============================================================================
