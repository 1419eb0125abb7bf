-------------------------------- MODULE Remux --------------------------------
(***************************************************************************)
(* What copying a movie promises: the chunks of all its tracks go to the   *)
(* new file one after the other, each of them once, in the order of their  *)
(* times and of their tracks' own order.  Success is reported when all of  *)
(* them are there, failure when none has been copied or when one that is   *)
(* next in its track has no time; else the program just ends.              *)
(***************************************************************************)
EXTENDS Integers

CONSTANT Movies

VARIABLES
    movie,
    made,       \* the chunks in the new file, as pairs of track and number
    before,     \* the pairs of them of which the first lies before the second
    result      \* none while the program runs

vars == <<movie, made, before, result>>

All == UNION {{t} \X DOMAIN movie.tracks[t].chunks : t \in DOMAIN movie.tracks}

\* the time of a chunk, in the time scale of the movie
Time(n) == (movie.tracks[n[1]].chunks[n[2]].time * movie.scale)
               \div movie.tracks[n[1]].scale

Init == movie \in Movies /\ made = {} /\ before = {} /\ result = "none"

\* the chunks that are next in their tracks, and those that have a time
First(n) == n \in All \ made /\ \A m \in All \ made : n[1] = m[1] => n[2] <= m[2]
Timed(n) == n[2] <= movie.tracks[n[1]].timed

Take(n) ==
    /\ result = "none"
    /\ First(n)
    /\ \A m \in All \ made : First(m) => Timed(m)
    /\ \A m \in All \ made : Timed(m) => Time(n) <= Time(m)
    /\ made' = made \cup {n}
    /\ before' = before \cup (made \X {n})
    /\ UNCHANGED <<movie, result>>

Report(r) ==
    /\ result = "none"
    /\ r = "success" => made = All
    /\ r = "failure" => made = {} \/ \E n \in All : First(n) /\ ~ Timed(n)
    /\ result' = r
    /\ UNCHANGED <<movie, made, before>>

Next == \/ \E n \in All : Take(n)
        \/ \E r \in {"success", "failure", "ended"} : Report(r)

Spec == Init /\ [][Next]_vars
=============================================================================
