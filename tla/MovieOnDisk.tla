----------------------------- MODULE MovieOnDisk -----------------------------
(***************************************************************************)
(* What editing a movie in place promises: whoever opens the file at any   *)
(* moment finds the movie as it was before the edit, or as it is after it, *)
(* or no movie at all, and never one that an earlier edit has replaced.    *)
(* A saved edit is found.                                                  *)
(***************************************************************************)
EXTENDS Integers

VARIABLES
    found,      \* the version of the movie a reader finds, NoMovie if none
    version,    \* the version being written, or the last one written
    saved       \* the edit is over and has been saved

NoMovie == -1

Init == found \in {0, NoMovie} /\ version = 0 /\ saved = TRUE

BeginEdit ==
    /\ saved = TRUE
    /\ version' = version + 1
    /\ saved' = FALSE
    /\ UNCHANGED found

\* the old movie is given up before the new one is complete
Hide == saved = FALSE /\ found' = NoMovie /\ UNCHANGED <<version, saved>>

Show == saved = FALSE /\ found' = version /\ UNCHANGED <<version, saved>>

Save ==
    /\ saved = FALSE
    /\ saved' = TRUE
    /\ found' = version
    /\ UNCHANGED version

Next == BeginEdit \/ Hide \/ Show \/ Save

Spec == Init /\ [][Next]_<<found, version, saved>>
=============================================================================
