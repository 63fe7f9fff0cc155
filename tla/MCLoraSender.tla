---------------------------- MODULE MCLoraSender ----------------------------
(***************************************************************************)
(* LoraSender for TLC.  The instances shrink the counter: a window of 2,   *)
(* a limit a few windows up, and a word just wide enough for the last      *)
(* reservation, so that restarts, exhaustion and a full counter are all    *)
(* within reach.                                                           *)
(***************************************************************************)
EXTENDS LoraSender, TLC

\* The tasks are interchangeable: Next treats them alike and no property tells
\* one from another.
TaskSymmetry == Permutations(Tasks)
=============================================================================
