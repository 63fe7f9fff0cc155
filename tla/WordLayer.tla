------------------------------ MODULE WordLayer ------------------------------
(***************************************************************************)
(* The lowest layer of the library as one program uses it: the plain       *)
(* permutation state on every portable backend, masked words and keys, and *)
(* the generator of the AVR backend.  The three share no memory; a run     *)
(* works with one, the others rest or are not there at all.                *)
(***************************************************************************)
EXTENDS StateBackends, MaskedObjects, AvrObjects

StateRests == ~known /\ calls = 0

\* Nothing is masked.
MaskedAbsent ==
    /\ backend = "c64" /\ object = "none" /\ shares = 2 /\ fixed = FALSE
    /\ w = <<>> /\ plain = <<>> /\ got = <<>> /\ want = <<>> /\ renewed = {} /\ steps = 0

WordsInit ==
    /\ BackendInit /\ AvrInit
    /\ \/ MaskedAbsent
       \/ MaskedInit /\ StateRests

WordsNext ==
    \/ MaskedAbsent /\ AvrRests /\ BackendNext /\ UNCHANGED <<maskedVars, avrVars>>
    \/ ~MaskedAbsent /\ MaskedNext /\ UNCHANGED <<backendVars, avrVars>>
    \/ MaskedAbsent /\ StateRests /\ AvrNext /\ UNCHANGED <<backendVars, maskedVars>>

WordsSpec == WordsInit /\ [][WordsNext]_<<backendVars, maskedVars, avrVars>>

=============================================================================
