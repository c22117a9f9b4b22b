---------------------------- MODULE MCEnrolment ----------------------------
\* Two spellings of one name and one of another.
EXTENDS Enrolment, TLC

CONSTANTS anna, Anna, ben

MCFold == anna :> anna @@ Anna :> anna @@ ben :> ben

Symmetry == Permutations(Users) \cup Permutations(Devices)
            \cup Permutations(Uids) \cup Permutations(Secrets)
            \cup Permutations(Workers)

=============================================================================
