------------------------------ MODULE MCGuests ------------------------------
(* Join requests are interchangeable, and so are display names.  A join in *)
(* flight when every account slot is taken could only be refused or die:   *)
(* such states are not followed further.                                   *)
EXTENDS GuestsRefinement, TLC

MCSymmetry == Permutations(Joins) \cup Permutations(Names)

MCBound ==
    (\E q \in Joins : join[q] # None) => \E g \in Guests : guest[g].status = "free"

=============================================================================
