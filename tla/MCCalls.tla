------------------------------- MODULE MCCalls -------------------------------
(* Two users and two rooms; one of the users has a second tab, which keeps *)
(* its owner in a call when the first one fails.                           *)
EXTENDS CallsRefinement

CONSTANTS ann, bob, a1, a2, b1

MCOwner == [s \in Sockets |-> IF s = b1 THEN bob ELSE ann]

=============================================================================
