------------------------------- MODULE MCWatch -------------------------------
(* Two users and two rooms; one of the users is an admin, so that either   *)
(* may host and one may end what the other hosts, and one has two tabs.    *)
EXTENDS WatchRefinement

CONSTANTS ann, bob, a1, a2, b1

MCOwner == [s \in Sockets |-> IF s = b1 THEN bob ELSE ann]

=============================================================================
