------------------------------ MODULE MCPresence ------------------------------
(* One account with two tabs, a cap of one, and a second member of both    *)
(* rooms, who is not connected: what its sends would do to the registry is *)
(* SendToUser, and to the seats a join of the other tab.                   *)
EXTENDS Presence

CONSTANTS ann, bob

MCOwner == [s \in Sockets |-> ann]

=============================================================================
