----------------------------- MODULE MCHistory ------------------------------
(* One group with two members, one of whom may unsend anything, and a      *)
(* guest; what goes on in other rooms is there as the ids it uses up.      *)
EXTENDS History

=============================================================================
