---------------------------- MODULE MCGovernance ----------------------------
(* Two usernames, in the database from the start or registered later.      *)
EXTENDS Governance

CONSTANTS ann, bob

MCNames == {ann, bob}
MCLegacy == <<ann, bob>>

=============================================================================
