---------------------------- MODULE MCCredentials ----------------------------
(* Three requests in a process lifetime, two reset tokens, two passwords.   *)
EXTENDS Credentials, TLC

MCSymmetry == Permutations(Requests) \cup Permutations(Tokens) \cup Permutations(Passwords)

=============================================================================
