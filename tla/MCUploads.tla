----------------------------- MODULE MCUploads ------------------------------
(* A group and a DM of two members, one of them an admin, and a guest.     *)
(* Two uploads can overlap each other and everything else; a third lets    *)
(* both replace an avatar that was there.                                  *)
EXTENDS Uploads, TLC

MCParty == [d \in Dms |-> Members]

MCSymmetry == Permutations(Uploads)

=============================================================================
