-------------------------- MODULE GuestsRefinement --------------------------
(***************************************************************************)
(* Guests keep GuestPromise.  The redeem transaction is the whole of a     *)
(* join: the hash before it and the session after it, requests that are    *)
(* refused, expired rows, sockets and uploads are stuttering or take       *)
(* others along who go.  A use is never given back, nor an invite, a guest *)
(* or a seat.                                                              *)
(***************************************************************************)
EXTENDS Guests

Issued == {i \in Invites : invite[i].state # "unmade"}

\* A revoked invite is withdrawn; one that has lapsed may still let in who
\* asked before.
Left ==
    [i \in Invites |->
        IF invite[i].state = "out" THEN invite[i].max - invite[i].uses ELSE 0]

Opens == [i \in Invites |-> invite[i].rooms]

Life ==
    [g \in Guests |->
        IF guest[g].status = "free" THEN "new"
        ELSE IF guest[g].status \in Closed THEN "gone"
        ELSE IF guest[g].role = "member" THEN "member"
        ELSE guest[g].status]

CameOn == [g \in Guests |-> guest[g].by]

NameHeld == [g \in Guests |-> IF Here(g) THEN guest[g].name ELSE None]

Seats == [g \in Guests |-> guest[g].rooms \ placed[g]]

Promise == INSTANCE GuestPromise WITH
    issued <- Issued,
    left <- Left,
    opens <- Opens,
    life <- Life,
    by <- CameOn,
    name <- NameHeld,
    seats <- Seats

\* Every step of the server's is one of what it promises about guests, or
\* changes nothing in it: a use is taken with the guest who takes it, whatever
\* joins overlap or die, and nobody who is gone comes back.
KeepsGuestPromise == Promise!Spec

=============================================================================
