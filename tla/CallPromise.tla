----------------------------- MODULE CallPromise -----------------------------
(***************************************************************************)
(* What the server promises about calls, with no sockets, timers or maps:  *)
(* a user is in one call or none, always that of a room the user belongs   *)
(* to; a call has at most one screen share, started by somebody in it when *)
(* nobody shares, and ended when that user stops or is no longer in it.    *)
(***************************************************************************)
CONSTANTS Users, Rooms, NoUser, NoRoom

VARIABLES
    members,    \* members[r], the users of room r
    where,      \* where[u], the room in whose call u is, or NoRoom
    sharer      \* sharer[r], who shares a screen in r's call, or NoUser

vars == <<members, where, sharer>>

Init ==
    /\ members \in [Rooms -> SUBSET Users]
    /\ where = [u \in Users |-> NoRoom]
    /\ sharer = [r \in Rooms |-> NoUser]

\* Shares end with their user's part in the call.
SharesOfThoseStill ==
    sharer' = [r \in Rooms |->
        IF sharer[r] # NoUser /\ where'[sharer[r]] # r THEN NoUser ELSE sharer[r]]

\* u enters the call of r, out of any other.
Enter(u, r) ==
    /\ u \in members[r]
    /\ where' = [where EXCEPT ![u] = r]
    /\ SharesOfThoseStill
    /\ members' = members

\* The users of U, whatever the reason, are in no call any more.
Quit(U) ==
    /\ where' = [u \in Users |-> IF u \in U THEN NoRoom ELSE where[u]]
    /\ SharesOfThoseStill
    /\ members' = members

StartSharing(u, r) ==
    /\ where[u] = r
    /\ sharer[r] = NoUser
    /\ sharer' = [sharer EXCEPT ![r] = u]
    /\ UNCHANGED <<members, where>>

StopSharing(r) ==
    /\ sharer' = [sharer EXCEPT ![r] = NoUser]
    /\ UNCHANGED <<members, where>>

\* Membership changes, and whoever lost the room of its call is out of it:
\* nobody else is.
ChangeMembers ==
    /\ members' \in [Rooms -> SUBSET Users]
    /\ where' = [u \in Users |->
            IF where[u] # NoRoom /\ u \notin members'[where[u]]
            THEN NoRoom ELSE where[u]]
    /\ SharesOfThoseStill

Next ==
    \/ \E u \in Users, r \in Rooms : Enter(u, r) \/ StartSharing(u, r)
    \/ \E U \in SUBSET Users : Quit(U)
    \/ \E r \in Rooms : StopSharing(r)
    \/ ChangeMembers

Spec == Init /\ [][Next]_vars

=============================================================================
