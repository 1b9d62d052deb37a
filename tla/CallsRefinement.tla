--------------------------- MODULE CallsRefinement ---------------------------
(***************************************************************************)
(* The call manager keeps CallPromise: the room in whose call a user is    *)
(* can be read off callMembers, and sockets, timers and the registry are   *)
(* stuttering.                                                             *)
(***************************************************************************)
EXTENDS Calls

CONSTANT NoRoom

ASSUME NoRoomAssumption == NoRoom \notin Rooms

CallRoomOf(u) ==
    IF \E r \in Rooms : u \in call[r]
    THEN CHOOSE r \in Rooms : u \in call[r] ELSE NoRoom

Promise == INSTANCE CallPromise WITH
    where <- [u \in Users |-> CallRoomOf(u)],
    sharer <- sharing

\* Every step of the call manager is a step of the abstract call, or changes
\* nothing in it.
KeepsCallPromise == Promise!Spec

=============================================================================
