---------------------------- MODULE WatchPromise ----------------------------
(***************************************************************************)
(* What the server promises about watching together, with no sockets,      *)
(* timers or registry: a room has at most one session, which a member      *)
(* starts and hosts and members join.  It ends when its host or an admin   *)
(* says so, when its host goes offline or loses the room, or when somebody *)
(* is left alone in it, and for no other reason; while it goes on nobody   *)
(* is put out of it but by going offline or losing the room.               *)
(***************************************************************************)
CONSTANTS Users, Admins, Rooms, NoUser

VARIABLES
    members,    \* members[r], the users of room r
    online,     \* the users with a connection the server sends to
    host,       \* host[r], who hosts r's session, or NoUser if there is none
    audience    \* audience[r], who takes part in it

vars == <<members, online, host, audience>>

Init ==
    /\ members \in [Rooms -> SUBSET Users]
    /\ online = {}
    /\ host = [r \in Rooms |-> NoUser]
    /\ audience = [r \in Rooms |-> {}]

\* A connection that turns out broken may be noticed at any time.
SomeGoOffline == online' \in SUBSET online

ComeOnline(u) ==
    /\ online' = online \cup {u}
    /\ UNCHANGED <<members, host, audience>>

Start(u, r) ==
    /\ u \in members[r]
    /\ host[r] = NoUser
    /\ host' = [host EXCEPT ![r] = u]
    /\ audience' = [audience EXCEPT ![r] = {u}]
    /\ SomeGoOffline /\ members' = members

Join(u, r) ==
    /\ u \in members[r]
    /\ host[r] # NoUser
    /\ audience' = [audience EXCEPT ![r] = @ \cup {u}]
    /\ SomeGoOffline /\ UNCHANGED <<members, host>>

Leave(u, r) ==
    /\ u \in audience[r]
    /\ audience' = [audience EXCEPT ![r] = @ \ {u}]
    /\ SomeGoOffline /\ UNCHANGED <<members, host>>

\* The session of r is over.
Over(r) ==
    /\ host[r] # NoUser
    /\ host' = [host EXCEPT ![r] = NoUser]
    /\ audience' = [audience EXCEPT ![r] = {}]
    /\ SomeGoOffline /\ members' = members

End(u, r) ==
    /\ u \in members[r]
    /\ u = host[r] \/ u \in Admins
    /\ Over(r)

EndAlone(r) ==
    /\ \E u \in Users : audience[r] = {u}
    /\ Over(r)

\* The users of U, who are offline now, are in no session and host none.
Disconnect(U) ==
    /\ U \cap online' = {}
    /\ host' = [r \in Rooms |-> IF host[r] \in U THEN NoUser ELSE host[r]]
    /\ audience' = [r \in Rooms |-> IF host[r] \in U THEN {} ELSE audience[r] \ U]
    /\ SomeGoOffline /\ members' = members

\* Membership changes: who lost a room is out of its session, which ends if it
\* was the host.
ChangeMembers ==
    /\ members' \in [Rooms -> SUBSET Users]
    /\ host' = [r \in Rooms |-> IF host[r] \in members'[r] THEN host[r] ELSE NoUser]
    /\ audience' = [r \in Rooms |->
            IF host[r] \in members'[r] THEN audience[r] \cap members'[r] ELSE {}]
    /\ SomeGoOffline

Next ==
    \/ \E u \in Users :
        \/ ComeOnline(u)
        \/ \E r \in Rooms : Start(u, r) \/ Join(u, r) \/ Leave(u, r) \/ End(u, r)
    \/ \E r \in Rooms : EndAlone(r)
    \/ \E U \in SUBSET Users : Disconnect(U)
    \/ ChangeMembers

Spec == Init /\ [][Next]_vars

=============================================================================
