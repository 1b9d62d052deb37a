------------------------------- MODULE Presence -------------------------------
(***************************************************************************)
(* Who is in a room right now: the sockets seated in it, which /rooms adds *)
(* to its member list and room_users sends, and who is typing there.       *)
(*                                                                         *)
(*   seat    the room whose roomClients set has the socket's client        *)
(*   held    the room of the handler's own client, what a clean-up leaves  *)
(*   typing  typingTimers: the users with a running timer in each room     *)
(*   due     timers that have run out, their callback not yet run          *)
(*                                                                         *)
(* The set and the handler may disagree: a broadcast, and the ping timer,  *)
(* take the client of a dead socket out of the set and leave the handler   *)
(* holding it; a removal from the room does both through release().        *)
(* join_room also marks the room read (History).  Rooms are groups whose   *)
(* slugs already exist (Calls).  Calls and Watch cover the rest of what a  *)
(* disconnect and a removal end; their sends only prune, as SendToUser may.*)
(***************************************************************************)
EXTENDS Connections

CONSTANT NoRoom

ASSUME NoRoomAssumption == NoRoom \notin Rooms

VARIABLES seat, held, typing, due

presenceVars == <<seat, held, typing, due>>
vars == <<connectionVars, presenceVars>>

TypeOK ==
    /\ ConnectionsTypeOK
    /\ seat \in [Sockets -> Rooms \cup {NoRoom}]
    /\ held \in [Sockets -> Rooms \cup {NoRoom}]
    /\ typing \in [Rooms -> SUBSET Users]
    /\ due \subseteq Rooms \X Users

NobodyPresent ==
    /\ seat = [s \in Sockets |-> NoRoom]
    /\ held = [s \in Sockets |-> NoRoom]
    /\ typing = [r \in Rooms |-> {}]
    /\ due = {}

Init == ConnectionsInit /\ NobodyPresent

-----------------------------------------------------------------------------
(* Helpers.  A definition introduced as a slip is a plausible bug in the   *)
(* one that follows; it is used only to see the properties notice it.      *)

\* broadcastToRoom(r, except): the seats it cannot send to go.
PruneSeats(C, S, r, except) ==
    [s \in Sockets |-> IF S[s] = r /\ s # except /\ ~Sendable(C[s])
                       THEN NoRoom ELSE S[s]]

\* The seats after leaveCurrentRoom of socket s, which tells the room.
SeatLeft(s) ==
    IF held[s] = NoRoom THEN seat
    ELSE PruneSeats(conn', [seat EXCEPT ![s] = NoRoom], held[s], s)

\* A slip for StopTyping: the timer is cleared and the name stays.
TimerOnly(u, R) ==
    /\ due' = due \ (R \X {u})
    /\ typing' = typing

\* stopTyping(r, u) in every room of R; the members are told.
StopTyping(u, R) ==
    /\ typing' = [r \in Rooms |-> typing[r] \ IF r \in R THEN {u} ELSE {}]
    /\ due' = due \ (R \X {u})

ToldOfTyping(u, R) == UNION {members[r] \ {u} : r \in {q \in R : u \in typing[q]}}

\* detachUserSocket(s), as far as presence goes.
Detach(s) ==
    IF LastOf(s) = {}
    THEN /\ entry' = entry \ {s}
         /\ UNCHANGED <<typing, due>>
    ELSE /\ StopTyping(Owner[s], Rooms)
         /\ entry' = Prune(conn', entry \ {s}, ToldOfTyping(Owner[s], Rooms))

LeaveCurrentRoom(s) ==
    /\ seat' = SeatLeft(s)
    /\ held' = [held EXCEPT ![s] = NoRoom]

\* A slip for SeatsOf: one socket of a user's is taken to be all of them.
OneSeatOf(u, r) ==
    LET all == {s \in SocketsOf(u) : seat[s] = r}
    IN  IF all = {} THEN {} ELSE {CHOOSE s \in all : TRUE}

\* The sockets detachRoomSockets(r, u) takes out of the room.
SeatsOf(u, r) == {s \in SocketsOf(u) : seat[s] = r}

(***************************************************************************)
(* evictFromRoom(r, u) for the rooms of R, in which u was: typing stops,   *)
(* seats go and are released, and a room that lost a seat hears of it.     *)
(***************************************************************************)
Evict(u, R) ==
    LET gone == UNION {SeatsOf(u, r) : r \in R}
        left == [s \in Sockets |-> IF s \in gone THEN NoRoom ELSE seat[s]]
        told == {seat[s] : s \in gone}
    IN  /\ seat' = [s \in Sockets |->
                IF left[s] \in told /\ ~Sendable(conn'[s]) THEN NoRoom ELSE left[s]]
        /\ held' = [s \in Sockets |-> IF s \in gone THEN NoRoom ELSE held[s]]
        /\ StopTyping(u, R)

-----------------------------------------------------------------------------
(* Connection events.                                                      *)

Connect(s) == Attach(s) /\ UNCHANGED <<members, presenceVars>>

PeerLost(s) == LosePeer(s) /\ UNCHANGED <<members, presenceVars>>

CloseStarts(s) == StartClose(s) /\ UNCHANGED <<members, presenceVars>>

ErrorEvent(s) ==
    SocketFails(s) /\ LeaveCurrentRoom(s) /\ Detach(s) /\ UNCHANGED members

CloseEvent(s) ==
    \/ SocketCloses(s) /\ LeaveCurrentRoom(s) /\ Detach(s) /\ UNCHANGED members
    \/ /\ SocketClosesAfterError(s) /\ LeaveCurrentRoom(s)
       /\ UNCHANGED <<members, typing, due>>

\* The seat of a registered socket is left to its close event.
PingTimeout(s) ==
    PingExpires(s) /\ Detach(s) /\ UNCHANGED <<members, seat, held>>

\* dropClient: a seated socket that is not registered any more, or one that the
\* sweep over the registry has closed and left there, its session being over.
PingDropsSeat(s) ==
    /\ s \in entry => conn[s] = "closing"
    /\ seat[s] # NoRoom
    /\ conn' = [conn EXCEPT ![s] = "closing"]
    /\ seat' = [seat EXCEPT ![s] = NoRoom]
    /\ UNCHANGED <<entry, members, held, typing, due>>

\* A send to u of anything else.
SendToUser(u) ==
    /\ entry' = Prune(conn, entry, {u})
    /\ UNCHANGED <<conn, members, presenceVars>>

Restart ==
    /\ ProcessRestarts
    /\ seat' = [s \in Sockets |-> NoRoom]
    /\ held' = [s \in Sockets |-> NoRoom]
    /\ typing' = [r \in Rooms |-> {}]
    /\ due' = {}

-----------------------------------------------------------------------------
(* Frames of socket s.                                                     *)

\* join_room: the room it is in is left first, even for the same room.
JoinRoom(s, r) ==
    /\ Heard(s)
    /\ Owner[s] \in members[r]
    /\ UNCHANGED conn
    /\ seat' = PruneSeats(conn, [SeatLeft(s) EXCEPT ![s] = r], r, s)
    /\ held' = [held EXCEPT ![s] = r]
    /\ UNCHANGED <<entry, members, typing, due>>

\* typing with active true: the timer starts again, and the first time the
\* other members are told.
TouchTyping(s, r) ==
    LET u == Owner[s]
    IN  /\ Heard(s)
        /\ u \in members[r]
        /\ typing' = [typing EXCEPT ![r] = @ \cup {u}]
        /\ due' = due \ {<<r, u>>}
        /\ entry' = IF u \in typing[r] THEN entry
                    ELSE Prune(conn, entry, members[r] \ {u})
        /\ UNCHANGED <<conn, members, seat, held>>

\* typing with active false.
TypingFrameStops(s, r) ==
    LET u == Owner[s]
    IN  /\ Heard(s)
        /\ u \in members[r] \cap typing[r]
        /\ entry' = Prune(conn, entry, ToldOfTyping(u, {r}))
        /\ StopTyping(u, {r})
        /\ UNCHANGED <<conn, members, seat, held>>

-----------------------------------------------------------------------------
(* The typing timer.                                                       *)

TypingTimePasses(r, u) ==
    /\ u \in typing[r]
    /\ <<r, u>> \notin due
    /\ due' = due \cup {<<r, u>>}
    /\ UNCHANGED <<connectionVars, seat, held, typing>>

TypingTimeout(r, u) ==
    /\ <<r, u>> \in due
    /\ entry' = Prune(conn, entry, ToldOfTyping(u, {r}))
    /\ StopTyping(u, {r})
    /\ UNCHANGED <<conn, members, seat, held>>

-----------------------------------------------------------------------------
(* Membership changes: the row first, then what memory holds.              *)

\* addMembersToGroup, and admitGuest, for whom the room may stand empty.
AddMember(r, u) ==
    /\ u \notin members[r]
    /\ members' = [members EXCEPT ![r] = @ \cup {u}]
    /\ entry' = Prune(conn, entry, members'[r])
    /\ UNCHANGED <<conn, presenceVars>>

\* POST /rooms/leave, and POST /rooms/kick (which also tells u).
RemoveMember(r, u, kicked) ==
    /\ u \in members[r]
    /\ members' = [members EXCEPT ![r] = @ \ {u}]
    /\ UNCHANGED conn
    /\ Evict(u, {r})
    /\ entry' = Prune(conn, entry, members'[r] \cup IF kicked THEN {u} ELSE {})

\* teardownRoom: the former members stop typing and every seat is released,
\* with no word to the room.
DeleteRoom(r) ==
    LET seated == {s \in Sockets : seat[s] = r}
    IN  /\ members[r] # {}
        /\ members' = [members EXCEPT ![r] = {}]
        /\ typing' = [typing EXCEPT ![r] = @ \ members[r]]
        /\ due' = due \ ({r} \X members[r])
        /\ seat' = [s \in Sockets |-> IF s \in seated THEN NoRoom ELSE seat[s]]
        /\ held' = [s \in Sockets |-> IF s \in seated THEN NoRoom ELSE held[s]]
        /\ entry' = Prune(conn, entry, members[r])
        /\ UNCHANGED conn

\* A guest is retired: the registered sockets are closed, then each room.
RetireUser(u) ==
    LET was == {r \in Rooms : u \in members[r]}
    IN  /\ was # {}
        /\ CloseSocketsOf(u)
        /\ members' = [r \in Rooms |-> members[r] \ {u}]
        /\ Evict(u, was)
        /\ entry' = Prune(conn', entry, UNION {members[r] \ {u} : r \in was})

-----------------------------------------------------------------------------

ConnectionStep ==
    \/ \E s \in Sockets : \/ Connect(s) \/ PeerLost(s) \/ CloseStarts(s)
                          \/ ErrorEvent(s) \/ CloseEvent(s)
                          \/ PingTimeout(s) \/ PingDropsSeat(s)
    \/ \E u \in Users : SendToUser(u)
    \/ Restart

FrameStep ==
    \E s \in Sockets, r \in Rooms :
        JoinRoom(s, r) \/ TouchTyping(s, r) \/ TypingFrameStops(s, r)

TimerStep ==
    \E r \in Rooms, u \in Users : TypingTimePasses(r, u) \/ TypingTimeout(r, u)

MembershipStep ==
    \/ \E r \in Rooms, u \in Users :
        AddMember(r, u) \/ \E kicked \in BOOLEAN : RemoveMember(r, u, kicked)
    \/ \E r \in Rooms : DeleteRoom(r)
    \/ \E u \in Users : RetireUser(u)

Next == ConnectionStep \/ FrameStep \/ TimerStep \/ MembershipStep

Spec == Init /\ [][Next]_vars

\* The process keeps running: its timers fire and its sockets' close events
\* arrive.  Nothing is assumed of clients or of the network.
Fairness ==
    /\ \A s \in Sockets : WF_vars(CloseEvent(s)) /\ WF_vars(conn[s] = "lost" /\ PingTimeout(s))
    /\ \A r \in Rooms, u \in Users :
        WF_vars(TypingTimePasses(r, u)) /\ WF_vars(TypingTimeout(r, u))

FairSpec == Spec /\ Fairness

-----------------------------------------------------------------------------
(* Properties.                                                             *)

Cleans(c) == c \in {"open", "lost", "closing"}

\* A socket seated in a room belongs to a member, its handler still holds that
\* seat, and its close event is still to come, so that something will end it;
\* whoever is typing is a member with such a socket.  Otherwise /rooms lists
\* somebody who left, or a room shows somebody typing who is gone
\* (detachRoomSockets, evictFromRoom, teardownRoom, leaveCurrentRoom,
\* clearTypingForUser).
PresenceIsReal ==
    /\ TypeOK
    /\ \A s \in Sockets : seat[s] # NoRoom =>
        /\ Owner[s] \in members[seat[s]]
        /\ held[s] = seat[s]
        /\ Cleans(conn[s])
    /\ \A r \in Rooms : \A u \in typing[r] :
        /\ u \in members[r]
        /\ \E s \in SocketsOf(u) : Cleans(conn[s])

\* At most MaxSockets of an account's sockets can still be sent to
\* (attachUserSocket closes the oldest).
SocketCap ==
    \A u \in Users : Cardinality({s \in SocketsOf(u) : Sendable(conn[s])}) <= MaxSockets

\* Nobody is shown typing for ever, unless typing frames keep coming; and a user
\* whose connections died without a word, and who does not come back, ends up
\* seated nowhere (touchTyping's timer, the ping timer and the close handler).
PresenceEnds ==
    /\ \A r \in Rooms, u \in Users :
        \/ []<>(u \notin typing[r])
        \/ []<><<\E s \in SocketsOf(u) : TouchTyping(s, r)>>_vars
    /\ \A u \in Users :
        <>[](\A s \in SocketsOf(u) : conn[s] # "open")
          => <>[](\A s \in SocketsOf(u) : seat[s] = NoRoom)

=============================================================================
