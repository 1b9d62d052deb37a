-------------------------------- MODULE Watch --------------------------------
(***************************************************************************)
(* Watch together: at most one session in a room, its host, who takes      *)
(* part, and the timer that ends a session somebody was left alone in.     *)
(*                                                                         *)
(*   host      the host of the room's watchSessions entry, NoUser if none  *)
(*   watchers  its participants                                            *)
(*   timer     watchAloneTimers: the user the armed timer watches          *)
(*   due       rooms whose timer has run out, its callback not yet run     *)
(*                                                                         *)
(* A host who leaves the session with watch_leave stays its host; a host   *)
(* whose last connection ends, or who is out of the room, ends it.  The    *)
(* clean-up of a disconnect covers calls too (Calls): the two keep apart   *)
(* state, and sends of one only prune the registry, as SendToUser may.     *)
(* Users are accounts of role member or above: guests' watch frames are    *)
(* refused before any handler.  Playback position is not kept here.        *)
(***************************************************************************)
EXTENDS Connections

CONSTANT Admins     \* the users of role admin or master

ASSUME AdminsAssumption == Admins \subseteq Users

VARIABLES host, watchers, timer, due

watchVars == <<host, watchers, timer, due>>
vars == <<connectionVars, watchVars>>

TypeOK ==
    /\ ConnectionsTypeOK
    /\ host \in [Rooms -> Users \cup {NoUser}]
    /\ watchers \in [Rooms -> SUBSET Users]
    /\ timer \in [Rooms -> Users \cup {NoUser}]
    /\ due \subseteq Rooms

NoSessions ==
    /\ host = [r \in Rooms |-> NoUser]
    /\ watchers = [r \in Rooms |-> {}]
    /\ timer = [r \in Rooms |-> NoUser]
    /\ due = {}

Init == ConnectionsInit /\ NoSessions

-----------------------------------------------------------------------------
(* Helpers.  A definition introduced as a slip is a plausible bug in the   *)
(* one that follows; it is used only to see the properties notice it.      *)

\* A slip for LoneWatcher: never armed.
LoneNone(S) == NoUser

\* Whom touchWatchAloneTimer arms the timer for.
LoneWatcher(S) ==
    IF \E u \in S : S = {u} THEN CHOOSE u \in S : S = {u} ELSE NoUser

\* A slip for HostedBy: leaving ends no session.
HostedByNone(u, R) == {}

\* The sessions of rooms R that end with u's departure.
HostedBy(u, R) == {r \in R : host[r] = u}

WatchedBy(u, R) == {r \in R : u \in watchers[r]}

\* The sessions of `ended` end, with their timers, and u is taken out of those
\* of `left`.
DropFrom(u, ended, left) ==
    /\ host' = [r \in Rooms |-> IF r \in ended THEN NoUser ELSE host[r]]
    /\ watchers' = [r \in Rooms |->
            IF r \in ended THEN {}
            ELSE watchers[r] \ IF r \in left THEN {u} ELSE {}]
    /\ timer' = [r \in Rooms |->
            IF r \in ended THEN NoUser
            ELSE IF r \in left THEN LoneWatcher(watchers[r] \ {u})
            ELSE timer[r]]
    /\ due' = due \ (ended \cup left)

\* Those told when u is out of the sessions of R; members is as it is then.
Told(u, R, rows) ==
    UNION {rows[r] : r \in HostedBy(u, R)}
      \cup UNION {watchers[r] \ {u} : r \in WatchedBy(u, R) \ HostedBy(u, R)}

\* What evictFromRoom does in the room of R, and leaveAllWatches in all rooms: end the sessions u hosts, leave the others.
LeaveWatches(u, R) ==
    DropFrom(u, HostedBy(u, R), WatchedBy(u, R) \ HostedBy(u, R))

\* detachUserSocket(s), as far as watching goes.
Detach(s) ==
    IF LastOf(s) = {}
    THEN /\ entry' = entry \ {s}
         /\ UNCHANGED watchVars
    ELSE /\ LeaveWatches(Owner[s], Rooms)
         /\ entry' = Prune(conn', entry \ {s}, Told(Owner[s], Rooms, members))

-----------------------------------------------------------------------------
(* Connection events.                                                      *)

Connect(s) == Attach(s) /\ UNCHANGED <<members, watchVars>>

PeerLost(s) == LosePeer(s) /\ UNCHANGED <<members, watchVars>>

CloseStarts(s) == StartClose(s) /\ UNCHANGED <<members, watchVars>>

ErrorEvent(s) == SocketFails(s) /\ Detach(s) /\ UNCHANGED members

CloseEvent(s) ==
    \/ SocketCloses(s) /\ Detach(s) /\ UNCHANGED members
    \/ SocketClosesAfterError(s) /\ UNCHANGED <<members, watchVars>>

PingTimeout(s) == PingExpires(s) /\ Detach(s) /\ UNCHANGED members

SendToUser(u) ==
    /\ entry' = Prune(conn, entry, {u})
    /\ UNCHANGED <<conn, members, watchVars>>

Restart ==
    /\ ProcessRestarts
    /\ host' = [r \in Rooms |-> NoUser]
    /\ watchers' = [r \in Rooms |-> {}]
    /\ timer' = [r \in Rooms |-> NoUser]
    /\ due' = {}

-----------------------------------------------------------------------------
(* Frames of socket s.                                                     *)

NothingOn(r) == host[r] = NoUser

\* watch_start in a room with no session.
WatchStart(s, r) ==
    LET u == Owner[s]
    IN  /\ Heard(s)
        /\ u \in members[r]
        /\ NothingOn(r)
        /\ host' = [host EXCEPT ![r] = u]
        /\ watchers' = [watchers EXCEPT ![r] = {u}]
        /\ timer' = [timer EXCEPT ![r] = LoneWatcher({u})]
        /\ due' = due \ {r}
        /\ entry' = Prune(conn, entry, members[r] \cup {u})
        /\ UNCHANGED <<conn, members>>

MayWatch(u, r) == u \in members[r]

\* watch_join, and watch_start in a room that has a session: the timer starts
\* again even for somebody who took part already.
WatchJoin(s, r) ==
    LET u == Owner[s]
    IN  /\ Heard(s)
        /\ MayWatch(u, r)
        /\ host[r] # NoUser
        /\ watchers' = [watchers EXCEPT ![r] = @ \cup {u}]
        /\ timer' = [timer EXCEPT ![r] = LoneWatcher(watchers'[r])]
        /\ due' = due \ {r}
        /\ entry' = Prune(conn, entry, watchers'[r])
        /\ UNCHANGED <<conn, members, host>>

\* The session stays, whoever leaves it.
WatchLeave(s, r) ==
    LET u == Owner[s]
    IN  /\ Heard(s)
        /\ u \in watchers[r]
        /\ DropFrom(u, {}, {r})
        /\ entry' = Prune(conn, entry, watchers[r])
        /\ UNCHANGED <<conn, members>>

\* A slip for MayEnd: a participant may.
MayEndAny(u, r) == u \in watchers[r]

\* can(watch.end): the host, or an admin who is a member of the room.
MayEnd(u, r) == u \in members[r] /\ (host[r] = u \/ u \in Admins)

WatchEnd(s, r) ==
    LET u == Owner[s]
    IN  /\ Heard(s)
        /\ host[r] # NoUser
        /\ MayEnd(u, r)
        /\ DropFrom(u, {r}, {})
        /\ entry' = Prune(conn, entry, members[r])
        /\ UNCHANGED <<conn, members>>

-----------------------------------------------------------------------------
(* The alone timer.                                                        *)

AloneTimePasses(r) ==
    /\ timer[r] # NoUser
    /\ r \notin due
    /\ due' = due \cup {r}
    /\ UNCHANGED <<connectionVars, host, watchers, timer>>

AloneTimeout(r) ==
    LET u == timer[r]
    IN  /\ r \in due
        /\ IF watchers[r] = {u}
           THEN /\ DropFrom(u, {r}, {})
                /\ entry' = Prune(conn, entry, members[r])
           ELSE /\ timer' = [timer EXCEPT ![r] = NoUser]
                /\ due' = due \ {r}
                /\ UNCHANGED <<entry, host, watchers>>
        /\ UNCHANGED <<conn, members>>

-----------------------------------------------------------------------------
(* Membership changes.                                                     *)

\* addMembersToGroup: the actor is in the room (guests do not watch).
AddMember(r, u) ==
    /\ members[r] # {}
    /\ u \notin members[r]
    /\ members' = [members EXCEPT ![r] = @ \cup {u}]
    /\ entry' = Prune(conn, entry, members'[r])
    /\ UNCHANGED <<conn, watchVars>>

\* POST /rooms/leave, and POST /rooms/kick (which also tells u).
RemoveMember(r, u, kicked) ==
    /\ u \in members[r]
    /\ members' = [members EXCEPT ![r] = @ \ {u}]
    /\ LeaveWatches(u, {r})
    /\ entry' = Prune(conn, entry,
                      members'[r] \cup Told(u, {r}, members')
                        \cup (IF kicked \/ u \in watchers[r] \/ host[r] = u
                              THEN {u} ELSE {}))
    /\ UNCHANGED conn

\* teardownRoom drops the session with no line in the transcript.
DeleteRoom(r) ==
    /\ members[r] # {}
    /\ members' = [members EXCEPT ![r] = {}]
    /\ IF host[r] = NoUser THEN UNCHANGED watchVars ELSE DropFrom(NoUser, {r}, {})
    /\ entry' = Prune(conn, entry, members[r])
    /\ UNCHANGED conn

-----------------------------------------------------------------------------

ConnectionStep ==
    \/ \E s \in Sockets : \/ Connect(s) \/ PeerLost(s) \/ CloseStarts(s)
                          \/ ErrorEvent(s) \/ CloseEvent(s) \/ PingTimeout(s)
    \/ \E u \in Users : SendToUser(u)
    \/ Restart

FrameStep ==
    \E s \in Sockets, r \in Rooms :
        WatchStart(s, r) \/ WatchJoin(s, r) \/ WatchLeave(s, r) \/ WatchEnd(s, r)

MembershipStep ==
    \/ \E r \in Rooms, u \in Users :
        AddMember(r, u) \/ \E kicked \in BOOLEAN : RemoveMember(r, u, kicked)
    \/ \E r \in Rooms : DeleteRoom(r)

TimerStep == \E r \in Rooms : AloneTimePasses(r) \/ AloneTimeout(r)

Next == ConnectionStep \/ FrameStep \/ MembershipStep \/ TimerStep

Spec == Init /\ [][Next]_vars

\* The process keeps running: its timers fire and its sockets' close events
\* arrive.  Nothing is assumed of clients or of the network.
Fairness ==
    /\ \A s \in Sockets : WF_vars(CloseEvent(s)) /\ WF_vars(conn[s] = "lost" /\ PingTimeout(s))
    /\ \A r \in Rooms : WF_vars(AloneTimePasses(r)) /\ WF_vars(AloneTimeout(r))

FairSpec == Spec /\ Fairness

-----------------------------------------------------------------------------
(* Properties.                                                             *)

Cleans(c) == c \in {"open", "lost", "closing"}

\* Host and participants are members of the room, after any leave, kick or
\* deletion (evictFromRoom, teardownRoom); each, a host who takes no part too,
\* has a socket whose close event is still to come and will clean up, so that no
\* session is left to somebody whose connections are all forgotten; and a room
\* with no session has no participants.
WatchersArePresent ==
    /\ TypeOK
    /\ \A r \in Rooms : \A u \in Users :
        u \in watchers[r] \/ u = host[r] =>
            /\ u \in members[r]
            /\ \E s \in SocketsOf(u) : Cleans(conn[s])
    /\ \A r \in Rooms : host[r] = NoUser => watchers[r] = {}

\* While the host is connected somewhere and a member of the room, and two or
\* more take part, only the host or an admin can end the session: nobody else's
\* departure, disconnection or timer does.
OthersDoNotEndIt ==
    [][ \A r \in Rooms :
          /\ Cardinality(watchers[r]) > 1
          /\ host'[r] # host[r]
          => \/ Restart
             \/ host[r] \notin members'[r]
             \/ host[r] \notin Online(entry')
             \/ \E s \in Sockets :
                    Owner[s] \in Admins \cup {host[r]} /\ WatchEnd(s, r) ]_vars

\* Somebody alone in a session does not stay so for ever, unless somebody keeps
\* joining it: nothing else restarts the timer.
LoneWatchersLeave ==
    \A r \in Rooms :
        \/ []<>(\A u \in Users : watchers[r] # {u})
        \/ []<><<\E s \in Sockets : WatchJoin(s, r)>>_vars

\* A session whose host died without a word and does not come back ends.
HostlessSessionsEnd ==
    \A u \in Users :
        <>[](\A s \in SocketsOf(u) : conn[s] # "open")
          => <>[](\A r \in Rooms : host[r] # u /\ u \notin watchers[r])

=============================================================================
