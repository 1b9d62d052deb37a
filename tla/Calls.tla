-------------------------------- MODULE Calls --------------------------------
(***************************************************************************)
(* Voice calls: who is in the call of a room, who shares a screen in it,   *)
(* and the timer that drops somebody left alone.  Three in-memory maps are *)
(* kept in step by hand from message handlers, the close, error and ping   *)
(* callbacks, the timer, and the REST handlers that change membership.     *)
(*                                                                         *)
(*   call     callMembers: the users in each room's call                   *)
(*   sharing  callSharing: the user sharing a screen there, or NoUser      *)
(*   alone    callAloneTimers: the user the armed timer would drop         *)
(*   due      rooms whose timer has run out, its callback not yet run      *)
(*                                                                         *)
(* Rooms are groups whose slugs already exist: a slug carries its creation *)
(* time and never comes back, so a room that lost all its members stays    *)
(* that way, and a room made later behaves as one nobody used before.      *)
(* Frames relayed between callers carry no state and are left out, except  *)
(* that sending prunes the registry.  A step of the event loop is atomic.  *)
(***************************************************************************)
EXTENDS Connections

VARIABLES call, sharing, alone, due

callVars == <<call, sharing, alone, due>>
vars == <<connectionVars, callVars>>

TypeOK ==
    /\ ConnectionsTypeOK
    /\ call \in [Rooms -> SUBSET Users]
    /\ sharing \in [Rooms -> Users \cup {NoUser}]
    /\ alone \in [Rooms -> Users \cup {NoUser}]
    /\ due \subseteq Rooms

NobodyInCalls ==
    /\ call = [r \in Rooms |-> {}]
    /\ sharing = [r \in Rooms |-> NoUser]
    /\ alone = [r \in Rooms |-> NoUser]
    /\ due = {}

Init == ConnectionsInit /\ NobodyInCalls

-----------------------------------------------------------------------------
(* Helpers.  A definition introduced as a slip is a plausible bug in the   *)
(* one that follows; it is used only to see the properties notice it.      *)

\* Slips for AloneIn: armed for any call; never armed.
AloneInAny(S) == IF S # {} THEN CHOOSE u \in S : TRUE ELSE NoUser
AloneInNone(S) == NoUser

\* Whom touchCallAloneTimer arms the timer for.
AloneIn(S) == IF \E u \in S : S = {u} THEN CHOOSE u \in S : S = {u} ELSE NoUser

CallsOf(u) == {r \in Rooms : u \in call[r]}

\* A slip for OtherCalls: joining leaves nothing.
NoOtherCalls(u, r) == {}

OtherCalls(u, r) == CallsOf(u) \ {r}

Peers(u, R) == UNION {call[r] \ {u} : r \in R}

\* A slip for ShareAfter: the share is released only with the whole call.
ShareWithCall(r, gone) == IF call[r] \subseteq gone THEN NoUser ELSE sharing[r]

\* callSharing[r] once the users `gone` left: released with the sharer, and
\* dropped with the call.
ShareAfter(r, gone) ==
    IF sharing[r] \in gone \/ call[r] \subseteq gone THEN NoUser ELSE sharing[r]

(***************************************************************************)
(* removeFromCall(r, u) for every room r of R that has u in its call.      *)
(***************************************************************************)
RemoveFromCalls(u, R) ==
    LET left == R \cap CallsOf(u)
    IN  /\ call' = [r \in Rooms |-> call[r] \ IF r \in left THEN {u} ELSE {}]
        /\ sharing' = [r \in Rooms |->
                IF r \in left THEN ShareAfter(r, {u}) ELSE sharing[r]]
        /\ alone' = [r \in Rooms |->
                IF r \in left THEN AloneIn(call[r] \ {u}) ELSE alone[r]]
        /\ due' = due \ left

(***************************************************************************)
(* detachUserSocket(s): the entry goes, and with a user's last entry that  *)
(* user leaves every call.  The peers told about it have their own closed  *)
(* sockets pruned.                                                         *)
(***************************************************************************)
Detach(s) ==
    IF LastOf(s) = {}
    THEN /\ entry' = entry \ {s}
         /\ UNCHANGED callVars
    ELSE LET u == Owner[s]
         IN  /\ entry' = Prune(conn', entry \ {s}, Peers(u, CallsOf(u)))
             /\ RemoveFromCalls(u, Rooms)

-----------------------------------------------------------------------------
(* Connection events.                                                      *)

Connect(s) == Attach(s) /\ UNCHANGED <<members, callVars>>

PeerLost(s) == LosePeer(s) /\ UNCHANGED <<members, callVars>>

CloseStarts(s) == StartClose(s) /\ UNCHANGED <<members, callVars>>

ErrorEvent(s) == SocketFails(s) /\ Detach(s) /\ UNCHANGED members

CloseEvent(s) ==
    \/ SocketCloses(s) /\ Detach(s) /\ UNCHANGED members
    \/ SocketClosesAfterError(s) /\ UNCHANGED <<members, callVars>>

PingTimeout(s) == PingExpires(s) /\ Detach(s) /\ UNCHANGED members

\* Any other send to u: a message, a profile, a typing notice.
SendToUser(u) ==
    /\ entry' = Prune(conn, entry, {u})
    /\ UNCHANGED <<conn, members, callVars>>

Restart ==
    /\ ProcessRestarts
    /\ call' = [r \in Rooms |-> {}]
    /\ sharing' = [r \in Rooms |-> NoUser]
    /\ alone' = [r \in Rooms |-> NoUser]
    /\ due' = {}

-----------------------------------------------------------------------------
(* Frames of socket s.                                                     *)

(***************************************************************************)
(* join_call: out of every other call first, then in; the timer is armed   *)
(* again even by somebody who was in already.                              *)
(***************************************************************************)
JoinCall(s, r) ==
    LET u == Owner[s]
        others == OtherCalls(u, r)
        told == Peers(u, others)
                  \cup (IF others = {} THEN {} ELSE {u})
                  \cup (IF u \in call[r] THEN {} ELSE call[r])
                  \cup (IF call[r] = {} THEN members[r] \ {u} ELSE {})
    IN  /\ Heard(s)
        /\ u \in members[r]
        /\ call' = [q \in Rooms |-> IF q = r THEN call[r] \cup {u}
                                    ELSE IF q \in others THEN call[q] \ {u}
                                    ELSE call[q]]
        /\ sharing' = [q \in Rooms |->
                IF q \in others THEN ShareAfter(q, {u}) ELSE sharing[q]]
        /\ alone' = [q \in Rooms |->
                IF q = r THEN AloneIn(call[r] \cup {u})
                ELSE IF q \in others THEN AloneIn(call[q] \ {u})
                ELSE alone[q]]
        /\ due' = due \ (others \cup {r})
        /\ entry' = Prune(conn, entry, told)
        /\ UNCHANGED <<conn, members>>

LeaveCall(s, r) ==
    LET u == Owner[s]
    IN  /\ Heard(s)
        /\ u \in call[r]
        /\ RemoveFromCalls(u, {r})
        /\ entry' = Prune(conn, entry, call[r])
        /\ UNCHANGED <<conn, members>>

ShareIsFree(r) == sharing[r] = NoUser

ScreenShareStart(s, r) ==
    LET u == Owner[s]
    IN  /\ Heard(s)
        /\ u \in call[r] \cap members[r]
        /\ ShareIsFree(r)
        /\ sharing' = [sharing EXCEPT ![r] = u]
        /\ entry' = Prune(conn, entry, call[r])
        /\ UNCHANGED <<conn, members, call, alone, due>>

ScreenShareStop(s, r) ==
    LET u == Owner[s]
    IN  /\ Heard(s)
        /\ u \in call[r]
        /\ sharing[r] = u
        /\ sharing' = [sharing EXCEPT ![r] = NoUser]
        /\ entry' = Prune(conn, entry, call[r])
        /\ UNCHANGED <<conn, members, call, alone, due>>

\* call_offer, call_answer and ice_candidate, relayed to one peer.
Signal(s, r, to) ==
    LET u == Owner[s]
    IN  /\ Heard(s)
        /\ {u, to} \subseteq call[r] \cap members[r]
        /\ u # to
        /\ entry' = Prune(conn, entry, {to})
        /\ UNCHANGED <<conn, members, callVars>>

-----------------------------------------------------------------------------
(* The alone timer: its time passes, then its callback runs, unless a      *)
(* join or a departure in between cleared or restarted it.                 *)

AloneTimePasses(r) ==
    /\ alone[r] # NoUser
    /\ r \notin due
    /\ due' = due \cup {r}
    /\ UNCHANGED <<connectionVars, call, sharing, alone>>

AloneTimeout(r) ==
    LET u == alone[r]
    IN  /\ r \in due
        /\ IF call[r] = {u}
           THEN /\ RemoveFromCalls(u, {r})
                /\ entry' = Prune(conn, entry, {u})
           ELSE /\ alone' = [alone EXCEPT ![r] = NoUser]
                /\ due' = due \ {r}
                /\ UNCHANGED <<entry, call, sharing>>
        /\ UNCHANGED <<conn, members>>

-----------------------------------------------------------------------------
(* Membership changes: the row first, then evictFromRoom or teardownRoom,  *)
(* then the broadcast, all in one step of the event loop.  Who may ask for *)
(* them is decided before.                                                 *)

\* addMembersToGroup, and admitGuest, for whom the room may stand empty.
AddMember(r, u) ==
    /\ u \notin members[r]
    /\ members' = [members EXCEPT ![r] = @ \cup {u}]
    /\ entry' = Prune(conn, entry, members[r] \cup {u})
    /\ UNCHANGED <<conn, callVars>>

\* A slip for RemoveMember: the row goes and nothing in memory is ended.
RemoveRowOnly(r, u, kicked) ==
    /\ u \in members[r]
    /\ members' = [members EXCEPT ![r] = @ \ {u}]
    /\ UNCHANGED <<conn, entry, callVars>>

\* POST /rooms/leave, and POST /rooms/kick (which also tells u).
RemoveMember(r, u, kicked) ==
    /\ u \in members[r]
    /\ members' = [members EXCEPT ![r] = @ \ {u}]
    /\ RemoveFromCalls(u, {r})
    /\ entry' = Prune(conn, entry,
                      (members[r] \ {u})
                        \cup (IF u \in call[r] THEN call[r] ELSE {})
                        \cup (IF kicked THEN {u} ELSE {}))
    /\ UNCHANGED conn

DeleteRoom(r) ==
    /\ members[r] # {}
    /\ members' = [members EXCEPT ![r] = {}]
    /\ call' = [call EXCEPT ![r] = {}]
    /\ sharing' = [sharing EXCEPT ![r] =
            IF call[r] = {} THEN @ ELSE ShareAfter(r, call[r])]
    /\ alone' = [alone EXCEPT ![r] = IF call[r] = {} THEN @ ELSE NoUser]
    /\ due' = due \ {q \in {r} : call[q] # {}}
    /\ entry' = Prune(conn, entry, members[r] \cup call[r])
    /\ UNCHANGED conn

(***************************************************************************)
(* A guest's time is up or the master removes the guest: every membership  *)
(* row, the registered sockets, then each room in turn.                    *)
(***************************************************************************)
RetireUser(u) ==
    LET was == {r \in Rooms : u \in members[r]}
    IN  /\ was # {}
        /\ CloseSocketsOf(u)
        /\ members' = [r \in Rooms |-> members[r] \ {u}]
        /\ RemoveFromCalls(u, was)
        /\ entry' = Prune(conn', entry,
                          UNION {members[r] \ {u} : r \in was}
                            \cup UNION {call[r] : r \in was \cap CallsOf(u)})

-----------------------------------------------------------------------------

ConnectionStep ==
    \/ \E s \in Sockets : \/ Connect(s) \/ PeerLost(s) \/ CloseStarts(s)
                          \/ ErrorEvent(s) \/ CloseEvent(s) \/ PingTimeout(s)
    \/ \E u \in Users : SendToUser(u)
    \/ Restart

FrameStep ==
    \E s \in Sockets, r \in Rooms :
        \/ JoinCall(s, r) \/ LeaveCall(s, r)
        \/ ScreenShareStart(s, r) \/ ScreenShareStop(s, r)
        \/ \E to \in Users : Signal(s, r, to)

MembershipStep ==
    \/ \E r \in Rooms, u \in Users :
        AddMember(r, u) \/ \E kicked \in BOOLEAN : RemoveMember(r, u, kicked)
    \/ \E r \in Rooms : DeleteRoom(r)
    \/ \E u \in Users : RetireUser(u)

TimerStep == \E r \in Rooms : AloneTimePasses(r) \/ AloneTimeout(r)

Next == ConnectionStep \/ FrameStep \/ MembershipStep \/ TimerStep

Spec == Init /\ [][Next]_vars

(***************************************************************************)
(* The process keeps running: its timers fire and its sockets' close       *)
(* events arrive.  Nothing is assumed of clients or of the network.        *)
(***************************************************************************)
Fairness ==
    /\ \A s \in Sockets : WF_vars(CloseEvent(s)) /\ WF_vars(conn[s] = "lost" /\ PingTimeout(s))
    /\ \A r \in Rooms : WF_vars(AloneTimePasses(r)) /\ WF_vars(AloneTimeout(r))

FairSpec == Spec /\ Fairness

-----------------------------------------------------------------------------
(* Properties.                                                             *)

\* Only members of a room are in its call, after any leave, kick, deletion or
\* retirement (evictFromRoom, teardownRoom).
CallersAreMembers == \A r \in Rooms : call[r] \subseteq members[r]

\* join_call leaves every other call: nobody is in two calls at once.
OneCallAtATime ==
    \A u \in Users, q, r \in Rooms : u \in call[q] \cap call[r] => q = r

\* A screen share belongs to somebody in that call, however that user's part
\* in the call ended.
SharerIsInTheCall ==
    \A r \in Rooms : sharing[r] # NoUser => sharing[r] \in call[r]

\* The alone timer is armed exactly while one user is in the call, and it is
\* that user it will drop.
AloneTimerMatches ==
    \A r \in Rooms, u \in Users : alone[r] = u <=> call[r] = {u}

\* Whoever is in a call has a socket whose close event is still to come and
\* will clean up: a registry entry pruned by a send, a ping timeout or an error
\* event never leaves somebody in a call that no callback will end.
NoGhostCallers ==
    \A r \in Rooms : \A u \in call[r] :
        \E s \in SocketsOf(u) : conn[s] \in {"open", "lost", "closing"}

\* A connection that fails, closes or times out does not end its owner's call
\* while another of that account's sockets is registered and open.
OtherSocketKeepsTheCall ==
    [][ conn' # conn /\ members' = members
          => \A t \in entry :
                Sendable(conn[t]) /\ conn'[t] = conn[t]
                  => CallsOf(Owner[t])' = CallsOf(Owner[t]) ]_vars

\* A share never passes from one user to another in one step: the first must
\* have stopped, or left, before the second can start.
ShareIsNotTakenOver ==
    [][ \A r \in Rooms :
            sharing[r] # NoUser => sharing'[r] \in {sharing[r], NoUser} ]_vars

\* Somebody alone in a call is dropped from it, or somebody keeps joining it:
\* nothing else restarts the timer.
AloneCallsEnd ==
    \A r \in Rooms :
        \/ []<>(\A u \in Users : call[r] # {u})
        \/ []<><<\E s \in Sockets : JoinCall(s, r)>>_vars

\* A user whose last connection died without a word, or is closing, and who
\* does not come back, ends up in no call.
DeadClientsLeave ==
    \A u \in Users :
        <>[](\A s \in SocketsOf(u) : conn[s] # "open") => <>[](CallsOf(u) = {})

=============================================================================
