------------------------------ MODULE History -------------------------------
(***************************************************************************)
(* The messages of groups, what of them is unread, and from where on a     *)
(* guest sees them.  All three hang on one thing: a message's id is above  *)
(* every id there was before, in whatever room.                            *)
(*                                                                         *)
(*   room      which groups have been made, and deleted since              *)
(*   members   room_members                                                *)
(*   guest     guest_status, "purged" when the account is gone             *)
(*   messages  the rows; nth is not a column but the order of posting      *)
(*   lastId    the highest id ever given (AUTOINCREMENT)                   *)
(*   mark      room_reads.last_message_id, 0 with no row                   *)
(*   cut       room_members.history_after_id, 0 with none                  *)
(*   fresh, since, early   history, which no guard reads: the messages     *)
(*             posted since somebody last read the room or was let into    *)
(*             it; how many had been posted when a guest was admitted,     *)
(*             whatever rows there were; the groups a guest who had not    *)
(*             been admitted was put in as they were made                  *)
(*                                                                         *)
(* Each action is one request: none of these handlers awaits between its   *)
(* check and its statements.  Files of messages are Uploads'; who may kick *)
(* or delete is Governance's.  A slug has the time in it, so a group that  *)
(* is deleted never comes back.                                            *)
(***************************************************************************)
EXTENDS Naturals, FiniteSets

CONSTANTS
    Members,        \* accounts of role member and above
    Guests,
    Admins,         \* those who may unsend anybody's message
    Groups,
    System,         \* the sender of lines about a watch session
    MaxMessages     \* a bound of the model

Users == Members \cup Guests

ASSUME HistoryAssumption ==
    /\ Members \cap Guests = {}
    /\ Admins \subseteq Members
    /\ System \notin Users
    /\ MaxMessages \in Nat

VARIABLES room, members, guest, messages, lastId, mark, cut, fresh, since, early

placeVars == <<room, members, guest>>
vars == <<placeVars, messages, lastId, mark, cut, fresh, since, early>>

Message == [id : 1..MaxMessages, nth : 1..MaxMessages, room : Groups,
            sender : Users \cup {System}, deleted : BOOLEAN]

TypeOK ==
    /\ room \in [Groups -> {"none", "there", "gone"}]
    /\ members \in [Groups -> SUBSET Users]
    /\ guest \in [Guests -> {"waiting", "admitted", "removed", "purged"}]
    /\ messages \subseteq Message
    /\ lastId \in 0..MaxMessages
    /\ mark \in [Users -> [Groups -> 0..MaxMessages]]
    /\ cut \in [Guests -> [Groups -> 0..MaxMessages]]
    /\ fresh \in [Users -> [Groups -> SUBSET (1..MaxMessages)]]
    /\ since \in [Guests -> 0..MaxMessages]
    /\ early \in [Guests -> SUBSET Groups]

\* Each user of U has v in place of what f says of it for room r.
Set(f, U, r, v) ==
    [u \in DOMAIN f |-> IF u \in U THEN [f[u] EXCEPT ![r] = v] ELSE f[u]]

Init ==
    /\ room = [r \in Groups |-> "none"]
    /\ members = [r \in Groups |-> {}]
    /\ guest = [g \in Guests |-> "waiting"]
    /\ messages = {}
    /\ lastId = 0
    /\ mark = [u \in Users |-> [r \in Groups |-> 0]]
    /\ cut = [g \in Guests |-> [r \in Groups |-> 0]]
    /\ fresh = [u \in Users |-> [r \in Groups |-> {}]]
    /\ since = [g \in Guests |-> 0]
    /\ early = [g \in Guests |-> {}]

-----------------------------------------------------------------------------
(* What the queries return.  A definition introduced as a slip is a        *)
(* plausible bug in the one that follows.                                  *)

In(r) == {m \in messages : m.room = r}

\* MAX(id), and 0 of none.
MaxId(M) == IF M = {} THEN 0 ELSE (CHOOSE m \in M : \A n \in M : n.id <= m.id).id

\* A slip for NextId: the highest id that is left, and one more.
NextIdLeft == MaxId(messages) + 1

NextId == lastId + 1

CutOf(u, r) == IF u \in Guests THEN cut[u][r] ELSE 0

\* A slip for Listed: the message at the cut is shown too.
ListedFrom(u, r) == {m \in In(r) : m.id >= CutOf(u, r)}

\* listMessages and lastMessagePreview with the cut of u, over every page.
Listed(u, r) == {m \in In(r) : m.id > CutOf(u, r)}

Above(a, b) == IF a > b THEN a ELSE b

\* unreadCount
Unread(u, r) ==
    {m \in In(r) : m.id > Above(mark[u][r], CutOf(u, r)) /\ ~m.deleted}

-----------------------------------------------------------------------------
(* Requests.                                                               *)

Live(r) == room[r] = "there"

\* A guest's account is there; has a session; is let into rooms.
Exists(u) == u \in Guests => guest[u] # "purged"
Present(u) == u \in Guests => guest[u] \in {"waiting", "admitted"}
Served(u) == u \in Guests => guest[u] = "admitted"

\* POST /rooms: the members may be guests, whatever their status, with no cut.
CreateGroup(r, u, S) ==
    /\ room[r] = "none"
    /\ u \in Members
    /\ \A v \in S : Exists(v)
    /\ room' = [room EXCEPT ![r] = "there"]
    /\ members' = [members EXCEPT ![r] = S \cup {u}]
    /\ early' = [g \in Guests |-> IF g \in S /\ ~Served(g) THEN early[g] \cup {r} ELSE early[g]]
    /\ UNCHANGED <<guest, messages, lastId, mark, cut, fresh, since>>

Insert(r, sender) ==
    /\ lastId < MaxMessages
    /\ messages' = messages \cup
        {[id |-> NextId, nth |-> lastId + 1, room |-> r, sender |-> sender, deleted |-> FALSE]}
    /\ lastId' = lastId + 1
    /\ fresh' = [u \in Users |->
            IF u \in members[r] THEN [fresh[u] EXCEPT ![r] = @ \cup {lastId + 1}]
            ELSE fresh[u]]
    /\ UNCHANGED <<placeVars, mark, cut, since, early>>

\* POST /messages, of a member or of a guest on the gateway.
Post(u, r) == u \in members[r] /\ Served(u) /\ Insert(r, u)

\* postWatchSystemLine: a session starts or ends in a room that is there.
SystemLine(r) == Live(r) /\ Insert(r, System)

\* A message in #general, in a DM, or in any group not looked at.
PostElsewhere ==
    /\ lastId < MaxMessages
    /\ lastId' = lastId + 1
    /\ UNCHANGED <<placeVars, messages, mark, cut, fresh, since, early>>

\* markRoomRead
Marked(u, r) == Set(mark, {u}, r, MaxId(In(r)))

\* GET /messages and POST /rooms/read of a member, and join_room of anybody.
Read(u, r) ==
    /\ u \in members[r]
    /\ Served(u)
    /\ mark' = Marked(u, r)
    /\ fresh' = Set(fresh, {u}, r, {})
    /\ UNCHANGED <<placeVars, messages, lastId, cut, since, early>>

\* DELETE /messages/:id leaves a tombstone.
Unsend(u, m) ==
    /\ u \in Members /\ u \in members[m.room]
    /\ m.sender = u \/ u \in Admins
    /\ ~m.deleted
    /\ messages' = (messages \ {m}) \cup {[m EXCEPT !.deleted = TRUE]}
    /\ UNCHANGED <<placeVars, lastId, mark, cut, fresh, since, early>>

\* addMembersToGroup marks the room read for whom it adds.
MarkAdded(u, r) == Marked(u, r)

AddMember(r, u) ==
    /\ members[r] \cap Members # {}
    /\ u \in Members \ members[r]
    /\ members' = [members EXCEPT ![r] = @ \cup {u}]
    /\ mark' = MarkAdded(u, r)
    /\ fresh' = Set(fresh, {u}, r, {})
    /\ UNCHANGED <<room, guest, messages, lastId, cut, since, early>>

\* The rows of u go in the rooms of R: the marks of a user who stays are kept.
Out(u, R) ==
    /\ members' = [r \in Groups |-> IF r \in R THEN members[r] \ {u} ELSE members[r]]
    /\ fresh' = [fresh EXCEPT ![u] = [r \in Groups |-> IF r \in R THEN {} ELSE @[r]]]
    /\ IF u \in Guests
       THEN /\ cut' = [cut EXCEPT ![u] = [r \in Groups |-> IF r \in R THEN 0 ELSE @[r]]]
            /\ early' = [early EXCEPT ![u] = @ \ R]
       ELSE UNCHANGED <<cut, early>>

\* POST /rooms/leave and POST /rooms/kick.
RemoveMember(r, u) ==
    /\ u \in members[r]
    /\ Out(u, {r})
    /\ UNCHANGED <<room, guest, messages, lastId, mark, since>>

\* deleteGroupRoom
DeleteRoom(r) ==
    /\ Live(r)
    /\ room' = [room EXCEPT ![r] = "gone"]
    /\ members' = [members EXCEPT ![r] = {}]
    /\ messages' = messages \ In(r)
    /\ mark' = Set(mark, Users, r, 0)
    /\ cut' = Set(cut, Guests, r, 0)
    /\ fresh' = Set(fresh, Users, r, {})
    /\ early' = [g \in Guests |-> early[g] \ {r}]
    /\ UNCHANGED <<guest, lastId, since>>

AdmitCut(r) == MaxId(In(r))

\* admitGuest: INSERT OR IGNORE leaves the row of a room the guest is in already
\* as it is, with no cut.  The admission itself is of all rooms at once.
Admit(g, R) ==
    LET New == {r \in R : g \notin members[r]}
    IN  /\ guest[g] = "waiting"
        /\ \A r \in R : Live(r)
        /\ guest' = [guest EXCEPT ![g] = "admitted"]
        /\ members' = [r \in Groups |-> members[r] \cup (IF r \in R THEN {g} ELSE {})]
        /\ cut' = [cut EXCEPT ![g] = [r \in Groups |-> IF r \in New THEN AdmitCut(r) ELSE @[r]]]
        /\ since' = [since EXCEPT ![g] = lastId]
        /\ UNCHANGED <<room, messages, lastId, mark, fresh, early>>

\* retireGuestAccount: the messages stay.
Retire(g) ==
    /\ Present(g)
    /\ guest' = [guest EXCEPT ![g] = "removed"]
    /\ Out(g, Groups)
    /\ UNCHANGED <<room, messages, lastId, mark, since>>

\* purgeGuestAccount: the messages go.
Purge(g) ==
    /\ Present(g)
    /\ guest' = [guest EXCEPT ![g] = "purged"]
    /\ Out(g, Groups)
    /\ messages' = {m \in messages : m.sender # g}
    /\ mark' = [mark EXCEPT ![g] = [r \in Groups |-> 0]]
    /\ UNCHANGED <<room, lastId, since>>

Next ==
    \/ \E r \in Groups, u \in Members, S \in SUBSET Users : CreateGroup(r, u, S)
    \/ \E r \in Groups, u \in Users : Post(u, r) \/ Read(u, r) \/ RemoveMember(r, u)
    \/ PostElsewhere
    \/ \E u \in Users, m \in messages : Unsend(u, m)
    \/ \E r \in Groups, u \in Members : AddMember(r, u)
    \/ \E r \in Groups : SystemLine(r) \/ DeleteRoom(r)
    \/ \E g \in Guests : \/ \E R \in SUBSET Groups : Admit(g, R)
                         \/ Retire(g) \/ Purge(g)

Spec == Init /\ [][Next]_vars

-----------------------------------------------------------------------------
(* Properties.                                                             *)

\* What is counted as unread for anybody in a room, by comparing an id with two
\* watermarks, is what was posted there since they last read it or were let in,
\* less what was unsent: also after a leave and a return, and after a guest's
\* messages were removed from under the marks (unreadCount, markRoomRead).
UnreadIsWhatIsNew ==
    /\ TypeOK
    /\ \A r \in Groups : \A u \in members[r] :
        {m.nth : m \in Unread(u, r)}
            = {m.nth : m \in {n \in In(r) : n.nth \in fresh[u][r] /\ ~n.deleted}}

\* An admitted guest is shown what was posted in a room since their admission and
\* nothing from before (admitGuest's history_after_id, listMessages), but for a
\* group a member put them in while they waited: its row has no cut, admitGuest
\* leaves it so, and they are shown all of it.  docs/ROADMAP.md:1507-1508 says of
\* every guest "They see messages from that moment on".
GuestsSeeFromAdmission ==
    \A g \in Guests, r \in Groups : g \in members[r] /\ Served(g) =>
        Listed(g, r) = IF r \in early[g] THEN In(r)
                       ELSE {m \in In(r) : m.nth > since[g]}

=============================================================================
