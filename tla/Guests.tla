------------------------------- MODULE Guests -------------------------------
(***************************************************************************)
(* Guests: the invites they come on, the waiting room, the rooms they are  *)
(* admitted to, and how they go: retired when their session is over, or    *)
(* removed by the master.                                                  *)
(*                                                                         *)
(*   invite   the invites rows                                             *)
(*   guest    an account per slot: users, guest_rooms, room_members,       *)
(*            sessions and files rows, and its sockets                     *)
(*   join     POST /join requests that await their hash                    *)
(*   upload   the room of the upload a guest has in flight                 *)
(*   room     the group rooms: not yet made, standing, deleted             *)
(*                                                                         *)
(* History, to state properties with:                                      *)
(*   adrift   guests whose session was taken with no retirement to follow  *)
(*   late     guests who were ended with an upload in flight               *)
(*   placed   the rooms each was in from the making of the group           *)
(*                                                                         *)
(* Account names count up and never come back; Guests bounds how many      *)
(* there are, Old the rooms that are invited to, and Busy the guests to    *)
(* whom more happens.  A handler with no await, and a transaction, is one  *)
(* step.                                                                   *)
(* Who may kick, promote, delete a room or reset a password is decided     *)
(* before.  Left out are messages that are not uploads, and what a         *)
(* promoted account does as a member.                                      *)
(***************************************************************************)
EXTENDS Naturals, FiniteSets

CONSTANTS
    Guests, Invites, Rooms, Names,
    Old,        \* rooms that are there when the page opens, and invited to
    Busy,       \* guests with more to them than joining and going: who upload,
                \* are promoted, have their password reset, are put in new groups
    Joins,      \* join requests in flight at once
    MaxUses,    \* the most a master sets on an invite
    None

ASSUME NoneAssumption == None \notin Invites \cup Rooms \cup Names
ASSUME BoundsAssumption == Old \subseteq Rooms /\ Busy \subseteq Guests
ASSUME MaxUsesAssumption == MaxUses \in Nat \ {0}

VARIABLES invite, guest, join, upload, room, adrift, late, placed

vars == <<invite, guest, join, upload, room, adrift, late, placed>>

Invite == [state : {"unmade", "out", "revoked"}, lapsed : BOOLEAN,
           max : 1..MaxUses, uses : 0..MaxUses, rooms : SUBSET Rooms]

(***************************************************************************)
(* status  "free" before the account is made, "purged" after it is deleted *)
(* by      the invite it came on (invites do not remember)                 *)
(* session its session row: a guest's, live or over, or a member's.  There *)
(*         is one at most, for a reset deletes the guest's and no join adds *)
(*         to an account; whether a member's is over makes no difference.  *)
(* linked  a socket on the guest page                                      *)
(***************************************************************************)
Account ==
    [status : {"free", "waiting", "admitted", "removed", "purged"},
     role : {"guest", "member"},
     name : Names \cup {None},
     by : Invites \cup {None},
     promised : SUBSET Rooms,
     rooms : SUBSET Rooms,
     session : {"none", "live", "over", "member"},
     files : SUBSET Rooms,
     linked : BOOLEAN]

NoAccount == [status |-> "free", role |-> "guest", name |-> None, by |-> None,
              promised |-> {}, rooms |-> {}, session |-> "none",
              files |-> {}, linked |-> FALSE]

JoinRequest == [invite : Invites, name : Names, timely : BOOLEAN]

TypeOK ==
    /\ invite \in [Invites -> Invite]
    /\ guest \in [Guests -> Account]
    /\ join \in [Joins -> JoinRequest \cup {None}]
    /\ upload \in [Guests -> Rooms \cup {None}]
    /\ room \in [Rooms -> {"unmade", "standing", "deleted"}]
    /\ adrift \subseteq Guests
    /\ late \subseteq Guests
    /\ placed \in [Guests -> SUBSET Rooms]

Init ==
    /\ invite = [i \in Invites |-> [state |-> "unmade", lapsed |-> FALSE,
                                    max |-> 1, uses |-> 0, rooms |-> {}]]
    /\ guest = [g \in Guests |-> NoAccount]
    /\ join = [q \in Joins |-> None]
    /\ upload = [g \in Guests |-> None]
    /\ room = [r \in Rooms |-> IF r \in Old THEN "standing" ELSE "unmade"]
    /\ adrift = {}
    /\ late = {}
    /\ placed = [g \in Guests |-> {}]

Open == {"waiting", "admitted"}
Closed == {"removed", "purged"}

\* The group rooms there are.
Standing == {r \in Rooms : room[r] = "standing"}

-----------------------------------------------------------------------------
(* The end of a session.  A definition introduced as a slip is a plausible *)
(* bug in the one that follows.                                            *)

\* A slip for Retired: the sockets are forgotten.
RetiredOnline(a) ==
    [a EXCEPT !.status = "removed", !.promised = {}, !.rooms = {}, !.files = {}]

\* retireGuestAccount's transaction, and closeUserSockets by the handler.
Retired(a) ==
    [a EXCEPT !.status = "removed", !.promised = {}, !.rooms = {}, !.files = {},
              !.linked = FALSE]

\* retireGuestAccount: nothing while a session row is left.
Retire(a) ==
    IF a.session = "none" /\ a.role = "guest" /\ a.status \in Open
    THEN Retired(a) ELSE a

WithoutRow(a) == [a EXCEPT !.session = "none"]

\* A slip for Swept: retirement is tried before the row is deleted.
SweptLate(a) == IF a.session = "over" THEN WithoutRow(Retire(a)) ELSE a

\* An expired row is deleted, and the guest retires.
Swept(a) == IF a.session = "over" THEN Retire(WithoutRow(a)) ELSE a

\* pruneExpiredSessions.
Pruned == [g \in Guests |-> Swept(guest[g])]

\* The guests that deleting expired rows should retire.
Ending == {g \in Guests : guest[g].session = "over"}

\* History: who is ended by this step, with an upload still to be finished.
EndsLate(gs) ==
    late' = late \cup {g \in Guests : /\ guest[g].status \in Open
                                      /\ gs[g].status \in Closed
                                      /\ upload[g] # None}

-----------------------------------------------------------------------------
(* The master's panel.                                                     *)

CreateInvite(i, max, R) ==
    /\ invite[i].state = "unmade"
    /\ R # {} /\ R \subseteq Standing \cap Old
    /\ invite' = [invite EXCEPT ![i].state = "out", ![i].max = max, ![i].rooms = R]
    /\ UNCHANGED <<guest, join, upload, room, adrift, late, placed>>

RevokeInvite(i) ==
    /\ invite[i].state = "out"
    /\ invite' = [invite EXCEPT ![i].state = "revoked"]
    /\ UNCHANGED <<guest, join, upload, room, adrift, late, placed>>

InviteLapses(i) ==
    /\ invite[i].state # "unmade" /\ ~ invite[i].lapsed
    /\ invite' = [invite EXCEPT ![i].lapsed = TRUE]
    /\ UNCHANGED <<guest, join, upload, room, adrift, late, placed>>

\* A slip for RoomsToEnter: rooms deleted since the invite are entered too.
RoomsPromised(g) == guest[g].promised

RoomsToEnter(g) == guest[g].promised \cap Standing

Admit(g) ==
    /\ guest[g].status = "waiting" /\ guest[g].role = "guest"
    /\ guest' = [guest EXCEPT ![g].status = "admitted", ![g].rooms = @ \cup RoomsToEnter(g)]
    /\ UNCHANGED <<invite, join, upload, room, adrift, late, placed>>

\* purgeGuestAccount: the account row goes; by and name stay here as history.
Purge(g) ==
    /\ guest[g].status \in Open /\ guest[g].role = "guest"
    /\ guest' = [guest EXCEPT ![g] =
                    [NoAccount EXCEPT !.status = "purged", !.by = guest[g].by]]
    /\ EndsLate(guest')
    /\ UNCHANGED <<invite, join, upload, room, adrift, placed>>

-----------------------------------------------------------------------------
(* Joining.                                                                *)

\* One who was promoted is a guest no more, and gives up the display name.
Here(g) == guest[g].role = "guest" /\ guest[g].status \in Open

NamesInUse == {guest[g].name : g \in {h \in Guests : Here(h)}}

\* displayNameTaken.  Names are those that are no account's username.
NameFree(n) == n \notin NamesInUse

\* The guest page was open (a setting and the clock say so) when the request
\* came; closing it stops no request under way.  The time is read now; all
\* but the name is checked after the hash.
JoinBegins(q, i, n) ==
    /\ join[q] = None
    /\ invite[i].state # "unmade"
    /\ NameFree(n)
    /\ join' = [join EXCEPT ![q] =
                    [invite |-> i, name |-> n, timely |-> ~ invite[i].lapsed]]
    /\ UNCHANGED <<invite, guest, upload, room, adrift, late, placed>>

\* A slip for Valid: an invite that was revoked during the hash is taken.
ValidIfRevoked(j) ==
    LET i == invite[j.invite]
    IN  i.uses < i.max /\ j.timely

\* A slip for Valid: one use too many.
ValidOnceMore(j) ==
    LET i == invite[j.invite]
    IN  i.state = "out" /\ i.uses <= i.max /\ j.timely

Valid(j) ==
    LET i == invite[j.invite]
    IN  i.state = "out" /\ i.uses < i.max /\ j.timely

\* The account that join request j makes, before it has a session.
NewAccount(j) ==
    [NoAccount EXCEPT !.status = "waiting", !.name = j.name, !.by = j.invite,
                      !.promised = invite[j.invite].rooms]

\* The redeem transaction takes slot g.
Redeems(q, g) ==
    /\ join[q] # None
    /\ Valid(join[q]) /\ NameFree(join[q].name)
    /\ guest[g].status = "free"
    /\ invite' = [invite EXCEPT ![join[q].invite].uses = @ + 1]

\* The transaction, then createSession, which prunes first.
JoinAccepted(q, g) ==
    /\ Redeems(q, g)
    /\ guest' = [Pruned EXCEPT ![g] = [NewAccount(join[q]) EXCEPT !.session = "live"]]
    /\ join' = [join EXCEPT ![q] = None]
    /\ EndsLate(guest')
    /\ UNCHANGED <<upload, room, adrift, placed>>

JoinRefused(q) ==
    /\ join[q] # None
    /\ ~ Valid(join[q]) \/ ~ NameFree(join[q].name)
    /\ join' = [join EXCEPT ![q] = None]
    /\ UNCHANGED <<invite, guest, upload, room, adrift, late, placed>>

-----------------------------------------------------------------------------
(* Being there.                                                            *)

\* requireGuest, and what every handler asks of the room.
Served(g) ==
    /\ guest[g].session = "live"
    /\ guest[g].status = "admitted"

Link(g) ==
    /\ Served(g)
    /\ guest' = [guest EXCEPT ![g].linked = TRUE]
    /\ UNCHANGED <<invite, join, upload, room, adrift, late, placed>>

Unlink(g) ==
    /\ guest[g].linked
    /\ guest' = [guest EXCEPT ![g].linked = FALSE]
    /\ UNCHANGED <<invite, join, upload, room, adrift, late, placed>>

UploadBegins(g, r) ==
    /\ g \in Busy
    /\ Served(g)
    /\ r \in guest[g].rooms
    /\ upload[g] = None
    /\ upload' = [upload EXCEPT ![g] = r]
    /\ UNCHANGED <<invite, guest, join, room, adrift, late, placed>>

\* The file is on disk: its row and its message, with nothing asked again.
UploadEnds(g) ==
    /\ upload[g] # None
    /\ guest' = [guest EXCEPT ![g].files = @ \cup {upload[g]}]
    /\ upload' = [upload EXCEPT ![g] = None]
    /\ UNCHANGED <<invite, join, room, adrift, late, placed>>

UploadFails(g) ==
    /\ upload[g] # None
    /\ upload' = [upload EXCEPT ![g] = None]
    /\ UNCHANGED <<invite, guest, join, room, adrift, late, placed>>

-----------------------------------------------------------------------------
(* The rest of the server.                                                 *)

SessionLapses(g) ==
    /\ guest[g].session = "live"
    /\ guest' = [guest EXCEPT ![g].session = "over"]
    /\ UNCHANGED <<invite, join, upload, room, adrift, late, placed>>

\* A request or a frame shows the token of an expired row.
ExpiredSessionSeen(g) ==
    /\ guest[g].session = "over"
    /\ guest' = [guest EXCEPT ![g] = Swept(@)]
    /\ EndsLate(guest')
    /\ UNCHANGED <<invite, join, upload, room, adrift, placed>>

\* Somebody logs in, which prunes.
SomebodyLogsIn ==
    /\ guest' = Pruned
    /\ EndsLate(guest')
    /\ UNCHANGED <<invite, join, upload, room, adrift, placed>>

\* An admin hands out a reset token and it is redeemed: every session of the
\* account goes, and a member's takes their place.
PasswordReset(g) ==
    /\ g \in Busy
    /\ guest[g].status \notin {"free", "purged"}
    /\ guest' = [Pruned EXCEPT ![g] =
                    [guest[g] EXCEPT !.session = "member", !.linked = FALSE]]
    /\ adrift' = adrift \cup {g}
    /\ EndsLate(guest')
    /\ UNCHANGED <<invite, join, upload, room, placed>>

\* Such a session is logged out, or over and its row deleted: nobody retires.
MemberSessionEnds(g) ==
    /\ guest[g].session = "member"
    /\ guest' = [guest EXCEPT ![g] = WithoutRow(@)]
    /\ UNCHANGED <<invite, join, upload, room, adrift, late, placed>>

\* PATCH /users/:username/role.
Promote(g) ==
    /\ g \in Busy
    /\ guest[g].status \notin {"free", "purged"}
    /\ guest' = [guest EXCEPT ![g].role = "member"]
    /\ UNCHANGED <<invite, join, upload, room, adrift, late, placed>>

Kick(g, r) ==
    /\ r \in guest[g].rooms
    /\ guest' = [guest EXCEPT ![g].rooms = @ \ {r}]
    /\ UNCHANGED <<invite, join, upload, room, adrift, late, placed>>

\* createGroupRoom with the accounts S among its members: it asks only that
\* they exist.  A death between its inserts leaves some of them out.
CreateGroup(r, S) ==
    /\ room[r] = "unmade"
    /\ S \subseteq Busy
    /\ \A g \in S : guest[g].status \notin {"free", "purged"}
    /\ room' = [room EXCEPT ![r] = "standing"]
    /\ guest' = [g \in Guests |->
                    IF g \in S THEN [guest[g] EXCEPT !.rooms = @ \cup {r}] ELSE guest[g]]
    /\ placed' = [g \in Guests |-> IF g \in S THEN placed[g] \cup {r} ELSE placed[g]]
    /\ UNCHANGED <<invite, join, upload, adrift, late>>

DeleteRoom(r) ==
    /\ r \in Standing
    /\ room' = [room EXCEPT ![r] = "deleted"]
    /\ guest' = [g \in Guests |-> [guest[g] EXCEPT !.rooms = @ \ {r}, !.files = @ \ {r}]]
    /\ UNCHANGED <<invite, join, upload, adrift, late, placed>>

-----------------------------------------------------------------------------
(* The process dies, idle or between two statements.                       *)

\* Only the rows are left of gs.
Dies(gs) ==
    /\ guest' = [g \in Guests |-> [gs[g] EXCEPT !.linked = FALSE]]
    /\ join' = [q \in Joins |-> None]
    /\ upload' = [g \in Guests |-> None]
    /\ UNCHANGED <<room, late, placed>>

DiesIdle == Dies(guest) /\ UNCHANGED <<invite, adrift, placed>>

\* After the redeem transaction and before the session is made.
DiesJoining(q, g) ==
    /\ Redeems(q, g)
    /\ Dies([guest EXCEPT ![g] = NewAccount(join[q])])
    /\ adrift' = adrift \cup {g}

\* After expired rows were deleted, with only the guests of S retired.
DiesPruning(S) ==
    /\ Ending # {}
    /\ Dies([g \in Guests |->
                IF g \in Ending \ S THEN WithoutRow(guest[g]) ELSE Pruned[g]])
    /\ adrift' = adrift \cup (Ending \ S)
    /\ UNCHANGED invite

-----------------------------------------------------------------------------

PanelStep ==
    \/ \E i \in Invites :
        \/ \E max \in 1..MaxUses, R \in SUBSET Rooms : CreateInvite(i, max, R)
        \/ RevokeInvite(i) \/ InviteLapses(i)
    \/ \E g \in Guests : Admit(g) \/ Purge(g)

JoinStep ==
    \E q \in Joins :
        \/ \E i \in Invites, n \in Names : JoinBegins(q, i, n)
        \/ \E g \in Guests : JoinAccepted(q, g)
        \/ JoinRefused(q)

GuestStep ==
    \E g \in Guests :
        \/ Link(g) \/ Unlink(g)
        \/ \E r \in Rooms : UploadBegins(g, r)
        \/ UploadEnds(g) \/ UploadFails(g)

ServerStep ==
    \/ \E g \in Guests :
        \/ SessionLapses(g) \/ ExpiredSessionSeen(g)
        \/ PasswordReset(g) \/ MemberSessionEnds(g) \/ Promote(g)
        \/ \E r \in Rooms : Kick(g, r)
    \/ SomebodyLogsIn
    \/ \E r \in Rooms : DeleteRoom(r) \/ \E S \in SUBSET Guests : CreateGroup(r, S)
    \/ DiesIdle
    \/ \E q \in Joins, g \in Guests : DiesJoining(q, g)
    \/ \E S \in SUBSET Ending : S # Ending /\ DiesPruning(S)

Next == PanelStep \/ JoinStep \/ GuestStep \/ ServerStep

Spec == Init /\ [][Next]_vars

-----------------------------------------------------------------------------
(* Properties.                                                             *)

\* An invite lets in as many guests as its row counts, and no more than the
\* master allowed, however many joins overlap in their hash.
InvitesHold ==
    /\ TypeOK
    /\ \A i \in Invites :
        /\ Cardinality({g \in Guests : guest[g].by = i}) = invite[i].uses
        /\ invite[i].uses <= invite[i].max

\* Two guests who are still here never go by the same display name.
DisplayNamesDistinct ==
    \A g, h \in Guests : Here(g) /\ Here(h) /\ guest[g].name = guest[h].name => g = h

\* A guest is in a room because the master admitted them on an invite to it
\* and it still stands, or because it was made with them in it.
GuestsEnterByAdmission ==
    \A g \in Guests : \A r \in guest[g].rooms :
        /\ r \in Standing
        /\ r \notin placed[g] => /\ guest[g].status = "admitted"
                                /\ r \in invite[guest[g].by].rooms

\* Nothing is left of a guest who was ended: no room, no socket, no session, no
\* upload.  An upload that was in flight may still come in, a password that an
\* admin handed out opens a session again, and a new group may take the account.
EndedGuestsAreGone ==
    \A g \in Guests :
        guest[g].status \in Closed =>
            /\ guest[g].rooms \subseteq placed[g] /\ guest[g].promised = {} /\ ~ guest[g].linked
            /\ guest[g].session # "none" => g \in adrift
            /\ guest[g].files # {} => g \in late

\* A guest who is still here has the session whose end will retire them, unless
\* a death or a password reset took it from under them.
OpenGuestsWillEnd ==
    \A g \in Guests :
        Here(g) /\ guest[g].session \notin {"live", "over"} => g \in adrift

=============================================================================
