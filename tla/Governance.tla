----------------------------- MODULE Governance -----------------------------
(***************************************************************************)
(* Who governs: the roles, the creators of group rooms, the command that   *)
(* appoints the master, and what every opening of the database mends.      *)
(*                                                                         *)
(*   users    users, in the order of their ids                             *)
(*   role     users.role; "none" for an account that is not there          *)
(*   stay     users.guest_status, and "free" before, "purged" after        *)
(*   general  the members of #general                                      *)
(*   room     the group rooms: not made, made, half made by a process that *)
(*            died between two inserts, deleted                            *)
(*   members  room_members of each, in the order of their rowids           *)
(*   creator  rooms.creator_id                                             *)
(*   invited  the rooms some invite was made for                           *)
(*   up       the server runs                                              *)
(*   command  bootstrap-master, a process of its own: the name it was      *)
(*            given, and what it has done                                  *)
(*                                                                         *)
(* History, to state properties with:                                      *)
(*   lost     who lost the moderation of a room by leaving or being kicked *)
(*                                                                         *)
(* A request is one step, for none awaits; what a list of members asks for *)
(* is asked for one by one.  An opening is one step.  Any account may have *)
(* a member's session, a guest's by a password reset.  The account Hermes, *)
(* colours, passwords and direct messages are left out; so is a second     *)
(* command at the same time.                                               *)
(***************************************************************************)
EXTENDS Naturals, Sequences, SequencesExt

CONSTANTS
    Names,      \* usernames
    Guests,     \* accounts that are made by a join
    Rooms,
    Legacy,     \* the users of a database from before there was a master
    None

Accounts == Names \cup Guests

ASSUME NoneAssumption == None \notin Accounts
ASSUME GuestsAssumption == Names \cap Guests = {}
ASSUME LegacyAssumption == Legacy \in Seq(Names) /\ IsInjective(Legacy)

VARIABLES users, role, stay, general, room, members, creator, invited,
          up, command, lost

accounts == <<users, role, stay, general>>
rooms == <<room, members, creator, lost>>
vars == <<users, role, stay, general, room, members, creator, invited, up, command, lost>>

Roles == {"guest", "member", "admin", "master"}

Phases == {"none", "opened", "applied"}

Idle == [name |-> None, phase |-> "none", existing |-> FALSE]

TypeOK ==
    /\ users \in Seq(Accounts)
    /\ role \in [Accounts -> Roles \cup {"none"}]
    /\ stay \in [Guests -> {"free", "waiting", "admitted", "removed", "purged"}]
    /\ general \subseteq Accounts
    /\ room \in [Rooms -> {"unmade", "made", "half", "deleted"}]
    /\ members \in [Rooms -> Seq(Accounts)] /\ \A r \in Rooms : IsInjective(members[r])
    /\ creator \in [Rooms -> Accounts \cup {None}]
    /\ invited \subseteq Rooms
    /\ up \in BOOLEAN
    /\ command \in [name : Accounts \cup {None}, phase : Phases, existing : BOOLEAN]
    /\ lost \in [Rooms -> SUBSET Accounts]

\* A new database, or one whose users have been members or admins so far.
Init ==
    /\ users \in {<<>>, Legacy}
    /\ role \in {f \in [Accounts -> {"none", "member", "admin"}] :
                    \A a \in Accounts : f[a] = "none" <=> a \notin ToSet(users)}
    /\ stay = [g \in Guests |-> "free"]
    /\ general = ToSet(users)
    /\ room = [r \in Rooms |-> "unmade"]
    /\ members = [r \in Rooms |-> <<>>]
    /\ creator = [r \in Rooms |-> None]
    /\ invited = {}
    /\ up = FALSE
    /\ command = Idle
    /\ lost = [r \in Rooms |-> {}]

-----------------------------------------------------------------------------
(* Rank and permission.  A definition introduced as a slip is a plausible  *)
(* bug in the one that follows.                                            *)

Rank(x) == CASE x = "master" -> 3
             [] x = "admin" -> 2
             [] x = "member" -> 1
             [] OTHER -> 0

AtLeast(a, floor) == Rank(role[a]) >= Rank(floor)

\* A slip for Outranks: an equal will do.
RanksWith(x, y) == Rank(x) >= Rank(y)

Outranks(x, y) == Rank(x) > Rank(y)

There(a) == role[a] # "none"

Masters == {a \in Accounts : role[a] = "master"}
Admins == {a \in Accounts : role[a] = "admin"}

Seated(a, r) == a \in ToSet(members[r])

Standing(r) == room[r] \in {"made", "half"}

\* can 'role.set'.
MaySetRole(a, t, next) ==
    /\ AtLeast(a, "admin")
    /\ role[t] # "master"
    /\ Outranks(role[a], role[t])
    /\ Outranks(role[a], next)

\* can 'room.delete'.
Moderates(a, r) ==
    \/ AtLeast(a, "admin")
    \/ creator[r] = a /\ Seated(a, r)

\* can 'room.kick'.
MayKick(a, t, r) ==
    /\ role[t] # "master"
    /\ \/ AtLeast(a, "admin")
       \/ Moderates(a, r) /\ ~ AtLeast(t, "admin")

-----------------------------------------------------------------------------
(* What every opening of the database mends.                               *)

\* backfillFirstAdmin: without an admin, the first account becomes one.
FirstAdmin ==
    IF Admins # {} \/ users = <<>> THEN role
    ELSE [role EXCEPT ![Head(users)] = "admin"]

\* backfillRoomCreators: a room without a creator gets its earliest member.
RoomCreators ==
    [r \in Rooms |->
        IF Standing(r) /\ creator[r] = None /\ members[r] # <<>>
        THEN Head(members[r]) ELSE creator[r]]

Mends == role' = FirstAdmin /\ creator' = RoomCreators

Starts ==
    /\ ~ up
    /\ up' = TRUE
    /\ Mends
    /\ UNCHANGED <<users, stay, general, room, members, invited, command, lost>>

Dies ==
    /\ up
    /\ up' = FALSE
    /\ UNCHANGED <<accounts, rooms, invited, command>>

-----------------------------------------------------------------------------
(* bootstrap-master.  Only a new account's password is hashed, an await    *)
(* during which the server goes on; it is another process in any case.     *)

\* It opens the database and looks the name up, which may be a guest's account.
CommandOpens(n) ==
    /\ command = Idle
    /\ n \in Names \/ There(n)
    /\ Mends
    /\ command' = [name |-> n, phase |-> "opened", existing |-> There(n)]
    /\ UNCHANGED <<users, stay, general, room, members, invited, up, lost>>

\* A slip for WithMaster: the master before keeps the role.
WithTwoMasters(n) == [role EXCEPT ![n] = "master"]

WithMaster(n) ==
    [a \in Accounts |-> IF a = n THEN "master"
                        ELSE IF role[a] = "master" THEN "admin" ELSE role[a]]

Demoted == [a \in Accounts |-> IF role[a] = "master" THEN "admin" ELSE role[a]]

\* A slip for NotInserted: what the transaction did before stays done.
DemotedOnly == role' = Demoted

\* The name was registered since: the transaction is rolled back.
NotInserted == UNCHANGED role

\* A guest's account that the command found was purged since.
FoundIsGone == command.phase = "opened" /\ command.existing /\ ~ There(command.name)

\* The transaction, and the look at what came of it.  Where FoundIsGone, it takes
\* the master's role, gives it to nobody and commits; only then the command fails.
CommandApplies ==
    LET n == command.name
    IN  /\ command.phase = "opened"
        /\ \/ /\ command.existing <=> There(n)
              /\ role' = WithMaster(n)
              /\ users' = IF There(n) THEN users ELSE Append(users, n)
              /\ command' = [command EXCEPT !.phase = "applied"]
           \/ /\ ~ command.existing /\ There(n)
              /\ NotInserted
              /\ command' = Idle
              /\ UNCHANGED users
           \/ /\ FoundIsGone
              /\ role' = Demoted
              /\ command' = Idle
              /\ UNCHANGED users
        /\ UNCHANGED <<stay, general, rooms, invited, up>>

\* A slip for WithSeat: an account that was there is taken for a member.
SeatForTheNew(n) == IF command.existing THEN general ELSE general \cup {n}

\* addUserToGeneralRoom.
WithSeat(n) == general \cup {n}

CommandSeats ==
    /\ command.phase = "applied"
    /\ general' = WithSeat(command.name)
    /\ command' = Idle
    /\ UNCHANGED <<users, role, stay, rooms, invited, up>>

-----------------------------------------------------------------------------
(* Accounts.                                                               *)

\* POST /register, after the hash.
Register(n) ==
    /\ up
    /\ ~ There(n)
    /\ users' = Append(users, n)
    /\ role' = [role EXCEPT ![n] = "member"]
    /\ UNCHANGED <<stay, general, rooms, invited, up, command>>

LastAdmin(t) == Admins = {t}

\* setUserRole: the last admin is demoted only if the master asks.
RoleSet(t, next, allowLastAdmin) ==
    /\ role[t] \notin {"none", "master", next}
    /\ next = "member" /\ LastAdmin(t) => allowLastAdmin
    /\ role' = [role EXCEPT ![t] = next]

\* PATCH /users/:username/role.
SetRole(a, t, next) ==
    /\ up
    /\ There(a) /\ There(t)
    /\ MaySetRole(a, t, next)
    /\ RoleSet(t, next, role[a] = "master")
    /\ UNCHANGED <<users, stay, general, rooms, invited, up, command>>

\* POST /join on the guest page, with an invite.
GuestJoins(g) ==
    /\ up
    /\ ~ There(g) /\ stay[g] = "free"
    /\ invited # {}
    /\ users' = Append(users, g)
    /\ role' = [role EXCEPT ![g] = "guest"]
    /\ stay' = [stay EXCEPT ![g] = "waiting"]
    /\ UNCHANGED <<general, rooms, invited, up, command>>

\* A slip for With: who is named twice sits twice.
Appended(s, a) == Append(s, a)

\* INSERT OR IGNORE INTO room_members.
With(s, a) == IF a \in ToSet(s) THEN s ELSE Append(s, a)

\* DELETE of the one row of a, if there is one.
Without(s, a) ==
    IF a \in ToSet(s) THEN RemoveAt(s, CHOOSE i \in DOMAIN s : s[i] = a) ELSE s

\* The master makes an invite for R.
Invite(a, R) ==
    /\ up
    /\ role[a] = "master"
    /\ R # {} /\ \A r \in R : Standing(r)
    /\ invited' = invited \cup R
    /\ UNCHANGED <<accounts, rooms, up, command>>

\* The master admits g, into the rooms of the invite that still stand: whose
\* invite was for which is not kept, so these are any.
Admit(a, g, R) ==
    /\ up
    /\ role[a] = "master"
    /\ role[g] = "guest" /\ stay[g] = "waiting"
    /\ \A r \in R : r \in invited /\ Standing(r)
    /\ stay' = [stay EXCEPT ![g] = "admitted"]
    /\ members' = [r \in Rooms |-> IF r \in R THEN With(members[r], g) ELSE members[r]]
    /\ UNCHANGED <<users, role, general, room, creator, invited, up, command, lost>>

\* Out of every room_members row, with rooms.creator_id left as it is.
Unseats(g) == members' = [r \in Rooms |-> Without(members[r], g)]

\* retireGuestAccount, when the last session is over.
Retire(g) ==
    /\ up
    /\ role[g] = "guest" /\ stay[g] \in {"waiting", "admitted"}
    /\ stay' = [stay EXCEPT ![g] = "removed"]
    /\ Unseats(g)
    /\ UNCHANGED <<users, role, general, room, creator, invited, up, command, lost>>

\* purgeGuestAccount, by the master.
Purge(a, g) ==
    /\ up
    /\ role[a] = "master"
    /\ role[g] = "guest" /\ stay[g] \in {"waiting", "admitted"}
    /\ stay' = [stay EXCEPT ![g] = "purged"]
    /\ users' = Without(users, g)
    /\ role' = [role EXCEPT ![g] = "none"]
    /\ Unseats(g)
    /\ UNCHANGED <<general, room, creator, invited, up, command, lost>>

-----------------------------------------------------------------------------
(* Group rooms.                                                            *)

\* createGroupRoom: anybody there may be named.
Created(a, r, other) ==
    /\ room[r] = "unmade"
    /\ room' = [room EXCEPT ![r] = "made"]
    /\ members' = [members EXCEPT ![r] =
                        IF other \in Accounts /\ There(other) THEN With(<<a>>, other) ELSE <<a>>]
    /\ creator' = [creator EXCEPT ![r] = a]

\* POST /rooms.  Who ranks below a member names nobody.
CreateGroup(a, r, other) ==
    /\ up
    /\ There(a)
    /\ other # None => AtLeast(a, "member")
    /\ Created(a, r, other)
    /\ UNCHANGED <<accounts, invited, up, command, lost>>

\* The process dies after the room's row, before the first member's.
CreateGroupDies(a, r) ==
    /\ up
    /\ There(a)
    /\ room[r] = "unmade"
    /\ up' = FALSE
    /\ room' = [room EXCEPT ![r] = "half"]
    /\ creator' = [creator EXCEPT ![r] = a]
    /\ UNCHANGED <<accounts, members, invited, command, lost>>

\* addMembersToGroup.
Added(a, t, r) ==
    /\ Standing(r) /\ Seated(a, r)
    /\ There(t) /\ role[t] # "guest" /\ ~ Seated(t, r)
    /\ members' = [members EXCEPT ![r] = With(@, t)]

\* POST /rooms/members.
AddMember(a, t, r) ==
    /\ up
    /\ There(a) /\ AtLeast(a, "member")
    /\ Added(a, t, r)
    /\ UNCHANGED <<accounts, room, creator, invited, up, command, lost>>

\* A slip for CreatorWithout: rights stay with somebody who is out.
CreatorKept(t, r) == creator

CreatorWithout(t, r) == IF creator[r] = t THEN [creator EXCEPT ![r] = None] ELSE creator

RemoveMembership(t, r) ==
    /\ members' = [members EXCEPT ![r] = Without(@, t)]
    /\ creator' = CreatorWithout(t, r)
    /\ lost' = [lost EXCEPT ![r] = IF creator[r] = t THEN @ \cup {t} ELSE @]

\* leaveRoom, kickMember.
Removed(t, r) ==
    /\ There(t) /\ Seated(t, r)
    /\ RemoveMembership(t, r)

\* POST /rooms/leave.
Leave(a, r) ==
    /\ up
    /\ Removed(a, r)
    /\ UNCHANGED <<accounts, room, invited, up, command>>

\* POST /rooms/kick.
Kick(a, t, r) ==
    /\ up
    /\ There(a) /\ Standing(r) /\ MayKick(a, t, r)
    /\ a # t
    /\ Removed(t, r)
    /\ UNCHANGED <<accounts, room, invited, up, command>>

\* deleteGroupRoom.
Deleted(r) ==
    /\ room' = [room EXCEPT ![r] = "deleted"]
    /\ members' = [members EXCEPT ![r] = <<>>]
    /\ creator' = [creator EXCEPT ![r] = None]

\* DELETE /rooms/:slug.
DeleteGroup(a, r) ==
    /\ up
    /\ There(a) /\ Standing(r) /\ Moderates(a, r)
    /\ Deleted(r)
    /\ UNCHANGED <<accounts, invited, up, command, lost>>

-----------------------------------------------------------------------------

CommandStep == (\E n \in Accounts : CommandOpens(n)) \/ CommandApplies \/ CommandSeats

AccountStep ==
    \/ \E n \in Names : Register(n)
    \/ \E a, t \in Accounts, next \in {"member", "admin"} : SetRole(a, t, next)

GuestStep ==
    \/ \E a \in Accounts, R \in SUBSET Rooms : Invite(a, R)
    \/ \E g \in Guests :
        \/ GuestJoins(g) \/ Retire(g)
        \/ \E a \in Accounts : Purge(a, g) \/ \E R \in SUBSET Rooms : Admit(a, g, R)

RoomStep ==
    \E a \in Accounts, r \in Rooms :
        \/ \E other \in Accounts \cup {None} : CreateGroup(a, r, other)
        \/ CreateGroupDies(a, r)
        \/ \E t \in Accounts : AddMember(a, t, r) \/ Kick(a, t, r)
        \/ Leave(a, r) \/ DeleteGroup(a, r)

Next == Starts \/ Dies \/ CommandStep \/ AccountStep \/ GuestStep \/ RoomStep

Spec == Init /\ [][Next]_vars

-----------------------------------------------------------------------------
(* Properties.                                                             *)

\* There are never two masters, whatever the command overlaps with.
AtMostOneMaster == \A a, b \in Masters : a = b

\* The deployment guide: the master is a member of #general, once the command
\* is through.
MasterIsInGeneral ==
    \A a \in Masters : a \in general \/ (command.name = a /\ command.phase = "applied")

\* Accounts become admin, and cease to be, only while there is a master, or to
\* become the master, or when there is no admin to begin with: nobody lower
\* than the master makes or unmakes admins.
AdminsAreTheMastersToMake ==
    [][\A a \in Accounts :
        (role[a] = "admin") # (role'[a] = "admin")
          => Masters # {} \/ role'[a] = "master" \/ Admins = {}]_vars

\* Where there is a master and an admin, a master there stays: no request, no
\* start, no command that fails, at whatever point, leaves the place empty.  The
\* exception is a command for a guest's account that is purged under it: it
\* demotes the master and appoints nobody (auth.ts:125-142).
MasterStaysWhileThereIsAnAdmin ==
    [][Masters # {} /\ Admins # {} =>
        Masters' # {} \/ (FoundIsGone /\ command' = Idle)]_vars

\* Whoever is down as the creator of a room is in it: across leaving, kicks and
\* starts nobody else's rights remain.  The exceptions are a guest whose stay
\* is over, and a room that was left half made.
CreatorsAreSeated ==
    \A r \in Rooms :
        room[r] = "made" /\ creator[r] # None =>
            \/ Seated(creator[r], r)
            \/ creator[r] \in Guests /\ stay[creator[r]] \in {"removed", "purged"}

\* The deployment guide: each instance has one master; one who was appointed
\* has a successor or stays.
MasterStays == [][Masters # {} => Masters' # {}]_vars

\* The comment on removeMembership: a creator who leaves or is removed does not
\* get moderation back by being added again.
RightsDoNotComeBack == \A r \in Rooms : creator[r] \notin lost[r]

=============================================================================
