------------------------------ MODULE Uploads -------------------------------
(***************************************************************************)
(* Files: their rows, what is on disk, and what refers to them, which is a *)
(* message or an avatar.  An upload checks who asks, awaits the stream and *)
(* then writes, asking nobody again; the rows, the disk and the references *)
(* are changed one after the other, and the process may die in between.    *)
(*                                                                         *)
(*   there     the rooms that exist                                        *)
(*   members   room_members                                                *)
(*   ended     the guests retired or removed                               *)
(*   hidden    for whom a DM is closed (hidden_at)                         *)
(*   up        one upload: its stage, by whom, to which room or as Avatar  *)
(*   saw       the avatar an avatar upload read before its await           *)
(*   row, disk the files rows, the files in filesDir                       *)
(*   message   what became of the message that carries a file: "bare" is   *)
(*             one whose file_id is NULL again                             *)
(*   avatar    users.avatar_file_id                                        *)
(*   late, stray, torn   history: uploads under way when their room or     *)
(*             their guest ended; files a death or an overlap of two       *)
(*             avatars left behind; files gone under a row a death kept    *)
(*   closed    history: what was in a DM when somebody closed it           *)
(*                                                                         *)
(* An upload carries its file from the request to the end, so one name     *)
(* stands for the request, the file, and the message.                      *)
(***************************************************************************)
EXTENDS Naturals, FiniteSets

CONSTANTS
    Members,        \* accounts of role member and above
    Guests,
    Admins,         \* those who may unsend anybody's message
    Groups, Dms,
    Party,          \* Party[d], the two members of DM d
    Uploads,
    Avatar, None

Users == Members \cup Guests
Rooms == Groups \cup Dms

ASSUME UploadsAssumption ==
    /\ Members \cap Guests = {}
    /\ Admins \subseteq Members
    /\ Groups \cap Dms = {}
    /\ Party \in [Dms -> SUBSET Members]
    /\ Avatar \notin Rooms
    /\ None \notin Users \cup Rooms \cup Uploads \cup {Avatar}

VARIABLES there, members, ended, hidden, up, saw, row, disk, message, avatar,
          late, stray, torn, closed

roomVars == <<there, members, ended, hidden>>
fileVars == <<row, disk, message, avatar>>
history == <<late, stray, torn>>
vars == <<roomVars, up, saw, fileVars, history, closed>>

Upload == [stage : {"unused", "streaming", "over"},
           by : Users \cup {None}, to : Rooms \cup {Avatar, None}]

TypeOK ==
    /\ there \subseteq Rooms
    /\ members \in [Rooms -> SUBSET Users]
    /\ ended \subseteq Guests
    /\ hidden \in [Dms -> SUBSET Members]
    /\ up \in [Uploads -> Upload]
    /\ saw \in [Uploads -> Uploads \cup {None}]
    /\ row \subseteq Uploads
    /\ disk \subseteq Uploads
    /\ message \in [Uploads -> {"none", "there", "bare"}]
    /\ avatar \in [Members -> Uploads \cup {None}]
    /\ late \subseteq Uploads /\ stray \subseteq Uploads /\ torn \subseteq Uploads
    /\ closed \subseteq Dms \X Members \X Uploads

\* Rooms with some of their members, DMs with theirs; admitted guests; no file.
Init ==
    /\ there = Rooms
    /\ members \in [Rooms -> SUBSET Users]
    /\ \A d \in Dms : members[d] = Party[d]
    /\ ended = {}
    /\ hidden = [d \in Dms |-> {}]
    /\ up = [f \in Uploads |-> [stage |-> "unused", by |-> None, to |-> None]]
    /\ saw = [f \in Uploads |-> None]
    /\ row = {} /\ disk = {}
    /\ message = [f \in Uploads |-> "none"]
    /\ avatar = [u \in Members |-> None]
    /\ late = {} /\ stray = {} /\ torn = {} /\ closed = {}

-----------------------------------------------------------------------------
(* A definition introduced as a slip is a plausible bug in the one that    *)
(* follows; it is used only to see the properties notice it.               *)

Streaming(f) == up[f].stage = "streaming"

StreamingTo(r) == {f \in Uploads : Streaming(f) /\ up[f].to = r}

StreamingBy(u) == {f \in Uploads : Streaming(f) /\ up[f].by = u}

\* A slip for Revealed: a file that arrives opens nothing.
RevealedNot(r) == hidden

\* Who has which DM closed, once r is open again for both (revealRoomMembers).
Revealed(r) == [d \in Dms |-> IF d = r THEN {} ELSE hidden[d]]

\* The history of the DMs that stay closed.
StillClosed == {c \in closed : c[2] \in hidden'[c[1]]}

\* Messages and avatars that refer to f.
Used(f, msg, ava) == msg[f] = "there" \/ \E u \in Members : ava[u] = f

\* deleteOrphanFile(g), once the references are msg and ava: the file, then the row.
DeleteOrphan(g, rows, msg, ava) ==
    IF g \in rows /\ ~Used(g, msg, ava)
    THEN row' = rows \ {g} /\ disk' = disk \ {g}
    ELSE row' = rows /\ disk' = disk

Begin(f, u, to) ==
    /\ up[f].stage = "unused"
    /\ up' = [up EXCEPT ![f] = [stage |-> "streaming", by |-> u, to |-> to]]
    /\ disk' = disk \cup {f}
    /\ UNCHANGED <<roomVars, row, message, avatar, history, closed>>

Over(F) == [f \in Uploads |-> IF f \in F THEN [up[f] EXCEPT !.stage = "over"] ELSE up[f]]

-----------------------------------------------------------------------------
(* Uploads.                                                                *)

\* POST /files, of a member or on the gateway, up to the stream.
UploadBegins(f, u, r) ==
    /\ u \in members[r]
    /\ u \notin ended
    /\ Begin(f, u, r)
    /\ UNCHANGED saw

\* POST /users/me/avatar: the avatar there is is read before the stream.
AvatarBegins(f, u) ==
    /\ u \in Members
    /\ Begin(f, u, Avatar)
    /\ saw' = [saw EXCEPT ![f] = avatar[u]]

\* The finally of an upload that made no row.
Discarded(f) == disk \ {f}

\* The stream fails, the file is too large, or no image.
UploadFails(f) ==
    /\ Streaming(f)
    /\ up' = Over({f})
    /\ disk' = Discarded(f)
    /\ UNCHANGED <<roomVars, saw, row, message, avatar, history, closed>>

\* The stream is in: the row, the DM's opening and the message.
UploadEnds(f) ==
    /\ Streaming(f) /\ up[f].to \in Rooms
    /\ up' = Over({f})
    /\ row' = row \cup {f}
    /\ hidden' = Revealed(up[f].to)
    /\ closed' = StillClosed
    /\ message' = [message EXCEPT ![f] = "there"]
    /\ UNCHANGED <<there, members, ended, saw, disk, avatar, history>>

\* The stream is in: the row, the avatar, and the end of the one read before.
AvatarEnds(f) ==
    LET u == up[f].by
        replaced == avatar[u]
    IN  /\ Streaming(f) /\ up[f].to = Avatar
        /\ up' = Over({f})
        /\ avatar' = [avatar EXCEPT ![u] = f]
        /\ DeleteOrphan(saw[f], row \cup {f}, message, avatar')
        /\ stray' = stray \cup ({replaced} \ {saw[f], None})
        /\ UNCHANGED <<roomVars, saw, message, late, torn, closed>>

\* The process dies and every stream with it: partial files stay; one upload may
\* have got its row, opened its DM or taken its avatar's place, and the file of
\* the avatar before may have gone without its row, and no further.
Dies ==
    LET S == {f \in Uploads : Streaming(f)}
    IN  \E F \in {{}} \cup {{f} : f \in S} :
        /\ S # {}
        /\ up' = Over(S)
        /\ row' = row \cup F
        /\ \/ /\ hidden' \in {hidden} \cup {Revealed(up[f].to) : f \in F}
              /\ avatar' = avatar
              /\ stray' = stray \cup S
              /\ disk' = disk
           \/ \E f \in F :
                /\ up[f].to = Avatar
                /\ hidden' = hidden
                /\ avatar' = [avatar EXCEPT ![up[f].by] = f]
                /\ stray' = stray \cup (S \ F) \cup ({avatar[up[f].by]} \ {None})
                /\ disk' \in {disk} \cup {disk \ {g} : g \in
                        {h \in row \cap {saw[f]} : ~Used(h, message, avatar')}}
        /\ closed' = StillClosed
        /\ UNCHANGED <<there, members, ended, saw, message, late, torn>>

-----------------------------------------------------------------------------
(* What takes files away.                                                  *)

MayUnsend(u, f) ==
    /\ message[f] # "none"
    /\ u \in members[up[f].to] \cap Members
    /\ u = up[f].by \/ u \in Admins

\* unsendMessage: the tombstone, and the orphan.
Unsend(u, f) ==
    /\ MayUnsend(u, f)
    /\ message[f] = "there"
    /\ message' = [message EXCEPT ![f] = "bare"]
    /\ DeleteOrphan(f, row, message', avatar)
    /\ UNCHANGED <<roomVars, up, saw, avatar, history, closed>>

\* The process dies after the tombstone, or after the file on disk too.
UnsendDies(u, f) ==
    /\ MayUnsend(u, f)
    /\ message[f] = "there"
    /\ message' = [message EXCEPT ![f] = "bare"]
    /\ disk' \in {disk, disk \ {f}}
    /\ stray' = stray \cup {f}
    /\ UNCHANGED <<roomVars, up, saw, row, avatar, late, torn, closed>>

\* A slip for FilesOf: those that its messages carry.
FilesOfMessages(r) == {f \in row : up[f].to = r /\ message[f] = "there"}

\* The files rows of room r.
FilesOf(r) == {f \in row : up[f].to = r}

DeleteRows(r) ==
    /\ r \in there \cap Groups
    /\ there' = there \ {r}
    /\ members' = [members EXCEPT ![r] = {}]
    /\ message' = [f \in Uploads |-> IF up[f].to = r THEN "none" ELSE message[f]]
    /\ row' = row \ FilesOf(r)
    /\ late' = late \cup StreamingTo(r)
    /\ UNCHANGED <<ended, hidden, up, saw, avatar, torn, closed>>

\* DELETE /rooms/:slug: deleteGroupRoom's transaction, then the files.
DeleteRoom(r) ==
    /\ DeleteRows(r)
    /\ disk' = disk \ FilesOf(r)
    /\ UNCHANGED stray

\* The process dies between the two.
DeleteRoomDies(r) ==
    /\ DeleteRows(r)
    /\ disk' \in {disk \ F : F \in SUBSET FilesOf(r)}
    /\ stray' = stray \cup FilesOf(r)

\* A slip for Bared: the messages go on naming the files.
BaredNot(F) == message

\* The messages once the files of F are taken from under them.
Bared(F) ==
    [f \in Uploads |-> IF f \in F /\ message[f] = "there" THEN "bare" ELSE message[f]]

UploadsBy(g) == {f \in row : up[f].by = g}

\* retireGuestAccount and purgeGuestAccount; the latter takes the messages too.
EndGuest(g, purged) ==
    /\ g \in Guests \ ended
    /\ ended' = ended \cup {g}
    /\ members' = [r \in Rooms |-> members[r] \ {g}]
    /\ message' = IF purged
                  THEN [f \in Uploads |-> IF up[f].by = g THEN "none" ELSE message[f]]
                  ELSE Bared(UploadsBy(g))
    /\ row' = row \ UploadsBy(g)
    /\ disk' = disk \ UploadsBy(g)
    /\ late' = late \cup StreamingBy(g)
    /\ UNCHANGED <<there, hidden, up, saw, avatar, stray, torn, closed>>

\* The process dies inside that transaction: the rows come back, the files do not.
EndGuestDies(g) ==
    /\ g \in Guests \ ended
    /\ \E F \in SUBSET UploadsBy(g) :
        /\ F # {}
        /\ disk' = disk \ F
        /\ torn' = torn \cup F
    /\ UNCHANGED <<roomVars, up, saw, row, message, avatar, late, stray, closed>>

-----------------------------------------------------------------------------
(* Rooms.                                                                  *)

AddMember(r, u) ==
    /\ r \in there \cap Groups
    /\ u \in Members \ members[r]
    /\ members[r] \cap Members # {}
    /\ members' = [members EXCEPT ![r] = @ \cup {u}]
    /\ UNCHANGED <<there, ended, hidden, up, saw, fileVars, history, closed>>

\* POST /rooms/leave and POST /rooms/kick leave a stream alone.
RemoveMember(r, u) ==
    /\ r \in Groups
    /\ u \in members[r]
    /\ members' = [members EXCEPT ![r] = @ \ {u}]
    /\ UNCHANGED <<there, ended, hidden, up, saw, fileVars, history, closed>>

\* hideRoom
Hide(u, d) ==
    /\ u \in members[d] \ hidden[d]
    /\ hidden' = [hidden EXCEPT ![d] = @ \cup {u}]
    /\ closed' = closed \cup ({d} \X {u} \X {f \in Uploads : message[f] # "none" /\ up[f].to = d})
    /\ UNCHANGED <<there, members, ended, up, saw, fileVars, history>>

\* getOrCreateDmRoom, for a DM there is.
OpenDm(u, d) ==
    /\ u \in hidden[d]
    /\ hidden' = [hidden EXCEPT ![d] = @ \ {u}]
    /\ closed' = StillClosed
    /\ UNCHANGED <<there, members, ended, up, saw, fileVars, history>>

Next ==
    \/ \E f \in Uploads :
        \/ \E u \in Users, r \in Rooms : UploadBegins(f, u, r)
        \/ \E u \in Members : AvatarBegins(f, u)
        \/ UploadFails(f) \/ UploadEnds(f) \/ AvatarEnds(f)
        \/ \E u \in Members : Unsend(u, f) \/ UnsendDies(u, f)
    \/ Dies
    \/ \E r \in Groups : DeleteRoom(r) \/ DeleteRoomDies(r)
    \/ \E g \in Guests : (\E p \in BOOLEAN : EndGuest(g, p)) \/ EndGuestDies(g)
    \/ \E r \in Groups, u \in Users : AddMember(r, u) \/ RemoveMember(r, u)
    \/ \E d \in Dms, u \in Members : Hide(u, d) \/ OpenDm(u, d)

Spec == Init /\ [][Next]_vars

-----------------------------------------------------------------------------
(* Properties.                                                             *)

\* What a message or an avatar refers to has its row and is on disk, and nothing
\* else is kept: replaced avatars, unsent files and broken uploads are deleted.
\* The ways round are deaths and two avatar uploads at once (stray, torn).
FilesMatch ==
    /\ TypeOK
    /\ \A f \in Uploads :
        /\ Used(f, message, avatar) => f \in row /\ f \in disk \cup torn
        /\ f \in row \cup disk /\ ~Streaming(f) => Used(f, message, avatar) \/ f \in stray

\* Of a deleted room and an ended guest no file is left, and of the room no
\* message, but for uploads under way at the time, which ask nobody again.
EndedIsGone ==
    \A f \in Uploads :
        up[f].to \in Groups \ there \/ up[f].by \in ended
          => \/ f \in late
             \/ /\ f \notin row
                /\ up[f].to \notin there => message[f] = "none"

\* A DM stays closed to somebody only over what was in it when they closed it: a
\* file that was on its way then, the peer's or their own, opens it again
\* (revealRoomMembers after the stream, hideRoom in between).
ClosedDmsReopen ==
    \A d \in Dms : \A u \in hidden[d], f \in Uploads :
        up[f].to = d /\ message[f] # "none" => <<d, u, f>> \in closed

=============================================================================
