# A verification project for hermes-be

hermes-be is a chat server: one Node process, one SQLite file, REST handlers and a WebSocket
per client. SQLite is used synchronously, so the server has no locks and hardly any
transactions. Its correctness rests on two things: the rows and a set of in-memory maps that
are kept in step by hand, and what each handler does between two `await`s. This directory
models those parts in TLA+, checks them with TLC on small instances and proves some of the
results with TLAPS for every instance.

Run things from this directory: `tlc -config MCCalls.cfg MCCalls`, `tlapm CallsProofs.tla`.
Paths below are relative to the repository.

## 1. The system

**What runs when.** The event loop runs one callback at a time. A handler without an `await`
is atomic; one that hashes a password or writes an upload is not, and other requests run in
between. Timers (`setTimeout` for calls and sessions, the ping interval, the guests' expiry)
and socket events (`close`, `error`) are callbacks of the same loop. The process may die
between any two SQLite statements that are in no transaction; every in-memory map is then
empty and every row stays.

| Component | Code | State | Operations |
|---|---|---|---|
| Socket registry | `src/ws/handler.ts`, `src/app.ts` | `userSockets`, `roomClients`, per-socket `userEntry`, last pong | attach (with a cap), detach, prune on send, ping timer, close, error, shutdown |
| Calls | `src/routes/calls.ts`, handler | `callMembers`, `callSharing`, `callAloneTimers` | `join_call`, `leave_call`, signalling relay, share start and stop, alone timer, disconnect, eviction, teardown |
| Watch together | `src/routes/calls.ts`, handler | `watchSessions` (host, participants, position), `watchAloneTimers` | start, join, leave, control, end, alone timer, disconnect, eviction, teardown |
| Typing, presence | `src/routes/calls.ts`, handler | `typingTimers`, `roomClients` | typing, typing timeout, `join_room`, room switch |
| Credentials | `src/auth.ts`, `src/routes/auth.ts` | `users.password`, `password_reset_tokens` | register, login (with rehash), change, issue a reset, redeem |
| Sessions | `src/sessions.ts` | `sessions` rows | create, read, slide, prune, revoke |
| Invites and guests | `src/invites.ts`, `src/guests.ts`, `src/gateway.ts`, `src/routes/master.ts` | `invites`, guest `users` rows, gateway switch | create, revoke, redeem, admit, retire, purge |
| Rooms | `src/rooms.ts`, `src/routes/rooms.ts` | `rooms` (with `creator_id`), `room_members` (with `hidden_at`) | create, DM, add, leave, kick, delete, hide, read |
| History | `src/db.ts`, `src/rooms.ts`, `src/routes/messages.ts` | `messages`, read marks | post, list, unsend, unread count |
| Uploads | `src/routes/files.ts`, `src/routes/auth.ts`, `src/gateway.ts`, `src/db.ts` | `files` rows and files on disk | upload, avatar, orphan removal |
| Roles | `src/authz.ts`, `src/rooms.ts`, `src/auth.ts`, `src/bootstrap-master.ts` | `users.role` | appoint master (a command, another process), set role, `can` |
| Schema migration | `src/schema.ts` | the tables | migrations and backfills at every opening of the database |
| Previews | `src/link-preview.ts`, `src/safe-fetch.ts` | a limiter, two caches | get preview, get image |
| Message budget | `src/ws/limits.ts` | a token bucket per user | take |
| Shell | `src/server.ts`, logger, ICE, headers, text | none that changes | - |

**How they interact.** REST handlers change rows first and then call into the memory of the
sockets: `evictFromRoom` after a leave or a kick, `teardownRoom` after a deletion,
`closeUserSockets` after a logout or a guest's end. Socket callbacks call `leaveAllCalls` and
`leaveAllWatches` when the last socket of a user goes. Every send to a user also prunes the
registry, so components share `userSockets` even when they have nothing else in common.

**What is hard.**

- Three maps per feature (calls, sessions) kept in step by hand from eight or more callbacks.
- The registry forgets sockets in four ways (close, error, ping timeout, send), and only
  three of them clean up. Whether the clean-up still happens depends on the order.
- A user has several sockets; only the last one's end may end the user's calls.
- Timers race the join or the departure that should have cancelled them.
- Handlers that await a hash write on the strength of a row read before.
- Multi-statement writes with no transaction, and a process that may die between them.
- Backfills that run at every start and not once.

**What makes each part correct.**

- Registry: no more than the cap of live sockets per account; a forgotten socket never
  leaves its owner's state behind.
- Calls, sessions: in-memory participants are members and have a live socket; at most one
  call per user; a share belongs to somebody in the call; the alone timer is armed exactly
  when one is left; a departure elsewhere never ends somebody's call.
- Credentials: a live session knows the current password; a token works once; the newest
  token stands until it is used or expires.
- Guests: a guest outlives neither their invite nor their removal, and leaves no rows or files.
- Rooms, roles: there is always somebody who can administer; a creator's rights end with
  their membership.
- History: a guest sees nothing from before their admission; unread counts match what is listed.
- Uploads: what refers to a file has it, and nothing else is kept; nothing of a deleted room or
  an ended guest is left.
- Presence: a room shows only members whose connection something will still clean up.
- Previews: a slot is never lost, nobody waits for ever, and the caches keep to their size.

`PROJECT.json` lists the hazards at their lines; every property is there for one of them.

## 2. The modules

| Module | What it is |
|---|---|
| `Connections` | base: the socket registry and the membership rows, what each event does to them |
| `Calls` | calls, screen share and alone timer over `Connections` |
| `CallPromise` | abstract: what a user of calls may rely on, with no sockets, timers or maps |
| `CallsRefinement` | `Calls` implements `CallPromise`, with its refinement mapping |
| `CallsProofs` | proofs: types, the invariants, the refinement of `CallPromise`, no takeover of a share |
| `Watch` | watch-together sessions over `Connections` |
| `WatchPromise` | abstract: what people who watch together may rely on, with no sockets or timers |
| `WatchRefinement` | `Watch` implements `WatchPromise`, with its refinement mapping |
| `WatchProofs` | proofs: participants are present; who ends a session; the refinement of `WatchPromise` |
| `Credentials` | login, change and reset, split at their awaits |
| `CredentialsProofs` | proofs: who holds a session knows the password; tokens are used once |
| `Guests` | invites, joining, admission, guest uploads, retirement and removal |
| `GuestPromise` | abstract: what invites and guests' lives come to, with no requests, sessions or deaths of the process |
| `GuestsRefinement` | `Guests` implements `GuestPromise`, with its refinement mapping |
| `GuestsProofs` | proofs: invites are counted; how guests come, and what is left of them; the refinement of `GuestPromise` |
| `History` | messages, unread counts and a guest's cut, over everything that changes membership |
| `HistoryProofs` | proofs: unread counts are what is new; a guest sees from the admission on |
| `Uploads` | uploads and avatars around their stream: rows, disk, references, deaths |
| `Presence` | sockets seated in rooms and typing indicators over `Connections` |
| `PresenceProofs` | proofs: presence is real; the cap on an account's sockets |
| `Previews` | the two limiters of outbound fetches and the three caches |
| `MediaProofs` | proofs about `Uploads`: references and files match, what is deleted is gone, DMs reopen; and about `Previews`: slots are counted, memory is bounded, refusals are not cached |
| `Governance` | roles, the master, room creators and permissions, group membership, the backfills at every opening |
| `GovernanceProofs` | proofs: types; one master, in `#general`; who makes admins; creators are seated |
| `MCCalls`, `MCWatch`, `MCPresence`, `MCCredentials`, `MCGuests`, `MCGovernance`, `MCHistory`, `MCUploads`, `MCPreviews` | the instances TLC checks |

### Connections

`conn[s]` is what the loop knows of a socket. `open` and `lost` both have `readyState` OPEN; a
lost peer went away without a FIN and nothing arrives from it any more. `closing` has had
`close()` or `terminate()` called, or got a close frame: its `close` event is still to come,
and frames received before may still be handled. `errored` had its `error` event, which set
`userEntry` to null, so its `close` event detaches nothing. `entry` is `userSockets`,
flattened; `members` is `room_members`.

`Prune` is the filter in `sendToUser`: sockets that are not OPEN are dropped without the
clean-up that `detachUserSocket` does. `LastOf` is that function's test for the last socket,
made after the entry is deleted. `Attach` closes as many of the account's registered sockets as
must go for the cap; which are oldest is left open, which allows more than the code does.
A slot of `Sockets` is reused after its close, and `Owner` fixes its account: the preHandler
refuses a handshake without a valid token, so `bindUser`'s late binding never happens.

### Calls

One action per frame (`JoinCall`, `LeaveCall`, `ScreenShareStart`, `ScreenShareStop`, `Signal`
for the three relayed ones), per socket event, per timer and per REST handler that touches
calls (`AddMember`, `RemoveMember` for leave and kick, `DeleteRoom`, `RetireUser`). Each is the
whole callback: `join_call` leaves other calls first, evicting prunes the registry of
everybody told. Within a callback several sends happen and each prunes; the order does not
matter, because `Prune` only takes out sockets that are not OPEN and no socket changes state
in between, and because `detachUserSocket` tests for the last socket before it sends. So a
step prunes the union once.

The alone timer is two steps. `AloneTimePasses` puts the room in `due`; `AloneTimeout` is the
callback, which checks again that the user is still alone. Anything that re-arms or clears the
timer takes the room out of `due`.

`Signal` and `SendToUser` have no effect but pruning. They stand for every other send in the
server, which is what makes it sound to model calls and sessions in separate modules: one's
sends are an arbitrary `SendToUser` to the other.

A definition called a *slip* in its comment is a plausible bug. It stands before the
definition it would replace, is used by no specification, and is what `PROJECT.json` names as
a mutant: TLC finds the property violated when the slip takes the definition's place.

### Watch

As `Calls`, with differences that the code has: a session outlives its host's `watch_leave` (the
host stays host and can still control it), ends when the host loses the last socket or leaves the
room, and may be ended by the host or by an admin who is a member. The alone timer ends the whole
session. Guests may do none of this (`requireCallTarget`, `can`), so `Users` are accounts of role
member and up. Playback position is not in this module (see section 6). Retirement and admission of
a guest are not actions here, for a guest is never in a session. A lone participant who sends
`watch_leave` disarms the timer and leaves the session behind with nobody in it until its host goes
or somebody ends it; `LoneWatchersLeave` therefore speaks of participants.

`WatchPromise` has members, who is online, and of each room a host and an audience. A session
ends by its host or an admin, by the host's going offline or losing the room, or by somebody's
being left alone, and nobody is put out of it otherwise. `online` is who the registry has an
entry of. The registry forgets sockets before their close event comes, so a user may be offline
and still in a session: going offline is noticed in any step (`SomeGoOffline`), and what follows
from it is a step of its own (`Disconnect`).

### Presence

`roomClients` is `seat`: the room whose set has the socket's client. The handler has its own idea
of the room it is in, `held`, and the two differ: `broadcastToRoom` and the ping timer take a dead
socket's client out of the set while the handler holds on to it, and `leaveCurrentRoom` then
removes it once more and tells the room once more. `release()` (eviction, deletion) clears both.
`typing` is the running timers; as with calls, running out and the callback are two steps.
Calls and sessions are left out here and presence there: what a disconnect or a removal does to
each touches different maps, and their sends only prune, which `SendToUser` does at any time. The
online set of `app.ts` is the keys of the registry, `Online`.

`GET /rooms` (`connectedUsers`) adds the users seated in a room to the members it lists, so a
seat that outlived its member would show somebody who left. That, and an indicator that nobody
would ever take away, is what `PresenceIsReal` is about; it also says that a seated socket's
handler still holds the seat.

### Credentials

Each handler is split where it awaits argon2: it reads the row (`...Begins`), compares
(`...Verified`), and writes on the strength of the earlier read (`...Rehashed`, `...Hashed`,
`Redeemed`). `Dies` is the process dying with one request between two of its writes. History
variables (`newest`, `uses`, `knows`, `setter`, `disturbed`) serve the properties only; no
guard reads them. `disturbed` is the set of requests that overlapped somebody else's write or
were cut short: the properties say that nothing goes wrong without one, which is as much as
this code guarantees. The known ways round are: a rehash at login (`src/auth.ts:177-181`) can
overwrite a password changed meanwhile; a session made by a login that read the old row
survives the change; a token whose redemption was cut short before the DELETE stays usable.

### Guests

`guest[g]` is an account slot, with every row that hangs on it. Requests of `POST /join` are
split at the hash: `JoinBegins` looks at the name, `JoinAccepted` and `JoinRefused` are the
transaction after it, which looks at everything again but reads no new clock (`timely`). `Swept`
is what deleting an expired session row does: the row goes first, because `retireGuestAccount`
does nothing while one is left. `readSession`, `sessionIsLive` and `pruneExpiredSessions` (at
every login and join) are its callers. `UploadBegins` and `UploadEnds` are the two sides of the
streaming await. The three `Dies...` actions are the process dying idle, between the redeem
transaction and the session, and between deleting expired rows and the last retirement.

Two history variables name the exceptions that the code has. `adrift` are guests whose session
row went with no retirement to follow: by one of those deaths, or by a password reset, which
an admin may issue for a guest's account too. Nothing retires them; the master can remove them.
`late` are guests who were ended while they uploaded. The master's page switch is a setting
and a clock; it is read when a join begins, and no request under way is stopped, so it appears
only as the precondition of `JoinBegins`. A reset is one step here; `Credentials` splits it.

`CreateGroup` is there because a member who makes a group may name any account that exists, a
guest's too, whatever its status. `placed` remembers those rooms, and `GuestsEnterByAdmission`
and `EndedGuestsAreGone` say what holds of all the others. `Old` are the rooms that invites
are made for, `Busy` the guests who upload, are promoted, have their password reset or are put
in new groups; both only keep the instance small. A promoted account is followed no further than its
role: what it then does as a member is `Governance`'s. It gives up its display name, for
`displayNameTaken` asks for accounts of role guest; `Here` is who that leaves. An admission adds
the invite's rooms that still stand and leaves the rooms a guest was already put in
(`INSERT OR IGNORE`).

`GuestPromise` has what the invites have left, how far each guest has come, their names and
their `seats`, the rooms they are in by admission (those not in `placed`). A join is one step of
it, `Enter`, which takes a use and a free name at once. In `GuestsRefinement` that step is the
transaction after the hash; everybody whose session row is found expired on the way goes in
that same step. An invite that has lapsed keeps what it had left, for one who asked in time may
still enter on it; a revoked one has nothing left.

`late` guests' uploads finish after their end: `POST /files` of the gateway checks session,
status and membership before the stream (`src/gateway.ts:270-275`) and writes row and message
after it, against `docs/ROADMAP.md:1515` ("the live connection closes and their uploads are
deleted"). `placed` rooms are on no invite, against `docs/ROADMAP.md:1507-1509`;
`addMembersToGroup` refuses a guest (`src/rooms.ts:371`) and `createGroupRoom` does not. Both are
facts about the code, stated by the two properties as their exceptions and by no run of their own.

### History

Three numbers are compared: a message's id, `mark` (`room_reads`), and `cut`
(`history_after_id`). That works because an id is above every id there was, which
`AUTOINCREMENT` keeps even after deletions: `NextIdLeft`, a table without it, breaks the counts
after a purge. Three history variables, which no guard reads, say the same without ids: `fresh`,
what was posted since somebody last read; `since`, how many messages had been posted anywhere
when a guest was admitted, whatever rows `admitGuest` then wrote; `early`, the groups in which
the making of the group seated a guest who was not admitted. What the properties then compare is
the two.

Every request here is one step, for none of these handlers awaits. `Read` is `GET /messages` and
`POST /rooms/read` of members and `join_room` of anybody. Leaving keeps the mark and being added
again sets it; a guest's cut goes with the membership row. A waiting guest whom a member put into
a new group (`CreateGroup`, `src/rooms.ts:267-273`) has no cut there; the `INSERT OR IGNORE` of a
later admission (`src/invites.ts:407-409`) leaves that so, and once admitted they are shown what
was posted before, against `docs/ROADMAP.md:1507-1508` ("They see messages from that moment on").
Three steps do it: the group is made with the guest in it, a message, the admission.
`GuestsSeeFromAdmission` says so of `early` rooms, as its exception, and it has no run of its own;
of every other room it says what the roadmap does. A promoted guest keeps the cut only where
the gateway asks for it, and the member page never does; promotion is not an action of this
module. Newcomers to `#general` start with all of it unread. `PostElsewhere` is a message in
`#general`, a DM or any other room: it takes an id.

### Uploads

One name stands for a request, the file it writes and the message that carries it. An upload is
two steps, `UploadBegins` or `AvatarBegins` up to the stream and `UploadEnds` or `AvatarEnds`
after it; between them anything may happen to its room, its owner or the DM. `row`, `disk`,
`message` and `avatar` are kept apart because the code changes them one after the other. `Dies`,
`UnsendDies`, `DeleteRoomDies` and `EndGuestDies` are the process dying between two of them:
SQLite rolls a transaction back, and `fs.rmSync` inside it (`deleteUploads`) stays done.

Three history variables name what the code lets happen: `stray` files, which a death, or two
avatar uploads of one user that overlap, leave behind with nothing to refer to them; `torn`
files, gone from disk under rows that a rollback brought back; `late` uploads, under way when
their room was deleted or their guest ended. A member who left while uploading is not among
these: the code lets that upload in, and no document says otherwise. `closed` is what a DM held
when somebody closed it.

### Previews

`own` are the `Limiter`s of users, `active` and `queue` the global one. A fetch holds a slot of
both, or waits for one of them. `Release` is the end of a task: both `finally` blocks, the
waiters they wake and the removal of an idle limiter, one step because they run in one turn of
promises with no I/O between. `HeadersArrive`, `BodyArrives` and `FetchFails` are the other
end's doing and may never happen; `Deadline` is `AbortSignal.timeout`, set when the slot is
taken, and covers redirects (`safe-fetch.ts`, which checks the signal at each) and the body
(`readCapped`). The maps are sequences in their iteration order, because eviction takes the
first. The fetches of a video's oEmbed and page are one here: they share a slot and a deadline.

`bytes` is only an upper bound: `lruGet` deletes an expired image and `imageCacheSet` replaces
one fetched twice without taking its bytes off. The count drifts up, and the cache may hold less
and less, in the end nothing, until a restart. No document promises otherwise, so it is no
finding; `BytesCoverTheCache` states what does hold, that memory stays bounded. A failing fetch
that ends after a successful one of the same page replaces its preview with null; the next hour
sees none.

### Governance

`users` is the table in id order and `members[r]` the rows of a room in rowid order, because
the two backfills take the *first*; an account has at most one row in a room, the one that
`Without` deletes. `role`, `creator`, `general` and `stay` (a guest's status) are columns. A
route and the function of `rooms.ts` that it calls are two definitions: `CreateGroup` and `Created`,
`AddMember` and `Added`, `Kick` and `Removed`, `DeleteGroup` and `Deleted`, `SetRole` and
`RoleSet`. None of these routes awaits, so each is one step.

`bootstrap-master` is another process on the same file. `CommandOpens` runs the backfills too
(every `getDb` does) and looks the name up, a username or a guest's account that is there (a
guest's name that is not there yet is left out). `CommandApplies` is the transaction, rolled back
when the server registered the name meanwhile; when the server purged the guest meanwhile, it
demotes the master, appoints nobody and commits (`FoundIsGone`); `CommandSeats` adds the row in
`#general`. It may never get to the next of these, which is a kill. `Dies` and `Starts` are the
server; `CreateGroupDies` is a death after the room's row. A list of members is asked for one at a
time, since nothing runs in between and each is added on its own. `lost` is history: who lost the
moderation of a room.

Of `RoleSet`: the last admin can be demoted by nobody but the master, who is exempt. The
route asks `can` first, and of those whom it lets through only the master outranks an admin;
so the refusal `cannot demote the last admin` is never given.

## 3. What is checked

| Run | Instance | What it shows |
|---|---|---|
| `calls` | two users, 2+1 slots, cap 2, two rooms | the three maps agree with each other, with the rows and with the sockets; no disconnect of one socket ends a call another holds; `CallPromise` is implemented; a lone caller is dropped unless somebody keeps joining; a client that died silently ends up in no call |
| `watch` | two users, one of them admin, 2+1 slots, two rooms | participants and hosts are members with a live socket; no bystander ends a session others follow; `WatchPromise` is implemented; a lone participant does not stay alone, a dead host's session ends |
| `presence` | one account with 2 slots, cap 1, another member, two rooms | whoever sits or types in a room is a member whose socket is still to be cleaned up; the cap holds; typing ends, and a dead client is seated nowhere in the end |
| `credentials` | three requests, two tokens, two passwords | stale sessions, reused tokens, lost tokens all need an overlap or a death |
| `credentials_one_time` | two requests, one token | *violated*: see finding 1 |
| `guests` | two guests, one of them busy, an invite of one or two uses, two joins, two rooms | an invite lets in what it counts; rooms come from the invite or from the making of a group; nothing is left of an ended guest; every open guest has a session that will end them, but for the exceptions above; `GuestPromise` is implemented |
| `history` | two members, a guest, a group, three messages | unread counts are what is new, and an admitted guest sees what came since the admission, or all of a group they were put in before, whatever came, went or was deleted |
| `uploads` | two members, one of them admin, a guest, a group, a DM, three uploads | files, rows and references agree; a deleted room and an ended guest leave no file; a DM stays closed only over what its owner saw in it |
| `previews` | two users, 1+3 requests, one slot in all, one each and one waiting, a page that names two images, caches of one | slots and queues are what the requests hold; the image cache is bounded; a refusal is not cached; every request ends |
| `governance` | two usernames, one guest, one room; a new database or one with both users, each member or admin | never two masters; the master is in `#general`; only the master makes or unmakes admins; while there is an admin a master is lost by no start and by no command but one whose guest was purged; creators are in their room |
| `governance_master` | the same | *violated*: see finding 2 |
| `governance_rights` | the same | *violated*: see finding 3 |

The passing runs have from fifteen thousand states (`presence`, with liveness) to 1.8 million
(`uploads`); none takes more than three minutes.

**Why the bounds are enough.** Two users are the fewest that make "alone" and "not alone" and
a share that could be taken over. Two slots of one user and one of another give every pair of
"one socket ends, another stays"; a cap of one with two slots in `presence` makes a connection
push another out, and the registry it does this to is the one `calls` and `watch` extend. Two
rooms are needed for `join_call`'s move between calls and for a disconnect that leaves several
sessions. The runs with liveness use no symmetry; `credentials`, `guests` and `uploads`, which
check safety only, do. What `calls` cannot reach, a third socket of an account pushed out of a
call by the cap, is in the theorems of `CallsProofs`, which hold for any number and any cap.

Three requests are a pair that overlap and a third that sees the result; two tokens are one that
replaces another. Two guests and two joins give two redemptions that overlap, for the last use
of an invite or for the same name, and a prune that retires one guest and dies before the other.
A state with a join in flight and no account slot left is checked but not followed (`MCBound`):
all such a join could do is to be refused or to die. The second room is one that members make
with a guest in it, beside the one the invite is for.

In `governance` two usernames and a guest are an actor, a target and a bystander; both usernames
can be admins with no master, one can be registered while the command makes it, and a guest may
become anything the others are. More rooms would not meet: no step of it reads two.

In `history` three messages are one before a mark or a cut, one after, and one whose id would be
used again if it could (`MaxMessages`). In `uploads` two uploads overlap and a third was there
before, so that two avatars can both replace it; all three may also be in one room. In
`previews` ann's three requests are one that runs, one that waits and one that is refused; bob's
waits for the slot ann has. The page's two images fill `knownImages` and push each other out of
an image cache of one.

**Fairness.** `FairSpec` assumes what Node does: a timer that was set fires, a socket that was
closed gets its `close` event, and the ping interval terminates a registered socket whose peer
is lost; in `Previews`, that the deadline of a fetch fires. Nothing is assumed of clients, which
need not join, leave, or come back, nor of the servers that are fetched from. `join_call` and
`watch_join` restart the timer even for somebody who is in already (`src/ws/handler.ts:405`),
and a typing frame the typing timer, so a client that repeats the frame for ever puts the
timeout off for ever. The liveness properties name that exception.

**Findings.**

1. A reset token is called one-time, but the redemption awaits the hash between the lookup and
   the delete; two redemptions that overlap both set a password (`OneTimeToken`).
2. Each instance has one master (`docs/DEPLOY.md:437`). At every opening of the database,
   `backfillFirstAdmin` makes the first account an admin when there is none; if that account is
   the master, the instance has none any more (`MasterStays`). With an admin beside the master
   no start does it, which `MasterStaysWhileThereIsAnAdmin` checks; what is left is its
   exception, a command for a guest's account that the master removes between the command's
   lookup and its transaction (`src/auth.ts:125-142`), and no run of its own shows that.
3. A creator who left does not get moderation back by being added again (`src/rooms.ts:409`).
   They do at the next opening if they are the earliest member by then: `backfillRoomCreators`
   runs at every one, not only for rooms from before the column (`RightsDoNotComeBack`). By the
   same backfill a guest can become a room's creator, and stay so after they are gone, which is
   the exception in `CreatorsAreSeated`.

`CHECK_DEADLOCK FALSE` is set where names are used once, so that the instance runs out of them:
in the two `Credentials` runs (a session is named after the request that made it), in `history`
(message ids) and in `uploads` (files).

## 4. What is proved

Every theorem holds for any values of the constants that meet the named assumptions, of any
size; where nothing is said of a set it need not be finite. Each assumption is one the code
gives: every socket slot has an owner (`OwnerAssumption`), the null values are no user, room,
invite, token or file, the caps are positive, admins are accounts, guests and members are
different accounts, groups and direct messages different rooms, a database lists each legacy
user once. TLC evaluates each of them.

All invariants that the passing runs check are theorems, and so are the three refinements and
the action properties. Two more invariants are theorems only: the types of `Calls`, and that
display names are distinct, which `GuestPromise` implies. Every strengthening below was first
checked by TLC, on the instance of the component's own run.

### Over the socket registry

`CallsProofs`:

- The inductive invariant `IInv` has five parts: types; `MapsAgree` (share and timer fit the
  call); `CallersAreMembers`; `RegisteredCleanUp`; `NoGhostCallers`. `NoGhostCallers` alone is
  not inductive. When a socket's clean-up finds another socket *registered*, it keeps the call,
  so one has to know that a registered socket is one whose clean-up is still to come. That is
  `RegisteredCleanUp`: an entry is never for an `absent` or `errored` socket. The attach, the
  error handler and the close handler each preserve it only because they touch registry and
  socket in the same step.
- From `IInv` (`Invariance`): `TypeCorrectness` (`TypeOK`), `CallMembership`
  (`CallersAreMembers`), `SingleCall` (`OneCallAtATime`), `ShareOwnership`
  (`SharerIsInTheCall`), `AloneTimer` (`AloneTimerMatches`), `NoGhosts` (`NoGhostCallers`), and
  the action property `OneConnectionIsEnough` (`OtherSocketKeepsTheCall`).
- `Refinement`: `Spec => KeepsCallPromise`. A step of `Calls` maps to `Enter` (join), `Quit`
  (leave, timeout, last socket, restart), `StartSharing`, `StopSharing`, `ChangeMembers`
  (REST) or a stutter. The mapping needs `OneCallAtATime` for `where` to be well defined.
- `NoTakeover`: `Spec => ShareIsNotTakenOver`, which is proved and not among the runs' properties.

`WatchProofs`: `WatchersPresent` (`WatchersArePresent`) rests on the same `RegisteredCleanUp`,
with the host counted among those who take part (`In`): `InAreMembers`, `InAreConnected`, and
`HostlessAreEmpty`, that a room with no session has no participants, which is what a start by
the next host relies on. `OnlyHostOrAdminEnds` (`OthersDoNotEndIt`) is the action property: if a
session of two or more ends while its host is still a connected member, the step was the
`watch_end` of the host or of an admin. Of every other action one shows that it ends no such
session, the timer because it is armed for one who is alone, the close of a socket because a
host with another socket is spared. `Refinement` is `Spec => KeepsWatchPromise`. It is as much
about what steps leave alone as about what they do: whatever changes membership cuts host and
audience down to the members left (`ChangeMembers`); a close, an error or a timeout that finds
no other entry of its user is `Disconnect` of that one user, and of nobody where it does; a
restart is `Disconnect` of all; a send that prunes is `Disconnect` of nobody. That a start finds
no audience left over is `HostlessAreEmpty`.

`PresenceProofs`: `RealPresence` (`PresenceIsReal`) needs `RegisteredCleanUp` and that the
handler and the room agree on a seat. `CapHolds` (`SocketCap`) is a separate induction
(`CapInv`, with `IInv` as a lemma): the cap counts sockets that can be sent to, and what
`attachUserSocket` counts is the registry, so the invariant says that every such socket *is*
registered, whatever sends, timeouts and errors took out, and that the registry is finite
although the slots need not be.

### Over the tables

`CredentialsProofs`. The three properties excuse what a *disturbed* request did, one that
overlapped another's write or was cut short, so the strengthening says what an undisturbed one
may still rely on after its await. `Fresh`: the row that a login read is still the row.
`Asked`: what it goes on to write is what it was asked for. `SetByArgon`: a password that a
request set is not in the legacy form. So an undisturbed login that rehashes, of which `Fresh`
says that the row is still the legacy one it read, is the first to set a password, and there is
no disturbed setter before it whose excuse it would take away. `TokensHeld`: unless a
redemption was disturbed, a token in hand has been used by nobody and replaced by none, and the
newest is the one in the row. From it `HoldersProved` (`SessionsKnowThePassword`),
`TokensAreSpent` (`TokenSpent`), `NewestStands` (`NewestTokenStands`).

`GuestsProofs`. `InvitesCounted` strengthens the count: the accounts that came on an invite are
finitely many, exactly as many as the row says, and an invite that was not made has none. Of
each guest, `CameOnInvite` (a name is taken only with an invite that was made, and the rooms
promised are among that invite's), `EnteredByAdmission`, `GoneIfEnded` (which also says that an
upload outliving its guest is known to be late) and `WillEnd`. A step is sorted once for all
four: it leaves an account as it is but for a few harmless changes (`Stays`) or ends it
(`Ends`), and the join and the admission are proved apart. From it `InvitesAreCounted`
(`InvitesHold`), `NamesAreDistinct` (`DisplayNamesDistinct`), `AdmissionOnly`
(`GuestsEnterByAdmission`), `EndedAreGone` (`EndedGuestsAreGone`), `OpenWillEnd`
(`OpenGuestsWillEnd`).

`Refinement` (`Spec => KeepsGuestPromise`): in a step every account looks the `Same` to
the mapping or `Leaves`, and those who leave are `G` of `Go` or of `Enter`. `RedeemIsEnter` is
the heart of it: the name is free among all who are here before the step, those whom the making
of the session prunes included, and an invite that is out and counts less than its maximum has
something left. That an admission's
rooms are the invite's is `CameOnInvite`; that the other steps only take seats away is that
whoever they add to a room is `placed` there.

`MediaProofs`, of `Uploads`. `FilesMatch` alone is not inductive: whether a deleted message
leaves a file unused depends on who else could refer to it. `Staged` says that nothing refers to a
file before its stream is in, `Addressed` that afterwards only a message of the room or the avatar
of the account it was uploaded for does, so no file ever has two owners. `Gone` is
`EndedIsGone` file by file, with what is still streaming; `RoomsOK` says that a deleted room
has no members and that a DM is never deleted. From it `FilesAreKept` (`FilesMatch`),
`EndedLeaveNothing` (`EndedIsGone`), `DmsReopen` (`ClosedDmsReopen`).

`GovernanceProofs`, for any names, guests, rooms and legacy users:

- `RolesHold`: `Spec => []RoleInv`, with three parts beside the types. `CommandIsNamed` and
  `MasterIsInGeneral` follow the command from its transaction to its second one. No guard on a role
  reads a room, so nothing is needed about rooms.
- From it: `OneMaster` (`AtMostOneMaster`), `MasterSits` (`MasterIsInGeneral`), and the action
  properties `OnlyTheMasterMakesAdmins` (`AdminsAreTheMastersToMake`) and `MasterIsKept`
  (`MasterStaysWhileThereIsAnAdmin`). A change by request is the one place where ranks meet:
  whoever outranks an admin, or admin rank, is the master (`RoleSetSparesTheMaster`).
- `SeatsHold`: `Spec => []SeatInv`, that tables keep their types (nobody twice in a room) and
  creators their seats. The two go together: `Without` takes out one row, and that nobody else
  loses theirs and the one who left has none is uniqueness of rows (`WithoutFacts`); the backfill
  at an opening makes a creator of the first row only where there is one (`MendsSeats`). It uses
  `RolesHold` for the command's name only. From it `TypeCorrect` (`TypeOK`) and `CreatorsSit`
  (`CreatorsAreSeated`).

`HistoryProofs`, for any members, guests, groups and number of messages:

- `HistoryHolds`: `Spec => []HistoryInv`. The properties compare the order of posting with the
  order of ids and neither is inductive: what the next message's place will be depends on there
  being no watermark above the last id given (`WatermarksAreOld`), on ids following the posting
  whatever was deleted (`IdsFollowPosting`), and on a group that is not there, or that somebody
  is not in, having nothing new (`OnlyLiveGroupsAreUsed`, `NothingNewOutside`). `NewIsAbove` and
  `CutIsAdmission` are the properties message by message. The latter needs that a guest who is
  admitted sits already only in `early` groups, and without a cut (`SeatsBeforeAdmission`): in
  all the others the admission sets the cut, or the group is made later and is empty.
- From it: `UnreadIsNew` (`UnreadIsWhatIsNew`) and `AdmissionIsTheCut`
  (`GuestsSeeFromAdmission`). That `MAX(id)` is at or above every id (`MaxIdIsHighest`) needs a
  least element below the bound, which the library's `WFMin` gives.

### Over the limiters and the caches

`MediaProofs`, of `Previews`, for any accounts, requests, pages, images, limits and sizes. The
inductive invariant `PreviewsInv` has three parts:

- `PreviewsTypeOK`.
- `LimitersOK`: each limiter's count is the number of requests that hold a slot of it; its queue
  has exactly those who wait for it, each once; and *somebody waits only where every slot is
  taken*. Without the last the end of a task, which hands its slot to the first in the queue and
  leaves the count as it is, could not be shown to count right, nor could a limiter that leaves
  `userLimits` be known to have nobody waiting. A task's end wakes in two limiters at once: the
  one that gets the global slot may be of any account (`ReleaseCases`, `ReleaseStages`).
- `CachesOK`: no key is in a map twice, and the bytes counted are at least the sizes of the
  entries and at most the limit. The bytes of an entry that expired or was fetched twice stay
  counted, so it is "at least"; eviction takes out the first entry and what it holds, and stops
  at the limit (`EvictedFacts`).

From it `SlotsHold` (`SlotsAreCounted`) and `BytesHold` (`BytesCoverTheCache`); `RefusalsHold`
(`RefusalsAreNotCached`) is the action property, of which one shows that no step but the end of
a fetch puts anything new into the cache of previews.

What the entries of a map add up to is a recursive function. Its defining equations are
taken to the natural number at which a claim about them would first fail, with `WFMin` and
`NatLessThanWellFounded`; the library's induction theorem has an operator as a parameter, which
the provers cannot instantiate.

### Only model-checked

- Liveness, which needs fairness and ENABLED: `AloneCallsEnd`, `DeadClientsLeave`,
  `LoneWatchersLeave`, `HostlessSessionsEnd`, `PresenceEnds`, `EveryRequestIsAnswered`.
- What the three violation runs refute is shown by their counterexamples.

## 5. Plan

1. An abstract specification of presence, refined as `CallPromise` is by `Calls`: who is shown
   in a room, with no sockets.
2. Action properties over the tables that no invariant or promise implies: what a step may never
   do to a session row, to a spent token, to a file in use.
3. Playback position, if the server ever decides by it.

## 6. What is not modelled

- `server.ts`, logging, ICE credentials, security headers, static files, request schemas, text
  normalisation, content types: pure or I/O, with no state that changes.
- Of `safe-fetch.ts` which addresses and redirects are refused, and of `link-preview.ts` the
  parsing of pages: pure; a fetch that they stop is `FetchFails`.
- Playback position and rate of a session (`watch_control`, `livePosition`): a value that
  clients overwrite and that no decision of the server reads.
- Colours, registration as a race for a colour, who can see whom, profile fan-outs.
- The gateway's limits per address, which are a library's; its page switch beyond the
  precondition of a join.
- Of `schema.ts` the steps that run once on an old database.
- Message rate limiting as such: its effect (a socket is closed) is `CloseStarts`.
- Frame contents, wording of system lines and transcripts: no property is about them.
- Direct-message rooms in `Calls`, `Watch` and `Presence`: their membership never changes, which
  is a behaviour of the model in which nothing is added, removed or deleted.
