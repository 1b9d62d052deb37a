----------------------------- MODULE WatchProofs -----------------------------
(***************************************************************************)
(* Proofs about Watch, for any users, sockets, rooms, admins and cap.      *)
(*                                                                         *)
(* That every host and participant is a member with a connection left to   *)
(* end the session is not inductive: it needs, as calls do (CallsProofs),  *)
(* that a registered socket always has a cleaning close event to come.     *)
(*                                                                         *)
(* The last section shows that Watch implements WatchPromise: one abstract *)
(* step, or none, for each action of Next.                                 *)
(***************************************************************************)
EXTENDS WatchRefinement, TLAPS, FiniteSetTheorems

WatchTypeOK ==
    /\ host \in [Rooms -> Users \cup {NoUser}]
    /\ watchers \in [Rooms -> SUBSET Users]
    /\ timer \in [Rooms -> Users \cup {NoUser}]
    /\ due \subseteq Rooms

\* A registered socket will clean up when it closes.
RegisteredCleanUp == \A s \in entry : Cleans(conn[s])

\* u takes part in the session of r, or hosts it.
In(u, r) == u \in watchers[r] \/ u = host[r]

InAreMembers == \A r \in Rooms, u \in Users : In(u, r) => u \in members[r]

InAreConnected ==
    \A r \in Rooms, u \in Users :
        In(u, r) => \E s \in SocketsOf(u) : Cleans(conn[s])

HostlessAreEmpty == \A r \in Rooms : host[r] = NoUser => watchers[r] = {}

IInv ==
    /\ ConnectionsTypeOK
    /\ WatchTypeOK
    /\ RegisteredCleanUp
    /\ InAreMembers
    /\ InAreConnected
    /\ HostlessAreEmpty

-----------------------------------------------------------------------------
(* Facts about the helpers.                                                *)

\* Pruning only takes sockets away.
LEMMA PruneShrinks ==
    ASSUME NEW C, NEW E \in SUBSET Sockets, NEW U
    PROVE  Prune(C, E, U) \subseteq E
BY DEF Prune

\* The timer is armed for one of those who take part, or for nobody.
LEMMA LoneWatcherType ==
    ASSUME NEW S \in SUBSET Users
    PROVE  LoneWatcher(S) \in Users \cup {NoUser}
<1>1. CASE \E u \in S : S = {u}
  <2>1. PICK u \in S : S = {u}
    BY <1>1
  <2>2. LoneWatcher(S) = u
    BY <2>1 DEF LoneWatcher
  <2>3. QED
    BY <2>1, <2>2
<1>2. CASE ~ \E u \in S : S = {u}
  BY <1>2 DEF LoneWatcher
<1>3. QED
  BY <1>1, <1>2

\* Ending some sessions and taking a user out of others lets nobody in, keeps
\* the hosts of those that go on, and leaves no participants without a host.
LEMMA DropShrinks ==
    ASSUME IInv, NEW u, NEW ended, NEW left, DropFrom(u, ended, left)
    PROVE  /\ WatchTypeOK'
           /\ HostlessAreEmpty'
           /\ \A r \in Rooms :
                /\ r \in ended => host'[r] = NoUser /\ watchers'[r] = {}
                /\ r \notin ended => host'[r] = host[r]
                /\ r \notin ended /\ r \in left => watchers'[r] = watchers[r] \ {u}
                /\ r \notin ended /\ r \notin left => watchers'[r] = watchers[r]
           /\ \A r \in Rooms, v \in Users : In(v, r)' => In(v, r)
<1>1. /\ host' = [r \in Rooms |-> IF r \in ended THEN NoUser ELSE host[r]]
      /\ watchers' = [r \in Rooms |->
              IF r \in ended THEN {}
              ELSE watchers[r] \ IF r \in left THEN {u} ELSE {}]
      /\ timer' = [r \in Rooms |->
              IF r \in ended THEN NoUser
              ELSE IF r \in left THEN LoneWatcher(watchers[r] \ {u})
              ELSE timer[r]]
      /\ due' = due \ (ended \cup left)
  BY DEF DropFrom
<1>2. ASSUME NEW r \in Rooms
      PROVE  /\ r \in ended => host'[r] = NoUser /\ watchers'[r] = {}
             /\ r \notin ended => host'[r] = host[r]
             /\ r \notin ended /\ r \in left => watchers'[r] = watchers[r] \ {u}
             /\ r \notin ended /\ r \notin left => watchers'[r] = watchers[r]
  BY <1>1
<1>3. WatchTypeOK'
  <2>1. host' \in [Rooms -> Users \cup {NoUser}] /\ due' \subseteq Rooms
    BY <1>1 DEF IInv, WatchTypeOK
  <2>2. \A r \in Rooms : watchers[r] \ {u} \in SUBSET Users
    BY DEF IInv, WatchTypeOK
  <2>3. watchers' \in [Rooms -> SUBSET Users]
    <3>1. \A r \in Rooms : watchers'[r] \in SUBSET Users
      BY <1>2 DEF IInv, WatchTypeOK
    <3>2. QED
      BY <1>1, <3>1
  <2>4. \A r \in Rooms : LoneWatcher(watchers[r] \ {u}) \in Users \cup {NoUser}
    BY <2>2, LoneWatcherType
  <2>5. timer' \in [Rooms -> Users \cup {NoUser}]
    BY <1>1, <2>4 DEF IInv, WatchTypeOK
  <2>6. QED
    BY <2>1, <2>3, <2>5 DEF WatchTypeOK
<1>4. HostlessAreEmpty'
  BY <1>2 DEF IInv, HostlessAreEmpty
<1>5. \A r \in Rooms, v \in Users : In(v, r)' => In(v, r)
  BY <1>2, NoUserAssumption DEF In
<1>6. QED
  BY <1>2, <1>3, <1>4, <1>5

\* After leaving the sessions of some rooms u is in none of them.
LEMMA LeavingGetsOut ==
    ASSUME IInv, NEW u \in Users, NEW R, LeaveWatches(u, R)
    PROVE  \A r \in Rooms \cap R : ~ In(u, r)'
<1> DEFINE ended == HostedBy(u, R)
           left == WatchedBy(u, R) \ HostedBy(u, R)
<1>1. DropFrom(u, ended, left)
  BY DEF LeaveWatches
<1>2. ASSUME NEW r \in Rooms \cap R PROVE ~ In(u, r)'
  <2>1. CASE host[r] = u
    BY <1>1, <2>1, <1>2, DropShrinks, NoUserAssumption DEF HostedBy, In
  <2>2. CASE host[r] # u /\ u \in watchers[r]
    <3>1. r \notin ended /\ r \in left
      BY <2>2, <1>2 DEF HostedBy, WatchedBy
    <3>2. host'[r] = host[r] /\ watchers'[r] = watchers[r] \ {u}
      BY <1>1, <3>1, <1>2, DropShrinks
    <3>3. QED
      BY <2>2, <3>2 DEF In
  <2>3. CASE host[r] # u /\ u \notin watchers[r]
    <3>1. In(u, r)' => In(u, r)
      BY <1>1, <1>2, DropShrinks
    <3>2. QED
      BY <2>3, <3>1 DEF In
  <2>4. QED
    BY <2>1, <2>2, <2>3
<1>3. QED
  BY <1>2

\* A step that lets nobody into a session, loses no socket that will clean up,
\* and takes no row from anybody still in a session.
LEMMA ShrinkKeepsIInv ==
    ASSUME IInv, ConnectionsTypeOK', WatchTypeOK', HostlessAreEmpty', RegisteredCleanUp',
           \A s \in Sockets : Cleans(conn[s]) => Cleans(conn'[s]),
           \A r \in Rooms, u \in Users : In(u, r)' => In(u, r),
           \A r \in Rooms, u \in Users : In(u, r)' /\ u \in members[r] => u \in members'[r]
    PROVE  IInv'
<1>1. InAreMembers'
  BY DEF IInv, InAreMembers
<1>2. InAreConnected'
  <2>1. ASSUME NEW r \in Rooms, NEW u \in Users, In(u, r)'
        PROVE  \E s \in SocketsOf(u) : Cleans(conn'[s])
    <3>1. PICK s \in SocketsOf(u) : Cleans(conn[s])
      BY <2>1 DEF IInv, InAreConnected
    <3>2. s \in Sockets
      BY <3>1 DEF SocketsOf
    <3>3. QED
      BY <3>1, <3>2
  <2>2. QED
    BY <2>1 DEF InAreConnected, SocketsOf
<1>3. QED
  BY <1>1, <1>2 DEF IInv

\* Steps that change no session.
LEMMA QuietStepKeepsIInv ==
    ASSUME IInv, UNCHANGED watchVars, ConnectionsTypeOK', RegisteredCleanUp',
           \A s \in Sockets : Cleans(conn[s]) => Cleans(conn'[s]),
           \A r \in Rooms : members[r] \subseteq members'[r]
    PROVE  IInv'
<1>1. WatchTypeOK' /\ HostlessAreEmpty'
  BY DEF IInv, watchVars, WatchTypeOK, HostlessAreEmpty
<1>2. \A r \in Rooms, u \in Users : In(u, r)' => In(u, r)
  BY DEF In, watchVars
<1>3. QED
  BY <1>1, <1>2, ShrinkKeepsIInv

\* Leaving or ending sessions, with the sockets as they were and the registry
\* trimmed; whoever loses a row is in no session of that room afterwards.
LEMMA DropKeepsIInv ==
    ASSUME IInv, NEW u, NEW ended, NEW left, DropFrom(u, ended, left),
           UNCHANGED conn, entry' \subseteq entry,
           members' \in [Rooms -> SUBSET Users],
           \A r \in Rooms, v \in Users : v \in members[r] /\ v \notin members'[r] => ~ In(v, r)'
    PROVE  IInv'
<1>1. ConnectionsTypeOK' /\ RegisteredCleanUp'
  BY DEF IInv, ConnectionsTypeOK, RegisteredCleanUp
<1>2. /\ WatchTypeOK' /\ HostlessAreEmpty'
      /\ \A r \in Rooms, v \in Users : In(v, r)' => In(v, r)
  BY DropShrinks
<1>3. QED
  BY <1>1, <1>2, ShrinkKeepsIInv

\* A socket that is detached, whatever becomes of it, leaves nobody behind.
LEMMA DetachKeepsIInv ==
    ASSUME IInv, NEW s \in Sockets, NEW c \in ConnState,
           conn' = [conn EXCEPT ![s] = c], Detach(s), UNCHANGED members
    PROVE  IInv'
<1> DEFINE u == Owner[s]
<1> USE OwnerAssumption
<1>1. \A t \in Sockets \ {s} : conn'[t] = conn[t]
  BY DEF IInv, ConnectionsTypeOK
<1>2. entry' \subseteq entry \ {s}
  BY PruneShrinks DEF Detach, IInv, ConnectionsTypeOK
<1>3. ConnectionsTypeOK' /\ RegisteredCleanUp'
  BY <1>1, <1>2 DEF IInv, ConnectionsTypeOK, RegisteredCleanUp
<1>4. \A r \in Rooms, v \in Users \ {u} : In(v, r)
        => \E t \in SocketsOf(v) : Cleans(conn'[t])
  BY <1>1 DEF IInv, InAreConnected, SocketsOf
<1>5. CASE LastOf(s) = {}
  <2>1. UNCHANGED watchVars
    BY <1>5 DEF Detach
  <2>2. PICK t \in entry \ {s} : Owner[t] = u
    BY <1>5 DEF LastOf, Online
  <2>3. t \in SocketsOf(u) /\ Cleans(conn'[t])
    BY <1>1, <2>2 DEF IInv, ConnectionsTypeOK, RegisteredCleanUp, SocketsOf
  <2>4. InAreConnected'
    BY <1>4, <2>1, <2>3 DEF InAreConnected, In, SocketsOf, watchVars
  <2>5. WatchTypeOK' /\ HostlessAreEmpty' /\ InAreMembers'
    BY <2>1 DEF watchVars, IInv, WatchTypeOK, HostlessAreEmpty, InAreMembers, In
  <2>6. QED
    BY <1>3, <2>4, <2>5 DEF IInv
<1>6. CASE LastOf(s) # {}
  <2>1. LeaveWatches(u, Rooms) /\ u \in Users
    BY <1>6 DEF Detach
  <2>2. \A r \in Rooms : ~ In(u, r)'
    BY <2>1, LeavingGetsOut
  <2>3. /\ WatchTypeOK' /\ HostlessAreEmpty'
        /\ \A r \in Rooms, v \in Users : In(v, r)' => In(v, r)
    BY <2>1, DropShrinks DEF LeaveWatches
  <2>4. InAreMembers'
    BY <2>3 DEF IInv, InAreMembers
  <2>5. InAreConnected'
    BY <1>4, <2>2, <2>3 DEF InAreConnected, SocketsOf
  <2>6. QED
    BY <1>3, <2>3, <2>4, <2>5 DEF IInv
<1>7. QED
  BY <1>5, <1>6

-----------------------------------------------------------------------------
(* The steps.                                                              *)

LEMMA InitIInv == Init => IInv
<1> SUFFICES ASSUME Init PROVE IInv
  OBVIOUS
<1>1. ConnectionsTypeOK /\ RegisteredCleanUp
  BY DEF Init, ConnectionsInit, ConnectionsTypeOK, ConnState, RegisteredCleanUp
<1>2. WatchTypeOK /\ HostlessAreEmpty
  BY DEF Init, NoSessions, WatchTypeOK, HostlessAreEmpty
<1>3. \A r \in Rooms, u \in Users : ~ In(u, r)
  BY NoUserAssumption DEF Init, NoSessions, In
<1>4. QED
  BY <1>1, <1>2, <1>3 DEF IInv, InAreMembers, InAreConnected

LEMMA ConnectionStepKeepsIInv == IInv /\ ConnectionStep => IInv'
<1> SUFFICES ASSUME IInv, ConnectionStep PROVE IInv'
  OBVIOUS
<1> USE DEF ConnState
<1>1. ASSUME NEW s \in Sockets, Connect(s) PROVE IInv'
  BY <1>1, QuietStepKeepsIInv
     DEF Connect, Attach, IInv, ConnectionsTypeOK, RegisteredCleanUp, Cleans, SocketsOf
<1>2. ASSUME NEW s \in Sockets, PeerLost(s) PROVE IInv'
  BY <1>2, QuietStepKeepsIInv
     DEF PeerLost, LosePeer, IInv, ConnectionsTypeOK, RegisteredCleanUp, Cleans
<1>3. ASSUME NEW s \in Sockets, CloseStarts(s) PROVE IInv'
  BY <1>3, QuietStepKeepsIInv
     DEF CloseStarts, StartClose, Sendable, IInv, ConnectionsTypeOK, RegisteredCleanUp, Cleans
<1>4. ASSUME NEW s \in Sockets, ErrorEvent(s) PROVE IInv'
  BY <1>4, DetachKeepsIInv DEF ErrorEvent, SocketFails
<1>5. ASSUME NEW s \in Sockets, CloseEvent(s) PROVE IInv'
  <2>1. CASE SocketCloses(s) /\ Detach(s) /\ UNCHANGED members
    BY <2>1, DetachKeepsIInv DEF SocketCloses
  <2>2. CASE SocketClosesAfterError(s) /\ UNCHANGED <<members, watchVars>>
    BY <2>2, QuietStepKeepsIInv
       DEF SocketClosesAfterError, IInv, ConnectionsTypeOK, RegisteredCleanUp, Cleans
  <2>3. QED
    BY <1>5, <2>1, <2>2 DEF CloseEvent
<1>6. ASSUME NEW s \in Sockets, PingTimeout(s) PROVE IInv'
  BY <1>6, DetachKeepsIInv DEF PingTimeout, PingExpires
<1>7. ASSUME NEW u \in Users, SendToUser(u) PROVE IInv'
  <2>1. entry' \subseteq entry
    BY <1>7, PruneShrinks DEF SendToUser, IInv, ConnectionsTypeOK
  <2>2. QED
    BY <1>7, <2>1, QuietStepKeepsIInv
       DEF SendToUser, IInv, ConnectionsTypeOK, RegisteredCleanUp
<1>8. ASSUME Restart PROVE IInv'
  <2>1. ConnectionsTypeOK' /\ RegisteredCleanUp'
    BY <1>8 DEF Restart, ProcessRestarts, IInv, ConnectionsTypeOK, RegisteredCleanUp
  <2>2. WatchTypeOK' /\ HostlessAreEmpty'
    BY <1>8 DEF Restart, WatchTypeOK, HostlessAreEmpty
  <2>3. \A r \in Rooms, u \in Users : ~ In(u, r)'
    BY <1>8, NoUserAssumption DEF Restart, In
  <2>4. QED
    BY <2>1, <2>2, <2>3 DEF IInv, InAreMembers, InAreConnected
<1>9. QED
  BY <1>1, <1>2, <1>3, <1>4, <1>5, <1>6, <1>7, <1>8 DEF ConnectionStep

\* A user who is a member and whose frame is heard comes into one session.
LEMMA EnterKeepsIInv ==
    ASSUME IInv, NEW s \in Sockets, NEW r \in Rooms, Heard(s), Owner[s] \in members[r],
           UNCHANGED <<conn, members>>, entry' \subseteq entry,
           WatchTypeOK', host'[r] # NoUser,
           \A q \in Rooms \ {r} : host'[q] = host[q] /\ watchers'[q] = watchers[q],
           \A v \in Users \ {Owner[s]} : In(v, r)' => In(v, r)
    PROVE  IInv'
<1> USE OwnerAssumption
<1>1. \A q \in Rooms, v \in Users : In(v, q)' => In(v, q) \/ (q = r /\ v = Owner[s])
  BY DEF In
<1>2. InAreMembers'
  BY <1>1 DEF IInv, InAreMembers
<1>3. \E t \in SocketsOf(Owner[s]) : Cleans(conn[t])
  BY DEF Heard, SocketsOf, Cleans
<1>4. InAreConnected'
  BY <1>1, <1>3 DEF IInv, InAreConnected, SocketsOf
<1>5. HostlessAreEmpty'
  BY DEF IInv, HostlessAreEmpty
<1>6. ConnectionsTypeOK' /\ RegisteredCleanUp'
  BY DEF IInv, ConnectionsTypeOK, RegisteredCleanUp
<1>7. QED
  BY <1>2, <1>4, <1>5, <1>6 DEF IInv

LEMMA FrameStepKeepsIInv == IInv /\ FrameStep => IInv'
<1> SUFFICES ASSUME IInv, NEW s \in Sockets, NEW r \in Rooms,
                    \/ WatchStart(s, r) \/ WatchJoin(s, r)
                    \/ WatchLeave(s, r) \/ WatchEnd(s, r)
             PROVE  IInv'
  BY DEF FrameStep
<1> DEFINE u == Owner[s]
<1> USE OwnerAssumption
<1>1. CASE WatchStart(s, r)
  <2>1. LoneWatcher({u}) \in Users \cup {NoUser}
    BY LoneWatcherType
  <2>2. /\ WatchTypeOK' /\ host'[r] = u /\ watchers'[r] = {u}
        /\ \A q \in Rooms \ {r} : host'[q] = host[q] /\ watchers'[q] = watchers[q]
    BY <1>1, <2>1 DEF WatchStart, IInv, WatchTypeOK
  <2>3. /\ Heard(s) /\ u \in members[r] /\ UNCHANGED <<conn, members>>
        /\ entry' \subseteq entry
    BY <1>1, PruneShrinks DEF WatchStart, IInv, ConnectionsTypeOK
  <2>4. /\ host'[r] # NoUser
        /\ \A v \in Users \ {u} : ~ In(v, r)'
    BY <2>2, NoUserAssumption DEF In
  <2>5. QED
    BY <2>2, <2>3, <2>4, EnterKeepsIInv
<1>2. CASE WatchJoin(s, r)
  <2>1. watchers'[r] = watchers[r] \cup {u} /\ watchers'[r] \in SUBSET Users
    BY <1>2 DEF WatchJoin, IInv, WatchTypeOK
  <2>2. LoneWatcher(watchers'[r]) \in Users \cup {NoUser}
    BY <2>1, LoneWatcherType
  <2>3. /\ WatchTypeOK' /\ host' = host /\ host'[r] # NoUser
        /\ \A q \in Rooms \ {r} : watchers'[q] = watchers[q]
    BY <1>2, <2>2 DEF WatchJoin, IInv, WatchTypeOK
  <2>4. /\ Heard(s) /\ u \in members[r] /\ UNCHANGED <<conn, members>>
        /\ entry' \subseteq entry
    BY <1>2, PruneShrinks DEF WatchJoin, MayWatch, IInv, ConnectionsTypeOK
  <2>5. \A v \in Users \ {u} : In(v, r)' => In(v, r)
    BY <2>1, <2>3 DEF In
  <2>6. QED
    BY <2>3, <2>4, <2>5, EnterKeepsIInv
<1>3. CASE WatchLeave(s, r)
  BY <1>3, DropKeepsIInv, PruneShrinks DEF WatchLeave, IInv, ConnectionsTypeOK
<1>4. CASE WatchEnd(s, r)
  BY <1>4, DropKeepsIInv, PruneShrinks DEF WatchEnd, IInv, ConnectionsTypeOK
<1>5. QED
  BY <1>1, <1>2, <1>3, <1>4

LEMMA MembershipStepKeepsIInv == IInv /\ MembershipStep => IInv'
<1> SUFFICES ASSUME IInv, MembershipStep PROVE IInv'
  OBVIOUS
<1>1. ASSUME NEW r \in Rooms, NEW u \in Users, AddMember(r, u) PROVE IInv'
  <2>1. entry' \subseteq entry
    BY <1>1, PruneShrinks DEF AddMember, IInv, ConnectionsTypeOK
  <2>2. /\ ConnectionsTypeOK' /\ RegisteredCleanUp'
        /\ \A q \in Rooms : members[q] \subseteq members'[q]
    BY <1>1, <2>1 DEF AddMember, IInv, ConnectionsTypeOK, RegisteredCleanUp
  <2>3. QED
    BY <1>1, <2>2, QuietStepKeepsIInv DEF AddMember
<1>2. ASSUME NEW r \in Rooms, NEW u \in Users, NEW kicked \in BOOLEAN,
             RemoveMember(r, u, kicked)
      PROVE  IInv'
  <2>1. /\ members' = [members EXCEPT ![r] = @ \ {u}] /\ LeaveWatches(u, {r})
        /\ UNCHANGED conn /\ entry' \subseteq entry
    BY <1>2, PruneShrinks DEF RemoveMember, IInv, ConnectionsTypeOK
  <2>2. ~ In(u, r)'
    BY <2>1, LeavingGetsOut
  <2>3. /\ members' \in [Rooms -> SUBSET Users]
        /\ \A q \in Rooms, v \in Users :
              v \in members[q] /\ v \notin members'[q] => ~ In(v, q)'
    BY <2>1, <2>2 DEF IInv, ConnectionsTypeOK
  <2>4. QED
    BY <2>1, <2>3, DropKeepsIInv DEF LeaveWatches
<1>3. ASSUME NEW r \in Rooms, DeleteRoom(r) PROVE IInv'
  <2>1. /\ members' = [members EXCEPT ![r] = {}] /\ UNCHANGED conn
        /\ entry' \subseteq entry /\ members' \in [Rooms -> SUBSET Users]
    BY <1>3, PruneShrinks DEF DeleteRoom, IInv, ConnectionsTypeOK
  <2>2. CASE host[r] = NoUser
    <3>1. UNCHANGED watchVars
      BY <1>3, <2>2 DEF DeleteRoom
    <3>2. /\ \A q \in Rooms, v \in Users : In(v, q)' => In(v, q)
          /\ \A v \in Users : ~ In(v, r)
      BY <2>2, <3>1, NoUserAssumption DEF In, watchVars, IInv, HostlessAreEmpty
    <3>3. WatchTypeOK' /\ HostlessAreEmpty'
      BY <3>1 DEF IInv, watchVars, WatchTypeOK, HostlessAreEmpty
    <3>4. ConnectionsTypeOK' /\ RegisteredCleanUp'
      BY <2>1 DEF IInv, ConnectionsTypeOK, RegisteredCleanUp
    <3>5. \A q \in Rooms \ {r} : members'[q] = members[q]
      BY <2>1 DEF IInv, ConnectionsTypeOK
    <3>6. QED
      BY <2>1, <3>2, <3>3, <3>4, <3>5, ShrinkKeepsIInv
  <2>3. CASE host[r] # NoUser
    <3>1. DropFrom(NoUser, {r}, {})
      BY <1>3, <2>3 DEF DeleteRoom
    <3>2. \A v \in Users : ~ In(v, r)'
      BY <3>1, DropShrinks, NoUserAssumption DEF In
    <3>3. \A q \in Rooms, v \in Users :
              v \in members[q] /\ v \notin members'[q] => ~ In(v, q)'
      BY <2>1, <3>2 DEF IInv, ConnectionsTypeOK
    <3>4. QED
      BY <2>1, <3>1, <3>3, DropKeepsIInv
  <2>4. QED
    BY <2>2, <2>3
<1>4. QED
  BY <1>1, <1>2, <1>3 DEF MembershipStep

LEMMA TimerStepKeepsIInv == IInv /\ TimerStep => IInv'
<1> SUFFICES ASSUME IInv, NEW r \in Rooms, AloneTimePasses(r) \/ AloneTimeout(r)
             PROVE  IInv'
  BY DEF TimerStep
<1>1. CASE AloneTimePasses(r)
  BY <1>1, ShrinkKeepsIInv
     DEF AloneTimePasses, connectionVars, IInv, ConnectionsTypeOK, WatchTypeOK,
         RegisteredCleanUp, HostlessAreEmpty, In
<1>2. CASE AloneTimeout(r) /\ watchers[r] = {timer[r]}
  BY <1>2, DropKeepsIInv, PruneShrinks DEF AloneTimeout, IInv, ConnectionsTypeOK
<1>3. CASE AloneTimeout(r) /\ watchers[r] # {timer[r]}
  BY <1>3, ShrinkKeepsIInv
     DEF AloneTimeout, IInv, ConnectionsTypeOK, WatchTypeOK, RegisteredCleanUp,
         HostlessAreEmpty, In
<1>4. QED
  BY <1>1, <1>2, <1>3

-----------------------------------------------------------------------------
(* Theorems.                                                               *)

LEMMA NextKeepsIInv == IInv /\ [Next]_vars => IInv'
<1> SUFFICES ASSUME IInv, [Next]_vars PROVE IInv'
  OBVIOUS
<1>1. CASE Next
  BY <1>1, ConnectionStepKeepsIInv, FrameStepKeepsIInv, MembershipStepKeepsIInv,
     TimerStepKeepsIInv DEF Next
<1>2. CASE UNCHANGED vars
  BY <1>2, QuietStepKeepsIInv
     DEF vars, connectionVars, watchVars, IInv, ConnectionsTypeOK, RegisteredCleanUp
<1>3. QED
  BY <1>1, <1>2

\* The strengthening holds in every reachable state.
THEOREM Invariance == Spec => []IInv
BY InitIInv, NextKeepsIInv, PTL DEF Spec

\* A session's host and participants are members of its room with a connection
\* that will clean up after them, and a room with no session has no participants.
THEOREM WatchersPresent == Spec => []WatchersArePresent
<1>1. IInv => WatchersArePresent
  BY DEF IInv, WatchersArePresent, TypeOK, WatchTypeOK, InAreMembers, InAreConnected,
         In, HostlessAreEmpty
<1>2. QED
  BY <1>1, Invariance, PTL

\* A detached socket ends no session whose host has another socket left.
LEMMA DetachSparesOtherHosts ==
    ASSUME IInv, NEW s \in Sockets, Detach(s), NEW r \in Rooms, host'[r] # host[r]
    PROVE  host[r] \notin Online(entry')
<1> DEFINE u == Owner[s]
<1>1. LastOf(s) # {}
  BY DEF Detach, watchVars
<1>2. LeaveWatches(u, Rooms) /\ entry' \subseteq entry \ {s}
  BY <1>1, PruneShrinks DEF Detach, IInv, ConnectionsTypeOK
<1>3. host[r] = u
  BY <1>2, DropShrinks DEF LeaveWatches, HostedBy
<1>4. u \notin Online(entry \ {s})
  BY <1>1 DEF LastOf
<1>5. QED
  BY <1>2, <1>3, <1>4 DEF Online

\* A session of two or more whose host is a member of the room and connected
\* ends only by its host or an admin, never by a departure, a disconnection or
\* a timer.
THEOREM OnlyHostOrAdminEnds == Spec => OthersDoNotEndIt
<1>1. ASSUME IInv, [Next]_vars, NEW r \in Rooms, Cardinality(watchers[r]) > 1,
             host'[r] # host[r], ~ Restart, host[r] \in members'[r],
             host[r] \in Online(entry')
      PROVE  \E s \in Sockets : Owner[s] \in Admins \cup {host[r]} /\ WatchEnd(s, r)
  <2> DEFINE Ended == \E s \in Sockets :
                          Owner[s] \in Admins \cup {host[r]} /\ WatchEnd(s, r)
  <2>1. watchers[r] # {} /\ \A u : watchers[r] # {u}
    BY <1>1, FS_EmptySet, FS_Singleton
  <2>2. host[r] # NoUser
    BY <1>1, <2>1 DEF IInv, HostlessAreEmpty
  <2>3. ~ UNCHANGED watchVars
    BY <1>1 DEF watchVars
  <2>4. \A s \in Sockets : ~ Detach(s)
    BY <1>1, DetachSparesOtherHosts
  <2>5. ~ ConnectionStep
    BY <1>1, <2>3, <2>4 DEF ConnectionStep, Connect, PeerLost, CloseStarts, ErrorEvent,
       CloseEvent, PingTimeout, SendToUser
  <2>6. ASSUME NEW s \in Sockets, NEW q \in Rooms,
               \/ WatchStart(s, q) \/ WatchJoin(s, q)
               \/ WatchLeave(s, q) \/ WatchEnd(s, q)
        PROVE  Ended
    <3>1. CASE WatchStart(s, q)
      BY <1>1, <2>2, <3>1 DEF WatchStart, NothingOn, IInv, WatchTypeOK
    <3>2. CASE WatchJoin(s, q)
      BY <1>1, <3>2 DEF WatchJoin
    <3>3. CASE WatchLeave(s, q)
      BY <1>1, <3>3, DropShrinks DEF WatchLeave
    <3>4. CASE WatchEnd(s, q)
      <4>1. q = r
        BY <1>1, <3>4, DropShrinks DEF WatchEnd
      <4>2. Owner[s] \in Admins \cup {host[r]}
        BY <3>4, <4>1 DEF WatchEnd, MayEnd
      <4>3. QED
        BY <3>4, <4>1, <4>2
    <3>5. QED
      BY <2>6, <3>1, <3>2, <3>3, <3>4
  <2>7. ASSUME NEW q \in Rooms, NEW u \in Users, NEW kicked \in BOOLEAN,
               RemoveMember(q, u, kicked)
        PROVE  FALSE
    <3>1. /\ members' = [members EXCEPT ![q] = @ \ {u}]
          /\ DropFrom(u, HostedBy(u, {q}), WatchedBy(u, {q}) \ HostedBy(u, {q}))
      BY <2>7 DEF RemoveMember, LeaveWatches
    <3>2. r \in HostedBy(u, {q})
      BY <1>1, <3>1, DropShrinks
    <3>3. r = q /\ host[r] = u
      BY <3>2 DEF HostedBy
    <3>4. QED
      BY <1>1, <3>1, <3>3 DEF IInv, ConnectionsTypeOK
  <2>8. ASSUME NEW q \in Rooms, DeleteRoom(q) PROVE FALSE
    <3>1. members' = [members EXCEPT ![q] = {}]
      BY <2>8 DEF DeleteRoom
    <3>2. DropFrom(NoUser, {q}, {})
      BY <2>3, <2>8 DEF DeleteRoom
    <3>3. r = q
      BY <1>1, <3>2, DropShrinks
    <3>4. QED
      BY <1>1, <3>1, <3>3 DEF IInv, ConnectionsTypeOK
  <2>9. ~ MembershipStep
    BY <2>3, <2>7, <2>8 DEF MembershipStep, AddMember
  <2>10. ~ TimerStep
    <3>1. ASSUME NEW q \in Rooms, AloneTimeout(q), watchers[q] = {timer[q]} PROVE FALSE
      <4>1. DropFrom(timer[q], {q}, {})
        BY <3>1 DEF AloneTimeout
      <4>2. q = r
        BY <1>1, <4>1, DropShrinks
      <4>3. QED
        BY <2>1, <3>1, <4>2
    <3>2. QED
      BY <1>1, <3>1 DEF TimerStep, AloneTimePasses, AloneTimeout
  <2>11. Next
    BY <1>1, <2>3 DEF vars
  <2>12. QED
    BY <2>5, <2>6, <2>9, <2>10, <2>11 DEF Next, FrameStep
<1>2. IInv /\ [Next]_vars =>
        [ \A r \in Rooms :
            /\ Cardinality(watchers[r]) > 1
            /\ host'[r] # host[r]
            => \/ Restart
               \/ host[r] \notin members'[r]
               \/ host[r] \notin Online(entry')
               \/ \E s \in Sockets :
                      Owner[s] \in Admins \cup {host[r]} /\ WatchEnd(s, r) ]_vars
  BY <1>1
<1>3. QED
  BY <1>2, Invariance, PTL DEF Spec, OthersDoNotEndIt

-----------------------------------------------------------------------------
(* The session manager implements WatchPromise.                            *)

\* A trimmed registry has nobody new in it.
LEMMA TrimmedOnline ==
    ASSUME entry' \subseteq entry
    PROVE  Promise!SomeGoOffline
  BY DEF Promise!SomeGoOffline, Online

LEMMA WatchQuietIsStutter ==
    ASSUME UNCHANGED <<entry, members, host, watchers>>
    PROVE  UNCHANGED Promise!vars
  BY DEF Promise!vars, Online

\* A session that is ended, by a frame or by the timer.
LEMMA EndedIsOver ==
    ASSUME IInv, NEW r \in Rooms, NEW u, DropFrom(u, {r}, {}), host[r] # NoUser,
           entry' \subseteq entry, members' = members
    PROVE  Promise!Over(r)
<1>1. /\ host' = [q \in Rooms |-> IF q \in {r} THEN NoUser ELSE host[q]]
      /\ watchers' = [q \in Rooms |->
            IF q \in {r} THEN {} ELSE watchers[q] \ IF q \in {} THEN {u} ELSE {}]
  BY DEF DropFrom
<1>2. host' = [host EXCEPT ![r] = NoUser] /\ watchers' = [watchers EXCEPT ![r] = {}]
  BY <1>1 DEF IInv, WatchTypeOK
<1>3. QED
  BY <1>2, TrimmedOnline DEF Promise!Over

\* Leaving the sessions of the rooms in R: those u hosts end.
LEMMA LeaveWatchesIs ==
    ASSUME IInv, NEW u \in Users, NEW R \in SUBSET Rooms, LeaveWatches(u, R)
    PROVE  /\ host' = [r \in Rooms |-> IF r \in R /\ host[r] = u THEN NoUser ELSE host[r]]
           /\ watchers' = [r \in Rooms |->
                IF r \in R
                THEN IF host[r] = u THEN {} ELSE watchers[r] \ {u}
                ELSE watchers[r]]
<1>1. /\ host' = [r \in Rooms |-> IF r \in HostedBy(u, R) THEN NoUser ELSE host[r]]
      /\ watchers' = [r \in Rooms |->
            IF r \in HostedBy(u, R) THEN {}
            ELSE watchers[r] \ IF r \in WatchedBy(u, R) \ HostedBy(u, R) THEN {u} ELSE {}]
  BY DEF LeaveWatches, DropFrom
<1>2. ASSUME NEW q \in Rooms
      PROVE  /\ host'[q] = IF q \in R /\ host[q] = u THEN NoUser ELSE host[q]
             /\ watchers'[q] = IF q \in R
                               THEN IF host[q] = u THEN {} ELSE watchers[q] \ {u}
                               ELSE watchers[q]
  <2>1. /\ host'[q] = IF q \in HostedBy(u, R) THEN NoUser ELSE host[q]
        /\ q \in HostedBy(u, R) => watchers'[q] = {}
        /\ q \notin HostedBy(u, R) /\ q \in WatchedBy(u, R) => watchers'[q] = watchers[q] \ {u}
        /\ q \notin HostedBy(u, R) /\ q \notin WatchedBy(u, R) => watchers'[q] = watchers[q]
    BY <1>1
  <2>2. q \in HostedBy(u, R) <=> (q \in R /\ host[q] = u)
    BY DEF HostedBy
  <2>3. q \in WatchedBy(u, R) <=> (q \in R /\ u \in watchers[q])
    BY DEF WatchedBy
  <2>4. u \notin watchers[q] => watchers[q] \ {u} = watchers[q]
    OBVIOUS
  <2>5. QED
    BY <2>1, <2>2, <2>3, <2>4
<1>3. QED
  BY <1>1, <1>2

\* Whoever's last socket is detached is offline, and out.
LEMMA DetachKeepsPromise ==
    ASSUME IInv, NEW s \in Sockets, Detach(s), members' = members
    PROVE  [Promise!Next]_(Promise!vars)
<1> DEFINE u == Owner[s]
<1>0. u \in Users
  BY OwnerAssumption
<1>1. CASE LastOf(s) = {}
  <2>1. entry' = entry \ {s} /\ UNCHANGED watchVars
    BY <1>1 DEF Detach
  <2>2. u \in Online(entry \ {s})
    BY <1>1 DEF LastOf
  <2>3. Online(entry') = Online(entry)
    <3>1. PICK t \in entry \ {s} : Owner[t] = u
      BY <2>2 DEF Online
    <3>2. QED
      BY <2>1, <3>1 DEF Online
  <2>4. UNCHANGED Promise!vars
    BY <2>1, <2>3 DEF Promise!vars, watchVars
  <2>5. QED
    BY <2>4
<1>2. CASE LastOf(s) # {}
  <2>1. LeaveWatches(u, Rooms) /\ entry' \subseteq entry \ {s}
    BY <1>2, PruneShrinks DEF Detach, IInv, ConnectionsTypeOK
  <2>2. u \notin Online(entry')
    BY <1>2, <2>1 DEF LastOf, Online
  <2>3. /\ host' = [r \in Rooms |-> IF host[r] \in {u} THEN NoUser ELSE host[r]]
        /\ watchers' = [r \in Rooms |->
              IF host[r] \in {u} THEN {} ELSE watchers[r] \ {u}]
    BY <1>0, <2>1, LeaveWatchesIs
  <2>4. Promise!SomeGoOffline
    BY <2>1, TrimmedOnline
  <2>5. Promise!Disconnect({u})
    BY <2>2, <2>3, <2>4 DEF Promise!Disconnect
  <2>6. {u} \in SUBSET Users
    BY <1>0
  <2>7. QED
    BY <2>5, <2>6 DEF Promise!Next
<1>3. QED
  BY <1>1, <1>2

LEMMA ConnectionStepKeepsPromise ==
    ASSUME IInv, ConnectionStep
    PROVE  [Promise!Next]_(Promise!vars)
<1>1. ASSUME NEW s \in Sockets, Connect(s) PROVE [Promise!Next]_(Promise!vars)
  <2>1. entry' = entry \cup {s} /\ UNCHANGED <<members, host, watchers>>
    BY <1>1 DEF Connect, Attach, watchVars
  <2>2. Online(entry') = Online(entry) \cup {Owner[s]}
    BY <2>1 DEF Online
  <2>3. Promise!ComeOnline(Owner[s]) /\ Owner[s] \in Users
    BY <2>1, <2>2, OwnerAssumption DEF Promise!ComeOnline
  <2>4. QED
    BY <2>3 DEF Promise!Next
<1>2. ASSUME NEW s \in Sockets,
             \/ PeerLost(s) \/ CloseStarts(s)
             \/ SocketClosesAfterError(s) /\ UNCHANGED <<members, watchVars>>
      PROVE  [Promise!Next]_(Promise!vars)
  BY <1>2, WatchQuietIsStutter
     DEF PeerLost, LosePeer, CloseStarts, StartClose, SocketClosesAfterError, watchVars
<1>3. ASSUME NEW s \in Sockets, ErrorEvent(s) \/ CloseEvent(s) \/ PingTimeout(s)
      PROVE  [Promise!Next]_(Promise!vars)
  BY <1>2, <1>3, DetachKeepsPromise DEF ErrorEvent, CloseEvent, PingTimeout
<1>4. ASSUME NEW u \in Users, SendToUser(u) PROVE [Promise!Next]_(Promise!vars)
  <2>1. entry' \subseteq entry /\ UNCHANGED <<members, host, watchers>>
    BY <1>4, PruneShrinks DEF SendToUser, IInv, ConnectionsTypeOK, watchVars
  <2>2. /\ host' = [r \in Rooms |-> IF host[r] \in {} THEN NoUser ELSE host[r]]
        /\ watchers' = [r \in Rooms |->
              IF host[r] \in {} THEN {} ELSE watchers[r] \ {}]
    BY <2>1 DEF IInv, WatchTypeOK
  <2>3. Promise!Disconnect({})
    BY <2>1, <2>2, TrimmedOnline DEF Promise!Disconnect
  <2>4. QED
    BY <2>3 DEF Promise!Next
<1>5. ASSUME Restart PROVE [Promise!Next]_(Promise!vars)
  <2>1. entry' = {} /\ members' = members
    BY <1>5 DEF Restart, ProcessRestarts
  <2>2. /\ host' = [r \in Rooms |-> IF host[r] \in Users THEN NoUser ELSE host[r]]
        /\ watchers' = [r \in Rooms |->
              IF host[r] \in Users THEN {} ELSE watchers[r] \ Users]
    BY <1>5 DEF Restart, IInv, WatchTypeOK
  <2>3. Promise!SomeGoOffline /\ Users \cap Online(entry') = {}
    BY <2>1, TrimmedOnline DEF Online
  <2>4. Promise!Disconnect(Users)
    BY <2>1, <2>2, <2>3 DEF Promise!Disconnect
  <2>5. QED
    BY <2>4 DEF Promise!Next
<1>6. QED
  BY <1>1, <1>2, <1>3, <1>4, <1>5 DEF ConnectionStep

LEMMA FrameStepKeepsPromise ==
    ASSUME IInv, FrameStep
    PROVE  [Promise!Next]_(Promise!vars)
<1>1. PICK s \in Sockets, r \in Rooms :
        WatchStart(s, r) \/ WatchJoin(s, r) \/ WatchLeave(s, r) \/ WatchEnd(s, r)
  BY DEF FrameStep
<1> DEFINE u == Owner[s]
<1>2. u \in Users /\ entry' \subseteq entry /\ members' = members
  BY <1>1, OwnerAssumption, PruneShrinks
     DEF WatchStart, WatchJoin, WatchLeave, WatchEnd, IInv, ConnectionsTypeOK
<1>3. Promise!SomeGoOffline
  BY <1>2, TrimmedOnline
<1>4. CASE WatchStart(s, r)
  <2>1. Promise!Start(u, r)
    BY <1>2, <1>3, <1>4 DEF WatchStart, NothingOn, Promise!Start
  <2>2. QED
    BY <1>2, <2>1 DEF Promise!Next
<1>5. CASE WatchJoin(s, r)
  <2>1. Promise!Join(u, r)
    BY <1>2, <1>3, <1>5 DEF WatchJoin, MayWatch, Promise!Join
  <2>2. QED
    BY <1>2, <2>1 DEF Promise!Next
<1>6. CASE WatchLeave(s, r)
  <2>1. DropFrom(u, {}, {r}) /\ u \in watchers[r]
    BY <1>6 DEF WatchLeave
  <2>2. /\ host' = [q \in Rooms |-> IF q \in {} THEN NoUser ELSE host[q]]
        /\ watchers' = [q \in Rooms |->
              IF q \in {} THEN {} ELSE watchers[q] \ IF q \in {r} THEN {u} ELSE {}]
    BY <2>1 DEF DropFrom
  <2>3. host' = host /\ watchers' = [watchers EXCEPT ![r] = @ \ {u}]
    BY <2>2 DEF IInv, WatchTypeOK
  <2>4. Promise!Leave(u, r)
    BY <1>2, <1>3, <2>1, <2>3 DEF Promise!Leave
  <2>5. QED
    BY <1>2, <2>4 DEF Promise!Next
<1>7. CASE WatchEnd(s, r)
  <2>1. /\ DropFrom(u, {r}, {}) /\ host[r] # NoUser
        /\ u \in members[r] /\ (host[r] = u \/ u \in Admins)
    BY <1>7 DEF WatchEnd, MayEnd
  <2>2. Promise!Over(r)
    BY <1>2, <2>1, EndedIsOver
  <2>3. Promise!End(u, r)
    BY <2>1, <2>2 DEF Promise!End
  <2>4. QED
    BY <1>2, <2>3 DEF Promise!Next
<1>8. QED
  BY <1>1, <1>4, <1>5, <1>6, <1>7

\* Membership rows change, and the sessions follow them.
SessionsFollow ==
    /\ members' \in [Rooms -> SUBSET Users]
    /\ entry' \subseteq entry
    /\ \A r \in Rooms :
        /\ host'[r] = IF host[r] \in members'[r] THEN host[r] ELSE NoUser
        /\ watchers'[r] = IF host[r] \in members'[r]
                          THEN watchers[r] \cap members'[r] ELSE {}

LEMMA FollowingKeepsPromise ==
    ASSUME IInv', SessionsFollow
    PROVE  [Promise!Next]_(Promise!vars)
<1>1. host' = [r \in Rooms |-> host'[r]] /\ watchers' = [r \in Rooms |-> watchers'[r]]
  BY DEF IInv, WatchTypeOK
<1>2. /\ host' = [r \in Rooms |-> IF host[r] \in members'[r] THEN host[r] ELSE NoUser]
      /\ watchers' = [r \in Rooms |->
            IF host[r] \in members'[r] THEN watchers[r] \cap members'[r] ELSE {}]
  BY <1>1 DEF SessionsFollow
<1>3. Promise!ChangeMembers
  BY <1>2, TrimmedOnline DEF Promise!ChangeMembers, SessionsFollow
<1>4. QED
  BY <1>3 DEF Promise!Next

\* Whoever is out of a room is out of its session, and nobody else is.
LEMMA MembershipStepKeepsPromise ==
    ASSUME IInv, IInv', MembershipStep
    PROVE  [Promise!Next]_(Promise!vars)
<1>1. SUFFICES SessionsFollow
  BY FollowingKeepsPromise
<1>2. /\ members \in [Rooms -> SUBSET Users] /\ members' \in [Rooms -> SUBSET Users]
      /\ \A r \in Rooms : /\ watchers[r] \subseteq members[r]
                          /\ NoUser \notin members[r] /\ NoUser \notin members'[r]
                          /\ host[r] = NoUser \/ host[r] \in members[r]
                          /\ host[r] = NoUser => watchers[r] = {}
  <2>1. \A r \in Rooms : watchers[r] \subseteq members[r]
    BY DEF IInv, InAreMembers, In, WatchTypeOK
  <2>2. \A r \in Rooms : host[r] = NoUser \/ host[r] \in members[r]
    BY DEF IInv, InAreMembers, In, WatchTypeOK
  <2>3. QED
    BY <2>1, <2>2, NoUserAssumption DEF IInv, ConnectionsTypeOK, HostlessAreEmpty
<1>3. ASSUME NEW r \in Rooms, NEW u \in Users, AddMember(r, u) PROVE SessionsFollow
  <2>1. /\ entry' \subseteq entry /\ UNCHANGED <<host, watchers>>
        /\ \A q \in Rooms : members[q] \subseteq members'[q]
    BY <1>2, <1>3, PruneShrinks DEF AddMember, IInv, ConnectionsTypeOK, watchVars
  <2>2. QED
    BY <1>2, <2>1 DEF SessionsFollow
<1>4. ASSUME NEW r \in Rooms, NEW u \in Users, NEW kicked \in BOOLEAN,
             RemoveMember(r, u, kicked)
      PROVE  SessionsFollow
  <2>1. /\ entry' \subseteq entry /\ LeaveWatches(u, {r})
        /\ members' = [members EXCEPT ![r] = @ \ {u}]
    BY <1>4, PruneShrinks DEF RemoveMember, IInv, ConnectionsTypeOK
  <2>2. /\ host' = [q \in Rooms |-> IF q \in {r} /\ host[q] = u THEN NoUser ELSE host[q]]
        /\ watchers' = [q \in Rooms |->
              IF q \in {r} THEN IF host[q] = u THEN {} ELSE watchers[q] \ {u}
              ELSE watchers[q]]
    BY <2>1, LeaveWatchesIs
  <2>3. \A q \in Rooms : members'[q] = IF q = r THEN members[q] \ {u} ELSE members[q]
    BY <1>2, <2>1
  <2>4. ASSUME NEW q \in Rooms
        PROVE  /\ host'[q] = IF host[q] \in members'[q] THEN host[q] ELSE NoUser
               /\ watchers'[q] = IF host[q] \in members'[q]
                                 THEN watchers[q] \cap members'[q] ELSE {}
    <3>1. CASE q # r
      BY <1>2, <2>2, <2>3, <3>1
    <3>2. CASE q = r /\ host[q] = u
      BY <1>2, <2>2, <2>3, <3>2
    <3>3. CASE q = r /\ host[q] # u
      <4>1. host'[q] = host[q] /\ watchers'[q] = watchers[q] \ {u}
        BY <2>2, <3>3
      <4>2. members'[q] = members[q] \ {u}
        BY <2>3, <3>3
      <4>3. watchers[q] \cap members'[q] = watchers[q] \ {u}
        BY <1>2, <4>2
      <4>4. CASE host[q] = NoUser
        BY <1>2, <4>1, <4>2, <4>4
      <4>5. CASE host[q] \in members[q]
        BY <3>3, <4>1, <4>2, <4>3, <4>5
      <4>6. QED
        BY <1>2, <4>4, <4>5
    <3>4. QED
      BY <3>1, <3>2, <3>3
  <2>5. QED
    BY <1>2, <2>1, <2>4 DEF SessionsFollow
<1>5. ASSUME NEW r \in Rooms, DeleteRoom(r) PROVE SessionsFollow
  <2>1. entry' \subseteq entry /\ members' = [members EXCEPT ![r] = {}]
    BY <1>5, PruneShrinks DEF DeleteRoom, IInv, ConnectionsTypeOK
  <2>2. \A q \in Rooms : members'[q] = IF q = r THEN {} ELSE members[q]
    BY <1>2, <2>1
  <2>3. /\ host'[r] = NoUser /\ watchers'[r] = {}
        /\ \A q \in Rooms \ {r} : host'[q] = host[q] /\ watchers'[q] = watchers[q]
    <3>1. CASE host[r] = NoUser
      <4>1. UNCHANGED <<host, watchers>>
        BY <1>5, <3>1 DEF DeleteRoom, watchVars
      <4>2. watchers[r] = {}
        BY <1>2, <3>1
      <4>3. QED
        BY <3>1, <4>1, <4>2
    <3>2. CASE host[r] # NoUser
      <4>1. DropFrom(NoUser, {r}, {})
        BY <1>5, <3>2 DEF DeleteRoom
      <4>2. \A q \in Rooms : /\ host'[q] = IF q \in {r} THEN NoUser ELSE host[q]
                            /\ watchers'[q] = IF q \in {r} THEN {}
                                              ELSE watchers[q] \ IF q \in {} THEN {NoUser} ELSE {}
        BY <4>1 DEF DropFrom
      <4>3. \A q \in Rooms \ {r} : host'[q] = host[q] /\ watchers'[q] = watchers[q]
        BY <4>2
      <4>4. QED
        BY <4>2, <4>3
    <3>3. QED
      BY <3>1, <3>2
  <2>4. ASSUME NEW q \in Rooms
        PROVE  /\ host'[q] = IF host[q] \in members'[q] THEN host[q] ELSE NoUser
               /\ watchers'[q] = IF host[q] \in members'[q]
                                 THEN watchers[q] \cap members'[q] ELSE {}
    <3>1. CASE q = r
      <4>1. members'[r] = {}
        BY <2>2
      <4>2. host'[r] = NoUser /\ watchers'[r] = {}
        BY <2>3
      <4>3. QED
        BY <3>1, <4>1, <4>2
    <3>2. CASE q # r
      <4>1. watchers[q] \cap members'[q] = watchers[q]
        BY <1>2, <2>2, <3>2
      <4>2. CASE host[q] = NoUser
        BY <1>2, <2>2, <2>3, <3>2, <4>2
      <4>3. CASE host[q] # NoUser
        BY <1>2, <2>2, <2>3, <3>2, <4>1, <4>3
      <4>4. QED
        BY <4>2, <4>3
    <3>3. QED
      BY <3>1, <3>2
  <2>5. QED
    BY <1>2, <2>1, <2>4 DEF SessionsFollow
<1>6. QED
  BY <1>3, <1>4, <1>5 DEF MembershipStep

LEMMA TimerStepKeepsPromise ==
    ASSUME IInv, TimerStep
    PROVE  [Promise!Next]_(Promise!vars)
<1>1. PICK r \in Rooms : AloneTimePasses(r) \/ AloneTimeout(r)
  BY DEF TimerStep
<1>2. CASE AloneTimePasses(r) \/ (AloneTimeout(r) /\ watchers[r] # {timer[r]})
  BY <1>2, WatchQuietIsStutter DEF AloneTimePasses, AloneTimeout, connectionVars
<1>3. CASE AloneTimeout(r) /\ watchers[r] = {timer[r]}
  <2>1. /\ DropFrom(timer[r], {r}, {}) /\ members' = members /\ entry' \subseteq entry
    BY <1>3, PruneShrinks DEF AloneTimeout, IInv, ConnectionsTypeOK
  <2>2. host[r] # NoUser /\ timer[r] \in Users
    BY <1>3 DEF IInv, HostlessAreEmpty, WatchTypeOK
  <2>3. Promise!EndAlone(r)
    BY <1>3, <2>1, <2>2, EndedIsOver DEF Promise!EndAlone
  <2>4. QED
    BY <2>3 DEF Promise!Next
<1>4. QED
  BY <1>1, <1>2, <1>3

LEMMA NextKeepsPromise ==
    ASSUME IInv, IInv', [Next]_vars
    PROVE  [Promise!Next]_(Promise!vars)
<1>1. CASE UNCHANGED vars
  BY <1>1, WatchQuietIsStutter DEF vars, connectionVars, watchVars
<1>2. CASE Next
  BY <1>2, ConnectionStepKeepsPromise, FrameStepKeepsPromise, MembershipStepKeepsPromise,
     TimerStepKeepsPromise DEF Next
<1>3. QED
  BY <1>1, <1>2

LEMMA InitKeepsPromise == Init => Promise!Init
  BY DEF Init, ConnectionsInit, NoSessions, Promise!Init, Online

\* Sessions end, and people are put out of them, for the promised reasons only,
\* whatever sockets, timers and the registry do.
THEOREM Refinement == Spec => KeepsWatchPromise
<1>1. IInv /\ IInv' /\ [Next]_vars => [Promise!Next]_(Promise!vars)
  BY NextKeepsPromise
<1>2. QED
  BY <1>1, InitKeepsPromise, Invariance, PTL DEF Spec, KeepsWatchPromise, Promise!Spec

=============================================================================
