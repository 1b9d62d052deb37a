----------------------------- MODULE CallsProofs -----------------------------
(***************************************************************************)
(* Proofs about Calls, for any users, sockets, rooms and cap.              *)
(*                                                                         *)
(* Membership and the call maps are nearly inductive.  That nobody stays   *)
(* in a call with no callback left to end it is not: it needs that the     *)
(* registry holds only sockets that still have a cleaning close event,     *)
(* however sends, timeouts and errors have trimmed it.                     *)
(*                                                                         *)
(* The end of the module proves that Calls implements CallPromise, and     *)
(* that a share is never taken over.                                       *)
(***************************************************************************)
EXTENDS CallsRefinement, TLAPS

CallTypeOK ==
    /\ call \in [Rooms -> SUBSET Users]
    /\ sharing \in [Rooms -> Users \cup {NoUser}]
    /\ alone \in [Rooms -> Users \cup {NoUser}]
    /\ due \subseteq Rooms

\* The three maps agree with each other.
MapsAgree ==
    /\ CallTypeOK
    /\ OneCallAtATime
    /\ SharerIsInTheCall
    /\ AloneTimerMatches

Cleans(c) == c \in {"open", "lost", "closing"}

\* A registered socket will clean up when it closes.
RegisteredCleanUp == \A s \in entry : Cleans(conn[s])

IInv ==
    /\ ConnectionsTypeOK
    /\ MapsAgree
    /\ CallersAreMembers
    /\ RegisteredCleanUp
    /\ NoGhostCallers

-----------------------------------------------------------------------------

\* The timer is armed for a user exactly when that user is the only one.
LEMMA AloneInOnly ==
    ASSUME NEW S \in SUBSET Users
    PROVE  /\ AloneIn(S) \in Users \cup {NoUser}
           /\ \A u \in Users : AloneIn(S) = u <=> S = {u}
<1>1. CASE \E u \in S : S = {u}
  <2>1. PICK u \in S : S = {u}
    BY <1>1
  <2>2. AloneIn(S) = u
    BY <2>1 DEF AloneIn
  <2>3. QED
    BY <2>1, <2>2
<1>2. CASE ~ \E u \in S : S = {u}
  <2>1. AloneIn(S) = NoUser
    BY <1>2 DEF AloneIn
  <2>2. \A u \in Users : S # {u}
    BY <1>2
  <2>3. QED
    BY <2>1, <2>2, NoUserAssumption
<1>3. QED
  BY <1>1, <1>2

\* Taking a user out of the calls of some rooms takes nobody else out of any
\* call, and leaves the three maps in agreement.
LEMMA RemoveKeepsMaps ==
    ASSUME MapsAgree, NEW u \in Users, NEW R, RemoveFromCalls(u, R)
    PROVE  /\ MapsAgree'
           /\ \A r \in Rooms : /\ call'[r] \subseteq call[r]
                               /\ call[r] \ {u} \subseteq call'[r]
           /\ \A r \in Rooms \cap R : call'[r] = call[r] \ {u}
           /\ \A r \in Rooms : sharing'[r] =
                IF sharing[r] \in call'[r] THEN sharing[r] ELSE NoUser
<1> DEFINE left == R \cap CallsOf(u)
<1>1. /\ call' = [r \in Rooms |-> call[r] \ IF r \in left THEN {u} ELSE {}]
      /\ sharing' = [r \in Rooms |->
              IF r \in left THEN ShareAfter(r, {u}) ELSE sharing[r]]
      /\ alone' = [r \in Rooms |->
              IF r \in left THEN AloneIn(call[r] \ {u}) ELSE alone[r]]
      /\ due' = due \ left
  BY DEF RemoveFromCalls
<1>2. ASSUME NEW r \in Rooms
      PROVE  /\ call'[r] \in SUBSET Users
             /\ call'[r] \subseteq call[r]
             /\ call[r] \ {u} \subseteq call'[r]
             /\ r \in R => call'[r] = call[r] \ {u}
             /\ r \notin left => call'[r] = call[r]
  BY <1>1, <1>2 DEF MapsAgree, CallTypeOK, CallsOf
<1>3. ASSUME NEW r \in Rooms
      PROVE  /\ sharing'[r] \in Users \cup {NoUser}
             /\ sharing'[r] # NoUser => sharing'[r] \in call'[r]
             /\ sharing'[r] = IF sharing[r] \in call'[r] THEN sharing[r] ELSE NoUser
  <2>1. CASE r \in left
    BY <1>1, <1>2, <2>1 DEF MapsAgree, CallTypeOK, SharerIsInTheCall, ShareAfter, CallsOf
  <2>2. CASE r \notin left
    BY <1>1, <1>2, <2>2 DEF MapsAgree, CallTypeOK, SharerIsInTheCall
  <2>3. QED
    BY <2>1, <2>2
<1>4. ASSUME NEW r \in Rooms
      PROVE  /\ alone'[r] \in Users \cup {NoUser}
             /\ \A v \in Users : alone'[r] = v <=> call'[r] = {v}
  <2>1. CASE r \in left
    <3>1. call[r] \ {u} \in SUBSET Users /\ call'[r] = call[r] \ {u}
      BY <1>1, <2>1 DEF MapsAgree, CallTypeOK
    <3>2. QED
      BY <1>1, <2>1, <3>1, AloneInOnly
  <2>2. CASE r \notin left
    BY <1>1, <1>2, <2>2 DEF MapsAgree, CallTypeOK, AloneTimerMatches
  <2>3. QED
    BY <2>1, <2>2
<1>5. CallTypeOK'
  BY <1>1, <1>2, <1>3, <1>4 DEF CallTypeOK, MapsAgree
<1>6. OneCallAtATime'
  BY <1>2 DEF MapsAgree, OneCallAtATime
<1>7. SharerIsInTheCall' /\ AloneTimerMatches'
  BY <1>3, <1>4 DEF SharerIsInTheCall, AloneTimerMatches
<1>8. QED
  BY <1>2, <1>3, <1>5, <1>6, <1>7 DEF MapsAgree

\* Pruning only takes sockets away.
LEMMA PruneShrinks ==
    ASSUME NEW C, NEW E \in SUBSET Sockets, NEW U
    PROVE  Prune(C, E, U) \subseteq E
BY DEF Prune

\* While no socket changes, a step that only trims the registry and lets
\* nobody new into a call keeps what the registry guarantees.
LEMMA TrimKeepsCleanUp ==
    ASSUME IInv, UNCHANGED conn, entry' \subseteq entry,
           \A r \in Rooms : call'[r] \subseteq call[r]
    PROVE  RegisteredCleanUp' /\ NoGhostCallers' /\ entry' \subseteq Sockets
BY DEF IInv, ConnectionsTypeOK, RegisteredCleanUp, NoGhostCallers, Cleans

\* A socket that is detached, whatever becomes of it, leaves nobody behind.
LEMMA DetachKeepsIInv ==
    ASSUME IInv, NEW s \in Sockets, NEW c \in ConnState,
           conn' = [conn EXCEPT ![s] = c], Detach(s), UNCHANGED members
    PROVE  IInv'
<1> DEFINE u == Owner[s]
<1> USE OwnerAssumption
<1>1. \A t \in Sockets \ {s} : conn'[t] = conn[t]
  BY DEF IInv, ConnectionsTypeOK
<1>2. entry' \subseteq entry \ {s}
  BY PruneShrinks DEF Detach, IInv, ConnectionsTypeOK
<1>3. ConnectionsTypeOK' /\ RegisteredCleanUp'
  BY <1>1, <1>2 DEF IInv, ConnectionsTypeOK, RegisteredCleanUp
<1>4. \A r \in Rooms, v \in Users \ {u} : v \in call[r]
        => \E t \in SocketsOf(v) : conn'[t] \in {"open", "lost", "closing"}
  BY <1>1 DEF IInv, NoGhostCallers, SocketsOf
<1>5. CASE LastOf(s) = {}
  <2>1. UNCHANGED callVars
    BY <1>5 DEF Detach
  <2>2. PICK t \in entry \ {s} : Owner[t] = u
    BY <1>5 DEF LastOf, Online
  <2>3. t \in SocketsOf(u) /\ conn'[t] \in {"open", "lost", "closing"}
    BY <1>1, <2>2 DEF IInv, ConnectionsTypeOK, RegisteredCleanUp, Cleans, SocketsOf
  <2>4. NoGhostCallers'
    BY <1>4, <2>1, <2>3 DEF NoGhostCallers, SocketsOf, callVars, IInv, MapsAgree, CallTypeOK
  <2>5. MapsAgree' /\ CallersAreMembers'
    BY <2>1 DEF callVars, IInv, MapsAgree, CallTypeOK, OneCallAtATime,
                SharerIsInTheCall, AloneTimerMatches, CallersAreMembers
  <2>6. QED
    BY <1>3, <2>4, <2>5 DEF IInv
<1>6. CASE LastOf(s) # {}
  <2>1. RemoveFromCalls(u, Rooms)
    BY <1>6 DEF Detach
  <2>2. u \in Users
    OBVIOUS
  <2>3. /\ MapsAgree'
        /\ \A r \in Rooms : call'[r] \subseteq call[r] /\ u \notin call'[r]
    BY <2>1, <2>2, RemoveKeepsMaps DEF IInv
  <2>4. CallersAreMembers'
    BY <2>3 DEF IInv, CallersAreMembers
  <2>5. NoGhostCallers'
    BY <1>4, <2>3 DEF NoGhostCallers, SocketsOf, IInv, MapsAgree, CallTypeOK
  <2>6. QED
    BY <1>3, <2>3, <2>4, <2>5 DEF IInv
<1>7. QED
  BY <1>5, <1>6

LEMMA InitIInv == Init => IInv
<1> SUFFICES ASSUME Init PROVE IInv
  OBVIOUS
<1>1. ConnectionsTypeOK /\ RegisteredCleanUp
  BY DEF Init, ConnectionsInit, ConnectionsTypeOK, ConnState, RegisteredCleanUp
<1>2. MapsAgree
  BY NoUserAssumption DEF Init, NobodyInCalls, MapsAgree, CallTypeOK,
     OneCallAtATime, SharerIsInTheCall, AloneTimerMatches
<1>3. CallersAreMembers /\ NoGhostCallers
  BY DEF Init, NobodyInCalls, CallersAreMembers, NoGhostCallers
<1>4. QED
  BY <1>1, <1>2, <1>3 DEF IInv

-----------------------------------------------------------------------------
(* Steps of sockets.                                                       *)

\* Steps that change no map and drop no cleaning socket.
LEMMA QuietStepKeepsIInv ==
    ASSUME IInv, UNCHANGED <<members, callVars>>, ConnectionsTypeOK',
           \A s \in Sockets : Cleans(conn[s]) => Cleans(conn'[s]),
           \A s \in entry' : Cleans(conn'[s])
    PROVE  IInv'
<1>1. MapsAgree' /\ CallersAreMembers'
  BY DEF IInv, MapsAgree, CallTypeOK, OneCallAtATime, SharerIsInTheCall,
         AloneTimerMatches, CallersAreMembers, callVars
<1>2. NoGhostCallers'
  BY DEF IInv, NoGhostCallers, Cleans, SocketsOf, callVars
<1>3. QED
  BY <1>1, <1>2 DEF IInv, RegisteredCleanUp

LEMMA ConnectionStepKeepsIInv == IInv /\ ConnectionStep => IInv'
<1> SUFFICES ASSUME IInv, ConnectionStep PROVE IInv'
  OBVIOUS
<1> USE DEF ConnState
<1>1. ASSUME NEW s \in Sockets, Connect(s) PROVE IInv'
  BY <1>1, QuietStepKeepsIInv
     DEF Connect, Attach, IInv, ConnectionsTypeOK, RegisteredCleanUp, Cleans, SocketsOf
<1>2. ASSUME NEW s \in Sockets, PeerLost(s) PROVE IInv'
  BY <1>2, QuietStepKeepsIInv
     DEF PeerLost, LosePeer, IInv, ConnectionsTypeOK, RegisteredCleanUp, Cleans
<1>3. ASSUME NEW s \in Sockets, CloseStarts(s) PROVE IInv'
  BY <1>3, QuietStepKeepsIInv
     DEF CloseStarts, StartClose, Sendable, IInv, ConnectionsTypeOK, RegisteredCleanUp, Cleans
<1>4. ASSUME NEW s \in Sockets, ErrorEvent(s) PROVE IInv'
  BY <1>4, DetachKeepsIInv DEF ErrorEvent, SocketFails
<1>5. ASSUME NEW s \in Sockets, CloseEvent(s) PROVE IInv'
  <2>1. CASE SocketCloses(s) /\ Detach(s) /\ UNCHANGED members
    BY <2>1, DetachKeepsIInv DEF SocketCloses
  <2>2. CASE SocketClosesAfterError(s) /\ UNCHANGED <<members, callVars>>
    BY <2>2, QuietStepKeepsIInv
       DEF SocketClosesAfterError, IInv, ConnectionsTypeOK, RegisteredCleanUp, Cleans
  <2>3. QED
    BY <1>5, <2>1, <2>2 DEF CloseEvent
<1>6. ASSUME NEW s \in Sockets, PingTimeout(s) PROVE IInv'
  BY <1>6, DetachKeepsIInv DEF PingTimeout, PingExpires
<1>7. ASSUME NEW u \in Users, SendToUser(u) PROVE IInv'
  <2>1. entry' \subseteq entry
    BY <1>7, PruneShrinks DEF SendToUser, IInv, ConnectionsTypeOK
  <2>2. QED
    BY <1>7, <2>1, QuietStepKeepsIInv
       DEF SendToUser, IInv, ConnectionsTypeOK, RegisteredCleanUp
<1>8. ASSUME Restart PROVE IInv'
  <2>1. ConnectionsTypeOK' /\ RegisteredCleanUp'
    BY <1>8 DEF Restart, ProcessRestarts, IInv, ConnectionsTypeOK, RegisteredCleanUp
  <2>2. MapsAgree'
    BY <1>8, NoUserAssumption DEF Restart, MapsAgree, CallTypeOK, OneCallAtATime,
       SharerIsInTheCall, AloneTimerMatches
  <2>3. CallersAreMembers' /\ NoGhostCallers'
    BY <1>8 DEF Restart, CallersAreMembers, NoGhostCallers
  <2>4. QED
    BY <2>1, <2>2, <2>3 DEF IInv
<1>9. QED
  BY <1>1, <1>2, <1>3, <1>4, <1>5, <1>6, <1>7, <1>8 DEF ConnectionStep

-----------------------------------------------------------------------------
(* Frames.                                                                 *)

LEMMA JoinKeepsIInv ==
    ASSUME IInv, NEW s \in Sockets, NEW r \in Rooms, JoinCall(s, r)
    PROVE  IInv'
<1> DEFINE u == Owner[s]
           others == OtherCalls(u, r)
<1> USE OwnerAssumption
<1>1. /\ Heard(s) /\ u \in members[r] /\ u \in Users
      /\ call' = [q \in Rooms |-> IF q = r THEN call[r] \cup {u}
                                  ELSE IF q \in others THEN call[q] \ {u}
                                  ELSE call[q]]
      /\ sharing' = [q \in Rooms |->
              IF q \in others THEN ShareAfter(q, {u}) ELSE sharing[q]]
      /\ alone' = [q \in Rooms |->
              IF q = r THEN AloneIn(call[r] \cup {u})
              ELSE IF q \in others THEN AloneIn(call[q] \ {u})
              ELSE alone[q]]
      /\ UNCHANGED <<conn, members>>
      /\ entry' \subseteq entry
  BY PruneShrinks DEF JoinCall, IInv, ConnectionsTypeOK
<1>2. ASSUME NEW q \in Rooms
      PROVE  /\ call[q] \in SUBSET Users
             /\ q = r => call'[q] = call[r] \cup {u}
             /\ q # r => call'[q] = call[q] \ {u}
  BY <1>1 DEF IInv, MapsAgree, CallTypeOK, OtherCalls, CallsOf
<1>3. ASSUME NEW q \in Rooms
      PROVE  /\ sharing'[q] \in Users \cup {NoUser}
             /\ sharing'[q] # NoUser => sharing'[q] \in call'[q]
  <2>1. CASE q \in others
    BY <1>1, <1>2, <2>1 DEF IInv, MapsAgree, CallTypeOK, SharerIsInTheCall,
       ShareAfter, OtherCalls, CallsOf
  <2>2. CASE q \notin others
    <3>1. call[q] \subseteq call'[q]
      BY <1>2, <2>2 DEF OtherCalls, CallsOf
    <3>2. QED
      BY <1>1, <2>2, <3>1 DEF IInv, MapsAgree, CallTypeOK, SharerIsInTheCall
  <2>3. QED
    BY <2>1, <2>2
<1>4. ASSUME NEW q \in Rooms
      PROVE  /\ alone'[q] \in Users \cup {NoUser}
             /\ \A v \in Users : alone'[q] = v <=> call'[q] = {v}
  <2>1. CASE q = r \/ q \in others
    <3>1. call'[q] \in SUBSET Users
      BY <1>1, <1>2
    <3>2. alone'[q] = AloneIn(call'[q])
      BY <1>1, <1>2, <2>1 DEF OtherCalls
    <3>3. QED
      BY <3>1, <3>2, AloneInOnly
  <2>2. CASE q # r /\ q \notin others
    BY <1>1, <1>2, <2>2 DEF IInv, MapsAgree, CallTypeOK, AloneTimerMatches,
       OtherCalls, CallsOf
  <2>3. QED
    BY <2>1, <2>2
<1>5. CallTypeOK'
  <2>1. call' \in [Rooms -> SUBSET Users]
    <3>1. \A q \in Rooms : call'[q] \in SUBSET Users
      BY <1>1, <1>2
    <3>2. QED
      BY <1>1, <3>1
  <2>2. sharing' \in [Rooms -> Users \cup {NoUser}]
    BY <1>1, <1>3
  <2>3. alone' \in [Rooms -> Users \cup {NoUser}]
    BY <1>1, <1>4
  <2>4. due' \subseteq Rooms
    BY DEF JoinCall, IInv, MapsAgree, CallTypeOK
  <2>5. QED
    BY <2>1, <2>2, <2>3, <2>4 DEF CallTypeOK
<1>6. OneCallAtATime'
  BY <1>2 DEF IInv, MapsAgree, OneCallAtATime
<1>7. SharerIsInTheCall' /\ AloneTimerMatches'
  BY <1>3, <1>4 DEF SharerIsInTheCall, AloneTimerMatches
<1>8. CallersAreMembers'
  BY <1>1, <1>2 DEF IInv, CallersAreMembers
<1>9. NoGhostCallers'
  <2>1. \E t \in SocketsOf(u) : conn[t] \in {"open", "lost", "closing"}
    BY <1>1 DEF Heard, SocketsOf
  <2>2. QED
    BY <1>1, <1>2, <2>1 DEF IInv, NoGhostCallers, SocketsOf
<1>10. ConnectionsTypeOK' /\ RegisteredCleanUp'
  BY <1>1 DEF IInv, ConnectionsTypeOK, RegisteredCleanUp
<1>11. QED
  BY <1>5, <1>6, <1>7, <1>8, <1>9, <1>10 DEF IInv, MapsAgree

\* Leaving some calls, with the sockets and the rows as they were.
LEMMA LeavingKeepsIInv ==
    ASSUME IInv, NEW u \in Users, NEW R, RemoveFromCalls(u, R),
           UNCHANGED <<conn, members>>, entry' \subseteq entry
    PROVE  IInv'
<1>1. MapsAgree' /\ \A r \in Rooms : call'[r] \subseteq call[r]
  BY RemoveKeepsMaps DEF IInv
<1>2. RegisteredCleanUp' /\ NoGhostCallers' /\ entry' \subseteq Sockets
  BY <1>1, TrimKeepsCleanUp
<1>3. CallersAreMembers'
  BY <1>1 DEF IInv, CallersAreMembers
<1>4. QED
  BY <1>1, <1>2, <1>3 DEF IInv, ConnectionsTypeOK

LEMMA FrameStepKeepsIInv == IInv /\ FrameStep => IInv'
<1> SUFFICES ASSUME IInv, NEW s \in Sockets, NEW r \in Rooms,
                    \/ JoinCall(s, r) \/ LeaveCall(s, r)
                    \/ ScreenShareStart(s, r) \/ ScreenShareStop(s, r)
                    \/ \E to \in Users : Signal(s, r, to)
             PROVE  IInv'
  BY DEF FrameStep
<1> USE OwnerAssumption
<1>1. CASE JoinCall(s, r)
  BY <1>1, JoinKeepsIInv
<1>2. CASE LeaveCall(s, r)
  BY <1>2, LeavingKeepsIInv, PruneShrinks DEF LeaveCall, IInv, ConnectionsTypeOK
<1>3. CASE ScreenShareStart(s, r) \/ ScreenShareStop(s, r)
  <2>1. /\ UNCHANGED <<conn, members, call, alone, due>>
        /\ entry' \subseteq entry
        /\ sharing' \in [Rooms -> Users \cup {NoUser}]
        /\ \A q \in Rooms : sharing'[q] # NoUser => sharing'[q] \in call[q]
    BY <1>3, PruneShrinks DEF ScreenShareStart, ScreenShareStop, IInv,
       ConnectionsTypeOK, MapsAgree, CallTypeOK, SharerIsInTheCall
  <2>2. MapsAgree'
    BY <2>1 DEF IInv, MapsAgree, CallTypeOK, OneCallAtATime, SharerIsInTheCall,
       AloneTimerMatches
  <2>3. QED
    BY <2>1, <2>2, TrimKeepsCleanUp DEF IInv, ConnectionsTypeOK, CallersAreMembers
<1>4. CASE \E to \in Users : Signal(s, r, to)
  <2>1. UNCHANGED <<conn, members, callVars>> /\ entry' \subseteq entry
    BY <1>4, PruneShrinks DEF Signal, IInv, ConnectionsTypeOK
  <2>2. QED
    BY <2>1, QuietStepKeepsIInv DEF IInv, ConnectionsTypeOK, RegisteredCleanUp
<1>5. QED
  BY <1>1, <1>2, <1>3, <1>4

-----------------------------------------------------------------------------
(* Membership changes and the timer.                                       *)

LEMMA RemoveMemberKeepsIInv ==
    ASSUME IInv, NEW r \in Rooms, NEW u \in Users, NEW kicked \in BOOLEAN,
           RemoveMember(r, u, kicked)
    PROVE  IInv'
<1>1. /\ RemoveFromCalls(u, {r})
      /\ members' = [members EXCEPT ![r] = @ \ {u}]
      /\ UNCHANGED conn
      /\ entry' \subseteq entry
  BY PruneShrinks DEF RemoveMember, IInv, ConnectionsTypeOK
<1>2. /\ MapsAgree'
      /\ \A q \in Rooms : call'[q] \subseteq call[q]
      /\ u \notin call'[r]
  BY <1>1, RemoveKeepsMaps DEF IInv
<1>3. RegisteredCleanUp' /\ NoGhostCallers' /\ entry' \subseteq Sockets
  BY <1>1, <1>2, TrimKeepsCleanUp
<1>4. \A q \in Rooms : members'[q] = members[q] \ IF q = r THEN {u} ELSE {}
  BY <1>1 DEF IInv, ConnectionsTypeOK
<1>5. CallersAreMembers'
  BY <1>2, <1>4 DEF IInv, CallersAreMembers
<1>6. ConnectionsTypeOK'
  BY <1>1, <1>3 DEF IInv, ConnectionsTypeOK
<1>7. QED
  BY <1>2, <1>3, <1>5, <1>6 DEF IInv

LEMMA DeleteRoomKeepsIInv ==
    ASSUME IInv, NEW r \in Rooms, DeleteRoom(r)
    PROVE  IInv'
<1>1. /\ members' = [members EXCEPT ![r] = {}]
      /\ call' = [call EXCEPT ![r] = {}]
      /\ UNCHANGED conn
      /\ entry' \subseteq entry
  BY PruneShrinks DEF DeleteRoom, IInv, ConnectionsTypeOK
<1>2. /\ sharing' \in [Rooms -> Users \cup {NoUser}]
      /\ sharing'[r] = NoUser
      /\ \A q \in Rooms \ {r} : sharing'[q] = sharing[q]
  BY DEF DeleteRoom, ShareAfter, IInv, MapsAgree, CallTypeOK, SharerIsInTheCall
<1>3. /\ alone' \in [Rooms -> Users \cup {NoUser}]
      /\ alone'[r] \notin Users
      /\ \A q \in Rooms \ {r} : alone'[q] = alone[q]
  <2>1. CASE call[r] = {}
    <3>1. alone[r] \notin Users
      BY <2>1 DEF IInv, MapsAgree, AloneTimerMatches
    <3>2. QED
      BY <2>1, <3>1 DEF DeleteRoom, IInv, MapsAgree, CallTypeOK
  <2>2. CASE call[r] # {}
    BY <2>2, NoUserAssumption DEF DeleteRoom, IInv, MapsAgree, CallTypeOK
  <2>3. QED
    BY <2>1, <2>2
<1>4. CallTypeOK' /\ OneCallAtATime'
  BY <1>1, <1>2, <1>3 DEF DeleteRoom, IInv, MapsAgree, CallTypeOK, OneCallAtATime
<1>5. SharerIsInTheCall'
  BY <1>1, <1>2 DEF IInv, MapsAgree, CallTypeOK, SharerIsInTheCall
<1>6. AloneTimerMatches'
  BY <1>1, <1>3 DEF IInv, MapsAgree, CallTypeOK, AloneTimerMatches
<1>7. RegisteredCleanUp' /\ NoGhostCallers' /\ entry' \subseteq Sockets
  BY <1>1, TrimKeepsCleanUp DEF IInv, MapsAgree, CallTypeOK
<1>8. ConnectionsTypeOK' /\ CallersAreMembers'
  BY <1>1, <1>7 DEF IInv, MapsAgree, CallTypeOK, ConnectionsTypeOK, CallersAreMembers
<1>9. QED
  BY <1>4, <1>5, <1>6, <1>7, <1>8 DEF IInv, MapsAgree

LEMMA RetireUserKeepsIInv ==
    ASSUME IInv, NEW u \in Users, RetireUser(u)
    PROVE  IInv'
<1> DEFINE was == {r \in Rooms : u \in members[r]}
<1>1. /\ RemoveFromCalls(u, was)
      /\ members' = [r \in Rooms |-> members[r] \ {u}]
      /\ conn' = [s \in Sockets |-> IF s \in entry /\ Owner[s] = u
                                    THEN "closing" ELSE conn[s]]
      /\ entry' \subseteq entry
  BY PruneShrinks DEF RetireUser, CloseSocketsOf, IInv, ConnectionsTypeOK
<1>2. /\ MapsAgree'
      /\ \A r \in Rooms : call'[r] \subseteq call[r]
      /\ \A r \in was : u \notin call'[r]
  BY <1>1, RemoveKeepsMaps DEF IInv
<1>3. \A s \in Sockets : Cleans(conn[s]) => Cleans(conn'[s])
  BY <1>1 DEF Cleans
<1>4. ConnectionsTypeOK' /\ RegisteredCleanUp'
  BY <1>1, <1>3 DEF IInv, ConnectionsTypeOK, RegisteredCleanUp, ConnState
<1>5. NoGhostCallers'
  BY <1>2, <1>3 DEF IInv, NoGhostCallers, Cleans, SocketsOf
<1>6. CallersAreMembers'
  BY <1>1, <1>2 DEF IInv, CallersAreMembers
<1>7. QED
  BY <1>2, <1>4, <1>5, <1>6 DEF IInv

LEMMA MembershipStepKeepsIInv == IInv /\ MembershipStep => IInv'
<1> SUFFICES ASSUME IInv, MembershipStep PROVE IInv'
  OBVIOUS
<1>1. ASSUME NEW r \in Rooms, NEW u \in Users, AddMember(r, u) PROVE IInv'
  <2>1. /\ members' = [members EXCEPT ![r] = @ \cup {u}]
        /\ entry' \subseteq entry
        /\ UNCHANGED <<conn, callVars>>
    BY <1>1, PruneShrinks DEF AddMember, IInv, ConnectionsTypeOK
  <2>2. MapsAgree' /\ CallersAreMembers'
    BY <2>1 DEF IInv, MapsAgree, CallTypeOK, OneCallAtATime, SharerIsInTheCall,
       AloneTimerMatches, CallersAreMembers, ConnectionsTypeOK, callVars
  <2>3. RegisteredCleanUp' /\ NoGhostCallers' /\ entry' \subseteq Sockets
    BY <2>1, TrimKeepsCleanUp DEF callVars
  <2>4. ConnectionsTypeOK'
    BY <2>1, <2>3 DEF IInv, ConnectionsTypeOK
  <2>5. QED
    BY <2>2, <2>3, <2>4 DEF IInv
<1>2. QED
  BY <1>1, RemoveMemberKeepsIInv, DeleteRoomKeepsIInv, RetireUserKeepsIInv
     DEF MembershipStep

LEMMA TimerStepKeepsIInv == IInv /\ TimerStep => IInv'
<1> SUFFICES ASSUME IInv, NEW r \in Rooms, AloneTimePasses(r) \/ AloneTimeout(r)
             PROVE  IInv'
  BY DEF TimerStep
<1>1. CASE AloneTimePasses(r)
  <2>1. /\ UNCHANGED <<conn, entry, members, call, sharing, alone>>
        /\ due' \subseteq Rooms
    BY <1>1 DEF AloneTimePasses, connectionVars, IInv, MapsAgree, CallTypeOK
  <2>2. QED
    BY <2>1 DEF IInv, MapsAgree, CallTypeOK, OneCallAtATime, SharerIsInTheCall,
       AloneTimerMatches, ConnectionsTypeOK, RegisteredCleanUp, NoGhostCallers,
       CallersAreMembers
<1>2. CASE AloneTimeout(r) /\ call[r] = {alone[r]}
  <2>1. alone[r] \in Users
    BY <1>2 DEF IInv, MapsAgree, CallTypeOK
  <2>2. /\ RemoveFromCalls(alone[r], {r})
        /\ UNCHANGED <<conn, members>>
        /\ entry' \subseteq entry
    BY <1>2, PruneShrinks DEF AloneTimeout, IInv, ConnectionsTypeOK
  <2>3. QED
    BY <2>1, <2>2, LeavingKeepsIInv
<1>3. CASE AloneTimeout(r) /\ call[r] # {alone[r]}
  <2>1. alone[r] \notin Users
    BY <1>3 DEF IInv, MapsAgree, AloneTimerMatches
  <2>2. alone' = alone
    BY <1>3, <2>1 DEF AloneTimeout, IInv, MapsAgree, CallTypeOK
  <2>3. QED
    BY <1>3, <2>2 DEF AloneTimeout, IInv, MapsAgree, CallTypeOK, OneCallAtATime,
       SharerIsInTheCall, AloneTimerMatches, ConnectionsTypeOK, RegisteredCleanUp,
       NoGhostCallers, CallersAreMembers
<1>4. QED
  BY <1>1, <1>2, <1>3

-----------------------------------------------------------------------------
(* Theorems.                                                               *)

LEMMA NextKeepsIInv == IInv /\ [Next]_vars => IInv'
<1> SUFFICES ASSUME IInv, [Next]_vars PROVE IInv'
  OBVIOUS
<1>1. CASE Next
  BY <1>1, ConnectionStepKeepsIInv, FrameStepKeepsIInv, MembershipStepKeepsIInv,
     TimerStepKeepsIInv DEF Next
<1>2. CASE UNCHANGED vars
  BY <1>2, QuietStepKeepsIInv
     DEF vars, connectionVars, callVars, IInv, ConnectionsTypeOK, RegisteredCleanUp
<1>3. QED
  BY <1>1, <1>2

\* The strengthening holds in every reachable state.
THEOREM Invariance == Spec => []IInv
BY InitIInv, NextKeepsIInv, PTL DEF Spec

\* Every variable keeps its type.
THEOREM TypeCorrectness == Spec => []TypeOK
<1>1. IInv => TypeOK
  BY DEF IInv, MapsAgree, CallTypeOK, TypeOK
<1>2. QED
  BY <1>1, Invariance, PTL

\* Only members of a room are ever in its call.
THEOREM CallMembership == Spec => []CallersAreMembers
<1>1. IInv => CallersAreMembers
  BY DEF IInv
<1>2. QED
  BY <1>1, Invariance, PTL

\* Nobody is ever in two calls.
THEOREM SingleCall == Spec => []OneCallAtATime
<1>1. IInv => OneCallAtATime
  BY DEF IInv, MapsAgree
<1>2. QED
  BY <1>1, Invariance, PTL

\* A share always belongs to somebody in that call.
THEOREM ShareOwnership == Spec => []SharerIsInTheCall
<1>1. IInv => SharerIsInTheCall
  BY DEF IInv, MapsAgree
<1>2. QED
  BY <1>1, Invariance, PTL

\* The alone timer is armed for exactly the user who is alone.
THEOREM AloneTimer == Spec => []AloneTimerMatches
<1>1. IInv => AloneTimerMatches
  BY DEF IInv, MapsAgree
<1>2. QED
  BY <1>1, Invariance, PTL

\* Nobody is in a call without a socket whose close event cleans up.
THEOREM NoGhosts == Spec => []NoGhostCallers
<1>1. IInv => NoGhostCallers
  BY DEF IInv
<1>2. QED
  BY <1>1, Invariance, PTL

\* A socket that is detached takes no other connected user out of a call.
LEMMA DetachSparesOthers ==
    ASSUME NEW s \in Sockets, NEW t \in entry, t # s, Detach(s)
    PROVE  CallsOf(Owner[t])' = CallsOf(Owner[t])
<1>1. CASE LastOf(s) = {}
  BY <1>1 DEF Detach, callVars, CallsOf
<1>2. CASE LastOf(s) # {}
  <2>1. Owner[t] # Owner[s]
    BY <1>2 DEF LastOf, Online
  <2>2. \A r \in Rooms : Owner[t] \in call'[r] <=> Owner[t] \in call[r]
    BY <1>2, <2>1 DEF Detach, RemoveFromCalls
  <2>3. QED
    BY <2>2 DEF CallsOf
<1>3. QED
  BY <1>1, <1>2

\* One connection ending never ends the call of an account with another one.
THEOREM OneConnectionIsEnough == Spec => OtherSocketKeepsTheCall
<1>1. ASSUME IInv, [Next]_vars, conn' # conn, members' = members,
             NEW t \in entry, Sendable(conn[t]), conn'[t] = conn[t]
      PROVE  CallsOf(Owner[t])' = CallsOf(Owner[t])
  <2>1. t \in Sockets
    BY <1>1 DEF IInv, ConnectionsTypeOK
  <2>2. CASE UNCHANGED callVars
    BY <2>2 DEF callVars, CallsOf
  <2>3. CASE \E s \in Sockets : Detach(s) /\ t # s
    BY <2>3, DetachSparesOthers
  <2>4. ASSUME NEW s \in Sockets,
               \/ Connect(s) \/ PeerLost(s) \/ CloseStarts(s)
               \/ ErrorEvent(s) \/ CloseEvent(s) \/ PingTimeout(s)
        PROVE  CallsOf(Owner[t])' = CallsOf(Owner[t])
    <3>1. ASSUME NEW c, conn' = [conn EXCEPT ![s] = c] PROVE t # s
      BY <1>1, <3>1 DEF IInv, ConnectionsTypeOK
    <3>2. QED
      BY <2>2, <2>3, <2>4, <3>1 DEF Connect, PeerLost, CloseStarts, ErrorEvent, CloseEvent,
         PingTimeout, SocketFails, SocketCloses, PingExpires
  <2>5. ASSUME Restart PROVE FALSE
    BY <1>1, <2>1, <2>5 DEF Restart, ProcessRestarts, Sendable
  <2>6. ASSUME NEW u \in Users, RetireUser(u) PROVE FALSE
    <3>1. PICK r \in Rooms : u \in members[r]
      BY <2>6 DEF RetireUser
    <3>2. u \notin members'[r]
      BY <2>6 DEF RetireUser
    <3>3. QED
      BY <1>1, <3>1, <3>2
  <2>7. ASSUME NEW u \in Users, SendToUser(u) PROVE FALSE
    BY <1>1, <2>7 DEF SendToUser
  <2>8. ~ FrameStep
    BY <1>1 DEF FrameStep, JoinCall, LeaveCall, ScreenShareStart, ScreenShareStop, Signal
  <2>9. ~ TimerStep
    BY <1>1 DEF TimerStep, AloneTimePasses, AloneTimeout, connectionVars
  <2>10. ~ MembershipStep
    BY <1>1, <2>6 DEF MembershipStep, AddMember, RemoveMember, DeleteRoom
  <2>11. CASE ConnectionStep
    BY <2>4, <2>5, <2>7, <2>11 DEF ConnectionStep
  <2>12. CASE UNCHANGED vars
    BY <1>1, <2>12 DEF vars, connectionVars
  <2>13. QED
    BY <1>1, <2>8, <2>9, <2>10, <2>11, <2>12 DEF Next
<1>2. IInv /\ [Next]_vars =>
        [ conn' # conn /\ members' = members
            => \A t \in entry :
                  Sendable(conn[t]) /\ conn'[t] = conn[t]
                    => CallsOf(Owner[t])' = CallsOf(Owner[t]) ]_vars
  BY <1>1
<1>3. QED
  BY <1>2, Invariance, PTL DEF Spec, OtherSocketKeepsTheCall

-----------------------------------------------------------------------------
(***************************************************************************)
(* The call manager implements CallPromise.  Sockets, timers and the       *)
(* registry stutter; a step that takes users out of calls is one Quit of   *)
(* all of them, and a step that changes rows is one ChangeMembers.         *)
(***************************************************************************)

\* What the maps say of the shares after a step: those still in the call keep
\* theirs.
SharesFollow ==
    sharing' = [r \in Rooms |->
        IF sharing[r] \in call'[r] THEN sharing[r] ELSE NoUser]

\* Where a user is can be read off any map that has the user in one call.
LEMMA RoomRead ==
    ASSUME NEW c, NEW u,
           \A q, r \in Rooms : u \in c[q] /\ u \in c[r] => q = r
    PROVE  LET w == IF \E r \in Rooms : u \in c[r]
                    THEN CHOOSE r \in Rooms : u \in c[r] ELSE NoRoom
           IN  /\ \A r \in Rooms : w = r <=> u \in c[r]
               /\ w = NoRoom \/ w \in Rooms
               /\ w = NoRoom <=> \A r \in Rooms : u \notin c[r]
BY NoRoomAssumption

LEMMA WhereIs ==
    ASSUME OneCallAtATime, NEW u \in Users
    PROVE  /\ \A r \in Rooms : CallRoomOf(u) = r <=> u \in call[r]
           /\ CallRoomOf(u) = NoRoom \/ CallRoomOf(u) \in Rooms
           /\ CallRoomOf(u) = NoRoom <=> \A r \in Rooms : u \notin call[r]
<1>1. \A q, r \in Rooms : u \in call[q] /\ u \in call[r] => q = r
  BY DEF OneCallAtATime
<1>2. QED
  BY <1>1, RoomRead DEF CallRoomOf

LEMMA WhereIsAfter ==
    ASSUME OneCallAtATime', NEW u \in Users
    PROVE  /\ \A r \in Rooms : CallRoomOf(u)' = r <=> u \in call'[r]
           /\ CallRoomOf(u)' = NoRoom \/ CallRoomOf(u)' \in Rooms
           /\ CallRoomOf(u)' = NoRoom <=> \A r \in Rooms : u \notin call'[r]
<1>1. \A q, r \in Rooms : u \in call'[q] /\ u \in call'[r] => q = r
  BY DEF OneCallAtATime
<1>2. QED
  BY <1>1, RoomRead DEF CallRoomOf

\* The map's account of the shares is the promise's.
LEMMA SharesAgree ==
    ASSUME IInv, IInv', SharesFollow
    PROVE  Promise!SharesOfThoseStill
<1>1. ASSUME NEW r \in Rooms
      PROVE  sharing'[r] =
               IF sharing[r] # NoUser
                  /\ [u \in Users |-> CallRoomOf(u)]'[sharing[r]] # r
               THEN NoUser ELSE sharing[r]
  <2>1. CASE sharing[r] = NoUser
    BY <2>1 DEF SharesFollow
  <2>2. CASE sharing[r] # NoUser
    <3>1. sharing[r] \in Users
      BY <2>2 DEF IInv, MapsAgree, CallTypeOK
    <3>2. [u \in Users |-> CallRoomOf(u)]'[sharing[r]] = r
             <=> sharing[r] \in call'[r]
      BY <3>1, WhereIsAfter DEF IInv, MapsAgree
    <3>3. QED
      BY <2>2, <3>2 DEF SharesFollow
  <2>3. QED
    BY <2>1, <2>2
<1>2. QED
  BY <1>1 DEF Promise!SharesOfThoseStill, SharesFollow

\* Users who leave calls, while the rows stay, quit.
LEMMA LeavingIsQuitting ==
    ASSUME IInv, IInv', UNCHANGED members, SharesFollow,
           \A r \in Rooms : call'[r] \subseteq call[r]
    PROVE  Promise!Next
<1> DEFINE U == {u \in Users : \A r \in Rooms : u \notin call'[r]}
<1>1. ASSUME NEW u \in Users
      PROVE  CallRoomOf(u)' = IF u \in U THEN NoRoom ELSE CallRoomOf(u)
  <2>1. CASE u \in U
    BY <2>1, WhereIsAfter DEF IInv, MapsAgree
  <2>2. CASE u \notin U
    <3>1. PICK r \in Rooms : u \in call'[r]
      BY <2>2
    <3>2. CallRoomOf(u)' = r /\ CallRoomOf(u) = r
      BY <3>1, WhereIs, WhereIsAfter DEF IInv, MapsAgree
    <3>3. QED
      BY <2>2, <3>2
  <2>3. QED
    BY <2>1, <2>2
<1>2. Promise!Quit(U)
  BY <1>1, SharesAgree DEF Promise!Quit
<1>3. QED
  BY <1>2 DEF Promise!Next

\* Users who leave the calls of rooms they are no longer members of do so with
\* the change of rows.
LEMMA EvictingIsChanging ==
    ASSUME IInv, IInv', SharesFollow,
           \A r \in Rooms : call'[r] = call[r] \cap members'[r]
    PROVE  Promise!Next
<1>1. ASSUME NEW u \in Users
      PROVE  CallRoomOf(u)' = IF CallRoomOf(u) # NoRoom
                                 /\ u \notin members'[CallRoomOf(u)]
                              THEN NoRoom ELSE CallRoomOf(u)
  BY WhereIs, WhereIsAfter DEF IInv, MapsAgree
<1>2. members' \in [Rooms -> SUBSET Users]
  BY DEF IInv, ConnectionsTypeOK
<1>3. Promise!ChangeMembers
  BY <1>1, <1>2, SharesAgree DEF Promise!ChangeMembers
<1>4. QED
  BY <1>3 DEF Promise!Next

\* Joining is entering one call out of any other.
LEMMA JoiningIsEntering ==
    ASSUME IInv, IInv', NEW s \in Sockets, NEW r \in Rooms, JoinCall(s, r)
    PROVE  Promise!Next
<1> DEFINE u == Owner[s]
<1>1. u \in Users /\ u \in members[r] /\ members' = members
  BY OwnerAssumption DEF JoinCall
<1>2. ASSUME NEW q \in Rooms
      PROVE  call'[q] = IF q = r THEN call[q] \cup {u} ELSE call[q] \ {u}
  BY DEF JoinCall, OtherCalls, CallsOf, IInv, MapsAgree, CallTypeOK
<1>3. SharesFollow
  <2>1. ASSUME NEW q \in Rooms
        PROVE  sharing'[q] = IF sharing[q] \in call'[q] THEN sharing[q] ELSE NoUser
    <3>1. CASE q \in OtherCalls(u, r)
      BY <1>2, <3>1 DEF JoinCall, OtherCalls, CallsOf, ShareAfter, IInv, MapsAgree,
         CallTypeOK, SharerIsInTheCall
    <3>2. CASE q \notin OtherCalls(u, r)
      <4>1. sharing'[q] = sharing[q] /\ call[q] \subseteq call'[q]
        BY <1>2, <3>2 DEF JoinCall, OtherCalls, CallsOf
      <4>2. QED
        BY <4>1 DEF IInv, MapsAgree, SharerIsInTheCall
    <3>3. QED
      BY <3>1, <3>2
  <2>2. QED
    BY <2>1 DEF JoinCall, SharesFollow
<1>4. ASSUME NEW v \in Users
      PROVE  CallRoomOf(v)' = IF v = u THEN r ELSE CallRoomOf(v)
  <2>1. CASE v = u
    BY <1>2, <2>1, WhereIsAfter DEF IInv, MapsAgree
  <2>2. CASE v # u
    <3>1. \A q \in Rooms : v \in call'[q] <=> v \in call[q]
      BY <1>2, <2>2
    <3>2. /\ \A q \in Rooms : CallRoomOf(v)' = q <=> CallRoomOf(v) = q
          /\ CallRoomOf(v)' = NoRoom <=> CallRoomOf(v) = NoRoom
          /\ CallRoomOf(v)' = NoRoom \/ CallRoomOf(v)' \in Rooms
      BY <3>1, WhereIs, WhereIsAfter DEF IInv, MapsAgree
    <3>3. QED
      BY <2>2, <3>2
  <2>3. QED
    BY <2>1, <2>2
<1>5. [v \in Users |-> CallRoomOf(v)]'
        = [[v \in Users |-> CallRoomOf(v)] EXCEPT ![u] = r]
  BY <1>4
<1>6. Promise!Enter(u, r)
  BY <1>1, <1>3, <1>5, SharesAgree DEF Promise!Enter
<1>7. QED
  BY <1>1, <1>6 DEF Promise!Next

-----------------------------------------------------------------------------

LEMMA QuietIsStuttering ==
    ASSUME UNCHANGED <<members, call, sharing>>
    PROVE  UNCHANGED Promise!vars
BY DEF Promise!vars, CallRoomOf

\* What a removal did to the shares is what the promise says.
LEMMA RemovalFollows ==
    ASSUME IInv, NEW u \in Users, NEW R, RemoveFromCalls(u, R)
    PROVE  SharesFollow
BY RemoveKeepsMaps DEF IInv, SharesFollow, RemoveFromCalls

LEMMA ConnectionStepKeepsPromise ==
    ASSUME IInv, IInv', ConnectionStep
    PROVE  [Promise!Next]_(Promise!vars)
<1>1. ASSUME NEW s \in Sockets, Detach(s), UNCHANGED members
      PROVE  [Promise!Next]_(Promise!vars)
  <2>1. CASE LastOf(s) = {}
    BY <1>1, <2>1, QuietIsStuttering DEF Detach, callVars
  <2>2. CASE LastOf(s) # {}
    <3>1. RemoveFromCalls(Owner[s], Rooms) /\ Owner[s] \in Users
      BY <1>1, <2>2, OwnerAssumption DEF Detach
    <3>2. QED
      BY <1>1, <3>1, RemovalFollows, RemoveKeepsMaps, LeavingIsQuitting DEF IInv
  <2>3. QED
    BY <2>1, <2>2
<1>2. ASSUME NEW s \in Sockets,
             \/ Connect(s) \/ PeerLost(s) \/ CloseStarts(s)
             \/ ErrorEvent(s) \/ CloseEvent(s) \/ PingTimeout(s)
      PROVE  [Promise!Next]_(Promise!vars)
  BY <1>1, <1>2, QuietIsStuttering
     DEF Connect, PeerLost, CloseStarts, ErrorEvent, CloseEvent, PingTimeout, callVars
<1>3. ASSUME NEW u \in Users, SendToUser(u)
      PROVE  [Promise!Next]_(Promise!vars)
  BY <1>3, QuietIsStuttering DEF SendToUser, callVars
<1>4. CASE Restart
  <2>1. /\ call' = [r \in Rooms |-> {}]
        /\ sharing' = [r \in Rooms |-> NoUser]
        /\ members' = members
    BY <1>4 DEF Restart, ProcessRestarts
  <2>2. SharesFollow
    BY <2>1 DEF SharesFollow
  <2>3. QED
    BY <2>1, <2>2, LeavingIsQuitting
<1>5. QED
  BY <1>2, <1>3, <1>4 DEF ConnectionStep

LEMMA FrameStepKeepsPromise ==
    ASSUME IInv, IInv', FrameStep
    PROVE  [Promise!Next]_(Promise!vars)
<1>1. PICK s \in Sockets, r \in Rooms :
        \/ JoinCall(s, r) \/ LeaveCall(s, r)
        \/ ScreenShareStart(s, r) \/ ScreenShareStop(s, r)
        \/ \E to \in Users : Signal(s, r, to)
  BY DEF FrameStep
<1> DEFINE u == Owner[s]
<1>2. u \in Users
  BY OwnerAssumption
<1>3. CASE JoinCall(s, r)
  BY <1>3, JoiningIsEntering
<1>4. CASE LeaveCall(s, r)
  BY <1>2, <1>4, RemovalFollows, RemoveKeepsMaps, LeavingIsQuitting DEF LeaveCall, IInv
<1>5. CASE ScreenShareStart(s, r)
  <2>1. UNCHANGED <<members, call>> /\ u \in call[r] /\ sharing[r] = NoUser
        /\ sharing' = [sharing EXCEPT ![r] = u]
    BY <1>5 DEF ScreenShareStart, ShareIsFree
  <2>2. CallRoomOf(u) = r
    BY <1>2, <2>1, WhereIs DEF IInv, MapsAgree
  <2>3. Promise!StartSharing(u, r)
    BY <1>2, <2>1, <2>2 DEF Promise!StartSharing, CallRoomOf
  <2>4. QED
    BY <1>2, <2>3 DEF Promise!Next
<1>6. CASE ScreenShareStop(s, r)
  <2>1. Promise!StopSharing(r)
    BY <1>6 DEF ScreenShareStop, Promise!StopSharing, CallRoomOf
  <2>2. QED
    BY <2>1 DEF Promise!Next
<1>7. CASE \E to \in Users : Signal(s, r, to)
  BY <1>7, QuietIsStuttering DEF Signal, callVars
<1>8. QED
  BY <1>1, <1>3, <1>4, <1>5, <1>6, <1>7

LEMMA MembershipStepKeepsPromise ==
    ASSUME IInv, IInv', MembershipStep
    PROVE  [Promise!Next]_(Promise!vars)
<1>1. ASSUME NEW r \in Rooms, NEW u \in Users, AddMember(r, u)
      PROVE  [Promise!Next]_(Promise!vars)
  <2>1. /\ members' = [members EXCEPT ![r] = @ \cup {u}]
        /\ UNCHANGED <<call, sharing>>
    BY <1>1 DEF AddMember, callVars
  <2>2. \A q \in Rooms : call'[q] = call[q] \cap members'[q]
    BY <2>1 DEF IInv, CallersAreMembers, ConnectionsTypeOK
  <2>3. SharesFollow
    BY <2>1 DEF SharesFollow, IInv, MapsAgree, CallTypeOK, SharerIsInTheCall
  <2>4. QED
    BY <2>2, <2>3, EvictingIsChanging
<1>2. ASSUME NEW r \in Rooms, NEW u \in Users, NEW kicked \in BOOLEAN,
             RemoveMember(r, u, kicked)
      PROVE  [Promise!Next]_(Promise!vars)
  <2>1. /\ members' = [members EXCEPT ![r] = @ \ {u}]
        /\ RemoveFromCalls(u, {r})
    BY <1>2 DEF RemoveMember
  <2>2. \A q \in Rooms : call'[q] = call[q] \ IF q = r THEN {u} ELSE {}
    BY <2>1 DEF RemoveFromCalls, CallsOf
  <2>3. \A q \in Rooms : call'[q] = call[q] \cap members'[q]
    BY <2>1, <2>2 DEF IInv, CallersAreMembers, ConnectionsTypeOK
  <2>4. QED
    BY <2>1, <2>3, RemovalFollows, EvictingIsChanging
<1>3. ASSUME NEW r \in Rooms, DeleteRoom(r)
      PROVE  [Promise!Next]_(Promise!vars)
  <2>1. /\ members' = [members EXCEPT ![r] = {}]
        /\ call' = [call EXCEPT ![r] = {}]
    BY <1>3 DEF DeleteRoom
  <2>2. \A q \in Rooms : call'[q] = call[q] \cap members'[q]
    BY <2>1 DEF IInv, CallersAreMembers, ConnectionsTypeOK, MapsAgree, CallTypeOK
  <2>3. SharesFollow
    <3>1. \A q \in Rooms : call'[q] = IF q = r THEN {} ELSE call[q]
      BY <2>1 DEF IInv, MapsAgree, CallTypeOK
    <3>2. \A q \in Rooms : sharing'[q] = IF q = r THEN NoUser ELSE sharing[q]
      BY <1>3 DEF DeleteRoom, ShareAfter, IInv, MapsAgree, CallTypeOK, SharerIsInTheCall
    <3>3. \A q \in Rooms :
            sharing'[q] = IF sharing[q] \in call'[q] THEN sharing[q] ELSE NoUser
      BY <3>1, <3>2 DEF IInv, MapsAgree, SharerIsInTheCall
    <3>4. sharing' \in [Rooms -> Users \cup {NoUser}]
      BY DEF IInv, MapsAgree, CallTypeOK
    <3>5. QED
      BY <3>3, <3>4 DEF SharesFollow
  <2>4. QED
    BY <2>2, <2>3, EvictingIsChanging
<1>4. ASSUME NEW u \in Users, RetireUser(u)
      PROVE  [Promise!Next]_(Promise!vars)
  <2> DEFINE was == {r \in Rooms : u \in members[r]}
  <2>1. /\ members' = [r \in Rooms |-> members[r] \ {u}]
        /\ RemoveFromCalls(u, was)
    BY <1>4 DEF RetireUser
  <2>2. \A q \in Rooms : call'[q] = call[q] \ {u}
    BY <2>1 DEF RemoveFromCalls, CallsOf, IInv, CallersAreMembers
  <2>3. \A q \in Rooms : call'[q] = call[q] \cap members'[q]
    BY <2>1, <2>2 DEF IInv, CallersAreMembers
  <2>4. QED
    BY <2>1, <2>3, RemovalFollows, EvictingIsChanging
<1>5. QED
  BY <1>1, <1>2, <1>3, <1>4 DEF MembershipStep

LEMMA TimerStepKeepsPromise ==
    ASSUME IInv, IInv', TimerStep
    PROVE  [Promise!Next]_(Promise!vars)
<1>1. PICK r \in Rooms : AloneTimePasses(r) \/ AloneTimeout(r)
  BY DEF TimerStep
<1>2. CASE AloneTimePasses(r)
  BY <1>2, QuietIsStuttering DEF AloneTimePasses, connectionVars
<1>3. CASE AloneTimeout(r) /\ call[r] = {alone[r]}
  <2>1. /\ alone[r] \in Users
        /\ RemoveFromCalls(alone[r], {r})
        /\ members' = members
    BY <1>3 DEF AloneTimeout, IInv, MapsAgree, CallTypeOK
  <2>2. QED
    BY <2>1, RemovalFollows, RemoveKeepsMaps, LeavingIsQuitting DEF IInv
<1>4. CASE AloneTimeout(r) /\ call[r] # {alone[r]}
  BY <1>4, QuietIsStuttering DEF AloneTimeout
<1>5. QED
  BY <1>1, <1>2, <1>3, <1>4

LEMMA NextKeepsPromise ==
    ASSUME IInv, IInv', [Next]_vars
    PROVE  [Promise!Next]_(Promise!vars)
<1>1. CASE UNCHANGED vars
  BY <1>1, QuietIsStuttering DEF vars, connectionVars, callVars
<1>2. QED
  BY <1>1, ConnectionStepKeepsPromise, FrameStepKeepsPromise,
     MembershipStepKeepsPromise, TimerStepKeepsPromise DEF Next

\* At the start nobody is in a call, in the maps as in the promise.
LEMMA InitKeepsPromise == Init => Promise!Init
BY DEF Init, ConnectionsInit, NobodyInCalls, Promise!Init, CallRoomOf

\* Every behaviour of the call manager is one the promise allows.
THEOREM Refinement == Spec => KeepsCallPromise
<1>1. IInv /\ IInv' /\ [Next]_vars => [Promise!Next]_(Promise!vars)
  BY NextKeepsPromise
<1>2. QED
  BY <1>1, InitKeepsPromise, Invariance, PTL DEF Spec, KeepsCallPromise, Promise!Spec

\* A share passes from one user to another only through nobody.
THEOREM NoTakeover == Spec => ShareIsNotTakenOver
<1>1. ASSUME IInv, IInv', [Next]_vars
      PROVE  [ \A r \in Rooms : sharing[r] # NoUser
                 => sharing'[r] \in {sharing[r], NoUser} ]_vars
  <2>1. Promise!Next \/ UNCHANGED Promise!vars
    BY <1>1, NextKeepsPromise
  <2>2. CASE Promise!SharesOfThoseStill
    BY <2>2 DEF Promise!SharesOfThoseStill
  <2>3. CASE \E u \in Users, r \in Rooms : Promise!StartSharing(u, r)
    BY <2>3, <1>1 DEF Promise!StartSharing, IInv, MapsAgree, CallTypeOK
  <2>4. CASE \E r \in Rooms : Promise!StopSharing(r)
    BY <2>4, <1>1 DEF Promise!StopSharing, IInv, MapsAgree, CallTypeOK
  <2>5. CASE UNCHANGED Promise!vars
    BY <2>5 DEF Promise!vars
  <2>6. QED
    BY <2>1, <2>2, <2>3, <2>4, <2>5
       DEF Promise!Next, Promise!Enter, Promise!Quit, Promise!ChangeMembers
<1>2. QED
  BY <1>1, Invariance, PTL DEF Spec, ShareIsNotTakenOver

=============================================================================
