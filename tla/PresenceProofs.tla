---------------------------- MODULE PresenceProofs ----------------------------
(***************************************************************************)
(* Proofs about Presence, for any users, sockets, rooms and cap.           *)
(*                                                                         *)
(* Two strengthenings.  Presence is real because a registered socket       *)
(* always has a cleaning close event to come.  The cap holds because every *)
(* socket that can be sent to is registered: what attachUserSocket counts  *)
(* is all there is, whatever sends and timeouts have trimmed.              *)
(***************************************************************************)
EXTENDS Presence, TLAPS, FiniteSetTheorems

PresenceTypeOK ==
    /\ seat \in [Sockets -> Rooms \cup {NoRoom}]
    /\ held \in [Sockets -> Rooms \cup {NoRoom}]
    /\ typing \in [Rooms -> SUBSET Users]
    /\ due \subseteq Rooms \X Users

\* A registered socket will clean up when it closes.
RegisteredCleanUp == \A s \in entry : Cleans(conn[s])

SeatsAreReal ==
    \A s \in Sockets : seat[s] # NoRoom =>
        Owner[s] \in members[seat[s]] /\ held[s] = seat[s] /\ Cleans(conn[s])

TypistsAreReal ==
    \A r \in Rooms : \A u \in typing[r] :
        u \in members[r] /\ \E s \in SocketsOf(u) : Cleans(conn[s])

IInv ==
    /\ ConnectionsTypeOK
    /\ PresenceTypeOK
    /\ RegisteredCleanUp
    /\ SeatsAreReal
    /\ TypistsAreReal

\* The sockets of u that a send reaches.
Reached(u) == {s \in SocketsOf(u) : Sendable(conn[s])}

CapInv ==
    /\ IsFiniteSet(entry)
    /\ \A s \in Sockets : Sendable(conn[s]) => s \in entry
    /\ SocketCap

-----------------------------------------------------------------------------
(* Facts about the helpers.                                                *)

\* Pruning only takes sockets away, and none that can be sent to.
LEMMA PruneFacts ==
    ASSUME NEW C, NEW E \in SUBSET Sockets, NEW U
    PROVE  /\ Prune(C, E, U) \subseteq E
           /\ \A s \in E : Sendable(C[s]) => s \in Prune(C, E, U)
BY DEF Prune

\* stopTyping in some rooms leaves every other name there.
LEMMA StopTypingFacts ==
    ASSUME PresenceTypeOK, NEW u, NEW R, StopTyping(u, R)
    PROVE  /\ typing' \in [Rooms -> SUBSET Users]
           /\ due' \subseteq Rooms \X Users
           /\ \A r \in Rooms : typing'[r] \subseteq typing[r]
           /\ \A r \in Rooms \cap R : u \notin typing'[r]
<1>1. /\ typing' = [r \in Rooms |-> typing[r] \ IF r \in R THEN {u} ELSE {}]
      /\ due' \subseteq due
  BY DEF StopTyping
<1>2. \A r \in Rooms : typing'[r] \subseteq typing[r] /\ typing'[r] \in SUBSET Users
  BY <1>1 DEF PresenceTypeOK
<1>3. QED
  BY <1>1, <1>2 DEF PresenceTypeOK

\* A socket that leaves its room has no seat afterwards, even where the set and
\* the handler disagreed, and nobody else gets one.
LEMMA SeatLeftFacts ==
    ASSUME IInv, NEW s \in Sockets
    PROVE  /\ SeatLeft(s) \in [Sockets -> Rooms \cup {NoRoom}]
           /\ SeatLeft(s)[s] = NoRoom
           /\ \A t \in Sockets : SeatLeft(s)[t] # NoRoom => SeatLeft(s)[t] = seat[t]
<1>1. CASE held[s] = NoRoom
  BY <1>1 DEF SeatLeft, IInv, PresenceTypeOK, SeatsAreReal
<1>2. CASE held[s] # NoRoom
  <2> DEFINE S == [seat EXCEPT ![s] = NoRoom]
  <2>1. SeatLeft(s) = [t \in Sockets |-> IF S[t] = held[s] /\ t # s /\ ~Sendable(conn'[t])
                                         THEN NoRoom ELSE S[t]]
    BY <1>2 DEF SeatLeft, PruneSeats
  <2>2. S \in [Sockets -> Rooms \cup {NoRoom}] /\ S[s] = NoRoom
        /\ \A t \in Sockets : S[t] # NoRoom => S[t] = seat[t]
    BY DEF IInv, PresenceTypeOK
  <2>3. QED
    BY <2>1, <2>2
<1>3. QED
  BY <1>1, <1>2

\* After leaveCurrentRoom of a socket whose state alone changed, seats are real.
LEMMA LeavingKeepsSeats ==
    ASSUME IInv, NEW s \in Sockets, NEW c \in ConnState,
           conn' = [conn EXCEPT ![s] = c], UNCHANGED members, LeaveCurrentRoom(s)
    PROVE  /\ seat' \in [Sockets -> Rooms \cup {NoRoom}]
           /\ held' \in [Sockets -> Rooms \cup {NoRoom}]
           /\ SeatsAreReal'
<1>1. /\ seat' \in [Sockets -> Rooms \cup {NoRoom}]
      /\ seat'[s] = NoRoom
      /\ \A t \in Sockets : seat'[t] # NoRoom => seat'[t] = seat[t]
  BY SeatLeftFacts DEF LeaveCurrentRoom
<1>2. /\ held' \in [Sockets -> Rooms \cup {NoRoom}]
      /\ \A t \in Sockets \ {s} : held'[t] = held[t] /\ conn'[t] = conn[t]
  BY DEF LeaveCurrentRoom, IInv, PresenceTypeOK, ConnectionsTypeOK
<1>3. SeatsAreReal'
  BY <1>1, <1>2 DEF IInv, SeatsAreReal
<1>4. QED
  BY <1>1, <1>2, <1>3

\* A socket that is detached, whatever becomes of it, leaves nobody typing who
\* has no other socket.
LEMMA DetachKeepsTypists ==
    ASSUME IInv, NEW s \in Sockets, NEW c \in ConnState,
           conn' = [conn EXCEPT ![s] = c], UNCHANGED members, Detach(s)
    PROVE  /\ ConnectionsTypeOK' /\ RegisteredCleanUp'
           /\ typing' \in [Rooms -> SUBSET Users] /\ due' \subseteq Rooms \X Users
           /\ TypistsAreReal'
<1> DEFINE u == Owner[s]
<1> USE OwnerAssumption
<1>1. \A t \in Sockets \ {s} : conn'[t] = conn[t]
  BY DEF IInv, ConnectionsTypeOK
<1>2. entry' \subseteq entry \ {s}
  BY PruneFacts DEF Detach, IInv, ConnectionsTypeOK
<1>3. ConnectionsTypeOK' /\ RegisteredCleanUp'
  BY <1>1, <1>2 DEF IInv, ConnectionsTypeOK, RegisteredCleanUp
<1>4. \A r \in Rooms : \A v \in typing[r] : v # u =>
          \E t \in SocketsOf(v) : Cleans(conn'[t])
  BY <1>1 DEF IInv, TypistsAreReal, SocketsOf
<1>5. CASE LastOf(s) = {}
  <2>1. UNCHANGED <<typing, due>>
    BY <1>5 DEF Detach
  <2>2. PICK t \in entry \ {s} : Owner[t] = u
    BY <1>5 DEF LastOf, Online
  <2>3. t \in SocketsOf(u) /\ Cleans(conn'[t])
    BY <1>1, <2>2 DEF IInv, ConnectionsTypeOK, RegisteredCleanUp, SocketsOf
  <2>4. TypistsAreReal'
    BY <1>4, <2>1, <2>3 DEF IInv, TypistsAreReal, SocketsOf
  <2>5. QED
    BY <1>3, <2>1, <2>4 DEF IInv, PresenceTypeOK
<1>6. CASE LastOf(s) # {}
  <2>1. StopTyping(u, Rooms)
    BY <1>6 DEF Detach
  <2>2. /\ typing' \in [Rooms -> SUBSET Users] /\ due' \subseteq Rooms \X Users
        /\ \A r \in Rooms : typing'[r] \subseteq typing[r] /\ u \notin typing'[r]
    BY <2>1, StopTypingFacts DEF IInv
  <2>3. TypistsAreReal'
    BY <1>4, <2>2 DEF IInv, TypistsAreReal, SocketsOf
  <2>4. QED
    BY <1>3, <2>2, <2>3
<1>7. QED
  BY <1>5, <1>6

\* A step that seats nobody, adds no name, loses no socket that will clean up,
\* and takes no row from anybody still seated or typing.
LEMMA ShrinkKeepsIInv ==
    ASSUME IInv, ConnectionsTypeOK', PresenceTypeOK', RegisteredCleanUp',
           \A s \in Sockets : seat'[s] # NoRoom =>
               /\ seat'[s] = seat[s] /\ held'[s] = held[s]
               /\ Owner[s] \in members[seat[s]] => Owner[s] \in members'[seat[s]],
           \A r \in Rooms : \A u \in typing'[r] :
               u \in typing[r] /\ (u \in members[r] => u \in members'[r]),
           \A s \in Sockets : Cleans(conn[s]) => Cleans(conn'[s])
    PROVE  IInv'
<1>1. SeatsAreReal'
  BY DEF IInv, SeatsAreReal
<1>2. TypistsAreReal'
  <2>1. ASSUME NEW r \in Rooms, NEW u \in typing'[r]
        PROVE  u \in members'[r] /\ \E s \in SocketsOf(u) : Cleans(conn'[s])
    <3>1. u \in members[r] /\ \E s \in SocketsOf(u) : Cleans(conn[s])
      BY <2>1 DEF IInv, TypistsAreReal
    <3>2. QED
      BY <2>1, <3>1 DEF SocketsOf
  <2>2. QED
    BY <2>1 DEF TypistsAreReal, SocketsOf
<1>3. QED
  BY <1>1, <1>2 DEF IInv

\* Steps that change no seat and no name.
LEMMA QuietStepKeepsIInv ==
    ASSUME IInv, UNCHANGED <<seat, held, typing>>, due' \subseteq Rooms \X Users,
           ConnectionsTypeOK', RegisteredCleanUp',
           \A s \in Sockets : Cleans(conn[s]) => Cleans(conn'[s]),
           \A r \in Rooms : members[r] \subseteq members'[r]
    PROVE  IInv'
<1>1. PresenceTypeOK'
  BY DEF IInv, PresenceTypeOK
<1>2. \A s \in Sockets : seat[s] # NoRoom => seat[s] \in Rooms
  BY DEF IInv, PresenceTypeOK
<1>3. QED
  BY <1>1, <1>2, ShrinkKeepsIInv

\* After evictFromRoom of u from some rooms, none of u's sockets is seated and
\* u is not typing in any of them; everybody else only loses a dead seat.
LEMMA EvictFacts ==
    ASSUME IInv, NEW u, NEW R \in SUBSET Rooms, Evict(u, R)
    PROVE  /\ PresenceTypeOK'
           /\ \A s \in Sockets : seat'[s] # NoRoom =>
                /\ seat'[s] = seat[s] /\ held'[s] = held[s]
                /\ ~ (Owner[s] = u /\ seat[s] \in R)
           /\ \A r \in Rooms : typing'[r] \subseteq typing[r]
           /\ \A r \in R : u \notin typing'[r]
<1> DEFINE gone == UNION {SeatsOf(u, r) : r \in R}
           left == [s \in Sockets |-> IF s \in gone THEN NoRoom ELSE seat[s]]
           told == {seat[s] : s \in gone}
<1>1. /\ seat' = [s \in Sockets |->
              IF left[s] \in told /\ ~Sendable(conn'[s]) THEN NoRoom ELSE left[s]]
      /\ held' = [s \in Sockets |-> IF s \in gone THEN NoRoom ELSE held[s]]
      /\ StopTyping(u, R)
  BY DEF Evict
<1>2. \A s \in Sockets : Owner[s] = u /\ seat[s] \in R => s \in gone
  BY DEF SeatsOf, SocketsOf
<1> HIDE DEF gone, told
<1>3. \A s \in Sockets : left[s] = IF s \in gone THEN NoRoom ELSE seat[s]
  OBVIOUS
<1> HIDE DEF left
<1>4. \A s \in Sockets : seat'[s] # NoRoom =>
          seat'[s] = seat[s] /\ held'[s] = held[s] /\ s \notin gone
  BY <1>1, <1>3
<1>5. /\ seat' \in [Sockets -> Rooms \cup {NoRoom}]
      /\ held' \in [Sockets -> Rooms \cup {NoRoom}]
  BY <1>1, <1>3 DEF IInv, PresenceTypeOK
<1>6. /\ typing' \in [Rooms -> SUBSET Users] /\ due' \subseteq Rooms \X Users
      /\ \A r \in Rooms : typing'[r] \subseteq typing[r]
      /\ \A r \in R : u \notin typing'[r]
  BY <1>1, StopTypingFacts DEF IInv
<1>7. QED
  BY <1>2, <1>4, <1>5, <1>6 DEF PresenceTypeOK

-----------------------------------------------------------------------------
(* The steps.                                                              *)

LEMMA InitIInv == Init => IInv
<1> SUFFICES ASSUME Init PROVE IInv
  OBVIOUS
<1>1. ConnectionsTypeOK /\ RegisteredCleanUp
  BY DEF Init, ConnectionsInit, ConnectionsTypeOK, ConnState, RegisteredCleanUp
<1>2. PresenceTypeOK /\ SeatsAreReal /\ TypistsAreReal
  BY DEF Init, NobodyPresent, PresenceTypeOK, SeatsAreReal, TypistsAreReal
<1>3. QED
  BY <1>1, <1>2 DEF IInv

LEMMA ConnectionStepKeepsIInv == IInv /\ ConnectionStep => IInv'
<1> SUFFICES ASSUME IInv, ConnectionStep PROVE IInv'
  OBVIOUS
<1> USE DEF ConnState
<1>1. ASSUME NEW s \in Sockets, Connect(s) PROVE IInv'
  BY <1>1, QuietStepKeepsIInv
     DEF Connect, Attach, presenceVars, IInv, ConnectionsTypeOK, PresenceTypeOK,
         RegisteredCleanUp, Cleans, SocketsOf
<1>2. ASSUME NEW s \in Sockets, PeerLost(s) \/ CloseStarts(s) PROVE IInv'
  BY <1>2, QuietStepKeepsIInv
     DEF PeerLost, LosePeer, CloseStarts, StartClose, Sendable, presenceVars, IInv,
         ConnectionsTypeOK, PresenceTypeOK, RegisteredCleanUp, Cleans
<1>3. ASSUME NEW s \in Sockets, NEW c \in ConnState, conn' = [conn EXCEPT ![s] = c],
             LeaveCurrentRoom(s), Detach(s), UNCHANGED members
      PROVE  IInv'
  BY <1>3, LeavingKeepsSeats, DetachKeepsTypists DEF IInv, PresenceTypeOK
<1>4. ASSUME NEW s \in Sockets, ErrorEvent(s) PROVE IInv'
  BY <1>3, <1>4 DEF ErrorEvent, SocketFails
<1>5. ASSUME NEW s \in Sockets, CloseEvent(s) PROVE IInv'
  <2>1. CASE SocketCloses(s) /\ LeaveCurrentRoom(s) /\ Detach(s) /\ UNCHANGED members
    BY <1>3, <2>1 DEF SocketCloses
  <2>2. CASE /\ SocketClosesAfterError(s) /\ LeaveCurrentRoom(s)
             /\ UNCHANGED <<members, typing, due>>
    <3>1. /\ conn[s] = "errored" /\ conn' = [conn EXCEPT ![s] = "absent"] /\ entry' = entry
      BY <2>2 DEF SocketClosesAfterError
    <3>2. /\ seat' \in [Sockets -> Rooms \cup {NoRoom}]
          /\ held' \in [Sockets -> Rooms \cup {NoRoom}]
          /\ SeatsAreReal'
      BY <2>2, <3>1, LeavingKeepsSeats
    <3>3. \A t \in Sockets : Cleans(conn[t]) => Cleans(conn'[t])
      BY <3>1 DEF IInv, ConnectionsTypeOK, Cleans
    <3>4. ConnectionsTypeOK' /\ RegisteredCleanUp' /\ TypistsAreReal'
      BY <2>2, <3>1, <3>3
         DEF IInv, ConnectionsTypeOK, RegisteredCleanUp, TypistsAreReal, SocketsOf
    <3>5. QED
      BY <2>2, <3>2, <3>4 DEF IInv, PresenceTypeOK
  <2>3. QED
    BY <1>5, <2>1, <2>2 DEF CloseEvent
<1>6. ASSUME NEW s \in Sockets, PingTimeout(s) PROVE IInv'
  <2>1. /\ s \in entry /\ conn' = [conn EXCEPT ![s] = "closing"]
        /\ Detach(s) /\ UNCHANGED <<members, seat, held>>
    BY <1>6 DEF PingTimeout, PingExpires
  <2>2. SeatsAreReal'
    BY <2>1 DEF IInv, SeatsAreReal, ConnectionsTypeOK, Cleans
  <2>3. QED
    BY <2>1, <2>2, DetachKeepsTypists DEF IInv, PresenceTypeOK
<1>7. ASSUME NEW s \in Sockets, PingDropsSeat(s) PROVE IInv'
  <2>1. /\ seat[s] # NoRoom /\ conn' = [conn EXCEPT ![s] = "closing"]
        /\ seat' = [seat EXCEPT ![s] = NoRoom]
        /\ UNCHANGED <<entry, members, held, typing, due>>
    BY <1>7 DEF PingDropsSeat
  <2>2. /\ ConnectionsTypeOK' /\ PresenceTypeOK' /\ RegisteredCleanUp'
        /\ \A t \in Sockets : seat'[t] # NoRoom => seat'[t] = seat[t]
        /\ \A t \in Sockets : Cleans(conn[t]) => Cleans(conn'[t])
    BY <2>1 DEF IInv, ConnectionsTypeOK, PresenceTypeOK, RegisteredCleanUp, Cleans
  <2>3. QED
    BY <2>1, <2>2, ShrinkKeepsIInv
<1>8. ASSUME NEW u \in Users, SendToUser(u) PROVE IInv'
  <2>1. entry' \subseteq entry
    BY <1>8, PruneFacts DEF SendToUser, IInv, ConnectionsTypeOK
  <2>2. QED
    BY <1>8, <2>1, QuietStepKeepsIInv
       DEF SendToUser, presenceVars, IInv, ConnectionsTypeOK, PresenceTypeOK,
           RegisteredCleanUp
<1>9. ASSUME Restart PROVE IInv'
  <2>1. ConnectionsTypeOK' /\ RegisteredCleanUp'
    BY <1>9 DEF Restart, ProcessRestarts, IInv, ConnectionsTypeOK, RegisteredCleanUp
  <2>2. PresenceTypeOK' /\ SeatsAreReal' /\ TypistsAreReal'
    BY <1>9 DEF Restart, PresenceTypeOK, SeatsAreReal, TypistsAreReal
  <2>3. QED
    BY <2>1, <2>2 DEF IInv
<1>10. QED
  BY <1>1, <1>2, <1>4, <1>5, <1>6, <1>7, <1>8, <1>9 DEF ConnectionStep

LEMMA FrameStepKeepsIInv == IInv /\ FrameStep => IInv'
<1> SUFFICES ASSUME IInv, NEW s \in Sockets, NEW r \in Rooms,
                    JoinRoom(s, r) \/ TouchTyping(s, r) \/ TypingFrameStops(s, r)
             PROVE  IInv'
  BY DEF FrameStep
<1> DEFINE u == Owner[s]
<1> USE OwnerAssumption
<1>1. CASE JoinRoom(s, r)
  <2> DEFINE S == [SeatLeft(s) EXCEPT ![s] = r]
  <2>1. /\ Heard(s) /\ u \in members[r]
        /\ UNCHANGED <<conn, entry, members, typing, due>>
        /\ seat' = [t \in Sockets |-> IF S[t] = r /\ t # s /\ ~Sendable(conn[t])
                                      THEN NoRoom ELSE S[t]]
        /\ held' = [held EXCEPT ![s] = r]
    BY <1>1 DEF JoinRoom, PruneSeats
  <2>2. /\ S \in [Sockets -> Rooms \cup {NoRoom}] /\ S[s] = r
        /\ \A t \in Sockets \ {s} : S[t] # NoRoom => S[t] = seat[t]
    BY SeatLeftFacts
  <2> HIDE DEF S
  <2>3. /\ seat' \in [Sockets -> Rooms \cup {NoRoom}] /\ seat'[s] = r
        /\ \A t \in Sockets \ {s} : seat'[t] # NoRoom => seat'[t] = seat[t]
    BY <2>1, <2>2
  <2>4. /\ held' \in [Sockets -> Rooms \cup {NoRoom}] /\ held'[s] = r
        /\ \A t \in Sockets \ {s} : held'[t] = held[t]
    BY <2>1 DEF IInv, PresenceTypeOK
  <2>5. SeatsAreReal'
    BY <2>1, <2>3, <2>4 DEF IInv, SeatsAreReal, Heard, Cleans
  <2>6. PresenceTypeOK'
    BY <2>1, <2>3, <2>4 DEF IInv, PresenceTypeOK
  <2>7. ConnectionsTypeOK' /\ RegisteredCleanUp' /\ TypistsAreReal'
    BY <2>1 DEF IInv, ConnectionsTypeOK, RegisteredCleanUp, TypistsAreReal
  <2>8. QED
    BY <2>5, <2>6, <2>7 DEF IInv
<1>2. CASE TouchTyping(s, r)
  <2>1. /\ Heard(s) /\ u \in members[r] /\ UNCHANGED <<conn, members, seat, held>>
        /\ typing' = [typing EXCEPT ![r] = @ \cup {u}]
        /\ due' \subseteq due /\ entry' \subseteq entry
    BY <1>2, PruneFacts DEF TouchTyping, IInv, ConnectionsTypeOK
  <2>2. PresenceTypeOK' /\ ConnectionsTypeOK' /\ RegisteredCleanUp' /\ SeatsAreReal'
    BY <2>1 DEF IInv, PresenceTypeOK, ConnectionsTypeOK, RegisteredCleanUp, SeatsAreReal
  <2>3. \E t \in SocketsOf(u) : Cleans(conn[t])
    BY <2>1 DEF Heard, SocketsOf, Cleans
  <2>4. TypistsAreReal'
    BY <2>1, <2>3 DEF IInv, TypistsAreReal, PresenceTypeOK, SocketsOf
  <2>5. QED
    BY <2>2, <2>4 DEF IInv
<1>3. CASE TypingFrameStops(s, r)
  <2>1. /\ StopTyping(u, {r}) /\ UNCHANGED <<conn, members, seat, held>>
        /\ entry' \subseteq entry
    BY <1>3, PruneFacts DEF TypingFrameStops, IInv, ConnectionsTypeOK
  <2>2. PresenceTypeOK' /\ \A q \in Rooms : typing'[q] \subseteq typing[q]
    BY <2>1, StopTypingFacts DEF IInv, PresenceTypeOK
  <2>3. ConnectionsTypeOK' /\ RegisteredCleanUp'
    BY <2>1 DEF IInv, ConnectionsTypeOK, RegisteredCleanUp
  <2>4. QED
    BY <2>1, <2>2, <2>3, ShrinkKeepsIInv
<1>4. QED
  BY <1>1, <1>2, <1>3

LEMMA TimerStepKeepsIInv == IInv /\ TimerStep => IInv'
<1> SUFFICES ASSUME IInv, NEW r \in Rooms, NEW u \in Users,
                    TypingTimePasses(r, u) \/ TypingTimeout(r, u)
             PROVE  IInv'
  BY DEF TimerStep
<1>1. CASE TypingTimePasses(r, u)
  BY <1>1, QuietStepKeepsIInv
     DEF TypingTimePasses, connectionVars, IInv, ConnectionsTypeOK, PresenceTypeOK,
         RegisteredCleanUp
<1>2. CASE TypingTimeout(r, u)
  <2>1. /\ StopTyping(u, {r}) /\ UNCHANGED <<conn, members, seat, held>>
        /\ entry' \subseteq entry
    BY <1>2, PruneFacts DEF TypingTimeout, IInv, ConnectionsTypeOK
  <2>2. PresenceTypeOK' /\ \A q \in Rooms : typing'[q] \subseteq typing[q]
    BY <2>1, StopTypingFacts DEF IInv, PresenceTypeOK
  <2>3. ConnectionsTypeOK' /\ RegisteredCleanUp'
    BY <2>1 DEF IInv, ConnectionsTypeOK, RegisteredCleanUp
  <2>4. QED
    BY <2>1, <2>2, <2>3, ShrinkKeepsIInv
<1>3. QED
  BY <1>1, <1>2

\* Taking u out of some rooms and then out of what memory holds of them.
LEMMA RemovalKeepsIInv ==
    ASSUME IInv, NEW u \in Users, NEW R \in SUBSET Rooms, Evict(u, R),
           ConnectionsTypeOK', entry' \subseteq entry,
           \A s \in Sockets : Cleans(conn[s]) => Cleans(conn'[s]),
           \A r \in Rooms \ R : members'[r] = members[r],
           \A r \in R : members'[r] = members[r] \ {u}
    PROVE  IInv'
<1>1. /\ PresenceTypeOK'
      /\ \A s \in Sockets : seat'[s] # NoRoom =>
           /\ seat'[s] = seat[s] /\ held'[s] = held[s]
           /\ ~ (Owner[s] = u /\ seat[s] \in R)
      /\ \A r \in Rooms : typing'[r] \subseteq typing[r]
      /\ \A r \in R : u \notin typing'[r]
  BY EvictFacts
<1>2. \A s \in Sockets : seat'[s] # NoRoom /\ Owner[s] \in members[seat[s]]
          => Owner[s] \in members'[seat[s]]
  BY <1>1 DEF IInv, PresenceTypeOK
<1>3. \A r \in Rooms : \A v \in typing'[r] :
          v \in typing[r] /\ (v \in members[r] => v \in members'[r])
  BY <1>1
<1>4. RegisteredCleanUp'
  BY DEF IInv, RegisteredCleanUp, ConnectionsTypeOK
<1>5. QED
  BY <1>1, <1>2, <1>3, <1>4, ShrinkKeepsIInv

LEMMA MembershipStepKeepsIInv == IInv /\ MembershipStep => IInv'
<1> SUFFICES ASSUME IInv, MembershipStep PROVE IInv'
  OBVIOUS
<1>1. ASSUME NEW r \in Rooms, NEW u \in Users, AddMember(r, u) PROVE IInv'
  <2>1. entry' \subseteq entry
    BY <1>1, PruneFacts DEF AddMember, IInv, ConnectionsTypeOK
  <2>2. /\ ConnectionsTypeOK' /\ RegisteredCleanUp'
        /\ \A q \in Rooms : members[q] \subseteq members'[q]
    BY <1>1, <2>1 DEF AddMember, IInv, ConnectionsTypeOK, RegisteredCleanUp
  <2>3. QED
    BY <1>1, <2>2, QuietStepKeepsIInv DEF AddMember, presenceVars, IInv, PresenceTypeOK
<1>2. ASSUME NEW r \in Rooms, NEW u \in Users, NEW kicked \in BOOLEAN,
             RemoveMember(r, u, kicked)
      PROVE  IInv'
  <2>1. /\ members' = [members EXCEPT ![r] = @ \ {u}] /\ Evict(u, {r})
        /\ UNCHANGED conn /\ entry' \subseteq entry
    BY <1>2, PruneFacts DEF RemoveMember, IInv, ConnectionsTypeOK
  <2>2. /\ ConnectionsTypeOK' /\ members'[r] = members[r] \ {u}
        /\ \A q \in Rooms \ {r} : members'[q] = members[q]
    BY <2>1 DEF IInv, ConnectionsTypeOK
  <2>3. QED
    BY <2>1, <2>2, RemovalKeepsIInv
<1>3. ASSUME NEW r \in Rooms, DeleteRoom(r) PROVE IInv'
  <2> DEFINE seated == {s \in Sockets : seat[s] = r}
  <2>1. /\ members' = [members EXCEPT ![r] = {}]
        /\ typing' = [typing EXCEPT ![r] = @ \ members[r]]
        /\ due' \subseteq due
        /\ seat' = [s \in Sockets |-> IF s \in seated THEN NoRoom ELSE seat[s]]
        /\ held' = [s \in Sockets |-> IF s \in seated THEN NoRoom ELSE held[s]]
        /\ UNCHANGED conn /\ entry' \subseteq entry
    BY <1>3, PruneFacts DEF DeleteRoom, IInv, ConnectionsTypeOK
  <2>2. \A s \in Sockets : seat'[s] # NoRoom =>
            seat'[s] = seat[s] /\ held'[s] = held[s] /\ seat[s] # r
    BY <2>1
  <2>3. /\ typing'[r] = {}
        /\ \A q \in Rooms \ {r} : typing'[q] = typing[q] /\ members'[q] = members[q]
    BY <2>1 DEF IInv, PresenceTypeOK, ConnectionsTypeOK, TypistsAreReal
  <2>4. ConnectionsTypeOK' /\ PresenceTypeOK' /\ RegisteredCleanUp'
    BY <2>1 DEF IInv, ConnectionsTypeOK, PresenceTypeOK, RegisteredCleanUp
  <2>5. \A s \in Sockets : seat'[s] # NoRoom /\ Owner[s] \in members[seat[s]]
            => Owner[s] \in members'[seat[s]]
    BY <2>2, <2>3 DEF IInv, PresenceTypeOK
  <2>6. QED
    BY <2>1, <2>2, <2>3, <2>4, <2>5, ShrinkKeepsIInv
<1>4. ASSUME NEW u \in Users, RetireUser(u) PROVE IInv'
  <2> DEFINE was == {r \in Rooms : u \in members[r]}
  <2>1. /\ CloseSocketsOf(u)
        /\ members' = [r \in Rooms |-> members[r] \ {u}]
        /\ Evict(u, was)
        /\ entry' \subseteq entry
    BY <1>4, PruneFacts DEF RetireUser, IInv, ConnectionsTypeOK
  <2>2. /\ conn' \in [Sockets -> ConnState]
        /\ \A s \in Sockets : Cleans(conn[s]) => Cleans(conn'[s])
    BY <2>1 DEF CloseSocketsOf, IInv, ConnectionsTypeOK, ConnState, Cleans
  <2>3. /\ ConnectionsTypeOK'
        /\ \A r \in Rooms \ was : members'[r] = members[r]
        /\ \A r \in was : members'[r] = members[r] \ {u}
    BY <2>1, <2>2 DEF IInv, ConnectionsTypeOK
  <2>4. QED
    BY <2>1, <2>2, <2>3, RemovalKeepsIInv
<1>5. QED
  BY <1>1, <1>2, <1>3, <1>4 DEF MembershipStep

LEMMA NextKeepsIInv == IInv /\ [Next]_vars => IInv'
<1> SUFFICES ASSUME IInv, [Next]_vars PROVE IInv'
  OBVIOUS
<1>1. CASE Next
  BY <1>1, ConnectionStepKeepsIInv, FrameStepKeepsIInv, MembershipStepKeepsIInv,
     TimerStepKeepsIInv DEF Next
<1>2. CASE UNCHANGED vars
  BY <1>2, QuietStepKeepsIInv
     DEF vars, connectionVars, presenceVars, IInv, ConnectionsTypeOK, PresenceTypeOK,
         RegisteredCleanUp
<1>3. QED
  BY <1>1, <1>2

-----------------------------------------------------------------------------
(* The cap.                                                                *)

LEMMA ReachedAreCounted ==
    ASSUME IInv, CapInv, NEW u \in Users
    PROVE  /\ Reached(u) \subseteq entry \cap SocketsOf(u)
           /\ IsFiniteSet(Reached(u))
           /\ Cardinality(Reached(u)) \in Nat
           /\ Cardinality(Reached(u)) <= MaxSockets
<1>1. Reached(u) \subseteq entry \cap SocketsOf(u)
  BY DEF CapInv, Reached, SocketsOf
<1>2. IsFiniteSet(Reached(u))
  BY <1>1, FS_Subset DEF CapInv
<1>3. Cardinality(Reached(u)) <= MaxSockets
  BY DEF CapInv, SocketCap, Reached
<1>4. QED
  BY <1>1, <1>2, <1>3, FS_CardinalityType

\* Steps after which no more sockets can be sent to, and those that can are
\* still registered.
LEMMA FewerKeepCapInv ==
    ASSUME IInv, CapInv, entry' \subseteq entry,
           \A s \in Sockets : Sendable(conn'[s]) => Sendable(conn[s]) /\ s \in entry'
    PROVE  CapInv'
<1>1. IsFiniteSet(entry')
  BY FS_Subset DEF CapInv
<1>2. ASSUME NEW u \in Users PROVE Cardinality(Reached(u)') <= MaxSockets
  <2>1. Reached(u)' \subseteq Reached(u)
    BY DEF Reached, SocketsOf
  <2>2. /\ IsFiniteSet(Reached(u)') /\ Cardinality(Reached(u)') <= Cardinality(Reached(u))
    BY <2>1, ReachedAreCounted, FS_Subset
  <2>3. QED
    BY <2>2, ReachedAreCounted, FS_CardinalityType, MaxSocketsAssumption
<1>3. SocketCap'
  BY <1>2 DEF SocketCap, Reached, SocketsOf
<1>4. QED
  BY <1>1, <1>3 DEF CapInv

\* attachUserSocket makes room for the new socket before it registers it.
LEMMA ConnectKeepsCapInv ==
    ASSUME IInv, CapInv, NEW s \in Sockets, Connect(s)
    PROVE  CapInv'
<1> DEFINE u == Owner[s]
           mine == entry \cap SocketsOf(u)
           n == Cardinality(mine)
<1> USE OwnerAssumption
<1>1. PICK old \in SUBSET mine :
          /\ Cardinality(old) = Excess(n)
          /\ conn' = [t \in Sockets |-> IF t = s THEN "open"
                                        ELSE IF t \in old THEN "closing" ELSE conn[t]]
  BY DEF Connect, Attach
<1>2. entry' = entry \cup {s} /\ conn[s] = "absent"
  BY DEF Connect, Attach
<1>3. IsFiniteSet(entry')
  BY <1>2, FS_AddElement DEF CapInv
<1>4. /\ Sendable(conn'[s])
      /\ \A t \in Sockets \ {s} : Sendable(conn'[t]) => Sendable(conn[t]) /\ t \notin old
  BY <1>1 DEF Sendable
<1>5. \A t \in Sockets : Sendable(conn'[t]) => t \in entry'
  BY <1>2, <1>4 DEF CapInv
<1>6. Cardinality(Reached(u)') <= MaxSockets
  <2>1. /\ IsFiniteSet(mine) /\ n \in Nat
    BY FS_Intersection, FS_CardinalityType DEF CapInv
  <2>2. /\ IsFiniteSet(mine \ old) /\ Cardinality(mine \ old) = n - Excess(n)
    <3>1. mine \cap old = old
      OBVIOUS
    <3>2. /\ IsFiniteSet(mine \ old)
          /\ Cardinality(mine \ old) = Cardinality(mine) - Cardinality(mine \cap old)
      <4> HIDE DEF mine
      <4>1. QED
        BY <2>1, FS_Difference
    <3>3. Cardinality(mine \cap old) = Excess(n)
      BY <1>1, <3>1
    <3>4. QED
      BY <3>2, <3>3
  <2>3. Reached(u)' \subseteq (mine \ old) \cup {s}
    BY <1>4 DEF CapInv, Reached, SocketsOf
  <2> HIDE DEF mine, n
  <2>4. /\ IsFiniteSet((mine \ old) \cup {s})
        /\ Cardinality((mine \ old) \cup {s}) <= n - Excess(n) + 1
    <3>1. n - Excess(n) \in Int
      BY <2>1, MaxSocketsAssumption DEF Excess
    <3>2. QED
      BY <2>2, <3>1, FS_AddElement
  <2>5. /\ IsFiniteSet(Reached(u)')
        /\ Cardinality(Reached(u)') <= Cardinality((mine \ old) \cup {s})
    BY <2>3, <2>4, FS_Subset
  <2>6. n - Excess(n) + 1 <= MaxSockets
    BY <2>1, MaxSocketsAssumption DEF Excess
  <2>7. /\ Cardinality(Reached(u)') \in Nat
        /\ Cardinality((mine \ old) \cup {s}) \in Nat
        /\ n - Excess(n) + 1 \in Int
    BY <2>1, <2>4, <2>5, FS_CardinalityType, MaxSocketsAssumption DEF Excess
  <2>8. QED
    BY <2>4, <2>5, <2>6, <2>7, MaxSocketsAssumption
<1>7. ASSUME NEW v \in Users, v # u PROVE Cardinality(Reached(v)') <= MaxSockets
  <2>1. Reached(v)' \subseteq Reached(v)
    BY <1>4, <1>7 DEF Reached, SocketsOf
  <2>2. /\ IsFiniteSet(Reached(v)') /\ Cardinality(Reached(v)') <= Cardinality(Reached(v))
    BY <2>1, ReachedAreCounted, FS_Subset
  <2>3. QED
    BY <2>2, ReachedAreCounted, FS_CardinalityType, MaxSocketsAssumption
<1>8. SocketCap'
  BY <1>6, <1>7 DEF SocketCap, Reached, SocketsOf
<1>9. QED
  BY <1>3, <1>5, <1>8 DEF CapInv

LEMMA NextKeepsCapInv == IInv /\ CapInv /\ [Next]_vars => CapInv'
<1> SUFFICES ASSUME IInv, CapInv, [Next]_vars PROVE CapInv'
  OBVIOUS
<1>1. ASSUME UNCHANGED conn, NEW U, entry' = Prune(conn, entry, U) \/ entry' = entry
      PROVE  CapInv'
  BY <1>1, PruneFacts, FewerKeepCapInv DEF IInv, ConnectionsTypeOK, CapInv
<1>2. ASSUME NEW s \in Sockets, NEW c, ~ Sendable(c), conn' = [conn EXCEPT ![s] = c],
             Detach(s)
      PROVE  CapInv'
  <2>1. /\ entry' \subseteq entry
        /\ \A t \in entry \ {s} : Sendable(conn'[t]) => t \in entry'
    <3>1. entry \ {s} \in SUBSET Sockets
      BY DEF IInv, ConnectionsTypeOK
    <3>2. CASE entry' = entry \ {s}
      BY <3>2
    <3>3. ASSUME NEW U, entry' = Prune(conn', entry \ {s}, U)
          PROVE  /\ entry' \subseteq entry
                 /\ \A t \in entry \ {s} : Sendable(conn'[t]) => t \in entry'
      BY <3>1, <3>3, PruneFacts
    <3>4. QED
      BY <1>2, <3>2, <3>3 DEF Detach
  <2>2. \A t \in Sockets : Sendable(conn'[t]) => t # s /\ Sendable(conn[t])
    BY <1>2 DEF IInv, ConnectionsTypeOK
  <2>3. QED
    BY <2>1, <2>2, FewerKeepCapInv DEF CapInv
<1>3. ASSUME NEW s \in Sockets, NEW c, ~ Sendable(c) \/ Sendable(conn[s]),
             conn' = [conn EXCEPT ![s] = c], entry' = entry
      PROVE  CapInv'
  <2>1. \A t \in Sockets : Sendable(conn'[t]) => Sendable(conn[t])
    BY <1>3 DEF IInv, ConnectionsTypeOK
  <2>2. QED
    BY <1>3, <2>1, FewerKeepCapInv DEF CapInv
<1>4. ASSUME NEW s \in Sockets,
             \/ Connect(s) \/ PeerLost(s) \/ CloseStarts(s)
             \/ ErrorEvent(s) \/ CloseEvent(s)
             \/ PingTimeout(s) \/ PingDropsSeat(s)
      PROVE  CapInv'
  <2>1. CASE Connect(s)
    BY <2>1, ConnectKeepsCapInv
  <2>2. CASE PeerLost(s) \/ CloseStarts(s) \/ PingDropsSeat(s)
    BY <1>3, <2>2 DEF PeerLost, LosePeer, CloseStarts, StartClose, PingDropsSeat, Sendable
  <2>3. CASE ErrorEvent(s) \/ PingTimeout(s)
    BY <1>2, <2>3 DEF ErrorEvent, SocketFails, PingTimeout, PingExpires, Sendable
  <2>4. CASE CloseEvent(s)
    BY <1>2, <1>3, <2>4
       DEF CloseEvent, SocketCloses, SocketClosesAfterError, Sendable
  <2>5. QED
    BY <1>4, <2>1, <2>2, <2>3, <2>4
<1>5. ASSUME NEW u \in Users, SendToUser(u) PROVE CapInv'
  BY <1>1, <1>5 DEF SendToUser
<1>6. ASSUME Restart PROVE CapInv'
  BY <1>6, FewerKeepCapInv DEF Restart, ProcessRestarts, Sendable
<1>7. CASE FrameStep \/ TimerStep
  BY <1>1, <1>7 DEF FrameStep, TimerStep, JoinRoom, TouchTyping, TypingFrameStops,
     TypingTimePasses, TypingTimeout, connectionVars
<1>8. ASSUME NEW u \in Users, RetireUser(u) PROVE CapInv'
  <2>1. /\ entry' \subseteq entry
        /\ \A s \in entry : Sendable(conn'[s]) => s \in entry'
    BY <1>8, PruneFacts DEF RetireUser, IInv, ConnectionsTypeOK
  <2>2. \A s \in Sockets : Sendable(conn'[s]) => Sendable(conn[s])
    BY <1>8 DEF RetireUser, CloseSocketsOf, Sendable
  <2>3. QED
    BY <2>1, <2>2, FewerKeepCapInv DEF CapInv
<1>9. CASE MembershipStep
  BY <1>1, <1>8, <1>9 DEF MembershipStep, AddMember, RemoveMember, DeleteRoom
<1>10. CASE UNCHANGED vars
  BY <1>1, <1>10 DEF vars, connectionVars
<1>11. QED
  BY <1>4, <1>5, <1>6, <1>7, <1>9, <1>10 DEF Next, ConnectionStep

LEMMA InitCapInv == Init => CapInv
<1> SUFFICES ASSUME Init PROVE CapInv
  OBVIOUS
<1>1. entry = {} /\ \A s \in Sockets : ~ Sendable(conn[s])
  BY DEF Init, ConnectionsInit, Sendable
<1>2. \A u \in Users : Reached(u) = {}
  BY <1>1 DEF Reached, SocketsOf
<1>3. SocketCap
  BY <1>2, FS_EmptySet, MaxSocketsAssumption DEF SocketCap, Reached
<1>4. QED
  BY <1>1, <1>3, FS_EmptySet DEF CapInv

-----------------------------------------------------------------------------
(* Theorems.                                                               *)

\* The strengthening of PresenceIsReal holds in every reachable state.
THEOREM Invariance == Spec => []IInv
BY InitIInv, NextKeepsIInv, PTL DEF Spec

\* Everybody seated in a room or shown typing there is a member with a socket
\* that will end it, and the handler of a seated socket holds that seat.
THEOREM RealPresence == Spec => []PresenceIsReal
<1>1. IInv => PresenceIsReal
  BY DEF IInv, PresenceIsReal, TypeOK, PresenceTypeOK, SeatsAreReal, TypistsAreReal
<1>2. QED
  BY <1>1, Invariance, PTL

\* No account ever has more than MaxSockets sockets that can be sent to, and
\* every such socket is registered.
THEOREM Capped == Spec => []CapInv
BY InitCapInv, NextKeepsCapInv, Invariance, PTL DEF Spec

\* attachUserSocket's cap holds at every moment, for every account.
THEOREM CapHolds == Spec => []SocketCap
<1>1. CapInv => SocketCap
  BY DEF CapInv
<1>2. QED
  BY <1>1, Capped, PTL

=============================================================================
