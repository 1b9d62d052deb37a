----------------------------- MODULE Connections -----------------------------
(***************************************************************************)
(* The socket registry of the server and the room membership it is checked *)
(* against: the part of the state that calls, Watch together, typing and   *)
(* presence all hang on.                                                   *)
(*                                                                         *)
(*   conn    what the event loop knows of each WebSocket                   *)
(*   entry   the sockets registered in ctx.userSockets                     *)
(*   members the room_members rows                                         *)
(*                                                                         *)
(* A user has several sockets (tabs, the CLI), each owned for its lifetime *)
(* by the account its handshake authenticated: the preHandler refuses a    *)
(* handshake without a token, so a socket is never bound later.            *)
(*                                                                         *)
(* The registry is also trimmed on the side: every send to a user drops    *)
(* that user's sockets whose readyState is not OPEN (Prune), without the   *)
(* clean-up a close event does.  Whether the clean-up still happens is     *)
(* what the modules that extend this one ask.                              *)
(***************************************************************************)
EXTENDS Naturals, FiniteSets

CONSTANTS
    Users,
    Sockets,        \* connection slots; a slot is reused after it closes
    Owner,          \* Owner[s], the account that opens slot s
    Rooms,
    NoUser,
    MaxSockets      \* WS_MAX_SOCKETS_PER_USER

ASSUME OwnerAssumption == Owner \in [Sockets -> Users]
ASSUME NoUserAssumption == NoUser \notin Users
ASSUME MaxSocketsAssumption == MaxSockets \in Nat \ {0}

VARIABLES conn, entry, members

connectionVars == <<conn, entry, members>>

(***************************************************************************)
(* "lost" is a peer that went away without a FIN: readyState is still OPEN *)
(* and nothing will ever arrive.  "closing" is a socket whose close() or   *)
(* terminate() was called, or whose peer sent a close frame: the close     *)
(* event is still to come, and so may frames that were already received.   *)
(* "errored" had its error event, which cleared the handler's userEntry:   *)
(* no frame follows it and its close event cleans up nothing.              *)
(***************************************************************************)
ConnState == {"absent", "open", "lost", "closing", "errored"}

ConnectionsTypeOK ==
    /\ conn \in [Sockets -> ConnState]
    /\ entry \subseteq Sockets
    /\ members \in [Rooms -> SUBSET Users]

ConnectionsInit ==
    /\ conn = [s \in Sockets |-> "absent"]
    /\ entry = {}
    /\ members \in [Rooms -> SUBSET Users]

-----------------------------------------------------------------------------

SocketsOf(u) == {s \in Sockets : Owner[s] = u}

Online(E) == {Owner[s] : s \in E}

\* readyState is OPEN.
Sendable(c) == c \in {"open", "lost"}

\* A socket from which the message handler may still run.
Heard(s) == conn[s] \in {"open", "closing"}

\* sendToUser to every user of U: the registered sockets it cannot send to go.
Prune(C, E, U) == {s \in E : Owner[s] \in U => Sendable(C[s])}

\* A slip for LastOf: the set is looked at before the entry is deleted.
LastBeforeDelete(s) == IF Owner[s] \in Online(entry) THEN {} ELSE {Owner[s]}

\* A slip for LastOf: every closing socket is taken for the last.
LastAlways(s) == {Owner[s]}

\* The user that detachUserSocket(s) finds with nothing registered, if any.
LastOf(s) == IF Owner[s] \in Online(entry \ {s}) THEN {} ELSE {Owner[s]}

-----------------------------------------------------------------------------
(* What each step does to conn; entry and the rest are set by the module   *)
(* that completes the step.                                                *)

\* A slip for Excess: one connection over the cap.
ExcessLate(n) == IF n > MaxSockets THEN n - MaxSockets ELSE 0

\* How many of an account's n registered sockets make room for one more.
Excess(n) == IF n >= MaxSockets THEN n - MaxSockets + 1 ELSE 0

(***************************************************************************)
(* attachUserSocket closes the oldest registered sockets until the new one *)
(* fits.  Which are oldest is left open; those already closing count too.  *)
(***************************************************************************)
Attach(s) ==
    /\ conn[s] = "absent"
    /\ \E old \in SUBSET (entry \cap SocketsOf(Owner[s])) :
        /\ Cardinality(old) = Excess(Cardinality(entry \cap SocketsOf(Owner[s])))
        /\ conn' = [t \in Sockets |-> IF t = s THEN "open"
                                      ELSE IF t \in old THEN "closing"
                                      ELSE conn[t]]
    /\ entry' = entry \cup {s}

\* The network drops the peer; the server is not told.
LosePeer(s) ==
    /\ conn[s] = "open"
    /\ conn' = [conn EXCEPT ![s] = "lost"]
    /\ entry' = entry

\* close() for a full account, an ended session, a rate limit or shutdown, or
\* the peer's own close frame.
StartClose(s) ==
    /\ Sendable(conn[s])
    /\ conn' = [conn EXCEPT ![s] = "closing"]
    /\ entry' = entry

\* The error event detaches at once and forgets the entry.
SocketFails(s) ==
    /\ conn[s] \in {"open", "lost", "closing"}
    /\ conn' = [conn EXCEPT ![s] = "errored"]

\* The close event of a socket whose entry the handler still holds.
SocketCloses(s) ==
    /\ conn[s] = "closing"
    /\ conn' = [conn EXCEPT ![s] = "absent"]

\* The close event after an error event: detachUserSocket(null).
SocketClosesAfterError(s) ==
    /\ conn[s] = "errored"
    /\ conn' = [conn EXCEPT ![s] = "absent"]
    /\ entry' = entry

\* The ping timer terminates a registered socket with no recent pong.
PingExpires(s) ==
    /\ s \in entry
    /\ conn' = [conn EXCEPT ![s] = "closing"]

\* A process start: the sockets are gone, the rows stay.
ProcessRestarts ==
    /\ conn' = [s \in Sockets |-> "absent"]
    /\ entry' = {}
    /\ members' = members

\* closeUserSockets(u): only registered sockets are closed.
CloseSocketsOf(u) ==
    conn' = [s \in Sockets |-> IF s \in entry /\ Owner[s] = u
                               THEN "closing" ELSE conn[s]]

=============================================================================
