--------------------------- MODULE WatchRefinement ---------------------------
(***************************************************************************)
(* The session manager keeps WatchPromise: who is online is read off the   *)
(* registry, and sockets, timers and what is due are stuttering.  A user   *)
(* whose last socket a send has dropped is offline at once, and out of the *)
(* sessions only with that socket's close event, a step of its own.        *)
(***************************************************************************)
EXTENDS Watch

Promise == INSTANCE WatchPromise WITH
    online <- Online(entry),
    audience <- watchers

\* Every step of the session manager is a step of the abstract session, or
\* changes nothing in it.
KeepsWatchPromise == Promise!Spec

=============================================================================
