----------------------------- MODULE Credentials -----------------------------
(***************************************************************************)
(* How one account is proved and its sessions are made and revoked: login, *)
(* password change, reset token and redemption.  argon2 runs off the event *)
(* loop, so each handler reads its rows, awaits, and then writes on the    *)
(* strength of what it read; the writes after the last await are separate  *)
(* statements, in no transaction, and the process can die between them.    *)
(*                                                                         *)
(*   password  the users row: what it is a hash of, and with which hash    *)
(*   reset     the password_reset_tokens row of the account, None if none  *)
(*   lapsed    reset tokens whose hour is up                               *)
(*   issued    reset tokens made so far                                    *)
(*   sessions  the account's rows of sessions                              *)
(*   stage     how far each request got                                    *)
(*   req       what it was asked, and the password row it read             *)
(*                                                                         *)
(* History, to state properties with:                                      *)
(*   newest    the reset token issued last                                 *)
(*   uses      how often each token set a password                         *)
(*   knows     the password each session's holder showed last              *)
(*   setter    the request that wrote the password last                    *)
(*   disturbed requests that overlapped a write of another to what they    *)
(*             read, or died between two of their own writes               *)
(*                                                                         *)
(* A request slot serves once, so that its session can bear its name.      *)
(* That the account exists and is no system account is a given; sockets    *)
(* closed on the way are CloseStarts of Connections.                       *)
(***************************************************************************)
EXTENDS Naturals, FiniteSets

CONSTANTS
    Requests,
    Tokens,
    Passwords,
    Device,     \* the session there is at the start
    None

ASSUME NoneAssumption == None \notin Tokens \cup Passwords \cup Requests
ASSUME DeviceAssumption == Device \notin Requests

Sessions == Requests \cup {Device}

VARIABLES password, reset, lapsed, issued, sessions, stage, req,
          newest, uses, knows, setter, disturbed

rows == <<password, reset, lapsed, issued, sessions>>
history == <<newest, uses, knows, setter, disturbed>>
vars == <<rows, stage, req, history>>

Hashes == {"sha256", "argon2"}
Stored == [is : Passwords, by : Hashes]

Request ==
    [kind : {"login", "change", "redeem", "none"},
     claim : Passwords \cup {None},     \* the password or
     token : Tokens \cup {None},        \* the reset token that is the proof
     next : Passwords \cup {None},      \* the password asked for
     from : Sessions \cup {None},       \* the session of the request
     seen : Stored \cup {None}]         \* the row it read

NoRequest == [kind |-> "none", claim |-> None, token |-> None, next |-> None,
              from |-> None, seen |-> None]

TypeOK ==
    /\ password \in Stored
    /\ reset \in Tokens \cup {None}
    /\ lapsed \subseteq issued /\ issued \subseteq Tokens
    /\ sessions \subseteq Sessions
    /\ stage \in [Requests -> {"new", "verifying", "hashing", "done"}]
    /\ req \in [Requests -> Request]
    /\ newest \in Tokens \cup {None}
    /\ uses \in [Tokens -> Nat]
    /\ knows \in [Sessions -> Passwords \cup {None}]
    /\ setter \in Requests \cup {None}
    /\ disturbed \subseteq Requests

Init ==
    /\ password \in Stored
    /\ reset = None
    /\ lapsed = {} /\ issued = {}
    /\ sessions = {Device}
    /\ stage = [q \in Requests |-> "new"]
    /\ req = [q \in Requests |-> NoRequest]
    /\ newest = None
    /\ uses = [t \in Tokens |-> 0]
    /\ knows = [s \in Sessions |-> IF s = Device THEN password.is ELSE None]
    /\ setter = None
    /\ disturbed = {}

-----------------------------------------------------------------------------

InFlight(q) == stage[q] \in {"verifying", "hashing"}

\* Requests other than q that are in flight, having read what q now writes.
Overlapping(q, kinds) == {o \in Requests \ {q} : InFlight(o) /\ req[o].kind \in kinds}

AllKinds == {"login", "change", "redeem"}

Finish(q) == stage' = [stage EXCEPT ![q] = "done"]

\* Request q, asked r, has read its rows and goes on at `s` after an await.
Await(q, r, s) ==
    /\ stage' = [stage EXCEPT ![q] = s]
    /\ req' = [req EXCEPT ![q] = r]

Arrives(q) == stage[q] = "new"

\* UPDATE users SET password by q.
SetPassword(q, p) ==
    /\ password' = [is |-> p, by |-> "argon2"]
    /\ setter' = q

\* passwordMatches on the row that was read.
Matches(r) == r.seen.is = r.claim

-----------------------------------------------------------------------------
(* Login.                                                                  *)

LoginBegins(q, p) ==
    /\ Arrives(q)
    /\ Await(q, [NoRequest EXCEPT !.kind = "login", !.claim = p, !.seen = password],
             "verifying")
    /\ UNCHANGED <<rows, history>>

LoginVerified(q) ==
    /\ stage[q] = "verifying"
    /\ req[q].kind = "login"
    /\ \/ /\ ~ Matches(req[q])
          /\ Finish(q)
          /\ UNCHANGED <<sessions, knows>>
       \/ /\ Matches(req[q])
          /\ req[q].seen.by = "argon2"
          /\ Finish(q)
          /\ sessions' = sessions \cup {q}
          /\ knows' = [knows EXCEPT ![q] = req[q].claim]
       \/ /\ Matches(req[q])
          /\ req[q].seen.by = "sha256"
          /\ stage' = [stage EXCEPT ![q] = "hashing"]
          /\ UNCHANGED <<sessions, knows>>
    /\ UNCHANGED <<password, reset, lapsed, issued, req, newest, uses, setter, disturbed>>

\* A legacy row is written again with argon2, then the session is made.
LoginRehashed(q) ==
    /\ stage[q] = "hashing"
    /\ req[q].kind = "login"
    /\ SetPassword(q, req[q].claim)
    /\ sessions' = sessions \cup {q}
    /\ knows' = [knows EXCEPT ![q] = req[q].claim]
    /\ disturbed' = disturbed \cup Overlapping(q, AllKinds)
    /\ Finish(q)
    /\ UNCHANGED <<reset, lapsed, issued, req, newest, uses>>

-----------------------------------------------------------------------------
(* PATCH /users/me with a password, from session s.                        *)

ChangeBegins(q, s, p, n) ==
    /\ Arrives(q)
    /\ s \in sessions
    /\ Await(q, [NoRequest EXCEPT !.kind = "change", !.from = s, !.claim = p,
                                  !.next = n, !.seen = password],
             "verifying")
    /\ UNCHANGED <<rows, history>>

ChangeVerified(q) ==
    /\ stage[q] = "verifying"
    /\ req[q].kind = "change"
    /\ stage' = [stage EXCEPT ![q] = IF Matches(req[q]) THEN "hashing" ELSE "done"]
    /\ UNCHANGED <<rows, req, history>>

\* A slip for KeptBy: nobody else is logged out.
KeptByAll(s) == sessions

\* deleteOtherSessions(username, token of s).
KeptBy(s) == sessions \cap {s}

ChangeHashed(q) ==
    LET s == req[q].from
    IN  /\ stage[q] = "hashing"
        /\ req[q].kind = "change"
        /\ SetPassword(q, req[q].next)
        /\ sessions' = KeptBy(s)
        /\ knows' = [knows EXCEPT ![s] = req[q].next]
        /\ disturbed' = disturbed \cup Overlapping(q, AllKinds)
        /\ Finish(q)
        /\ UNCHANGED <<reset, lapsed, issued, req, newest, uses>>

-----------------------------------------------------------------------------
(* Password reset.                                                         *)

\* issuePasswordReset: an admin hands out t, in place of any token before.
ResetIssued(t) ==
    /\ t \notin issued
    /\ issued' = issued \cup {t}
    /\ reset' = t
    /\ newest' = t
    /\ disturbed' = disturbed \cup Overlapping(None, {"redeem"})
    /\ UNCHANGED <<password, lapsed, sessions, stage, req, uses, knows, setter>>

HourPasses(t) ==
    /\ t \in issued \ lapsed
    /\ lapsed' = lapsed \cup {t}
    /\ UNCHANGED <<password, reset, issued, sessions, stage, req, history>>

\* A slip for Redeemable: any token that was once handed out.
RedeemableEver(t) == t \in issued

Redeemable(t) == reset = t

\* An expired row goes, whatever token was shown; a wrong token changes nothing.
RedeemBegins(q, t, n) ==
    /\ Arrives(q)
    /\ LET r == [NoRequest EXCEPT !.kind = "redeem", !.token = t, !.next = n]
       IN  IF reset # None /\ reset \notin lapsed /\ Redeemable(t)
           THEN Await(q, r, "hashing") /\ UNCHANGED reset
           ELSE /\ Await(q, r, "done")
                /\ reset' = IF reset \in lapsed THEN None ELSE reset
    /\ UNCHANGED <<password, lapsed, issued, sessions, history>>

\* A slip for ResetAfterRedeem: the token stays.
ResetKept == reset

\* DELETE FROM password_reset_tokens WHERE username: whichever token it is.
ResetAfterRedeem == None

Redeemed(q) ==
    LET t == req[q].token
    IN  /\ stage[q] = "hashing"
        /\ req[q].kind = "redeem"
        /\ SetPassword(q, req[q].next)
        /\ uses' = [uses EXCEPT ![t] = @ + 1]
        /\ reset' = ResetAfterRedeem
        /\ sessions' = {q}
        /\ knows' = [knows EXCEPT ![q] = req[q].next]
        /\ disturbed' = disturbed \cup Overlapping(q, AllKinds)
        /\ Finish(q)
        /\ UNCHANGED <<lapsed, issued, req, newest>>

-----------------------------------------------------------------------------

\* Logout, or the end of a session's thirty days.
SessionEnds(s) ==
    /\ s \in sessions
    /\ sessions' = sessions \ {s}
    /\ UNCHANGED <<password, reset, lapsed, issued, stage, req, history>>

\* The process dies.  Requests in flight are lost; q, if any, had come as far
\* as its first write but not to its last.
Dies(q) ==
    /\ stage' = [o \in Requests |-> IF InFlight(o) THEN "done" ELSE stage[o]]
    /\ stage[q] = "hashing"
    /\ SetPassword(q, IF req[q].kind = "login" THEN req[q].claim ELSE req[q].next)
    /\ disturbed' = disturbed \cup {q}
    /\ IF req[q].kind = "redeem"
       THEN /\ uses' = [uses EXCEPT ![req[q].token] = @ + 1]
            /\ \/ UNCHANGED <<reset, sessions>>
               \/ reset' = ResetAfterRedeem /\ sessions' \in {sessions, {}}
       ELSE UNCHANGED <<reset, sessions, uses>>
    /\ UNCHANGED <<lapsed, issued, req, newest, knows>>

Next ==
    \/ \E q \in Requests :
        \/ \E p \in Passwords : LoginBegins(q, p)
        \/ LoginVerified(q) \/ LoginRehashed(q)
        \/ \E s \in Sessions, p, n \in Passwords : ChangeBegins(q, s, p, n)
        \/ ChangeVerified(q) \/ ChangeHashed(q)
        \/ \E t \in Tokens, n \in Passwords : RedeemBegins(q, t, n)
        \/ Redeemed(q)
    \/ \E t \in Tokens : ResetIssued(t) \/ HourPasses(t)
    \/ \E s \in Sessions : SessionEnds(s)
    \/ \E q \in Requests : Dies(q)

Spec == Init /\ [][Next]_vars

-----------------------------------------------------------------------------
(* Properties.                                                             *)

\* Whoever holds a session showed the password that is current.  A request
\* that overlapped another, or was cut short, is the only way round: it made
\* the session, or it wrote the password.
SessionsKnowThePassword ==
    /\ TypeOK
    /\ \A s \in sessions :
        knows[s] # password.is => disturbed \cap {s, setter} # {}

\* A reset token sets a password once, as long as no redemption overlapped
\* another write or was cut short.
TokenSpent ==
    \A t \in Tokens :
        uses[t] > 0 /\ (uses[t] > 1 \/ reset = t)
          => \E q \in disturbed : req[q].kind = "redeem"

\* The token issued last can be redeemed until it is used or its hour is up;
\* only a redemption that overlapped its issue can take it away.
NewestTokenStands ==
    newest # None /\ newest \notin lapsed /\ uses[newest] = 0
      => reset = newest \/ \E q \in disturbed : req[q].kind = "redeem"

\* The roadmap's word for a reset token: one-time.
OneTimeToken == \A t \in Tokens : uses[t] <= 1

=============================================================================
