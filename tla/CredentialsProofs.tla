-------------------------- MODULE CredentialsProofs --------------------------
(***************************************************************************)
(* Proofs about Credentials.  All three properties excuse what disturbed   *)
(* requests do, so the strengthening says what an undisturbed request can  *)
(* still rely on after its await: the row that a login read is the row     *)
(* (Fresh), and the token that a redemption shows was spent by nobody and  *)
(* replaced by none (TokensHeld).                                          *)
(***************************************************************************)
EXTENDS Credentials, TLAPS

\* A redemption overlapped another write, or was cut short.
RedeemDisturbed == \E q \in disturbed : req[q].kind = "redeem"

\* What a request in flight was asked and read.
Asked(q) ==
    InFlight(q) =>
        \/ /\ req[q].kind = "login"
           /\ req[q].claim \in Passwords /\ req[q].seen \in Stored
           /\ stage[q] = "hashing" => Matches(req[q]) /\ req[q].seen.by = "sha256"
        \/ /\ req[q].kind = "change"
           /\ req[q].from \in Sessions /\ req[q].next \in Passwords
        \/ /\ req[q].kind = "redeem" /\ stage[q] = "hashing"
           /\ req[q].token \in issued /\ req[q].next \in Passwords

Fresh(q) ==
    InFlight(q) /\ req[q].kind = "login" /\ q \notin disturbed => req[q].seen = password

\* Whoever is disturbed had begun, so that what it was asked stays.
DisturbedBegan == \A q \in disturbed : stage[q] # "new"

\* A password that was set is never a legacy hash.
SetByArgon == setter # None => password.by = "argon2"

TokensIssued ==
    /\ reset \in issued \cup {None} /\ newest \in issued \cup {None}
    /\ \A t \in Tokens : uses[t] > 0 => t \in issued

TokensHeld ==
    \/ RedeemDisturbed
    \/ /\ \A t \in Tokens : uses[t] <= 1 /\ (uses[t] > 0 => reset # t)
       /\ \A q \in Requests :
            InFlight(q) /\ req[q].kind = "redeem" =>
                reset \in {req[q].token, None} /\ uses[req[q].token] = 0
       /\ newest # None /\ newest \notin lapsed /\ uses[newest] = 0 => reset = newest

HoldersKnow ==
    \A s \in sessions : knows[s] = password.is \/ s \in disturbed \/ setter \in disturbed

IInv ==
    /\ TypeOK
    /\ \A q \in Requests : Asked(q) /\ Fresh(q)
    /\ DisturbedBegan
    /\ SetByArgon
    /\ TokensIssued
    /\ TokensHeld
    /\ HoldersKnow

-----------------------------------------------------------------------------
(* Steps that keep the invariant.                                          *)

\* What overlapped a redemption once stays so: a disturbed request is not asked anew.
LEMMA DisturbanceStays ==
    ASSUME RedeemDisturbed, disturbed \subseteq disturbed',
           \A o \in disturbed : req'[o].kind = req[o].kind
    PROVE  RedeemDisturbed'
BY DEF RedeemDisturbed

\* A request begins: it has read the password row, or found its token there.
LEMMA BeginsKeepsIInv ==
    ASSUME IInv, NEW q \in Requests, NEW r \in Request, NEW s \in {"hashing", "verifying", "done"},
           Arrives(q), Await(q, r, s),
           Asked(q)', Fresh(q)',
           UNCHANGED <<password, lapsed, issued, sessions, history>>,
           reset' = reset \/ (reset \in lapsed /\ reset' = None),
           s # "done" /\ r.kind = "redeem" => reset = r.token
    PROVE  IInv'
<1>1. /\ stage[q] = "new" /\ q \notin disturbed
      /\ UNCHANGED <<newest, uses, knows, setter, disturbed>>
  BY DEF Arrives, IInv, DisturbedBegan, history
<1>2. /\ stage'[q] = s /\ req'[q] = r
      /\ \A o \in Requests \ {q} : stage'[o] = stage[o] /\ req'[o] = req[o]
      /\ stage' \in [Requests -> {"new", "verifying", "hashing", "done"}]
      /\ req' \in [Requests -> Request]
  BY DEF Await, IInv, TypeOK
<1>3. reset' \in Tokens \cup {None} /\ reset' \in issued' \cup {None}
  BY DEF IInv, TypeOK, TokensIssued
<1>4. TypeOK'
  BY <1>1, <1>2, <1>3 DEF IInv, TypeOK
<1>5. \A o \in Requests : Asked(o)' /\ Fresh(o)'
  <2>1. ASSUME NEW o \in Requests, o # q PROVE Asked(o)' /\ Fresh(o)'
    BY <1>1, <1>2, <2>1 DEF IInv, Asked, Fresh, InFlight, Matches
  <2>2. QED
    BY <2>1
<1>6. DisturbedBegan'
  BY <1>1, <1>2 DEF IInv, TypeOK, DisturbedBegan
<1>7. SetByArgon' /\ HoldersKnow'
  BY <1>1 DEF IInv, SetByArgon, HoldersKnow
<1>8. TokensIssued'
  BY <1>1, <1>3 DEF IInv, TokensIssued
<1>9. TokensHeld'
  <2>1. CASE RedeemDisturbed
    <3>1. \A o \in disturbed : req'[o].kind = req[o].kind
      BY <1>1, <1>2 DEF IInv, TypeOK
    <3>2. QED
      BY <1>1, <2>1, <3>1, DisturbanceStays DEF TokensHeld
  <2>2. CASE ~RedeemDisturbed
    <3>1. \A t \in Tokens : uses[t] <= 1 /\ (uses[t] > 0 => reset # t)
      BY <2>2 DEF IInv, TokensHeld
    <3>2. \A t \in Tokens : uses'[t] <= 1 /\ (uses'[t] > 0 => reset' # t)
      BY <1>1, <3>1, NoneAssumption
    <3>3. ASSUME NEW o \in Requests, InFlight(o)', req'[o].kind = "redeem"
          PROVE  reset' \in {req'[o].token, None} /\ uses'[req'[o].token] = 0
      <4>1. CASE o = q
        <5>1. r.token \in issued /\ reset = r.token /\ r.token \in Tokens
          BY <1>1, <1>2, <3>3, <4>1 DEF Asked, InFlight, IInv, TypeOK
        <5>2. uses[r.token] \in Nat
          BY <5>1 DEF IInv, TypeOK
        <5>3. QED
          BY <1>1, <1>2, <3>1, <4>1, <5>1, <5>2
      <4>2. CASE o # q
        BY <1>1, <1>2, <2>2, <3>3, <4>2 DEF IInv, TokensHeld, InFlight
      <4>3. QED
        BY <4>1, <4>2
    <3>4. newest' # None /\ newest' \notin lapsed' /\ uses'[newest'] = 0 => reset' = newest'
      BY <1>1, <2>2 DEF IInv, TokensHeld
    <3>5. QED
      BY <3>2, <3>3, <3>4 DEF TokensHeld
  <2>3. QED
    BY <2>1, <2>2
<1>10. QED
  BY <1>4, <1>5, <1>6, <1>7, <1>8, <1>9 DEF IInv

\* A request is verified and finishes, or goes on to hash.
LEMMA VerifiedKeepsIInv ==
    ASSUME IInv, NEW q \in Requests, LoginVerified(q) \/ ChangeVerified(q)
    PROVE  IInv'
<1>1. /\ stage[q] = "verifying"
      /\ UNCHANGED <<password, reset, lapsed, issued, req, newest, uses, setter, disturbed>>
  BY DEF LoginVerified, ChangeVerified, rows, history
<1>2. stage' = [stage EXCEPT ![q] = "hashing"] \/ stage' = [stage EXCEPT ![q] = "done"]
  BY DEF LoginVerified, ChangeVerified, Finish
<1>3. /\ \A o \in Requests \ {q} : stage'[o] = stage[o]
      /\ stage'[q] \in {"hashing", "done"}
      /\ stage' \in [Requests -> {"new", "verifying", "hashing", "done"}]
  BY <1>2 DEF IInv, TypeOK
<1>4. Asked(q) /\ Fresh(q) /\ InFlight(q)
  BY <1>1 DEF IInv, InFlight
<1>5. \/ UNCHANGED <<sessions, knows>>
      \/ /\ sessions' = sessions \cup {q} /\ knows' = [knows EXCEPT ![q] = req[q].claim]
         /\ req[q].claim \in Passwords
         /\ req[q].claim = password.is \/ q \in disturbed
  BY <1>4 DEF LoginVerified, ChangeVerified, rows, history, Asked, Fresh, Matches
<1>6. /\ sessions' \subseteq Sessions /\ knows' \in [Sessions -> Passwords \cup {None}]
      /\ \A s \in sessions' :
            knows'[s] = password.is \/ s \in disturbed \/ setter \in disturbed
  <2>1. /\ sessions \subseteq Sessions /\ knows \in [Sessions -> Passwords \cup {None}]
        /\ \A s \in sessions :
              knows[s] = password.is \/ s \in disturbed \/ setter \in disturbed
    BY DEF IInv, TypeOK, HoldersKnow
  <2>2. q \in Sessions
    BY DEF Sessions
  <2>3. QED
    BY <1>5, <2>1, <2>2
<1>7. TypeOK'
  BY <1>1, <1>3, <1>6 DEF IInv, TypeOK
<1>8. Asked(q)' /\ Fresh(q)'
  <2>1. req[q].kind = "login" /\ stage'[q] = "hashing" => Matches(req[q]) /\ req[q].seen.by = "sha256"
    <3>1. ASSUME LoginVerified(q), stage'[q] = "hashing"
          PROVE  Matches(req[q]) /\ req[q].seen.by = "sha256"
      BY <3>1 DEF LoginVerified, Finish, IInv, TypeOK
    <3>2. QED
      BY <3>1 DEF ChangeVerified
  <2>2. QED
    BY <1>1, <1>3, <1>4, <2>1 DEF Asked, Fresh, InFlight, Matches
<1>9. \A o \in Requests \ {q} : Asked(o)' /\ Fresh(o)'
  BY <1>1, <1>3 DEF IInv, Asked, Fresh, InFlight, Matches
<1>10. DisturbedBegan' /\ SetByArgon' /\ TokensIssued'
  BY <1>1, <1>3 DEF IInv, TypeOK, DisturbedBegan, SetByArgon, TokensIssued
<1>11. HoldersKnow'
  BY <1>1, <1>6 DEF HoldersKnow
<1>12. TokensHeld'
  <2>1. \A o \in Requests : InFlight(o)' => InFlight(o)
    BY <1>1, <1>3 DEF InFlight
  <2>2. RedeemDisturbed' <=> RedeemDisturbed
    BY <1>1 DEF RedeemDisturbed
  <2>3. QED
    BY <1>1, <2>1, <2>2 DEF IInv, TokensHeld
<1>13. QED
  BY <1>7, <1>8, <1>9, <1>10, <1>11, <1>12 DEF IInv

-----------------------------------------------------------------------------
(* The password is written.                                                *)

\* Whoever is still in flight after q's write of the password is disturbed.
WriteDisturbs(q) ==
    /\ stage' \in [Requests -> {"new", "verifying", "hashing", "done"}]
    /\ disturbed \subseteq disturbed' /\ disturbed' \subseteq Requests
    /\ \A o \in Requests :
        /\ stage'[o] = "new" <=> stage[o] = "new"
        /\ InFlight(o)' => o # q /\ stage'[o] = stage[o] /\ o \in disturbed'
        /\ o \in disturbed' => o \in disturbed \/ InFlight(o)

LEMMA FinishingDisturbs ==
    ASSUME IInv, NEW q \in Requests, InFlight(q), Finish(q),
           disturbed' = disturbed \cup Overlapping(q, AllKinds)
    PROVE  WriteDisturbs(q)
<1>1. /\ stage' = [stage EXCEPT ![q] = "done"] /\ stage'[q] = "done"
      /\ \A o \in Requests \ {q} : stage'[o] = stage[o]
  BY DEF Finish, IInv, TypeOK
<1>2. stage' \in [Requests -> {"new", "verifying", "hashing", "done"}]
  BY <1>1 DEF IInv, TypeOK
<1>3. \A o \in Requests : InFlight(o) => req[o].kind \in AllKinds
  BY DEF IInv, Asked, AllKinds
<1>4. disturbed \subseteq Requests
  BY DEF IInv, TypeOK
<1>5. QED
  BY <1>1, <1>2, <1>3, <1>4 DEF WriteDisturbs, InFlight, Overlapping

\* What is left to show of a write is the tokens and the sessions.
LEMMA WriteKeepsIInv ==
    ASSUME IInv, NEW q \in Requests, NEW p \in Passwords, InFlight(q),
           SetPassword(q, p), WriteDisturbs(q),
           UNCHANGED <<lapsed, issued, req, newest>>,
           IF req[q].kind = "redeem"
           THEN /\ uses' = [uses EXCEPT ![req[q].token] = @ + 1]
                /\ RedeemDisturbed' \/ reset' = None
                /\ reset' \in {reset, None}
           ELSE UNCHANGED <<reset, uses>>,
           sessions' \subseteq Sessions, knows' \in [Sessions -> Passwords \cup {None}],
           HoldersKnow'
    PROVE  IInv'
<1>1. password' \in Stored /\ password'.by = "argon2" /\ setter' = q
  BY DEF SetPassword, Stored, Hashes
<1>2. Asked(q)
  BY DEF IInv
<1>3. /\ stage' \in [Requests -> {"new", "verifying", "hashing", "done"}]
      /\ disturbed \subseteq disturbed' /\ disturbed' \subseteq Requests
      /\ \A o \in Requests :
            /\ stage'[o] = "new" <=> stage[o] = "new"
            /\ InFlight(o)' => o # q /\ InFlight(o) /\ stage'[o] = stage[o] /\ o \in disturbed'
            /\ o \in disturbed' => stage[o] # "new"
  BY DEF WriteDisturbs, InFlight, IInv, DisturbedBegan
<1>4. uses \in [Tokens -> Nat] /\ issued \subseteq Tokens /\ reset \in Tokens \cup {None}
  BY DEF IInv, TypeOK
<1>5. /\ uses' \in [Tokens -> Nat] /\ reset' \in {reset, None}
      /\ \A t \in Tokens : uses'[t] > 0 => uses[t] > 0 \/ t \in issued
  <2>1. CASE req[q].kind = "redeem"
    <3>1. req[q].token \in issued
      BY <1>2, <2>1 DEF Asked
    <3>2. QED
      BY <1>4, <2>1, <3>1
  <2>2. CASE req[q].kind # "redeem"
    BY <1>4, <2>2
  <2>3. QED
    BY <2>1, <2>2
<1>6. TypeOK'
  BY <1>1, <1>3, <1>5 DEF IInv, TypeOK
<1>7. \A o \in Requests : Asked(o)' /\ Fresh(o)'
  <2>1. ASSUME NEW o \in Requests, InFlight(o)'
        PROVE  Asked(o) /\ InFlight(o) /\ stage'[o] = stage[o] /\ o \in disturbed'
    BY <1>3, <2>1 DEF IInv
  <2>2. \A o \in Requests : Asked(o)'
    BY <2>1 DEF Asked, Matches
  <2>3. \A o \in Requests : Fresh(o)'
    BY <2>1 DEF Fresh
  <2>4. QED
    BY <2>2, <2>3
<1>8. DisturbedBegan'
  BY <1>3 DEF DisturbedBegan
<1>9. SetByArgon'
  BY <1>1 DEF SetByArgon
<1>10. TokensIssued'
  BY <1>5 DEF IInv, TokensIssued
<1>11. TokensHeld'
  <2>1. CASE RedeemDisturbed'
    BY <2>1 DEF TokensHeld
  <2>2. CASE ~RedeemDisturbed'
    <3>1. ~RedeemDisturbed
      BY <1>3, <2>2 DEF RedeemDisturbed
    <3>2. \A o \in Requests : ~(InFlight(o)' /\ req'[o].kind = "redeem")
      BY <1>3, <2>2 DEF RedeemDisturbed
    <3>3. /\ \A t \in Tokens : uses[t] <= 1 /\ (uses[t] > 0 => reset # t)
          /\ req[q].kind = "redeem" =>
                reset \in {req[q].token, None} /\ uses[req[q].token] = 0
          /\ newest # None /\ newest \notin lapsed /\ uses[newest] = 0 => reset = newest
      BY <3>1 DEF IInv, TokensHeld
    <3>4. newest \in Tokens \cup {None}
      BY DEF IInv, TypeOK
    <3>5. CASE req[q].kind = "redeem"
      <4> DEFINE k == req[q].token
      <4>1. k \in Tokens
        BY <1>2, <1>4, <3>5 DEF Asked
      <4>2. /\ uses' = [uses EXCEPT ![k] = @ + 1] /\ reset' = None
            /\ reset \in {k, None} /\ uses[k] = 0
        BY <2>2, <3>3, <3>5
      <4> HIDE DEF k
      <4>3. uses'[k] = 1 /\ \A t \in Tokens \ {k} : uses'[t] = uses[t]
        BY <1>4, <4>1, <4>2
      <4>4. \A t \in Tokens : uses'[t] <= 1 /\ (uses'[t] > 0 => reset' # t)
        BY <3>3, <4>2, <4>3, NoneAssumption
      <4>5. newest' # None /\ newest' \notin lapsed' /\ uses'[newest'] = 0 => reset' = newest'
        <5>1. SUFFICES ASSUME newest # None, newest \notin lapsed, uses'[newest] = 0
                       PROVE  FALSE
          OBVIOUS
        <5>2. newest \in Tokens \ {k} /\ uses[newest] = 0
          BY <3>4, <4>3, <5>1
        <5>3. QED
          BY <3>3, <4>2, <5>1, <5>2
      <4>6. QED
        BY <3>2, <4>4, <4>5 DEF TokensHeld
    <3>6. CASE req[q].kind # "redeem"
      <4>1. UNCHANGED <<reset, uses>>
        BY <3>6
      <4>2. QED
        BY <3>2, <3>3, <4>1 DEF TokensHeld
    <3>7. QED
      BY <3>5, <3>6
  <2>3. QED
    BY <2>1, <2>2
<1>12. QED
  BY <1>6, <1>7, <1>8, <1>9, <1>10, <1>11 DEF IInv

LEMMA LoginRehashedKeepsIInv ==
    ASSUME IInv, NEW q \in Requests, LoginRehashed(q)
    PROVE  IInv'
<1>1. /\ InFlight(q) /\ Finish(q) /\ req[q].kind = "login"
      /\ SetPassword(q, req[q].claim) /\ sessions' = sessions \cup {q}
      /\ knows' = [knows EXCEPT ![q] = req[q].claim]
      /\ disturbed' = disturbed \cup Overlapping(q, AllKinds)
      /\ UNCHANGED <<reset, lapsed, issued, req, newest, uses>>
      /\ stage[q] = "hashing"
  BY DEF LoginRehashed, InFlight
<1>2. /\ req[q].claim \in Passwords /\ req[q].seen.is = req[q].claim
      /\ req[q].seen.by = "sha256"
      /\ q \notin disturbed => req[q].seen = password
  BY <1>1 DEF IInv, Asked, Fresh, Matches
<1>3. /\ sessions' \subseteq Sessions /\ q \in Sessions
      /\ knows' \in [Sessions -> Passwords \cup {None}]
      /\ knows'[q] = req[q].claim
      /\ \A s \in sessions \ {q} : knows'[s] = knows[s]
  BY <1>1, <1>2 DEF IInv, TypeOK, Sessions
<1>4. HoldersKnow'
  <2>1. ASSUME NEW s \in sessions', s # q, q \notin disturbed
        PROVE  knows'[s] = password'.is \/ s \in disturbed
    <3>1. password.is = req[q].claim /\ password.by = "sha256"
      BY <1>2, <2>1
    <3>2. setter \notin disturbed
      BY <3>1, NoneAssumption DEF IInv, TypeOK, SetByArgon
    <3>3. s \in sessions /\ (knows[s] = password.is \/ s \in disturbed)
      BY <1>1, <2>1, <3>2 DEF IInv, HoldersKnow
    <3>4. QED
      BY <1>1, <1>3, <2>1, <3>1, <3>3 DEF SetPassword
  <2>2. knows'[q] = password'.is /\ setter' = q /\ disturbed \subseteq disturbed'
    BY <1>1, <1>3 DEF SetPassword
  <2>3. QED
    BY <2>1, <2>2 DEF HoldersKnow
<1>5. QED
  BY <1>1, <1>2, <1>3, <1>4, FinishingDisturbs, WriteKeepsIInv

LEMMA ChangeHashedKeepsIInv ==
    ASSUME IInv, NEW q \in Requests, ChangeHashed(q)
    PROVE  IInv'
<1> DEFINE s == req[q].from
<1>1. /\ InFlight(q) /\ Finish(q) /\ req[q].kind = "change"
      /\ SetPassword(q, req[q].next) /\ sessions' = KeptBy(s)
      /\ knows' = [knows EXCEPT ![s] = req[q].next]
      /\ disturbed' = disturbed \cup Overlapping(q, AllKinds)
      /\ UNCHANGED <<reset, lapsed, issued, req, newest, uses>>
  BY DEF ChangeHashed, InFlight
<1>2. s \in Sessions /\ req[q].next \in Passwords
  BY <1>1 DEF IInv, Asked
<1>3. /\ sessions' \subseteq Sessions /\ sessions' \subseteq {s}
      /\ knows' \in [Sessions -> Passwords \cup {None}] /\ knows'[s] = req[q].next
  BY <1>1, <1>2 DEF IInv, TypeOK, KeptBy
<1>4. HoldersKnow'
  BY <1>1, <1>3 DEF HoldersKnow, SetPassword
<1>5. QED
  BY <1>1, <1>2, <1>3, <1>4, FinishingDisturbs, WriteKeepsIInv

LEMMA RedeemedKeepsIInv ==
    ASSUME IInv, NEW q \in Requests, Redeemed(q)
    PROVE  IInv'
<1>1. /\ InFlight(q) /\ Finish(q) /\ req[q].kind = "redeem"
      /\ SetPassword(q, req[q].next) /\ sessions' = {q} /\ reset' = None
      /\ uses' = [uses EXCEPT ![req[q].token] = @ + 1]
      /\ knows' = [knows EXCEPT ![q] = req[q].next]
      /\ disturbed' = disturbed \cup Overlapping(q, AllKinds)
      /\ UNCHANGED <<lapsed, issued, req, newest>>
  BY DEF Redeemed, InFlight, ResetAfterRedeem
<1>2. q \in Sessions /\ req[q].next \in Passwords
  BY <1>1 DEF IInv, Asked, Sessions
<1>3. /\ sessions' \subseteq Sessions
      /\ knows' \in [Sessions -> Passwords \cup {None}] /\ knows'[q] = req[q].next
  BY <1>1, <1>2 DEF IInv, TypeOK
<1>4. HoldersKnow'
  BY <1>1, <1>3 DEF HoldersKnow, SetPassword
<1>5. QED
  BY <1>1, <1>2, <1>3, <1>4, FinishingDisturbs, WriteKeepsIInv

LEMMA DiesKeepsIInv ==
    ASSUME IInv, NEW q \in Requests, Dies(q)
    PROVE  IInv'
<1> DEFINE p == IF req[q].kind = "login" THEN req[q].claim ELSE req[q].next
<1>1. /\ InFlight(q) /\ SetPassword(q, p) /\ disturbed' = disturbed \cup {q}
      /\ stage' = [o \in Requests |-> IF InFlight(o) THEN "done" ELSE stage[o]]
      /\ UNCHANGED <<lapsed, issued, req, newest, knows>>
  BY DEF Dies, InFlight
<1>2. p \in Passwords
  BY <1>1 DEF IInv, Asked
<1> HIDE DEF p
<1>3. WriteDisturbs(q)
  <2>1. \A o \in Requests : /\ ~InFlight(o)'
                            /\ stage'[o] = "new" <=> stage[o] = "new"
    BY <1>1 DEF InFlight
  <2>2. stage' \in [Requests -> {"new", "verifying", "hashing", "done"}]
    BY <1>1 DEF IInv, TypeOK
  <2>3. QED
    BY <1>1, <2>1, <2>2 DEF WriteDisturbs, IInv, TypeOK
<1>4. HoldersKnow' /\ sessions' \subseteq Sessions
  <2>1. setter' \in disturbed'
    BY <1>1 DEF SetPassword
  <2>2. QED
    BY <2>1 DEF HoldersKnow, Dies, IInv, TypeOK
<1>5. IF req[q].kind = "redeem"
      THEN /\ uses' = [uses EXCEPT ![req[q].token] = @ + 1]
           /\ RedeemDisturbed' \/ reset' = None
           /\ reset' \in {reset, None}
      ELSE UNCHANGED <<reset, uses>>
  <2>1. req[q].kind = "redeem" => RedeemDisturbed'
    BY <1>1 DEF RedeemDisturbed
  <2>2. QED
    BY <2>1 DEF Dies, ResetAfterRedeem
<1>6. knows' \in [Sessions -> Passwords \cup {None}]
  BY <1>1 DEF IInv, TypeOK
<1>7. QED
  BY <1>1, <1>2, <1>3, <1>4, <1>5, <1>6, WriteKeepsIInv

-----------------------------------------------------------------------------
(* The rest of the steps.                                                  *)

LEMMA LoginBeginsKeepsIInv ==
    ASSUME IInv, NEW q \in Requests, NEW p \in Passwords, LoginBegins(q, p)
    PROVE  IInv'
<1> DEFINE r == [NoRequest EXCEPT !.kind = "login", !.claim = p, !.seen = password]
<1>1. /\ r \in Request /\ r.kind = "login" /\ r.claim = p /\ r.seen = password
      /\ password \in Stored
  BY DEF NoRequest, Request, IInv, TypeOK
<1>2. Arrives(q) /\ Await(q, r, "verifying") /\ UNCHANGED <<rows, history>>
  BY DEF LoginBegins
<1> HIDE DEF r
<1>3. stage'[q] = "verifying" /\ req'[q] = r /\ password' = password
  BY <1>2 DEF Await, IInv, TypeOK, rows
<1>4. Asked(q)' /\ Fresh(q)'
  BY <1>1, <1>3 DEF Asked, Fresh
<1>5. UNCHANGED <<password, reset, lapsed, issued, sessions, history>>
  BY <1>2 DEF rows
<1>6. QED
  BY <1>1, <1>2, <1>4, <1>5, BeginsKeepsIInv

LEMMA ChangeBeginsKeepsIInv ==
    ASSUME IInv, NEW q \in Requests, NEW s \in Sessions, NEW p \in Passwords, NEW n \in Passwords,
           ChangeBegins(q, s, p, n)
    PROVE  IInv'
<1> DEFINE r == [NoRequest EXCEPT !.kind = "change", !.from = s, !.claim = p,
                                  !.next = n, !.seen = password]
<1>1. r \in Request /\ r.kind = "change" /\ r.from = s /\ r.next = n
  BY DEF NoRequest, Request, IInv, TypeOK
<1>2. Arrives(q) /\ Await(q, r, "verifying") /\ UNCHANGED <<rows, history>>
  BY DEF ChangeBegins
<1> HIDE DEF r
<1>3. stage'[q] = "verifying" /\ req'[q] = r
  BY <1>2 DEF Await, IInv, TypeOK
<1>4. Asked(q)' /\ Fresh(q)'
  BY <1>1, <1>3 DEF Asked, Fresh
<1>5. UNCHANGED <<password, reset, lapsed, issued, sessions, history>>
  BY <1>2 DEF rows
<1>6. QED
  BY <1>1, <1>2, <1>4, <1>5, BeginsKeepsIInv

LEMMA RedeemBeginsKeepsIInv ==
    ASSUME IInv, NEW q \in Requests, NEW t \in Tokens, NEW n \in Passwords, RedeemBegins(q, t, n)
    PROVE  IInv'
<1> DEFINE r == [NoRequest EXCEPT !.kind = "redeem", !.token = t, !.next = n]
<1>1. r \in Request /\ r.kind = "redeem" /\ r.token = t /\ r.next = n
  BY DEF NoRequest, Request
<1>2. /\ Arrives(q) /\ UNCHANGED <<password, lapsed, issued, sessions, history>>
      /\ \/ reset = t /\ Await(q, r, "hashing") /\ reset' = reset
         \/ Await(q, r, "done") /\ (reset' = reset \/ (reset \in lapsed /\ reset' = None))
  BY DEF RedeemBegins, Redeemable
<1> HIDE DEF r
<1>3. CASE reset = t /\ Await(q, r, "hashing") /\ reset' = reset
  <2>1. stage'[q] = "hashing" /\ req'[q] = r /\ issued' = issued
    BY <1>2, <1>3 DEF Await, IInv, TypeOK
  <2>2. t \in issued
    BY <1>3, NoneAssumption DEF IInv, TokensIssued
  <2>3. Asked(q)' /\ Fresh(q)'
    BY <1>1, <2>1, <2>2 DEF Asked, Fresh
  <2>4. QED
    BY <1>1, <1>2, <1>3, <2>3, BeginsKeepsIInv
<1>4. CASE Await(q, r, "done") /\ (reset' = reset \/ (reset \in lapsed /\ reset' = None))
  <2>1. stage'[q] = "done"
    BY <1>4 DEF Await, IInv, TypeOK
  <2>2. Asked(q)' /\ Fresh(q)'
    BY <2>1 DEF Asked, Fresh, InFlight
  <2>3. QED
    BY <1>1, <1>2, <1>4, <2>2, BeginsKeepsIInv
<1>5. QED
  BY <1>2, <1>3, <1>4

\* Issuing a token disturbs every redemption under way, so that with none
\* disturbed there is none under way to spend or to keep a token.
LEMMA ResetIssuedKeepsIInv ==
    ASSUME IInv, NEW t \in Tokens, ResetIssued(t)
    PROVE  IInv'
<1>1. /\ t \notin issued /\ issued' = issued \cup {t} /\ reset' = t /\ newest' = t
      /\ disturbed' = disturbed \cup Overlapping(None, {"redeem"})
      /\ UNCHANGED <<password, lapsed, sessions, stage, req, uses, knows, setter>>
  BY DEF ResetIssued
<1>2. /\ disturbed \subseteq disturbed' /\ disturbed' \subseteq Requests
      /\ \A o \in disturbed' : stage[o] # "new"
  BY <1>1 DEF Overlapping, InFlight, IInv, TypeOK, DisturbedBegan
<1>3. TypeOK'
  BY <1>1, <1>2 DEF IInv, TypeOK
<1>4. \A o \in Requests : Asked(o)' /\ Fresh(o)'
  <2>1. ASSUME NEW o \in Requests PROVE Asked(o)' /\ Fresh(o)'
    <3>1. Asked(o) /\ Fresh(o)
      BY DEF IInv
    <3>2. Asked(o)'
      BY <1>1, <3>1 DEF Asked, InFlight, Matches
    <3>3. Fresh(o)'
      BY <1>1, <1>2, <3>1 DEF Fresh, InFlight
    <3>4. QED
      BY <3>2, <3>3
  <2>2. QED
    BY <2>1
<1>5. DisturbedBegan' /\ SetByArgon' /\ TokensIssued' /\ HoldersKnow'
  BY <1>1, <1>2 DEF IInv, DisturbedBegan, SetByArgon, TokensIssued, HoldersKnow
<1>6. TokensHeld'
  <2>1. CASE RedeemDisturbed'
    BY <2>1 DEF TokensHeld
  <2>2. CASE ~RedeemDisturbed'
    <3>1. ~RedeemDisturbed
      BY <1>1, <1>2, <2>2 DEF RedeemDisturbed
    <3>2. \A o \in Requests : ~(InFlight(o)' /\ req'[o].kind = "redeem")
      BY <1>1, <2>2, NoneAssumption DEF RedeemDisturbed, Overlapping, InFlight
    <3>3. \A k \in Tokens : uses[k] <= 1 /\ (uses[k] > 0 => k \in issued)
      BY <3>1 DEF IInv, TokensHeld, TokensIssued
    <3>4. QED
      BY <1>1, <3>2, <3>3 DEF TokensHeld
  <2>3. QED
    BY <2>1, <2>2
<1>7. QED
  BY <1>3, <1>4, <1>5, <1>6 DEF IInv

\* An hour passes, or a session ends.
LEMMA TimeKeepsIInv ==
    ASSUME IInv,
           \/ \E t \in Tokens : HourPasses(t)
           \/ \E s \in Sessions : SessionEnds(s)
           \/ UNCHANGED vars
    PROVE  IInv'
<1>1. /\ UNCHANGED <<password, reset, issued, stage, req, newest, uses, knows, setter, disturbed>>
      /\ lapsed \subseteq lapsed' /\ lapsed' \subseteq issued /\ sessions' \subseteq sessions
  BY DEF HourPasses, SessionEnds, vars, rows, history, IInv, TypeOK
<1>2. TypeOK'
  BY <1>1 DEF IInv, TypeOK
<1>3. \A o \in Requests : Asked(o)' /\ Fresh(o)'
  BY <1>1 DEF IInv, Asked, Fresh, InFlight, Matches
<1>4. DisturbedBegan' /\ SetByArgon' /\ TokensIssued' /\ HoldersKnow'
  BY <1>1 DEF IInv, DisturbedBegan, SetByArgon, TokensIssued, HoldersKnow
<1>5. TokensHeld'
  <2>1. RedeemDisturbed' <=> RedeemDisturbed
    BY <1>1 DEF RedeemDisturbed
  <2>2. \A o \in Requests : InFlight(o)' <=> InFlight(o)
    BY <1>1 DEF InFlight
  <2>3. QED
    BY <1>1, <2>1, <2>2 DEF IInv, TokensHeld
<1>6. QED
  BY <1>2, <1>3, <1>4, <1>5 DEF IInv

-----------------------------------------------------------------------------
(* Theorems.                                                               *)

LEMMA InitIInv == Init => IInv
<1> SUFFICES ASSUME Init PROVE IInv
  OBVIOUS
<1>1. password \in Stored /\ password.is \in Passwords
  BY DEF Init, Stored
<1>2. NoRequest \in Request
  BY DEF NoRequest, Request
<1>3. Device \in Sessions
  BY DEF Sessions
<1>4. TypeOK
  BY <1>1, <1>2, <1>3 DEF Init, TypeOK
<1>5. \A q \in Requests : ~InFlight(q)
  BY DEF Init, InFlight
<1>6. \A q \in Requests : Asked(q) /\ Fresh(q)
  BY <1>5 DEF Asked, Fresh
<1>7. DisturbedBegan /\ SetByArgon /\ TokensIssued
  BY DEF Init, DisturbedBegan, SetByArgon, TokensIssued
<1>8. TokensHeld
  BY <1>5 DEF Init, TokensHeld
<1>9. HoldersKnow
  BY <1>3 DEF Init, HoldersKnow
<1>10. QED
  BY <1>4, <1>6, <1>7, <1>8, <1>9 DEF IInv

LEMMA NextKeepsIInv == IInv /\ [Next]_vars => IInv'
<1> SUFFICES ASSUME IInv, [Next]_vars PROVE IInv'
  OBVIOUS
<1>1. ASSUME NEW q \in Requests,
             \/ \E p \in Passwords : LoginBegins(q, p)
             \/ LoginVerified(q) \/ LoginRehashed(q)
             \/ \E s \in Sessions, p, n \in Passwords : ChangeBegins(q, s, p, n)
             \/ ChangeVerified(q) \/ ChangeHashed(q)
             \/ \E t \in Tokens, n \in Passwords : RedeemBegins(q, t, n)
             \/ Redeemed(q) \/ Dies(q)
      PROVE  IInv'
  BY <1>1, LoginBeginsKeepsIInv, VerifiedKeepsIInv, LoginRehashedKeepsIInv,
     ChangeBeginsKeepsIInv, ChangeHashedKeepsIInv, RedeemBeginsKeepsIInv,
     RedeemedKeepsIInv, DiesKeepsIInv
<1>2. ASSUME NEW t \in Tokens, ResetIssued(t) PROVE IInv'
  BY <1>2, ResetIssuedKeepsIInv
<1>3. CASE \/ \E t \in Tokens : HourPasses(t)
           \/ \E s \in Sessions : SessionEnds(s)
           \/ UNCHANGED vars
  BY <1>3, TimeKeepsIInv
<1>4. QED
  BY <1>1, <1>2, <1>3 DEF Next

\* The strengthening holds in every reachable state.
THEOREM Invariance == Spec => []IInv
BY InitIInv, NextKeepsIInv, PTL DEF Spec

\* Whoever holds a session showed the password that is current, unless a request
\* that overlapped another or was cut short made the session or the password.
THEOREM HoldersProved == Spec => []SessionsKnowThePassword
<1>1. IInv => SessionsKnowThePassword
  BY DEF IInv, HoldersKnow, SessionsKnowThePassword
<1>2. QED
  BY <1>1, Invariance, PTL

\* A reset token sets a password once and is gone then, unless a redemption
\* overlapped another write or was cut short.
THEOREM TokensAreSpent == Spec => []TokenSpent
<1>1. ASSUME IInv PROVE TokenSpent
  <2>1. \A t \in Tokens : uses[t] \in Nat
    BY <1>1 DEF IInv, TypeOK
  <2>2. QED
    BY <1>1, <2>1 DEF IInv, TokensHeld, RedeemDisturbed, TokenSpent
<1>2. QED
  BY <1>1, Invariance, PTL

\* The token handed out last stays good until it is used or its hour is up,
\* unless a redemption overlapped its issue.
THEOREM NewestStands == Spec => []NewestTokenStands
<1>1. IInv => NewestTokenStands
  BY DEF IInv, TokensHeld, RedeemDisturbed, NewestTokenStands
<1>2. QED
  BY <1>1, Invariance, PTL

=============================================================================
