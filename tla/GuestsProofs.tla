----------------------------- MODULE GuestsProofs -----------------------------
(***************************************************************************)
(* Proofs about Guests, for any guests, invites, rooms, names, joins and   *)
(* uses, none of which need be finitely many.                              *)
(*                                                                         *)
(* The invariants of the runs lean on each other and on a few facts of     *)
(* their own: that every account came on an invite that was made, that one *)
(* still waiting is promised that invite's rooms, and that an upload which *)
(* outlives its guest is known to be late.  The last section shows that    *)
(* Guests implements GuestPromise.                                         *)
(***************************************************************************)
EXTENDS GuestsRefinement, TLAPS, FiniteSetTheorems

\* The accounts that came on invite i.
On(i) == {g \in Guests : guest[g].by = i}

InvitesCounted ==
    \A i \in Invites :
        /\ IsFiniteSet(On(i)) /\ Cardinality(On(i)) = invite[i].uses
        /\ invite[i].uses <= invite[i].max
        /\ invite[i].state = "unmade" => invite[i].uses = 0

CameOnInvite(g) ==
    /\ guest[g].status = "free" <=> guest[g].by = None
    /\ guest[g].by # None => invite[guest[g].by].state # "unmade"
    /\ guest[g].status = "waiting" => guest[g].promised \subseteq invite[guest[g].by].rooms

EnteredByAdmission(g) ==
    \A r \in guest[g].rooms :
        /\ r \in Standing
        /\ r \notin placed[g] => /\ guest[g].status = "admitted"
                                /\ r \in invite[guest[g].by].rooms

GoneIfEnded(g) ==
    guest[g].status \in Closed =>
        /\ guest[g].rooms \subseteq placed[g] /\ guest[g].promised = {} /\ ~ guest[g].linked
        /\ guest[g].session # "none" => g \in adrift
        /\ guest[g].files # {} \/ upload[g] # None => g \in late

WillEnd(g) ==
    Here(g) /\ guest[g].session \notin {"live", "over"} => g \in adrift

GuestOK(g) ==
    CameOnInvite(g) /\ EnteredByAdmission(g) /\ GoneIfEnded(g) /\ WillEnd(g)

IInv ==
    /\ TypeOK
    /\ InvitesCounted
    /\ DisplayNamesDistinct
    /\ \A g \in Guests : GuestOK(g)

-----------------------------------------------------------------------------
(* What a step does to an account.                                         *)

\* What accounts rest on stays: invites once made, and the histories.
ContextKept ==
    /\ \A i \in Invites : invite[i].state # "unmade" =>
            invite'[i].state # "unmade" /\ invite'[i].rooms = invite[i].rooms
    /\ \A g \in Guests : placed[g] \subseteq placed'[g]
    /\ adrift \subseteq adrift' /\ late \subseteq late'

\* g's account keeps its status, name and promise, gets no room and loses none
\* of what will end it.
Stays(g) ==
    LET a == guest[g]
        b == guest'[g]
    IN  /\ b.status = a.status /\ b.by = a.by /\ b.name = a.name /\ b.promised = a.promised
        /\ \A r \in b.rooms : r \in a.rooms /\ (r \in Standing => r \in Standing')
        /\ b.role \in {a.role, "member"}
        /\ b.linked => a.linked \/ a.status = "admitted"
        /\ \/ b.session = a.session \/ g \in adrift'
           \/ a.session = "live" /\ b.session = "over"
           \/ /\ b.session = "none"
              /\ a.session = "member" \/ a.role = "member" \/ a.status \notin Open
        /\ b.files # {} => a.files # {} \/ upload[g] # None
        /\ upload'[g] # None => upload[g] # None \/ a.status = "admitted"

\* g's account is ended, with nothing left of it but an upload known to be late.
Ends(g) ==
    LET a == guest[g]
        b == guest'[g]
    IN  /\ a.status \in Open /\ b.status \in Closed /\ b.by = a.by
        /\ b.promised = {} /\ b.rooms = {} /\ b.files = {} /\ b.session = "none" /\ ~ b.linked
        /\ upload'[g] # None => g \in late'

LEMMA StayingKeepsGuest ==
    ASSUME IInv, NEW g \in Guests, ContextKept, Stays(g)
    PROVE  GuestOK(g)'
<1> USE DEF Stays
<1>1. GuestOK(g) /\ (guest[g].by # None => guest[g].by \in Invites)
  BY DEF IInv, TypeOK, Account
<1>2. CameOnInvite(g)'
  BY <1>1 DEF GuestOK, CameOnInvite, ContextKept
<1>3. EnteredByAdmission(g)'
  BY <1>1 DEF GuestOK, CameOnInvite, EnteredByAdmission, ContextKept
<1>4. GoneIfEnded(g)'
  BY <1>1 DEF GuestOK, GoneIfEnded, ContextKept, Closed
<1>5. WillEnd(g)'
  BY <1>1 DEF GuestOK, WillEnd, Here, ContextKept
<1>6. QED
  BY <1>2, <1>3, <1>4, <1>5 DEF GuestOK

LEMMA EndingKeepsGuest ==
    ASSUME IInv, NEW g \in Guests, ContextKept, Ends(g)
    PROVE  GuestOK(g)'
<1> USE DEF Ends, Open, Closed
<1>1. GuestOK(g) /\ (guest[g].by # None => guest[g].by \in Invites)
  BY DEF IInv, TypeOK, Account
<1>2. CameOnInvite(g)'
  BY <1>1 DEF GuestOK, CameOnInvite, ContextKept
<1>3. EnteredByAdmission(g)' /\ GoneIfEnded(g)' /\ WillEnd(g)'
  BY DEF EnteredByAdmission, GoneIfEnded, WillEnd, Here
<1>4. QED
  BY <1>2, <1>3 DEF GuestOK

\* A step that makes no account and no invite.
LEMMA GoingKeepsIInv ==
    ASSUME IInv, TypeOK', ContextKept, \A g \in Guests : Stays(g) \/ Ends(g),
           \A i \in Invites :
               /\ invite'[i].uses = invite[i].uses
               /\ \/ invite'[i].max = invite[i].max
                  \/ invite[i].state = "unmade" /\ invite'[i].max \in Nat
               /\ invite'[i].state = "unmade" => invite[i].state = "unmade"
    PROVE  IInv'
<1>1. \A g \in Guests : GuestOK(g)'
  BY StayingKeepsGuest, EndingKeepsGuest
<1>2. \A g \in Guests : guest'[g].by = guest[g].by
  BY DEF Stays, Ends
<1>3. \A i \in Invites : On(i)' = On(i)
  BY <1>2 DEF On
<1>4. InvitesCounted'
  BY <1>3 DEF IInv, InvitesCounted
<1>5. \A g \in Guests : Here(g)' => Here(g) /\ guest'[g].name = guest[g].name
  BY DEF Stays, Ends, Here, Open, Closed
<1>6. DisplayNamesDistinct'
  BY <1>5 DEF IInv, DisplayNamesDistinct
<1>7. QED
  BY <1>1, <1>4, <1>6 DEF IInv

-----------------------------------------------------------------------------
(* The end of a session.                                                   *)

LEMMA WithoutRowFields ==
    ASSUME NEW a \in Account
    PROVE  /\ WithoutRow(a) \in Account
           /\ LET b == WithoutRow(a)
              IN  /\ b.session = "none"
                  /\ b.status = a.status /\ b.role = a.role /\ b.name = a.name /\ b.by = a.by
                  /\ b.promised = a.promised /\ b.rooms = a.rooms
                  /\ b.files = a.files /\ b.linked = a.linked
BY DEF WithoutRow, Account

LEMMA RetiredFields ==
    ASSUME NEW a \in Account
    PROVE  /\ Retired(a) \in Account
           /\ LET b == Retired(a)
              IN  /\ b.status = "removed" /\ b.promised = {} /\ b.rooms = {}
                  /\ b.files = {} /\ b.linked = FALSE
                  /\ b.role = a.role /\ b.name = a.name /\ b.by = a.by
                  /\ b.session = a.session
<1>1. Retired(a) \in Account
  BY DEF Retired, Account
<1>2. QED
  BY <1>1 DEF Retired, Account

\* Sweeping an account leaves it alone, takes the row of one that is no guest
\* any more, or retires the guest.
LEMMA SweptCases ==
    ASSUME NEW a \in Account
    PROVE  /\ Swept(a) \in Account
           /\ \/ Swept(a) = a
              \/ /\ Swept(a) = WithoutRow(a)
                 /\ a.role = "member" \/ a.status \notin Open
              \/ /\ Swept(a) = Retired(WithoutRow(a))
                 /\ a.role = "guest" /\ a.status \in Open
<1>1. CASE a.session = "over"
  <2>1. Swept(a) = Retire(WithoutRow(a))
    BY <1>1 DEF Swept
  <2>2. /\ WithoutRow(a) \in Account /\ WithoutRow(a).session = "none"
        /\ WithoutRow(a).role = a.role /\ WithoutRow(a).status = a.status
    BY WithoutRowFields
  <2>3. CASE a.role = "guest" /\ a.status \in Open
    BY <2>1, <2>2, <2>3, RetiredFields DEF Retire
  <2>4. CASE ~ (a.role = "guest" /\ a.status \in Open)
    BY <2>1, <2>2, <2>4 DEF Retire, Account
  <2>5. QED
    BY <2>3, <2>4
<1>2. CASE a.session # "over"
  BY <1>2 DEF Swept
<1>3. QED
  BY <1>1, <1>2

\* What the sweep of expired rows does to a guest it reaches.
LEMMA SweepingGoes ==
    ASSUME IInv, NEW g \in Guests, guest'[g] = Swept(guest[g]), EndsLate(guest'),
           UNCHANGED <<upload, room>>
    PROVE  Stays(g) \/ Ends(g)
<1> DEFINE a == guest[g]
<1>1. a \in Account
  BY DEF IInv, TypeOK
<1>2. Standing' = Standing
  BY DEF Standing
<1>3. CASE guest'[g] = a
  BY <1>2, <1>3 DEF Stays
<1>4. CASE guest'[g] = WithoutRow(a) /\ (a.role = "member" \/ a.status \notin Open)
  BY <1>1, <1>2, <1>4, WithoutRowFields DEF Stays
<1>5. CASE guest'[g] = Retired(WithoutRow(a)) /\ a.status \in Open
  <2>1. /\ WithoutRow(a) \in Account
        /\ WithoutRow(a).by = a.by /\ WithoutRow(a).session = "none"
    BY <1>1, WithoutRowFields
  <2>2. LET b == guest'[g]
        IN  /\ b.status = "removed" /\ b.promised = {} /\ b.rooms = {} /\ b.files = {}
            /\ b.linked = FALSE /\ b.by = a.by /\ b.session = "none"
    BY <1>5, <2>1, RetiredFields
  <2>3. upload[g] # None => g \in late'
    BY <1>5, <2>2 DEF EndsLate, Closed
  <2>4. QED
    BY <1>5, <2>2, <2>3 DEF Ends, Closed
<1>6. QED
  BY <1>1, <1>3, <1>4, <1>5, SweptCases

-----------------------------------------------------------------------------
(* The steps.                                                              *)

\* A step that changes no account and lets nobody upload who is not admitted.
LEMMA QuietKeepsIInv ==
    ASSUME IInv, TypeOK', UNCHANGED <<guest, room, adrift, late, placed>>,
           \A g \in Guests :
               upload'[g] # None => upload[g] # None \/ guest[g].status = "admitted",
           \A i \in Invites :
               \/ invite'[i] = invite[i]
               \/ /\ invite'[i].uses = invite[i].uses /\ invite'[i].state # "unmade"
                  /\ \/ invite[i].state = "unmade" /\ invite'[i].max \in Nat
                     \/ /\ invite'[i].max = invite[i].max
                        /\ invite'[i].rooms = invite[i].rooms
    PROVE  IInv'
<1>1. ContextKept
  BY DEF ContextKept
<1>2. \A g \in Guests : Stays(g)
  BY DEF Stays, Standing
<1>3. QED
  BY <1>1, <1>2, GoingKeepsIInv

\* A step in which every account stays or ends, and no room is made.
LEMMA AccountsKeepIInv ==
    ASSUME IInv, guest' \in [Guests -> Account], invite' = invite,
           join' \in [Joins -> JoinRequest \cup {None}],
           upload' \in [Guests -> Rooms \cup {None}],
           room' \in [Rooms -> {"unmade", "standing", "deleted"}],
           adrift \subseteq adrift', late \subseteq late',
           \A g \in Guests : placed[g] \subseteq placed'[g],
           adrift' \subseteq Guests, late' \subseteq Guests,
           placed' \in [Guests -> SUBSET Rooms],
           \A g \in Guests : Stays(g) \/ Ends(g)
    PROVE  IInv'
<1>1. ContextKept
  BY DEF ContextKept
<1>2. TypeOK'
  BY DEF IInv, TypeOK
<1>3. QED
  BY <1>1, <1>2, GoingKeepsIInv

\* A step of one account.
LEMMA EditKeepsIInv ==
    ASSUME IInv, NEW g \in Guests, guest' \in [Guests -> Account],
           upload' \in [Guests -> Rooms \cup {None}],
           \A h \in Guests \ {g} : guest'[h] = guest[h] /\ upload'[h] = upload[h],
           UNCHANGED <<invite, join, room, adrift, late, placed>>, Stays(g)
    PROVE  IInv'
<1>1. \A h \in Guests \ {g} : Stays(h)
  BY DEF Stays, Standing
<1>2. QED
  BY <1>1, AccountsKeepIInv DEF IInv, TypeOK

LEMMA InviteStepKeepsIInv ==
    ASSUME IInv, NEW i \in Invites,
           \/ \E max \in 1..MaxUses, R \in SUBSET Rooms : CreateInvite(i, max, R)
           \/ RevokeInvite(i) \/ InviteLapses(i)
    PROVE  IInv'
<1>1. /\ UNCHANGED <<guest, join, upload, room, adrift, late, placed>>
      /\ \A j \in Invites \ {i} : invite'[j] = invite[j]
  BY DEF CreateInvite, RevokeInvite, InviteLapses, IInv, TypeOK
<1>2. invite[i] \in Invite /\ invite \in [Invites -> Invite]
  BY DEF IInv, TypeOK
<1>3. /\ invite'[i] \in Invite
      /\ invite'[i].uses = invite[i].uses /\ invite'[i].state # "unmade"
      /\ \/ invite[i].state = "unmade" /\ invite'[i].max \in Nat
         \/ invite'[i].max = invite[i].max /\ invite'[i].rooms = invite[i].rooms
  <2>1. ASSUME NEW max \in 1..MaxUses, NEW R \in SUBSET Rooms, CreateInvite(i, max, R)
        PROVE  /\ invite'[i] \in Invite
               /\ invite'[i].uses = invite[i].uses /\ invite'[i].state = "out"
               /\ invite[i].state = "unmade" /\ invite'[i].max \in Nat
    <3>1. invite'[i] = [invite[i] EXCEPT !.state = "out", !.max = max, !.rooms = R]
      BY <1>2, <2>1 DEF CreateInvite
    <3>2. max \in Nat
      BY MaxUsesAssumption
    <3>3. QED
      BY <1>2, <2>1, <3>1, <3>2 DEF Invite, CreateInvite
  <2>2. ASSUME RevokeInvite(i)
        PROVE  /\ invite'[i] \in Invite
               /\ invite'[i].uses = invite[i].uses /\ invite'[i].state = "revoked"
               /\ invite'[i].max = invite[i].max /\ invite'[i].rooms = invite[i].rooms
    <3>1. invite'[i] = [invite[i] EXCEPT !.state = "revoked"]
      BY <1>2, <2>2 DEF RevokeInvite
    <3>2. QED
      BY <1>2, <3>1 DEF Invite
  <2>3. ASSUME InviteLapses(i)
        PROVE  /\ invite'[i] \in Invite
               /\ invite'[i].uses = invite[i].uses /\ invite'[i].state # "unmade"
               /\ invite'[i].max = invite[i].max /\ invite'[i].rooms = invite[i].rooms
    <3>1. invite'[i] = [invite[i] EXCEPT !.lapsed = TRUE] /\ invite[i].state # "unmade"
      BY <1>2, <2>3 DEF InviteLapses
    <3>2. QED
      BY <1>2, <3>1 DEF Invite
  <2>4. QED
    BY <2>1, <2>2, <2>3
<1>4. invite' \in [Invites -> Invite]
  BY <1>1, <1>2, <1>3 DEF CreateInvite, RevokeInvite, InviteLapses
<1>5. TypeOK'
  BY <1>1, <1>4 DEF IInv, TypeOK
<1>6. QED
  BY <1>1, <1>3, <1>5, QuietKeepsIInv

\* What a guest does with a socket or a file.
LEMMA GuestStepKeepsIInv == IInv /\ GuestStep => IInv'
<1> SUFFICES ASSUME IInv, NEW g \in Guests,
                    \/ Link(g) \/ Unlink(g)
                    \/ \E r \in Rooms : UploadBegins(g, r)
                    \/ UploadEnds(g) \/ UploadFails(g)
             PROVE  IInv'
  BY DEF GuestStep
<1>1. guest \in [Guests -> Account] /\ guest[g] \in Account
  BY DEF IInv, TypeOK
<1>2. ASSUME NEW on \in BOOLEAN, guest' = [guest EXCEPT ![g].linked = on],
             on => guest[g].status = "admitted",
             UNCHANGED <<invite, join, upload, room, adrift, late, placed>>
      PROVE  IInv'
  <2>1. /\ guest'[g] = [guest[g] EXCEPT !.linked = on]
        /\ \A h \in Guests \ {g} : guest'[h] = guest[h]
    BY <1>1, <1>2
  <2>2. guest' \in [Guests -> Account]
    BY <1>1, <1>2 DEF Account
  <2>3. Stays(g)
    BY <1>1, <1>2, <2>1 DEF Stays, Standing, Account
  <2>4. QED
    BY <1>2, <2>1, <2>2, <2>3, EditKeepsIInv DEF IInv, TypeOK
<1>3. CASE Link(g)
  BY <1>2, <1>3 DEF Link, Served
<1>4. CASE Unlink(g)
  BY <1>2, <1>4 DEF Unlink
<1>5. CASE (\E r \in Rooms : UploadBegins(g, r)) \/ UploadFails(g)
  <2>1. /\ upload' \in [Guests -> Rooms \cup {None}]
        /\ UNCHANGED <<invite, guest, join, room, adrift, late, placed>>
        /\ \A h \in Guests :
              upload'[h] # None => upload[h] # None \/ guest[h].status = "admitted"
    BY <1>5 DEF UploadBegins, UploadFails, Served, IInv, TypeOK
  <2>2. TypeOK'
    BY <2>1 DEF IInv, TypeOK
  <2>3. QED
    BY <2>1, <2>2, QuietKeepsIInv
<1>6. CASE UploadEnds(g)
  <2>1. /\ upload[g] \in Rooms /\ upload'[g] = None
        /\ upload' \in [Guests -> Rooms \cup {None}]
        /\ \A h \in Guests \ {g} : upload'[h] = upload[h]
        /\ UNCHANGED <<invite, join, room, adrift, late, placed>>
        /\ guest' = [guest EXCEPT ![g].files = @ \cup {upload[g]}]
    BY <1>6 DEF UploadEnds, IInv, TypeOK
  <2>2. /\ guest'[g] = [guest[g] EXCEPT !.files = guest[g].files \cup {upload[g]}]
        /\ \A h \in Guests \ {g} : guest'[h] = guest[h]
    BY <1>1, <2>1
  <2>3. guest'[g] \in Account
    BY <1>1, <2>1, <2>2 DEF Account
  <2>4. guest' \in [Guests -> Account]
    BY <1>1, <2>1, <2>2, <2>3
  <2>5. Stays(g)
    <3>1. upload[g] # None
      BY <1>6 DEF UploadEnds
    <3>2. QED
      BY <1>1, <2>1, <2>2, <3>1 DEF Stays, Standing, Account
  <2>6. QED
    BY <2>1, <2>2, <2>4, <2>5, EditKeepsIInv
<1>7. QED
  BY <1>3, <1>4, <1>5, <1>6

\* Sessions that end, and what an admin or a member does to a guest.
LEMMA AccountEditKeepsIInv ==
    ASSUME IInv, NEW g \in Guests,
           \/ SessionLapses(g) \/ MemberSessionEnds(g) \/ Promote(g)
           \/ \E r \in Rooms : Kick(g, r)
    PROVE  IInv'
<1>1. guest \in [Guests -> Account] /\ guest[g] \in Account
  BY DEF IInv, TypeOK
<1>2. /\ UNCHANGED <<invite, join, upload, room, adrift, late, placed>>
      /\ \A h \in Guests \ {g} : guest'[h] = guest[h]
  BY <1>1 DEF SessionLapses, MemberSessionEnds, Promote, Kick
<1>3. guest' \in [Guests -> Account] /\ Stays(g)
  <2>1. CASE SessionLapses(g)
    <3>1. guest'[g] = [guest[g] EXCEPT !.session = "over"] /\ guest[g].session = "live"
      BY <1>1, <2>1 DEF SessionLapses
    <3>2. guest' \in [Guests -> Account]
      BY <1>1, <2>1 DEF SessionLapses, Account
    <3>3. QED
      BY <1>1, <1>2, <3>1, <3>2 DEF Stays, Standing, Account
  <2>2. CASE MemberSessionEnds(g)
    <3>1. guest'[g] = WithoutRow(guest[g]) /\ guest[g].session = "member"
      BY <1>1, <2>2 DEF MemberSessionEnds
    <3>2. guest' \in [Guests -> Account]
      BY <1>1, <2>2, WithoutRowFields DEF MemberSessionEnds
    <3>3. QED
      BY <1>1, <1>2, <3>1, <3>2, WithoutRowFields DEF Stays, Standing
  <2>3. CASE Promote(g)
    <3>1. guest'[g] = [guest[g] EXCEPT !.role = "member"]
      BY <1>1, <2>3 DEF Promote
    <3>2. guest' \in [Guests -> Account]
      BY <1>1, <2>3 DEF Promote, Account
    <3>3. QED
      BY <1>1, <1>2, <3>1, <3>2 DEF Stays, Standing, Account
  <2>4. ASSUME NEW r \in Rooms, Kick(g, r) PROVE guest' \in [Guests -> Account] /\ Stays(g)
    <3>1. guest'[g] = [guest[g] EXCEPT !.rooms = guest[g].rooms \ {r}]
      BY <1>1, <2>4 DEF Kick
    <3>2. guest'[g] \in Account
      BY <1>1, <3>1 DEF Account
    <3>3. guest' \in [Guests -> Account]
      BY <1>1, <2>4, <3>2 DEF Kick
    <3>4. QED
      BY <1>1, <1>2, <3>1, <3>3 DEF Stays, Standing, Account
  <2>5. QED
    BY <2>1, <2>2, <2>3, <2>4
<1>4. QED
  BY <1>2, <1>3, EditKeepsIInv DEF IInv, TypeOK

LEMMA EndsLateType ==
    ASSUME IInv, NEW gs, EndsLate(gs)
    PROVE  late \subseteq late' /\ late' \subseteq Guests
BY DEF EndsLate, IInv, TypeOK

\* Every account swept, one account swept, and one account purged.
LEMMA SweepKeepsIInv ==
    ASSUME IInv, NEW g \in Guests, SomebodyLogsIn \/ ExpiredSessionSeen(g) \/ Purge(g)
    PROVE  IInv'
<1>1. guest \in [Guests -> Account] /\ \A h \in Guests : guest[h] \in Account
  BY DEF IInv, TypeOK
<1>2. /\ UNCHANGED <<invite, join, upload, room, adrift, placed>>
      /\ EndsLate(guest')
  BY DEF SomebodyLogsIn, ExpiredSessionSeen, Purge
<1>3. ASSUME NEW h \in Guests, guest'[h] = guest[h] PROVE Stays(h)
  BY <1>2, <1>3 DEF Stays, Standing
<1>4. guest' \in [Guests -> Account] /\ \A h \in Guests : Stays(h) \/ Ends(h)
  <2>1. CASE SomebodyLogsIn
    <3>1. guest' = [h \in Guests |-> Swept(guest[h])]
      BY <2>1 DEF SomebodyLogsIn, Pruned
    <3>2. guest' \in [Guests -> Account]
      BY <1>1, <3>1, SweptCases
    <3>3. QED
      BY <1>2, <3>1, <3>2, SweepingGoes
  <2>2. CASE ExpiredSessionSeen(g)
    <3>1. guest' = [guest EXCEPT ![g] = Swept(guest[g])]
      BY <2>2 DEF ExpiredSessionSeen
    <3>2. guest' \in [Guests -> Account]
      BY <1>1, <3>1, SweptCases
    <3>3. Stays(g) \/ Ends(g)
      BY <1>1, <1>2, <3>1, SweepingGoes
    <3>4. QED
      BY <1>1, <1>3, <3>1, <3>2, <3>3
  <2>3. CASE Purge(g)
    <3> DEFINE b == [NoAccount EXCEPT !.status = "purged", !.by = guest[g].by]
    <3>1. /\ b \in Account /\ b.status = "purged" /\ b.by = guest[g].by
          /\ b.promised = {} /\ b.rooms = {} /\ b.files = {} /\ b.session = "none"
          /\ ~ b.linked
      BY <1>1 DEF NoAccount, Account
    <3> HIDE DEF b
    <3>2. guest' = [guest EXCEPT ![g] = b] /\ guest[g].status \in Open
      BY <2>3 DEF Purge, b
    <3>3. guest' \in [Guests -> Account] /\ guest'[g] = b
      BY <1>1, <3>1, <3>2
    <3>4. upload[g] # None => g \in late'
      BY <1>2, <3>1, <3>2, <3>3 DEF EndsLate, Closed
    <3>5. Ends(g)
      BY <1>2, <3>1, <3>2, <3>3, <3>4 DEF Ends, Closed
    <3>6. QED
      BY <1>1, <1>3, <3>2, <3>3, <3>5
  <2>4. QED
    BY <2>1, <2>2, <2>3
<1>5. late \subseteq late' /\ late' \subseteq Guests
  BY <1>2, EndsLateType
<1>6. QED
  BY <1>2, <1>4, <1>5, AccountsKeepIInv DEF IInv, TypeOK

LEMMA PasswordResetKeepsIInv ==
    ASSUME IInv, NEW g \in Guests, PasswordReset(g)
    PROVE  IInv'
<1> DEFINE b == [guest[g] EXCEPT !.session = "member", !.linked = FALSE]
<1>1. \A h \in Guests : guest[h] \in Account
  BY DEF IInv, TypeOK
<1>2. LET a == guest[g]
      IN  /\ b \in Account /\ b.session = "member" /\ ~ b.linked
          /\ b.status = a.status /\ b.role = a.role /\ b.name = a.name /\ b.by = a.by
          /\ b.promised = a.promised /\ b.rooms = a.rooms /\ b.files = a.files
  BY <1>1 DEF Account
<1> HIDE DEF b
<1>3. /\ guest' = [Pruned EXCEPT ![g] = b]
      /\ adrift' = adrift \cup {g} /\ EndsLate(guest')
      /\ UNCHANGED <<invite, join, upload, room, placed>>
  BY DEF PasswordReset, b
<1>4. /\ guest'[g] = b
      /\ \A h \in Guests \ {g} : guest'[h] = Swept(guest[h])
  BY <1>3 DEF Pruned
<1>5. guest' \in [Guests -> Account]
  <2>1. Pruned \in [Guests -> Account]
    BY <1>1, SweptCases DEF Pruned
  <2>2. QED
    BY <1>2, <1>3, <2>1
<1>6. Stays(g)
  BY <1>2, <1>3, <1>4 DEF Stays, Standing
<1>7. \A h \in Guests \ {g} : Stays(h) \/ Ends(h)
  BY <1>3, <1>4, SweepingGoes
<1>8. late \subseteq late' /\ late' \subseteq Guests
  BY <1>3, EndsLateType
<1>9. QED
  BY <1>3, <1>5, <1>6, <1>7, <1>8, AccountsKeepIInv DEF IInv, TypeOK

\* The rows of a dying process, with nobody linked any more.
LEMMA UnlinkedFields ==
    ASSUME NEW a \in Account
    PROVE  LET b == [a EXCEPT !.linked = FALSE]
           IN  /\ b \in Account /\ ~ b.linked
               /\ b.status = a.status /\ b.role = a.role /\ b.name = a.name /\ b.by = a.by
               /\ b.promised = a.promised /\ b.rooms = a.rooms
               /\ b.session = a.session /\ b.files = a.files
BY DEF Account

\* A guest who outlives a death: as they were, without their row, or swept.
LEMMA DyingGoes ==
    ASSUME IInv, NEW g \in Guests, NEW a,
           \/ a = guest[g]
           \/ a = WithoutRow(guest[g]) /\ g \in adrift'
           \/ a = Swept(guest[g]),
           guest'[g] = [a EXCEPT !.linked = FALSE], upload'[g] = None, room' = room
    PROVE  guest'[g] \in Account /\ (Stays(g) \/ Ends(g))
<1>1. guest[g] \in Account /\ Standing' = Standing
  BY DEF IInv, TypeOK, Standing
<1>2. CASE a = guest[g]
  BY <1>1, <1>2, UnlinkedFields DEF Stays
<1>3. CASE /\ a = WithoutRow(guest[g])
           /\ \/ g \in adrift'
              \/ guest[g].role = "member" \/ guest[g].status \notin Open
  BY <1>1, <1>3, WithoutRowFields, UnlinkedFields DEF Stays
<1>4. CASE a = Retired(WithoutRow(guest[g])) /\ guest[g].status \in Open
  <2>1. /\ WithoutRow(guest[g]) \in Account
        /\ WithoutRow(guest[g]).by = guest[g].by /\ WithoutRow(guest[g]).session = "none"
    BY <1>1, WithoutRowFields
  <2>2. /\ a \in Account
        /\ a.status = "removed" /\ a.promised = {} /\ a.rooms = {} /\ a.files = {}
        /\ a.by = guest[g].by /\ a.session = "none"
    BY <1>4, <2>1, RetiredFields
  <2>3. QED
    BY <1>4, <2>2, UnlinkedFields DEF Ends, Closed
<1>5. QED
  BY <1>1, <1>2, <1>3, <1>4, SweptCases

LEMMA DyingKeepsIInv ==
    ASSUME IInv, NEW gs, Dies(gs), UNCHANGED invite,
           adrift \subseteq adrift', adrift' \subseteq Guests,
           \A g \in Guests :
               \/ gs[g] = guest[g]
               \/ gs[g] = WithoutRow(guest[g]) /\ g \in adrift'
               \/ gs[g] = Swept(guest[g])
    PROVE  IInv'
<1>1. /\ guest' = [g \in Guests |-> [gs[g] EXCEPT !.linked = FALSE]]
      /\ join' = [q \in Joins |-> None] /\ upload' = [g \in Guests |-> None]
      /\ UNCHANGED <<room, late, placed>>
  BY DEF Dies
<1>2. \A g \in Guests : guest'[g] \in Account /\ (Stays(g) \/ Ends(g))
  BY <1>1, DyingGoes
<1>3. guest' \in [Guests -> Account]
  BY <1>1, <1>2
<1>4. QED
  BY <1>1, <1>2, <1>3, AccountsKeepIInv DEF IInv, TypeOK

LEMMA DeathKeepsIInv ==
    ASSUME IInv, DiesIdle \/ \E S \in SUBSET Ending : DiesPruning(S)
    PROVE  IInv'
<1>1. CASE DiesIdle
  BY <1>1, DyingKeepsIInv DEF DiesIdle, IInv, TypeOK
<1>2. ASSUME NEW S \in SUBSET Ending, DiesPruning(S) PROVE IInv'
  <2> DEFINE gs == [g \in Guests |->
                        IF g \in Ending \ S THEN WithoutRow(guest[g]) ELSE Pruned[g]]
  <2>1. Dies(gs) /\ UNCHANGED invite /\ adrift' = adrift \cup (Ending \ S)
    BY <1>2 DEF DiesPruning
  <2>2. \A g \in Guests : \/ gs[g] = WithoutRow(guest[g]) /\ g \in adrift'
                          \/ gs[g] = Swept(guest[g])
    BY <2>1 DEF Pruned
  <2>3. adrift \subseteq adrift' /\ adrift' \subseteq Guests
    BY <2>1 DEF Ending, IInv, TypeOK
  <2> HIDE DEF gs
  <2>4. QED
    BY <2>1, <2>2, <2>3, DyingKeepsIInv
<1>3. QED
  BY <1>1, <1>2

LEMMA DeleteRoomKeepsIInv ==
    ASSUME IInv, NEW r \in Rooms, DeleteRoom(r)
    PROVE  IInv'
<1>1. /\ room' = [room EXCEPT ![r] = "deleted"]
      /\ guest' = [g \in Guests |-> [guest[g] EXCEPT !.rooms = guest[g].rooms \ {r},
                                                     !.files = guest[g].files \ {r}]]
      /\ UNCHANGED <<invite, join, upload, adrift, late, placed>>
  BY DEF DeleteRoom
<1>2. \A q \in Rooms : q \in Standing /\ q # r => q \in Standing'
  BY <1>1 DEF Standing, IInv, TypeOK
<1>3. ASSUME NEW g \in Guests PROVE guest'[g] \in Account /\ Stays(g)
  <2>1. guest[g] \in Account
    BY DEF IInv, TypeOK
  <2>2. LET a == guest[g]
            b == guest'[g]
        IN  /\ b \in Account /\ b.rooms = a.rooms \ {r} /\ b.files \subseteq a.files
            /\ b.status = a.status /\ b.role = a.role /\ b.name = a.name /\ b.by = a.by
            /\ b.promised = a.promised /\ b.session = a.session /\ b.linked = a.linked
    BY <1>1, <2>1 DEF Account
  <2>3. guest[g].rooms \subseteq Rooms
    BY <2>1 DEF Account
  <2>4. QED
    BY <1>1, <1>2, <2>2, <2>3 DEF Stays
<1>4. guest' \in [Guests -> Account]
  BY <1>1, <1>3
<1>5. QED
  BY <1>1, <1>3, <1>4, AccountsKeepIInv DEF IInv, TypeOK

\* The master lets a guest in: into the rooms of their invite that stand.
LEMMA AdmitKeepsIInv ==
    ASSUME IInv, NEW g \in Guests, Admit(g)
    PROVE  IInv'
<1> DEFINE R == guest[g].rooms \cup RoomsToEnter(g)
<1>1. /\ guest \in [Guests -> Account] /\ guest[g] \in Account
      /\ guest[g].status = "waiting"
      /\ guest' = [guest EXCEPT ![g].status = "admitted", ![g].rooms = R]
      /\ UNCHANGED <<invite, join, upload, room, adrift, late, placed>>
  BY DEF Admit, IInv, TypeOK
<1>2. RoomsToEnter(g) \subseteq Standing /\ RoomsToEnter(g) \subseteq guest[g].promised
  BY DEF RoomsToEnter
<1> HIDE DEF R
<1>3. /\ guest'[g] = [guest[g] EXCEPT !.status = "admitted", !.rooms = R]
      /\ \A h \in Guests \ {g} : guest'[h] = guest[h]
  BY <1>1
<1>4. LET a == guest[g]
          b == guest'[g]
      IN  /\ b \in Account /\ b.status = "admitted" /\ b.rooms = R
          /\ b.role = a.role /\ b.name = a.name /\ b.by = a.by
          /\ b.promised = a.promised /\ b.session = a.session
  <2>1. R \subseteq Rooms
    BY <1>1, <1>2 DEF R, Account, Standing
  <2>2. QED
    BY <1>1, <1>3, <2>1 DEF Account
<1>5. guest' \in [Guests -> Account]
  BY <1>1, <1>4
<1>6. TypeOK'
  BY <1>1, <1>5 DEF IInv, TypeOK
<1>7. \A h \in Guests : guest'[h].by = guest[h].by
  BY <1>3, <1>4
<1>8. InvitesCounted'
  <2>1. \A i \in Invites : On(i)' = On(i)
    BY <1>7 DEF On
  <2>2. QED
    BY <1>1, <2>1 DEF IInv, InvitesCounted
<1>9. DisplayNamesDistinct'
  <2>1. \A h \in Guests : Here(h)' => Here(h) /\ guest'[h].name = guest[h].name
    BY <1>1, <1>3, <1>4 DEF Here, Open
  <2>2. QED
    BY <2>1 DEF IInv, DisplayNamesDistinct
<1>10. \A h \in Guests \ {g} : GuestOK(h)'
  <2>1. \A h \in Guests \ {g} : Stays(h)
    BY <1>1, <1>3 DEF Stays, Standing
  <2>2. ContextKept
    BY <1>1 DEF ContextKept
  <2>3. QED
    BY <2>1, <2>2, StayingKeepsGuest
<1>11. GuestOK(g)'
  <2>1. GuestOK(g) /\ Standing' = Standing
    BY <1>1 DEF IInv, Standing
  <2>2. CameOnInvite(g)'
    BY <1>1, <1>4, <2>1 DEF GuestOK, CameOnInvite
  <2>3. EnteredByAdmission(g)'
    BY <1>1, <1>2, <1>4, <2>1 DEF GuestOK, CameOnInvite, EnteredByAdmission, R
  <2>4. GoneIfEnded(g)' /\ WillEnd(g)'
    BY <1>1, <1>4, <2>1 DEF GuestOK, GoneIfEnded, WillEnd, Here, Open, Closed
  <2>5. QED
    BY <2>2, <2>3, <2>4 DEF GuestOK
<1>12. QED
  BY <1>6, <1>8, <1>9, <1>10, <1>11 DEF IInv

\* A new group with accounts among its members.
LEMMA CreateGroupKeepsIInv ==
    ASSUME IInv, NEW r \in Rooms, NEW S \in SUBSET Guests, CreateGroup(r, S)
    PROVE  IInv'
<1>1. /\ room[r] = "unmade" /\ room' = [room EXCEPT ![r] = "standing"]
      /\ guest' = [g \in Guests |->
              IF g \in S THEN [guest[g] EXCEPT !.rooms = guest[g].rooms \cup {r}] ELSE guest[g]]
      /\ placed' = [g \in Guests |-> IF g \in S THEN placed[g] \cup {r} ELSE placed[g]]
      /\ UNCHANGED <<invite, join, upload, adrift, late>>
  BY DEF CreateGroup
<1>2. ASSUME NEW g \in Guests
      PROVE  LET a == guest[g]
                 b == guest'[g]
             IN  /\ b \in Account /\ b.status = a.status /\ b.role = a.role /\ b.name = a.name
                 /\ b.by = a.by /\ b.promised = a.promised /\ b.session = a.session
                 /\ b.files = a.files /\ b.linked = a.linked
                 /\ b.rooms = a.rooms \/ (b.rooms = a.rooms \cup {r} /\ r \in placed'[g])
  <2>1. guest[g] \in Account
    BY DEF IInv, TypeOK
  <2>2. CASE g \in S
    BY <1>1, <2>1, <2>2 DEF Account
  <2>3. CASE g \notin S
    BY <1>1, <2>1, <2>3
  <2>4. QED
    BY <2>2, <2>3
<1>3. guest' \in [Guests -> Account]
  BY <1>1, <1>2
<1>4. /\ placed' \in [Guests -> SUBSET Rooms]
      /\ \A g \in Guests : placed[g] \subseteq placed'[g]
      /\ Standing \subseteq Standing' /\ r \in Standing'
      /\ room' \in [Rooms -> {"unmade", "standing", "deleted"}]
  BY <1>1 DEF IInv, TypeOK, Standing
<1>5. TypeOK'
  BY <1>1, <1>3, <1>4 DEF IInv, TypeOK
<1>6. InvitesCounted'
  <2>1. \A g \in Guests : guest'[g].by = guest[g].by
    BY <1>2
  <2>2. \A i \in Invites : On(i)' = On(i)
    BY <2>1 DEF On
  <2>3. QED
    BY <1>1, <2>2 DEF IInv, InvitesCounted
<1>7. DisplayNamesDistinct'
  BY <1>2 DEF IInv, DisplayNamesDistinct, Here
<1>8. ASSUME NEW g \in Guests PROVE GuestOK(g)'
  <2>1. GuestOK(g) /\ guest[g].rooms \subseteq Rooms
    BY DEF IInv, TypeOK, Account
  <2>2. CameOnInvite(g)' /\ WillEnd(g)'
    BY <1>1, <1>2, <2>1 DEF GuestOK, CameOnInvite, WillEnd, Here
  <2>3. EnteredByAdmission(g)'
    BY <1>1, <1>2, <1>4, <2>1 DEF GuestOK, EnteredByAdmission
  <2>4. GoneIfEnded(g)'
    BY <1>1, <1>2, <1>4, <2>1 DEF GuestOK, GoneIfEnded
  <2>5. QED
    BY <2>2, <2>3, <2>4 DEF GuestOK
<1>9. QED
  BY <1>5, <1>6, <1>7, <1>8 DEF IInv

-----------------------------------------------------------------------------
(* Joining.                                                                *)

\* The account of a join request on an invite that lets somebody in: slot g
\* gets it, others stay or end, and only one guest more is on that invite.
LEMMA RedeemKeepsIInv ==
    ASSUME IInv, NEW q \in Joins, NEW g \in Guests, Redeems(q, g),
           guest' \in [Guests -> Account],
           join' \in [Joins -> JoinRequest \cup {None}],
           upload' \in [Guests -> Rooms \cup {None}],
           UNCHANGED <<room, placed>>,
           adrift \subseteq adrift', late \subseteq late',
           adrift' \subseteq Guests, late' \subseteq Guests,
           \A h \in Guests \ {g} : Stays(h) \/ Ends(h),
           guest'[g].status = "waiting", guest'[g].by = join[q].invite,
           guest'[g].name = join[q].name,
           guest'[g].promised = invite[join[q].invite].rooms, guest'[g].rooms = {},
           guest'[g].session = "live" \/ g \in adrift'
    PROVE  IInv'
<1> USE DEF Open, Closed
<1>0. join[q] \in JoinRequest
  BY DEF Redeems, IInv, TypeOK
<1> PICK j \in Invites : j = join[q].invite
  BY <1>0 DEF JoinRequest
<1>1. /\ join[q] # None /\ Valid(join[q]) /\ NameFree(join[q].name)
      /\ guest[g].status = "free"
      /\ invite' = [invite EXCEPT ![j].uses = @ + 1]
  BY DEF Redeems
<1>2. join[q].name \in Names
  BY <1>0 DEF JoinRequest
<1>3. /\ invite[j].state = "out" /\ invite[j].uses < invite[j].max
      /\ invite[j] \in Invite
  BY <1>1, <1>2 DEF Valid, IInv, TypeOK
<1>4. /\ \A i \in Invites \ {j} : invite'[i] = invite[i]
      /\ invite'[j] = [invite[j] EXCEPT !.uses = invite[j].uses + 1]
  BY <1>1, <1>2 DEF IInv, TypeOK
<1>5. /\ invite'[j].state = "out" /\ invite'[j].rooms = invite[j].rooms
      /\ invite'[j].uses = invite[j].uses + 1 /\ invite'[j].max = invite[j].max
  BY <1>3, <1>4 DEF Invite
<1>6. invite[j].uses \in Nat /\ invite[j].max \in Nat /\ invite[j].max <= MaxUses
  BY <1>3, MaxUsesAssumption DEF Invite
<1>7. invite' \in [Invites -> Invite]
  <2>1. invite[j].uses + 1 \in 0..MaxUses
    BY <1>3, <1>6, MaxUsesAssumption
  <2>2. invite'[j] \in Invite
    BY <1>3, <1>4, <2>1 DEF Invite
  <2>3. QED
    BY <1>1, <1>4, <2>2 DEF IInv, TypeOK
<1>8. TypeOK'
  BY <1>7 DEF IInv, TypeOK
<1>9. InvitesCounted'
  <2>1. \A h \in Guests \ {g} : guest'[h].by = guest[h].by
    BY DEF Stays, Ends
  <2>2. guest[g].by = None
    BY <1>1 DEF IInv, GuestOK, CameOnInvite
  <2>3. \A i \in Invites \ {j} : On(i)' = On(i)
    BY <2>1, <2>2, NoneAssumption DEF On
  <2>4. On(j)' = On(j) \cup {g} /\ g \notin On(j)
    <3>1. \A h \in Guests : guest'[h].by = j <=> h = g \/ guest[h].by = j
      BY <2>1
    <3>2. g \notin On(j)
      BY <1>2, <2>2, NoneAssumption DEF On
    <3>3. On(j)' = {h \in Guests : guest'[h].by = j}
      BY DEF On
    <3>4. On(j) = {h \in Guests : guest[h].by = j}
      BY DEF On
    <3>5. QED
      BY <3>1, <3>2, <3>3, <3>4
  <2>5. /\ IsFiniteSet(On(j)) /\ Cardinality(On(j)) = invite[j].uses
    BY <1>2 DEF IInv, InvitesCounted
  <2>6. /\ IsFiniteSet(On(j) \cup {g})
        /\ Cardinality(On(j) \cup {g}) = invite[j].uses + 1
    BY <2>4, <2>5, FS_AddElement
  <2>7. ASSUME NEW i \in Invites
        PROVE  /\ IsFiniteSet(On(i)') /\ Cardinality(On(i)') = invite'[i].uses
               /\ invite'[i].uses <= invite'[i].max
               /\ invite'[i].state = "unmade" => invite'[i].uses = 0
    <3>1. CASE i = j
      <4>1. On(i)' = On(j) \cup {g}
        BY <2>4, <3>1
      <4>2. IsFiniteSet(On(i)') /\ Cardinality(On(i)') = invite'[i].uses
        BY <1>5, <2>6, <3>1, <4>1
      <4>3. /\ invite'[i].uses <= invite'[i].max
            /\ invite'[i].state = "unmade" => invite'[i].uses = 0
        BY <1>3, <1>5, <1>6, <3>1
      <4>4. QED
        BY <4>2, <4>3
    <3>2. CASE i # j
      BY <1>4, <2>3, <3>2 DEF IInv, InvitesCounted
    <3>3. QED
      BY <3>1, <3>2
  <2>8. QED
    BY <2>7 DEF InvitesCounted
<1>10. DisplayNamesDistinct'
  <2>1. \A h \in Guests \ {g} : Here(h)' => Here(h) /\ guest'[h].name = guest[h].name
    BY DEF Stays, Ends, Here
  <2>2. \A h \in Guests : Here(h) => guest[h].name # join[q].name
    BY <1>1 DEF NameFree, NamesInUse
  <2>3. QED
    BY <2>1, <2>2 DEF IInv, DisplayNamesDistinct
<1>11. ContextKept
  BY <1>4, <1>5 DEF ContextKept
<1>12. \A h \in Guests \ {g} : GuestOK(h)'
  BY <1>11, StayingKeepsGuest, EndingKeepsGuest
<1>13. GuestOK(g)'
  <2>1. CameOnInvite(g)'
    BY <1>2, <1>5, NoneAssumption DEF CameOnInvite
  <2>2. EnteredByAdmission(g)' /\ GoneIfEnded(g)' /\ WillEnd(g)'
    BY DEF EnteredByAdmission, GoneIfEnded, WillEnd, Here
  <2>3. QED
    BY <2>1, <2>2 DEF GuestOK
<1>14. QED
  BY <1>8, <1>9, <1>10, <1>12, <1>13 DEF IInv

LEMMA NewAccountFields ==
    ASSUME IInv, NEW q \in Joins, join[q] # None
    PROVE  LET b == NewAccount(join[q])
           IN  /\ b \in Account /\ b.status = "waiting" /\ b.by = join[q].invite
               /\ b.name = join[q].name /\ b.rooms = {}
               /\ b.promised = invite[join[q].invite].rooms
<1>1. join[q].invite \in Invites /\ join[q].name \in Names
  BY DEF IInv, TypeOK, JoinRequest
<1>2. invite[join[q].invite].rooms \subseteq Rooms
  BY <1>1 DEF IInv, TypeOK, Invite
<1>3. QED
  BY <1>1, <1>2 DEF NewAccount, NoAccount, Account

LEMMA JoinAcceptedKeepsIInv ==
    ASSUME IInv, NEW q \in Joins, NEW g \in Guests, JoinAccepted(q, g)
    PROVE  IInv'
<1> DEFINE n == NewAccount(join[q])
           b == [n EXCEPT !.session = "live"]
<1>1. join[q] # None /\ Redeems(q, g)
  BY DEF JoinAccepted, Redeems
<1>2. /\ b \in Account /\ b.status = "waiting" /\ b.by = join[q].invite
      /\ b.name = join[q].name /\ b.rooms = {} /\ b.session = "live"
      /\ b.promised = invite[join[q].invite].rooms
  <2> HIDE DEF n
  <2>1. /\ n \in Account /\ n.status = "waiting" /\ n.by = join[q].invite
        /\ n.name = join[q].name /\ n.rooms = {}
        /\ n.promised = invite[join[q].invite].rooms
    BY <1>1, NewAccountFields DEF n
  <2>2. QED
    BY <2>1 DEF Account
<1> HIDE DEF b
<1>3. /\ guest' = [Pruned EXCEPT ![g] = b]
      /\ join' = [join EXCEPT ![q] = None] /\ EndsLate(guest')
      /\ UNCHANGED <<upload, room, adrift, placed>>
  BY DEF JoinAccepted, b
<1>4. Pruned \in [Guests -> Account]
  BY SweptCases DEF Pruned, IInv, TypeOK
<1>5. /\ guest' \in [Guests -> Account] /\ guest'[g] = b
      /\ \A h \in Guests \ {g} : guest'[h] = Swept(guest[h])
  BY <1>2, <1>3, <1>4 DEF Pruned
<1>6. \A h \in Guests \ {g} : Stays(h) \/ Ends(h)
  BY <1>3, <1>5, SweepingGoes
<1>7. late \subseteq late' /\ late' \subseteq Guests
  BY <1>3, EndsLateType
<1>8. join' \in [Joins -> JoinRequest \cup {None}]
  BY <1>3 DEF IInv, TypeOK
<1>9. /\ upload' \in [Guests -> Rooms \cup {None}]
      /\ adrift \subseteq adrift' /\ adrift' \subseteq Guests
  BY <1>3 DEF IInv, TypeOK
<1>10. QED
  BY <1>1, <1>2, <1>3, <1>5, <1>6, <1>7, <1>8, <1>9, RedeemKeepsIInv

LEMMA DiesJoiningKeepsIInv ==
    ASSUME IInv, NEW q \in Joins, NEW g \in Guests, DiesJoining(q, g)
    PROVE  IInv'
<1> DEFINE n == NewAccount(join[q])
           gs == [guest EXCEPT ![g] = n]
<1>1. /\ join[q] # None /\ Redeems(q, g) /\ Dies(gs) /\ adrift' = adrift \cup {g}
  BY DEF DiesJoining, Redeems
<1>2. /\ n \in Account /\ n.status = "waiting" /\ n.by = join[q].invite
      /\ n.name = join[q].name /\ n.rooms = {}
      /\ n.promised = invite[join[q].invite].rooms
  BY <1>1, NewAccountFields
<1> HIDE DEF n
<1>3. /\ guest' = [h \in Guests |-> [gs[h] EXCEPT !.linked = FALSE]]
      /\ join' = [p \in Joins |-> None] /\ upload' = [h \in Guests |-> None]
      /\ UNCHANGED <<room, late, placed>>
  BY <1>1 DEF Dies
<1>4. gs[g] = n /\ \A h \in Guests \ {g} : gs[h] = guest[h]
  BY DEF IInv, TypeOK
<1> HIDE DEF gs
<1>5. \A h \in Guests \ {g} : guest'[h] \in Account /\ (Stays(h) \/ Ends(h))
  BY <1>3, <1>4, DyingGoes
<1>6. /\ guest'[g] \in Account /\ guest'[g].status = "waiting"
      /\ guest'[g].by = join[q].invite /\ guest'[g].name = join[q].name
      /\ guest'[g].rooms = {} /\ guest'[g].promised = invite[join[q].invite].rooms
  BY <1>2, <1>3, <1>4, UnlinkedFields
<1>7. guest' \in [Guests -> Account]
  BY <1>3, <1>5, <1>6
<1>8. /\ adrift \subseteq adrift' /\ adrift' \subseteq Guests /\ g \in adrift'
      /\ late \subseteq late' /\ late' \subseteq Guests
      /\ upload' \in [Guests -> Rooms \cup {None}]
      /\ join' \in [Joins -> JoinRequest \cup {None}]
  BY <1>1, <1>3 DEF IInv, TypeOK
<1>9. QED
  BY <1>1, <1>3, <1>5, <1>6, <1>7, <1>8, RedeemKeepsIInv

LEMMA JoinStepKeepsIInv == IInv /\ JoinStep => IInv'
<1> SUFFICES ASSUME IInv, NEW q \in Joins,
                    \/ \E i \in Invites, n \in Names : JoinBegins(q, i, n)
                    \/ \E g \in Guests : JoinAccepted(q, g)
                    \/ JoinRefused(q)
             PROVE  IInv'
  BY DEF JoinStep
<1>1. ASSUME NEW i \in Invites, NEW n \in Names, JoinBegins(q, i, n) PROVE IInv'
  <2>1. invite[i].lapsed \in BOOLEAN
    BY DEF IInv, TypeOK, Invite
  <2>2. [invite |-> i, name |-> n, timely |-> ~ invite[i].lapsed] \in JoinRequest
    BY <2>1 DEF JoinRequest
  <2>3. join' \in [Joins -> JoinRequest \cup {None}]
    BY <1>1, <2>2 DEF JoinBegins, IInv, TypeOK
  <2>4. UNCHANGED <<invite, guest, upload, room, adrift, late, placed>>
    BY <1>1 DEF JoinBegins
  <2>5. TypeOK'
    BY <2>3, <2>4 DEF IInv, TypeOK
  <2>6. QED
    BY <2>4, <2>5, QuietKeepsIInv
<1>2. CASE JoinRefused(q)
  <2>1. TypeOK' /\ UNCHANGED <<invite, guest, upload, room, adrift, late, placed>>
    BY <1>2 DEF JoinRefused, IInv, TypeOK
  <2>2. QED
    BY <2>1, QuietKeepsIInv
<1>3. QED
  BY <1>1, <1>2, JoinAcceptedKeepsIInv

-----------------------------------------------------------------------------
(* Theorems.                                                               *)

LEMMA InitIInv == Init => IInv
<1> SUFFICES ASSUME Init PROVE IInv
  OBVIOUS
<1>1. TypeOK
  <2>1. [state |-> "unmade", lapsed |-> FALSE, max |-> 1, uses |-> 0, rooms |-> {}] \in Invite
    BY MaxUsesAssumption DEF Invite
  <2>2. NoAccount \in Account
    BY DEF NoAccount, Account
  <2>3. QED
    BY <2>1, <2>2 DEF Init, TypeOK
<1>2. \A g \in Guests : /\ guest[g].status = "free" /\ guest[g].by = None
                        /\ guest[g].rooms = {}
  BY DEF Init, NoAccount
<1>3. \A i \in Invites : On(i) = {}
  BY <1>2, NoneAssumption DEF On
<1>4. InvitesCounted
  <2>1. \A i \in Invites : IsFiniteSet(On(i)) /\ Cardinality(On(i)) = 0
    BY <1>3, FS_EmptySet
  <2>2. \A i \in Invites : invite[i].uses = 0 /\ invite[i].max = 1
    BY DEF Init
  <2>3. QED
    BY <2>1, <2>2 DEF InvitesCounted
<1>5. DisplayNamesDistinct
  BY <1>2 DEF DisplayNamesDistinct, Here, Open
<1>6. \A g \in Guests : GuestOK(g)
  BY <1>2 DEF GuestOK, CameOnInvite, EnteredByAdmission, GoneIfEnded, WillEnd, Here, Open, Closed
<1>7. QED
  BY <1>1, <1>4, <1>5, <1>6 DEF IInv

LEMMA NextKeepsIInv == IInv /\ [Next]_vars => IInv'
<1> SUFFICES ASSUME IInv, [Next]_vars PROVE IInv'
  OBVIOUS
<1>1. CASE PanelStep
  BY <1>1, InviteStepKeepsIInv, AdmitKeepsIInv, SweepKeepsIInv DEF PanelStep
<1>2. CASE JoinStep
  BY <1>2, JoinStepKeepsIInv
<1>3. CASE GuestStep
  BY <1>3, GuestStepKeepsIInv
<1>4. CASE ServerStep
  <2>1. CASE SomebodyLogsIn
    <3>1. CASE Guests = {}
      <4>1. \A g \in Guests : Stays(g)
        BY <3>1
      <4>2. guest' \in [Guests -> Account] /\ late' = late
        BY <2>1, <3>1 DEF SomebodyLogsIn, Pruned, EndsLate
      <4>3. QED
        BY <2>1, <4>1, <4>2, AccountsKeepIInv DEF SomebodyLogsIn, IInv, TypeOK
    <3>2. CASE Guests # {}
      BY <2>1, <3>2, SweepKeepsIInv
    <3>3. QED
      BY <3>1, <3>2
  <2>2. QED
    BY <1>4, <2>1, AccountEditKeepsIInv, SweepKeepsIInv, PasswordResetKeepsIInv,
       DeleteRoomKeepsIInv, CreateGroupKeepsIInv, DeathKeepsIInv, DiesJoiningKeepsIInv
       DEF ServerStep
<1>5. CASE UNCHANGED vars
  <2>1. TypeOK'
    BY <1>5 DEF vars, IInv, TypeOK
  <2>2. QED
    BY <1>5, <2>1, QuietKeepsIInv DEF vars
<1>6. QED
  BY <1>1, <1>2, <1>3, <1>4, <1>5 DEF Next

\* The strengthening holds in every reachable state.
THEOREM Invariance == Spec => []IInv
BY InitIInv, NextKeepsIInv, PTL DEF Spec

\* An invite lets in as many guests as its row counts, and never more than the
\* master allowed, however many joins overlap in their hash.
THEOREM InvitesAreCounted == Spec => []InvitesHold
<1>1. IInv => InvitesHold
  BY DEF IInv, InvitesHold, InvitesCounted, On
<1>2. QED
  BY <1>1, Invariance, PTL

\* No two guests who are still here go by the same display name.
THEOREM NamesAreDistinct == Spec => []DisplayNamesDistinct
<1>1. IInv => DisplayNamesDistinct
  BY DEF IInv
<1>2. QED
  BY <1>1, Invariance, PTL

\* A guest is in a room by the master's admission or from its making, and the
\* room stands.
THEOREM AdmissionOnly == Spec => []GuestsEnterByAdmission
<1>1. IInv => GuestsEnterByAdmission
  BY DEF IInv, GuestOK, EnteredByAdmission, GuestsEnterByAdmission
<1>2. QED
  BY <1>1, Invariance, PTL

\* Nothing is left of a guest who was ended but what is known to come after.
THEOREM EndedAreGone == Spec => []EndedGuestsAreGone
<1>1. IInv => EndedGuestsAreGone
  BY DEF IInv, GuestOK, GoneIfEnded, EndedGuestsAreGone
<1>2. QED
  BY <1>1, Invariance, PTL

\* A guest who is still here has a session whose end retires them, or is known
\* to be adrift.
THEOREM OpenWillEnd == Spec => []OpenGuestsWillEnd
<1>1. IInv => OpenGuestsWillEnd
  BY DEF IInv, GuestOK, WillEnd, OpenGuestsWillEnd
<1>2. QED
  BY <1>1, Invariance, PTL

-----------------------------------------------------------------------------
(* The server implements GuestPromise.                                     *)

\* Nothing that the promise is about changes for g.
Same(g) ==
    LET a == guest[g]
        b == guest'[g]
    IN  /\ b.status = a.status /\ b.role = a.role /\ b.name = a.name /\ b.by = a.by
        /\ b.rooms = a.rooms

\* g was here as a guest, and goes.
Leaves(g) ==
    LET b == guest'[g]
    IN  /\ Here(g) /\ b.status \in Closed /\ b.by = guest[g].by /\ b.rooms = {}

InvitesSame ==
    \A i \in Invites :
        LET a == invite[i]
            b == invite'[i]
        IN  b.state = a.state /\ b.max = a.max /\ b.uses = a.uses /\ b.rooms = a.rooms

LEMMA SameInvites ==
    ASSUME InvitesSame
    PROVE  UNCHANGED <<Issued, Left, Opens>>
BY DEF InvitesSame, Issued, Left, Opens

LEMMA SameViews ==
    ASSUME NEW g \in Guests, Same(g), placed'[g] = placed[g]
    PROVE  /\ Life'[g] = Life[g] /\ CameOn'[g] = CameOn[g]
           /\ NameHeld'[g] = NameHeld[g] /\ Seats'[g] = Seats[g]
BY DEF Same, Life, CameOn, NameHeld, Here, Seats

LEMMA LeavingViews ==
    ASSUME NEW g \in Guests, Leaves(g)
    PROVE  /\ Life[g] \in {"waiting", "admitted"} /\ Life'[g] = "gone"
           /\ CameOn'[g] = CameOn[g] /\ NameHeld'[g] = None /\ Seats'[g] = {}
BY DEF Leaves, Life, CameOn, NameHeld, Here, Seats, Open, Closed

\* Sweeping takes an expired row, and with it the guest whose row it was.
LEMMA SweepingLeaves ==
    ASSUME IInv, NEW g \in Guests, guest'[g] = Swept(guest[g])
    PROVE  Same(g) \/ Leaves(g)
<1>1. guest[g] \in Account
  BY DEF IInv, TypeOK
<1>2. CASE guest'[g] = guest[g]
  BY <1>2 DEF Same
<1>3. CASE guest'[g] = WithoutRow(guest[g])
  BY <1>1, <1>3, WithoutRowFields DEF Same
<1>4. CASE /\ guest'[g] = Retired(WithoutRow(guest[g]))
           /\ guest[g].role = "guest" /\ guest[g].status \in Open
  <2>1. WithoutRow(guest[g]) \in Account /\ WithoutRow(guest[g]).by = guest[g].by
    BY <1>1, WithoutRowFields
  <2>2. /\ guest'[g].status = "removed" /\ guest'[g].rooms = {}
        /\ guest'[g].by = guest[g].by
    BY <1>4, <2>1, RetiredFields
  <2>3. QED
    BY <1>4, <2>2 DEF Leaves, Here, Closed
<1>5. QED
  BY <1>1, <1>2, <1>3, <1>4, SweptCases

\* A guest over a death that leaves a of their account.
LEMMA DyingLeaves ==
    ASSUME IInv, NEW g \in Guests, NEW a,
           a = guest[g] \/ a = WithoutRow(guest[g]) \/ a = Swept(guest[g]),
           guest'[g] = [a EXCEPT !.linked = FALSE]
    PROVE  Same(g) \/ Leaves(g)
<1>1. guest[g] \in Account
  BY DEF IInv, TypeOK
<1>2. CASE a = guest[g]
  BY <1>1, <1>2, UnlinkedFields DEF Same
<1>3. CASE a = WithoutRow(guest[g])
  BY <1>1, <1>3, WithoutRowFields, UnlinkedFields DEF Same
<1>4. CASE a = Retired(WithoutRow(guest[g])) /\ guest[g].role = "guest" /\ guest[g].status \in Open
  <2>1. WithoutRow(guest[g]) \in Account /\ WithoutRow(guest[g]).by = guest[g].by
    BY <1>1, WithoutRowFields
  <2>2. a \in Account /\ a.status = "removed" /\ a.rooms = {} /\ a.by = guest[g].by
    BY <1>4, <2>1, RetiredFields
  <2>3. QED
    BY <1>4, <2>2, UnlinkedFields DEF Leaves, Here, Closed
<1>5. QED
  BY <1>1, <1>2, <1>3, <1>4, SweptCases

\* A step in which accounts stay as they are or go.
LEMMA GoingKeepsPromise ==
    ASSUME IInv, InvitesSame, placed' = placed,
           \A g \in Guests : Same(g) \/ Leaves(g)
    PROVE  Promise!Next
<1> DEFINE G == {g \in Guests : Leaves(g)}
<1>1. UNCHANGED <<Issued, Left, Opens>>
  BY SameInvites
<1>2. \A g \in G : /\ Life[g] \in {"waiting", "admitted"} /\ Life'[g] = "gone"
                   /\ CameOn'[g] = CameOn[g] /\ NameHeld'[g] = None /\ Seats'[g] = {}
  BY LeavingViews
<1>3. \A g \in Guests \ G : /\ Life'[g] = Life[g] /\ CameOn'[g] = CameOn[g]
                            /\ NameHeld'[g] = NameHeld[g] /\ Seats'[g] = Seats[g]
  BY SameViews
<1>4. G \in SUBSET Guests
  OBVIOUS
<1> HIDE DEF G
<1>5. /\ Life' = Promise!For(G, Life, "gone") /\ NameHeld' = Promise!For(G, NameHeld, None)
      /\ Seats' = Promise!For(G, Seats, {}) /\ CameOn' = CameOn
  <2>1. /\ Life' = [g \in Guests |-> Life'[g]] /\ NameHeld' = [g \in Guests |-> NameHeld'[g]]
        /\ Seats' = [g \in Guests |-> Seats'[g]] /\ CameOn' = [g \in Guests |-> CameOn'[g]]
        /\ CameOn = [g \in Guests |-> CameOn[g]]
    BY DEF Life, NameHeld, Seats, CameOn
  <2>2. Life' = [g \in Guests |-> IF g \in G THEN "gone" ELSE Life[g]]
    BY <1>2, <1>3, <2>1
  <2>3. NameHeld' = [g \in Guests |-> IF g \in G THEN None ELSE NameHeld[g]]
    BY <1>2, <1>3, <2>1
  <2>4. Seats' = [g \in Guests |-> IF g \in G THEN {} ELSE Seats[g]]
    BY <1>2, <1>3, <2>1
  <2>5. CameOn' = CameOn
    BY <1>2, <1>3, <2>1
  <2>6. QED
    BY <2>2, <2>3, <2>4, <2>5 DEF Promise!For
<1>6. Promise!Go(G)
  BY <1>1, <1>2, <1>5 DEF Promise!Go
<1>7. QED
  BY <1>4, <1>6 DEF Promise!Next

\* A use is taken with the guest who takes it, and others go.
LEMMA RedeemIsEnter ==
    ASSUME IInv, NEW q \in Joins, NEW g \in Guests, Redeems(q, g), placed' = placed,
           guest'[g].status = "waiting", guest'[g].role = "guest",
           guest'[g].by = join[q].invite, guest'[g].name = join[q].name,
           guest'[g].rooms = {},
           \A h \in Guests \ {g} : Same(h) \/ Leaves(h)
    PROVE  Promise!Next
<1> DEFINE i == join[q].invite
           n == join[q].name
           G == {h \in Guests \ {g} : Leaves(h)}
<1>1. i \in Invites /\ n \in Names
  BY DEF Redeems, IInv, TypeOK, JoinRequest
<1>2. /\ Valid(join[q]) /\ NameFree(n) /\ guest[g].status = "free"
      /\ invite' = [invite EXCEPT ![i].uses = @ + 1]
  BY DEF Redeems
<1>3. /\ invite[i] \in Invite
      /\ invite[i].state = "out" /\ invite[i].uses < invite[i].max
  BY <1>1, <1>2 DEF Valid, IInv, TypeOK
<1>4. /\ invite'[i].state = "out" /\ invite'[i].max = invite[i].max
      /\ invite'[i].uses = invite[i].uses + 1 /\ invite'[i].rooms = invite[i].rooms
      /\ \A j \in Invites \ {i} : invite'[j] = invite[j]
  BY <1>1, <1>2, <1>3 DEF Invite, IInv, TypeOK
<1>5. /\ \A h \in G : /\ Life[h] \in {"waiting", "admitted"} /\ Life'[h] = "gone"
                      /\ CameOn'[h] = CameOn[h] /\ NameHeld'[h] = None /\ Seats'[h] = {}
      /\ \A h \in Guests \ {g} : h \notin G =>
            /\ Life'[h] = Life[h] /\ CameOn'[h] = CameOn[h]
            /\ NameHeld'[h] = NameHeld[h] /\ Seats'[h] = Seats[h]
  BY LeavingViews, SameViews
<1>6. G \in SUBSET Guests /\ g \notin G
  OBVIOUS
<1>7. /\ Life[g] = "new" /\ Life'[g] = "waiting" /\ CameOn'[g] = i
      /\ NameHeld'[g] = n /\ Seats'[g] = {}
  BY <1>2 DEF Life, CameOn, NameHeld, Seats, Here, Open, Closed
<1>8. Seats[g] = {}
  BY <1>2 DEF Seats, IInv, GuestOK, EnteredByAdmission
<1> HIDE DEF G
<1>9. Left[i] > 0 /\ Left' = [Left EXCEPT ![i] = @ - 1]
  <2>1. invite[i].uses \in Int /\ invite[i].max \in Int
    BY <1>3, MaxUsesAssumption DEF Invite
  <2>2. Left[i] = invite[i].max - invite[i].uses
    BY <1>1, <1>3 DEF Left
  <2>3. Left' = [j \in Invites |-> IF j = i THEN Left[i] - 1 ELSE Left[j]]
    <3>1. ASSUME NEW j \in Invites
          PROVE  (IF invite'[j].state = "out" THEN invite'[j].max - invite'[j].uses ELSE 0)
                    = IF j = i THEN Left[i] - 1 ELSE Left[j]
      <4>1. CASE j = i
        <5>1. invite'[i].max - invite'[i].uses = Left[i] - 1
          BY <1>4, <2>1, <2>2
        <5>2. QED
          BY <1>4, <4>1, <5>1
      <4>2. CASE j # i
        BY <1>4, <4>2 DEF Left
      <4>3. QED
        BY <4>1, <4>2
    <3>2. QED
      BY <3>1 DEF Left
  <2>4. Left[i] > 0
    BY <1>3, <2>1, <2>2
  <2>5. Left = [j \in Invites |-> Left[j]]
    BY DEF Left
  <2>6. QED
    BY <2>3, <2>4, <2>5
<1>10. \A h \in Guests : NameHeld[h] # n
  BY <1>1, <1>2, NoneAssumption DEF NameHeld, NameFree, NamesInUse
<1>11. Issued' = Issued /\ Opens' = Opens
  BY <1>1, <1>3, <1>4 DEF Issued, Opens
<1>12. /\ Life' = [Promise!For(G, Life, "gone") EXCEPT ![g] = "waiting"]
       /\ CameOn' = [CameOn EXCEPT ![g] = i]
       /\ NameHeld' = [Promise!For(G, NameHeld, None) EXCEPT ![g] = n]
       /\ Seats' = Promise!For(G, Seats, {})
  <2>1. /\ Life' = [h \in Guests |-> Life'[h]] /\ NameHeld' = [h \in Guests |-> NameHeld'[h]]
        /\ Seats' = [h \in Guests |-> Seats'[h]] /\ CameOn' = [h \in Guests |-> CameOn'[h]]
        /\ CameOn = [h \in Guests |-> CameOn[h]]
    BY DEF Life, NameHeld, Seats, CameOn
  <2>2. Life' = [Promise!For(G, Life, "gone") EXCEPT ![g] = "waiting"]
    BY <1>5, <1>6, <1>7, <2>1 DEF Promise!For
  <2>3. CameOn' = [CameOn EXCEPT ![g] = i]
    BY <1>5, <1>6, <1>7, <2>1
  <2>4. NameHeld' = [Promise!For(G, NameHeld, None) EXCEPT ![g] = n]
    BY <1>5, <1>6, <1>7, <2>1 DEF Promise!For
  <2>5. Seats' = Promise!For(G, Seats, {})
    <3>1. \A h \in Guests : Seats'[h] = IF h \in G THEN {} ELSE Seats[h]
      BY <1>5, <1>7, <1>8
    <3>2. QED
      BY <2>1, <3>1 DEF Promise!For
  <2>6. QED
    BY <2>2, <2>3, <2>4, <2>5
<1>13. Promise!Enter(g, i, n, G)
  BY <1>5, <1>7, <1>9, <1>10, <1>11, <1>12 DEF Promise!Enter
<1>14. QED
  BY <1>1, <1>6, <1>13 DEF Promise!Next

LEMMA JoinAcceptedKeepsPromise ==
    ASSUME IInv, NEW q \in Joins, NEW g \in Guests, JoinAccepted(q, g)
    PROVE  Promise!Next
<1> DEFINE n == NewAccount(join[q])
           b == [n EXCEPT !.session = "live"]
<1>1. join[q] # None /\ Redeems(q, g)
  BY DEF JoinAccepted, Redeems
<1>2. n \in Account /\ n.role = "guest"
  BY <1>1, NewAccountFields DEF NewAccount, NoAccount
<1>3. /\ b.status = "waiting" /\ b.role = "guest" /\ b.by = join[q].invite
      /\ b.name = join[q].name /\ b.rooms = {}
  <2>1. /\ n.status = "waiting" /\ n.by = join[q].invite /\ n.name = join[q].name
        /\ n.rooms = {}
    BY <1>1, NewAccountFields
  <2> HIDE DEF n
  <2>2. QED
    BY <1>2, <2>1 DEF Account
<1>4. guest' = [Pruned EXCEPT ![g] = b] /\ placed' = placed
  BY DEF JoinAccepted
<1> HIDE DEF b
<1>5. guest'[g] = b /\ \A h \in Guests \ {g} : guest'[h] = Swept(guest[h])
  BY <1>4 DEF Pruned
<1>6. QED
  BY <1>1, <1>3, <1>4, <1>5, SweepingLeaves, RedeemIsEnter

LEMMA DiesJoiningKeepsPromise ==
    ASSUME IInv, NEW q \in Joins, NEW g \in Guests, DiesJoining(q, g)
    PROVE  Promise!Next
<1> DEFINE n == NewAccount(join[q])
           gs == [guest EXCEPT ![g] = n]
<1>1. join[q] # None /\ Redeems(q, g) /\ Dies(gs)
  BY DEF DiesJoining, Redeems
<1>2. /\ n \in Account /\ n.status = "waiting" /\ n.role = "guest"
      /\ n.by = join[q].invite /\ n.name = join[q].name /\ n.rooms = {}
  BY <1>1, NewAccountFields DEF NewAccount, NoAccount
<1> HIDE DEF n
<1>3. /\ guest' = [h \in Guests |-> [gs[h] EXCEPT !.linked = FALSE]] /\ placed' = placed
  BY <1>1 DEF Dies
<1>4. gs[g] = n /\ \A h \in Guests \ {g} : gs[h] = guest[h]
  BY DEF IInv, TypeOK
<1> HIDE DEF gs
<1>5. \A h \in Guests \ {g} : Same(h) \/ Leaves(h)
  BY <1>3, <1>4, DyingLeaves
<1>6. /\ guest'[g].status = "waiting" /\ guest'[g].role = "guest"
      /\ guest'[g].by = join[q].invite /\ guest'[g].name = join[q].name
      /\ guest'[g].rooms = {}
  BY <1>2, <1>3, <1>4, UnlinkedFields
<1>7. QED
  BY <1>1, <1>3, <1>5, <1>6, RedeemIsEnter

\* The master makes an invite, or revokes one; time passes.
LEMMA InviteStepKeepsPromise ==
    ASSUME IInv, NEW i \in Invites,
           \/ \E max \in 1..MaxUses, R \in SUBSET Rooms : CreateInvite(i, max, R)
           \/ RevokeInvite(i) \/ InviteLapses(i)
    PROVE  Promise!Next
<1>1. /\ UNCHANGED <<guest, placed>>
      /\ invite \in [Invites -> Invite] /\ invite[i] \in Invite
      /\ \A j \in Invites \ {i} : invite'[j] = invite[j]
  BY DEF CreateInvite, RevokeInvite, InviteLapses, IInv, TypeOK
<1>2. UNCHANGED <<Life, CameOn, NameHeld, Seats>>
  BY <1>1 DEF Life, CameOn, NameHeld, Seats, Here
<1>3. /\ Left = [j \in Invites |-> Left[j]] /\ Left' = [j \in Invites |-> Left'[j]]
      /\ \A j \in Invites \ {i} : Left'[j] = Left[j]
      /\ Opens = [j \in Invites |-> Opens[j]] /\ Opens' = [j \in Invites |-> Opens'[j]]
      /\ \A j \in Invites \ {i} : Opens'[j] = Opens[j]
  BY <1>1 DEF Left, Opens
<1>4. ASSUME NEW max \in 1..MaxUses, NEW R \in SUBSET Rooms, CreateInvite(i, max, R)
      PROVE  Promise!Issue(i)
  <2>1. /\ invite[i].state = "unmade"
        /\ invite' = [invite EXCEPT ![i] =
                        [invite[i] EXCEPT !.state = "out", !.max = max, !.rooms = R]]
    BY <1>1, <1>4 DEF CreateInvite
  <2>2. invite'[i].state = "out" /\ invite'[i].max = max /\ invite'[i].rooms = R
    BY <1>1, <2>1 DEF Invite
  <2>3. invite'[i].uses = 0
    <3>1. invite'[i].uses = invite[i].uses
      BY <1>1, <2>1 DEF Invite
    <3>2. QED
      BY <2>1, <3>1 DEF IInv, InvitesCounted
  <2>4. i \notin Issued /\ Issued' = Issued \cup {i}
    BY <1>1, <2>1, <2>2 DEF Issued
  <2>5. Left' = [Left EXCEPT ![i] = max]
    <3>1. Left'[i] = max
      BY <2>2, <2>3, MaxUsesAssumption DEF Left
    <3>2. QED
      BY <1>3, <3>1
  <2>6. Opens' = [Opens EXCEPT ![i] = R]
    <3>1. Opens'[i] = R
      BY <2>2 DEF Opens
    <3>2. QED
      BY <1>3, <3>1
  <2>7. QED
    BY <1>2, <2>4, <2>5, <2>6 DEF Promise!Issue
<1>5. CASE RevokeInvite(i)
  <2>1. /\ invite[i].state = "out"
        /\ invite'[i] = [invite[i] EXCEPT !.state = "revoked"]
    BY <1>1, <1>5 DEF RevokeInvite
  <2>2. invite'[i].state = "revoked" /\ invite'[i].rooms = invite[i].rooms
    BY <1>1, <2>1 DEF Invite
  <2>3. Issued' = Issued
    BY <1>1, <2>1, <2>2 DEF Issued
  <2>4. Opens' = Opens
    <3>1. Opens'[i] = Opens[i]
      BY <2>2 DEF Opens
    <3>2. QED
      BY <1>3, <3>1
  <2>5. Left' = [Left EXCEPT ![i] = 0]
    <3>1. Left'[i] = 0
      BY <2>2 DEF Left
    <3>2. QED
      BY <1>3, <3>1
  <2>6. Promise!Withdraw(i)
    BY <1>2, <2>3, <2>4, <2>5 DEF Promise!Withdraw
  <2>7. QED
    BY <2>6 DEF Promise!Next
<1>6. CASE InviteLapses(i)
  <2>1. invite'[i] = [invite[i] EXCEPT !.lapsed = TRUE]
    BY <1>1, <1>6 DEF InviteLapses
  <2>2. InvitesSame
    BY <1>1, <2>1 DEF InvitesSame, Invite
  <2>3. QED
    BY <1>1, <2>2, GoingKeepsPromise DEF Same
<1>7. QED
  BY <1>4, <1>5, <1>6 DEF Promise!Next

\* Admission is to rooms of the guest's invite, and of no others.
LEMMA AdmitKeepsPromise ==
    ASSUME IInv, NEW g \in Guests, Admit(g)
    PROVE  Promise!Next
<1> DEFINE R == guest[g].rooms \cup RoomsToEnter(g)
<1>1. /\ guest \in [Guests -> Account] /\ guest[g] \in Account
      /\ guest[g].status = "waiting" /\ guest[g].role = "guest"
      /\ guest' = [guest EXCEPT ![g] = [guest[g] EXCEPT !.status = "admitted", !.rooms = R]]
      /\ UNCHANGED <<invite, placed>>
  BY DEF Admit, IInv, TypeOK
<1> HIDE DEF R
<1>2. /\ \A h \in Guests \ {g} : guest'[h] = guest[h]
      /\ guest'[g].status = "admitted" /\ guest'[g].role = "guest" /\ guest'[g].rooms = R
      /\ guest'[g].by = guest[g].by /\ guest'[g].name = guest[g].name
  BY <1>1 DEF Account
<1>3. \A h \in Guests \ {g} : Same(h)
  BY <1>2 DEF Same
<1>4. UNCHANGED <<Issued, Left, Opens>>
  BY <1>1 DEF Issued, Left, Opens
<1>5. \A h \in Guests \ {g} : /\ Life'[h] = Life[h] /\ CameOn'[h] = CameOn[h]
                              /\ NameHeld'[h] = NameHeld[h] /\ Seats'[h] = Seats[h]
  BY <1>1, <1>3, SameViews
<1>6. /\ Life[g] = "waiting" /\ Life'[g] = "admitted" /\ CameOn'[g] = CameOn[g]
      /\ NameHeld'[g] = NameHeld[g] /\ Seats'[g] = R \ placed[g]
  BY <1>1, <1>2 DEF Life, CameOn, NameHeld, Seats, Here, Open, Closed
<1>7. Seats'[g] \in SUBSET Opens[CameOn[g]]
  <2>1. guest[g].rooms \subseteq placed[g]
    BY <1>1 DEF IInv, GuestOK, EnteredByAdmission
  <2>2. RoomsToEnter(g) \subseteq guest[g].promised
    BY DEF RoomsToEnter
  <2>3. guest[g].by \in Invites /\ guest[g].promised \subseteq invite[guest[g].by].rooms
    BY <1>1 DEF IInv, GuestOK, CameOnInvite, Account
  <2>4. Opens[CameOn[g]] = invite[guest[g].by].rooms
    BY <2>3 DEF Opens, CameOn
  <2>5. QED
    BY <1>6, <2>1, <2>2, <2>3, <2>4 DEF R
<1>8. /\ Life' = [h \in Guests |-> Life'[h]] /\ NameHeld' = [h \in Guests |-> NameHeld'[h]]
      /\ Seats' = [h \in Guests |-> Seats'[h]] /\ CameOn' = [h \in Guests |-> CameOn'[h]]
      /\ Life = [h \in Guests |-> Life[h]] /\ NameHeld = [h \in Guests |-> NameHeld[h]]
      /\ Seats = [h \in Guests |-> Seats[h]] /\ CameOn = [h \in Guests |-> CameOn[h]]
  BY DEF Life, NameHeld, Seats, CameOn
<1>9. /\ Life' = [Life EXCEPT ![g] = "admitted"] /\ Seats' = [Seats EXCEPT ![g] = Seats'[g]]
      /\ CameOn' = CameOn /\ NameHeld' = NameHeld
  BY <1>5, <1>6, <1>8
<1>10. Promise!Admit(g)
  BY <1>4, <1>6, <1>7, <1>9 DEF Promise!Admit
<1>11. QED
  BY <1>10 DEF Promise!Next

\* A guest who is made a member gives up the name; one who is gone stays gone.
LEMMA PromoteKeepsPromise ==
    ASSUME IInv, NEW g \in Guests, Promote(g)
    PROVE  Promise!Next
<1>1. /\ guest \in [Guests -> Account] /\ guest[g] \in Account
      /\ guest[g].status # "free"
      /\ guest' = [guest EXCEPT ![g] = [guest[g] EXCEPT !.role = "member"]]
      /\ UNCHANGED <<invite, placed>>
  BY DEF Promote, IInv, TypeOK
<1>2. /\ \A h \in Guests \ {g} : guest'[h] = guest[h]
      /\ guest'[g].status = guest[g].status /\ guest'[g].role = "member"
      /\ guest'[g].rooms = guest[g].rooms
      /\ guest'[g].by = guest[g].by /\ guest'[g].name = guest[g].name
  BY <1>1 DEF Account
<1>3. \A h \in Guests \ {g} : Same(h)
  BY <1>2 DEF Same
<1>4. UNCHANGED <<Issued, Left, Opens>> /\ InvitesSame
  BY <1>1 DEF Issued, Left, Opens, InvitesSame
<1>5. CASE Here(g)
  <2>1. \A h \in Guests \ {g} : /\ Life'[h] = Life[h] /\ CameOn'[h] = CameOn[h]
                                /\ NameHeld'[h] = NameHeld[h] /\ Seats'[h] = Seats[h]
    BY <1>1, <1>3, SameViews
  <2>2. /\ Life[g] \in {"waiting", "admitted"} /\ Life'[g] = "member" /\ CameOn'[g] = CameOn[g]
        /\ NameHeld'[g] = None /\ Seats'[g] = Seats[g]
    BY <1>1, <1>2, <1>5 DEF Life, CameOn, NameHeld, Seats, Here, Open, Closed
  <2>3. /\ Life' = [h \in Guests |-> Life'[h]] /\ NameHeld' = [h \in Guests |-> NameHeld'[h]]
        /\ Seats' = [h \in Guests |-> Seats'[h]] /\ CameOn' = [h \in Guests |-> CameOn'[h]]
        /\ Life = [h \in Guests |-> Life[h]] /\ NameHeld = [h \in Guests |-> NameHeld[h]]
        /\ Seats = [h \in Guests |-> Seats[h]] /\ CameOn = [h \in Guests |-> CameOn[h]]
    BY DEF Life, NameHeld, Seats, CameOn
  <2>4. /\ Life' = [Life EXCEPT ![g] = "member"] /\ NameHeld' = [NameHeld EXCEPT ![g] = None]
        /\ CameOn' = CameOn /\ Seats' = Seats
    BY <2>1, <2>2, <2>3
  <2>5. Promise!MakeMember(g)
    BY <1>4, <2>2, <2>4 DEF Promise!MakeMember
  <2>6. QED
    BY <2>5 DEF Promise!Next
<1>6. CASE ~ Here(g)
  <2>1. UNCHANGED <<Life, CameOn, NameHeld, Seats>>
    <3>1. Life'[g] = Life[g] /\ NameHeld'[g] = NameHeld[g]
      BY <1>1, <1>2, <1>6 DEF Life, NameHeld, Here, Open, Closed, Account
    <3>2. CameOn'[g] = CameOn[g] /\ Seats'[g] = Seats[g]
      BY <1>1, <1>2 DEF CameOn, Seats
    <3>3. \A h \in Guests \ {g} : /\ Life'[h] = Life[h] /\ CameOn'[h] = CameOn[h]
                                  /\ NameHeld'[h] = NameHeld[h] /\ Seats'[h] = Seats[h]
      BY <1>1, <1>3, SameViews
    <3>4. /\ Life' = [h \in Guests |-> Life'[h]] /\ NameHeld' = [h \in Guests |-> NameHeld'[h]]
          /\ Seats' = [h \in Guests |-> Seats'[h]] /\ CameOn' = [h \in Guests |-> CameOn'[h]]
          /\ Life = [h \in Guests |-> Life[h]] /\ NameHeld = [h \in Guests |-> NameHeld[h]]
          /\ Seats = [h \in Guests |-> Seats[h]] /\ CameOn = [h \in Guests |-> CameOn[h]]
      BY DEF Life, NameHeld, Seats, CameOn
    <3>5. QED
      BY <3>1, <3>2, <3>3, <3>4
  <2>2. Promise!LoseSeats
    <3>1. Seats \in [Guests -> SUBSET Rooms]
      BY DEF Seats, IInv, TypeOK, Account
    <3>2. QED
      BY <1>4, <2>1, <3>1 DEF Promise!LoseSeats
  <2>3. QED
    BY <2>2 DEF Promise!Next
<1>7. QED
  BY <1>5, <1>6

\* A step that takes rooms away, or gives some that nobody was admitted to.
LEMMA ShrinkingKeepsPromise ==
    ASSUME IInv, UNCHANGED invite,
           \A g \in Guests :
               LET a == guest[g]
                   b == guest'[g]
               IN  /\ b.status = a.status /\ b.role = a.role /\ b.name = a.name /\ b.by = a.by
                   /\ b.rooms \ placed'[g] \subseteq a.rooms \ placed[g]
    PROVE  Promise!Next
<1>1. UNCHANGED <<Issued, Left, Opens>>
  BY DEF Issued, Left, Opens
<1>2. UNCHANGED <<Life, CameOn, NameHeld>>
  BY DEF Life, CameOn, NameHeld, Here
<1>3. \A g \in Guests : Seats'[g] \subseteq Seats[g] /\ Seats[g] \subseteq Rooms
  BY DEF Seats, IInv, TypeOK, Account
<1>4. Seats' \in [Guests -> SUBSET Rooms]
  <2>1. Seats' = [g \in Guests |-> Seats'[g]]
    BY DEF Seats
  <2>2. QED
    BY <1>3, <2>1
<1>5. Promise!LoseSeats
  BY <1>1, <1>2, <1>3, <1>4 DEF Promise!LoseSeats
<1>6. QED
  BY <1>5 DEF Promise!Next

\* Kicks, deletions and new groups.
LEMMA RoomStepKeepsPromise ==
    ASSUME IInv, NEW r \in Rooms,
           \/ \E g \in Guests : Kick(g, r)
           \/ DeleteRoom(r)
           \/ \E S \in SUBSET Guests : CreateGroup(r, S)
    PROVE  Promise!Next
<1>1. \A g \in Guests : guest[g] \in Account /\ guest \in [Guests -> Account]
  BY DEF IInv, TypeOK
<1>2. ASSUME NEW g \in Guests, Kick(g, r) PROVE Promise!Next
  <2>1. /\ guest' = [guest EXCEPT ![g] = [guest[g] EXCEPT !.rooms = guest[g].rooms \ {r}]]
        /\ UNCHANGED <<invite, placed>>
    BY <1>2 DEF Kick
  <2>2. ASSUME NEW h \in Guests
        PROVE  LET a == guest[h]
                   b == guest'[h]
               IN  /\ b.status = a.status /\ b.role = a.role /\ b.name = a.name /\ b.by = a.by
                   /\ b.rooms \ placed'[h] \subseteq a.rooms \ placed[h]
    <3>1. CASE h = g
      BY <1>1, <2>1, <3>1 DEF Account
    <3>2. CASE h # g
      BY <1>1, <2>1, <3>2
    <3>3. QED
      BY <3>1, <3>2
  <2>3. QED
    BY <2>1, <2>2, ShrinkingKeepsPromise
<1>3. CASE DeleteRoom(r)
  <2>1. /\ guest' = [g \in Guests |-> [guest[g] EXCEPT !.rooms = guest[g].rooms \ {r},
                                                       !.files = guest[g].files \ {r}]]
        /\ UNCHANGED <<invite, placed>>
    BY <1>3 DEF DeleteRoom
  <2>2. ASSUME NEW h \in Guests
        PROVE  LET a == guest[h]
                   b == guest'[h]
               IN  /\ b.status = a.status /\ b.role = a.role /\ b.name = a.name /\ b.by = a.by
                   /\ b.rooms \ placed'[h] \subseteq a.rooms \ placed[h]
    BY <1>1, <2>1 DEF Account
  <2>3. QED
    BY <2>1, <2>2, ShrinkingKeepsPromise
<1>4. ASSUME NEW S \in SUBSET Guests, CreateGroup(r, S) PROVE Promise!Next
  <2>1. /\ guest' = [g \in Guests |->
              IF g \in S THEN [guest[g] EXCEPT !.rooms = guest[g].rooms \cup {r}] ELSE guest[g]]
        /\ placed' = [g \in Guests |-> IF g \in S THEN placed[g] \cup {r} ELSE placed[g]]
        /\ UNCHANGED invite
    BY <1>4 DEF CreateGroup
  <2>2. ASSUME NEW h \in Guests
        PROVE  LET a == guest[h]
                   b == guest'[h]
               IN  /\ b.status = a.status /\ b.role = a.role /\ b.name = a.name /\ b.by = a.by
                   /\ b.rooms \ placed'[h] \subseteq a.rooms \ placed[h]
    <3>1. CASE h \in S
      BY <1>1, <2>1, <3>1 DEF Account
    <3>2. CASE h \notin S
      BY <1>1, <2>1, <3>2
    <3>3. QED
      BY <3>1, <3>2
  <2>3. QED
    BY <2>1, <2>2, ShrinkingKeepsPromise
<1>5. QED
  BY <1>2, <1>3, <1>4

\* What a guest does, and sessions that lapse or are swept.
LEMMA AccountStepKeepsPromise ==
    ASSUME IInv, NEW g \in Guests,
           \/ Link(g) \/ Unlink(g) \/ UploadEnds(g)
           \/ SessionLapses(g) \/ MemberSessionEnds(g)
           \/ ExpiredSessionSeen(g) \/ Purge(g) \/ PasswordReset(g)
    PROVE  Promise!Next
<1>1. /\ guest \in [Guests -> Account] /\ \A h \in Guests : guest[h] \in Account
      /\ placed' = placed /\ invite' = invite /\ InvitesSame
  BY DEF Link, Unlink, UploadEnds, SessionLapses, MemberSessionEnds, ExpiredSessionSeen,
         Purge, PasswordReset, IInv, TypeOK, InvitesSame
<1>2. \A h \in Guests : guest'[h] = guest[h] => Same(h)
  BY DEF Same
<1>3. \A h \in Guests \ {g} : Same(h) \/ Leaves(h)
  <2>1. CASE PasswordReset(g)
    <3>1. \A h \in Guests \ {g} : guest'[h] = Swept(guest[h])
      BY <2>1 DEF PasswordReset, Pruned
    <3>2. QED
      BY <3>1, SweepingLeaves
  <2>2. CASE ~ PasswordReset(g)
    <3>1. \A h \in Guests \ {g} : guest'[h] = guest[h]
      BY <1>1, <2>2 DEF Link, Unlink, UploadEnds, SessionLapses, MemberSessionEnds,
                        ExpiredSessionSeen, Purge
    <3>2. QED
      BY <1>2, <3>1
  <2>3. QED
    BY <2>1, <2>2
<1>4. Same(g) \/ Leaves(g)
  <2>1. CASE Link(g) \/ Unlink(g)
    <3>1. \E on \in BOOLEAN : guest'[g] = [guest[g] EXCEPT !.linked = on]
      BY <1>1, <2>1 DEF Link, Unlink
    <3>2. QED
      BY <1>1, <3>1 DEF Same, Account
  <2>2. CASE UploadEnds(g)
    <3>1. guest'[g] = [guest[g] EXCEPT !.files = guest[g].files \cup {upload[g]}]
      BY <1>1, <2>2 DEF UploadEnds
    <3>2. QED
      BY <1>1, <3>1 DEF Same, Account
  <2>3. CASE SessionLapses(g)
    <3>1. guest'[g] = [guest[g] EXCEPT !.session = "over"]
      BY <1>1, <2>3 DEF SessionLapses
    <3>2. QED
      BY <1>1, <3>1 DEF Same, Account
  <2>4. CASE MemberSessionEnds(g)
    <3>1. guest'[g] = WithoutRow(guest[g])
      BY <1>1, <2>4 DEF MemberSessionEnds
    <3>2. QED
      BY <1>1, <3>1, WithoutRowFields DEF Same
  <2>5. CASE ExpiredSessionSeen(g)
    <3>1. guest'[g] = Swept(guest[g])
      BY <1>1, <2>5 DEF ExpiredSessionSeen
    <3>2. QED
      BY <3>1, SweepingLeaves
  <2>6. CASE Purge(g)
    <3>1. /\ guest'[g] = [NoAccount EXCEPT !.status = "purged", !.by = guest[g].by]
          /\ Here(g)
      BY <1>1, <2>6 DEF Purge, Here
    <3>2. guest'[g].status = "purged" /\ guest'[g].rooms = {} /\ guest'[g].by = guest[g].by
      BY <3>1 DEF NoAccount
    <3>3. QED
      BY <3>1, <3>2 DEF Leaves, Closed
  <2>7. CASE PasswordReset(g)
    <3>1. guest'[g] = [guest[g] EXCEPT !.session = "member", !.linked = FALSE]
      BY <2>7 DEF PasswordReset, Pruned
    <3>2. QED
      BY <1>1, <3>1 DEF Same, Account
  <2>8. QED
    BY <2>1, <2>2, <2>3, <2>4, <2>5, <2>6, <2>7
<1>5. QED
  BY <1>1, <1>3, <1>4, GoingKeepsPromise

\* A login, which prunes; a death with no join under way.
LEMMA SweepKeepsPromise ==
    ASSUME IInv, SomebodyLogsIn \/ DiesIdle \/ \E S \in SUBSET Ending : DiesPruning(S)
    PROVE  Promise!Next
<1>1. placed' = placed /\ InvitesSame
  BY DEF SomebodyLogsIn, DiesIdle, DiesPruning, Dies, InvitesSame
<1>2. ASSUME NEW g \in Guests PROVE Same(g) \/ Leaves(g)
  <2>1. CASE SomebodyLogsIn
    <3>1. guest'[g] = Swept(guest[g])
      BY <2>1 DEF SomebodyLogsIn, Pruned
    <3>2. QED
      BY <3>1, SweepingLeaves
  <2>2. CASE DiesIdle
    <3>1. guest'[g] = [guest[g] EXCEPT !.linked = FALSE]
      BY <2>2 DEF DiesIdle, Dies
    <3>2. QED
      BY <3>1, DyingLeaves
  <2>3. ASSUME NEW S \in SUBSET Ending, DiesPruning(S) PROVE Same(g) \/ Leaves(g)
    <3> DEFINE gs == [h \in Guests |->
                          IF h \in Ending \ S THEN WithoutRow(guest[h]) ELSE Pruned[h]]
    <3>1. gs[g] = WithoutRow(guest[g]) \/ gs[g] = Swept(guest[g])
      BY DEF Pruned
    <3>2. guest'[g] = [gs[g] EXCEPT !.linked = FALSE]
      BY <2>3 DEF DiesPruning, Dies
    <3> HIDE DEF gs
    <3>3. QED
      BY <3>1, <3>2, DyingLeaves
  <2>4. QED
    BY <2>1, <2>2, <2>3
<1>3. QED
  BY <1>1, <1>2, GoingKeepsPromise

\* A request that begins or is refused, an upload that begins or fails.
LEMMA QuietKeepsPromise ==
    ASSUME IInv, UNCHANGED <<invite, guest, placed>>
    PROVE  Promise!Next
BY GoingKeepsPromise DEF Same, InvitesSame

LEMMA NextKeepsPromise ==
    ASSUME IInv, [Next]_vars
    PROVE  Promise!Next
<1>1. CASE PanelStep
  BY <1>1, InviteStepKeepsPromise, AdmitKeepsPromise, AccountStepKeepsPromise DEF PanelStep
<1>2. CASE JoinStep
  BY <1>2, JoinAcceptedKeepsPromise, QuietKeepsPromise DEF JoinStep, JoinBegins, JoinRefused
<1>3. CASE GuestStep
  BY <1>3, AccountStepKeepsPromise, QuietKeepsPromise DEF GuestStep, UploadBegins, UploadFails
<1>4. CASE ServerStep
  BY <1>4, AccountStepKeepsPromise, PromoteKeepsPromise, RoomStepKeepsPromise,
     SweepKeepsPromise, DiesJoiningKeepsPromise DEF ServerStep
<1>5. CASE UNCHANGED vars
  BY <1>5, QuietKeepsPromise DEF vars
<1>6. QED
  BY <1>1, <1>2, <1>3, <1>4, <1>5 DEF Next

LEMMA InitKeepsPromise == Init => Promise!Init
<1> SUFFICES ASSUME Init PROVE Promise!Init
  OBVIOUS
<1>1. /\ \A i \in Invites : invite[i].state = "unmade" /\ invite[i].rooms = {}
      /\ \A g \in Guests : /\ guest[g].status = "free" /\ guest[g].by = None
                           /\ guest[g].rooms = {}
  BY DEF Init, NoAccount
<1>2. Issued = {} /\ Left = [i \in Invites |-> 0] /\ Opens = [i \in Invites |-> {}]
  BY <1>1 DEF Issued, Left, Opens
<1>3. /\ Life = [g \in Guests |-> "new"] /\ CameOn = [g \in Guests |-> None]
      /\ NameHeld = [g \in Guests |-> None] /\ Seats = [g \in Guests |-> {}]
  BY <1>1 DEF Life, CameOn, NameHeld, Seats, Here, Open
<1>4. QED
  BY <1>2, <1>3 DEF Promise!Init

\* Invites, guests and their rooms go through the promised steps only, however
\* joins overlap, sessions end and the process dies.
THEOREM Refinement == Spec => KeepsGuestPromise
<1>1. IInv /\ [Next]_vars => [Promise!Next]_(Promise!vars)
  BY NextKeepsPromise
<1>2. QED
  BY <1>1, InitKeepsPromise, Invariance, PTL DEF Spec, KeepsGuestPromise, Promise!Spec

=============================================================================
