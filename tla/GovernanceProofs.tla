-------------------------- MODULE GovernanceProofs --------------------------
(***************************************************************************)
(* Proofs about Governance, for any names, guests, rooms and legacy users. *)
(*                                                                         *)
(* The roles are a world of their own: no guard on them reads a room.  To  *)
(* know where the master sits one has to know what the command has done,   *)
(* for it is a process beside the server and its two transactions come     *)
(* apart.                                                                  *)
(*                                                                         *)
(* Who created a room is another matter, of the rows of its members in     *)
(* their order: the backfill takes the first, and every request that takes *)
(* a row away must know whose.  It needs nothing of the roles but types.   *)
(***************************************************************************)
EXTENDS Governance, TLAPS

\* The columns and the command's state that the roles depend on.
RoleTypeOK ==
    /\ role \in [Accounts -> Roles \cup {"none"}]
    /\ general \subseteq Accounts
    /\ command \in [name : Accounts \cup {None}, phase : Phases, existing : BOOLEAN]

\* A command under way has a name.
CommandIsNamed == command.phase # "none" => command.name \in Accounts

RoleInv ==
    /\ RoleTypeOK
    /\ CommandIsNamed
    /\ AtMostOneMaster
    /\ MasterIsInGeneral

-----------------------------------------------------------------------------
(* What the two backfills and the other steps do to the roles.             *)

\* A start makes nobody anything but an admin, and nobody at all when there is
\* one.
LEMMA FirstAdminMakesNobodyElse ==
    ASSUME role \in [Accounts -> Roles \cup {"none"}]
    PROVE  /\ FirstAdmin \in [Accounts -> Roles \cup {"none"}]
           /\ \A a \in Accounts : FirstAdmin[a] = role[a] \/ FirstAdmin[a] = "admin"
           /\ Admins # {} => FirstAdmin = role
  BY DEF FirstAdmin, Roles

\* The transaction of the command leaves one master, and takes no admin's place
\* but the new master's.
LEMMA WithMasterIsAlone ==
    ASSUME role \in [Accounts -> Roles \cup {"none"}], NEW n \in Accounts
    PROVE  /\ WithMaster(n) \in [Accounts -> Roles \cup {"none"}]
           /\ WithMaster(n)[n] = "master"
           /\ \A a \in Accounts \ {n} :
                /\ WithMaster(n)[a] # "master"
                /\ WithMaster(n)[a] = role[a] \/ (role[a] = "master" /\ WithMaster(n)[a] = "admin")
  BY DEF WithMaster, Roles

\* A transaction that appoints nobody makes admins of masters.
LEMMA DemotedHasNoMaster ==
    ASSUME role \in [Accounts -> Roles \cup {"none"}]
    PROVE  /\ Demoted \in [Accounts -> Roles \cup {"none"}]
           /\ \A a \in Accounts :
                /\ Demoted[a] # "master"
                /\ Demoted[a] = role[a] \/ (role[a] = "master" /\ Demoted[a] = "admin")
  BY DEF Demoted, Roles

\* A request changes one role, not the master's, and only the master's request
\* gives or takes an admin's.
LEMMA RoleSetSparesTheMaster ==
    ASSUME role \in [Accounts -> Roles \cup {"none"}],
           NEW a \in Accounts, NEW t \in Accounts, NEW next \in {"member", "admin"},
           SetRole(a, t, next)
    PROVE  /\ role' = [role EXCEPT ![t] = next]
           /\ role[t] # "master"
           /\ role[t] = "admin" \/ next = "admin" => role[a] = "master"
<1>1. role' = [role EXCEPT ![t] = next] /\ role[t] # "master"
  BY DEF SetRole, RoleSet
<1>2. Outranks(role[a], role[t]) /\ Outranks(role[a], next)
  BY DEF SetRole, MaySetRole
<1>3. ASSUME role[t] = "admin" \/ next = "admin"
      PROVE  role[a] = "master"
  <2>1. Rank(role[a]) > 2
    BY <1>2, <1>3 DEF Outranks, Rank
  <2>2. QED
    BY <2>1 DEF Rank, Roles
<1>4. QED
  BY <1>1, <1>3

-----------------------------------------------------------------------------

LEMMA RoleInvInit == Init => RoleInv
<1> SUFFICES ASSUME Init PROVE RoleInv
  OBVIOUS
<1>1. role \in [Accounts -> Roles \cup {"none"}] /\ Masters = {}
  BY DEF Init, Roles, Masters
<1>2. general \subseteq Accounts
  <2>1. \A s \in Seq(Names) : ToSet(s) \subseteq Names
    BY DEF ToSet
  <2>2. <<>> \in Seq(Names)
    OBVIOUS
  <2>3. users = <<>> \/ users = Legacy
    BY DEF Init
  <2>4. users \in Seq(Names)
    BY <2>2, <2>3, LegacyAssumption
  <2>5. general = ToSet(users)
    BY DEF Init
  <2>6. QED
    BY <2>1, <2>4, <2>5 DEF Accounts
<1>3. /\ command \in [name : Accounts \cup {None}, phase : Phases, existing : BOOLEAN]
      /\ command.phase = "none"
  BY DEF Init, Idle, Phases
<1>4. QED
  BY <1>1, <1>2, <1>3 DEF RoleInv, RoleTypeOK, CommandIsNamed, AtMostOneMaster, MasterIsInGeneral

LEMMA RoleInvStep == RoleInv /\ [Next]_vars => RoleInv'
<1> SUFFICES ASSUME RoleInv, [Next]_vars PROVE RoleInv'
  OBVIOUS
<1> USE DEF RoleInv
<1>1. ASSUME Mends, UNCHANGED general, command' = command \/ command = Idle,
             RoleTypeOK', CommandIsNamed'
      PROVE  RoleInv'
  <2>1. role' = FirstAdmin
    BY <1>1 DEF Mends
  <2>2. Masters' \subseteq Masters
    BY <2>1, FirstAdminMakesNobodyElse DEF Masters, RoleTypeOK
  <2>3. QED
    BY <1>1, <2>2 DEF AtMostOneMaster, MasterIsInGeneral, Idle
<1>2. CASE Starts
  <2>1. FirstAdmin \in [Accounts -> Roles \cup {"none"}]
    BY FirstAdminMakesNobodyElse DEF RoleTypeOK
  <2>2. RoleTypeOK' /\ CommandIsNamed'
    BY <1>2, <2>1 DEF Starts, Mends, RoleTypeOK, CommandIsNamed
  <2>3. QED
    BY <1>1, <1>2, <2>2 DEF Starts
<1>3. ASSUME NEW n \in Accounts, CommandOpens(n)
      PROVE  RoleInv'
  <2>1. FirstAdmin \in [Accounts -> Roles \cup {"none"}]
    BY FirstAdminMakesNobodyElse DEF RoleTypeOK
  <2>2. There(n) \in BOOLEAN
    BY DEF There
  <2>3. RoleTypeOK' /\ CommandIsNamed'
    BY <1>3, <2>1, <2>2 DEF CommandOpens, Mends, RoleTypeOK, CommandIsNamed, Phases
  <2>4. QED
    BY <1>1, <1>3, <2>3 DEF CommandOpens
<1>4. CASE CommandApplies
  <2> DEFINE n == command.name
  <2>1. command.phase = "opened" /\ n \in Accounts
    BY <1>4 DEF CommandApplies, CommandIsNamed, Accounts
  <2>2. CASE role' = WithMaster(n) /\ command' = [command EXCEPT !.phase = "applied"]
    <3>1. Masters' = {n}
      BY <2>1, <2>2, WithMasterIsAlone DEF Masters, RoleTypeOK
    <3>2. RoleTypeOK' /\ CommandIsNamed'
      BY <1>4, <2>1, <2>2, WithMasterIsAlone DEF CommandApplies, RoleTypeOK, CommandIsNamed, Phases
    <3>3. command'.name = n /\ command'.phase = "applied"
      BY <2>2 DEF RoleTypeOK
    <3>4. QED
      BY <3>1, <3>2, <3>3 DEF AtMostOneMaster, MasterIsInGeneral
  <2>3. CASE UNCHANGED role /\ command' = Idle
    BY <1>4, <2>1, <2>3 DEF CommandApplies, RoleTypeOK, CommandIsNamed, AtMostOneMaster,
       MasterIsInGeneral, Masters, Idle, Phases
  <2>4. CASE role' = Demoted /\ command' = Idle
    <3>1. Masters' = {}
      BY <2>4, DemotedHasNoMaster DEF Masters, RoleTypeOK
    <3>2. RoleTypeOK' /\ CommandIsNamed'
      BY <1>4, <2>4, DemotedHasNoMaster DEF CommandApplies, RoleTypeOK, CommandIsNamed, Idle, Phases
    <3>3. QED
      BY <3>1, <3>2 DEF AtMostOneMaster, MasterIsInGeneral
  <2>5. QED
    BY <1>4, <2>2, <2>3, <2>4 DEF CommandApplies, NotInserted
<1>5. CASE CommandSeats
  <2>1. UNCHANGED role /\ general' = general \cup {command.name} /\ command' = Idle
    BY <1>5 DEF CommandSeats, WithSeat
  <2>2. command.name \in Accounts
    BY <1>5 DEF CommandSeats, CommandIsNamed
  <2>3. QED
    BY <2>1, <2>2 DEF RoleTypeOK, CommandIsNamed, AtMostOneMaster, MasterIsInGeneral, Masters,
       Idle, Phases, Accounts
\* A change that makes nobody a master, with the command where it was.
<1>6. ASSUME NEW x \in Accounts, NEW y \in (Roles \ {"master"}) \cup {"none"},
             role' = [role EXCEPT ![x] = y], UNCHANGED <<general, command>>
      PROVE  RoleInv'
  <2>1. Masters' \subseteq Masters
    BY <1>6 DEF Masters, RoleTypeOK
  <2>2. QED
    BY <1>6, <2>1 DEF RoleTypeOK, CommandIsNamed, AtMostOneMaster, MasterIsInGeneral
<1>7. ASSUME NEW a \in Accounts, NEW t \in Accounts, NEW next \in {"member", "admin"},
             SetRole(a, t, next)
      PROVE  RoleInv'
  BY <1>6, <1>7 DEF SetRole, RoleSet, Roles
<1>8. ASSUME NEW n \in Names, Register(n)
      PROVE  RoleInv'
  BY <1>6, <1>8 DEF Register, Roles, Accounts
<1>9. ASSUME NEW g \in Guests, GuestJoins(g)
      PROVE  RoleInv'
  BY <1>6, <1>9 DEF GuestJoins, Roles, Accounts
<1>10. ASSUME NEW a \in Accounts, NEW g \in Guests, Purge(a, g)
       PROVE  RoleInv'
  BY <1>6, <1>10 DEF Purge, Accounts
<1>11. ASSUME UNCHANGED <<role, general, command>>
       PROVE  RoleInv'
  BY <1>11 DEF RoleTypeOK, CommandIsNamed, AtMostOneMaster, MasterIsInGeneral, Masters
<1>12. QED
  BY <1>2, <1>3, <1>4, <1>5, <1>7, <1>8, <1>9, <1>10, <1>11
     DEF Next, vars, accounts, rooms, Dies, CommandStep, AccountStep, GuestStep, RoomStep, Invite,
         Retire, Admit, CreateGroup, CreateGroupDies, AddMember, Leave, Kick, DeleteGroup

\* The roles, the members of #general and the command agree in every state.
THEOREM RolesHold == Spec => []RoleInv
<1>1. Init => RoleInv
  BY RoleInvInit
<1>2. RoleInv /\ [Next]_vars => RoleInv'
  BY RoleInvStep
<1>3. QED
  BY <1>1, <1>2, PTL DEF Spec

\* There are never two masters: not while the command overlaps with a
\* registration of the same name, and not after any start.
THEOREM OneMaster == Spec => []AtMostOneMaster
<1>1. RoleInv => AtMostOneMaster
  BY DEF RoleInv
<1>2. QED
  BY <1>1, RolesHold, PTL

\* A master is in #general as soon as the command that made them is through.
THEOREM MasterSits == Spec => []MasterIsInGeneral
<1>1. RoleInv => MasterIsInGeneral
  BY DEF RoleInv
<1>2. QED
  BY <1>1, RolesHold, PTL

-----------------------------------------------------------------------------
(* The two action properties.                                              *)

\* What a step that touches the roles may do to them.  The rest leave them alone.
LEMMA RoleStep ==
    ASSUME RoleInv, [Next]_vars
    PROVE  \/ UNCHANGED role
           \/ role' = FirstAdmin
           \/ \E a, t \in Accounts, next \in {"member", "admin"} : SetRole(a, t, next)
           \/ CommandApplies
           \/ \E n \in Names : Register(n)
           \/ \E g \in Guests : GuestJoins(g)
           \/ \E a \in Accounts, g \in Guests : Purge(a, g)
  BY DEF Next, vars, accounts, rooms, Starts, Dies, Mends, CommandStep, AccountStep, GuestStep,
         RoomStep, CommandOpens, CommandSeats, Invite, Retire, Admit, CreateGroup, CreateGroupDies,
         AddMember, Leave, Kick, DeleteGroup

LEMMA AdminsStep ==
    ASSUME RoleInv, [Next]_vars, NEW a \in Accounts, (role[a] = "admin") # (role'[a] = "admin")
    PROVE  Masters # {} \/ role'[a] = "master" \/ Admins = {}
<1> USE DEF RoleInv, RoleTypeOK
<1>1. CASE UNCHANGED role
  BY <1>1
<1>2. CASE role' = FirstAdmin
  BY <1>2, FirstAdminMakesNobodyElse
<1>3. ASSUME NEW b \in Accounts, NEW t \in Accounts, NEW next \in {"member", "admin"},
             SetRole(b, t, next)
      PROVE  Masters # {}
  <2>1. role' = [role EXCEPT ![t] = next] /\ (role[t] = "admin" \/ next = "admin" => role[b] = "master")
    BY <1>3, RoleSetSparesTheMaster
  <2>2. role[b] = "master"
    BY <2>1
  <2>3. QED
    BY <2>2 DEF Masters
<1>4. CASE CommandApplies
  <2>1. command.name \in Accounts
    BY <1>4 DEF CommandApplies, CommandIsNamed, Accounts
  <2>2. UNCHANGED role \/ role' = WithMaster(command.name) \/ role' = Demoted
    BY <1>4 DEF CommandApplies, NotInserted
  <2>3. QED
    BY <2>1, <2>2, WithMasterIsAlone, DemotedHasNoMaster DEF Masters
<1>5. ASSUME NEW n \in Names, Register(n)
      PROVE  FALSE
  BY <1>5 DEF Register, There, Accounts
<1>6. ASSUME NEW g \in Guests, GuestJoins(g)
      PROVE  FALSE
  BY <1>6 DEF GuestJoins, There, Accounts
<1>7. ASSUME NEW b \in Accounts, NEW g \in Guests, Purge(b, g)
      PROVE  FALSE
  BY <1>7 DEF Purge, Accounts
<1>8. QED
  BY <1>1, <1>2, <1>3, <1>4, <1>5, <1>6, <1>7, RoleStep

LEMMA MasterStep ==
    ASSUME RoleInv, [Next]_vars, Masters # {}, Admins # {}
    PROVE  Masters' # {} \/ (FoundIsGone /\ command' = Idle)
<1> USE DEF RoleInv, RoleTypeOK
<1>1. PICK m \in Accounts : role[m] = "master"
  BY DEF Masters
<1>2. SUFFICES ASSUME ~(FoundIsGone /\ command' = Idle)
               PROVE  \E a \in Accounts : role'[a] = "master"
  BY DEF Masters
<1>3. CASE UNCHANGED role
  BY <1>1, <1>3
<1>4. CASE role' = FirstAdmin
  BY <1>1, <1>4, FirstAdminMakesNobodyElse
<1>5. ASSUME NEW b \in Accounts, NEW t \in Accounts, NEW next \in {"member", "admin"},
             SetRole(b, t, next)
      PROVE  role'[m] = "master"
  BY <1>1, <1>5, RoleSetSparesTheMaster
<1>6. CASE CommandApplies
  <2>1. command.name \in Accounts
    BY <1>6 DEF CommandApplies, CommandIsNamed, Accounts
  <2>2. UNCHANGED role \/ role' = WithMaster(command.name)
    BY <1>2, <1>6 DEF CommandApplies, NotInserted
  <2>3. QED
    BY <1>1, <2>1, <2>2, WithMasterIsAlone
<1>7. ASSUME NEW n \in Names, Register(n)
      PROVE  role'[m] = "master"
  BY <1>1, <1>7 DEF Register, There
<1>8. ASSUME NEW g \in Guests, GuestJoins(g)
      PROVE  role'[m] = "master"
  BY <1>1, <1>8 DEF GuestJoins, There
<1>9. ASSUME NEW b \in Accounts, NEW g \in Guests, Purge(b, g)
      PROVE  role'[m] = "master"
  BY <1>1, <1>9 DEF Purge
<1>10. QED
  BY <1>1, <1>3, <1>4, <1>5, <1>6, <1>7, <1>8, <1>9, RoleStep

\* Nobody below the master makes or unmakes an admin, by whatever sequence of
\* requests, commands and starts.
THEOREM OnlyTheMasterMakesAdmins == Spec => AdminsAreTheMastersToMake
<1>1. RoleInv /\ [Next]_vars
        => [\A a \in Accounts :
              (role[a] = "admin") # (role'[a] = "admin")
                => Masters # {} \/ role'[a] = "master" \/ Admins = {}]_vars
  BY AdminsStep
<1>2. QED
  BY <1>1, RolesHold, PTL DEF Spec, AdminsAreTheMastersToMake

\* Beside an admin the master's place is never left empty, but by a command for a
\* guest's account that was purged under it.
THEOREM MasterIsKept == Spec => MasterStaysWhileThereIsAnAdmin
<1>1. RoleInv /\ [Next]_vars =>
        [Masters # {} /\ Admins # {} =>
            Masters' # {} \/ (FoundIsGone /\ command' = Idle)]_vars
  BY MasterStep
<1>2. QED
  BY <1>1, RolesHold, PTL DEF Spec, MasterStaysWhileThereIsAnAdmin

-----------------------------------------------------------------------------
(* Lists of rows.                                                          *)

LEMMA RemoveAtFacts ==
    ASSUME NEW S, NEW s \in Seq(S), NEW i \in DOMAIN s
    PROVE  LET t == RemoveAt(s, i)
           IN  /\ t \in Seq(S) /\ Len(t) = Len(s) - 1
               /\ \A j \in 1..Len(t) : t[j] = IF j < i THEN s[j] ELSE s[j + 1]
<1> DEFINE u == SubSeq(s, 1, i - 1)
           v == SubSeq(s, i + 1, Len(s))
<1>1. i \in 1..Len(s) /\ Len(s) \in Nat
  OBVIOUS
<1>2. u \in Seq(S) /\ Len(u) = i - 1 /\ \A j \in 1..i-1 : u[j] = s[j]
  BY <1>1
<1>3. v \in Seq(S) /\ Len(v) = Len(s) - i /\ \A j \in 1..Len(s)-i : v[j] = s[i + j]
  BY <1>1
<1> HIDE DEF u, v
<1>4. u \o v \in Seq(S) /\ Len(u \o v) = Len(s) - 1
  BY <1>1, <1>2, <1>3
<1>5. \A j \in 1..Len(s)-1 : (u \o v)[j] = IF j < i THEN s[j] ELSE s[j + 1]
  BY <1>1, <1>2, <1>3
<1>6. QED
  BY <1>4, <1>5 DEF RemoveAt, u, v

\* Deleting a's row leaves the others', in their order.
LEMMA WithoutFacts ==
    ASSUME NEW S, NEW s \in Seq(S), IsInjective(s), NEW a
    PROVE  /\ Without(s, a) \in Seq(S) /\ IsInjective(Without(s, a))
           /\ \A b \in ToSet(s) \ {a} : b \in ToSet(Without(s, a))
<1>1. CASE a \notin ToSet(s)
  BY <1>1 DEF Without
<1>2. CASE a \in ToSet(s)
  <2> DEFINE i == CHOOSE k \in DOMAIN s : s[k] = a
             t == RemoveAt(s, i)
  <2>1. i \in DOMAIN s /\ s[i] = a
    BY <1>2 DEF ToSet
  <2>2. Without(s, a) = t
    BY <1>2 DEF Without
  <2> HIDE DEF i
  <2>3. /\ t \in Seq(S) /\ Len(t) = Len(s) - 1
        /\ \A j \in 1..Len(t) : t[j] = IF j < i THEN s[j] ELSE s[j + 1]
    BY <2>1, RemoveAtFacts
  <2> HIDE DEF t
  <2>4. IsInjective(t)
    <3>1. \A j, k \in 1..Len(s) : s[j] = s[k] => j = k
      BY DEF IsInjective
    <3>2. ASSUME NEW j \in 1..Len(t), NEW k \in 1..Len(t), t[j] = t[k] PROVE j = k
      <4>1. i \in 1..Len(s) /\ Len(s) \in Nat
        BY <2>1
      <4>2. PICK m \in 1..Len(s) : t[j] = s[m] /\ m = IF j < i THEN j ELSE j + 1
        BY <2>3, <4>1
      <4>3. PICK n \in 1..Len(s) : t[k] = s[n] /\ n = IF k < i THEN k ELSE k + 1
        BY <2>3, <4>1
      <4>4. m = n
        BY <3>1, <3>2, <4>2, <4>3
      <4>5. QED
        BY <4>1, <4>2, <4>3, <4>4
    <3>3. DOMAIN t = 1..Len(t)
      BY <2>3
    <3>4. QED
      BY <3>2, <3>3 DEF IsInjective
  <2>5. ASSUME NEW b \in ToSet(s) \ {a} PROVE b \in ToSet(t)
    <3>1. PICK k \in 1..Len(s) : s[k] = b
      BY DEF ToSet
    <3>2. k # i
      BY <2>1, <3>1
    <3>3. CASE k < i
      <4>1. k \in 1..Len(t) /\ t[k] = b
        BY <2>1, <2>3, <3>1, <3>3
      <4>2. QED
        BY <2>3, <4>1 DEF ToSet
    <3>4. CASE k > i
      <4>1. k - 1 \in 1..Len(t) /\ t[k - 1] = b
        BY <2>1, <2>3, <3>1, <3>4
      <4>2. QED
        BY <2>3, <4>1 DEF ToSet
    <3>5. QED
      BY <2>1, <3>2, <3>3, <3>4
  <2>6. QED
    BY <2>2, <2>3, <2>4, <2>5
<1>3. QED
  BY <1>1, <1>2

LEMMA WithoutInSeq ==
    ASSUME NEW S, NEW s \in Seq(S), NEW a
    PROVE  Without(s, a) \in Seq(S)
<1>1. CASE a \in ToSet(s)
  <2>1. (CHOOSE k \in DOMAIN s : s[k] = a) \in DOMAIN s
    BY <1>1 DEF ToSet
  <2>2. QED
    BY <1>1, <2>1, RemoveAtFacts DEF Without
<1>2. QED
  BY <1>1 DEF Without

\* INSERT OR IGNORE of a's row keeps the others', and makes a's once.
LEMMA WithFacts ==
    ASSUME NEW S, NEW s \in Seq(S), IsInjective(s), NEW a \in S
    PROVE  /\ With(s, a) \in Seq(S) /\ IsInjective(With(s, a))
           /\ \A b \in ToSet(s) : b \in ToSet(With(s, a))
<1>1. CASE a \in ToSet(s)
  BY <1>1 DEF With
<1>2. CASE a \notin ToSet(s)
  <2> DEFINE t == Append(s, a)
  <2>1. With(s, a) = t
    BY <1>2 DEF With
  <2>2. /\ t \in Seq(S) /\ Len(t) = Len(s) + 1 /\ t[Len(s) + 1] = a
        /\ \A j \in 1..Len(s) : t[j] = s[j]
    OBVIOUS
  <2> HIDE DEF t
  <2>3. \A j \in 1..Len(s) : s[j] # a
    BY <1>2 DEF ToSet
  <2>4. IsInjective(t)
    BY <2>2, <2>3 DEF IsInjective
  <2>5. \A b \in ToSet(s) : b \in ToSet(t)
    BY <2>2 DEF ToSet
  <2>6. QED
    BY <2>1, <2>2, <2>4, <2>5
<1>3. QED
  BY <1>1, <1>2

-----------------------------------------------------------------------------
(* The creators of rooms.                                                  *)

SeatInv == TypeOK /\ CreatorsAreSeated

\* A step that makes no creator of anybody, takes nobody's seat but that of a
\* guest whose stay it ends, and begins no stay anew after it was over.
LEMMA SeatsKept ==
    ASSUME SeatInv, RoleTypeOK',
           users' \in Seq(Accounts), invited' \subseteq Rooms, up' \in BOOLEAN,
           UNCHANGED <<room, creator, lost>>,
           stay' \in [Guests -> {"free", "waiting", "admitted", "removed", "purged"}],
           \A g \in Guests : stay[g] \in {"removed", "purged"} => stay'[g] = stay[g],
           members' \in [Rooms -> Seq(Accounts)], \A r \in Rooms : IsInjective(members'[r]),
           \A r \in Rooms : \A a \in Accounts :
                Seated(a, r) => \/ Seated(a, r)'
                                \/ a \in Guests /\ stay'[a] \in {"removed", "purged"}
    PROVE  SeatInv'
<1>1. TypeOK'
  BY DEF SeatInv, TypeOK, RoleTypeOK
<1>2. CreatorsAreSeated'
  <2>1. SUFFICES ASSUME NEW r \in Rooms, room[r] = "made", creator[r] # None
                 PROVE  \/ Seated(creator[r], r)'
                        \/ creator[r] \in Guests /\ stay'[creator[r]] \in {"removed", "purged"}
    BY DEF CreatorsAreSeated, Seated
  <2>2. creator[r] \in Accounts
    BY <2>1 DEF SeatInv, TypeOK
  <2>3. \/ Seated(creator[r], r)
        \/ creator[r] \in Guests /\ stay[creator[r]] \in {"removed", "purged"}
    BY <2>1 DEF SeatInv, CreatorsAreSeated
  <2>4. QED
    BY <2>2, <2>3
<1>3. QED
  BY <1>1, <1>2 DEF SeatInv

\* The backfill names whoever has the first row, and who has a row is seated.
LEMMA MendsSeats ==
    ASSUME SeatInv, RoleTypeOK', Mends, up' \in BOOLEAN,
           UNCHANGED <<users, stay, room, members, invited, lost>>
    PROVE  SeatInv'
<1>1. creator' = RoomCreators
  BY DEF Mends
<1>2. ASSUME NEW r \in Rooms
      PROVE  \/ creator'[r] = creator[r]
             \/ creator'[r] \in Accounts /\ Seated(creator'[r], r)
  <2>1. members[r] \in Seq(Accounts)
    BY DEF SeatInv, TypeOK
  <2>2. members[r] # <<>> => Head(members[r]) \in ToSet(members[r]) /\ Head(members[r]) \in Accounts
    BY <2>1 DEF ToSet
  <2>3. QED
    BY <1>1, <2>2 DEF RoomCreators, Seated
<1>3. creator' \in [Rooms -> Accounts \cup {None}]
  BY <1>1, <1>2 DEF RoomCreators, SeatInv, TypeOK
<1>4. TypeOK'
  BY <1>3 DEF SeatInv, TypeOK, RoleTypeOK
<1>5. CreatorsAreSeated'
  BY <1>2 DEF SeatInv, CreatorsAreSeated, Seated
<1>6. QED
  BY <1>4, <1>5 DEF SeatInv

\* A step about room r alone.
LEMMA RoomKeepsSeats ==
    ASSUME SeatInv, RoleTypeOK', NEW r \in Rooms, NEW s \in Seq(Accounts), IsInjective(s),
           NEW c \in Accounts \cup {None}, NEW x \in {"unmade", "made", "half", "deleted"},
           UNCHANGED <<users, stay, invited>>, up' \in BOOLEAN,
           lost' \in [Rooms -> SUBSET Accounts],
           room' = [room EXCEPT ![r] = x], members' = [members EXCEPT ![r] = s],
           creator' = [creator EXCEPT ![r] = c],
           x = "made" /\ c # None =>
                c \in ToSet(s) \/ (c \in Guests /\ stay[c] \in {"removed", "purged"})
    PROVE  SeatInv'
<1>1. /\ room \in [Rooms -> {"unmade", "made", "half", "deleted"}]
      /\ members \in [Rooms -> Seq(Accounts)] /\ \A q \in Rooms : IsInjective(members[q])
      /\ creator \in [Rooms -> Accounts \cup {None}]
  BY DEF SeatInv, TypeOK
<1>2. /\ room'[r] = x /\ members'[r] = s /\ creator'[r] = c
      /\ \A q \in Rooms \ {r} : /\ room'[q] = room[q] /\ members'[q] = members[q]
                                /\ creator'[q] = creator[q]
  BY <1>1
<1>3. /\ room' \in [Rooms -> {"unmade", "made", "half", "deleted"}]
      /\ members' \in [Rooms -> Seq(Accounts)] /\ \A q \in Rooms : IsInjective(members'[q])
      /\ creator' \in [Rooms -> Accounts \cup {None}]
  BY <1>1, <1>2
<1>4. TypeOK'
  BY <1>3 DEF SeatInv, TypeOK, RoleTypeOK
<1>5. CreatorsAreSeated'
  BY <1>2 DEF SeatInv, CreatorsAreSeated, Seated
<1>6. QED
  BY <1>4, <1>5 DEF SeatInv

\* The list of nobody, and a founder's of one.
LEMMA FirstRows ==
    ASSUME NEW a \in Accounts
    PROVE  /\ <<>> \in Seq(Accounts) /\ IsInjective(<<>>)
           /\ <<a>> \in Seq(Accounts) /\ IsInjective(<<a>>) /\ a \in ToSet(<<a>>)
<1>1. <<>> \in Seq(Accounts) /\ <<a>> \in Seq(Accounts)
  OBVIOUS
<1>2. IsInjective(<<>>)
  BY DEF IsInjective
<1>3. IsInjective(<<a>>) /\ a \in ToSet(<<a>>)
  BY DEF IsInjective, ToSet
<1>4. QED
  BY <1>1, <1>2, <1>3

LEMMA CreateGroupKeepsSeats ==
    ASSUME SeatInv, RoleTypeOK', NEW a \in Accounts, NEW r \in Rooms,
           \/ \E other \in Accounts \cup {None} : CreateGroup(a, r, other)
           \/ CreateGroupDies(a, r)
    PROVE  SeatInv'
<1>1. /\ <<a>> \in Seq(Accounts) /\ IsInjective(<<a>>) /\ a \in ToSet(<<a>>)
      /\ members[r] \in Seq(Accounts) /\ IsInjective(members[r])
      /\ members \in [Rooms -> Seq(Accounts)]
  BY FirstRows DEF SeatInv, TypeOK
<1>2. /\ UNCHANGED <<users, stay, invited, lost>> /\ up' \in BOOLEAN
      /\ creator' = [creator EXCEPT ![r] = a]
      /\ lost' \in [Rooms -> SUBSET Accounts]
  BY DEF CreateGroup, CreateGroupDies, Created, accounts, SeatInv, TypeOK
<1>3. ASSUME NEW other \in Accounts \cup {None}, CreateGroup(a, r, other) PROVE SeatInv'
  <2>1. PICK s \in Seq(Accounts) : /\ members' = [members EXCEPT ![r] = s]
                                   /\ IsInjective(s) /\ a \in ToSet(s)
    <3>1. CASE other \in Accounts /\ There(other)
      <4>1. members' = [members EXCEPT ![r] = With(<<a>>, other)]
        BY <1>3, <3>1 DEF CreateGroup, Created
      <4>2. QED
        BY <1>1, <3>1, <4>1, WithFacts
    <3>2. CASE ~(other \in Accounts /\ There(other))
      <4>1. members' = [members EXCEPT ![r] = <<a>>]
        BY <1>3, <3>2 DEF CreateGroup, Created
      <4>2. QED
        BY <1>1, <4>1
    <3>3. QED
      BY <3>1, <3>2
  <2>2. room' = [room EXCEPT ![r] = "made"]
    BY <1>3 DEF CreateGroup, Created
  <2>3. QED
    BY <1>2, <2>1, <2>2, RoomKeepsSeats
<1>4. CASE CreateGroupDies(a, r)
  <2>1. members' = [members EXCEPT ![r] = members[r]] /\ room' = [room EXCEPT ![r] = "half"]
    BY <1>1, <1>4 DEF CreateGroupDies
  <2>2. QED
    BY <1>1, <1>2, <2>1, RoomKeepsSeats
<1>5. QED
  BY <1>3, <1>4

\* Leaving and kicks: the room has another creator or none.
LEMMA RemovalKeepsSeats ==
    ASSUME SeatInv, RoleTypeOK', NEW t \in Accounts, NEW r \in Rooms, RemoveMembership(t, r),
           UNCHANGED <<users, stay, room, invited, up>>
    PROVE  SeatInv'
<1> DEFINE s == Without(members[r], t)
           c == IF creator[r] = t THEN None ELSE creator[r]
<1>1. /\ members[r] \in Seq(Accounts) /\ IsInjective(members[r])
      /\ creator \in [Rooms -> Accounts \cup {None}] /\ up \in BOOLEAN
      /\ room \in [Rooms -> {"unmade", "made", "half", "deleted"}]
      /\ lost \in [Rooms -> SUBSET Accounts]
  BY DEF SeatInv, TypeOK
<1>2. s \in Seq(Accounts) /\ IsInjective(s) /\ \A b \in ToSet(members[r]) \ {t} : b \in ToSet(s)
  BY <1>1, WithoutFacts
<1>3. members' = [members EXCEPT ![r] = s] /\ creator' = [creator EXCEPT ![r] = c]
  BY <1>1 DEF RemoveMembership, CreatorWithout
<1>4. lost' \in [Rooms -> SUBSET Accounts]
  BY <1>1 DEF RemoveMembership
<1> HIDE DEF s
<1>5. room[r] = "made" /\ c # None =>
         c \in ToSet(s) \/ (c \in Guests /\ stay[c] \in {"removed", "purged"})
  BY <1>1, <1>2 DEF SeatInv, CreatorsAreSeated, Seated
<1>6. c \in Accounts \cup {None} /\ room' = [room EXCEPT ![r] = room[r]]
  BY <1>1
<1>7. QED
  BY <1>1, <1>2, <1>3, <1>4, <1>5, <1>6, RoomKeepsSeats

LEMMA RoomStepKeepsSeats ==
    ASSUME SeatInv, RoleTypeOK', RoomStep
    PROVE  SeatInv'
<1> PICK a \in Accounts, r \in Rooms :
        \/ \E other \in Accounts \cup {None} : CreateGroup(a, r, other)
        \/ CreateGroupDies(a, r)
        \/ \E t \in Accounts : AddMember(a, t, r) \/ Kick(a, t, r)
        \/ Leave(a, r) \/ DeleteGroup(a, r)
  BY DEF RoomStep
<1>1. ASSUME NEW t \in Accounts, AddMember(a, t, r) PROVE SeatInv'
  <2>1. /\ members \in [Rooms -> Seq(Accounts)] /\ \A q \in Rooms : IsInjective(members[q])
        /\ stay \in [Guests -> {"free", "waiting", "admitted", "removed", "purged"}]
        /\ users \in Seq(Accounts) /\ invited \subseteq Rooms /\ up \in BOOLEAN
    BY DEF SeatInv, TypeOK
  <2>2. /\ members' = [members EXCEPT ![r] = With(members[r], t)]
        /\ UNCHANGED <<users, stay, room, creator, invited, up, lost>>
    BY <1>1 DEF AddMember, Added, accounts
  <2>3. /\ With(members[r], t) \in Seq(Accounts) /\ IsInjective(With(members[r], t))
        /\ \A b \in ToSet(members[r]) : b \in ToSet(With(members[r], t))
    BY <2>1, WithFacts
  <2>4. \A q \in Rooms : \A b \in Accounts : Seated(b, q) => Seated(b, q)'
    BY <2>1, <2>2, <2>3 DEF Seated
  <2>5. members' \in [Rooms -> Seq(Accounts)] /\ \A q \in Rooms : IsInjective(members'[q])
    BY <2>1, <2>2, <2>3
  <2>6. QED
    BY <2>1, <2>2, <2>4, <2>5, SeatsKept
<1>2. ASSUME NEW t \in Accounts, Kick(a, t, r) \/ (t = a /\ Leave(a, r)) PROVE SeatInv'
  <2>1. RemoveMembership(t, r) /\ UNCHANGED <<users, stay, room, invited, up>>
    BY <1>2 DEF Kick, Leave, Removed, accounts
  <2>2. QED
    BY <2>1, RemovalKeepsSeats
<1>3. CASE DeleteGroup(a, r)
  <2>1. /\ UNCHANGED <<users, stay, invited, lost>> /\ up' \in BOOLEAN
        /\ room' = [room EXCEPT ![r] = "deleted"]
        /\ members' = [members EXCEPT ![r] = <<>>]
        /\ creator' = [creator EXCEPT ![r] = None]
        /\ lost' \in [Rooms -> SUBSET Accounts]
    BY <1>3 DEF DeleteGroup, Deleted, accounts, SeatInv, TypeOK
  <2>2. <<>> \in Seq(Accounts) /\ IsInjective(<<>>)
    BY FirstRows
  <2>3. QED
    BY <2>1, <2>2, RoomKeepsSeats
<1>4. QED
  BY <1>1, <1>2, <1>3, CreateGroupKeepsSeats

LEMMA GuestStepKeepsSeats ==
    ASSUME SeatInv, RoleTypeOK', GuestStep
    PROVE  SeatInv'
<1>1. /\ members \in [Rooms -> Seq(Accounts)] /\ \A r \in Rooms : IsInjective(members[r])
      /\ stay \in [Guests -> {"free", "waiting", "admitted", "removed", "purged"}]
      /\ users \in Seq(Accounts) /\ invited \subseteq Rooms /\ up \in BOOLEAN
  BY DEF SeatInv, TypeOK
<1>2. ASSUME NEW a \in Accounts, NEW R \in SUBSET Rooms, Invite(a, R) PROVE SeatInv'
  <2>1. UNCHANGED <<users, stay, room, members, creator, up, lost>> /\ invited' = invited \cup R
    BY <1>2 DEF Invite, accounts, rooms
  <2>2. \A r \in Rooms : \A b \in Accounts : Seated(b, r) => Seated(b, r)'
    BY <2>1 DEF Seated
  <2>3. QED
    BY <1>1, <2>1, <2>2, SeatsKept
<1>3. ASSUME NEW g \in Guests, GuestJoins(g) PROVE SeatInv'
  <2>1. /\ UNCHANGED <<room, members, creator, invited, up, lost>> /\ stay[g] = "free"
        /\ users' = Append(users, g) /\ stay' = [stay EXCEPT ![g] = "waiting"]
    BY <1>3 DEF GuestJoins, rooms
  <2>2. users' \in Seq(Accounts)
    BY <1>1, <2>1 DEF Accounts
  <2>3. \A r \in Rooms : \A b \in Accounts : Seated(b, r) => Seated(b, r)'
    BY <2>1 DEF Seated
  <2>4. QED
    BY <1>1, <2>1, <2>2, <2>3, SeatsKept
<1>4. ASSUME NEW a \in Accounts, NEW g \in Guests, NEW R \in SUBSET Rooms, Admit(a, g, R)
      PROVE  SeatInv'
  <2>1. /\ UNCHANGED <<users, room, creator, invited, up, lost>> /\ stay[g] = "waiting"
        /\ stay' = [stay EXCEPT ![g] = "admitted"]
        /\ members' = [r \in Rooms |-> IF r \in R THEN With(members[r], g) ELSE members[r]]
    BY <1>4 DEF Admit
  <2>2. g \in Accounts
    BY DEF Accounts
  <2>3. ASSUME NEW r \in Rooms
        PROVE  /\ members'[r] \in Seq(Accounts) /\ IsInjective(members'[r])
               /\ \A b \in ToSet(members[r]) : b \in ToSet(members'[r])
    BY <1>1, <2>1, <2>2, WithFacts
  <2>4. members' \in [Rooms -> Seq(Accounts)] /\ \A r \in Rooms : IsInjective(members'[r])
    BY <2>1, <2>3
  <2>5. \A r \in Rooms : \A b \in Accounts : Seated(b, r) => Seated(b, r)'
    BY <2>3 DEF Seated
  <2>6. QED
    BY <1>1, <2>1, <2>4, <2>5, SeatsKept
<1>5. ASSUME NEW g \in Guests, Retire(g) \/ \E a \in Accounts : Purge(a, g) PROVE SeatInv'
  <2>1. /\ UNCHANGED <<room, creator, invited, up, lost>>
        /\ stay[g] \in {"waiting", "admitted"}
        /\ \/ stay' = [stay EXCEPT ![g] = "removed"]
           \/ stay' = [stay EXCEPT ![g] = "purged"]
        /\ members' = [r \in Rooms |-> Without(members[r], g)]
        /\ users' = users \/ users' = Without(users, g)
    BY <1>5 DEF Retire, Purge, Unseats
  <2>2. users' \in Seq(Accounts)
    BY <1>1, <2>1, WithoutInSeq
  <2>3. ASSUME NEW r \in Rooms
        PROVE  /\ members'[r] \in Seq(Accounts) /\ IsInjective(members'[r])
               /\ \A b \in ToSet(members[r]) \ {g} : b \in ToSet(members'[r])
    BY <1>1, <2>1, WithoutFacts
  <2>4. members' \in [Rooms -> Seq(Accounts)] /\ \A r \in Rooms : IsInjective(members'[r])
    BY <2>1, <2>3
  <2>5. /\ stay' \in [Guests -> {"free", "waiting", "admitted", "removed", "purged"}]
        /\ \A h \in Guests : stay[h] \in {"removed", "purged"} => stay'[h] = stay[h]
        /\ stay'[g] \in {"removed", "purged"}
    BY <1>1, <2>1
  <2>6. \A r \in Rooms : \A b \in Accounts :
            Seated(b, r) => Seated(b, r)' \/ (b \in Guests /\ stay'[b] \in {"removed", "purged"})
    BY <2>3, <2>5 DEF Seated
  <2>7. QED
    BY <1>1, <2>1, <2>2, <2>4, <2>5, <2>6, SeatsKept
<1>6. QED
  BY <1>2, <1>3, <1>4, <1>5 DEF GuestStep

LEMMA SeatInvInit == Init => SeatInv
<1> SUFFICES ASSUME Init PROVE SeatInv
  OBVIOUS
<1>1. users \in Seq(Accounts)
  <2>1. Legacy \in Seq(Accounts) /\ <<>> \in Seq(Accounts)
    BY LegacyAssumption DEF Accounts
  <2>2. QED
    BY <2>1 DEF Init
<1>2. <<>> \in Seq(Accounts) /\ IsInjective(<<>>)
  BY DEF IsInjective
<1>3. RoleTypeOK
  BY RoleInvInit DEF RoleInv
<1>4. TypeOK
  BY <1>1, <1>2, <1>3 DEF Init, TypeOK, RoleTypeOK
<1>5. CreatorsAreSeated
  BY DEF Init, CreatorsAreSeated
<1>6. QED
  BY <1>4, <1>5 DEF SeatInv

LEMMA SeatInvStep == RoleInv /\ RoleInv' /\ SeatInv /\ [Next]_vars => SeatInv'
<1> SUFFICES ASSUME RoleInv, RoleTypeOK', SeatInv, [Next]_vars PROVE SeatInv'
  BY DEF RoleInv
<1>1. /\ members \in [Rooms -> Seq(Accounts)] /\ \A r \in Rooms : IsInjective(members[r])
      /\ stay \in [Guests -> {"free", "waiting", "admitted", "removed", "purged"}]
      /\ users \in Seq(Accounts) /\ invited \subseteq Rooms /\ up \in BOOLEAN
  BY DEF SeatInv, TypeOK
\* Steps on accounts and on the command alone.
<1>2. ASSUME users' \in Seq(Accounts), up' \in BOOLEAN,
             UNCHANGED <<stay, room, members, creator, invited, lost>>
      PROVE  SeatInv'
  <2>1. \A r \in Rooms : \A b \in Accounts : Seated(b, r) => Seated(b, r)'
    BY <1>2 DEF Seated
  <2>2. QED
    BY <1>1, <1>2, <2>1, SeatsKept
<1>3. CASE Starts \/ \E n \in Accounts : CommandOpens(n)
  <2>1. Mends /\ up' \in BOOLEAN /\ UNCHANGED <<users, stay, room, members, invited, lost>>
    BY <1>1, <1>3 DEF Starts, CommandOpens
  <2>2. QED
    BY <2>1, MendsSeats
<1>4. CASE Dies \/ CommandSeats \/ UNCHANGED vars
  <2>1. users' = users /\ up' \in BOOLEAN /\ UNCHANGED <<stay, room, members, creator, invited, lost>>
    BY <1>1, <1>4 DEF Dies, CommandSeats, vars, accounts, rooms
  <2>2. QED
    BY <1>1, <1>2, <2>1
<1>5. CASE CommandApplies
  <2>1. command.name \in Accounts
    BY <1>5 DEF CommandApplies, RoleInv, CommandIsNamed, Accounts
  <2>2. /\ users' = users \/ users' = Append(users, command.name)
        /\ UNCHANGED <<stay, up, room, members, creator, invited, lost>>
    BY <1>5 DEF CommandApplies, rooms
  <2>3. users' \in Seq(Accounts)
    BY <1>1, <2>1, <2>2
  <2>4. QED
    BY <1>1, <1>2, <2>2, <2>3
<1>6. CASE AccountStep
  <2>1. /\ users' = users \/ \E n \in Names : users' = Append(users, n)
        /\ UNCHANGED <<stay, up, room, members, creator, invited, lost>>
    BY <1>6 DEF AccountStep, Register, SetRole, rooms
  <2>2. users' \in Seq(Accounts)
    BY <1>1, <2>1 DEF Accounts
  <2>3. QED
    BY <1>1, <1>2, <2>1, <2>2
<1>7. QED
  BY <1>3, <1>4, <1>5, <1>6, GuestStepKeepsSeats, RoomStepKeepsSeats DEF Next, CommandStep

\* Rows keep their types and the creators of rooms their seats: with RolesHold,
\* for the command appends the name it was given to the users.
THEOREM SeatsHold == Spec => []SeatInv
<1>1. Init => SeatInv
  BY SeatInvInit
<1>2. RoleInv /\ RoleInv' /\ SeatInv /\ [Next]_vars => SeatInv'
  BY SeatInvStep
<1>3. QED
  BY <1>1, <1>2, RolesHold, PTL DEF Spec

\* Every table holds what its columns may, and nobody sits in a room twice, whatever
\* was registered, joined, deleted or mended.
THEOREM TypeCorrect == Spec => []TypeOK
<1>1. SeatInv => TypeOK
  BY DEF SeatInv
<1>2. QED
  BY <1>1, SeatsHold, PTL

\* Whoever is down as the creator of a room is in it, whoever left, was kicked
\* or was put in again, and whatever the backfill made of it.
THEOREM CreatorsSit == Spec => []CreatorsAreSeated
<1>1. SeatInv => CreatorsAreSeated
  BY DEF SeatInv
<1>2. QED
  BY <1>1, SeatsHold, PTL

=============================================================================
