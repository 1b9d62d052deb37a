--------------------------- MODULE HistoryProofs ----------------------------
(***************************************************************************)
(* Proofs about History, for any members, guests, groups and any number of *)
(* messages.                                                               *)
(*                                                                         *)
(* The code orders messages by id, the properties by when they were        *)
(* posted.  That the two orders are one, and that no watermark is above    *)
(* the last id given, is what the next message's place depends on.         *)
(***************************************************************************)
EXTENDS History, TLAPS, WellFoundedInduction

\* Ids are given in the order of posting, whatever was deleted in between.
IdsFollowPosting == \A m \in messages : m.id = m.nth /\ m.id <= lastId

\* No watermark is above the last id.
WatermarksAreOld ==
    /\ \A u \in Users, r \in Groups : mark[u][r] <= lastId
    /\ \A g \in Guests : since[g] <= lastId
    /\ \A g \in Guests, r \in Groups : cut[g][r] <= lastId

\* A group that is not there has nobody and nothing in it.
OnlyLiveGroupsAreUsed ==
    \A r \in Groups : ~Live(r) => members[r] = {} /\ In(r) = {}

\* Nothing is new to somebody who is not in the room.
NothingNewOutside ==
    \A u \in Users, r \in Groups : u \notin members[r] => fresh[u][r] = {}

\* To a member the new messages are those above the two watermarks.
NewIsAbove ==
    \A r \in Groups : \A u \in members[r], m \in In(r) :
        m.nth \in fresh[u][r] <=> m.id > Above(mark[u][r], CutOf(u, r))

\* Only the making of a group seats a guest who is not admitted; that row has no
\* cut, nor has a row that is not there.
SeatsBeforeAdmission ==
    \A g \in Guests, r \in Groups :
        /\ r \in early[g] => g \in members[r] /\ cut[g][r] = 0
        /\ g \in members[r] /\ ~Served(g) => r \in early[g]
        /\ g \notin members[r] => cut[g][r] = 0

\* For a guest in any other room the cut and the moment of admission agree.
CutIsAdmission ==
    \A r \in Groups, g \in Guests : g \in members[r] /\ Served(g) /\ r \notin early[g] =>
        \A m \in In(r) : m.id > cut[g][r] <=> m.nth > since[g]

HistoryInv ==
    /\ TypeOK
    /\ IdsFollowPosting
    /\ WatermarksAreOld
    /\ OnlyLiveGroupsAreUsed
    /\ NothingNewOutside
    /\ NewIsAbove
    /\ SeatsBeforeAdmission
    /\ CutIsAdmission

-----------------------------------------------------------------------------
(* What the helpers return.                                                *)

\* MaxId is at or above every id of the messages, and is one of them or 0.
LEMMA MaxIdIsHighest ==
    ASSUME NEW b \in Nat, NEW M, \A m \in M : m.id \in 0..b
    PROVE  /\ MaxId(M) \in 0..b
           /\ \A m \in M : m.id <= MaxId(M)
<1>1. CASE M = {}
  BY <1>1 DEF MaxId
<1>2. CASE M # {}
  <2> DEFINE below == {b - m.id : m \in M}
  <2>1. below \subseteq Nat /\ below # {}
    BY <1>2
  <2>2. PICK x \in below : \A y \in below : <<y, x>> \notin OpToRel(<, Nat)
    BY <2>1, NatLessThanWellFounded, WFMin
  <2>3. \A y \in below : ~(y < x)
    BY <2>1, <2>2 DEF OpToRel
  <2>4. PICK top \in M : x = b - top.id
    OBVIOUS
  <2>5. \A n \in M : n.id <= top.id
    <3>1. SUFFICES ASSUME NEW n \in M PROVE n.id <= top.id
      OBVIOUS
    <3>2. ~(b - n.id < b - top.id)
      BY <2>3, <2>4
    <3> QED
      BY <3>2
  <2>6. \E m \in M : \A n \in M : n.id <= m.id
    BY <2>5
  <2> DEFINE highest == CHOOSE m \in M : \A n \in M : n.id <= m.id
  <2>7. highest \in M /\ \A n \in M : n.id <= highest.id
    BY <2>6
  <2>8. MaxId(M) = highest.id
    BY <1>2 DEF MaxId
  <2> QED
    BY <2>7, <2>8
<1> QED
  BY <1>1, <1>2

\* A message's parts have their types.
LEMMA MessagesAreTyped ==
    ASSUME TypeOK, NEW m \in messages
    PROVE  /\ m.id \in 1..MaxMessages /\ m.nth \in 1..MaxMessages
           /\ m.room \in Groups /\ m.sender \in Users \cup {System}
           /\ m.deleted \in BOOLEAN
  BY DEF TypeOK, Message

\* The highest id in a room is no higher than the last one given.
LEMMA RoomMaxIsOld ==
    ASSUME TypeOK, IdsFollowPosting, NEW r \in Groups
    PROVE  /\ MaxId(In(r)) \in 0..lastId
           /\ MaxId(In(r)) \in 0..MaxMessages
           /\ \A m \in In(r) : m.id <= MaxId(In(r))
<1>1. lastId \in Nat /\ lastId <= MaxMessages /\ MaxMessages \in Nat
  BY HistoryAssumption DEF TypeOK
<1>2. \A m \in In(r) : m.id \in 0..lastId
  BY <1>1, MessagesAreTyped, HistoryAssumption DEF In, IdsFollowPosting
<1>3. /\ MaxId(In(r)) \in 0..lastId
      /\ \A m \in In(r) : m.id <= MaxId(In(r))
  BY <1>1, <1>2, MaxIdIsHighest
<1> QED
  BY <1>1, <1>3

-----------------------------------------------------------------------------
(* Each action keeps the invariant.                                        *)

LEMMA InitHolds == Init => HistoryInv
<1> SUFFICES ASSUME Init PROVE HistoryInv
  OBVIOUS
<1>1. TypeOK
  BY HistoryAssumption DEF Init, TypeOK, Message
<1>2. IdsFollowPosting /\ OnlyLiveGroupsAreUsed /\ NothingNewOutside
  BY DEF Init, IdsFollowPosting, OnlyLiveGroupsAreUsed, NothingNewOutside, Live, In
<1>3. WatermarksAreOld
  BY DEF Init, WatermarksAreOld
<1>4. NewIsAbove /\ SeatsBeforeAdmission /\ CutIsAdmission
  BY DEF Init, NewIsAbove, SeatsBeforeAdmission, CutIsAdmission, In
<1> QED
  BY <1>1, <1>2, <1>3, <1>4 DEF HistoryInv

\* A new group is empty, so that nothing in it is above or below a watermark.
LEMMA CreatingKeeps ==
    ASSUME HistoryInv, NEW r \in Groups, NEW u \in Members, NEW S \in SUBSET Users,
           CreateGroup(r, u, S)
    PROVE  HistoryInv'
<1> USE DEF CreateGroup
<1>1. TypeOK'
  BY DEF HistoryInv, TypeOK, Users
<1>2. \A q \in Groups : In(q)' = In(q)
  BY DEF In
<1>3. In(r) = {} /\ members[r] = {}
  BY DEF HistoryInv, OnlyLiveGroupsAreUsed, Live
<1>4. IdsFollowPosting' /\ WatermarksAreOld'
  BY DEF HistoryInv, IdsFollowPosting, WatermarksAreOld
<1>5. OnlyLiveGroupsAreUsed'
  BY <1>2 DEF HistoryInv, TypeOK, OnlyLiveGroupsAreUsed, Live
<1>6. NothingNewOutside'
  BY <1>3 DEF HistoryInv, TypeOK, NothingNewOutside
<1>7. NewIsAbove'
  BY <1>2, <1>3 DEF HistoryInv, TypeOK, NewIsAbove, CutOf
<1>8. \A g \in Guests, q \in Groups :
        /\ q \in early'[g] <=> q \in early[g] \/ (q = r /\ g \in members'[r] /\ ~Served(g))
        /\ g \in members'[q] <=> IF q = r THEN g \in S ELSE g \in members[q]
        /\ Served(g)' = Served(g)
  BY HistoryAssumption DEF HistoryInv, TypeOK, Served
<1>9. SeatsBeforeAdmission'
  BY <1>3, <1>8 DEF HistoryInv, SeatsBeforeAdmission
<1>10. CutIsAdmission'
  BY <1>2, <1>3, <1>8 DEF HistoryInv, CutIsAdmission
<1> QED
  BY <1>1, <1>4, <1>5, <1>6, <1>7, <1>9, <1>10 DEF HistoryInv

\* The next message is above every watermark, and new to whoever is there.
LEMMA PostingKeeps ==
    ASSUME HistoryInv, NEW r \in Groups, NEW sender \in Users \cup {System},
           Live(r), Insert(r, sender)
    PROVE  HistoryInv'
<1> USE DEF Insert, placeVars
<1> DEFINE new == [id |-> NextId, nth |-> lastId + 1, room |-> r, sender |-> sender,
                   deleted |-> FALSE]
<1>0. /\ lastId \in Nat /\ MaxMessages \in Nat /\ lastId < MaxMessages
      /\ new.id = lastId + 1 /\ new.nth = lastId + 1 /\ new.room = r
      /\ messages' = messages \cup {new}
  BY HistoryAssumption DEF HistoryInv, TypeOK, NextId
<1>1. TypeOK'
  <2>1. new \in Message
    BY <1>0 DEF Message, NextId
  <2>2. messages' \subseteq Message
    BY <1>0, <2>1 DEF HistoryInv, TypeOK
  <2>3. lastId' \in 0..MaxMessages
    BY <1>0
  <2>4. fresh' \in [Users -> [Groups -> SUBSET (1..MaxMessages)]]
    BY <1>0 DEF HistoryInv, TypeOK
  <2> QED
    BY <2>2, <2>3, <2>4 DEF HistoryInv, TypeOK
<1>2. \A q \in Groups : In(q)' = IF q = r THEN In(q) \cup {new} ELSE In(q)
  BY <1>0 DEF In
<1>3. \A m \in messages : m.id = m.nth /\ m.id \in 1..lastId
  BY <1>0, MessagesAreTyped DEF HistoryInv, IdsFollowPosting
<1>4. IdsFollowPosting'
  BY <1>0, <1>3 DEF IdsFollowPosting
<1>5. WatermarksAreOld'
  BY <1>0 DEF HistoryInv, TypeOK, WatermarksAreOld
<1>6. OnlyLiveGroupsAreUsed'
  BY <1>2 DEF HistoryInv, OnlyLiveGroupsAreUsed, Live
<1>7. \A q \in Groups : \A u \in Users :
        fresh'[u][q] = IF u \in members[r] /\ q = r THEN fresh[u][q] \cup {lastId + 1}
                       ELSE fresh[u][q]
  BY DEF HistoryInv, TypeOK
<1>8. NothingNewOutside'
  BY <1>7 DEF HistoryInv, NothingNewOutside
<1>9. NewIsAbove'
  <2>1. SUFFICES ASSUME NEW q \in Groups, NEW u \in members[q], NEW m \in In(q)'
                 PROVE  m.nth \in fresh'[u][q] <=> m.id > Above(mark[u][q], CutOf(u, q))
    BY DEF NewIsAbove, CutOf
  <2>2. u \in Users
    BY DEF HistoryInv, TypeOK
  <2>3. Above(mark[u][q], CutOf(u, q)) \in 0..lastId
    BY <1>0, <2>2 DEF HistoryInv, TypeOK, WatermarksAreOld, Above, CutOf
  <2>4. CASE m \in In(q)
    BY <1>0, <1>3, <1>7, <2>2, <2>4 DEF HistoryInv, NewIsAbove, In
  <2>5. CASE m = new /\ q = r
    <3>1. lastId + 1 \in fresh'[u][q]
      <4> HIDE DEF new, Insert
      <4>1. u \in members[r] /\ q = r
        BY <2>5
      <4> QED
        BY <1>7, <2>2, <4>1
    <3>2. m.id = lastId + 1 /\ m.nth = lastId + 1
      BY <1>0, <2>5
    <3>3. lastId + 1 > Above(mark[u][q], CutOf(u, q))
      BY <1>0, <2>3
    <3> QED
      BY <3>1, <3>2, <3>3
  <2> QED
    BY <1>2, <2>4, <2>5
<1>10. CutIsAdmission'
  <2>1. SUFFICES ASSUME NEW q \in Groups, NEW g \in Guests, g \in members[q], Served(g),
                        q \notin early[g], NEW m \in In(q)'
                 PROVE  m.id > cut[g][q] <=> m.nth > since[g]
    BY DEF CutIsAdmission, Served
  <2>2. CASE m \in In(q)
    BY <2>1, <2>2 DEF HistoryInv, CutIsAdmission
  <2>3. CASE m = new
    <3>1. m.id = lastId + 1 /\ m.nth = lastId + 1
      BY <1>0, <2>3
    <3>2. cut[g][q] \in 0..lastId /\ since[g] \in 0..lastId
      BY <1>0 DEF HistoryInv, TypeOK, WatermarksAreOld
    <3> QED
      BY <1>0, <3>1, <3>2
  <2> QED
    BY <1>2, <2>2, <2>3
<1>11. SeatsBeforeAdmission'
  BY DEF HistoryInv, SeatsBeforeAdmission, Served
<1> QED
  BY <1>1, <1>4, <1>5, <1>6, <1>8, <1>9, <1>10, <1>11 DEF HistoryInv

\* A message elsewhere takes an id, and nothing else.
LEMMA PostingElsewhereKeeps ==
    ASSUME HistoryInv, PostElsewhere
    PROVE  HistoryInv'
<1> USE DEF PostElsewhere, placeVars
<1>0. lastId \in Nat /\ MaxMessages \in Nat
  BY HistoryAssumption DEF HistoryInv, TypeOK
<1>1. TypeOK'
  BY <1>0 DEF HistoryInv, TypeOK
<1>2. \A q \in Groups : In(q)' = In(q)
  BY DEF In
<1>3. IdsFollowPosting'
  BY <1>0, MessagesAreTyped DEF HistoryInv, IdsFollowPosting
<1>4. WatermarksAreOld'
  BY <1>0 DEF HistoryInv, TypeOK, WatermarksAreOld
<1>5. OnlyLiveGroupsAreUsed' /\ NothingNewOutside'
  BY <1>2 DEF HistoryInv, OnlyLiveGroupsAreUsed, NothingNewOutside, Live
<1>6. NewIsAbove' /\ SeatsBeforeAdmission' /\ CutIsAdmission'
  BY <1>2 DEF HistoryInv, NewIsAbove, SeatsBeforeAdmission, CutIsAdmission, CutOf, Served
<1> QED
  BY <1>1, <1>3, <1>4, <1>5, <1>6 DEF HistoryInv

\* Marking a room read leaves nothing in it above the mark.
LEMMA MarkingReads ==
    ASSUME HistoryInv, NEW u \in Users, NEW r \in Groups,
           mark' = Marked(u, r), fresh' = Set(fresh, {u}, r, {})
    PROVE  /\ mark' \in [Users -> [Groups -> 0..MaxMessages]]
           /\ fresh' \in [Users -> [Groups -> SUBSET (1..MaxMessages)]]
           /\ \A v \in Users, q \in Groups :
                /\ mark'[v][q] = IF v = u /\ q = r THEN MaxId(In(r)) ELSE mark[v][q]
                /\ fresh'[v][q] = IF v = u /\ q = r THEN {} ELSE fresh[v][q]
           /\ \A v \in Users, q \in Groups : mark'[v][q] <= lastId
           /\ \A m \in In(r) : ~(m.id > Above(mark'[u][r], CutOf(u, r)))
<1>1. /\ MaxId(In(r)) \in 0..lastId
      /\ MaxId(In(r)) \in 0..MaxMessages
      /\ \A m \in In(r) : m.id <= MaxId(In(r)) /\ m.id \in Nat
  <2>1. TypeOK /\ IdsFollowPosting
    BY DEF HistoryInv
  <2>2. \A m \in In(r) : m.id \in Nat
    BY <2>1, MessagesAreTyped, HistoryAssumption DEF In
  <2> QED
    BY <2>1, <2>2, RoomMaxIsOld
<1>2. mark \in [Users -> [Groups -> 0..MaxMessages]]
  BY DEF HistoryInv, TypeOK
<1>3. fresh \in [Users -> [Groups -> SUBSET (1..MaxMessages)]]
  BY DEF HistoryInv, TypeOK
<1>4. /\ mark' \in [Users -> [Groups -> 0..MaxMessages]]
      /\ \A v \in Users, q \in Groups :
           mark'[v][q] = IF v \in {u} /\ q = r THEN MaxId(In(r)) ELSE mark[v][q]
  BY <1>1, <1>2 DEF Marked, Set
<1>5. /\ fresh' \in [Users -> [Groups -> SUBSET (1..MaxMessages)]]
      /\ \A v \in Users, q \in Groups :
           fresh'[v][q] = IF v \in {u} /\ q = r THEN {} ELSE fresh[v][q]
  <2>1. {} \in SUBSET (1..MaxMessages)
    OBVIOUS
  <2> QED
    BY <1>3, <2>1 DEF Set
<1>6. \A v \in Users, q \in Groups : mark'[v][q] <= lastId
  BY <1>1, <1>4 DEF HistoryInv, WatermarksAreOld
<1>7. \A m \in In(r) : ~(m.id > Above(mark'[u][r], CutOf(u, r)))
  <2>1. CutOf(u, r) \in Nat
    BY HistoryAssumption DEF HistoryInv, TypeOK, CutOf
  <2>2. mark'[u][r] = MaxId(In(r)) /\ MaxId(In(r)) \in Nat
    BY <1>1, <1>4, HistoryAssumption
  <2>3. Above(mark'[u][r], CutOf(u, r)) >= MaxId(In(r))
    BY <2>1, <2>2 DEF Above
  <2>4. Above(mark'[u][r], CutOf(u, r)) \in Nat
    BY <2>1, <2>2 DEF Above
  <2> QED
    BY <1>1, <2>2, <2>3, <2>4
<1> QED
  BY <1>4, <1>5, <1>6, <1>7

\* Reading changes the reader's mark in that room.
LEMMA ReadingKeeps ==
    ASSUME HistoryInv, NEW u \in Users, NEW r \in Groups, Read(u, r)
    PROVE  HistoryInv'
<1> USE DEF placeVars
<1>1. /\ mark' = Marked(u, r) /\ fresh' = Set(fresh, {u}, r, {})
      /\ UNCHANGED <<room, members, guest, messages, lastId, cut, since, early>>
  BY DEF Read
<1>2. /\ mark' \in [Users -> [Groups -> 0..MaxMessages]]
      /\ fresh' \in [Users -> [Groups -> SUBSET (1..MaxMessages)]]
      /\ \A v \in Users, q \in Groups :
           /\ mark'[v][q] = IF v = u /\ q = r THEN MaxId(In(r)) ELSE mark[v][q]
           /\ fresh'[v][q] = IF v = u /\ q = r THEN {} ELSE fresh[v][q]
      /\ \A v \in Users, q \in Groups : mark'[v][q] <= lastId
      /\ \A m \in In(r) : ~(m.id > Above(mark'[u][r], CutOf(u, r)))
  BY <1>1, MarkingReads
<1>3. TypeOK'
  BY <1>1, <1>2 DEF HistoryInv, TypeOK
<1>4. \A q \in Groups : In(q)' = In(q)
  BY <1>1 DEF In
<1>5. IdsFollowPosting' /\ WatermarksAreOld'
  BY <1>1, <1>2 DEF HistoryInv, IdsFollowPosting, WatermarksAreOld
<1>6. OnlyLiveGroupsAreUsed' /\ SeatsBeforeAdmission' /\ CutIsAdmission'
  BY <1>1, <1>4 DEF HistoryInv, OnlyLiveGroupsAreUsed, SeatsBeforeAdmission, CutIsAdmission,
     Live, Served
<1>7. NothingNewOutside'
  BY <1>1, <1>2 DEF HistoryInv, NothingNewOutside
<1>8. NewIsAbove'
  <2>1. SUFFICES ASSUME NEW q \in Groups, NEW v \in members[q], NEW m \in In(q)
                 PROVE  m.nth \in fresh'[v][q] <=> m.id > Above(mark'[v][q], CutOf(v, q))
    BY <1>1, <1>4 DEF NewIsAbove, CutOf
  <2>2. v \in Users
    BY DEF HistoryInv, TypeOK
  <2>3. CASE v = u /\ q = r
    BY <1>2, <2>2, <2>3
  <2>4. CASE ~(v = u /\ q = r)
    BY <1>2, <2>2, <2>4 DEF HistoryInv, NewIsAbove
  <2> QED
    BY <2>3, <2>4
<1> QED
  BY <1>3, <1>5, <1>6, <1>7, <1>8 DEF HistoryInv

\* A tombstone has the id and the place of the message it is left of.
LEMMA UnsendingKeeps ==
    ASSUME HistoryInv, NEW u \in Users, NEW m \in messages, Unsend(u, m)
    PROVE  HistoryInv'
<1> DEFINE tombstone == [m EXCEPT !.deleted = TRUE]
<1>1. /\ messages' = (messages \ {m}) \cup {tombstone}
      /\ UNCHANGED <<room, members, guest, lastId, mark, cut, fresh, since, early>>
  BY DEF Unsend, placeVars
<1>2. /\ tombstone \in Message
      /\ tombstone.id = m.id /\ tombstone.nth = m.nth /\ tombstone.room = m.room
  BY DEF HistoryInv, TypeOK, Message
<1> HIDE DEF tombstone
<1>3. TypeOK'
  BY <1>1, <1>2 DEF HistoryInv, TypeOK
<1>4. \A n \in messages' : \E o \in messages : n.id = o.id /\ n.nth = o.nth /\ n.room = o.room
  BY <1>1, <1>2
<1>5. \A q \in Groups : \A n \in In(q)' : \E o \in In(q) : n.id = o.id /\ n.nth = o.nth
  BY <1>4 DEF In
<1>6. IdsFollowPosting' /\ WatermarksAreOld'
  BY <1>1, <1>4 DEF HistoryInv, IdsFollowPosting, WatermarksAreOld
<1>7. OnlyLiveGroupsAreUsed' /\ NothingNewOutside'
  BY <1>1, <1>5 DEF HistoryInv, OnlyLiveGroupsAreUsed, NothingNewOutside, Live
<1>8. NewIsAbove'
  BY <1>1, <1>5 DEF HistoryInv, NewIsAbove, CutOf
<1>9. SeatsBeforeAdmission' /\ CutIsAdmission'
  BY <1>1, <1>5 DEF HistoryInv, SeatsBeforeAdmission, CutIsAdmission, Served
<1> QED
  BY <1>3, <1>6, <1>7, <1>8, <1>9 DEF HistoryInv

\* Whoever is added finds the room read.
LEMMA AddingKeeps ==
    ASSUME HistoryInv, NEW r \in Groups, NEW u \in Members, AddMember(r, u)
    PROVE  HistoryInv'
<1>1. /\ members[r] # {} /\ members' = [members EXCEPT ![r] = @ \cup {u}]
      /\ mark' = Marked(u, r) /\ fresh' = Set(fresh, {u}, r, {})
      /\ UNCHANGED <<room, guest, messages, lastId, cut, since, early>>
      /\ u \in Users /\ u \notin Guests
  BY HistoryAssumption DEF AddMember, MarkAdded, Users
<1>2. /\ mark' \in [Users -> [Groups -> 0..MaxMessages]]
      /\ fresh' \in [Users -> [Groups -> SUBSET (1..MaxMessages)]]
      /\ \A v \in Users, q \in Groups :
           /\ mark'[v][q] = IF v = u /\ q = r THEN MaxId(In(r)) ELSE mark[v][q]
           /\ fresh'[v][q] = IF v = u /\ q = r THEN {} ELSE fresh[v][q]
      /\ \A v \in Users, q \in Groups : mark'[v][q] <= lastId
      /\ \A m \in In(r) : ~(m.id > Above(mark'[u][r], CutOf(u, r)))
  BY <1>1, MarkingReads
<1>3. \A q \in Groups : members'[q] = IF q = r THEN members[q] \cup {u} ELSE members[q]
  BY <1>1 DEF HistoryInv, TypeOK
<1>4. TypeOK'
  BY <1>1, <1>2 DEF HistoryInv, TypeOK
<1>5. \A q \in Groups : In(q)' = In(q)
  BY <1>1 DEF In
<1>6. IdsFollowPosting' /\ WatermarksAreOld'
  BY <1>1, <1>2 DEF HistoryInv, IdsFollowPosting, WatermarksAreOld
<1>7. OnlyLiveGroupsAreUsed'
  BY <1>1, <1>3, <1>5 DEF HistoryInv, OnlyLiveGroupsAreUsed, Live
<1>8. NothingNewOutside'
  BY <1>2, <1>3 DEF HistoryInv, NothingNewOutside
<1>9. SeatsBeforeAdmission' /\ CutIsAdmission'
  BY <1>1, <1>3, <1>5 DEF HistoryInv, SeatsBeforeAdmission, CutIsAdmission, Served
<1>10. NewIsAbove'
  <2>1. SUFFICES ASSUME NEW q \in Groups, NEW v \in members'[q], NEW m \in In(q)
                 PROVE  m.nth \in fresh'[v][q] <=> m.id > Above(mark'[v][q], CutOf(v, q))
    BY <1>1, <1>5 DEF NewIsAbove, CutOf
  <2>2. v \in Users
    BY <1>4 DEF TypeOK
  <2>3. CASE v = u /\ q = r
    BY <1>2, <2>2, <2>3
  <2>4. CASE ~(v = u /\ q = r)
    <3>1. v \in members[q]
      BY <1>3, <2>2, <2>4
    <3>2. mark'[v][q] = mark[v][q] /\ fresh'[v][q] = fresh[v][q]
      BY <1>2, <2>2, <2>4
    <3> QED
      BY <3>1, <3>2 DEF HistoryInv, NewIsAbove
  <2> QED
    BY <2>3, <2>4
<1> QED
  BY <1>4, <1>6, <1>7, <1>8, <1>9, <1>10 DEF HistoryInv

\* Who is put out of rooms takes along what was new there and the watermarks.
LEMMA OutWrites ==
    ASSUME TypeOK, NEW u \in Users, NEW R \in SUBSET Groups, Out(u, R)
    PROVE  /\ members' \in [Groups -> SUBSET Users]
           /\ fresh' \in [Users -> [Groups -> SUBSET (1..MaxMessages)]]
           /\ cut' \in [Guests -> [Groups -> 0..MaxMessages]]
           /\ early' \in [Guests -> SUBSET Groups]
           /\ \A q \in Groups :
                members'[q] = IF q \in R THEN members[q] \ {u} ELSE members[q]
           /\ \A v \in Users, q \in Groups :
                fresh'[v][q] = IF v = u /\ q \in R THEN {} ELSE fresh[v][q]
           /\ \A g \in Guests, q \in Groups :
                /\ cut'[g][q] = IF g = u /\ q \in R THEN 0 ELSE cut[g][q]
                /\ q \in early'[g] <=> q \in early[g] /\ ~(g = u /\ q \in R)
<1> USE DEF Out
<1>1. /\ members' \in [Groups -> SUBSET Users]
      /\ \A q \in Groups :
           members'[q] = IF q \in R THEN members[q] \ {u} ELSE members[q]
  BY DEF TypeOK
<1>2. /\ fresh' \in [Users -> [Groups -> SUBSET (1..MaxMessages)]]
      /\ \A v \in Users, q \in Groups :
           fresh'[v][q] = IF v = u /\ q \in R THEN {} ELSE fresh[v][q]
  BY DEF TypeOK
<1>3. 0 \in 0..MaxMessages
  BY HistoryAssumption
<1>4. /\ cut' \in [Guests -> [Groups -> 0..MaxMessages]]
      /\ \A g \in Guests, q \in Groups :
           cut'[g][q] = IF g = u /\ q \in R THEN 0 ELSE cut[g][q]
  <2>1. CASE u \in Guests
    <3>1. cut' = [cut EXCEPT ![u] = [q \in Groups |-> IF q \in R THEN 0 ELSE @[q]]]
      BY <2>1
    <3>2. cut \in [Guests -> [Groups -> 0..MaxMessages]]
      BY DEF TypeOK
    <3> HIDE DEF Out
    <3> QED
      BY <1>3, <2>1, <3>1, <3>2
  <2>2. CASE u \notin Guests
    BY <2>2 DEF TypeOK
  <2> QED
    BY <2>1, <2>2
<1>5. /\ early' \in [Guests -> SUBSET Groups]
      /\ \A g \in Guests, q \in Groups :
           q \in early'[g] <=> q \in early[g] /\ ~(g = u /\ q \in R)
  <2>1. CASE u \in Guests
    <3>1. early' = [early EXCEPT ![u] = @ \ R]
      BY <2>1
    <3>2. early \in [Guests -> SUBSET Groups]
      BY DEF TypeOK
    <3> HIDE DEF Out
    <3> QED
      BY <2>1, <3>1, <3>2
  <2>2. CASE u \notin Guests
    BY <2>2 DEF TypeOK
  <2> QED
    BY <2>1, <2>2
<1> QED
  BY <1>1, <1>2, <1>4, <1>5

\* A leave, a kick, a retirement and a purge: messages may go too, and the marks
\* of who is gone from everywhere.
LEMMA LeavingKeeps ==
    ASSUME HistoryInv, NEW u \in Users, NEW R \in SUBSET Groups, Out(u, R),
           guest' \in [Guests -> {"waiting", "admitted", "removed", "purged"}],
           \A g \in Guests : guest'[g] = guest[g] \/ (g = u /\ R = Groups),
           messages' \subseteq messages,
           mark' = mark \/ (R = Groups /\ mark' = [mark EXCEPT ![u] = [q \in Groups |-> 0]]),
           UNCHANGED <<room, lastId, since>>
    PROVE  HistoryInv'
<1>1. /\ members' \in [Groups -> SUBSET Users]
      /\ fresh' \in [Users -> [Groups -> SUBSET (1..MaxMessages)]]
      /\ cut' \in [Guests -> [Groups -> 0..MaxMessages]]
      /\ early' \in [Guests -> SUBSET Groups]
      /\ \A q \in Groups :
           members'[q] = IF q \in R THEN members[q] \ {u} ELSE members[q]
      /\ \A v \in Users, q \in Groups :
           fresh'[v][q] = IF v = u /\ q \in R THEN {} ELSE fresh[v][q]
      /\ \A g \in Guests, q \in Groups :
           /\ cut'[g][q] = IF g = u /\ q \in R THEN 0 ELSE cut[g][q]
           /\ q \in early'[g] <=> q \in early[g] /\ ~(g = u /\ q \in R)
  BY OutWrites DEF HistoryInv
<1>2. /\ mark' \in [Users -> [Groups -> 0..MaxMessages]]
      /\ \A v \in Users, q \in Groups :
           /\ mark'[v][q] = mark[v][q] \/ mark'[v][q] = 0
           /\ v # u \/ q \notin R => mark'[v][q] = mark[v][q]
  <2>1. mark \in [Users -> [Groups -> 0..MaxMessages]] /\ 0 \in 0..MaxMessages
    BY HistoryAssumption DEF HistoryInv, TypeOK
  <2>2. CASE mark' = mark
    BY <2>1, <2>2
  <2>3. CASE R = Groups /\ mark' = [mark EXCEPT ![u] = [q \in Groups |-> 0]]
    BY <2>1, <2>3
  <2> QED
    BY <2>2, <2>3
<1>3. TypeOK'
  BY <1>1, <1>2 DEF HistoryInv, TypeOK
<1>4. \A q \in Groups : In(q)' \subseteq In(q)
  BY DEF In
<1>5. lastId \in Nat
  BY HistoryAssumption DEF HistoryInv, TypeOK
<1>6. IdsFollowPosting'
  BY DEF HistoryInv, IdsFollowPosting
<1>7. WatermarksAreOld'
  <2>1. \A v \in Users, q \in Groups : mark'[v][q] <= lastId
    BY <1>2, <1>5 DEF HistoryInv, WatermarksAreOld
  <2>2. \A g \in Guests, q \in Groups : cut'[g][q] <= lastId
    BY <1>1, <1>5 DEF HistoryInv, WatermarksAreOld
  <2> QED
    BY <2>1, <2>2 DEF HistoryInv, WatermarksAreOld
<1>8. OnlyLiveGroupsAreUsed'
  BY <1>1, <1>4 DEF HistoryInv, OnlyLiveGroupsAreUsed, Live
<1>9. NothingNewOutside'
  <2>1. SUFFICES ASSUME NEW v \in Users, NEW q \in Groups, v \notin members'[q]
                 PROVE  fresh'[v][q] = {}
    BY DEF NothingNewOutside
  <2>2. CASE v = u /\ q \in R
    BY <1>1, <2>2
  <2>3. CASE ~(v = u /\ q \in R)
    <3>1. v \notin members[q]
      BY <1>1, <2>1, <2>3
    <3>2. fresh'[v][q] = fresh[v][q]
      BY <1>1, <2>3
    <3> QED
      BY <3>1, <3>2 DEF HistoryInv, NothingNewOutside
  <2> QED
    BY <2>2, <2>3
<1>10. \A q \in Groups : \A v \in members'[q] : v \in members[q] /\ v \in Users /\ (v # u \/ q \notin R)
  BY <1>1 DEF HistoryInv, TypeOK
<1>11. NewIsAbove'
  <2>1. SUFFICES ASSUME NEW q \in Groups, NEW v \in members'[q], NEW m \in In(q)'
                 PROVE  m.nth \in fresh'[v][q] <=> m.id > Above(mark'[v][q], CutOf(v, q)')
    BY DEF NewIsAbove
  <2>2. m \in In(q) /\ v \in members[q] /\ v \in Users /\ (v # u \/ q \notin R)
    BY <1>4, <1>10
  <2>3. /\ fresh'[v][q] = fresh[v][q] /\ mark'[v][q] = mark[v][q]
        /\ CutOf(v, q)' = CutOf(v, q)
    BY <1>1, <1>2, <2>2 DEF CutOf
  <2> QED
    BY <2>2, <2>3 DEF HistoryInv, NewIsAbove
<1>12. \A g \in Guests, q \in Groups :
         g \in members'[q] => /\ g \in members[q] /\ ~(g = u /\ q \in R)
                              /\ guest'[g] = guest[g]
  BY <1>1
<1>13. SeatsBeforeAdmission'
  BY <1>1, <1>12 DEF HistoryInv, SeatsBeforeAdmission, Served
<1>14. CutIsAdmission'
  <2>1. SUFFICES ASSUME NEW q \in Groups, NEW g \in Guests, g \in members'[q], Served(g)',
                        q \notin early'[g], NEW m \in In(q)'
                 PROVE  m.id > cut'[g][q] <=> m.nth > since[g]
    BY DEF CutIsAdmission
  <2>2. m \in In(q) /\ g \in members[q] /\ ~(g = u /\ q \in R) /\ guest'[g] = guest[g]
    BY <1>4, <1>12, <2>1
  <2>3. cut'[g][q] = cut[g][q] /\ q \notin early[g] /\ Served(g)
    BY <1>1, <2>1, <2>2 DEF Served
  <2> QED
    BY <2>2, <2>3 DEF HistoryInv, CutIsAdmission
<1> QED
  BY <1>3, <1>6, <1>7, <1>8, <1>9, <1>11, <1>13, <1>14 DEF HistoryInv

LEMMA RemovingKeeps ==
    ASSUME HistoryInv, NEW u \in Users, NEW r \in Groups, RemoveMember(r, u)
    PROVE  HistoryInv'
<1>1. /\ Out(u, {r}) /\ {r} \in SUBSET Groups
      /\ UNCHANGED <<room, guest, messages, lastId, mark, since>>
  BY DEF RemoveMember
<1>2. guest' \in [Guests -> {"waiting", "admitted", "removed", "purged"}]
  BY <1>1 DEF HistoryInv, TypeOK
<1> QED
  BY <1>1, <1>2, LeavingKeeps

LEMMA RetiringKeeps ==
    ASSUME HistoryInv, NEW g \in Guests, Retire(g)
    PROVE  HistoryInv'
<1>1. /\ Out(g, Groups) /\ Groups \in SUBSET Groups /\ g \in Users
      /\ UNCHANGED <<room, messages, lastId, mark, since>>
  BY DEF Retire, Users
<1>2. /\ guest' \in [Guests -> {"waiting", "admitted", "removed", "purged"}]
      /\ \A h \in Guests : guest'[h] = guest[h] \/ h = g
  BY DEF Retire, HistoryInv, TypeOK
<1> QED
  BY <1>1, <1>2, LeavingKeeps

\* The messages of a purged guest go from under the watermarks of the others.
LEMMA PurgingKeeps ==
    ASSUME HistoryInv, NEW g \in Guests, Purge(g)
    PROVE  HistoryInv'
<1>1. /\ Out(g, Groups) /\ Groups \in SUBSET Groups /\ g \in Users
      /\ messages' \subseteq messages
      /\ mark' = [mark EXCEPT ![g] = [q \in Groups |-> 0]]
      /\ UNCHANGED <<room, lastId, since>>
  BY DEF Purge, Users
<1>2. /\ guest' \in [Guests -> {"waiting", "admitted", "removed", "purged"}]
      /\ \A h \in Guests : guest'[h] = guest[h] \/ h = g
  BY DEF Purge, HistoryInv, TypeOK
<1> QED
  BY <1>1, <1>2, LeavingKeeps

\* Nothing of a deleted room stays, and nothing of the others changes.
LEMMA DeletingKeeps ==
    ASSUME HistoryInv, NEW r \in Groups, DeleteRoom(r)
    PROVE  HistoryInv'
<1>1. /\ messages' = messages \ In(r)
      /\ UNCHANGED <<guest, lastId, since>>
  BY DEF DeleteRoom
<1>2. /\ room' \in [Groups -> {"none", "there", "gone"}]
      /\ members' \in [Groups -> SUBSET Users]
      /\ \A q \in Groups :
           /\ members'[q] = IF q = r THEN {} ELSE members[q]
           /\ q # r => room'[q] = room[q]
  BY DEF DeleteRoom, HistoryInv, TypeOK
<1>3. 0 \in 0..MaxMessages /\ lastId \in Nat
  BY HistoryAssumption DEF HistoryInv, TypeOK
<1>4. /\ mark' \in [Users -> [Groups -> 0..MaxMessages]]
      /\ \A u \in Users, q \in Groups : mark'[u][q] = IF q = r THEN 0 ELSE mark[u][q]
  BY <1>3 DEF DeleteRoom, HistoryInv, TypeOK, Set
<1>5. /\ cut' \in [Guests -> [Groups -> 0..MaxMessages]]
      /\ \A g \in Guests, q \in Groups : cut'[g][q] = IF q = r THEN 0 ELSE cut[g][q]
  BY <1>3 DEF DeleteRoom, HistoryInv, TypeOK, Set
<1>6. /\ fresh' \in [Users -> [Groups -> SUBSET (1..MaxMessages)]]
      /\ \A u \in Users, q \in Groups : fresh'[u][q] = IF q = r THEN {} ELSE fresh[u][q]
  BY DEF DeleteRoom, HistoryInv, TypeOK, Set
<1>7. /\ early' \in [Guests -> SUBSET Groups]
      /\ \A g \in Guests, q \in Groups : q \in early'[g] <=> q \in early[g] /\ q # r
  BY DEF DeleteRoom, HistoryInv, TypeOK
<1>8. TypeOK'
  BY <1>1, <1>2, <1>4, <1>5, <1>6, <1>7 DEF HistoryInv, TypeOK
<1>9. \A q \in Groups : In(q)' = IF q = r THEN {} ELSE In(q)
  BY <1>1 DEF In
<1>10. IdsFollowPosting'
  BY <1>1 DEF HistoryInv, IdsFollowPosting
<1>11. WatermarksAreOld'
  <2>1. \A u \in Users, q \in Groups : mark'[u][q] <= lastId
    BY <1>3, <1>4 DEF HistoryInv, WatermarksAreOld
  <2>2. \A g \in Guests, q \in Groups : cut'[g][q] <= lastId
    BY <1>3, <1>5 DEF HistoryInv, WatermarksAreOld
  <2> QED
    BY <1>1, <2>1, <2>2 DEF HistoryInv, WatermarksAreOld
<1>12. OnlyLiveGroupsAreUsed'
  BY <1>2, <1>9 DEF HistoryInv, OnlyLiveGroupsAreUsed, Live
<1>13. NothingNewOutside'
  BY <1>2, <1>6 DEF HistoryInv, NothingNewOutside
<1>14. NewIsAbove'
  <2>1. SUFFICES ASSUME NEW q \in Groups, NEW u \in members'[q], NEW m \in In(q)'
                 PROVE  m.nth \in fresh'[u][q] <=> m.id > Above(mark'[u][q], CutOf(u, q)')
    BY DEF NewIsAbove
  <2>2. q # r /\ m \in In(q) /\ u \in members[q] /\ u \in Users
    BY <1>2, <1>9
  <2>3. /\ fresh'[u][q] = fresh[u][q] /\ mark'[u][q] = mark[u][q]
        /\ CutOf(u, q)' = CutOf(u, q)
    BY <1>4, <1>5, <1>6, <2>2 DEF CutOf
  <2> QED
    BY <2>2, <2>3 DEF HistoryInv, NewIsAbove
<1>15. SeatsBeforeAdmission'
  BY <1>1, <1>2, <1>5, <1>7 DEF HistoryInv, SeatsBeforeAdmission, Served
<1>16. CutIsAdmission'
  BY <1>1, <1>2, <1>5, <1>7, <1>9 DEF HistoryInv, CutIsAdmission, Served
<1> QED
  BY <1>8, <1>10, <1>11, <1>12, <1>13, <1>14, <1>15, <1>16 DEF HistoryInv

\* Where a guest is let in, all that is there is at or below the cut, and was
\* there before; where they sit already, they were seated early.
LEMMA AdmittingKeeps ==
    ASSUME HistoryInv, NEW g \in Guests, NEW R \in SUBSET Groups, Admit(g, R)
    PROVE  HistoryInv'
<1> DEFINE New == {r \in R : g \notin members[r]}
<1>1. /\ UNCHANGED <<room, messages, lastId, mark, fresh, early>>
      /\ \A q \in R : Live(q)
      /\ g \in Users /\ lastId \in Nat /\ lastId \in 0..MaxMessages
  BY HistoryAssumption DEF Admit, Users, HistoryInv, TypeOK
<1>2. /\ guest' \in [Guests -> {"waiting", "admitted", "removed", "purged"}]
      /\ members' \in [Groups -> SUBSET Users]
      /\ \A q \in Groups :
           members'[q] = IF q \in R THEN members[q] \cup {g} ELSE members[q]
  BY <1>1 DEF Admit, HistoryInv, TypeOK
<1>3. \A q \in Groups : /\ MaxId(In(q)) \in 0..lastId
                        /\ MaxId(In(q)) \in 0..MaxMessages
                        /\ \A m \in In(q) : m.id <= MaxId(In(q))
  BY RoomMaxIsOld DEF HistoryInv
<1>4. /\ cut' \in [Guests -> [Groups -> 0..MaxMessages]]
      /\ \A h \in Guests, q \in Groups :
           cut'[h][q] = IF h = g /\ q \in New THEN MaxId(In(q)) ELSE cut[h][q]
  BY <1>3 DEF Admit, AdmitCut, HistoryInv, TypeOK
<1>5. /\ since' \in [Guests -> 0..MaxMessages]
      /\ \A h \in Guests : since'[h] = IF h = g THEN lastId ELSE since[h]
  BY <1>1 DEF Admit, HistoryInv, TypeOK
<1>6. TypeOK'
  BY <1>1, <1>2, <1>4, <1>5 DEF HistoryInv, TypeOK
<1>7. \A q \in Groups : In(q)' = In(q)
  BY <1>1 DEF In
<1>8. IdsFollowPosting'
  BY <1>1 DEF HistoryInv, IdsFollowPosting
<1>9. WatermarksAreOld'
  <2>1. \A h \in Guests, q \in Groups : cut'[h][q] <= lastId
    BY <1>1, <1>3, <1>4 DEF HistoryInv, WatermarksAreOld
  <2>2. \A h \in Guests : since'[h] <= lastId
    BY <1>1, <1>5 DEF HistoryInv, WatermarksAreOld
  <2> QED
    BY <1>1, <2>1, <2>2 DEF HistoryInv, WatermarksAreOld
<1>10. OnlyLiveGroupsAreUsed'
  BY <1>1, <1>2, <1>7 DEF HistoryInv, OnlyLiveGroupsAreUsed, Live
<1>11. NothingNewOutside'
  BY <1>1, <1>2 DEF HistoryInv, NothingNewOutside
<1>12. \A q \in Groups : \A m \in In(q) : m.id = m.nth /\ m.id \in Nat /\ m.id <= lastId
  BY MessagesAreTyped, HistoryAssumption DEF HistoryInv, IdsFollowPosting, In
<1>13. NewIsAbove'
  <2>1. SUFFICES ASSUME NEW q \in Groups, NEW u \in members'[q], NEW m \in In(q)
                 PROVE  m.nth \in fresh[u][q] <=> m.id > Above(mark[u][q], CutOf(u, q)')
    BY <1>1, <1>7 DEF NewIsAbove
  <2>2. CASE u = g /\ q \in New
    <3>1. fresh[u][q] = {}
      BY <1>1, <2>2 DEF HistoryInv, NothingNewOutside
    <3>2. CutOf(u, q)' = MaxId(In(q))
      BY <1>4, <2>2 DEF CutOf
    <3>3. mark[u][q] \in Nat /\ MaxId(In(q)) \in Nat /\ m.id <= MaxId(In(q)) /\ m.id \in Nat
      BY <1>1, <1>3, <1>12, <2>2, HistoryAssumption DEF HistoryInv, TypeOK
    <3>4. ~(m.id > Above(mark[u][q], CutOf(u, q)'))
      BY <3>2, <3>3 DEF Above
    <3> QED
      BY <3>1, <3>4
  <2>3. CASE ~(u = g /\ q \in New)
    <3>1. u \in members[q]
      BY <1>2, <2>3
    <3>2. CutOf(u, q)' = CutOf(u, q)
      BY <1>4, <2>3 DEF CutOf
    <3> QED
      BY <3>1, <3>2 DEF HistoryInv, NewIsAbove
  <2> QED
    BY <2>2, <2>3
<1>14. \A h \in Guests : Served(h)' <=> Served(h) \/ h = g
  BY DEF Admit, HistoryInv, TypeOK, Served
<1>15. ~Served(g)
  BY DEF Admit, Served
<1>16. SeatsBeforeAdmission'
  <2>1. SUFFICES ASSUME NEW h \in Guests, NEW q \in Groups
                 PROVE  /\ q \in early[h] => h \in members'[q] /\ cut'[h][q] = 0
                        /\ h \in members'[q] /\ ~Served(h)' => q \in early[h]
                        /\ h \notin members'[q] => cut'[h][q] = 0
    BY <1>1 DEF SeatsBeforeAdmission
  <2>2. /\ q \in early[h] => h \in members[q] /\ cut[h][q] = 0
        /\ h \in members[q] /\ ~Served(h) => q \in early[h]
        /\ h \notin members[q] => cut[h][q] = 0
    BY DEF HistoryInv, SeatsBeforeAdmission
  <2> QED
    BY <1>2, <1>4, <1>14, <2>2
<1>17. CutIsAdmission'
  <2>1. SUFFICES ASSUME NEW q \in Groups, NEW h \in Guests, h \in members'[q], Served(h)',
                        q \notin early[h], NEW m \in In(q)
                 PROVE  m.id > cut'[h][q] <=> m.nth > since'[h]
    BY <1>1, <1>7 DEF CutIsAdmission
  <2>2. CASE h = g
    <3>1. q \in New
      BY <1>2, <1>15, <2>1, <2>2 DEF HistoryInv, SeatsBeforeAdmission
    <3> QED
      BY <1>1, <1>3, <1>4, <1>5, <1>12, <2>2, <3>1
  <2>3. CASE h # g
    <3>1. h \in members[q] /\ Served(h)
      BY <1>2, <1>14, <2>1, <2>3
    <3>2. cut'[h][q] = cut[h][q] /\ since'[h] = since[h]
      BY <1>4, <1>5, <2>3
    <3> QED
      BY <2>1, <3>1, <3>2 DEF HistoryInv, CutIsAdmission
  <2> QED
    BY <2>2, <2>3
<1> QED
  BY <1>6, <1>8, <1>9, <1>10, <1>11, <1>13, <1>16, <1>17 DEF HistoryInv

-----------------------------------------------------------------------------
(* The theorems.                                                           *)

LEMMA NextKeeps == HistoryInv /\ [Next]_vars => HistoryInv'
<1> SUFFICES ASSUME HistoryInv, [Next]_vars PROVE HistoryInv'
  OBVIOUS
<1>1. ASSUME NEW r \in Groups, NEW u \in Members, NEW S \in SUBSET Users, CreateGroup(r, u, S)
      PROVE  HistoryInv'
  BY <1>1, CreatingKeeps
<1>2. ASSUME NEW r \in Groups, NEW u \in Users, Post(u, r)
      PROVE  HistoryInv'
  <2>1. Live(r)
    BY <1>2 DEF Post, HistoryInv, OnlyLiveGroupsAreUsed
  <2> QED
    BY <1>2, <2>1, PostingKeeps DEF Post
<1>3. ASSUME NEW r \in Groups, NEW u \in Users, Read(u, r)
      PROVE  HistoryInv'
  BY <1>3, ReadingKeeps
<1>4. ASSUME NEW r \in Groups, NEW u \in Users, RemoveMember(r, u)
      PROVE  HistoryInv'
  BY <1>4, RemovingKeeps
<1>5. CASE PostElsewhere
  BY <1>5, PostingElsewhereKeeps
<1>6. ASSUME NEW u \in Users, NEW m \in messages, Unsend(u, m)
      PROVE  HistoryInv'
  BY <1>6, UnsendingKeeps
<1>7. ASSUME NEW r \in Groups, NEW u \in Members, AddMember(r, u)
      PROVE  HistoryInv'
  BY <1>7, AddingKeeps
<1>8. ASSUME NEW r \in Groups, SystemLine(r)
      PROVE  HistoryInv'
  BY <1>8, PostingKeeps DEF SystemLine
<1>9. ASSUME NEW r \in Groups, DeleteRoom(r)
      PROVE  HistoryInv'
  BY <1>9, DeletingKeeps
<1>10. ASSUME NEW g \in Guests, NEW R \in SUBSET Groups, Admit(g, R)
       PROVE  HistoryInv'
  BY <1>10, AdmittingKeeps
<1>11. ASSUME NEW g \in Guests, Retire(g)
       PROVE  HistoryInv'
  BY <1>11, RetiringKeeps
<1>12. ASSUME NEW g \in Guests, Purge(g)
       PROVE  HistoryInv'
  BY <1>12, PurgingKeeps
<1>13. CASE UNCHANGED vars
  <2>1. \A q \in Groups : In(q)' = In(q)
    BY <1>13 DEF vars, placeVars, In
  <2>2. UNCHANGED <<room, members, guest, messages, lastId, mark, cut, fresh, since, early>>
    BY <1>13 DEF vars, placeVars
  <2> QED
    BY <2>1, <2>2 DEF HistoryInv, TypeOK, IdsFollowPosting, WatermarksAreOld,
       OnlyLiveGroupsAreUsed, Live, NothingNewOutside, NewIsAbove, CutOf,
       SeatsBeforeAdmission, CutIsAdmission, Served
<1> QED
  BY <1>1, <1>2, <1>3, <1>4, <1>5, <1>6, <1>7, <1>8, <1>9, <1>10, <1>11, <1>12, <1>13 DEF Next

\* The inductive invariant: ids follow the order of posting, watermarks are old,
\* and what is above them is what is new, or since the admission.
THEOREM HistoryHolds == Spec => []HistoryInv
  BY InitHolds, NextKeeps, PTL DEF Spec

\* Unread counts are what came since the last reading or the admission and was
\* not unsent, whatever was deleted from under the marks (unreadCount).
THEOREM UnreadIsNew == Spec => []UnreadIsWhatIsNew
<1>1. HistoryInv => UnreadIsWhatIsNew
  <2> SUFFICES ASSUME HistoryInv,
                      NEW r \in Groups, NEW u \in members[r]
               PROVE  {m.nth : m \in Unread(u, r)}
                        = {m.nth : m \in {n \in In(r) : n.nth \in fresh[u][r] /\ ~n.deleted}}
    BY DEF UnreadIsWhatIsNew, HistoryInv
  <2>1. Unread(u, r) = {n \in In(r) : n.nth \in fresh[u][r] /\ ~n.deleted}
    BY DEF HistoryInv, NewIsAbove, Unread
  <2> QED
    BY <2>1
<1> QED
  BY <1>1, HistoryHolds, PTL

\* An admitted guest is shown exactly what was posted since their admission in the
\* rooms they were admitted to or put in later, and all of a group they had been
\* put in before (admitGuest, listMessages, createGroupRoom).
THEOREM AdmissionIsTheCut == Spec => []GuestsSeeFromAdmission
<1>1. HistoryInv => GuestsSeeFromAdmission
  <2> SUFFICES ASSUME HistoryInv,
                      NEW g \in Guests, NEW r \in Groups, g \in members[r], Served(g)
               PROVE  Listed(g, r) = IF r \in early[g] THEN In(r)
                                     ELSE {m \in In(r) : m.nth > since[g]}
    BY DEF GuestsSeeFromAdmission
  <2>1. CASE r \in early[g]
    <3>1. CutOf(g, r) = 0
      BY <2>1 DEF HistoryInv, SeatsBeforeAdmission, CutOf
    <3>2. \A m \in In(r) : m.id > 0
      BY MessagesAreTyped, HistoryAssumption DEF HistoryInv, In
    <3> QED
      BY <2>1, <3>1, <3>2 DEF Listed
  <2>2. CASE r \notin early[g]
    BY <2>2 DEF HistoryInv, CutIsAdmission, Listed, CutOf
  <2> QED
    BY <2>1, <2>2
<1> QED
  BY <1>1, HistoryHolds, PTL

=============================================================================
