---------------------------- MODULE MediaProofs -----------------------------
(***************************************************************************)
(* Proofs about Uploads and about Previews, in two parts.                  *)
(*                                                                         *)
(* For Uploads the strengthening says of each file what its upload has     *)
(* left behind at each stage, and what may refer to it then: nothing       *)
(* before the stream is in, and after that only a message of the room or   *)
(* the avatar of the account that it was uploaded to.                      *)
(*                                                                         *)
(* For Previews it says that a queue holds each of its waiters once, that  *)
(* somebody waits only where every slot is taken, and that no key is in a  *)
(* map twice.  What the recursive SizeTo adds up to is shown by induction, *)
(* as the least number of a set: what each operation on a map does to its  *)
(* size follows from a sum of the result, which there is only one of.      *)
(***************************************************************************)
EXTENDS Uploads, Previews, TLAPS, FiniteSetTheorems, WellFoundedInduction

-----------------------------------------------------------------------------
(* Uploads.                                                                *)

IsAvatar(f) == \E u \in Members : avatar[u] = f

\* Until its stream is in, a file has no row and nothing refers to it.
Staged(f) ==
    /\ up[f].stage = "unused" => up[f].by = None /\ up[f].to = None /\ f \notin disk
    /\ Streaming(f) => f \in disk /\ up[f].by \in Users
    /\ up[f].stage # "over" => f \notin row /\ message[f] = "none" /\ ~IsAvatar(f)

\* Messages and avatars refer to what was uploaded to be theirs.
Addressed(f) ==
    /\ message[f] # "none" => up[f].to \in Rooms
    /\ \A u \in Members : avatar[u] = f => up[f].to = Avatar
    /\ up[f].to = Avatar => up[f].by \in Members

Matched(f) ==
    /\ Used(f, message, avatar) => f \in row /\ f \in disk \cup torn
    /\ f \in row \cup disk /\ ~Streaming(f) => Used(f, message, avatar) \/ f \in stray

\* What goes on after its room or its guest was ended is late.
Gone(f) ==
    up[f].to \in Groups \ there \/ up[f].by \in ended
      => \/ f \in late
         \/ /\ ~Streaming(f) /\ f \notin row
            /\ up[f].to \notin there => message[f] = "none"

FileOK(f) == Staged(f) /\ Addressed(f) /\ Matched(f) /\ Gone(f)

\* Nobody is in a room that was deleted; a DM never is.
RoomsOK ==
    /\ Dms \subseteq there
    /\ \A r \in Rooms \ there : members[r] = {}

IInv ==
    /\ TypeOK
    /\ RoomsOK
    /\ \A f \in Uploads : FileOK(f)
    /\ ClosedDmsReopen

-----------------------------------------------------------------------------
(* What a step leaves alone.                                               *)

\* A file that a step does not touch, nor its room or who uploaded it.
LEMMA UntouchedFile ==
    ASSUME IInv, NEW f \in Uploads,
           up[f].to \in there' <=> up[f].to \in there,
           up[f].by \in ended' <=> up[f].by \in ended,
           up'[f] = up[f], message'[f] = message[f],
           f \in row' <=> f \in row, f \in disk' <=> f \in disk,
           \A u \in Members : avatar'[u] = f <=> avatar[u] = f,
           stray \subseteq stray', torn \subseteq torn', late \subseteq late'
    PROVE  FileOK(f)'
<1>1. Staged(f) /\ Addressed(f) /\ Matched(f) /\ Gone(f)
  BY DEF IInv, FileOK
<1>2. Streaming(f)' <=> Streaming(f)
  BY DEF Streaming
<1>3. Used(f, message, avatar)' <=> Used(f, message, avatar)
  BY DEF Used
<1>4. IsAvatar(f)' <=> IsAvatar(f)
  BY DEF IsAvatar
<1>5. Staged(f)'
  BY <1>1, <1>2, <1>4 DEF Staged
<1>6. Addressed(f)'
  BY <1>1 DEF Addressed
<1>7. Matched(f)'
  BY <1>1, <1>2, <1>3 DEF Matched
<1>8. Gone(f)'
  BY <1>1, <1>2 DEF Gone
<1>9. QED
  BY <1>5, <1>6, <1>7, <1>8 DEF FileOK

\* DMs are at most opened, and what comes into one opens it.
LEMMA DmsOpen ==
    ASSUME IInv, \A d \in Dms : hidden'[d] \subseteq hidden[d],
           closed' = closed \/ closed' = StillClosed,
           \A f \in Uploads :
                message'[f] # "none" /\ up'[f].to \in Dms =>
                    \/ message[f] # "none" /\ up'[f].to = up[f].to
                    \/ hidden'[up'[f].to] = {}
    PROVE  ClosedDmsReopen' /\ closed' \subseteq Dms \X Members \X Uploads
<1>1. closed' \subseteq closed /\ closed' \subseteq Dms \X Members \X Uploads
  BY DEF StillClosed, IInv, TypeOK
<1>2. ASSUME NEW d \in Dms, NEW u \in hidden'[d], NEW f \in Uploads,
             up'[f].to = d, message'[f] # "none"
      PROVE  <<d, u, f>> \in closed'
  <2>1. message[f] # "none" /\ up[f].to = d /\ u \in hidden[d]
    BY <1>2
  <2>2. <<d, u, f>> \in closed
    BY <2>1 DEF IInv, ClosedDmsReopen
  <2>3. <<d, u, f>>[2] = u /\ <<d, u, f>>[1] = d
    OBVIOUS
  <2>4. QED
    BY <1>2, <2>2, <2>3 DEF StillClosed
<1>3. QED
  BY <1>1, <1>2 DEF ClosedDmsReopen

LEMMA RevealedOpens ==
    ASSUME IInv, NEW r
    PROVE  /\ Revealed(r) \in [Dms -> SUBSET Members]
           /\ \A d \in Dms : Revealed(r)[d] \subseteq hidden[d]
           /\ r \in Dms => Revealed(r)[r] = {}
BY DEF Revealed, IInv, TypeOK

\* The stages of uploads after those of F are over.
LEMMA OverStages ==
    ASSUME IInv, NEW F \in SUBSET Uploads, up' = Over(F)
    PROVE  /\ up' \in [Uploads -> Upload]
           /\ \A f \in Uploads : up'[f].by = up[f].by /\ up'[f].to = up[f].to
           /\ \A f \in F : up'[f].stage = "over"
           /\ \A f \in Uploads \ F : up'[f] = up[f]
<1>1. ASSUME NEW f \in Uploads
      PROVE  LET b == [up[f] EXCEPT !.stage = "over"]
             IN  b \in Upload /\ b.by = up[f].by /\ b.to = up[f].to /\ b.stage = "over"
  BY DEF IInv, TypeOK, Upload
<1>2. \A f \in Uploads : up[f] \in Upload
  BY DEF IInv, TypeOK
<1>3. QED
  BY <1>1, <1>2 DEF Over

\* The orphan goes from row and disk, or nothing does.
LEMMA OrphanGoes ==
    ASSUME NEW g, NEW rows, NEW msg, NEW ava, DeleteOrphan(g, rows, msg, ava)
    PROVE  /\ \/ g \in rows /\ ~Used(g, msg, ava) /\ row' = rows \ {g} /\ disk' = disk \ {g}
              \/ g \notin rows /\ row' = rows /\ disk' = disk
              \/ Used(g, msg, ava) /\ row' = rows /\ disk' = disk
BY DEF DeleteOrphan

-----------------------------------------------------------------------------
(* Uploads.                                                                *)

LEMMA BeginKeepsIInv ==
    ASSUME IInv, NEW f \in Uploads, NEW u \in Users, NEW to \in Rooms \cup {Avatar},
           Begin(f, u, to), saw' \in [Uploads -> Uploads \cup {None}],
           to = Avatar => u \in Members,
           to \in Rooms => to \in there /\ u \notin ended
    PROVE  IInv'
<1> DEFINE b == [stage |-> "streaming", by |-> u, to |-> to]
<1>1. b \in Upload /\ b.stage = "streaming" /\ b.by = u /\ b.to = to
  BY DEF Upload
<1>2. /\ up[f].stage = "unused" /\ up' = [up EXCEPT ![f] = b] /\ disk' = disk \cup {f}
      /\ UNCHANGED <<roomVars, row, message, avatar, history, closed>>
  BY DEF Begin
<1> HIDE DEF b
<1>3. /\ up' \in [Uploads -> Upload] /\ up'[f] = b
      /\ \A h \in Uploads \ {f} : up'[h] = up[h]
  BY <1>1, <1>2 DEF IInv, TypeOK
<1>4. UNCHANGED <<there, members, ended, hidden, late, stray, torn>>
  BY <1>2 DEF roomVars, history
<1>5. TypeOK'
  BY <1>2, <1>3, <1>4 DEF IInv, TypeOK
<1>6. RoomsOK'
  BY <1>4 DEF IInv, RoomsOK
<1>7. \A h \in Uploads \ {f} : FileOK(h)'
  BY <1>2, <1>3, <1>4, UntouchedFile
<1>8. f \notin row /\ message[f] = "none" /\ ~IsAvatar(f)
  BY <1>2 DEF IInv, FileOK, Staged
<1>9. FileOK(f)'
  <2>1. Staged(f)'
    BY <1>1, <1>2, <1>3, <1>8 DEF Staged, Streaming, IsAvatar
  <2>2. Addressed(f)'
    BY <1>1, <1>2, <1>3, <1>8 DEF Addressed, IsAvatar
  <2>3. Matched(f)'
    BY <1>1, <1>2, <1>3, <1>8 DEF Matched, Streaming, Used, IsAvatar
  <2>4. Gone(f)'
    <3>1. CASE to = Avatar
      BY <1>1, <1>3, <1>4, <3>1, UploadsAssumption DEF Gone, IInv, TypeOK, Rooms
    <3>2. CASE to \in Rooms
      BY <1>1, <1>3, <1>4, <3>2 DEF Gone
    <3>3. QED
      BY <3>1, <3>2
  <2>5. QED
    BY <2>1, <2>2, <2>3, <2>4 DEF FileOK
<1>10. ClosedDmsReopen'
  BY <1>2, <1>3, <1>4, <1>8, DmsOpen
<1>11. QED
  BY <1>5, <1>6, <1>7, <1>9, <1>10 DEF IInv

LEMMA UploadBeginsKeepsIInv ==
    ASSUME IInv, NEW f \in Uploads, NEW u \in Users, NEW r \in Rooms, UploadBegins(f, u, r)
    PROVE  IInv'
<1>1. r \in there
  BY DEF UploadBegins, IInv, RoomsOK
<1>2. saw' \in [Uploads -> Uploads \cup {None}]
  BY DEF UploadBegins, IInv, TypeOK
<1>3. r # Avatar /\ u \notin ended /\ Begin(f, u, r)
  BY UploadsAssumption DEF UploadBegins
<1>4. QED
  BY <1>1, <1>2, <1>3, BeginKeepsIInv

LEMMA AvatarBeginsKeepsIInv ==
    ASSUME IInv, NEW f \in Uploads, NEW u \in Members, AvatarBegins(f, u)
    PROVE  IInv'
<1>1. saw' \in [Uploads -> Uploads \cup {None}]
  BY DEF AvatarBegins, IInv, TypeOK
<1>2. Avatar \notin Rooms /\ u \in Users /\ Begin(f, u, Avatar)
  BY UploadsAssumption DEF AvatarBegins, Users
<1>3. QED
  BY <1>1, <1>2, BeginKeepsIInv

LEMMA UploadFailsKeepsIInv ==
    ASSUME IInv, NEW f \in Uploads, UploadFails(f)
    PROVE  IInv'
<1>1. /\ Streaming(f) /\ up' = Over({f}) /\ disk' = disk \ {f}
      /\ UNCHANGED <<there, members, ended, hidden, saw, row, message, avatar,
                     late, stray, torn, closed>>
  BY DEF UploadFails, Discarded, roomVars, history
<1>2. /\ up' \in [Uploads -> Upload] /\ up'[f].stage = "over"
      /\ \A h \in Uploads : up'[h].by = up[h].by /\ up'[h].to = up[h].to
      /\ \A h \in Uploads \ {f} : up'[h] = up[h]
  BY <1>1, OverStages
<1>3. TypeOK' /\ RoomsOK'
  BY <1>1, <1>2 DEF IInv, TypeOK, RoomsOK
<1>4. \A h \in Uploads \ {f} : FileOK(h)'
  BY <1>1, <1>2, UntouchedFile
<1>5. FileOK(f)'
  <2>1. /\ up[f].stage # "over" /\ f \notin row /\ message[f] = "none" /\ ~IsAvatar(f)
        /\ Addressed(f) /\ Gone(f)
    BY <1>1 DEF IInv, FileOK, Staged, Streaming
  <2>2. Staged(f)' /\ Matched(f)'
    BY <1>1, <1>2, <2>1 DEF Staged, Matched, Streaming, Used, IsAvatar
  <2>3. Addressed(f)' /\ Gone(f)'
    BY <1>1, <1>2, <2>1 DEF Addressed, Gone, Streaming
  <2>4. QED
    BY <2>2, <2>3 DEF FileOK
<1>6. ClosedDmsReopen'
  BY <1>1, <1>2, DmsOpen
<1>7. QED
  BY <1>3, <1>4, <1>5, <1>6 DEF IInv

\* The stream was let in before; whoever it is and wherever it goes, it ends with
\* its row, its message and the DM open.
LEMMA UploadEndsKeepsIInv ==
    ASSUME IInv, NEW f \in Uploads, UploadEnds(f)
    PROVE  IInv'
<1>1. /\ Streaming(f) /\ up[f].to \in Rooms /\ up' = Over({f}) /\ row' = row \cup {f}
      /\ hidden' = Revealed(up[f].to) /\ closed' = StillClosed
      /\ message' = [message EXCEPT ![f] = "there"]
      /\ UNCHANGED <<there, members, ended, saw, disk, avatar, late, stray, torn>>
  BY DEF UploadEnds, history
<1>2. /\ up' \in [Uploads -> Upload] /\ up'[f].stage = "over"
      /\ \A h \in Uploads : up'[h].by = up[h].by /\ up'[h].to = up[h].to
      /\ \A h \in Uploads \ {f} : up'[h] = up[h]
  BY <1>1, OverStages
<1>3. /\ message' \in [Uploads -> {"none", "there", "bare"}] /\ message'[f] = "there"
      /\ \A h \in Uploads \ {f} : message'[h] = message[h]
  BY <1>1 DEF IInv, TypeOK
<1>4. /\ hidden' \in [Dms -> SUBSET Members] /\ \A d \in Dms : hidden'[d] \subseteq hidden[d]
      /\ up[f].to \in Dms => hidden'[up[f].to] = {}
  BY <1>1, RevealedOpens
<1>5. ClosedDmsReopen' /\ closed' \subseteq Dms \X Members \X Uploads
  BY <1>1, <1>2, <1>3, <1>4, DmsOpen
<1>6. TypeOK' /\ RoomsOK'
  BY <1>1, <1>2, <1>3, <1>4, <1>5 DEF IInv, TypeOK, RoomsOK
<1>7. \A h \in Uploads \ {f} : FileOK(h)'
  BY <1>1, <1>2, <1>3, UntouchedFile
<1>8. FileOK(f)'
  <2>1. /\ f \in disk /\ ~IsAvatar(f) /\ Addressed(f) /\ Gone(f)
    BY <1>1 DEF IInv, FileOK, Staged, Streaming
  <2>2. Staged(f)' /\ Matched(f)'
    BY <1>1, <1>2, <1>3, <2>1 DEF Staged, Matched, Streaming, Used
  <2>3. Addressed(f)'
    BY <1>1, <1>2, <2>1 DEF Addressed
  <2>4. Gone(f)'
    BY <1>1, <1>2, <2>1 DEF Gone
  <2>5. QED
    BY <2>2, <2>3, <2>4 DEF FileOK
<1>9. QED
  BY <1>5, <1>6, <1>7, <1>8 DEF IInv

\* The new avatar takes the place of the one there is, which may not be the one
\* that was read before the stream: then that one is a stray.
LEMMA AvatarEndsKeepsIInv ==
    ASSUME IInv, NEW f \in Uploads, AvatarEnds(f)
    PROVE  IInv'
<1> DEFINE u == up[f].by
           g == saw[f]
<1>1. /\ Streaming(f) /\ up[f].to = Avatar /\ up' = Over({f})
      /\ avatar' = [avatar EXCEPT ![u] = f]
      /\ DeleteOrphan(g, row \cup {f}, message, avatar')
      /\ stray' = stray \cup ({avatar[u]} \ {g, None})
      /\ UNCHANGED <<there, members, ended, hidden, saw, message, late, torn, closed>>
  BY DEF AvatarEnds, roomVars
<1>2. /\ up' \in [Uploads -> Upload] /\ up'[f].stage = "over"
      /\ \A h \in Uploads : up'[h].by = up[h].by /\ up'[h].to = up[h].to
      /\ \A h \in Uploads \ {f} : up'[h] = up[h]
  BY <1>1, OverStages
<1>3. /\ \/ /\ g \in row \cup {f} /\ ~Used(g, message, avatar')
            /\ row' = (row \cup {f}) \ {g} /\ disk' = disk \ {g}
         \/ g \notin row \cup {f} /\ row' = row \cup {f} /\ disk' = disk
         \/ Used(g, message, avatar') /\ row' = row \cup {f} /\ disk' = disk
  BY <1>1, OrphanGoes
<1> HIDE DEF g, u
<1>4. u \in Members /\ f \in disk /\ f \notin row
  BY <1>1 DEF IInv, FileOK, Addressed, Staged, Streaming, u
<1>5. /\ avatar' \in [Members -> Uploads \cup {None}] /\ avatar'[u] = f
      /\ \A v \in Members \ {u} : avatar'[v] = avatar[v]
      /\ avatar[u] \in Uploads \cup {None}
  BY <1>1, <1>4 DEF IInv, TypeOK
<1>6. row' \subseteq Uploads /\ disk' \subseteq Uploads /\ stray' \subseteq Uploads
  BY <1>1, <1>3, <1>5 DEF IInv, TypeOK
<1>7. TypeOK' /\ RoomsOK'
  BY <1>1, <1>2, <1>5, <1>6 DEF IInv, TypeOK, RoomsOK
<1>8. ClosedDmsReopen'
  BY <1>1, <1>2, DmsOpen
<1>9. Used(f, message, avatar')
  BY <1>4, <1>5 DEF Used
<1>10. FileOK(f)'
  <2>1. f \in row' /\ f \in disk' /\ message[f] = "none" /\ Addressed(f)
    BY <1>1, <1>3, <1>4, <1>9 DEF IInv, FileOK, Staged, Streaming
  <2>2. Staged(f)'
    BY <1>2, <1>1, <2>1 DEF Staged, Streaming
  <2>3. Addressed(f)'
    BY <1>1, <1>2, <2>1 DEF Addressed
  <2>4. Matched(f)'
    BY <1>1, <1>9, <2>1 DEF Matched
  <2>5. Gone(f)'
    BY <1>1, <1>2, <1>4, UploadsAssumption DEF Gone, IInv, TypeOK, Rooms, u
  <2>6. QED
    BY <2>2, <2>3, <2>4, <2>5 DEF FileOK
<1>11. ASSUME NEW h \in Uploads, h # f PROVE FileOK(h)'
  <2>1. Staged(h) /\ Addressed(h) /\ Matched(h) /\ Gone(h)
    BY DEF IInv, FileOK
  <2>2. /\ up'[h] = up[h] /\ message'[h] = message[h] /\ Streaming(h)' = Streaming(h)
        /\ there' = there /\ ended' = ended /\ late' = late /\ torn' = torn
    BY <1>1, <1>2, <1>11 DEF Streaming
  <2>3. /\ h \in row' => h \in row
        /\ h \in disk' => h \in disk
        /\ h \notin row => (h \in disk' <=> h \in disk)
        /\ Used(h, message, avatar') => (h \in row' <=> h \in row) /\ (h \in disk' <=> h \in disk)
        /\ h = g /\ h \in row' => Used(h, message, avatar')
    BY <1>3, <1>11
  <2>4. Used(h, message, avatar') => Used(h, message, avatar)
    BY <1>5, <1>11 DEF Used
  <2>5. IsAvatar(h)' => IsAvatar(h)
    BY <1>5, <1>11 DEF IsAvatar
  <2>6. Staged(h)'
    BY <2>1, <2>2, <2>3, <2>5 DEF Staged, Streaming
  <2>7. Addressed(h)'
    BY <1>5, <1>11, <2>1, <2>2 DEF Addressed
  <2>8. Matched(h)'
    <3>1. Used(h, message, avatar') => h \in row' /\ h \in disk' \cup torn
      BY <2>1, <2>3, <2>4 DEF Matched
    <3>2. ASSUME h \in row' \cup disk', ~Streaming(h), ~Used(h, message, avatar')
          PROVE  h \in stray'
      <4>1. Used(h, message, avatar) \/ h \in stray
        BY <2>1, <2>3, <3>2 DEF Matched
      <4>2. CASE h \in stray
        BY <1>1, <4>2
      <4>3. CASE Used(h, message, avatar)
        <5>1. avatar[u] = h
          BY <1>5, <3>2, <4>3 DEF Used
        <5>2. h \in row
          BY <2>1, <4>3 DEF Matched
        <5>3. h # g
          BY <1>3, <1>11, <3>2, <5>2
        <5>4. h # None
          BY UploadsAssumption
        <5>5. QED
          BY <1>1, <5>1, <5>3, <5>4
      <4>4. QED
        BY <4>1, <4>2, <4>3
    <3>3. QED
      BY <1>1, <2>2, <3>1, <3>2 DEF Matched
  <2>9. Gone(h)'
    BY <1>1, <2>1, <2>2, <2>3 DEF Gone
  <2>10. QED
    BY <2>6, <2>7, <2>8, <2>9 DEF FileOK
<1>12. QED
  BY <1>7, <1>8, <1>10, <1>11 DEF IInv

\* A stream that the process's death broke off leaves its file behind.
LEMMA BrokenFile ==
    ASSUME IInv, NEW h \in Uploads, Streaming(h), up'[h].stage = "over",
           up'[h].by = up[h].by, up'[h].to = up[h].to,
           \A v \in Members : avatar'[v] # h,
           h \in stray', UNCHANGED <<there, ended, message, late>>
    PROVE  FileOK(h)'
<1>1. Staged(h) /\ Addressed(h) /\ Gone(h) /\ message[h] = "none"
  BY DEF IInv, FileOK, Staged, Streaming
<1>2. Staged(h)' /\ Matched(h)'
  BY <1>1 DEF Staged, Streaming, Matched, Used
<1>3. Addressed(h)' /\ Gone(h)'
  BY <1>1 DEF Addressed, Gone
<1>4. QED
  BY <1>2, <1>3 DEF FileOK

LEMMA DiesKeepsIInv ==
    ASSUME IInv, Dies
    PROVE  IInv'
<1> DEFINE S == {f \in Uploads : Streaming(f)}
<1>1. PICK F \in {{}} \cup {{f} : f \in S} :
        /\ up' = Over(S)
        /\ row' = row \cup F
        /\ \/ /\ hidden' \in {hidden} \cup {Revealed(up[f].to) : f \in F}
              /\ avatar' = avatar
              /\ stray' = stray \cup S
              /\ disk' = disk
           \/ \E f \in F :
                /\ up[f].to = Avatar
                /\ hidden' = hidden
                /\ avatar' = [avatar EXCEPT ![up[f].by] = f]
                /\ stray' = stray \cup (S \ F) \cup ({avatar[up[f].by]} \ {None})
                /\ disk' \in {disk} \cup {disk \ {g} : g \in
                        {h \in row \cap {saw[f]} : ~Used(h, message, avatar')}}
        /\ closed' = StillClosed
        /\ UNCHANGED <<there, members, ended, saw, message, late, torn>>
  BY DEF Dies
<1>2. /\ S \subseteq Uploads /\ F \subseteq S /\ \A f \in F : F = {f}
      /\ \A h \in Uploads : h \in S <=> Streaming(h)
  OBVIOUS
<1> HIDE DEF S
<1>3. /\ up' \in [Uploads -> Upload] /\ \A f \in S : up'[f].stage = "over"
      /\ \A h \in Uploads : up'[h].by = up[h].by /\ up'[h].to = up[h].to
      /\ \A h \in Uploads \ S : up'[h] = up[h]
  BY <1>1, <1>2, OverStages
<1>4. hidden' \in [Dms -> SUBSET Members] /\ \A d \in Dms : hidden'[d] \subseteq hidden[d]
  <2>1. CASE hidden' = hidden
    BY <2>1 DEF IInv, TypeOK
  <2>2. ASSUME NEW f \in F, hidden' = Revealed(up[f].to)
        PROVE  /\ hidden' \in [Dms -> SUBSET Members]
               /\ \A d \in Dms : hidden'[d] \subseteq hidden[d]
    BY <2>2, RevealedOpens
  <2>3. QED
    BY <1>1, <2>1, <2>2
<1>5. ClosedDmsReopen' /\ closed' \subseteq Dms \X Members \X Uploads
  BY <1>1, <1>3, <1>4, DmsOpen
<1>6. row' \subseteq Uploads
  BY <1>1, <1>2 DEF IInv, TypeOK
<1>7. RoomsOK'
  BY <1>1 DEF IInv, RoomsOK
<1>8. CASE avatar' = avatar /\ stray' = stray \cup S /\ disk' = disk
  <2>1. TypeOK'
    BY <1>1, <1>2, <1>3, <1>4, <1>5, <1>6, <1>8 DEF IInv, TypeOK
  <2>2. ASSUME NEW h \in Uploads, h \notin S PROVE FileOK(h)'
    BY <1>1, <1>2, <1>3, <1>8, <2>2, UntouchedFile
  <2>3. ASSUME NEW h \in Uploads, h \in S PROVE FileOK(h)'
    <3>1. \A v \in Members : avatar'[v] # h
      BY <1>2, <1>8, <2>3 DEF IInv, FileOK, Staged, Streaming, IsAvatar
    <3>2. QED
      BY <1>1, <1>2, <1>3, <1>8, <2>3, <3>1, BrokenFile
  <2>4. QED
    BY <1>5, <1>7, <2>1, <2>2, <2>3 DEF IInv
<1>9. ASSUME NEW f \in F, up[f].to = Avatar,
             avatar' = [avatar EXCEPT ![up[f].by] = f],
             stray' = stray \cup (S \ F) \cup ({avatar[up[f].by]} \ {None}),
             NEW gone \in SUBSET {h \in row : ~Used(h, message, avatar')},
             disk' = disk \ gone
      PROVE  IInv'
  <2> DEFINE u == up[f].by
  <2> HIDE DEF u
  <2>1. f \in Uploads /\ Streaming(f) /\ F = {f}
    BY <1>2, <1>9
  <2>2. u \in Members /\ f \in disk /\ Addressed(f)
    BY <1>9, <2>1 DEF IInv, FileOK, Addressed, Staged, u
  <2>3. /\ avatar' \in [Members -> Uploads \cup {None}] /\ avatar'[u] = f
        /\ \A v \in Members \ {u} : avatar'[v] = avatar[v]
        /\ avatar[u] \in Uploads \cup {None}
    BY <1>9, <2>1, <2>2 DEF IInv, TypeOK, u
  <2>4. /\ stray' = stray \cup (S \ F) \cup ({avatar[u]} \ {None})
        /\ stray' \subseteq Uploads
    BY <1>2, <1>9, <2>3 DEF IInv, TypeOK, u
  <2>5. TypeOK'
    BY <1>1, <1>3, <1>4, <1>5, <1>6, <1>9, <2>3, <2>4 DEF IInv, TypeOK
  <2>6. FileOK(f)'
    <3>1. up'[f].stage = "over" /\ up'[f].to = Avatar /\ up'[f].by = u
      BY <1>2, <1>3, <1>9 DEF u
    <3>2. /\ f \in row' /\ f \in disk' /\ message'[f] = "none"
      BY <1>1, <1>9, <2>1, <2>2 DEF IInv, FileOK, Staged, Streaming
    <3>3. Used(f, message, avatar)'
      BY <2>2, <2>3 DEF Used
    <3>4. Staged(f)' /\ Matched(f)'
      BY <3>1, <3>2, <3>3 DEF Staged, Streaming, Matched
    <3>5. Addressed(f)'
      BY <2>2, <3>1, <3>2 DEF Addressed
    <3>6. Gone(f)'
      BY <1>1, <2>2, <3>1, UploadsAssumption DEF Gone, IInv, TypeOK, Rooms
    <3>7. QED
      BY <3>4, <3>5, <3>6 DEF FileOK
  <2>7. ASSUME NEW h \in Uploads, h \in S \ {f} PROVE FileOK(h)'
    <3>1. \A v \in Members : avatar[v] # h
      BY <1>2, <2>7 DEF IInv, FileOK, Staged, Streaming, IsAvatar
    <3>2. \A v \in Members : avatar'[v] # h
      BY <2>3, <2>7, <3>1
    <3>3. QED
      BY <1>1, <1>2, <1>3, <2>1, <2>4, <2>7, <3>2, BrokenFile
  <2>8. ASSUME NEW h \in Uploads, h \notin S PROVE FileOK(h)'
    <3>1. h # f /\ up'[h] = up[h]
      BY <1>2, <1>3, <2>1, <2>8
    <3>2. CASE avatar[u] # h /\ h \notin gone
      <4>1. h \in disk' <=> h \in disk
        BY <1>9, <3>2
      <4>2. QED
        BY <1>1, <2>1, <2>3, <2>4, <3>1, <3>2, <4>1, UntouchedFile
    <3>3. CASE avatar[u] = h
      <4>1. Staged(h) /\ Addressed(h) /\ Matched(h) /\ Gone(h)
        BY DEF IInv, FileOK
      <4>2. h \in stray' /\ (h \in row' <=> h \in row)
        BY <1>1, <2>1, <2>4, <3>1, <3>3, UploadsAssumption
      <4>3. up[h].stage = "over"
        BY <2>2, <3>3, <4>1 DEF Staged, IsAvatar, IInv, TypeOK, Upload
      <4>4. Used(h, message', avatar') => Used(h, message, avatar)
        BY <1>1, <2>2, <3>3 DEF Used
      <4>5. Staged(h)' /\ Matched(h)'
        BY <1>1, <3>1, <4>1, <4>2, <4>3, <4>4 DEF Staged, Streaming, Matched
      <4>6. Addressed(h)'
        BY <1>1, <2>2, <2>3, <3>1, <3>3, <4>1 DEF Addressed
      <4>7. Gone(h)'
        BY <1>1, <3>1, <4>1, <4>2, <4>3 DEF Gone, Streaming
      <4>8. QED
        BY <4>5, <4>6, <4>7 DEF FileOK
    <3>4. CASE avatar[u] # h /\ h \in gone
      <4>1. Staged(h) /\ Addressed(h) /\ Matched(h) /\ Gone(h)
        BY DEF IInv, FileOK
      <4>2. h \in row /\ ~Used(h, message', avatar')
        BY <1>1, <3>4
      <4>3. up[h].stage = "over" /\ ~Streaming(h)
        BY <4>1, <4>2 DEF Staged, Streaming
      <4>4. ~Used(h, message, avatar) /\ \A v \in Members : avatar'[v] # h
        BY <1>1, <2>3, <3>4, <4>2 DEF Used
      <4>5. h \in stray'
        BY <2>4, <4>1, <4>2, <4>3, <4>4 DEF Matched
      <4>6. Staged(h)' /\ Matched(h)'
        BY <1>1, <3>1, <4>2, <4>3, <4>5 DEF Staged, Streaming, Matched
      <4>7. Addressed(h)' /\ Gone(h)'
        BY <1>1, <2>1, <3>1, <4>1, <4>2, <4>3, <4>4 DEF Addressed, Gone, Streaming
      <4>8. QED
        BY <4>6, <4>7 DEF FileOK
    <3>5. QED
      BY <3>2, <3>3, <3>4
  <2>9. QED
    BY <1>5, <1>7, <2>5, <2>6, <2>7, <2>8 DEF IInv
<1>10. ASSUME NEW f \in F, up[f].to = Avatar,
              avatar' = [avatar EXCEPT ![up[f].by] = f],
              stray' = stray \cup (S \ F) \cup ({avatar[up[f].by]} \ {None}),
              disk' \in {disk} \cup {disk \ {g} : g \in
                    {h \in row \cap {saw[f]} : ~Used(h, message, avatar')}}
       PROVE  IInv'
  <2>1. \E gone \in SUBSET {h \in row : ~Used(h, message, avatar')} : disk' = disk \ gone
    <3>1. CASE disk' = disk
      <4>1. disk' = disk \ {}
        BY <3>1
      <4>2. QED
        BY <4>1
    <3>2. ASSUME NEW g \in {h \in row \cap {saw[f]} : ~Used(h, message, avatar')},
                 disk' = disk \ {g}
          PROVE  \E gone \in SUBSET {h \in row : ~Used(h, message, avatar')} :
                     disk' = disk \ gone
      <4>1. {g} \in SUBSET {h \in row : ~Used(h, message, avatar')}
        OBVIOUS
      <4>2. QED
        BY <3>2, <4>1
    <3>3. QED
      BY <1>10, <3>1, <3>2
  <2>2. QED
    BY <1>9, <1>10, <2>1
<1>11. QED
  BY <1>1, <1>8, <1>10

-----------------------------------------------------------------------------
(* What takes files away.                                                  *)

\* The message of f is a tombstone; what is left of f is a stray.
LEMMA TombstoneKeepsIInv ==
    ASSUME IInv, NEW u, NEW f \in Uploads, MayUnsend(u, f), message[f] = "there",
           message' = [message EXCEPT ![f] = "bare"],
           UNCHANGED <<roomVars, up, saw, avatar, late, torn, closed>>,
           row' \in SUBSET row, disk' \in SUBSET disk, stray' \in SUBSET Uploads,
           \A h \in Uploads \ {f} : /\ h \in row => h \in row'
                                    /\ h \in disk => h \in disk',
           stray \subseteq stray', f \in row' \cup disk' => f \in stray'
    PROVE  IInv'
<1>1. UNCHANGED <<there, members, ended, hidden>>
  BY DEF roomVars
<1>2. /\ message' \in [Uploads -> {"none", "there", "bare"}] /\ message'[f] = "bare"
      /\ \A h \in Uploads \ {f} : message'[h] = message[h]
  BY DEF IInv, TypeOK
<1>3. TypeOK' /\ RoomsOK'
  BY <1>1, <1>2 DEF IInv, TypeOK, RoomsOK
<1>4. \A h \in Uploads \ {f} : FileOK(h)'
  BY <1>1, <1>2, UntouchedFile
<1>5. FileOK(f)'
  <2>1. Staged(f) /\ Addressed(f) /\ Matched(f) /\ Gone(f)
    BY DEF IInv, FileOK
  <2>2. up[f].stage = "over" /\ up[f].to \in Rooms
    BY <2>1 DEF Staged, Addressed, IInv, TypeOK, Upload
  <2>3. Staged(f)' /\ Addressed(f)'
    BY <2>1, <2>2 DEF Staged, Addressed, Streaming
  <2>4. ~Used(f, message', avatar')
    BY <1>2, <2>1, <2>2, UploadsAssumption DEF Used, Addressed
  <2>5. Matched(f)'
    BY <2>4 DEF Matched
  <2>6. Gone(f)'
    BY <1>1, <2>1, <2>2 DEF Gone, Streaming
  <2>7. QED
    BY <2>3, <2>5, <2>6 DEF FileOK
<1>6. ClosedDmsReopen'
  BY <1>1, <1>2, DmsOpen
<1>7. QED
  BY <1>3, <1>4, <1>5, <1>6 DEF IInv

LEMMA UnsendKeepsIInv ==
    ASSUME IInv, NEW u \in Members, NEW f \in Uploads, Unsend(u, f) \/ UnsendDies(u, f)
    PROVE  IInv'
<1>1. /\ MayUnsend(u, f) /\ message[f] = "there"
      /\ message' = [message EXCEPT ![f] = "bare"]
      /\ UNCHANGED <<roomVars, up, saw, avatar, late, torn, closed>>
  BY DEF Unsend, UnsendDies, history
<1>2. CASE UnsendDies(u, f)
  <2>1. /\ row' = row /\ disk' \in {disk, disk \ {f}} /\ stray' = stray \cup {f}
    BY <1>2 DEF UnsendDies
  <2>2. stray' \subseteq Uploads
    BY <2>1 DEF IInv, TypeOK
  <2>3. QED
    BY <1>1, <2>1, <2>2, TombstoneKeepsIInv
<1>3. CASE Unsend(u, f)
  <2>1. DeleteOrphan(f, row, message', avatar) /\ stray' = stray
    BY <1>3 DEF Unsend, history
  <2>2. Addressed(f) /\ Matched(f)
    BY DEF IInv, FileOK
  <2>3. message'[f] = "bare"
    BY <1>1 DEF IInv, TypeOK
  <2>4. ~Used(f, message', avatar) /\ f \in row
    BY <1>1, <2>2, <2>3, UploadsAssumption DEF Used, Addressed, Matched
  <2>5. row' = row \ {f} /\ disk' = disk \ {f}
    BY <2>1, <2>4, OrphanGoes
  <2>6. stray' \subseteq Uploads
    BY <2>1 DEF IInv, TypeOK
  <2>7. QED
    BY <1>1, <2>1, <2>5, <2>6, TombstoneKeepsIInv
<1>4. QED
  BY <1>2, <1>3

\* The rows of room r are gone, and of its files F; the others of them are strays.
LEMMA DeleteRowsKeepsIInv ==
    ASSUME IInv, NEW r \in Groups, DeleteRows(r),
           NEW F \in SUBSET FilesOf(r), disk' = disk \ F,
           stray \subseteq stray', stray' \subseteq Uploads, FilesOf(r) \ F \subseteq stray'
    PROVE  IInv'
<1>1. /\ r \in there \cap Groups /\ there' = there \ {r}
      /\ members' = [members EXCEPT ![r] = {}]
      /\ message' = [f \in Uploads |-> IF up[f].to = r THEN "none" ELSE message[f]]
      /\ row' = row \ FilesOf(r)
      /\ late' = late \cup StreamingTo(r)
      /\ UNCHANGED <<ended, hidden, up, saw, avatar, torn, closed>>
  BY DEF DeleteRows
<1>2. r \in Rooms /\ r # Avatar /\ r \notin Dms
  BY UploadsAssumption DEF Rooms
<1>3. late' \subseteq Uploads /\ late \subseteq late'
  BY <1>1 DEF StreamingTo, IInv, TypeOK
<1>4. message' \in [Uploads -> {"none", "there", "bare"}]
  BY <1>1 DEF IInv, TypeOK
<1>5. members' \in [Rooms -> SUBSET Users] /\ RoomsOK'
  BY <1>1, <1>2 DEF IInv, TypeOK, RoomsOK
<1>6. TypeOK'
  BY <1>1, <1>3, <1>4, <1>5 DEF IInv, TypeOK
<1>7. ASSUME NEW h \in Uploads, up[h].to # r PROVE FileOK(h)'
  <2>1. h \notin FilesOf(r) /\ h \notin F /\ message'[h] = message[h]
    BY <1>1, <1>7 DEF FilesOf
  <2>2. QED
    BY <1>1, <1>3, <1>7, <2>1, UntouchedFile
<1>8. ASSUME NEW h \in Uploads, up[h].to = r PROVE FileOK(h)'
  <2>1. Staged(h) /\ Addressed(h) /\ Matched(h) /\ Gone(h)
    BY DEF IInv, FileOK
  <2>2. /\ h \in FilesOf(r) <=> h \in row
        /\ h \notin row' /\ message'[h] = "none" /\ up'[h] = up[h]
        /\ h \notin row => (h \in disk' <=> h \in disk)
        /\ h \in row /\ h \in disk' => h \in stray'
    BY <1>1, <1>8 DEF FilesOf
  <2>3. \A v \in Members : avatar[v] # h
    BY <1>2, <1>8, <2>1 DEF Addressed
  <2>4. Staged(h)'
    BY <1>1, <2>1, <2>2, <2>3 DEF Staged, Streaming, IsAvatar
  <2>5. Addressed(h)'
    BY <1>1, <2>1, <2>2, <2>3 DEF Addressed
  <2>6. Matched(h)'
    <3>1. ~Used(h, message', avatar')
      BY <1>1, <2>2, <2>3 DEF Used
    <3>2. ASSUME h \in disk', ~Streaming(h) PROVE h \in stray'
      <4>1. h \notin row => h \in stray
        BY <2>1, <2>2, <3>2 DEF Matched
      <4>2. QED
        BY <2>2, <3>2, <4>1
    <3>3. QED
      BY <2>2, <3>1, <3>2 DEF Matched, Streaming
  <2>7. Gone(h)'
    <3>1. Streaming(h) => h \in late'
      BY <1>1, <1>8 DEF StreamingTo
    <3>2. QED
      BY <2>2, <3>1 DEF Gone, Streaming
  <2>8. QED
    BY <2>4, <2>5, <2>6, <2>7 DEF FileOK
<1>9. ClosedDmsReopen'
  <2>1. \A f \in Uploads : message'[f] # "none" => message[f] # "none"
    BY <1>1
  <2>2. QED
    BY <1>1, <2>1, DmsOpen
<1>10. QED
  BY <1>5, <1>6, <1>7, <1>8, <1>9 DEF IInv

LEMMA DeleteRoomKeepsIInv ==
    ASSUME IInv, NEW r \in Groups, DeleteRoom(r) \/ DeleteRoomDies(r)
    PROVE  IInv'
<1>1. stray \subseteq Uploads /\ FilesOf(r) \subseteq Uploads
  BY DEF IInv, TypeOK, FilesOf
<1>2. CASE DeleteRoom(r)
  <2>1. DeleteRows(r) /\ disk' = disk \ FilesOf(r) /\ stray' = stray
    BY <1>2 DEF DeleteRoom
  <2>2. QED
    BY <1>1, <2>1, DeleteRowsKeepsIInv
<1>3. CASE DeleteRoomDies(r)
  <2>1. DeleteRows(r) /\ stray' = stray \cup FilesOf(r)
    BY <1>3 DEF DeleteRoomDies
  <2>2. PICK F \in SUBSET FilesOf(r) : disk' = disk \ F
    BY <1>3 DEF DeleteRoomDies
  <2>3. QED
    BY <1>1, <2>1, <2>2, DeleteRowsKeepsIInv
<1>4. QED
  BY <1>2, <1>3

LEMMA EndGuestKeepsIInv ==
    ASSUME IInv, NEW g \in Guests, NEW purged \in BOOLEAN, EndGuest(g, purged)
    PROVE  IInv'
<1>1. /\ g \notin ended /\ ended' = ended \cup {g}
      /\ members' = [r \in Rooms |-> members[r] \ {g}]
      /\ row' = row \ UploadsBy(g) /\ disk' = disk \ UploadsBy(g)
      /\ late' = late \cup StreamingBy(g)
      /\ UNCHANGED <<there, hidden, up, saw, avatar, stray, torn, closed>>
  BY DEF EndGuest
<1>2. /\ message' \in [Uploads -> {"none", "there", "bare"}]
      /\ \A h \in Uploads :
            /\ message[h] = "none" => message'[h] = "none"
            /\ message'[h] = "there" => message[h] = "there" /\ h \notin UploadsBy(g)
            /\ up[h].by # g => message'[h] = message[h]
  <2>1. CASE purged
    <3>1. message' = [f \in Uploads |-> IF up[f].by = g THEN "none" ELSE message[f]]
      BY <2>1 DEF EndGuest
    <3>2. QED
      BY <3>1 DEF IInv, TypeOK, UploadsBy
  <2>2. CASE ~purged
    <3>1. message' = Bared(UploadsBy(g))
      BY <2>2 DEF EndGuest
    <3>2. QED
      BY <3>1 DEF Bared, IInv, TypeOK, UploadsBy
  <2>3. QED
    BY <2>1, <2>2
<1>3. late' \subseteq Uploads /\ late \subseteq late'
  BY <1>1 DEF StreamingBy, IInv, TypeOK
<1>4. members' \in [Rooms -> SUBSET Users] /\ RoomsOK'
  BY <1>1 DEF IInv, TypeOK, RoomsOK
<1>5. TypeOK'
  BY <1>1, <1>2, <1>3, <1>4 DEF IInv, TypeOK
<1>6. ASSUME NEW h \in Uploads, up[h].by # g PROVE FileOK(h)'
  <2>1. h \notin UploadsBy(g) /\ message'[h] = message[h]
    BY <1>2, <1>6 DEF UploadsBy
  <2>2. QED
    BY <1>1, <1>3, <1>6, <2>1, UntouchedFile
<1>7. ASSUME NEW h \in Uploads, up[h].by = g PROVE FileOK(h)'
  <2>1. Staged(h) /\ Addressed(h) /\ Matched(h) /\ Gone(h)
    BY DEF IInv, FileOK
  <2>2. /\ h \in UploadsBy(g) <=> h \in row
        /\ h \notin row' /\ up'[h] = up[h]
        /\ h \notin row => (h \in disk' <=> h \in disk)
        /\ h \in row => h \notin disk'
    BY <1>1, <1>7 DEF UploadsBy
  <2>3. \A v \in Members : avatar[v] # h
    BY <1>7, <2>1, UploadsAssumption DEF Addressed
  <2>4. Staged(h)'
    BY <1>1, <1>2, <2>1, <2>2, <2>3 DEF Staged, Streaming, IsAvatar
  <2>5. Addressed(h)'
    BY <1>1, <1>2, <2>1, <2>2, <2>3 DEF Addressed
  <2>6. Matched(h)'
    <3>1. ~Used(h, message', avatar')
      BY <1>1, <1>2, <2>1, <2>2, <2>3 DEF Used, Matched
    <3>2. h \in disk' /\ ~Streaming(h) => h \in stray
      BY <2>1, <2>2 DEF Matched
    <3>3. QED
      BY <1>1, <2>2, <3>1, <3>2 DEF Matched, Streaming
  <2>7. Gone(h)'
    <3>1. Streaming(h) => h \in late'
      BY <1>1, <1>7 DEF StreamingBy
    <3>2. up[h].to \notin there => h \in late \/ message[h] = "none"
      BY <2>1 DEF Addressed, Gone, IInv, RoomsOK, Rooms
    <3>3. QED
      BY <1>1, <1>2, <1>3, <2>2, <3>1, <3>2 DEF Gone, Streaming
  <2>8. QED
    BY <2>4, <2>5, <2>6, <2>7 DEF FileOK
<1>8. ClosedDmsReopen'
  <2>1. \A f \in Uploads : message'[f] # "none" => message[f] # "none"
    BY <1>2
  <2>2. QED
    BY <1>1, <2>1, DmsOpen
<1>9. QED
  BY <1>4, <1>5, <1>6, <1>7, <1>8 DEF IInv

LEMMA EndGuestDiesKeepsIInv ==
    ASSUME IInv, NEW g \in Guests, EndGuestDies(g)
    PROVE  IInv'
<1>1. PICK F \in SUBSET UploadsBy(g) : disk' = disk \ F /\ torn' = torn \cup F
  BY DEF EndGuestDies
<1>2. UNCHANGED <<there, members, ended, hidden, up, saw, row, message, avatar,
                  late, stray, closed>>
  BY DEF EndGuestDies, roomVars
<1>3. F \subseteq row
  BY DEF UploadsBy
<1>4. TypeOK' /\ RoomsOK'
  BY <1>1, <1>2, <1>3 DEF IInv, TypeOK, RoomsOK
<1>5. ASSUME NEW h \in Uploads PROVE FileOK(h)'
  <2>1. CASE h \notin F
    <3>1. h \in torn' <=> h \in torn
      BY <1>1, <2>1
    <3>2. QED
      BY <1>1, <1>2, <2>1, UntouchedFile
  <2>2. CASE h \in F
    <3>1. Staged(h) /\ Addressed(h) /\ Matched(h) /\ Gone(h)
      BY DEF IInv, FileOK
    <3>2. h \in row /\ h \in torn' /\ up[h].stage = "over"
      BY <1>1, <1>3, <2>2, <3>1 DEF Staged
    <3>3. Used(h, message, avatar)' <=> Used(h, message, avatar)
      BY <1>2 DEF Used
    <3>4. Staged(h)' /\ Addressed(h)'
      BY <1>2, <3>1, <3>2 DEF Staged, Addressed, Streaming
    <3>5. Matched(h)'
      BY <1>2, <3>1, <3>2, <3>3 DEF Matched, Streaming
    <3>6. Gone(h)'
      BY <1>2, <3>1 DEF Gone, Streaming
    <3>7. QED
      BY <3>4, <3>5, <3>6 DEF FileOK
  <2>3. QED
    BY <2>1, <2>2
<1>6. ClosedDmsReopen'
  BY <1>2, DmsOpen
<1>7. QED
  BY <1>4, <1>5, <1>6 DEF IInv

-----------------------------------------------------------------------------
(* Rooms.                                                                  *)

LEMMA MembershipKeepsIInv ==
    ASSUME IInv, NEW r \in Groups, NEW u \in Users, AddMember(r, u) \/ RemoveMember(r, u)
    PROVE  IInv'
<1>1. UNCHANGED <<there, ended, hidden, up, saw, row, disk, message, avatar,
                  late, stray, torn, closed>>
  BY DEF AddMember, RemoveMember, fileVars, history
<1>2. members' \in [Rooms -> SUBSET Users] /\ RoomsOK'
  BY <1>1 DEF AddMember, RemoveMember, IInv, TypeOK, RoomsOK, Rooms
<1>3. TypeOK'
  BY <1>1, <1>2 DEF IInv, TypeOK
<1>4. \A h \in Uploads : FileOK(h)'
  BY <1>1, UntouchedFile
<1>5. ClosedDmsReopen'
  BY <1>1, DmsOpen
<1>6. QED
  BY <1>2, <1>3, <1>4, <1>5 DEF IInv

LEMMA HideKeepsIInv ==
    ASSUME IInv, NEW d \in Dms, NEW u \in Members, Hide(u, d) \/ OpenDm(u, d)
    PROVE  IInv'
<1>1. UNCHANGED <<there, members, ended, up, saw, row, disk, message, avatar,
                  late, stray, torn>>
  BY DEF Hide, OpenDm, fileVars, history
<1>2. hidden' \in [Dms -> SUBSET Members]
  BY DEF Hide, OpenDm, IInv, TypeOK
<1>3. ClosedDmsReopen' /\ closed' \subseteq Dms \X Members \X Uploads
  <2>1. CASE OpenDm(u, d)
    <3>1. closed' = StillClosed /\ \A e \in Dms : hidden'[e] \subseteq hidden[e]
      BY <2>1 DEF OpenDm, IInv, TypeOK
    <3>2. QED
      BY <1>1, <3>1, DmsOpen
  <2>2. CASE Hide(u, d)
    <3> DEFINE C == {d} \X {u} \X {f \in Uploads : message[f] # "none" /\ up[f].to = d}
    <3>1. hidden' = [hidden EXCEPT ![d] = @ \cup {u}] /\ closed' = closed \cup C
      BY <2>2 DEF Hide
    <3>2. C \subseteq Dms \X Members \X Uploads
      OBVIOUS
    <3>3. \A f \in Uploads : message[f] # "none" /\ up[f].to = d => <<d, u, f>> \in C
      OBVIOUS
    <3> HIDE DEF C
    <3>4. ASSUME NEW e \in Dms, NEW v \in hidden'[e], NEW f \in Uploads,
                 up'[f].to = e, message'[f] # "none"
          PROVE  <<e, v, f>> \in closed'
      <4>1. v \in hidden[e] \/ (e = d /\ v = u)
        BY <3>1 DEF IInv, TypeOK
      <4>2. CASE v \in hidden[e]
        BY <1>1, <3>1, <3>4, <4>2 DEF IInv, ClosedDmsReopen
      <4>3. CASE e = d /\ v = u
        BY <1>1, <3>1, <3>3, <3>4, <4>3
      <4>4. QED
        BY <4>1, <4>2, <4>3
    <3>5. closed' \subseteq Dms \X Members \X Uploads
      BY <3>1, <3>2 DEF IInv, TypeOK
    <3>6. QED
      BY <3>4, <3>5 DEF ClosedDmsReopen
  <2>3. QED
    BY <2>1, <2>2
<1>4. TypeOK' /\ RoomsOK'
  BY <1>1, <1>2, <1>3 DEF IInv, TypeOK, RoomsOK
<1>5. \A h \in Uploads : FileOK(h)'
  BY <1>1, UntouchedFile
<1>6. QED
  BY <1>3, <1>4, <1>5 DEF IInv

-----------------------------------------------------------------------------
(* Theorems.                                                               *)

LEMMA InitIInv == Init => IInv
<1> SUFFICES ASSUME Init PROVE IInv
  OBVIOUS
<1>1. \A f \in Uploads : /\ up[f].stage = "unused" /\ up[f].by = None /\ up[f].to = None
                         /\ message[f] = "none"
                         /\ \A u \in Members : avatar[u] # f
  BY UploadsAssumption DEF Init
<1>2. row = {} /\ disk = {} /\ there = Rooms /\ ended = {}
  BY DEF Init
<1>3. TypeOK
  BY DEF Init, TypeOK, Upload
<1>4. RoomsOK
  BY <1>2 DEF RoomsOK, Rooms
<1>5. ASSUME NEW f \in Uploads PROVE FileOK(f)
  <2>1. Staged(f) /\ Matched(f)
    BY <1>1, <1>2 DEF Staged, Matched, Streaming, IsAvatar, Used
  <2>2. Addressed(f) /\ Gone(f)
    BY <1>1, <1>2, UploadsAssumption DEF Addressed, Gone, Rooms
  <2>3. QED
    BY <2>1, <2>2 DEF FileOK
<1>6. ClosedDmsReopen
  BY DEF Init, ClosedDmsReopen
<1>7. QED
  BY <1>3, <1>4, <1>5, <1>6 DEF IInv

LEMMA StutterKeepsIInv ==
    ASSUME IInv, UNCHANGED vars
    PROVE  IInv'
<1>1. UNCHANGED <<there, members, ended, hidden, up, saw, row, disk, message, avatar,
                  late, stray, torn, closed>>
  BY DEF vars, roomVars, fileVars, history
<1>2. TypeOK' /\ RoomsOK'
  BY <1>1 DEF IInv, TypeOK, RoomsOK
<1>3. \A h \in Uploads : FileOK(h)'
  BY <1>1, UntouchedFile
<1>4. ClosedDmsReopen'
  BY <1>1, DmsOpen
<1>5. QED
  BY <1>2, <1>3, <1>4 DEF IInv

LEMMA NextKeepsIInv == IInv /\ [Next]_vars => IInv'
<1> SUFFICES ASSUME IInv, [Next]_vars PROVE IInv'
  OBVIOUS
<1>1. ASSUME NEW f \in Uploads,
             \/ \E u \in Users, r \in Rooms : UploadBegins(f, u, r)
             \/ \E u \in Members : AvatarBegins(f, u)
             \/ UploadFails(f) \/ UploadEnds(f) \/ AvatarEnds(f)
             \/ \E u \in Members : Unsend(u, f) \/ UnsendDies(u, f)
      PROVE  IInv'
  BY <1>1, UploadBeginsKeepsIInv, AvatarBeginsKeepsIInv, UploadFailsKeepsIInv,
     UploadEndsKeepsIInv, AvatarEndsKeepsIInv, UnsendKeepsIInv
<1>2. CASE Dies
  BY <1>2, DiesKeepsIInv
<1>3. ASSUME NEW r \in Groups, DeleteRoom(r) \/ DeleteRoomDies(r) PROVE IInv'
  BY <1>3, DeleteRoomKeepsIInv
<1>4. ASSUME NEW g \in Guests, (\E p \in BOOLEAN : EndGuest(g, p)) \/ EndGuestDies(g)
      PROVE  IInv'
  BY <1>4, EndGuestKeepsIInv, EndGuestDiesKeepsIInv
<1>5. ASSUME NEW r \in Groups, NEW u \in Users, AddMember(r, u) \/ RemoveMember(r, u)
      PROVE  IInv'
  BY <1>5, MembershipKeepsIInv
<1>6. ASSUME NEW d \in Dms, NEW u \in Members, Hide(u, d) \/ OpenDm(u, d) PROVE IInv'
  BY <1>6, HideKeepsIInv
<1>7. CASE UNCHANGED vars
  BY <1>7, StutterKeepsIInv
<1>8. QED
  BY <1>1, <1>2, <1>3, <1>4, <1>5, <1>6, <1>7 DEF Next

\* The strengthening holds in every reachable state.
THEOREM Invariance == Spec => []IInv
BY InitIInv, NextKeepsIInv, PTL DEF Spec

\* What a message or an avatar refers to is there, and nothing else is kept, but
\* for what deaths and two avatar uploads at once leave behind.
THEOREM FilesAreKept == Spec => []FilesMatch
<1>1. IInv => FilesMatch
  BY DEF IInv, FileOK, Matched, FilesMatch
<1>2. QED
  BY <1>1, Invariance, PTL

\* Of a deleted room and an ended guest nothing is left but what uploads that were
\* under way at the time bring in late.
THEOREM EndedLeaveNothing == Spec => []EndedIsGone
<1>1. IInv => EndedIsGone
  BY DEF IInv, FileOK, Gone, EndedIsGone
<1>2. QED
  BY <1>1, Invariance, PTL

\* A DM stays closed over nothing that came into it after it was closed.
THEOREM DmsReopen == Spec => []ClosedDmsReopen
<1>1. IInv => ClosedDmsReopen
  BY DEF IInv
<1>2. QED
  BY <1>1, Invariance, PTL

-----------------------------------------------------------------------------
(* Previews.                                                               *)
(*                                                                         *)
(* The size of a map of images.                                            *)

\* What holds of 0, and of each number up to n after the one before, holds up to n.
LEMMA UpTo ==
    ASSUME NEW n \in Nat, NEW T, 0 \in T, \A i \in 1..n : i - 1 \in T => i \in T
    PROVE  0..n \subseteq T
<1> DEFINE bad == {i \in 0..n : i \notin T}
<1>1. SUFFICES ASSUME bad # {} PROVE FALSE
  OBVIOUS
<1>2. bad \subseteq Nat /\ bad # {}
  BY <1>1
<1>3. PICK x \in bad : \A y \in bad : <<y, x>> \notin OpToRel(<, Nat)
  BY <1>2, NatLessThanWellFounded, WFMin
<1>4. \A y \in bad : ~(y < x)
  BY <1>2, <1>3 DEF OpToRel
<1>5. x \in 1..n /\ x - 1 \in 0..n /\ x - 1 \notin T
  OBVIOUS
<1>6. QED
  BY <1>4, <1>5

\* f adds up the values of map, oldest first.
Sums(f, map) ==
    /\ f[0] = 0
    /\ \A i \in 1..Len(map) : f[i] = f[i - 1] + map[i].value

\* The recursion that defines SizeTo has a solution.
LEMMA SizeToSums ==
    ASSUME NEW map, Len(map) \in Nat
    PROVE  Sums(SizeTo(map), map)
<1> DEFINE Step(f, n) == [i \in 0..n |-> IF i = 0 THEN 0 ELSE f[i - 1] + map[i].value]
           T == {n \in 0..Len(map) : \E f : f = Step(f, n)}
<1>1. 0 \in T
  <2> DEFINE f == [i \in 0..0 |-> 0]
  <2>1. \A i \in 0..0 : i = 0
    OBVIOUS
  <2>2. f = Step(f, 0)
    BY <2>1
  <2> HIDE DEF f
  <2>3. QED
    BY <2>2
<1>2. ASSUME NEW n \in 1..Len(map), n - 1 \in T PROVE n \in T
  <2>1. PICK f : f = Step(f, n - 1)
    BY <1>2
  <2> DEFINE g == [i \in 0..n |-> IF i = n THEN f[n - 1] + map[n].value ELSE f[i]]
  <2>2. ASSUME NEW i \in 0..n
        PROVE  g[i] = IF i = 0 THEN 0 ELSE g[i - 1] + map[i].value
    <3>1. CASE i = n
      BY <3>1
    <3>2. CASE i # n
      <4>1. i \in 0..(n - 1)
        BY <3>2
      <4>2. f[i] = IF i = 0 THEN 0 ELSE f[i - 1] + map[i].value
        BY <2>1, <4>1
      <4>3. QED
        BY <3>2, <4>1, <4>2
    <3>3. QED
      BY <3>1, <3>2
  <2>3. g = Step(g, n)
    BY <2>2
  <2> HIDE DEF g
  <2>4. QED
    BY <2>3
<1>3. Len(map) \in T
  <2> HIDE DEF T
  <2>1. 0..Len(map) \subseteq T
    BY <1>1, <1>2, UpTo
  <2>2. QED
    BY <2>1
<1>4. \E f : f = Step(f, Len(map))
  BY <1>3
<1>5. SizeTo(map) = Step(SizeTo(map), Len(map))
  BY <1>4 DEF SizeTo
<1>6. QED
  BY <1>5 DEF Sums

\* It has only one, and what it gives are numbers that grow.
LEMMA SumsAgree ==
    ASSUME NEW map, NEW f, NEW g, Len(map) \in Nat, Sums(f, map), Sums(g, map)
    PROVE  \A i \in 0..Len(map) : f[i] = g[i]
<1> DEFINE T == {i \in 0..Len(map) : f[i] = g[i]}
<1>1. 0 \in T
  BY DEF Sums
<1>2. \A i \in 1..Len(map) : i - 1 \in T => i \in T
  BY DEF Sums
<1> HIDE DEF T
<1>3. 0..Len(map) \subseteq T
  BY <1>1, <1>2, UpTo
<1>4. QED
  BY <1>3 DEF T

Sized(map) == map \in Seq(Entries(Images, 1..ImageMax))

LEMMA EntriesAreSized ==
    ASSUME NEW map, Sized(map), NEW i \in 1..Len(map)
    PROVE  map[i].value \in 1..ImageMax
<1>1. map[i] \in Entries(Images, 1..ImageMax)
  BY DEF Sized
<1>2. QED
  BY <1>1 DEF Entries

LEMMA SizesAreNumbers ==
    ASSUME NEW map, Sized(map)
    PROVE  /\ Len(map) \in Nat
           /\ \A i \in 0..Len(map) : SizeTo(map)[i] \in Nat
<1>1. Len(map) \in Nat /\ Sums(SizeTo(map), map)
  BY SizeToSums DEF Sized
<1> DEFINE T == {i \in 0..Len(map) : SizeTo(map)[i] \in Nat}
<1>2. 0 \in T
  BY <1>1 DEF Sums
<1>3. ASSUME NEW i \in 1..Len(map), i - 1 \in T PROVE i \in T
  <2>1. map[i].value \in Nat
    BY EntriesAreSized, PreviewsAssumption
  <2>2. SizeTo(map)[i] = SizeTo(map)[i - 1] + map[i].value
    BY <1>1 DEF Sums
  <2>3. QED
    BY <1>3, <2>1, <2>2
<1> HIDE DEF T
<1>4. 0..Len(map) \subseteq T
  BY <1>1, <1>2, <1>3, UpTo
<1>5. QED
  BY <1>1, <1>4 DEF T

LEMMA SizeIsANumber ==
    ASSUME NEW map, Sized(map)
    PROVE  Size(map) \in Nat
<1>1. Len(map) \in 0..Len(map)
  BY SizesAreNumbers
<1>2. QED
  BY <1>1, SizesAreNumbers DEF Size

\* To show the size of a map is to show a sum of it.
LEMMA SizeBySums ==
    ASSUME NEW map, NEW f, Len(map) \in Nat, Sums(f, map)
    PROVE  Size(map) = f[Len(map)]
<1>1. \A i \in 0..Len(map) : SizeTo(map)[i] = f[i]
  BY SizeToSums, SumsAgree
<1>2. QED
  BY <1>1 DEF Size

\* What is left of the oldest i.
LEMMA SizeOfSuffix ==
    ASSUME NEW map, Sized(map), NEW i \in 0..Len(map)
    PROVE  Size(SubSeq(map, i + 1, Len(map))) = Size(map) - SizeTo(map)[i]
<1> DEFINE rest == SubSeq(map, i + 1, Len(map))
           f == [k \in 0..(Len(map) - i) |-> SizeTo(map)[i + k] - SizeTo(map)[i]]
<1>1. /\ Len(map) \in Nat /\ Sums(SizeTo(map), map)
      /\ \A k \in 0..Len(map) : SizeTo(map)[k] \in Nat
  BY SizesAreNumbers, SizeToSums
<1>2. Len(rest) = Len(map) - i /\ \A k \in 1..Len(rest) : rest[k] = map[i + k]
  BY <1>1 DEF Sized
<1> HIDE DEF rest
<1>3. Sums(f, rest)
  <2>1. f[0] = 0
    BY <1>1
  <2>2. ASSUME NEW k \in 1..Len(rest) PROVE f[k] = f[k - 1] + rest[k].value
    <3>1. i + k \in 1..Len(map) /\ k \in 1..(Len(map) - i) /\ k - 1 \in 0..(Len(map) - i)
      BY <1>1, <1>2
    <3>2. SizeTo(map)[i + k] = SizeTo(map)[(i + k) - 1] + map[i + k].value
      BY <1>1, <3>1 DEF Sums
    <3>3. (i + k) - 1 = i + (k - 1) /\ map[i + k].value \in Nat
      BY <3>1, EntriesAreSized, PreviewsAssumption
    <3>4. /\ SizeTo(map)[i + k] \in Nat /\ SizeTo(map)[i + (k - 1)] \in Nat
          /\ SizeTo(map)[i] \in Nat
      BY <1>1, <3>1
    <3>5. f[k] = SizeTo(map)[i + k] - SizeTo(map)[i]
      BY <3>1
    <3>6. f[k - 1] = SizeTo(map)[i + (k - 1)] - SizeTo(map)[i]
      BY <3>1
    <3> HIDE DEF f
    <3>7. rest[k] = map[i + k]
      BY <1>2
    <3>8. SizeTo(map)[i + k] = SizeTo(map)[i + (k - 1)] + map[i + k].value
      BY <3>2, <3>3
    <3> DEFINE a == SizeTo(map)[i + k]
               b == SizeTo(map)[i + (k - 1)]
               c == SizeTo(map)[i]
               v == map[i + k].value
    <3>9. a = b + v /\ f[k] = a - c /\ f[k - 1] = b - c /\ rest[k].value = v
      BY <3>5, <3>6, <3>7, <3>8
    <3>10. a \in Nat /\ b \in Nat /\ c \in Nat /\ v \in Nat
      BY <3>3, <3>4
    <3> HIDE DEF a, b, c, v
    <3>11. QED
      BY <3>9, <3>10
  <2>3. QED
    BY <2>1, <2>2 DEF Sums
<1>4. Size(rest) = f[Len(map) - i]
  <2> HIDE DEF f
  <2> QED
    BY <1>1, <1>2, <1>3, SizeBySums
<1>5. f[Len(map) - i] = SizeTo(map)[Len(map)] - SizeTo(map)[i]
  BY <1>1
<1>6. QED
  BY <1>4, <1>5 DEF Size, rest

LEMMA SizeOfAppend ==
    ASSUME NEW map, Sized(map), NEW e \in Entries(Images, 1..ImageMax)
    PROVE  Size(Append(map, e)) = Size(map) + e.value
<1> DEFINE more == Append(map, e)
           f == [k \in 0..(Len(map) + 1) |->
                    IF k <= Len(map) THEN SizeTo(map)[k] ELSE Size(map) + e.value]
<1>1. Len(map) \in Nat /\ Sums(SizeTo(map), map)
  BY SizesAreNumbers, SizeToSums
<1>2. /\ Len(more) = Len(map) + 1 /\ more[Len(map) + 1] = e
      /\ \A k \in 1..Len(map) : more[k] = map[k]
  BY <1>1 DEF Sized
<1> HIDE DEF more
<1>3. Sums(f, more)
  BY <1>1, <1>2 DEF Sums, Size
<1>4. f[Len(more)] = Size(map) + e.value
  BY <1>1, <1>2
<1>5. QED
  <2> HIDE DEF f
  <2>1. Len(more) \in Nat
    BY <1>1, <1>2
  <2>2. Size(more) = f[Len(more)]
    BY <1>3, <2>1, SizeBySums
  <2>3. QED
    BY <1>4, <2>2 DEF more

LEMMA RemoveAtFacts ==
    ASSUME NEW S, NEW s \in Seq(S), NEW i \in DOMAIN s
    PROVE  LET t == RemoveAt(s, i)
           IN  /\ t \in Seq(S) /\ Len(t) = Len(s) - 1
               /\ \A j \in 1..Len(t) : t[j] = IF j < i THEN s[j] ELSE s[j + 1]
<1> DEFINE u == SubSeq(s, 1, i - 1)
           v == SubSeq(s, i + 1, Len(s))
<1>1. i \in 1..Len(s) /\ Len(s) \in Nat
  OBVIOUS
<1>2. u \in Seq(S) /\ Len(u) = i - 1 /\ \A j \in 1..i-1 : u[j] = s[j]
  BY <1>1
<1>3. v \in Seq(S) /\ Len(v) = Len(s) - i /\ \A j \in 1..Len(s)-i : v[j] = s[i + j]
  BY <1>1
<1> HIDE DEF u, v
<1>4. u \o v \in Seq(S) /\ Len(u \o v) = Len(s) - 1
  BY <1>1, <1>2, <1>3
<1>5. \A j \in 1..Len(s)-1 : (u \o v)[j] = IF j < i THEN s[j] ELSE s[j + 1]
  BY <1>1, <1>2, <1>3
<1>6. QED
  BY <1>4, <1>5 DEF RemoveAt, u, v

LEMMA SizeOfRemoveAt ==
    ASSUME NEW map, Sized(map), NEW j \in DOMAIN map
    PROVE  Size(RemoveAt(map, j)) = Size(map) - map[j].value
<1> DEFINE less == RemoveAt(map, j)
           f == [k \in 0..(Len(map) - 1) |->
                    IF k < j THEN SizeTo(map)[k] ELSE SizeTo(map)[k + 1] - map[j].value]
<1>1. /\ Len(map) \in Nat /\ Sums(SizeTo(map), map)
      /\ \A k \in 0..Len(map) : SizeTo(map)[k] \in Nat
  BY SizesAreNumbers, SizeToSums
<1>2. j \in 1..Len(map) /\ map[j].value \in Nat
  BY EntriesAreSized, PreviewsAssumption DEF Sized
<1>3. /\ Len(less) = Len(map) - 1
      /\ \A k \in 1..Len(less) : less[k] = IF k < j THEN map[k] ELSE map[k + 1]
  BY RemoveAtFacts DEF Sized
<1> HIDE DEF less
<1>4. SizeTo(map)[0] = 0 /\ f[0] = 0
  BY <1>1, <1>2 DEF Sums
<1>5. ASSUME NEW k \in 1..Len(less) PROVE f[k] = f[k - 1] + less[k].value
  <2>1. /\ k \in 1..Len(map) /\ k + 1 \in 1..Len(map) /\ (k + 1) - 1 = k /\ (k - 1) + 1 = k
        /\ k \in 0..(Len(map) - 1) /\ k - 1 \in 0..(Len(map) - 1)
    BY <1>1, <1>3
  <2>2. /\ SizeTo(map)[k] = SizeTo(map)[k - 1] + map[k].value
        /\ SizeTo(map)[k + 1] = SizeTo(map)[k] + map[k + 1].value
    BY <1>1, <2>1 DEF Sums
  <2>3. map[k].value \in Nat /\ map[k + 1].value \in Nat
    BY <2>1, EntriesAreSized, PreviewsAssumption
  <2>4. /\ SizeTo(map)[k - 1] \in Nat /\ SizeTo(map)[k] \in Nat
        /\ SizeTo(map)[k + 1] \in Nat
    BY <1>1, <2>1
  <2>5. f[k] = IF k < j THEN SizeTo(map)[k] ELSE SizeTo(map)[k + 1] - map[j].value
    BY <2>1
  <2>6. f[k - 1] = IF k - 1 < j THEN SizeTo(map)[k - 1] ELSE SizeTo(map)[k] - map[j].value
    BY <2>1
  <2> HIDE DEF f
  <2>7. less[k] = IF k < j THEN map[k] ELSE map[k + 1]
    BY <1>3
  <2>8. CASE k < j
    <3>1. f[k] = SizeTo(map)[k] /\ f[k - 1] = SizeTo(map)[k - 1]
      BY <1>2, <2>1, <2>5, <2>6, <2>8
    <3>2. QED
      BY <2>2, <2>7, <2>8, <3>1
  <2>9. CASE k = j
    <3>1. f[k] = SizeTo(map)[k + 1] - map[k].value /\ f[k - 1] = SizeTo(map)[k - 1]
      BY <1>2, <2>1, <2>5, <2>6, <2>9
    <3>2. less[k] = map[k + 1]
      BY <1>2, <2>7, <2>9
    <3>3. QED
      BY <2>2, <2>3, <2>4, <3>1, <3>2
  <2>10. CASE k > j
    <3>1. /\ f[k] = SizeTo(map)[k + 1] - map[j].value
          /\ f[k - 1] = SizeTo(map)[k] - map[j].value
      BY <1>2, <2>1, <2>5, <2>6, <2>10
    <3>2. less[k] = map[k + 1]
      BY <1>2, <2>7, <2>10
    <3>3. /\ map[j].value \in Nat /\ map[k + 1].value \in Nat
          /\ SizeTo(map)[k] \in Nat /\ SizeTo(map)[k + 1] \in Nat
          /\ SizeTo(map)[k + 1] = SizeTo(map)[k] + map[k + 1].value
      BY <1>2, <2>2, <2>3, <2>4
    <3>4. QED
      BY <3>1, <3>2, <3>3
  <2>11. QED
    BY <1>2, <2>8, <2>9, <2>10
<1>6. f[Len(map) - 1] = Size(map) - map[j].value
  <2>1. CASE Len(map) - 1 < j
    <3>1. j = Len(map) /\ SizeTo(map)[j] = SizeTo(map)[j - 1] + map[j].value
      BY <1>1, <1>2, <2>1 DEF Sums
    <3>2. SizeTo(map)[j] \in Nat /\ SizeTo(map)[j - 1] \in Nat
      BY <1>1, <1>2
    <3>3. QED
      BY <1>1, <1>2, <2>1, <3>1, <3>2 DEF Size
  <2>2. CASE ~(Len(map) - 1 < j)
    BY <1>1, <1>2, <2>2 DEF Size
  <2>3. QED
    BY <2>1, <2>2
<1>7. QED
  <2> HIDE DEF f
  <2>1. Sums(f, less)
    BY <1>4, <1>5 DEF Sums
  <2>2. QED
    BY <1>1, <1>2, <1>3, <1>6, <2>1, SizeBySums DEF less

\* A map with the jth entry replaced.
LEMMA SizeOfReplaced ==
    ASSUME NEW map, Sized(map), NEW other, Sized(other), Len(other) = Len(map),
           NEW j \in DOMAIN map,
           \A k \in 1..Len(map) : k # j => other[k].value = map[k].value
    PROVE  Size(other) = Size(map) - map[j].value + other[j].value
<1> DEFINE d(k) == IF j <= k THEN other[j].value - map[j].value ELSE 0
           f == [k \in 0..Len(map) |-> SizeTo(map)[k] + d(k)]
<1>1. /\ Len(map) \in Nat /\ Sums(SizeTo(map), map)
      /\ \A k \in 0..Len(map) : SizeTo(map)[k] \in Nat
  BY SizesAreNumbers, SizeToSums
<1>2. j \in 1..Len(map) /\ map[j].value \in Nat /\ other[j].value \in Nat
  BY EntriesAreSized, PreviewsAssumption DEF Sized
<1>3. f[0] = 0
  BY <1>1, <1>2 DEF Sums
<1>4. ASSUME NEW k \in 1..Len(map) PROVE f[k] = f[k - 1] + other[k].value
  <2>1. k \in 0..Len(map) /\ k - 1 \in 0..Len(map)
    BY <1>1
  <2>2. SizeTo(map)[k] = SizeTo(map)[k - 1] + map[k].value
    BY <1>1 DEF Sums
  <2>3. map[k].value \in Nat /\ SizeTo(map)[k - 1] \in Nat
    BY <1>1, <2>1, EntriesAreSized, PreviewsAssumption
  <2>4. f[k] = SizeTo(map)[k] + d(k) /\ f[k - 1] = SizeTo(map)[k - 1] + d(k - 1)
    BY <2>1
  <2> HIDE DEF f
  <2>5. CASE k = j
    BY <1>2, <2>1, <2>2, <2>3, <2>4, <2>5
  <2>6. CASE k # j
    BY <1>2, <2>1, <2>2, <2>3, <2>4, <2>6
  <2>7. QED
    BY <2>5, <2>6
<1>5. f[Len(map)] = SizeTo(map)[Len(map)] + (other[j].value - map[j].value)
  BY <1>1, <1>2
<1>6. Sums(f, other)
  <2> HIDE DEF f
  <2> QED
    BY <1>3, <1>4 DEF Sums
<1>7. Size(other) = f[Len(map)]
  <2> HIDE DEF f
  <2> QED
    BY <1>1, <1>6, SizeBySums
<1>8. SizeTo(map)[Len(map)] \in Nat
  BY <1>1
<1>9. QED
  <2> HIDE DEF f
  <2> QED
    BY <1>2, <1>5, <1>7, <1>8 DEF Size

-----------------------------------------------------------------------------
(* The maps.  No key is in one of them twice.                              *)

UniqueKeys(map) == \A i, j \in DOMAIN map : map[i].key = map[j].key => i = j

\* Every entry of less is one of map's.
From(less, map) == \A i \in DOMAIN less : \E j \in DOMAIN map : less[i] = map[j]

LEMMA EntryFacts ==
    ASSUME NEW K, NEW V, NEW map \in Seq(Entries(K, V))
    PROVE  /\ Len(map) \in Nat /\ DOMAIN map = 1..Len(map)
           /\ \A i \in 1..Len(map) :
                /\ map[i] \in Entries(K, V) /\ map[i].key \in K
                /\ map[i].value \in V
<1>1. Len(map) \in Nat /\ DOMAIN map = 1..Len(map)
  OBVIOUS
<1>2. \A i \in 1..Len(map) : map[i] \in Entries(K, V)
  OBVIOUS
<1>3. QED
  BY <1>1, <1>2 DEF Entries

\* The one entry of a key.
LEMMA AtFacts ==
    ASSUME NEW K, NEW V, NEW map \in Seq(Entries(K, V)), NEW k, Has(map, k)
    PROVE  /\ At(map, k) \in Entries(K, V) /\ At(map, k).key = k
           /\ \E i \in DOMAIN map : At(map, k) = map[i]
           /\ UniqueKeys(map) => \A i \in DOMAIN map : map[i].key = k => At(map, k) = map[i]
<1> DEFINE j == CHOOSE i \in DOMAIN map : map[i].key = k
<1>1. j \in DOMAIN map /\ map[j].key = k
  BY DEF Has
<1>2. At(map, k) = map[j]
  BY DEF At
<1> HIDE DEF j
<1>3. QED
  BY <1>1, <1>2, EntryFacts DEF UniqueKeys

\* A map without some of its entries.
LEMMA RemovedFacts ==
    ASSUME NEW K, NEW V, NEW map \in Seq(Entries(K, V)), NEW j \in DOMAIN map,
           UniqueKeys(map)
    PROVE  /\ RemoveAt(map, j) \in Seq(Entries(K, V))
           /\ Len(RemoveAt(map, j)) = Len(map) - 1
           /\ UniqueKeys(RemoveAt(map, j)) /\ From(RemoveAt(map, j), map)
           /\ ~Has(RemoveAt(map, j), map[j].key)
<1> DEFINE t == RemoveAt(map, j)
<1>1. /\ t \in Seq(Entries(K, V)) /\ Len(t) = Len(map) - 1
      /\ \A i \in 1..Len(t) : t[i] = IF i < j THEN map[i] ELSE map[i + 1]
  BY RemoveAtFacts
<1>2. DOMAIN t = 1..Len(t) /\ DOMAIN map = 1..Len(map) /\ Len(map) \in Nat
  BY <1>1, EntryFacts
<1> HIDE DEF t
<1>3. \A i \in 1..Len(t) : \E n \in 1..Len(map) :
        t[i] = map[n] /\ n = IF i < j THEN i ELSE i + 1
  BY <1>1, <1>2
<1>4. UniqueKeys(t)
  <2>1. SUFFICES ASSUME NEW i \in 1..Len(t), NEW n \in 1..Len(t), t[i].key = t[n].key
                 PROVE  i = n
    BY <1>2 DEF UniqueKeys
  <2>2. PICK a \in 1..Len(map) : t[i] = map[a] /\ a = IF i < j THEN i ELSE i + 1
    BY <1>3
  <2>3. PICK b \in 1..Len(map) : t[n] = map[b] /\ b = IF n < j THEN n ELSE n + 1
    BY <1>3
  <2>4. a = b
    BY <1>2, <2>1, <2>2, <2>3 DEF UniqueKeys
  <2>5. QED
    BY <1>2, <2>2, <2>3, <2>4
<1>5. From(t, map)
  BY <1>2, <1>3 DEF From
<1>6. ~Has(t, map[j].key)
  <2>1. SUFFICES ASSUME NEW i \in 1..Len(t), t[i].key = map[j].key PROVE FALSE
    BY <1>2 DEF Has
  <2>2. PICK a \in 1..Len(map) : t[i] = map[a] /\ a = IF i < j THEN i ELSE i + 1
    BY <1>3
  <2>3. a = j
    BY <1>2, <2>1, <2>2 DEF UniqueKeys
  <2>4. QED
    BY <1>2, <2>2, <2>3
<1>7. QED
  BY <1>1, <1>4, <1>5, <1>6 DEF t

LEMMA SuffixFacts ==
    ASSUME NEW K, NEW V, NEW map \in Seq(Entries(K, V)), UniqueKeys(map),
           NEW n \in 0..Len(map)
    PROVE  LET rest == SubSeq(map, n + 1, Len(map))
           IN  /\ rest \in Seq(Entries(K, V)) /\ Len(rest) = Len(map) - n
               /\ UniqueKeys(rest) /\ From(rest, map)
<1> DEFINE rest == SubSeq(map, n + 1, Len(map))
<1>1. /\ rest \in Seq(Entries(K, V)) /\ Len(rest) = Len(map) - n
      /\ \A i \in 1..Len(rest) : rest[i] = map[i + n]
  BY EntryFacts
<1> HIDE DEF rest
<1>2. DOMAIN rest = 1..Len(rest) /\ DOMAIN map = 1..Len(map) /\ Len(map) \in Nat
  BY <1>1, EntryFacts
<1>3. \A i \in 1..Len(rest) : i + n \in 1..Len(map)
  BY <1>1, <1>2
<1>4. UniqueKeys(rest)
  <2>1. SUFFICES ASSUME NEW i \in 1..Len(rest), NEW k \in 1..Len(rest),
                        rest[i].key = rest[k].key
                 PROVE  i = k
    BY <1>2 DEF UniqueKeys
  <2>2. /\ i + n \in DOMAIN map /\ k + n \in DOMAIN map
        /\ map[i + n].key = map[k + n].key
    BY <1>1, <1>2, <1>3, <2>1
  <2>3. i + n = k + n
    BY <2>2 DEF UniqueKeys
  <2>4. i \in Int /\ k \in Int /\ n \in Int
    OBVIOUS
  <2>5. QED
    BY <2>3, <2>4
<1>5. From(rest, map)
  BY <1>1, <1>2, <1>3 DEF From
<1>6. QED
  BY <1>1, <1>4, <1>5 DEF rest

LEMMA TailFacts ==
    ASSUME NEW K, NEW V, NEW map \in Seq(Entries(K, V)), UniqueKeys(map), map # <<>>
    PROVE  /\ Tail(map) \in Seq(Entries(K, V)) /\ Len(Tail(map)) = Len(map) - 1
           /\ UniqueKeys(Tail(map)) /\ From(Tail(map), map)
<1>1. Len(map) \in Nat /\ 1 \in 0..Len(map)
  BY EntryFacts
<1>2. Tail(map) = SubSeq(map, 1 + 1, Len(map))
  BY <1>1
<1>3. QED
  BY <1>1, <1>2, SuffixFacts

LEMMA AppendFacts ==
    ASSUME NEW K, NEW V, NEW map \in Seq(Entries(K, V)), NEW e \in Entries(K, V)
    PROVE  /\ Append(map, e) \in Seq(Entries(K, V)) /\ Len(Append(map, e)) = Len(map) + 1
           /\ UniqueKeys(map) /\ ~Has(map, e.key) => UniqueKeys(Append(map, e))
           /\ \A i \in DOMAIN Append(map, e) :
                Append(map, e)[i] = e \/ \E j \in DOMAIN map : Append(map, e)[i] = map[j]
<1> DEFINE t == Append(map, e)
<1>1. /\ t \in Seq(Entries(K, V)) /\ Len(t) = Len(map) + 1 /\ t[Len(map) + 1] = e
      /\ \A i \in 1..Len(map) : t[i] = map[i]
  BY EntryFacts
<1> HIDE DEF t
<1>2. DOMAIN t = 1..Len(t) /\ DOMAIN map = 1..Len(map) /\ Len(map) \in Nat
  BY <1>1, EntryFacts
<1>3. \A i \in 1..Len(t) : i = Len(map) + 1 \/ i \in 1..Len(map)
  BY <1>1, <1>2
<1>4. ASSUME UniqueKeys(map), ~Has(map, e.key) PROVE UniqueKeys(t)
  BY <1>1, <1>2, <1>3, <1>4 DEF UniqueKeys, Has
<1>5. \A i \in DOMAIN t : t[i] = e \/ \E j \in DOMAIN map : t[i] = map[j]
  BY <1>1, <1>2, <1>3
<1>6. QED
  BY <1>1, <1>4, <1>5 DEF t

\* Map.delete
LEMMA WithoutFacts ==
    ASSUME NEW K, NEW V, NEW map \in Seq(Entries(K, V)), NEW k, UniqueKeys(map)
    PROVE  /\ Without(map, k) \in Seq(Entries(K, V))
           /\ Len(Without(map, k)) = IF Has(map, k) THEN Len(map) - 1 ELSE Len(map)
           /\ UniqueKeys(Without(map, k)) /\ From(Without(map, k), map)
           /\ ~Has(Without(map, k), k)
<1>1. CASE ~Has(map, k)
  BY <1>1 DEF Without, From
<1>2. CASE Has(map, k)
  <2> DEFINE j == CHOOSE i \in DOMAIN map : map[i].key = k
  <2>1. j \in DOMAIN map /\ map[j].key = k
    BY <1>2 DEF Has
  <2>2. Without(map, k) = RemoveAt(map, j)
    BY <1>2 DEF Without
  <2> HIDE DEF j
  <2>3. QED
    BY <1>2, <2>1, <2>2, RemovedFacts
<1>3. QED
  BY <1>1, <1>2

\* lruGet
LEMMA LookedFacts ==
    ASSUME NEW K, NEW V, NEW map \in Seq(Entries(K, V)), NEW k, UniqueKeys(map)
    PROVE  /\ Looked(map, k) \in Seq(Entries(K, V)) /\ Len(Looked(map, k)) <= Len(map)
           /\ UniqueKeys(Looked(map, k)) /\ From(Looked(map, k), map)
<1>0. Len(map) \in Nat
  BY EntryFacts
<1>1. CASE ~Valid(map, k)
  BY <1>0, <1>1, WithoutFacts DEF Looked
<1>2. CASE Valid(map, k)
  <2> DEFINE less == Without(map, k)
             e == At(map, k)
  <2>1. /\ less \in Seq(Entries(K, V)) /\ Len(less) = Len(map) - 1
        /\ UniqueKeys(less) /\ From(less, map) /\ ~Has(less, k)
    BY <1>2, WithoutFacts DEF Valid
  <2>2. /\ e \in Entries(K, V) /\ e.key = k /\ \E i \in DOMAIN map : e = map[i]
    BY <1>2, AtFacts DEF Valid
  <2>3. Looked(map, k) = Append(less, e)
    BY <1>2 DEF Looked
  <2> HIDE DEF less, e
  <2>4. /\ Append(less, e) \in Seq(Entries(K, V)) /\ Len(Append(less, e)) = Len(less) + 1
        /\ UniqueKeys(Append(less, e))
        /\ \A i \in DOMAIN Append(less, e) :
                Append(less, e)[i] = e \/ \E j \in DOMAIN less : Append(less, e)[i] = less[j]
    BY <2>1, <2>2, AppendFacts
  <2>5. From(Append(less, e), map)
    BY <2>1, <2>2, <2>4 DEF From
  <2>6. QED
    BY <1>0, <2>1, <2>3, <2>4, <2>5
<1>3. QED
  BY <1>1, <1>2

\* Map.set
LEMMA PutFacts ==
    ASSUME NEW K, NEW V, NEW map \in Seq(Entries(K, V)), NEW e \in Entries(K, V),
           UniqueKeys(map)
    PROVE  /\ Put(map, e) \in Seq(Entries(K, V))
           /\ Len(Put(map, e)) = IF Has(map, e.key) THEN Len(map) ELSE Len(map) + 1
           /\ UniqueKeys(Put(map, e))
           /\ \A i \in DOMAIN Put(map, e) :
                Put(map, e)[i] = e \/ \E j \in DOMAIN map : Put(map, e)[i] = map[j]
<1>1. CASE ~Has(map, e.key)
  BY <1>1, AppendFacts DEF Put
<1>2. CASE Has(map, e.key)
  <2> DEFINE t == [i \in 1..Len(map) |-> IF map[i].key = e.key THEN e ELSE map[i]]
  <2>1. /\ Len(map) \in Nat /\ DOMAIN map = 1..Len(map)
        /\ \A i \in 1..Len(map) : map[i] \in Entries(K, V)
    BY EntryFacts
  <2>2. Put(map, e) = t
    BY <1>2, <2>1 DEF Put
  <2>3. t \in Seq(Entries(K, V)) /\ Len(t) = Len(map) /\ DOMAIN t = 1..Len(map)
    BY <2>1
  <2>4. \A i \in 1..Len(map) : t[i] = IF map[i].key = e.key THEN e ELSE map[i]
    OBVIOUS
  <2> HIDE DEF t
  <2>5. \A i \in 1..Len(map) : t[i].key = map[i].key
    BY <2>4
  <2>6. UniqueKeys(t)
    BY <2>1, <2>3, <2>5 DEF UniqueKeys
  <2>7. QED
    BY <1>2, <2>1, <2>2, <2>3, <2>4, <2>6
<1>3. QED
  BY <1>1, <1>2

\* What expiry leaves.
LEMMA AgedFacts ==
    ASSUME NEW K, NEW V, NEW map \in Seq(Entries(K, V)), NEW k
    PROVE  LET aged == Aged(map, k) IN
           /\ aged \in Seq(Entries(K, V)) /\ Len(aged) = Len(map)
           /\ DOMAIN aged = DOMAIN map
           /\ \A i \in DOMAIN map :
                aged[i].key = map[i].key /\ aged[i].value = map[i].value
           /\ UniqueKeys(map) => UniqueKeys(aged)
<1> DEFINE aged == Aged(map, k)
<1>1. /\ Len(map) \in Nat /\ DOMAIN map = 1..Len(map)
      /\ \A i \in 1..Len(map) : map[i] \in Entries(K, V)
  BY EntryFacts
<1>2. ASSUME NEW i \in 1..Len(map)
      PROVE  /\ aged[i] \in Entries(K, V)
             /\ aged[i].key = map[i].key /\ aged[i].value = map[i].value
  BY <1>1 DEF Entries, Aged
<1>3. aged \in Seq(Entries(K, V)) /\ Len(aged) = Len(map) /\ DOMAIN aged = DOMAIN map
  BY <1>1, <1>2 DEF Aged
<1> HIDE DEF aged
<1>4. UniqueKeys(map) => UniqueKeys(aged)
  BY <1>1, <1>2, <1>3 DEF UniqueKeys
<1>5. QED
  BY <1>1, <1>2, <1>3, <1>4 DEF aged

-----------------------------------------------------------------------------
(* What the caches are left with.                                          *)

\* cacheSet
LEMMA CachedFacts ==
    ASSUME NEW map \in Seq(Entries(Pages, BOOLEAN)), UniqueKeys(map), Len(map) <= CacheMax,
           NEW p \in Pages, NEW good \in BOOLEAN
    PROVE  LET after == Cached(map, p, good)
           IN  /\ after \in Seq(Entries(Pages, BOOLEAN)) /\ UniqueKeys(after)
               /\ Len(after) <= CacheMax
               /\ \A i \in DOMAIN after :
                    after[i].key # p => \E j \in DOMAIN map : after[i] = map[j]
<1> DEFINE room == IF Len(map) >= CacheMax THEN Tail(map) ELSE map
           e == Entry(p, good)
<1>1. Len(map) \in Nat /\ CacheMax \in Nat \ {0}
  BY EntryFacts, PreviewsAssumption
<1>2. e \in Entries(Pages, BOOLEAN) /\ e.key = p
  BY DEF Entry, Entries
<1>3. /\ room \in Seq(Entries(Pages, BOOLEAN)) /\ UniqueKeys(room) /\ From(room, map)
      /\ Len(room) \in Nat /\ Len(room) + 1 <= CacheMax
  <2>1. CASE Len(map) >= CacheMax
    <3>1. map # <<>>
      BY <1>1, <2>1
    <3>2. QED
      BY <1>1, <2>1, <3>1, TailFacts
  <2>2. CASE ~(Len(map) >= CacheMax)
    BY <1>1, <2>2 DEF From
  <2>3. QED
    BY <2>1, <2>2
<1>4. Cached(map, p, good) = Put(room, e)
  BY DEF Cached
<1> HIDE DEF room, e
<1>5. /\ Put(room, e) \in Seq(Entries(Pages, BOOLEAN)) /\ UniqueKeys(Put(room, e))
      /\ Len(Put(room, e)) = IF Has(room, e.key) THEN Len(room) ELSE Len(room) + 1
      /\ \A i \in DOMAIN Put(room, e) :
            Put(room, e)[i] = e \/ \E j \in DOMAIN room : Put(room, e)[i] = room[j]
  BY <1>2, <1>3, PutFacts
<1>6. QED
  BY <1>1, <1>2, <1>3, <1>4, <1>5 DEF From

\* rememberImage
LEMMA RememberedFacts ==
    ASSUME NEW map \in Seq(Entries(Images, {TRUE})), UniqueKeys(map),
           Len(map) <= 2 * CacheMax, NEW k \in Images \cup {Nil}
    PROVE  /\ Remembered(map, k) \in Seq(Entries(Images, {TRUE}))
           /\ UniqueKeys(Remembered(map, k)) /\ Len(Remembered(map, k)) <= 2 * CacheMax
<1> DEFINE less == Without(map, k)
           e == Entry(k, TRUE)
           m == Append(less, e)
<1>1. CASE k = Nil
  BY <1>1 DEF Remembered
<1>2. CASE k # Nil
  <2>1. /\ less \in Seq(Entries(Images, {TRUE})) /\ UniqueKeys(less) /\ ~Has(less, k)
        /\ Len(less) <= 2 * CacheMax /\ Len(less) \in Nat
        /\ Len(map) \in Nat /\ CacheMax \in Nat \ {0}
    BY WithoutFacts, EntryFacts, PreviewsAssumption
  <2>2. e \in Entries(Images, {TRUE}) /\ e.key = k
    BY <1>2 DEF Entry, Entries
  <2> HIDE DEF less, e
  <2>3. /\ m \in Seq(Entries(Images, {TRUE})) /\ UniqueKeys(m) /\ Len(m) = Len(less) + 1
    BY <2>1, <2>2, AppendFacts
  <2>4. Remembered(map, k) = IF Len(m) > 2 * CacheMax THEN Tail(m) ELSE m
    BY <1>2 DEF Remembered, less, e
  <2>5. CASE Len(m) > 2 * CacheMax
    <3> HIDE DEF m
    <3>1. m # <<>>
      BY <2>1, <2>3
    <3>2. QED
      BY <2>1, <2>3, <2>4, <2>5, <3>1, TailFacts
  <2>6. CASE ~(Len(m) > 2 * CacheMax)
    <3> HIDE DEF m
    <3> QED
      BY <2>1, <2>3, <2>4, <2>6
  <2>7. QED
    BY <2>5, <2>6
<1>3. QED
  BY <1>1, <1>2

\* Looking an image up leaves no more than there was.
LEMMA SizeOfLooked ==
    ASSUME NEW map, Sized(map), UniqueKeys(map), NEW k
    PROVE  Size(Looked(map, k)) <= Size(map)
<1>0. Size(map) \in Nat
  BY SizesAreNumbers DEF Size
<1>1. CASE ~Has(map, k)
  BY <1>0, <1>1 DEF Looked, Valid, Without
<1>2. CASE Has(map, k)
  <2> DEFINE j == CHOOSE i \in DOMAIN map : map[i].key = k
  <2>1. j \in DOMAIN map /\ Without(map, k) = RemoveAt(map, j) /\ At(map, k) = map[j]
    BY <1>2 DEF Has, Without, At
  <2> HIDE DEF j
  <2>2. Size(Without(map, k)) = Size(map) - map[j].value
    BY <2>1, SizeOfRemoveAt
  <2>3. map[j].value \in Nat /\ map[j] \in Entries(Images, 1..ImageMax)
    BY <2>1, EntryFacts, EntriesAreSized, PreviewsAssumption DEF Sized
  <2>4. Sized(Without(map, k))
    BY WithoutFacts DEF Sized
  <2>5. Size(Append(Without(map, k), map[j])) = Size(Without(map, k)) + map[j].value
    BY <2>3, <2>4, SizeOfAppend
  <2>6. Looked(map, k) = IF Valid(map, k) THEN Append(Without(map, k), map[j])
                         ELSE Without(map, k)
    BY <2>1 DEF Looked
  <2>7. QED
    BY <1>0, <2>2, <2>3, <2>5, <2>6
<1>3. QED
  BY <1>1, <1>2

\* Putting n bytes in adds n at most, and they are in.
LEMMA SizeOfPut ==
    ASSUME NEW map, Sized(map), UniqueKeys(map), NEW e \in Entries(Images, 1..ImageMax)
    PROVE  /\ Sized(Put(map, e)) /\ UniqueKeys(Put(map, e))
           /\ e.value <= Size(Put(map, e)) /\ Size(Put(map, e)) <= Size(map) + e.value
<1>1. Sized(Put(map, e)) /\ UniqueKeys(Put(map, e))
  BY PutFacts DEF Sized
<1>2. Size(map) \in Nat /\ e.value \in Nat
  BY SizesAreNumbers, PreviewsAssumption DEF Size, Entries
<1>3. CASE ~Has(map, e.key)
  <2>1. Size(Put(map, e)) = Size(map) + e.value
    BY <1>3, SizeOfAppend DEF Put
  <2>2. QED
    BY <1>1, <1>2, <2>1
<1>4. CASE Has(map, e.key)
  <2> DEFINE other == Put(map, e)
  <2>1. PICK j \in DOMAIN map : map[j].key = e.key
    BY <1>4 DEF Has
  <2>2. DOMAIN map = 1..Len(map) /\ Len(other) = Len(map)
    BY <1>4, PutFacts DEF Sized
  <2>3. \A k \in 1..Len(map) : other[k] = IF map[k].key = e.key THEN e ELSE map[k]
    BY <1>4, <2>2 DEF Put
  <2>4. other[j] = e /\ \A k \in 1..Len(map) : k # j => other[k] = map[k]
    BY <2>1, <2>2, <2>3 DEF UniqueKeys
  <2> HIDE DEF other
  <2>5. Size(other) = Size(map) - map[j].value + other[j].value
    BY <1>1, <2>2, <2>4, SizeOfReplaced DEF other
  <2>6. Size(RemoveAt(map, j)) = Size(map) - map[j].value
    BY SizeOfRemoveAt
  <2>7. Size(RemoveAt(map, j)) \in Nat
    BY RemovedFacts, SizesAreNumbers DEF Size, Sized
  <2>8. map[j].value \in Nat
    BY <2>2, EntriesAreSized, PreviewsAssumption
  <2>9. QED
    BY <1>1, <1>2, <2>4, <2>5, <2>6, <2>7, <2>8 DEF other
<1>5. QED
  BY <1>3, <1>4

\* imageCacheSet's loop stops, with the count above what is left and within its limit.
LEMMA EvictedFacts ==
    ASSUME NEW map, Sized(map), UniqueKeys(map), NEW n \in Nat,
           Size(map) <= n, n <= ImageCacheMax + Size(map)
    PROVE  LET after == Evicted(map, n)
           IN  /\ Sized(after.map) /\ UniqueKeys(after.map)
               /\ after.bytes \in Nat
               /\ Size(after.map) <= after.bytes /\ after.bytes <= ImageCacheMax
<1> DEFINE After(i) == [map |-> SubSeq(map, i + 1, Len(map)), bytes |-> n - SizeTo(map)[i]]
           Enough(i) == After(i).bytes <= ImageCacheMax \/ i = Len(map)
           First(i) == Enough(i) /\ \A j \in 0..(i - 1) : ~Enough(j)
           T == {i \in 0..Len(map) : \A j \in 0..i : ~First(j)}
<1>1. Len(map) \in Nat /\ \A i \in 0..Len(map) : SizeTo(map)[i] \in Nat
  BY SizesAreNumbers
<1>2. \E i \in 0..Len(map) : First(i)
  <2>1. SUFFICES ASSUME \A i \in 0..Len(map) : ~First(i) PROVE FALSE
    OBVIOUS
  <2> DEFINE U == {i \in 0..Len(map) : \A j \in 0..i : ~Enough(j)}
  <2> HIDE DEF Enough
  <2>2. 0 \in U
    <3>1. ~First(0) /\ 0 \in 0..Len(map) /\ 0..(0 - 1) = {} /\ 0..0 = {0}
      BY <1>1, <2>1
    <3>2. QED
      BY <3>1
  <2>3. ASSUME NEW i \in 1..Len(map), i - 1 \in U PROVE i \in U
    <3>1. ~First(i) /\ \A j \in 0..(i - 1) : ~Enough(j)
      BY <1>1, <2>1, <2>3
    <3>2. ~Enough(i)
      BY <3>1
    <3>3. \A j \in 0..i : j = i \/ j \in 0..(i - 1)
      BY <1>1
    <3>4. QED
      BY <1>1, <3>1, <3>2, <3>3
  <2>4. 0..Len(map) \subseteq U
    <3> HIDE DEF U
    <3> QED
      BY <1>1, <2>2, <2>3, UpTo
  <2>5. ~Enough(Len(map))
    BY <1>1, <2>4
  <2>6. QED
    BY <2>5 DEF Enough
<1> DEFINE i == CHOOSE k \in 0..Len(map) : First(k)
<1>3. i \in 0..Len(map) /\ First(i)
  <2> HIDE DEF First
  <2> QED
    BY <1>2
<1>4. Evicted(map, n) = After(i)
  BY DEF Evicted
<1> HIDE DEF i
<1>5. Enough(i)
  BY <1>3
<1>6. Size(After(i).map) = Size(map) - SizeTo(map)[i]
  BY <1>3, SizeOfSuffix
<1>7. Sized(After(i).map) /\ UniqueKeys(After(i).map)
  <2>1. /\ SubSeq(map, i + 1, Len(map)) \in Seq(Entries(Images, 1..ImageMax))
        /\ UniqueKeys(SubSeq(map, i + 1, Len(map)))
    <3> HIDE DEF First
    <3> QED
      BY <1>3, SuffixFacts DEF Sized
  <2>2. QED
    BY <2>1 DEF Sized
<1>8. Size(After(i).map) \in Nat
  BY <1>7, SizeIsANumber
<1>9. SizeTo(map)[i] \in Nat /\ Size(map) \in Nat /\ ImageCacheMax \in Nat
  BY <1>1, <1>3, PreviewsAssumption DEF Size
<1>10. n - SizeTo(map)[i] <= ImageCacheMax
  <2>1. CASE i = Len(map)
    BY <1>9, <2>1 DEF Size
  <2>2. CASE i # Len(map)
    BY <1>5, <2>2
  <2>3. QED
    BY <2>1, <2>2
<1>11. After(i).bytes = n - SizeTo(map)[i]
  OBVIOUS
<1>12. QED
  <2> HIDE DEF After
  <2> QED
    BY <1>4, <1>6, <1>7, <1>8, <1>9, <1>10, <1>11

-----------------------------------------------------------------------------
(* Queues of requests.                                                     *)

LEMMA TakenFirst ==
    ASSUME NEW S, NEW s \in Seq(S), s # <<>>, IsInjective(s)
    PROVE  /\ Head(s) \in ToSet(s) /\ Tail(s) \in Seq(S) /\ Len(Tail(s)) = Len(s) - 1
           /\ ToSet(Tail(s)) = ToSet(s) \ {Head(s)} /\ IsInjective(Tail(s))
<1>1. /\ Len(s) \in Nat \ {0} /\ Head(s) = s[1] /\ DOMAIN s = 1..Len(s)
      /\ Tail(s) \in Seq(S) /\ Len(Tail(s)) = Len(s) - 1
      /\ \A i \in 1..(Len(s) - 1) : Tail(s)[i] = s[i + 1]
  OBVIOUS
<1>2. DOMAIN Tail(s) = 1..(Len(s) - 1)
  BY <1>1
<1>3. \A i, j \in 1..Len(s) : s[i] = s[j] => i = j
  BY <1>1 DEF IsInjective
<1>4. IsInjective(Tail(s))
  <2>1. SUFFICES ASSUME NEW i \in 1..(Len(s) - 1), NEW j \in 1..(Len(s) - 1),
                        Tail(s)[i] = Tail(s)[j]
                 PROVE  i = j
    BY <1>2 DEF IsInjective
  <2>2. i + 1 \in 1..Len(s) /\ j + 1 \in 1..Len(s) /\ s[i + 1] = s[j + 1]
    BY <1>1, <2>1
  <2>3. QED
    BY <1>3, <2>2
<1>5. ToSet(Tail(s)) \subseteq ToSet(s) \ {Head(s)}
  <2>1. SUFFICES ASSUME NEW i \in 1..(Len(s) - 1) PROVE Tail(s)[i] \in ToSet(s) \ {Head(s)}
    BY <1>2 DEF ToSet
  <2>2. i + 1 \in 1..Len(s) /\ 1 \in 1..Len(s) /\ i + 1 # 1
    BY <1>1
  <2>3. Tail(s)[i] = s[i + 1] /\ s[i + 1] # s[1]
    BY <1>1, <1>3, <2>2
  <2>4. QED
    BY <1>1, <2>2, <2>3 DEF ToSet
<1>6. ToSet(s) \ {Head(s)} \subseteq ToSet(Tail(s))
  <2>1. SUFFICES ASSUME NEW i \in 1..Len(s), s[i] # Head(s) PROVE s[i] \in ToSet(Tail(s))
    BY <1>1 DEF ToSet
  <2>2. i - 1 \in 1..(Len(s) - 1) /\ (i - 1) + 1 = i
    BY <1>1, <2>1
  <2>3. QED
    BY <1>1, <1>2, <2>2 DEF ToSet
<1>7. Head(s) \in ToSet(s)
  BY <1>1 DEF ToSet
<1>8. QED
  BY <1>1, <1>4, <1>5, <1>6, <1>7

LEMMA PutLast ==
    ASSUME NEW S, NEW s \in Seq(S), NEW x \in S, IsInjective(s), x \notin ToSet(s)
    PROVE  /\ Append(s, x) \in Seq(S) /\ Len(Append(s, x)) = Len(s) + 1
           /\ ToSet(Append(s, x)) = ToSet(s) \cup {x} /\ IsInjective(Append(s, x))
<1> DEFINE t == Append(s, x)
<1>1. /\ t \in Seq(S) /\ Len(t) = Len(s) + 1 /\ t[Len(s) + 1] = x
      /\ \A i \in 1..Len(s) : t[i] = s[i]
  OBVIOUS
<1> HIDE DEF t
<1>2. DOMAIN t = 1..(Len(s) + 1) /\ DOMAIN s = 1..Len(s) /\ Len(s) \in Nat
  BY <1>1
<1>3. \A i \in 1..(Len(s) + 1) : i \in 1..Len(s) \/ i = Len(s) + 1
  BY <1>2
<1>4. IsInjective(t)
  BY <1>1, <1>2, <1>3 DEF IsInjective, ToSet
<1>5. ToSet(t) = ToSet(s) \cup {x}
  <2>1. Len(s) + 1 \in 1..(Len(s) + 1) /\ 1..Len(s) \subseteq 1..(Len(s) + 1)
    BY <1>2
  <2>2. QED
    BY <1>1, <1>2, <1>3, <2>1 DEF ToSet
<1>6. QED
  BY <1>1, <1>4, <1>5 DEF t

\* A slot that is handed on is counted once.
LEMMA CountSwap ==
    ASSUME NEW S, IsFiniteSet(S), NEW x \in S, NEW y, y \notin S
    PROVE  /\ IsFiniteSet((S \ {x}) \cup {y})
           /\ Cardinality((S \ {x}) \cup {y}) = Cardinality(S)
<1>1. /\ IsFiniteSet(S \ {x}) /\ Cardinality(S \ {x}) = Cardinality(S) - 1
      /\ Cardinality(S) \in Nat
  BY FS_RemoveElement, FS_CardinalityType
<1>2. /\ IsFiniteSet((S \ {x}) \cup {y})
      /\ Cardinality((S \ {x}) \cup {y}) = Cardinality(S \ {x}) + 1
  BY <1>1, FS_AddElement
<1>3. QED
  BY <1>1, <1>2

-----------------------------------------------------------------------------
(* The inductive invariant.  A waiter in the queue of globalLimit means     *)
(* that every slot is taken, and one in a user's own that all of hers are:  *)
(* so a slot that is handed on leaves the counts right.                     *)

Mine(u) == {q \in Requests : Requester[q] = u}

Holders == With({"head", "body"}, Requests)

Working(u) == With({"global", "head", "body"}, Mine(u))

GlobalCounted ==
    /\ IsFiniteSet(Holders) /\ active = Cardinality(Holders)
    /\ ToSet(queue) = With({"global"}, Requests) /\ IsInjective(queue)
    /\ queue # <<>> => active = MaxConcurrent

OwnCounted(u) ==
    /\ IsFiniteSet(Working(u)) /\ own[u].active = Cardinality(Working(u))
    /\ ToSet(own[u].waiting) = With({"own"}, Mine(u)) /\ IsInjective(own[u].waiting)
    /\ own[u].waiting # <<>> => own[u].active = MaxPerUser
    /\ u \in limits <=> ~Idle(own[u])

KeptOnce == UniqueKeys(cache) /\ UniqueKeys(known) /\ UniqueKeys(images)

LimitersOK ==
    /\ GlobalCounted
    /\ \A u \in Accounts : OwnCounted(u)

CachesOK == KeptOnce /\ BytesCoverTheCache

PreviewsInv == PreviewsTypeOK /\ LimitersOK /\ CachesOK

LEMMA PreviewsInitInv == PreviewsInit => PreviewsInv
<1> SUFFICES ASSUME PreviewsInit PROVE PreviewsInv
  OBVIOUS
<1> USE PreviewsAssumption
<1>1. PreviewsTypeOK
  <2>1. <<>> \in Seq(Requests) /\ Len(<<>>) = 0
    OBVIOUS
  <2>2. own \in [Accounts -> [active : 0..MaxPerUser, waiting : Seq(Requests)]]
    BY <2>1 DEF PreviewsInit, NewLimiter
  <2>3. \A u \in Accounts : Len(own[u].waiting) <= MaxQueued
    BY <2>1 DEF PreviewsInit, NewLimiter
  <2>4. /\ cache \in Seq(Entries(Pages, BOOLEAN)) /\ Len(cache) <= CacheMax
        /\ known \in Seq(Entries(Images, {TRUE})) /\ Len(known) <= 2 * CacheMax
        /\ images \in Seq(Entries(Images, 1..ImageMax))
    BY DEF PreviewsInit
  <2>5. QED
    BY <2>1, <2>2, <2>3, <2>4 DEF PreviewsInit, PreviewsTypeOK, Stages
<1>2. ToSet(<<>>) = {} /\ IsInjective(<<>>)
  BY DEF ToSet, IsInjective
<1>3. IsFiniteSet({}) /\ Cardinality({}) = 0
  BY FS_EmptySet
<1>4. Holders = {} /\ With({"global"}, Requests) = {}
  BY DEF PreviewsInit, Holders, With
<1>5. ASSUME NEW u \in Accounts PROVE OwnCounted(u)
  <2>1. Working(u) = {} /\ With({"own"}, Mine(u)) = {}
    BY DEF PreviewsInit, Working, With, Mine
  <2>2. own[u].active = 0 /\ own[u].waiting = <<>> /\ u \notin limits
    BY DEF PreviewsInit, NewLimiter
  <2>3. QED
    BY <1>2, <1>3, <2>1, <2>2 DEF OwnCounted, Idle
<1>6. LimitersOK
  BY <1>2, <1>3, <1>4, <1>5 DEF LimitersOK, GlobalCounted, PreviewsInit
<1>7. CachesOK
  <2>1. Size(<<>>) = 0
    <3>1. Len(<<>>) = 0 /\ Sums(SizeTo(<<>>), <<>>)
      BY SizeToSums
    <3>2. QED
      BY <3>1 DEF Size, Sums
  <2>2. QED
    BY <2>1 DEF CachesOK, KeptOnce, UniqueKeys, BytesCoverTheCache, PreviewsInit
<1>8. QED
  BY <1>1, <1>6, <1>7 DEF PreviewsInv

-----------------------------------------------------------------------------
(* What a request does to the limiters.                                    *)

LEMMA LimiterTypes ==
    ASSUME PreviewsTypeOK
    PROVE  /\ \A u \in Accounts :
                /\ own[u].active \in 0..MaxPerUser /\ own[u].waiting \in Seq(Requests)
                /\ own[u] = [active |-> own[u].active, waiting |-> own[u].waiting]
                /\ Len(own[u].waiting) \in Nat /\ Len(own[u].waiting) <= MaxQueued
           /\ active \in Nat /\ active <= MaxConcurrent /\ queue \in Seq(Requests)
           /\ \A q \in Requests : Requester[q] \in Accounts /\ stage[q] \in Stages
  BY PreviewsAssumption DEF PreviewsTypeOK

LEMMA OwnIsOwn ==
    ASSUME PreviewsTypeOK, LimitersOK, NEW u \in Accounts
    PROVE  Own(u) = own[u]
<1>1. CASE u \in limits
  BY <1>1 DEF Own
<1>2. CASE u \notin limits
  <2>1. own[u].active = 0 /\ own[u].waiting = <<>>
    BY <1>2 DEF LimitersOK, OwnCounted, Idle
  <2>2. own[u] = NewLimiter
    BY <2>1, LimiterTypes DEF NewLimiter
  <2>3. QED
    BY <1>2, <2>2 DEF Own
<1>3. QED
  BY <1>1, <1>2

LEMMA LimiterParts ==
    ASSUME NEW l, NEW n, NEW w, l = [active |-> l.active, waiting |-> l.waiting]
    PROVE  /\ [l EXCEPT !.active = n] = [active |-> n, waiting |-> l.waiting]
           /\ [l EXCEPT !.waiting = w] = [active |-> l.active, waiting |-> w]
<1> DEFINE x == l.active
           y == l.waiting
<1>1. l = [active |-> x, waiting |-> y]
  OBVIOUS
<1> HIDE DEF x, y
<1>2. /\ [l EXCEPT !.active = n] = [active |-> n, waiting |-> y]
      /\ [l EXCEPT !.waiting = w] = [active |-> x, waiting |-> w]
  BY <1>1
<1>3. QED
  BY <1>2 DEF x, y

\* What the fields of a limiter become.
LimiterBecomes(u, n, w) ==
    own' = [own EXCEPT ![u] = [active |-> n, waiting |-> w]]

\* The stages after, with the queue and the count of globalLimit.
Becomes(q, t, n, w) ==
    /\ active' = n /\ queue' = w
    /\ target' = [target EXCEPT ![q] = t]

\* A request with a slot of both, one waiting for globalLimit, one for its own,
\* and one refused.
Admitted(q, t) ==
    LET u == Requester[q]
        l == own[u]
    IN  /\ l.active < MaxPerUser
        /\ LimiterBecomes(u, l.active + 1, l.waiting)
        /\ limits' = limits \cup {u}
        /\ \/ /\ active < MaxConcurrent
              /\ Becomes(q, t, active + 1, queue)
              /\ stage' = [stage EXCEPT ![q] = "head"]
           \/ /\ active = MaxConcurrent
              /\ Becomes(q, t, active, Append(queue, q))
              /\ stage' = [stage EXCEPT ![q] = "global"]

Queued(q, t) ==
    LET u == Requester[q]
        l == own[u]
    IN  /\ l.active = MaxPerUser /\ Len(l.waiting) < MaxQueued
        /\ LimiterBecomes(u, l.active, Append(l.waiting, q))
        /\ Becomes(q, t, active, queue)
        /\ stage' = [stage EXCEPT ![q] = "own"]
        /\ UNCHANGED limits

LEMMA AcquireCases ==
    ASSUME PreviewsTypeOK, LimitersOK, NEW q \in Requests, NEW t, stage[q] = "out",
           Acquire(q, t)
    PROVE  \/ Admitted(q, t) \/ Queued(q, t)
           \/ UNCHANGED <<limiterVars, stage, target>>
<1> DEFINE u == Requester[q]
           l == own[u]
           g == GlobalRun(L, q)
<1>1. /\ u \in Accounts /\ Own(u) = l /\ l.active \in 0..MaxPerUser
      /\ l.waiting \in Seq(Requests) /\ Len(l.waiting) \in Nat
      /\ l = [active |-> l.active, waiting |-> l.waiting]
      /\ active \in Nat /\ active <= MaxConcurrent /\ queue \in Seq(Requests)
      /\ MaxPerUser \in Nat \ {0} /\ MaxConcurrent \in Nat \ {0} /\ MaxQueued \in Nat
  BY LimiterTypes, OwnIsOwn, PreviewsAssumption
<1>2. Full(u) <=> l.active = MaxPerUser
  BY <1>1 DEF Full
<1>3. CASE ~Full(u) /\ own' = [own EXCEPT ![u] = [l EXCEPT !.active = @ + 1]]
           /\ limits' = limits \cup {u} /\ active' = g.active /\ queue' = g.queue
           /\ stage' = [stage EXCEPT ![q] = StageIn(g, q)]
           /\ target' = [target EXCEPT ![q] = t]
  <2>1. l.active < MaxPerUser
    BY <1>1, <1>2, <1>3
  <2>2. LimiterBecomes(u, l.active + 1, l.waiting)
    <3> HIDE DEF u
    <3>1. [l EXCEPT !.active = @ + 1] = [active |-> l.active + 1, waiting |-> l.waiting]
      BY <1>1
    <3>2. QED
      BY <1>3, <3>1 DEF LimiterBecomes
  <2>3. CASE active < MaxConcurrent
    <3>1. g.active = active + 1 /\ g.queue = queue /\ queue = <<>>
      BY <1>1, <2>3 DEF GlobalRun, L, LimitersOK, GlobalCounted
    <3>2. StageIn(g, q) = "head"
      BY <3>1 DEF StageIn
    <3>3. QED
      BY <1>3, <2>1, <2>2, <2>3, <3>1, <3>2 DEF Admitted, Becomes
  <2>4. CASE ~(active < MaxConcurrent)
    <3>1. g.active = active /\ g.queue = Append(queue, q) /\ active = MaxConcurrent
      BY <1>1, <2>4 DEF GlobalRun, L
    <3>2. Append(queue, q)[Len(queue) + 1] = q
          /\ Len(queue) + 1 \in DOMAIN Append(queue, q)
      BY <1>1
    <3>3. StageIn(g, q) = "global"
      BY <3>1, <3>2 DEF StageIn
    <3>4. QED
      BY <1>3, <2>1, <2>2, <3>1, <3>3 DEF Admitted, Becomes
  <2>5. QED
    BY <2>3, <2>4
<1>4. CASE Full(u) /\ ~Refused(u)
           /\ own' = [own EXCEPT ![u] = [l EXCEPT !.waiting = Append(@, q)]]
           /\ stage' = [stage EXCEPT ![q] = "own"] /\ target' = [target EXCEPT ![q] = t]
           /\ UNCHANGED <<active, queue, limits>>
  <2>1. l.active = MaxPerUser /\ Len(l.waiting) < MaxQueued
    BY <1>1, <1>2, <1>4 DEF Refused
  <2>2. LimiterBecomes(u, l.active, Append(l.waiting, q))
    <3> HIDE DEF u
    <3>1. [l EXCEPT !.waiting = Append(@, q)]
            = [active |-> l.active, waiting |-> Append(l.waiting, q)]
      BY <1>1, LimiterParts
    <3>2. QED
      BY <1>4, <3>1 DEF LimiterBecomes
  <2>3. QED
    BY <1>4, <2>1, <2>2 DEF Queued, Becomes
<1>5. QED
  BY <1>1, <1>3, <1>4 DEF Acquire

LEMMA ReleaseCases ==
    ASSUME PreviewsTypeOK, LimitersOK, NEW q \in Requests, Fetching(q), Release(q)
    PROVE  LET u == Requester[q]
               l == own[u]
               next == Head(l.waiting)
           IN  /\ limits' = Kept(u, own'[u])
               /\ target' = [target EXCEPT ![q] = Nil]
               /\ \/ /\ l.waiting = <<>>
                     /\ LimiterBecomes(u, l.active - 1, <<>>)
                  \/ /\ l.waiting # <<>>
                     /\ LimiterBecomes(u, l.active, Tail(l.waiting))
               /\ \/ /\ queue = <<>> /\ l.waiting = <<>>
                     /\ active' = active - 1 /\ queue' = <<>>
                     /\ stage' = [stage EXCEPT ![q] = "out"]
                  \/ /\ queue = <<>> /\ l.waiting # <<>>
                     /\ active' = active /\ queue' = <<>>
                     /\ stage' = [stage EXCEPT ![q] = "out", ![next] = "head"]
                  \/ /\ queue # <<>> /\ l.waiting = <<>>
                     /\ active' = active /\ queue' = Tail(queue)
                     /\ stage' = [stage EXCEPT ![q] = "out", ![Head(queue)] = "head"]
                  \/ /\ queue # <<>> /\ l.waiting # <<>>
                     /\ active' = active /\ queue' = Append(Tail(queue), next)
                     /\ stage' = [stage EXCEPT ![q] = "out", ![Head(queue)] = "head",
                                                ![next] = "global"]
<1> DEFINE u == Requester[q]
           l == own[u]
           next == Head(l.waiting)
           h == Head(queue)
           g1 == GlobalDone(L)
           g2 == IF l.waiting = <<>> THEN g1 ELSE GlobalRun(g1, next)
           l2 == IF l.waiting = <<>> THEN [l EXCEPT !.active = @ - 1]
                 ELSE [l EXCEPT !.waiting = Tail(@)]
<1>1. /\ u \in Accounts /\ l.active \in 0..MaxPerUser
      /\ l.waiting \in Seq(Requests) /\ l = [active |-> l.active, waiting |-> l.waiting]
      /\ active \in Nat /\ active <= MaxConcurrent /\ queue \in Seq(Requests)
      /\ MaxConcurrent \in Nat \ {0}
  BY LimiterTypes, PreviewsAssumption
<1>2. /\ own' = [own EXCEPT ![u] = l2] /\ limits' = Kept(u, l2)
      /\ active' = g2.active /\ queue' = g2.queue
      /\ target' = [target EXCEPT ![q] = Nil]
      /\ stage' = [r \in Requests |->
                IF r = q THEN "out"
                ELSE IF queue # <<>> /\ r = h THEN "head"
                ELSE IF l.waiting # <<>> /\ r = next THEN StageIn(g2, r)
                ELSE stage[r]]
  BY DEF Release
<1>3. /\ stage \in [Requests -> Stages]
      /\ own \in [Accounts -> [active : 0..MaxPerUser, waiting : Seq(Requests)]]
  BY DEF PreviewsTypeOK
<1>4. l2 = IF l.waiting = <<>> THEN [active |-> l.active - 1, waiting |-> <<>>]
           ELSE [active |-> l.active, waiting |-> Tail(l.waiting)]
  BY <1>1, LimiterParts
<1>5. /\ limits' = Kept(u, own'[u])
      /\ \/ l.waiting = <<>> /\ LimiterBecomes(u, l.active - 1, <<>>)
         \/ l.waiting # <<>> /\ LimiterBecomes(u, l.active, Tail(l.waiting))
  <2>1. own'[u] = l2
    BY <1>1, <1>2, <1>3
  <2> HIDE DEF l2
  <2>2. QED
    BY <1>2, <1>4, <2>1 DEF LimiterBecomes
<1>6. ASSUME queue # <<>>
      PROVE  h \in Requests /\ stage[h] = "global" /\ h # q /\ active = MaxConcurrent
  <2>1. h \in ToSet(queue)
    BY <1>1, <1>6, TakenFirst DEF LimitersOK, GlobalCounted
  <2>2. QED
    BY <1>6, <2>1 DEF LimitersOK, GlobalCounted, With, Fetching
<1>7. ASSUME l.waiting # <<>> PROVE next \in Requests /\ stage[next] = "own" /\ next # q
  <2>1. OwnCounted(u)
    BY <1>1 DEF LimitersOK
  <2>2. next \in ToSet(l.waiting)
    BY <1>1, <1>7, <2>1, TakenFirst DEF OwnCounted
  <2>3. QED
    BY <2>1, <2>2 DEF OwnCounted, With, Fetching, Mine
<1>8. active - 1 < MaxConcurrent
  BY <1>1
<1>9. CASE queue = <<>> /\ l.waiting = <<>>
  <2>1. active' = active - 1 /\ queue' = <<>>
    BY <1>2, <1>9 DEF GlobalDone, L
  <2>2. stage' = [stage EXCEPT ![q] = "out"]
    BY <1>2, <1>3, <1>9
  <2>3. QED
    BY <1>2, <1>5, <1>9, <2>1, <2>2
<1>10. CASE queue = <<>> /\ l.waiting # <<>>
  <2>1. g1.active = active - 1 /\ g1.queue = <<>>
    BY <1>10 DEF GlobalDone, L
  <2> HIDE DEF g1
  <2>2. g2.active = active /\ g2.queue = <<>>
    BY <1>1, <1>8, <1>10, <2>1 DEF GlobalRun
  <2>3. StageIn(g2, next) = "head"
    BY <2>2 DEF StageIn
  <2> HIDE DEF g2
  <2>4. stage' = [stage EXCEPT ![q] = "out", ![next] = "head"]
    BY <1>2, <1>3, <1>7, <1>10, <2>3
  <2>5. QED
    BY <1>2, <1>5, <1>10, <2>2, <2>4
<1>11. CASE queue # <<>> /\ l.waiting = <<>>
  <2>1. active' = active /\ queue' = Tail(queue)
    BY <1>2, <1>11 DEF GlobalDone, L
  <2>2. stage' = [stage EXCEPT ![q] = "out", ![h] = "head"]
    <3> HIDE DEF h, l
    <3> QED
      BY <1>2, <1>3, <1>6, <1>11
  <2>3. QED
    BY <1>2, <1>5, <1>11, <2>1, <2>2
<1>12. CASE queue # <<>> /\ l.waiting # <<>>
  <2>1. g1.active = active /\ g1.queue = Tail(queue)
    BY <1>12 DEF GlobalDone, L
  <2> HIDE DEF g1
  <2>2. g2.active = active /\ g2.queue = Append(Tail(queue), next)
    BY <1>1, <1>6, <1>12, <2>1 DEF GlobalRun
  <2>3. Tail(queue) \in Seq(Requests)
    BY <1>1, <1>12
  <2>4. StageIn(g2, next) = "global"
    <3> DEFINE t == Tail(queue)
    <3>1. Append(t, next)[Len(t) + 1] = next /\ Len(t) + 1 \in DOMAIN Append(t, next)
      <4> HIDE DEF t
      <4> QED
        BY <1>7, <1>12, <2>3 DEF t
    <3>2. QED
      BY <2>2, <3>1 DEF StageIn
  <2> HIDE DEF g2
  <2>5. stage' = [stage EXCEPT ![q] = "out", ![h] = "head", ![next] = "global"]
    <3>1. h # next
      BY <1>6, <1>7, <1>12
    <3> HIDE DEF h, next, l
    <3>2. QED
      BY <1>2, <1>3, <1>6, <1>7, <1>12, <2>4, <3>1
  <2>6. QED
    BY <1>2, <1>5, <1>12, <2>2, <2>5
<1>13. QED
  BY <1>9, <1>10, <1>11, <1>12

-----------------------------------------------------------------------------
(* The counts are kept.                                                    *)

LimitersTyped ==
    /\ stage \in [Requests -> Stages]
    /\ target \in [Requests -> Pages \cup Images \cup {Nil}]
    /\ active \in 0..MaxConcurrent
    /\ queue \in Seq(Requests)
    /\ own \in [Accounts -> [active : 0..MaxPerUser, waiting : Seq(Requests)]]
    /\ \A u \in Accounts : Len(own[u].waiting) <= MaxQueued
    /\ limits \subseteq Accounts

CachesTyped ==
    /\ cache \in Seq(Entries(Pages, BOOLEAN)) /\ Len(cache) <= CacheMax
    /\ known \in Seq(Entries(Images, {TRUE})) /\ Len(known) <= 2 * CacheMax
    /\ images \in Seq(Entries(Images, 1..ImageMax))
    /\ bytes \in Nat

LEMMA TypesAreBoth == PreviewsTypeOK <=> LimitersTyped /\ CachesTyped
  BY DEF PreviewsTypeOK, LimitersTyped, CachesTyped

\* A user whose requests stay where they are, or leave the queue for a slot.
LEMMA OwnUntouched ==
    ASSUME NEW v \in Accounts, OwnCounted(v), own'[v] = own[v], v \in limits' <=> v \in limits,
           \A r \in Mine(v) :
              /\ stage'[r] \in {"global", "head", "body"}
                    <=> stage[r] \in {"global", "head", "body"}
              /\ stage'[r] = "own" <=> stage[r] = "own"
    PROVE  OwnCounted(v)'
<1>1. Working(v)' = Working(v) /\ With({"own"}, Mine(v))' = With({"own"}, Mine(v))
  BY DEF Working, With, Mine
<1>2. Idle(own[v])' <=> Idle(own[v])
  BY DEF Idle
<1>3. QED
  BY <1>1, <1>2 DEF OwnCounted

\* What a limiter's fields are after.
LEMMA BecomesTyped ==
    ASSUME PreviewsTypeOK, NEW u \in Accounts, NEW n \in 0..MaxPerUser,
           NEW w \in Seq(Requests), Len(w) <= MaxQueued, LimiterBecomes(u, n, w)
    PROVE  /\ own'[u].active = n /\ own'[u].waiting = w
           /\ \A v \in Accounts : v # u => own'[v] = own[v]
           /\ own' \in [Accounts -> [active : 0..MaxPerUser, waiting : Seq(Requests)]]
           /\ \A v \in Accounts : Len(own'[v].waiting) <= MaxQueued
<1> DEFINE l == [active |-> n, waiting |-> w]
<1>1. /\ own \in [Accounts -> [active : 0..MaxPerUser, waiting : Seq(Requests)]]
      /\ l \in [active : 0..MaxPerUser, waiting : Seq(Requests)]
      /\ l.active = n /\ l.waiting = w
  BY DEF PreviewsTypeOK
<1>2. own' = [own EXCEPT ![u] = l]
  BY DEF LimiterBecomes
<1> HIDE DEF l
<1>3. own'[u] = l /\ \A v \in Accounts : v # u => own'[v] = own[v]
  BY <1>1, <1>2
<1>4. own' \in [Accounts -> [active : 0..MaxPerUser, waiting : Seq(Requests)]]
  BY <1>1, <1>2
<1>5. \A v \in Accounts : Len(own'[v].waiting) <= MaxQueued
  <2>1. \A v \in Accounts : Len(own[v].waiting) <= MaxQueued
    BY DEF PreviewsTypeOK
  <2>2. QED
    BY <1>1, <1>3, <2>1
<1>6. QED
  BY <1>1, <1>3, <1>4, <1>5

LEMMA AdmittedKeeps ==
    ASSUME PreviewsTypeOK, LimitersOK, NEW q \in Requests, stage[q] = "out",
           NEW t \in Pages \cup Images, Admitted(q, t)
    PROVE  LimitersTyped' /\ LimitersOK'
<1> DEFINE u == Requester[q]
           l == own[u]
<1>1. /\ u \in Accounts /\ l.active \in 0..MaxPerUser /\ l.waiting \in Seq(Requests)
      /\ Len(l.waiting) <= MaxQueued /\ queue \in Seq(Requests)
      /\ active \in Nat /\ active <= MaxConcurrent
      /\ MaxPerUser \in Nat \ {0} /\ MaxConcurrent \in Nat \ {0}
  BY LimiterTypes, PreviewsAssumption
<1>2. GlobalCounted /\ \A v \in Accounts : OwnCounted(v)
  BY DEF LimitersOK
<1>3. /\ l.active < MaxPerUser /\ LimiterBecomes(u, l.active + 1, l.waiting)
      /\ limits' = limits \cup {u}
  BY DEF Admitted
<1>4. l.active + 1 \in 0..MaxPerUser
  BY <1>1, <1>3
<1>5. /\ own'[u].active = l.active + 1 /\ own'[u].waiting = l.waiting
      /\ \A v \in Accounts : v # u => own'[v] = own[v]
      /\ own' \in [Accounts -> [active : 0..MaxPerUser, waiting : Seq(Requests)]]
      /\ \A v \in Accounts : Len(own'[v].waiting) <= MaxQueued
  BY <1>1, <1>3, <1>4, BecomesTyped
<1>6. /\ stage \in [Requests -> Stages] /\ limits \subseteq Accounts
      /\ target \in [Requests -> Pages \cup Images \cup {Nil}]
  BY DEF PreviewsTypeOK
<1>7. /\ stage' \in [Requests -> Stages] /\ stage'[q] \in {"global", "head"}
      /\ \A r \in Requests : r # q => stage'[r] = stage[r]
  BY <1>6 DEF Admitted, Stages
<1>8. target' \in [Requests -> Pages \cup Images \cup {Nil}]
  BY <1>6 DEF Admitted, Becomes
<1>9. OwnCounted(u)'
  <2>1. q \in Mine(u) /\ Working(u)' = Working(u) \cup {q} /\ q \notin Working(u)
    BY <1>7 DEF Working, With, Mine
  <2>2. With({"own"}, Mine(u))' = With({"own"}, Mine(u))
    BY <1>7 DEF With, Mine
  <2>3. IsFiniteSet(Working(u)') /\ Cardinality(Working(u)') = Cardinality(Working(u)) + 1
    BY <1>1, <1>2, <2>1, FS_AddElement DEF OwnCounted
  <2>4. l.waiting = <<>>
    BY <1>1, <1>2, <1>3 DEF OwnCounted
  <2>5. u \in limits' /\ own'[u].active # 0
    BY <1>1, <1>3, <1>5
  <2>6. ~Idle(own[u])'
    BY <2>5 DEF Idle
  <2>7. QED
    BY <1>1, <1>2, <1>5, <2>2, <2>3, <2>4, <2>5, <2>6 DEF OwnCounted
<1>10. ASSUME NEW v \in Accounts, v # u PROVE OwnCounted(v)'
  <2>1. \A r \in Mine(v) : stage'[r] = stage[r]
    BY <1>7, <1>10 DEF Mine
  <2>2. QED
    BY <1>2, <1>3, <1>5, <1>10, <2>1, OwnUntouched
<1>11. q \notin ToSet(queue) /\ q \notin Holders
  BY <1>2 DEF GlobalCounted, With, Holders
<1>12. CASE active < MaxConcurrent /\ Becomes(q, t, active + 1, queue)
            /\ stage' = [stage EXCEPT ![q] = "head"]
  <2>1. stage'[q] = "head"
    BY <1>6, <1>12
  <2>2. Holders' = Holders \cup {q} /\ With({"global"}, Requests)' = With({"global"}, Requests)
    BY <1>7, <2>1 DEF Holders, With
  <2>3. IsFiniteSet(Holders') /\ Cardinality(Holders') = Cardinality(Holders) + 1
    BY <1>2, <1>11, <2>2, FS_AddElement DEF GlobalCounted
  <2>4. active' = active + 1 /\ queue' = queue /\ queue = <<>>
    BY <1>1, <1>2, <1>12 DEF Becomes, GlobalCounted
  <2>5. GlobalCounted'
    BY <1>2, <2>2, <2>3, <2>4 DEF GlobalCounted
  <2>6. active' \in 0..MaxConcurrent /\ queue' \in Seq(Requests)
    BY <1>1, <1>12, <2>4
  <2>7. QED
    BY <1>3, <1>5, <1>6, <1>7, <1>8, <1>9, <1>10, <1>1, <2>5, <2>6 DEF LimitersTyped, LimitersOK
<1>13. CASE active = MaxConcurrent /\ Becomes(q, t, active, Append(queue, q))
            /\ stage' = [stage EXCEPT ![q] = "global"]
  <2>1. stage'[q] = "global"
    BY <1>6, <1>13
  <2>2. Holders' = Holders
        /\ With({"global"}, Requests)' = With({"global"}, Requests) \cup {q}
    BY <1>7, <2>1 DEF Holders, With
  <2>3. active' = active /\ queue' = Append(queue, q)
    BY <1>13 DEF Becomes
  <2>4. /\ queue' \in Seq(Requests) /\ ToSet(queue') = ToSet(queue) \cup {q}
        /\ IsInjective(queue')
    BY <1>1, <1>2, <1>11, <2>3, PutLast DEF GlobalCounted
  <2>5. GlobalCounted'
    BY <1>2, <1>13, <2>2, <2>3, <2>4 DEF GlobalCounted
  <2>6. active' \in 0..MaxConcurrent
    BY <1>1, <2>3
  <2>7. QED
    BY <1>3, <1>5, <1>6, <1>7, <1>8, <1>9, <1>10, <1>1, <2>4, <2>5, <2>6
       DEF LimitersTyped, LimitersOK
<1>14. QED
  BY <1>12, <1>13 DEF Admitted

LEMMA QueuedKeeps ==
    ASSUME PreviewsTypeOK, LimitersOK, NEW q \in Requests, stage[q] = "out",
           NEW t \in Pages \cup Images, Queued(q, t)
    PROVE  LimitersTyped' /\ LimitersOK'
<1> DEFINE u == Requester[q]
           l == own[u]
<1>1. /\ u \in Accounts /\ l.active \in 0..MaxPerUser /\ l.waiting \in Seq(Requests)
      /\ Len(l.waiting) \in Nat /\ MaxPerUser \in Nat \ {0} /\ MaxQueued \in Nat
  BY LimiterTypes, PreviewsAssumption
<1>2. GlobalCounted /\ \A v \in Accounts : OwnCounted(v)
  BY DEF LimitersOK
<1>3. /\ l.active = MaxPerUser /\ Len(l.waiting) < MaxQueued /\ limits' = limits
      /\ LimiterBecomes(u, l.active, Append(l.waiting, q))
      /\ active' = active /\ queue' = queue
  BY DEF Queued, Becomes
<1>4. q \notin ToSet(l.waiting)
  BY <1>1, <1>2 DEF OwnCounted, With
<1>5. /\ Append(l.waiting, q) \in Seq(Requests) /\ Len(Append(l.waiting, q)) <= MaxQueued
      /\ ToSet(Append(l.waiting, q)) = ToSet(l.waiting) \cup {q}
      /\ IsInjective(Append(l.waiting, q))
  <2>1. IsInjective(l.waiting)
    BY <1>1, <1>2 DEF OwnCounted
  <2>2. /\ Append(l.waiting, q) \in Seq(Requests)
        /\ Len(Append(l.waiting, q)) = Len(l.waiting) + 1
        /\ ToSet(Append(l.waiting, q)) = ToSet(l.waiting) \cup {q}
        /\ IsInjective(Append(l.waiting, q))
    BY <1>1, <1>4, <2>1, PutLast
  <2>3. QED
    BY <1>1, <1>3, <2>2
<1>6. /\ own'[u].active = l.active /\ own'[u].waiting = Append(l.waiting, q)
      /\ \A v \in Accounts : v # u => own'[v] = own[v]
      /\ own' \in [Accounts -> [active : 0..MaxPerUser, waiting : Seq(Requests)]]
      /\ \A v \in Accounts : Len(own'[v].waiting) <= MaxQueued
  BY <1>1, <1>3, <1>5, BecomesTyped
<1>7. /\ stage \in [Requests -> Stages] /\ limits \subseteq Accounts
      /\ target \in [Requests -> Pages \cup Images \cup {Nil}]
      /\ active \in 0..MaxConcurrent /\ queue \in Seq(Requests)
  BY DEF PreviewsTypeOK
<1>8. /\ stage' \in [Requests -> Stages] /\ stage'[q] = "own"
      /\ \A r \in Requests : r # q => stage'[r] = stage[r]
      /\ target' \in [Requests -> Pages \cup Images \cup {Nil}]
  BY <1>7 DEF Queued, Becomes, Stages
<1>9. OwnCounted(u)'
  <2>1. q \in Mine(u) /\ Working(u)' = Working(u)
    BY <1>8 DEF Working, With, Mine
  <2>2. With({"own"}, Mine(u))' = With({"own"}, Mine(u)) \cup {q}
    BY <1>8 DEF With, Mine
  <2>3. u \in limits /\ own'[u].active # 0
    BY <1>1, <1>2, <1>3, <1>6 DEF OwnCounted, Idle
  <2>4. ~Idle(own[u])'
    BY <2>3 DEF Idle
  <2>5. OwnCounted(u)
    BY <1>1, <1>2
  <2>6. QED
    BY <1>3, <1>5, <1>6, <2>1, <2>2, <2>3, <2>4, <2>5 DEF OwnCounted
<1>10. ASSUME NEW v \in Accounts, v # u PROVE OwnCounted(v)'
  <2>1. \A r \in Mine(v) : stage'[r] = stage[r]
    BY <1>8, <1>10 DEF Mine
  <2>2. QED
    BY <1>2, <1>3, <1>6, <1>10, <2>1, OwnUntouched
<1>11. Holders' = Holders /\ With({"global"}, Requests)' = With({"global"}, Requests)
  BY <1>8 DEF Holders, With
<1>12. GlobalCounted'
  BY <1>2, <1>3, <1>11 DEF GlobalCounted
<1>13. QED
  BY <1>3, <1>6, <1>7, <1>8, <1>9, <1>10, <1>12 DEF LimitersTyped, LimitersOK

LEMMA AcquireKeeps ==
    ASSUME PreviewsTypeOK, LimitersOK, NEW q \in Requests, stage[q] = "out",
           NEW t \in Pages \cup Images, Acquire(q, t)
    PROVE  LimitersTyped' /\ LimitersOK'
<1>1. CASE UNCHANGED <<limiterVars, stage, target>>
  BY <1>1, TypesAreBoth
     DEF limiterVars, LimitersTyped, LimitersOK, GlobalCounted, OwnCounted, Holders, Working,
         With, Idle
<1>2. QED
  BY <1>1, AcquireCases, AdmittedKeeps, QueuedKeeps

\* Who waits first, and where everybody is once q's slots are handed on.
LEMMA Woken ==
    ASSUME PreviewsTypeOK, LimitersOK, NEW q \in Requests, Fetching(q)
    PROVE  /\ queue # <<>> => /\ Head(queue) \in Requests /\ stage[Head(queue)] = "global"
                             /\ active = MaxConcurrent
           /\ LET l == own[Requester[q]]
              IN  l.waiting # <<>> => /\ Head(l.waiting) \in Mine(Requester[q])
                                      /\ stage[Head(l.waiting)] = "own"
                                      /\ l.active = MaxPerUser
<1> DEFINE u == Requester[q]
<1>1. u \in Accounts /\ own[u].waiting \in Seq(Requests) /\ queue \in Seq(Requests)
  BY LimiterTypes
<1>2. GlobalCounted /\ OwnCounted(u)
  BY <1>1 DEF LimitersOK
<1>3. ASSUME queue # <<>>
      PROVE  Head(queue) \in Requests /\ stage[Head(queue)] = "global" /\ active = MaxConcurrent
  <2>1. Head(queue) \in ToSet(queue)
    BY <1>1, <1>2, <1>3, TakenFirst DEF GlobalCounted
  <2>2. QED
    BY <1>2, <1>3, <2>1 DEF GlobalCounted, With
<1>4. ASSUME own[u].waiting # <<>>
      PROVE  /\ Head(own[u].waiting) \in Mine(u) /\ stage[Head(own[u].waiting)] = "own"
             /\ own[u].active = MaxPerUser
  <2>1. Head(own[u].waiting) \in ToSet(own[u].waiting)
    BY <1>1, <1>2, <1>4, TakenFirst DEF OwnCounted
  <2>2. QED
    BY <1>2, <1>4, <2>1 DEF OwnCounted, With
<1>5. QED
  BY <1>3, <1>4

LEMMA ReleaseStages ==
    ASSUME PreviewsTypeOK, LimitersOK, NEW q \in Requests, Fetching(q), Release(q)
    PROVE  LET w == own[Requester[q]].waiting
           IN  /\ stage' \in [Requests -> Stages]
               /\ \A r \in Requests :
                    /\ stage'[r] \in {"head", "body"}
                          <=> \/ r # q /\ stage[r] \in {"head", "body"}
                              \/ queue # <<>> /\ r = Head(queue)
                              \/ queue = <<>> /\ w # <<>> /\ r = Head(w)
                    /\ stage'[r] = "global"
                          <=> \/ stage[r] = "global" /\ ~(queue # <<>> /\ r = Head(queue))
                              \/ queue # <<>> /\ w # <<>> /\ r = Head(w)
                    /\ stage'[r] = "own" <=> stage[r] = "own" /\ ~(w # <<>> /\ r = Head(w))
<1> DEFINE w == own[Requester[q]].waiting
           h == Head(queue)
           next == Head(w)
<1>1. stage \in [Requests -> Stages] /\ stage[q] \in {"head", "body"}
  BY DEF PreviewsTypeOK, Fetching
<1>2. queue # <<>> => h \in Requests /\ stage[h] = "global"
  BY Woken
<1>3. w # <<>> => next \in Requests /\ stage[next] = "own"
  BY Woken DEF Mine
<1>4. \/ queue = <<>> /\ w = <<>> /\ stage' = [stage EXCEPT ![q] = "out"]
      \/ queue = <<>> /\ w # <<>> /\ stage' = [stage EXCEPT ![q] = "out", ![next] = "head"]
      \/ queue # <<>> /\ w = <<>> /\ stage' = [stage EXCEPT ![q] = "out", ![h] = "head"]
      \/ /\ queue # <<>> /\ w # <<>>
         /\ stage' = [stage EXCEPT ![q] = "out", ![h] = "head", ![next] = "global"]
  BY ReleaseCases
<1> HIDE DEF w, h, next
<1>5. stage' \in [Requests -> Stages]
  BY <1>1, <1>4 DEF Stages
<1>6. ASSUME NEW r \in Requests
      PROVE  stage'[r] = IF queue # <<>> /\ r = h THEN "head"
                         ELSE IF w # <<>> /\ r = next
                              THEN IF queue = <<>> THEN "head" ELSE "global"
                         ELSE IF r = q THEN "out" ELSE stage[r]
  <2>1. CASE queue = <<>> /\ w = <<>>
    BY <1>1, <1>4, <2>1
  <2>2. CASE queue = <<>> /\ w # <<>>
    BY <1>1, <1>3, <1>4, <2>2
  <2>3. CASE queue # <<>> /\ w = <<>>
    BY <1>1, <1>2, <1>4, <2>3
  <2>4. CASE queue # <<>> /\ w # <<>>
    <3>1. h # next
      BY <1>2, <1>3, <2>4
    <3>2. QED
      BY <1>1, <1>2, <1>3, <1>4, <2>4, <3>1
  <2>5. QED
    BY <2>1, <2>2, <2>3, <2>4
<1>7. ASSUME NEW r \in Requests
      PROVE  /\ stage'[r] \in {"head", "body"}
                   <=> \/ r # q /\ stage[r] \in {"head", "body"}
                       \/ queue # <<>> /\ r = h
                       \/ queue = <<>> /\ w # <<>> /\ r = next
             /\ stage'[r] = "global"
                   <=> \/ stage[r] = "global" /\ ~(queue # <<>> /\ r = h)
                       \/ queue # <<>> /\ w # <<>> /\ r = next
             /\ stage'[r] = "own" <=> stage[r] = "own" /\ ~(w # <<>> /\ r = next)
  BY <1>1, <1>2, <1>3, <1>6
<1>8. QED
  BY <1>5, <1>7 DEF w, h, next

LEMMA ReleaseKeeps ==
    ASSUME PreviewsTypeOK, LimitersOK, NEW q \in Requests, Fetching(q), Release(q)
    PROVE  LimitersTyped' /\ LimitersOK'
<1> DEFINE u == Requester[q]
           l == own[u]
           next == Head(l.waiting)
           h == Head(queue)
<1>1. /\ u \in Accounts /\ l.active \in 0..MaxPerUser /\ l.waiting \in Seq(Requests)
      /\ Len(l.waiting) \in Nat /\ Len(l.waiting) <= MaxQueued /\ queue \in Seq(Requests)
      /\ active \in Nat /\ active <= MaxConcurrent
      /\ MaxPerUser \in Nat \ {0} /\ MaxConcurrent \in Nat \ {0} /\ MaxQueued \in Nat
  BY LimiterTypes, PreviewsAssumption
<1>2. GlobalCounted /\ \A v \in Accounts : OwnCounted(v)
  BY DEF LimitersOK
<1>3. /\ limits' = Kept(u, own'[u]) /\ target' = [target EXCEPT ![q] = Nil]
      /\ \/ l.waiting = <<>> /\ LimiterBecomes(u, l.active - 1, <<>>)
         \/ l.waiting # <<>> /\ LimiterBecomes(u, l.active, Tail(l.waiting))
      /\ \/ queue = <<>> /\ l.waiting = <<>> /\ active' = active - 1 /\ queue' = <<>>
         \/ queue = <<>> /\ l.waiting # <<>> /\ active' = active /\ queue' = <<>>
         \/ queue # <<>> /\ l.waiting = <<>> /\ active' = active /\ queue' = Tail(queue)
         \/ /\ queue # <<>> /\ l.waiting # <<>> /\ active' = active
            /\ queue' = Append(Tail(queue), next)
  BY ReleaseCases
<1>4. queue # <<>> => h \in Requests /\ stage[h] = "global" /\ active = MaxConcurrent
  BY Woken
<1>5. l.waiting # <<>> => /\ next \in Mine(u) /\ next \in Requests /\ stage[next] = "own"
                          /\ l.active = MaxPerUser
  BY Woken DEF Mine
<1>6. /\ stage' \in [Requests -> Stages]
      /\ \A r \in Requests :
            /\ stage'[r] \in {"head", "body"}
                  <=> \/ r # q /\ stage[r] \in {"head", "body"}
                      \/ queue # <<>> /\ r = h
                      \/ queue = <<>> /\ l.waiting # <<>> /\ r = next
            /\ stage'[r] = "global"
                  <=> \/ stage[r] = "global" /\ ~(queue # <<>> /\ r = h)
                      \/ queue # <<>> /\ l.waiting # <<>> /\ r = next
            /\ stage'[r] = "own" <=> stage[r] = "own" /\ ~(l.waiting # <<>> /\ r = next)
  BY ReleaseStages
<1>7. stage[q] \in {"head", "body"} /\ q \in Mine(u)
  BY DEF Fetching, Mine
<1>8. /\ limits \subseteq Accounts /\ target \in [Requests -> Pages \cup Images \cup {Nil}]
  BY DEF PreviewsTypeOK
<1>9. q \in Working(u) /\ q \in Holders
  BY <1>7 DEF Working, With, Holders
<1>10. OwnCounted(u)
  BY <1>1, <1>2
<1> HIDE DEF u, l, next, h
<1>11. /\ l.active - 1 = Cardinality(Working(u) \ {q}) /\ l.active - 1 \in Nat
       /\ IsFiniteSet(Working(u) \ {q}) /\ u \in limits
  <2>1. IsFiniteSet(Working(u)) /\ l.active = Cardinality(Working(u))
    BY <1>10 DEF OwnCounted, l
  <2>2. /\ IsFiniteSet(Working(u) \ {q})
        /\ Cardinality(Working(u) \ {q}) = Cardinality(Working(u)) - 1
        /\ Cardinality(Working(u) \ {q}) \in Nat
    BY <1>9, <2>1, FS_RemoveElement, FS_CardinalityType
  <2>3. l.active # 0
    BY <1>1, <2>1, <2>2
  <2>4. u \in limits
    BY <1>10, <2>3 DEF OwnCounted, Idle, l
  <2>5. QED
    BY <2>1, <2>2, <2>4
<1>12. /\ \A v \in Accounts : v # u => own'[v] = own[v]
       /\ own' \in [Accounts -> [active : 0..MaxPerUser, waiting : Seq(Requests)]]
       /\ \A v \in Accounts : Len(own'[v].waiting) <= MaxQueued
       /\ OwnCounted(u)'
  <2>0. u \in limits' <=> ~Idle(own'[u])
    BY <1>3, <1>11 DEF Kept
  <2>1. CASE l.waiting = <<>>
    <3>1. LimiterBecomes(u, l.active - 1, <<>>)
      BY <1>3, <2>1
    <3>2. l.active - 1 \in 0..MaxPerUser /\ <<>> \in Seq(Requests) /\ Len(<<>>) <= MaxQueued
      BY <1>1, <1>11
    <3>3. /\ own'[u].active = l.active - 1 /\ own'[u].waiting = <<>>
          /\ \A v \in Accounts : v # u => own'[v] = own[v]
          /\ own' \in [Accounts -> [active : 0..MaxPerUser, waiting : Seq(Requests)]]
          /\ \A v \in Accounts : Len(own'[v].waiting) <= MaxQueued
      BY <1>1, <3>1, <3>2, BecomesTyped
    <3>4. Working(u)' = Working(u) \ {q}
      BY <1>4, <1>6, <1>7, <2>1 DEF Working, With, Mine
    <3>5. With({"own"}, Mine(u))' = With({"own"}, Mine(u))
      BY <1>6, <2>1 DEF With, Mine
    <3>6. QED
      BY <1>10, <1>11, <2>0, <2>1, <3>3, <3>4, <3>5 DEF OwnCounted, l
  <2>2. CASE l.waiting # <<>>
    <3>1. LimiterBecomes(u, l.active, Tail(l.waiting))
      BY <1>3, <2>2
    <3>2. /\ Tail(l.waiting) \in Seq(Requests) /\ Len(Tail(l.waiting)) = Len(l.waiting) - 1
          /\ ToSet(Tail(l.waiting)) = ToSet(l.waiting) \ {next}
          /\ IsInjective(Tail(l.waiting))
      BY <1>1, <1>10, <2>2, TakenFirst DEF OwnCounted, l, next
    <3>3. Len(Tail(l.waiting)) <= MaxQueued
      BY <1>1, <3>2
    <3>4. /\ own'[u].active = l.active /\ own'[u].waiting = Tail(l.waiting)
          /\ \A v \in Accounts : v # u => own'[v] = own[v]
          /\ own' \in [Accounts -> [active : 0..MaxPerUser, waiting : Seq(Requests)]]
          /\ \A v \in Accounts : Len(own'[v].waiting) <= MaxQueued
      BY <1>1, <3>1, <3>2, <3>3, BecomesTyped
    <3>5. next \notin Working(u) /\ Working(u)' = (Working(u) \ {q}) \cup {next}
      BY <1>4, <1>5, <1>6, <1>7, <2>2 DEF Working, With, Mine
    <3>6. /\ IsFiniteSet(Working(u)') /\ Cardinality(Working(u)') = Cardinality(Working(u))
      BY <1>9, <1>10, <3>5, CountSwap DEF OwnCounted
    <3>7. With({"own"}, Mine(u))' = With({"own"}, Mine(u)) \ {next}
      BY <1>6, <2>2 DEF With, Mine
    <3>8. QED
      BY <1>5, <1>10, <2>0, <2>2, <3>2, <3>4, <3>6, <3>7 DEF OwnCounted, l
  <2>3. QED
    BY <2>1, <2>2
<1>13. ASSUME NEW v \in Accounts, v # u PROVE OwnCounted(v)'
  <2>1. v \in limits' <=> v \in limits
    BY <1>3, <1>13 DEF Kept
  <2>2. ASSUME NEW r \in Mine(v)
        PROVE  /\ stage'[r] \in {"global", "head", "body"}
                    <=> stage[r] \in {"global", "head", "body"}
               /\ stage'[r] = "own" <=> stage[r] = "own"
    <3>1. r \in Requests /\ r # q /\ (l.waiting # <<>> => r # next)
      BY <1>5, <1>7, <1>13 DEF Mine
    <3>2. QED
      BY <1>4, <1>6, <3>1
  <2>3. OwnCounted(v) /\ own'[v] = own[v]
    BY <1>2, <1>12, <1>13
  <2>4. QED
    BY <2>1, <2>2, <2>3, OwnUntouched
<1>14. GlobalCounted' /\ active' \in 0..MaxConcurrent /\ queue' \in Seq(Requests)
  <2> DEFINE waiters == With({"global"}, Requests)
  <2>1. IsFiniteSet(Holders) /\ active = Cardinality(Holders) /\ ToSet(queue) = waiters
        /\ IsInjective(queue)
    BY <1>2 DEF GlobalCounted
  <2>2. queue # <<>> => h \notin Holders
    BY <1>4 DEF Holders, With
  <2>3. l.waiting # <<>> => next \notin Holders /\ next \notin waiters
    BY <1>5 DEF Holders, With
  <2>4. CASE queue = <<>> /\ l.waiting = <<>>
    <3>1. Holders' = Holders \ {q} /\ waiters' = waiters
      BY <1>6, <2>4 DEF Holders, With
    <3>2. /\ IsFiniteSet(Holders') /\ Cardinality(Holders') = Cardinality(Holders) - 1
          /\ Cardinality(Holders') \in Nat
      BY <1>9, <2>1, <3>1, FS_RemoveElement, FS_CardinalityType
    <3>3. active' = active - 1 /\ queue' = queue /\ queue' = <<>>
      BY <1>3, <2>4
    <3>4. active' \in 0..MaxConcurrent
      BY <1>1, <2>1, <3>2, <3>3
    <3>5. QED
      BY <1>1, <2>1, <3>1, <3>2, <3>3, <3>4 DEF GlobalCounted
  <2>5. CASE queue = <<>> /\ l.waiting # <<>>
    <3>1. Holders' = (Holders \ {q}) \cup {next} /\ waiters' = waiters
      BY <1>5, <1>6, <2>5 DEF Holders, With
    <3>2. IsFiniteSet(Holders') /\ Cardinality(Holders') = Cardinality(Holders)
      BY <1>9, <2>1, <2>3, <2>5, <3>1, CountSwap
    <3>3. active' = active /\ queue' = queue /\ queue' = <<>>
      BY <1>3, <2>5
    <3>4. QED
      BY <1>1, <2>1, <3>1, <3>2, <3>3 DEF GlobalCounted
  <2>6. CASE queue # <<>>
    <3>1. Holders' = (Holders \ {q}) \cup {h}
      BY <1>4, <1>6, <2>6 DEF Holders, With
    <3>2. IsFiniteSet(Holders') /\ Cardinality(Holders') = Cardinality(Holders)
      BY <1>9, <2>1, <2>2, <2>6, <3>1, CountSwap
    <3>3. /\ Tail(queue) \in Seq(Requests) /\ ToSet(Tail(queue)) = waiters \ {h}
          /\ IsInjective(Tail(queue))
      BY <1>1, <2>1, <2>6, TakenFirst DEF h
    <3>4. active' = active /\ active = MaxConcurrent
      BY <1>3, <1>4, <2>6
    <3>5. CASE l.waiting = <<>>
      <4>1. waiters' = waiters \ {h} /\ queue' = Tail(queue)
        BY <1>3, <1>6, <2>6, <3>5 DEF With
      <4>2. queue' \in Seq(Requests) /\ ToSet(queue') = waiters' /\ IsInjective(queue')
        BY <3>3, <4>1
      <4>3. active' \in 0..MaxConcurrent
        BY <1>1, <3>4
      <4>4. IsFiniteSet(Holders') /\ active' = Cardinality(Holders')
        BY <2>1, <3>2, <3>4
      <4>5. GlobalCounted'
        BY <3>4, <4>2, <4>4 DEF GlobalCounted
      <4>6. QED
        BY <4>2, <4>3, <4>5
    <3>6. CASE l.waiting # <<>>
      <4>1. waiters' = (waiters \ {h}) \cup {next} /\ queue' = Append(Tail(queue), next)
        BY <1>3, <1>5, <1>6, <2>6, <3>6 DEF With
      <4>2. next \notin ToSet(Tail(queue))
        BY <2>3, <3>3, <3>6
      <4>3. /\ Append(Tail(queue), next) \in Seq(Requests)
            /\ ToSet(Append(Tail(queue), next)) = ToSet(Tail(queue)) \cup {next}
            /\ IsInjective(Append(Tail(queue), next))
        <5>1. next \in Requests
          BY <1>5, <3>6
        <5> HIDE DEF waiters
        <5>2. QED
          BY <3>3, <4>2, <5>1, PutLast
      <4>4. queue' \in Seq(Requests) /\ ToSet(queue') = waiters' /\ IsInjective(queue')
        BY <3>3, <4>1, <4>3
      <4>5. active' \in 0..MaxConcurrent
        BY <1>1, <3>4
      <4>6. IsFiniteSet(Holders') /\ active' = Cardinality(Holders')
        BY <2>1, <3>2, <3>4
      <4>7. GlobalCounted'
        BY <3>4, <4>4, <4>6 DEF GlobalCounted
      <4>8. QED
        BY <4>4, <4>5, <4>7
    <3>7. QED
      BY <3>5, <3>6
  <2>7. QED
    BY <2>4, <2>5, <2>6
<1>15. LimitersTyped'
  <2>1. target' \in [Requests -> Pages \cup Images \cup {Nil}]
    BY <1>3, <1>8
  <2>2. limits' \subseteq Accounts
    BY <1>3, <1>8 DEF Kept
  <2>3. QED
    BY <1>6, <1>12, <1>14, <2>1, <2>2 DEF LimitersTyped
<1>16. QED
  BY <1>12, <1>13, <1>14, <1>15 DEF LimitersOK

-----------------------------------------------------------------------------
(* Every step keeps the invariant.                                         *)

LEMMA LimitersUnchanged ==
    ASSUME PreviewsTypeOK, LimitersOK, UNCHANGED <<limiterVars, stage, target>>
    PROVE  LimitersTyped' /\ LimitersOK'
  BY TypesAreBoth
     DEF limiterVars, LimitersTyped, LimitersOK, GlobalCounted, OwnCounted, Holders, Working,
         With, Idle

LEMMA CachesUnchanged ==
    ASSUME CachesTyped, CachesOK, UNCHANGED cacheVars
    PROVE  CachesTyped' /\ CachesOK'
  BY DEF CachesTyped, CachesOK, cacheVars, imageVars, KeptOnce, BytesCoverTheCache

LEMMA AskPreviewKeeps ==
    ASSUME PreviewsInv, NEW q \in Requests, NEW p \in Pages, AskPreview(q, p)
    PROVE  PreviewsInv'
<1>1. /\ PreviewsTypeOK /\ LimitersOK /\ CachesOK /\ CachesTyped
      /\ stage[q] = "out" /\ cache' = Looked(cache, p) /\ UNCHANGED <<known, imageVars>>
      /\ UNCHANGED <<limiterVars, stage, target>> \/ Acquire(q, p)
  BY TypesAreBoth DEF PreviewsInv, AskPreview, LookedUp
<1>2. LimitersTyped' /\ LimitersOK'
  BY <1>1, LimitersUnchanged, AcquireKeeps
<1>3. /\ cache' \in Seq(Entries(Pages, BOOLEAN)) /\ Len(cache') <= Len(cache)
      /\ UniqueKeys(cache')
  BY <1>1, LookedFacts DEF CachesTyped, CachesOK, KeptOnce
<1>4. Len(cache') <= CacheMax
  <2>1. Len(cache) \in Nat /\ Len(cache') \in Nat /\ CacheMax \in Nat /\ Len(cache) <= CacheMax
    BY <1>1, <1>3, EntryFacts, PreviewsAssumption DEF CachesTyped
  <2>2. QED
    BY <1>3, <2>1
<1>5. CachesTyped' /\ CachesOK'
  BY <1>1, <1>3, <1>4 DEF CachesTyped, CachesOK, KeptOnce, BytesCoverTheCache, imageVars
<1>6. QED
  BY <1>2, <1>5, TypesAreBoth DEF PreviewsInv, PreviewsTypeOK, LimitersTyped, CachesTyped

LEMMA AskImageKeeps ==
    ASSUME PreviewsInv, NEW q \in Requests, NEW i \in Images, AskImage(q, i)
    PROVE  PreviewsInv'
<1>1. /\ PreviewsTypeOK /\ LimitersOK /\ CachesOK /\ CachesTyped
      /\ stage[q] = "out" /\ UNCHANGED <<cache, bytes>>
      /\ known' = known \/ known' = Without(known, i)
      /\ images' = images \/ images' = Looked(images, i)
      /\ UNCHANGED <<limiterVars, stage, target>> \/ Acquire(q, i)
  BY TypesAreBoth DEF PreviewsInv, AskImage
<1>2. LimitersTyped' /\ LimitersOK'
  BY <1>1, LimitersUnchanged, AcquireKeeps
<1>3. /\ known \in Seq(Entries(Images, {TRUE})) /\ UniqueKeys(known)
      /\ Len(known) <= 2 * CacheMax /\ Len(known) \in Nat /\ CacheMax \in Nat
      /\ Sized(images) /\ UniqueKeys(images)
      /\ Size(images) <= bytes /\ bytes \in Nat /\ bytes <= ImageCacheMax
  BY <1>1, PreviewsAssumption
     DEF CachesTyped, CachesOK, KeptOnce, BytesCoverTheCache, Sized
<1>4. /\ known' \in Seq(Entries(Images, {TRUE})) /\ UniqueKeys(known')
      /\ Len(known') <= 2 * CacheMax
  <2>1. CASE known' = known
    BY <1>3, <2>1
  <2>2. CASE known' = Without(known, i)
    BY <1>3, <2>2, WithoutFacts
  <2>3. QED
    BY <1>1, <2>1, <2>2
<1>5. Sized(images') /\ UniqueKeys(images') /\ Size(images') <= bytes
  <2>1. CASE images' = images
    BY <1>3, <2>1
  <2>2. CASE images' = Looked(images, i)
    <3>1. Sized(images') /\ UniqueKeys(images') /\ Size(images') <= Size(images)
      BY <1>3, <2>2, LookedFacts, SizeOfLooked DEF Sized
    <3>2. Size(images') \in Nat /\ Size(images) \in Nat
      BY <1>3, <3>1, SizeIsANumber
    <3>3. QED
      BY <1>3, <3>1, <3>2
  <2>3. QED
    BY <1>1, <2>1, <2>2
<1>6. CachesTyped' /\ CachesOK'
  <2>1. Size(images)' = Size(images')
    BY DEF Size, SizeTo
  <2>2. QED
    BY <1>1, <1>3, <1>4, <1>5, <2>1
       DEF CachesTyped, CachesOK, KeptOnce, BytesCoverTheCache, Sized
<1>7. QED
  BY <1>2, <1>6, TypesAreBoth DEF PreviewsInv, PreviewsTypeOK, LimitersTyped, CachesTyped

LEMMA HeadersArriveKeeps ==
    ASSUME PreviewsInv, NEW q \in Requests, HeadersArrive(q)
    PROVE  PreviewsInv'
<1>1. /\ PreviewsTypeOK /\ LimitersOK /\ CachesOK /\ CachesTyped /\ LimitersTyped
      /\ stage[q] = "head" /\ stage' = [stage EXCEPT ![q] = "body"]
      /\ UNCHANGED <<target, limiterVars>> /\ UNCHANGED cacheVars
  BY TypesAreBoth DEF PreviewsInv, HeadersArrive
<1>2. /\ stage' \in [Requests -> Stages] /\ stage'[q] = "body"
      /\ \A r \in Requests : r # q => stage'[r] = stage[r]
  BY <1>1 DEF LimitersTyped, Stages
<1>3. LimitersTyped'
  BY <1>1, <1>2 DEF LimitersTyped, limiterVars
<1>4. Holders' = Holders /\ With({"global"}, Requests)' = With({"global"}, Requests)
  BY <1>1, <1>2 DEF Holders, With
<1>5. GlobalCounted'
  BY <1>1, <1>4 DEF LimitersOK, GlobalCounted, limiterVars
<1>6. ASSUME NEW v \in Accounts PROVE OwnCounted(v)'
  <2>1. OwnCounted(v) /\ own' = own /\ limits' = limits
    BY <1>1 DEF LimitersOK, limiterVars
  <2>2. \A r \in Mine(v) : r \in Requests
    BY DEF Mine
  <2>3. QED
    BY <1>1, <1>2, <2>1, <2>2, OwnUntouched
<1>7. QED
  BY <1>1, <1>3, <1>5, <1>6, CachesUnchanged, TypesAreBoth
     DEF PreviewsInv, LimitersOK, PreviewsTypeOK, LimitersTyped, CachesTyped

LEMMA PreviewEndsKeeps ==
    ASSUME PreviewsInv, NEW q \in Requests, NEW good \in BOOLEAN, Fetching(q),
           PreviewEnds(q, good)
    PROVE  PreviewsInv'
<1> DEFINE p == target[q]
           named == ImagesOf[p]
<1>1. /\ PreviewsTypeOK /\ LimitersOK /\ CachesOK /\ CachesTyped
      /\ p \in Pages /\ Release(q) /\ cache' = Cached(cache, p, good)
      /\ known' = IF good
                  THEN Remembered(Remembered(known, named.image), named.favicon)
                  ELSE known
      /\ UNCHANGED imageVars
  BY TypesAreBoth DEF PreviewsInv, PreviewEnds
<1>2. LimitersTyped' /\ LimitersOK'
  BY <1>1, ReleaseKeeps
<1>3. named.image \in Images \cup {Nil} /\ named.favicon \in Images \cup {Nil}
  BY <1>1, PreviewsAssumption
<1> HIDE DEF p, named
<1>4. /\ cache' \in Seq(Entries(Pages, BOOLEAN)) /\ UniqueKeys(cache')
      /\ Len(cache') <= CacheMax
  BY <1>1, CachedFacts DEF CachesTyped, CachesOK, KeptOnce
<1>5. /\ known' \in Seq(Entries(Images, {TRUE})) /\ UniqueKeys(known')
      /\ Len(known') <= 2 * CacheMax
  <2>1. /\ known \in Seq(Entries(Images, {TRUE})) /\ UniqueKeys(known)
        /\ Len(known) <= 2 * CacheMax
    BY <1>1 DEF CachesTyped, CachesOK, KeptOnce
  <2> DEFINE first == Remembered(known, named.image)
  <2>2. /\ first \in Seq(Entries(Images, {TRUE})) /\ UniqueKeys(first)
        /\ Len(first) <= 2 * CacheMax
    BY <1>3, <2>1, RememberedFacts
  <2> HIDE DEF first
  <2>3. /\ Remembered(first, named.favicon) \in Seq(Entries(Images, {TRUE}))
        /\ UniqueKeys(Remembered(first, named.favicon))
        /\ Len(Remembered(first, named.favicon)) <= 2 * CacheMax
    BY <1>3, <2>2, RememberedFacts
  <2>4. QED
    BY <1>1, <2>1, <2>3 DEF first
<1>6. CachesTyped' /\ CachesOK'
  BY <1>1, <1>4, <1>5 DEF CachesTyped, CachesOK, KeptOnce, BytesCoverTheCache, imageVars
<1>7. QED
  BY <1>2, <1>6, TypesAreBoth DEF PreviewsInv, PreviewsTypeOK, LimitersTyped, CachesTyped

\* The bytes of an entry that expired or is replaced stay counted: the count
\* grows by what comes in, and the loop takes off it what goes out.
LEMMA ImageEndsKeeps ==
    ASSUME PreviewsInv, NEW q \in Requests, NEW n \in 1..ImageMax, Fetching(q),
           ImageEnds(q, n)
    PROVE  PreviewsInv'
<1> DEFINE e == Entry(target[q], n)
           put == Put(images, e)
           after == Evicted(put, bytes + n)
<1>1. /\ PreviewsTypeOK /\ LimitersOK /\ CachesOK /\ CachesTyped
      /\ target[q] \in Images /\ Release(q)
      /\ images' = after.map /\ bytes' = after.bytes /\ UNCHANGED <<cache, known>>
  BY TypesAreBoth DEF PreviewsInv, ImageEnds
<1>2. LimitersTyped' /\ LimitersOK'
  BY <1>1, ReleaseKeeps
<1>3. /\ Sized(images) /\ UniqueKeys(images) /\ bytes \in Nat /\ n \in Nat
      /\ Size(images) <= bytes /\ bytes <= ImageCacheMax /\ ImageCacheMax \in Nat
  BY <1>1, PreviewsAssumption
     DEF CachesTyped, CachesOK, KeptOnce, BytesCoverTheCache, Sized
<1>4. e \in Entries(Images, 1..ImageMax) /\ e.value = n
  BY <1>1 DEF Entry, Entries
<1> HIDE DEF e
<1>5. /\ Sized(put) /\ UniqueKeys(put) /\ n <= Size(put) /\ Size(put) <= Size(images) + n
  BY <1>3, <1>4, SizeOfPut
<1>6. Size(put) \in Nat /\ Size(images) \in Nat
  BY <1>3, <1>5, SizeIsANumber
<1> HIDE DEF put
<1>7. bytes + n \in Nat /\ Size(put) <= bytes + n /\ bytes + n <= ImageCacheMax + Size(put)
  BY <1>3, <1>5, <1>6
<1>8. /\ Sized(after.map) /\ UniqueKeys(after.map) /\ after.bytes \in Nat
      /\ Size(after.map) <= after.bytes /\ after.bytes <= ImageCacheMax
  BY <1>5, <1>7, EvictedFacts
<1> HIDE DEF after
<1>9. CachesTyped' /\ CachesOK'
  <2>1. Size(images)' = Size(images')
    BY DEF Size, SizeTo
  <2>2. QED
    BY <1>1, <1>8, <2>1 DEF CachesTyped, CachesOK, KeptOnce, BytesCoverTheCache, Sized
<1>10. QED
  BY <1>2, <1>9, TypesAreBoth DEF PreviewsInv, PreviewsTypeOK, LimitersTyped, CachesTyped

LEMMA ImageFailsKeeps ==
    ASSUME PreviewsInv, NEW q \in Requests, Fetching(q), ImageFails(q)
    PROVE  PreviewsInv'
<1>1. /\ PreviewsTypeOK /\ LimitersOK /\ CachesOK /\ CachesTyped
      /\ Release(q) /\ UNCHANGED cacheVars
  BY TypesAreBoth DEF PreviewsInv, ImageFails
<1>2. LimitersTyped' /\ LimitersOK'
  BY <1>1, ReleaseKeeps
<1>3. CachesTyped' /\ CachesOK'
  BY <1>1, CachesUnchanged
<1>4. QED
  BY <1>2, <1>3, TypesAreBoth DEF PreviewsInv, PreviewsTypeOK, LimitersTyped, CachesTyped

\* A map that aged has the size it had.
LEMMA SizeOfAged ==
    ASSUME NEW map, NEW aged, Sized(map), Sized(aged), Len(aged) = Len(map),
           \A i \in DOMAIN map : aged[i].value = map[i].value
    PROVE  Size(aged) = Size(map)
<1>1. /\ Len(map) \in Nat /\ DOMAIN map = 1..Len(map) /\ Sums(SizeTo(map), map)
  BY SizeToSums DEF Sized
<1>2. Sums(SizeTo(map), aged)
  BY <1>1 DEF Sums
<1>3. QED
  BY <1>1, <1>2, SizeBySums DEF Size

LEMMA ExpiresKeeps ==
    ASSUME PreviewsInv, NEW k, Expires(k)
    PROVE  PreviewsInv'
<1>1. /\ PreviewsTypeOK /\ LimitersOK /\ CachesOK /\ CachesTyped
      /\ \/ cache' = Aged(cache, k) /\ UNCHANGED <<known, images>>
         \/ known' = Aged(known, k) /\ UNCHANGED <<cache, images>>
         \/ images' = Aged(images, k) /\ UNCHANGED <<cache, known>>
      /\ UNCHANGED <<stage, target, limiterVars>> /\ bytes' = bytes
  BY TypesAreBoth DEF PreviewsInv, Expires
<1>2. LimitersTyped' /\ LimitersOK'
  BY <1>1, LimitersUnchanged
<1>3. CASE cache' = Aged(cache, k) /\ UNCHANGED <<known, images>>
  <2>1. /\ cache' \in Seq(Entries(Pages, BOOLEAN)) /\ Len(cache') = Len(cache)
        /\ UniqueKeys(cache')
    <3>1. cache \in Seq(Entries(Pages, BOOLEAN)) /\ UniqueKeys(cache)
      BY <1>1 DEF CachesTyped, CachesOK, KeptOnce
    <3>2. cache' = Aged(cache, k)
      BY <1>3
    <3>3. QED
      BY <3>1, <3>2, AgedFacts
  <2>2. CachesTyped' /\ CachesOK'
    BY <1>1, <1>3, <2>1 DEF CachesTyped, CachesOK, KeptOnce, BytesCoverTheCache
  <2>3. QED
    BY <1>2, <2>2, TypesAreBoth DEF PreviewsInv, PreviewsTypeOK, LimitersTyped, CachesTyped
<1>4. CASE known' = Aged(known, k) /\ UNCHANGED <<cache, images>>
  <2>1. /\ known' \in Seq(Entries(Images, {TRUE})) /\ Len(known') = Len(known)
        /\ UniqueKeys(known')
    <3>1. known \in Seq(Entries(Images, {TRUE})) /\ UniqueKeys(known)
      BY <1>1 DEF CachesTyped, CachesOK, KeptOnce
    <3>2. known' = Aged(known, k)
      BY <1>4
    <3>3. QED
      BY <3>1, <3>2, AgedFacts
  <2>2. CachesTyped' /\ CachesOK'
    BY <1>1, <1>4, <2>1 DEF CachesTyped, CachesOK, KeptOnce, BytesCoverTheCache
  <2>3. QED
    BY <1>2, <2>2, TypesAreBoth DEF PreviewsInv, PreviewsTypeOK, LimitersTyped, CachesTyped
<1>5. CASE images' = Aged(images, k) /\ UNCHANGED <<cache, known>>
  <2>1. Sized(images) /\ UniqueKeys(images)
    BY <1>1 DEF CachesTyped, CachesOK, KeptOnce, Sized
  <2>2. /\ Sized(images') /\ Len(images') = Len(images) /\ UniqueKeys(images')
        /\ \A i \in DOMAIN images : images'[i].value = images[i].value
    <3>1. images' = Aged(images, k)
      BY <1>5
    <3>2. QED
      BY <2>1, <3>1, AgedFacts DEF Sized
  <2>3. Size(images') = Size(images)
    BY <2>1, <2>2, SizeOfAged
  <2>4. Size(images)' = Size(images')
    BY DEF Size, SizeTo
  <2>5. CachesTyped' /\ CachesOK'
    BY <1>1, <1>5, <2>2, <2>3, <2>4
       DEF CachesTyped, CachesOK, KeptOnce, BytesCoverTheCache, Sized
  <2>6. QED
    BY <1>2, <2>5, TypesAreBoth DEF PreviewsInv, PreviewsTypeOK, LimitersTyped, CachesTyped
<1>6. QED
  BY <1>1, <1>3, <1>4, <1>5

\* A step is one of these.
LEMMA PreviewSteps ==
    ASSUME PreviewsNext
    PROVE  \/ \E q \in Requests, p \in Pages : AskPreview(q, p)
           \/ \E q \in Requests, i \in Images : AskImage(q, i)
           \/ \E q \in Requests : HeadersArrive(q)
           \/ \E q \in Requests, good \in BOOLEAN : Fetching(q) /\ PreviewEnds(q, good)
           \/ \E q \in Requests, n \in 1..ImageMax : Fetching(q) /\ ImageEnds(q, n)
           \/ \E q \in Requests : Fetching(q) /\ ImageFails(q)
           \/ \E k \in Pages \cup Images : Expires(k)
<1>1. ASSUME NEW q \in Requests, BodyArrives(q)
      PROVE  Fetching(q) /\ (PreviewEnds(q, TRUE) \/ \E n \in 1..ImageMax : ImageEnds(q, n))
  BY <1>1 DEF BodyArrives, Fetching
<1>2. ASSUME NEW q \in Requests, FetchFails(q) \/ Deadline(q)
      PROVE  Fetching(q) /\ (PreviewEnds(q, FALSE) \/ ImageFails(q))
  BY <1>2 DEF FetchFails, Deadline, TimedOut, Fails
<1>3. QED
  BY <1>1, <1>2 DEF PreviewsNext

LEMMA PreviewsNextKeepsInv == PreviewsInv /\ [PreviewsNext]_previewVars => PreviewsInv'
<1> SUFFICES ASSUME PreviewsInv, [PreviewsNext]_previewVars PROVE PreviewsInv'
  OBVIOUS
<1>1. CASE UNCHANGED previewVars
  <2>1. UNCHANGED <<limiterVars, stage, target>> /\ UNCHANGED cacheVars
    BY <1>1 DEF previewVars
  <2>2. LimitersTyped' /\ LimitersOK' /\ CachesTyped' /\ CachesOK'
    BY <2>1, LimitersUnchanged, CachesUnchanged, TypesAreBoth DEF PreviewsInv
  <2>3. QED
    BY <2>2 DEF PreviewsInv, PreviewsTypeOK, LimitersTyped, CachesTyped
<1>2. CASE PreviewsNext
  BY <1>2, PreviewSteps, AskPreviewKeeps, AskImageKeeps, HeadersArriveKeeps, PreviewEndsKeeps,
     ImageEndsKeeps, ImageFailsKeeps, ExpiresKeeps
<1>3. QED
  BY <1>1, <1>2

LEMMA PreviewsInvariance == PreviewsSpec => []PreviewsInv
  BY PreviewsInitInv, PreviewsNextKeepsInv, PTL DEF PreviewsSpec

\* Slots are neither lost nor counted twice on either level of limiters, whatever
\* the limits, and however the fetches fail, end or run out of time.
THEOREM SlotsHold == PreviewsSpec => []SlotsAreCounted
<1>1. PreviewsInv => SlotsAreCounted
  <2> SUFFICES ASSUME PreviewsInv PROVE SlotsAreCounted
    OBVIOUS
  <2>1. PreviewsTypeOK /\ GlobalCounted /\ \A u \in Accounts : OwnCounted(u) /\ Own(u) = own[u]
    BY OwnIsOwn DEF PreviewsInv, LimitersOK
  <2>2. QED
    BY <2>1 DEF SlotsAreCounted, GlobalCounted, OwnCounted, Holders, Working, Mine
<1>2. QED
  BY <1>1, PreviewsInvariance, PTL

\* The bytes counted are never fewer than the bytes cached, and within the limit.
THEOREM BytesHold == PreviewsSpec => []BytesCoverTheCache
<1>1. PreviewsInv => BytesCoverTheCache
  BY DEF PreviewsInv, CachesOK
<1>2. QED
  BY <1>1, PreviewsInvariance, PTL

\* A key of a map that keeps its value does not get another.
LEMMA SameValue ==
    ASSUME NEW map \in Seq(Entries(Pages, BOOLEAN)), UniqueKeys(map),
           NEW other \in Seq(Entries(Pages, BOOLEAN)), UniqueKeys(other), NEW p,
           \A i \in DOMAIN other : other[i].key = p =>
              \E j \in DOMAIN map : map[j].key = p /\ map[j].value = other[i].value,
           Has(other, p)
    PROVE  Has(map, p) /\ At(other, p).value = At(map, p).value
<1>1. PICK i \in DOMAIN other : other[i].key = p
  BY DEF Has
<1>2. PICK j \in DOMAIN map : map[j].key = p /\ map[j].value = other[i].value
  BY <1>1
<1>3. Has(map, p)
  BY <1>2 DEF Has
<1>4. At(other, p) = other[i] /\ At(map, p) = map[j]
  BY <1>1, <1>2, <1>3, AtFacts
<1>5. QED
  BY <1>2, <1>3, <1>4

LEMMA RefusalStep ==
    ASSUME PreviewsInv, PreviewsInv', [PreviewsNext]_previewVars, NEW p \in Pages, Has(cache', p),
           Has(cache, p) => At(cache', p).value # At(cache, p).value
    PROVE  \E q \in Requests : target[q] = p /\ Fetching(q) /\ stage'[q] = "out"
<1>1. /\ cache \in Seq(Entries(Pages, BOOLEAN)) /\ UniqueKeys(cache) /\ Len(cache) <= CacheMax
      /\ cache' \in Seq(Entries(Pages, BOOLEAN)) /\ UniqueKeys(cache')
  BY DEF PreviewsInv, PreviewsTypeOK, CachesOK, KeptOnce
<1>2. PICK i \in DOMAIN cache' :
        /\ cache'[i].key = p
        /\ \A j \in DOMAIN cache : ~(cache[j].key = p /\ cache[j].value = cache'[i].value)
  BY <1>1, SameValue
<1>3. ASSUME From(cache', cache) PROVE FALSE
  BY <1>2, <1>3 DEF From
<1>4. cache' # cache
  BY <1>2
<1>5. PreviewsNext
  BY <1>4 DEF previewVars, cacheVars
<1>6. ASSUME NEW q \in Requests, NEW good \in BOOLEAN, Fetching(q), PreviewEnds(q, good)
      PROVE  target[q] = p /\ Fetching(q) /\ stage'[q] = "out"
  <2>1. target[q] \in Pages /\ Release(q) /\ cache' = Cached(cache, target[q], good)
    BY <1>6 DEF PreviewEnds
  <2>2. stage'[q] = "out"
    BY <2>1 DEF Release
  <2>3. \A j \in DOMAIN cache' :
          cache'[j].key # target[q] => \E m \in DOMAIN cache : cache'[j] = cache[m]
    BY <1>1, <2>1, CachedFacts
  <2>4. target[q] = p
    BY <1>2, <2>3
  <2>5. QED
    BY <1>6, <2>2, <2>4
<1>7. ASSUME NEW q \in Requests, NEW r \in Pages, AskPreview(q, r) PROVE FALSE
  BY <1>1, <1>3, <1>7, LookedFacts DEF AskPreview, LookedUp
<1>8. ASSUME NEW k, Expires(k) PROVE FALSE
  <2>1. cache' = Aged(cache, k)
    BY <1>4, <1>8 DEF Expires
  <2>2. /\ DOMAIN cache' = DOMAIN cache
        /\ \A j \in DOMAIN cache :
              cache'[j].key = cache[j].key /\ cache'[j].value = cache[j].value
    BY <1>1, <2>1, AgedFacts
  <2>3. QED
    BY <1>2, <2>2
<1>9. ASSUME NEW q \in Requests,
             \/ \E r \in Images : AskImage(q, r)
             \/ HeadersArrive(q) \/ ImageFails(q) \/ \E n \in 1..ImageMax : ImageEnds(q, n)
      PROVE  FALSE
  BY <1>4, <1>9 DEF AskImage, HeadersArrive, ImageFails, ImageEnds, cacheVars
<1>10. QED
  BY <1>5, <1>6, <1>7, <1>8, <1>9, PreviewSteps

\* Nothing but the end of a fetch of a page gives it a result or another one.
THEOREM RefusalsHold == PreviewsSpec => RefusalsAreNotCached
<1>1. PreviewsInv /\ PreviewsInv' /\ [PreviewsNext]_previewVars
        => [ \A p \in Pages :
                /\ Has(cache', p)
                /\ Has(cache, p) => At(cache', p).value # At(cache, p).value
                => \E q \in Requests :
                    target[q] = p /\ Fetching(q) /\ stage'[q] = "out" ]_previewVars
  BY RefusalStep
<1>2. QED
  BY <1>1, PreviewsInvariance, PTL DEF PreviewsSpec, RefusalsAreNotCached

=============================================================================
