---------------------------- MODULE GuestPromise ----------------------------
(***************************************************************************)
(* What the server promises about guests, with no requests under way,      *)
(* sessions, sockets, uploads or deaths of the process: an invite lets in  *)
(* as many as it was made for until it is withdrawn, each in one step that *)
(* takes a use and a name that is free.  A guest waits, is admitted to     *)
(* rooms of that invite, goes or is made a member, and comes back from     *)
(* neither.                                                                *)
(***************************************************************************)
EXTENDS Naturals

CONSTANTS Guests, Invites, Rooms, Names, MaxUses, None

VARIABLES
    issued,     \* the invites that were made
    left,       \* left[i], how many more invite i lets in
    opens,      \* opens[i], the rooms it leads to
    life,       \* life[g], how far guest g has come
    by,         \* by[g], the invite g came on, or None
    name,       \* name[g], the display name g holds as a guest, or None
    seats       \* seats[g], the rooms g is in by admission

vars == <<issued, left, opens, life, by, name, seats>>

Init ==
    /\ issued = {}
    /\ left = [i \in Invites |-> 0]
    /\ opens = [i \in Invites |-> {}]
    /\ life = [g \in Guests |-> "new"]
    /\ by = [g \in Guests |-> None]
    /\ name = [g \in Guests |-> None]
    /\ seats = [g \in Guests |-> {}]

Issue(i) ==
    /\ i \notin issued
    /\ issued' = issued \cup {i}
    /\ \E n \in 1..MaxUses : left' = [left EXCEPT ![i] = n]
    /\ \E R \in SUBSET Rooms : opens' = [opens EXCEPT ![i] = R]
    /\ UNCHANGED <<life, by, name, seats>>

Withdraw(i) ==
    /\ left' = [left EXCEPT ![i] = 0]
    /\ UNCHANGED <<issued, opens, life, by, name, seats>>

\* f with v for every guest of G.
For(G, f, v) == [g \in Guests |-> IF g \in G THEN v ELSE f[g]]

\* The guests of G, who wait or were admitted, go.
Go(G) ==
    /\ \A g \in G : life[g] \in {"waiting", "admitted"}
    /\ life' = For(G, life, "gone")
    /\ name' = For(G, name, None)
    /\ seats' = For(G, seats, {})
    /\ UNCHANGED <<issued, left, opens, by>>

\* A guest enters on invite i by the name n, while those of G go.
Enter(g, i, n, G) ==
    /\ left[i] > 0
    /\ \A h \in Guests : name[h] # n
    /\ life[g] = "new"
    /\ \A h \in G : life[h] \in {"waiting", "admitted"}
    /\ left' = [left EXCEPT ![i] = @ - 1]
    /\ life' = [For(G, life, "gone") EXCEPT ![g] = "waiting"]
    /\ by' = [by EXCEPT ![g] = i]
    /\ name' = [For(G, name, None) EXCEPT ![g] = n]
    /\ seats' = For(G, seats, {})
    /\ UNCHANGED <<issued, opens>>

Admit(g) ==
    /\ life[g] = "waiting"
    /\ life' = [life EXCEPT ![g] = "admitted"]
    /\ \E R \in SUBSET opens[by[g]] : seats' = [seats EXCEPT ![g] = R]
    /\ UNCHANGED <<issued, left, opens, by, name>>

MakeMember(g) ==
    /\ life[g] \in {"waiting", "admitted"}
    /\ life' = [life EXCEPT ![g] = "member"]
    /\ name' = [name EXCEPT ![g] = None]
    /\ UNCHANGED <<issued, left, opens, by, seats>>

\* Somebody is kicked, or a room is deleted.
LoseSeats ==
    /\ seats' \in [Guests -> SUBSET Rooms]
    /\ \A g \in Guests : seats'[g] \subseteq seats[g]
    /\ UNCHANGED <<issued, left, opens, life, by, name>>

Next ==
    \/ \E i \in Invites : Issue(i) \/ Withdraw(i)
    \/ \E G \in SUBSET Guests :
        \/ Go(G)
        \/ \E g \in Guests, i \in Invites, n \in Names : Enter(g, i, n, G)
    \/ \E g \in Guests : Admit(g) \/ MakeMember(g)
    \/ LoseSeats

Spec == Init /\ [][Next]_vars

=============================================================================
