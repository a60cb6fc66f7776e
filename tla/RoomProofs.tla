----------------------------- MODULE RoomProofs -----------------------------
(***************************************************************************)
(* Lemmas about the methods of Room: each of them takes a room object that  *)
(* satisfies the inductive invariant RoomInv to one that does, whatever the *)
(* accounts and the size of the room.  They speak of a record, so they      *)
(* serve the proofs of one room and of the whole room server.               *)
(***************************************************************************)
EXTENDS Room, SequenceTheorems, FiniteSetTheorems, WellFoundedInduction, TLAPS

(* The invariants a run checks, and what makes them inductive: the player
   numbers in use are finitely many and m_cur_room_size_ is their number, so
   that a room that is not full has a number left to give. *)
RoomInv(r) ==
    /\ r \in RoomObject
    /\ MapLeadsToOwnEntry(r)
    /\ NumbersMatchUsers(r)
    /\ ReadyCountMatches(r)
    /\ OneOwnerAtFront(r)
    /\ StartedFullAndReady(r)
    /\ IsFiniteSet(r.numUse)
    /\ Cardinality(r.numUse) = r.size

-----------------------------------------------------------------------------
(* Removing an element moves the ones behind it one place forward. *)
LEMMA RemoveAtFacts ==
    ASSUME NEW S, NEW s \in Seq(S), NEW k \in 1..Len(s)
    PROVE  /\ RemoveAt(s, k) \in Seq(S)
           /\ Len(RemoveAt(s, k)) = Len(s) - 1
           /\ \A i \in 1..(Len(s) - 1) :
                 RemoveAt(s, k)[i] = s[IF i < k THEN i ELSE i + 1]
<1>  DEFINE front == SubSeq(s, 1, k - 1)
            back  == SubSeq(s, k + 1, Len(s))
<1>0. Len(s) \in Nat /\ k \in Int /\ \A i \in 1..Len(s) : s[i] \in S
  OBVIOUS
<1>1. /\ front \in Seq(S)
      /\ Len(front) = k - 1
      /\ \A i \in 1..(k - 1) : front[i] = s[i]
  <2>1. \A i \in 1..(k - 1) : s[i] \in S
    BY <1>0
  <2>2. k - 1 \in Int /\ 1 \in Int
    BY <1>0
  <2>3. /\ SubSeq(s, 1, k - 1) \in Seq(S)
        /\ Len(SubSeq(s, 1, k - 1)) = IF 1 <= k - 1 THEN (k - 1) - 1 + 1 ELSE 0
        /\ \A i \in 1..((k - 1) - 1 + 1) : SubSeq(s, 1, k - 1)[i] = s[1 + i - 1]
    BY <2>1, <2>2, SubSeqProperties
  <2> QED
    BY <2>3, <1>0
<1>2. /\ back \in Seq(S)
      /\ Len(back) = Len(s) - k
      /\ \A i \in 1..(Len(s) - k) : back[i] = s[k + i]
  <2>1. \A i \in (k + 1)..Len(s) : s[i] \in S
    BY <1>0
  <2>2. k + 1 \in Int /\ Len(s) \in Int
    BY <1>0
  <2>3. /\ SubSeq(s, k + 1, Len(s)) \in Seq(S)
        /\ Len(SubSeq(s, k + 1, Len(s))) =
             IF k + 1 <= Len(s) THEN Len(s) - (k + 1) + 1 ELSE 0
        /\ \A i \in 1..(Len(s) - (k + 1) + 1) :
             SubSeq(s, k + 1, Len(s))[i] = s[(k + 1) + i - 1]
    BY <2>1, <2>2, SubSeqProperties
  <2> QED
    BY <2>3, <1>0
<1>  HIDE DEF front, back
<1>3. /\ front \o back \in Seq(S)
      /\ Len(front \o back) = Len(front) + Len(back)
      /\ \A i \in 1..(Len(front) + Len(back)) :
           (front \o back)[i] = IF i <= Len(front) THEN front[i]
                                ELSE back[i - Len(front)]
  BY <1>1, <1>2, ConcatProperties
<1>4. RemoveAt(s, k) = front \o back
  BY DEF RemoveAt, front, back
<1>5. Len(front \o back) = Len(s) - 1
  BY <1>0, <1>1, <1>2, <1>3
<1>6. ASSUME NEW i \in 1..(Len(s) - 1)
      PROVE  (front \o back)[i] = s[IF i < k THEN i ELSE i + 1]
  <2>1. (front \o back)[i] = IF i <= k - 1 THEN front[i] ELSE back[i - (k - 1)]
    BY <1>0, <1>1, <1>2, <1>3
  <2>2. CASE i < k
    BY <2>1, <2>2, <1>0, <1>1
  <2>3. CASE ~(i < k)
    <3>1. i - (k - 1) \in 1..(Len(s) - k) /\ k + (i - (k - 1)) = i + 1
      BY <2>3, <1>0
    <3>2. back[i - (k - 1)] = s[i + 1]
      BY <3>1, <1>2
    <3> QED
      BY <2>1, <2>3, <3>2, <1>0
  <2> QED
    BY <2>2, <2>3
<1> QED
  BY <1>3, <1>4, <1>5, <1>6

(* Every set of naturals with an element has a least one, which is its Min. *)
LEMMA MinFacts ==
    ASSUME NEW S \in SUBSET Nat, S # {}
    PROVE  Min(S) \in S
<1>  DEFINE less == {ss \in Nat \X Nat : ss[1] < ss[2]}
<1>1. OpToRel(<, Nat) = less
  BY Zenon DEF OpToRel
<1>2. IsWellFoundedOn(less, Nat)
  BY <1>1, NatLessThanWellFounded, Zenon
<1>3. \E x \in S : \A y \in S : ~(<<y, x>> \in less)
  <2>  HIDE DEF less
  <2> QED
    BY <1>2, WFMin
<1>4. PICK x \in S : \A y \in S : ~(<<y, x>> \in less)
  BY <1>3
<1>5. ASSUME NEW y \in S
      PROVE  x =< y
  <2>1. x \in Nat /\ y \in Nat /\ <<y, x>> \notin less
    BY <1>4
  <2> QED
    BY <2>1
<1> QED
  BY <1>5 DEF Min

(* A room that is not full has a number to give, within its size. *)
LEMMA FreePlayerFacts ==
    ASSUME NEW r, RoomInv(r), r.size < r.max
    PROVE  FreePlayer(r) \in 1..r.max /\ FreePlayer(r) \notin r.numUse
<1>  DEFINE free == 1..r.max \ r.numUse
<1>1. /\ r.max \in Nat
      /\ r.numUse \subseteq 1..r.max
      /\ Cardinality(r.numUse) = r.size
      /\ r.size \in Nat
  BY FS_CardinalityType DEF RoomInv, RoomObject, NumbersMatchUsers
<1>2. free # {}
  <2>0. 1 \in Int /\ r.max \in Int
    BY <1>1
  <2>1. Cardinality(1..r.max) = IF 1 > r.max THEN 0 ELSE r.max - 1 + 1
    BY ONLY <2>0, FS_Interval, Zenon
  <2>2. Cardinality(1..r.max) = r.max
    BY <2>1, <1>1
  <2>3. r.numUse # 1..r.max
    BY <2>2, <1>1
  <2> QED
    BY <2>3, <1>1
<1>3. free \subseteq Nat
  BY <1>1
<1>4. Min(free) \in free
  <2>  HIDE DEF free
  <2> QED
    BY <1>2, <1>3, MinFacts
<1>5. FreePlayer(r) = Min(free)
  BY <1>2 DEF FreePlayer
<1> QED
  BY <1>4, <1>5

(* What RoomInv says of the fields, in the form the proofs below use. *)
RoomFields(r) ==
    /\ r.max \in Nat
    /\ r.users \in Seq(UserObject)
    /\ Len(r.users) \in Nat
    /\ r.at \in [Users -> Nat]
    /\ r.size = Len(r.users)
    /\ r.size <= r.max
    /\ r.readies = Cardinality(ReadyPlayers(r))
    /\ r.state \in RoomStates
    /\ r.master \in Users \cup {NoUser}
    /\ r.level \in SetLevels
    /\ r.numUse = PlayersOf(r)
    /\ r.numUse \subseteq 1..r.max
    /\ IsFiniteSet(r.numUse)
    /\ Cardinality(r.numUse) = r.size
    /\ IsFiniteSet(ReadyPlayers(r))
    /\ ReadyPlayers(r) \subseteq r.numUse
    /\ r.readies \in Nat
    /\ \A i \in 1..Len(r.users) :
         /\ r.users[i] \in UserObject
         /\ r.users[i].uid \in Users
         /\ r.users[i].player \in r.numUse
         /\ r.users[i].master \in BOOLEAN
         /\ r.users[i].ready \in BOOLEAN
    /\ \A i, j \in 1..Len(r.users) :
         r.users[i].player = r.users[j].player => i = j
    /\ \A u \in Users : r.at[u] # 0 =>
         r.at[u] \in 1..Len(r.users) /\ r.users[r.at[u]].uid = u

(* A room that satisfies RoomInv has these fields. *)
LEMMA RoomFacts ==
    ASSUME NEW r, RoomInv(r)
    PROVE  RoomFields(r)
<1>1. r \in RoomObject /\ NumbersMatchUsers(r) /\ ReadyCountMatches(r)
      /\ MapLeadsToOwnEntry(r)
  BY DEF RoomInv
<1>2. /\ r.max \in Nat
      /\ r.users \in Seq(UserObject)
      /\ Len(r.users) \in Nat
      /\ r.at \in [Users -> Nat]
      /\ r.state \in RoomStates
      /\ r.master \in Users \cup {NoUser}
      /\ r.level \in SetLevels
  BY <1>1 DEF RoomObject
<1>3. /\ r.size = Len(r.users)
      /\ r.size <= r.max
      /\ r.numUse = PlayersOf(r)
      /\ r.numUse \subseteq 1..r.max
      /\ \A i, j \in 1..Len(r.users) :
            r.users[i].player = r.users[j].player => i = j
  BY <1>1 DEF NumbersMatchUsers, Positions, SeatOf
<1>4. IsFiniteSet(r.numUse) /\ Cardinality(r.numUse) = r.size
  BY DEF RoomInv
<1>5. ReadyPlayers(r) \subseteq r.numUse
  BY <1>3 DEF ReadyPlayers, PlayersOf
<1>6. IsFiniteSet(ReadyPlayers(r)) /\ Cardinality(ReadyPlayers(r)) \in Nat
  BY <1>4, <1>5, FS_Subset, FS_CardinalityType
<1>7. \A i \in 1..Len(r.users) :
                /\ r.users[i] \in UserObject
                /\ r.users[i].uid \in Users
                /\ r.users[i].player \in r.numUse
                /\ r.users[i].master \in BOOLEAN
                /\ r.users[i].ready \in BOOLEAN
  <2>1. ASSUME NEW i \in 1..Len(r.users)
        PROVE  r.users[i] \in UserObject
    BY <1>2, ElementOfSeq
  <2>2. \A i \in 1..Len(r.users) : r.users[i].player \in r.numUse
    BY <1>3 DEF PlayersOf, Positions, SeatOf
  <2> QED
    BY <2>1, <2>2 DEF UserObject
<1>8. \A u \in Users : r.at[u] # 0 =>
                r.at[u] \in 1..Len(r.users) /\ r.users[r.at[u]].uid = u
  BY <1>1 DEF MapLeadsToOwnEntry, Holds, Positions, UserOf
<1>9. r.readies = Cardinality(ReadyPlayers(r))
  BY <1>1 DEF ReadyCountMatches
<1> QED
  BY <1>2, <1>3, <1>4, <1>5, <1>6, <1>7, <1>8, <1>9 DEF RoomFields

(* The empty room. *)
LEMMA NewRoomInv ==
    ASSUME NEW m \in Nat
    PROVE  RoomInv(NewRoom(m))
<1>  DEFINE r == NewRoom(m)
<1>1. r \in RoomObject
  BY EmptySeq DEF NewRoom, RoomObject, RoomStates, RoomStatePreparation,
     RoomStateSettleMent, SetLevels
<1>2. Positions(r) = {} /\ PlayersOf(r) = {} /\ ReadyPlayers(r) = {}
  BY DEF NewRoom, Positions, PlayersOf, ReadyPlayers
<1>3. MapLeadsToOwnEntry(r)
  BY DEF NewRoom, MapLeadsToOwnEntry, Holds
<1>4. NumbersMatchUsers(r)
  <2>1. r.size = 0 /\ r.users = << >> /\ r.numUse = {} /\ r.max = m
    BY DEF NewRoom
  <2> QED
    BY <1>2, <2>1 DEF NumbersMatchUsers
<1>5. ReadyCountMatches(r)
  BY <1>2, FS_EmptySet DEF ReadyCountMatches, NewRoom
<1>6. OneOwnerAtFront(r)
  BY DEF OneOwnerAtFront, NewRoom
<1>7. StartedFullAndReady(r)
  BY DEF StartedFullAndReady, IsRunning, NewRoom, RoomStatePreparation, RoomStateReady
<1>8. IsFiniteSet(r.numUse) /\ Cardinality(r.numUse) = r.size
  BY FS_EmptySet DEF NewRoom
<1> QED
  BY <1>1, <1>3, <1>4, <1>5, <1>6, <1>7, <1>8 DEF RoomInv

(* What userEnter does to the list: u is behind the others, with a number p that
   was free, and not ready. *)
Entered(r, u, p, n) ==
    /\ ~IsRunning(r)
    /\ p \in 1..r.max
    /\ p \notin r.numUse
    /\ Len(n.users) = Len(r.users) + 1
    /\ \A i \in 1..Len(r.users) : n.users[i] = r.users[i]
    /\ n.users[Len(r.users) + 1].uid = u
    /\ n.users[Len(r.users) + 1].player = p
    /\ n.numUse = r.numUse \cup {p}
    /\ ReadyPlayers(n) = ReadyPlayers(r)
    /\ n.state = r.state

(* userEnter preserves the invariant. *)
LEMMA UserEnterInv ==
    ASSUME NEW r, RoomInv(r), NEW u \in Users, UserEnterRet(r, "none") = 0
    PROVE  /\ RoomInv(UserEnter(r, u))
           /\ Entered(r, u, FreePlayer(r), UserEnter(r, u))
<1>  DEFINE n == UserEnter(r, u)
            p == FreePlayer(r)
            len == Len(r.users)
            entry == [uid |-> u, player |-> p, master |-> r.size = 0, ready |-> FALSE]
<1>0. RoomFields(r)
  BY RoomFacts
<1>1. ~IsRunning(r) /\ r.size < r.max
  <2>1. ~IsRunning(r) /\ ~(r.size >= r.max)
    BY DEF UserEnterRet
  <2> QED
    BY <2>1, <1>0 DEF RoomFields
<1>2. p \in 1..r.max /\ p \notin r.numUse /\ p # -1 /\ p \in Int
  BY <1>1, FreePlayerFacts, <1>0 DEF RoomFields
<1>3. r \in RoomObject
  BY DEF RoomInv
<1>4. /\ n.max = r.max
      /\ n.users = Append(r.users, entry)
      /\ n.at = [r.at EXCEPT ![u] = len + 1]
      /\ n.size = r.size + 1
      /\ n.readies = r.readies
      /\ n.state = r.state
      /\ n.master = IF r.size = 0 THEN u ELSE r.master
      /\ n.level = r.level
      /\ n.numUse = r.numUse \cup {p}
  BY <1>2, <1>3 DEF UserEnter, RoomObject
<1>5. entry \in UserObject
  BY <1>2 DEF UserObject
<1>6. /\ n.users \in Seq(UserObject)
      /\ Len(n.users) = len + 1
      /\ \A i \in 1..len : n.users[i] = r.users[i]
      /\ n.users[len + 1] = entry
  <2>  HIDE DEF entry, n
  <2> QED
    BY <1>4, <1>5, <1>0, AppendProperties DEF RoomFields
<1>7. /\ entry.uid = u /\ entry.player = p
      /\ (entry.master <=> r.size = 0) /\ ~entry.ready
  OBVIOUS
<1>8. n \in RoomObject
  <2>1. n \in [max : Nat, users : Seq(UserObject), at : [Users -> Nat], size : Int,
               readies : Int, state : RoomStates, master : Users \cup {NoUser},
               level : SetLevels, numUse : SUBSET Nat]
    <3>1. /\ n.max \in Nat /\ n.size \in Int /\ n.readies \in Int
          /\ n.state \in RoomStates /\ n.master \in Users \cup {NoUser}
          /\ n.level \in SetLevels /\ n.numUse \in SUBSET Nat
          /\ n.at \in [Users -> Nat]
      BY <1>2, <1>4, <1>0 DEF RoomFields
    <3>2. n = [max |-> n.max, users |-> n.users, at |-> n.at, size |-> n.size,
               readies |-> n.readies, state |-> n.state, master |-> n.master,
               level |-> n.level, numUse |-> n.numUse]
      <4>1. r = [max |-> r.max, users |-> r.users, at |-> r.at, size |-> r.size,
                 readies |-> r.readies, state |-> r.state, master |-> r.master,
                 level |-> r.level, numUse |-> r.numUse]
        BY <1>3 DEF RoomObject
      <4>2. n = [r EXCEPT !.users  = Append(@, entry),
                          !.at     = [@ EXCEPT ![u] = len + 1],
                          !.master = IF r.size = 0 THEN u ELSE @,
                          !.numUse = @ \cup ({p} \ {-1}),
                          !.size   = @ + 1]
        BY DEF UserEnter
      <4>  HIDE DEF entry, n, p
      <4> QED
        BY <4>1, <4>2
    <3>  HIDE DEF n
    <3> QED
      BY <1>6, <3>1, <3>2
  <2> QED
    BY <2>1 DEF RoomObject
<1>  HIDE DEF n, entry, p
<1>9. len \in Nat /\ len = r.size /\ Positions(n) = 1..(len + 1) /\ Positions(r) = 1..len
  BY <1>6, <1>0 DEF RoomFields, Positions
<1>9a. \A i \in 1..(len + 1) : i \in 1..len \/ (i = len + 1 /\ i \notin 1..len)
  BY <1>9
<1>10. PlayersOf(n) = r.numUse \cup {p}
  <2>1. \A i \in 1..len : SeatOf(n, i) = SeatOf(r, i)
    BY <1>6 DEF SeatOf
  <2>2. SeatOf(n, len + 1) = p
    BY <1>6, <1>7 DEF SeatOf
  <2>3. r.numUse = {SeatOf(r, i) : i \in 1..len}
    BY <1>9, <1>0 DEF RoomFields, PlayersOf
  <2>4. PlayersOf(n) = {SeatOf(n, i) : i \in 1..(len + 1)}
    BY <1>9 DEF PlayersOf
  <2>5. 1..(len + 1) = (1..len) \cup {len + 1}
    BY <1>9
  <2> QED
    BY <2>1, <2>2, <2>3, <2>4, <2>5
<1>11. MapLeadsToOwnEntry(n)
  <2>  SUFFICES ASSUME NEW v \in Users, n.at[v] # 0
                PROVE  n.at[v] \in 1..(len + 1) /\ n.users[n.at[v]].uid = v
    BY <1>9 DEF MapLeadsToOwnEntry, Holds, UserOf
  <2>1. CASE v = u
    BY <2>1, <1>4, <1>6, <1>7, <1>9, <1>0 DEF RoomFields
  <2>2. CASE v # u
    <3>1. n.at[v] = r.at[v]
      BY <2>2, <1>4, <1>0 DEF RoomFields
    <3>2. r.at[v] \in 1..len /\ r.users[r.at[v]].uid = v
      BY <3>1, <1>0 DEF RoomFields
    <3>3. r.at[v] \in 1..(len + 1)
      BY <3>2, <1>9
    <3>4. n.users[r.at[v]] = r.users[r.at[v]]
      BY <3>2, <1>6
    <3> QED
      BY <3>1, <3>2, <3>3, <3>4
  <2> QED
    BY <2>1, <2>2
<1>12. NumbersMatchUsers(n)
  <2>1. n.size = Len(n.users) /\ n.size <= n.max
    BY <1>1, <1>4, <1>6, <1>9, <1>0 DEF RoomFields
  <2>2. PlayersOf(n) \subseteq 1..n.max /\ n.numUse = PlayersOf(n)
    BY <1>2, <1>4, <1>10, <1>0 DEF RoomFields
  <2>3. ASSUME NEW i \in 1..(len + 1), NEW j \in 1..(len + 1),
               n.users[i].player = n.users[j].player
        PROVE  i = j
    <3>1. \A k \in 1..len : n.users[k].player = r.users[k].player
                            /\ r.users[k].player # p
      <4>1. ASSUME NEW k \in 1..len
            PROVE  n.users[k] = r.users[k] /\ r.users[k].player \in r.numUse
        BY <1>6, <1>0 DEF RoomFields
      <4> QED
        BY <4>1, <1>2
    <3>2. n.users[len + 1].player = p
      BY <1>6, <1>7
    <3>3. CASE i \in 1..len /\ j \in 1..len
      BY <2>3, <3>1, <3>3, <1>0 DEF RoomFields
    <3>4. CASE i \notin 1..len \/ j \notin 1..len
      BY <2>3, <3>1, <3>2, <3>4, <1>9, <1>9a
    <3> QED
      BY <3>3, <3>4
  <2> QED
    BY <2>1, <2>2, <2>3, <1>9 DEF NumbersMatchUsers, SeatOf
<1>13. ReadyPlayers(n) = ReadyPlayers(r)
  <2>1. {j \in 1..(len + 1) : n.users[j].ready} = {j \in 1..len : r.users[j].ready}
    <3>1. 1..len \subseteq 1..(len + 1)
      BY <1>9
    <3>2. \A j \in 1..len : n.users[j].ready = r.users[j].ready
      BY <1>6
    <3>3. ~n.users[len + 1].ready
      BY <1>6, <1>7
    <3> QED
      BY <3>1, <3>2, <3>3, <1>9a
  <2>2. \A i \in 1..len : SeatOf(n, i) = SeatOf(r, i)
    BY <1>6 DEF SeatOf
  <2> QED
    BY <2>1, <2>2, <1>9 DEF ReadyPlayers
<1>13a. ReadyCountMatches(n)
  BY <1>13, <1>4, <1>0 DEF RoomFields, ReadyCountMatches
<1>14. OneOwnerAtFront(n)
  <2>1. n.users # << >>
    BY <1>6, <1>9, EmptySeq
  <2>2. CASE r.size = 0
    BY <2>1, <2>2, <1>4, <1>6, <1>7, <1>9 DEF OneOwnerAtFront
  <2>3. CASE r.size # 0
    <3>1. r.users # << >>
      BY <2>3, <1>9, EmptySeq
    <3>2. r.master = r.users[1].uid /\ \A i \in 1..len : r.users[i].master <=> i = 1
      BY <3>1, <1>9 DEF RoomInv, OneOwnerAtFront
    <3>3. n.master = n.users[1].uid
      BY <2>3, <3>2, <1>4, <1>6, <1>9
    <3>4. \A i \in 1..(len + 1) : n.users[i].master <=> i = 1
      <4>1. \A i \in 1..len : n.users[i].master <=> i = 1
        BY <3>2, <1>6
      <4>2. ~n.users[len + 1].master /\ len + 1 # 1
        BY <2>3, <1>6, <1>7, <1>9
      <4> QED
        BY <4>1, <4>2, <1>9a
    <3> QED
      BY <2>1, <3>3, <3>4, <1>9 DEF OneOwnerAtFront
  <2> QED
    BY <2>2, <2>3
<1>15. StartedFullAndReady(n)
  BY <1>1, <1>4 DEF StartedFullAndReady, IsRunning
<1>16. IsFiniteSet(n.numUse) /\ Cardinality(n.numUse) = n.size
  <2>1. IsFiniteSet(r.numUse) /\ Cardinality(r.numUse) = r.size
    BY <1>0 DEF RoomFields
  <2>2. /\ IsFiniteSet(r.numUse \cup {p})
        /\ Cardinality(r.numUse \cup {p}) = Cardinality(r.numUse) + 1
    BY <2>1, <1>2, FS_AddElement
  <2> QED
    BY <2>1, <2>2, <1>4
<1>17. RoomInv(n)
  BY <1>8, <1>11, <1>12, <1>13a, <1>14, <1>15, <1>16 DEF RoomInv
<1>18. Entered(r, u, p, n)
  BY <1>1, <1>2, <1>4, <1>6, <1>7, <1>13 DEF Entered, len
<1> QED
  BY <1>17, <1>18 DEF n, p

(* What userLeave does to the list: the entry of u is gone, the others keep
   their account, number and ready flag, and the front has the owner's flag
   when the owner was the one who left. *)
Source(k, i) == IF i < k THEN i ELSE i + 1

LeftBehind(r, u, k, m, n) ==
    /\ m \in Nat /\ k \in 1..(m + 1) /\ r.users[k].uid = u
    /\ ~IsRunning(r)
    /\ n.users \in Seq(UserObject)
    /\ Len(n.users) = m
    /\ \A i \in 1..m :
         /\ Source(k, i) \in 1..(m + 1)
         /\ Source(k, i) # k
         /\ n.users[i].uid = r.users[Source(k, i)].uid
         /\ n.users[i].player = r.users[Source(k, i)].player
         /\ n.users[i].ready = r.users[Source(k, i)].ready
         /\ i = 1 /\ u = r.master => n.users[i].master
         /\ ~(i = 1 /\ u = r.master) =>
              n.users[i].master = r.users[Source(k, i)].master
    /\ \A j \in 1..(m + 1) : j # k => \E i \in 1..m : Source(k, i) = j
    /\ n.max = r.max
    /\ n.at = [v \in Users |-> IF v = u THEN 0
                               ELSE IF r.at[v] > k THEN r.at[v] - 1
                               ELSE r.at[v]]
    /\ n.master = IF u # r.master THEN r.master
                  ELSE IF m = 0 THEN NoUser ELSE n.users[1].uid
    /\ n.readies = IF r.users[k].ready THEN r.readies - 1 ELSE r.readies
    /\ n.numUse = r.numUse \ {r.users[k].player}
    /\ n.size = r.size - 1
    /\ n.state = r.state
    /\ n.level = r.level
    /\ n = [max |-> n.max, users |-> n.users, at |-> n.at, size |-> n.size,
            readies |-> n.readies, state |-> n.state, master |-> n.master,
            level |-> n.level, numUse |-> n.numUse]

(* userLeave leaves such a list behind. *)
LEMMA UserLeaveList ==
    ASSUME NEW r, RoomInv(r), NEW u \in Users, UserLeaveRet(r, u) = 0,
           NEW k, k = r.at[u],
           NEW n, n = UserLeave(r, u),
           NEW m, m = Len(r.users) - 1
    PROVE  LeftBehind(r, u, k, m, n)
<1>  DEFINE rest == RemoveAt(r.users, k)
<1>0. RoomFields(r)
  BY RoomFacts
<1>1. ~IsRunning(r) /\ r.at[u] # 0
  BY DEF UserLeaveRet, Holds
<1>2. /\ m \in Nat /\ Len(r.users) = m + 1
      /\ k \in 1..(m + 1) /\ r.users[k].uid = u
      /\ r.users \in Seq(UserObject)
  BY <1>0, <1>1 DEF RoomFields
<1>2a. m \in Nat /\ (m # 0 => 1 \in 1..m)
  <2>1. m \in Nat
    BY <1>2
  <2> QED
    BY ONLY <2>1
<1>3. /\ rest \in Seq(UserObject)
      /\ Len(rest) = m
      /\ \A i \in 1..m : rest[i] = r.users[Source(k, i)]
  <2>1. k \in 1..Len(r.users) /\ Len(r.users) - 1 = m
    BY <1>2
  <2>2. /\ RemoveAt(r.users, k) \in Seq(UserObject)
        /\ Len(RemoveAt(r.users, k)) = Len(r.users) - 1
        /\ \A i \in 1..(Len(r.users) - 1) :
              RemoveAt(r.users, k)[i] = r.users[IF i < k THEN i ELSE i + 1]
    BY <1>2, <2>1, RemoveAtFacts
  <2> QED
    BY <2>1, <2>2 DEF Source
<1>4. \A i \in 1..m : Source(k, i) \in 1..(m + 1) /\ Source(k, i) # k
  BY <1>2 DEF Source
<1>5. ASSUME NEW j \in 1..(m + 1), j # k
      PROVE  \E i \in 1..m : Source(k, i) = j
  <2>1. CASE j < k
    BY <2>1, <1>2 DEF Source
  <2>2. CASE j > k
    <3>1. j - 1 \in 1..m /\ ~(j - 1 < k) /\ (j - 1) + 1 = j
      BY <2>2, <1>2
    <3> QED
      BY <3>1 DEF Source
  <2> QED
    BY <1>2, <1>5, <2>1, <2>2
<1>  HIDE DEF rest
<1>6. rest = << >> <=> m = 0
  BY <1>3, EmptySeq
<1>7. r = [max |-> r.max, users |-> r.users, at |-> r.at, size |-> r.size,
           readies |-> r.readies, state |-> r.state, master |-> r.master,
           level |-> r.level, numUse |-> r.numUse]
  BY DEF RoomInv, RoomObject
<1>8. n = [r EXCEPT
             !.users   = IF u = r.master THEN FindNewMaster(rest) ELSE rest,
             !.at      = [v \in Users |-> IF v = u THEN 0
                                          ELSE IF r.at[v] > k THEN r.at[v] - 1
                                          ELSE r.at[v]],
             !.master  = IF ~(u = r.master) THEN @
                         ELSE IF rest = << >> THEN NoUser ELSE rest[1].uid,
             !.readies = IF r.users[k].ready THEN @ - 1 ELSE @,
             !.numUse  = @ \ {r.users[k].player},
             !.size    = @ - 1]
  BY <1>2 DEF UserLeave, AtWithout, NumUseWithout, ReadiesWithout, rest
<1>9. /\ n.users = IF u = r.master THEN FindNewMaster(rest) ELSE rest
      /\ n.max = r.max
      /\ n.at = [v \in Users |-> IF v = u THEN 0
                                 ELSE IF r.at[v] > k THEN r.at[v] - 1
                                 ELSE r.at[v]]
      /\ n.master = IF u # r.master THEN r.master
                    ELSE IF m = 0 THEN NoUser ELSE rest[1].uid
      /\ n.readies = IF r.users[k].ready THEN r.readies - 1 ELSE r.readies
      /\ n.numUse = r.numUse \ {r.users[k].player}
      /\ n.size = r.size - 1
      /\ n.state = r.state
      /\ n.level = r.level
      /\ n = [max |-> n.max, users |-> n.users, at |-> n.at, size |-> n.size,
              readies |-> n.readies, state |-> n.state, master |-> n.master,
              level |-> n.level, numUse |-> n.numUse]
  BY <1>6, <1>7, <1>8
<1>10. /\ n.users \in Seq(UserObject)
       /\ Len(n.users) = m
       /\ \A i \in 1..m :
            /\ n.users[i].uid = rest[i].uid
            /\ n.users[i].player = rest[i].player
            /\ n.users[i].ready = rest[i].ready
            /\ i = 1 /\ u = r.master => n.users[i].master
            /\ ~(i = 1 /\ u = r.master) => n.users[i].master = rest[i].master
  <2>1. CASE u # r.master \/ m = 0
    <3>1. n.users = rest
      BY <2>1, <1>6, <1>9 DEF FindNewMaster
    <3>2. \A i \in 1..m : ~(i = 1 /\ u = r.master)
      <4>1. CASE u # r.master
        BY <4>1
      <4>2. CASE m = 0
        <5>1. 1..m = {}
          BY ONLY <4>2
        <5> QED
          BY <5>1
      <4> QED
        BY <2>1, <4>1, <4>2
    <3> QED
      BY <3>1, <3>2, <1>3
  <2>2. CASE u = r.master /\ m # 0
    <3>1. n.users = [rest EXCEPT ![1].master = TRUE]
      BY <2>2, <1>6, <1>9 DEF FindNewMaster
    <3>2. 1 \in 1..Len(rest) /\ rest[1] \in UserObject
      <4>1. 1 \in 1..Len(rest)
        BY <2>2, <1>2a, <1>3
      <4> QED
        BY <4>1, <1>3, ElementOfSeq
    <3>3. n.users = [rest EXCEPT ![1] = [rest[1] EXCEPT !.master = TRUE]]
      BY <3>1
    <3>  DEFINE e == [rest[1] EXCEPT !.master = TRUE]
    <3>4. /\ e \in UserObject
          /\ e.uid = rest[1].uid /\ e.player = rest[1].player
          /\ e.ready = rest[1].ready /\ e.master
      BY <3>2 DEF UserObject
    <3>5. n.users = [rest EXCEPT ![1] = e]
      BY <3>3
    <3>  HIDE DEF e
    <3>6. /\ n.users \in Seq(UserObject) /\ Len(n.users) = Len(rest)
          /\ \A j \in 1..Len(rest) : n.users[j] = IF j = 1 THEN e ELSE rest[j]
      BY <3>2, <3>4, <3>5, <1>3, ExceptSeq
    <3>7. n.users \in Seq(UserObject) /\ Len(n.users) = m
      BY <3>6, <1>3
    <3>8. ASSUME NEW i \in 1..m
          PROVE  /\ n.users[i].uid = rest[i].uid
                 /\ n.users[i].player = rest[i].player
                 /\ n.users[i].ready = rest[i].ready
                 /\ i = 1 /\ u = r.master => n.users[i].master
                 /\ ~(i = 1 /\ u = r.master) => n.users[i].master = rest[i].master
      <4>1. n.users[i] = IF i = 1 THEN e ELSE rest[i]
        BY <3>6, <1>3
      <4>2. CASE i = 1
        BY <2>2, <3>4, <4>1, <4>2
      <4>3. CASE i # 1
        BY <4>1, <4>3
      <4> QED
        BY <4>2, <4>3
    <3> QED
      BY <3>7, <3>8
  <2> QED
    BY <2>1, <2>2
<1>11. m # 0 => n.users[1].uid = rest[1].uid
  BY <1>2a, <1>10
<1> QED
  BY <1>1, <1>2, <1>3, <1>4, <1>5, <1>9, <1>10, <1>11 DEF LeftBehind

(* userLeave preserves the invariant. *)
LEMMA UserLeaveInv ==
    ASSUME NEW r, RoomInv(r), NEW u \in Users, UserLeaveRet(r, u) = 0
    PROVE  /\ RoomInv(UserLeave(r, u))
           /\ ReadyPlayers(UserLeave(r, u)) = ReadyPlayers(r) \ {r.users[r.at[u]].player}
<1>  DEFINE n == UserLeave(r, u)
            k == r.at[u]
            m == Len(r.users) - 1
            p == r.users[k].player
<1>0. RoomFields(r)
  BY RoomFacts
<1>0a. LeftBehind(r, u, k, m, n)
  BY UserLeaveList
<1>1. /\ m \in Nat /\ k \in 1..(m + 1) /\ r.users[k].uid = u
      /\ ~IsRunning(r)
      /\ n.users \in Seq(UserObject)
      /\ Len(n.users) = m
  BY <1>0a DEF LeftBehind
<1>2. \A i \in 1..m :
        /\ Source(k, i) \in 1..(m + 1)
        /\ Source(k, i) # k
        /\ n.users[i].uid = r.users[Source(k, i)].uid
        /\ n.users[i].player = r.users[Source(k, i)].player
        /\ n.users[i].ready = r.users[Source(k, i)].ready
        /\ i = 1 /\ u = r.master => n.users[i].master
        /\ ~(i = 1 /\ u = r.master) =>
             n.users[i].master = r.users[Source(k, i)].master
  BY <1>0a DEF LeftBehind
<1>3. \A j \in 1..(m + 1) : j # k => \E i \in 1..m : Source(k, i) = j
  BY <1>0a DEF LeftBehind
<1>4. /\ n.max = r.max
      /\ n.at = [v \in Users |-> IF v = u THEN 0
                                 ELSE IF r.at[v] > k THEN r.at[v] - 1
                                 ELSE r.at[v]]
      /\ n.master = IF u # r.master THEN r.master
                    ELSE IF m = 0 THEN NoUser ELSE n.users[1].uid
      /\ n.readies = IF r.users[k].ready THEN r.readies - 1 ELSE r.readies
      /\ n.numUse = r.numUse \ {p}
      /\ n.size = r.size - 1
      /\ n.state = r.state
      /\ n.level = r.level
  BY <1>0a DEF LeftBehind
<1>5. n = [max |-> n.max, users |-> n.users, at |-> n.at, size |-> n.size,
           readies |-> n.readies, state |-> n.state, master |-> n.master,
           level |-> n.level, numUse |-> n.numUse]
  BY <1>0a DEF LeftBehind
<1>6. /\ Len(r.users) = m + 1 /\ r.size = m + 1 /\ m + 1 <= r.max
      /\ Positions(n) = 1..m /\ Positions(r) = 1..(m + 1)
  BY <1>0, <1>1 DEF RoomFields, Positions
<1>7. /\ p \in r.numUse
      /\ \A i \in 1..(m + 1) : /\ r.users[i].uid \in Users
                               /\ r.users[i].player \in r.numUse
                               /\ r.users[i].master \in BOOLEAN
                               /\ r.users[i].ready \in BOOLEAN
      /\ \A i, j \in 1..(m + 1) : r.users[i].player = r.users[j].player => i = j
  BY <1>0, <1>1, <1>6 DEF RoomFields
<1>8. m # 0 => 1 \in 1..m
  <2>1. m \in Nat
    BY <1>1
  <2>  HIDE DEF m
  <2> QED
    BY <2>1
<1>  HIDE DEF n, k, m, p
<1>9. r.numUse = {r.users[j].player : j \in 1..(m + 1)}
  BY <1>0, <1>6 DEF RoomFields, PlayersOf, SeatOf
<1>10. PlayersOf(n) = r.numUse \ {p}
  <2>1. PlayersOf(n) = {n.users[i].player : i \in 1..m}
    BY <1>6 DEF PlayersOf, SeatOf
  <2>2. ASSUME NEW i \in 1..m
        PROVE  n.users[i].player \in r.numUse \ {p}
    BY <1>1, <1>2, <1>7 DEF p
  <2>3. ASSUME NEW s \in r.numUse, s # p
        PROVE  \E i \in 1..m : n.users[i].player = s
    <3>1. PICK j \in 1..(m + 1) : r.users[j].player = s
      BY <1>9
    <3>2. j # k
      BY <2>3, <3>1 DEF p
    <3>3. PICK i \in 1..m : Source(k, i) = j
      BY <3>2, <1>3
    <3> QED
      BY <3>1, <3>3, <1>2
  <2> QED
    BY <2>1, <2>2, <2>3
<1>11. n \in RoomObject
  <2>1. /\ n.max \in Nat /\ n.size \in Int /\ n.readies \in Int
        /\ n.state \in RoomStates /\ n.level \in SetLevels
        /\ n.numUse \in SUBSET Nat
    BY <1>4, <1>0 DEF RoomFields
  <2>2. n.master \in Users \cup {NoUser}
    <3>1. m # 0 => n.users[1].uid \in Users
      BY <1>2, <1>7, <1>8
    <3> QED
      BY <3>1, <1>4, <1>0 DEF RoomFields
  <2>3. n.at \in [Users -> Nat]
    <3>1. \A v \in Users : r.at[v] \in Nat
      BY <1>0 DEF RoomFields
    <3>2. \A v \in Users : r.at[v] > k => r.at[v] - 1 \in Nat
      BY <3>1, <1>1
    <3> QED
      BY <1>4, <3>1, <3>2
  <2> QED
    BY <1>1, <1>5, <2>1, <2>2, <2>3 DEF RoomObject
<1>12. MapLeadsToOwnEntry(n)
  <2>  SUFFICES ASSUME NEW v \in Users, n.at[v] # 0
                PROVE  n.at[v] \in 1..m /\ n.users[n.at[v]].uid = v
    BY <1>6 DEF MapLeadsToOwnEntry, Holds, UserOf
  <2>  DEFINE j == r.at[v]
  <2>1. v # u /\ n.at[v] = IF j > k THEN j - 1 ELSE j
    BY <1>4
  <2>2. j \in Nat /\ j # 0
    BY <2>1, <1>0, <1>1 DEF RoomFields
  <2>3. j \in 1..(m + 1) /\ r.users[j].uid = v
    BY <2>2, <1>0, <1>6 DEF RoomFields
  <2>  HIDE DEF j
  <2>4. j # k
    BY <2>1, <2>3, <1>1
  <2>5. n.at[v] \in 1..m /\ Source(k, n.at[v]) = j
    BY <2>1, <2>3, <2>4, <1>1 DEF Source
  <2> QED
    BY <2>3, <2>5, <1>2
<1>13. NumbersMatchUsers(n)
  <2>1. n.size = Len(n.users) /\ n.size <= n.max
    BY <1>0, <1>1, <1>4, <1>6 DEF RoomFields
  <2>2. PlayersOf(n) \subseteq 1..n.max /\ n.numUse = PlayersOf(n)
    BY <1>0, <1>4, <1>10 DEF RoomFields
  <2>3. ASSUME NEW i \in 1..m, NEW j \in 1..m,
               n.users[i].player = n.users[j].player
        PROVE  i = j
    <3>1. Source(k, i) = Source(k, j)
      BY <2>3, <1>2, <1>7
    <3> QED
      BY <3>1, <1>1 DEF Source
  <2> QED
    BY <2>1, <2>2, <2>3, <1>6 DEF NumbersMatchUsers, SeatOf
<1>13a. ReadyPlayers(n) = ReadyPlayers(r) \ {p}
  <2>1. ReadyPlayers(r) = {r.users[j].player : j \in {i \in 1..(m + 1) : r.users[i].ready}}
    BY <1>6 DEF ReadyPlayers, SeatOf
  <2>2. ReadyPlayers(n) = {n.users[j].player : j \in {i \in 1..m : n.users[i].ready}}
    BY <1>6 DEF ReadyPlayers, SeatOf
  <2>3. ASSUME NEW i \in 1..m, n.users[i].ready
        PROVE  n.users[i].player \in ReadyPlayers(r) \ {p}
    <3>1. /\ Source(k, i) \in 1..(m + 1) /\ r.users[Source(k, i)].ready
          /\ n.users[i].player = r.users[Source(k, i)].player
          /\ r.users[Source(k, i)].player # p
      BY <2>3, <1>1, <1>2, <1>7 DEF p
    <3> QED
      BY <3>1, <2>1
  <2>4. ASSUME NEW s \in ReadyPlayers(r), s # p
        PROVE  s \in ReadyPlayers(n)
    <3>1. PICK j \in 1..(m + 1) : r.users[j].ready /\ r.users[j].player = s
      BY <2>1
    <3>2. j # k
      BY <2>4, <3>1 DEF p
    <3>3. PICK i \in 1..m : Source(k, i) = j
      BY <3>2, <1>3
    <3> QED
      BY <3>1, <3>3, <1>2, <2>2
  <2> QED
    BY <2>2, <2>3, <2>4
<1>14. ReadyCountMatches(n)
  <2>1. ReadyPlayers(r) = {r.users[j].player : j \in {i \in 1..(m + 1) : r.users[i].ready}}
    BY <1>6 DEF ReadyPlayers, SeatOf
  <2>2. p \in ReadyPlayers(r) <=> r.users[k].ready
    BY <2>1, <1>1, <1>7 DEF p
  <2>3. IsFiniteSet(ReadyPlayers(r)) /\ r.readies = Cardinality(ReadyPlayers(r))
    BY <1>0 DEF RoomFields
  <2>4. Cardinality(ReadyPlayers(n)) =
          IF p \in ReadyPlayers(r) THEN Cardinality(ReadyPlayers(r)) - 1
                                   ELSE Cardinality(ReadyPlayers(r))
    BY <1>13a, <2>3, FS_RemoveElement
  <2> QED
    BY <2>2, <2>3, <2>4, <1>4 DEF ReadyCountMatches
<1>15. OneOwnerAtFront(n)
  <2>1. r.users # << >>
    BY <1>1, <1>6, EmptySeq
  <2>2. /\ r.master = r.users[1].uid
        /\ \A i \in 1..(m + 1) : r.users[i].master <=> i = 1
    BY <2>1, <1>6 DEF RoomInv, OneOwnerAtFront
  <2>3. n.users = << >> <=> m = 0
    BY <1>1, EmptySeq
  <2>4. CASE m = 0
    <3>1. k = 1
      BY <2>4, <1>1
    <3>2. n.master = NoUser
      BY <2>2, <2>4, <3>1, <1>1, <1>4
    <3> QED
      BY <2>3, <2>4, <3>2 DEF OneOwnerAtFront
  <2>5. CASE m # 0 /\ u = r.master
    <3>1. n.master = n.users[1].uid
      BY <2>5, <1>4
    <3>2. ASSUME NEW i \in 1..m
          PROVE  n.users[i].master <=> i = 1
      <4>1. i # 1 => Source(k, i) # 1
        BY <1>1 DEF Source
      <4> QED
        BY <2>2, <2>5, <4>1, <1>2
    <3> QED
      BY <2>3, <2>5, <3>1, <3>2, <1>6 DEF OneOwnerAtFront
  <2>6. CASE m # 0 /\ u # r.master
    <3>1. k # 1
      BY <2>2, <2>6, <1>1
    <3>2. \A i \in 1..m : Source(k, i) = 1 <=> i = 1
      BY <3>1, <1>1 DEF Source
    <3>3. n.master = r.master /\ n.users[1].uid = r.users[1].uid
      BY <2>6, <3>2, <1>2, <1>4, <1>8
    <3>4. \A i \in 1..m : n.users[i].master <=> i = 1
      BY <2>2, <2>6, <3>2, <1>2
    <3> QED
      BY <2>2, <2>3, <2>6, <3>3, <3>4, <1>6 DEF OneOwnerAtFront
  <2> QED
    BY <2>4, <2>5, <2>6
<1>16. StartedFullAndReady(n)
  BY <1>1, <1>4 DEF StartedFullAndReady, IsRunning
<1>17. IsFiniteSet(n.numUse) /\ Cardinality(n.numUse) = n.size
  <2>1. IsFiniteSet(r.numUse) /\ Cardinality(r.numUse) = r.size
    BY <1>0 DEF RoomFields
  <2>2. /\ IsFiniteSet(r.numUse \ {p})
        /\ Cardinality(r.numUse \ {p}) = Cardinality(r.numUse) - 1
    BY <2>1, <1>7, FS_RemoveElement
  <2> QED
    BY <2>1, <2>2, <1>4
<1>18. RoomInv(n)
  BY <1>11, <1>12, <1>13, <1>14, <1>15, <1>16, <1>17 DEF RoomInv
<1> QED
  BY <1>13a, <1>18 DEF n, p, k

(* userReady, up to the point where it answers: a user that was not ready is
   now, and counted. *)
LEMMA UserReadyInv ==
    ASSUME NEW r, RoomInv(r), NEW u \in Users, Holds(r, u), ~UserOf(r, u).ready
    PROVE  /\ RoomInv(UserReady(r, u))
           /\ ReadyPlayers(UserReady(r, u)) = ReadyPlayers(r) \cup {r.users[r.at[u]].player}
           /\ r.users[r.at[u]].player \notin ReadyPlayers(r)
           /\ r.users[r.at[u]].player \in r.numUse
           /\ UserReady(r, u).numUse = r.numUse
           /\ Len(UserReady(r, u).users) = Len(r.users)
           /\ UserReady(r, u).max = r.max
           /\ UserReady(r, u).state = r.state
           /\ \A i \in 1..Len(r.users) :
                 /\ UserReady(r, u).users[i].uid = r.users[i].uid
                 /\ UserReady(r, u).users[i].player = r.users[i].player
                 /\ r.users[i].ready => UserReady(r, u).users[i].ready
<1>  DEFINE n == UserReady(r, u)
            k == r.at[u]
            len == Len(r.users)
            p == r.users[k].player
<1>0. RoomFields(r)
  BY RoomFacts
<1>1. k \in 1..len /\ ~r.users[k].ready /\ len \in Nat
      /\ Positions(r) = 1..len
  BY <1>0 DEF Holds, UserOf, RoomFields, Positions
<1>2. /\ \A i \in 1..len : /\ r.users[i] \in UserObject
                           /\ r.users[i].player \in r.numUse
                           /\ r.users[i].ready \in BOOLEAN
      /\ \A i, j \in 1..len : r.users[i].player = r.users[j].player => i = j
  BY <1>0 DEF RoomFields
<1>3. r = [max |-> r.max, users |-> r.users, at |-> r.at, size |-> r.size,
           readies |-> r.readies, state |-> r.state, master |-> r.master,
           level |-> r.level, numUse |-> r.numUse]
  BY DEF RoomInv, RoomObject
<1>  DEFINE e == [r.users[k] EXCEPT !.ready = TRUE]
<1>4. /\ e \in UserObject
      /\ e.uid = r.users[k].uid /\ e.player = p
      /\ e.master = r.users[k].master /\ e.ready
  BY <1>1, <1>2 DEF UserObject
<1>5. /\ n.users = [r.users EXCEPT ![k] = e]
      /\ n.readies = r.readies + 1
      /\ n.max = r.max /\ n.at = r.at /\ n.size = r.size /\ n.state = r.state
      /\ n.master = r.master /\ n.level = r.level /\ n.numUse = r.numUse
      /\ n = [max |-> n.max, users |-> n.users, at |-> n.at, size |-> n.size,
              readies |-> n.readies, state |-> n.state, master |-> n.master,
              level |-> n.level, numUse |-> n.numUse]
  <2>1. n = [r EXCEPT !.users   = [r.users EXCEPT ![k] = e],
                      !.readies = @ + 1]
    BY DEF UserReady
  <2>  HIDE DEF n, e
  <2> QED
    BY <2>1, <1>3
<1>  HIDE DEF n, k, len, p, e
<1>6. /\ n.users \in Seq(UserObject) /\ Len(n.users) = len
      /\ \A i \in 1..len : n.users[i] = IF i = k THEN e ELSE r.users[i]
  BY <1>0, <1>1, <1>4, <1>5, ExceptSeq DEF RoomFields, len
<1>7. \A i \in 1..len :
        /\ n.users[i].uid = r.users[i].uid
        /\ n.users[i].player = r.users[i].player
        /\ n.users[i].master = r.users[i].master
        /\ n.users[i].ready <=> (i = k \/ r.users[i].ready)
  <2>  SUFFICES ASSUME NEW i \in 1..len
                PROVE  /\ n.users[i].uid = r.users[i].uid
                       /\ n.users[i].player = r.users[i].player
                       /\ n.users[i].master = r.users[i].master
                       /\ n.users[i].ready <=> (i = k \/ r.users[i].ready)
    OBVIOUS
  <2>1. CASE i = k
    BY <2>1, <1>4, <1>6 DEF p
  <2>2. CASE i # k
    BY <2>2, <1>6
  <2> QED
    BY <2>1, <2>2
<1>8. Positions(n) = 1..len
  BY <1>6 DEF Positions
<1>9. /\ ReadyPlayers(n) = ReadyPlayers(r) \cup {p}
      /\ p \notin ReadyPlayers(r) /\ p \in r.numUse
  <2>1. ReadyPlayers(r) = {r.users[j].player : j \in {i \in 1..len : r.users[i].ready}}
    BY <1>1 DEF ReadyPlayers, SeatOf
  <2>2. ReadyPlayers(n) = {n.users[j].player : j \in {i \in 1..len : n.users[i].ready}}
    BY <1>8 DEF ReadyPlayers, SeatOf
  <2>3. p \notin ReadyPlayers(r) /\ p \in r.numUse
    BY <2>1, <1>1, <1>2 DEF p
  <2>4. p \in ReadyPlayers(n)
    BY <2>2, <1>1, <1>7 DEF p
  <2>5. ASSUME NEW s \in ReadyPlayers(r)
        PROVE  s \in ReadyPlayers(n)
    BY <2>1, <2>2, <1>7
  <2>6. ASSUME NEW s \in ReadyPlayers(n), s # p
        PROVE  s \in ReadyPlayers(r)
    <3>1. PICK j \in 1..len : n.users[j].ready /\ n.users[j].player = s
      BY <2>2
    <3>2. j # k
      BY <2>6, <3>1, <1>7 DEF p
    <3> QED
      BY <3>1, <3>2, <2>1, <1>7
  <2> QED
    BY <2>3, <2>4, <2>5, <2>6
<1>10. n \in RoomObject
  <2>1. /\ n.max \in Nat /\ n.at \in [Users -> Nat] /\ n.size \in Int
        /\ n.readies \in Int /\ n.state \in RoomStates
        /\ n.master \in Users \cup {NoUser} /\ n.level \in SetLevels
        /\ n.numUse \in SUBSET Nat
    BY <1>0, <1>5 DEF RoomFields
  <2> QED
    BY <2>1, <1>5, <1>6 DEF RoomObject
<1>11. MapLeadsToOwnEntry(n)
  <2>  SUFFICES ASSUME NEW v \in Users, n.at[v] # 0
                PROVE  n.at[v] \in 1..len /\ n.users[n.at[v]].uid = v
    BY <1>8 DEF MapLeadsToOwnEntry, Holds, UserOf
  <2>1. r.at[v] \in 1..len /\ r.users[r.at[v]].uid = v
    BY <1>0, <1>5 DEF RoomFields, len
  <2> QED
    BY <2>1, <1>5, <1>7
<1>12. NumbersMatchUsers(n)
  <2>1. PlayersOf(n) = PlayersOf(r)
    BY <1>1, <1>7, <1>8 DEF PlayersOf, SeatOf
  <2>2. n.size = Len(n.users) /\ n.size <= n.max
        /\ PlayersOf(n) \subseteq 1..n.max /\ n.numUse = PlayersOf(n)
    BY <2>1, <1>0, <1>5, <1>6 DEF RoomFields, len
  <2>3. \A i, j \in 1..len : n.users[i].player = n.users[j].player => i = j
    BY <1>2, <1>7
  <2> QED
    BY <2>2, <2>3, <1>8 DEF NumbersMatchUsers, SeatOf
<1>13. ReadyCountMatches(n)
  <2>1. IsFiniteSet(ReadyPlayers(r)) /\ r.readies = Cardinality(ReadyPlayers(r))
    BY <1>0 DEF RoomFields
  <2>2. Cardinality(ReadyPlayers(r) \cup {p}) = Cardinality(ReadyPlayers(r)) + 1
    BY <2>1, <1>9, FS_AddElement
  <2> QED
    BY <2>1, <2>2, <1>5, <1>9 DEF ReadyCountMatches
<1>14. OneOwnerAtFront(n)
  <2>1. r.users # << >> /\ n.users # << >> /\ 1 \in 1..len
    BY <1>1, <1>6, EmptySeq DEF len
  <2>2. r.master = r.users[1].uid /\ \A i \in 1..len : r.users[i].master <=> i = 1
    BY <2>1, <1>1 DEF RoomInv, OneOwnerAtFront
  <2> QED
    BY <2>1, <2>2, <1>5, <1>7, <1>8 DEF OneOwnerAtFront
<1>15. StartedFullAndReady(n)
  <2>  SUFFICES ASSUME IsRunning(r)
                PROVE  FALSE
    BY <1>5 DEF StartedFullAndReady, IsRunning
  <2>1. \A i \in 1..len : r.users[i].ready
    BY <1>1 DEF RoomInv, StartedFullAndReady
  <2> QED
    BY <2>1, <1>1
<1>16. IsFiniteSet(n.numUse) /\ Cardinality(n.numUse) = n.size
  BY <1>0, <1>5 DEF RoomFields
<1>17. RoomInv(n)
  BY <1>10, <1>11, <1>12, <1>13, <1>14, <1>15, <1>16 DEF RoomInv
<1> QED
  BY <1>5, <1>6, <1>7, <1>9, <1>17 DEF n, p, k, len

(* The start of the game: userReady of the owner, then set_status. *)
LEMMA StartGameInv ==
    ASSUME NEW r, RoomInv(r), NEW u \in Users, UserReadyRet(r, u) = 1
    PROVE  /\ RoomInv(SetStatus(UserReady(r, u), RoomStateRunning))
           /\ ReadyPlayers(UserReady(r, u)) = r.numUse
           /\ SetStatus(UserReady(r, u), RoomStateRunning).users = UserReady(r, u).users
           /\ SetStatus(UserReady(r, u), RoomStateRunning).state = RoomStateRunning
<1>  DEFINE q == UserReady(r, u)
            n == SetStatus(q, RoomStateRunning)
            p == r.users[r.at[u]].player
<1>1. Holds(r, u) /\ ~UserOf(r, u).ready /\ MayStart(r)
  BY DEF UserReadyRet
<1>2. /\ RoomInv(q)
      /\ ReadyPlayers(q) = ReadyPlayers(r) \cup {p}
      /\ p \notin ReadyPlayers(r) /\ p \in r.numUse
      /\ q.numUse = r.numUse
      /\ Len(q.users) = Len(r.users) /\ q.max = r.max
  BY <1>1, UserReadyInv
<1>  HIDE DEF p, q
<1>3. RoomFields(r) /\ RoomFields(q)
  BY <1>2, RoomFacts
<1>4. Len(q.users) = q.max /\ r.readies >= r.size - 1
  BY <1>1, <1>2, <1>3 DEF MayStart, RoomFields
<1>5. ReadyPlayers(q) = q.numUse
  <2>1. /\ IsFiniteSet(r.numUse \ {p})
        /\ Cardinality(r.numUse \ {p}) = Cardinality(r.numUse) - 1
    BY <1>2, <1>3, FS_RemoveElement DEF RoomFields
  <2>2. ReadyPlayers(r) \in SUBSET (r.numUse \ {p})
    BY <1>2, <1>3 DEF RoomFields
  <2>3. /\ Cardinality(ReadyPlayers(r)) <= Cardinality(r.numUse \ {p})
        /\ Cardinality(r.numUse \ {p}) = Cardinality(ReadyPlayers(r))
             => r.numUse \ {p} = ReadyPlayers(r)
    BY <2>1, <2>2, FS_Subset
  <2>4. /\ Cardinality(r.numUse) = r.size /\ r.size \in Nat
        /\ Cardinality(ReadyPlayers(r)) = r.readies /\ r.readies \in Nat
    BY <1>3 DEF RoomFields
  <2>5. r.numUse \ {p} = ReadyPlayers(r)
    BY <2>1, <2>3, <2>4, <1>4
  <2> QED
    BY <2>5, <1>2
<1>6. \A i \in 1..Len(q.users) : q.users[i].ready
  <2>  SUFFICES ASSUME NEW i \in 1..Len(q.users)
                PROVE  q.users[i].ready
    OBVIOUS
  <2>1. q.users[i].player \in ReadyPlayers(q)
    BY <1>3, <1>5 DEF RoomFields
  <2>2. PICK j \in 1..Len(q.users) :
           q.users[j].ready /\ q.users[j].player = q.users[i].player
    BY <2>1 DEF ReadyPlayers, SeatOf, Positions
  <2>3. i = j
    BY <2>2, <1>3 DEF RoomFields
  <2> QED
    BY <2>2, <2>3
<1>7. /\ n \in RoomObject
      /\ n.max = q.max /\ n.users = q.users /\ n.at = q.at /\ n.size = q.size
      /\ n.readies = q.readies /\ n.master = q.master /\ n.numUse = q.numUse
      /\ n.state = RoomStateRunning
  <2>1. q \in RoomObject
    BY <1>2 DEF RoomInv
  <2>2. RoomStateRunning \in RoomStates
    BY DEF RoomStates, RoomStateRunning, RoomStatePreparation, RoomStateSettleMent
  <2> QED
    BY <2>1, <2>2 DEF SetStatus, RoomObject
<1>  HIDE DEF n
<1>8. Positions(n) = Positions(q) /\ PlayersOf(n) = PlayersOf(q)
      /\ ReadyPlayers(n) = ReadyPlayers(q)
  BY <1>7 DEF Positions, PlayersOf, ReadyPlayers, SeatOf
<1>9. MapLeadsToOwnEntry(n)
  BY <1>2, <1>7, <1>8 DEF RoomInv, MapLeadsToOwnEntry, Holds, UserOf
<1>10. NumbersMatchUsers(n)
  BY <1>2, <1>7, <1>8 DEF RoomInv, NumbersMatchUsers, SeatOf
<1>11. ReadyCountMatches(n)
  BY <1>2, <1>7, <1>8 DEF RoomInv, ReadyCountMatches
<1>12. OneOwnerAtFront(n)
  BY <1>2, <1>7, <1>8 DEF RoomInv, OneOwnerAtFront
<1>13. StartedFullAndReady(n)
  BY <1>4, <1>6, <1>7, <1>8 DEF StartedFullAndReady, Positions
<1>14. IsFiniteSet(n.numUse) /\ Cardinality(n.numUse) = n.size
  BY <1>2, <1>7 DEF RoomInv
<1> QED
  BY <1>2, <1>5, <1>7, <1>9, <1>10, <1>11, <1>12, <1>13, <1>14 DEF RoomInv, n, q

(* userChoseLevel touches nothing but the level. *)
LEMMA UserChoseLevelInv ==
    ASSUME NEW r, RoomInv(r), NEW level \in SetLevels
    PROVE  /\ RoomInv(UserChoseLevel(r, level))
           /\ UserChoseLevel(r, level).users = r.users
           /\ UserChoseLevel(r, level).state = r.state
<1>  DEFINE n == UserChoseLevel(r, level)
<1>1. r \in RoomObject
  BY DEF RoomInv
<1>2. /\ n \in RoomObject
      /\ n.max = r.max /\ n.users = r.users /\ n.at = r.at /\ n.size = r.size
      /\ n.readies = r.readies /\ n.master = r.master /\ n.numUse = r.numUse
      /\ n.state = r.state
  BY <1>1 DEF UserChoseLevel, RoomObject
<1>  HIDE DEF n
<1>3. Positions(n) = Positions(r) /\ PlayersOf(n) = PlayersOf(r)
      /\ ReadyPlayers(n) = ReadyPlayers(r)
  BY <1>2 DEF Positions, PlayersOf, ReadyPlayers, SeatOf
<1>4. MapLeadsToOwnEntry(n)
  BY <1>2, <1>3 DEF RoomInv, MapLeadsToOwnEntry, Holds, UserOf
<1>5. NumbersMatchUsers(n)
  BY <1>2, <1>3 DEF RoomInv, NumbersMatchUsers, SeatOf
<1>6. ReadyCountMatches(n)
  BY <1>2, <1>3 DEF RoomInv, ReadyCountMatches
<1>7. OneOwnerAtFront(n)
  BY <1>2, <1>3 DEF RoomInv, OneOwnerAtFront
<1>8. StartedFullAndReady(n)
  BY <1>2, <1>3 DEF RoomInv, StartedFullAndReady, IsRunning
<1>9. IsFiniteSet(n.numUse) /\ Cardinality(n.numUse) = n.size
  BY <1>2 DEF RoomInv
<1> QED
  BY <1>2, <1>4, <1>5, <1>6, <1>7, <1>8, <1>9 DEF RoomInv, n

(* No method changes the size of the room. *)
LEMMA MaxIsFixed ==
    ASSUME NEW r \in RoomObject, NEW u \in Users, NEW level
    PROVE  /\ UserEnter(r, u).max = r.max
           /\ UserLeave(r, u).max = r.max
           /\ UserReady(r, u).max = r.max
           /\ SetStatus(UserReady(r, u), RoomStateRunning).max = r.max
           /\ UserChoseLevel(r, level).max = r.max
<1>1. r = [max |-> r.max, users |-> r.users, at |-> r.at,
              size |-> r.size, readies |-> r.readies, state |-> r.state,
              master |-> r.master, level |-> r.level, numUse |-> r.numUse]
  BY DEF RoomObject
<1>2. UserLeave(r, u).max = r.max
  BY <1>1 DEF UserLeave
<1>3. UserReady(r, u).max = r.max
  BY <1>1 DEF UserReady
<1>4. SetStatus(UserReady(r, u), RoomStateRunning).max = r.max
  BY <1>1 DEF UserReady, SetStatus
<1>5. UserChoseLevel(r, level).max = r.max
  BY <1>1 DEF UserChoseLevel
<1>6. UserEnter(r, u).max = r.max
  BY <1>1 DEF UserEnter
<1> QED
  BY <1>2, <1>3, <1>4, <1>5, <1>6

(* A room whose game runs refuses every request.  userReady itself refuses only
   in the states from RoomStateRunning on: in RoomStateReady it is the
   invariant, all listed users are ready, that keeps it from counting one twice. *)
LEMMA RunningRoomRefuses ==
    ASSUME NEW r, RoomInv(r), IsRunning(r), NEW u \in Users
    PROVE  /\ UserEnterRet(r, "none") # 0
           /\ UserLeaveRet(r, u) # 0
           /\ UserReadyRet(r, u) > 1
           /\ \A level : UserChoseLevelRet(r, u, level) # 0
<1>1. UserEnterRet(r, "none") # 0 /\ UserLeaveRet(r, u) # 0
  BY DEF UserEnterRet, UserLeaveRet
<1>2. \A level : UserChoseLevelRet(r, u, level) # 0
  BY DEF UserChoseLevelRet
<1>3. Holds(r, u) => UserOf(r, u).ready
  <2>1. MapLeadsToOwnEntry(r) /\ StartedFullAndReady(r)
    BY DEF RoomInv
  <2> QED
    BY <2>1 DEF MapLeadsToOwnEntry, StartedFullAndReady, UserOf
<1>4. UserReadyRet(r, u) > 1
  BY <1>3 DEF UserReadyRet
<1> QED
  BY <1>1, <1>2, <1>4
=============================================================================
