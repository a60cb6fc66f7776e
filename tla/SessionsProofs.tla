---------------------------- MODULE SessionsProofs ----------------------------
(***************************************************************************)
(* What is proved of Sessions for any sessions, hosts, types and numbers:   *)
(* its types, that the four indexes of SessionManager agree, that no number *)
(* leads to a session that is gone, and that connected hosts have sessions. *)
(***************************************************************************)
EXTENDS Sessions, SequenceTheorems, FiniteSetTheorems, TLAPS

-----------------------------------------------------------------------------
(* Removing an element moves the ones behind it one place forward. *)
LEMMA RemoveAtFacts ==
    ASSUME NEW S, NEW s \in Seq(S), NEW k \in 1..Len(s)
    PROVE  /\ RemoveAt(s, k) \in Seq(S)
           /\ Len(RemoveAt(s, k)) = Len(s) - 1
           /\ \A i \in 1..(Len(s) - 1) :
                 RemoveAt(s, k)[i] = s[IF i < k THEN i ELSE i + 1]
<1>  DEFINE front == SubSeq(s, 1, k - 1)
            back  == SubSeq(s, k + 1, Len(s))
<1>0. Len(s) \in Nat /\ k \in Int /\ \A i \in 1..Len(s) : s[i] \in S
  OBVIOUS
<1>1. /\ front \in Seq(S)
      /\ Len(front) = k - 1
      /\ \A i \in 1..(k - 1) : front[i] = s[i]
  <2>1. \A i \in 1..(k - 1) : s[i] \in S
    BY <1>0
  <2>2. k - 1 \in Int /\ 1 \in Int
    BY <1>0
  <2>3. /\ SubSeq(s, 1, k - 1) \in Seq(S)
        /\ Len(SubSeq(s, 1, k - 1)) = IF 1 <= k - 1 THEN (k - 1) - 1 + 1 ELSE 0
        /\ \A i \in 1..((k - 1) - 1 + 1) : SubSeq(s, 1, k - 1)[i] = s[1 + i - 1]
    BY <2>1, <2>2, SubSeqProperties
  <2> QED
    BY <2>3, <1>0
<1>2. /\ back \in Seq(S)
      /\ Len(back) = Len(s) - k
      /\ \A i \in 1..(Len(s) - k) : back[i] = s[k + i]
  <2>1. \A i \in (k + 1)..Len(s) : s[i] \in S
    BY <1>0
  <2>2. k + 1 \in Int /\ Len(s) \in Int
    BY <1>0
  <2>3. /\ SubSeq(s, k + 1, Len(s)) \in Seq(S)
        /\ Len(SubSeq(s, k + 1, Len(s))) =
             IF k + 1 <= Len(s) THEN Len(s) - (k + 1) + 1 ELSE 0
        /\ \A i \in 1..(Len(s) - (k + 1) + 1) :
             SubSeq(s, k + 1, Len(s))[i] = s[(k + 1) + i - 1]
    BY <2>1, <2>2, SubSeqProperties
  <2> QED
    BY <2>3, <1>0
<1>  HIDE DEF front, back
<1>3. /\ front \o back \in Seq(S)
      /\ Len(front \o back) = Len(front) + Len(back)
      /\ \A i \in 1..(Len(front) + Len(back)) :
           (front \o back)[i] = IF i <= Len(front) THEN front[i]
                                ELSE back[i - Len(front)]
  BY <1>1, <1>2, ConcatProperties
<1>4. RemoveAt(s, k) = front \o back
  BY DEF RemoveAt, front, back
<1>5. Len(front \o back) = Len(s) - 1
  BY <1>0, <1>1, <1>2, <1>3
<1>6. ASSUME NEW i \in 1..(Len(s) - 1)
      PROVE  (front \o back)[i] = s[IF i < k THEN i ELSE i + 1]
  <2>1. (front \o back)[i] = IF i <= k - 1 THEN front[i] ELSE back[i - (k - 1)]
    BY <1>0, <1>1, <1>2, <1>3
  <2>2. CASE i < k
    BY <2>1, <2>2, <1>0, <1>1
  <2>3. CASE ~(i < k)
    <3>1. i - (k - 1) \in 1..(Len(s) - k) /\ k + (i - (k - 1)) = i + 1
      BY <2>3, <1>0
    <3>2. back[i - (k - 1)] = s[i + 1]
      BY <3>1, <1>2
    <3> QED
      BY <2>1, <2>3, <3>2, <1>0
  <2> QED
    BY <2>2, <2>3
<1> QED
  BY <1>3, <1>4, <1>5, <1>6

(* The list s holds o. *)
InList(s, o) == \E i \in DOMAIN s : s[i] = o

(* The list s holds o once if it has to be there, and not at all otherwise. *)
Placed(s, o, there) == IF there THEN OccursOnce(s, o) ELSE ~InList(s, o)

(* What is appended is there once, and nothing else is moved. *)
LEMMA AppendPlaced ==
    ASSUME NEW S, NEW s \in Seq(S), NEW x \in S, ~InList(s, x)
    PROVE  /\ Append(s, x) \in Seq(S)
           /\ Placed(Append(s, x), x, TRUE)
           /\ \A o, there : o # x /\ Placed(s, o, there) => Placed(Append(s, x), o, there)
<1>  DEFINE z == Append(s, x)
            n == Len(s)
<1>1. n \in Nat /\ DOMAIN s = 1..n
  OBVIOUS
<1>2. z \in Seq(S) /\ DOMAIN z = 1..(n + 1) /\ z[n + 1] = x /\ \A i \in 1..n : z[i] = s[i]
  OBVIOUS
<1>  HIDE DEF z, n
<1>3. Placed(z, x, TRUE)
  <2>1. n + 1 \in DOMAIN z /\ \A j \in DOMAIN z : z[j] = x <=> j = n + 1
    BY <1>1, <1>2 DEF InList
  <2> QED
    BY <2>1 DEF Placed, OccursOnce
<1>4. ASSUME NEW o, NEW there, o # x, Placed(s, o, there)
      PROVE  Placed(z, o, there)
  <2>1. \A j \in DOMAIN z : z[j] = o <=> j \in DOMAIN s /\ s[j] = o
    BY <1>1, <1>2, <1>4
  <2>2. DOMAIN s \subseteq DOMAIN z
    BY <1>1, <1>2
  <2> QED
    BY <2>1, <2>2, <1>4 DEF Placed, OccursOnce, InList
<1> QED
  BY <1>2, <1>3, <1>4 DEF z

(* What is removed is there no more, and nothing else is moved. *)
LEMMA RemovePlaced ==
    ASSUME NEW S, NEW s \in Seq(S), NEW x \in S, Placed(s, x, TRUE)
    PROVE  /\ RemoveFirst(s, x) \in Seq(S)
           /\ Placed(RemoveFirst(s, x), x, FALSE)
           /\ \A o, there : o # x /\ Placed(s, o, there) => Placed(RemoveFirst(s, x), o, there)
<1>  DEFINE n == Len(s)
<1>1. n \in Nat /\ DOMAIN s = 1..n
  OBVIOUS
<1>2. PICK k \in 1..n : \A j \in 1..n : s[j] = x <=> j = k
  BY <1>1 DEF Placed, OccursOnce
<1>  DEFINE z == RemoveAt(s, k)
<1>3. RemoveFirst(s, x) = z
  <2>1. {i \in 1..Len(s) : s[i] = x} = {k}
    BY <1>2
  <2>2. Min({k}) = k
    BY <1>1, <1>2 DEF Min
  <2> QED
    BY <1>2, <2>1, <2>2 DEF RemoveFirst, SelectInSeq
<1>4. /\ z \in Seq(S) /\ DOMAIN z = 1..(n - 1)
      /\ \A i \in 1..(n - 1) : z[i] = s[IF i < k THEN i ELSE i + 1]
  <2>1. z \in Seq(S) /\ Len(z) = n - 1
        /\ \A i \in 1..(n - 1) : z[i] = s[IF i < k THEN i ELSE i + 1]
    BY <1>2, RemoveAtFacts
  <2> QED
    BY <2>1
<1>  HIDE DEF z, n
<1>5. \A i \in DOMAIN z : (IF i < k THEN i ELSE i + 1) \in 1..n \ {k}
  BY <1>1, <1>2, <1>4
<1>6. Placed(z, x, FALSE)
  BY <1>2, <1>4, <1>5 DEF Placed, InList
<1>7. ASSUME NEW o, NEW there, o # x, Placed(s, o, there)
      PROVE  Placed(z, o, there)
  <2>1. CASE ~there
    BY <2>1, <1>1, <1>4, <1>5, <1>7 DEF Placed, InList
  <2>2. CASE there
    <3>1. OccursOnce(s, o)
      BY <2>2, <1>7 DEF Placed
    <3>2. PICK i \in DOMAIN s : \A j \in DOMAIN s : s[j] = o <=> j = i
      BY <3>1, Zenon DEF OccursOnce
    <3>3. i \in 1..n /\ i # k
      <4>1. i \in 1..n /\ s[i] = o
        BY <3>2, <1>1
      <4> QED
        BY <4>1, <1>2, <1>7
    <3>  DEFINE l == IF i < k THEN i ELSE i - 1
    <3>4. l \in DOMAIN z
      BY <3>3, <1>1, <1>2, <1>4
    <3>5. ASSUME NEW j \in DOMAIN z PROVE z[j] = o <=> j = l
      <4>  DEFINE p == IF j < k THEN j ELSE j + 1
      <4>1. p \in DOMAIN s /\ z[j] = s[p]
        BY <1>1, <1>4, <1>5
      <4>2. i \in Int /\ j \in Int /\ k \in Int
        BY <1>1, <1>2, <1>4, <3>3
      <4>3. p = i <=> j = l
        BY <4>2, <3>3
      <4>  HIDE DEF p, l
      <4> QED
        BY <4>1, <4>3, <3>2
    <3> QED
      BY <3>4, <3>5, <2>2 DEF Placed, OccursOnce
  <2> QED
    BY <2>1, <2>2
<1> QED
  BY <1>3, <1>4, <1>6, <1>7

-----------------------------------------------------------------------------
(* The types of what SessionManager keeps. *)
IndexTyped ==
    /\ list \in Seq(Objects)
    /\ byId \in [DOMAIN byId -> Objects] /\ DOMAIN byId \subseteq NetIds
    /\ byType \in [Types -> Seq(Objects)]
    /\ byUid \in [DOMAIN byUid -> Objects] /\ DOMAIN byUid \subseteq Uids
    /\ netid \in [Objects -> NetIds \cup {0}]
    /\ ctype \in [Objects -> AllTypes]
    /\ uid \in [Objects -> Uids]

(* The part of the inductive invariant that is about SessionManager. *)
IndexInv == IndexTyped /\ IndexesAgree /\ NoDanglingUid

(* The ids of sessions are not 0, which is the id of none. *)
LEMMA IdFacts ==
    /\ 0 \notin NetIds
    /\ \A n \in Nat : TcpId(n % IdCount) \in NetIds
    /\ \A n \in Nat : n % IdCount \in 0..(IdCount - 1)
<1>1. \A n \in Nat : n % IdCount \in 0..(IdCount - 1)
  BY SessionsAssumption
<1>2. \A m \in 0..(IdCount - 1) : TcpId(m) \in NetIds
  BY SessionsAssumption DEF TcpId, NetIds
<1>3. 0 \notin NetIds
  BY SessionsAssumption DEF NetIds
<1> QED
  BY <1>1, <1>2, <1>3

(* Each session is where its id and its type say, and nowhere else. *)
PlacesAgree ==
    /\ \A o \in Objects :
          /\ Listed(o) => netid[o] \in DOMAIN byId /\ byId[netid[o]] = o
          /\ Placed(list, o, Listed(o))
          /\ \A t \in Types : Placed(byType[t], o, Listed(o) /\ ctype[o] = t)
    /\ \A id \in DOMAIN byId : netid[byId[id]] = id

(* This is what IndexesAgree says. *)
LEMMA AgreeFacts == IndexesAgree <=> PlacesAgree
<1>1. \A s, o : InList(s, o) <=> o \in {s[i] : i \in DOMAIN s}
  BY DEF InList
<1>2. IdIndex <=> \A o \in Objects :
              /\ Listed(o) => netid[o] \in DOMAIN byId /\ byId[netid[o]] = o
              /\ Placed(list, o, Listed(o))
  BY <1>1 DEF IdIndex, Placed
<1>3. TypeIndex <=> \A o \in Objects : \A t \in Types :
              Placed(byType[t], o, Listed(o) /\ ctype[o] = t)
  BY <1>1 DEF TypeIndex, Placed
<1> QED
  BY <1>2, <1>3 DEF IndexesAgree, PlacesAgree

(* A session is added under an id that is not in the map. *)
LEMMA AddFacts ==
    ASSUME IndexInv, NEW o \in Objects, ~Listed(o), NEW id \in NetIds, id \notin DOMAIN byId,
           NEW t \in AllTypes, AddSessionById(o, id, t)
    PROVE  IndexInv' /\ DOMAIN byId' = DOMAIN byId \cup {id}
<1>1. /\ list' = Append(list, o)
      /\ byId' = [z \in DOMAIN byId \cup {id} |-> IF z = id THEN o ELSE byId[z]]
      /\ byType' = IF t = CT_DEFAULT THEN byType ELSE [byType EXCEPT ![t] = Append(@, o)]
      /\ netid' = [netid EXCEPT ![o] = id]
      /\ ctype' = [ctype EXCEPT ![o] = t]
      /\ byUid' = byUid /\ uid' = uid
  BY DEF AddSessionById, Extended
<1>2. /\ \A x \in Objects :
            /\ Listed(x) => netid[x] \in DOMAIN byId /\ byId[netid[x]] = x
            /\ Placed(list, x, Listed(x))
            /\ \A s \in Types : Placed(byType[s], x, Listed(x) /\ ctype[x] = s)
      /\ \A n \in DOMAIN byId : netid[byId[n]] = n
  BY AgreeFacts DEF IndexInv, PlacesAgree
<1>3. /\ netid'[o] = id /\ ctype'[o] = t /\ Listed(o)'
      /\ \A x \in Objects \ {o} :
            netid'[x] = netid[x] /\ ctype'[x] = ctype[x] /\ (Listed(x)' <=> Listed(x))
  BY <1>1, IdFacts DEF IndexInv, IndexTyped, Listed
<1>4. /\ list' \in Seq(Objects)
      /\ \A x \in Objects : Placed(list', x, Listed(x)')
  <2>1. ~InList(list, o)
    BY <1>2 DEF Placed
  <2>2. /\ Append(list, o) \in Seq(Objects)
        /\ Placed(Append(list, o), o, TRUE)
        /\ \A x, there : x # o /\ Placed(list, x, there) => Placed(Append(list, o), x, there)
    BY <2>1, AppendPlaced DEF IndexInv, IndexTyped
  <2>3. \A x \in Objects \ {o} : Placed(list', x, Listed(x)')
    BY <1>1, <1>2, <1>3, <2>2 DEF Placed
  <2>4. Placed(list', o, Listed(o)')
    BY <1>1, <1>3, <2>2 DEF Placed
  <2> QED
    BY <1>1, <2>2, <2>3, <2>4
<1>5. ASSUME NEW s \in Types
      PROVE  /\ byType'[s] \in Seq(Objects)
             /\ \A x \in Objects : Placed(byType'[s], x, Listed(x)' /\ ctype'[x] = s)
  <2>0. byType[s] \in Seq(Objects) /\ ~InList(byType[s], o)
    BY <1>2 DEF Placed, IndexInv, IndexTyped
  <2>1. CASE s = t
    <3>1. byType'[s] = Append(byType[s], o)
      BY <1>1, <2>1, SessionsAssumption DEF IndexInv, IndexTyped
    <3>2. /\ Append(byType[s], o) \in Seq(Objects)
          /\ Placed(Append(byType[s], o), o, TRUE)
          /\ \A x, there : x # o /\ Placed(byType[s], x, there)
                               => Placed(Append(byType[s], o), x, there)
      BY <2>0, AppendPlaced
    <3>3. ASSUME NEW x \in Objects, x # o
          PROVE  Placed(byType'[s], x, Listed(x)' /\ ctype'[x] = s)
      <4>1. Placed(byType[s], x, Listed(x) /\ ctype[x] = s)
        BY <1>2
      <4>2. (Listed(x)' /\ ctype'[x] = s) <=> (Listed(x) /\ ctype[x] = s)
        BY <1>3, <3>3
      <4> QED
        BY <4>1, <4>2, <3>1, <3>2, <3>3 DEF Placed
    <3>4. Placed(byType'[s], o, Listed(o)' /\ ctype'[o] = s)
      BY <1>3, <2>1, <3>1, <3>2 DEF Placed
    <3> QED
      BY <3>1, <3>2, <3>3, <3>4
  <2>2. CASE s # t
    <3>1. byType'[s] = byType[s]
      BY <1>1, <2>2, SessionsAssumption DEF IndexInv, IndexTyped
    <3> QED
      BY <1>2, <1>3, <2>0, <2>2, <3>1 DEF Placed
  <2> QED
    BY <2>1, <2>2
<1>6. IndexTyped'
  <2>1. byType' \in [Types -> Seq(Objects)]
    BY <1>1, <1>5 DEF IndexInv, IndexTyped
  <2> QED
    BY <1>1, <1>4, <2>1 DEF IndexInv, IndexTyped
<1>7. ASSUME NEW x \in Objects, Listed(x)'
      PROVE  netid'[x] \in DOMAIN byId' /\ byId'[netid'[x]] = x
  <2>1. CASE x = o
    BY <2>1, <1>1, <1>3
  <2>2. CASE x # o
    BY <2>2, <1>1, <1>2, <1>3, <1>7
  <2> QED
    BY <2>1, <2>2
<1>8. ASSUME NEW n \in DOMAIN byId' PROVE netid'[byId'[n]] = n
  <2>1. CASE n = id
    BY <2>1, <1>1, <1>3
  <2>2. CASE n # id
    <3>1. byId'[n] = byId[n] /\ n \in DOMAIN byId /\ byId[n] \in Objects
      BY <1>1, <1>8, <2>2 DEF IndexInv, IndexTyped
    <3>2. byId[n] # o
      BY <1>2, <3>1, IdFacts DEF Listed, IndexInv, IndexTyped
    <3> QED
      BY <1>2, <1>3, <3>1, <3>2
  <2> QED
    BY <2>1, <2>2
<1>9. IndexesAgree'
  <2>1. \A x \in Objects : \A s \in Types : Placed(byType'[s], x, Listed(x)' /\ ctype'[x] = s)
    BY <1>5
  <2>2. (IndexesAgree <=> PlacesAgree)'
    BY AgreeFacts, PTL
  <2>3. PlacesAgree'
    BY <1>4, <1>7, <1>8, <2>1 DEF PlacesAgree, Listed, Placed, InList, OccursOnce
  <2> QED
    BY <2>2, <2>3
<1>10. NoDanglingUid'
  BY <1>1, <1>3, IdFacts DEF NoDanglingUid, IndexInv, IndexTyped
<1> QED
  BY <1>1, <1>6, <1>9, <1>10 DEF IndexInv

(* A peer announces a type and a number. *)
LEMMA HandShakeFacts ==
    ASSUME IndexInv, NEW o \in Objects, Listed(o), NEW t \in AllTypes, NEW u \in Uids,
           UpdateSessionType(o, t), UpdateSessionUid(o, u), UNCHANGED <<list, byId, netid>>
    PROVE  IndexInv'
<1>1. /\ byType' = IF t = ctype[o] THEN byType
                   ELSE [s \in Types |-> IF s = ctype[o] THEN RemoveFirst(byType[s], o)
                                         ELSE IF s = t THEN Append(byType[s], o)
                                         ELSE byType[s]]
      /\ ctype' = [ctype EXCEPT ![o] = t]
      /\ uid' = [uid EXCEPT ![o] = u]
  BY DEF UpdateSessionType, UpdateSessionUid
<1>2. PlacesAgree
  BY AgreeFacts DEF IndexInv
<1>3. /\ \A x \in Objects : Listed(x)' <=> Listed(x)
      /\ ctype'[o] = t /\ uid'[o] = u
      /\ \A x \in Objects \ {o} : ctype'[x] = ctype[x] /\ uid'[x] = uid[x]
  BY <1>1 DEF IndexInv, IndexTyped, Listed
<1>4. ASSUME NEW s \in Types
      PROVE  /\ byType'[s] \in Seq(Objects)
             /\ \A x \in Objects : Placed(byType'[s], x, Listed(x)' /\ ctype'[x] = s)
  <2>1. /\ byType[s] \in Seq(Objects)
        /\ \A x \in Objects : Placed(byType[s], x, Listed(x) /\ ctype[x] = s)
    BY <1>2 DEF IndexInv, IndexTyped, PlacesAgree
  <2>2. CASE t = ctype[o] \/ (s # ctype[o] /\ s # t)
    <3>1. byType'[s] = byType[s]
      BY <1>1, <2>2
    <3>2. ASSUME NEW x \in Objects
          PROVE  (Listed(x)' /\ ctype'[x] = s) <=> (Listed(x) /\ ctype[x] = s)
      BY <1>3, <2>2
    <3> QED
      BY <2>1, <3>1, <3>2 DEF Placed
  <2>3. CASE t # ctype[o] /\ s = ctype[o]
    <3>1. byType'[s] = RemoveFirst(byType[s], o)
      BY <1>1, <2>3
    <3>2. Placed(byType[s], o, TRUE)
      BY <2>1, <2>3 DEF Placed
    <3>3. /\ byType'[s] \in Seq(Objects)
          /\ Placed(byType'[s], o, FALSE)
          /\ \A x, there : x # o /\ Placed(byType[s], x, there) => Placed(byType'[s], x, there)
      BY <2>1, <3>1, <3>2, RemovePlaced
    <3>4. Placed(byType'[s], o, Listed(o)' /\ ctype'[o] = s)
      BY <1>3, <2>3, <3>3 DEF Placed
    <3>5. ASSUME NEW x \in Objects, x # o
          PROVE  Placed(byType'[s], x, Listed(x)' /\ ctype'[x] = s)
      <4>1. (Listed(x)' /\ ctype'[x] = s) <=> (Listed(x) /\ ctype[x] = s)
        BY <1>3, <3>5
      <4> QED
        BY <2>1, <3>3, <3>5, <4>1 DEF Placed
    <3> QED
      BY <3>3, <3>4, <3>5
  <2>4. CASE s # ctype[o] /\ s = t
    <3>1. byType'[s] = Append(byType[s], o)
      BY <1>1, <2>4
    <3>2. ~InList(byType[s], o)
      BY <2>1, <2>4 DEF Placed
    <3>3. /\ byType'[s] \in Seq(Objects)
          /\ Placed(byType'[s], o, TRUE)
          /\ \A x, there : x # o /\ Placed(byType[s], x, there) => Placed(byType'[s], x, there)
      BY <2>1, <3>1, <3>2, AppendPlaced
    <3>4. Placed(byType'[s], o, Listed(o)' /\ ctype'[o] = s)
      BY <1>3, <2>4, <3>3 DEF Placed
    <3>5. ASSUME NEW x \in Objects, x # o
          PROVE  Placed(byType'[s], x, Listed(x)' /\ ctype'[x] = s)
      <4>1. (Listed(x)' /\ ctype'[x] = s) <=> (Listed(x) /\ ctype[x] = s)
        BY <1>3, <3>5
      <4> QED
        BY <2>1, <3>3, <3>5, <4>1 DEF Placed
    <3> QED
      BY <3>3, <3>4, <3>5
  <2> QED
    BY <2>2, <2>3, <2>4
<1>5. ASSUME u # uid[o]
      PROVE  /\ DOMAIN byUid' = (DOMAIN byUid \ ({uid[o]} \ {0})) \cup ({u} \ {0})
             /\ \A v \in DOMAIN byUid' : byUid'[v] = IF v = u /\ u # 0 THEN o ELSE byUid[v]
  <2>1. CASE uid[o] = 0
    BY <1>5, <2>1, SessionsAssumption DEF UpdateSessionUid, Extended, Erased
  <2>2. CASE uid[o] # 0
    BY <1>5, <2>2, SessionsAssumption DEF UpdateSessionUid, Extended, Erased
  <2> QED
    BY <2>1, <2>2
<1>6. ASSUME u = uid[o] PROVE byUid' = byUid /\ uid' = uid
  BY <1>6, <1>1 DEF UpdateSessionUid, IndexInv, IndexTyped
<1>7. byUid' \in [DOMAIN byUid' -> Objects] /\ DOMAIN byUid' \subseteq Uids
  <2>1. CASE u = uid[o]
    BY <2>1, <1>6 DEF IndexInv, IndexTyped
  <2>2. CASE u # uid[o]
    <3>1. byUid' = [v \in DOMAIN byUid' |-> byUid'[v]]
      BY DEF UpdateSessionUid, Extended, Erased, IndexInv, IndexTyped
    <3>2. \A v \in DOMAIN byUid' : byUid'[v] \in Objects
      BY <1>5, <2>2 DEF IndexInv, IndexTyped
    <3>3. DOMAIN byUid' \subseteq Uids
      BY <1>5, <2>2 DEF IndexInv, IndexTyped
    <3> QED
      BY <3>1, <3>2, <3>3
  <2> QED
    BY <2>1, <2>2
<1>8. NoDanglingUid'
  <2>1. CASE u = uid[o]
    BY <2>1, <1>3, <1>6 DEF NoDanglingUid, IndexInv, IndexTyped
  <2>2. CASE u # uid[o]
    <3>1. ASSUME NEW v \in DOMAIN byUid'
          PROVE  v # 0 /\ netid'[byUid'[v]] # 0 /\ uid'[byUid'[v]] = v
      <4>1. CASE v = u /\ u # 0
        BY <4>1, <1>3, <1>5, <2>2 DEF Listed
      <4>2. CASE ~(v = u /\ u # 0)
        <5>1. v \in DOMAIN byUid /\ byUid'[v] = byUid[v] /\ (v # uid[o] \/ uid[o] = 0)
          BY <4>2, <1>5, <2>2, <3>1
        <5>2. v # 0 /\ Listed(byUid[v]) /\ uid[byUid[v]] = v /\ byUid[v] \in Objects
          BY <5>1 DEF NoDanglingUid, IndexInv, IndexTyped
        <5>3. byUid[v] # o
          BY <5>1, <5>2
        <5>4. netid'[byUid'[v]] # 0
          BY <1>3, <5>1, <5>2 DEF Listed
        <5> QED
          BY <1>3, <5>1, <5>2, <5>3, <5>4
      <4> QED
        BY <4>1, <4>2
    <3> QED
      BY <3>1 DEF NoDanglingUid, Listed
  <2> QED
    BY <2>1, <2>2
<1>9. IndexTyped'
  <2>1. byType' \in [Types -> Seq(Objects)]
    <3>1. byType' = [s \in Types |-> byType'[s]]
      BY <1>1 DEF IndexInv, IndexTyped
    <3> QED
      BY <1>4, <3>1
  <2> QED
    BY <1>1, <1>7, <2>1 DEF IndexInv, IndexTyped
<1>10. IndexesAgree'
  <2>1. \A x \in Objects : \A s \in Types : Placed(byType'[s], x, Listed(x)' /\ ctype'[x] = s)
    BY <1>4
  <2>2. (IndexesAgree <=> PlacesAgree)'
    BY AgreeFacts, PTL
  <2>3. \A x \in Objects : Placed(list', x, Listed(x)')
    BY <1>2, <1>3 DEF PlacesAgree, Placed
  <2>4. PlacesAgree'
    BY <1>2, <1>3, <2>1, <2>3 DEF PlacesAgree, Listed, Placed, InList, OccursOnce
  <2> QED
    BY <2>2, <2>4
<1> QED
  BY <1>8, <1>9, <1>10 DEF IndexInv

(* A session is removed from every index. *)
LEMMA RemoveFacts ==
    ASSUME IndexInv, NEW o \in Objects, Listed(o), RemoveSessionById(netid[o])
    PROVE  IndexInv' /\ DOMAIN byId' = DOMAIN byId \ {netid[o]}
<1>1. PlacesAgree /\ byId[netid[o]] = o /\ netid[o] \in DOMAIN byId
  BY AgreeFacts DEF IndexInv, PlacesAgree
<1>2. /\ byType' = [t \in Types |-> IF t = ctype[o] THEN RemoveFirst(byType[t], o) ELSE byType[t]]
      /\ byUid' = IF uid[o] = 0 THEN byUid ELSE [v \in DOMAIN byUid \ {uid[o]} |-> byUid[v]]
      /\ list' = RemoveFirst(list, o)
      /\ byId' = [n \in DOMAIN byId \ {netid[o]} |-> byId[n]]
      /\ netid' = [netid EXCEPT ![o] = 0]
      /\ ctype' = [ctype EXCEPT ![o] = CT_DEFAULT]
      /\ uid' = [uid EXCEPT ![o] = 0]
  BY <1>1 DEF RemoveSessionById, Erased
<1>3. /\ ~Listed(o)'
      /\ \A x \in Objects \ {o} : /\ netid'[x] = netid[x] /\ (Listed(x)' <=> Listed(x))
                                  /\ ctype'[x] = ctype[x] /\ uid'[x] = uid[x]
  BY <1>2 DEF IndexInv, IndexTyped, Listed
<1>4. /\ list' \in Seq(Objects)
      /\ \A x \in Objects : Placed(list', x, Listed(x)')
  <2>1. list \in Seq(Objects) /\ Placed(list, o, TRUE)
    BY <1>1 DEF IndexInv, IndexTyped, PlacesAgree, Placed
  <2>2. /\ list' \in Seq(Objects)
        /\ Placed(list', o, FALSE)
        /\ \A x, there : x # o /\ Placed(list, x, there) => Placed(list', x, there)
    BY <1>2, <2>1, RemovePlaced
  <2>3. ASSUME NEW x \in Objects, x # o PROVE Placed(list', x, Listed(x)')
    BY <1>1, <1>3, <2>2, <2>3 DEF PlacesAgree, Placed
  <2>4. Placed(list', o, Listed(o)')
    BY <1>3, <2>2 DEF Placed
  <2> QED
    BY <2>2, <2>3, <2>4
<1>5. ASSUME NEW s \in Types
      PROVE  /\ byType'[s] \in Seq(Objects)
             /\ \A x \in Objects : Placed(byType'[s], x, Listed(x)' /\ ctype'[x] = s)
  <2>1. /\ byType[s] \in Seq(Objects)
        /\ \A x \in Objects : Placed(byType[s], x, Listed(x) /\ ctype[x] = s)
    BY <1>1 DEF IndexInv, IndexTyped, PlacesAgree
  <2>2. /\ byType'[s] \in Seq(Objects)
        /\ Placed(byType'[s], o, FALSE)
        /\ \A x, there : x # o /\ Placed(byType[s], x, there) => Placed(byType'[s], x, there)
    <3>1. CASE s = ctype[o]
      <4>1. byType'[s] = RemoveFirst(byType[s], o) /\ Placed(byType[s], o, TRUE)
        BY <1>2, <2>1, <3>1 DEF Placed
      <4> QED
        BY <2>1, <4>1, RemovePlaced
    <3>2. CASE s # ctype[o]
      <4>1. byType'[s] = byType[s] /\ Placed(byType[s], o, FALSE)
        BY <1>2, <2>1, <3>2 DEF Placed
      <4> QED
        BY <2>1, <4>1
    <3> QED
      BY <3>1, <3>2
  <2>3. Placed(byType'[s], o, Listed(o)' /\ ctype'[o] = s)
    BY <1>3, <2>2 DEF Placed
  <2>4. ASSUME NEW x \in Objects, x # o
        PROVE  Placed(byType'[s], x, Listed(x)' /\ ctype'[x] = s)
    <3>1. (Listed(x)' /\ ctype'[x] = s) <=> (Listed(x) /\ ctype[x] = s)
      BY <1>3, <2>4
    <3> QED
      BY <2>1, <2>2, <2>4, <3>1 DEF Placed
  <2> QED
    BY <2>2, <2>3, <2>4
<1>6. IndexTyped'
  <2>1. byType' \in [Types -> Seq(Objects)]
    BY <1>2, <1>5
  <2>2. byUid' \in [DOMAIN byUid' -> Objects] /\ DOMAIN byUid' \subseteq Uids
    BY <1>2 DEF IndexInv, IndexTyped
  <2>3. byId' \in [DOMAIN byId' -> Objects] /\ DOMAIN byId' \subseteq NetIds
    BY <1>2 DEF IndexInv, IndexTyped
  <2>4. /\ netid' \in [Objects -> NetIds \cup {0}] /\ ctype' \in [Objects -> AllTypes]
        /\ uid' \in [Objects -> Uids]
    BY <1>2, SessionsAssumption DEF IndexInv, IndexTyped, AllTypes
  <2> QED
    BY <1>4, <2>1, <2>2, <2>3, <2>4 DEF IndexTyped
<1>7. ASSUME NEW x \in Objects, Listed(x)'
      PROVE  netid'[x] \in DOMAIN byId' /\ byId'[netid'[x]] = x
  <2>1. x # o /\ netid'[x] = netid[x] /\ netid[x] \in DOMAIN byId /\ byId[netid[x]] = x
    BY <1>1, <1>3, <1>7 DEF PlacesAgree
  <2>2. netid[x] # netid[o]
    BY <1>1, <2>1
  <2> QED
    BY <1>2, <2>1, <2>2
<1>8. ASSUME NEW n \in DOMAIN byId' PROVE netid'[byId'[n]] = n
  <2>1. n \in DOMAIN byId /\ n # netid[o] /\ byId'[n] = byId[n] /\ byId[n] \in Objects
    BY <1>2 DEF IndexInv, IndexTyped
  <2>2. netid[byId[n]] = n
    BY <1>1, <2>1 DEF PlacesAgree
  <2> QED
    BY <1>3, <2>1, <2>2
<1>9. IndexesAgree'
  <2>1. \A x \in Objects : \A s \in Types : Placed(byType'[s], x, Listed(x)' /\ ctype'[x] = s)
    BY <1>5
  <2>2. (IndexesAgree <=> PlacesAgree)'
    BY AgreeFacts, PTL
  <2>3. PlacesAgree'
    BY <1>4, <1>7, <1>8, <2>1 DEF PlacesAgree, Listed, Placed, InList, OccursOnce
  <2> QED
    BY <2>2, <2>3
<1>10. NoDanglingUid'
  <2>1. ASSUME NEW v \in DOMAIN byUid'
        PROVE  v # 0 /\ netid'[byUid'[v]] # 0 /\ uid'[byUid'[v]] = v
    <3>1. v \in DOMAIN byUid /\ byUid'[v] = byUid[v] /\ (v # uid[o] \/ uid[o] = 0)
      BY <1>2, <2>1
    <3>2. v # 0 /\ Listed(byUid[v]) /\ uid[byUid[v]] = v /\ byUid[v] \in Objects
      BY <3>1 DEF NoDanglingUid, IndexInv, IndexTyped
    <3>3. byUid[v] # o
      BY <3>1, <3>2
    <3>4. netid'[byUid'[v]] # 0
      BY <1>3, <3>1, <3>2, <3>3 DEF Listed
    <3> QED
      BY <1>3, <3>1, <3>2, <3>3, <3>4
  <2> QED
    BY <2>1 DEF NoDanglingUid, Listed
<1> QED
  BY <1>2, <1>6, <1>9, <1>10 DEF IndexInv

(* The indexes are left alone. *)
LEMMA IndexIdle ==
    ASSUME IndexInv, UNCHANGED indexVars
    PROVE  IndexInv' /\ DOMAIN byId' = DOMAIN byId
BY DEF indexVars, IndexInv, IndexTyped, IndexesAgree, IdIndex, TypeIndex, NoDanglingUid, Listed

-----------------------------------------------------------------------------
(* The types of what Server keeps. *)
ServerTyped ==
    /\ current_id \in 0..(IdCount - 1)
    /\ conv \in Nat /\ conv >= ConvStart
    /\ hostState \in [HostIndex -> {"CST_UNCONNECT", "CST_CONNECTING", "CST_CONNECTED"}]
    /\ hostId \in [HostIndex -> NetIds \cup {0}]
    /\ hostPtr \in [HostIndex -> NetIds \cup {0}]
    /\ pending \in [HostIndex -> Nat]
    /\ halted \in BOOLEAN /\ clash \in BOOLEAN

(* The inductive invariant. *)
IInv == IndexInv /\ ServerTyped /\ HostsHaveSessions

(* What HostsHaveSessions says of a host. *)
HostKept(h) ==
    /\ hostState[h] = "CST_CONNECTED" => hostId[h] \in DOMAIN byId /\ pending[h] = 0
    /\ hostState[h] = "CST_CONNECTING" =>
          /\ pending[h] = 1 /\ hostPtr[h] = hostId[h] /\ hostId[h] # 0
          /\ hostId[h] \notin DOMAIN byId
    /\ hostState[h] = "CST_UNCONNECT" => pending[h] = 0

(* It says it of every host. *)
LEMMA KeptFacts ==
    ASSUME HostsHaveSessions, ~clash
    PROVE  \A h \in HostIndex : HostKept(h)
BY DEF HostsHaveSessions, HostKept

(* That is enough for it to hold of the next state. *)
LEMMA KeptNext ==
    ASSUME ~clash' => /\ ~halted' /\ \A h \in HostIndex : HostKept(h)'
                      /\ \A g, h \in HostIndex : g # h /\ hostId'[g] = hostId'[h] => hostId'[g] = 0
    PROVE  HostsHaveSessions'
BY DEF HostsHaveSessions, HostKept

(* A connection is accepted under an id, which may be in use. *)
LEMMA AcceptFacts ==
    ASSUME IInv, NEW o \in Objects, ~Listed(o), NEW id \in NetIds,
           AddOrCollide(o, id, CT_DEFAULT), clash' = (clash \/ InUse(id)),
           UNCHANGED hostVars
    PROVE  IndexInv' /\ HostsHaveSessions' /\ halted' \in BOOLEAN /\ clash' \in BOOLEAN
<1>1. clash' \in BOOLEAN
  BY DEF IInv, ServerTyped, InUse
<1>2. CASE id \notin DOMAIN byId /\ AddSessionById(o, id, CT_DEFAULT) /\ halted' = halted
  <2>1. IndexInv' /\ DOMAIN byId' = DOMAIN byId \cup {id}
    BY <1>2, AddFacts DEF IInv, AllTypes
  <2>2. ASSUME ~clash'
        PROVE  ~clash /\ \A h \in HostIndex : hostId[h] # id
    BY <2>2 DEF InUse
  <2>3. HostsHaveSessions'
    BY <1>2, <2>1, <2>2 DEF IInv, HostsHaveSessions, hostVars
  <2> QED
    BY <1>1, <1>2, <2>1, <2>3 DEF IInv, ServerTyped
<1>3. CASE id \in DOMAIN byId /\ Collide
  <2>1. clash' /\ halted' /\ UNCHANGED indexVars
    BY <1>3 DEF InUse, Collide
  <2>2. IndexInv'
    BY <2>1, IndexIdle DEF IInv
  <2> QED
    BY <1>1, <2>1, <2>2 DEF HostsHaveSessions
<1> QED
  BY <1>2, <1>3 DEF AddOrCollide

(* Every host that is not connected is tried under an id of its own. *)
LEMMA DoConnectFacts ==
    ASSUME IInv, DoConnect
    PROVE  IInv'
<1>  DEFINE rank(h) == Cardinality({g \in Unconnected : g < h})
            id(h)   == TcpId((current_id + rank(h)) % IdCount)
<1>1. Unconnected \subseteq HostIndex /\ IsFiniteSet(Unconnected)
  <2>1. IsFiniteSet(HostIndex)
    BY FS_Interval, LenProperties DEF HostIndex
  <2>2. Unconnected \subseteq HostIndex
    BY DEF Unconnected
  <2> QED
    BY <2>1, <2>2, FS_Subset
<1>2. ASSUME NEW h \in HostIndex PROVE id(h) \in NetIds /\ id(h) # 0
  <2>1. rank(h) \in Nat
    <3>1. {g \in Unconnected : g < h} \subseteq Unconnected
      OBVIOUS
    <3> QED
      BY <1>1, <3>1, FS_Subset, FS_CardinalityType
  <2>2. current_id + rank(h) \in Nat
    BY <2>1, SessionsAssumption DEF IInv, ServerTyped
  <2> QED
    BY <2>2, IdFacts
<1>3. Cardinality(Unconnected) \in Nat
  BY <1>1, FS_CardinalityType
<1>  HIDE DEF id
<1>4. /\ current_id' = (current_id + Cardinality(Unconnected)) % IdCount
      /\ hostId' = [h \in HostIndex |-> IF h \in Unconnected THEN id(h) ELSE hostId[h]]
      /\ hostPtr' = [h \in HostIndex |-> IF h \in Unconnected THEN id(h) ELSE hostPtr[h]]
      /\ pending' = [h \in HostIndex |->
                       IF h \in Unconnected THEN pending[h] + 1 ELSE pending[h]]
      /\ hostState' = [h \in HostIndex |->
                         IF h \in Unconnected THEN "CST_CONNECTING" ELSE hostState[h]]
      /\ clash' = (clash \/ \E h \in Unconnected :
                      \/ id(h) \in DOMAIN byId
                      \/ \E g \in HostIndex \ {h} : hostId'[g] = id(h))
      /\ UNCHANGED <<list, byId, byType, byUid, netid, ctype, uid, conv, halted>>
  BY DEF DoConnect, id
<1>5. IndexInv'
  BY <1>4, IndexIdle DEF indexVars, IInv
<1>6. ServerTyped'
  <2>1. current_id' \in 0..(IdCount - 1)
    <3>1. current_id + Cardinality(Unconnected) \in Nat
      BY <1>3, SessionsAssumption DEF IInv, ServerTyped
    <3> QED
      BY <1>4, <3>1, IdFacts
  <2>2. /\ hostId' \in [HostIndex -> NetIds \cup {0}]
        /\ hostPtr' \in [HostIndex -> NetIds \cup {0}]
    BY <1>2, <1>4 DEF IInv, ServerTyped
  <2>3. pending' \in [HostIndex -> Nat]
    BY <1>4 DEF IInv, ServerTyped
  <2> QED
    BY <1>4, <2>1, <2>2, <2>3 DEF IInv, ServerTyped
<1>7. ASSUME ~clash'
      PROVE  ~halted' /\ (\A h \in HostIndex : HostKept(h)')
             /\ \A g, h \in HostIndex : g # h /\ hostId'[g] = hostId'[h] => hostId'[g] = 0
  <2>1. /\ ~clash
        /\ \A h \in Unconnected : id(h) \notin DOMAIN byId
        /\ \A h \in Unconnected : \A g \in HostIndex \ {h} : hostId'[g] # id(h)
    BY <1>4, <1>7
  <2>2. ASSUME NEW h \in HostIndex
        PROVE  HostKept(h)'
    <3>0. HostKept(h)
      BY <2>1, KeptFacts DEF IInv
    <3>1. CASE h \in Unconnected
      <4>1. /\ hostState'[h] = "CST_CONNECTING" /\ hostId'[h] = id(h) /\ hostPtr'[h] = id(h)
            /\ pending'[h] = pending[h] + 1 /\ DOMAIN byId' = DOMAIN byId
        BY <3>1, <1>4
      <4>2. hostState[h] = "CST_UNCONNECT"
        BY <3>1 DEF Unconnected
      <4> QED
        BY <3>0, <3>1, <4>1, <4>2, <1>2, <2>1 DEF HostKept
    <3>2. CASE h \notin Unconnected
      BY <3>0, <3>2, <1>4 DEF HostKept
    <3> QED
      BY <3>1, <3>2
  <2>3. ASSUME NEW g \in HostIndex, NEW h \in HostIndex, g # h, hostId'[g] = hostId'[h]
        PROVE  hostId'[g] = 0
    <3>1. g \notin Unconnected /\ h \notin Unconnected
      BY <1>4, <2>1, <2>3
    <3> QED
      BY <3>1, <1>4, <2>1, <2>3 DEF IInv, HostsHaveSessions
  <2> QED
    BY <1>4, <2>1, <2>2, <2>3 DEF IInv, HostsHaveSessions
<1>8. HostsHaveSessions'
  BY <1>7, KeptNext
<1> QED
  BY <1>5, <1>6, <1>8 DEF IInv

(* What every callback of a connect keeps. *)
LEMMA CallbackFacts ==
    ASSUME IInv, NEW h \in HostIndex, Callback(h)
    PROVE  /\ hostPtr' \in [HostIndex -> NetIds \cup {0}]
           /\ pending' \in [HostIndex -> Nat]
           /\ pending'[h] = pending[h] - 1
           /\ \A g \in HostIndex \ {h} : pending'[g] = pending[g] /\ hostPtr'[g] = hostPtr[g]
           /\ ~clash => /\ hostState[h] = "CST_CONNECTING" /\ pending[h] = 1
                        /\ hostPtr[h] = hostId[h] /\ hostId[h] # 0
                        /\ hostId[h] \notin DOMAIN byId
<1>1. /\ pending[h] > 0
      /\ pending' = [pending EXCEPT ![h] = @ - 1]
      /\ hostPtr' = [hostPtr EXCEPT ![h] = 0]
  BY DEF Callback
<1>2. ~clash => HostKept(h)
  BY KeptFacts DEF IInv
<1>3. hostState[h] \in {"CST_UNCONNECT", "CST_CONNECTING", "CST_CONNECTED"}
      /\ pending[h] \in Nat
  BY DEF IInv, ServerTyped
<1>4. hostPtr' \in [HostIndex -> NetIds \cup {0}]
  BY <1>1 DEF IInv, ServerTyped
<1>5. pending' \in [HostIndex -> Nat] /\ pending'[h] = pending[h] - 1
  BY <1>1, <1>3 DEF IInv, ServerTyped
<1>6. \A g \in HostIndex \ {h} : pending'[g] = pending[g] /\ hostPtr'[g] = hostPtr[g]
  BY <1>1 DEF IInv, ServerTyped
<1> QED
  BY <1>1, <1>2, <1>3, <1>4, <1>5, <1>6 DEF HostKept

(* A connect ends with a session. *)
LEMMA ConnectOkFacts ==
    ASSUME IInv, NEW h \in HostIndex, NEW o \in Objects, ConnectOk(h, o)
    PROVE  IInv'
<1>1. /\ Callback(h) /\ hostPtr[h] # 0 /\ hostPtr[h] = hostId[h] /\ ~Listed(o)
      /\ hostState' = [hostState EXCEPT ![h] = "CST_CONNECTED"]
      /\ AddOrCollide(o, hostId[h], HostType[h])
      /\ UNCHANGED <<current_id, conv, hostId, clash>>
  BY DEF ConnectOk
<1>2. HostType[h] \in AllTypes /\ hostId[h] \in NetIds
  BY <1>1, SessionsAssumption DEF HostIndex, AllTypes, IInv, ServerTyped
<1>3. CASE hostId[h] \notin DOMAIN byId /\ AddSessionById(o, hostId[h], HostType[h])
           /\ halted' = halted
  <2>1. IndexInv' /\ DOMAIN byId' = DOMAIN byId \cup {hostId[h]}
    BY <1>1, <1>2, <1>3, AddFacts DEF IInv
  <2>2. ServerTyped'
    BY <1>1, <1>3, CallbackFacts DEF IInv, ServerTyped
  <2>3. ASSUME ~clash'
        PROVE  ~halted' /\ (\A g \in HostIndex : HostKept(g)')
               /\ \A f, g \in HostIndex : f # g /\ hostId'[f] = hostId'[g] => hostId'[f] = 0
    <3>1. ASSUME NEW g \in HostIndex PROVE HostKept(g)'
      <4>0. HostKept(g) /\ HostKept(h)
        BY <1>1, <2>3, KeptFacts DEF IInv
      <4>1. CASE g = h
        <5>1. pending'[h] = 0
          BY <1>1, <2>3, CallbackFacts
        <5>2. hostState'[h] = "CST_CONNECTED"
          BY <1>1 DEF IInv, ServerTyped
        <5> QED
          BY <1>1, <2>1, <4>1, <5>1, <5>2 DEF HostKept
      <4>2. CASE g # h
        <5>1. /\ hostState'[g] = hostState[g] /\ pending'[g] = pending[g]
              /\ hostPtr'[g] = hostPtr[g] /\ hostId'[g] = hostId[g]
          BY <1>1, <4>2, CallbackFacts DEF IInv, ServerTyped
        <5>2. hostId[g] # hostId[h]
          BY <1>1, <2>3, <4>2 DEF IInv, HostsHaveSessions
        <5> QED
          BY <2>1, <4>0, <5>1, <5>2 DEF HostKept
      <4> QED
        BY <4>1, <4>2
    <3> QED
      BY <1>1, <1>3, <2>3, <3>1 DEF IInv, HostsHaveSessions
  <2> QED
    BY <2>1, <2>2, <2>3, KeptNext DEF IInv
<1>4. CASE hostId[h] \in DOMAIN byId /\ Collide
  <2>1. clash' /\ halted' /\ UNCHANGED indexVars
    BY <1>1, <1>4, CallbackFacts DEF Collide, IInv, ServerTyped
  <2>2. IndexInv'
    BY <2>1, IndexIdle DEF IInv
  <2>3. ServerTyped'
    BY <1>1, <2>1, CallbackFacts DEF IInv, ServerTyped
  <2> QED
    BY <2>1, <2>2, <2>3 DEF IInv, HostsHaveSessions
<1> QED
  BY <1>1, <1>3, <1>4 DEF AddOrCollide

(* The session of a connect is refused, which takes an id that came again. *)
LEMMA ConnectRefusedFacts ==
    ASSUME IInv, NEW h \in HostIndex, ConnectRefused(h)
    PROVE  IInv'
<1>1. /\ Callback(h) /\ hostPtr[h] \notin {0, hostId[h]}
      /\ halted' \in BOOLEAN
      /\ UNCHANGED <<indexVars, current_id, conv, clash>>
  BY DEF ConnectRefused
<1>2. hostId' \in [HostIndex -> NetIds \cup {0}]
  BY DEF ConnectRefused, IInv, ServerTyped
<1>3. hostState' \in [HostIndex -> {"CST_UNCONNECT", "CST_CONNECTING", "CST_CONNECTED"}]
  BY DEF ConnectRefused, IInv, ServerTyped
<1>4. IndexInv'
  BY <1>1, IndexIdle DEF IInv
<1>5. ServerTyped'
  BY <1>1, <1>2, <1>3, CallbackFacts DEF IInv, ServerTyped
<1>6. clash /\ clash'
  BY <1>1, CallbackFacts DEF IInv, ServerTyped
<1> QED
  BY <1>4, <1>5, <1>6 DEF IInv, HostsHaveSessions

(* A connect fails. *)
LEMMA ConnectFailsFacts ==
    ASSUME IInv, NEW h \in HostIndex, ConnectFails(h)
    PROVE  IInv'
<1>1. /\ Callback(h)
      /\ hostState' = [hostState EXCEPT ![h] = "CST_UNCONNECT"]
      /\ UNCHANGED <<indexVars, current_id, conv, hostId, halted, clash>>
  BY DEF ConnectFails
<1>2. IndexInv' /\ DOMAIN byId' = DOMAIN byId
  BY <1>1, IndexIdle DEF IInv
<1>3. ServerTyped'
  BY <1>1, CallbackFacts DEF IInv, ServerTyped
<1>4. ASSUME ~clash'
      PROVE  ~halted' /\ (\A g \in HostIndex : HostKept(g)')
             /\ \A f, g \in HostIndex : f # g /\ hostId'[f] = hostId'[g] => hostId'[f] = 0
  <2>1. ASSUME NEW g \in HostIndex PROVE HostKept(g)'
    <3>0. HostKept(g)
      BY <1>1, <1>4, KeptFacts DEF IInv
    <3>1. CASE g = h
      <4>1. pending'[h] = 0 /\ hostState'[h] = "CST_UNCONNECT"
        BY <1>1, <1>4, CallbackFacts DEF IInv, ServerTyped
      <4> QED
        BY <3>1, <4>1 DEF HostKept
    <3>2. CASE g # h
      <4>1. /\ hostState'[g] = hostState[g] /\ pending'[g] = pending[g]
            /\ hostPtr'[g] = hostPtr[g] /\ hostId'[g] = hostId[g]
        BY <1>1, <3>2, CallbackFacts DEF IInv, ServerTyped
      <4> QED
        BY <1>2, <3>0, <4>1 DEF HostKept
    <3> QED
      BY <3>1, <3>2
  <2> QED
    BY <1>1, <1>4, <2>1 DEF IInv, HostsHaveSessions
<1> QED
  BY <1>2, <1>3, <1>4, KeptNext DEF IInv

(* A callback finds no session, which takes an id that came again. *)
LEMMA ConnectCrashesFacts ==
    ASSUME IInv, NEW h \in HostIndex, ConnectCrashes(h)
    PROVE  IInv'
<1>1. /\ Callback(h) /\ hostPtr[h] = 0 /\ halted' = TRUE
      /\ UNCHANGED <<indexVars, current_id, conv, hostState, hostId, clash>>
  BY DEF ConnectCrashes
<1>2. IndexInv'
  BY <1>1, IndexIdle DEF IInv
<1>3. ServerTyped'
  BY <1>1, CallbackFacts DEF IInv, ServerTyped
<1>4. clash /\ clash'
  BY <1>1, CallbackFacts DEF IInv, ServerTyped
<1> QED
  BY <1>2, <1>3, <1>4 DEF IInv, HostsHaveSessions

(* A session is closed, and its host is one to try again. *)
LEMMA CloseFacts ==
    ASSUME IInv, NEW o \in Objects, Close(o)
    PROVE  IInv'
<1>  DEFINE gone == HostOf(netid[o])
<1>1. /\ Listed(o) /\ RemoveSessionById(netid[o])
      /\ hostId' = [h \in HostIndex |-> IF h \in gone THEN 0 ELSE hostId[h]]
      /\ hostState' = [h \in HostIndex |-> IF h \in gone THEN "CST_UNCONNECT" ELSE hostState[h]]
      /\ UNCHANGED <<current_id, conv, hostPtr, pending, halted, clash>>
  BY DEF Close, ForgetHost
<1>2. gone \subseteq {h \in HostIndex : hostId[h] = netid[o]}
  BY DEF HostOf
<1>3. /\ IndexInv' /\ DOMAIN byId' = DOMAIN byId \ {netid[o]}
      /\ netid[o] \in DOMAIN byId
  BY <1>1, RemoveFacts, AgreeFacts DEF IInv, IndexInv, PlacesAgree
<1>4. ServerTyped'
  BY <1>1 DEF IInv, ServerTyped
<1>5. ASSUME ~clash, NEW h \in HostIndex, hostId[h] = netid[o]
      PROVE  h \in gone
  <2>1. \A g \in 1..(h - 1) : g \in HostIndex /\ g # h
    BY DEF HostIndex
  <2>2. \A g \in 1..(h - 1) : hostId[g] # netid[o]
    BY <1>1, <1>5, <2>1 DEF IInv, HostsHaveSessions, Listed
  <2> QED
    BY <1>5, <2>2 DEF HostOf
<1>  HIDE DEF gone
<1>6. ASSUME ~clash'
      PROVE  ~halted' /\ (\A h \in HostIndex : HostKept(h)')
             /\ \A g, h \in HostIndex : g # h /\ hostId'[g] = hostId'[h] => hostId'[g] = 0
  <2>0. ~clash
    BY <1>1, <1>6
  <2>1. ASSUME NEW h \in HostIndex PROVE HostKept(h)'
    <3>0. HostKept(h)
      BY <2>0, KeptFacts DEF IInv
    <3>1. CASE h \in gone
      <4>1. hostId[h] \in DOMAIN byId
        BY <1>2, <1>3, <3>1
      <4>2. pending[h] = 0
        BY <3>0, <4>1 DEF HostKept, IInv, ServerTyped
      <4> QED
        BY <1>1, <3>1, <4>2 DEF HostKept
    <3>2. CASE h \notin gone
      <4>1. hostState'[h] = hostState[h] /\ hostId'[h] = hostId[h] /\ hostId[h] # netid[o]
        BY <3>2, <1>1, <1>5, <2>0
      <4> QED
        BY <4>1, <1>1, <1>3, <3>0 DEF HostKept
    <3> QED
      BY <3>1, <3>2
  <2>2. \A g, h \in HostIndex : g # h /\ hostId'[g] = hostId'[h] => hostId'[g] = 0
    BY <1>1, <2>0 DEF IInv, HostsHaveSessions
  <2> QED
    BY <1>1, <2>0, <2>1, <2>2 DEF IInv, HostsHaveSessions
<1> QED
  BY <1>3, <1>4, <1>6, KeptNext DEF IInv

-----------------------------------------------------------------------------
(* The steps of the server. *)
Steps ==
    \/ \E o \in Objects : Accept(o)
    \/ \E o \in Objects : AcceptUdp(o)
    \/ \E o \in Objects : Close(o)
    \/ \E o \in Objects, t \in AllTypes, u \in Uids : HandShake(o, t, u)
    \/ \E h \in HostIndex : ConnectFails(h)
    \/ \E h \in HostIndex : ConnectRefused(h)
    \/ \E h \in HostIndex : ConnectCrashes(h)
    \/ \E h \in HostIndex, o \in Objects : ConnectOk(h, o)
    \/ DoConnect
    \/ UNCHANGED vars

(* They are all the steps there are. *)
LEMMA NextIsSteps == [Next]_vars => Steps
BY Zenon DEF Next, Steps

(* The invariant holds at first. *)
LEMMA InvInit == Init => IInv
<1>  SUFFICES ASSUME Init PROVE IInv
  OBVIOUS
<1>1. IndexTyped
  <2>1. << >> \in Seq(Objects) /\ DOMAIN << >> = {}
    OBVIOUS
  <2>2. byId \in [DOMAIN byId -> Objects] /\ DOMAIN byId \subseteq NetIds
    BY <2>1 DEF Init
  <2>3. byUid \in [DOMAIN byUid -> Objects] /\ DOMAIN byUid \subseteq Uids
    BY <2>1 DEF Init
  <2> QED
    BY <2>1, <2>2, <2>3, SessionsAssumption DEF Init, IndexTyped, AllTypes
<1>2. PlacesAgree
  <2>1. \A o : ~InList(<< >>, o)
    BY DEF InList
  <2> QED
    BY <2>1 DEF Init, PlacesAgree, Placed, Listed
<1>3. NoDanglingUid
  BY DEF Init, NoDanglingUid
<1>4. ServerTyped
  <2>1. current_id \in 0..(IdCount - 1) /\ conv \in Nat /\ conv >= ConvStart
    BY SessionsAssumption DEF Init
  <2>2. /\ hostState \in [HostIndex -> {"CST_UNCONNECT", "CST_CONNECTING", "CST_CONNECTED"}]
        /\ hostId \in [HostIndex -> NetIds \cup {0}]
    BY DEF Init
  <2> QED
    BY <2>1, <2>2 DEF Init, ServerTyped
<1>5. HostsHaveSessions
  BY DEF Init, HostsHaveSessions
<1> QED
  BY <1>1, <1>2, <1>3, <1>4, <1>5, AgreeFacts DEF IInv, IndexInv

(* Every step keeps the invariant. *)
LEMMA InvStep == IInv /\ [Next]_vars => IInv'
<1>  SUFFICES ASSUME IInv, Steps PROVE IInv'
  BY NextIsSteps
<1>1. ASSUME NEW o \in Objects, Accept(o) PROVE IInv'
  <2>1. TcpId(current_id) \in NetIds
    BY SessionsAssumption DEF IInv, ServerTyped, TcpId, NetIds
  <2>2. IndexInv' /\ HostsHaveSessions' /\ halted' \in BOOLEAN /\ clash' \in BOOLEAN
    BY <1>1, <2>1, AcceptFacts DEF Accept, hostVars
  <2>3. current_id' \in 0..(IdCount - 1)
    <3>1. current_id + 1 \in Nat
      BY SessionsAssumption DEF IInv, ServerTyped
    <3> QED
      BY <1>1, <3>1, IdFacts DEF Accept
  <2> QED
    BY <1>1, <2>2, <2>3 DEF Accept, IInv, ServerTyped, hostVars
<1>2. ASSUME NEW o \in Objects, AcceptUdp(o) PROVE IInv'
  <2>1. conv + 1 \in NetIds /\ conv' = conv + 1
    BY <1>2, SessionsAssumption DEF AcceptUdp, IInv, ServerTyped, NetIds
  <2>2. IndexInv' /\ HostsHaveSessions' /\ halted' \in BOOLEAN /\ clash' \in BOOLEAN
    BY <1>2, <2>1, AcceptFacts DEF AcceptUdp, hostVars
  <2> QED
    BY <1>2, <2>1, <2>2, SessionsAssumption DEF AcceptUdp, IInv, ServerTyped, hostVars
<1>3. ASSUME NEW o \in Objects, Close(o) PROVE IInv'
  BY <1>3, CloseFacts
<1>4. ASSUME NEW o \in Objects, NEW t \in AllTypes, NEW u \in Uids, HandShake(o, t, u) PROVE IInv'
  <2>1. IndexInv'
    BY <1>4, HandShakeFacts DEF HandShake, IInv
  <2> QED
    BY <1>4, <2>1 DEF HandShake, IInv, ServerTyped, HostsHaveSessions, hostVars
<1>5. ASSUME NEW h \in HostIndex, ConnectFails(h) PROVE IInv'
  BY <1>5, ConnectFailsFacts
<1>6. ASSUME NEW h \in HostIndex, NEW o \in Objects, ConnectOk(h, o) PROVE IInv'
  BY <1>6, ConnectOkFacts
<1>7. CASE DoConnect
  BY <1>7, DoConnectFacts
<1>9. ASSUME NEW h \in HostIndex, ConnectRefused(h) PROVE IInv'
  BY <1>9, ConnectRefusedFacts
<1>10. ASSUME NEW h \in HostIndex, ConnectCrashes(h) PROVE IInv'
  BY <1>10, ConnectCrashesFacts
<1>8. CASE UNCHANGED vars
  <2>1. IndexInv' /\ DOMAIN byId' = DOMAIN byId
    BY <1>8, IndexIdle DEF vars, indexVars, IInv
  <2> QED
    BY <1>8, <2>1 DEF vars, IInv, ServerTyped, HostsHaveSessions
<1> QED
  BY <1>1, <1>2, <1>3, <1>4, <1>5, <1>6, <1>7, <1>8, <1>9, <1>10, Zenon DEF Steps

(* The invariant holds always. *)
LEMMA Inv == Spec => []IInv
BY InvInit, InvStep, PTL DEF Spec

(* Every variable of SessionManager and of Server has its type. *)
THEOREM TypeCorrect == Spec => []TypeOK
<1>1. IInv => TypeOK
  BY DEF IInv, IndexInv, IndexTyped, ServerTyped, TypeOK
<1> QED
  BY <1>1, Inv, PTL

(***************************************************************************)
(* sessionLists_, sessionMaps_ and sessionTypeMaps_ hold the same sessions  *)
(* and each of them once, as updateSessionType and removeSessionPById take  *)
(* for granted, whether or not ids come again.                              *)
(***************************************************************************)
THEOREM IndexesCorrect == Spec => []IndexesAgree
<1>1. IInv => IndexesAgree
  BY DEF IInv, IndexInv
<1> QED
  BY <1>1, Inv, PTL

(***************************************************************************)
(* sessionUidMaps_ leads to sessions that are in the list and have          *)
(* announced that number, however many peers announce the same one.         *)
(***************************************************************************)
THEOREM UidsCorrect == Spec => []NoDanglingUid
<1>1. IInv => NoDanglingUid
  BY DEF IInv, IndexInv
<1> QED
  BY <1>1, Inv, PTL

(***************************************************************************)
(* As long as no id has been given that was in use, each host that          *)
(* do_connect takes for connected has a session, no two hosts have the same *)
(* id, and the io thread does not wait for a mutex it holds.                *)
(***************************************************************************)
THEOREM HostsCorrect == Spec => []HostsHaveSessions
<1>1. IInv => HostsHaveSessions
  BY DEF IInv
<1> QED
  BY <1>1, Inv, PTL
=============================================================================
