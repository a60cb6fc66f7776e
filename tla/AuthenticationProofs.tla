------------------------ MODULE AuthenticationProofs ------------------------
(***************************************************************************)
(* What is proved of Authentication for any requests, any number of         *)
(* DBServers and any number of faults: its types, that success is answered  *)
(* to a plain name with the right password only, and that a plain name      *)
(* keeps one account although the table may hold several rows for it.       *)
(***************************************************************************)
EXTENDS Authentication, WellFoundedInduction, TLAPS

(* A request is at one DBServer at most, in its queue or served by it. *)
QueuedAreSent == \A d \in DBServers : \A i \in DOMAIN queue[d] : at[queue[d][i]] = "loginToDB"

QueuedOnce ==
    \A d, e \in DBServers : \A i \in DOMAIN queue[d], j \in DOMAIN queue[e] :
        queue[d][i] = queue[e][j] => d = e /\ i = j

ServedOnce == \A d, e \in DBServers : serving[d] # NoRequest /\ serving[d] = serving[e] => d = e

ServedAreNotQueued ==
    \A d, e \in DBServers : \A i \in DOMAIN queue[e] : queue[e][i] # serving[d]

OneServer == QueuedAreSent /\ QueuedOnce /\ ServedOnce /\ ServedAreNotQueued

(* u is the first row of the name n. *)
FirstRow(u, n) == u \in RowsOf(n) /\ \A v \in RowsOf(n) : u <= v

(* Every number found, answered, sent on or cached for a plain name is that *)
(* of its first row.                                                        *)
FoundRow(d) ==
    serving[d] # NoRequest /\ step[d] = "compare" /\ PlainName(serving[d])
        => /\ FirstRow(found[d].uid, NameOf[serving[d]])
           /\ found[d].passwd = t_user[found[d].uid].passwd

AnsweredRow(r) ==
    PlainName(r) /\ accountid[r] > 0
        => FirstRow(accountid[r], NameOf[r]) /\ t_user[accountid[r]].passwd = PasswdOf[r]

NotifiedRow(x) == x.username \in PlainNames => FirstRow(x.uid, x.username)

FirstRows ==
    /\ \A d \in DBServers : FoundRow(d)
    /\ \A r \in Requests : AnsweredRow(r)
    /\ \A i \in DOMAIN notified : NotifiedRow(notified[i])
    /\ \A n \in Names : n \in PlainNames /\ cached[n] > 0 => FirstRow(cached[n], n)

IInv == TypeOK /\ OneServer /\ FirstRows

-----------------------------------------------------------------------------
(* A set of numbers that is not empty has a least one. *)
LEMMA LeastNumber ==
  ASSUME NEW S \in SUBSET Nat, S # {}
  PROVE  \E x \in S : \A y \in S : x <= y
<1>1. \E x \in S : \A y \in S : ~(<<y, x>> \in OpToRel(<, Nat))
  BY NatLessThanWellFounded, WFMin
<1>2. \A x, y \in S : <<y, x>> \notin OpToRel(<, Nat) => x <= y
  BY DEF OpToRel
<1> QED BY <1>1, <1>2

(* The front of a sequence that is not empty. *)
LEMMA HeadFacts ==
  ASSUME NEW S, NEW s \in Seq(S), s # <<>>
  PROVE  1 \in DOMAIN s /\ Head(s) = s[1] /\ s[1] \in S
OBVIOUS

(* What follows the front. *)
LEMMA TailFacts ==
  ASSUME NEW S, NEW s \in Seq(S), s # <<>>
  PROVE  /\ Tail(s) \in Seq(S)
         /\ \A i \in DOMAIN Tail(s) : /\ i \in Nat /\ i + 1 \in DOMAIN s /\ i + 1 # 1
                                     /\ Tail(s)[i] = s[i + 1]
OBVIOUS

(* Append keeps the elements of a sequence in their set... *)
LEMMA AppendType ==
  ASSUME NEW S, NEW s \in Seq(S), NEW x \in S
  PROVE  Append(s, x) \in Seq(S)
OBVIOUS

(* ...and in their places. *)
LEMMA AppendAt ==
  ASSUME NEW S, NEW s \in Seq(S), NEW x, NEW i \in DOMAIN Append(s, x)
  PROVE  \/ i \in DOMAIN s /\ Append(s, x)[i] = s[i]
         \/ i = Len(s) + 1 /\ Append(s, x)[i] = x
OBVIOUS

(* A request has a name and a password, and is one. *)
LEMMA RequestFacts ==
  ASSUME NEW r \in Requests
  PROVE  NameOf[r] \in Names /\ PasswdOf[r] \in Passwds /\ r # NoRequest
BY AuthenticationAssumption DEF Names, Passwds

(* What GetVerification returns. *)
LookedUp(f, n) ==
    /\ f \in [uid : Nat, passwd : Passwds \cup {NoPasswd}]
    /\ f.uid > 0 => FirstRow(f.uid, n) /\ f.passwd = t_user[f.uid].passwd

(* A query that fails finds nothing. *)
LEMMA NothingFacts ==
  ASSUME t_user \in Seq(Row), NEW n
  PROVE  LookedUp(Nothing, n)
BY DEF LookedUp, Nothing

(* A query that succeeds finds the first row of the name, or that there is none. *)
LEMMA GetVerificationFacts ==
  ASSUME t_user \in Seq(Row), NEW n
  PROVE  LookedUp(GetVerification(n), n)
<1>1. CASE RowsOf(n) = {}
  BY <1>1, NothingFacts DEF GetVerification
<1>2. CASE RowsOf(n) # {}
  <2>1. RowsOf(n) \in SUBSET Nat /\ RowsOf(n) \subseteq 1..Len(t_user)
    BY DEF RowsOf
  <2>2. Min(RowsOf(n)) \in RowsOf(n) /\ \A v \in RowsOf(n) : Min(RowsOf(n)) <= v
    BY <1>2, <2>1, LeastNumber DEF Min
  <2>3. t_user[Min(RowsOf(n))].passwd \in Passwds
    <3>1. Min(RowsOf(n)) \in 1..Len(t_user)
      BY <2>1, <2>2
    <3>2. t_user[Min(RowsOf(n))] \in Row
      BY <3>1
    <3> QED BY <3>2 DEF Row
  <2>4. GetVerification(n) = [uid |-> Min(RowsOf(n)), passwd |-> t_user[Min(RowsOf(n))].passwd]
    BY <1>2 DEF GetVerification
  <2> QED BY <2>1, <2>2, <2>3, <2>4 DEF LookedUp, FirstRow
<1> QED BY <1>1, <1>2

(* A look-up for a plain name finds its first row, one for another name     *)
(* something of the type of a row.                                          *)
LEMMA LookFacts ==
  ASSUME TypeOK, NEW d \in DBServers, NEW f, Look(d, f)
  PROVE  /\ f \in [uid : Nat, passwd : Passwds \cup {NoPasswd}]
         /\ PlainName(serving[d]) => LookedUp(f, NameOf[serving[d]])
<1> DEFINE n == NameOf[serving[d]]
<1>1. CASE f = Nothing
  BY <1>1, NothingFacts DEF TypeOK, LookedUp
<1>2. CASE PlainName(serving[d]) /\ f = GetVerification(n)
  BY <1>2, GetVerificationFacts DEF TypeOK, LookedUp
<1>3. CASE ~PlainName(serving[d]) /\ f \in AnyRow
  BY <1>3, <1>1, AuthenticationAssumption DEF AnyRow, Nothing
<1> QED BY <1>1, <1>2, <1>3 DEF Look, Finds

(* What follows a sequence leaves its elements in their places. *)
LEMMA ConcatAt ==
  ASSUME NEW S, NEW s \in Seq(S), NEW x \in Seq(S)
  PROVE  /\ s \o x \in Seq(S)
         /\ \A i \in DOMAIN s : i \in DOMAIN (s \o x) /\ (s \o x)[i] = s[i]
         /\ \A i \in DOMAIN (s \o x) : i \in DOMAIN s \/ i > Len(s)
OBVIOUS

(* A statement adds rows. *)
LEMMA AddedFacts ==
  ASSUME NEW r \in Requests, NEW rows \in Added(r)
  PROVE  rows \in Seq(Row)
<1>1. CASE Plain(r)
  <2>1. rows = <<[username |-> NameOf[r], passwd |-> PasswdOf[r]]>>
    BY <1>1 DEF Added
  <2>2. [username |-> NameOf[r], passwd |-> PasswdOf[r]] \in Row
    BY RequestFacts DEF Row
  <2> QED BY <2>1, <2>2
<1>2. CASE ~Plain(r)
  <2>1. PICK n \in 1..MaxAdded : rows \in [1..n -> Row]
    BY <1>2 DEF Added
  <2>2. n \in Nat
    BY AuthenticationAssumption
  <2> QED BY <2>1, <2>2
<1> QED BY <1>1, <1>2

(* Rows that are added do not change the first row of any name. *)
LEMMA FirstRowStays ==
  ASSUME t_user \in Seq(Row), NEW x \in Seq(Row), t_user' = t_user \o x,
         NEW u, NEW n, FirstRow(u, n)
  PROVE  FirstRow(u, n)' /\ t_user'[u] = t_user[u]
<1>1. u \in DOMAIN t_user /\ u \in 1..Len(t_user) /\ t_user[u].username = n
  BY DEF FirstRow, RowsOf
<1>2. /\ \A i \in DOMAIN t_user : i \in DOMAIN t_user' /\ t_user'[i] = t_user[i]
      /\ \A i \in DOMAIN t_user' : i \in DOMAIN t_user \/ i > Len(t_user)
  BY ConcatAt
<1>3. \A v \in DOMAIN t_user' : v \in Nat
  <2>1. t_user' \in Seq(Row)
    BY ConcatAt
  <2> QED BY <2>1
<1>4. ASSUME NEW v \in RowsOf(n)' PROVE u <= v
  <2>1. v \in DOMAIN t_user' /\ t_user'[v].username = n
    BY <1>4 DEF RowsOf
  <2>2. CASE v \in DOMAIN t_user
    <3>1. v \in RowsOf(n)
      BY <1>2, <2>1, <2>2 DEF RowsOf
    <3> QED BY <3>1 DEF FirstRow
  <2>3. CASE v > Len(t_user)
    BY <1>1, <1>3, <2>1, <2>3
  <2> QED BY <1>2, <2>1, <2>2, <2>3
<1>5. u \in RowsOf(n)'
  BY <1>1, <1>2 DEF RowsOf
<1> QED BY <1>1, <1>2, <1>4, <1>5 DEF FirstRow

-----------------------------------------------------------------------------
(* The actions, one by one. *)
Steps ==
    \/ \E r \in Requests : \/ onClientLoginAuth(r)
                           \/ \E d \in DBServers : onGateLoginAuthReq(r, d)
                           \/ onLoginAuthRsp(r)
                           \/ onLoginServerAuthRsp(r)
                           \/ NoDBServer(r)
                           \/ AsksAgain(r)
    \/ \E d \in DBServers : \/ LoginAuth(d)
                            \/ \E f : Look(d, f)
                            \/ RegisterUser(d)
                            \/ RegisterFails(d)
                            \/ ResponseWithLoginAuth(d)
                            \/ DBServerStops(d)
    \/ onUserUpdateNotify
    \/ \E n \in Names : Expires(n)
    \/ UNCHANGED vars

(* Every step is one of them. *)
LEMMA NextIsSteps ==
  ASSUME [Next]_vars
  PROVE  Steps
<1>2. ASSUME NEW d \in DBServers, DBStep(d) PROVE Steps
  BY <1>2, Zenon DEF DBStep, Steps
<1>3. ASSUME NEW r \in Requests, LoginStep(r) PROVE Steps
  BY <1>3, Zenon DEF LoginStep, Steps
<1>4. CASE UNCHANGED vars
  BY <1>4, Zenon DEF Steps
<1>5. CASE Next
  <2>1. CASE \E r \in Requests :
              onClientLoginAuth(r) \/ LoginStep(r) \/ NoDBServer(r) \/ AsksAgain(r)
    BY <2>1, <1>3, Zenon DEF Steps
  <2>2. CASE \E d \in DBServers : DBStep(d) \/ DBServerStops(d)
    BY <2>2, <1>2, Zenon DEF Steps
  <2>3. CASE onUserUpdateNotify \/ \E n \in Names : Expires(n)
    BY <2>3, Zenon DEF Steps
  <2> QED BY <1>5, <2>1, <2>2, <2>3, Zenon DEF Next
<1> QED BY <1>4, <1>5

(* Each action keeps the types; what is sent on is a row of the table. *)
LEMMA TypeStep ==
  ASSUME TypeOK, OneServer, FirstRows, Steps
  PROVE  TypeOK'
<1> USE DEF TypeOK
<1>1. ASSUME NEW r \in Requests, onClientLoginAuth(r) PROVE TypeOK'
  BY <1>1 DEF onClientLoginAuth, Goes, Places
<1>2. ASSUME NEW r \in Requests, NEW d \in DBServers, onGateLoginAuthReq(r, d) PROVE TypeOK'
  BY <1>2 DEF onGateLoginAuthReq, Goes, Places
<1>3. ASSUME NEW r \in Requests, onLoginAuthRsp(r) PROVE TypeOK'
  BY <1>3 DEF onLoginAuthRsp, Goes, Places
<1>4. ASSUME NEW r \in Requests, onLoginServerAuthRsp(r) PROVE TypeOK'
  <2>1. accountid[r] \in Nat
    OBVIOUS
  <2>2. [username |-> NameOf[r], uid |-> accountid[r]] \in [username : Names, uid : Nat]
    BY <2>1, RequestFacts
  <2>3. notified' \in Seq([username : Names, uid : Nat])
    <3>1. Append(notified, [username |-> NameOf[r], uid |-> accountid[r]])
              \in Seq([username : Names, uid : Nat])
      BY <2>2, AppendType, Zenon
    <3> QED BY <1>4, <3>1 DEF onLoginServerAuthRsp
  <2> QED BY <1>4, <2>3 DEF onLoginServerAuthRsp, Goes, Places
<1>5. ASSUME NEW r \in Requests, NoDBServer(r) PROVE TypeOK'
  BY <1>5, AuthenticationAssumption DEF NoDBServer, Goes, Places
<1>6. ASSUME NEW r \in Requests, AsksAgain(r) PROVE TypeOK'
  BY <1>6 DEF AsksAgain, Goes, Places
<1>7. ASSUME NEW d \in DBServers, LoginAuth(d) PROVE TypeOK'
  <2>1. queue[d] \in Seq(Requests) /\ queue[d] # <<>>
    BY <1>7 DEF LoginAuth
  <2>2. 1 \in DOMAIN queue[d] /\ Head(queue[d]) = queue[d][1] /\ queue[d][1] \in Requests
        /\ Tail(queue[d]) \in Seq(Requests)
    BY <2>1, HeadFacts, TailFacts, Zenon
  <2>3. at[Head(queue[d])] = "loginToDB"
    BY <2>2 DEF OneServer, QueuedAreSent
  <2>4. Nothing \in [uid : Nat, passwd : Passwds \cup {NoPasswd}]
    BY DEF Nothing
  <2>5. /\ queue' \in [DBServers -> Seq(Requests)]
        /\ serving' \in [DBServers -> Requests \cup {NoRequest}]
        /\ step' \in [DBServers -> {"look", "register", "relook", "compare", "fail"}]
        /\ found' \in [DBServers -> [uid : Nat, passwd : Passwds \cup {NoPasswd}]]
    BY <1>7, <2>2, <2>4 DEF LoginAuth
  <2>6. ASSUME NEW e \in DBServers, serving'[e] # NoRequest PROVE at[serving'[e]] = "loginToDB"
    BY <1>7, <2>3, <2>6 DEF LoginAuth
  <2> QED BY <1>7, <2>5, <2>6 DEF LoginAuth
<1>8. ASSUME NEW d \in DBServers, NEW f, Look(d, f) PROVE TypeOK'
  <2>1. f \in [uid : Nat, passwd : Passwds \cup {NoPasswd}]
    BY <1>8, LookFacts
  <2> QED BY <1>8, <2>1, AuthenticationAssumption DEF Look, AfterLook
<1>9. ASSUME NEW d \in DBServers, RegisterUser(d) \/ RegisterFails(d) PROVE TypeOK'
  <2>1. serving[d] \in Requests
    BY <1>9 DEF RegisterUser, RegisterFails
  <2>2. t_user' \in Seq(Row)
    <3>1. \A rows \in Added(serving[d]) : t_user \o rows \in Seq(Row)
      BY <2>1, AddedFacts, ConcatAt
    <3> QED BY <1>9, <3>1 DEF RegisterUser, RegisterFails
  <2>3. step' \in [DBServers -> {"look", "register", "relook", "compare", "fail"}]
    BY <1>9 DEF RegisterUser, RegisterFails
  <2>4. faults' \in 0..MaxFaults
    <3>1. faults' = faults \/ (faults < MaxFaults /\ faults' = faults + 1)
      BY <1>9 DEF RegisterUser, RegisterFails
    <3> QED BY <3>1, AuthenticationAssumption
  <2>5. UNCHANGED <<at, accountid, queue, serving, found, notified, cached>>
    BY <1>9 DEF RegisterUser, RegisterFails
  <2> QED BY <2>2, <2>3, <2>4, <2>5
<1>10. ASSUME NEW d \in DBServers, ResponseWithLoginAuth(d) PROVE TypeOK'
  BY <1>10 DEF ResponseWithLoginAuth, Forgets, Nothing, Goes, Places, Verdict, OneServer, ServedOnce
<1>11. ASSUME NEW d \in DBServers, DBServerStops(d) PROVE TypeOK'
  BY <1>11, AuthenticationAssumption
     DEF DBServerStops, Forgets, Nothing, Places, OneServer, ServedOnce, ServedAreNotQueued
<1>12. ASSUME onUserUpdateNotify PROVE TypeOK'
  <2>1. notified \in Seq([username : Names, uid : Nat]) /\ notified # <<>>
    BY <1>12 DEF onUserUpdateNotify
  <2>2. /\ 1 \in DOMAIN notified /\ Head(notified) = notified[1]
        /\ notified[1] \in [username : Names, uid : Nat]
        /\ Tail(notified) \in Seq([username : Names, uid : Nat])
    BY <2>1, HeadFacts, TailFacts, Zenon
  <2>4. cached' \in [Names -> Nat]
    BY <1>12, <2>2 DEF onUserUpdateNotify
  <2> QED BY <1>12, <2>2, <2>4 DEF onUserUpdateNotify
<1>13. ASSUME NEW n \in Names, Expires(n) PROVE TypeOK'
  BY <1>13 DEF Expires
<1>14. CASE UNCHANGED vars
  BY <1>14 DEF vars
<1> QED
  BY <1>1, <1>2, <1>3, <1>4, <1>5, <1>6, <1>7, <1>8, <1>9, <1>10, <1>11, <1>12, <1>13, <1>14
  DEF Steps

-----------------------------------------------------------------------------
(* Each action keeps a request at one server at most. *)
LEMMA OneServerStep ==
  ASSUME TypeOK, OneServer, Steps
  PROVE  OneServer'
<1> USE DEF TypeOK, OneServer, QueuedAreSent, QueuedOnce, ServedOnce, ServedAreNotQueued
<1>1. ASSUME NEW r \in Requests, NEW d \in DBServers, onGateLoginAuthReq(r, d) PROVE OneServer'
  <2>1. /\ at[r] = "gateToLogin" /\ at' = [at EXCEPT ![r] = "loginToDB"]
        /\ queue' = [queue EXCEPT ![d] = Append(queue[d], r)] /\ serving' = serving
    BY <1>1 DEF onGateLoginAuthReq, Goes
  <2>2. \A e \in DBServers : serving[e] # r /\ \A i \in DOMAIN queue[e] : queue[e][i] # r
    BY <2>1, RequestFacts
  <2>3. \A e \in DBServers : \A i \in DOMAIN queue'[e] :
            \/ i \in DOMAIN queue[e] /\ queue'[e][i] = queue[e][i]
            \/ e = d /\ i = Len(queue[d]) + 1 /\ queue'[e][i] = r
    <3>1. queue[d] \in Seq(Requests)
      OBVIOUS
    <3>2. \A i \in DOMAIN Append(queue[d], r) :
              \/ i \in DOMAIN queue[d] /\ Append(queue[d], r)[i] = queue[d][i]
              \/ i = Len(queue[d]) + 1 /\ Append(queue[d], r)[i] = r
      BY <3>1, AppendAt, Zenon
    <3>3. \A e \in DBServers : queue'[e] = IF e = d THEN Append(queue[d], r) ELSE queue[e]
      BY <2>1
    <3> QED BY <3>2, <3>3
  <2>4. \A e \in DBServers : \A i \in DOMAIN queue[e] : queue[e][i] \in Requests
    OBVIOUS
  <2>5. QueuedAreSent'
    BY <2>1, <2>3, <2>4
  <2>6. QueuedOnce'
    <3> SUFFICES ASSUME NEW a \in DBServers, NEW b \in DBServers,
                        NEW i \in DOMAIN queue'[a], NEW j \in DOMAIN queue'[b],
                        queue'[a][i] = queue'[b][j]
                 PROVE  a = b /\ i = j
      OBVIOUS
    <3>1. CASE queue'[a][i] = r
      <4>1. a = d /\ i = Len(queue[d]) + 1
        BY <2>2, <2>3, <3>1
      <4>2. b = d /\ j = Len(queue[d]) + 1
        BY <2>2, <2>3, <3>1
      <4> QED BY <4>1, <4>2
    <3>2. CASE queue'[a][i] # r
      <4>1. i \in DOMAIN queue[a] /\ queue'[a][i] = queue[a][i]
        BY <2>3, <3>2
      <4>2. j \in DOMAIN queue[b] /\ queue'[b][j] = queue[b][j]
        BY <2>3, <3>2
      <4>3. queue[a][i] = queue[b][j]
        BY <4>1, <4>2, Zenon
      <4> QED BY <4>1, <4>2, <4>3
    <3> QED BY <3>1, <3>2
  <2>7. ServedOnce' /\ ServedAreNotQueued'
    BY <2>1, <2>2, <2>3
  <2> QED BY <2>5, <2>6, <2>7
<1>2. ASSUME NEW d \in DBServers, LoginAuth(d) PROVE OneServer'
  <2>1. queue[d] \in Seq(Requests) /\ queue[d] # <<>>
    BY <1>2 DEF LoginAuth
  <2>2. /\ 1 \in DOMAIN queue[d] /\ queue[d][1] \in Requests /\ Head(queue[d]) = queue[d][1]
    BY <2>1, HeadFacts, Zenon
  <2>3. \A i \in DOMAIN Tail(queue[d]) : /\ i \in Nat /\ i + 1 \in DOMAIN queue[d]
                                          /\ i + 1 # 1 /\ Tail(queue[d])[i] = queue[d][i + 1]
    BY <2>1, TailFacts, Zenon
  <2>4. /\ queue' = [queue EXCEPT ![d] = Tail(queue[d])]
        /\ serving' = [serving EXCEPT ![d] = queue[d][1]]
        /\ at' = at
    BY <1>2, <2>2 DEF LoginAuth
  <2>5. \A e \in DBServers : \A i \in DOMAIN queue'[e] :
            \/ e # d /\ i \in DOMAIN queue[e] /\ queue'[e][i] = queue[e][i]
            \/ e = d /\ i \in Nat /\ i + 1 \in DOMAIN queue[d] /\ i + 1 # 1
                     /\ queue'[e][i] = queue[d][i + 1]
    BY <2>3, <2>4
  <2>6. \A e \in DBServers : serving'[e] = IF e = d THEN queue[d][1] ELSE serving[e]
    BY <2>4
  <2>7. QueuedAreSent'
    BY <2>4, <2>5
  <2>8. QueuedOnce'
    <3> SUFFICES ASSUME NEW a \in DBServers, NEW b \in DBServers,
                        NEW i \in DOMAIN queue'[a], NEW j \in DOMAIN queue'[b],
                        queue'[a][i] = queue'[b][j]
                 PROVE  a = b /\ i = j
      OBVIOUS
    <3>1. CASE a # d /\ b # d
      BY <2>5, <3>1
    <3>2. CASE a = d /\ b # d
      BY <2>5, <3>2
    <3>3. CASE a # d /\ b = d
      BY <2>5, <3>3
    <3>4. CASE a = d /\ b = d
      <4>1. i \in Nat /\ j \in Nat /\ i + 1 \in DOMAIN queue[d] /\ j + 1 \in DOMAIN queue[d]
            /\ queue[d][i + 1] = queue[d][j + 1]
        BY <2>5, <3>4
      <4>2. i + 1 = j + 1
        BY <4>1
      <4> QED BY <3>4, <4>1, <4>2
    <3> QED BY <3>1, <3>2, <3>3, <3>4
  <2>9. ServedOnce'
    <3>1. \A e \in DBServers : queue[d][1] # serving[e]
      BY <2>2
    <3> QED BY <2>6, <3>1
  <2>10. ServedAreNotQueued'
    <3> SUFFICES ASSUME NEW a \in DBServers, NEW e \in DBServers, NEW i \in DOMAIN queue'[e]
                 PROVE  queue'[e][i] # serving'[a]
      OBVIOUS
    <3>1. \E j \in DOMAIN queue[e] : queue'[e][i] = queue[e][j] /\ (e # d \/ j # 1)
      <4>1. CASE e # d
        BY <2>5, <4>1
      <4>2. CASE e = d
        BY <2>5, <4>2
      <4> QED BY <4>1, <4>2
    <3>2. CASE a = d
      BY <2>2, <2>6, <3>1, <3>2
    <3>3. CASE a # d
      BY <2>6, <3>1, <3>3
    <3> QED BY <3>2, <3>3
  <2> QED BY <2>7, <2>8, <2>9, <2>10
<1>3. ASSUME NEW d \in DBServers, ResponseWithLoginAuth(d) PROVE OneServer'
  <2>1. /\ serving[d] \in Requests /\ queue' = queue
        /\ at' = [at EXCEPT ![serving[d]] = "dbToLogin"]
        /\ serving' = [serving EXCEPT ![d] = NoRequest]
    BY <1>3 DEF ResponseWithLoginAuth, Forgets, Goes
  <2>2. QueuedAreSent'
    BY <2>1
  <2>3. QueuedOnce'
    BY <2>1
  <2>4. ServedOnce'
    BY <2>1
  <2>5. ServedAreNotQueued'
    <3>1. \A e \in DBServers : \A i \in DOMAIN queue[e] : queue[e][i] \in Requests
      OBVIOUS
    <3> QED BY <2>1, <3>1, AuthenticationAssumption
  <2> QED BY <2>2, <2>3, <2>4, <2>5
<1>4. ASSUME NEW d \in DBServers, DBServerStops(d) PROVE OneServer'
  <2>1. \A e \in DBServers : /\ queue'[e] = IF e = d THEN <<>> ELSE queue[e]
                             /\ serving'[e] = IF e = d THEN NoRequest ELSE serving[e]
    BY <1>4 DEF DBServerStops, Forgets
  <2>2. \A e \in DBServers : \A i \in DOMAIN queue'[e] :
            e # d /\ i \in DOMAIN queue[e] /\ queue'[e][i] = queue[e][i]
    BY <2>1
  <2>3. \A e \in DBServers : \A i \in DOMAIN queue[e] : queue[e][i] \in Requests
    OBVIOUS
  <2>4. QueuedAreSent'
    <3> SUFFICES ASSUME NEW e \in DBServers, NEW i \in DOMAIN queue'[e]
                 PROVE  at'[queue'[e][i]] = "loginToDB"
      OBVIOUS
    <3> DEFINE r == queue[e][i]
    <3>1. e # d /\ i \in DOMAIN queue[e] /\ queue'[e][i] = r /\ r \in Requests
      BY <2>2, <2>3
    <3>2. r # serving[d] /\ \A j \in DOMAIN queue[d] : queue[d][j] # r
      BY <3>1
    <3>3. at'[r] = at[r]
      BY <1>4, <3>1, <3>2 DEF DBServerStops
    <3> QED BY <3>1, <3>3
  <2>5. QueuedOnce'
    BY <2>2
  <2>6. ServedOnce'
    BY <2>1
  <2>7. ServedAreNotQueued'
    BY <2>1, <2>2, <2>3, AuthenticationAssumption
  <2> QED BY <2>4, <2>5, <2>6, <2>7
<1>5. ASSUME queue' = queue, serving' = serving,
             NEW r \in Requests, NEW p, at[r] # "loginToDB", at' = [at EXCEPT ![r] = p]
      PROVE  OneServer'
  BY <1>5
<1>6. ASSUME queue' = queue, serving' = serving, at' = at PROVE OneServer'
  BY <1>6
<1>7. ASSUME NEW r \in Requests, onClientLoginAuth(r) PROVE OneServer'
  BY <1>7, <1>5 DEF onClientLoginAuth, Goes
<1>8. ASSUME NEW r \in Requests, onLoginAuthRsp(r) PROVE OneServer'
  BY <1>8, <1>5 DEF onLoginAuthRsp, Goes
<1>9. ASSUME NEW r \in Requests, onLoginServerAuthRsp(r) PROVE OneServer'
  BY <1>9, <1>5 DEF onLoginServerAuthRsp, Goes
<1>10. ASSUME NEW r \in Requests, NoDBServer(r) PROVE OneServer'
  BY <1>10, <1>5 DEF NoDBServer, Goes
<1>11. ASSUME NEW r \in Requests, AsksAgain(r) PROVE OneServer'
  BY <1>11, <1>5 DEF AsksAgain, Goes
<1>12. ASSUME NEW d \in DBServers, NEW f, Look(d, f) PROVE OneServer'
  BY <1>12, <1>6, Zenon DEF Look
<1>13. ASSUME NEW d \in DBServers, RegisterUser(d) \/ RegisterFails(d) PROVE OneServer'
  BY <1>13, <1>6, Zenon DEF RegisterUser, RegisterFails
<1>14. ASSUME onUserUpdateNotify \/ (\E n \in Names : Expires(n)) \/ UNCHANGED vars
       PROVE  OneServer'
  BY <1>14, <1>6 DEF onUserUpdateNotify, Expires, vars
<1> HIDE DEF TypeOK, OneServer, QueuedAreSent, QueuedOnce, ServedOnce, ServedAreNotQueued
<1> QED
  BY <1>1, <1>2, <1>3, <1>4, <1>7, <1>8, <1>9, <1>10, <1>11, <1>12, <1>13, <1>14, Zenon DEF Steps

-----------------------------------------------------------------------------
(* No step changes the first row of a name, once there is one. *)
LEMMA RowsStay ==
  ASSUME TypeOK, Steps
  PROVE  \A u, n : FirstRow(u, n) => FirstRow(u, n)' /\ t_user'[u] = t_user[u]
<1>1. ASSUME t_user' = t_user, NEW u, NEW n, FirstRow(u, n)
      PROVE  FirstRow(u, n)' /\ t_user'[u] = t_user[u]
  BY <1>1 DEF FirstRow, RowsOf
<1>2. ASSUME NEW d \in DBServers, RegisterUser(d) \/ RegisterFails(d),
             NEW u, NEW n, FirstRow(u, n)
      PROVE  FirstRow(u, n)' /\ t_user'[u] = t_user[u]
  <2>1. serving[d] \in Requests
    BY <1>2 DEF RegisterUser, RegisterFails, TypeOK
  <2>2. t_user' = t_user \/ \E rows \in Added(serving[d]) : t_user' = t_user \o rows
    BY <1>2 DEF RegisterUser, RegisterFails
  <2>3. CASE \E rows \in Added(serving[d]) : t_user' = t_user \o rows
    <3>1. PICK rows \in Added(serving[d]) : t_user' = t_user \o rows
      BY <2>3
    <3>2. rows \in Seq(Row)
      BY <2>1, AddedFacts
    <3> QED BY <1>2, <3>1, <3>2, FirstRowStays DEF TypeOK
  <2> QED BY <1>1, <1>2, <2>2, <2>3
<1>3. t_user' = t_user \/ \E d \in DBServers : RegisterUser(d) \/ RegisterFails(d)
  <2>1. ASSUME NEW r \in Requests,
               \/ onClientLoginAuth(r)
               \/ \E d \in DBServers : onGateLoginAuthReq(r, d)
               \/ onLoginAuthRsp(r) \/ onLoginServerAuthRsp(r) \/ NoDBServer(r) \/ AsksAgain(r)
        PROVE  t_user' = t_user
    BY <2>1 DEF onClientLoginAuth, onGateLoginAuthReq, onLoginAuthRsp, onLoginServerAuthRsp,
                NoDBServer, AsksAgain
  <2>2. ASSUME NEW d \in DBServers, NEW f, Look(d, f) PROVE t_user' = t_user
    BY <2>2 DEF Look
  <2>3. ASSUME NEW d \in DBServers,
               LoginAuth(d) \/ ResponseWithLoginAuth(d) \/ DBServerStops(d)
        PROVE  t_user' = t_user
    BY <2>3 DEF LoginAuth, ResponseWithLoginAuth, DBServerStops
  <2>4. ASSUME onUserUpdateNotify \/ (\E n \in Names : Expires(n)) \/ UNCHANGED vars
        PROVE  t_user' = t_user
    BY <2>4 DEF onUserUpdateNotify, Expires, vars
  <2> QED BY <2>1, <2>2, <2>3, <2>4, Zenon DEF Steps
<1> QED BY <1>1, <1>2, <1>3

(* Each action finds, answers, sends on and caches first rows only. *)
LEMMA FirstRowsStep ==
  ASSUME TypeOK, FirstRows, Steps
  PROVE  FirstRows'
<1> DEFINE FoundRows == \A d \in DBServers : FoundRow(d)
           AnsweredRows == \A r \in Requests : AnsweredRow(r)
           NotifiedRows == \A i \in DOMAIN notified : NotifiedRow(notified[i])
           CachedRows == \A n \in Names :
                             n \in PlainNames /\ cached[n] > 0 => FirstRow(cached[n], n)
<1>a. FoundRows /\ AnsweredRows /\ NotifiedRows /\ CachedRows
  BY DEF FirstRows
<1>b. \A u, n : FirstRow(u, n) => FirstRow(u, n)' /\ t_user'[u] = t_user[u]
  BY RowsStay
<1>c. ASSUME UNCHANGED <<serving, step, found>> PROVE FoundRows'
  BY <1>a, <1>b, <1>c DEF FoundRow, PlainName
<1>d. ASSUME UNCHANGED accountid PROVE AnsweredRows'
  BY <1>a, <1>b, <1>d DEF AnsweredRow, PlainName
<1>e. ASSUME UNCHANGED notified PROVE NotifiedRows'
  BY <1>a, <1>b, <1>e DEF NotifiedRow
<1>f. ASSUME UNCHANGED cached PROVE CachedRows'
  BY <1>a, <1>b, <1>f
<1>g. ASSUME FoundRows', AnsweredRows', NotifiedRows', CachedRows' PROVE FirstRows'
  BY <1>g DEF FirstRows
<1> HIDE DEF FoundRows, AnsweredRows, NotifiedRows, CachedRows
<1>1. ASSUME UNCHANGED <<serving, step, found, accountid, notified, cached>> PROVE FirstRows'
  BY <1>1, <1>c, <1>d, <1>e, <1>f, <1>g
<1>2. ASSUME NEW r \in Requests,
             \/ onClientLoginAuth(r) \/ NoDBServer(r) \/ AsksAgain(r) \/ onLoginAuthRsp(r)
             \/ \E d \in DBServers : onGateLoginAuthReq(r, d)
      PROVE  FirstRows'
  BY <1>1, <1>2, Zenon
     DEF onClientLoginAuth, NoDBServer, AsksAgain, onLoginAuthRsp, onGateLoginAuthReq
<1>3. ASSUME NEW r \in Requests, onLoginServerAuthRsp(r) PROVE FirstRows'
  <2>1. UNCHANGED <<t_user, serving, step, found, accountid, cached>>
    BY <1>3 DEF onLoginServerAuthRsp
  <2>2. NotifiedRows'
    <3>1. CASE accountid[r] > 0
      <4> DEFINE x == [username |-> NameOf[r], uid |-> accountid[r]]
      <4>1. NotifiedRow(x)
        BY <3>1, <1>a DEF AnsweredRows, AnsweredRow, NotifiedRow, PlainName
      <4>2. notified' = Append(notified, x)
        BY <1>3, <3>1 DEF onLoginServerAuthRsp
      <4>3. notified \in Seq([username : Names, uid : Nat])
        BY DEF TypeOK
      <4> HIDE DEF x
      <4>4. ASSUME NEW i \in DOMAIN notified'
            PROVE  \/ i \in DOMAIN notified /\ notified'[i] = notified[i]
                   \/ notified'[i] = x
        BY <4>2, <4>3, AppendAt
      <4>5. ASSUME NEW i \in DOMAIN notified'
            PROVE  NotifiedRow(notified'[i])
        BY <4>1, <4>4, <1>a DEF NotifiedRows
      <4> QED BY <4>5, <1>b DEF NotifiedRows, NotifiedRow
    <3>2. CASE ~(accountid[r] > 0)
      BY <1>3, <3>2, <1>e DEF onLoginServerAuthRsp
    <3> QED BY <3>1, <3>2
  <2> QED BY <2>1, <2>2, <1>c, <1>d, <1>f, <1>g
<1>4. ASSUME NEW d \in DBServers, LoginAuth(d) PROVE FirstRows'
  <2>1. \A e \in DBServers : e # d => /\ serving'[e] = serving[e] /\ step'[e] = step[e]
                                      /\ found'[e] = found[e]
    BY <1>4 DEF LoginAuth, TypeOK
  <2>2. step'[d] = "look"
    BY <1>4 DEF LoginAuth, TypeOK
  <2>3. FoundRows'
    BY <2>1, <2>2, <1>a, <1>b DEF FoundRows, FoundRow, PlainName
  <2> QED BY <1>4, <2>3, <1>d, <1>e, <1>f, <1>g DEF LoginAuth
<1>5. ASSUME NEW d \in DBServers, NEW f, Look(d, f) PROVE FirstRows'
  <2> DEFINE n == NameOf[serving[d]]
  <2>1. PlainName(serving[d]) => LookedUp(f, n)
    BY <1>5, LookFacts
  <2>2. \A e \in DBServers : e # d => /\ serving'[e] = serving[e] /\ step'[e] = step[e]
                                      /\ found'[e] = found[e]
    BY <1>5 DEF Look, TypeOK
  <2>3. serving'[d] = serving[d] /\ found'[d] = f /\ step'[d] = AfterLook(d, f)
    BY <1>5 DEF Look, TypeOK
  <2>4. PlainName(serving[d]) /\ step'[d] = "compare"
            => FirstRow(f.uid, n) /\ f.passwd = t_user[f.uid].passwd
    BY <2>1, <2>3 DEF AfterLook, LookedUp
  <2>5. FoundRow(d)'
    BY <2>3, <2>4, <1>b DEF FoundRow, PlainName
  <2>6. FoundRows'
    BY <2>2, <2>5, <1>a, <1>b DEF FoundRows, FoundRow, PlainName
  <2> QED BY <1>5, <2>6, <1>d, <1>e, <1>f, <1>g DEF Look
<1>6. ASSUME NEW d \in DBServers, RegisterUser(d) \/ RegisterFails(d) PROVE FirstRows'
  <2>1. \A e \in DBServers : /\ serving'[e] = serving[e] /\ found'[e] = found[e]
                             /\ step'[e] = "compare" => step[e] = "compare"
    BY <1>6 DEF RegisterUser, RegisterFails, TypeOK
  <2>2. FoundRows'
    BY <2>1, <1>a, <1>b DEF FoundRows, FoundRow, PlainName
  <2> QED BY <1>6, <2>2, <1>d, <1>e, <1>f, <1>g DEF RegisterUser, RegisterFails
<1>7. ASSUME NEW d \in DBServers, ResponseWithLoginAuth(d) PROVE FirstRows'
  <2>1. PICK q \in Requests : q = serving[d]
    BY <1>7 DEF ResponseWithLoginAuth, TypeOK
  <2>2. accountid'[q] = Verdict(d) /\ \A r \in Requests : r # q => accountid'[r] = accountid[r]
    BY <1>7, <2>1 DEF ResponseWithLoginAuth, TypeOK
  <2>3. PlainName(q) /\ Verdict(d) > 0
            => FirstRow(Verdict(d), NameOf[q]) /\ t_user[Verdict(d)].passwd = PasswdOf[q]
    <3>1. CASE step[d] = "compare" /\ found[d].passwd = PasswdOf[q]
      BY <3>1, <2>1, RequestFacts, <1>a DEF Verdict, FoundRows, FoundRow
    <3>2. CASE ~(step[d] = "compare" /\ found[d].passwd = PasswdOf[q])
      BY <2>1, <3>2 DEF Verdict
    <3> QED BY <3>1, <3>2
  <2>4. AnsweredRow(q)'
    BY <2>2, <2>3, <1>b DEF AnsweredRow, PlainName
  <2>5. AnsweredRows'
    BY <2>2, <2>4, <1>a, <1>b DEF AnsweredRows, AnsweredRow, PlainName
  <2>6. \A e \in DBServers : serving'[e] # NoRequest =>
            serving'[e] = serving[e] /\ step'[e] = step[e] /\ found'[e] = found[e]
    BY <1>7 DEF ResponseWithLoginAuth, Forgets, TypeOK
  <2>7. FoundRows'
    BY <2>6, <1>a, <1>b DEF FoundRows, FoundRow, PlainName
  <2> QED BY <1>7, <2>5, <2>7, <1>e, <1>f, <1>g DEF ResponseWithLoginAuth
<1>8. ASSUME NEW d \in DBServers, DBServerStops(d) PROVE FirstRows'
  <2>1. \A e \in DBServers : serving'[e] # NoRequest =>
            serving'[e] = serving[e] /\ step'[e] = step[e] /\ found'[e] = found[e]
    BY <1>8 DEF DBServerStops, Forgets, TypeOK
  <2>2. FoundRows'
    BY <2>1, <1>a, <1>b DEF FoundRows, FoundRow, PlainName
  <2> QED BY <1>8, <2>2, <1>d, <1>e, <1>f, <1>g DEF DBServerStops
<1>9. ASSUME onUserUpdateNotify PROVE FirstRows'
  <2>1. notified \in Seq([username : Names, uid : Nat]) /\ notified # <<>>
    BY <1>9 DEF onUserUpdateNotify, TypeOK
  <2>2. 1 \in DOMAIN notified /\ Head(notified) = notified[1]
    BY <2>1, HeadFacts, Zenon
  <2>3. \A i \in DOMAIN Tail(notified) :
            i + 1 \in DOMAIN notified /\ Tail(notified)[i] = notified[i + 1]
    BY <2>1, TailFacts, Zenon
  <2>4. NotifiedRows'
    BY <1>9, <2>3, <1>a, <1>b DEF onUserUpdateNotify, NotifiedRows, NotifiedRow
  <2>5. NotifiedRow(notified[1])
    BY <2>2, <1>a DEF NotifiedRows
  <2>6. cached' = [cached EXCEPT ![notified[1].username] = notified[1].uid]
    BY <1>9, <2>2 DEF onUserUpdateNotify
  <2>7. CachedRows'
    BY <2>5, <2>6, <1>a, <1>b DEF CachedRows, NotifiedRow, TypeOK
  <2> QED BY <1>9, <2>4, <2>7, <1>c, <1>d, <1>g DEF onUserUpdateNotify
<1>10. ASSUME NEW n \in Names, Expires(n) PROVE FirstRows'
  <2>1. CachedRows'
    BY <1>10, <1>a, <1>b DEF Expires, CachedRows, TypeOK
  <2> QED BY <1>10, <2>1, <1>c, <1>d, <1>e, <1>g DEF Expires
<1>11. CASE UNCHANGED vars
  BY <1>11, <1>1 DEF vars
<1> QED
  BY <1>2, <1>3, <1>4, <1>5, <1>6, <1>7, <1>8, <1>9, <1>10, <1>11, Zenon DEF Steps

-----------------------------------------------------------------------------
(* IInv is inductive. *)
LEMMA InvInit == Init => IInv
<1> SUFFICES ASSUME Init PROVE IInv
  OBVIOUS
<1>1. t_user = <<>> /\ notified = <<>> /\ t_user \in Seq(Row)
      /\ notified \in Seq([username : Names, uid : Nat])
  BY DEF Init
<1>2. \A d \in DBServers : queue[d] = <<>> /\ serving[d] = NoRequest /\ step[d] = "look"
  BY DEF Init
<1>3. TypeOK
  <2>1. Nothing \in [uid : Nat, passwd : Passwds \cup {NoPasswd}]
    BY <1>1 DEF Nothing
  <2>2. queue \in [DBServers -> Seq(Requests)]
    BY DEF Init
  <2> QED BY <1>1, <1>2, <2>1, <2>2, AuthenticationAssumption DEF Init, TypeOK, Places
<1>4. OneServer
  <2>1. \A d \in DBServers : \A i \in DOMAIN queue[d] : FALSE
    BY <1>2
  <2> QED BY <1>2, <2>1 DEF OneServer, QueuedAreSent, QueuedOnce, ServedOnce, ServedAreNotQueued
<1>5. FirstRows
  BY <1>1, <1>2 DEF Init, FirstRows, FoundRow, AnsweredRow, NotifiedRow
<1> QED BY <1>3, <1>4, <1>5 DEF IInv

(* A step keeps it. *)
LEMMA InvStep == IInv /\ [Next]_vars => IInv'
BY NextIsSteps, TypeStep, OneServerStep, FirstRowsStep DEF IInv

(* So it always holds. *)
LEMMA Inv == Spec => []IInv
<1> QED BY InvInit, InvStep, PTL DEF Spec

(* The variables keep their types, and no server works on a request that is *)
(* not at one.                                                              *)
THEOREM TypeCorrect == Spec => []TypeOK
<1>1. IInv => TypeOK
  BY DEF IInv
<1> QED BY <1>1, Inv, PTL

(* RET_SUCC is answered to a request with a plain name only if it gives the *)
(* name and password of the account in the answer (gateService.cpp:40-63),  *)
(* however many servers share the table and whatever rows the statements of *)
(* requests that are not plain add to it.                                   *)
THEOREM SuccCorrect == Spec => []SuccIsGenuine
<1>1. IInv => SuccIsGenuine
  <2> SUFFICES ASSUME IInv, NEW r \in Requests, PlainName(r), accountid[r] > 0
               PROVE  /\ accountid[r] \in DOMAIN t_user
                      /\ t_user[accountid[r]] = [username |-> NameOf[r], passwd |-> PasswdOf[r]]
    BY DEF SuccIsGenuine
  <2>1. FirstRow(accountid[r], NameOf[r]) /\ t_user[accountid[r]].passwd = PasswdOf[r]
    BY DEF IInv, FirstRows, AnsweredRow
  <2>2. accountid[r] \in DOMAIN t_user /\ t_user[accountid[r]].username = NameOf[r]
    BY <2>1 DEF FirstRow, RowsOf
  <2>3. t_user[accountid[r]] \in Row
    BY <2>2 DEF IInv, TypeOK
  <2> QED BY <2>1, <2>2, <2>3 DEF Row
<1> QED BY <1>1, Inv, PTL

(* A plain name stands for one account, the first of its rows, although the *)
(* table has no unique key on it (gateService.cpp:42, user_table.sql:3).    *)
THEOREM NamesCorrect == Spec => []NamesKeepTheirAccount
<1>1. IInv => NamesKeepTheirAccount
  <2> SUFFICES ASSUME IInv, NEW n \in Names \cap PlainNames,
                      NEW u \in UidsOf(n) \ {0}, NEW v \in UidsOf(n) \ {0}
               PROVE  u = v
    BY DEF NamesKeepTheirAccount
  <2>1. ASSUME NEW w \in UidsOf(n) \ {0} PROVE FirstRow(w, n)
    <3>1. CASE \E r \in Requests : NameOf[r] = n /\ w = accountid[r]
      <4>1. PICK r \in Requests : NameOf[r] = n /\ w = accountid[r]
        BY <3>1
      <4>2. w > 0
        BY <2>1, <4>1 DEF IInv, TypeOK
      <4> QED BY <4>1, <4>2 DEF IInv, FirstRows, AnsweredRow, PlainName
    <3>2. CASE w = cached[n]
      <4>1. w > 0
        BY <2>1, <3>2 DEF IInv, TypeOK
      <4> QED BY <3>2, <4>1 DEF IInv, FirstRows
    <3>3. CASE \E i \in DOMAIN notified : notified[i].username = n /\ w = notified[i].uid
      BY <3>3 DEF IInv, FirstRows, NotifiedRow
    <3> QED BY <2>1, <3>1, <3>2, <3>3 DEF UidsOf
  <2>2. FirstRow(u, n) /\ FirstRow(v, n)
    BY <2>1
  <2>3. u \in Nat /\ v \in Nat /\ u <= v /\ v <= u
    BY <2>2 DEF FirstRow, RowsOf, IInv, TypeOK
  <2> QED BY <2>3
<1> QED BY <1>1, Inv, PTL
=============================================================================
