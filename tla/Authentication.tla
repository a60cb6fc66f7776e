--------------------------- MODULE Authentication ---------------------------
(***************************************************************************)
(* How a client is authenticated: its request goes through a gate and a    *)
(* LoginServer to a DBServer, which looks the name up in the table of the  *)
(* users, registers a name it does not find, looks it up again and         *)
(* compares the password.  Several DBServers share the table, and each     *)
(* works on one request at a time.  The answer goes back the same way; the *)
(* gate has the account of a success cached for the game servers.          *)
(***************************************************************************)
EXTENDS Integers, Sequences, FiniteSetsExt

CONSTANTS
    Requests,      \* the requests of a run, each of a connection of its own
    NameOf,        \* the name a request gives
    PasswdOf,      \* and its password
    NoRequest,     \* no request
    NoPasswd,      \* the empty string _pass starts with
    PlainNames,    \* the names a statement carries and the column keeps as they are
    PlainPasswds,  \* and the passwords
    DBServers,
    MaxUid,        \* bound on the uids a look-up for another name may return
    MaxAdded,      \* bound on the rows a statement with another name may add
    MaxFaults      \* bound on queries that fail and servers that stop

Names == {NameOf[r] : r \in Requests}
Passwds == {PasswdOf[r] : r \in Requests}
Row == [username : Names, passwd : Passwds]

(***************************************************************************)
(* The statements are put together from the name and the password as they  *)
(* come (dbHandle.cpp:26, dbHandle.cpp:49).  Plain are those that have none *)
(* of the characters that mean something in a literal and no more          *)
(* characters than their column.  Nothing is assumed of the others, and    *)
(* requests may give them.  Spaces at the end of a name do not count, as   *)
(* in the comparisons of the column (user_table.sql:3).                    *)
(***************************************************************************)
ASSUME AuthenticationAssumption ==
    /\ DOMAIN NameOf = Requests /\ DOMAIN PasswdOf = Requests
    /\ NoRequest \notin Requests
    /\ MaxUid \in Nat /\ MaxAdded \in Nat /\ MaxFaults \in Nat

PlainName(r) == NameOf[r] \in PlainNames
Plain(r) == PlainName(r) /\ PasswdOf[r] \in PlainPasswds

(* Where a request, or what has become of it, is. *)
Places == {"client", "gateToLogin", "loginToDB", "dbToLogin", "loginToGate",
           "answered", "lost"}

VARIABLES
    t_user,        \* t_user_back: a row's uid is its place
    at,            \* where each request is
    accountid,     \* the uid of its answer, 0 in RET_FAILED
    queue,         \* what a DBServer has received, in order
    serving,       \* the request in its LoginAuth
    step,          \* and how far it is: "look", "register", "relook", "compare", "fail"
    found,         \* _uid and _pass of LoginAuth
    notified,      \* updates under way from the gate to a game server
    cached,        \* name |-> uid in redis, 0 without one
    faults

vars == <<t_user, at, accountid, queue, serving, step, found, notified, cached, faults>>

Nothing == [uid |-> 0, passwd |-> NoPasswd]

Init ==
    /\ t_user = <<>>
    /\ at = [r \in Requests |-> "client"]
    /\ accountid = [r \in Requests |-> 0]
    /\ queue = [d \in DBServers |-> <<>>]
    /\ serving = [d \in DBServers |-> NoRequest]
    /\ step = [d \in DBServers |-> "look"]
    /\ found = [d \in DBServers |-> Nothing]
    /\ notified = <<>>
    /\ cached = [n \in Names |-> 0]
    /\ faults = 0

Goes(r, from, to) == at[r] = from /\ at' = [at EXCEPT ![r] = to]

-----------------------------------------------------------------------------
(* onClientLoginAuth at the gate: the request is passed on. *)
onClientLoginAuth(r) ==
    /\ Goes(r, "client", "gateToLogin")
    /\ UNCHANGED <<t_user, accountid, queue, serving, step, found, notified, cached, faults>>

(***************************************************************************)
(* onGateLoginAuthReq at a LoginServer, which sends to the first DBServer  *)
(* it is connected to: each LoginServer may have another one.              *)
(***************************************************************************)
onGateLoginAuthReq(r, d) ==
    /\ Goes(r, "gateToLogin", "loginToDB")
    /\ queue' = [queue EXCEPT ![d] = Append(@, r)]
    /\ UNCHANGED <<t_user, accountid, serving, step, found, notified, cached, faults>>

(* Without a connection to a DBServer the request is dropped silently. *)
NoDBServer(r) ==
    /\ faults < MaxFaults
    /\ Goes(r, "gateToLogin", "lost")
    /\ faults' = faults + 1
    /\ UNCHANGED <<t_user, accountid, queue, serving, step, found, notified, cached>>

-----------------------------------------------------------------------------
(* LoginAuth at a DBServer: the queries of one request are steps. *)

LoginAuth(d) ==
    /\ serving[d] = NoRequest /\ queue[d] # <<>>
    /\ serving' = [serving EXCEPT ![d] = Head(queue[d])]
    /\ queue' = [queue EXCEPT ![d] = Tail(@)]
    /\ step' = [step EXCEPT ![d] = "look"]
    /\ found' = [found EXCEPT ![d] = Nothing]
    /\ UNCHANGED <<t_user, at, accountid, notified, cached, faults>>

RowsOf(name) == {u \in DOMAIN t_user : t_user[u].username = name}

(* Mutant of GetVerification: the last row. *)
GetVerification_Last(name) ==
    IF RowsOf(name) = {} THEN Nothing
    ELSE [uid |-> Max(RowsOf(name)), passwd |-> t_user[Max(RowsOf(name))].passwd]

(* The first row of the result: the table is read in the order of uid.  It *)
(* is the row of the name if that is plain.                                *)
GetVerification(name) ==
    IF RowsOf(name) = {} THEN Nothing
    ELSE [uid |-> Min(RowsOf(name)), passwd |-> t_user[Min(RowsOf(name))].passwd]

(* What a look-up for a name that is not plain may return: rows of others, *)
(* made up ones, or none.                                                  *)
AnyRow == {Nothing} \cup [uid : 1..MaxUid, passwd : Passwds]

(* The query is for a row of the result that is f. *)
Finds(r, f) ==
    IF PlainName(r) THEN f = GetVerification(NameOf[r]) ELSE f \in AnyRow

AfterLook(d, f) ==
    IF f.uid > 0 THEN "compare" ELSE IF step[d] = "look" THEN "register" ELSE "fail"

(* Mutant of Look: the second look-up asks for the uid only. *)
Look_UidOnly(d, f) ==
    /\ serving[d] # NoRequest /\ step[d] \in {"look", "relook"}
    /\ Finds(serving[d], f)
    /\ found' = [found EXCEPT ![d] =
                    IF step[d] = "look" THEN f ELSE [f EXCEPT !.passwd = PasswdOf[serving[d]]]]
    /\ step' = [step EXCEPT ![d] = AfterLook(d, f)]
    /\ UNCHANGED <<t_user, at, accountid, queue, serving, notified, cached, faults>>

(* A query that fails is answered like a name that is not there. *)
Look(d, f) ==
    /\ serving[d] # NoRequest /\ step[d] \in {"look", "relook"}
    /\ \/ Finds(serving[d], f) /\ UNCHANGED faults
       \/ f = Nothing /\ faults < MaxFaults /\ faults' = faults + 1
    /\ found' = [found EXCEPT ![d] = f]
    /\ step' = [step EXCEPT ![d] = AfterLook(d, f)]
    /\ UNCHANGED <<t_user, at, accountid, queue, serving, notified, cached>>

(* What INSERT adds: the row of the request if it is plain, or any rows. *)
Added(r) ==
    IF Plain(r) THEN {<<[username |-> NameOf[r], passwd |-> PasswdOf[r]]>>}
    ELSE UNION {[1..n -> Row] : n \in 1..MaxAdded}

RegisterUser(d) ==
    /\ serving[d] # NoRequest /\ step[d] = "register"
    /\ \E rows \in Added(serving[d]) : t_user' = t_user \o rows
    /\ step' = [step EXCEPT ![d] = "relook"]
    /\ UNCHANGED <<at, accountid, queue, serving, found, notified, cached, faults>>

(***************************************************************************)
(* The statement is not one, or the connection to the database breaks,     *)
(* before or after the rows have been added.                               *)
(***************************************************************************)
RegisterFails(d) ==
    /\ serving[d] # NoRequest /\ step[d] = "register"
    /\ \/ ~Plain(serving[d]) /\ UNCHANGED <<t_user, faults>>
       \/ /\ faults < MaxFaults /\ faults' = faults + 1
          /\ \/ UNCHANGED t_user
             \/ \E rows \in Added(serving[d]) : t_user' = t_user \o rows
    /\ step' = [step EXCEPT ![d] = "fail"]
    /\ UNCHANGED <<at, accountid, queue, serving, found, notified, cached>>

(* The account id of the answer: 0 stands for RET_FAILED. *)
Verdict(d) ==
    IF step[d] = "compare" /\ found[d].passwd = PasswdOf[serving[d]] THEN found[d].uid ELSE 0

(* Mutant of Decided: a registration that fails returns without an answer. *)
Decided_NotFailed(d) == step[d] = "compare"

Decided(d) == step[d] \in {"compare", "fail"}

(* LoginAuth is over, and its variables with it. *)
Forgets(d) ==
    /\ serving' = [serving EXCEPT ![d] = NoRequest]
    /\ step' = [step EXCEPT ![d] = "look"]
    /\ found' = [found EXCEPT ![d] = Nothing]

(* Mutant of ResponseWithLoginAuth: a failed registration does not return. *)
ResponseWithLoginAuth_NoReturn(d) ==
    /\ serving[d] # NoRequest /\ Decided(d)
    /\ Goes(serving[d], "loginToDB", "dbToLogin")
    /\ accountid' = [accountid EXCEPT ![serving[d]] = Verdict(d)]
    /\ serving' = [serving EXCEPT ![d] = IF step[d] = "fail" THEN @ ELSE NoRequest]
    /\ step' = [step EXCEPT ![d] = IF @ = "fail" THEN "relook" ELSE @]
    /\ UNCHANGED <<t_user, queue, found, notified, cached, faults>>

ResponseWithLoginAuth(d) ==
    /\ serving[d] # NoRequest /\ Decided(d)
    /\ Goes(serving[d], "loginToDB", "dbToLogin")
    /\ accountid' = [accountid EXCEPT ![serving[d]] = Verdict(d)]
    /\ Forgets(d)
    /\ UNCHANGED <<t_user, queue, notified, cached, faults>>

(* A DBServer stops and is started again: what it had is lost. *)
DBServerStops(d) ==
    /\ faults < MaxFaults /\ faults' = faults + 1
    /\ at' = [r \in Requests |->
                IF r = serving[d] \/ \E i \in DOMAIN queue[d] : queue[d][i] = r
                THEN "lost" ELSE at[r]]
    /\ queue' = [queue EXCEPT ![d] = <<>>]
    /\ Forgets(d)
    /\ UNCHANGED <<t_user, accountid, notified, cached>>

-----------------------------------------------------------------------------
(* onLoginAuthRsp at the LoginServer. *)
onLoginAuthRsp(r) ==
    /\ Goes(r, "dbToLogin", "loginToGate")
    /\ UNCHANGED <<t_user, accountid, queue, serving, step, found, notified, cached, faults>>

(* onLoginServerAuthRsp at the gate. *)
onLoginServerAuthRsp(r) ==
    /\ Goes(r, "loginToGate", "answered")
    /\ notified' = IF accountid[r] > 0
                   THEN Append(notified, [username |-> NameOf[r], uid |-> accountid[r]])
                   ELSE notified
    /\ UNCHANGED <<t_user, accountid, queue, serving, step, found, cached, faults>>

(* onUserUpdateNotify at a game server. *)
onUserUpdateNotify ==
    /\ notified # <<>>
    /\ cached' = [cached EXCEPT ![Head(notified).username] = Head(notified).uid]
    /\ notified' = Tail(notified)
    /\ UNCHANGED <<t_user, at, accountid, queue, serving, step, found, faults>>

(* An entry of the cache lives ten minutes. *)
Expires(n) ==
    /\ cached[n] # 0
    /\ cached' = [cached EXCEPT ![n] = 0]
    /\ UNCHANGED <<t_user, at, accountid, queue, serving, step, found, notified, faults>>

(* The client asks again, over another connection, when no answer comes. *)
AsksAgain(r) ==
    /\ Goes(r, "lost", "client")
    /\ UNCHANGED <<t_user, accountid, queue, serving, step, found, notified, cached, faults>>

-----------------------------------------------------------------------------
LoginStep(r) ==
    \/ \E d \in DBServers : onGateLoginAuthReq(r, d)
    \/ onLoginAuthRsp(r)
    \/ onLoginServerAuthRsp(r)

DBStep(d) ==
    \/ LoginAuth(d)
    \/ \E f \in AnyRow \cup {GetVerification(n) : n \in Names} : Look(d, f)
    \/ RegisterUser(d)
    \/ RegisterFails(d)
    \/ ResponseWithLoginAuth(d)

Next ==
    \/ \E r \in Requests :
          onClientLoginAuth(r) \/ LoginStep(r) \/ NoDBServer(r) \/ AsksAgain(r)
    \/ \E d \in DBServers : DBStep(d) \/ DBServerStops(d)
    \/ onUserUpdateNotify
    \/ \E n \in Names : Expires(n)

Spec == Init /\ [][Next]_vars

(* The connections deliver, and the io thread of every server runs. *)
FairSpec ==
    /\ Spec
    /\ \A r \in Requests : WF_vars(LoginStep(r))
    /\ \A d \in DBServers : WF_vars(DBStep(d))

-----------------------------------------------------------------------------
(* The variables keep their types; a server works on a request sent to it. *)
TypeOK ==
    /\ t_user \in Seq(Row)
    /\ at \in [Requests -> Places]
    /\ accountid \in [Requests -> Nat]
    /\ queue \in [DBServers -> Seq(Requests)]
    /\ serving \in [DBServers -> Requests \cup {NoRequest}]
    /\ step \in [DBServers -> {"look", "register", "relook", "compare", "fail"}]
    /\ found \in [DBServers -> [uid : Nat, passwd : Passwds \cup {NoPasswd}]]
    /\ notified \in Seq([username : Names, uid : Nat])
    /\ cached \in [Names -> Nat]
    /\ faults \in 0..MaxFaults
    /\ \A d \in DBServers : serving[d] # NoRequest => at[serving[d]] = "loginToDB"

(***************************************************************************)
(* RET_SUCC is answered to a request with a plain name only if it gives    *)
(* the name and password of the account in the answer, though another      *)
(* server may have registered the name between the look-up and the         *)
(* registration of this one (gateService.cpp:40-63), and whatever the      *)
(* statements of requests that are not plain do.  Of the answers to those  *)
(* nothing of the kind is true.                                            *)
(***************************************************************************)
SuccIsGenuine ==
    \A r \in Requests :
        PlainName(r) /\ accountid[r] > 0 =>
            /\ accountid[r] \in DOMAIN t_user
            /\ t_user[accountid[r]] = [username |-> NameOf[r], passwd |-> PasswdOf[r]]

(* The accounts that answers, updates under way and the cache give a name. *)
UidsOf(n) ==
    {accountid[r] : r \in {q \in Requests : NameOf[q] = n}} \cup {cached[n]}
        \cup {notified[i].uid : i \in {j \in DOMAIN notified : notified[j].username = n}}

(***************************************************************************)
(* A plain name stands for one account: all answers, cache entries and     *)
(* updates under way agree on its uid.  The table has no unique key on the *)
(* name and does get several rows for one, when two servers register it at *)
(* once, a look-up fails (gateService.cpp:42) or another request's         *)
(* statement adds one; only the first is ever used.                        *)
(***************************************************************************)
NamesKeepTheirAccount == \A n \in Names \cap PlainNames : \A u, v \in UidsOf(n) \ {0} : u = v

(***************************************************************************)
(* Every request a gate sends on is answered, by whichever of the ends of  *)
(* LoginAuth it leaves, or a server it was at has stopped                  *)
(* (gateService.cpp:42-73).                                                *)
(***************************************************************************)
RequestsAreAnswered ==
    \A r \in Requests : at[r] = "gateToLogin" ~> at[r] \in {"answered", "lost"}
=============================================================================
