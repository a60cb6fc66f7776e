------------------------------ MODULE Sessions ------------------------------
(***************************************************************************)
(* The connections of a server: SessionManager, which indexes the sessions  *)
(* by connection id, by server type and by server number, and the part of   *)
(* Server that opens and closes them.  All of it runs in the io thread:     *)
(* accepting a connection, the tick of do_connect, the end of one of its    *)
(* connects, a hand-shake and a close are one step each.                    *)
(***************************************************************************)
EXTENDS Integers, FiniteSets, Sequences, SequencesExt

CONSTANTS
    Objects,    \* session objects; one that is closed may be made again
    Hosts,      \* serverInfoList_, as a sequence of names
    Types,      \* the values of ConnectType a peer may announce
    CT_DEFAULT, \* the type of a session that has not announced any
    HostType,   \* GetConnectType of the name of each host
    Uids,       \* the server numbers peers announce, 0 for none
    IdCount,    \* how many values current_id has: 2^16
    ConvStart,  \* static_cur_conv at start: 100000
    ConvBound,  \* bound on the datagram connections of a run
    ConnectBound \* bound on the connects of a host that are under way

ASSUME SessionsAssumption ==
    /\ IdCount \in Nat \ {0}
    /\ ConvStart \in Nat \ {0}
    /\ ConvBound \in Nat
    /\ ConnectBound \in Nat \ {0}
    /\ CT_DEFAULT \notin Types
    /\ HostType \in [1..Len(Hosts) -> Types]
    /\ Uids \subseteq Nat /\ 0 \in Uids

(* Mutant of TcpId: the id of a session is the counter itself. *)
TcpId_NoMagic(n) == n

(* GetNewTcpId: TCP_MAGIC_NUMBER is 1, in the half above current_id. *)
TcpId(n) == IdCount + n

NetIds == (IdCount .. 2 * IdCount - 1) \cup (ConvStart + 1 .. ConvBound)
HostIndex == 1..Len(Hosts)
AllTypes == Types \cup {CT_DEFAULT}

VARIABLES
    list,        \* sessionLists_
    byId,        \* sessionMaps_, from the id to the session
    byType,      \* sessionTypeMaps_, an absent type as the empty list
    byUid,       \* sessionUidMaps_
    netid,       \* netid_ of each session of the list, 0 of the others
    ctype,       \* type_
    uid,         \* uid_
    current_id,
    conv,        \* static_cur_conv
    hostState,   \* is_connected of each host
    hostId,      \* netId of each host
    hostPtr,     \* sessionPtr of each host: the netid_ of the session, 0 of none
    pending,     \* how many callbacks of async_connect each host has to come
    halted,      \* the io thread waits for a mutex it holds, or has crashed
    clash        \* history: an id has been given that was in use

indexVars == <<list, byId, byType, byUid, netid, ctype, uid>>
hostVars == <<hostState, hostId, hostPtr, pending>>
vars == <<list, byId, byType, byUid, netid, ctype, uid, current_id, conv,
          hostState, hostId, hostPtr, pending, halted, clash>>

Init ==
    /\ list = << >>
    /\ byId = << >>
    /\ byType = [t \in Types |-> << >>]
    /\ byUid = << >>
    /\ netid = [o \in Objects |-> 0]
    /\ ctype = [o \in Objects |-> CT_DEFAULT]
    /\ uid = [o \in Objects |-> 0]
    /\ current_id = 0
    /\ conv = ConvStart
    /\ hostState = [h \in HostIndex |-> "CST_UNCONNECT"]
    /\ hostId = [h \in HostIndex |-> 0]
    /\ hostPtr = [h \in HostIndex |-> 0]
    /\ pending = [h \in HostIndex |-> 0]
    /\ halted = FALSE
    /\ clash = FALSE

Listed(o) == netid[o] # 0
InUse(id) == id \in DOMAIN byId \/ \E h \in HostIndex : hostId[h] = id
Extended(f, x, y) == [z \in DOMAIN f \cup {x} |-> IF z = x THEN y ELSE f[z]]
Erased(f, x) == [z \in DOMAIN f \ {x} |-> f[z]]

(* addSessionById, of an id that is not in the map. *)
AddSessionById(o, id, t) ==
    /\ list' = Append(list, o)
    /\ byId' = Extended(byId, id, o)
    /\ byType' = IF t = CT_DEFAULT THEN byType
                 ELSE [byType EXCEPT ![t] = Append(@, o)]
    /\ netid' = [netid EXCEPT ![o] = id]
    /\ ctype' = [ctype EXCEPT ![o] = t]
    /\ UNCHANGED <<byUid, uid>>

(***************************************************************************)
(* A session whose id is in the map is not added, so nothing keeps it.  Its *)
(* destructor stops it, which is reported as the close of that id: the      *)
(* session in the map is erased under the mutex of the manager, is stopped  *)
(* by its destructor in turn, and that report waits for the same mutex.     *)
(***************************************************************************)
Collide ==
    /\ halted' = TRUE
    /\ UNCHANGED indexVars

AddOrCollide(o, id, t) ==
    \/ id \notin DOMAIN byId /\ AddSessionById(o, id, t) /\ UNCHANGED halted
    \/ id \in DOMAIN byId /\ Collide

(* do_accept. *)
Accept(o) ==
    LET id == TcpId(current_id)
    IN  /\ ~Listed(o)
        /\ current_id' = (current_id + 1) % IdCount
        /\ clash' = (clash \/ InUse(id))
        /\ AddOrCollide(o, id, CT_DEFAULT)
        /\ UNCHANGED <<conv, hostVars>>

(* do_accept_udp, of a connect packet. *)
AcceptUdp(o) ==
    LET id == conv + 1
    IN  /\ ~Listed(o)
        /\ conv < ConvBound
        /\ conv' = id
        /\ clash' = (clash \/ InUse(id))
        /\ AddOrCollide(o, id, CT_DEFAULT)
        /\ UNCHANGED <<current_id, hostVars>>

(* Mutant of Unconnected: a host is tried once. *)
Unconnected_Once == {h \in HostIndex : hostState[h] = "CST_UNCONNECT" /\ hostId[h] = 0}

Unconnected == {h \in HostIndex : hostState[h] = "CST_UNCONNECT"}

(***************************************************************************)
(* do_connect: every host that is not connected gets a new id and a new     *)
(* session, in order.  A session that was still there is destroyed without  *)
(* a word, as it has not been started; the callback of its connect is still *)
(* to come.                                                                 *)
(***************************************************************************)
DoConnect ==
    LET rank(h) == Cardinality({g \in Unconnected : g < h})
        id(h)   == TcpId((current_id + rank(h)) % IdCount)
    IN  /\ Unconnected # {}
        /\ \A h \in Unconnected : pending[h] < ConnectBound
        /\ current_id' = (current_id + Cardinality(Unconnected)) % IdCount
        /\ hostId' = [h \in HostIndex |-> IF h \in Unconnected THEN id(h) ELSE hostId[h]]
        /\ hostPtr' = [h \in HostIndex |-> IF h \in Unconnected THEN id(h) ELSE hostPtr[h]]
        /\ pending' = [h \in HostIndex |->
                         IF h \in Unconnected THEN pending[h] + 1 ELSE pending[h]]
        /\ hostState' = [h \in HostIndex |->
                           IF h \in Unconnected THEN "CST_CONNECTING" ELSE hostState[h]]
        /\ clash' = (clash \/ \E h \in Unconnected :
                        \/ id(h) \in DOMAIN byId
                        \/ \E g \in HostIndex \ {h} : hostId'[g] = id(h))
        /\ UNCHANGED <<list, byId, byType, byUid, netid, ctype, uid, conv, halted>>

(* Mutant of HostOf: the host is not looked for. *)
HostOf_None(id) == {}

(* The first host that has the id. *)
HostOf(id) ==
    {h \in HostIndex : hostId[h] = id /\ \A g \in 1..(h - 1) : hostId[g] # id}

(* What msg_handler does to the hosts when the session of the id is closed. *)
ForgetHost(id) ==
    LET gone == HostOf(id)
    IN  /\ hostId' = [h \in HostIndex |-> IF h \in gone THEN 0 ELSE hostId[h]]
        /\ hostState' = [h \in HostIndex |->
                           IF h \in gone THEN "CST_UNCONNECT" ELSE hostState[h]]

(***************************************************************************)
(* The callback of async_connect asks nothing of the host: it takes the id  *)
(* and the session the host has now, which need not be those of its own     *)
(* connect, and lets that session go.                                       *)
(***************************************************************************)
Callback(h) ==
    /\ pending[h] > 0
    /\ pending' = [pending EXCEPT ![h] = @ - 1]
    /\ hostPtr' = [hostPtr EXCEPT ![h] = 0]

(* It succeeds, and the session of the host is added under the id. *)
ConnectOk(h, o) ==
    /\ Callback(h)
    /\ hostPtr[h] # 0 /\ hostPtr[h] = hostId[h]
    /\ ~Listed(o)
    /\ hostState' = [hostState EXCEPT ![h] = "CST_CONNECTED"]
    /\ AddOrCollide(o, hostId[h], HostType[h])
    /\ UNCHANGED <<current_id, conv, hostId, clash>>

(***************************************************************************)
(* It succeeds, but the host has lost the id its session was made with:     *)
(* addSessionById refuses the session, which is started all the same and    *)
(* reports its own id as closed when it is let go.                          *)
(***************************************************************************)
ConnectRefused(h) ==
    LET id   == hostPtr[h]
        gone == IF id \in DOMAIN byId THEN {} ELSE HostOf(id)
    IN  /\ Callback(h)
        /\ id \notin {0, hostId[h]}
        /\ halted' = (id \in DOMAIN byId)
        /\ hostId' = [g \in HostIndex |-> IF g \in gone THEN 0 ELSE hostId[g]]
        /\ hostState' = [g \in HostIndex |-> IF g = h THEN "CST_CONNECTED"
                                             ELSE IF g \in gone THEN "CST_UNCONNECT"
                                             ELSE hostState[g]]
        /\ UNCHANGED <<indexVars, current_id, conv, clash>>

(* It fails; the session has not been started, so its stop does nothing. *)
ConnectFails(h) ==
    /\ Callback(h)
    /\ hostPtr[h] # 0
    /\ hostState' = [hostState EXCEPT ![h] = "CST_UNCONNECT"]
    /\ UNCHANGED <<indexVars, current_id, conv, hostId, halted, clash>>

(* Either way the method of no session is called once sessionPtr is empty. *)
ConnectCrashes(h) ==
    /\ Callback(h)
    /\ hostPtr[h] = 0
    /\ halted' = TRUE
    /\ UNCHANGED <<indexVars, current_id, conv, hostState, hostId, clash>>

(* Mutant of UpdateSessionType: the session stays in the list of its old type. *)
UpdateSessionType_KeepsOld(o, t) ==
    /\ byType' = IF t = ctype[o] \/ t = CT_DEFAULT THEN byType
                 ELSE [byType EXCEPT ![t] = Append(@, o)]
    /\ ctype' = [ctype EXCEPT ![o] = t]

(* updateSessionType. *)
UpdateSessionType(o, t) ==
    /\ byType' = IF t = ctype[o] THEN byType
                 ELSE [s \in Types |-> IF s = ctype[o] THEN RemoveFirst(byType[s], o)
                                       ELSE IF s = t THEN Append(byType[s], o)
                                       ELSE byType[s]]
    /\ ctype' = [ctype EXCEPT ![o] = t]

(* updateSessionUiD: the old number is erased, whichever session it leads to. *)
UpdateSessionUid(o, u) ==
    /\ byUid' = IF u = uid[o] THEN byUid
                ELSE LET kept == IF uid[o] = 0 THEN byUid ELSE Erased(byUid, uid[o])
                     IN  IF u = 0 THEN kept ELSE Extended(kept, u, o)
    /\ uid' = [uid EXCEPT ![o] = u]

(* connect_msg_handler of a request.  The answer it sends is encoded twice  *)
(* and means nothing to the peer, whose own handler changes nothing.        *)
HandShake(o, t, u) ==
    /\ Listed(o)
    /\ UpdateSessionType(o, t)
    /\ UpdateSessionUid(o, u)
    /\ UNCHANGED <<list, byId, netid, current_id, conv, hostVars, halted, clash>>

(* Mutant of RemoveSessionById: the number is not erased. *)
RemoveSessionById_KeepsUid(id) ==
    LET o == byId[id]
    IN  /\ byType' = [t \in Types |-> RemoveFirst(byType[t], o)]
        /\ list' = RemoveFirst(list, o)
        /\ byId' = Erased(byId, id)
        /\ netid' = [netid EXCEPT ![o] = 0]
        /\ ctype' = [ctype EXCEPT ![o] = CT_DEFAULT]
        /\ uid' = [uid EXCEPT ![o] = 0]
        /\ UNCHANGED byUid

(* removeSessionPById: the number is erased, whichever session it leads to. *)
RemoveSessionById(id) ==
    LET o == byId[id]
    IN  /\ byType' = [t \in Types |-> IF t = ctype[o] THEN RemoveFirst(byType[t], o) ELSE byType[t]]
        /\ byUid' = IF uid[o] = 0 THEN byUid ELSE Erased(byUid, uid[o])
        /\ list' = RemoveFirst(list, o)
        /\ byId' = Erased(byId, id)
        /\ netid' = [netid EXCEPT ![o] = 0]
        /\ ctype' = [ctype EXCEPT ![o] = CT_DEFAULT]
        /\ uid' = [uid EXCEPT ![o] = 0]

(* stop, after an error or on demand, and msg_handler of what it reports. *)
Close(o) ==
    /\ Listed(o)
    /\ RemoveSessionById(netid[o])
    /\ ForgetHost(netid[o])
    /\ UNCHANGED <<current_id, conv, hostPtr, pending, halted, clash>>

Next ==
    /\ ~halted
    /\ \/ \E o \in Objects : Accept(o) \/ AcceptUdp(o) \/ Close(o)
       \/ \E o \in Objects, t \in AllTypes, u \in Uids : HandShake(o, t, u)
       \/ \E h \in HostIndex, o \in Objects : ConnectOk(h, o)
       \/ \E h \in HostIndex : ConnectRefused(h) \/ ConnectFails(h) \/ ConnectCrashes(h)
       \/ DoConnect

Spec == Init /\ [][Next]_vars

(* The timer of do_connect is set again by each of its ticks. *)
FairSpec == Spec /\ WF_vars(~halted /\ DoConnect)

-----------------------------------------------------------------------------
TypeOK ==
    /\ list \in Seq(Objects)
    /\ byId \in [DOMAIN byId -> Objects] /\ DOMAIN byId \subseteq NetIds
    /\ byType \in [Types -> Seq(Objects)]
    /\ byUid \in [DOMAIN byUid -> Objects] /\ DOMAIN byUid \subseteq Uids
    /\ netid \in [Objects -> NetIds \cup {0}]
    /\ ctype \in [Objects -> AllTypes]
    /\ uid \in [Objects -> Uids]
    /\ current_id \in 0..(IdCount - 1)
    /\ conv \in Nat
    /\ hostState \in [HostIndex -> {"CST_UNCONNECT", "CST_CONNECTING", "CST_CONNECTED"}]
    /\ hostId \in [HostIndex -> NetIds \cup {0}]
    /\ hostPtr \in [HostIndex -> NetIds \cup {0}]
    /\ pending \in [HostIndex -> Nat]
    /\ halted \in BOOLEAN /\ clash \in BOOLEAN

OccursOnce(s, o) == \E i \in DOMAIN s : \A j \in DOMAIN s : s[j] = o <=> j = i

(***************************************************************************)
(* The list, the index by id and the lists by type hold the same sessions:  *)
(* updateSessionType and removeSessionPById take this for granted           *)
(* (SessionManager.cpp:167, "when the data agree").  A session left in a    *)
(* list by type would be a freed one, and send_message_by_type uses it.     *)
(***************************************************************************)
IdIndex ==
    \A o \in Objects :
        /\ Listed(o) => netid[o] \in DOMAIN byId /\ byId[netid[o]] = o /\ OccursOnce(list, o)
        /\ ~Listed(o) => o \notin {list[i] : i \in DOMAIN list}

TypeIndex ==
    \A t \in Types, o \in Objects :
        IF Listed(o) /\ ctype[o] = t THEN OccursOnce(byType[t], o)
        ELSE o \notin {byType[t][i] : i \in DOMAIN byType[t]}

IndexesAgree ==
    /\ IdIndex
    /\ TypeIndex
    /\ \A id \in DOMAIN byId : netid[byId[id]] = id

(***************************************************************************)
(* findSessionByUid never follows an iterator to a session that is gone,    *)
(* nor returns one that has announced another number, whatever the order in *)
(* which the connections of one server come, change numbers and go.         *)
(***************************************************************************)
NoDanglingUid ==
    \A u \in DOMAIN byUid : u # 0 /\ Listed(byUid[u]) /\ uid[byUid[u]] = u

(***************************************************************************)
(* Until the counter of the ids comes round to one that is in use, the io   *)
(* thread neither waits for itself nor crashes, the callbacks that are to   *)
(* come find the host and the session they were set up for, and a host      *)
(* do_connect leaves alone has a session of its own or is about to be told  *)
(* how its connect ended, so no peer is lost for good.                      *)
(***************************************************************************)
HostsHaveSessions ==
    ~clash =>
        /\ ~halted
        /\ \A h \in HostIndex :
              /\ hostState[h] = "CST_CONNECTED" => hostId[h] \in DOMAIN byId /\ pending[h] = 0
              /\ hostState[h] = "CST_CONNECTING" =>
                    /\ pending[h] = 1 /\ hostPtr[h] = hostId[h] /\ hostId[h] # 0
                    /\ hostId[h] \notin DOMAIN byId
              /\ hostState[h] = "CST_UNCONNECT" => pending[h] = 0
        /\ \A g, h \in HostIndex : g # h /\ hostId[g] = hostId[h] => hostId[g] = 0

(***************************************************************************)
(* A host without a connection is tried again, unless the counter of the    *)
(* ids has come round to one that is in use.  After that it need not be:    *)
(* ConnectRefused leaves a host that is taken for connected and has no id.  *)
(***************************************************************************)
LostHostsAreRetried ==
    \A h \in HostIndex :
        hostState[h] = "CST_UNCONNECT" ~> (clash \/ hostState[h] = "CST_CONNECTING")
=============================================================================
