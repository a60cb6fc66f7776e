# Verification of GameServerDs

TLA+ models, TLC runs and TLAPS proofs for the servers in this repository. All
paths below are relative to `src/`. The models follow the code, not the
comments; where a comment, or the protocol files, promise something else, a run
that expects a violation shows it.

## The system

A distributed game backend in C++. Clients talk to a gate, the gate to a login
server and to a game server, the game server to a node server, the node server
to a room server, the room server to a battle server:

    client - gateServer - LoginServer - DBServer
                   \ GameServer - NodeServer - RoomServer - BattleServer

Each server is one process around `common/network`. `DisPatcher::init` is never
called, so `enqueueTask` runs every handler at once in the io thread
(`common/network/disPatcher.cpp:54`): **inside one process a handler is atomic,
and the concurrency is that of messages between processes**. The bounded queue
and the connection pools are written for many threads; as shipped, the io thread
is the only one that uses the pools, and nothing starts the workers of the queue.

| Component | State | Operations | What makes it correct |
|---|---|---|---|
| Room (`RoomServer/src/model/Room/Room.*`) | list of users, map from account to iterator, two counters, owner, player numbers, level, state | enter, leave, ready, choose level | the redundant members agree; one owner; starts full and ready; frozen once it runs |
| Room server (`RoomManager.*`, `NodeService.*`) | list of rooms, maps by id and by size, id counter | create, enter, leave, ready, choose level | indexes agree, ids are not reused, answers say what happened |
| Node server (`NodeServer/src`) | none (a redis cache of rooms) | relays ten messages | each message reaches the right handler; the cache's test and set are atomic |
| Game server (`GameServer/src`) | users: connection, room, IDLE or IN_PROCESS; users of each gate | login and take-over, disconnection, five requests and their replies | a request gets its reply; one record per account; no record of a user that is gone |
| Gate (`gateServer/src`) | connections and the connection each is paired with; accounts by name and uid | relays, disconnection of either side | pairings are symmetric; the two indexes agree |
| Login server | none | relay | - |
| DB server (`DBServer/src`) | one table | authenticate, register on first login | one uid per name |
| Battle server (`BattleServer/src`) | players, game state, mission, score | join, leave, start, pause, events, ticks | score and mission agree with the events; undefined start state |
| Sessions (`common/network/SessionManager.*`) | list of sessions, maps by id, type, uid | accept, connect, hand-shake, close | indexes agree and lead to live sessions |
| Bounded queue (`common/include/ThreadSafeQueue.hpp`) | ring, head, tail, size | enqueue, dequeue, their Try forms | first in first out, no lost wake-up |
| Pools (`common/datahandle`) | list of connections, semaphore | acquire, release | no connection used twice |
| Codec (`common/include/codec.cpp`) | parse state over a buffer | decode, encode | what is encoded is decoded, however it is cut |

### How the parts interact, and what is hard about it

* Requests travel five processes down and the replies five up; each hop rewrites
  the message and puts its own connection number in `request_id`. Replies may be
  lost (`NodeService::onCreateRoom` answers to the connection whose *number is
  the account id*), sent on under another type (`NodeServer/.../RoomService.cpp:54,69`),
  or arrive after the user has logged out or in elsewhere.
* A game server marks a user IN_PROCESS when it sends a request on and clears
  the mark only when the reply comes; nothing times out.
* Gates, game servers and clients disconnect in any order; records on the other
  side are removed by account id or connection number, without checking that
  they are still those of the connection that was lost.
* The room server believes any account id in any request. It makes a new `User`
  for every enter request, so the test "is in a room" never sees anything, and
  one account may be in many rooms, and several times in one.
* Counters wrap: 32-bit room ids, 16-bit connection ids.

`PROJECT.json` lists each of these hazards at its line, with the properties that
watch it, or the reason why none does.

As shipped, some requests never reach the room server: `GameServer.cpp:45`
registers enter requests with the handler of create requests, and a user whose
create request was sent on stays IN_PROCESS because the answer is lost.
**The components are therefore modelled as open systems**: the environment of a
component is any sequence of well-formed messages of the protocol it registers a
handler for. What is shown of a component then does not depend on which of its
peers' present defects hide a behaviour.

## What is modelled

### `Room.tla` - class Room

One record per room and one operator per method; no variables. A method that
may refuse is split into the code it returns (`UserEnterRet`, ...) and the object
after success (`UserEnter`, ...). `m_list_users_` is a sequence (`users`),
`m_map_users_` is the position each account's iterator points at (`at`, 0 when
the account is not in the map), `num_use` is the set of numbers taken. The last
section states what should be true of a room between two calls.

### `OneRoom.tla` - one room under all its requests

State: one room. Actions: `Enter`, `Leave`, `Ready`, `StartGame`, `ChooseLevel`,
each the part of a handler of `NodeService` that touches the room, for any
account, in any order. Refused requests change nothing and are stutters here.

### `Lobby.tla` - what a room promises

Seats, who sits on them, who is ready, which seat owns the lobby, whether the
game has started. No list, map, counter or owner flag. `OneRoom` implements it
under the mapping given at `TheLobby`: a player number is a seat, the seat of the
front of the list is the owner's. The mapping needs no history: an account on two
seats is allowed by the lobby because the code allows it.

### `RoomServer.tla` - the room manager and the node service

State: the rooms by id, the list of rooms and the index by size of
`RoomManager`, the id counter, and the last answer sent. Each handler registered
in `RoomServer::initcallback` is a disjunction of its outcomes: the room does not
exist, the room refuses, the room grants. Answers record to whom they go: create
answers go to the connection numbered like the account; the answer for a level of
a missing room is "garbled" because its code is written through a pointer to the
wrong message (`NodeService.cpp:379`): `ChooseLevelScRsp` keeps its code where
`SSR2NChooseLevelRsp` keeps its request id.

Left out of both: roles (`userChoseRole` has no caller and refuses always, its
table is never filled), `userDisConnect`, `isTimeOut`, `AddRoom`, `RemoveRoom`,
`SafeRemoveRoom`, `findRoomByType`, `UserManager` (no callers), the owner's
address and port (written, never read), names, logging, the notifications
(empty bodies). A `maxusercount` of 2^31 or more, which becomes a negative size
and throws in the constructor, is outside the model.

### `Peers.tla`, `GameServer.tla`, `GateServer.tla`, `GateGame.tla` - users, gates and the node relay

`GameServer` has the users of a game server and the sets of users per gate.
`users[u]` is the `UserInfo` of `UserManager`, or `NoUser`: connected or not, the
gate and the number of the connection there, the node server that serves it, the
room, and `busy` for IN_PROCESS. `net` is the set each `GameConnection` keeps.
One action is one handler of `GateService` or `NodeService`: login with its
take-over (`LoggedIn`, `Released`, `Offline`: what is kept of the old record and
what is deleted), a user that has gone, a gate that has gone, three requests and
their answers. The handlers that refuse an unknown user and do not return follow
a null pointer; `crashed` is then set and the process does nothing more.

The node server keeps no state. It is the bag `asked` of requests under way;
each may be answered by the node itself, with the answer of a room server, or
not at all, and the answer to a leave request comes as one to an enter request,
as `RoomService.cpp` of the node sends it on. `CreateAnswered` says whether the
answer to a create request can arrive. With the room server of this repository
it never does (see above); `gate_game` lets it arrive, so that
users are in rooms, `gate_game_unknown` does not.

`GateServer` has the connections of all gates, whether each is paired with the
game server, and the end points that the gate's connection to the game server lists.

`GateGame` composes the two over one TCP connection per gate: two queues of
messages, and for each side whether it has the connection. The two sides learn
of a loss at different times, in any order, with messages still waiting; then
they connect again. Clients log in, ask, and go at any time.

### `Authentication.tla` - gate, login server, DB server, one table

Each request moves through the places gate, login server, DB server and back.
`LoginAuth(d)`, `Look`, `RegisterUser` and the comparison are the separate
queries of one `LoginAuth`: between any two of them another DB server works on
the same table. A query that fails looks like a name that is not there, as in the
code; a server that stops loses what it had. A success makes the gate
notify a game server, which writes the redis cache. The table is external: rows
get rising uids, no key on the name is unique, and rows are read in the order of uid.

`GetVerification` and `RegisterUser` put name and password into the statement as
they come (`dbHandle.cpp:26,49`). `PlainNames` and `PlainPasswds` are those that a
statement carries unchanged. For a plain name a look-up finds the first row of the
name (`GetVerification`); for any other it finds anything (`AnyRow`), the row
of another account and a made-up one included, and a registration with a name or
password that is not plain adds any rows, or fails (`Added`, `RegisterFails`).
What is stated of an answer is stated of plain names; **a request with another
name may be answered success without the password of the account it is given.**

### `Sessions.tla` - SessionManager and the part of Server around it

The list of sessions and the indexes by id, by type and by server number are four
variables, changed by the operators named after the methods of `SessionManager`.
Actions: accept (TCP and datagram), the tick of `do_connect` with all its
connects, the callback of one of them, a hand-shake with any type and number, and a
close with what `msg_handler` does for it. The 16-bit counter is `IdCount` and
wraps. A session whose id is taken destroys itself inside the
manager's mutex and waits for it for ever: the process is `halted`.

`hostPtr` is the session a host record holds, `pending` the connects under way of
each host. The callback (`server.cpp:379-397`) tests nothing but the error: it acts on
whatever the host's record is when it comes. When ids have come round, the close
of a session with the id of a host whose connect is under way resets that host; the
callback then takes it for connected with the id 0 and its session is refused
(`ConnectRefused`, and the host is not tried again), or calls through the empty
pointer of the host (`ConnectCrashes`), and a further connect may be started while
the first is pending.

### `TcpSession.tla` - one direction of a TCP connection

`encodebytes`, `TcpBuffer` and `decodedata`, on an array of cells with a read and a
write index: a read of any length ends anywhere in a frame, the buffer moves its
contents, grows, and is overtaken by the read index where the code lets it.
`DecodeHeader`, `DecodeContent`, `DecodeEnd`, `DecodeFails` and `DecodeWaits` are
one round of the loop of `TcpSession::recv` each.

### `ThreadSafeQueue.tla` and `Channel.tla`

The ring with its three indexes, the wait sets of the two condition variables, and
the call each thread is in. What a call does between taking the mutex and giving
it up is one step; waits may end without a notification. `Channel` is what
the callers are promised: values in order, bounded, each call taking effect at
one point. `ThreadSafeQueue` implements it under `chan <- Elements`.

## The runs

`CHECK_DEADLOCK FALSE` everywhere but in `queue`, where it makes no difference:
waits may end without a notification, so the model always has a step. That
threads do not all wait while one of them could go on is `NoLostWakeup`. A room whose game runs refuses every request, and no handler ever
takes it out of that state; a process that has crashed or waits for its own
mutex, a session that has stopped, and requests that have all been answered do
nothing more. These systems really may stop.

| Run | Bounds | Shows |
|---|---|---|
| `one_room` | 3 accounts, size 3, levels 1 (exists) and 3 (does not) | the type invariant; map, numbers, ready count, owner and start invariants; a running room is frozen; those who stay keep number, readiness and order; the room implements the lobby; under fairness a full room is started or left. 7,778 states |
| `room_server` | 2 accounts, 2 ids, sizes 0 and 2, levels 1 and 3 | all rooms consistent; the three indexes agree; ids are fresh until all are used; what an answer says has happened in the room it names, and in no other; no room is replaced. 330,241 states |
| `one_room_twice` (violation) | size 2 | an account enters twice, though `Room.cpp:32` has a code for "already exists" |
| `room_server_four` (violation) | as `room_server` | no user count gives a room of size 0, `CsCmd.proto:96` says 4 |
| `room_server_level` (violation) | as `room_server` | a level of a missing room is answered with the code of success, `CsCmd.proto:189` says it is invalid |
| `queue` | 2 producers, 2 workers, 2 values, 2 slots | nothing overwritten or taken twice; no wake-up lost; the ring is a first-in first-out channel; a producer that waits is woken. 34,129 states |
| `sessions` | 3 sessions, 1 host, 3 ids, 1 datagram number, 2 server numbers, 2 connects under way | the indexes agree; no number leads to a session that is gone. 724,407 states |
| `hosts` | 2 sessions, 2 hosts of different types, 3 ids, 1 datagram number, 1 server number, 2 connects under way | until an id is given out that is in use, a connected host keeps a session of its own, and a lost host is tried again. 639,722 states |
| `gate_game` | 1 account, 2 gates with a client each, 1 room, 2 messages and 2 requests under way, 1 node connection | the sets cover the connected users; pairings are listed; a take-over leaves the room; logins are answered. 454,730 states |
| `gate_game_unknown` (violation) | as `gate_game`, 1 request | a log-in that is refused is paired by the gate all the same; the client's create request, which `GateService.cpp:272` calls illegal and means to refuse, takes the process down (`GateService.cpp:282`) |
| `tcp_session` | 3 frames of 13 and 15 cells, a buffer of 8, reads of 1 to 30 | no read leaves the array; messages arrive whole, in order, once; only a tail that has not come stops a well-formed stream; else all arrive. 165,275 states |
| `login` | 2 requests for one name and password, 1 with a name that is not plain, which may find uid 1 and add 1 row, 2 DB servers, 1 fault | success for a plain name only with its password; one account per plain name; every request that is sent on is answered or lost with a server. 265,159 states |

Why the bounds suffice. Three places are the least at which a leave takes an
entry from the front, the middle and the end of the list, with entries behind it
whose positions move; three accounts fill them without repetition, and two leave
one to repeat. Level 3 is the one that does not exist. Two ids make the counter
wrap at the second room and refuse the third; size 0 is the size of a request
without a count, size 2 the least with an owner and another user. The accounts
are interchangeable: no code compares two of them but for equality, so the safety
runs use symmetry (never a run that checks liveness).

Of the later runs. Two slots are the fewest where head and tail wrap at different
times; with two threads on each side one can be left waiting while the
other goes on. Three session ids make the counter come round while an id is in
use; two hosts are the fewest between which the second is not the one searched
first, and three sessions the fewest with which a type has one in front of and
one behind the one that goes. Two connects of one host are under way only after
ids have come round. Users of a game server do not touch each other: no handler
reads or writes the record of another account, so one suffices; what matters are
the two gates between which it moves, and that their clients' connections may have
the same number. A buffer of 8 cells is smaller than a frame, so it grows, and its
first third ends inside one, so it moves; the data of one message
contain a mark; a read of 30 cells holds two frames. Two requests let one name be
registered by two servers at once; the third, whose statements find and add what
they like, adds rows of that name with either password at any time between.

Fairness. `FairSpec` of `OneRoom` is an assumption about the clients: each keeps
asking to be ready as long as its request would be granted. The server adds none:
it has no timer and no thread of its own that would move a room. `FullRoomStarts`
speaks only of rooms whose owner is not ready and whose map leads to every listed
user. The two ways in which a room can be stuck are left out by this: an account is
listed twice (`one_room_twice`), or a member that is ready inherits the room and is
answered "already ready" (`Room.cpp:145`), so that it cannot start the game before
somebody leaves.

The other runs:

* `queue`: a thread in a call runs on, and a worker calls again when its call
  returns, as `DisPatcher::init` has it loop. Producers need not call. Weak
  fairness; no thread is promised the mutex before another.
* `hosts`: `do_connect` sets its own timer again at every tick. Nothing
  forces peers to answer, shake hands or close.
* `gate_game`: TCP delivers what was sent while both sides have the connection.
  Neither node, clients nor reconnection are fair: a request may be
  without an answer for ever, so its user may stay IN_PROCESS for ever.
* `tcp_session`: reads complete while cells are under way, and the io thread runs.
* `login`: connections deliver and the io threads run; what fails is bounded.

Each property of a passing run has a mutant, an operator of the model with a
suffix (`UserLeaveRet_AnyState`, ...), that breaks it when it takes the place of
the operator it is named after.

## What is proved

`RoomProofs.tla` has, for a record `r`, an inductive invariant `RoomInv(r)` and one lemma
per method: a granted call takes a room that satisfies it to one that does.
`RoomInv` is the conjunction of the checked invariants and two facts that make it
inductive: the numbers in use are finitely many, and there are as many as
`m_cur_room_size_`. Without them nothing says that a room that is not full has a
free number, so that `userEnter` could give out -1 (`FreePlayerFacts`), or that
giving back one number frees exactly one place. The longest argument is `userLeave`: where every
remaining entry came from (`Source`, `LeftBehind`), and that no two of them share
a position, a number or the owner's flag.

`OneRoomProofs.tla`: from these lemmas, `Spec => []TypeOK`, `[]MapInv`,
`[]NumbersInv`, `[]ReadyInv`, `[]OwnerInv`, `[]StartInv`, `[]StartIsGranted`,
`Spec => RunningRoomIsFrozen`, `StayersKeepTheirPlace` and `ImplementsLobby`.
`StayersKeepTheirPlace` is a fact about two rooms, `Keeps(r, n)`: every method but
`userLeave` leaves the entries where they are, and `Source`, which says where an
entry was before `userLeave`, is increasing. For the refinement, `SittingUnique`
says that who sits where is determined by the list, since no two entries share a
number; each method's result is then recognised as `SitDown`, `GetUp`,
`DeclareReady`, `Start` or a stutter. That all seats are taken and ready when the
owner starts follows from two counts (`m_cur_room_size_` is the size of the
room, and as many numbers as that are in use), that of the ready users included.
The other way round, `StartIsGranted`, which only the proof states, says that an owner that is not ready is then
never refused: the ready users are those behind the front of the list, one fewer
than the room holds (`OthersAreCounted`).

`RoomServerProofs.tla`: `NextCases` reduces every step to one of three: no room
changes, a room is added, or one method's result replaces a room that was not
running. From it `Spec => []TypeOK`, `[]RoomsInv`, `[]IndexInv`, `[]FreshIds`,
`RoomsAreNeverReplaced` and `AnswersTellTheTruth`. `[]FreshIds` needs that the
ids in use are always an initial segment, `0..(nextId - 1)`, or all of them.
`IndexInv` says in which order the rooms of one size are indexed by positions
(`InOrderOf`), not by `SelectSeq`, which is defined by recursion.

`AuthenticationProofs.tla`: `Spec => []TypeOK`, `[]SuccIsGenuine` and
`[]NamesKeepTheirAccount`. The inductive invariant `IInv` is that the number found
by a look-up, answered, on its way to a game server or cached for a name is always
that of the *first* row of the name, if the name is plain (`FirstRows`), and that a request is at one DB
server at most (`OneServer`). `SuccIsGenuine` alone is not inductive: a second
server, or the statement of a request that is not plain, may add a row for the name
between look-up and comparison. Rows are
only appended, whatever the name, so a first row stays the first (`FirstRowStays`), and
`GetVerification` returns it or nothing (`GetVerificationFacts`).

`ThreadSafeQueueProofs.tla`: `Spec => []TypeOK`, `[]RingInv`, `[]NoLostWakeup` and
`ImplementsChannel`, for any threads, values and capacity. The three invariants
are one inductive invariant: whether a wake-up is owed depends on what `size`
says of the ring. The refinement rests on `ElementFacts`: which slots `Elements`
reads, and that a push or pop changes one end of it.

`GateGameProofs.tla`: `Spec => []TypeOK`, `[]GateSetsCover`, `[]PairingsAgree` and
`TakeOverLeavesTheRoom`, for any number of gates, clients, accounts, rooms and
messages under way. `PairingsAgree` needs that a client is paired under an
account and not before it has connected (`PairedClients`); `GateSetsCover` needs
the types, which say that a message under way to a gate names one of its
clients (`UpMessage`, `ClientsOf`).

`SessionsProofs.tla`: `Spec => []TypeOK`, `[]IndexesAgree`, `[]NoDanglingUid` and
`[]HostsHaveSessions`. There is one lemma per method of `SessionManager`, in
terms of `PlacesAgree`: where an object is in each index. `HostsHaveSessions` is
inductive together with the indexes: besides the connected hosts it speaks of
the connects under way, whose ids are new and of which a host has at most one,
and it says that no two hosts have one id, as long as no id has come round while
in use.

`TcpSessionProofs.tla`: `Spec => []TypeOK`, `[]ReadsStayInBuffer`,
`[]MessagesArriveInOrder` and `OnlySplitTailsStop`, for any messages (of up to
255 cells, see below), any first size of the buffer and any cut of the stream.
There are two inductive invariants. `Typed`: between two rounds the read index is in the first third of the array
(`BufferOK`), which is why the tail that `decodedata` does not wait for is still
inside the array, and the cells behind the write index are 0. `IInv` adds
that what was handed over is a prefix of what was sent, and that the rest
lies end to end, frame after frame, in the buffer and on the wire (`Sound`),
unless the loop is about to read a tail that has not come (`Failing`) or is over.
The positions of the frames are a function `at` that is said to exist, so that
no recursion over the messages is needed. Moving and growing the buffer change
none of what is ready (`Drops`).

Assumptions, all of them the `ASSUME`s of the modules: `NoUser \notin Users` (0 is
not an account id); the size of the room is a natural number; `IdCount` is positive;
every request has a name and a password, of which any may be plain;
the capacity of the queue is positive, no thread is both producer and worker, and
"no call" is neither a value nor a call; rooms and connections do not have the number 0,
there is an account, and each client has one gate, one account and one connection
number; the type of a session that has not shaken hands is none of the types of
servers, every host has one of these, and 0 is a server number; in `TcpSession` commands and lengths are below 256, so
that the low cell of their two carries them (the high one is then 0), and the
buffer has at least 3 cells (the code's has 1024). The bounds (`MaxNode`, `MaxAsked`, `MaxUid`, `MaxAdded`,
`ConvBound`, `ConnectBound`, `MaxSent`, `MaxRead`) are any natural numbers. Nothing bounds the number of accounts, rooms, requests, servers,
gates, hosts, threads or faults.

Every safety invariant and action property that a passing run checks is proved.
Only model-checked are the liveness properties (`FullRoomStarts`,
`WaitingWritersAreWoken`, `LostHostsAreRetried`, `LoginsAreAnswered`, `AllArrive`,
`RequestsAreAnswered`): liveness under fairness is out of the provers' reach. The
four disagreements between code and documents are counterexamples that TLC finds.

## Not modelled

About 66,000 of the 75,000 lines of the implementation are generated protobuf code
(`common/protobuf/*.pb.*`), and most of the rest of the large files are
vendored (`ikcp`, `cJSON`). The code of the project itself is about 9,600 lines,
much of it logging, declarations and accessors; the models cover its state changes.

* **Battle server.** `BattleServer::initcallback` registers none of the handlers,
  and nothing calls `GameStart`, `update` or `settle`. No state of a game is reachable.
* **Code without callers.** The `UserManager` of the room server,
  `AccountManager`'s three operations that change it, the `DbHandle` of the node
  server (its cache's get-then-set included), `Room::userDisConnect`, and the
  methods of `Room` and `RoomManager` named above.
* **Handlers no message reaches.** `onGateChooseLevelReq` (gates send the request
  as one to be ready), `onGateEnterRoomReq` (not registered), `onNodeChooseLevelRsp`
  and `onUserDisConnectTimeOutNotify` (nobody sends them).
* **Connection pools.** One io thread uses them and each handler gives its
  connection back before it ends, so no pool is contended or empty.
* **KCP.** What `KcpSession` does with a datagram is `ikcp`'s; packets come whole,
  so `decode` has nothing to collect. Accepting one is in `Sessions`, where its
  number, as in the code (`100001` is also an id of a TCP session), may be that of another.
* **Writes.** `async_write_some` may write a part of a frame (`TcpSession.cpp:115`)
  and the rest is dropped; a socket that is not congested takes a frame whole, and
  `TcpSession` assumes it. A handler that frees the session whose loop called it is
  not modelled either: a session is closed between two runs of the loop.
  A `write_some` that throws, and the read of a session the manager has refused,
  which is pending when the session is freed, are not modelled.
* **Clients that name another account.** The game server takes the account of a
  request from the request; clients of `GateGame` name the one they logged in with.
  A gate connects to a game server again (`Reconnect`) only when both sides have
  learned of the loss.
* **Configuration and start-up**, read once; logging and the wording of messages.

What a reader should know about the models: a message that serialises to nothing
is never sent (`codec.cpp:269`) and so is no message of `TcpSession`. A tail that has not
come when its content has stops a session or crashes the process
(`codec.cpp:158`): `OnlySplitTailsStop` says that nothing else does. A name may
get several rows in the table (`user_table.sql:3` calls it unique, the key is
not): `NamesKeepTheirAccount` says that only the first is ever used, which rests
on the order in which the table is read.

## The plan

1. *Done:* `Room`, `Lobby`, `OneRoom`, `RoomServer`, with their proofs.
2. *Done:* `GameServer`, `GateServer` and their composition `GateGame`.
3. *Done:* `Sessions`.
4. *Done:* `ThreadSafeQueue`, which implements `Channel`.
5. *Done:* `Authentication`, with its proofs.
6. *Done:* `TcpSession`.
7. *Dropped,* for the reasons above: the battle game, the node server's cache, the
   pools, the accounts of the gate.
8. *Done:* proofs of all safety invariants, action properties and refinements
   above.
9. *Left:* what holds of the documents' promises under the conditions the
   violation runs suggest (an account that enters only while it is not in the room
   is listed once), as further theorems about `Room`.
