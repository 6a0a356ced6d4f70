# A TLA+ model of the messaging, queueing, proxy and session layers of the live video chat room

The repository is a Windows client and server of a video chat room. Its own core logic is in
`src/client/jsc_lv/bbqmfcex/bbqbase` (below: *bbqbase*): a message layer over UDP and TCP, the server
that keeps users and rooms, the proxy that forwards the media streams of two clients, and the
client's session and channel set-up. Everything else is user interface (ActiveX controls,
containers), image codecs, PHP pages, or third-party code (`opal`, `ptlib`, `udt4`, `winvnc`,
`bzip2`, SQLite, 7z).

This directory holds TLA+ modules translated from that code, TLC configurations that check them on
small instances, and TLAPS proofs of what matters most for every value of the constants.
`PROJECT.json` lists the runs, the source lines of each definition, the hazards, and one faulty
variant of the code per property that makes the property fail.

## 1. Inventory

| Component (file in bbqbase) | State | Operations | Hard behaviour | What makes it correct |
|---|---|---|---|---|
| **Message terminal** (`msgterminal.cxx/.h`, `BBQMsgTerminal`) | sync counter, list of posts, list of waiters (`MsgWait`), request queue, sockets | `PostMessage`, `SendMessage`, `RequestMessage`, `OnTick`, `OnMessageArriveInternal`, `BreakMessageWaiting` | lost, duplicated, reordered datagrams; late ticks; an ACK or an answer that races a time-out; logout in the middle of a call | an ACK confirms only what has arrived, an answer goes to its own request, the list of posts stays sorted, retries are bounded, calls return |
| **Request queue and handler threads** (same files) | `m_listRequests`, `m_nWaitingHandlers`, `m_semRequest`, the threads | `CopyRequestToQueue`, `GetRequestFromQueue`, `HandlerThread::Main`, `SetNumberOfHandlers`, `OnClose` | a counter and a semaphore instead of a condition variable; a semaphore with a maximum; shrinking and closing while handlers sleep | no lost wakeup, each request handled once, closing ends |
| **Big messages** (same files, `SegSession`) | sessions of segments, `m_nSegSyncSerial` | cutting, collecting, cleaning in `OnTick` | segments lost, duplicated, reordered; late duplicates; a restarted sender | what is handed on is one whole message; sessions end |
| **TCP message connection** (`msgconnection.cxx/.h`) | `m_QueueWrite`, `m_ReadBuf` | `WriteMessage`, `FlushMessage`, `ReadMessage`, `HandleMsgConnectionsEvent` | partial writes, a bounded queue, several writers, reads that end in the middle of a message | messages arrive whole, once, in order; none stays in the buffer |
| **Proxy** (`bbqproxy.cxx/.h`) | pairs of `Entry` objects in the lists of the forwarding threads | create, cut, identify by UDP or TCP, forward, validate | handlers, the main thread and the forwarding threads share the lists between two locks; entries point to each other | both sides connected or neither, no pointer to a removed entry is followed, orphans end |
| **Server** (`bbqsvr.cxx/.h`) | users and their sessions, rooms, proxies | login, heartbeat, `CheckUserStatus`, logout, change of status, channel request and response, rooms | a login that takes no lock, a heartbeat that crosses the time-out, an old cookie, a user who logs in twice, a reused socket number | a session ends once and only by its own events; presence agrees with the sessions |
| **Client** (`bbqclient.cxx/.h`) | login state, channel requests, channels | login, heartbeat, logout, `KeepAlive`, `RequestChannel`, connect and confirm, feedback | two clients that call each other at once; answers after logout | a channel is open on both sides or on neither |
| Rooms and group meetings (`bbqsvr.cxx`, `bbqmcc.h`) | room lists | enter, leave, notify | users who go offline in a room | room lists hold online users |
| Id trees (`bbqtree.cxx`) | trees of ids | insert, merge, pack | none (sequential) | packing and unpacking agree |
| Ping proxy, switch, databases, gateways, certificates, IP tables, logging, UI | | | I/O and timing | not modelled, see section 7 |

**How they interact.** Every process (server, proxy, client) owns one or more terminals. The net
thread of a terminal reads datagrams and TCP connections, acknowledges, offers a message to the
waiters, and otherwise copies it to the request queue; a handler thread calls the virtual
`OnMessageArrive`, which is the server's, the client's or the proxy's own code and which sends
through the same terminal. The tick thread retransmits posts and calls `OnTick` of the subclass. The
server asks a proxy for a channel by `RequestMessage`; both clients then identify themselves to the
proxy on the channel's port. Shared state is guarded by `m_mutexNet` (posts, all sending),
`m_mutexMsgWait` (waiters), `m_mutexRequest` (queue), `m_mutexMsgSegment` (segments), and one lock
for each list of a forwarding thread.

The hazards of this code, each at its line, are in `PROJECT.json`. Those that no
property covers carry a note that says why or names the module planned for them.

## 2. Plan

Done, in this order: `MsgTerminal` with its abstract specification `AtLeastOnce` and its proofs;
`MsgQueue`; `MsgSegment` and `MsgConnection`, put side by side in `MsgTransport`; `ProxyChannel`;
`ServerSession` and `ClientSession`, composed in `UserSession`; `ChannelSetup`, which takes the
clients, the server and the proxy of a channel together; then the proofs of all of them.

Left, in this order:

1. `TcpSession`: what a login over TCP adds to `UserSession`: the list of closed sockets of the net
   thread and a socket number that is used again, `ValidateTcpConnection`, and `ChangeStatus`, which
   binds the session to a new connection. Property: the close of an old connection does not end a
   session that has moved to a new one.
2. `ProxyForward`: the bytes of one proxy channel (`Read`, `PopMessage`, `Write`, `Queue`, `Flush`),
   refining a FIFO of whole messages.
3. In `ChannelSetup`: the direct attempts before the server is asked, and a client that starts again
   and draws the same channel ids.
4. Rooms, on top of the sessions; the id tree as operators checked against sets.
5. Proofs. Every safety property and action property that a passing run checks has its theorem
   (section 6). What is left is to keep it so: each module above comes with the invariant of its
   safety properties.

## 3. Modules

### MsgTerminal — `BBQMsgTerminal` over UDP

A set of terminals; each element of `Calls` is one API call (post, send or request) of the program,
with its peer, message id, sync set by the caller or 0, interval and number of tries.

| Code | Model |
|---|---|
| `m_nSyncCounter`, `SIM_NEXTSYNC` | `counter`, `TakeSync`, `NextSync` |
| `m_listMsgPosts`, `next_try`, `counter` of a post | `posts` with `due` relative to now |
| `m_listMsgWaits`, the semaphore and `m_pReq` of a `MsgWait` | `waits`, `signalled`, `got` |
| `m_listRequests` and a handler | `queue`, `busy` |
| `m_mutexNet`, kept for the loop of `OnTick` and of the reading of datagrams | `netLock` |
| datagrams | `net`: a set that only grows; any member may arrive at any time, again, or never |
| `PostMessage` | `Post` (number and send), `Enqueue` (list of posts): an ACK may come between |
| `OnTick` | `TickBegin`, `Retransmit`, `TickEnd`; `TimePasses` is the clock |
| `SendMessage`, `RequestMessage` | `StartWait`, `SendInWait`, `WakeUp`, `TimeOut`, then `RequestRetry` or `LeaveTry` and `NewTry` |
| `OnMessageArriveInternal` | `Arrive`: `RemoveAcked`, `Acknowledge`, `Dispatch`, in the code's order |
| `BreakMessageWaiting` | the action of that name |

`Fresh`, `IsMessage` and the variables `sends`, `arrived`, `kept`, `confirmed`, `answered`, `broken`
are history and exist only for the properties. Two or three copies of one datagram sent in a row are
one element of `net`, since the network may duplicate it anyway.

### AtLeastOnce — what `PostMessage` promises

A post is pending until it is confirmed or abandoned, is confirmed only after it has reached its
peer, and does not stay pending. `Safety` is this without the last part. The refinement mapping is in
`MsgTerminalPromise`, which `MCMsgPost` and the proofs share: a post is pending from `Post`,
when it has its number (pc `sent`), until it leaves `m_listMsgPosts` or is confirmed.

### MsgQueue — request queue and handler threads

One action per stretch of code under `m_mutexRequest`; the wait for the semaphore is outside of it,
as in the code. A thread that stops handlers (`SetNumberOfHandlers`, `OnClose`) is `boss`; `victim`
is the handler whose end it awaits. The semaphore keeps at most `SemMax` signals.

### MsgSegment — messages above the UDP limit

A session is the record of a `SegSession`; `parts` remembers which segments its bytes came from.
`life` counts the starts of a sender, whose serial number begins at 0 every time.

### MsgConnection — one direction of a TCP connection

Bytes are pairs of a message and a position. The socket takes and gives any number of bytes that fits
(`Taken`, `Fill`); what it does not take waits in `writeQueue`. The writing loop is one action per
block, so that TCP and the receiver run in between.

`Lists` holds what `MsgSegment` and `ProxyChannel` do alike to their lists: taking out the entries at
a set of places (`Without`).

### MsgTransport — the two ways of `SendMessageInternal`

A request whose `SIM_CHANNEL` has a socket is written to that TCP connection, any other leaves over
UDP. `MsgTransport` is the choice between `MsgConnection` and `MsgSegment`, which share no state but
`m_mutexNet`; a behaviour takes one of them.

### ProxyChannel — entries, lists and forwarding threads of `BBQProxy`

Each side of a channel is an `entry` record. The forwarding thread's loop is the stages `prepare`,
`select`, `read`, `flush`, since it releases the lock of its list between them. `select` may return
any subset of the open sockets. A step that would follow a NULL or dangling `m_peer` records that
in `wild` and ends the behaviour. `CreateChannel` picks any thread that passes the test, where the
code takes the first: the lists may have become shorter since it looked, so this only adds
behaviours.

### SessionNet, ServerSession, ClientSession, UserSession — login sessions over UDP

`SessionNet` is the network between the clients and the server of a domain. `ServerSession` is the
server's record per account, `ClientSession` the state of `BBQClient`; both share `net`.
`UserSession` composes them and holds the properties.

| Code | Model |
|---|---|
| `m_mapRecord`: `sessionInfo.cookie`, peer of `sockChannel`, `time` | `rec`: `cookie` (0 = offline), `chan`, `fresh` (`time + heartbeat_timeout > now`) |
| `m_status.nOnlineUsers`, `uint32` | `nOnlineUsers`, which wraps at `CountMax` (`CountUp`, `CountDown`) |
| `DoClientLoginEx`, without a lock | `AcceptLogin` (test of the cookie, notice to the replaced client, count read), `AssignCookie`, `BindChannel`, `AnswerLogin` (copy of the cookie) |
| `OnMsgClientLogout`, `OnMsgClientHeartbeat` under the write lock | `HandleLogout`, `HandleHeartbeat` |
| the write lock of `m_mutexRecord`, while `UserOffline` has it | `offline` (`Free` when it has not) |
| `UserOffline` | `TakeOffline`, part of `HandleLogout` and `TickDrop`; then `OfflineTest` (`if( nOnlineUsers > 0 )`) and `OfflineCount` (`nOnlineUsers --`) |
| `CheckUserStatus` | `TickJudge` without the lock, `TickDrop` under it, `TickEnd` (overwrites the count) |
| `LoginEx`, its answer or its time-out | `UserLogsOut` if logged in, `LoginAsk`, then `LoginSucceeds` or `LoginFails` |
| `Logout` | `Logout`: a message sent once and without an ACK, or none if the last heartbeat failed |
| `SendHeartbeat` | `Heartbeat`, `HeartbeatDenied`, `SessionExpires`: the denial and the `Logout` after it are two steps of the tick thread, and the caller may log in anew in between |
| `OnMsgLoginReplaced` | `LoginReplaced` |

Cookies are random numbers in the code; the model takes them to be new. `disturbed` is history: the
logins during which another login of the account was handled, or the account was taken offline. A
login that is denied is a login that is lost, since it leaves nothing at the server, and a repetition of
a request by `RequestMessage` is as a second login of the same program. The answer `SIMS_OK` to a
heartbeat is left out, for the client then does what it also does without it.

`nOnlineUsers` has three writers. `UserOffline` tests and decrements it under the lock of the records,
`DoClientLoginEx` increments it and `CheckUserStatus` overwrites it without that lock. So the
test, the decrement and the increment are steps of their own, and the last two may use the value read
before or the one there now. The count may then be off in both directions, and wrap: a
logout finds 1, the tick, which has counted nobody, writes 0, and the logout makes it 2^32 - 1 (here
`CountMax`), with which the limit of users refuses every login until the next round of the tick. `CountSettles` says
that each of these errors ends.

### ChannelSetup — two clients set up a channel through the server

From the point where the direct attempts of `RequestChannel` have failed. A call is an element of
`Calls`; `id` stands for its cookie as well, since cookies are random and taken to be unique. A
site is what the outcome depends on from outside: the firewall policies, which clients have an
address that the server sees as private, and whether the server allows a proxy.

| Code | Model |
|---|---|
| `RequestChannel`: number under the lock; wait and request; `Wait`; removal of the wait | `Number`; `Request`; `WakeUp` or `TimeOut`; `Leave` |
| `m_nNextChannelId`, `m_listChannelWaits` | `nextId`, `waits` |
| a `BBQChannelWait`: `info`, `bInit`, `m_bDone`, its semaphore | the record of `Wait`; `done` and `signalled` of the call it is for |
| `m_mapCidTime` of a client | `handled` |
| `m_mapRequestCidTime`, `m_mapReplyCidTime` of the server | `requested`, `replied` |
| `OnMsgChannelRequest`, `OnMsgChannelRequestFeedback` | the actions of those names; a feedback is `AnswerGranted` or `AnswerRefused` |
| `OnMsgChannelConnect`: lookup, `SendMessage` of the confirmation with its ACK, second lookup | `OnMsgChannelConnect`, then `ConfirmReturns`, or `ConfirmBroken` when `Logout` breaks the wait for the ACK |
| the peer's terminal gets the confirmation: its ACK, its queue (`OnMessageArriveInternal`) | `ConfirmArrives`; `arrived`, `queued` |
| `OnMsgChannelConnectConfirmed` | the action of that name, for what is in `queued` |
| `OnMsgBBQProxyNotify`, `ConnectUdpProxyChannel` | `OnMsgBBQProxyNotify`, `JoinProxy`, `Joined` or `NotJoined` |
| `OnMsgClientRequestChannel`, `OnMsgClientResponseChannel`, `OnMsgProxyNotify` of the server | the actions of those names |
| `OnTick` of the client | `Tick` |

The lock of the list is released between the two lookups of a connect and between the notice of a
proxy and its outcome, so that the wait an answer was meant for may be gone, or be another one.
`SelectInSeq` is the code's search for the first wait that fits; what "fits" means differs between
the handlers (`FromPeer`, `FromNotice`, `Answered`), as it does in the code. The histories are not
cleared: a message is not older than the 30 seconds they cover when it is handled. What goes over
UDP stays in `net`; the two messages between the server and its built-in proxy go over loopback and
come once.

A confirmation and the wait for its ACK are those of `MsgTerminal`, with what they promise and
no more. It may arrive while its sender waits, after that, or never. The terminal
acknowledges it before it puts it into its queue, or drops it when that is full (finding 1). `SendMessage`
returns `TRUE` when an ACK came, which an earlier copy of the same confirmation may have caused,
for its sync is that of the `UCM_CC_CON`; `FALSE` when none came, though the confirmation may
have arrived; and `TRUE` without an ACK when `Logout` calls `BreakMessageWaiting`. Two histories name the calls
for which this made a difference: `brokenOff` those of a broken wait, `astray` those, and those of a
confirmation that arrived too late, was dropped, or was not known to have arrived.
Not modelled: the ACK of a blank confirmation, late, taken for that of the filled one which has
the same sync. Only a caller behind a strict firewall sends both and waits for the second, and the
properties of opened ends do not speak of such callers.

### Proof modules

| Module | What it proves |
|---|---|
| `SequenceLemmas` | what inserting, removing, concatenating, dropping and searching do to the entries of a sequence, and what `Without` leaves |
| `MsgTerminalProofs` | `MsgTerminal`: types, the inductive invariant `IInv`, whose message an ACK or an answer is for, the wait list |
| `MsgTerminalPosts` | `MsgTerminal`: the list of posts, and that `AtLeastOnce!Safety` is implemented |
| `MsgQueueProofs` | `MsgQueue`: types, wakeups, each request once, closing |
| `MsgTransportProofs` | `MsgTransport`: the byte stream, and the segments of big messages |
| `ProxyChannelProofs` | `ProxyChannel`: the lists of entries, and the two sides of a channel |
| `UserSessionProofs` | `UserSession`: types, the cookie 0, one session for one login |
| `ChannelSetupProofs` | `ChannelSetup`: types, the lists of waits, how the ends of a call are opened |

## 4. Runs

| Run | Instance | What it shows |
|---|---|---|
| `post` | two posts to one server; one has a sync of its own counter, the other is an answer with the same sync; 3 and 2 transmissions; tick up to 2 units late | the list is sorted, transmissions are bounded, only arrived messages are confirmed and never sent again; implements `AtLeastOnce` with its liveness |
| `queue_full` (violated) | as `post`, one place in the queue | finding 1 |
| `calls` | three scenarios: two concurrent requests with the same ids; one request with two tries; a call that is sent twice and waits for its ACK, beside a post with the same sync. Logout at any time. 45,766 states | types, `OwnAnswer`, `WaitListSound`, `SendTrueArrived`, `SendsReturn` |
| `answer_lost` (violated) | one request with two tries | finding 2 |
| `msg_queue` | three handlers, two at first, three requests of which the queue takes two, growing to three, shrinking to one, closing. 90,995 states | `NoLostWakeup`, `HandledOnce`, `RequestsServed`, `CloseEnds` |
| `handler_shrink` (violated) | three handlers reduced to one | finding 3 |
| `transport` | UDP: two peers, three messages of two segments, two of them with full last segments, one peer starts twice. TCP: four messages of 2 to 4 bytes (header 2), 5 bytes on the wire, buffer 4, write queue of 2. 146,077 states | whole messages only, none left complete, one session each, sessions end; order, nothing left in the buffer, accepted messages arrive |
| `proxy` | one TCP and one UDP channel, two forwarding threads | `ListedOnce`, `ConnectedTogether`, `NoNullPeer`, `OrphansEnd` |
| `proxy_peer` (violated) | the same | finding 4 |
| `session` | two programs of one account, two handler threads, two logins altogether, one message on its way besides logouts, a count that wraps above 2. 79,607 states | `OneLogin`, `ZeroCookieRaced`, `SupersededLearns`, `GoneGoesOffline`, `CountSettles` |
| `channel` | two clients: one call in each of six sites; one that asks for a proxy; or two calls that cross and draw the same channel id. 57,707 states | `SetUpOnce`, `SameRoute`, `WaitsSound`, `OwnConfirmation`, `NotAlone`, `CallsEnd` |
| `peer_domain` (violated) | one call between two open clients | finding 5 |

**Bounds, and why they are enough.** The hazards of the terminal need two calls that can be mistaken
for each other (same ids or same sync), one more try than one, and a network in which any datagram
may come late or twice; the instances have exactly these. `SyncMax` (3, and 5 in `calls`) exceeds the number of
calls numbered, in accordance with `NoWrapAssumption`; `MaxLate` bounds how far a post becomes overdue (2 units are
more than the largest interval). `QueueMax` is 1 or 2, so that a full queue happens. Three handlers
give one that is stopped, one that stays and one that sleeps. Two segments per message are the
smallest size with an order. The wire of 5 bytes takes no two of the longer messages. Two threads and
two channels give every distribution of pairs, one pair per thread and both in one. Two programs and two logins are what
is needed for one to replace, overtake or outlive the other, and two handler threads for both logins to be
handled at once; the programs are alike, so the first to log in is `d1`. `NetMax = 1` allows any loss
and any delay of a logout, which is not counted, but no two other messages that overtake each other; the
logins in handler threads do that. `CountMax = 2` lets the count be wrong in both directions and wrap.
The steps of a `UserOffline` are not interleaved with the clients', with which they have nothing in
common, nor, when both clients have logged in and none is being logged in, with any other (`Calm` in
`MCUserSession`): its race with `CheckUserStatus` alone is the same with one client.

The six sites of `channel` are: all open; a strict caller; both strict; medium and strict without a
proxy allowed; a called client with a private address, under a medium and a strict caller. They give
each outcome of `BothStrict`, `NeedProxy` and the cookie. Two whole calls at once are out of reach, so of two that cross
the run covers the part in which their messages can be mistaken for each other: both have drawn
their number before the server gets a request, and then nothing is refused, broken or times out and
no confirmation is lost or blank, or not known to have arrived (`Smooth`, `NoneLost` in `MCChannelSetup`); late and
repeated messages and all orders remain. Refusals, time-outs, broken calls and losses are in the scenarios
with one call. Lost ACKs, late and dropped confirmations and a `Logout` while one waits for an ACK are in those
between open clients, where the firewalls do not decide by themselves what is opened.

The scenarios of `calls` and `channel` are action constraints (`OneScenario`, `InOrder`). A fairness
condition on a step that a constraint keeps back would leave its behaviours out of the liveness
properties; in `calls` no step of the calls with fairness is kept back once one has begun, and
in `channel` what is kept back are the losses and time-outs of calls that cross, so that there
`CallsEnd` and `NotAlone` speak of crossing calls that do get through.

All bounds are constants
of the modules: `NetMax`, `MaxLogin`, `MaxCookie`, `MaxLate`, `MaxSends`, `MaxLives`, `WireMax`, `SyncMax`, and the cap of `sends` and of
the ages of sessions and entries at the first value that no guard tells apart from the next.

`CHECK_DEADLOCK FALSE` is set because each instance has finitely many calls, messages or channels and
the system may come to rest.

## 5. Fairness

- `MsgTerminal`: callers that have begun go on, loops under `m_mutexNet` finish, time passes and the
  tick thread runs. Strong fairness where `m_mutexNet` must be free: the other threads keep it for a
  loop and sleep in `select` or `sleep_ms` between two loops. `SendsReturn` assumes finite time-outs:
  a time-out of 0 stands for `PMaxTimeInterval` in `RequestMessage` and `SendMessage`. Nothing is assumed of the network.
  `FairTo` takes the calls whose threads go on: all of them in `Spec`, those of the scenario with
  liveness in `calls`.
- `MsgQueue`: threads run, `OnMessageArrive` returns, and the semaphore starves no thread.
- `MsgSegment`: time passes and `OnTick` runs.
- `MsgConnection`: the net threads and the handlers run; TCP moves bytes while it is up.
- `ProxyChannel`: the threads run, `select` returns; `ValidateActiveChannel` is called every five
  seconds between two rounds of the same loop (strong fairness, since its turn comes and goes with the
  stages).
- `ChannelSetup`: the thread in `RequestChannel` goes on, handlers return from `SendMessage` and
  `ConnectUdpProxyChannel`, which have time-outs, and what is in the queue of a client's terminal is
  handled (`RequestsServed` of `MsgQueue`); the tick thread runs (strong fairness, since a wait is old
  enough only when nothing of the call is under way). Nothing is assumed of the network, of the server, or of
  the room in the queue: an acknowledged confirmation may be dropped.
- `UserSession`: the threads of the server run, time passes, what is not delivered is lost in the end, a
  call of `LoginEx` returns, and a client that is logged in goes on sending heartbeats (`OnTick` of the
  client, every 60 seconds). Of the network it is assumed that one of the heartbeats which are sent again
  and again arrives, and so with the answers to them (strong fairness); no notice, login or logout
  need ever arrive. `TimePasses` never comes between `BindChannel` and `AnswerLogin`: a
  handler thread takes less than `heartbeat_timeout` (three minutes) for that.

## 6. What the checks show, and what is proved

### Findings

1. *A message is acknowledged and dropped* (`queue_full`, `ConfirmedKept`). The test for a full queue
   is made once per event, before an inner loop that reads several datagrams
   (`msgterminal.cxx:1756`); `OnMessageArriveInternal` acknowledges (`:2708`) before
   `CopyRequestToQueue` drops (`:744`). `msgterminal.h:59` says "if queue full, skip read, block it
   in socket".
2. *An answer is lost in a time-out* (`answer_lost`, `AnswerReturned`). `WaitRequest` reads `m_pReq`
   after the time-out without `m_mutexMsgWait` (`:552`); an answer that comes in between is taken from
   the net, and the next try overwrites it.
3. *`SetNumberOfHandlers` may hang* (`handler_shrink`, `ShrinkEnds`). All signals are given before the
   second handler is flagged (`:897`); handlers that stay may take them.
4. *A dangling peer* (`proxy_peer`, `NoFreedPeer`). Bad data close one side of a TCP channel;
   `PrepareSelectForChannel` deletes it without clearing the peer's `m_peer` (`bbqproxy.cxx:644`).
5. *A channel that does not know its peer's domain* (`peer_domain`, `PeerKnown`). The called client's
   `UCM_CC_CON` opens the caller's end before, or without, the server's answer
   (`bbqclient.cxx:3169`), but only that answer fills `peerExtra` (`:3033`), from which `Detach` takes
   `peerServerId` and `dwRemoteCount` (`:258`). `ChangeLog.txt:88` says "when channel setup, the peer
   domain id can be accessed as BBQ_CHANNEL::info.peerServerId".

Seen while modelling the same code, where no document or comment says otherwise, and why the
properties of `ChannelSetup` are qualified as they are:

- when the called client's address is private, the server creates a proxy channel that the called
  client was not told of, so the two ends may be opened by different routes (`SameRoute`);
- `OnMsgChannelConnect` opens its end when `SendMessage` returns `TRUE`. When `Logout` broke the wait, that end is
  opened though its confirmation may never have arrived (`OwnConfirmation` leaves such calls out);
- one end is opened alone when a confirmation is acknowledged too late or to no effect: all its ACKs are lost, it
  arrives when its sender has given up, or the full queue drops it (`NotAlone` names these calls, `astray`);
- `OnMsgChannelConnect` sends its confirmation also when it found no wait, with an info that nothing
  has filled (`bbqclient.cxx:3150`-`3196`), and gets its ACK; a caller behind a strict firewall, which has no cookie
  before the answer, may so open an end whose peer has none (`OwnConfirmation`, `NotAlone`);
- `OnMsgChannelRequestFeedback` looks a wait up by user and number and not by who called whom
  (`:3029`): when two clients call each other with the same number, the answer to one call may change
  the wait of the other one, set its `give_me_proxy` to 0 and have `UCM_CC_CON` sent for it. A caller
  behind a strict firewall that had asked for a proxy may then open its end directly, while the
  called client opens its own over the proxy. This came up as a step for which the invariant of
  `SameRoute` was not inductive, and TLC found the behaviour on an instance with both kinds of call;
  the instance of `channel` has them only one by one. `SameRoute` therefore leaves such callers out;
- a refused call still gets a proxy channel when the server thinks one is needed, which nobody joins;
- `BreakChannelRequesting` with its default uid 0 compares it with the wait's uid and breaks nothing.

### Proved for all values of the constants (TLAPS)

Every safety property and every action property of the passing runs has a theorem. What each theorem
states, and the invariant that it rests on, checked with TLC on the run's instance before it was
proved:

| Module | Theorem: property | Inductive invariant |
|---|---|---|
| `MsgTerminal` | `TypeCorrect`: `TypeOK`; `PostConfirmation`: `ConfirmedArrived`; `SendConfirmation`: `SendTrueArrived`; `AnswerOwnership`: `OwnAnswer` | `IInv` |
| | `WaitListSoundness`: `WaitListSound` | `ScopeInv` |
| | `PostsInOrder`: `PostsOrdered`; `RetransmissionsBounded`: `RetransmissionBound`; `ConfirmedFinal`: `ConfirmedIsFinal`; `PromiseKept`: every step is a step of `AtLeastOnce` or a stutter | `PostInv`, with `IInv` |
| `MsgQueue` | `QueueTypes`: `TypeOK`; `NoWakeupLost`: `NoLostWakeup`; `OneHandlerEach`: `HandledOnce`; `CloseWakes`: the signals of `OnClose` are enough | `IInv` |
| `MsgTransport` | `MessagesInOrder`: `ReceivedInOrder`; `BufferEmptied`: `NoneLeftInBuffer` | `ConnInv` |
| | `BigMessagesWhole`: `DeliveredWhole`; `CompletedLeave`: `NoneLeftComplete`; `SessionsDiffer`: `OneSessionEach` | `SegmentInv` |
| `ProxyChannel` | `EntriesListedOnce`: `ListedOnce`; `SidesConnected`: `ConnectedTogether`; `NullNeverFollowed`: `NoNullPeer` | `IInv` |
| `UserSession` | `SessionTypes`: `TypeOK`; `NoZeroCookie`: `ZeroCookieRaced` | `ZeroInv` |
| | `OneLoginEach`: `OneLogin` | `OneInv` |
| `ChannelSetup` | `ChannelTypes`: `TypeOK`; `CallerWaitsSound`: `WaitsSound`; `CalledOnce`: `SetUpOnce` | `WaitInv` |
| | `SameRouteBoth`: `SameRoute`; `ConfirmedOwn`: `OwnConfirmation` | `OwnInv`, with `WaitInv` |

The only assumptions are the `ASSUME`s of the modules: what a caller may ask for, and that bounds are
natural numbers. TLC evaluates them in each run that uses the module. The strongest are those of `MsgTerminal`:
`CallsAssumption` (a caller's own sync repeats none of its calls with the same id and peer; answer
ids are not call ids) and `NoWrapAssumption` (the sync counter does not wrap around).

**Whose message it is (`MsgTerminal`, `IInv`).** Its parts are

- `TypeInv`: types, and that a call in its loop has a try left (so that the countdown does not pass
  zero) and that only requests are answered;
- `SyncInv`: calls of one terminal to one peer with one id have different syncs. The counter equals
  the number of calls numbered from it, which `NoWrapAssumption` keeps below the wrap-around;
- `NetInv`: every datagram is *genuine*: the message of a call with that call's sync, an ACK of a
  message that has arrived, or an answer to a message that has arrived. The queue and the handlers
  hold genuine packets only;
- `WaitInv` and `ResultInv`: what a waiter was given matches its call, a signalled sender's
  message has arrived or its wait was broken.

The filter of an ACK or an answer compares peer, id and sync; `NetInv` turns these into the packet's
call, and `SyncInv` into the *waiter's* call.

**The wait list (`ScopeInv`).** A wait is in the list only while its call is between `StartWait` and the end
of the try, once, and not after it was signalled. The signal is needed: a waiter that wakes up
leaves its scope without looking at the list, which is sound because whoever signalled it has taken it out.

**The posts (`PostInv`).** The list is ordered by `due`, with one entry for a call; an entry's counter is the
number of transmissions so far, it is below the number of tries, and its call has returned and is not
confirmed. Insertion at the first later entry keeps the order because the tick's `Retransmit` takes
the first entry out before it puts it back. For the refinement, a step of the terminal is mapped by what it does to
the entry of one call: `Stays` says of all others that they keep their status.

**Wakeups (`MsgQueue`).** `waiting` is the number of handlers that are blocked or woken (`CountInv`);
while some handler sleeps, every queued request has a token or a handler on its way, or every handler that
sleeps has a token (`NoLostWakeup`, inductive with `CountInv`). The second case is that of a semaphore that
was full, so that signals were lost: the queue of the server takes 8192 requests, the semaphore 256. It needs
more requests than handlers, which is beyond the instance of `msg_queue` with its liveness, and rests on
the theorem. For `OnClose`: the list of handlers that it goes through has all
threads that run (`ListInv`), so that after its signals there are as many tokens as handlers that wait or are about to.

**The byte stream (`ConnInv`).** The bytes in the receiver's buffer and in the sockets are a run of whole
messages in the order in which they were accepted, except that the last may be cut: after the byte at place
`a` of a message comes the one at `a + 1`, after the last one the first of the message accepted next
(`InPlace`); the first byte begins the message that is to be received next (`Begins`); the last byte is the
one before what the sender writes next (`NextInv`), which its queue, its partial write or the
number of accepted messages determines (`QueueInv`).

**Segments (`SegmentInv`).** In one life of a sender a number belongs to one message (`NetInv`). A
session has segments of its number only; if these are of one life they are of one message, and
`leftsize` is the size of what is missing (`Remaining`, which counts the last segment apart, as it may
be shorter). So `leftsize` is 0 exactly when every segment is there, and the session leaves the list in that step.

**The proxy (`ProxyChannel`, `IInv`).** `ListInv`: an entry is listed once, in the list of its peer. `CreateInv`:
while a channel is created, some list is not longer than the average that was rounded down, since
lists only get shorter meanwhile. `PairInv` relates the two sides: they are connected exactly when both
are identified; while a side is not identified its peer has not been idle longer than it has; and data
are queued only for a side that is identified, when both have been idle equally long.
Hence an entry whose peer was removed as idle has nothing queued and is not connected.

**Sessions (`UserSession`).** `NoZeroCookie` rests on `ZeroInv`: a login past `AssignCookie` finds a cookie
other than 0 in its record unless a `UserOffline` came after it, which then names the login in
`disturbed`; and an answer with the cookie 0 keeps that name. The race it names is possible: a client
that gets the cookie 0 sends heartbeats with it, which the server, whose record has 0 as well, accepts,
and the account stays offline. `OneLoginEach` rests on `OneInv`: a cookie is held by an answer or by a client
(`Holder`); one that is not written yet is nobody's (`CookiesFresh`); while the record has the cookie
of an undisturbed login it has that login's address too (`Kept`), so that a second login from
another address is one that replaces it.

**The waits (`ChannelSetup`, `WaitInv`).** Its parts are

- `Placed`: a list holds at most one wait per call and side; a caller's wait is at the caller, from `Request`
  to `Leave`; a called client's wait is at the called client, of a call that was requested and is in its history;
- `RequestSound`: a request in the network carries the number of a call that has been requested, and
  is forwarded to the called client. It ties the history, kept by caller and number, to the call;
- `SetUpSound`: once the application has the channel, it has it once, its request is in the history
  and its wait is gone.

A request that comes again is in the history, so it makes no second wait; a second confirmation, or a
proxy that is joined late, finds no wait of that call, or takes it out of the list. The lemmas say what
each change of a list (appended, one taken out, one changed in place) does to its keys, and every
action is one of these or leaves the lists alone.

**The ways to open an end (`OwnInv`).** A client draws each number once (`Numbered`). Every wait, message, confirmation and
handler has the number and the cookie of one call, or no cookie yet (`WaitOwn`, `MessageOwn`,
`ConfirmOwn`, `HandlerOwn`), so that the lookups, which compare user, number and cookie, find the wait of
that call. A confirmation with an info is sent only for a call that wants no proxy, and a notice of a
proxy only for one that does or whose called client has a private address; `MayOpen` says what this allows
for an end. What takes the most care is a handler that found no wait and confirms with
an empty info: there is no wait of its call later either, unless the caller is behind a strict
firewall (`HandlerOwn`), since both waits of a call are entered before its first `UCM_CC_CON` is sent.
A confirmation that is in `arrived` or in the queue is one that was sent (`NetOwn`), however late it came; an
end that is opened without one belongs to a call in `brokenOff`.

### Only model-checked

Liveness (`SendsReturn`, `NotAlone`, `CallsEnd`, `SupersededLearns`, `GoneGoesOffline`,
`CountSettles`, `RequestsServed`, `CloseEnds`, `SessionsEnd`, `AcceptedArrives`, `OrphansEnd`) and the
fairness of `DeliversAtLeastOnce`: the proof system does not treat `ENABLED`. The safety part of that
refinement is `PromiseKept`. What a recursive function computes is proved here only where a
least or greatest element will do instead of an induction, as for `Without`.

### What is abstracted in the definitions

- `BothStrict` is one value per call. The server takes it from the records' `techInfo` when the request
  comes (`bbqsvr.cxx:3968`) and from `extraInfo.called` and `channelInfo` when the answer comes (`:4038`-`4041`).
  The two agree only because `TestServer` returns at once (`bbqclient.cxx:618`), which disables the new
  firewall test of the heartbeat: with that test a client's policy could change between the two, and `SameRoute` would
  have to be looked at again.
- `AckMatch` (`MsgTerminal`) compares the id of the acknowledged message. The code does without it for an ACK that is
  shorter than `SIMD_ACK` (`msgterminal.cxx:403`), which terminals of this version do not send.
- `ClosedBad` (`ProxyChannel`) is a side closed on a bad packet header. The overflow of the buffer for whole messages
  (`bbqproxy.cxx:288`-`295`) is taken for the same; there the code, once it has closed the side, still forwards the bytes that it
  had read (`:421`).
- `Average` (`ProxyChannel`) reads the lengths of the lists (`bbqproxy.cxx:1399`-`1404`) in one step. Lists only get shorter
  meanwhile, so that readings at different times give an average that is no smaller, and some list still passes the test.
- `Copy` (`MsgSegment`) keeps which segments a session has, not the bytes. In a session of two lives of a sender an offset
  may lie past the buffer (`msgterminal.cxx:496`, `:504`); the properties leave such sessions out.
- `TickJudge` (`ServerSession`) reads the cookie once, `CheckUserStatus` twice (`bbqsvr.cxx:921`, `:948`). A change in
  between either gives what one of the two readings alone gives, or skips the record in this round.

## 7. Not modelled, and why

- Rooms, id trees: planned, section 2.
- In channel set-up: the direct attempts over UDP and TCP before the server is asked
  (`OnMsgChannelDirectRequest`, `OnMsgChannelDirectResponse`), clients that are logged in over TCP,
  peers of another domain, proxies outside of the server, `m_bForceBBQProxy`, the addresses themselves,
  the clearing of the histories, a client that starts again, and closing an open channel.
- In the sessions: logins over TCP and the list of
  closed sockets (planned: `TcpSession`), change of status, contacts and meetings, servers that are not
  `ACTIVE` and the switch to another one, static proxies; what a login is denied for.
- In the terminal: AES and packet compression (no protocol state), the wrap-around of the 16-bit sync
  (excluded by `NoWrapAssumption`), the closing of a terminal while calls are in it, channels over TCP
  inside `MsgTerminal` (the stream itself is `MsgConnection`).
- In the connection: the block mode of `WriteMessage`, which no caller uses; idle times (`Close` may
  come at any time).
- In the proxy: bytes and descriptor sets (planned: `ProxyForward`), anonymous TCP connections before
  they are matched, a failing bind, statistics; SSL, whose initialisation is commented out.
- Packing of records, certificates, AES, IP tables, logging, sockets: sequential helpers without
  protocol state. `rwlock.h` wraps a lock of the third-party library. Databases and gateways are
  plug-in interfaces. `bbqswitch.cxx` is compiled with `D_OLD_SWITCH` only. The user interface and
  codecs hold no protocol state. The ping proxy measures round trips.

## 8. Running

    tlc -workers 2 -config MCMsgPost.cfg MCMsgPost
    for m in SequenceLemmas MsgTerminalProofs MsgTerminalPosts MsgQueueProofs MsgTransportProofs \
             ProxyChannelProofs UserSessionProofs ChannelSetupProofs; do tlapm $m.tla; done
