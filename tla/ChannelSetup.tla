---------------------------- MODULE ChannelSetup ----------------------------
(***************************************************************************)
(* How two clients of one server set up a channel: BBQClient::             *)
(* RequestChannel and the handlers of the caller, the called client and    *)
(* the server, from the point where the direct attempts have failed, for   *)
(* clients that are logged in over UDP.  A call goes                       *)
(*                                                                         *)
(*   caller --UCM_CS_Q--> server --UCM_SC_FWD_Q--> called                  *)
(*   caller <--UCM_SC_A-- server <-----UCM_CS_A--- called                  *)
(*                                                                         *)
(* and then each side sends UCM_CC_CON to the other, which confirms it     *)
(* with UCM_CC_CONCFM and opens its end when that is acknowledged; or the  *)
(* server has a proxy channel created and tells both sides to connect to   *)
(* it.  Both ways may be under way at once, and so may two calls.          *)
(*                                                                         *)
(* Each handler runs in one of 64 threads: where it waits for the network  *)
(* it is two steps.  What is sent over UDP stays in net: it may be handled *)
(* late, several times (most messages are sent three or six times), or     *)
(* never.  The histories of requests outlive the messages here, as nothing *)
(* is older than 30 seconds when it is handled.                            *)
(***************************************************************************)
EXTENDS Naturals, FiniteSets, SequencesExt

CONSTANTS
  Clients,      \* the two parties, by user id
  Calls,        \* the calls of RequestChannel: records with id, from, to, and proxy, the mode UDP_PROXY
  Sites         \* the circumstances: records with firewall, of each client; lan, the clients whose
                \* address the server sees as private; and allow (allow_proxy)

ASSUME ChannelAssumption ==
  /\ "server" \notin Clients
  /\ \A k \in Calls : /\ k.id \in Nat \ {0} /\ k.proxy \in BOOLEAN
                      /\ k.from \in Clients /\ k.to \in Clients \ {k.from}
  /\ \A j, k \in Calls : j.id = k.id => j = k
  /\ \A s \in Sites : s.firewall \in [Clients -> 0..3] /\ s.lan \subseteq Clients /\ s.allow \in BOOLEAN

VARIABLES
  site,        \* one of Sites
  nextId,      \* m_nNextChannelId of each client
  waits,       \* m_listChannelWaits of each client
  handled,     \* m_mapCidTime of each client: the requests it has seen
  pc,          \* where the thread in RequestChannel is
  cid,         \* the channel id that it drew
  done,        \* m_bDone of the caller's wait, with the end that it stands for
  signalled,   \* the semaphore of the caller's wait
  result,      \* what RequestChannel returns
  setUp,       \* the ends for which the called client got OnRequestedChannelSetup
  confirming,  \* the handlers that wait for the ACK of a UCM_CC_CONCFM
  arrived,     \* the confirmations that reached the peer, whose terminal acknowledges them
  queued,      \* those of them that its queue of requests had room for
  brokenOff,   \* history: the calls with a confirmation that Logout cut short, see ConfirmBroken
  astray,      \* history: the calls with a confirmation of which its two sides think differently
  joining,     \* the handlers in ConnectUdpProxyChannel
  joined,      \* the ends that reached their proxy channel
  requested,   \* m_mapRequestCidTime of the server
  replied,     \* m_mapReplyCidTime of the server
  net          \* what was sent; only what goes over loopback is taken out

clientVars == <<nextId, waits, handled>>
callVars   == <<pc, cid, done, signalled, result, setUp>>
confirmVars == <<confirming, arrived, queued, brokenOff, astray>>
threadVars == <<confirmVars, joining, joined>>
serverVars == <<requested, replied>>
vars == <<site, clientVars, callVars, threadVars, serverVars, net>>

----------------------------------------------------------------------------
\* an end of a channel: how it was opened, and the peer's number of it (peerExtra.dwChannelId)
NoEnd == [route |-> "none", remote |-> 0]

NoFirewall == 0
MediumPolicy == 2
StrictPolicy == 3
Strict == {c \in Clients : site.firewall[c] = StrictPolicy}

\* A cookie is a random number that the caller draws, or the called client when the caller is
\* behind a strict firewall: taken to differ from all others, it is the call's own.
NoCookie == 0

\* faulty variant: the uid of who sent the message that the wait is for
WaitForSender(k, uid, n, init, cookie, proxy, remote) ==
  [call |-> k, uid |-> IF init THEN uid ELSE "server", cid |-> n, init |-> init,
   cookie |-> cookie, proxy |-> proxy, remote |-> remote, connecting |-> FALSE]

\* a BBQChannelWait at its creation
Wait(k, uid, n, init, cookie, proxy, remote) ==
  [call |-> k, uid |-> uid, cid |-> n, init |-> init, cookie |-> cookie, proxy |-> proxy,
   remote |-> remote, connecting |-> FALSE]

\* a message; the fields that its type does not have are as here
Message(type, to, k, n, cookie) ==
  [type |-> type, to |-> to, call |-> k, cid |-> n, cookie |-> cookie, uid |-> "server",
   init |-> FALSE, proxy |-> FALSE, ok |-> TRUE, count |-> 0]

\* UCM_CC_CON and UCM_CC_CONCFM with the info of the wait w at c
ToPeer(type, c, w) ==
  [Message(type, w.uid, w.call, w.cid, w.cookie) EXCEPT !.uid = c, !.init = w.init]

\* a confirmation whose info nothing has filled: it fits no wait
BlankConfirm(c, m) == [Message("CC_CONCFM", m.uid, m.call, 0, NoCookie) EXCEPT !.uid = c]

SameChannel(w, m) == w.uid = m.uid /\ w.cid = m.cid /\ w.cookie = m.cookie

\* faulty variant: compared as OnMsgChannelRequestFeedback does
FromPeerByNumber(c, m) == SelectInSeq(waits[c], LAMBDA w : w.uid = m.uid /\ w.cid = m.cid)

\* the waits that a message of the peer, and a notice of the server, are for (0 if none)
FromPeer(c, m) == SelectInSeq(waits[c], LAMBDA w : w.init # m.init /\ SameChannel(w, m))
FromNotice(c, m) == SelectInSeq(waits[c], LAMBDA w : w.init = m.init /\ SameChannel(w, m))

\* the i-th wait of c leaves the list and its end is opened: RequestChannel is woken, or
\* the wait is deleted and the application gets the channel
Finish(c, i, route) ==
  LET w == waits[c][i]
      end == [route |-> route, remote |-> w.remote]
  IN  /\ waits' = [waits EXCEPT ![c] = RemoveAt(@, i)]
      /\ IF w.init
         THEN /\ done' = [done EXCEPT ![w.call] = end]
              /\ signalled' = [signalled EXCEPT ![w.call] = TRUE]
              /\ UNCHANGED setUp
         ELSE /\ setUp' = [setUp EXCEPT ![w.call] = Append(@, end)]
              /\ UNCHANGED <<done, signalled>>

FinishIfAny(c, i, route) ==
  IF i # 0 THEN Finish(c, i, route) ELSE UNCHANGED <<waits, done, signalled, setUp>>

----------------------------------------------------------------------------
\* RequestChannel: draw a channel id under the lock ...
Number(k) ==
  /\ pc[k] = "idle"
  /\ nextId' = [nextId EXCEPT ![k.from] = @ + 1]
  /\ cid' = [cid EXCEPT ![k] = nextId[k.from] + 1]
  /\ pc' = [pc EXCEPT ![k] = "numbered"]
  /\ UNCHANGED <<site, waits, handled, done, signalled, result, setUp, threadVars,
                 serverVars, net>>

\* ... enter the wait under the lock and send the request
Request(k) ==
  LET cookie == IF k.from \in Strict THEN NoCookie ELSE k.id
  IN  /\ pc[k] = "numbered"
      /\ waits' = [waits EXCEPT ![k.from] =
                     Append(@, Wait(k, k.to, cid[k], TRUE, cookie, k.proxy, 0))]
      /\ net' = net \cup {Message("CS_Q", "server", k, cid[k], cookie)}
      /\ pc' = [pc EXCEPT ![k] = "waiting"]
      /\ UNCHANGED <<site, nextId, handled, cid, done, signalled, result, setUp,
                     threadVars, serverVars>>

\* Wait returns: the end is taken out of the wait if it is done, else the call fails
WakeUp(k) ==
  /\ pc[k] = "waiting" /\ signalled[k]
  /\ result' = [result EXCEPT ![k] = done[k]]
  /\ pc' = [pc EXCEPT ![k] = "leaving"]
  /\ UNCHANGED <<site, clientVars, cid, done, signalled, setUp, threadVars, serverVars, net>>

TimeOut(k) ==
  /\ pc[k] = "waiting" /\ ~signalled[k]
  /\ pc' = [pc EXCEPT ![k] = "leaving"]
  /\ UNCHANGED <<site, clientVars, cid, done, signalled, result, setUp, threadVars, serverVars,
                 net>>

\* faulty variant: a wait that a handler is at stays
IsOwnIdle(w, k) == w.call = k /\ w.init /\ ~w.connecting

\* w is the wait of RequestChannel for k
IsOwn(w, k) == w.call = k /\ w.init
OwnWait(k) == SelectInSeq(waits[k.from], LAMBDA w : IsOwn(w, k))

\* remove it from the list, where it may or may not be, and delete it
Leave(k) ==
  /\ pc[k] = "leaving"
  /\ waits' = IF OwnWait(k) = 0 THEN waits
              ELSE [waits EXCEPT ![k.from] = RemoveAt(@, OwnWait(k))]
  /\ pc' = [pc EXCEPT ![k] = "done"]
  /\ UNCHANGED <<site, nextId, handled, cid, done, signalled, result, setUp, threadVars,
                 serverVars, net>>

\* BreakChannelRequesting for the calls to the other client
BreakChannelRequesting(c) ==
  LET broken == {waits[c][i].call : i \in {j \in 1..Len(waits[c]) : waits[c][j].init}}
  IN  /\ broken # {}
      /\ done' = [k \in Calls |-> IF k \in broken THEN NoEnd ELSE done[k]]
      /\ signalled' = [k \in Calls |-> k \in broken \/ signalled[k]]
      /\ UNCHANGED <<site, clientVars, pc, cid, result, setUp, threadVars, serverVars, net>>

----------------------------------------------------------------------------
\* bBothStrictFirewall: strict and medium are enough
BothStrict(k) == site.firewall[k.from] + site.firewall[k.to] > 4

\* the server is the only one to get the request of the caller: it forwards it, or refuses
\* it (no such user, or a call that is not allowed)
OnMsgClientRequestChannel(m) ==
  /\ m \in net /\ m.type = "CS_Q" /\ <<m.call.from, m.cid>> \notin requested
  /\ requested' = requested \cup {<<m.call.from, m.cid>>}
  /\ \/ net' = net \cup {[Message("SC_FWD_Q", m.call.to, m.call, m.cid, m.cookie)
                           EXCEPT !.proxy = m.call.proxy \/ BothStrict(m.call)]}
     \/ net' = net \cup {[Message("SC_A", m.call.from, m.call, m.cid, m.cookie) EXCEPT !.ok = FALSE]}
  /\ UNCHANGED <<site, clientVars, callVars, threadVars, replied>>

\* faulty variant: without ANTI_PACKET_LOSS
AlwaysNew(c, m) == TRUE

\* the history of requests
IsNew(c, m) == <<m.call.from, m.cid>> \notin handled[c]

AnswerOf(m, cookie, proxy, ok, count) ==
  [Message("CS_A", "server", m.call, m.cid, cookie)
     EXCEPT !.proxy = proxy, !.ok = ok, !.count = count]

\* the called client: if the application agrees it enters a wait, answers, and tries to
\* connect to the caller
OnMsgChannelRequest(c, m) ==
  LET cookie == m.call.id
      w == Wait(m.call, m.call.from, m.cid, FALSE, cookie, m.proxy, m.cid)
  IN  /\ m \in net /\ m.type = "SC_FWD_Q" /\ m.to = c /\ IsNew(c, m)
      /\ handled' = [handled EXCEPT ![c] = @ \cup {<<m.call.from, m.cid>>}]
      /\ \/ /\ nextId' = [nextId EXCEPT ![c] = @ + 1]
            /\ waits' = [waits EXCEPT ![c] = Append(@, w)]
            /\ net' = net \cup {AnswerOf(m, cookie, m.proxy, TRUE, nextId[c] + 1)}
                          \cup (IF m.proxy THEN {} ELSE {ToPeer("CC_CON", c, w)})
         \/ /\ net' = net \cup {AnswerOf(m, m.cookie, m.proxy, FALSE, 0)}
            /\ UNCHANGED <<nextId, waits>>
      /\ UNCHANGED <<site, callVars, threadVars, serverVars>>

\* faulty variant: also when one of them is behind a strict firewall
NeedProxyForOne(m) == {m.call.from, m.call.to} \cap Strict # {} \/ m.proxy

\* whether the server thinks that the two need a proxy
NeedProxy(m) == BothStrict(m.call) \/ m.proxy \/ m.call.to \in site.lan

\* the server: pass the answer on to the caller, and have a proxy channel created
OnMsgClientResponseChannel(m) ==
  LET need == NeedProxy(m)
  IN  /\ m \in net /\ m.type = "CS_A" /\ <<m.call.from, m.cid>> \notin replied
      /\ replied' = replied \cup {<<m.call.from, m.cid>>}
      /\ net' = net
           \cup {[Message("SC_A", m.call.from, m.call, m.cid, m.cookie)
                    EXCEPT !.proxy = need, !.ok = m.ok /\ (need => site.allow), !.count = m.count]}
           \cup (IF need /\ site.allow
                 THEN {Message("SP_CREATE", "server", m.call, m.cid, m.cookie)} ELSE {})
      /\ UNCHANGED <<site, clientVars, callVars, threadVars, requested>>

\* the built-in proxy creates the channel and notifies the server, or it has no room
OnMsgCreateProxyChannel(m) ==
  /\ m \in net /\ m.type = "SP_CREATE"
  /\ \/ net' = (net \ {m}) \cup {[m EXCEPT !.type = "PS_NOTIFY"]}
     \/ net' = net \ {m}
  /\ UNCHANGED <<site, clientVars, callVars, threadVars, serverVars>>

\* the server tells both clients
OnMsgProxyNotify(m) ==
  LET k == m.call
      Notice(to, peer, init) ==
        [Message("SC_PROXYNOTIFY", to, k, m.cid, m.cookie) EXCEPT !.uid = peer, !.init = init]
  IN  /\ m \in net /\ m.type = "PS_NOTIFY"
      /\ net' = (net \ {m}) \cup {Notice(k.from, k.to, TRUE), Notice(k.to, k.from, FALSE)}
      /\ UNCHANGED <<site, clientVars, callVars, threadVars, serverVars>>

\* the first wait with the user and the number of an answer, whoever called whom
Answered(c, m) == SelectInSeq(waits[c], LAMBDA w : w.uid = m.call.to /\ w.cid = m.cid)

\* the caller gets the answer: granted, it goes to that wait ...
AnswerGranted(c, m) ==
  LET i == Answered(c, m)
      w == [waits[c][i] EXCEPT !.cookie = IF @ = NoCookie THEN m.cookie ELSE @,
                               !.proxy = m.proxy, !.remote = m.count]
  IN  /\ m \in net /\ m.type = "SC_A" /\ m.to = c /\ m.ok
      /\ i # 0
      /\ waits' = [waits EXCEPT ![c][i] = w]
      /\ net' = net \cup (IF m.proxy THEN {} ELSE {ToPeer("CC_CON", c, w)})
      /\ UNCHANGED <<site, nextId, handled, callVars, threadVars, serverVars>>

\* ... refused, to the one with the port it was sent to
AnswerRefused(c, m) ==
  LET k == m.call
  IN  /\ m \in net /\ m.type = "SC_A" /\ m.to = c /\ c = k.from /\ ~m.ok
      /\ OwnWait(k) # 0
      /\ done' = [done EXCEPT ![k] = NoEnd]
      /\ signalled' = [signalled EXCEPT ![k] = TRUE]
      /\ waits' = [waits EXCEPT ![c] = RemoveAt(@, OwnWait(k))]
      /\ UNCHANGED <<site, nextId, handled, pc, cid, result, setUp, threadVars, serverVars, net>>

OnMsgChannelRequestFeedback(c, m) == AnswerGranted(c, m) \/ AnswerRefused(c, m)

----------------------------------------------------------------------------
\* a UCM_CC_CON of the peer: unless a proxy was asked for, send the confirmation.  When no
\* wait fits it is sent all the same, with an info that nothing has filled
OnMsgChannelConnect(c, m) ==
  LET i == FromPeer(c, m)
      x == [con |-> m, cfm |-> IF i # 0 THEN ToPeer("CC_CONCFM", c, waits[c][i])
                                        ELSE BlankConfirm(c, m)]
  IN  /\ m \in net /\ m.type = "CC_CON" /\ m.to = c
      /\ i # 0 => ~waits[c][i].proxy
      /\ x \notin confirming[c]
      /\ confirming' = [confirming EXCEPT ![c] = @ \cup {x}]
      /\ net' = net \cup {x.cfm}
      /\ UNCHANGED <<site, clientVars, callVars, arrived, queued, brokenOff, astray, joining,
                     joined, serverVars>>

\* somebody still waits for the ACK of the confirmation m
Awaited(m) == \E c \in Clients : \E x \in confirming[c] : x.cfm = m

\* one of its datagrams reaches the peer, while its sender waits or later: the terminal
\* acknowledges it, and then puts it into its queue or, when that is full, drops it
ConfirmArrives(m) ==
  /\ m \in net /\ m.type = "CC_CONCFM" /\ m \notin queued
  /\ arrived' = arrived \cup {m}
  /\ queued' \in {queued, queued \cup {m}}
  /\ astray' = IF (m \in arrived \/ Awaited(m)) /\ m \in queued' THEN astray
               ELSE astray \cup {m.call}
  /\ UNCHANGED <<site, clientVars, callVars, confirming, brokenOff, joining, joined, serverVars,
                 net>>

\* faulty variant: what SendMessage returns is not looked at
AckedOrNot(x) == TRUE

\* an ACK can have come
Acked(x) == x.cfm \in arrived

\* SendMessage returns.  TRUE, an ACK came: the end is opened if there is a wait for it now.
\* FALSE: no ACK came in eight tries, though the confirmation itself may have got there
ConfirmReturns(c, x) ==
  /\ x \in confirming[c]
  /\ \/ /\ Acked(x)
        /\ FinishIfAny(c, FromPeer(c, x.con), "direct")
        /\ UNCHANGED astray
     \/ /\ UNCHANGED <<waits, done, signalled, setUp>>
        /\ astray' = IF x.cfm \in arrived THEN astray \cup {x.con.call} ELSE astray
  /\ confirming' = [confirming EXCEPT ![c] = @ \ {x}]
  /\ UNCHANGED <<site, nextId, handled, pc, cid, result, arrived, queued, brokenOff, joining,
                 joined, serverVars, net>>

\* Logout at c breaks every wait for an ACK (BreakMessageWaiting): SendMessage returns TRUE
\* without one, and the end is opened all the same
ConfirmBroken(c, x) ==
  /\ x \in confirming[c] /\ x.cfm \notin arrived
  /\ FinishIfAny(c, FromPeer(c, x.con), "direct")
  /\ confirming' = [confirming EXCEPT ![c] = @ \ {x}]
  /\ brokenOff' = brokenOff \cup {x.con.call}
  /\ astray' = astray \cup {x.con.call}
  /\ UNCHANGED <<site, nextId, handled, pc, cid, result, arrived, queued, joining, joined,
                 serverVars, net>>

OnMsgChannelConnectConfirmed(c, m) ==
  /\ m \in queued /\ m.to = c
  /\ FromPeer(c, m) # 0
  /\ Finish(c, FromPeer(c, m), "direct")
  /\ UNCHANGED <<site, nextId, handled, pc, cid, result, threadVars, serverVars, net>>

\* the notice of a proxy channel: the first one for a wait makes the handler connect
OnMsgBBQProxyNotify(c, m) ==
  LET i == FromNotice(c, m)
  IN  /\ m \in net /\ m.type = "SC_PROXYNOTIFY" /\ m.to = c
      /\ i # 0 /\ ~waits[c][i].connecting
      /\ waits' = [waits EXCEPT ![c][i].connecting = TRUE]
      /\ joining' = [joining EXCEPT ![c] = @ \cup {m}]
      /\ UNCHANGED <<site, nextId, handled, callVars, confirmVars, joined, serverVars, net>>

\* its datagrams reach the proxy, which answers when both ends have come
JoinProxy(c, m) ==
  /\ m \in joining[c] /\ <<m.call, m.init>> \notin joined
  /\ joined' = joined \cup {<<m.call, m.init>>}
  /\ UNCHANGED <<site, clientVars, callVars, confirmVars, joining, serverVars, net>>

\* ConnectUdpProxyChannel returns: connected, the end is opened if its wait is still there
Joined(c, m) ==
  /\ m \in joining[c] /\ {<<m.call, TRUE>>, <<m.call, FALSE>>} \subseteq joined
  /\ FinishIfAny(c, FromNotice(c, m), "proxied")
  /\ joining' = [joining EXCEPT ![c] = @ \ {m}]
  /\ UNCHANGED <<site, nextId, handled, pc, cid, result, confirmVars, joined, serverVars, net>>

\* or after five seconds not
NotJoined(c, m) ==
  /\ m \in joining[c]
  /\ joining' = [joining EXCEPT ![c] = @ \ {m}]
  /\ UNCHANGED <<site, clientVars, callVars, confirmVars, joined, serverVars, net>>

----------------------------------------------------------------------------
\* at c nothing of call k is under way any more
Over(c, k) ==
  /\ pc[k] = "done"
  /\ \A x \in confirming[c] : x.con.call # k
  /\ \A m \in joining[c] : m.call # k
  /\ \A m \in queued : m.call = k /\ m.to = c => FromPeer(c, m) = 0

\* faulty variant: init the wrong way round
TickRemovesOwn(c, w) == w.init /\ Over(c, w.call)

\* OnTick deletes a wait for a call of the other side that is five minutes old (one after the
\* other, as they get old).  RequestChannel, 10 to 30 seconds, and the handlers, 5 seconds,
\* are over by then
TickRemoves(c, w) == ~w.init /\ Over(c, w.call)
Tick(c) ==
  \E i \in 1..Len(waits[c]) :
    /\ TickRemoves(c, waits[c][i])
    /\ waits' = [waits EXCEPT ![c] = RemoveAt(@, i)]
    /\ UNCHANGED <<site, nextId, handled, callVars, threadVars, serverVars, net>>

----------------------------------------------------------------------------
Init ==
  /\ site \in Sites
  /\ nextId = [c \in Clients |-> 1]
  /\ waits = [c \in Clients |-> <<>>]
  /\ handled = [c \in Clients |-> {}]
  /\ pc = [k \in Calls |-> "idle"]
  /\ cid = [k \in Calls |-> 0]
  /\ done = [k \in Calls |-> NoEnd]
  /\ signalled = [k \in Calls |-> FALSE]
  /\ result = [k \in Calls |-> NoEnd]
  /\ setUp = [k \in Calls |-> <<>>]
  /\ confirming = [c \in Clients |-> {}]
  /\ arrived = {} /\ queued = {}
  /\ brokenOff = {} /\ astray = {}
  /\ joining = [c \in Clients |-> {}]
  /\ joined = {}
  /\ requested = {} /\ replied = {}
  /\ net = {}

CallStep(k) == Number(k) \/ Request(k) \/ WakeUp(k) \/ TimeOut(k) \/ Leave(k)
ServerStep(m) == \/ OnMsgClientRequestChannel(m) \/ OnMsgClientResponseChannel(m)
                 \/ OnMsgCreateProxyChannel(m) \/ OnMsgProxyNotify(m)
ClientStep(c, m) == \/ OnMsgChannelRequest(c, m) \/ OnMsgChannelRequestFeedback(c, m)
                    \/ OnMsgChannelConnect(c, m) \/ OnMsgBBQProxyNotify(c, m)
                    \/ OnMsgChannelConnectConfirmed(c, m)
                    \/ JoinProxy(c, m) \/ Joined(c, m) \/ NotJoined(c, m)

Next == \/ \E k \in Calls : CallStep(k)
        \/ \E m \in net : ServerStep(m) \/ ConfirmArrives(m)
        \/ \E c \in Clients :
             \/ \E m \in net : ClientStep(c, m)
             \/ \E x \in confirming[c] : ConfirmReturns(c, x) \/ ConfirmBroken(c, x)
             \/ BreakChannelRequesting(c) \/ Tick(c)

(***************************************************************************)
(* The threads go on: the caller's, the handlers that wait for an ACK or   *)
(* for the proxy, those that take a confirmation from the queue, and the   *)
(* tick thread (strongly: a wait is not always old enough).  Nothing is    *)
(* assumed of the network, of the room in the queue or of the server.      *)
(***************************************************************************)
Returns(c, k, blank) ==
  \E x \in confirming[c] : x.con.call = k /\ (x.cfm.cid = 0) = blank /\ ConfirmReturns(c, x)

Fairness ==
  /\ \A k \in Calls : WF_vars(Request(k) \/ WakeUp(k) \/ TimeOut(k) \/ Leave(k))
  /\ \A c \in Clients :
       /\ \A k \in Calls, blank \in BOOLEAN : WF_vars(Returns(c, k, blank))
       /\ WF_vars(\E m \in queued : OnMsgChannelConnectConfirmed(c, m))
       /\ WF_vars(\E m \in joining[c] : Joined(c, m) \/ NotJoined(c, m))
       /\ SF_vars(Tick(c))

Spec == Init /\ [][Next]_vars /\ Fairness

----------------------------------------------------------------------------
MessageTypes == {"CS_Q", "SC_FWD_Q", "CS_A", "SC_A", "CC_CON", "CC_CONCFM", "SP_CREATE",
                 "PS_NOTIFY", "SC_PROXYNOTIFY"}
Peers == Clients \cup {"server"}
Messages == [type : MessageTypes, to : Peers, call : Calls, cid : Nat, cookie : Nat, uid : Peers,
             init : BOOLEAN, proxy : BOOLEAN, ok : BOOLEAN, count : Nat]
Waits == [call : Calls, uid : Clients, cid : Nat, init : BOOLEAN, cookie : Nat, proxy : BOOLEAN,
          remote : Nat, connecting : BOOLEAN]
Ends == [route : {"none", "direct", "proxied"}, remote : Nat]

\* The shape of the state.
TypeOK ==
  /\ site \in Sites
  /\ nextId \in [Clients -> Nat]
  /\ waits \in [Clients -> Seq(Waits)]
  /\ handled \in [Clients -> SUBSET (Clients \X Nat)]
  /\ pc \in [Calls -> {"idle", "numbered", "waiting", "leaving", "done"}]
  /\ cid \in [Calls -> Nat]
  /\ done \in [Calls -> Ends] /\ result \in [Calls -> Ends]
  /\ signalled \in [Calls -> BOOLEAN]
  /\ setUp \in [Calls -> Seq(Ends)]
  /\ confirming \in [Clients -> SUBSET [con : Messages, cfm : Messages]]
  /\ queued \subseteq arrived /\ arrived \subseteq Messages
  /\ brokenOff \subseteq astray /\ astray \subseteq Calls
  /\ joining \in [Clients -> SUBSET Messages]
  /\ joined \subseteq Calls \X BOOLEAN
  /\ requested \subseteq Clients \X Nat /\ replied \subseteq Clients \X Nat
  /\ net \subseteq Messages

CalledWaits(k) == {i \in 1..Len(waits[k.to]) : waits[k.to][i].call = k /\ ~waits[k.to][i].init}

\* The application of the called client gets a call's channel at most once: requests that
\* come several times, two ways of setting it up at once and confirmations from both sides
\* never lead to a second wait or a second OnRequestedChannelSetup.
SetUpOnce == \A k \in Calls : Len(setUp[k]) + Cardinality(CalledWaits(k)) <= 1

\* When both ends of a call are opened they are opened the same way: no client talks to the
\* proxy while its peer sends to its address.  (Not so when the called client's address is
\* private: then the server creates a proxy channel that the called client does not know of.
\* Nor when a caller behind a strict firewall asks for a proxy and is called at the same time:
\* the answer to the other call may change the called client's wait of this one, see Answered.)
SameRoute ==
  \A k \in Calls :
    (/\ k.to \notin site.lan /\ ~ (k.proxy /\ k.from \in Strict)
     /\ setUp[k] # <<>> /\ result[k] # NoEnd) => setUp[k][1].route = result[k].route

\* A wait of the caller is in the list, where handlers use it through a pointer, only while
\* RequestChannel has not deleted it.
WaitsSound ==
  \A c \in Clients : \A i \in 1..Len(waits[c]) :
    waits[c][i].init => pc[waits[c][i].call] \in {"waiting", "leaving"}

OpenedDirectly(k) == \/ result[k].route = "direct"
                     \/ \E i \in 1..Len(setUp[k]) : setUp[k][i].route = "direct"

\* An end is opened to the peer's address only after a confirmation of this very call has got
\* there, also when the two clients call each other with the same channel ids.  Logout breaks
\* this, see ConfirmBroken; and a caller behind a strict firewall has no cookie at first and
\* takes a confirmation that was sent without its info (bbqclient.cxx:3150).
OwnConfirmation ==
  \A k \in Calls : (k.from \notin Strict /\ k \notin brokenOff /\ OpenedDirectly(k)) =>
    \E m \in arrived : m.call = k /\ m.cid = cid[k]

\* When RequestChannel returns a direct channel, the called client has its end of it or will
\* get it, unless one of the call's confirmations went astray: it came when its sender had
\* given up or by Logout had gone on without it, it came but no ACK of it did, or the full
\* queue dropped it after the ACK.  So nothing else in the handshake can open one end alone.
\* (For a caller behind a strict firewall see OwnConfirmation.)
NotAlone ==
  \A k \in Calls : (k.from \notin Strict /\ result[k].route = "direct")
                     ~> (setUp[k] # <<>> \/ k \in astray)

\* RequestChannel returns, and in the end neither side keeps a wait of the call, whatever was
\* lost, refused or broken.
CallsEnd ==
  \A k \in Calls :
    pc[k] = "waiting" ~>
      /\ pc[k] = "done"
      /\ \A c \in Clients : \A i \in 1..Len(waits[c]) : waits[c][i].call # k

\* What RequestChannel returns says where the peer is: "the peer domain id can be accessed as
\* BBQ_CHANNEL::info.peerServerId" (ChangeLog.txt:88), which comes with dwRemoteCount.
PeerKnown == \A k \in Calls : result[k] # NoEnd => result[k].remote # 0
=============================================================================
