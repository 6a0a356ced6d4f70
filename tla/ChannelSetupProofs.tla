------------------------- MODULE ChannelSetupProofs -------------------------
(***************************************************************************)
(* What holds of ChannelSetup for every number of clients and calls, which *)
(* may be between the same two clients and cross: the shape of the state,  *)
(* that the lists of waits are used soundly, that the called client gets a *)
(* channel at most once, and that both ends are opened in the way that     *)
(* their own call allows.                                                  *)
(***************************************************************************)
EXTENDS ChannelSetup, SequenceLemmas, FiniteSetTheorems

----------------------------------------------------------------------------
(* The waits that the lookups find. *)

LEMMA FromPeerFinds ==
  ASSUME NEW c, NEW m, FromPeer(c, m) # 0
  PROVE  /\ FromPeer(c, m) \in 1..Len(waits[c])
         /\ waits[c][FromPeer(c, m)].init # m.init
         /\ SameChannel(waits[c][FromPeer(c, m)], m)
<1> DEFINE I == {i \in 1..Len(waits[c]) : waits[c][i].init # m.init /\ SameChannel(waits[c][i], m)}
<1>1. FromPeer(c, m) = IF I # {} THEN Min(I) ELSE 0
  BY DEF FromPeer, SelectInSeq
<1>2. I \in SUBSET Nat
  OBVIOUS
<1>3. FromPeer(c, m) \in I
  <2> HIDE DEF I
  <2> QED BY <1>1, <1>2, MinInSet
<1> QED BY <1>3

\* None means that no wait fits.
LEMMA FromPeerNone ==
  ASSUME NEW c, NEW m, FromPeer(c, m) = 0, NEW i \in 1..Len(waits[c]), waits[c][i].init # m.init
  PROVE  ~SameChannel(waits[c][i], m)
<1> SUFFICES ASSUME SameChannel(waits[c][i], m)  PROVE FALSE
  OBVIOUS
<1> DEFINE I == {j \in 1..Len(waits[c]) : waits[c][j].init # m.init /\ SameChannel(waits[c][j], m)}
<1>1. FromPeer(c, m) = IF I # {} THEN Min(I) ELSE 0
  BY DEF FromPeer, SelectInSeq
<1>2. I \in SUBSET Nat /\ i \in I /\ 0 \notin I
  OBVIOUS
<1> HIDE DEF I
<1> QED BY <1>1, <1>2, MinInSet

LEMMA FromNoticeFinds ==
  ASSUME NEW c, NEW m, FromNotice(c, m) # 0
  PROVE  /\ FromNotice(c, m) \in 1..Len(waits[c])
         /\ waits[c][FromNotice(c, m)].init = m.init
         /\ SameChannel(waits[c][FromNotice(c, m)], m)
<1> DEFINE I == {i \in 1..Len(waits[c]) : waits[c][i].init = m.init /\ SameChannel(waits[c][i], m)}
<1>1. FromNotice(c, m) = IF I # {} THEN Min(I) ELSE 0
  BY DEF FromNotice, SelectInSeq
<1>2. I \in SUBSET Nat
  OBVIOUS
<1>3. FromNotice(c, m) \in I
  <2> HIDE DEF I
  <2> QED BY <1>1, <1>2, MinInSet
<1> QED BY <1>3

LEMMA OwnWaitFinds ==
  ASSUME NEW k
  PROVE  \/ OwnWait(k) = 0 /\ \A i \in 1..Len(waits[k.from]) : ~IsOwn(waits[k.from][i], k)
         \/ OwnWait(k) \in 1..Len(waits[k.from]) /\ IsOwn(waits[k.from][OwnWait(k)], k)
<1> DEFINE I == {i \in 1..Len(waits[k.from]) : IsOwn(waits[k.from][i], k)}
<1>1. OwnWait(k) = IF I # {} THEN Min(I) ELSE 0
  BY DEF OwnWait, SelectInSeq
<1>2. I \in SUBSET Nat
  OBVIOUS
<1>3. CASE I # {}
  <2>1. OwnWait(k) \in I
    <3> HIDE DEF I
    <3> QED BY <1>1, <1>2, <1>3, MinInSet
  <2> QED BY <2>1
<1>4. CASE I = {}
  BY <1>1, <1>4
<1> QED BY <1>3, <1>4

LEMMA AnswerFinds ==
  ASSUME NEW c, NEW m, Answered(c, m) # 0
  PROVE  /\ Answered(c, m) \in 1..Len(waits[c])
         /\ waits[c][Answered(c, m)].uid = m.call.to /\ waits[c][Answered(c, m)].cid = m.cid
<1> DEFINE I == {j \in 1..Len(waits[c]) : waits[c][j].uid = m.call.to /\ waits[c][j].cid = m.cid}
<1>1. Answered(c, m) = IF I # {} THEN Min(I) ELSE 0
  BY DEF Answered, SelectInSeq
<1>2. I \in SUBSET Nat
  OBVIOUS
<1>3. Answered(c, m) \in I
  <2> HIDE DEF I
  <2> QED BY <1>1, <1>2, MinInSet
<1> QED BY <1>3

----------------------------------------------------------------------------
(* Types. *)

LEMMA MessageType ==
  ASSUME NEW type \in MessageTypes, NEW to \in Peers, NEW k \in Calls, NEW n \in Nat,
         NEW cookie \in Nat
  PROVE  Message(type, to, k, n, cookie) \in Messages
BY DEF Message, Messages, Peers

LEMMA ToPeerType ==
  ASSUME NEW type \in MessageTypes, NEW c \in Clients, NEW w \in Waits
  PROVE  ToPeer(type, c, w) \in Messages
BY DEF ToPeer, Message, Messages, Peers, Waits

LEMMA BlankConfirmType ==
  ASSUME NEW c \in Clients, NEW m \in Messages
  PROVE  BlankConfirm(c, m) \in Messages
BY DEF BlankConfirm, Message, Messages, Peers, MessageTypes, NoCookie

LEMMA WaitType ==
  ASSUME NEW k \in Calls, NEW uid \in Clients, NEW n \in Nat, NEW init \in BOOLEAN,
         NEW cookie \in Nat, NEW proxy \in BOOLEAN, NEW remote \in Nat
  PROVE  Wait(k, uid, n, init, cookie, proxy, remote) \in Waits
BY DEF Wait, Waits

LEMMA NoEndType == NoEnd \in Ends
BY DEF NoEnd, Ends

\* The parties of a call and its cookie.
LEMMA CallTypes ==
  ASSUME NEW k \in Calls
  PROVE  k.from \in Clients /\ k.to \in Clients /\ k.from # k.to /\ k.id \in Nat /\ k.proxy \in BOOLEAN
BY ChannelAssumption

\* Opening an end keeps the types of what it changes.
LEMMA FinishType ==
  ASSUME TypeOK, NEW c \in Clients, NEW i \in 1..Len(waits[c]),
         NEW route \in {"direct", "proxied"}, Finish(c, i, route)
  PROVE  /\ waits' \in [Clients -> Seq(Waits)]
         /\ done' \in [Calls -> Ends] /\ signalled' \in [Calls -> BOOLEAN]
         /\ setUp' \in [Calls -> Seq(Ends)]
<1> DEFINE w == waits[c][i]
           end == [route |-> route, remote |-> w.remote]
<1>1. waits[c] \in Seq(Waits) /\ w \in Waits /\ RemoveAt(waits[c], i) \in Seq(Waits)
  BY RemoveAtProperties DEF TypeOK
<1>2. w.call \in Calls /\ end \in Ends
  BY <1>1 DEF Waits, Ends
<1>3. waits' = [waits EXCEPT ![c] = RemoveAt(@, i)]
  BY DEF Finish
<1>4. waits' \in [Clients -> Seq(Waits)]
  BY <1>1, <1>3 DEF TypeOK
<1>5. CASE w.init
  <2>1. /\ done' = [done EXCEPT ![w.call] = end]
        /\ signalled' = [signalled EXCEPT ![w.call] = TRUE]
        /\ setUp' = setUp
    BY <1>5 DEF Finish
  <2> QED BY <1>2, <1>4, <2>1 DEF TypeOK
<1>6. CASE ~w.init
  <2>1. /\ setUp' = [setUp EXCEPT ![w.call] = Append(@, end)]
        /\ done' = done /\ signalled' = signalled
    BY <1>6 DEF Finish
  <2>2. Append(setUp[w.call], end) \in Seq(Ends)
    BY <1>2, AppendProperties DEF TypeOK
  <2> QED BY <1>2, <1>4, <2>1, <2>2 DEF TypeOK
<1> QED BY <1>5, <1>6

\* A message and the call that it belongs to.
LEMMA MessageFields ==
  ASSUME NEW m \in Messages
  PROVE  /\ m.type \in MessageTypes /\ m.to \in Peers /\ m.call \in Calls /\ m.cid \in Nat
         /\ m.cookie \in Nat /\ m.uid \in Peers /\ m.init \in BOOLEAN /\ m.proxy \in BOOLEAN
         /\ m.ok \in BOOLEAN /\ m.count \in Nat
         /\ m.call.from \in Clients /\ m.call.to \in Clients /\ m.call.id \in Nat
         /\ m.call.proxy \in BOOLEAN
BY CallTypes DEF Messages

LEMMA CallStepTypes == ASSUME TypeOK, NEW k \in Calls, CallStep(k) PROVE TypeOK'
<1> k.from \in Clients /\ k.to \in Clients /\ k.id \in Nat /\ k.proxy \in BOOLEAN
  BY CallTypes
<1> USE DEF threadVars, confirmVars, serverVars, clientVars
<1>1. CASE Number(k)
  <2>1. nextId[k.from] + 1 \in Nat
    BY DEF TypeOK
  <2> QED BY <1>1, <2>1 DEF TypeOK, Number
<1>2. CASE Request(k)
  <2> DEFINE cookie == IF k.from \in Strict THEN NoCookie ELSE k.id
             w == Wait(k, k.to, cid[k], TRUE, cookie, k.proxy, 0)
             q == Message("CS_Q", "server", k, cid[k], cookie)
  <2>1. cookie \in Nat /\ cid[k] \in Nat
    BY DEF TypeOK, NoCookie
  <2>2. w \in Waits
    BY <2>1, WaitType
  <2>3. q \in Messages
    BY <2>1, MessageType DEF MessageTypes, Peers
  <2>4. Append(waits[k.from], w) \in Seq(Waits)
    BY <2>2, AppendProperties DEF TypeOK
  <2>5. /\ waits' = [waits EXCEPT ![k.from] = Append(@, w)]
        /\ net' = net \cup {q}
        /\ pc' = [pc EXCEPT ![k] = "waiting"]
        /\ UNCHANGED <<site, nextId, handled, cid, done, signalled, result, setUp,
                       threadVars, serverVars>>
    BY <1>2 DEF Request
  <2> HIDE DEF w, q
  <2> QED BY <2>3, <2>4, <2>5 DEF TypeOK
<1>3. CASE WakeUp(k)
  BY <1>3 DEF TypeOK, WakeUp
<1>4. CASE TimeOut(k)
  BY <1>4 DEF TypeOK, TimeOut
<1>5. CASE Leave(k)
  <2>1. OwnWait(k) # 0 => RemoveAt(waits[k.from], OwnWait(k)) \in Seq(Waits)
    BY OwnWaitFinds, RemoveAtProperties DEF TypeOK
  <2>2. waits' \in [Clients -> Seq(Waits)]
    BY <1>5, <2>1 DEF TypeOK, Leave
  <2> QED BY <1>5, <2>2 DEF TypeOK, Leave
<1> QED BY <1>1, <1>2, <1>3, <1>4, <1>5 DEF CallStep

LEMMA ServerStepTypes == ASSUME TypeOK, NEW m \in net, ServerStep(m) PROVE TypeOK'
<1>0. m \in Messages
  BY DEF TypeOK
<1> DEFINE k == m.call
<1> /\ k \in Calls /\ k.from \in Clients /\ k.to \in Clients /\ k.id \in Nat /\ k.proxy \in BOOLEAN
    /\ m.cid \in Nat /\ m.cookie \in Nat /\ m.count \in Nat /\ m.ok \in BOOLEAN /\ m.proxy \in BOOLEAN
    /\ m.uid \in Peers /\ m.init \in BOOLEAN /\ m.to \in Peers
  BY <1>0, MessageFields
<1> HIDE DEF k
<1> USE DEF threadVars, confirmVars, serverVars, clientVars, callVars
<1> DEFINE type(t, to) == Message(t, to, k, m.cid, m.cookie)
<1>1. ASSUME NEW t \in MessageTypes, NEW to \in Peers
      PROVE  /\ type(t, to) \in Messages
             /\ \A p \in BOOLEAN : [type(t, to) EXCEPT !.proxy = p] \in Messages
             /\ \A o \in BOOLEAN : [type(t, to) EXCEPT !.ok = o] \in Messages
             /\ \A p, o \in BOOLEAN, n \in Nat :
                  [type(t, to) EXCEPT !.proxy = p, !.ok = o, !.count = n] \in Messages
             /\ \A u \in Peers, i \in BOOLEAN :
                  [type(t, to) EXCEPT !.uid = u, !.init = i] \in Messages
  <2>1. type(t, to) \in Messages
    BY <1>1, MessageType
  <2> HIDE DEF type
  <2> QED BY <2>1 DEF Messages
<1>2. \A u \in Clients : u \in Peers
  BY DEF Peers
<1>3. CASE OnMsgClientRequestChannel(m)
  <2> DEFINE q == [type("SC_FWD_Q", k.to) EXCEPT !.proxy = k.proxy \/ BothStrict(k)]
             a == [type("SC_A", k.from) EXCEPT !.ok = FALSE]
  <2>1. q \in Messages
    <3>1. (k.proxy \/ BothStrict(k)) \in BOOLEAN
      BY DEF BothStrict
    <3> QED BY <1>1, <1>2, <3>1 DEF MessageTypes
  <2>2. a \in Messages
    BY <1>1, <1>2 DEF MessageTypes
  <2>3. net' = net \cup {q} \/ net' = net \cup {a}
    BY <1>3 DEF OnMsgClientRequestChannel, k
  <2>4. net' \subseteq Messages
    <3> HIDE DEF q, a
    <3> QED BY <2>1, <2>2, <2>3 DEF TypeOK
  <2>5. requested' \subseteq Clients \X Nat
    BY <1>3 DEF OnMsgClientRequestChannel, TypeOK, k
  <2> QED BY <1>3, <2>4, <2>5 DEF OnMsgClientRequestChannel, TypeOK
<1>4. CASE OnMsgClientResponseChannel(m)
  <2> DEFINE need == NeedProxy(m)
             a == [type("SC_A", k.from) EXCEPT !.proxy = need, !.ok = m.ok /\ (need => site.allow),
                                               !.count = m.count]
             p == type("SP_CREATE", "server")
  <2>1. a \in Messages
    <3>1. need \in BOOLEAN /\ (m.ok /\ (need => site.allow)) \in BOOLEAN
      BY DEF NeedProxy
    <3> HIDE DEF need
    <3> QED BY <1>1, <1>2, <3>1 DEF MessageTypes
  <2>2. p \in Messages
    BY <1>1 DEF MessageTypes, Peers
  <2>3. net' \subseteq net \cup {a, p}
    BY <1>4 DEF OnMsgClientResponseChannel, k
  <2>4. net' \subseteq Messages
    <3> HIDE DEF a, p
    <3> QED BY <2>1, <2>2, <2>3 DEF TypeOK
  <2>5. replied' \subseteq Clients \X Nat
    BY <1>4 DEF OnMsgClientResponseChannel, TypeOK, k
  <2> QED BY <1>4, <2>4, <2>5 DEF OnMsgClientResponseChannel, TypeOK
<1>5. CASE OnMsgCreateProxyChannel(m)
  <2>1. [m EXCEPT !.type = "PS_NOTIFY"] \in Messages
    BY <1>0 DEF Messages, MessageTypes
  <2> QED BY <1>5, <2>1 DEF OnMsgCreateProxyChannel, TypeOK
<1>6. CASE OnMsgProxyNotify(m)
  <2> DEFINE f == [type("SC_PROXYNOTIFY", k.from) EXCEPT !.uid = k.to, !.init = TRUE]
             g == [type("SC_PROXYNOTIFY", k.to) EXCEPT !.uid = k.from, !.init = FALSE]
  <2>1. f \in Messages /\ g \in Messages
    BY <1>1, <1>2 DEF MessageTypes
  <2>2. net' = (net \ {m}) \cup {f, g}
    BY <1>6 DEF OnMsgProxyNotify, k
  <2>3. net' \subseteq Messages
    <3> HIDE DEF f, g
    <3> QED BY <2>1, <2>2 DEF TypeOK
  <2> QED BY <1>6, <2>3 DEF OnMsgProxyNotify, TypeOK
<1> QED BY <1>3, <1>4, <1>5, <1>6 DEF ServerStep

\* The handlers of a client.
LEMMA ClientStepTypes ==
  ASSUME TypeOK, NEW c \in Clients, NEW m \in net, ClientStep(c, m)
  PROVE  TypeOK'
<1>0. m \in Messages
  BY DEF TypeOK
<1> DEFINE k == m.call
<1> /\ k \in Calls /\ k.from \in Clients /\ k.to \in Clients /\ k.id \in Nat
    /\ m.cid \in Nat /\ m.cookie \in Nat /\ m.count \in Nat /\ m.ok \in BOOLEAN /\ m.proxy \in BOOLEAN
    /\ m.init \in BOOLEAN
  BY <1>0, MessageFields
<1> HIDE DEF k
<1> USE DEF threadVars, confirmVars, serverVars, clientVars, callVars
<1>1. CASE OnMsgChannelRequest(c, m)
  <2> DEFINE w == Wait(k, k.from, m.cid, FALSE, k.id, m.proxy, m.cid)
             yes == AnswerOf(m, k.id, m.proxy, TRUE, nextId[c] + 1)
             no == AnswerOf(m, m.cookie, m.proxy, FALSE, 0)
             con == ToPeer("CC_CON", c, w)
  <2>1. w \in Waits
    BY WaitType
  <2>2. ASSUME NEW cookie \in Nat, NEW n \in Nat, NEW ok \in BOOLEAN
        PROVE  AnswerOf(m, cookie, m.proxy, ok, n) \in Messages
    <3> DEFINE a == Message("CS_A", "server", m.call, m.cid, cookie)
    <3>1. a \in Messages
      BY MessageType DEF MessageTypes, Peers, k
    <3>2. AnswerOf(m, cookie, m.proxy, ok, n) = [a EXCEPT !.proxy = m.proxy, !.ok = ok, !.count = n]
      BY DEF AnswerOf
    <3> HIDE DEF a
    <3>3. m.proxy \in BOOLEAN
      OBVIOUS
    <3>4. [a EXCEPT !.proxy = m.proxy, !.ok = ok, !.count = n] \in Messages
      BY <3>1, <3>3 DEF Messages
    <3> QED BY <3>2, <3>4
  <2>3. nextId[c] + 1 \in Nat
    BY DEF TypeOK
  <2>4. yes \in Messages /\ no \in Messages /\ con \in Messages
    BY <2>1, <2>2, <2>3, ToPeerType DEF MessageTypes
  <2>5. Append(waits[c], w) \in Seq(Waits)
    BY <2>1, AppendProperties DEF TypeOK
  <2>6. /\ handled' = [handled EXCEPT ![c] = @ \cup {<<k.from, m.cid>>}]
        /\ \/ /\ nextId' = [nextId EXCEPT ![c] = @ + 1]
              /\ waits' = [waits EXCEPT ![c] = Append(@, w)]
              /\ net' \subseteq net \cup {yes, con}
           \/ net' \subseteq net \cup {no} /\ nextId' = nextId /\ waits' = waits
        /\ UNCHANGED <<site, callVars, threadVars, serverVars>>
    BY <1>1 DEF OnMsgChannelRequest, k
  <2> HIDE DEF w, yes, no, con
  <2>7. handled' \in [Clients -> SUBSET (Clients \X Nat)]
    BY <2>6 DEF TypeOK
  <2>8. nextId' \in [Clients -> Nat] /\ waits' \in [Clients -> Seq(Waits)] /\ net' \subseteq Messages
    BY <2>3, <2>4, <2>5, <2>6 DEF TypeOK
  <2> QED BY <2>6, <2>7, <2>8 DEF TypeOK
<1>2. CASE AnswerGranted(c, m)
  <2> DEFINE i == Answered(c, m)
             w == [waits[c][i] EXCEPT !.cookie = IF @ = NoCookie THEN m.cookie ELSE @,
                                      !.proxy = m.proxy, !.remote = m.count]
             con == ToPeer("CC_CON", c, w)
  <2>1. i # 0 /\ waits' = [waits EXCEPT ![c][i] = w] /\ net' \subseteq net \cup {con}
    BY <1>2 DEF AnswerGranted
  <2>2. i \in 1..Len(waits[c])
    BY <2>1, AnswerFinds
  <2> HIDE DEF i
  <2>3. waits[c][i] \in Waits
    BY <2>2 DEF TypeOK
  <2>4. w \in Waits
    BY <2>3 DEF Waits
  <2>5. con \in Messages
    BY <2>4, ToPeerType DEF MessageTypes
  <2> HIDE DEF w, con
  <2>6. waits' \in [Clients -> Seq(Waits)] /\ net' \subseteq Messages
    BY <2>1, <2>2, <2>4, <2>5 DEF TypeOK
  <2> QED BY <1>2, <2>6 DEF AnswerGranted, TypeOK
<1>3. CASE AnswerRefused(c, m)
  <2>1. /\ c = k.from /\ OwnWait(k) # 0 /\ waits' = [waits EXCEPT ![c] = RemoveAt(@, OwnWait(k))]
        /\ done' = [done EXCEPT ![k] = NoEnd] /\ signalled' = [signalled EXCEPT ![k] = TRUE]
        /\ UNCHANGED <<site, nextId, handled, pc, cid, result, setUp, threadVars, serverVars, net>>
    BY <1>3 DEF AnswerRefused, k
  <2>2. RemoveAt(waits[c], OwnWait(k)) \in Seq(Waits)
    BY <2>1, OwnWaitFinds, RemoveAtProperties DEF TypeOK
  <2>3. waits' \in [Clients -> Seq(Waits)] /\ done' \in [Calls -> Ends]
        /\ signalled' \in [Calls -> BOOLEAN]
    BY <2>1, <2>2, NoEndType DEF TypeOK
  <2> QED BY <2>1, <2>3 DEF TypeOK
<1>4. CASE OnMsgChannelConnect(c, m)
  <2> DEFINE i == FromPeer(c, m)
             cfm == IF i # 0 THEN ToPeer("CC_CONCFM", c, waits[c][i]) ELSE BlankConfirm(c, m)
  <2>1. /\ confirming' = [confirming EXCEPT ![c] = @ \cup {[con |-> m, cfm |-> cfm]}]
        /\ net' = net \cup {cfm}
    BY <1>4 DEF OnMsgChannelConnect
  <2>2. cfm \in Messages
    <3>1. CASE i # 0
      <4>1. waits[c][i] \in Waits
        BY <3>1, FromPeerFinds DEF TypeOK
      <4> QED BY <3>1, <4>1, ToPeerType DEF MessageTypes
    <3>2. CASE i = 0
      BY <1>0, <3>2, BlankConfirmType
    <3> QED BY <3>1, <3>2
  <2> HIDE DEF cfm
  <2>3. confirming' \in [Clients -> SUBSET [con : Messages, cfm : Messages]]
    BY <1>0, <2>1, <2>2 DEF TypeOK
  <2>4. net' \subseteq Messages
    BY <2>1, <2>2 DEF TypeOK
  <2> QED BY <1>4, <2>3, <2>4 DEF OnMsgChannelConnect, TypeOK
<1>5. CASE OnMsgBBQProxyNotify(c, m)
  <2> DEFINE i == FromNotice(c, m)
  <2>1. i \in 1..Len(waits[c]) /\ waits' = [waits EXCEPT ![c][i].connecting = TRUE]
    BY <1>5, FromNoticeFinds DEF OnMsgBBQProxyNotify
  <2> HIDE DEF i
  <2>2. [waits[c][i] EXCEPT !.connecting = TRUE] \in Waits
    <3>1. waits[c][i] \in Waits
      BY <2>1 DEF TypeOK
    <3> QED BY <3>1 DEF Waits
  <2>3. waits' \in [Clients -> Seq(Waits)]
    BY <2>1, <2>2 DEF TypeOK
  <2>4. joining' \in [Clients -> SUBSET Messages]
    BY <1>0, <1>5 DEF OnMsgBBQProxyNotify, TypeOK
  <2> QED BY <1>5, <2>3, <2>4 DEF OnMsgBBQProxyNotify, TypeOK
<1>6. CASE OnMsgChannelConnectConfirmed(c, m)
  <2>1. FromPeer(c, m) # 0 /\ Finish(c, FromPeer(c, m), "direct")
    BY <1>6 DEF OnMsgChannelConnectConfirmed
  <2>2. FromPeer(c, m) \in 1..Len(waits[c])
    BY <2>1, FromPeerFinds
  <2> QED BY <1>6, <2>1, <2>2, FinishType DEF OnMsgChannelConnectConfirmed, TypeOK
<1>7. CASE JoinProxy(c, m)
  <2>1. joined' \subseteq Calls \X BOOLEAN
    BY <1>7 DEF JoinProxy, TypeOK, k
  <2> QED BY <1>7, <2>1 DEF JoinProxy, TypeOK
<1>8. CASE Joined(c, m)
  <2>1. FromNotice(c, m) # 0 => FromNotice(c, m) \in 1..Len(waits[c])
    BY FromNoticeFinds
  <2>2. /\ waits' \in [Clients -> Seq(Waits)]
        /\ done' \in [Calls -> Ends] /\ signalled' \in [Calls -> BOOLEAN]
        /\ setUp' \in [Calls -> Seq(Ends)]
    <3>1. CASE FromNotice(c, m) # 0
      BY <1>8, <2>1, <3>1, FinishType DEF Joined, FinishIfAny
    <3>2. CASE FromNotice(c, m) = 0
      BY <1>8, <3>2 DEF Joined, FinishIfAny, TypeOK
    <3> QED BY <3>1, <3>2
  <2>3. joining' \in [Clients -> SUBSET Messages]
    BY <1>8 DEF Joined, TypeOK
  <2> QED BY <1>8, <2>2, <2>3 DEF Joined, TypeOK
<1>9. CASE NotJoined(c, m)
  <2>1. joining' \in [Clients -> SUBSET Messages]
    BY <1>9 DEF NotJoined, TypeOK
  <2> QED BY <1>9, <2>1 DEF NotJoined, TypeOK
<1> QED BY <1>1, <1>2, <1>3, <1>4, <1>5, <1>6, <1>7, <1>8, <1>9
        DEF ClientStep, OnMsgChannelRequestFeedback

LEMMA ArrivalTypes == ASSUME TypeOK, NEW m \in net, ConfirmArrives(m) PROVE TypeOK'
<1>1. m \in Messages /\ m.call \in Calls
  BY MessageFields DEF TypeOK
<1>2. /\ arrived' \subseteq Messages /\ queued' \subseteq arrived'
      /\ brokenOff' \subseteq astray' /\ astray' \subseteq Calls
  BY <1>1 DEF ConfirmArrives, TypeOK
<1> QED BY <1>2 DEF ConfirmArrives, TypeOK, clientVars, callVars, serverVars

\* The handlers that wait for an ACK, BreakChannelRequesting and the tick.
LEMMA OtherStepTypes ==
  ASSUME TypeOK, NEW c \in Clients,
         \/ \E x \in confirming[c] : ConfirmReturns(c, x) \/ ConfirmBroken(c, x)
         \/ BreakChannelRequesting(c) \/ Tick(c)
  PROVE  TypeOK'
<1> USE DEF threadVars, confirmVars, serverVars, clientVars, callVars
<1>1. ASSUME NEW x \in confirming[c], ConfirmReturns(c, x) \/ ConfirmBroken(c, x) PROVE TypeOK'
  <2> DEFINE i == FromPeer(c, x.con)
  <2>1. UNCHANGED <<waits, done, signalled, setUp>> \/ FinishIfAny(c, i, "direct")
    BY <1>1 DEF ConfirmReturns, ConfirmBroken
  <2>2. /\ waits' \in [Clients -> Seq(Waits)]
        /\ done' \in [Calls -> Ends] /\ signalled' \in [Calls -> BOOLEAN]
        /\ setUp' \in [Calls -> Seq(Ends)]
    <3>1. CASE UNCHANGED <<waits, done, signalled, setUp>>
      BY <3>1 DEF TypeOK
    <3>2. CASE i # 0 /\ Finish(c, i, "direct")
      BY <3>2, FromPeerFinds, FinishType
    <3> QED BY <2>1, <3>1, <3>2 DEF FinishIfAny
  <2>3. /\ confirming' = [confirming EXCEPT ![c] = @ \ {x}]
        /\ \/ brokenOff' = brokenOff /\ astray' \in {astray, astray \cup {x.con.call}}
           \/ brokenOff' = brokenOff \cup {x.con.call} /\ astray' = astray \cup {x.con.call}
        /\ UNCHANGED <<site, nextId, handled, pc, cid, result, arrived, queued, joining, joined,
                       serverVars, net>>
    BY <1>1 DEF ConfirmReturns, ConfirmBroken
  <2>4. confirming' \in [Clients -> SUBSET [con : Messages, cfm : Messages]]
    BY <2>3 DEF TypeOK
  <2>5. x.con.call \in Calls
    <3>1. x.con \in Messages  BY DEF TypeOK
    <3> QED BY <3>1, MessageFields
  <2>6. brokenOff' \subseteq astray' /\ astray' \subseteq Calls
    BY <2>3, <2>5 DEF TypeOK
  <2> QED BY <2>2, <2>3, <2>4, <2>6 DEF TypeOK
<1>3. CASE BreakChannelRequesting(c)
  <2>1. done' \in [Calls -> Ends] /\ signalled' \in [Calls -> BOOLEAN]
    BY <1>3, NoEndType DEF BreakChannelRequesting, TypeOK
  <2> QED BY <1>3, <2>1 DEF BreakChannelRequesting, TypeOK
<1>4. CASE Tick(c)
  <2>1. waits' \in [Clients -> Seq(Waits)]
    BY <1>4, RemoveAtProperties DEF Tick, TypeOK
  <2> QED BY <1>4, <2>1 DEF Tick, TypeOK
<1> QED BY <1>1, <1>3, <1>4

\* Every state of a channel's set-up has the shape that TypeOK says.
THEOREM ChannelTypes == Spec => []TypeOK
<1>1. Init => TypeOK
  BY EmptySeq, NoEndType DEF Init, TypeOK
<1>2. TypeOK /\ [Next]_vars => TypeOK'
  <2> SUFFICES ASSUME TypeOK, [Next]_vars PROVE TypeOK'
    OBVIOUS
  <2>1. CASE Next
    BY <2>1, CallStepTypes, ServerStepTypes, ArrivalTypes, ClientStepTypes, OtherStepTypes DEF Next
  <2>2. CASE UNCHANGED vars
    BY <2>2 DEF vars, clientVars, callVars, threadVars, confirmVars, serverVars, TypeOK
  <2> QED BY <2>1, <2>2
<1> QED BY <1>1, <1>2, PTL DEF Spec

----------------------------------------------------------------------------
(***************************************************************************)
(* The inductive invariant.  What matters of a wait is its key: the call,  *)
(* and which end it is.                                                    *)
(***************************************************************************)

\* A list has a wait with this key, and each key once.
Has(s, k, init) == \E i \in 1..Len(s) : s[i].call = k /\ s[i].init = init
KeysUnique(s) == \A i, j \in 1..Len(s) : s[i].call = s[j].call /\ s[i].init = s[j].init => i = j

\* Call k has been requested, and its request is in the history of the called client.
Sent(k) == pc[k] \notin {"idle", "numbered"}
Handled(k) == <<k.from, cid[k]>> \in handled[k.to]

\* A wait of the caller is in its own list until RequestChannel takes it out, and one of the
\* called client in the list of that client once it has handled the request.
Placed(c) ==
  /\ KeysUnique(waits[c])
  /\ \A k \in Calls : Has(waits[c], k, TRUE) => c = k.from /\ pc[k] \in {"waiting", "leaving"}
  /\ \A k \in Calls : Has(waits[c], k, FALSE) => c = k.to /\ Sent(k) /\ Handled(k)

\* A request carries the number of its call and is forwarded to the called client.
RequestSound(m) ==
  m.type \in {"CS_Q", "SC_FWD_Q"} =>
    /\ m.cid = cid[m.call] /\ Sent(m.call)
    /\ m.type = "SC_FWD_Q" => m.to = m.call.to

\* The application that has got the channel has got it once, and its wait is gone.
SetUpSound(k) ==
  setUp[k] # <<>> => Len(setUp[k]) = 1 /\ Sent(k) /\ Handled(k) /\ ~Has(waits[k.to], k, FALSE)

WaitInv == /\ \A c \in Clients : Placed(c)
           /\ \A m \in net : RequestSound(m)
           /\ \A k \in Calls : SetUpSound(k)

----------------------------------------------------------------------------
(* What the changes of a list do to its keys. *)

LEMMA RemoveKeys ==
  ASSUME NEW s \in Seq(Waits), KeysUnique(s), NEW i \in 1..Len(s)
  PROVE  /\ KeysUnique(RemoveAt(s, i))
         /\ ~Has(RemoveAt(s, i), s[i].call, s[i].init)
         /\ \A k, init : Has(RemoveAt(s, i), k, init) => Has(s, k, init)
<1> DEFINE r == RemoveAt(s, i)
           at(j) == IF j < i THEN j ELSE j + 1
<1>1. /\ Len(s) \in Nat /\ Len(r) = Len(s) - 1
      /\ \A j \in 1..(Len(s) - 1) : r[j] = IF j < i THEN s[j] ELSE s[j + 1]
  BY RemoveAtProperties
<1> HIDE DEF r
<1>2. ASSUME NEW j \in 1..Len(r)
      PROVE  at(j) \in 1..Len(s) /\ r[j] = s[at(j)] /\ at(j) # i
  <2>1. j \in 1..(Len(s) - 1) /\ j \in Int /\ i \in Int
    BY <1>1
  <2>2. CASE j < i
    BY <1>1, <2>1, <2>2
  <2>3. CASE ~ (j < i)
    BY <1>1, <2>1, <2>3
  <2> QED BY <2>2, <2>3
<1>3. ASSUME NEW j \in 1..Len(r), NEW l \in 1..Len(r), at(j) = at(l)
      PROVE  j = l
  <2>1. j \in Int /\ l \in Int /\ i \in Int
    BY <1>1
  <2> QED BY <1>3, <2>1
<1> HIDE DEF at
<1>4. KeysUnique(r)
  BY <1>2, <1>3 DEF KeysUnique
<1>5. ~Has(r, s[i].call, s[i].init)
  BY <1>2 DEF Has, KeysUnique
<1>6. \A k, init : Has(r, k, init) => Has(s, k, init)
  BY <1>2 DEF Has
<1> QED BY <1>4, <1>5, <1>6 DEF r

LEMMA AppendKeys ==
  ASSUME NEW s \in Seq(Waits), KeysUnique(s), NEW w \in Waits, ~Has(s, w.call, w.init)
  PROVE  /\ KeysUnique(Append(s, w))
         /\ \A k, init : Has(Append(s, w), k, init) =>
              Has(s, k, init) \/ (k = w.call /\ init = w.init)
<1> DEFINE r == Append(s, w)
<1>1. /\ Len(s) \in Nat /\ Len(r) = Len(s) + 1 /\ r[Len(s) + 1] = w
      /\ \A j \in 1..Len(s) : r[j] = s[j]
  BY AppendProperties
<1> HIDE DEF r
<1>2. \A j \in 1..Len(r) : (j \in 1..Len(s) /\ r[j] = s[j]) \/ (j = Len(s) + 1 /\ r[j] = w)
  BY <1>1
<1>3. KeysUnique(r)
  BY <1>2 DEF KeysUnique, Has
<1>4. \A k, init : Has(r, k, init) => Has(s, k, init) \/ (k = w.call /\ init = w.init)
  BY <1>2 DEF Has
<1> QED BY <1>3, <1>4 DEF r

LEMMA ReplaceKeys ==
  ASSUME NEW s \in Seq(Waits), KeysUnique(s), NEW i \in 1..Len(s), NEW w \in Waits,
         w.call = s[i].call, w.init = s[i].init
  PROVE  /\ KeysUnique([s EXCEPT ![i] = w])
         /\ \A k, init : Has([s EXCEPT ![i] = w], k, init) => Has(s, k, init)
<1> DEFINE r == [s EXCEPT ![i] = w]
<1>1. /\ Len(r) = Len(s)
      /\ \A j \in 1..Len(s) : r[j].call = s[j].call /\ r[j].init = s[j].init
  <2>1. Len(r) = Len(s)
    OBVIOUS
  <2>2. \A j \in 1..Len(s) : r[j] = IF j = i THEN w ELSE s[j]
    OBVIOUS
  <2> QED BY <2>1, <2>2
<1> HIDE DEF r
<1>2. KeysUnique(r) /\ \A k, init : Has(r, k, init) => Has(s, k, init)
  BY <1>1 DEF KeysUnique, Has
<1> QED BY <1>2 DEF r

----------------------------------------------------------------------------
(* Steps that at most take waits out of the lists, or change one. *)

Requests == {"CS_Q", "SC_FWD_Q"}

\* No list gets a new key, and no request is sent.
Shrunk == \A d \in Clients : /\ KeysUnique(waits'[d])
                             /\ \A k, init : Has(waits'[d], k, init) => Has(waits[d], k, init)
NoRequest == \A m \in net' : m \in net \/ m.type \notin Requests

LEMMA StayShrinks == ASSUME WaitInv, waits' = waits PROVE Shrunk
BY DEF WaitInv, Placed, Shrunk

LEMMA RemoveShrinks ==
  ASSUME TypeOK, WaitInv, NEW c \in Clients, NEW i \in 1..Len(waits[c]),
         waits' = [waits EXCEPT ![c] = RemoveAt(@, i)]
  PROVE  Shrunk /\ ~Has(waits'[c], waits[c][i].call, waits[c][i].init)
<1>1. waits[c] \in Seq(Waits) /\ waits'[c] = RemoveAt(waits[c], i)
      /\ \A d \in Clients : d # c => waits'[d] = waits[d]
  BY DEF TypeOK
<1>2. \A d \in Clients : KeysUnique(waits[d])
  BY DEF WaitInv, Placed
<1> QED BY <1>1, <1>2, RemoveKeys DEF Shrunk

LEMMA ReplaceShrinks ==
  ASSUME TypeOK, WaitInv, NEW c \in Clients, NEW i \in 1..Len(waits[c]), NEW w \in Waits,
         w.call = waits[c][i].call, w.init = waits[c][i].init,
         waits' = [waits EXCEPT ![c] = [@ EXCEPT ![i] = w]]
  PROVE  Shrunk
<1>1. waits[c] \in Seq(Waits) /\ waits'[c] = [waits[c] EXCEPT ![i] = w]
      /\ \A d \in Clients : d # c => waits'[d] = waits[d]
  BY DEF TypeOK
<1>2. \A d \in Clients : KeysUnique(waits[d])
  BY DEF WaitInv, Placed
<1> QED BY <1>1, <1>2, ReplaceKeys DEF Shrunk

\* Requests stay sound when no request is sent and no call loses its number.
LEMMA NetStep ==
  ASSUME TypeOK, WaitInv, NoRequest, cid' = cid, \A k \in Calls : Sent(k) => Sent(k)'
  PROVE  \A m \in net' : RequestSound(m)'
<1> SUFFICES ASSUME NEW m \in net', m.type \in Requests
             PROVE  RequestSound(m)'
  BY DEF RequestSound, Requests
<1>1. m \in net /\ RequestSound(m)
  BY DEF NoRequest, WaitInv
<1>2. m.call \in Calls
  BY <1>1, MessageFields DEF TypeOK
<1> QED BY <1>1, <1>2 DEF RequestSound, Requests

LEMMA QuietStep ==
  ASSUME TypeOK, WaitInv, Shrunk, NoRequest, UNCHANGED <<pc, cid, handled, setUp>>
  PROVE  WaitInv'
<1>1. \A m \in net' : RequestSound(m)'
  BY NetStep DEF Sent
<1>2. ASSUME NEW d \in Clients PROVE Placed(d)'
  BY <1>2 DEF WaitInv, Placed, Shrunk, Sent, Handled
<1>3. ASSUME NEW k \in Calls PROVE SetUpSound(k)'
  BY <1>3, CallTypes DEF WaitInv, SetUpSound, Shrunk, Sent, Handled
<1> QED BY <1>1, <1>2, <1>3 DEF WaitInv

\* Opening an end: the wait goes, and the called client gets the channel if it was its own.
LEMMA FinishStep ==
  ASSUME TypeOK, WaitInv, NEW c \in Clients, NEW i \in 1..Len(waits[c]), NEW route,
         Finish(c, i, route), UNCHANGED <<pc, cid, handled, net>>
  PROVE  WaitInv'
<1> DEFINE w == waits[c][i]
           k == w.call
           end == [route |-> route, remote |-> w.remote]
<1>1. Shrunk /\ ~Has(waits'[c], k, w.init)
  BY RemoveShrinks DEF Finish
<1>2. w \in Waits /\ k \in Calls /\ w.init \in BOOLEAN
  <2>1. w \in Waits
    BY DEF TypeOK
  <2> QED BY <2>1 DEF Waits
<1>3. Has(waits[c], k, w.init)
  BY DEF Has
<1>4. NoRequest
  BY DEF NoRequest
<1>5. CASE w.init
  BY <1>1, <1>4, <1>5, QuietStep DEF Finish
<1>6. CASE ~w.init
  <2>1. setUp' = [setUp EXCEPT ![k] = Append(@, end)]
    BY <1>6 DEF Finish
  <2>2. Has(waits[c], k, FALSE)
    BY <1>2, <1>3, <1>6
  <2>3. c = k.to /\ Sent(k) /\ Handled(k) /\ ~Has(waits'[k.to], k, FALSE)
    BY <1>1, <1>2, <1>6, <2>2 DEF WaitInv, Placed
  <2>4. setUp[k] = <<>> /\ setUp'[k] = <<end>>
    <3>1. setUp[k] = <<>>
      BY <1>2, <2>2, <2>3 DEF WaitInv, SetUpSound
    <3> QED BY <1>2, <2>1, <3>1 DEF TypeOK
  <2>5. ASSUME NEW j \in Calls PROVE SetUpSound(j)'
    <3>1. CASE j = k
      BY <2>3, <2>4, <3>1 DEF SetUpSound, Sent, Handled
    <3>2. CASE j # k
      <4>1. setUp'[j] = setUp[j]
        BY <1>2, <2>1, <3>2 DEF TypeOK
      <4> QED BY <1>1, <4>1, CallTypes DEF WaitInv, SetUpSound, Shrunk, Sent, Handled
    <3> QED BY <3>1, <3>2
  <2>6. ASSUME NEW d \in Clients PROVE Placed(d)'
    BY <1>1, <2>6 DEF WaitInv, Placed, Shrunk, Sent, Handled
  <2>7. \A m \in net' : RequestSound(m)'
    BY <1>4, NetStep DEF Sent
  <2> QED BY <2>5, <2>6, <2>7 DEF WaitInv
<1> QED BY <1>5, <1>6

----------------------------------------------------------------------------
(* The steps, one by one. *)

LEMMA CallStepWaits == ASSUME TypeOK, WaitInv, NEW k \in Calls, CallStep(k) PROVE WaitInv'
<1> k.from \in Clients /\ k.to \in Clients /\ k.id \in Nat /\ k.proxy \in BOOLEAN
  BY CallTypes
<1> USE DEF threadVars, confirmVars, serverVars, clientVars
<1>1. CASE Number(k)
  \* nothing is in a list, in net or set up for a call that has no number
  <2>1. /\ pc[k] = "idle" /\ UNCHANGED <<waits, handled, setUp, net>>
        /\ \A j \in Calls \ {k} : pc'[j] = pc[j] /\ cid'[j] = cid[j]
    BY <1>1 DEF Number, TypeOK
  <2>2. /\ ~Sent(k) /\ pc[k] \notin {"waiting", "leaving"}
        /\ \A j \in Calls \ {k} : Sent(j)' = Sent(j) /\ Handled(j)' = Handled(j)
    BY <2>1 DEF Sent, Handled
  <2>3. ASSUME NEW d \in Clients PROVE Placed(d)'
    BY <2>1, <2>2, <2>3 DEF WaitInv, Placed
  <2>4. ASSUME NEW m \in net' PROVE RequestSound(m)'
    <3>1. m.call \in Calls /\ RequestSound(m)
      BY <2>1, <2>4, MessageFields DEF TypeOK, WaitInv
    <3> QED BY <2>1, <2>2, <3>1 DEF RequestSound
  <2>5. ASSUME NEW j \in Calls PROVE SetUpSound(j)'
    BY <2>1, <2>2, <2>5 DEF WaitInv, SetUpSound
  <2> QED BY <2>3, <2>4, <2>5 DEF WaitInv
<1>2. CASE Request(k)
  <2> DEFINE cookie == IF k.from \in Strict THEN NoCookie ELSE k.id
             w == Wait(k, k.to, cid[k], TRUE, cookie, k.proxy, 0)
             q == Message("CS_Q", "server", k, cid[k], cookie)
  <2>1. /\ pc[k] = "numbered" /\ pc' = [pc EXCEPT ![k] = "waiting"]
        /\ waits' = [waits EXCEPT ![k.from] = Append(@, w)]
        /\ net' = net \cup {q} /\ UNCHANGED <<cid, handled, setUp>>
    BY <1>2 DEF Request
  <2>2. w \in Waits /\ w.call = k /\ w.init = TRUE
    <3>1. cookie \in Nat /\ cid[k] \in Nat
      BY DEF TypeOK, NoCookie
    <3>2. w \in Waits
      BY <3>1, WaitType
    <3> QED BY <3>2 DEF Wait
  <2>3. q.cid = cid[k] /\ q.call = k /\ q.type = "CS_Q"
    BY DEF Message
  <2> HIDE DEF w, q
  <2>4. /\ Sent(k)' /\ pc'[k] = "waiting"
        /\ \A j \in Calls : (Sent(j) => Sent(j)') /\ Handled(j)' = Handled(j)
        /\ \A j \in Calls \ {k} : pc'[j] = pc[j]
    BY <2>1 DEF Sent, Handled, TypeOK
  <2>5. ~Has(waits[k.from], k, TRUE)
    BY <2>1 DEF WaitInv, Placed
  <2>6. /\ KeysUnique(waits'[k.from])
        /\ \A j : Has(waits'[k.from], j, TRUE) => Has(waits[k.from], j, TRUE) \/ j = k
        /\ \A j : Has(waits'[k.from], j, FALSE) => Has(waits[k.from], j, FALSE)
        /\ \A d \in Clients \ {k.from} : waits'[d] = waits[d]
    <3>1. waits[k.from] \in Seq(Waits) /\ KeysUnique(waits[k.from])
          /\ waits'[k.from] = Append(waits[k.from], w)
          /\ \A d \in Clients \ {k.from} : waits'[d] = waits[d]
      BY <2>1 DEF TypeOK, WaitInv, Placed
    <3>2. ~Has(waits[k.from], w.call, w.init)
      BY <2>2, <2>5, Zenon
    <3>3. /\ KeysUnique(Append(waits[k.from], w))
          /\ \A j, init : Has(Append(waits[k.from], w), j, init) =>
               Has(waits[k.from], j, init) \/ (j = w.call /\ init = w.init)
      BY <2>2, <3>1, <3>2, AppendKeys
    <3>4. w.init # FALSE
      BY <2>2
    <3> QED BY <2>2, <3>1, <3>3, <3>4, Zenon
  <2>7. ASSUME NEW d \in Clients PROVE Placed(d)'
    <3>1. CASE d = k.from
      <4>1. ASSUME NEW j \in Calls, Has(waits'[d], j, TRUE)
            PROVE  d = j.from /\ pc'[j] \in {"waiting", "leaving"}
        BY <2>4, <2>6, <3>1, <4>1 DEF WaitInv, Placed
      <4>2. ASSUME NEW j \in Calls, Has(waits'[d], j, FALSE)
            PROVE  d = j.to /\ Sent(j)' /\ Handled(j)'
        BY <2>4, <2>6, <3>1, <4>2 DEF WaitInv, Placed
      <4> QED BY <2>6, <3>1, <4>1, <4>2 DEF Placed
    <3>2. CASE d # k.from
      <4>1. waits'[d] = waits[d] /\ ~Has(waits[d], k, TRUE)
        BY <2>6, <3>2 DEF WaitInv, Placed
      <4> QED BY <2>4, <4>1 DEF WaitInv, Placed
    <3> QED BY <3>1, <3>2
  <2>8. ASSUME NEW m \in net' PROVE RequestSound(m)'
    <3>1. CASE m = q
      BY <2>1, <2>3, <2>4, <3>1 DEF RequestSound
    <3>2. CASE m \in net
      <4>1. m.call \in Calls /\ RequestSound(m)
        BY <3>2, MessageFields DEF TypeOK, WaitInv
      <4> QED BY <2>1, <2>4, <4>1 DEF RequestSound
    <3> QED BY <2>1, <2>8, <3>1, <3>2
  <2>9. ASSUME NEW j \in Calls PROVE SetUpSound(j)'
    <3>1. Has(waits'[j.to], j, FALSE) => Has(waits[j.to], j, FALSE)
      BY <2>6, <2>9, CallTypes
    <3> QED BY <2>1, <2>4, <3>1 DEF WaitInv, SetUpSound
  <2> QED BY <2>7, <2>8, <2>9 DEF WaitInv
<1>3. CASE WakeUp(k) \/ TimeOut(k)
  <2>1. /\ pc[k] = "waiting" /\ pc' = [pc EXCEPT ![k] = "leaving"]
        /\ UNCHANGED <<waits, cid, handled, setUp, net>>
    BY <1>3 DEF WakeUp, TimeOut
  <2>2. /\ \A j \in Calls : (Sent(j) => Sent(j)') /\ Handled(j)' = Handled(j)
        /\ \A j \in Calls : pc[j] \in {"waiting", "leaving"} => pc'[j] \in {"waiting", "leaving"}
    BY <2>1 DEF Sent, Handled, TypeOK
  <2>3. ASSUME NEW d \in Clients PROVE Placed(d)'
    BY <2>1, <2>2, <2>3 DEF WaitInv, Placed
  <2>4. ASSUME NEW m \in net' PROVE RequestSound(m)'
    BY <2>1, <2>2, <2>4, NetStep DEF NoRequest
  <2>5. ASSUME NEW j \in Calls PROVE SetUpSound(j)'
    BY <2>1, <2>2, <2>5 DEF WaitInv, SetUpSound
  <2> QED BY <2>3, <2>4, <2>5 DEF WaitInv
<1>4. CASE Leave(k)
  <2>1. /\ pc[k] = "leaving" /\ pc' = [pc EXCEPT ![k] = "done"]
        /\ UNCHANGED <<cid, handled, setUp, net>>
    BY <1>4 DEF Leave
  <2>2. Shrunk /\ ~Has(waits'[k.from], k, TRUE)
    <3>1. CASE OwnWait(k) = 0
      <4>1. waits' = waits
        BY <1>4, <3>1 DEF Leave
      <4>2. ~Has(waits[k.from], k, TRUE)
        BY <3>1, OwnWaitFinds DEF Has, IsOwn
      <4> QED BY <4>1, <4>2, StayShrinks
    <3>2. CASE OwnWait(k) # 0
      <4>1. OwnWait(k) \in 1..Len(waits[k.from]) /\ IsOwn(waits[k.from][OwnWait(k)], k)
        BY <3>2, OwnWaitFinds
      <4>2. waits' = [waits EXCEPT ![k.from] = RemoveAt(@, OwnWait(k))]
        BY <1>4, <3>2 DEF Leave
      <4>3. waits[k.from][OwnWait(k)] \in Waits
        BY <4>1 DEF TypeOK
      <4>4. waits[k.from][OwnWait(k)].call = k /\ waits[k.from][OwnWait(k)].init = TRUE
        BY <4>1, <4>3 DEF IsOwn, Waits
      <4> QED BY <4>1, <4>2, <4>4, RemoveShrinks
    <3> QED BY <3>1, <3>2
  <2>3. /\ \A j \in Calls : (Sent(j) => Sent(j)') /\ Handled(j)' = Handled(j)
        /\ \A j \in Calls \ {k} : pc'[j] = pc[j]
    BY <2>1 DEF Sent, Handled, TypeOK
  <2>4. ASSUME NEW d \in Clients PROVE Placed(d)'
    <3>1. ASSUME NEW j \in Calls, Has(waits'[d], j, TRUE)
          PROVE  d = j.from /\ pc'[j] \in {"waiting", "leaving"}
      <4>1. Has(waits[d], j, TRUE) /\ d = j.from /\ pc[j] \in {"waiting", "leaving"}
        BY <2>2, <3>1 DEF Shrunk, WaitInv, Placed
      <4>2. j # k
        BY <2>2, <3>1, <4>1
      <4> QED BY <2>3, <4>1, <4>2
    <3>2. ASSUME NEW j \in Calls, Has(waits'[d], j, FALSE)
          PROVE  d = j.to /\ Sent(j)' /\ Handled(j)'
      BY <2>2, <2>3, <3>2 DEF Shrunk, WaitInv, Placed
    <3> QED BY <2>2, <3>1, <3>2 DEF Placed, Shrunk
  <2>5. ASSUME NEW m \in net' PROVE RequestSound(m)'
    BY <2>1, <2>3, <2>5, NetStep DEF NoRequest
  <2>6. ASSUME NEW j \in Calls PROVE SetUpSound(j)'
    BY <2>1, <2>2, <2>3, <2>6, CallTypes DEF WaitInv, SetUpSound, Shrunk
  <2> QED BY <2>4, <2>5, <2>6 DEF WaitInv
<1> QED BY <1>1, <1>2, <1>3, <1>4 DEF CallStep

LEMMA ServerStepWaits == ASSUME TypeOK, WaitInv, NEW m \in net, ServerStep(m) PROVE WaitInv'
<1> USE DEF threadVars, confirmVars, serverVars, clientVars, callVars
<1>0. m \in Messages /\ m.call \in Calls
  BY MessageFields DEF TypeOK
<1>1. Shrunk /\ UNCHANGED <<pc, cid, handled, setUp>>
  BY StayShrinks DEF ServerStep, OnMsgClientRequestChannel, OnMsgClientResponseChannel,
                     OnMsgCreateProxyChannel, OnMsgProxyNotify
<1>2. CASE OnMsgClientRequestChannel(m)
  <2> DEFINE q == [Message("SC_FWD_Q", m.call.to, m.call, m.cid, m.cookie)
                     EXCEPT !.proxy = m.call.proxy \/ BothStrict(m.call)]
             a == [Message("SC_A", m.call.from, m.call, m.cid, m.cookie) EXCEPT !.ok = FALSE]
  <2>1. m.cid = cid[m.call] /\ Sent(m.call)
    BY <1>2 DEF OnMsgClientRequestChannel, WaitInv, RequestSound
  <2>2. q.type = "SC_FWD_Q" /\ q.cid = m.cid /\ q.call = m.call /\ q.to = m.call.to
    BY DEF Message
  <2>3. a.type = "SC_A"
    BY DEF Message
  <2>4. net' = net \cup {q} \/ net' = net \cup {a}
    BY <1>2 DEF OnMsgClientRequestChannel
  <2> HIDE DEF q, a
  <2>5. RequestSound(q) /\ RequestSound(a)
    BY <2>1, <2>2, <2>3 DEF RequestSound
  <2>6. ASSUME NEW x \in net' PROVE RequestSound(x)'
    <3>1. RequestSound(x)
      BY <2>4, <2>5, <2>6 DEF WaitInv
    <3> QED BY <1>1, <3>1 DEF RequestSound, Sent
  <2>7. ASSUME NEW d \in Clients PROVE Placed(d)'
    BY <1>1, <2>7 DEF WaitInv, Placed, Shrunk, Sent, Handled
  <2>8. ASSUME NEW k \in Calls PROVE SetUpSound(k)'
    BY <1>1, <2>8, CallTypes DEF WaitInv, SetUpSound, Shrunk, Sent, Handled
  <2> QED BY <2>6, <2>7, <2>8 DEF WaitInv
<1>3. CASE OnMsgClientResponseChannel(m)
  <2> DEFINE need == NeedProxy(m)
             a == [Message("SC_A", m.call.from, m.call, m.cid, m.cookie)
                     EXCEPT !.proxy = need, !.ok = m.ok /\ (need => site.allow), !.count = m.count]
             p == Message("SP_CREATE", "server", m.call, m.cid, m.cookie)
  <2>1. a.type = "SC_A" /\ p.type = "SP_CREATE"
    BY DEF Message
  <2>2. net' \subseteq net \cup {a, p}
    BY <1>3 DEF OnMsgClientResponseChannel
  <2> HIDE DEF a, p
  <2>3. NoRequest
    BY <2>1, <2>2 DEF NoRequest, Requests
  <2> QED BY <1>1, <2>3, QuietStep
<1>4. CASE OnMsgCreateProxyChannel(m)
  <2>1. [m EXCEPT !.type = "PS_NOTIFY"].type = "PS_NOTIFY"
    BY <1>0 DEF Messages
  <2>2. NoRequest
    BY <1>4, <2>1 DEF OnMsgCreateProxyChannel, NoRequest, Requests
  <2> QED BY <1>1, <2>2, QuietStep
<1>5. CASE OnMsgProxyNotify(m)
  <2> DEFINE f == [Message("SC_PROXYNOTIFY", m.call.from, m.call, m.cid, m.cookie)
                     EXCEPT !.uid = m.call.to, !.init = TRUE]
             g == [Message("SC_PROXYNOTIFY", m.call.to, m.call, m.cid, m.cookie)
                     EXCEPT !.uid = m.call.from, !.init = FALSE]
  <2>1. f.type = "SC_PROXYNOTIFY" /\ g.type = "SC_PROXYNOTIFY"
    BY DEF Message
  <2>2. net' = (net \ {m}) \cup {f, g}
    BY <1>5 DEF OnMsgProxyNotify
  <2> HIDE DEF f, g
  <2>3. NoRequest
    BY <2>1, <2>2 DEF NoRequest, Requests
  <2> QED BY <1>1, <2>3, QuietStep
<1> QED BY <1>2, <1>3, <1>4, <1>5 DEF ServerStep

\* The one step that lets a client enter a wait for a call of the other: the request is new.
LEMMA RequestWaits ==
  ASSUME TypeOK, WaitInv, NEW c \in Clients, NEW m \in net, OnMsgChannelRequest(c, m)
  PROVE  WaitInv'
<1> DEFINE k == m.call
           w == Wait(k, k.from, m.cid, FALSE, k.id, m.proxy, m.cid)
           yes == AnswerOf(m, k.id, m.proxy, TRUE, nextId[c] + 1)
           no == AnswerOf(m, m.cookie, m.proxy, FALSE, 0)
           con == ToPeer("CC_CON", c, w)
<1> USE DEF threadVars, confirmVars, serverVars, callVars
<1>1. /\ m \in Messages /\ k \in Calls /\ k.from \in Clients /\ k.to \in Clients /\ k.id \in Nat
      /\ m.cid \in Nat /\ m.proxy \in BOOLEAN
  BY MessageFields DEF TypeOK
<1>2. c = k.to /\ m.cid = cid[k] /\ Sent(k) /\ ~Handled(k)
  <2>1. m.type = "SC_FWD_Q" /\ m.to = c /\ <<k.from, m.cid>> \notin handled[c]
    BY DEF OnMsgChannelRequest, IsNew
  <2> QED BY <2>1 DEF WaitInv, RequestSound, Handled
<1>3. ~Has(waits[c], k, FALSE) /\ setUp[k] = <<>>
  BY <1>1, <1>2 DEF WaitInv, Placed, SetUpSound
<1>4. w \in Waits /\ w.call = k /\ w.init = FALSE
  <2>1. w \in Waits
    BY <1>1, WaitType
  <2> QED BY <2>1 DEF Wait
<1>5. /\ yes.type = "CS_A" /\ no.type = "CS_A" /\ con.type = "CC_CON"
  BY DEF AnswerOf, ToPeer, Message
<1>6. /\ handled' = [handled EXCEPT ![c] = @ \cup {<<k.from, m.cid>>}]
      /\ \/ waits' = [waits EXCEPT ![c] = Append(@, w)] /\ net' \subseteq net \cup {yes, con}
         \/ waits' = waits /\ net' = net \cup {no}
      /\ UNCHANGED <<pc, cid, setUp>>
  BY DEF OnMsgChannelRequest
<1> HIDE DEF k, w, yes, no, con
<1>7. NoRequest
  BY <1>5, <1>6 DEF NoRequest, Requests
<1>8. /\ Handled(k)'
      /\ \A j \in Calls : (Handled(j) => Handled(j)') /\ Sent(j)' = Sent(j)
  BY <1>1, <1>2, <1>6 DEF Handled, Sent, TypeOK
<1>9. /\ KeysUnique(waits'[c])
      /\ \A j : Has(waits'[c], j, TRUE) => Has(waits[c], j, TRUE)
      /\ \A j : Has(waits'[c], j, FALSE) => Has(waits[c], j, FALSE) \/ j = k
      /\ \A d \in Clients \ {c} : waits'[d] = waits[d]
  <2>1. waits[c] \in Seq(Waits) /\ KeysUnique(waits[c])
    BY DEF TypeOK, WaitInv, Placed
  <2>2. CASE waits' = waits
    BY <2>1, <2>2
  <2>3. CASE waits' = [waits EXCEPT ![c] = Append(@, w)]
    <3>1. /\ waits'[c] = Append(waits[c], w)
          /\ \A d \in Clients \ {c} : waits'[d] = waits[d]
      BY <2>3 DEF TypeOK
    <3>2. ~Has(waits[c], w.call, w.init)
      BY <1>3, <1>4, Zenon
    <3>3. /\ KeysUnique(Append(waits[c], w))
          /\ \A j, init : Has(Append(waits[c], w), j, init) =>
               Has(waits[c], j, init) \/ (j = w.call /\ init = w.init)
      BY <1>4, <2>1, <3>2, AppendKeys
    <3>4. w.init # TRUE
      BY <1>4
    <3> QED BY <1>4, <3>1, <3>3, <3>4, Zenon
  <2> QED BY <1>6, <2>2, <2>3
<1>10. ASSUME NEW d \in Clients PROVE Placed(d)'
  <2>1. CASE d = c
    <3>1. ASSUME NEW j \in Calls, Has(waits'[d], j, TRUE)
          PROVE  d = j.from /\ pc'[j] \in {"waiting", "leaving"}
      BY <1>6, <1>9, <2>1, <3>1 DEF WaitInv, Placed
    <3>2. ASSUME NEW j \in Calls, Has(waits'[d], j, FALSE)
          PROVE  d = j.to /\ Sent(j)' /\ Handled(j)'
      BY <1>2, <1>8, <1>9, <2>1, <3>2 DEF WaitInv, Placed
    <3> QED BY <1>9, <2>1, <3>1, <3>2 DEF Placed
  <2>2. CASE d # c
    <3>1. waits'[d] = waits[d]
      BY <1>9, <2>2
    <3> QED BY <1>6, <1>8, <3>1 DEF WaitInv, Placed
  <2> QED BY <2>1, <2>2
<1>11. \A x \in net' : RequestSound(x)'
  BY <1>6, <1>7, <1>8, NetStep
<1>12. ASSUME NEW j \in Calls PROVE SetUpSound(j)'
  <2>1. CASE j = k
    BY <1>3, <1>6, <2>1 DEF SetUpSound
  <2>2. CASE j # k
    <3>1. Has(waits'[j.to], j, FALSE) => Has(waits[j.to], j, FALSE)
      BY <1>9, <1>12, <2>2, CallTypes
    <3> QED BY <1>6, <1>8, <3>1 DEF WaitInv, SetUpSound
  <2> QED BY <2>1, <2>2
<1> QED BY <1>10, <1>11, <1>12 DEF WaitInv

LEMMA ClientStepWaits ==
  ASSUME TypeOK, WaitInv, NEW c \in Clients, NEW m \in net, ClientStep(c, m)
  PROVE  WaitInv'
<1> USE DEF threadVars, confirmVars, serverVars, clientVars, callVars
<1>0. m \in Messages /\ m.call \in Calls
  BY MessageFields DEF TypeOK
<1>1. CASE OnMsgChannelRequest(c, m)
  <2>1. m \in net
    BY <1>1 DEF OnMsgChannelRequest
  <2> QED BY <1>1, <2>1, RequestWaits
<1>2. CASE AnswerGranted(c, m)
  <2> DEFINE i == Answered(c, m)
             w == [waits[c][i] EXCEPT !.cookie = IF @ = NoCookie THEN m.cookie ELSE @,
                                      !.proxy = m.proxy, !.remote = m.count]
             con == ToPeer("CC_CON", c, w)
  <2>1. /\ i # 0 /\ waits' = [waits EXCEPT ![c] = [@ EXCEPT ![i] = w]]
        /\ net' \subseteq net \cup {con} /\ UNCHANGED <<pc, cid, handled, setUp>>
    BY <1>2 DEF AnswerGranted
  <2>2. i \in 1..Len(waits[c])
    BY <2>1, AnswerFinds
  <2> HIDE DEF i
  <2>3. waits[c][i] \in Waits /\ m.cookie \in Nat /\ m.proxy \in BOOLEAN /\ m.count \in Nat
    BY <1>0, <2>2, MessageFields DEF TypeOK
  <2>4. w \in Waits /\ w.call = waits[c][i].call /\ w.init = waits[c][i].init
    BY <2>3 DEF Waits
  <2>5. con.type = "CC_CON"
    BY DEF ToPeer, Message
  <2> HIDE DEF w, con
  <2>6. NoRequest
    BY <2>1, <2>5 DEF NoRequest, Requests
  <2> QED BY <2>1, <2>2, <2>4, <2>6, ReplaceShrinks, QuietStep
<1>3. CASE AnswerRefused(c, m)
  <2>1. /\ c = m.call.from /\ OwnWait(m.call) # 0
        /\ waits' = [waits EXCEPT ![c] = RemoveAt(@, OwnWait(m.call))]
        /\ UNCHANGED <<pc, cid, handled, setUp, net>>
    BY <1>3 DEF AnswerRefused
  <2>2. OwnWait(m.call) \in 1..Len(waits[c])
    BY <1>0, <2>1, OwnWaitFinds
  <2> QED BY <2>1, <2>2, RemoveShrinks, QuietStep DEF NoRequest
<1>4. CASE OnMsgBBQProxyNotify(c, m)
  <2> DEFINE i == FromNotice(c, m)
             w == [waits[c][i] EXCEPT !.connecting = TRUE]
  <2>1. /\ i \in 1..Len(waits[c]) /\ waits' = [waits EXCEPT ![c] = [@ EXCEPT ![i] = w]]
        /\ UNCHANGED <<pc, cid, handled, setUp, net>>
    BY <1>4, FromNoticeFinds DEF OnMsgBBQProxyNotify
  <2> HIDE DEF i
  <2>2. waits[c][i] \in Waits
    BY <2>1 DEF TypeOK
  <2>3. w \in Waits /\ w.call = waits[c][i].call /\ w.init = waits[c][i].init
    BY <2>2 DEF Waits
  <2> HIDE DEF w
  <2> QED BY <2>1, <2>3, ReplaceShrinks, QuietStep DEF NoRequest
<1>5. CASE OnMsgChannelConnectConfirmed(c, m)
  <2>1. FromPeer(c, m) \in 1..Len(waits[c]) /\ Finish(c, FromPeer(c, m), "direct")
    BY <1>5, FromPeerFinds DEF OnMsgChannelConnectConfirmed
  <2> QED BY <1>5, <2>1, FinishStep DEF OnMsgChannelConnectConfirmed
<1>6. CASE Joined(c, m)
  <2>1. CASE FromNotice(c, m) # 0
    BY <1>6, <2>1, FromNoticeFinds, FinishStep DEF Joined, FinishIfAny
  <2>2. CASE FromNotice(c, m) = 0
    BY <1>6, <2>2, StayShrinks, QuietStep DEF Joined, FinishIfAny, NoRequest
  <2> QED BY <2>1, <2>2
<1>7. CASE JoinProxy(c, m) \/ NotJoined(c, m)
  BY <1>7, StayShrinks, QuietStep DEF JoinProxy, NotJoined, NoRequest
<1>8. CASE OnMsgChannelConnect(c, m)
  <2>1. PICK cfm : /\ net' = net \cup {cfm} /\ cfm.type = "CC_CONCFM"
                   /\ UNCHANGED <<site, clientVars, callVars, serverVars>>
    BY <1>8 DEF OnMsgChannelConnect, ToPeer, BlankConfirm, Message
  <2>2. NoRequest
    BY <2>1 DEF NoRequest, Requests
  <2> QED BY <2>1, <2>2, StayShrinks, QuietStep
<1> QED BY <1>1, <1>2, <1>3, <1>4, <1>5, <1>6, <1>7, <1>8 DEF ClientStep, OnMsgChannelRequestFeedback

LEMMA ArrivalWaits == ASSUME TypeOK, WaitInv, NEW m \in net, ConfirmArrives(m) PROVE WaitInv'
BY StayShrinks, QuietStep DEF ConfirmArrives, NoRequest, serverVars, clientVars, callVars

LEMMA OtherStepWaits ==
  ASSUME TypeOK, WaitInv, NEW c \in Clients,
         \/ \E x \in confirming[c] : ConfirmReturns(c, x) \/ ConfirmBroken(c, x)
         \/ BreakChannelRequesting(c) \/ Tick(c)
  PROVE  WaitInv'
<1> USE DEF threadVars, confirmVars, serverVars, clientVars, callVars
<1>1. ASSUME NEW x \in confirming[c], ConfirmReturns(c, x) \/ ConfirmBroken(c, x) PROVE WaitInv'
  <2> DEFINE i == FromPeer(c, x.con)
  <2>1. /\ UNCHANGED <<waits, done, signalled, setUp>> \/ FinishIfAny(c, i, "direct")
        /\ UNCHANGED <<site, nextId, handled, pc, cid, result, serverVars, net>>
    BY <1>1 DEF ConfirmReturns, ConfirmBroken
  <2>2. CASE UNCHANGED <<waits, done, signalled, setUp>>
    BY <2>1, <2>2, StayShrinks, QuietStep DEF NoRequest
  <2>3. CASE i # 0 /\ Finish(c, i, "direct")
    BY <2>1, <2>3, FromPeerFinds, FinishStep
  <2> QED BY <2>1, <2>2, <2>3 DEF FinishIfAny
<1>3. CASE BreakChannelRequesting(c)
  BY <1>3, StayShrinks, QuietStep DEF BreakChannelRequesting, NoRequest
<1>4. CASE Tick(c)
  BY <1>4, RemoveShrinks, QuietStep DEF Tick, NoRequest
<1> QED BY <1>1, <1>3, <1>4

----------------------------------------------------------------------------
\* Every wait is where RequestChannel, the handlers and the tick expect it, and no application
\* has got a channel whose wait is still there.
THEOREM ChannelInvariant == Spec => [](TypeOK /\ WaitInv)
<1>1. Init => WaitInv
  BY DEF Init, WaitInv, Placed, SetUpSound, KeysUnique, Has
<1>2. TypeOK /\ WaitInv /\ [Next]_vars => WaitInv'
  <2> SUFFICES ASSUME TypeOK, WaitInv, [Next]_vars PROVE WaitInv'
    OBVIOUS
  <2>1. CASE Next
    BY <2>1, CallStepWaits, ServerStepWaits, ArrivalWaits, ClientStepWaits, OtherStepWaits DEF Next
  <2>2. CASE UNCHANGED vars
    BY <2>2, StayShrinks, QuietStep
       DEF vars, clientVars, callVars, threadVars, confirmVars, serverVars, NoRequest
  <2> QED BY <2>1, <2>2
<1> QED BY <1>1, <1>2, ChannelTypes, PTL DEF Spec

\* However the two clients' calls cross and whatever the network does, a wait of the caller is
\* in a list only while RequestChannel has not deleted it.
THEOREM CallerWaitsSound == Spec => []WaitsSound
<1>1. TypeOK /\ WaitInv => WaitsSound
  <2> SUFFICES ASSUME TypeOK, WaitInv, NEW c \in Clients, NEW i \in 1..Len(waits[c]),
                      waits[c][i].init
               PROVE  pc[waits[c][i].call] \in {"waiting", "leaving"}
    BY DEF WaitsSound
  <2>1. waits[c][i] \in Waits
    BY DEF TypeOK
  <2>2. waits[c][i].call \in Calls /\ waits[c][i].init = TRUE
    BY <2>1 DEF Waits
  <2>3. Has(waits[c], waits[c][i].call, TRUE)
    BY <2>2 DEF Has
  <2> QED BY <2>2, <2>3 DEF WaitInv, Placed
<1> QED BY <1>1, ChannelInvariant, PTL

\* However often the request and the confirmations of a call come, the application of the
\* called client gets its channel at most once.
THEOREM CalledOnce == Spec => []SetUpOnce
<1>1. TypeOK /\ WaitInv => SetUpOnce
  <2> SUFFICES ASSUME TypeOK, WaitInv, NEW k \in Calls
               PROVE  Len(setUp[k]) + Cardinality(CalledWaits(k)) <= 1
    BY DEF SetUpOnce
  <2>1. k.to \in Clients
    BY CallTypes
  <2>2. \A i \in 1..Len(waits[k.to]) : waits[k.to][i].init \in BOOLEAN
    <3>1. \A i \in 1..Len(waits[k.to]) : waits[k.to][i] \in Waits
      BY <2>1 DEF TypeOK
    <3> QED BY <3>1 DEF Waits
  <2>3. CASE CalledWaits(k) = {}
    <3>1. Cardinality(CalledWaits(k)) = 0
      BY <2>3, FS_EmptySet
    <3>2. CASE setUp[k] = <<>>
      BY <3>1, <3>2
    <3>3. CASE setUp[k] # <<>>
      <4>1. Len(setUp[k]) = 1
        BY <3>3 DEF WaitInv, SetUpSound
      <4> QED BY <3>1, <4>1
    <3> QED BY <3>2, <3>3
  <2>4. CASE CalledWaits(k) # {}
    <3>1. PICK i \in CalledWaits(k) : TRUE
      BY <2>4
    <3>2. i \in 1..Len(waits[k.to]) /\ waits[k.to][i].call = k /\ waits[k.to][i].init = FALSE
      BY <2>2, <3>1 DEF CalledWaits
    <3>3. Has(waits[k.to], k, FALSE)
      BY <3>2 DEF Has
    <3>4. setUp[k] = <<>>
      BY <3>3 DEF WaitInv, SetUpSound
    <3>5. ASSUME NEW j \in CalledWaits(k) PROVE j = i
      <4>1. j \in 1..Len(waits[k.to]) /\ waits[k.to][j].call = k /\ waits[k.to][j].init = FALSE
        BY <2>2, <3>5 DEF CalledWaits
      <4>2. KeysUnique(waits[k.to])
        BY <2>1 DEF WaitInv, Placed
      <4> QED BY <3>2, <4>1, <4>2 DEF KeysUnique
    <3>6. CalledWaits(k) = {i}
      BY <3>1, <3>5
    <3>7. Cardinality(CalledWaits(k)) = 1
      BY <3>6, FS_Singleton
    <3> QED BY <3>4, <3>7
  <2> QED BY <2>3, <2>4
<1> QED BY <1>1, ChannelInvariant, PTL
----------------------------------------------------------------------------
(***************************************************************************)
(* How the ends of a call may be opened.  Numbers, cookies and the wish    *)
(* for a proxy tie every wait, message and handler to its call.            *)
(***************************************************************************)

\* a proxy was asked for, or both firewalls are too strict
ProxyWanted(k) == k.proxy \/ BothStrict(k)

Confirmed(k) == \E m \in arrived : m.call = k /\ m.cid = cid[k]

\* only a caller behind a strict firewall tries it directly when a proxy is wanted
DirectAllowed(k) == ProxyWanted(k) => k.proxy /\ k.from \in Strict

MayOpen(k, route) ==
  \/ /\ route = "direct" /\ DirectAllowed(k)
     /\ k.from \notin Strict => Confirmed(k) \/ k \in brokenOff
  \/ route = "proxied" /\ (ProxyWanted(k) \/ k.to \in site.lan)

\* A client draws each number once.
Numbered ==
  /\ \A k \in Calls : pc[k] # "idle" => cid[k] \in 1..nextId[k.from]
  /\ \A j, k \in Calls :
       pc[j] # "idle" /\ pc[k] # "idle" /\ j.from = k.from /\ cid[j] = cid[k] => j = k

\* Only the caller behind a strict firewall has a wait without the cookie.
WaitOwn(w) ==
  /\ Sent(w.call) /\ w.cid = cid[w.call] /\ w.uid = IF w.init THEN w.call.to ELSE w.call.from
  /\ w.cookie = w.call.id \/ (w.cookie = NoCookie /\ w.init /\ w.call.from \in Strict)
  /\ w.init /\ w.call.proxy => w.proxy

\* A message has the number of its call and no other call's cookie.
MessageOwn(m) ==
  /\ Sent(m.call) /\ m.cid = cid[m.call] /\ m.cookie \in {NoCookie, m.call.id}
  /\ m.type \in {"SC_FWD_Q", "CS_A"} => m.proxy = ProxyWanted(m.call)
  /\ m.type \in {"CS_A", "SC_A"} /\ m.ok => m.cookie = m.call.id /\ Handled(m.call)
  /\ m.type = "SC_A" => m.to = m.call.from /\ (m.ok /\ ProxyWanted(m.call) => m.proxy)
  /\ m.type = "CC_CON" =>
       /\ m.cookie = m.call.id /\ Handled(m.call)
       /\ m.uid = IF m.init THEN m.call.from ELSE m.call.to
       /\ m.to = IF m.init THEN m.call.to ELSE m.call.from
       /\ ProxyWanted(m.call) => ~m.init /\ m.call.proxy
  /\ m.type = "SC_PROXYNOTIFY" => m.to = IF m.init THEN m.call.from ELSE m.call.to
  /\ m.type \in {"SP_CREATE", "PS_NOTIFY", "SC_PROXYNOTIFY"} =>
       ProxyWanted(m.call) \/ m.call.to \in site.lan

\* A confirmation fits the other end's wait of its own call, or none.
ConfirmOwn(m) ==
  /\ Sent(m.call)
  /\ m.cid = 0 \/ (m.cid = cid[m.call] /\ m.cookie = m.call.id /\ ~ProxyWanted(m.call))

NetOwn(m) == IF m.type = "CC_CONCFM" THEN ConfirmOwn(m) ELSE MessageOwn(m)

\* A handler that confirms without a wait finds none later.
HandlerOwn(c, x) ==
  /\ x.con.type = "CC_CON" /\ x.con.to = c /\ MessageOwn(x.con)
  /\ x.cfm.call = x.con.call /\ ConfirmOwn(x.cfm)
  /\ x.cfm.cid = 0 => x.con.call.from \in Strict \/ ~Has(waits[c], x.con.call, ~x.con.init)

EndsOwn(k) ==
  /\ \A e \in {done[k], result[k]} : e = NoEnd \/ MayOpen(k, e.route)
  /\ \A i \in 1..Len(setUp[k]) : MayOpen(k, setUp[k][i].route)

Listed(c) == {waits[c][i] : i \in 1..Len(waits[c])}

OwnInv ==
  /\ Numbered
  /\ \A c \in Clients : \A w \in Listed(c) : WaitOwn(w)
  /\ \A m \in net : NetOwn(m)
  /\ \A c \in Clients : \A x \in confirming[c] : HandlerOwn(c, x)
  /\ \A m \in arrived : ConfirmOwn(m)
  /\ \A c \in Clients : \A m \in joining[c] :
       m.type = "SC_PROXYNOTIFY" /\ m.to = c /\ MessageOwn(m)
  /\ \A k \in Calls : EndsOwn(k)

\* The lists have the entries that they had, and at c those of X.
WaitsFrom(c, X) ==
  \A d \in Clients : From(waits'[d], waits[d], IF d = c THEN X ELSE {})

\* What a step leaves as it is: the circumstances, the number of a call that was sent, the
\* histories, what has arrived; a list gets only the key of a call that is new to it.
Onward ==
  /\ site' = site /\ arrived \subseteq arrived' /\ brokenOff \subseteq brokenOff'
  /\ \A k \in Calls : Sent(k) => Sent(k)' /\ cid'[k] = cid[k] /\ (Handled(k) => Handled(k)')
  /\ \A c \in Clients : \A k \in Calls : \A init \in BOOLEAN :
       Has(waits'[c], k, init) => Has(waits[c], k, init) \/ ~Sent(k) \/ ~Handled(k)

LEMMA PartsStay ==
  ASSUME TypeOK, OwnInv, Onward
  PROVE  /\ \A w \in Waits : WaitOwn(w) => WaitOwn(w)'
         /\ \A m \in Messages : MessageOwn(m) => MessageOwn(m)'
         /\ \A m \in Messages : ConfirmOwn(m) => ConfirmOwn(m)'
         /\ \A k \in Calls : \A route : MayOpen(k, route) => MayOpen(k, route)'
<1>1. /\ site' = site /\ arrived \subseteq arrived' /\ arrived \subseteq Messages
      /\ brokenOff \subseteq brokenOff'
  BY DEF Onward, TypeOK
<1>2. \A k \in Calls : Sent(k) => Sent(k)' /\ cid'[k] = cid[k] /\ (Handled(k) => Handled(k)')
  BY DEF Onward
<1>3. Strict' = Strict /\ \A k : BothStrict(k)' = BothStrict(k) /\ ProxyWanted(k)' = ProxyWanted(k)
  BY <1>1 DEF Strict, BothStrict, ProxyWanted
<1>4. ASSUME NEW w \in Waits, WaitOwn(w)  PROVE WaitOwn(w)'
  <2>1. w.call \in Calls  BY DEF Waits
  <2> QED  BY <1>2, <1>3, <1>4, <2>1 DEF WaitOwn
<1>5. ASSUME NEW m \in Messages, MessageOwn(m)  PROVE MessageOwn(m)'
  <2>1. m.call \in Calls  BY DEF Messages
  <2> QED  BY <1>1, <1>2, <1>3, <1>5, <2>1 DEF MessageOwn
<1>6. ASSUME NEW m \in Messages, ConfirmOwn(m)  PROVE ConfirmOwn(m)'
  <2>1. m.call \in Calls  BY DEF Messages
  <2> QED  BY <1>2, <1>3, <1>6, <2>1 DEF ConfirmOwn
<1>7. ASSUME NEW k \in Calls, NEW route, MayOpen(k, route)  PROVE MayOpen(k, route)'
  <2>1. Confirmed(k) => Confirmed(k)'
    <3> SUFFICES ASSUME NEW m \in arrived, m.call = k, m.cid = cid[k]  PROVE Confirmed(k)'
      BY DEF Confirmed
    <3>1. Sent(k)  BY DEF OwnInv, ConfirmOwn
    <3> QED  BY <1>1, <1>2, <3>1 DEF Confirmed
  <2> QED  BY <1>1, <1>3, <1>7, <2>1 DEF MayOpen, DirectAllowed
<1> QED  BY <1>4, <1>5, <1>6, <1>7

LEMMA HandlerStays ==
  ASSUME TypeOK, OwnInv, Onward, NEW c \in Clients, NEW x \in confirming[c]
  PROVE  HandlerOwn(c, x)'
<1>1. x \in [con : Messages, cfm : Messages] /\ HandlerOwn(c, x)  BY DEF TypeOK, OwnInv
<1>2. x.con \in Messages /\ x.cfm \in Messages /\ x.con.call \in Calls /\ x.con.init \in BOOLEAN
  BY <1>1 DEF Messages
<1>3. MessageOwn(x.con)' /\ ConfirmOwn(x.cfm)'  BY <1>1, <1>2, PartsStay DEF HandlerOwn
<1>4. Strict' = Strict  BY DEF Onward, Strict
<1>5. Has(waits'[c], x.con.call, ~x.con.init) => Has(waits[c], x.con.call, ~x.con.init)
  <2>1. Sent(x.con.call) /\ Handled(x.con.call)  BY <1>1 DEF HandlerOwn, MessageOwn
  <2>2. (~x.con.init) \in BOOLEAN  BY <1>2
  <2> QED  BY <1>2, <2>1, <2>2 DEF Onward
<1> QED  BY <1>1, <1>3, <1>4, <1>5 DEF HandlerOwn

LEMMA OwnStays ==
  ASSUME TypeOK, OwnInv, Onward, Numbered',
         NEW c \in Clients, NEW X, WaitsFrom(c, X), \A w \in X : WaitOwn(w)',
         \A m \in net' : m \in net \/ NetOwn(m)',
         \A d \in Clients : \A x \in confirming'[d] : x \in confirming[d] \/ HandlerOwn(d, x)',
         \A m \in arrived' : m \in arrived \/ ConfirmOwn(m)',
         \A d \in Clients : \A m \in joining'[d] :
           m \in joining[d] \/ (m.type = "SC_PROXYNOTIFY" /\ m.to = d /\ MessageOwn(m)'),
         \A k \in Calls : EndsOwn(k)'
  PROVE  OwnInv'
<1>1. ASSUME NEW d \in Clients, NEW w \in Listed(d)'  PROVE WaitOwn(w)'
  <2>1. PICK i \in 1..Len(waits'[d]) : w = waits'[d][i]  BY DEF Listed
  <2>2. CASE w \in X  BY <2>2
  <2>3. CASE w \notin X
    <3>1. PICK j \in 1..Len(waits[d]) : w = waits[d][j]
      BY <2>1, <2>3 DEF WaitsFrom, From
    <3>2. waits[d] \in Seq(Waits)  BY DEF TypeOK
    <3>3. w \in Waits /\ w \in Listed(d)  BY <3>1, <3>2, ElementOfSeq DEF Listed
    <3>4. WaitOwn(w)  BY <3>3 DEF OwnInv
    <3> QED  BY <3>3, <3>4, PartsStay
  <2> QED  BY <2>2, <2>3
<1>2. ASSUME NEW m \in net'  PROVE NetOwn(m)'
  <2>1. CASE m \in net
    <3>1. m \in Messages /\ NetOwn(m)  BY <2>1 DEF TypeOK, OwnInv
    <3> QED  BY <3>1, PartsStay DEF NetOwn
  <2> QED  BY <2>1
<1>3. ASSUME NEW d \in Clients, NEW x \in confirming'[d]  PROVE HandlerOwn(d, x)'
  BY HandlerStays
<1>4. ASSUME NEW m \in arrived'  PROVE ConfirmOwn(m)'
  <2>1. CASE m \in arrived
    <3>1. m \in Messages /\ ConfirmOwn(m)  BY <2>1 DEF TypeOK, OwnInv
    <3> QED  BY <3>1, PartsStay
  <2> QED  BY <2>1
<1>5. ASSUME NEW d \in Clients, NEW m \in joining'[d]
      PROVE  m.type = "SC_PROXYNOTIFY" /\ m.to = d /\ MessageOwn(m)'
  <2>1. CASE m \in joining[d]
    <3>1. m \in Messages /\ m.type = "SC_PROXYNOTIFY" /\ m.to = d /\ MessageOwn(m)
      BY <2>1 DEF TypeOK, OwnInv
    <3> QED  BY <3>1, PartsStay
  <2> QED  BY <2>1
<1> QED  BY <1>1, <1>2, <1>3, <1>4, <1>5 DEF OwnInv

\* Ends that stay as they are.
LEMMA EndsStay ==
  ASSUME TypeOK, OwnInv, Onward, UNCHANGED <<done, result, setUp>>
  PROVE  \A k \in Calls : EndsOwn(k)'
<1> SUFFICES ASSUME NEW k \in Calls  PROVE EndsOwn(k)'
  OBVIOUS
<1>1. EndsOwn(k)  BY DEF OwnInv
<1> QED  BY <1>1, PartsStay DEF EndsOwn

LEMMA NumbersStay ==
  ASSUME TypeOK, OwnInv, cid' = cid, \A k \in Calls : pc'[k] # "idle" => pc[k] # "idle",
         \A k \in Calls : nextId'[k.from] \in Nat /\ nextId'[k.from] >= nextId[k.from]
  PROVE  Numbered'
<1>1. ASSUME NEW k \in Calls, pc'[k] # "idle"  PROVE cid'[k] \in 1..nextId'[k.from]
  <2>1. cid[k] \in 1..nextId[k.from]  BY <1>1 DEF OwnInv, Numbered
  <2>2. k.from \in Clients /\ nextId[k.from] \in Nat  BY CallTypes DEF TypeOK
  <2> QED  BY <2>1, <2>2
<1> QED  BY <1>1 DEF OwnInv, Numbered

----------------------------------------------------------------------------
(* How the lists change. *)

LEMMA FromItself == \A c : waits' = waits => WaitsFrom(c, {})
  BY DEF WaitsFrom, From

LEMMA RemoveFrom ==
  ASSUME TypeOK, NEW c \in Clients, NEW i \in 1..Len(waits[c]),
         waits' = [waits EXCEPT ![c] = RemoveAt(@, i)]
  PROVE  WaitsFrom(c, {})
<1>1. waits[c] \in Seq(Waits) /\ waits'[c] = RemoveAt(waits[c], i)
      /\ \A d \in Clients : d # c => waits'[d] = waits[d]
  BY DEF TypeOK
<1>2. From(waits'[c], waits[c], {})  BY <1>1, RemoveAtProperties
<1> QED  BY <1>1, <1>2 DEF WaitsFrom, From

LEMMA AppendWait ==
  ASSUME TypeOK, NEW c \in Clients, NEW w \in Waits, waits' = [waits EXCEPT ![c] = Append(@, w)]
  PROVE  WaitsFrom(c, {w})
<1>1. waits[c] \in Seq(Waits) /\ waits'[c] = Append(waits[c], w)
      /\ \A d \in Clients : d # c => waits'[d] = waits[d]
  BY DEF TypeOK
<1>2. From(waits'[c], waits[c], {w})  BY <1>1, AppendFrom
<1> QED  BY <1>1, <1>2 DEF WaitsFrom, From

LEMMA ReplaceFrom ==
  ASSUME TypeOK, NEW c \in Clients, NEW i \in 1..Len(waits[c]), NEW w \in Waits,
         waits' = [waits EXCEPT ![c] = [@ EXCEPT ![i] = w]]
  PROVE  WaitsFrom(c, {w})
<1>1. waits[c] \in Seq(Waits) /\ waits'[c] = [waits[c] EXCEPT ![i] = w]
      /\ \A d \in Clients : d # c => waits'[d] = waits[d]
  BY DEF TypeOK
<1>2. From(waits'[c], waits[c], {w})
  <2>1. /\ Len([waits[c] EXCEPT ![i] = w]) = Len(waits[c])
        /\ \A j \in 1..Len(waits[c]) : [waits[c] EXCEPT ![i] = w][j] = IF j = i THEN w ELSE waits[c][j]
    BY <1>1, ExceptSeq
  <2> QED  BY <1>1, <2>1 DEF From
<1> QED  BY <1>1, <1>2 DEF WaitsFrom, From

\* A list has new keys only with new entries.
LEMMA KeysFrom ==
  ASSUME NEW c \in Clients, NEW X, WaitsFrom(c, X), NEW d \in Clients, NEW k, NEW init,
         Has(waits'[d], k, init)
  PROVE  Has(waits[d], k, init) \/ (d = c /\ \E w \in X : w.call = k /\ w.init = init)
<1>1. PICK i \in 1..Len(waits'[d]) : waits'[d][i].call = k /\ waits'[d][i].init = init  BY DEF Has
<1>2. waits'[d][i] \in (IF d = c THEN X ELSE {}) \/ \E j \in 1..Len(waits[d]) : waits'[d][i] = waits[d][j]
  BY DEF WaitsFrom, From
<1> QED  BY <1>1, <1>2 DEF Has

\* Steps that neither send nor number a call, and enter no wait with a new key.
LEMMA QuietOnward ==
  ASSUME TypeOK, OwnInv, site' = site, cid' = cid, handled' = handled, arrived \subseteq arrived',
         brokenOff \subseteq brokenOff',
         \A k \in Calls : Sent(k) => Sent(k)',
         NEW c \in Clients, NEW X, WaitsFrom(c, X), \A w \in X : Has(waits[c], w.call, w.init)
  PROVE  Onward
<1>1. \A k \in Calls : Handled(k)' = Handled(k)  BY DEF Handled
<1>2. ASSUME NEW d \in Clients, NEW k \in Calls, NEW init \in BOOLEAN, Has(waits'[d], k, init)
      PROVE  Has(waits[d], k, init)
  <2>1. Has(waits[d], k, init) \/ (d = c /\ \E w \in X : w.call = k /\ w.init = init)
    BY <1>2, KeysFrom
  <2> QED  BY <2>1
<1> QED  BY <1>1, <1>2 DEF Onward

----------------------------------------------------------------------------
(* What the lookups find, in the lists of calls with their own numbers and cookies. *)

LEMMA WaitFacts ==
  ASSUME TypeOK, WaitInv, OwnInv, NEW c \in Clients, NEW i \in 1..Len(waits[c])
  PROVE  /\ waits[c][i] \in Waits /\ waits[c][i].call \in Calls /\ waits[c][i].init \in BOOLEAN
         /\ WaitOwn(waits[c][i]) /\ Has(waits[c], waits[c][i].call, waits[c][i].init)
         /\ waits[c][i].init => c = waits[c][i].call.from
         /\ ~waits[c][i].init => c = waits[c][i].call.to /\ Handled(waits[c][i].call)
         /\ cid[waits[c][i].call] # 0
<1>1. PICK w : w = waits[c][i]
  OBVIOUS
<1>2. w \in Waits /\ WaitOwn(w)
  <2>1. waits[c] \in Seq(Waits) /\ w \in Listed(c)  BY <1>1 DEF TypeOK, Listed
  <2> QED  BY <1>1, <2>1, ElementOfSeq DEF OwnInv
<1>3. w.call \in Calls /\ w.init \in BOOLEAN  BY <1>2 DEF Waits
<1>4. Has(waits[c], w.call, w.init)  BY <1>1 DEF Has
<1>5. /\ w.init => c = w.call.from
      /\ ~w.init => c = w.call.to /\ Handled(w.call)
  <2>1. Placed(c)  BY DEF WaitInv
  <2>2. CASE w.init = TRUE  BY <1>3, <1>4, <2>1, <2>2 DEF Placed
  <2>3. CASE w.init = FALSE  BY <1>3, <1>4, <2>1, <2>3 DEF Placed
  <2> QED  BY <1>3, <2>2, <2>3
<1>6. cid[w.call] # 0
  <2>1. pc[w.call] # "idle"  BY <1>2 DEF WaitOwn, Sent
  <2>2. cid[w.call] \in 1..nextId[w.call.from]  BY <1>3, <2>1 DEF OwnInv, Numbered
  <2> QED  BY <2>2
<1> QED  BY <1>1, <1>2, <1>3, <1>4, <1>5, <1>6

\* A message with its cookie finds a wait of its own call, and one without a number none.
LEMMA PeerOwn ==
  ASSUME TypeOK, WaitInv, OwnInv, NEW c \in Clients, NEW m \in Messages, FromPeer(c, m) # 0
  PROVE  m.cid # 0 /\ (m.cookie = m.call.id => waits[c][FromPeer(c, m)].call = m.call)
<1>1. PICK i \in 1..Len(waits[c]) : i = FromPeer(c, m) /\ SameChannel(waits[c][i], m)
  BY FromPeerFinds
<1>2. PICK w \in Waits : /\ w = waits[c][i] /\ WaitOwn(w) /\ w.call \in Calls /\ cid[w.call] # 0
                         /\ SameChannel(w, m)
  BY <1>1, WaitFacts
<1>3. m.cid # 0  BY <1>2 DEF SameChannel, WaitOwn
<1>4. ASSUME m.cookie = m.call.id  PROVE w.call = m.call
  <2>1. m.call \in Calls /\ m.call.id \in Nat \ {0}  BY ChannelAssumption DEF Messages
  <2>2. w.cookie = m.call.id  BY <1>2, <1>4 DEF SameChannel
  <2>3. w.cookie = w.call.id  BY <1>2, <2>1, <2>2 DEF WaitOwn, NoCookie
  <2> QED  BY <1>2, <2>1, <2>2, <2>3, ChannelAssumption
<1> QED  BY <1>1, <1>2, <1>3, <1>4

LEMMA NoticeOwn ==
  ASSUME TypeOK, WaitInv, OwnInv, NEW c \in Clients, NEW m \in Messages,
         m.type = "SC_PROXYNOTIFY", m.to = c, MessageOwn(m), FromNotice(c, m) # 0
  PROVE  waits[c][FromNotice(c, m)].call = m.call
<1>1. PICK i \in 1..Len(waits[c]) : i = FromNotice(c, m) /\ waits[c][i].init = m.init
                                    /\ SameChannel(waits[c][i], m)
  BY FromNoticeFinds
<1>2. PICK w \in Waits : /\ w = waits[c][i] /\ WaitOwn(w) /\ w.call \in Calls /\ w.init \in BOOLEAN
                         /\ SameChannel(w, m) /\ w.init = m.init
                         /\ w.init => c = w.call.from
  BY <1>1, WaitFacts
<1>3. m.call \in Calls /\ m.call.id \in Nat \ {0}  BY ChannelAssumption DEF Messages
<1>4. CASE w.init
  <2>1. m.call.from = w.call.from /\ cid[m.call] = cid[w.call]
    BY <1>2, <1>4 DEF SameChannel, WaitOwn, MessageOwn
  <2>2. pc[m.call] # "idle" /\ pc[w.call] # "idle"  BY <1>2 DEF WaitOwn, MessageOwn, Sent
  <2>3. w.call = m.call  BY <1>2, <1>3, <2>1, <2>2 DEF OwnInv, Numbered
  <2> QED  BY <1>1, <1>2, <2>3
<1>5. CASE ~w.init
  <2>1. w.cookie = w.call.id /\ m.cookie = w.call.id  BY <1>2, <1>5 DEF SameChannel, WaitOwn
  <2>2. w.call.id # 0  BY <1>2, ChannelAssumption
  <2>3. m.cookie = m.call.id  BY <2>1, <2>2 DEF MessageOwn, NoCookie
  <2>4. w.call = m.call  BY <1>2, <1>3, <2>1, <2>3, ChannelAssumption
  <2> QED  BY <1>1, <1>2, <2>4
<1> QED  BY <1>4, <1>5

LEMMA BothStrictEither ==
  ASSUME TypeOK, NEW j \in Calls, NEW k \in Calls, j.from = k.to, j.to = k.from
  PROVE  BothStrict(j) = BothStrict(k)
<1>1. /\ j.from \in Clients /\ j.to \in Clients
      /\ site.firewall[j.from] \in 0..3 /\ site.firewall[j.to] \in 0..3
  BY CallTypes, ChannelAssumption DEF TypeOK
<1> QED  BY <1>1 DEF BothStrict

----------------------------------------------------------------------------
(* The steps, one by one. *)

LEMMA FinishOwn ==
  ASSUME TypeOK, WaitInv, OwnInv, NEW c \in Clients, NEW i \in 1..Len(waits[c]), NEW route,
         Finish(c, i, route), NEW j \in Calls, j = waits[c][i].call,
         \/ MayOpen(j, route)
         \/ route = "direct" /\ DirectAllowed(j) /\ j \in brokenOff',
         brokenOff \subseteq brokenOff',
         UNCHANGED <<site, nextId, handled, pc, cid, result, arrived, net>>,
         \A d \in Clients : confirming'[d] \subseteq confirming[d] /\ joining'[d] \subseteq joining[d]
  PROVE  OwnInv'
<1>1. PICK w \in Waits : w = waits[c][i] /\ w.call \in Calls /\ w.init \in BOOLEAN
  BY WaitFacts
<1>2. PICK k \in Calls : k = w.call /\ k = j  BY <1>1
<1>3. WaitsFrom(c, {})  BY RemoveFrom DEF Finish
<1>4. Onward  BY <1>3, QuietOnward DEF Sent
<1>5. Numbered'
  <2>1. \A g \in Calls : nextId'[g.from] \in Nat /\ nextId'[g.from] >= nextId[g.from]
    BY CallTypes DEF TypeOK
  <2> QED  BY <2>1, NumbersStay
<1>6. PICK end : end = [route |-> route, remote |-> w.remote]
  OBVIOUS
<1>7. MayOpen(k, end.route)'
  <2>1. end.route = route  BY <1>6
  <2>2. CASE MayOpen(k, route)  BY <1>4, <2>1, <2>2, PartsStay
  <2>3. CASE route = "direct" /\ DirectAllowed(k) /\ k \in brokenOff'
    <3>1. DirectAllowed(k)'
      BY <2>3 DEF DirectAllowed, ProxyWanted, BothStrict, Strict
    <3> QED  BY <2>1, <2>3, <3>1 DEF MayOpen
  <2> QED  BY <1>2, <2>2, <2>3
<1>8. ASSUME NEW g \in Calls  PROVE EndsOwn(g)'
  <2>1. EndsOwn(g)  BY DEF OwnInv
  <2>2. \A r : MayOpen(g, r) => MayOpen(g, r)'  BY <1>4, PartsStay
  <2>3. CASE w.init
    <3>1. /\ done' = [done EXCEPT ![k] = end] /\ setUp' = setUp
      BY <1>1, <1>2, <1>6, <2>3 DEF Finish
    <3>2. done'[g] = done[g] \/ (g = k /\ done'[g] = end)  BY <3>1 DEF TypeOK
    <3> QED  BY <1>7, <2>1, <2>2, <3>1, <3>2 DEF EndsOwn
  <2>4. CASE ~w.init
    <3>1. setUp' = [setUp EXCEPT ![k] = Append(@, end)] /\ done' = done
      BY <1>1, <1>2, <1>6, <2>4 DEF Finish
    <3>2. CASE g # k
      <4>1. setUp'[g] = setUp[g]  BY <3>1, <3>2 DEF TypeOK
      <4> QED  BY <2>1, <2>2, <3>1, <4>1 DEF EndsOwn
    <3>3. CASE g = k
      <4>1. PICK s \in Seq(Ends \cup {end}) : s = setUp[k]
        <5>1. setUp[k] \in Seq(Ends)  BY DEF TypeOK
        <5> QED  BY <5>1
      <4>2. setUp'[k] = Append(s, end)  BY <3>1, <4>1 DEF TypeOK
      <4>3. \A n \in 1..Len(Append(s, end)) :
              Append(s, end)[n] = end \/ \E l \in 1..Len(s) : Append(s, end)[n] = s[l]
        <5>1. end \in Ends \cup {end}
          OBVIOUS
        <5>2. From(Append(s, end), s, {end})  BY <5>1, AppendFrom
        <5> QED  BY <5>2 DEF From
      <4>4. \A l \in 1..Len(s) : MayOpen(k, s[l].route)  BY <2>1, <3>3, <4>1 DEF EndsOwn
      <4>5. PICK t : t = setUp'[k] /\ t = Append(s, end)  BY <4>2
      <4>6. ASSUME NEW n \in 1..Len(t)  PROVE MayOpen(k, t[n].route)'
        <5>1. PICK e : e = t[n] /\ (e = end \/ MayOpen(k, e.route))  BY <4>3, <4>4, <4>5
        <5>2. MayOpen(k, e.route)'  BY <1>7, <2>2, <3>3, <5>1
        <5>3. t' = t
          OBVIOUS
        <5> QED  BY <5>1, <5>2
      <4>7. \A e \in {done'[g], result'[g]} : e = NoEnd \/ MayOpen(g, e.route)'
        BY <2>1, <2>2, <3>1 DEF EndsOwn
      <4> QED  BY <3>3, <4>5, <4>6, <4>7 DEF EndsOwn
    <3> QED  BY <3>2, <3>3
  <2> QED  BY <1>1, <2>3, <2>4
<1> QED  BY <1>3, <1>4, <1>5, <1>8, OwnStays

LEMMA CallStepOwn ==
  ASSUME TypeOK, WaitInv, OwnInv, NEW k \in Calls, CallStep(k)
  PROVE  OwnInv'
<1>0. k.from \in Clients /\ k.to \in Clients /\ k.id \in Nat \ {0} /\ k.proxy \in BOOLEAN
  BY CallTypes, ChannelAssumption
<1> USE DEF threadVars, confirmVars, serverVars, clientVars
<1>1. CASE Number(k)
  <2>1. /\ pc[k] = "idle" /\ pc' = [pc EXCEPT ![k] = "numbered"]
        /\ nextId' = [nextId EXCEPT ![k.from] = @ + 1]
        /\ cid' = [cid EXCEPT ![k] = nextId[k.from] + 1]
        /\ UNCHANGED <<site, waits, handled, done, result, setUp, threadVars, net>>
    BY <1>1 DEF Number
  <2>2. /\ ~Sent(k)
        /\ \A j \in Calls \ {k} : Sent(j)' = Sent(j) /\ cid'[j] = cid[j] /\ pc'[j] = pc[j]
        /\ \A j \in Calls \ {k} : Handled(j)' = Handled(j)
    BY <2>1 DEF TypeOK, Sent, Handled
  <2>3. Onward
    <3>1. \A j \in Calls : Sent(j) => Sent(j)' /\ cid'[j] = cid[j] /\ (Handled(j) => Handled(j)')
      BY <2>2
    <3> QED  BY <2>1, <3>1 DEF Onward
  <2>4. Numbered'
    <3>1. nextId[k.from] \in Nat /\ cid'[k] = nextId[k.from] + 1 /\ nextId'[k.from] = nextId[k.from] + 1
          /\ \A d \in Clients \ {k.from} : nextId'[d] = nextId[d]
      BY <1>0, <2>1 DEF TypeOK
    <3>2. ASSUME NEW j \in Calls, j # k, pc[j] # "idle"
          PROVE  cid[j] \in 1..nextId'[j.from] /\ (j.from = k.from => cid[j] # cid'[k])
      <4>1. cid[j] \in 1..nextId[j.from] /\ j.from \in Clients /\ nextId[j.from] \in Nat
        BY <3>2, CallTypes DEF OwnInv, Numbered, TypeOK
      <4>2. nextId'[j.from] = nextId[j.from] \/ (j.from = k.from /\ nextId'[j.from] = nextId[j.from] + 1)
        BY <3>1, <4>1
      <4> QED  BY <3>1, <4>1, <4>2
    <3>3. ASSUME NEW j \in Calls, pc'[j] # "idle"  PROVE cid'[j] \in 1..nextId'[j.from]
      <4>1. CASE j = k  BY <3>1, <4>1
      <4>2. CASE j # k  BY <2>2, <3>2, <3>3, <4>2
      <4> QED  BY <4>1, <4>2
    <3>4. ASSUME NEW i \in Calls, NEW j \in Calls, pc'[i] # "idle", pc'[j] # "idle", i.from = j.from,
                 cid'[i] = cid'[j]
          PROVE  i = j
      <4>1. CASE i = k /\ j # k  BY <2>2, <3>2, <3>4, <4>1
      <4>2. CASE i # k /\ j = k  BY <2>2, <3>2, <3>4, <4>2
      <4>3. CASE i # k /\ j # k  BY <2>2, <3>4, <4>3 DEF OwnInv, Numbered
      <4> QED  BY <4>1, <4>2, <4>3
    <3> QED  BY <3>3, <3>4 DEF Numbered
  <2>5. WaitsFrom(k.from, {})  BY <2>1, FromItself
  <2>6. \A j \in Calls : EndsOwn(j)'  BY <2>1, <2>3, EndsStay
  <2> QED  BY <1>0, <2>1, <2>3, <2>4, <2>5, <2>6, OwnStays
<1>2. CASE Request(k)
  <2>1. PICK cookie, w, q :
          /\ cookie = IF k.from \in Strict THEN NoCookie ELSE k.id
          /\ w = Wait(k, k.to, cid[k], TRUE, cookie, k.proxy, 0)
          /\ q = Message("CS_Q", "server", k, cid[k], cookie)
    OBVIOUS
  <2>2. /\ pc[k] = "numbered" /\ pc' = [pc EXCEPT ![k] = "waiting"]
        /\ waits' = [waits EXCEPT ![k.from] = Append(@, w)]
        /\ net' = net \cup {q}
        /\ UNCHANGED <<site, nextId, cid, handled, done, result, setUp, threadVars>>
    BY <1>2, <2>1 DEF Request
  <2>3. Strict' = Strict /\ Sent(k)' /\ ~Sent(k)
        /\ \A j \in Calls : (Sent(j) => Sent(j)') /\ Handled(j)' = Handled(j)
    BY <2>2 DEF TypeOK, Sent, Handled, Strict
  <2>4. w \in Waits /\ w.call = k
    <3>1. cookie \in Nat /\ cid[k] \in Nat  BY <1>0, <2>1 DEF TypeOK, NoCookie
    <3>2. w \in Waits  BY <1>0, <2>1, <3>1, WaitType
    <3> QED  BY <2>1, <3>2 DEF Wait
  <2>5. WaitOwn(w)'
    BY <1>0, <2>1, <2>2, <2>3 DEF WaitOwn, Wait, NoCookie
  <2>6. MessageOwn(q)' /\ q.type = "CS_Q"
    BY <1>0, <2>1, <2>2, <2>3 DEF MessageOwn, Message, NoCookie
  <2>7. WaitsFrom(k.from, {w})  BY <1>0, <2>2, <2>4, AppendWait
  <2>8. Onward
    <3>1. ASSUME NEW d \in Clients, NEW j \in Calls, NEW init \in BOOLEAN, Has(waits'[d], j, init)
          PROVE  Has(waits[d], j, init) \/ ~Sent(j)
      <4>1. PICK X : X = {w}
        OBVIOUS
      <4>2. Has(waits[d], j, init) \/ (d = k.from /\ \E v \in X : v.call = j /\ v.init = init)
        BY <1>0, <2>7, <3>1, <4>1, KeysFrom
      <4> QED  BY <2>3, <2>4, <4>1, <4>2
    <3> QED  BY <2>2, <2>3, <3>1 DEF Onward
  <2>9. Numbered'
    <3>1. \A j \in Calls : pc'[j] # "idle" => pc[j] # "idle"  BY <2>2 DEF TypeOK
    <3>2. \A j \in Calls : nextId'[j.from] \in Nat /\ nextId'[j.from] >= nextId[j.from]
      BY <2>2, CallTypes DEF TypeOK
    <3> QED  BY <2>2, <3>1, <3>2, NumbersStay
  <2>10. \A j \in Calls : EndsOwn(j)'  BY <2>2, <2>8, EndsStay
  <2>11. \A v \in {w} : WaitOwn(v)'  BY <2>5
  <2>12. \A m \in net' : m \in net \/ NetOwn(m)'  BY <2>2, <2>6 DEF NetOwn
  <2> QED  BY <1>0, <2>2, <2>7, <2>8, <2>9, <2>10, <2>11, <2>12, OwnStays
<1>3. CASE WakeUp(k) \/ TimeOut(k) \/ Leave(k)
  <2>1. /\ pc[k] \in {"waiting", "leaving"} /\ pc'[k] # "idle" /\ pc'[k] # "numbered"
        /\ \A j \in Calls : j # k => pc'[j] = pc[j]
        /\ UNCHANGED <<site, nextId, cid, handled, done, setUp, threadVars, net>>
    BY <1>3 DEF WakeUp, TimeOut, Leave, TypeOK
  <2>2. WaitsFrom(k.from, {})
    <3>1. CASE waits' = waits  BY <3>1, FromItself
    <3>2. CASE waits' # waits
      <4>1. OwnWait(k) # 0 /\ waits' = [waits EXCEPT ![k.from] = RemoveAt(@, OwnWait(k))]
        BY <1>3, <3>2 DEF WakeUp, TimeOut, Leave
      <4>2. OwnWait(k) \in 1..Len(waits[k.from])  BY <4>1, OwnWaitFinds
      <4> QED  BY <1>0, <4>1, <4>2, RemoveFrom
    <3> QED  BY <3>1, <3>2
  <2>3. \A j \in Calls : Sent(j) => Sent(j)'  BY <2>1 DEF Sent
  <2>4. Onward  BY <1>0, <2>1, <2>2, <2>3, QuietOnward
  <2>5. Numbered'
    <3>1. \A j \in Calls : pc'[j] # "idle" => pc[j] # "idle"  BY <2>1
    <3>2. \A j \in Calls : nextId'[j.from] \in Nat /\ nextId'[j.from] >= nextId[j.from]
      BY <2>1, CallTypes DEF TypeOK
    <3> QED  BY <2>1, <3>1, <3>2, NumbersStay
  <2>6. ASSUME NEW j \in Calls  PROVE EndsOwn(j)'
    <3>1. EndsOwn(j) /\ \A r : MayOpen(j, r) => MayOpen(j, r)'  BY <2>4, PartsStay DEF OwnInv
    <3>2. result'[j] = result[j] \/ result'[j] = done[j]
      BY <1>3 DEF WakeUp, TimeOut, Leave, TypeOK
    <3> QED  BY <2>1, <3>1, <3>2 DEF EndsOwn
  <2> QED  BY <1>0, <2>1, <2>2, <2>4, <2>5, <2>6, OwnStays
<1> QED  BY <1>1, <1>2, <1>3 DEF CallStep

\* Steps of which only what is sent matters.
LEMMA SendOwn ==
  ASSUME TypeOK, OwnInv, UNCHANGED <<site, clientVars, callVars, threadVars>>,
         \A m \in net' : m \in net \/ (MessageOwn(m) /\ m \in Messages /\ m.type # "CC_CONCFM")
  PROVE  OwnInv'
<1> USE DEF threadVars, confirmVars, clientVars, callVars
<1>1. ASSUME NEW c \in Clients  PROVE Onward /\ WaitsFrom(c, {})
  <2>1. WaitsFrom(c, {})  BY FromItself
  <2> QED  BY <2>1, QuietOnward DEF Sent
<1>2. Numbered'  BY DEF OwnInv, Numbered
<1>3. CASE Clients # {}
  <2>1. PICK c \in Clients : TRUE  BY <1>3
  <2>2. Onward /\ WaitsFrom(c, {})  BY <1>1
  <2>3. \A m \in net' : m \in net \/ NetOwn(m)'
    BY <2>2, PartsStay DEF NetOwn
  <2>4. \A k \in Calls : EndsOwn(k)'  BY <2>2, EndsStay
  <2> QED  BY <1>2, <2>2, <2>3, <2>4, OwnStays
<1>4. CASE Clients = {}
  <2>1. Calls = {} /\ Messages = {}  BY <1>4, CallTypes DEF Messages
  <2>2. net' = {} /\ arrived' = {}  BY <2>1 DEF TypeOK
  <2> QED  BY <1>2, <1>4, <2>1, <2>2 DEF OwnInv
<1> QED  BY <1>3, <1>4

LEMMA ServerStepOwn == ASSUME TypeOK, OwnInv, NEW m \in net, ServerStep(m) PROVE OwnInv'
<1>0. m.type # "CC_CONCFM"
  BY DEF ServerStep, OnMsgClientRequestChannel, OnMsgClientResponseChannel,
         OnMsgCreateProxyChannel, OnMsgProxyNotify
<1>1. PICK k \in Calls : k = m.call /\ m \in Messages /\ MessageOwn(m)
                         /\ Sent(k) /\ m.cid = cid[k] /\ m.cookie \in {NoCookie, k.id}
  BY <1>0, MessageFields DEF TypeOK, OwnInv, NetOwn, MessageOwn
<1>2. net' \subseteq Messages  BY ServerStepTypes DEF TypeOK
<1>3. UNCHANGED <<site, clientVars, callVars, threadVars>>
  BY DEF ServerStep, OnMsgClientRequestChannel, OnMsgClientResponseChannel,
         OnMsgCreateProxyChannel, OnMsgProxyNotify
<1>4. CASE OnMsgClientRequestChannel(m)
  <2>1. PICK q, a :
          /\ q = [Message("SC_FWD_Q", k.to, k, m.cid, m.cookie)
                    EXCEPT !.proxy = k.proxy \/ BothStrict(k)]
          /\ a = [Message("SC_A", k.from, k, m.cid, m.cookie) EXCEPT !.ok = FALSE]
    OBVIOUS
  <2>2. net' = net \cup {q} \/ net' = net \cup {a}
    BY <1>1, <1>4, <2>1 DEF OnMsgClientRequestChannel
  <2>3. MessageOwn(q) /\ q.type = "SC_FWD_Q"
    BY <1>1, <2>1 DEF MessageOwn, Message, ProxyWanted
  <2>4. MessageOwn(a) /\ a.type = "SC_A"
    BY <1>1, <2>1 DEF MessageOwn, Message
  <2> QED  BY <1>2, <1>3, <2>2, <2>3, <2>4, SendOwn
<1>5. CASE OnMsgClientResponseChannel(m)
  <2>1. PICK need, a, p :
          /\ need = NeedProxy(m)
          /\ a = [Message("SC_A", k.from, k, m.cid, m.cookie)
                    EXCEPT !.proxy = need, !.ok = m.ok /\ (need => site.allow), !.count = m.count]
          /\ p = Message("SP_CREATE", "server", k, m.cid, m.cookie)
    OBVIOUS
  <2>2. net' \subseteq net \cup {a} \cup (IF need THEN {p} ELSE {})
    BY <1>1, <1>5, <2>1 DEF OnMsgClientResponseChannel
  <2>3. m.type = "CS_A" /\ m.proxy = ProxyWanted(k)
        /\ (m.ok => m.cookie = k.id /\ Handled(k))
    BY <1>1, <1>5 DEF OnMsgClientResponseChannel, MessageOwn
  <2>4. (ProxyWanted(k) => need) /\ (need => ProxyWanted(k) \/ k.to \in site.lan)
    BY <1>1, <2>1, <2>3 DEF NeedProxy, ProxyWanted
  <2>5. MessageOwn(a) /\ a.type = "SC_A"
    <3>1. /\ a.type = "SC_A" /\ a.to = k.from /\ a.call = k /\ a.cid = m.cid /\ a.cookie = m.cookie
          /\ a.proxy = need /\ (a.ok => m.ok)
      BY <2>1 DEF Message
    <3> QED  BY <1>1, <2>3, <2>4, <3>1 DEF MessageOwn
  <2>6. need => MessageOwn(p) /\ p.type = "SP_CREATE"
    <3>1. p.type = "SP_CREATE" /\ p.call = k /\ p.cid = m.cid /\ p.cookie = m.cookie
      BY <2>1 DEF Message
    <3> QED  BY <1>1, <2>4, <3>1 DEF MessageOwn
  <2> QED  BY <1>2, <1>3, <2>2, <2>5, <2>6, SendOwn
<1>6. CASE OnMsgCreateProxyChannel(m)
  <2>1. PICK n : n = [m EXCEPT !.type = "PS_NOTIFY"]
    OBVIOUS
  <2>2. net' \subseteq net \cup {n} /\ m.type = "SP_CREATE"
    BY <1>6, <2>1 DEF OnMsgCreateProxyChannel
  <2>3. n.type = "PS_NOTIFY" /\ n.call = k /\ n.cid = m.cid /\ n.cookie = m.cookie
    BY <1>1, <2>1 DEF Messages
  <2>4. MessageOwn(n)  BY <1>1, <2>2, <2>3 DEF MessageOwn
  <2> QED  BY <1>2, <1>3, <2>2, <2>3, <2>4, SendOwn
<1>7. CASE OnMsgProxyNotify(m)
  <2>1. PICK f, g :
          /\ f = [Message("SC_PROXYNOTIFY", k.from, k, m.cid, m.cookie)
                    EXCEPT !.uid = k.to, !.init = TRUE]
          /\ g = [Message("SC_PROXYNOTIFY", k.to, k, m.cid, m.cookie)
                    EXCEPT !.uid = k.from, !.init = FALSE]
    OBVIOUS
  <2>2. net' \subseteq net \cup {f, g} /\ m.type = "PS_NOTIFY"
    BY <1>1, <1>7, <2>1 DEF OnMsgProxyNotify
  <2>3. ProxyWanted(k) \/ k.to \in site.lan  BY <1>1, <2>2 DEF MessageOwn
  <2>4. MessageOwn(f) /\ f.type = "SC_PROXYNOTIFY"  BY <1>1, <2>1, <2>3 DEF MessageOwn, Message
  <2>5. MessageOwn(g) /\ g.type = "SC_PROXYNOTIFY"  BY <1>1, <2>1, <2>3 DEF MessageOwn, Message
  <2> QED  BY <1>2, <1>3, <2>2, <2>4, <2>5, SendOwn
<1> QED  BY <1>4, <1>5, <1>6, <1>7 DEF ServerStep

\* The request that is new to the called client.
LEMMA RequestOwn ==
  ASSUME TypeOK, WaitInv, OwnInv, NEW c \in Clients, NEW m \in net, OnMsgChannelRequest(c, m)
  PROVE  OwnInv'
<1> USE DEF threadVars, confirmVars, callVars
<1>1. PICK k \in Calls : k = m.call /\ m \in Messages /\ MessageOwn(m)
                         /\ m.cid \in Nat /\ m.proxy \in BOOLEAN
                         /\ k.from \in Clients /\ k.id \in Nat
  BY MessageFields DEF TypeOK, OwnInv, NetOwn, OnMsgChannelRequest
<1>2. /\ m.type = "SC_FWD_Q" /\ m.to = c /\ <<k.from, m.cid>> \notin handled[c]
      /\ handled' = [handled EXCEPT ![c] = @ \cup {<<k.from, m.cid>>}]
      /\ UNCHANGED <<site, callVars, threadVars>>
  BY <1>1 DEF OnMsgChannelRequest, IsNew
<1>3. /\ c = k.to /\ m.cid = cid[k] /\ Sent(k) /\ m.proxy = ProxyWanted(k)
      /\ m.cookie \in {NoCookie, k.id} /\ ~Handled(k)
  BY <1>1, <1>2 DEF WaitInv, RequestSound, MessageOwn, Handled
<1>4. /\ Handled(k)' /\ Sent(k)' /\ cid' = cid /\ ProxyWanted(k)' = ProxyWanted(k)
      /\ \A j \in Calls : (Handled(j) => Handled(j)') /\ Sent(j)' = Sent(j)
  BY <1>1, <1>2, <1>3 DEF Handled, Sent, TypeOK, ProxyWanted, BothStrict
<1>5. PICK w, yes, no, con :
        /\ w = Wait(k, k.from, m.cid, FALSE, k.id, m.proxy, m.cid)
        /\ yes = AnswerOf(m, k.id, m.proxy, TRUE, nextId[c] + 1)
        /\ no = AnswerOf(m, m.cookie, m.proxy, FALSE, 0)
        /\ con = ToPeer("CC_CON", c, w)
  OBVIOUS
<1>6. \/ /\ nextId' = [nextId EXCEPT ![c] = @ + 1]
         /\ waits' = [waits EXCEPT ![c] = Append(@, w)]
         /\ net' = net \cup {yes} \cup (IF m.proxy THEN {} ELSE {con})
      \/ nextId' = nextId /\ waits' = waits /\ net' = net \cup {no}
  BY <1>1, <1>5 DEF OnMsgChannelRequest
<1>7. w \in Waits /\ w.call = k /\ w.init = FALSE /\ WaitOwn(w)'
  <2>1. w \in Waits  BY <1>1, <1>5, WaitType
  <2>2. /\ w.call = k /\ w.uid = k.from /\ w.cid = m.cid /\ w.init = FALSE /\ w.cookie = k.id
    BY <1>5 DEF Wait
  <2> QED  BY <1>3, <1>4, <2>1, <2>2 DEF WaitOwn
<1>8. MessageOwn(yes)' /\ yes.type = "CS_A"
  <2>1. /\ yes.type = "CS_A" /\ yes.call = k /\ yes.cid = m.cid /\ yes.cookie = k.id
        /\ yes.proxy = m.proxy /\ yes.ok = TRUE
    BY <1>1, <1>5 DEF AnswerOf, Message
  <2> QED  BY <1>3, <1>4, <2>1 DEF MessageOwn
<1>9. MessageOwn(no)' /\ no.type = "CS_A"
  <2>1. /\ no.type = "CS_A" /\ no.call = k /\ no.cid = m.cid /\ no.cookie = m.cookie
        /\ no.proxy = m.proxy /\ no.ok = FALSE
    BY <1>1, <1>5 DEF AnswerOf, Message
  <2> QED  BY <1>3, <1>4, <2>1 DEF MessageOwn
<1>10. ~m.proxy => MessageOwn(con)' /\ con.type = "CC_CON"
  <2>1. /\ con.type = "CC_CON" /\ con.to = k.from /\ con.call = k /\ con.cid = m.cid
        /\ con.cookie = k.id /\ con.uid = c /\ con.init = FALSE
    BY <1>5 DEF ToPeer, Message, Wait
  <2> QED  BY <1>3, <1>4, <2>1 DEF MessageOwn
<1>11. PICK X : X = (IF waits' = waits THEN {} ELSE {w})
  OBVIOUS
<1>12. WaitsFrom(c, X) /\ (\A v \in X : v.call = k /\ WaitOwn(v)')
  <2>1. CASE waits' = waits
    <3>1. X = {}  BY <1>11, <2>1
    <3>2. WaitsFrom(c, {})  BY <2>1, FromItself
    <3> QED  BY <3>1, <3>2
  <2>2. CASE waits' # waits
    <3>1. WaitsFrom(c, {w})  BY <1>6, <1>7, <2>2, AppendWait
    <3>2. X = {w}  BY <1>11, <2>2
    <3> QED  BY <1>7, <3>1, <3>2
  <2> QED  BY <2>1, <2>2
<1>13. Onward
  <2>1. ASSUME NEW d \in Clients, NEW j \in Calls, NEW init \in BOOLEAN, Has(waits'[d], j, init)
        PROVE  Has(waits[d], j, init) \/ ~Handled(j)
    <3>1. Has(waits[d], j, init) \/ (d = c /\ \E v \in X : v.call = j /\ v.init = init)
      BY <1>12, <2>1, KeysFrom
    <3> QED  BY <1>3, <1>12, <3>1
  <2> QED  BY <1>2, <1>4, <2>1 DEF Onward
<1>14. Numbered'
  <2>1. \A j \in Calls : nextId'[j.from] \in Nat /\ nextId'[j.from] >= nextId[j.from]
    <3>1. nextId \in [Clients -> Nat]  BY DEF TypeOK
    <3> QED  BY <1>6, <3>1, CallTypes
  <2> QED  BY <1>2, <2>1, NumbersStay
<1>15. \A j \in Calls : EndsOwn(j)'  BY <1>2, <1>13, EndsStay
<1>16. \A n \in net' : n \in net \/ NetOwn(n)'
  BY <1>6, <1>8, <1>9, <1>10 DEF NetOwn
<1> QED  BY <1>2, <1>12, <1>13, <1>14, <1>15, <1>16, OwnStays

\* Steps that number and send no request, and open no end.
LEMMA QuietOwn ==
  ASSUME TypeOK, OwnInv, UNCHANGED <<site, nextId, handled, pc, cid, result, setUp>>,
         arrived \subseteq arrived', brokenOff \subseteq brokenOff',
         \A k \in Calls : done'[k] \in {done[k], NoEnd},
         NEW c \in Clients, NEW X, WaitsFrom(c, X),
         \A w \in X : w \in Waits /\ WaitOwn(w) /\ Has(waits[c], w.call, w.init),
         \A m \in net' : m \in net \/ (m \in Messages /\ NetOwn(m)),
         \A d \in Clients : \A x \in confirming'[d] : x \in confirming[d] \/ HandlerOwn(d, x)',
         \A m \in arrived' : m \in arrived \/ (m \in Messages /\ ConfirmOwn(m)),
         \A d \in Clients : \A m \in joining'[d] :
           \/ m \in joining[d]
           \/ m \in Messages /\ m.type = "SC_PROXYNOTIFY" /\ m.to = d /\ MessageOwn(m)
  PROVE  OwnInv'
<1>1. Onward  BY QuietOnward DEF Sent
<1>2. Numbered'  BY DEF OwnInv, Numbered
<1>3. ASSUME NEW k \in Calls  PROVE EndsOwn(k)'
  <2>1. EndsOwn(k) /\ \A r : MayOpen(k, r) => MayOpen(k, r)'  BY <1>1, PartsStay DEF OwnInv
  <2>2. done'[k] \in {done[k], NoEnd}
    OBVIOUS
  <2> QED  BY <2>1, <2>2 DEF EndsOwn
<1>4. \A w \in X : WaitOwn(w)'  BY <1>1, PartsStay
<1>5. \A m \in net' : m \in net \/ NetOwn(m)'
  BY <1>1, PartsStay DEF NetOwn
<1>6. \A m \in arrived' : m \in arrived \/ ConfirmOwn(m)'
  BY <1>1, PartsStay
<1>7. \A d \in Clients : \A m \in joining'[d] :
        m \in joining[d] \/ (m.type = "SC_PROXYNOTIFY" /\ m.to = d /\ MessageOwn(m)')
  BY <1>1, PartsStay
<1> QED  BY <1>1, <1>2, <1>3, <1>4, <1>5, <1>6, <1>7, OwnStays

\* An answer finds the wait of its call, or that of a call that crosses it.
LEMMA AnswerOwn ==
  ASSUME TypeOK, WaitInv, OwnInv, NEW c \in Clients, NEW m \in net, AnswerGranted(c, m)
  PROVE  OwnInv'
<1> USE DEF threadVars, confirmVars, callVars, serverVars
<1>1. PICK k \in Calls : k = m.call /\ m \in Messages /\ MessageOwn(m) /\ m.proxy \in BOOLEAN
                         /\ m.cookie \in Nat /\ m.count \in Nat /\ k.id \in Nat
  BY MessageFields DEF TypeOK, OwnInv, NetOwn, AnswerGranted
<1>2. PICK i \in 1..Len(waits[c]) : /\ i = Answered(c, m)
                                    /\ waits[c][i].uid = m.call.to /\ waits[c][i].cid = m.cid
  <2>1. Answered(c, m) # 0  BY DEF AnswerGranted
  <2> QED  BY <2>1, AnswerFinds
<1>3. PICK o \in Waits :
        /\ o = waits[c][i] /\ o.call \in Calls /\ o.init \in BOOLEAN /\ WaitOwn(o)
        /\ Has(waits[c], o.call, o.init) /\ o.uid = k.to /\ o.cid = m.cid
        /\ o.init => c = o.call.from
        /\ ~o.init => c = o.call.to /\ Handled(o.call)
  BY <1>1, <1>2, WaitFacts
<1>4. PICK w, con :
        /\ w = [o EXCEPT !.cookie = IF @ = NoCookie THEN m.cookie ELSE @,
                         !.proxy = m.proxy, !.remote = m.count]
        /\ con = ToPeer("CC_CON", c, w)
  OBVIOUS
<1>5. /\ m.type = "SC_A" /\ m.to = c /\ m.ok
      /\ waits' = [waits EXCEPT ![c] = [@ EXCEPT ![i] = w]]
      /\ net' = net \cup (IF m.proxy THEN {} ELSE {con})
      /\ UNCHANGED <<site, nextId, handled, callVars, threadVars, serverVars>>
  <2>1. w = [waits[c][i] EXCEPT !.cookie = IF @ = NoCookie THEN m.cookie ELSE @,
                                !.proxy = m.proxy, !.remote = m.count]
    BY <1>3, <1>4
  <2> QED  BY <1>2, <1>4, <2>1 DEF AnswerGranted
<1>6. /\ c = k.from /\ m.cid = cid[k] /\ Sent(k) /\ m.cookie = k.id /\ Handled(k)
      /\ ProxyWanted(k) => m.proxy
  BY <1>1, <1>5 DEF MessageOwn
<1>7. /\ w \in Waits /\ w.call = o.call /\ w.init = o.init /\ w.uid = o.uid /\ w.cid = o.cid
      /\ w.proxy = m.proxy /\ w.cookie = IF o.cookie = NoCookie THEN k.id ELSE o.cookie
  <2>1. (IF o.cookie = NoCookie THEN m.cookie ELSE o.cookie) \in Nat
    BY <1>1, <1>3 DEF Waits
  <2>2. PICK cookie \in Nat : cookie = IF o.cookie = NoCookie THEN m.cookie ELSE o.cookie
    BY <2>1
  <2>3. w = [o EXCEPT !.cookie = cookie, !.proxy = m.proxy, !.remote = m.count]
    BY <1>4, <2>2
  <2>4. /\ w \in Waits /\ w.call = o.call /\ w.init = o.init /\ w.uid = o.uid /\ w.cid = o.cid
        /\ w.proxy = m.proxy /\ w.cookie = cookie
    BY <1>1, <2>3 DEF Waits
  <2> QED  BY <1>6, <2>2, <2>4
<1>8. /\ con.type = "CC_CON" /\ con.to = w.uid /\ con.call = w.call /\ con.cid = w.cid
      /\ con.cookie = w.cookie /\ con.uid = c /\ con.init = w.init
  BY <1>4 DEF ToPeer, Message
<1>9. WaitOwn(w) /\ (~m.proxy => MessageOwn(con))
  <2>1. CASE o.init
    <3>1. o.call.from = k.from /\ cid[o.call] = cid[k]  BY <1>3, <1>6, <2>1 DEF WaitOwn
    <3>2. pc[o.call] # "idle" /\ pc[k] # "idle"  BY <1>3, <1>6 DEF WaitOwn, Sent
    <3>3. o.call = k  BY <1>3, <3>1, <3>2 DEF OwnInv, Numbered
    <3>4. w.cookie = k.id  BY <1>3, <1>7, <3>3 DEF WaitOwn
    <3>5. k.proxy => m.proxy  BY <1>6 DEF ProxyWanted
    <3>6. WaitOwn(w)  BY <1>3, <1>7, <2>1, <3>3, <3>4, <3>5 DEF WaitOwn
    <3>7. ~m.proxy => MessageOwn(con)
      BY <1>3, <1>6, <1>7, <1>8, <2>1, <3>3, <3>4 DEF MessageOwn
    <3> QED  BY <3>6, <3>7
  <2>2. CASE ~o.init
    <3>1. PICK j \in Calls : j = o.call  BY <1>3
    <3>2. /\ c = j.to /\ o.uid = j.from /\ o.cookie = j.id /\ Handled(j) /\ Sent(j) /\ o.cid = cid[j]
      BY <1>3, <2>2, <3>1 DEF WaitOwn
    <3>3. j.from = k.to /\ j.to = k.from  BY <1>3, <1>6, <3>2
    <3>4. w.cookie = j.id
      <4>1. j.id # 0  BY ChannelAssumption
      <4> QED  BY <1>7, <3>2, <4>1 DEF NoCookie
    <3>5. WaitOwn(w)  BY <1>7, <2>2, <3>1, <3>2, <3>4 DEF WaitOwn
    <3>6. ~m.proxy /\ ProxyWanted(j) => j.proxy
      <4>1. BothStrict(j) = BothStrict(k)  BY <3>3, BothStrictEither
      <4> QED  BY <1>6, <4>1 DEF ProxyWanted
    <3>7. ~m.proxy => MessageOwn(con)
      BY <1>7, <1>8, <2>2, <3>1, <3>2, <3>4, <3>6 DEF MessageOwn
    <3> QED  BY <3>5, <3>7
  <2> QED  BY <2>1, <2>2
<1>10. PICK X : X = {w}
  OBVIOUS
<1>11. WaitsFrom(c, X)
  <2>1. WaitsFrom(c, {w})  BY <1>5, <1>7, ReplaceFrom
  <2> QED  BY <1>10, <2>1
<1>12. \A v \in X : v \in Waits /\ WaitOwn(v) /\ Has(waits[c], v.call, v.init)
  BY <1>3, <1>7, <1>9, <1>10
<1>13. \A n \in net' : n \in net \/ (n \in Messages /\ NetOwn(n))
  <2>1. con \in Messages  BY <1>4, <1>7, ToPeerType DEF MessageTypes
  <2> QED  BY <1>5, <1>8, <1>9, <2>1 DEF NetOwn
<1> QED  BY <1>5, <1>11, <1>12, <1>13, QuietOwn

\* A handler that begins to wait for the acknowledgement of its confirmation.
LEMMA ConnectOwn ==
  ASSUME TypeOK, WaitInv, OwnInv, NEW c \in Clients, NEW m \in net, OnMsgChannelConnect(c, m)
  PROVE  OwnInv'
<1> USE DEF clientVars, callVars, serverVars
<1>1. PICK k \in Calls : k = m.call /\ m \in Messages /\ MessageOwn(m) /\ m.init \in BOOLEAN
  BY MessageFields DEF TypeOK, OwnInv, NetOwn, OnMsgChannelConnect
<1>2. PICK x, i :
        /\ i = FromPeer(c, m)
        /\ x = [con |-> m, cfm |-> IF i # 0 THEN ToPeer("CC_CONCFM", c, waits[c][i])
                                            ELSE BlankConfirm(c, m)]
  <2>1. PICK i : i = FromPeer(c, m)
    OBVIOUS
  <2>2. PICK x : x = [con |-> m, cfm |-> IF i # 0 THEN ToPeer("CC_CONCFM", c, waits[c][i])
                                                  ELSE BlankConfirm(c, m)]
    OBVIOUS
  <2> QED  BY <2>1, <2>2
<1>3. /\ m.type = "CC_CON" /\ m.to = c /\ (i # 0 => ~waits[c][i].proxy)
      /\ confirming' = [confirming EXCEPT ![c] = @ \cup {x}]
      /\ net' = net \cup {x.cfm}
      /\ UNCHANGED <<site, clientVars, callVars, arrived, brokenOff, joining, joined, serverVars>>
  BY <1>2 DEF OnMsgChannelConnect
<1>4. /\ Sent(k) /\ m.cid = cid[k] /\ m.cookie = k.id /\ (ProxyWanted(k) => ~m.init /\ k.proxy)
      /\ m.uid = IF m.init THEN k.from ELSE k.to
  BY <1>1, <1>3 DEF MessageOwn
<1>5. HandlerOwn(c, x)
  <2>1. CASE i # 0
    <3>1. i \in 1..Len(waits[c]) /\ waits[c][i].init # m.init /\ SameChannel(waits[c][i], m)
      BY <1>2, <2>1, FromPeerFinds
    <3>2. PICK w \in Waits : /\ w = waits[c][i] /\ w.init \in BOOLEAN /\ WaitOwn(w) /\ cid[w.call] # 0
                             /\ w.init # m.init /\ SameChannel(w, m) /\ ~w.proxy
      BY <1>3, <2>1, <3>1, WaitFacts
    <3>3. w.call = k  BY <1>1, <1>2, <1>4, <2>1, <3>2, PeerOwn
    <3>4. x.con = m /\ x.cfm.call = k /\ x.cfm.cid = w.cid /\ x.cfm.cookie = w.cookie
      BY <1>2, <2>1, <3>2, <3>3 DEF ToPeer, Message
    <3>5. ~ProxyWanted(k)
      <4>1. w.init /\ k.proxy => w.proxy  BY <3>2, <3>3 DEF WaitOwn
      <4> QED  BY <1>1, <1>4, <3>2, <4>1
    <3>6. x.cfm.cid = cid[k] /\ x.cfm.cookie = k.id /\ x.cfm.cid # 0
      BY <1>4, <3>2, <3>3, <3>4 DEF SameChannel
    <3> QED  BY <1>1, <1>3, <1>4, <3>4, <3>5, <3>6 DEF HandlerOwn, ConfirmOwn
  <2>2. CASE i = 0
    <3>1. x.con = m /\ x.cfm.call = k /\ x.cfm.cid = 0
      BY <1>1, <1>2, <2>2 DEF BlankConfirm, Message
    <3>2. ASSUME Has(waits[c], k, ~m.init)  PROVE k.from \in Strict
      <4>1. PICK l \in 1..Len(waits[c]) : waits[c][l].call = k /\ waits[c][l].init = ~m.init
        BY <3>2 DEF Has
      <4>2. PICK w \in Waits : /\ w = waits[c][l] /\ w.call = k /\ w.init = ~m.init /\ WaitOwn(w)
        BY <4>1, WaitFacts
      <4>3. w.init # m.init  BY <1>1, <4>2
      <4>4. ~SameChannel(w, m)  BY <1>2, <2>2, <4>2, <4>3, FromPeerNone
      <4>5. w.uid = m.uid /\ w.cid = m.cid  BY <1>1, <1>4, <4>2 DEF WaitOwn
      <4>6. w.cookie # k.id  BY <1>4, <4>4, <4>5 DEF SameChannel
      <4> QED  BY <4>2, <4>6 DEF WaitOwn
    <3> QED  BY <1>1, <1>3, <1>4, <3>1, <3>2 DEF HandlerOwn, ConfirmOwn
  <2> QED  BY <2>1, <2>2
<1>6. HandlerOwn(c, x)'
  BY <1>3, <1>5 DEF HandlerOwn, MessageOwn, ConfirmOwn, ProxyWanted, BothStrict, Sent, Handled, Strict
<1>7. \A d \in Clients : \A y \in confirming'[d] : y \in confirming[d] \/ HandlerOwn(d, y)'
  BY <1>3, <1>6 DEF TypeOK
<1>8. WaitsFrom(c, {})  BY <1>3, FromItself
<1>9. x.cfm \in Messages /\ NetOwn(x.cfm)
  <2>1. x.cfm.type = "CC_CONCFM"  BY <1>2 DEF ToPeer, BlankConfirm, Message
  <2>2. ConfirmOwn(x.cfm)  BY <1>5 DEF HandlerOwn
  <2>3. x.cfm \in Messages
    <3>1. i # 0 => waits[c][i] \in Waits  BY <1>2, FromPeerFinds, WaitFacts
    <3> QED  BY <1>1, <1>2, <3>1, ToPeerType, BlankConfirmType DEF MessageTypes
  <2> QED  BY <2>1, <2>2, <2>3 DEF NetOwn
<1>10. \A n \in net' : n \in net \/ (n \in Messages /\ NetOwn(n))  BY <1>3, <1>9
<1> QED  BY <1>3, <1>7, <1>8, <1>10, QuietOwn

\* What a handler that waits for an ACK finds is the wait of its call, which may be opened
\* directly; and its confirmation is that call's, or the caller is behind a strict firewall.
LEMMA HandlerFinds ==
  ASSUME TypeOK, WaitInv, OwnInv, NEW c \in Clients, NEW x \in confirming[c],
         FromPeer(c, x.con) # 0
  PROVE  LET k == x.con.call
         IN  /\ k \in Calls /\ waits[c][FromPeer(c, x.con)].call = k
             /\ DirectAllowed(k)
             /\ k.from \notin Strict => x.cfm.call = k /\ x.cfm.cid = cid[k]
<1>1. x \in [con : Messages, cfm : Messages] /\ HandlerOwn(c, x)  BY DEF TypeOK, OwnInv
<1>2. PICK m \in Messages : m = x.con /\ x.cfm \in Messages /\ m.call \in Calls /\ m.init \in BOOLEAN
  BY <1>1, MessageFields
<1>3. PICK k \in Calls : k = m.call  BY <1>2
<1>4. /\ Sent(k) /\ m.cookie = k.id /\ m.type = "CC_CON"
      /\ ProxyWanted(k) => k.proxy
      /\ x.cfm.call = k /\ ConfirmOwn(x.cfm)
      /\ x.cfm.cid = 0 => k.from \in Strict \/ ~Has(waits[c], k, ~m.init)
  BY <1>1, <1>2, <1>3 DEF HandlerOwn, MessageOwn
<1>5. PICK i \in 1..Len(waits[c]) : i = FromPeer(c, m) /\ waits[c][i].init # m.init
  BY <1>2, FromPeerFinds
<1>6. waits[c][i].call = k  BY <1>2, <1>3, <1>4, <1>5, PeerOwn
<1>7. CASE x.cfm.cid = 0
  <2>1. Has(waits[c], k, ~m.init)
    <3>1. waits[c][i].init \in BOOLEAN  BY WaitFacts
    <3>2. waits[c][i].init = ~m.init  BY <1>2, <1>5, <3>1
    <3> QED  BY <1>6, <3>2 DEF Has
  <2>2. k.from \in Strict  BY <1>4, <1>7, <2>1
  <2>3. DirectAllowed(k)  BY <1>4, <2>2 DEF DirectAllowed
  <2> QED  BY <1>2, <1>3, <1>5, <1>6, <2>2, <2>3
<1>8. CASE x.cfm.cid # 0
  <2>1. x.cfm.cid = cid[k] /\ ~ProxyWanted(k)  BY <1>4, <1>8 DEF ConfirmOwn
  <2>2. DirectAllowed(k)  BY <2>1 DEF DirectAllowed
  <2> QED  BY <1>2, <1>3, <1>4, <1>5, <1>6, <2>1, <2>2
<1> QED  BY <1>7, <1>8

\* The handler of a confirmation opens its end when the ACK came or Logout broke the wait for
\* it, and leaves the end alone when no ACK came.
LEMMA ConfirmReturnsOwn ==
  ASSUME TypeOK, WaitInv, OwnInv, NEW c \in Clients, NEW x \in confirming[c],
         ConfirmReturns(c, x) \/ ConfirmBroken(c, x)
  PROVE  OwnInv'
<1> USE DEF serverVars
<1>1. PICK i : i = FromPeer(c, x.con)
  OBVIOUS
<1>2. /\ confirming' = [confirming EXCEPT ![c] = @ \ {x}]
      /\ UNCHANGED <<site, nextId, handled, pc, cid, result, arrived, joining, joined, serverVars, net>>
      /\ brokenOff \subseteq brokenOff'
  BY DEF ConfirmReturns, ConfirmBroken
<1>3. \A d \in Clients : confirming'[d] \subseteq confirming[d] /\ joining'[d] \subseteq joining[d]
  BY <1>2 DEF TypeOK
<1>4. \/ UNCHANGED <<waits, done, setUp>>
      \/ /\ i # 0 /\ Finish(c, i, "direct")
         /\ x.cfm \in arrived \/ x.con.call \in brokenOff'
  BY <1>1 DEF ConfirmReturns, ConfirmBroken, FinishIfAny, Acked
<1>5. CASE i # 0 /\ Finish(c, i, "direct") /\ (x.cfm \in arrived \/ x.con.call \in brokenOff')
  <2>1. PICK k \in Calls :
          /\ k = x.con.call /\ waits[c][i].call = k /\ DirectAllowed(k)
          /\ k.from \notin Strict => x.cfm.call = k /\ x.cfm.cid = cid[k]
    BY <1>1, <1>5, HandlerFinds
  <2>2. i \in 1..Len(waits[c])  BY <1>1, <1>5, FromPeerFinds
  <2>3. MayOpen(k, "direct") \/ k \in brokenOff'
    BY <1>5, <2>1 DEF MayOpen, Confirmed
  <2> QED  BY <1>2, <1>3, <1>5, <2>1, <2>2, <2>3, FinishOwn
<1>6. CASE UNCHANGED <<waits, done, setUp>>
  <2>1. WaitsFrom(c, {})  BY <1>6, FromItself
  <2>2. \A d \in Clients : \A y \in confirming'[d] : y \in confirming[d]  BY <1>3
  <2> QED  BY <1>2, <1>3, <1>6, <2>1, <2>2, QuietOwn
<1> QED  BY <1>4, <1>5, <1>6

LEMMA ConfirmedEnd ==
  ASSUME TypeOK, WaitInv, OwnInv, NEW c \in Clients, NEW m,
         OnMsgChannelConnectConfirmed(c, m)
  PROVE  OwnInv'
<1> USE DEF threadVars, confirmVars, serverVars
<1>0. m \in arrived  BY DEF OnMsgChannelConnectConfirmed, TypeOK
<1>1. PICK k \in Calls : k = m.call /\ m \in Messages /\ ConfirmOwn(m)
  BY <1>0, MessageFields DEF TypeOK, OwnInv
<1>2. PICK i \in 1..Len(waits[c]) : i = FromPeer(c, m) /\ FromPeer(c, m) # 0 /\ Finish(c, i, "direct")
  BY FromPeerFinds DEF OnMsgChannelConnectConfirmed
<1>3. m.cid # 0  BY <1>1, <1>2, PeerOwn
<1>4. m.cid = cid[k] /\ m.cookie = k.id /\ ~ProxyWanted(k)  BY <1>1, <1>3 DEF ConfirmOwn
<1>5. waits[c][i].call = k  BY <1>1, <1>2, <1>4, PeerOwn
<1>6. MayOpen(k, "direct")
  <2>1. Confirmed(k)  BY <1>0, <1>1, <1>4 DEF Confirmed
  <2> QED  BY <1>4, <2>1 DEF MayOpen, DirectAllowed
<1>7. UNCHANGED <<site, nextId, handled, pc, cid, result, threadVars, serverVars, net>>
  BY DEF OnMsgChannelConnectConfirmed
<1> QED  BY <1>2, <1>5, <1>6, <1>7, FinishOwn

LEMMA JoinedOwn ==
  ASSUME TypeOK, WaitInv, OwnInv, NEW c \in Clients, NEW m, Joined(c, m)
  PROVE  OwnInv'
<1> USE DEF serverVars, confirmVars
<1>1. /\ m \in joining[c] /\ joining' = [joining EXCEPT ![c] = @ \ {m}]
      /\ UNCHANGED <<site, nextId, handled, pc, cid, result, confirmVars, joined, serverVars, net>>
  BY DEF Joined
<1>2. PICK k \in Calls : /\ k = m.call /\ m \in Messages /\ m.type = "SC_PROXYNOTIFY" /\ m.to = c
                         /\ MessageOwn(m)
  <2>1. m \in Messages  BY <1>1 DEF TypeOK
  <2>2. m.type = "SC_PROXYNOTIFY" /\ m.to = c /\ MessageOwn(m)  BY <1>1 DEF OwnInv
  <2> QED  BY <2>1, <2>2, MessageFields
<1>3. \A d \in Clients : confirming'[d] \subseteq confirming[d] /\ joining'[d] \subseteq joining[d]
  BY <1>1 DEF TypeOK
<1>4. CASE FromNotice(c, m) # 0
  <2>1. PICK i \in 1..Len(waits[c]) : i = FromNotice(c, m)  BY <1>4, FromNoticeFinds
  <2>2. waits[c][i].call = k  BY <1>2, <1>4, <2>1, NoticeOwn
  <2>3. MayOpen(k, "proxied")  BY <1>2 DEF MessageOwn, MayOpen
  <2>4. Finish(c, i, "proxied")  BY <1>4, <2>1 DEF Joined, FinishIfAny
  <2> QED  BY <1>1, <1>3, <2>2, <2>3, <2>4, FinishOwn
<1>5. CASE FromNotice(c, m) = 0
  <2>1. UNCHANGED <<waits, done, setUp>>  BY <1>5 DEF Joined, FinishIfAny
  <2>2. WaitsFrom(c, {})  BY <2>1, FromItself
  <2>3. \A d \in Clients : \A n \in joining'[d] : n \in joining[d]  BY <1>3
  <2> QED  BY <1>1, <2>1, <2>2, <2>3, QuietOwn
<1> QED  BY <1>4, <1>5

LEMMA NoticeStepOwn ==
  ASSUME TypeOK, WaitInv, OwnInv, NEW c \in Clients, NEW m \in net, OnMsgBBQProxyNotify(c, m)
  PROVE  OwnInv'
<1> USE DEF callVars, serverVars, confirmVars
<1>1. m \in Messages /\ MessageOwn(m)  BY DEF TypeOK, OwnInv, NetOwn, OnMsgBBQProxyNotify
<1>2. PICK i \in 1..Len(waits[c]) : i = FromNotice(c, m)
  BY FromNoticeFinds DEF OnMsgBBQProxyNotify
<1>3. PICK o \in Waits : o = waits[c][i] /\ WaitOwn(o) /\ Has(waits[c], o.call, o.init)
  BY WaitFacts
<1>4. PICK w : w = [o EXCEPT !.connecting = TRUE]
  OBVIOUS
<1>5. /\ m.type = "SC_PROXYNOTIFY" /\ m.to = c
      /\ waits' = [waits EXCEPT ![c] = [@ EXCEPT ![i] = w]]
      /\ joining' = [joining EXCEPT ![c] = @ \cup {m}]
      /\ UNCHANGED <<site, nextId, handled, callVars, confirmVars, joined, serverVars, net>>
  BY <1>2, <1>3, <1>4 DEF OnMsgBBQProxyNotify
<1>6. /\ w \in Waits /\ w.call = o.call /\ w.init = o.init /\ w.uid = o.uid /\ w.cid = o.cid
      /\ w.cookie = o.cookie /\ w.proxy = o.proxy
  BY <1>3, <1>4 DEF Waits
<1>7. PICK X : X = {w}
  OBVIOUS
<1>8. WaitsFrom(c, X)
  <2>1. WaitsFrom(c, {w})  BY <1>5, <1>6, ReplaceFrom
  <2> QED  BY <1>7, <2>1
<1>9. \A v \in X : v \in Waits /\ WaitOwn(v) /\ Has(waits[c], v.call, v.init)
  BY <1>3, <1>6, <1>7 DEF WaitOwn
<1>10. \A d \in Clients : \A n \in joining'[d] :
         \/ n \in joining[d]
         \/ n \in Messages /\ n.type = "SC_PROXYNOTIFY" /\ n.to = d /\ MessageOwn(n)
  BY <1>1, <1>5 DEF TypeOK
<1> QED  BY <1>5, <1>8, <1>9, <1>10, QuietOwn

LEMMA ClientStepOwn ==
  ASSUME TypeOK, WaitInv, OwnInv, NEW c \in Clients, NEW m \in net, ClientStep(c, m)
  PROVE  OwnInv'
<1> USE DEF threadVars, confirmVars, serverVars, clientVars, callVars
<1>1. CASE OnMsgChannelRequest(c, m)  BY <1>1, RequestOwn DEF OnMsgChannelRequest
<1>2. CASE AnswerGranted(c, m)  BY <1>2, AnswerOwn DEF AnswerGranted
<1>3. CASE AnswerRefused(c, m)
  <2>1. /\ m.call.from = c /\ OwnWait(m.call) # 0
        /\ waits' = [waits EXCEPT ![c] = RemoveAt(@, OwnWait(m.call))]
        /\ done' = [done EXCEPT ![m.call] = NoEnd]
        /\ UNCHANGED <<site, nextId, handled, pc, cid, result, setUp, threadVars, serverVars, net>>
    BY <1>3 DEF AnswerRefused
  <2>2. OwnWait(m.call) \in 1..Len(waits[c])  BY <2>1, OwnWaitFinds
  <2>3. WaitsFrom(c, {})  BY <2>1, <2>2, RemoveFrom
  <2>4. \A k \in Calls : done'[k] \in {done[k], NoEnd}  BY <2>1 DEF TypeOK
  <2> QED  BY <2>1, <2>3, <2>4, QuietOwn
<1>4. CASE OnMsgChannelConnect(c, m)  BY <1>4, ConnectOwn DEF OnMsgChannelConnect
<1>5. CASE OnMsgBBQProxyNotify(c, m)  BY <1>5, NoticeStepOwn DEF OnMsgBBQProxyNotify
<1>6. CASE OnMsgChannelConnectConfirmed(c, m)
  BY <1>6, ConfirmedEnd DEF OnMsgChannelConnectConfirmed
<1>7. CASE Joined(c, m)  BY <1>7, JoinedOwn
<1>8. CASE JoinProxy(c, m) \/ NotJoined(c, m)
  <2>1. /\ UNCHANGED <<site, nextId, handled, pc, cid, result, setUp, done, waits, confirmVars, net>>
        /\ \A d \in Clients : joining'[d] \subseteq joining[d]
    BY <1>8 DEF JoinProxy, NotJoined, TypeOK
  <2>2. WaitsFrom(c, {})  BY <2>1, FromItself
  <2>3. \A d \in Clients : \A n \in joining'[d] : n \in joining[d]  BY <2>1
  <2> QED  BY <2>1, <2>2, <2>3, QuietOwn
<1> QED  BY <1>1, <1>2, <1>3, <1>4, <1>5, <1>6, <1>7, <1>8 DEF ClientStep, OnMsgChannelRequestFeedback

LEMMA ArrivalOwn == ASSUME TypeOK, OwnInv, NEW m \in net, ConfirmArrives(m) PROVE OwnInv'
<1>1. PICK c \in Clients : m \in Messages /\ ConfirmOwn(m)
  <2>1. m \in Messages /\ ConfirmOwn(m)  BY DEF ConfirmArrives, TypeOK, OwnInv, NetOwn
  <2>2. m.call.from \in Clients  BY <2>1, MessageFields
  <2> QED  BY <2>1, <2>2
<1>2. /\ arrived' = arrived \cup {m}
      /\ UNCHANGED <<site, clientVars, callVars, confirming, brokenOff, joining, net>>
  BY DEF ConfirmArrives
<1>3. WaitsFrom(c, {})  BY <1>2, FromItself DEF clientVars
<1>4. \A n \in arrived' : n \in arrived \/ (n \in Messages /\ ConfirmOwn(n))  BY <1>1, <1>2
<1> QED  BY <1>2, <1>3, <1>4, QuietOwn DEF clientVars, callVars

LEMMA OtherStepOwn ==
  ASSUME TypeOK, WaitInv, OwnInv, NEW c \in Clients,
         \/ \E x \in confirming[c] : ConfirmReturns(c, x) \/ ConfirmBroken(c, x)
         \/ BreakChannelRequesting(c) \/ Tick(c)
  PROVE  OwnInv'
<1> USE DEF threadVars, confirmVars, serverVars, clientVars, callVars
<1>2. ASSUME NEW x \in confirming[c], ConfirmReturns(c, x) \/ ConfirmBroken(c, x)  PROVE OwnInv'
  BY <1>2, ConfirmReturnsOwn
<1>3. CASE BreakChannelRequesting(c)
  <2>1. /\ \A k \in Calls : done'[k] \in {done[k], NoEnd}
        /\ UNCHANGED <<site, clientVars, pc, cid, result, setUp, threadVars, serverVars, net>>
    BY <1>3 DEF BreakChannelRequesting
  <2>2. WaitsFrom(c, {})  BY <2>1, FromItself
  <2> QED  BY <2>1, <2>2, QuietOwn
<1>4. CASE Tick(c)
  <2>1. PICK i \in 1..Len(waits[c]) :
          /\ waits' = [waits EXCEPT ![c] = RemoveAt(@, i)]
          /\ UNCHANGED <<site, nextId, handled, callVars, threadVars, serverVars, net>>
    BY <1>4 DEF Tick
  <2>2. WaitsFrom(c, {})  BY <2>1, RemoveFrom
  <2> QED  BY <2>1, <2>2, QuietOwn
<1> QED  BY <1>2, <1>3, <1>4

----------------------------------------------------------------------------
\* Number, cookie and the wish for a proxy tie every wait, message, confirmation and handler to
\* one call, so that an end is opened in no other way than its call allows.
THEOREM OwnInvariance == Spec => []OwnInv
<1>1. Init => OwnInv
  <2> SUFFICES ASSUME Init  PROVE OwnInv
    OBVIOUS
  <2>1. \A c \in Clients : Listed(c) = {}  BY DEF Init, Listed
  <2>2. \A k \in Calls : EndsOwn(k)  BY DEF Init, EndsOwn
  <2> QED  BY <2>1, <2>2 DEF Init, OwnInv, Numbered
<1>2. TypeOK /\ WaitInv /\ OwnInv /\ [Next]_vars => OwnInv'
  <2> SUFFICES ASSUME TypeOK, WaitInv, OwnInv, [Next]_vars  PROVE OwnInv'
    OBVIOUS
  <2>1. CASE Next
    BY <2>1, CallStepOwn, ServerStepOwn, ArrivalOwn, ClientStepOwn, OtherStepOwn DEF Next
  <2>2. CASE UNCHANGED vars
    BY <2>2, SendOwn DEF vars
  <2> QED  BY <2>1, <2>2
<1> QED  BY <1>1, <1>2, ChannelInvariant, PTL DEF Spec

\* Whatever the order in which direct and proxied attempts, and those of a call that crosses
\* it, get there, both ends of a call are opened the same way.
THEOREM SameRouteBoth == Spec => []SameRoute
<1>1. TypeOK /\ OwnInv => SameRoute
  <2> SUFFICES ASSUME TypeOK, OwnInv, NEW k \in Calls, k.to \notin site.lan,
                      ~ (k.proxy /\ k.from \in Strict), setUp[k] # <<>>, result[k] # NoEnd
               PROVE  setUp[k][1].route = result[k].route
    BY DEF SameRoute
  <2>1. EndsOwn(k)  BY DEF OwnInv
  <2>2. 1 \in 1..Len(setUp[k])
    <3>1. setUp[k] \in Seq(Ends)  BY DEF TypeOK
    <3> QED  BY <3>1
  <2>3. MayOpen(k, setUp[k][1].route) /\ MayOpen(k, result[k].route)
    BY <2>1, <2>2 DEF EndsOwn
  <2> QED  BY <2>3 DEF MayOpen, DirectAllowed
<1> QED  BY <1>1, OwnInvariance, ChannelTypes, PTL

\* No end is opened directly on what was meant for another call, and none before a confirmation
\* of its own has arrived, unless Logout broke the wait for the ACK.
THEOREM ConfirmedOwn == Spec => []OwnConfirmation
<1>1. OwnInv => OwnConfirmation
  <2> SUFFICES ASSUME OwnInv, NEW k \in Calls, k.from \notin Strict, k \notin brokenOff,
                      OpenedDirectly(k)
               PROVE  Confirmed(k)
    BY DEF OwnConfirmation, Confirmed
  <2>1. EndsOwn(k)  BY DEF OwnInv
  <2>2. MayOpen(k, "direct")
    <3>1. CASE result[k].route = "direct"
      <4>1. result[k] # NoEnd  BY <3>1 DEF NoEnd
      <4> QED  BY <2>1, <3>1, <4>1 DEF EndsOwn
    <3>2. CASE result[k].route # "direct"
      BY <2>1, <3>2 DEF OpenedDirectly, EndsOwn
    <3> QED  BY <3>1, <3>2
  <2> QED  BY <2>2 DEF MayOpen
<1> QED  BY <1>1, OwnInvariance, PTL
=============================================================================
