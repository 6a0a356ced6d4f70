------------------------- MODULE UserSessionProofs -------------------------
(***************************************************************************)
(* Proofs about the sessions of clients and server, for any number of      *)
(* accounts, programs, handler threads, messages on their way and logins.  *)
(***************************************************************************)
EXTENDS UserSession, TLAPS

USE NetAssumption, ServerAssumption, ClientAssumption

\* A message of the right shape, whoever makes it.
LEMMA MessageType ==
  ASSUME NEW kind \in {"login", "logout", "heartbeat", "accepted", "expired", "replaced"},
         NEW dev \in Devices, NEW user \in Users, NEW n \in Nat, NEW c \in Cookies,
         NEW to \in Devices \cup {None}
  PROVE  Message(kind, dev, user, n, c, to) \in Messages
  BY DEF Message, Messages

\* What the server sends because of a message it got has the right shape.
LEMMA FromServerType ==
  ASSUME NEW m \in Messages, NEW kind \in {"accepted", "expired", "replaced"},
         NEW c \in Cookies, NEW to \in Devices \cup {None}
  PROVE  FromServer(kind, m, c, to) \subseteq Messages
<1>1. m.dev \in Devices /\ m.user \in Users /\ m.n \in Nat  BY DEF Messages
<1> QED  BY <1>1, MessageType DEF FromServer

LEMMA RequestType ==
  ASSUME TypeOK, NEW kind \in {"login", "logout", "heartbeat"}, NEW d \in Devices,
         logins' \in [Devices -> Nat]
  PROVE  Request(kind, d) \in Messages
<1>1. account[d] \in Users /\ cookie[d] \in Cookies /\ logins'[d] \in Nat  BY DEF TypeOK
<1> QED  BY <1>1, MessageType DEF Request

----------------------------------------------------------------------------
(* Types. *)

LEMMA TypeInit == Init => TypeOK
  BY DEF Init, ServerInit, ClientInit, TypeOK, NoTick, Free, Counts, Cookies, Messages

Ticks == [todo : SUBSET Users, user : Users \cup {None}, count : Counts]
Offlines == [by : {"logout", "tick"}, seen : Counts \cup {Unread}]
LoginsInWork == [stage : {"assign", "bind", "answer"}, msg : Messages, new : Cookies,
                 count : Counts \cup {NotCounted}]

\* Counting wraps at both ends.
LEMMA CountType ==
  ASSUME NEW n \in Counts
  PROVE  CountUp(n) \in Counts /\ CountDown(n) \in Counts
  BY DEF Counts, CountUp, CountDown

Records == [Users -> [cookie : Cookies, chan : Devices \cup {None}, fresh : BOOLEAN]]

\* What the server writes in a record keeps its type.
LEMMA RecordType ==
  ASSUME TypeOK, NEW u \in Users, NEW c \in Cookies, NEW f \in BOOLEAN
  PROVE  /\ [rec EXCEPT ![u].cookie = c] \in Records
         /\ [rec EXCEPT ![u].fresh = f] \in Records
<1> DEFINE Record == [cookie : Cookies, chan : Devices \cup {None}, fresh : BOOLEAN]
<1>1. rec \in [Users -> Record]  BY DEF TypeOK
<1>2. [rec[u] EXCEPT !.cookie = c] \in Record /\ [rec[u] EXCEPT !.fresh = f] \in Record
  BY <1>1
<1> HIDE DEF Record
<1>3. /\ [rec EXCEPT ![u] = [rec[u] EXCEPT !.cookie = c]] \in [Users -> Record]
      /\ [rec EXCEPT ![u] = [rec[u] EXCEPT !.fresh = f]] \in [Users -> Record]
  BY <1>1, <1>2
<1> QED  BY <1>3 DEF Records, Record

\* A UserOffline keeps the types of what it writes.
LEMMA TakeOfflineType ==
  ASSUME TypeOK, NEW u \in Users, NEW runner \in {"logout", "tick"}, TakeOffline(u, runner)
  PROVE  /\ rec' \in Records
         /\ offline' \in Offlines
         /\ disturbed' \subseteq Devices \X Nat
<1>1. offline' \in Offlines  BY DEF TakeOffline, Offlines
<1>2. rec' \in Records
  <2>1. 0 \in Cookies  BY DEF Cookies
  <2> QED  BY <2>1, RecordType DEF TakeOffline
<1>3. \A l \in LoginsOf(u) : LoginName(l.msg) \in Devices \X Nat
  BY DEF TypeOK, LoginsOf, LoginName, Messages
<1>4. disturbed' \subseteq Devices \X Nat
  BY <1>3 DEF TakeOffline, Disturb, TypeOK
<1> QED  BY <1>1, <1>2, <1>4

\* So do its later steps.
LEMMA OfflineStepType ==
  ASSUME TypeOK, OfflineStep
  PROVE  /\ nOnlineUsers' \in Counts
         /\ tick' \in Ticks
         /\ offline' \in Offlines \cup {None}
         /\ (~ Free /\ offline.by = "tick" => tick.user # None)'
         /\ UNCHANGED <<rec, handling, issued, disturbed, net>>
<1>1. nOnlineUsers \in Counts /\ tick \in Ticks  BY DEF TypeOK, Ticks
<1>2. offline \in Offlines  BY DEF OfflineStep, OfflineTest, OfflineCount, Free, TypeOK, Offlines
<1>3. [tick EXCEPT !.user = None] \in Ticks  BY <1>1 DEF Ticks
<1>4. [offline EXCEPT !.seen = nOnlineUsers] \in Offlines  BY <1>1, <1>2 DEF Offlines
<1>5. CASE OfflineTest
  <2>1. [offline EXCEPT !.seen = nOnlineUsers].by = offline.by  BY <1>2 DEF Offlines
  <2> QED  BY <1>1, <1>3, <1>4, <1>5, <2>1 DEF OfflineTest, OfflineEnds, Free, TypeOK
<1>6. CASE OfflineCount
  <2>1. offline.seen \in Counts  BY <1>2, <1>6 DEF OfflineCount, Offlines
  <2>2. nOnlineUsers' \in Counts  BY <1>1, <1>6, <2>1, CountType DEF OfflineCount
  <2> QED  BY <1>1, <1>3, <1>6, <2>2 DEF OfflineCount, OfflineEnds, Free
<1> QED  BY <1>5, <1>6 DEF OfflineStep

LEMMA ServerType ==
  ASSUME TypeOK, ServerNext, UNCHANGED clientVars
  PROVE  TypeOK'
<1> USE DEF clientVars, Free
<1>1. ASSUME NEW m \in net, AcceptLogin(m)  PROVE TypeOK'
  <2> DEFINE r == rec[m.user]
             same == r.cookie # 0 /\ r.chan = m.dev
             l == [stage |-> IF same THEN "bind" ELSE "assign", msg |-> m, new |-> NewCookie,
                   count |-> IF r.cookie = 0 THEN CountUp(nOnlineUsers) ELSE NotCounted]
  <2>1. m \in Messages /\ m.user \in Users /\ LoginName(m) \in Devices \X Nat
    BY <1>1 DEF TypeOK, Messages, LoginName
  <2>2. r.cookie \in Cookies /\ r.chan \in Devices \cup {None}  BY <2>1 DEF TypeOK
  <2>3. NewCookie \in Cookies /\ issued' \in Cookies
    BY <1>1 DEF AcceptLogin, NewCookie, TypeOK, Cookies
  <2>4. handling' = handling \cup {l}  BY <1>1 DEF AcceptLogin
  <2>5. l \in LoginsInWork
    <3>1. CountUp(nOnlineUsers) \in Counts  BY CountType DEF TypeOK
    <3> QED  BY <2>1, <2>3, <3>1 DEF LoginsInWork
  <2>6. net' \subseteq Messages
    <3>1. net' \subseteq net \cup FromServer("replaced", m, r.cookie, r.chan)
      BY <1>1 DEF AcceptLogin, Rest
    <3> QED  BY <3>1, <2>1, <2>2, FromServerType DEF TypeOK
  <2>7. disturbed' \subseteq Devices \X Nat
    <3>1. \A k \in LoginsOf(m.user) : LoginName(k.msg) \in Devices \X Nat
      BY DEF TypeOK, LoginsOf, LoginName, Messages
    <3> QED  BY <1>1, <2>1, <3>1 DEF AcceptLogin, Disturb, TypeOK
  <2> HIDE DEF l
  <2> QED  BY <1>1, <2>3, <2>4, <2>5, <2>6, <2>7 DEF AcceptLogin, LoginsInWork, TypeOK
<1>2. ASSUME NEW l \in handling, LoginStep(l)  PROVE TypeOK'
  <2>1. /\ l.msg \in Messages /\ l.msg.user \in Users /\ l.msg.dev \in Devices
        /\ l.new \in Cookies /\ (l.count = NotCounted \/ l.count \in Counts)
    BY <1>2 DEF TypeOK, Messages
  <2>2. ASSUME NEW s \in {"bind", "answer"}, GoesTo(l, s)
        PROVE  handling' \subseteq LoginsInWork
    BY <2>2 DEF GoesTo, LoginsInWork, TypeOK
  <2>3. CASE AssignCookie(l)
    <3>1. rec' \in Records
      BY <2>1, <2>3, RecordType DEF AssignCookie
    <3>2. nOnlineUsers' \in Counts
      <4>1. nOnlineUsers \in Counts  BY DEF TypeOK
      <4>2. CountUp(nOnlineUsers) \in Counts  BY <4>1, CountType
      <4> QED  BY <2>1, <2>3, <4>1, <4>2 DEF AssignCookie
    <3> QED  BY <3>1, <3>2, <2>2, <2>3 DEF AssignCookie, Records, LoginsInWork, TypeOK
  <2>4. CASE BindChannel(l)
    <3>1. rec' \in Records
      BY <2>1, <2>4 DEF BindChannel, Records, TypeOK
    <3> QED  BY <3>1, <2>2, <2>4 DEF BindChannel, Records, LoginsInWork, TypeOK
  <2>5. CASE AnswerLogin(l)
    <3>1. rec[l.msg.user].cookie \in Cookies  BY <2>1 DEF TypeOK
    <3>2. net' \subseteq Messages
      BY <2>1, <2>5, <3>1, FromServerType DEF AnswerLogin, TypeOK
    <3> QED  BY <3>2, <2>5 DEF AnswerLogin, TypeOK
  <2> QED  BY <1>2, <2>3, <2>4, <2>5 DEF LoginStep
<1>3. ASSUME NEW m \in net, HandleLogout(m)  PROVE TypeOK'
  <2>1. m.user \in Users  BY <1>3 DEF TypeOK, Messages
  <2>2. net' \subseteq Messages  BY <1>3 DEF HandleLogout, Rest, TypeOK
  <2>3. CASE TakeOffline(m.user, "logout")
    BY <1>3, <2>1, <2>2, <2>3, TakeOfflineType DEF HandleLogout, TakeOffline, Records, Offlines, TypeOK
  <2>4. CASE UNCHANGED <<rec, offline, disturbed>>
    BY <1>3, <2>2, <2>4 DEF HandleLogout, TypeOK
  <2> QED  BY <1>3, <2>3, <2>4 DEF HandleLogout
<1>4. ASSUME NEW m \in net, HandleHeartbeat(m)  PROVE TypeOK'
  <2>1. m \in Messages /\ m.user \in Users /\ m.cookie \in Cookies /\ m.dev \in Devices
    BY <1>4 DEF TypeOK, Messages
  <2>2. net' \subseteq Messages
    BY <1>4, <2>1, FromServerType DEF HandleHeartbeat, Rest, TypeOK
  <2>3. rec' \in Records
    BY <1>4, <2>1, RecordType DEF HandleHeartbeat, Records, TypeOK
  <2> QED  BY <1>4, <2>2, <2>3 DEF HandleHeartbeat, Records, TypeOK
<1>5. ASSUME NEW u \in Users, TimePasses(u)  PROVE TypeOK'
  BY <1>5, RecordType DEF TimePasses, Records, TypeOK
<1>6. ASSUME NEW u \in Users, TickJudge(u)  PROVE TypeOK'
  <2>1. tick.count \in Counts /\ CountUp(tick.count) \in Counts  BY CountType DEF TypeOK
  <2>2. tick' \in Ticks  BY <1>6, <2>1 DEF TickJudge, Ticks, TypeOK
  <2> QED  BY <1>6, <2>2 DEF TickJudge, Ticks, TypeOK
<1>7. CASE TickDrop
  <2>1. tick.user \in Users  BY <1>7 DEF TickDrop, TypeOK
  <2> QED  BY <1>7, <2>1, TakeOfflineType DEF TickDrop, TakeOffline, Records, Offlines, TypeOK
<1>8. CASE TickEnd
  BY <1>8 DEF TickEnd, TickDone, NoTick, Counts, TypeOK
<1>9. CASE OfflineStep
  BY <1>9, OfflineStepType DEF Ticks, Offlines, TypeOK
<1> QED  BY <1>1, <1>2, <1>3, <1>4, <1>5, <1>6, <1>7, <1>8, <1>9 DEF ServerNext, TickStep

\* Logout, whoever calls it, keeps the types of what it writes.
LEMMA LogoutType ==
  ASSUME TypeOK, NEW d \in Devices, NEW rest \in SUBSET Messages, Logout(d, rest),
         UNCHANGED logins
  PROVE  /\ net' \subseteq Messages
         /\ login' \in [Devices -> BOOLEAN]
         /\ cookie' \in [Devices -> Cookies]
<1>1. Request("logout", d) \in Messages  BY RequestType DEF TypeOK
<1>2. net' \subseteq Messages  BY <1>1 DEF Logout
<1> QED  BY <1>2 DEF Logout, TypeOK, Cookies

LEMMA ClientType ==
  ASSUME TypeOK, ClientNext, UNCHANGED serverVars
  PROVE  TypeOK'
<1> USE DEF serverVars, Free
<1>1. PICK d \in Devices :
        \/ UserLogsOut(d) \/ LoginAsk(d) \/ LoginFails(d) \/ Heartbeat(d) \/ SessionExpires(d)
        \/ \E m \in net : LoginSucceeds(d, m) \/ HeartbeatDenied(d, m) \/ LoginReplaced(d, m)
  BY DEF ClientNext
<1>2. CASE UserLogsOut(d)
  BY <1>2, LogoutType DEF UserLogsOut, TypeOK
<1>3. CASE LoginAsk(d)
  <2>1. logins' \in [Devices -> Nat] /\ caller' \in [Devices -> {"idle", "waiting"}]
    <3>1. /\ caller' = [caller EXCEPT ![d] = "waiting"]
          /\ logins' = [logins EXCEPT ![d] = @ + 1]
      BY <1>3 DEF LoginAsk
    <3> QED  BY <3>1 DEF TypeOK
  <2>2. net' \subseteq Messages  BY <1>3, <2>1, RequestType DEF LoginAsk, TypeOK
  <2> QED  BY <1>3, <2>1, <2>2 DEF LoginAsk, TypeOK
<1>4. CASE LoginFails(d)
  BY <1>4 DEF LoginFails, TypeOK
<1>5. CASE Heartbeat(d)
  <2>1. net' \subseteq Messages
    BY <1>5, RequestType DEF Heartbeat, clientVars, TypeOK
  <2> QED  BY <1>5, <2>1 DEF Heartbeat, clientVars, TypeOK
<1>6. CASE SessionExpires(d)
  <2>1. CASE login[d]
    BY <1>6, <2>1, LogoutType DEF SessionExpires, TypeOK
  <2>2. CASE ~ login[d]
    BY <1>6, <2>2 DEF SessionExpires, TypeOK
  <2> QED  BY <2>1, <2>2
<1>7. ASSUME NEW m \in net, LoginSucceeds(d, m)  PROVE TypeOK'
  <2>1. m.cookie \in Cookies  BY <1>7 DEF TypeOK, Messages
  <2> QED  BY <1>7, <2>1 DEF LoginSucceeds, Rest, TypeOK
<1>8. ASSUME NEW m \in net, HeartbeatDenied(d, m)  PROVE TypeOK'
  BY <1>8 DEF HeartbeatDenied, Rest, TypeOK
<1>9. ASSUME NEW m \in net, LoginReplaced(d, m)  PROVE TypeOK'
  <2>1. Rest(m) \in SUBSET Messages  BY DEF Rest, TypeOK
  <2>2. CASE Logout(d, Rest(m))
    BY <1>9, <2>1, <2>2, LogoutType DEF LoginReplaced, TypeOK
  <2>3. CASE net' = Rest(m) /\ UNCHANGED <<login, cookie>>
    BY <1>9, <2>1, <2>3 DEF LoginReplaced, TypeOK
  <2> QED  BY <1>9, <2>2, <2>3 DEF LoginReplaced
<1> QED  BY <1>1, <1>2, <1>3, <1>4, <1>5, <1>6, <1>7, <1>8, <1>9

LEMMA TypeStep == TypeOK /\ [Next]_vars => TypeOK'
<1> SUFFICES ASSUME TypeOK, [Next]_vars  PROVE TypeOK'
  OBVIOUS
<1>1. CASE ServerNext /\ UNCHANGED clientVars  BY <1>1, ServerType
<1>2. CASE ClientNext /\ UNCHANGED serverVars  BY <1>2, ClientType
<1>3. CASE (\E m \in net : Lose(m)) /\ UNCHANGED <<serverVars, clientVars>>
  BY <1>3 DEF Lose, Rest, serverVars, clientVars, Free, TypeOK
<1>4. CASE UNCHANGED vars
  BY <1>4 DEF vars, serverVars, clientVars, Free, TypeOK
<1> QED  BY <1>1, <1>2, <1>3, <1>4 DEF Next

\* Every message, record and login in work keeps its shape, whatever the threads do between
\* the test of nOnlineUsers and its decrement: the count may pass below 0 there, to the
\* largest unsigned integer, and stays one.  CheckUserStatus keeps the account it found until
\* its UserOffline has ended, whoever else waits for the lock.
THEOREM SessionTypes == Spec => []TypeOK
  BY TypeInit, TypeStep, PTL DEF Spec
----------------------------------------------------------------------------
(* A client gets the cookie 0 only from a UserOffline during its login: before the answer  *)
(* is made up the record has the cookie of this login or of another one, and an answer     *)
(* that is on its way has kept what the record had.                                        *)

Named(l) == LoginName(l.msg) \in disturbed

LoginsInOrder ==
  \A l \in handling :
    /\ l.new # 0
    /\ l.stage # "assign" /\ rec[l.msg.user].cookie = 0 => Named(l)

AnswersInOrder ==
  \A m \in net : m.kind = "accepted" /\ m.cookie = 0 => <<m.to, m.n>> \in disturbed

ZeroInv == TypeOK /\ LoginsInOrder /\ AnswersInOrder /\ ZeroCookieRaced

LEMMA ZeroInit == Init => ZeroInv
<1>1. Init => LoginsInOrder /\ AnswersInOrder /\ ZeroCookieRaced
  BY DEF Init, ServerInit, ClientInit, LoginsInOrder, AnswersInOrder, ZeroCookieRaced
<1> QED  BY <1>1, TypeInit DEF ZeroInv

\* A client is not affected by a step of the server: disturbed only grows.
LEMMA ZeroAtClients ==
  ASSUME ZeroCookieRaced, disturbed \subseteq disturbed', UNCHANGED clientVars
  PROVE  ZeroCookieRaced'
  BY DEF ZeroCookieRaced, clientVars

\* Nor is the net, when no answer to a login is put on it.
LEMMA ZeroOnNet ==
  ASSUME AnswersInOrder, disturbed \subseteq disturbed',
         \A m \in net' : m \in net \/ m.kind # "accepted"
  PROVE  AnswersInOrder'
  BY DEF AnswersInOrder

LEMMA OfflineNamesLogins ==
  ASSUME TypeOK, LoginsInOrder, NEW u \in Users, NEW runner, TakeOffline(u, runner),
         UNCHANGED handling
  PROVE  LoginsInOrder' /\ disturbed \subseteq disturbed'
<1>1. disturbed' = disturbed \cup {LoginName(l.msg) : l \in LoginsOf(u)}
  BY DEF TakeOffline, Disturb
<1>2. ASSUME NEW l \in handling, l.stage # "assign", rec'[l.msg.user].cookie = 0
      PROVE  LoginName(l.msg) \in disturbed'
  <2>1. CASE l.msg.user = u  BY <1>1, <2>1 DEF LoginsOf
  <2>2. CASE l.msg.user # u
    <3>1. rec'[l.msg.user] = rec[l.msg.user]
      BY <2>2 DEF TakeOffline, TypeOK, Messages
    <3> QED  BY <1>1, <1>2, <3>1 DEF LoginsInOrder, Named
  <2> QED  BY <2>1, <2>2
<1> QED  BY <1>1, <1>2 DEF LoginsInOrder, Named

LEMMA ZeroServer ==
  ASSUME ZeroInv, ServerNext, UNCHANGED clientVars
  PROVE  LoginsInOrder' /\ AnswersInOrder' /\ ZeroCookieRaced'
<1> USE DEF ZeroInv
<1>1. ASSUME NEW m \in net, AcceptLogin(m)  PROVE LoginsInOrder' /\ AnswersInOrder' /\ ZeroCookieRaced'
  <2>1. disturbed \subseteq disturbed'  BY <1>1 DEF AcceptLogin, Disturb
  <2>2. \A k \in net' : k \in net \/ k.kind # "accepted"
    BY <1>1 DEF AcceptLogin, Rest, FromServer, Message
  <2>3. LoginsInOrder'
    <3> DEFINE r == rec[m.user]
               same == r.cookie # 0 /\ r.chan = m.dev
               l == [stage |-> IF same THEN "bind" ELSE "assign", msg |-> m, new |-> NewCookie,
                     count |-> IF r.cookie = 0 THEN CountUp(nOnlineUsers) ELSE NotCounted]
    <3>1. /\ handling' = handling \cup {l} /\ l.new = NewCookie
          /\ l.msg = m /\ (l.stage # "assign" => rec[m.user].cookie # 0)
      BY <1>1 DEF AcceptLogin
    <3> HIDE DEF l
    <3>2. NewCookie # 0  BY DEF NewCookie, TypeOK, Cookies
    <3>3. UNCHANGED rec  BY <1>1 DEF AcceptLogin
    <3> QED  BY <2>1, <3>1, <3>2, <3>3 DEF LoginsInOrder, Named
  <2> QED  BY <2>1, <2>2, <2>3, ZeroAtClients, ZeroOnNet
<1>2. ASSUME NEW l \in handling, LoginStep(l)  PROVE LoginsInOrder' /\ AnswersInOrder' /\ ZeroCookieRaced'
  <2>1. UNCHANGED disturbed /\ l.msg.user \in Users /\ l.msg.dev \in Devices
    BY <1>2 DEF LoginStep, AssignCookie, BindChannel, AnswerLogin, TypeOK, Messages
  <2>2. ASSUME NEW s \in {"bind", "answer"}, GoesTo(l, s), NEW k \in handling'
        PROVE  \/ k \in handling
               \/ k.msg = l.msg /\ k.new = l.new
    BY <2>2 DEF GoesTo, TypeOK
  <2>3. CASE AssignCookie(l)
    <3>1. rec'[l.msg.user].cookie = l.new /\ l.new # 0
      BY <2>1, <2>3 DEF AssignCookie, TypeOK, LoginsInOrder
    <3>2. \A u \in Users : u # l.msg.user => rec'[u] = rec[u]
      BY <2>3 DEF AssignCookie, TypeOK
    <3>3. ASSUME NEW k \in handling'
          PROVE  k.new # 0 /\ (k.stage # "assign" /\ rec'[k.msg.user].cookie = 0 => Named(k)')
      <4>1. CASE k.msg.user = l.msg.user
        BY <2>2, <2>3, <3>1, <4>1 DEF AssignCookie, LoginsInOrder
      <4>2. CASE k.msg.user # l.msg.user
        <5>1. k \in handling  BY <2>2, <2>3, <4>2 DEF AssignCookie
        <5>2. rec'[k.msg.user] = rec[k.msg.user]
          BY <3>2, <4>2, <5>1 DEF TypeOK, Messages
        <5> QED  BY <2>1, <5>1, <5>2 DEF LoginsInOrder, Named
      <4> QED  BY <4>1, <4>2
    <3>4. LoginsInOrder'  BY <3>3 DEF LoginsInOrder
    <3>5. UNCHANGED net  BY <2>3 DEF AssignCookie
    <3> QED  BY <2>1, <3>4, <3>5, ZeroAtClients, ZeroOnNet
  <2>4. CASE BindChannel(l)
    <3>1. \A u \in Users : rec'[u].cookie = rec[u].cookie
      BY <2>1, <2>4 DEF BindChannel, TypeOK
    <3>2. LoginsInOrder'
      <4>1. ASSUME NEW k \in handling'
            PROVE  k.new # 0 /\ (k.stage # "assign" /\ rec'[k.msg.user].cookie = 0 => Named(k)')
        <5>1. CASE k \in handling
          <6>1. k.msg.user \in Users  BY <5>1 DEF TypeOK, Messages
          <6> QED  BY <2>1, <3>1, <5>1, <6>1 DEF LoginsInOrder, Named
        <5>2. CASE k.msg = l.msg /\ k.new = l.new
          <6>1. l.stage # "assign"  BY <2>4 DEF BindChannel
          <6> QED  BY <2>1, <3>1, <5>2, <6>1 DEF LoginsInOrder, Named
        <5> QED  BY <2>2, <2>4, <5>1, <5>2 DEF BindChannel
      <4> QED  BY <4>1 DEF LoginsInOrder
    <3>3. UNCHANGED net  BY <2>4 DEF BindChannel
    <3> QED  BY <2>1, <3>2, <3>3, ZeroAtClients, ZeroOnNet
  <2>5. CASE AnswerLogin(l)
    <3>1. LoginsInOrder'  BY <2>1, <2>5 DEF AnswerLogin, LoginsInOrder, Named
    <3>2. rec[l.msg.user].cookie = 0 => Named(l)
      BY <2>5 DEF AnswerLogin, LoginsInOrder
    <3>3. AnswersInOrder'
      BY <2>1, <2>5, <3>2
      DEF AnswerLogin, AnswersInOrder, FromServer, Message, Named, LoginName
    <3> QED  BY <2>1, <3>1, <3>3, ZeroAtClients
  <2> QED  BY <1>2, <2>3, <2>4, <2>5 DEF LoginStep
<1>3. ASSUME NEW m \in net, HandleLogout(m)  PROVE LoginsInOrder' /\ AnswersInOrder' /\ ZeroCookieRaced'
  <2>1. m.user \in Users /\ UNCHANGED handling  BY <1>3 DEF HandleLogout, TypeOK, Messages
  <2>2. LoginsInOrder' /\ disturbed \subseteq disturbed'
    BY <1>3, <2>1, OfflineNamesLogins DEF HandleLogout, LoginsInOrder, Named
  <2>3. \A k \in net' : k \in net  BY <1>3 DEF HandleLogout, Rest
  <2> QED  BY <2>2, <2>3, ZeroAtClients, ZeroOnNet
<1>4. ASSUME NEW m \in net, HandleHeartbeat(m)  PROVE LoginsInOrder' /\ AnswersInOrder' /\ ZeroCookieRaced'
  <2>1. \A u \in Users : rec'[u].cookie = rec[u].cookie
    BY <1>4 DEF HandleHeartbeat, TypeOK, Messages
  <2>2. UNCHANGED <<handling, disturbed>>  BY <1>4 DEF HandleHeartbeat
  <2>3. LoginsInOrder'
    BY <2>1, <2>2 DEF LoginsInOrder, Named, TypeOK, Messages
  <2>4. \A k \in net' : k \in net \/ k.kind # "accepted"
    BY <1>4 DEF HandleHeartbeat, Rest, FromServer, Message
  <2> QED  BY <2>2, <2>3, <2>4, ZeroAtClients, ZeroOnNet
<1>5. ASSUME NEW u \in Users, TimePasses(u)  PROVE LoginsInOrder' /\ AnswersInOrder' /\ ZeroCookieRaced'
  <2>1. \A v \in Users : rec'[v].cookie = rec[v].cookie  BY <1>5 DEF TimePasses, TypeOK
  <2>2. UNCHANGED <<handling, disturbed, net>>  BY <1>5 DEF TimePasses
  <2>3. LoginsInOrder'
    BY <2>1, <2>2 DEF LoginsInOrder, Named, TypeOK, Messages
  <2> QED  BY <2>2, <2>3, ZeroAtClients, ZeroOnNet
<1>6. ASSUME UNCHANGED <<rec, handling, disturbed, net>>
      PROVE  LoginsInOrder' /\ AnswersInOrder' /\ ZeroCookieRaced'
  BY <1>6, ZeroAtClients, ZeroOnNet DEF LoginsInOrder, Named
<1>7. CASE TickDrop
  <2>1. tick.user \in Users /\ UNCHANGED <<handling, net>>  BY <1>7 DEF TickDrop, TypeOK
  <2>2. LoginsInOrder' /\ disturbed \subseteq disturbed'
    BY <1>7, <2>1, OfflineNamesLogins DEF TickDrop
  <2> QED  BY <2>1, <2>2, ZeroAtClients, ZeroOnNet
<1> QED
  BY <1>1, <1>2, <1>3, <1>4, <1>5, <1>6, <1>7
  DEF ServerNext, OfflineStep, OfflineTest, OfflineCount, TickStep, TickJudge, TickEnd

\* A client's step leaves the server as it is, puts no answer to a login on the net, and logs
\* in only with the answer to its last login.
LEMMA ZeroClient ==
  ASSUME ZeroInv, ClientNext, UNCHANGED serverVars
  PROVE  LoginsInOrder' /\ AnswersInOrder' /\ ZeroCookieRaced'
<1> USE DEF ZeroInv, serverVars
<1>1. LoginsInOrder'  BY DEF LoginsInOrder, Named
<1>2. PICK d \in Devices :
        \/ UserLogsOut(d) \/ LoginAsk(d) \/ LoginFails(d) \/ Heartbeat(d) \/ SessionExpires(d)
        \/ \E m \in net : LoginSucceeds(d, m) \/ HeartbeatDenied(d, m) \/ LoginReplaced(d, m)
  BY DEF ClientNext
<1>3. ASSUME NEW rest \in SUBSET net, Logout(d, rest), UNCHANGED logins
      PROVE  AnswersInOrder' /\ ZeroCookieRaced'
  <2>1. \A m \in net' : m \in net \/ m.kind # "accepted"
    BY <1>3 DEF Logout, Request, Message
  <2>2. ZeroCookieRaced'  BY <1>3 DEF Logout, ZeroCookieRaced, TypeOK
  <2> QED  BY <2>1, <2>2, ZeroOnNet
<1>4. CASE UserLogsOut(d)  BY <1>1, <1>3, <1>4 DEF UserLogsOut
<1>5. CASE LoginAsk(d)
  <2>1. /\ ~ login[d] /\ UNCHANGED <<login, cookie>>
        /\ logins' = [logins EXCEPT ![d] = @ + 1] /\ net' = net \cup {Request("login", d)}
    BY <1>5 DEF LoginAsk
  <2>2. \A m \in net' : m \in net \/ m.kind # "accepted"  BY <2>1 DEF Request, Message
  <2>3. ZeroCookieRaced'  BY <2>1 DEF ZeroCookieRaced, TypeOK
  <2> QED  BY <1>1, <2>2, <2>3, ZeroOnNet
<1>6. CASE LoginFails(d)
  BY <1>1, <1>6, ZeroOnNet DEF LoginFails, ZeroCookieRaced
<1>7. CASE Heartbeat(d)
  <2>1. \A m \in net' : m \in net \/ m.kind # "accepted"
    BY <1>7 DEF Heartbeat, Request, Message
  <2>2. UNCHANGED clientVars  BY <1>7 DEF Heartbeat
  <2> QED  BY <1>1, <2>1, <2>2, ZeroAtClients, ZeroOnNet
<1>8. CASE SessionExpires(d)
  <2>1. CASE login[d]  BY <1>1, <1>3, <1>8, <2>1 DEF SessionExpires
  <2>2. CASE ~ login[d]
    BY <1>1, <1>8, <2>2, ZeroOnNet DEF SessionExpires, ZeroCookieRaced
  <2> QED  BY <2>1, <2>2
<1>9. ASSUME NEW m \in net, LoginSucceeds(d, m)  PROVE AnswersInOrder' /\ ZeroCookieRaced'
  <2>1. m.cookie = 0 => <<d, logins[d]>> \in disturbed
    BY <1>9 DEF LoginSucceeds, Receives, AnswersInOrder
  <2>2. ZeroCookieRaced'  BY <1>9, <2>1 DEF LoginSucceeds, ZeroCookieRaced, TypeOK
  <2> QED  BY <1>9, <2>2, ZeroOnNet DEF LoginSucceeds, Rest
<1>10. ASSUME NEW m \in net, HeartbeatDenied(d, m)  PROVE AnswersInOrder' /\ ZeroCookieRaced'
  BY <1>10, ZeroOnNet DEF HeartbeatDenied, Rest, ZeroCookieRaced
<1>11. ASSUME NEW m \in net, LoginReplaced(d, m)  PROVE AnswersInOrder' /\ ZeroCookieRaced'
  <2>1. Rest(m) \in SUBSET net /\ UNCHANGED logins  BY <1>11 DEF Rest, LoginReplaced
  <2>2. CASE Logout(d, Rest(m))  BY <1>3, <2>1, <2>2
  <2>3. CASE net' = Rest(m) /\ UNCHANGED <<login, cookie>>
    BY <2>1, <2>3, ZeroOnNet DEF ZeroCookieRaced
  <2> QED  BY <1>11, <2>2, <2>3 DEF LoginReplaced
<1> QED  BY <1>1, <1>2, <1>4, <1>5, <1>6, <1>7, <1>8, <1>9, <1>10, <1>11

LEMMA ZeroStep == ZeroInv /\ [Next]_vars => ZeroInv'
<1> SUFFICES ASSUME ZeroInv, [Next]_vars  PROVE ZeroInv'
  OBVIOUS
<1>1. TypeOK'  BY TypeStep DEF ZeroInv
<1>2. CASE ServerNext /\ UNCHANGED clientVars  BY <1>1, <1>2, ZeroServer DEF ZeroInv
<1>3. CASE ClientNext /\ UNCHANGED serverVars  BY <1>1, <1>3, ZeroClient DEF ZeroInv
<1>4. CASE (\E m \in net : Lose(m)) /\ UNCHANGED <<serverVars, clientVars>>
  <2>1. LoginsInOrder'  BY <1>4 DEF ZeroInv, LoginsInOrder, Named, serverVars
  <2> QED  BY <1>1, <1>4, <2>1, ZeroAtClients, ZeroOnNet DEF Lose, Rest, ZeroInv, serverVars
<1>5. CASE UNCHANGED vars
  <2>1. LoginsInOrder'  BY <1>5 DEF ZeroInv, LoginsInOrder, Named, vars, serverVars
  <2> QED  BY <1>1, <1>5, <2>1, ZeroAtClients, ZeroOnNet DEF vars, ZeroInv, serverVars
<1> QED  BY <1>2, <1>3, <1>4, <1>5 DEF Next

\* "cookie == 0, means offline, so never use 0 as cookie": a client that is logged in with
\* the cookie 0 lost its session to a UserOffline that ran during DoClientLoginEx, without
\* its lock; in every other order of the threads the cookie is another.
THEOREM NoZeroCookie == Spec => []ZeroCookieRaced
<1>1. ZeroInv => ZeroCookieRaced  BY DEF ZeroInv
<1> QED  BY <1>1, ZeroInit, ZeroStep, PTL DEF Spec
----------------------------------------------------------------------------
(* One login: no two clients hold one session unless a login was disturbed.  A client      *)
(* holds a session when it is logged in with it, or when the answer that gives it one is    *)
(* on its way.                                                                              *)

Holder(d, n, u, k) ==
  \/ \E m \in net : m.kind = "accepted" /\ m.to = d /\ m.n = n /\ m.user = u /\ m.cookie = k
  \/ login[d] /\ logins[d] = n /\ account[d] = u /\ cookie[d] = k

\* What is on its way or in work is for the account of its client.
Addressed ==
  /\ \A m \in net : m.kind \in {"login", "accepted"} => m.user = account[m.dev]
  /\ \A m \in net : m.kind = "accepted" => m.to = m.dev
  /\ \A l \in handling : l.msg.user = account[l.msg.dev]

\* No cookie is above the last one given, and the one of a login that has not written it is
\* nobody's.
CookiesFresh ==
  /\ \A u \in Users : rec[u].cookie <= issued
  /\ \A d \in Devices, n \in Nat, u \in Users, k \in Cookies :
       Holder(d, n, u, k) => k <= issued
  /\ \A l \in handling : l.new # 0 /\ l.new <= issued
  /\ \A l, o \in handling : l.new = o.new => l = o
  /\ \A l \in handling : l.stage = "assign" =>
       /\ \A u \in Users : rec[u].cookie # l.new
       /\ \A d \in Devices, n \in Nat, u \in Users : ~ Holder(d, n, u, l.new)

\* A login that is handled together with another one of its account is disturbed.
Alone == \A l, o \in handling : (l.msg.user = o.msg.user /\ l # o) => Named(l)

\* One that was not finds its own address in the record when it answers.
Bound ==
  \A l \in handling : l.stage = "answer" => (Named(l) \/ rec[l.msg.user].chan = l.msg.dev)

\* While the record has the cookie that an undisturbed login gave, it has the address too,
\* and whoever is about to write another address has not written its cookie yet.
Kept ==
  \A d \in Devices, n \in Nat, u \in Users, k \in Cookies :
    (Holder(d, n, u, k) /\ k # 0 /\ <<d, n>> \notin disturbed /\ rec[u].cookie = k) =>
      /\ rec[u].chan = d
      /\ \A l \in handling : (l.msg.user = u /\ l.stage # "assign") => l.msg.dev = d

OneHolder ==
  \A d, e \in Devices, n, m \in Nat, u \in Users, k \in Cookies :
    (Holder(d, n, u, k) /\ Holder(e, m, u, k) /\ k # 0 /\ <<d, n>> \notin disturbed
      /\ <<e, m>> \notin disturbed) => d = e

HolderInv == CookiesFresh /\ Alone /\ Bound /\ Kept /\ OneHolder
OneInv == TypeOK /\ Addressed /\ HolderInv

LEMMA OneInit == Init => OneInv
<1> SUFFICES ASSUME Init  PROVE OneInv
  OBVIOUS
<1> USE DEF Init, ServerInit, ClientInit
<1>1. TypeOK  BY TypeInit
<1>2. Addressed  BY DEF Addressed
<1>3. \A d \in Devices, n \in Nat, u \in Users, k \in Cookies : ~ Holder(d, n, u, k)
  BY DEF Holder
<1>4. CookiesFresh  BY <1>3 DEF CookiesFresh
<1>5. Alone /\ Bound /\ Kept /\ OneHolder
  BY <1>3 DEF Alone, Bound, Kept, OneHolder
<1> QED  BY <1>1, <1>2, <1>4, <1>5 DEF OneInv, HolderInv

\* A client holds its session as long as it is logged in, and no step of the server but the
\* answer to a login makes it hold another one.
LEMMA ServerHolders ==
  ASSUME UNCHANGED clientVars, \A m \in net' : m \in net \/ m.kind # "accepted",
         NEW d \in Devices, NEW n \in Nat, NEW u \in Users, NEW k \in Cookies,
         Holder(d, n, u, k)'
  PROVE  Holder(d, n, u, k)
  BY DEF Holder, clientVars

NoNewHolder ==
  \A d \in Devices, n \in Nat, u \in Users, k \in Cookies :
    Holder(d, n, u, k)' => Holder(d, n, u, k)

\* A step that makes no holder, and leaves the logins in work, the addresses and the cookies
\* as they are or takes accounts offline.
LEMMA QuietStep ==
  ASSUME TypeOK, HolderInv, NoNewHolder, UNCHANGED <<handling, issued>>,
         disturbed \subseteq disturbed',
         \A u \in Users : rec'[u].chan = rec[u].chan /\ rec'[u].cookie \in {0, rec[u].cookie}
  PROVE  HolderInv'
<1> USE DEF HolderInv
<1>1. CookiesFresh'
  <2>1. ASSUME NEW u \in Users  PROVE rec'[u].cookie <= issued'
    <3>1. issued \in Cookies /\ issued' = issued  BY DEF TypeOK
    <3>2. 0 <= issued  BY <3>1 DEF Cookies
    <3>3. rec[u].cookie <= issued  BY DEF CookiesFresh
    <3> QED  BY <3>1, <3>2, <3>3
  <2>2. \A d \in Devices, n \in Nat, u \in Users, k \in Cookies :
          Holder(d, n, u, k)' => k <= issued'
    BY DEF CookiesFresh, NoNewHolder
  <2>3. /\ \A l \in handling' : l.new # 0 /\ l.new <= issued'
        /\ \A l, o \in handling' : l.new = o.new => l = o
    BY DEF CookiesFresh
  <2>4. ASSUME NEW l \in handling', l.stage = "assign"
        PROVE  /\ \A u \in Users : rec'[u].cookie # l.new
               /\ \A d \in Devices, n \in Nat, u \in Users : ~ Holder(d, n, u, l.new)'
    <3>1. l \in handling /\ l.new \in Cookies  BY DEF TypeOK
    <3>2. \A u \in Users : rec'[u].cookie # l.new  BY <2>4, <3>1 DEF CookiesFresh
    <3>3. \A d \in Devices, n \in Nat, u \in Users : ~ Holder(d, n, u, l.new)
      BY <2>4, <3>1 DEF CookiesFresh
    <3> QED  BY <3>1, <3>2, <3>3 DEF NoNewHolder
  <2> QED  BY <2>1, <2>2, <2>3, <2>4 DEF CookiesFresh
<1>2. Alone'  BY DEF Alone, Named
<1>3. Bound'  BY DEF Bound, Named, TypeOK, Messages
<1>4. Kept'
  <2> SUFFICES ASSUME NEW d \in Devices, NEW n \in Nat, NEW u \in Users, NEW k \in Cookies,
                      Holder(d, n, u, k)', k # 0, <<d, n>> \notin disturbed',
                      rec'[u].cookie = k
               PROVE  /\ rec'[u].chan = d
                      /\ \A l \in handling' : (l.msg.user = u /\ l.stage # "assign")
                           => l.msg.dev = d
    BY DEF Kept
  <2>1. Holder(d, n, u, k) /\ rec[u].cookie = k /\ <<d, n>> \notin disturbed
    BY DEF NoNewHolder
  <2> QED  BY <2>1 DEF Kept
<1>5. OneHolder'
  <2> SUFFICES ASSUME NEW d \in Devices, NEW e \in Devices, NEW n \in Nat, NEW m \in Nat,
                      NEW u \in Users, NEW k \in Cookies,
                      Holder(d, n, u, k)', Holder(e, m, u, k)', k # 0,
                      <<d, n>> \notin disturbed', <<e, m>> \notin disturbed'
               PROVE  d = e
    BY DEF OneHolder
  <2> QED  BY DEF NoNewHolder, OneHolder
<1> QED  BY <1>1, <1>2, <1>3, <1>4, <1>5

\* A login moves on to its next stage.
LEMMA MovesOn ==
  ASSUME TypeOK, CookiesFresh, NEW l \in handling, NEW s \in {"bind", "answer"}, GoesTo(l, s)
  PROVE  /\ \A o \in handling' : \/ o \in handling /\ o # l
                                 \/ o.msg = l.msg /\ o.new = l.new /\ o.stage = s
         /\ \A o, q \in handling' : o.new = q.new => o = q
<1>1. l \in LoginsInWork  BY DEF LoginsInWork, TypeOK
<1>2. PICK p : /\ handling' = (handling \ {l}) \cup {p}
               /\ p.msg = l.msg /\ p.new = l.new /\ p.stage = s
  <2> DEFINE moved == [l EXCEPT !.stage = s, !.count = NotCounted]
  <2>1. /\ handling' = (handling \ {l}) \cup {moved}
        /\ moved.msg = l.msg /\ moved.new = l.new /\ moved.stage = s
    BY <1>1 DEF GoesTo, LoginsInWork
  <2> HIDE DEF moved
  <2> QED  BY <2>1
<1> QED  BY <1>2 DEF CookiesFresh

\* DoClientLoginEx begins, perhaps while another thread is in it for the same account: then
\* all of them are disturbed.
LEMMA OneAccept ==
  ASSUME OneInv, NEW m \in net, AcceptLogin(m), UNCHANGED clientVars
  PROVE  HolderInv'
<1> USE DEF OneInv, HolderInv
<1>1. PICK l :
        /\ handling' = handling \cup {l} /\ l.new = issued + 1 /\ l.msg = m
        /\ l.stage \in {"assign", "bind"}
        /\ (l.stage # "assign" => rec[m.user].cookie # 0 /\ rec[m.user].chan = m.dev)
        /\ issued' = issued + 1 /\ UNCHANGED rec
  <2> DEFINE r == rec[m.user]
             same == r.cookie # 0 /\ r.chan = m.dev
             new == [stage |-> IF same THEN "bind" ELSE "assign", msg |-> m, new |-> NewCookie,
                     count |-> IF r.cookie = 0 THEN CountUp(nOnlineUsers) ELSE NotCounted]
  <2>1. /\ handling' = handling \cup {new} /\ new.new = issued + 1 /\ new.msg = m
        /\ new.stage \in {"assign", "bind"}
        /\ (new.stage # "assign" => rec[m.user].cookie # 0 /\ rec[m.user].chan = m.dev)
        /\ issued' = issued + 1 /\ UNCHANGED rec
    BY DEF AcceptLogin, NewCookie
  <2> HIDE DEF new
  <2> QED  BY <2>1
<1>2. issued \in Nat /\ m.user \in Users  BY DEF TypeOK, Cookies, Messages
<1>3. disturbed \subseteq disturbed'  BY DEF AcceptLogin, Disturb
<1>4. \A k \in net' : k \in net \/ k.kind # "accepted"
  BY DEF AcceptLogin, Rest, FromServer, Message
<1>5. NoNewHolder  BY <1>4, ServerHolders DEF NoNewHolder
<1>6. \A o \in handling : o.new # l.new /\ o.new <= issued /\ o.new \in Nat
  <2>1. \A o \in handling : o.new \in Nat  BY DEF TypeOK, Cookies
  <2> QED  BY <1>1, <1>2, <2>1 DEF CookiesFresh
<1>7. \A o \in handling : o.msg.user = m.user => Named(o)' /\ Named(l)'
  <2> SUFFICES ASSUME NEW o \in handling, o.msg.user = m.user  PROVE Named(o)' /\ Named(l)'
    OBVIOUS
  <2>1. o \in LoginsOf(m.user)  BY DEF LoginsOf
  <2>2. disturbed' = Disturb(LoginsOf(m.user)) \cup {LoginName(m)}
    BY <2>1 DEF AcceptLogin
  <2> QED  BY <1>1, <2>1, <2>2 DEF Disturb, Named
<1>8. CookiesFresh'
  <2>1. \A u \in Users : rec[u].cookie \in Nat /\ rec[u].cookie <= issued
    BY DEF CookiesFresh, TypeOK, Cookies
  <2>2. ASSUME NEW d \in Devices, NEW n \in Nat, NEW u \in Users, NEW k \in Cookies,
               Holder(d, n, u, k)'
        PROVE  k \in Nat /\ k <= issued
    <3>1. Holder(d, n, u, k)  BY <1>5, <2>2 DEF NoNewHolder
    <3>2. k <= issued  BY <3>1 DEF CookiesFresh
    <3>3. k \in Nat  BY DEF Cookies
    <3> QED  BY <3>2, <3>3
  <2>3. \A o \in handling' : o.new # 0 /\ o.new <= issued'
    BY <1>1, <1>2, <1>6 DEF CookiesFresh
  <2>4. \A o, q \in handling' : o.new = q.new => o = q
    BY <1>1, <1>6 DEF CookiesFresh
  <2>5. ASSUME NEW o \in handling', o.stage = "assign"
        PROVE  /\ \A u \in Users : rec'[u].cookie # o.new
               /\ \A d \in Devices, n \in Nat, u \in Users : ~ Holder(d, n, u, o.new)'
    <3>1. CASE o \in handling
      <4>1. o.new \in Cookies  BY <3>1 DEF TypeOK
      <4>2. \A d \in Devices, n \in Nat, u \in Users : ~ Holder(d, n, u, o.new)
        BY <2>5, <3>1 DEF CookiesFresh
      <4>3. \A u \in Users : rec[u].cookie # o.new
        BY <2>5, <3>1 DEF CookiesFresh
      <4> QED  BY <1>1, <1>5, <4>1, <4>2, <4>3 DEF NoNewHolder
    <3>2. CASE o = l
      <4>1. \A u \in Users : rec[u].cookie # l.new  BY <1>1, <1>2, <2>1
      <4>2. l.new \in Cookies
        <5>1. issued < MaxCookie  BY DEF AcceptLogin
        <5> QED  BY <1>1, <1>2, <5>1 DEF Cookies
      <4>3. ASSUME NEW d \in Devices, NEW n \in Nat, NEW u \in Users, Holder(d, n, u, l.new)'
            PROVE  FALSE
        <5>1. l.new <= issued  BY <2>2, <4>2, <4>3
        <5> QED  BY <1>1, <1>2, <5>1
      <4> QED  BY <1>1, <3>2, <4>1, <4>3
    <3> QED  BY <1>1, <3>1, <3>2
  <2>6. \A u \in Users : rec'[u].cookie <= issued'  BY <1>1, <1>2, <2>1
  <2>7. \A d \in Devices, n \in Nat, u \in Users, k \in Cookies :
          Holder(d, n, u, k)' => k <= issued'
    BY <1>1, <1>2, <2>2
  <2> QED  BY <2>3, <2>4, <2>5, <2>6, <2>7 DEF CookiesFresh
<1>9. Alone'
  <2>1. \A o, q \in handling : (o.msg.user = q.msg.user /\ o # q) => Named(o)'
    BY <1>3 DEF Alone, Named
  <2> QED  BY <1>1, <1>7, <2>1 DEF Alone
<1>10. Bound'
  <2>1. \A o \in handling : o.stage = "answer" => (Named(o)' \/ rec[o.msg.user].chan = o.msg.dev)
    BY <1>3 DEF Bound, Named
  <2> QED  BY <1>1, <2>1 DEF Bound
<1>11. Kept'
  <2> SUFFICES ASSUME NEW d \in Devices, NEW n \in Nat, NEW u \in Users, NEW k \in Cookies,
                      Holder(d, n, u, k)', k # 0, <<d, n>> \notin disturbed',
                      rec'[u].cookie = k
               PROVE  /\ rec'[u].chan = d
                      /\ \A o \in handling' : (o.msg.user = u /\ o.stage # "assign")
                           => o.msg.dev = d
    BY DEF Kept
  <2>1. Holder(d, n, u, k) /\ rec[u].cookie = k /\ <<d, n>> \notin disturbed
    BY <1>1, <1>3, <1>5 DEF NoNewHolder
  <2>2. /\ rec[u].chan = d
        /\ \A o \in handling : (o.msg.user = u /\ o.stage # "assign") => o.msg.dev = d
    BY <2>1 DEF Kept
  <2> QED  BY <1>1, <2>2
<1>12. OneHolder'
  <2> SUFFICES ASSUME NEW d \in Devices, NEW e \in Devices, NEW n \in Nat, NEW i \in Nat,
                      NEW u \in Users, NEW k \in Cookies,
                      Holder(d, n, u, k)', Holder(e, i, u, k)', k # 0,
                      <<d, n>> \notin disturbed', <<e, i>> \notin disturbed'
               PROVE  d = e
    BY DEF OneHolder
  <2> QED  BY <1>3, <1>5 DEF NoNewHolder, OneHolder
<1> QED  BY <1>8, <1>9, <1>10, <1>11, <1>12

\* The cookie is nobody's when the record gets it: nothing is to be kept any more.
LEMMA OneAssign ==
  ASSUME OneInv, NEW l \in handling, AssignCookie(l), UNCHANGED clientVars
  PROVE  HolderInv'
<1> USE DEF OneInv, HolderInv
<1>1. /\ GoesTo(l, "bind") /\ l.stage = "assign"
      /\ rec' = [rec EXCEPT ![l.msg.user].cookie = l.new]
      /\ UNCHANGED <<issued, disturbed, net>>
  BY DEF AssignCookie
<1>2. l.msg.user \in Users /\ l.new \in Cookies  BY DEF TypeOK, Messages
<1>3. /\ rec'[l.msg.user].cookie = l.new
      /\ \A u \in Users : /\ rec'[u].chan = rec[u].chan
                          /\ u # l.msg.user => rec'[u].cookie = rec[u].cookie
  BY <1>1, <1>2 DEF TypeOK
<1>4. NoNewHolder  BY <1>1, ServerHolders DEF NoNewHolder
<1>5. \A o \in handling' : \/ o \in handling /\ o # l
                           \/ o.msg = l.msg /\ o.new = l.new /\ o.stage = "bind"
  BY <1>1, MovesOn
<1>6. CookiesFresh'
  <2>1. \A u \in Users : rec'[u].cookie <= issued'
    BY <1>1, <1>3 DEF CookiesFresh
  <2>2. \A d \in Devices, n \in Nat, u \in Users, k \in Cookies :
          Holder(d, n, u, k)' => k <= issued'
    BY <1>1, <1>4 DEF CookiesFresh, NoNewHolder
  <2>3. \A o \in handling' : o.new # 0 /\ o.new <= issued'
    BY <1>1, <1>5 DEF CookiesFresh
  <2>4. \A o, q \in handling' : o.new = q.new => o = q
    BY <1>1, MovesOn
  <2>5. ASSUME NEW o \in handling', o.stage = "assign"
        PROVE  /\ \A u \in Users : rec'[u].cookie # o.new
               /\ \A d \in Devices, n \in Nat, u \in Users : ~ Holder(d, n, u, o.new)'
    <3>1. o \in handling /\ o # l  BY <1>5, <2>5
    <3>2. o.new # l.new /\ o.new \in Cookies  BY <3>1 DEF CookiesFresh, TypeOK
    <3>3. /\ \A u \in Users : rec[u].cookie # o.new
          /\ \A d \in Devices, n \in Nat, u \in Users : ~ Holder(d, n, u, o.new)
      BY <2>5, <3>1 DEF CookiesFresh
    <3> QED  BY <1>3, <1>4, <3>2, <3>3 DEF NoNewHolder
  <2> QED  BY <2>1, <2>2, <2>3, <2>4, <2>5 DEF CookiesFresh
<1>7. Alone'
  <2> SUFFICES ASSUME NEW o \in handling', NEW q \in handling',
                      o.msg.user = q.msg.user, o # q
               PROVE  Named(o)'
    BY DEF Alone
  <2>1. o.new # q.new  BY <1>1, MovesOn
  <2>2. CASE o \in handling /\ q \in handling  BY <1>1, <2>2 DEF Alone, Named
  <2>3. CASE o \in handling /\ o # l /\ q.msg = l.msg  BY <1>1, <2>3 DEF Alone, Named
  <2>4. CASE q \in handling /\ q # l /\ o.msg = l.msg  BY <1>1, <2>4 DEF Alone, Named
  <2> QED  BY <1>5, <2>1, <2>2, <2>3, <2>4
<1>8. Bound'
  <2>1. \A o \in handling : o.msg.user \in Users  BY DEF TypeOK, Messages
  <2> QED  BY <1>1, <1>3, <1>5, <2>1 DEF Bound, Named
<1>9. Kept'
  <2> SUFFICES ASSUME NEW d \in Devices, NEW n \in Nat, NEW u \in Users, NEW k \in Cookies,
                      Holder(d, n, u, k)', k # 0, <<d, n>> \notin disturbed',
                      rec'[u].cookie = k
               PROVE  /\ rec'[u].chan = d
                      /\ \A o \in handling' : (o.msg.user = u /\ o.stage # "assign")
                           => o.msg.dev = d
    BY DEF Kept
  <2>1. Holder(d, n, u, k)  BY <1>4 DEF NoNewHolder
  <2>2. u # l.msg.user  BY <1>1, <1>3, <2>1 DEF CookiesFresh
  <2>3. rec[u].cookie = k  BY <1>3, <2>2
  <2> QED  BY <1>1, <1>3, <1>5, <2>1, <2>2, <2>3 DEF Kept
<1>10. OneHolder'
  <2> SUFFICES ASSUME NEW d \in Devices, NEW e \in Devices, NEW n \in Nat, NEW i \in Nat,
                      NEW u \in Users, NEW k \in Cookies,
                      Holder(d, n, u, k)', Holder(e, i, u, k)', k # 0,
                      <<d, n>> \notin disturbed', <<e, i>> \notin disturbed'
               PROVE  d = e
    BY DEF OneHolder
  <2> QED  BY <1>1, <1>4 DEF NoNewHolder, OneHolder
<1> QED  BY <1>6, <1>7, <1>8, <1>9, <1>10

\* The address is bound: no undisturbed login of another client has given the cookie.
LEMMA OneBind ==
  ASSUME OneInv, NEW l \in handling, BindChannel(l), UNCHANGED clientVars
  PROVE  HolderInv'
<1> USE DEF OneInv, HolderInv
<1>1. /\ GoesTo(l, "answer") /\ l.stage = "bind"
      /\ rec' = [rec EXCEPT ![l.msg.user].chan = l.msg.dev, ![l.msg.user].fresh = TRUE]
      /\ UNCHANGED <<issued, disturbed, net>>
  BY DEF BindChannel
<1>2. l.msg.user \in Users  BY DEF TypeOK, Messages
<1>3. /\ rec'[l.msg.user].chan = l.msg.dev
      /\ \A u \in Users : /\ rec'[u].cookie = rec[u].cookie
                          /\ u # l.msg.user => rec'[u].chan = rec[u].chan
  BY <1>1, <1>2 DEF TypeOK
<1>4. NoNewHolder  BY <1>1, ServerHolders DEF NoNewHolder
<1>5. \A o \in handling' : \/ o \in handling /\ o # l
                           \/ o.msg = l.msg /\ o.new = l.new /\ o.stage = "answer"
  BY <1>1, MovesOn
<1>6. CookiesFresh'
  <2>1. \A u \in Users : rec'[u].cookie <= issued'
    BY <1>1, <1>3 DEF CookiesFresh
  <2>2. \A d \in Devices, n \in Nat, u \in Users, k \in Cookies :
          Holder(d, n, u, k)' => k <= issued'
    BY <1>1, <1>4 DEF CookiesFresh, NoNewHolder
  <2>3. \A o \in handling' : o.new # 0 /\ o.new <= issued'
    BY <1>1, <1>5 DEF CookiesFresh
  <2>4. \A o, q \in handling' : o.new = q.new => o = q
    BY <1>1, MovesOn
  <2>5. ASSUME NEW o \in handling', o.stage = "assign"
        PROVE  /\ \A u \in Users : rec'[u].cookie # o.new
               /\ \A d \in Devices, n \in Nat, u \in Users : ~ Holder(d, n, u, o.new)'
    <3>1. o \in handling /\ o # l  BY <1>5, <2>5
    <3>2. o.new \in Cookies  BY <3>1 DEF TypeOK
    <3>3. /\ \A u \in Users : rec[u].cookie # o.new
          /\ \A d \in Devices, n \in Nat, u \in Users : ~ Holder(d, n, u, o.new)
      BY <2>5, <3>1 DEF CookiesFresh
    <3> QED  BY <1>3, <1>4, <3>2, <3>3 DEF NoNewHolder
  <2> QED  BY <2>1, <2>2, <2>3, <2>4, <2>5 DEF CookiesFresh
<1>7. Alone'
  <2> SUFFICES ASSUME NEW o \in handling', NEW q \in handling',
                      o.msg.user = q.msg.user, o # q
               PROVE  Named(o)'
    BY DEF Alone
  <2>1. o.new # q.new  BY <1>1, MovesOn
  <2>2. CASE o \in handling /\ q \in handling  BY <1>1, <2>2 DEF Alone, Named
  <2>3. CASE o \in handling /\ o # l /\ q.msg = l.msg  BY <1>1, <2>3 DEF Alone, Named
  <2>4. CASE q \in handling /\ q # l /\ o.msg = l.msg  BY <1>1, <2>4 DEF Alone, Named
  <2> QED  BY <1>5, <2>1, <2>2, <2>3, <2>4
<1>8. Bound'
  <2> SUFFICES ASSUME NEW o \in handling', o.stage = "answer"
               PROVE  Named(o)' \/ rec'[o.msg.user].chan = o.msg.dev
    BY DEF Bound
  <2>1. CASE o.msg = l.msg  BY <1>3, <2>1
  <2>2. CASE o \in handling /\ o # l
    <3>1. CASE o.msg.user = l.msg.user  BY <1>1, <2>2, <3>1 DEF Alone, Named
    <3>2. CASE o.msg.user # l.msg.user
      <4>1. o.msg.user \in Users  BY <2>2 DEF TypeOK, Messages
      <4> QED  BY <1>1, <1>3, <2>2, <3>2, <4>1 DEF Bound, Named
    <3> QED  BY <3>1, <3>2
  <2> QED  BY <1>5, <2>1, <2>2
<1>9. Kept'
  <2> SUFFICES ASSUME NEW d \in Devices, NEW n \in Nat, NEW u \in Users, NEW k \in Cookies,
                      Holder(d, n, u, k)', k # 0, <<d, n>> \notin disturbed',
                      rec'[u].cookie = k
               PROVE  /\ rec'[u].chan = d
                      /\ \A o \in handling' : (o.msg.user = u /\ o.stage # "assign")
                           => o.msg.dev = d
    BY DEF Kept
  <2>1. Holder(d, n, u, k) /\ rec[u].cookie = k /\ <<d, n>> \notin disturbed
    BY <1>1, <1>3, <1>4 DEF NoNewHolder
  <2>2. /\ rec[u].chan = d
        /\ \A o \in handling : (o.msg.user = u /\ o.stage # "assign") => o.msg.dev = d
    BY <2>1 DEF Kept
  <2> QED  BY <1>1, <1>3, <1>5, <2>2
<1>10. OneHolder'
  <2> SUFFICES ASSUME NEW d \in Devices, NEW e \in Devices, NEW n \in Nat, NEW i \in Nat,
                      NEW u \in Users, NEW k \in Cookies,
                      Holder(d, n, u, k)', Holder(e, i, u, k)', k # 0,
                      <<d, n>> \notin disturbed', <<e, i>> \notin disturbed'
               PROVE  d = e
    BY DEF OneHolder
  <2> QED  BY <1>1, <1>4 DEF NoNewHolder, OneHolder
<1> QED  BY <1>6, <1>7, <1>8, <1>9, <1>10

\* An undisturbed login answers with the cookie of the record, which has its address: whoever
\* else holds that cookie undisturbed has the same one.
LEMMA OneAnswer ==
  ASSUME OneInv, NEW l \in handling, AnswerLogin(l), UNCHANGED clientVars
  PROVE  HolderInv'
<1> USE DEF OneInv, HolderInv
<1>1. /\ l.stage = "answer" /\ handling' = handling \ {l}
      /\ UNCHANGED <<rec, issued, disturbed>>
  BY DEF AnswerLogin
<1>2. l.msg.user \in Users /\ l.msg.dev \in Devices  BY DEF TypeOK, Messages
<1>3. ASSUME NEW d \in Devices, NEW n \in Nat, NEW u \in Users, NEW k \in Cookies,
             Holder(d, n, u, k)', ~ Holder(d, n, u, k)
      PROVE  d = l.msg.dev /\ n = l.msg.n /\ u = l.msg.user /\ k = rec[u].cookie
  BY <1>3 DEF AnswerLogin, FromServer, Message, Holder, clientVars
<1>4. CookiesFresh'
  <2>1. /\ \A u \in Users : rec'[u].cookie <= issued'
        /\ \A o \in handling' : o.new # 0 /\ o.new <= issued'
        /\ \A o, q \in handling' : o.new = q.new => o = q
    BY <1>1 DEF CookiesFresh
  <2>2. \A d \in Devices, n \in Nat, u \in Users, k \in Cookies :
          Holder(d, n, u, k)' => k <= issued'
    BY <1>1, <1>3 DEF CookiesFresh
  <2>3. ASSUME NEW o \in handling', o.stage = "assign"
        PROVE  /\ \A u \in Users : rec'[u].cookie # o.new
               /\ \A d \in Devices, n \in Nat, u \in Users : ~ Holder(d, n, u, o.new)'
    <3>1. o \in handling /\ o.new \in Cookies  BY <1>1 DEF TypeOK
    <3>2. /\ \A u \in Users : rec[u].cookie # o.new
          /\ \A d \in Devices, n \in Nat, u \in Users : ~ Holder(d, n, u, o.new)
      BY <2>3, <3>1 DEF CookiesFresh
    <3> QED  BY <1>1, <1>3, <3>1, <3>2
  <2> QED  BY <2>1, <2>2, <2>3 DEF CookiesFresh
<1>5. Alone' /\ Bound'  BY <1>1 DEF Alone, Bound, Named
<1>6. ASSUME ~ Named(l)
      PROVE  /\ rec[l.msg.user].chan = l.msg.dev
             /\ \A o \in handling' : o.msg.user # l.msg.user
  BY <1>1, <1>6 DEF Alone, Bound
<1>7. Kept'
  <2> SUFFICES ASSUME NEW d \in Devices, NEW n \in Nat, NEW u \in Users, NEW k \in Cookies,
                      Holder(d, n, u, k)', k # 0, <<d, n>> \notin disturbed,
                      rec[u].cookie = k
               PROVE  /\ rec[u].chan = d
                      /\ \A o \in handling' : (o.msg.user = u /\ o.stage # "assign")
                           => o.msg.dev = d
    BY <1>1 DEF Kept
  <2>1. CASE Holder(d, n, u, k)  BY <1>1, <2>1 DEF Kept
  <2>2. CASE ~ Holder(d, n, u, k)
    <3>1. d = l.msg.dev /\ n = l.msg.n /\ u = l.msg.user  BY <1>3, <2>2
    <3>2. ~ Named(l)  BY <3>1 DEF Named, LoginName
    <3> QED  BY <1>6, <3>1, <3>2
  <2> QED  BY <2>1, <2>2
<1>8. ASSUME NEW d \in Devices, NEW n \in Nat, NEW u \in Users, NEW k \in Cookies,
             Holder(d, n, u, k), k # 0, <<d, n>> \notin disturbed, ~ Named(l),
             u = l.msg.user, k = rec[u].cookie
      PROVE  d = l.msg.dev
  BY <1>1, <1>6, <1>8 DEF Kept
<1>9. OneHolder'
  <2> SUFFICES ASSUME NEW d \in Devices, NEW e \in Devices, NEW n \in Nat, NEW i \in Nat,
                      NEW u \in Users, NEW k \in Cookies,
                      Holder(d, n, u, k)', Holder(e, i, u, k)', k # 0,
                      <<d, n>> \notin disturbed, <<e, i>> \notin disturbed
               PROVE  d = e
    BY <1>1 DEF OneHolder
  <2>1. CASE Holder(d, n, u, k) /\ Holder(e, i, u, k)  BY <2>1 DEF OneHolder
  <2>2. CASE ~ Holder(d, n, u, k) /\ Holder(e, i, u, k)
    <3>1. d = l.msg.dev /\ n = l.msg.n /\ u = l.msg.user /\ k = rec[u].cookie
      BY <1>3, <2>2
    <3>2. ~ Named(l)  BY <3>1 DEF Named, LoginName
    <3> QED  BY <1>8, <2>2, <3>1, <3>2
  <2>3. CASE Holder(d, n, u, k) /\ ~ Holder(e, i, u, k)
    <3>1. e = l.msg.dev /\ i = l.msg.n /\ u = l.msg.user /\ k = rec[u].cookie
      BY <1>3, <2>3
    <3>2. ~ Named(l)  BY <3>1 DEF Named, LoginName
    <3> QED  BY <1>8, <2>3, <3>1, <3>2
  <2>4. CASE ~ Holder(d, n, u, k) /\ ~ Holder(e, i, u, k)  BY <1>3, <2>4
  <2> QED  BY <2>1, <2>2, <2>3, <2>4
<1> QED  BY <1>4, <1>5, <1>7, <1>9

LEMMA OneServer ==
  ASSUME OneInv, ServerNext, UNCHANGED clientVars
  PROVE  HolderInv'
<1>0. TypeOK /\ HolderInv  BY DEF OneInv
<1>1. ASSUME \A m \in net' : m \in net \/ m.kind # "accepted",
             UNCHANGED <<handling, issued>>, disturbed \subseteq disturbed',
             \A u \in Users : /\ rec'[u].chan = rec[u].chan
                              /\ rec'[u].cookie \in {0, rec[u].cookie}
      PROVE  HolderInv'
  <2>1. NoNewHolder  BY <1>1, ServerHolders DEF NoNewHolder
  <2> QED  BY <1>0, <1>1, <2>1, QuietStep
<1>2. ASSUME NEW u \in Users, NEW runner, TakeOffline(u, runner)
      PROVE  /\ disturbed \subseteq disturbed'
             /\ \A v \in Users : /\ rec'[v].chan = rec[v].chan
                                 /\ rec'[v].cookie \in {0, rec[v].cookie}
  BY <1>0, <1>2 DEF TakeOffline, Disturb, TypeOK
<1>3. ASSUME NEW m \in net, HandleLogout(m)  PROVE HolderInv'
  <2>1. /\ m.user \in Users /\ UNCHANGED <<handling, issued>>
        /\ \A k \in net' : k \in net
    BY <1>0, <1>3 DEF HandleLogout, Rest, TypeOK, Messages
  <2>2. CASE TakeOffline(m.user, "logout")  BY <1>1, <1>2, <2>1, <2>2
  <2>3. CASE UNCHANGED <<rec, offline, disturbed>>  BY <1>1, <2>1, <2>3
  <2> QED  BY <1>3, <2>2, <2>3 DEF HandleLogout
<1>4. ASSUME NEW m \in net, HandleHeartbeat(m)  PROVE HolderInv'
  <2>1. \A u \in Users : rec'[u].chan = rec[u].chan /\ rec'[u].cookie = rec[u].cookie
    BY <1>0, <1>4 DEF HandleHeartbeat, TypeOK, Messages
  <2>2. UNCHANGED <<handling, issued, disturbed>>  BY <1>4 DEF HandleHeartbeat
  <2>3. \A k \in net' : k \in net \/ k.kind # "accepted"
    BY <1>4 DEF HandleHeartbeat, Rest, FromServer, Message
  <2> QED  BY <1>1, <2>1, <2>2, <2>3
<1>5. ASSUME NEW u \in Users, TimePasses(u)  PROVE HolderInv'
  <2>1. \A v \in Users : rec'[v].chan = rec[v].chan /\ rec'[v].cookie = rec[v].cookie
    BY <1>0, <1>5 DEF TimePasses, TypeOK
  <2>2. UNCHANGED <<handling, issued, disturbed, net>>  BY <1>5 DEF TimePasses
  <2> QED  BY <1>1, <2>1, <2>2
<1>6. ASSUME UNCHANGED <<rec, handling, issued, disturbed, net>>  PROVE HolderInv'
  BY <1>1, <1>6
<1>7. CASE TickDrop
  <2>1. /\ tick.user \in Users /\ UNCHANGED <<handling, issued, net>>
        /\ TakeOffline(tick.user, "tick")
    BY <1>0, <1>7 DEF TickDrop, TypeOK
  <2> QED  BY <1>1, <1>2, <2>1
<1>8. ASSUME NEW l \in handling, LoginStep(l)  PROVE HolderInv'
  BY <1>8, OneAssign, OneBind, OneAnswer DEF LoginStep
<1> QED
  BY <1>3, <1>4, <1>5, <1>6, <1>7, <1>8, OneAccept
  DEF ServerNext, OfflineStep, OfflineTest, OfflineCount, TickStep, TickJudge, TickEnd

\* A client gets a session only from the answer that gives it one.
LEMMA OneClient ==
  ASSUME OneInv, ClientNext, UNCHANGED serverVars
  PROVE  HolderInv' /\ Addressed'
<1> USE DEF OneInv, serverVars
<1>1. ASSUME UNCHANGED account, NoNewHolder,
             \A m \in net' : \/ m \in net
                             \/ m.kind # "accepted" /\ m.user = account[m.dev]
      PROVE  HolderInv' /\ Addressed'
  <2>1. HolderInv'  BY <1>1, QuietStep
  <2> QED  BY <1>1, <2>1 DEF Addressed
<1>2. ASSUME NEW d \in Devices, NEW kind \in {"login", "logout", "heartbeat"},
             NEW m, m = Request(kind, d)
      PROVE  m.kind # "accepted" /\ m.user = account[m.dev]
  BY <1>2 DEF Request, Message
<1>3. PICK d \in Devices :
        \/ UserLogsOut(d) \/ LoginAsk(d) \/ LoginFails(d) \/ Heartbeat(d) \/ SessionExpires(d)
        \/ \E m \in net : LoginSucceeds(d, m) \/ HeartbeatDenied(d, m) \/ LoginReplaced(d, m)
  BY DEF ClientNext
<1>4. ASSUME NEW rest \in SUBSET net, Logout(d, rest), UNCHANGED <<account, logins>>
      PROVE  HolderInv' /\ Addressed'
  <2>1. \A m \in net' : \/ m \in net
                        \/ m.kind # "accepted" /\ m.user = account[m.dev]
    BY <1>2, <1>4 DEF Logout
  <2>2. NoNewHolder
    <3>1. \A e \in Devices : login'[e] => login[e] /\ cookie'[e] = cookie[e]
      BY <1>4 DEF Logout, TypeOK
    <3> QED  BY <1>4, <2>1, <3>1 DEF NoNewHolder, Holder
  <2> QED  BY <1>1, <1>4, <2>1, <2>2
<1>5. ASSUME \A m \in net' : m \in net, UNCHANGED <<account, login, cookie, logins>>
      PROVE  HolderInv' /\ Addressed'
  <2>1. NoNewHolder  BY <1>5 DEF NoNewHolder, Holder
  <2> QED  BY <1>1, <1>5, <2>1
<1>6. CASE UserLogsOut(d)  BY <1>4, <1>6 DEF UserLogsOut
<1>7. CASE LoginAsk(d)
  <2>1. \A m \in net' : \/ m \in net
                        \/ m.kind # "accepted" /\ m.user = account[m.dev]
    BY <1>2, <1>7 DEF LoginAsk
  <2>2. NoNewHolder
    <3>1. /\ ~ login[d] /\ UNCHANGED <<account, login, cookie>>
          /\ \A e \in Devices : e # d => logins'[e] = logins[e]
      BY <1>7 DEF LoginAsk, TypeOK
    <3> QED  BY <2>1, <3>1 DEF NoNewHolder, Holder
  <2> QED  BY <1>1, <1>7, <2>1, <2>2 DEF LoginAsk
<1>8. CASE LoginFails(d)  BY <1>5, <1>8 DEF LoginFails
<1>9. CASE Heartbeat(d)
  <2>1. \A m \in net' : \/ m \in net
                        \/ m.kind # "accepted" /\ m.user = account[m.dev]
    BY <1>2, <1>9 DEF Heartbeat
  <2>2. NoNewHolder  BY <1>9, <2>1 DEF Heartbeat, clientVars, NoNewHolder, Holder
  <2> QED  BY <1>1, <1>9, <2>1, <2>2 DEF Heartbeat, clientVars
<1>10. CASE SessionExpires(d)
  <2>1. CASE login[d]  BY <1>4, <1>10, <2>1 DEF SessionExpires
  <2>2. CASE ~ login[d]  BY <1>5, <1>10, <2>2 DEF SessionExpires
  <2> QED  BY <2>1, <2>2
<1>11. ASSUME NEW m \in net, LoginSucceeds(d, m)  PROVE HolderInv' /\ Addressed'
  <2>1. /\ m.kind = "accepted" /\ m.to = d /\ m.n = logins[d] /\ net' = net \ {m}
        /\ UNCHANGED <<account, logins>>
        /\ cookie' = [cookie EXCEPT ![d] = m.cookie] /\ login' = [login EXCEPT ![d] = TRUE]
    BY <1>11 DEF LoginSucceeds, Receives, Rest
  <2>2. m.user = account[d]  BY <2>1 DEF Addressed
  <2>3. cookie'[d] = m.cookie
    BY <2>1 DEF TypeOK
  <2>4. \A e \in Devices : e # d => login'[e] = login[e] /\ cookie'[e] = cookie[e]
    BY <2>1 DEF TypeOK
  <2>5. ASSUME NEW e \in Devices, NEW n \in Nat, NEW u \in Users, NEW k \in Cookies,
               Holder(e, n, u, k)'
        PROVE  Holder(e, n, u, k)
    <3>1. CASE e = d  BY <2>1, <2>2, <2>3, <2>5, <3>1 DEF Holder
    <3>2. CASE e # d  BY <2>1, <2>4, <2>5, <3>2 DEF Holder
    <3> QED  BY <3>1, <3>2
  <2> QED  BY <1>1, <2>1, <2>5 DEF NoNewHolder
<1>12. ASSUME NEW m \in net, HeartbeatDenied(d, m)  PROVE HolderInv' /\ Addressed'
  BY <1>5, <1>12 DEF HeartbeatDenied, Rest
<1>13. ASSUME NEW m \in net, LoginReplaced(d, m)  PROVE HolderInv' /\ Addressed'
  <2>1. Rest(m) \in SUBSET net /\ UNCHANGED <<account, logins>>
    BY <1>13 DEF Rest, LoginReplaced
  <2>2. CASE Logout(d, Rest(m))  BY <1>4, <2>1, <2>2
  <2>3. CASE net' = Rest(m) /\ UNCHANGED <<login, cookie>>
    BY <1>5, <2>1, <2>3
  <2> QED  BY <1>13, <2>2, <2>3 DEF LoginReplaced
<1> QED  BY <1>3, <1>6, <1>7, <1>8, <1>9, <1>10, <1>11, <1>12, <1>13

\* The server answers a client with the account that its request was for.
LEMMA AddressedServer ==
  ASSUME OneInv, ServerNext, UNCHANGED clientVars
  PROVE  Addressed'
<1> USE DEF OneInv
<1>0. UNCHANGED account  BY DEF clientVars
<1>1. ASSUME \A m \in net' : m \in net \/ m.kind \in {"expired", "replaced"},
             \A l \in handling' : l \in handling \/ \E m \in net : m.kind = "login" /\ l.msg = m
      PROVE  Addressed'
  <2>1. \A l \in handling' : l.msg.user = account[l.msg.dev]  BY <1>1 DEF Addressed
  <2> QED  BY <1>0, <1>1, <2>1 DEF Addressed
<1>2. ASSUME NEW m \in net, AcceptLogin(m)  PROVE Addressed'
  <2>1. \A k \in net' : k \in net \/ k.kind \in {"expired", "replaced"}
    BY <1>2 DEF AcceptLogin, Rest, FromServer, Message
  <2>2. \A l \in handling' : l \in handling \/ l.msg = m  BY <1>2 DEF AcceptLogin
  <2>3. m.kind = "login"  BY <1>2 DEF AcceptLogin, Receives
  <2> QED  BY <1>1, <2>1, <2>2, <2>3
<1>3. ASSUME NEW l \in handling, LoginStep(l)  PROVE Addressed'
  <2>1. ASSUME NEW s \in {"bind", "answer"}, GoesTo(l, s)
        PROVE  \A o \in handling' : o.msg.user = account[o.msg.dev]
    BY <2>1, MovesOn DEF HolderInv, Addressed
  <2>2. CASE AssignCookie(l)  BY <1>0, <2>1, <2>2 DEF AssignCookie, Addressed
  <2>3. CASE BindChannel(l)  BY <1>0, <2>1, <2>3 DEF BindChannel, Addressed
  <2>4. CASE AnswerLogin(l)
    <3>1. \A m \in net' : \/ m \in net
                          \/ m.user = l.msg.user /\ m.dev = l.msg.dev /\ m.to = l.msg.dev
      BY <2>4 DEF AnswerLogin, FromServer, Message
    <3>2. \A o \in handling' : o \in handling  BY <2>4 DEF AnswerLogin
    <3> QED  BY <1>0, <3>1, <3>2 DEF Addressed
  <2> QED  BY <1>3, <2>2, <2>3, <2>4 DEF LoginStep
<1>4. ASSUME NEW m \in net, HandleLogout(m)  PROVE Addressed'
  BY <1>1, <1>4 DEF HandleLogout, Rest
<1>5. ASSUME NEW m \in net, HandleHeartbeat(m)  PROVE Addressed'
  <2>1. \A k \in net' : k \in net \/ k.kind \in {"expired", "replaced"}
    BY <1>5 DEF HandleHeartbeat, Rest, FromServer, Message
  <2> QED  BY <1>1, <1>5, <2>1 DEF HandleHeartbeat
<1>6. ASSUME UNCHANGED <<net, handling>>  PROVE Addressed'
  BY <1>1, <1>6
<1>7. ASSUME NEW u \in Users, TimePasses(u) \/ TickJudge(u)  PROVE Addressed'
  BY <1>6, <1>7 DEF TimePasses, TickJudge
<1>8. CASE TickDrop \/ TickEnd \/ OfflineStep
  BY <1>6, <1>8 DEF TickDrop, TickEnd, OfflineStep, OfflineTest, OfflineCount
<1> QED
  BY <1>2, <1>3, <1>4, <1>5, <1>7, <1>8 DEF ServerNext, TickStep

LEMMA OneStep == OneInv /\ [Next]_vars => OneInv'
<1> SUFFICES ASSUME OneInv, [Next]_vars  PROVE OneInv'
  OBVIOUS
<1>1. TypeOK'  BY TypeStep DEF OneInv
<1>2. CASE ServerNext /\ UNCHANGED clientVars
  BY <1>1, <1>2, OneServer, AddressedServer DEF OneInv
<1>3. CASE ClientNext /\ UNCHANGED serverVars
  BY <1>1, <1>3, OneClient DEF OneInv
<1>4. ASSUME net' \subseteq net, UNCHANGED <<serverVars, clientVars>>  PROVE OneInv'
  <2>1. NoNewHolder  BY <1>4 DEF NoNewHolder, Holder, clientVars
  <2>2. HolderInv'  BY <1>4, <2>1, QuietStep DEF OneInv, serverVars
  <2>3. Addressed'  BY <1>4 DEF OneInv, Addressed, serverVars, clientVars
  <2> QED  BY <1>1, <2>2, <2>3 DEF OneInv
<1> QED  BY <1>2, <1>3, <1>4 DEF Next, Lose, Rest, vars

\* Whoever logs in to an account from another address gets a cookie that nobody had, so two
\* clients hold one session only where DoClientLoginEx, which takes no lock, was at work for
\* one of them while another login of the account or a UserOffline went on.
THEOREM OneLoginEach == Spec => []OneLogin
<1>1. OneInv => OneLogin
  <2> SUFFICES ASSUME OneInv, NEW d \in Devices, NEW e \in Devices,
                      d # e, login[d], login[e], account[d] = account[e],
                      cookie[d] = cookie[e], cookie[d] # 0
               PROVE  {<<d, logins[d]>>, <<e, logins[e]>>} \cap disturbed # {}
    BY DEF OneLogin
  <2>1. /\ account[d] \in Users /\ cookie[d] \in Cookies
        /\ logins[d] \in Nat /\ logins[e] \in Nat
    BY DEF OneInv, TypeOK
  <2>2. /\ Holder(d, logins[d], account[d], cookie[d])
        /\ Holder(e, logins[e], account[d], cookie[d])
    BY DEF Holder
  <2> QED  BY <2>1, <2>2 DEF OneInv, HolderInv, OneHolder
<1> QED  BY <1>1, OneInit, OneStep, PTL DEF Spec
=============================================================================
