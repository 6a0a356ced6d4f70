--------------------------- MODULE ServerSession ---------------------------
(***************************************************************************)
(* The sessions that BBQServer (bbqsvr.cxx) keeps, one record per account: *)
(* login, heartbeat and logout in its handler threads, and CheckUserStatus *)
(* in its tick thread, which takes offline whoever has not been heard of   *)
(* for heartbeat_timeout.                                                  *)
(*                                                                         *)
(* Heartbeat, Logout and UserOffline run under the write lock of           *)
(* m_mutexRecord.  DoClientLoginEx takes no lock and is four steps;        *)
(* CheckUserStatus locks only around UserOffline.  Both write nOnlineUsers *)
(* without the lock, so that UserOffline is three steps.  The server is    *)
(* ACTIVE.  A login that is denied (password, version, balance, the limit  *)
(* of users, which is compared with nOnlineUsers) leaves nothing here and  *)
(* gives no session: it is a message lost.                                 *)
(***************************************************************************)
EXTENDS SessionNet

CONSTANTS
  Handlers,    \* number of handler threads
  MaxCookie,   \* bound: logins accepted
  CountMax     \* the largest value of nOnlineUsers, an unsigned integer of 32 bits

ASSUME ServerAssumption ==
  Handlers \in Nat \ {0} /\ MaxCookie \in Nat /\ CountMax \in Nat \ {0}

VARIABLES
  rec,         \* [Users -> record]: m_mapRecord, with sessionInfo.cookie, the peer of
               \*   sockChannel, and whether time + heartbeat_timeout is still to come
  nOnlineUsers,
  handling,    \* the logins that handler threads are at
  tick,        \* CheckUserStatus: records to look at, the one to take offline, nCounter
  offline,     \* UserOffline under way, with the lock: who runs it, and what it read of
               \*   nOnlineUsers (Unread at first); or None
  issued,      \* cookies given so far
  disturbed    \* history: logins <<device, n>> during which another login of the account
               \*   was handled, or the account was taken offline

serverVars == <<rec, nOnlineUsers, handling, tick, offline, issued, disturbed>>

Unread == -1        \* a UserOffline has not looked at the count
NotCounted == -1    \* a login does not change the count, or has

\* uint32 arithmetic
CountUp(n) == IF n = CountMax THEN 0 ELSE n + 1

\* faulty variant: the count is signed
CountDownSigned(n) == n - 1

CountDown(n) == IF n = 0 THEN CountMax ELSE n - 1

NoTick == [todo |-> Users, user |-> None, count |-> 0]

ServerInit ==
  /\ rec = [u \in Users |-> [cookie |-> 0, chan |-> None, fresh |-> FALSE]]
  /\ nOnlineUsers = 0
  /\ handling = {}
  /\ tick = NoTick
  /\ offline = None
  /\ issued = 0
  /\ disturbed = {}

LoginsOf(u) == {l \in handling : l.msg.user = u}
LoginName(m) == <<m.dev, m.n>>
Disturb(L) == disturbed \cup {LoginName(l.msg) : l \in L}

----------------------------------------------------------------------------
(* DoClientLoginEx. *)

\* faulty variant: nothing replaces a random number that comes out as 0
CookieMaybeZero == IF issued = 0 THEN 0 ELSE issued + 1

\* uNewCookie: random and not 0; taken to be new
NewCookie == issued + 1

\* Whether the account is offline, logged in from the same address, or from another, which
\* is told that it has been replaced.
AcceptLogin(m) ==
  /\ Receives(m, "login") /\ Cardinality(handling) < Handlers /\ issued < MaxCookie
  /\ issued' = issued + 1
  /\ LET r == rec[m.user]
         same == r.cookie # 0 /\ r.chan = m.dev
         others == LoginsOf(m.user)
     IN  /\ handling' = handling \cup
              {[stage |-> IF same THEN "bind" ELSE "assign", msg |-> m, new |-> NewCookie,
                count |-> IF r.cookie = 0 THEN CountUp(nOnlineUsers) ELSE NotCounted]}
         /\ net' = Rest(m) \cup (IF r.cookie # 0 /\ ~ same /\ r.chan # None
                                THEN FromServer("replaced", m, r.cookie, r.chan) ELSE {})
         /\ disturbed' = IF others = {} THEN disturbed ELSE Disturb(others) \cup {LoginName(m)}
  /\ UNCHANGED <<rec, nOnlineUsers, tick, offline>>

GoesTo(l, stage) ==
  handling' = (handling \ {l}) \cup {[l EXCEPT !.stage = stage, !.count = NotCounted]}

\* faulty variant: who replaces a login gets its session
AssignWhenOffline(l) ==
  /\ l.stage = "assign" /\ GoesTo(l, "bind")
  /\ rec' = IF l.count = NotCounted THEN rec ELSE [rec EXCEPT ![l.msg.user].cookie = l.new]
  /\ IF l.count = NotCounted THEN UNCHANGED nOnlineUsers ELSE nOnlineUsers' \in {l.count, CountUp(nOnlineUsers)}
  /\ UNCHANGED <<tick, offline, issued, disturbed, net>>

\* nOnlineUsers ++ for who was offline, which may read the count as it was at the test of
\* the cookie or as it is, and the cookie
AssignCookie(l) ==
  /\ l.stage = "assign" /\ GoesTo(l, "bind")
  /\ rec' = [rec EXCEPT ![l.msg.user].cookie = l.new]
  /\ IF l.count = NotCounted THEN UNCHANGED nOnlineUsers ELSE nOnlineUsers' \in {l.count, CountUp(nOnlineUsers)}
  /\ UNCHANGED <<tick, offline, issued, disturbed, net>>

\* sockChannel = req->channel, time = tNow
BindChannel(l) ==
  /\ l.stage = "bind" /\ GoesTo(l, "answer")
  /\ rec' = [rec EXCEPT ![l.msg.user].chan = l.msg.dev, ![l.msg.user].fresh = TRUE]
  /\ UNCHANGED <<nOnlineUsers, tick, offline, issued, disturbed, net>>

\* "give the same copy of cookie to user"
AnswerLogin(l) ==
  /\ l.stage = "answer" /\ handling' = handling \ {l}
  /\ net' = net \cup FromServer("accepted", l.msg, rec[l.msg.user].cookie, l.msg.dev)
  /\ UNCHANGED <<rec, nOnlineUsers, tick, offline, issued, disturbed>>

----------------------------------------------------------------------------
(* UserOffline. *)

Free == offline = None

\* the lock is taken; the cookie is cleared
TakeOffline(u, runner) ==
  /\ Free /\ offline' = [by |-> runner, seen |-> Unread]
  /\ rec' = [rec EXCEPT ![u].cookie = 0]
  /\ disturbed' = Disturb(LoginsOf(u))

OfflineEnds ==
  /\ offline' = None
  /\ tick' = IF offline.by = "tick" THEN [tick EXCEPT !.user = None] ELSE tick

\* if( nOnlineUsers > 0 )
OfflineTest ==
  /\ ~ Free /\ offline.seen = Unread
  /\ IF nOnlineUsers > 0 THEN offline' = [offline EXCEPT !.seen = nOnlineUsers] /\ UNCHANGED tick
                         ELSE OfflineEnds
  /\ UNCHANGED <<rec, nOnlineUsers, handling, issued, disturbed, net>>

\* nOnlineUsers --, which may take the value that was tested or the one that is there now
OfflineCount ==
  /\ ~ Free /\ offline.seen # Unread /\ OfflineEnds
  /\ nOnlineUsers' \in {CountDown(offline.seen), CountDown(nOnlineUsers)}
  /\ UNCHANGED <<rec, handling, issued, disturbed, net>>

----------------------------------------------------------------------------
Holds(m) == rec[m.user].cookie = m.cookie

HandleLogout(m) ==
  /\ Receives(m, "logout") /\ net' = Rest(m)
  /\ IF Holds(m) THEN TakeOffline(m.user, "logout") ELSE Free /\ UNCHANGED <<rec, offline, disturbed>>
  /\ UNCHANGED <<nOnlineUsers, handling, tick, issued>>

\* faulty variant: the cookie is not compared
HeartbeatOfAnyone(m) ==
  /\ Receives(m, "heartbeat") /\ Free /\ net' = Rest(m)
  /\ rec' = [rec EXCEPT ![m.user].fresh = TRUE]
  /\ UNCHANGED <<nOnlineUsers, handling, tick, offline, issued, disturbed>>

\* SIMS_OK or SIMS_DENY; the client does nothing on SIMS_OK that it does not do without
HandleHeartbeat(m) ==
  /\ Receives(m, "heartbeat") /\ Free
  /\ rec' = IF Holds(m) THEN [rec EXCEPT ![m.user].fresh = TRUE] ELSE rec
  /\ net' = Rest(m) \cup (IF Holds(m) THEN {} ELSE FromServer("expired", m, m.cookie, m.dev))
  /\ UNCHANGED <<nOnlineUsers, handling, tick, offline, issued, disturbed>>

\* heartbeat_timeout passes without a heartbeat; a login is handled in less
TimePasses(u) ==
  /\ rec[u].fresh /\ \A l \in LoginsOf(u) : l.stage # "answer"
  /\ rec' = [rec EXCEPT ![u].fresh = FALSE]
  /\ UNCHANGED <<nOnlineUsers, handling, tick, offline, issued, disturbed, net>>

----------------------------------------------------------------------------
(* CheckUserStatus, each minute. *)

\* faulty variant: the time is not looked at
OnlineByCookie(u) == rec[u].cookie # 0

\* bOnline
Online(u) == rec[u].cookie # 0 /\ rec[u].fresh

\* accounts whose record has ever been used
Loaded == {u \in Users : rec[u].cookie # 0 \/ rec[u].chan # None}

\* without the lock
TickJudge(u) ==
  /\ tick.user = None /\ u \in tick.todo \cap Loaded
  /\ tick' = [todo |-> tick.todo \ {u},
              user |-> IF ~ Online(u) /\ rec[u].cookie # 0 THEN u ELSE None,
              count |-> IF Online(u) THEN CountUp(tick.count) ELSE tick.count]
  /\ UNCHANGED <<rec, nOnlineUsers, handling, offline, issued, disturbed, net>>

\* under the lock; nothing is read again
TickDrop ==
  /\ tick.user # None /\ TakeOffline(tick.user, "tick")
  /\ UNCHANGED <<nOnlineUsers, handling, tick, issued, net>>

TickDone == tick.user = None /\ tick.todo \cap Loaded = {} /\ tick' = NoTick

\* faulty variant: the count is left to login and logout
TickEndUncounted ==
  TickDone /\ UNCHANGED <<rec, nOnlineUsers, handling, offline, issued, disturbed, net>>

TickEnd ==
  /\ TickDone /\ nOnlineUsers' = tick.count
  /\ UNCHANGED <<rec, handling, offline, issued, disturbed, net>>

----------------------------------------------------------------------------
LoginStep(l) == AssignCookie(l) \/ BindChannel(l) \/ AnswerLogin(l)
OfflineStep == OfflineTest \/ OfflineCount
TickStep == TickDrop \/ TickEnd \/ \E u \in Users : TickJudge(u)

ServerNext ==
  \/ \E m \in net : AcceptLogin(m) \/ HandleLogout(m) \/ HandleHeartbeat(m)
  \/ \E l \in handling : LoginStep(l)
  \/ \E u \in Users : TimePasses(u)
  \/ OfflineStep \/ TickStep
=============================================================================
