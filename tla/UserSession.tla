---------------------------- MODULE UserSession ----------------------------
(***************************************************************************)
(* Clients and server together: what the two sides make of one session.    *)
(***************************************************************************)
EXTENDS ServerSession, ClientSession

vars == <<net, serverVars, clientVars>>

Init == net = {} /\ ServerInit /\ ClientInit

Next ==
  /\ \/ ServerNext /\ UNCHANGED clientVars
     \/ ClientNext /\ UNCHANGED serverVars
     \/ (\E m \in net : Lose(m)) /\ UNCHANGED <<serverVars, clientVars>>
  /\ NetBound'

Server(A) == A /\ UNCHANGED clientVars /\ NetBound'
Client(A) == A /\ UNCHANGED serverVars /\ NetBound'

(***************************************************************************)
(* The threads of the server go on, time passes, and a message that is not *)
(* delivered is lost in the end.  A client that is logged in goes on       *)
(* sending heartbeats (OnTick).  Of the network it is assumed that of the  *)
(* heartbeats sent again and again one arrives, and of the answers.        *)
(***************************************************************************)
Fairness ==
  /\ WF_vars(Server(\E l \in handling : LoginStep(l)))
  /\ WF_vars(Server(OfflineStep)) /\ WF_vars(Server(TickStep))
  /\ \A u \in Users : WF_vars(Server(TimePasses(u)))
  /\ WF_vars((\E m \in net : Lose(m)) /\ UNCHANGED <<serverVars, clientVars>>)
  /\ \A d \in Devices :
       /\ SF_vars(Client(Heartbeat(d)))
       /\ SF_vars(Server(\E m \in net : m.dev = d /\ HandleHeartbeat(m)))
       /\ SF_vars(Client(\E m \in net : HeartbeatDenied(d, m)))
       /\ WF_vars(Client(SessionExpires(d)))
       /\ WF_vars(Client(LoginFails(d)))

Spec == Init /\ [][Next]_vars /\ Fairness

----------------------------------------------------------------------------
Cookies == 0..MaxCookie
Messages == [kind : {"login", "logout", "heartbeat", "accepted", "expired", "replaced"},
             dev : Devices, user : Users, n : Nat, cookie : Cookies, to : Devices \cup {None}]

Counts == 0..CountMax

\* The shape of the state: CheckUserStatus is in UserOffline only for the account it found.
\* (nOnlineUsers passes below 0, to 2^32 - 1, when CheckUserStatus writes 0 between the test
\* and the decrement of UserOffline; see CountSettles.)
TypeOK ==
  /\ net \subseteq Messages
  /\ rec \in [Users -> [cookie : Cookies, chan : Devices \cup {None}, fresh : BOOLEAN]]
  /\ nOnlineUsers \in Counts
  /\ handling \subseteq [stage : {"assign", "bind", "answer"}, msg : Messages, new : Cookies,
                        count : Counts \cup {NotCounted}]
  /\ tick \in [todo : SUBSET Users, user : Users \cup {None}, count : Counts]
  /\ offline \in [by : {"logout", "tick"}, seen : Counts \cup {Unread}] \cup {None}
  /\ ~ Free /\ offline.by = "tick" => tick.user # None
  /\ issued \in Cookies
  /\ disturbed \subseteq Devices \X Nat
  /\ account \in [Devices -> Users] /\ login \in [Devices -> BOOLEAN]
  /\ cookie \in [Devices -> Cookies] /\ caller \in [Devices -> {"idle", "waiting"}]
  /\ beat \in [Devices -> {"idle", "expired"}] /\ logins \in [Devices -> Nat]

\* Two clients hold one session of an account only if DoClientLoginEx, which takes no lock,
\* handled one of their logins together with another one or with a UserOffline: otherwise
\* whoever logs in second gets a new cookie, and the first one's is worth nothing.
OneLogin ==
  \A d, e \in Devices :
    (d # e /\ login[d] /\ login[e] /\ account[d] = account[e] /\ cookie[d] = cookie[e]
      /\ cookie[d] # 0) => {<<d, logins[d]>>, <<e, logins[e]>>} \cap disturbed # {}

\* A client gets the cookie 0, with which it would seem to be in session while it is offline,
\* only if UserOffline ran while its login was being handled.
ZeroCookieRaced ==
  \A d \in Devices : (login[d] /\ cookie[d] = 0) => <<d, logins[d]>> \in disturbed

\* A client whose session was replaced, logged out or dropped finds that out from a
\* heartbeat at last, though every notice to it may be lost.
Superseded(d) == login[d] /\ cookie[d] # rec[account[d]].cookie
SupersededLearns == \A d \in Devices : Superseded(d) ~> ~ Superseded(d)

\* When all the clients of an account have gone, without a logout or with one that is lost or
\* late, the account is taken offline and stays so.
NobodyOf(u) == \A d \in Devices : account[d] = u => ~ login[d]
GoneGoesOffline == \A u \in Users : <>[]NobodyOf(u) => <>[](rec[u].cookie = 0)

\* Whatever the unlocked updates of nOnlineUsers lose or count twice, and though it may have
\* passed below 0, it becomes the number of accounts online when these no longer change.
OnlineUsers == {u \in Users : rec[u].cookie # 0}
CountSettles ==
  \A U \in SUBSET Users : <>[](OnlineUsers = U) => <>[](nOnlineUsers = Cardinality(U))
=============================================================================
