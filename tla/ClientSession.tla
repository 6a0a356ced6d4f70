--------------------------- MODULE ClientSession ---------------------------
(***************************************************************************)
(* The session as BBQClient (bbqclient.cxx) sees it.  A calling thread     *)
(* logs in and out (LoginEx, Logout), the tick thread sends heartbeats     *)
(* (SendHeartbeat), a handler thread takes SIM_SC_LOGINREPLACED.           *)
(***************************************************************************)
EXTENDS SessionNet, Functions

CONSTANT MaxLogin   \* bound: logins that the programs make

ASSUME ClientAssumption == MaxLogin \in Nat

VARIABLES
  account,     \* [Devices -> Users]: the account it logs in to
  login,       \* m_bLogin
  cookie,      \* m_sessionInfo.cookie
  caller,      \* where the calling thread is: "idle", "waiting" for the answer
  beat,        \* where the tick thread is: "idle", or "expired" after SIMS_DENY
  logins       \* the sync of the last login

clientVars == <<account, login, cookie, caller, beat, logins>>

ClientInit ==
  /\ account \in [Devices -> Users]
  /\ login = [d \in Devices |-> FALSE] /\ cookie = [d \in Devices |-> 0]
  /\ caller = [d \in Devices |-> "idle"] /\ beat = [d \in Devices |-> "idle"]
  /\ logins = [d \in Devices |-> 0]

Request(kind, d) == Message(kind, d, account[d], logins'[d], cookie[d], None)

----------------------------------------------------------------------------
\* Logout sends SIM_CS_LOGOUT once and without an ACK, if the last heartbeat was good
\* (m_bHeartbeatOkay, left open here); a program that ends sends nothing.
Logout(d, rest) ==
  /\ net' \in {rest, rest \cup {Request("logout", d)}}
  /\ login' = [login EXCEPT ![d] = FALSE]
  /\ cookie' = [cookie EXCEPT ![d] = 0]

UserLogsOut(d) ==
  /\ caller[d] = "idle" /\ login[d] /\ UNCHANGED <<account, caller, beat, logins>>
  /\ Logout(d, net)

\* LoginEx, after the Logout it begins with
LoginAsk(d) ==
  /\ caller[d] = "idle" /\ ~ login[d] /\ FoldFunction(+, 0, logins) < MaxLogin
  /\ caller' = [caller EXCEPT ![d] = "waiting"]
  /\ logins' = [logins EXCEPT ![d] = @ + 1]
  /\ net' = net \cup {Request("login", d)}
  /\ UNCHANGED <<account, login, cookie, beat>>

\* no answer in time, or SIMS_DENY
LoginFails(d) ==
  /\ caller[d] = "waiting" /\ caller' = [caller EXCEPT ![d] = "idle"]
  /\ UNCHANGED <<account, login, cookie, beat, logins, net>>

\* SIMS_OK, in the answer with the sync of this login
LoginSucceeds(d, m) ==
  /\ caller[d] = "waiting" /\ caller' = [caller EXCEPT ![d] = "idle"]
  /\ Receives(m, "accepted") /\ m.to = d /\ m.n = logins[d] /\ net' = Rest(m)
  /\ cookie' = [cookie EXCEPT ![d] = m.cookie]
  /\ login' = [login EXCEPT ![d] = TRUE]
  /\ UNCHANGED <<account, beat, logins>>

----------------------------------------------------------------------------
\* one heartbeat at a time: the sync tells the answers of two apart
NoBeatUnderWay(d) == \A m \in net : m.dev = d => m.kind \notin {"heartbeat", "expired"}

\* SendHeartbeat.  On SIMS_OK, and without an answer, the client tries again later.
Heartbeat(d) ==
  /\ login[d] /\ beat[d] = "idle" /\ NoBeatUnderWay(d) /\ UNCHANGED clientVars
  /\ net' = net \cup {Request("heartbeat", d)}

\* SIMS_DENY, unless Logout has broken the wait for the answer
HeartbeatDenied(d, m) ==
  /\ login[d] /\ beat[d] = "idle" /\ beat' = [beat EXCEPT ![d] = "expired"]
  /\ Receives(m, "expired") /\ m.to = d /\ m.n = logins[d] /\ net' = Rest(m)
  /\ UNCHANGED <<account, login, cookie, caller, logins>>

\* Logout of whatever session there is by now
SessionExpires(d) ==
  /\ beat[d] = "expired" /\ beat' = [beat EXCEPT ![d] = "idle"]
  /\ UNCHANGED <<account, caller, logins>>
  /\ IF login[d] THEN Logout(d, net) ELSE UNCHANGED <<login, cookie, net>>

LoginReplaced(d, m) ==
  /\ Receives(m, "replaced") /\ m.to = d /\ UNCHANGED <<account, caller, beat, logins>>
  /\ IF login[d] /\ m.user = account[d] /\ m.cookie = cookie[d]
     THEN Logout(d, Rest(m))
     ELSE net' = Rest(m) /\ UNCHANGED <<login, cookie>>

ClientNext ==
  \E d \in Devices :
    \/ UserLogsOut(d) \/ LoginAsk(d) \/ LoginFails(d) \/ Heartbeat(d) \/ SessionExpires(d)
    \/ \E m \in net : LoginSucceeds(d, m) \/ HeartbeatDenied(d, m) \/ LoginReplaced(d, m)
=============================================================================
