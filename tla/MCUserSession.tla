--------------------------- MODULE MCUserSession ---------------------------
(***************************************************************************)
(* Two client programs of one account.  The two are alike: the one that    *)
(* logs in first is called "d1".  The steps of a UserOffline have nothing  *)
(* in common with those of the clients and are not interleaved with them;  *)
(* when both clients have logged in, they are interleaved with others only *)
(* while a login is handled: the race with CheckUserStatus alone is the    *)
(* same with one client.                                                   *)
(***************************************************************************)
EXTENDS UserSession

FirstIsD1 == logins["d2"] > 0 => logins["d1"] > 0

Calm ==
  (offline # None /\ offline' = offline) =>
    UNCHANGED clientVars /\ (logins["d2"] = 0 \/ handling # {})

MCSpec == Init /\ [][Next /\ FirstIsD1' /\ Calm]_vars /\ Fairness
=============================================================================
