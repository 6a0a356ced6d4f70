---------------------------- MODULE AtLeastOnce ----------------------------
(***************************************************************************)
(* What PostMessage with bWaitACK promises its caller, without datagrams,  *)
(* retries or syncs: a posted message may reach its peer; it counts as     *)
(* confirmed only if it has; and it does not stay pending for ever.        *)
(***************************************************************************)
CONSTANT Posts

VARIABLES status,   \* [Posts -> {"idle", "pending", "confirmed", "abandoned"}]
          reached   \* the posts that have reached their peers

vars == <<status, reached>>

Init == /\ status = [m \in Posts |-> "idle"]
        /\ reached = {}

Submit(m) ==
  /\ status[m] = "idle"
  /\ status' = [status EXCEPT ![m] = "pending"]
  /\ UNCHANGED reached

Reach(m) ==
  /\ status[m] # "idle"
  /\ reached' = reached \cup {m}
  /\ UNCHANGED status

Confirm(m) ==
  /\ status[m] = "pending" /\ m \in reached
  /\ status' = [status EXCEPT ![m] = "confirmed"]
  /\ UNCHANGED reached

Abandon(m) ==
  /\ status[m] = "pending"
  /\ status' = [status EXCEPT ![m] = "abandoned"]
  /\ UNCHANGED reached

Settle(m) == Confirm(m) \/ Abandon(m)

Next == \E m \in Posts : Submit(m) \/ Reach(m) \/ Settle(m)

Safety == Init /\ [][Next]_vars

Spec == Safety /\ \A m \in Posts : WF_vars(Settle(m))
=============================================================================
