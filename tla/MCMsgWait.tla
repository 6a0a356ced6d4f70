----------------------------- MODULE MCMsgWait -----------------------------
(***************************************************************************)
(* MsgTerminal with blocking calls, in three scenarios.  MCRequests: a     *)
(* client makes two requests with the same ids to one server.              *)
(* MCOneRequest: it makes one, and tries twice.  MCSends: it sends a       *)
(* message, twice, and waits for the ACK while a posted answer with the    *)
(* same sync is acknowledged too.                                          *)
(***************************************************************************)
EXTENDS MsgTerminal

MCTerminals == {"client", "server"}

MCCall(n, op, kind, preset, retries) ==
  [id |-> n, op |-> op, from |-> "client", to |-> "server", kind |-> kind, preset |-> preset,
   interval |-> 0, tries |-> retries]

MCRequests == { MCCall(n, "request", "SIM_CS_LOCATE", 0, 1) : n \in {1, 2} }
MCOneRequest == { MCCall(3, "request", "SIM_CS_LOCATE", 0, 2) }
MCSends == { MCCall(1, "send", "SIM_CS_CHANGESTATUS", 0, 2), MCCall(2, "post", "UCM_CS_A", 1, 2) }
MCScenarios == {MCRequests, MCOneRequest, MCSends}
MCCalls == UNION MCScenarios
MCAckKinds == {"SIM_CS_CHANGESTATUS", "UCM_CS_A"}
MCAnswers == [k \in {"SIM_CS_LOCATE"} |-> "SIM_SC_LOCATE"]

\* All five calls side by side are out of reach: a behaviour is of one scenario.
OneScenario == \E s \in MCScenarios : \A c \in MCCalls \ s : pc'[c] = "idle"

\* The two requests are alike but for their number: the first one begins first.
InOrder == \A c, d \in MCRequests : c.id < d.id /\ pc'[c] = "idle" => pc'[d] = "idle"

\* Fairness is stated for the calls whose liveness is checked: OneScenario keeps none of their
\* steps back once one of them has begun.
MCSpec == Init /\ [][Next]_vars /\ FairTo(MCSends)

\* SendMessage with bWaitACK returns, whatever the network loses, while a post with the same
\* sync is acknowledged, retried and given up beside it.
SendsReturn == \A c \in MCSends : pc[c] = "entered" ~> pc[c] \in {"done", "failed"}
=============================================================================
