----------------------------- MODULE MCMsgPost -----------------------------
(***************************************************************************)
(* MsgTerminal with posted messages only: a client that posts a notification *)
(* and the answer to a request of the server, with different intervals and *)
(* retries.                                                                *)
(***************************************************************************)
EXTENDS MsgTerminalPromise

MCTerminals == {"server", "client"}

MCPost(n, kind, preset, interval, retries) ==
  [id |-> n, op |-> "post", from |-> "client", to |-> "server", kind |-> kind,
   preset |-> preset, interval |-> interval, tries |-> retries]

\* the answer's sync, the server's, is the one that the client's counter comes to as well
MCCalls == { MCPost(1, "SIM_CS_MCC_NOTIFY", 0, 1, 3), MCPost(2, "UCM_CS_A", 1, 0, 2) }
MCAckKinds == {"SIM_CS_MCC_NOTIFY", "UCM_CS_A"}
MCAnswers == [k \in {} |-> "-"]
=============================================================================
