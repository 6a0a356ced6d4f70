--------------------------- MODULE MCMsgTransport ---------------------------
(***************************************************************************)
(* MsgTransport.  UDP: two peers and messages of two segments, one with a  *)
(* short last segment, two that fill their segments.  TCP: four messages,  *)
(* of a header alone and of more, on a connection that holds less than two *)
(* of them.                                                                *)
(***************************************************************************)
EXTENDS MsgTransport

MCBigMessages == { [id |-> 1, from |-> "server", size |-> 3], [id |-> 2, from |-> "server", size |-> 4],
                   [id |-> 3, from |-> "peer", size |-> 4] }
MCSends == [s \in Senders |-> IF s = "server" THEN 2 ELSE 1]
MCLives == [s \in Senders |-> IF s = "server" THEN 1 ELSE 2]

MCMessages == {"ping", "locate", "room", "end"}
MCSize == [m \in MCMessages |-> CASE m = "ping" -> 2 [] m = "locate" -> 3 [] m = "room" -> 4 [] m = "end" -> 2]
=============================================================================
