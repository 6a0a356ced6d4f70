---------------------------- MODULE MsgTransport ----------------------------
(***************************************************************************)
(* The two ways of SendMessageInternal: a request whose channel has a      *)
(* socket is written to that TCP connection (MsgConnection), one without   *)
(* leaves over UDP, and in segments when it is big (MsgSegment).  The two  *)
(* share nothing but m_mutexNet, which each of them keeps for a step: a    *)
(* behaviour is of one terminal that uses one of them.                     *)
(***************************************************************************)
EXTENDS MsgSegment, MsgConnection

VARIABLE socket  \* SIM_CHANNEL::socket of the messages: 0 for UDP

vars == <<socket, segmentVars, connectionVars>>

Init == socket \in {0, 1} /\ SegmentInit /\ ConnectionInit

\* pChannel->socket != 0
OverTCP == socket # 0 /\ ConnectionNext /\ UNCHANGED segmentVars
OverUDP == socket = 0 /\ SegmentNext /\ UNCHANGED connectionVars

Next == (OverTCP \/ OverUDP) /\ UNCHANGED socket

Spec == Init /\ [][Next]_vars /\ SegmentFairness /\ ConnectionFairness
=============================================================================
