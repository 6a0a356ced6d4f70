--------------------------- MODULE MsgConnection ---------------------------
(***************************************************************************)
(* One direction of a BBQMsgConnection (msgconnection.cxx): whole messages *)
(* over a TCP stream that takes and gives any number of bytes.  The sender *)
(* never blocks: what the socket does not take waits in m_QueueWrite, and  *)
(* the net thread flushes it.  The receiver collects bytes in m_ReadBuf    *)
(* and hands whole messages to its terminal                                *)
(* (BBQMsgTerminal::HandleMsgConnectionsEvent).                            *)
(*                                                                         *)
(* m_mutexNet is kept for a whole WriteMessage, FlushMessage or reading    *)
(* loop, while TCP moves bytes on its own.                                 *)
(***************************************************************************)
EXTENDS Integers, SequencesExt

CONSTANTS
  Messages,   \* the messages the program sends on the connection, each once
  Size,       \* [Messages -> Nat]: SIM_MSGSIZE, in bytes
  Header,     \* sizeof(SFIDMSGHEADER)
  QueueMax,   \* MSGCONNECTION_MSGQUEUEMAX
  BufSize,    \* MSGCONNECTION_READBUFSIZE
  WireMax,    \* bytes that the two sockets hold at most
  RequestMax  \* m_nRequestQueueMax of the receiver

ASSUME ConnectionAssumption ==
  /\ Header \in Nat \ {0} /\ QueueMax \in Nat \ {0} /\ BufSize \in Nat
  /\ WireMax \in Nat \ {0} /\ RequestMax \in Nat \ {0}
  /\ Size \in [Messages -> Nat] /\ \A m \in Messages : Size[m] \in Header..BufSize
  /\ {"free", "flush"} \cap Messages = {}

VARIABLES
  writeQueue, \* m_QueueWrite: Seq([msg, at]), a PByteBlock with msg from its byte at on
  writer,     \* who keeps the sender's m_mutexNet: "free", "flush" (the net thread) or the
              \*   message that a thread is at in WriteMessage
  wire,       \* the bytes [msg, at] that TCP holds
  readBuf,    \* the bytes in m_ReadBuf, m_nReadBytes of them
  reading,    \* BOOLEAN: the receiver's net thread is in its loop
  requests,   \* the length of the receiver's m_listRequests
  open,       \* the connection is up
  accepted,   \* history: the messages for which WriteMessage returned TRUE, in order
  refused,    \* history: those for which it returned FALSE
  received    \* history: the messages given to OnMessageArriveInternal, in order

sendVars == <<writeQueue, writer, accepted, refused>>
recvVars == <<readBuf, reading, requests, received>>
connectionVars == <<sendVars, wire, recvVars, open>>

----------------------------------------------------------------------------
(* The sender. *)

Block(m, i) == [msg |-> m, at |-> i]
Left(b) == Size[b.msg] - b.at + 1
Bytes(b, n) == [i \in 1..n |-> Block(b.msg, b.at + i - 1)]

\* Write: how many bytes of the block the socket takes
Taken(b) ==
  LET room == WireMax - Len(wire)
  IN  IF ~ open \/ room = 0 THEN {0}
      ELSE 1..(IF Left(b) < room THEN Left(b) ELSE room)

\* a thread calls WriteMessage
WriteBegin(m) ==
  /\ writer = "free" /\ open
  /\ m \notin ToSet(accepted) \cup refused
  /\ writer' = m
  /\ UNCHANGED <<writeQueue, accepted, refused, wire, recvVars, open>>

\* select says that the socket takes bytes: the net thread calls FlushMessage
FlushBegin ==
  /\ writer = "free" /\ open /\ writeQueue # <<>> /\ Len(wire) < WireMax
  /\ writer' = "flush"
  /\ UNCHANGED <<writeQueue, accepted, refused, wire, recvVars, open>>

\* FlushMessage: the front block is written completely, the loop goes on
FlushBlock ==
  /\ writer # "free" /\ writeQueue # <<>>
  /\ Left(Head(writeQueue)) \in Taken(Head(writeQueue))
  /\ wire' = wire \o Bytes(Head(writeQueue), Left(Head(writeQueue)))
  /\ writeQueue' = Tail(writeQueue)
  /\ UNCHANGED <<writer, accepted, refused, recvVars, open>>

\* the block at the front of q when n bytes of it are gone
PopFront(q, n) == <<Block(Head(q).msg, Head(q).at + n)>> \o Tail(q)

\* FlushMessage returns FALSE: nothing, or a part of the block was written.  WriteMessage
\* then queues its message, if there is room
FlushBlocked ==
  /\ writer # "free" /\ writeQueue # <<>>
  /\ \E n \in Taken(Head(writeQueue)) :
       LET rest == PopFront(writeQueue, n)
           queued == writer \in Messages /\ Len(writeQueue) < QueueMax
       IN  /\ n < Left(Head(writeQueue))
           /\ wire' = wire \o Bytes(Head(writeQueue), n)
           /\ writeQueue' = IF queued THEN Append(rest, Block(writer, 1)) ELSE rest
           /\ accepted' = IF queued THEN Append(accepted, writer) ELSE accepted
           /\ refused' = IF writer \in Messages /\ ~ queued THEN refused \cup {writer} ELSE refused
  /\ writer' = "free"
  /\ UNCHANGED <<recvVars, open>>

\* faulty variant: the whole message again
QueuedWhole(m, n) == IF n < Size[m] THEN <<Block(m, 1)>> ELSE <<>>

\* what WriteMessage queues when the socket has taken n bytes of m
Queued(m, n) == IF n < Size[m] THEN <<Block(m, n + 1)>> ELSE <<>>

\* FlushMessage returns TRUE, the queue is empty: WriteMessage writes the message itself
\* and queues what is left of it
FlushDone ==
  /\ writer # "free" /\ writeQueue = <<>>
  /\ IF writer = "flush"
     THEN UNCHANGED <<writeQueue, wire, accepted>>
     ELSE \E n \in Taken(Block(writer, 1)) :
            /\ wire' = wire \o Bytes(Block(writer, 1), n)
            /\ writeQueue' = Queued(writer, n)
            /\ accepted' = Append(accepted, writer)
  /\ writer' = "free"
  /\ UNCHANGED <<refused, recvVars, open>>

----------------------------------------------------------------------------
(* The receiver. *)

HasHeader(s) == Len(s) >= Header

\* SIM_MAGIC is where a header must be
Magic(s) == s[1].at = 1

\* faulty variant: one byte more than the message
WholeAndMore(s) == HasHeader(s) /\ Magic(s) /\ Len(s) > Size[s[1].msg]

\* PickMessageFromBuffer finds a message in the buffer s
Whole(s) == HasHeader(s) /\ Magic(s) /\ Len(s) >= Size[s[1].msg]

\* ... or empties it, when the header is bad
Sound(s) == IF HasHeader(s) /\ ~ Magic(s) THEN <<>> ELSE s

\* HandleMsgConnectionsEvent: the socket has data and the request queue has room
ReadBegin ==
  /\ ~ reading /\ wire # <<>> /\ requests < RequestMax
  /\ reading' = TRUE
  /\ UNCHANGED <<sendVars, wire, readBuf, requests, received, open>>

\* faulty variant: one message per event
PickOne ==
  /\ reading /\ Whole(readBuf)
  /\ LET m == readBuf[1].msg
     IN  /\ readBuf' = SubSeq(readBuf, Size[m] + 1, Len(readBuf))
         /\ received' = Append(received, m)
  /\ requests' = IF requests < RequestMax THEN requests + 1 ELSE requests
  /\ reading' = FALSE
  /\ UNCHANGED <<sendVars, wire, open>>

\* ReadMessage takes a message from the buffer, OnMessageArriveInternal copies it to the
\* request queue or drops it, the loop goes on
Pick ==
  /\ reading /\ Whole(readBuf)
  /\ LET m == readBuf[1].msg
     IN  /\ readBuf' = SubSeq(readBuf, Size[m] + 1, Len(readBuf))
         /\ received' = Append(received, m)
  /\ requests' = IF requests < RequestMax THEN requests + 1 ELSE requests
  /\ UNCHANGED <<sendVars, wire, reading, open>>

\* ReadMessage reads the socket once; the loop ends when there is still no whole message
Fill ==
  /\ reading /\ ~ Whole(readBuf) /\ wire # <<>>
  /\ LET kept == Sound(readBuf)
         room == BufSize - Len(kept)
     IN  \E n \in 1..(IF room < Len(wire) THEN room ELSE Len(wire)) :
           LET filled == kept \o SubSeq(wire, 1, n)
           IN  /\ wire' = SubSeq(wire, n + 1, Len(wire))
               /\ readBuf' = Sound(filled)
               /\ reading' = Whole(filled)
  /\ UNCHANGED <<sendVars, requests, received, open>>

\* ... or there is nothing more to read
ReadEnd ==
  /\ reading /\ ~ Whole(readBuf) /\ wire = <<>>
  /\ reading' = FALSE
  /\ readBuf' = Sound(readBuf)
  /\ UNCHANGED <<sendVars, wire, requests, received, open>>

\* a handler thread takes a message from the request queue
Handle ==
  /\ requests > 0
  /\ requests' = requests - 1
  /\ UNCHANGED <<sendVars, wire, readBuf, reading, received, open>>

\* the sender's end closes: an error, the idle time of PrepareSelect or EraseChannel; the
\* connection and its queue are deleted, what TCP holds may still be read
Close ==
  /\ open /\ writer = "free"
  /\ open' = FALSE
  /\ writeQueue' = <<>>
  /\ UNCHANGED <<writer, accepted, refused, wire, recvVars>>

----------------------------------------------------------------------------
ConnectionInit ==
  /\ writeQueue = <<>> /\ writer = "free" /\ wire = <<>>
  /\ readBuf = <<>> /\ reading = FALSE /\ requests = 0 /\ open = TRUE
  /\ accepted = <<>> /\ refused = {} /\ received = <<>>

SendStep == FlushBlock \/ FlushBlocked \/ FlushDone
ReadStep == Pick \/ Fill \/ ReadEnd

ConnectionNext ==
  \/ \E m \in Messages : WriteBegin(m)
  \/ FlushBegin \/ SendStep \/ ReadBegin \/ ReadStep \/ Handle \/ Close

\* The net threads of both terminals and the handlers run.
ConnectionFairness ==
  /\ WF_connectionVars(FlushBegin) /\ WF_connectionVars(SendStep)
  /\ WF_connectionVars(ReadBegin) /\ WF_connectionVars(ReadStep) /\ WF_connectionVars(Handle)

----------------------------------------------------------------------------
\* What arrives is a prefix of what was accepted, each message once and in order: partial
\* writes, queued remainders and several writing threads never mix the bytes of two
\* messages, and a message that WriteMessage refused never arrives.
ReceivedInOrder == IsPrefix(received, accepted)

\* The receiving loop leaves no whole message in its buffer: select says nothing of bytes
\* that were read already.
NoneLeftInBuffer == ~ reading => ~ (HasHeader(readBuf) /\ Len(readBuf) >= Size[readBuf[1].msg])

\* Every message that was accepted arrives, as long as the connection stays up.
AcceptedArrives == \A m \in Messages :
  m \in ToSet(accepted) ~> (m \in ToSet(received) \/ ~ open)
=============================================================================
