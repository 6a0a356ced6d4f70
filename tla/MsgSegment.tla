----------------------------- MODULE MsgSegment -----------------------------
(***************************************************************************)
(* Messages above m_nUDPDataLimit (msgterminal.cxx, SUPPORT_BIG_MESSAGE):  *)
(* SendMessageInternal cuts a message into SIM_SEGMENT datagrams with one  *)
(* number of m_nSegSyncSerial; the receiver collects them in a SegSession  *)
(* per peer and number (OnMessageSegmentArriveInternal), hands the whole   *)
(* message on and deletes the session; OnTick deletes sessions that are    *)
(* older than BIG_MESSAGE_SESSION_TIME_MAX.                                *)
(*                                                                         *)
(* The network loses, duplicates and reorders segments: any segment ever   *)
(* sent may arrive at any time.  A sender may also start again, on the     *)
(* same address, with m_nSegSyncSerial 0.                                  *)
(***************************************************************************)
EXTENDS Integers, SequencesExt, Lists

CONSTANTS
  Senders,    \* the peers of the receiver
  BigMessages,\* [id, from, size]: messages above the limit
  Unit,       \* unit_size, the bytes of a message that a segment carries
  MaxAge,     \* BIG_MESSAGE_SESSION_TIME_MAX
  MaxSends,   \* [Senders -> Nat], bound: transmissions of a sender in one life
  MaxLives    \* [Senders -> Nat], bound: starts of a sender

ASSUME SegmentAssumption ==
  /\ Unit \in Nat \ {0} /\ MaxAge \in Nat
  /\ MaxSends \in [Senders -> Nat] /\ MaxLives \in [Senders -> Nat]
  /\ \A m \in BigMessages : m.from \in Senders /\ m.size \in Nat /\ m.size > Unit

VARIABLES
  serial,     \* [Senders -> Nat]: m_nSegSyncSerial
  life,       \* history: [Senders -> Nat] the sender's start
  net,        \* the segments ever sent
  sessions,   \* m_listMsgSegments
  delivered   \* the message that was handed on last, as the set of the segments that it
              \*   was copied from; {} before the first

segmentVars == <<serial, life, net, sessions, delivered>>

----------------------------------------------------------------------------
\* n: the segments of a message of this size
Pieces(size) == ((size - 1) \div Unit) + 1

\* faulty variant: the rest of the division, the form that the code has in a comment
PieceLengthModulo(size, i) == IF i < Pieces(size) - 1 THEN Unit ELSE size % Unit

\* datasize of the segment i
PieceLength(size, i) == IF i < Pieces(size) - 1 THEN Unit ELSE size - Unit * i

Segment(m, n, i) ==
  [from |-> m.from, sync |-> n, total |-> m.size, pieces |-> Pieces(m.size), offset |-> i,
   length |-> PieceLength(m.size, i), life |-> life[m.from], msg |-> m]

\* SendMessageInternal: the loop stops at the first failing write, at segment k
Send(m, k) ==
  /\ serial[m.from] < MaxSends[m.from]
  /\ serial' = [serial EXCEPT ![m.from] = @ + 1]
  /\ net' = net \cup {Segment(m, serial[m.from], i) : i \in 0..(k - 1)}
  /\ UNCHANGED <<life, sessions, delivered>>

\* the sender's process ends and starts again
Restart(s) ==
  /\ life[s] < MaxLives[s]
  /\ life' = [life EXCEPT ![s] = @ + 1]
  /\ serial' = [serial EXCEPT ![s] = 0]
  /\ UNCHANGED <<net, sessions, delivered>>

----------------------------------------------------------------------------
\* faulty variants: the number is not compared; a segment that is there does not match
MatchesAnySync(s, p) == s.from = p.from
MatchesMissing(s, p) == s.from = p.from /\ s.sync = p.sync /\ p.offset \notin s.flags

\* the condition of SegSession::Match
Matches(s, p) == s.from = p.from /\ s.sync = p.sync

\* faulty variant: the age begins anew with a duplicate
CopyRefreshed(s, p) ==
  IF p.offset \notin s.flags /\ p.length <= s.left
  THEN [s EXCEPT !.flags = @ \cup {p.offset}, !.left = @ - p.length, !.parts = @ \cup {p}]
  ELSE [s EXCEPT !.age = 0]

\* the copying, in SegSession::Match and in the constructor
Copy(s, p) ==
  IF p.offset \notin s.flags /\ p.length <= s.left
  THEN [s EXCEPT !.flags = @ \cup {p.offset}, !.left = @ - p.length, !.parts = @ \cup {p}]
  ELSE s

\* a session as its constructor begins, before it copies the first segment
NewSession(p) ==
  [from |-> p.from, sync |-> p.sync, total |-> p.total, pieces |-> p.pieces, left |-> p.total,
   flags |-> {}, parts |-> {}, age |-> 0]

\* OnMessageSegmentArriveInternal, with m_mutexMsgSegment held
Arrive(p) ==
  LET i == SelectInSeq(sessions, LAMBDA s : Matches(s, p))
      s == Copy(IF i = 0 THEN NewSession(p) ELSE sessions[i], p)
      rest == IF i = 0 THEN sessions ELSE RemoveAt(sessions, i)
  IN  /\ p \in net
      /\ IF s.left = 0
         THEN /\ sessions' = rest
              /\ delivered' = s.parts
         ELSE /\ sessions' = IF i = 0 THEN Append(sessions, s) ELSE [sessions EXCEPT ![i] = s]
              /\ UNCHANGED delivered
      /\ UNCHANGED <<serial, life, net>>

\* time passes; a session's age counts up to the first value that is too old
TimePasses ==
  /\ \E i \in DOMAIN sessions : sessions[i].age <= MaxAge
  /\ sessions' = [i \in DOMAIN sessions |->
                    [sessions[i] EXCEPT !.age = IF @ > MaxAge THEN @ ELSE @ + 1]]
  /\ UNCHANGED <<serial, life, net, delivered>>

\* the cleaning in OnTick
Clean ==
  /\ sessions' = Without(sessions, {s \in ToSet(sessions) : s.age > MaxAge})
  /\ sessions' # sessions
  /\ UNCHANGED <<serial, life, net, delivered>>

----------------------------------------------------------------------------
SegmentInit ==
  /\ serial = [s \in Senders |-> 0]
  /\ life = [s \in Senders |-> 1]
  /\ net = {} /\ sessions = <<>> /\ delivered = {}

SegmentNext ==
  \/ \E m \in BigMessages : \E k \in 1..Pieces(m.size) : Send(m, k)
  \/ \E s \in Senders : Restart(s)
  \/ \E p \in net : Arrive(p)
  \/ TimePasses \/ Clean

\* Time passes and the tick thread runs: nothing is assumed of the network.
SegmentFairness == WF_segmentVars(TimePasses) /\ WF_segmentVars(Clean)

----------------------------------------------------------------------------
\* The segments come from one life of the sender.
OneLife(parts) == \A p, q \in parts : p.life = q.life

\* Whatever segments are lost, duplicated or reordered, and whichever of several messages
\* of several peers they belong to: what is handed on is one message that was sent, with
\* every byte, each from its own place (unless the sender was started anew meanwhile).
DeliveredWhole ==
  (delivered # {} /\ OneLife(delivered)) =>
    \E m \in BigMessages : \E n \in 0..(MaxSends[m.from] - 1) :
      /\ \A p \in delivered : p.msg = m /\ p.sync = n
      /\ {p.offset : p \in delivered} = 0..(Pieces(m.size) - 1)

\* A message is handed on as soon as its last missing segment has come: no session lies
\* there with all its segments, whatever the size, a multiple of the unit included.
NoneLeftComplete ==
  \A i \in 1..Len(sessions) :
    OneLife(sessions[i].parts) => Cardinality(sessions[i].flags) < sessions[i].pieces

\* There are never two sessions for one number of one peer, so that no segment is kept
\* away from the session that waits for it.
OneSessionEach ==
  \A i, j \in 1..Len(sessions) :
    (sessions[i].from = sessions[j].from /\ sessions[i].sync = sessions[j].sync) => i = j

\* A session does not stay for ever, even while duplicates of its segments keep coming:
\* those of a message that was already handed on begin a session that nothing completes.
SessionsEnd ==
  \A s \in Senders : \A n \in 0..(MaxSends[s] - 1) :
    []<>(\A i \in 1..Len(sessions) : ~ (sessions[i].from = s /\ sessions[i].sync = n))
=============================================================================
