------------------------- MODULE MsgTerminalProofs -------------------------
(***************************************************************************)
(* An ACK or an answer is never taken for that of another message: proofs  *)
(* about MsgTerminal for every set of terminals and calls, every queue     *)
(* length and number of retries.                                           *)
(*                                                                         *)
(* The inductive invariant IInv: SyncInv, a sync names a call among the    *)
(* calls of a terminal to one peer with one id.  NetInv, every datagram    *)
(* carries the sync of its call, answers and ACKs go the other way, and an *)
(* ACK of a message exists only once the message has arrived.  WaitInv and *)
(* ResultInv carry this over to the lists, the queue and the callers.      *)
(***************************************************************************)
EXTENDS MsgTerminal, SequenceLemmas, FiniteSetTheorems

----------------------------------------------------------------------------
(* The type invariant, and what the operators on the lists return. *)

\* The datagram of a call is a packet, and so is a reply to one.
LEMMA MessageType ==
  ASSUME NEW c \in Calls, NEW n \in 0..SyncMax
  PROVE  Message(c, n) \in Packets
BY CallsAssumption DEF Message, Packets, Kinds

LEMMA ReplyType ==
  ASSUME NEW p \in Packets, NEW k \in Kinds \cup {ACK}, NEW a \in Kinds \cup {NoKind}
  PROVE  Reply(p, k, a) \in Packets
BY DEF Reply, Packets

LEMMA NextSyncType == \A n \in 0..SyncMax : NextSync(n) \in 0..SyncMax /\ NextSync(n) # 0
BY BoundsAssumption DEF NextSync

LEMMA SyncOfType ==
  ASSUME TypeOK, NEW c \in Calls
  PROVE  SyncOf(c) \in 0..SyncMax /\ SyncOf(c) # 0
BY CallsAssumption, NextSyncType DEF SyncOf, TypeOK

\* Calls that take a sync keep counter and sync well typed.
LEMMA TakeSyncType ==
  ASSUME TypeOK, NEW c \in Calls, TakeSync(c)
  PROVE  counter' \in [Terminals -> 0..SyncMax] /\ sync' \in [Calls -> 0..SyncMax]
BY CallsAssumption, NextSyncType, SyncOfType DEF TakeSync, TypeOK

LEMMA CountType ==
  ASSUME TypeOK, NEW c \in Calls, Count(c)
  PROVE  sends' \in [Calls -> Nat]
BY DEF Count, TypeOK

\* An insertion keeps the posts and adds one.
LEMMA InsertPostProperties ==
  ASSUME NEW s \in Seq(PostEntries), NEW e \in PostEntries
  PROVE  InsertPost(s, e) \in Seq(PostEntries) /\ From(InsertPost(s, e), s, {e})
<1> DEFINE I == {i \in 1..Len(s) : s[i].due > e.due}
<1>1. InsertPost(s, e) = IF I = {} THEN Append(s, e)
                         ELSE IF Min(I) = 0 THEN Append(s, e) ELSE InsertAt(s, Min(I), e)
  BY DEF InsertPost, SelectInSeq
<1>2. I \in SUBSET Nat /\ I \subseteq 1..Len(s)
  OBVIOUS
<1> HIDE DEF I
<1>3. CASE I = {}
  BY <1>1, <1>3, AppendFrom
<1>4. CASE I # {}
  <2>1. Min(I) \in 1..Len(s)
    BY <1>2, <1>4, MinInSet
  <2> QED BY <1>1, <1>4, <2>1, InsertAtProperties
<1> QED BY <1>3, <1>4

\* What OnTick makes of the list: a list of posts of the same calls.
LEMMA RequeueProperties ==
  ASSUME NEW s \in Seq(PostEntries), s # <<>>, NEW n \in Nat
  PROVE  /\ Requeue(s, Head(s), n) \in Seq(PostEntries)
         /\ \A j \in 1..Len(Requeue(s, Head(s), n)) :
              \E k \in 1..Len(s) : Requeue(s, Head(s), n)[j].call = s[k].call
<1> DEFINE e == Retry(Head(s), n)
<1>1. Tail(s) \in Seq(PostEntries) /\ From(Tail(s), s, {}) /\ Head(s) \in PostEntries
      /\ Head(s) = s[1] /\ 1 \in 1..Len(s)
  BY TailFrom
<1>2. e \in PostEntries /\ e.call = s[1].call
  <2>1. Head(s).call \in Calls /\ Head(s).due \in Int /\ Head(s).call.interval \in Nat
    BY <1>1, CallsAssumption DEF PostEntries
  <2> QED BY <1>1, <2>1 DEF PostEntries, Retry
<1>3. InsertPost(Tail(s), e) \in Seq(PostEntries) /\ From(InsertPost(Tail(s), e), Tail(s), {e})
  BY <1>1, <1>2, InsertPostProperties
<1>4. Requeue(s, Head(s), n) = Tail(s) \/ Requeue(s, Head(s), n) = InsertPost(Tail(s), e)
  BY DEF Requeue
<1> HIDE DEF e
<1>5. CASE Requeue(s, Head(s), n) = Tail(s)
  BY <1>1, <1>5 DEF From
<1>6. CASE Requeue(s, Head(s), n) = InsertPost(Tail(s), e)
  <2> DEFINE r == InsertPost(Tail(s), e)
  <2>1. ASSUME NEW j \in 1..Len(r) PROVE \E k \in 1..Len(s) : r[j].call = s[k].call
    <3>1. r[j] = e \/ \E k \in 1..Len(Tail(s)) : r[j] = Tail(s)[k]
      BY <1>3, <2>1 DEF From
    <3>2. \A k \in 1..Len(Tail(s)) : \E l \in 1..Len(s) : Tail(s)[k] = s[l]
      BY <1>1 DEF From
    <3> QED BY <1>1, <1>2, <3>1, <3>2
  <2> QED BY <1>3, <1>6, <2>1
<1> QED BY <1>4, <1>5, <1>6

\* The index that a search yields.
LEMMA AckedPostIndex ==
  ASSUME TypeOK, NEW t \in Terminals, NEW p, AckedPost(t, p) # 0
  PROVE  /\ AckedPost(t, p) \in 1..Len(posts[t])
         /\ AckMatch(posts[t][AckedPost(t, p)].call, sync[posts[t][AckedPost(t, p)].call], p)
<1> DEFINE I == {i \in 1..Len(posts[t]) : AckMatch(posts[t][i].call, sync[posts[t][i].call], p)}
<1>1. AckedPost(t, p) = IF I # {} THEN Min(I) ELSE 0
  BY DEF AckedPost, SelectInSeq
<1>2. I \in SUBSET Nat
  BY DEF TypeOK
<1>3. I # {}
  BY <1>1
<1>4. AckedPost(t, p) \in I
  <2> HIDE DEF I
  <2> QED BY <1>1, <1>2, <1>3, MinInSet
<1> QED BY <1>4

LEMMA WaiterForIndex ==
  ASSUME TypeOK, NEW t \in Terminals, NEW p, WaiterFor(t, p) # 0
  PROVE  /\ WaiterFor(t, p) \in 1..Len(waits[t])
         /\ LET c == waits[t][WaiterFor(t, p)]
            IN  IF c.op = "send" THEN AckMatch(c, sync[c], p) ELSE AnswerMatch(c, sync[c], p)
<1> DEFINE I == {i \in 1..Len(waits[t]) :
                   IF waits[t][i].op = "send" THEN AckMatch(waits[t][i], sync[waits[t][i]], p)
                   ELSE AnswerMatch(waits[t][i], sync[waits[t][i]], p)}
<1>1. WaiterFor(t, p) = IF I # {} THEN Min(I) ELSE 0
  BY DEF WaiterFor, SelectInSeq
<1>2. I \in SUBSET Nat
  BY DEF TypeOK
<1>3. I # {}
  BY <1>1
<1>4. WaiterFor(t, p) \in I
  <2> HIDE DEF I
  <2> QED BY <1>1, <1>2, <1>3, MinInSet
<1> QED BY <1>4

LEMMA LaterProperties ==
  ASSUME NEW s \in Seq(PostEntries)
  PROVE  /\ Later(s) \in Seq(PostEntries) /\ Len(Later(s)) = Len(s)
         /\ \A j \in 1..Len(s) : Later(s)[j].call = s[j].call
<1>1. DOMAIN s = 1..Len(s) /\ Len(s) \in Nat /\ \A j \in 1..Len(s) : s[j] \in PostEntries
  BY LenProperties, ElementOfSeq
<1>2. Later(s) \in [1..Len(s) -> PostEntries]
  BY <1>1 DEF Later, PostEntries
<1> QED BY <1>1, <1>2 DEF Later

----------------------------------------------------------------------------
\* The type invariant is not inductive without this: the loop of a call that waits has
\* a try left, so that the decrement does not go below zero.
TriesLeft ==
  \A c \in Calls : pc[c] \in {"entered", "waiting", "timedout", "between"} => left[c] > 0

\* A handler thread answers requests only.
BusyRequest == \A t \in Terminals : busy[t] # None => busy[t].kind \in DOMAIN Answers

TypeInv == TypeOK /\ TriesLeft /\ BusyRequest

\* Every step of the terminal keeps the state well typed.
LEMMA TypeInit == Init => TypeInv
BY BoundsAssumption, EmptySeq DEF Init, TypeOK, TypeInv, TriesLeft, BusyRequest

LEMMA TypePost ==
  ASSUME TypeOK, NEW c \in Calls, PostStep(c)
  PROVE  TypeOK'
<1>1. CASE Post(c)
  <2>1. net' \subseteq Packets
    BY <1>1, MessageType, SyncOfType DEF Post, TypeOK
  <2> QED BY <1>1, <2>1, TakeSyncType, CountType
          DEF Post, TypeOK, waitVars, recvVars, history
<1>2. CASE Enqueue(c)
  <2>1. posts' \in [Terminals -> Seq(PostEntries)]
    <3> DEFINE e == [call |-> c, due |-> c.interval, counter |-> 1]
    <3>1. e \in PostEntries
      BY CallsAssumption DEF PostEntries
    <3>2. c.from \in Terminals /\ InsertPost(posts[c.from], e) \in Seq(PostEntries)
      BY <3>1, CallsAssumption, InsertPostProperties DEF TypeOK
    <3> QED BY <1>2, <3>2 DEF Enqueue, TypeOK
  <2> QED BY <1>2, <2>1 DEF Enqueue, TypeOK, waitVars, recvVars, history
<1> QED BY <1>1, <1>2 DEF PostStep

LEMMA TypeTick ==
  ASSUME TypeOK, NEW t \in Terminals, TickStep(t)
  PROVE  TypeOK'
<1>1. CASE TimePasses(t)
  BY <1>1, LaterProperties DEF TimePasses, TypeOK, callVars, waitVars, recvVars, history
<1>2. CASE TickBegin(t)
  BY <1>2 DEF TickBegin, TypeOK, callVars, waitVars, recvVars, history
<1>3. CASE Retransmit(t)
  <2> DEFINE e == Head(posts[t])
  <2>1. e \in PostEntries /\ e.call \in Calls /\ e.counter + 1 \in Nat
    <3>1. posts[t] \in Seq(PostEntries) /\ posts[t] # <<>>
      BY <1>3 DEF Retransmit, TypeOK
    <3>2. e \in PostEntries
      BY <3>1, TailFrom
    <3> QED BY <3>2 DEF PostEntries
  <2>2. net' \subseteq Packets
    BY <1>3, <2>1, MessageType DEF Retransmit, TypeOK
  <2>3. posts' \in [Terminals -> Seq(PostEntries)]
    <3>1. Requeue(posts[t], e, e.counter + 1) \in Seq(PostEntries)
      BY <1>3, <2>1, RequeueProperties DEF Retransmit, TypeOK
    <3> QED BY <1>3, <3>1 DEF Retransmit, TypeOK
  <2>4. sends' \in [Calls -> Nat]
    BY <1>3, <2>1, CountType DEF Retransmit
  <2> QED BY <1>3, <2>2, <2>3, <2>4
          DEF Retransmit, TypeOK, callVars, waitVars, recvVars, history
<1>4. CASE TickEnd(t)
  BY <1>4 DEF TickEnd, TypeOK, callVars, waitVars, recvVars, history
<1> QED BY <1>1, <1>2, <1>3, <1>4 DEF TickStep

LEMMA TypeWait ==
  ASSUME TypeOK, TriesLeft, NEW c \in Calls, WaitStep(c)
  PROVE  TypeOK' /\ TriesLeft'
<1>1. c.from \in Terminals /\ c.tries \in Nat /\ (c.op # "post" => c.tries > 0)
  BY CallsAssumption
<1>2. CASE StartWait(c)
  <2>1. waits' \in [Terminals -> Seq(Calls)]
    BY <1>1, <1>2, AppendFrom DEF StartWait, TypeOK
  <2> QED BY <1>1, <1>2, <2>1, TakeSyncType DEF StartWait, TypeOK, TriesLeft, recvVars, history
<1>3. CASE SendInWait(c)
  <2>1. net' \subseteq Packets
    BY <1>3, MessageType DEF SendInWait, SendTry, TypeOK
  <2> QED BY <1>3, <2>1, CountType DEF SendInWait, SendTry, TypeOK, TriesLeft, waitVars,
          recvVars, history
<1>4. ASSUME DropWait(c)
      PROVE  /\ waits' \in [Terminals -> Seq(Calls)] /\ signalled' \in [Calls -> BOOLEAN]
             /\ got' \in [Calls -> Packets \cup {None}]
  BY <1>1, <1>4, RemoveFirstProperties DEF DropWait, TypeOK
<1>5. CASE WakeUp(c)
  BY <1>4, <1>5 DEF WakeUp, TypeOK, TriesLeft, recvVars, history
<1>6. CASE TimeOut(c)
  BY <1>6 DEF TimeOut, TypeOK, TriesLeft, waitVars, recvVars, history
<1>7. CASE RequestRetry(c)
  <2>1. left' = [left EXCEPT ![c] = left[c] - 1] /\ left[c] \in Nat /\ left[c] > 0
    BY <1>7 DEF RequestRetry, TypeOK, TriesLeft, TriesAfter
  <2>2. left' \in [Calls -> Nat]
    BY <2>1 DEF TypeOK
  <2>3. TypeOK'
    BY <1>4, <1>7, <2>2 DEF RequestRetry, TypeOK, recvVars, history
  <2>4. TriesLeft'
    BY <1>7, <2>1 DEF RequestRetry, TypeOK, TriesLeft, GoOn
  <2> QED BY <2>3, <2>4
<1>8. CASE LeaveTry(c)
  <2>1. left' = [left EXCEPT ![c] = left[c] - 1] /\ left[c] \in Nat /\ left[c] > 0
    BY <1>8 DEF LeaveTry, TypeOK, TriesLeft, TriesAfter
  <2>2. left' \in [Calls -> Nat]
    BY <2>1 DEF TypeOK
  <2>3. TypeOK'
    BY <1>4, <1>8, <2>2 DEF LeaveTry, TypeOK, recvVars, history
  <2>4. TriesLeft'
    BY <1>8, <2>1 DEF LeaveTry, TypeOK, TriesLeft, GoOn
  <2> QED BY <2>3, <2>4
<1>9. CASE NewTry(c)
  <2>1. waits' \in [Terminals -> Seq(Calls)]
    BY <1>1, <1>9, AppendFrom DEF NewTry, TypeOK
  <2> QED BY <1>9, <2>1 DEF NewTry, TypeOK, TriesLeft, recvVars, history
<1> QED BY <1>2, <1>3, <1>5, <1>6, <1>7, <1>8, <1>9 DEF WaitStep

LEMMA TypeNet ==
  ASSUME TypeOK, BusyRequest, NEW t \in Terminals, NetStep(t)
  PROVE  TypeOK' /\ BusyRequest'
<1>1. CASE ReadBegin(t)
  BY <1>1 DEF ReadBegin, TypeOK, BusyRequest, callVars, waitVars, recvVars, history
<1>2. CASE ReadEnd(t)
  BY <1>2 DEF ReadEnd, TypeOK, BusyRequest, callVars, waitVars, recvVars, history
<1>3. CASE Take(t)
  <2>1. queue[t] \in Seq(Packets) /\ queue[t] # <<>>
    BY <1>3 DEF Take, TypeOK
  <2>2. Tail(queue[t]) \in Seq(Packets) /\ Head(queue[t]) \in Packets
    BY <2>1, TailFrom
  <2> QED BY <1>3, <2>2 DEF Take, TypeOK, BusyRequest, callVars, waitVars, history
<1>4. CASE Answer(t)
  <2>1. busy[t] \in Packets
    BY <1>4 DEF Answer, TypeOK
  <2>2. net' \subseteq Packets
    <3>1. Answers[busy[t].kind] \in Kinds
      BY <1>4 DEF Answer, BusyRequest, Kinds
    <3> QED BY <1>4, <2>1, <3>1, ReplyType DEF Answer, TypeOK
  <2> QED BY <1>4, <2>2 DEF Answer, TypeOK, BusyRequest, callVars, waitVars, history
<1>5. CASE BreakMessageWaiting(t)
  <2>1. ToSet(waits[t]) \subseteq Calls
    BY DEF TypeOK, ToSet
  <2>2. waits' \in [Terminals -> Seq(Calls)]
    BY <1>5, EmptySeq DEF BreakMessageWaiting, TypeOK
  <2>3. signalled' \in [Calls -> BOOLEAN]
    BY <1>5 DEF BreakMessageWaiting, TypeOK
  <2> QED BY <1>5, <2>1, <2>2, <2>3
          DEF BreakMessageWaiting, TypeOK, BusyRequest, callVars, recvVars
<1>6. ASSUME NEW p \in net, Arrive(t, p) PROVE TypeOK' /\ BusyRequest'
  <2>1. p \in Packets
    BY <1>6 DEF TypeOK
  <2>2. posts' \in [Terminals -> Seq(PostEntries)] /\ confirmed' \subseteq Calls
    <3> DEFINE i == AckedPost(t, p)
    <3>1. CASE i = 0 \/ p.sync = 0 \/ p.kind # ACK
      BY <1>6, <3>1 DEF Arrive, RemoveAcked, TypeOK
    <3>2. CASE i # 0 /\ p.sync # 0 /\ p.kind = ACK
      <4>1. i \in 1..Len(posts[t]) /\ posts[t] \in Seq(PostEntries)
        BY <3>2, AckedPostIndex DEF TypeOK
      <4> HIDE DEF i
      <4>2. RemoveAt(posts[t], i) \in Seq(PostEntries) /\ posts[t][i].call \in Calls
        <5>1. RemoveAt(posts[t], i) \in Seq(PostEntries)
          BY <4>1, RemoveAtProperties
        <5>2. posts[t][i] \in PostEntries
          BY <4>1, ElementOfSeq
        <5> QED BY <5>1, <5>2 DEF PostEntries
      <4>3. posts' = [posts EXCEPT ![t] = RemoveAt(@, i)]
            /\ confirmed' = confirmed \cup {posts[t][i].call}
        BY <1>6, <3>2 DEF Arrive, RemoveAcked, i
      <4> QED BY <4>2, <4>3 DEF TypeOK
    <3> QED BY <3>1, <3>2
  <2>3. net' \subseteq Packets
    <3>1. p.kind \in AckKinds => p.kind \in Kinds
      BY <2>1, BoundsAssumption DEF Packets
    <3>2. p.kind \in AckKinds => Reply(p, ACK, p.kind) \in Packets
      BY <2>1, <3>1, ReplyType
    <3> QED BY <1>6, <3>2 DEF Arrive, Acknowledge, TypeOK
  <2>4. /\ waits' \in [Terminals -> Seq(Calls)] /\ signalled' \in [Calls -> BOOLEAN]
        /\ got' \in [Calls -> Packets \cup {None}] /\ queue' \in [Terminals -> Seq(Packets)]
        /\ answered' \subseteq Calls /\ kept' \subseteq Calls
    <3> DEFINE w == WaiterFor(t, p)
               c == waits[t][w]
    <3>1. p.call \in Calls
      BY <2>1 DEF Packets
    <3>2. CASE w = 0
      <4>1. Append(queue[t], p) \in Seq(Packets)
        BY <2>1, AppendFrom DEF TypeOK
      <4>2. /\ UNCHANGED <<waitVars, answered>>
            /\ queue' = queue \/ queue' = [queue EXCEPT ![t] = Append(@, p)]
            /\ kept' = kept \/ kept' = kept \cup {p.call}
        BY <1>6, <3>2 DEF Arrive, Dispatch
      <4> QED BY <3>1, <4>1, <4>2 DEF TypeOK, waitVars
    <3>3. CASE w # 0
      <4>1. w \in 1..Len(waits[t]) /\ waits[t] \in Seq(Calls)
        BY <3>3, WaiterForIndex DEF TypeOK
      <4>2. /\ waits' = [waits EXCEPT ![t] = RemoveAt(@, w)]
            /\ signalled' = [signalled EXCEPT ![c] = TRUE]
            /\ got' = got \/ got' = [got EXCEPT ![c] = p]
            /\ answered' = answered \/ answered' = answered \cup {c}
            /\ kept' = kept \/ kept' = kept \cup {p.call}
            /\ UNCHANGED queue
        BY <1>6, <3>3 DEF Arrive, Dispatch
      <4> HIDE DEF w
      <4>3. RemoveAt(waits[t], w) \in Seq(Calls) /\ c \in Calls
        BY <4>1, RemoveAtProperties, ElementOfSeq
      <4> HIDE DEF c
      <4> QED BY <2>1, <3>1, <4>2, <4>3 DEF TypeOK
    <3> QED BY <3>2, <3>3
  <2>5. arrived' \subseteq Calls
    BY <1>6, <2>1 DEF Arrive, TypeOK, Packets
  <2> QED BY <1>6, <2>2, <2>3, <2>4, <2>5 DEF Arrive, TypeOK, BusyRequest, callVars
<1> QED BY <1>1, <1>2, <1>3, <1>4, <1>5, <1>6 DEF NetStep

LEMMA TypeStep == TypeInv /\ [Next]_vars => TypeInv'
<1> SUFFICES ASSUME TypeInv, [Next]_vars PROVE TypeInv'
  OBVIOUS
<1>1. TypeOK /\ TriesLeft /\ BusyRequest
  BY DEF TypeInv
<1>2. ASSUME NEW c \in Calls, PostStep(c) PROVE TypeInv'
  <2>1. TypeOK'
    BY <1>1, <1>2, TypePost
  <2>2. TriesLeft' /\ BusyRequest'
    BY <1>1, <1>2 DEF PostStep, Post, Enqueue, TypeOK, TriesLeft, BusyRequest, recvVars
  <2> QED BY <2>1, <2>2 DEF TypeInv
<1>3. ASSUME NEW c \in Calls, WaitStep(c) PROVE TypeInv'
  <2>1. TypeOK' /\ TriesLeft'
    BY <1>1, <1>3, TypeWait
  <2>2. busy' = busy
    BY <1>3 DEF WaitStep, StartWait, SendInWait, WakeUp, TimeOut, RequestRetry, LeaveTry, NewTry,
                recvVars
  <2> QED BY <1>1, <2>1, <2>2 DEF TypeInv, BusyRequest
<1>4. ASSUME NEW t \in Terminals, TickStep(t) PROVE TypeInv'
  <2>1. TypeOK'
    BY <1>1, <1>4, TypeTick
  <2>2. UNCHANGED <<pc, left, busy>>
    BY <1>4 DEF TickStep, TimePasses, TickBegin, Retransmit, TickEnd, callVars, recvVars
  <2> QED BY <1>1, <2>1, <2>2 DEF TypeInv, TriesLeft, BusyRequest
<1>5. ASSUME NEW t \in Terminals, NetStep(t) PROVE TypeInv'
  <2>1. TypeOK' /\ BusyRequest'
    BY <1>1, <1>5, TypeNet
  <2>2. UNCHANGED <<pc, left>>
    BY <1>5 DEF NetStep, ReadBegin, ReadEnd, Take, Answer, BreakMessageWaiting, Arrive, callVars
  <2> QED BY <1>1, <2>1, <2>2 DEF TypeInv, TriesLeft
<1>6. CASE UNCHANGED vars
  BY <1>1, <1>6 DEF vars, callVars, waitVars, recvVars, history, TypeInv, TypeOK, TriesLeft,
                    BusyRequest
<1> QED BY <1>2, <1>3, <1>4, <1>5, <1>6 DEF Next

\* TypeOK holds in every state, for all terminals, calls and limits.
THEOREM TypeCorrect == Spec => []TypeOK
<1>1. TypeInv => TypeOK
  BY DEF TypeInv
<1> QED BY <1>1, TypeInit, TypeStep, PTL DEF Spec

----------------------------------------------------------------------------
(* Which call a sync names, in the lists, on the network and at the callers. *)

Begun(c) == pc[c] # "idle"

Used(t) == {c \in Fresh(t) : Begun(c)}

SyncInv ==
  /\ \A t \in Terminals : counter[t] = Cardinality(Used(t))
  /\ \A c \in Calls : Begun(c) =>
       /\ sync[c] # 0
       /\ IF c.preset # 0 THEN sync[c] = c.preset ELSE sync[c] <= counter[c.from]
  /\ \A c, d \in Calls :
       (Begun(c) /\ Begun(d) /\ c.preset = 0 /\ d.preset = 0 /\ c.from = d.from /\ sync[c] = sync[d])
         => c = d

IsAnswer(p) == /\ p.call.kind \in DOMAIN Answers /\ p.kind = Answers[p.call.kind]
               /\ p.from = p.call.to /\ p.to = p.call.from

IsAck(p) == /\ p.kind = ACK
            /\ \/ /\ p.ackid = p.call.kind /\ p.call \in arrived
                  /\ p.from = p.call.to /\ p.to = p.call.from
               \/ p.call.kind \in DOMAIN Answers /\ p.ackid = Answers[p.call.kind]

Genuine(p) ==
  /\ Begun(p.call) /\ p.sync = sync[p.call]
  /\ (IsMessage(p) /\ p.to = p.call.to) \/ IsAnswer(p) \/ IsAck(p)

NetInv == \A p \in net : Genuine(p)

WaitInv ==
  /\ \A t \in Terminals : \A i \in 1..Len(posts[t]) :
       posts[t][i].call.from = t /\ Begun(posts[t][i].call)
  /\ \A t \in Terminals : \A i \in 1..Len(waits[t]) :
       waits[t][i].from = t /\ Begun(waits[t][i]) /\ waits[t][i].op # "post"
  /\ \A t \in Terminals : \A i \in 1..Len(queue[t]) : queue[t][i] \in net
  /\ \A t \in Terminals : busy[t] # None => busy[t] \in net
  /\ \A c \in Calls : pc[c] = "sent" => c.op = "post"
  /\ \A c \in Calls : pc[c] \in {"entered", "waiting", "timedout", "between"} => c.op # "post"

ResultInv ==
  /\ confirmed \subseteq arrived
  /\ \A c \in Calls : (c.op = "send" /\ (signalled[c] \/ pc[c] = "done")) => c \in arrived \cup broken
  /\ \A c \in Calls : c.op = "request" =>
       /\ got[c] # None => got[c].call = c
       /\ outcome[c] # None => outcome[c].call = c

IInv == TypeInv /\ SyncInv /\ NetInv /\ WaitInv /\ ResultInv

----------------------------------------------------------------------------
\* A step numbers one call, which begins, or leaves counters, syncs and beginnings alone.
Numbers(c) ==
  /\ ~ Begun(c) /\ TakeSync(c)
  /\ \E there \in {"sent", "entered"} : pc' = [pc EXCEPT ![c] = there]

LEMMA NumbersOrNot ==
  ASSUME TypeOK, [Next]_vars
  PROVE  \/ \E c \in Calls : Numbers(c)
         \/ UNCHANGED <<counter, sync>> /\ \A c \in Calls : Begun(c)' = Begun(c)
<1>1. ASSUME NEW c \in Calls, Post(c) \/ StartWait(c) PROVE Numbers(c)
  BY <1>1 DEF Post, StartWait, Numbers, Begun
<1> DEFINE Same == UNCHANGED <<counter, sync>> /\ \A c \in Calls : Begun(c)' = Begun(c)
<1>2. ASSUME NEW c \in Calls, Enqueue(c) PROVE Same
  BY <1>2 DEF Enqueue, Begun, TypeOK
<1>3. ASSUME NEW c \in Calls, WaitStep(c), ~ StartWait(c) PROVE Same
  BY <1>3 DEF WaitStep, SendInWait, WakeUp, TimeOut, RequestRetry, LeaveTry, NewTry, Begun, TypeOK
<1>4. ASSUME NEW t \in Terminals, TickStep(t) PROVE Same
  BY <1>4 DEF TickStep, TimePasses, TickBegin, Retransmit, TickEnd, callVars, Begun
<1>5. ASSUME NEW t \in Terminals, NetStep(t) PROVE Same
  BY <1>5 DEF NetStep, ReadBegin, ReadEnd, Take, Answer, BreakMessageWaiting, Arrive, callVars, Begun
<1>6. CASE UNCHANGED vars
  BY <1>6 DEF vars, callVars, Begun
<1> QED BY <1>1, <1>2, <1>3, <1>4, <1>5, <1>6 DEF Next, PostStep

LEMMA SyncInit == Init => SyncInv
<1> SUFFICES ASSUME Init PROVE SyncInv
  OBVIOUS
<1>1. \A c \in Calls : ~ Begun(c)
  BY DEF Init, Begun
<1>2. \A t \in Terminals : Used(t) = {}
  BY <1>1 DEF Used, Fresh
<1> QED BY <1>1, <1>2, FS_EmptySet DEF Init, SyncInv

LEMMA SyncStep ==
  ASSUME TypeOK, SyncInv, [Next]_vars
  PROVE  SyncInv'
<1>1. CASE UNCHANGED <<counter, sync>> /\ \A c \in Calls : Begun(c)' = Begun(c)
  <2>1. \A t \in Terminals : Used(t)' = Used(t)
    BY <1>1 DEF Used, Fresh
  <2> QED BY <1>1, <2>1 DEF SyncInv
<1>2. ASSUME NEW c \in Calls, Numbers(c) PROVE SyncInv'
  <2>1. /\ c.from \in Terminals /\ c.preset \in 0..SyncMax
        /\ Begun(c)' /\ \A d \in Calls : d # c => Begun(d)' = Begun(d)
    BY <1>2, CallsAssumption DEF Numbers, Begun, TypeOK
  <2>2. CASE c.preset # 0
    <3>1. \A t \in Terminals : Used(t)' = Used(t)
      BY <2>1, <2>2 DEF Used, Fresh
    <3>2. counter' = counter /\ sync' = [sync EXCEPT ![c] = c.preset]
      BY <1>2, <2>2 DEF Numbers, TakeSync, SyncOf
    <3> QED BY <2>1, <2>2, <3>1, <3>2 DEF SyncInv, TypeOK
  <2>3. CASE c.preset = 0
    <3> DEFINE t == c.from
    <3>1. c \in Fresh(t) /\ c \notin Used(t) /\ Used(t) \subseteq Fresh(t)
      BY <1>2, <2>3 DEF Fresh, Used, Numbers
    <3>2. Used(t)' = Used(t) \cup {c} /\ \A u \in Terminals : u # t => Used(u)' = Used(u)
      BY <2>1, <2>3 DEF Used, Fresh
    <3>3. IsFiniteSet(Fresh(t)) /\ Cardinality(Fresh(t)) <= SyncMax
      BY <2>1, NoWrapAssumption
    <3>4. /\ IsFiniteSet(Used(t)) /\ Cardinality(Used(t)) \in Nat
          /\ Cardinality(Used(t) \cup {c}) = Cardinality(Used(t)) + 1
      BY <3>1, <3>3, FS_Subset, FS_AddElement, FS_CardinalityType
    <3>5. Cardinality(Used(t) \cup {c}) <= Cardinality(Fresh(t))
      BY <3>1, <3>3, FS_Subset
    <3>6. counter[t] = Cardinality(Used(t)) /\ counter[t] \in Nat /\ counter[t] < SyncMax
      <4>1. counter[t] = Cardinality(Used(t))
        BY <2>1 DEF SyncInv
      <4>2. Cardinality(Fresh(t)) \in Nat /\ SyncMax \in Nat
        BY <3>3, FS_CardinalityType, BoundsAssumption
      <4> QED BY <3>3, <3>4, <3>5, <4>1, <4>2
    <3>7. /\ counter' = [counter EXCEPT ![t] = counter[t] + 1]
          /\ sync' = [sync EXCEPT ![c] = counter[t] + 1]
      <4>1. SyncOf(c) = NextSync(counter[t])
        BY <2>3 DEF SyncOf
      <4>2. NextSync(counter[t]) = counter[t] + 1
        BY <3>6 DEF NextSync
      <4>3. /\ counter' = [counter EXCEPT ![t] = NextSync(counter[t])]
            /\ sync' = [sync EXCEPT ![c] = SyncOf(c)]
        BY <1>2, <2>3 DEF Numbers, TakeSync
      <4> QED BY <4>1, <4>2, <4>3
    <3> HIDE DEF t
    <3>8. \A u \in Terminals : counter'[u] = Cardinality(Used(u)')
      <4>1. counter'[t] = Cardinality(Used(t)')
        BY <2>1, <3>2, <3>4, <3>6, <3>7 DEF TypeOK, t
      <4>2. ASSUME NEW u \in Terminals, u # t PROVE counter'[u] = Cardinality(Used(u)')
        BY <3>2, <3>7, <4>2 DEF SyncInv, TypeOK
      <4> QED BY <4>1, <4>2
    <3>9. \A d \in Calls : Begun(d)' =>
            /\ sync'[d] # 0
            /\ IF d.preset # 0 THEN sync'[d] = d.preset ELSE sync'[d] <= counter'[d.from]
      <4>1. sync'[c] # 0 /\ sync'[c] <= counter'[t]
        BY <2>1, <3>6, <3>7 DEF TypeOK, t
      <4>2. ASSUME NEW d \in Calls, d # c, Begun(d)'
            PROVE  /\ sync'[d] # 0
                   /\ IF d.preset # 0 THEN sync'[d] = d.preset ELSE sync'[d] <= counter'[d.from]
        <5>1. sync'[d] = sync[d] /\ Begun(d) /\ d.from \in Terminals
          BY <2>1, <3>7, <4>2, CallsAssumption DEF TypeOK
        <5>2. counter[d.from] \in Int /\ counter'[d.from] \in Int /\ counter'[d.from] >= counter[d.from]
          BY <3>6, <3>7, <5>1 DEF TypeOK
        <5>3. sync[d] \in Int
          BY DEF TypeOK
        <5> QED BY <5>1, <5>2, <5>3 DEF SyncInv
      <4> QED BY <2>3, <4>1, <4>2 DEF t
    <3>10. ASSUME NEW d \in Calls, NEW e \in Calls, Begun(d)', Begun(e)', d.preset = 0, e.preset = 0,
                  d.from = e.from, sync'[d] = sync'[e]
           PROVE  d = e
      <4>1. ASSUME NEW b \in Calls, b # c, Begun(b)', b.preset = 0, b.from = t
            PROVE  sync'[b] # counter[t] + 1
        <5>1. sync'[b] = sync[b] /\ Begun(b) /\ sync[b] \in Int
          BY <2>1, <3>7, <4>1 DEF TypeOK
        <5> QED BY <3>6, <4>1, <5>1 DEF SyncInv
      <4>2. sync'[c] = counter[t] + 1
        BY <3>7 DEF TypeOK
      <4>3. CASE d # c /\ e # c
        BY <2>1, <3>7, <3>10, <4>3 DEF SyncInv, TypeOK
      <4>4. CASE d = c \/ e = c
        BY <3>10, <4>1, <4>2, <4>4 DEF t
      <4> QED BY <4>3, <4>4
    <3> QED BY <3>8, <3>9, <3>10 DEF SyncInv
  <2> QED BY <2>2, <2>3
<1> QED BY <1>1, <1>2, NumbersOrNot

\* Two calls to one peer with one id have different syncs.
LEMMA SyncUnique ==
  ASSUME TypeOK, SyncInv, NEW c \in Calls, NEW d \in Calls, Begun(c), Begun(d),
         c.from = d.from, c.to = d.to, c.kind = d.kind, sync[c] = sync[d]
  PROVE  c = d
BY CallsAssumption DEF SyncInv

----------------------------------------------------------------------------
\* What was sent, what has arrived and the sync of a call that has begun stay.
LEMMA Monotone ==
  ASSUME TypeOK, [Next]_vars
  PROVE  /\ net \subseteq net' /\ arrived \subseteq arrived' /\ broken \subseteq broken'
         /\ \A c \in Calls : Begun(c) => Begun(c)' /\ sync'[c] = sync[c]
<1> DEFINE Grow == net \subseteq net' /\ arrived \subseteq arrived' /\ broken \subseteq broken'
<1>1. Grow
  <2>1. ASSUME NEW c \in Calls, PostStep(c) PROVE Grow
    BY <2>1 DEF PostStep, Post, Enqueue, history
  <2>2. ASSUME NEW c \in Calls, WaitStep(c) PROVE Grow
    BY <2>2 DEF WaitStep, StartWait, SendInWait, SendTry, WakeUp, TimeOut, RequestRetry, LeaveTry,
                NewTry, history
  <2>3. ASSUME NEW t \in Terminals, TickStep(t) PROVE Grow
    BY <2>3 DEF TickStep, TimePasses, TickBegin, Retransmit, TickEnd, history
  <2>4. ASSUME NEW t \in Terminals, NetStep(t) PROVE Grow
    BY <2>4 DEF NetStep, ReadBegin, ReadEnd, Take, Answer, BreakMessageWaiting, Arrive, Acknowledge,
                history
  <2>5. CASE UNCHANGED vars
    BY <2>5 DEF vars, history
  <2> QED BY <2>1, <2>2, <2>3, <2>4, <2>5 DEF Next
<1>2. \A c \in Calls : Begun(c) => Begun(c)' /\ sync'[c] = sync[c]
  <2>1. CASE UNCHANGED <<counter, sync>> /\ \A c \in Calls : Begun(c)' = Begun(c)
    BY <2>1
  <2>2. ASSUME NEW d \in Calls, Numbers(d)
        PROVE  \A c \in Calls : Begun(c) => Begun(c)' /\ sync'[c] = sync[c]
    BY <2>2 DEF Numbers, TakeSync, Begun, TypeOK
  <2> QED BY <2>1, <2>2, NumbersOrNot
<1> QED BY <1>1, <1>2

LEMMA GenuineStable ==
  ASSUME TypeOK, [Next]_vars, NEW p \in Packets, Genuine(p)
  PROVE  Genuine(p)'
<1>1. p.call \in Calls
  BY DEF Packets
<1> QED BY <1>1, Monotone DEF Genuine, IsMessage, IsAnswer, IsAck

\* The message of a call that has begun is genuine.
LEMMA MessageGenuine ==
  ASSUME NEW c \in Calls, Begun(c), NEW m, m = Message(c, sync[c])
  PROVE  Genuine(m)
BY DEF Genuine, Message, IsMessage

LEMMA NetInit == Init => NetInv
BY DEF Init, NetInv

LEMMA NetInvStep ==
  ASSUME TypeInv, NetInv, WaitInv, [Next]_vars
  PROVE  NetInv'
<1> USE DEF TypeInv
<1>1. \A p \in net : Genuine(p)'
  BY GenuineStable DEF NetInv, TypeOK
<1> SUFFICES ASSUME NEW m \in net', m \notin net PROVE Genuine(m)'
  BY <1>1 DEF NetInv
<1>2. ASSUME NEW c \in Calls, Post(c) PROVE Genuine(m)'
  <2>1. Begun(c)' /\ sync'[c] = SyncOf(c) /\ m = Message(c, SyncOf(c))
    BY <1>2 DEF Post, TakeSync, Begun, TypeOK
  <2> QED BY <2>1 DEF Genuine, Message, IsMessage
<1>3. ASSUME NEW c \in Calls, SendInWait(c) PROVE Genuine(m)'
  <2>1. Begun(c) /\ m = Message(c, sync[c]) /\ m \in Packets
    BY <1>3, MessageType DEF SendInWait, SendTry, Begun, TypeOK
  <2> QED BY <2>1, MessageGenuine, GenuineStable
<1>4. ASSUME NEW t \in Terminals, Retransmit(t) PROVE Genuine(m)'
  <2>1. posts[t] \in Seq(PostEntries) /\ posts[t] # <<>>
    BY <1>4 DEF Retransmit, TypeOK
  <2>2. PICK e \in PostEntries : e = Head(posts[t]) /\ e = posts[t][1] /\ 1 \in 1..Len(posts[t])
    BY <2>1, TailFrom
  <2>3. e.call \in Calls /\ Begun(e.call)
    BY <2>2 DEF PostEntries, WaitInv
  <2>4. m = Message(e.call, sync[e.call]) /\ m \in Packets
    BY <1>4, <2>2, <2>3, MessageType DEF Retransmit, TypeOK
  <2> QED BY <2>3, <2>4, MessageGenuine, GenuineStable
<1>5. ASSUME NEW t \in Terminals, Answer(t) PROVE Genuine(m)'
  <2>1. PICK p \in net : p = busy[t]
    BY <1>5 DEF Answer, WaitInv
  <2>2. p.kind \in DOMAIN Answers /\ p \in Packets /\ m = Reply(p, Answers[p.kind], NoKind)
    BY <1>5, <2>1 DEF Answer, BusyRequest, TypeOK
  <2>3. Genuine(p) /\ Genuine(p)'
    BY <1>1, <2>1 DEF NetInv
  <2>4. ~ IsAnswer(p) /\ ~ IsAck(p)
    BY <2>2, CallsAssumption, BoundsAssumption DEF IsAnswer, IsAck
  <2>5. IsMessage(p) /\ p.to = p.call.to
    BY <2>3, <2>4 DEF Genuine
  <2>6. /\ m.call = p.call /\ m.sync = p.sync /\ m.kind = Answers[p.kind] /\ m.from = p.to
        /\ m.to = p.from
    BY <2>2 DEF Reply
  <2> QED BY <2>2, <2>3, <2>5, <2>6 DEF Genuine, IsAnswer, IsMessage
<1>6. ASSUME NEW t \in Terminals, NEW p \in net, Arrive(t, p) PROVE Genuine(m)'
  <2>1. p \in Packets /\ Genuine(p) /\ Genuine(p)'
    BY <1>1 DEF TypeOK, NetInv
  <2>2. p.kind \in AckKinds /\ m = Reply(p, ACK, p.kind)
    BY <1>6 DEF Arrive, Acknowledge
  <2>3. /\ m.call = p.call /\ m.sync = p.sync /\ m.kind = ACK /\ m.ackid = p.kind
        /\ m.from = p.to /\ m.to = p.from
    BY <2>2 DEF Reply
  <2>4. ~ IsAck(p)
    BY <2>2, BoundsAssumption DEF IsAck
  <2>5. CASE IsMessage(p) /\ p.to = p.call.to
    <3>1. IsAck(m)'
      BY <1>6, <2>3, <2>5 DEF Arrive, IsAck, IsMessage
    <3> QED BY <2>1, <2>3, <3>1 DEF Genuine
  <2>6. CASE IsAnswer(p)
    <3>1. IsAck(m)'
      BY <2>3, <2>6 DEF IsAck, IsAnswer
    <3> QED BY <2>1, <2>3, <3>1 DEF Genuine
  <2> QED BY <2>1, <2>4, <2>5, <2>6 DEF Genuine
<1>7. net' # net
  OBVIOUS
<1>8. ASSUME NEW c \in Calls, PostStep(c) \/ WaitStep(c), ~ Post(c), ~ SendInWait(c)
      PROVE  net' = net
  BY <1>8 DEF PostStep, Enqueue, WaitStep, StartWait, WakeUp, TimeOut, RequestRetry, LeaveTry, NewTry
<1>9. ASSUME NEW t \in Terminals, TickStep(t) \/ NetStep(t), ~ Retransmit(t), ~ Answer(t),
             ~ \E p \in net : Arrive(t, p)
      PROVE  net' = net
  BY <1>9 DEF TickStep, TimePasses, TickBegin, TickEnd, NetStep, ReadBegin, ReadEnd, Take,
              BreakMessageWaiting
<1>10. CASE UNCHANGED vars
  BY <1>10 DEF vars
<1> QED BY <1>2, <1>3, <1>4, <1>5, <1>6, <1>7, <1>8, <1>9, <1>10 DEF Next

----------------------------------------------------------------------------
\* The entries of the lists belong to calls of the terminal that have begun.
OwnPost(t, j) == posts[t][j].call.from = t /\ Begun(posts[t][j].call)
OwnWait(t, j) == waits[t][j].from = t /\ Begun(waits[t][j]) /\ waits[t][j].op # "post"

LEMMA PostsStep ==
  ASSUME TypeInv, WaitInv, [Next]_vars, NEW t \in Terminals, NEW j \in 1..Len(posts'[t])
  PROVE  OwnPost(t, j)'
<1> USE DEF TypeInv
<1>1. posts[t] \in Seq(PostEntries)
  BY DEF TypeOK
<1>2. ASSUME NEW k \in 1..Len(posts[t]), posts'[t][j].call = posts[t][k].call
      PROVE  OwnPost(t, j)'
  <2>1. PICK c \in Calls : c = posts[t][k].call
    <3>1. posts[t][k] \in PostEntries
      BY <1>1, ElementOfSeq
    <3> QED BY <3>1 DEF PostEntries
  <2>2. c.from = t /\ Begun(c)
    BY <2>1 DEF WaitInv
  <2>3. Begun(c)'
    BY <2>2, Monotone
  <2> QED BY <1>2, <2>1, <2>2, <2>3 DEF OwnPost, Begun
<1>3. CASE posts'[t] = posts[t]
  BY <1>2, <1>3
<1>4. ASSUME NEW c \in Calls, Enqueue(c), posts'[t] # posts[t] PROVE OwnPost(t, j)'
  <2> DEFINE e == [call |-> c, due |-> c.interval, counter |-> 1]
  <2>1. c.from = t /\ posts'[t] = InsertPost(posts[t], e)
    BY <1>4 DEF Enqueue, TypeOK
  <2>2. e \in PostEntries /\ e.call = c
    BY CallsAssumption DEF PostEntries
  <2>3. Begun(c)'
    BY <1>4 DEF Enqueue, Begun, TypeOK
  <2> HIDE DEF e
  <2>4. From(posts'[t], posts[t], {e})
    BY <1>1, <2>1, <2>2, InsertPostProperties
  <2>5. posts'[t][j] = e \/ \E k \in 1..Len(posts[t]) : posts'[t][j] = posts[t][k]
    BY <2>4 DEF From
  <2> QED BY <1>2, <2>1, <2>2, <2>3, <2>5 DEF OwnPost, Begun
<1>5. ASSUME NEW u \in Terminals, TimePasses(u), posts'[t] # posts[t] PROVE OwnPost(t, j)'
  <2>1. posts'[t] = Later(posts[t])
    BY <1>5 DEF TimePasses, TypeOK
  <2>2. j \in 1..Len(posts[t]) /\ posts'[t][j].call = posts[t][j].call
    BY <1>1, <2>1, LaterProperties
  <2> QED BY <1>2, <2>2
<1>6. ASSUME NEW u \in Terminals, Retransmit(u), posts'[t] # posts[t] PROVE OwnPost(t, j)'
  <2> DEFINE n == Head(posts[t]).counter + 1
  <2>1. posts[t] # <<>> /\ posts'[t] = Requeue(posts[t], Head(posts[t]), n)
    BY <1>6 DEF Retransmit, TypeOK
  <2>2. n \in Nat
    <3>1. Head(posts[t]) \in PostEntries
      BY <1>1, <2>1, TailFrom
    <3> QED BY <3>1 DEF PostEntries
  <2> HIDE DEF n
  <2>3. \A l \in 1..Len(Requeue(posts[t], Head(posts[t]), n)) : \E k \in 1..Len(posts[t]) :
          Requeue(posts[t], Head(posts[t]), n)[l].call = posts[t][k].call
    BY <1>1, <2>1, <2>2, RequeueProperties
  <2>4. \E k \in 1..Len(posts[t]) : posts'[t][j].call = posts[t][k].call
    BY <2>1, <2>3
  <2> QED BY <1>2, <2>4
<1>7. ASSUME NEW u \in Terminals, NEW p \in net, Arrive(u, p), posts'[t] # posts[t] PROVE OwnPost(t, j)'
  <2> DEFINE i == AckedPost(t, p)
  <2>1. i # 0 /\ posts'[t] = RemoveAt(posts[t], i)
    BY <1>7 DEF Arrive, RemoveAcked, TypeOK
  <2>2. i \in 1..Len(posts[t])
    BY <2>1, AckedPostIndex
  <2> HIDE DEF i
  <2>3. From(posts'[t], posts[t], {})
    BY <1>1, <2>1, <2>2, RemoveAtProperties
  <2>4. \E k \in 1..Len(posts[t]) : posts'[t][j] = posts[t][k]
    BY <2>3 DEF From
  <2> QED BY <1>2, <2>4
<1>8. ASSUME NEW c \in Calls, PostStep(c) \/ WaitStep(c), ~ Enqueue(c) PROVE posts' = posts
  BY <1>8 DEF PostStep, Post, WaitStep, StartWait, SendInWait, WakeUp, TimeOut, RequestRetry,
              LeaveTry, NewTry
<1>9. ASSUME NEW u \in Terminals, TickStep(u) \/ NetStep(u), ~ TimePasses(u), ~ Retransmit(u),
             ~ \E p \in net : Arrive(u, p)
      PROVE  posts' = posts
  BY <1>9 DEF TickStep, TickBegin, TickEnd, NetStep, ReadBegin, ReadEnd, Take, Answer,
              BreakMessageWaiting
<1>10. CASE UNCHANGED vars
  BY <1>3, <1>10 DEF vars
<1> QED BY <1>3, <1>4, <1>5, <1>6, <1>7, <1>8, <1>9, <1>10 DEF Next

LEMMA WaitsStep ==
  ASSUME TypeInv, WaitInv, [Next]_vars, NEW t \in Terminals, NEW j \in 1..Len(waits'[t])
  PROVE  OwnWait(t, j)'
<1> USE DEF TypeInv
<1>1. waits[t] \in Seq(Calls)
  BY DEF TypeOK
<1>2. ASSUME NEW k \in 1..Len(waits[t]), waits'[t][j] = waits[t][k]
      PROVE  OwnWait(t, j)'
  <2>1. PICK c \in Calls : c = waits[t][k]
    BY <1>1, ElementOfSeq
  <2>2. c.from = t /\ Begun(c) /\ c.op # "post"
    BY <2>1 DEF WaitInv
  <2>3. Begun(c)'
    BY <2>2, Monotone
  <2> QED BY <1>2, <2>1, <2>2, <2>3 DEF OwnWait, Begun
<1>3. CASE waits'[t] = waits[t]
  BY <1>2, <1>3
<1>4. ASSUME NEW c \in Calls, StartWait(c) \/ NewTry(c), waits'[t] # waits[t] PROVE OwnWait(t, j)'
  <2>1. c.from = t /\ waits'[t] = Append(waits[t], c)
    BY <1>4 DEF StartWait, NewTry, TypeOK
  <2>2. Begun(c)' /\ c.op # "post"
    BY <1>4 DEF StartWait, NewTry, Begun, TypeOK, WaitInv
  <2>3. waits'[t][j] = c \/ \E k \in 1..Len(waits[t]) : waits'[t][j] = waits[t][k]
    BY <1>1, <2>1, AppendFrom DEF From
  <2>4. CASE waits'[t][j] = c
    BY <2>1, <2>2, <2>4 DEF OwnWait, Begun
  <2> QED BY <1>2, <2>3, <2>4
<1>5. ASSUME NEW c \in Calls, DropWait(c), waits'[t] # waits[t] PROVE OwnWait(t, j)'
  <2>1. waits'[t] = RemoveFirst(waits[t], c)
    BY <1>5 DEF DropWait, TypeOK
  <2>2. \E k \in 1..Len(waits[t]) : waits'[t][j] = waits[t][k]
    BY <1>1, <2>1, RemoveFirstProperties DEF From
  <2> QED BY <1>2, <2>2
<1>6. ASSUME NEW c \in Calls, PostStep(c) \/ WaitStep(c), ~ StartWait(c), ~ NewTry(c), ~ DropWait(c)
      PROVE  waits' = waits
  BY <1>6 DEF PostStep, Post, Enqueue, WaitStep, SendInWait, WakeUp, TimeOut, RequestRetry,
              LeaveTry, waitVars
<1>7. ASSUME NEW u \in Terminals, BreakMessageWaiting(u), waits'[t] # waits[t] PROVE FALSE
  BY <1>7, EmptySeq DEF BreakMessageWaiting, TypeOK
<1>8. ASSUME NEW u \in Terminals, NEW p \in net, Arrive(u, p), waits'[t] # waits[t]
      PROVE  OwnWait(t, j)'
  <2> DEFINE i == WaiterFor(t, p)
  <2>1. i # 0 /\ waits'[t] = RemoveAt(waits[t], i)
    BY <1>8 DEF Arrive, Dispatch, TypeOK, waitVars
  <2>2. i \in 1..Len(waits[t])
    BY <2>1, WaiterForIndex
  <2> HIDE DEF i
  <2>3. From(waits'[t], waits[t], {})
    BY <1>1, <2>1, <2>2, RemoveAtProperties
  <2>4. \E k \in 1..Len(waits[t]) : waits'[t][j] = waits[t][k]
    BY <2>3 DEF From
  <2> QED BY <1>2, <2>4
<1>9. ASSUME NEW u \in Terminals, TickStep(u) \/ NetStep(u), ~ BreakMessageWaiting(u),
             ~ \E p \in net : Arrive(u, p)
      PROVE  waits' = waits
  BY <1>9 DEF TickStep, TimePasses, TickBegin, Retransmit, TickEnd, NetStep, ReadBegin, ReadEnd,
              Take, Answer, waitVars
<1>10. CASE UNCHANGED vars
  BY <1>3, <1>10 DEF vars, waitVars
<1> QED BY <1>3, <1>4, <1>5, <1>6, <1>7, <1>8, <1>9, <1>10 DEF Next

\* A handler's queue and the request it is at hold what was sent.
OwnQueue(t, j) == queue[t][j] \in net
OwnBusy(t) == busy[t] # None => busy[t] \in net

LEMMA QueueStep ==
  ASSUME TypeInv, WaitInv, [Next]_vars, NEW t \in Terminals
  PROVE  /\ \A j \in 1..Len(queue'[t]) : OwnQueue(t, j)'
         /\ OwnBusy(t)'
<1> USE DEF TypeInv
<1> DEFINE New == (\A j \in 1..Len(queue'[t]) : OwnQueue(t, j)') /\ OwnBusy(t)'
<1>1. queue[t] \in Seq(Packets) /\ net \subseteq net'
  BY Monotone DEF TypeOK
<1>2. (\A j \in 1..Len(queue[t]) : queue[t][j] \in net) /\ (busy[t] # None => busy[t] \in net)
  BY DEF WaitInv
<1>3. CASE queue'[t] = queue[t] /\ busy'[t] = busy[t]
  BY <1>1, <1>2, <1>3 DEF OwnQueue, OwnBusy
<1>4. ASSUME NEW p \in net, Arrive(t, p) PROVE New
  <2>1. busy' = busy /\ (queue'[t] = queue[t] \/ queue'[t] = Append(queue[t], p))
    BY <1>4 DEF Arrive, Dispatch, TypeOK
  <2>2. CASE queue'[t] = Append(queue[t], p)
    <3>1. p \in Packets
      BY DEF TypeOK
    <3>2. \A j \in 1..Len(queue'[t]) : queue'[t][j] = p \/ \E k \in 1..Len(queue[t]) : queue'[t][j] = queue[t][k]
      BY <1>1, <2>2, <3>1, AppendFrom DEF From
    <3> QED BY <1>1, <1>2, <2>1, <3>2 DEF OwnQueue, OwnBusy
  <2> QED BY <1>3, <2>1, <2>2
<1>5. ASSUME Take(t) PROVE New
  <2>1. queue[t] # <<>> /\ queue'[t] = Tail(queue[t]) /\ busy'[t] \in {Head(queue[t]), None}
    BY <1>5 DEF Take, TypeOK
  <2>2. Head(queue[t]) \in net
    BY <1>1, <1>2, <2>1, TailFrom
  <2>3. \A j \in 1..Len(queue'[t]) : \E k \in 1..Len(queue[t]) : queue'[t][j] = queue[t][k]
    BY <1>1, <2>1, TailFrom DEF From
  <2> QED BY <1>1, <1>2, <2>1, <2>2, <2>3 DEF OwnQueue, OwnBusy
<1>6. ASSUME Answer(t) PROVE New
  <2>1. queue' = queue /\ busy'[t] = None
    BY <1>6 DEF Answer, TypeOK
  <2> QED BY <1>1, <1>2, <2>1 DEF OwnQueue, OwnBusy
<1>7. ASSUME NEW u \in Terminals, u # t, Take(u) \/ Answer(u) \/ \E p \in net : Arrive(u, p)
      PROVE  queue'[t] = queue[t] /\ busy'[t] = busy[t]
  BY <1>7 DEF Take, Answer, Arrive, Dispatch, TypeOK
<1>8. ASSUME NEW c \in Calls, PostStep(c) \/ WaitStep(c)
      PROVE  queue' = queue /\ busy' = busy
  BY <1>8 DEF PostStep, Post, Enqueue, WaitStep, StartWait, SendInWait, WakeUp, TimeOut,
              RequestRetry, LeaveTry, NewTry, recvVars
<1>9. ASSUME NEW u \in Terminals, TickStep(u) \/ NetStep(u), ~ Take(u), ~ Answer(u),
             ~ \E p \in net : Arrive(u, p)
      PROVE  queue' = queue /\ busy' = busy
  BY <1>9 DEF TickStep, TimePasses, TickBegin, Retransmit, TickEnd, NetStep, ReadBegin, ReadEnd,
              BreakMessageWaiting, recvVars
<1>10. CASE UNCHANGED vars
  BY <1>3, <1>10 DEF vars, recvVars
<1> QED BY <1>3, <1>4, <1>5, <1>6, <1>7, <1>8, <1>9, <1>10 DEF Next, NetStep

\* Only posts are between their two parts, only waiting calls are in a try.
OwnPlace(c) == /\ pc[c] = "sent" => c.op = "post"
               /\ pc[c] \in {"entered", "waiting", "timedout", "between"} => c.op # "post"

LEMMA PlaceStep ==
  ASSUME TypeOK, WaitInv, [Next]_vars, NEW c \in Calls
  PROVE  OwnPlace(c)'
<1>1. OwnPlace(c)
  BY DEF WaitInv, OwnPlace
<1>2. ASSUME NEW d \in Calls, PostStep(d) PROVE OwnPlace(c)'
  BY <1>1, <1>2 DEF OwnPlace, PostStep, Post, Enqueue, TypeOK
<1>3. ASSUME NEW d \in Calls, WaitStep(d) PROVE OwnPlace(c)'
  <2>1. OwnPlace(d)
    BY DEF WaitInv, OwnPlace
  <2> QED BY <1>1, <1>3, <2>1 DEF OwnPlace, WaitStep, StartWait, SendInWait, WakeUp, TimeOut,
                                  RequestRetry, LeaveTry, NewTry, TypeOK
<1>4. ASSUME NEW t \in Terminals, TickStep(t) PROVE OwnPlace(c)'
  BY <1>1, <1>4 DEF OwnPlace, TickStep, TimePasses, TickBegin, Retransmit, TickEnd, callVars
<1>5. ASSUME NEW t \in Terminals, NetStep(t) PROVE OwnPlace(c)'
  BY <1>1, <1>5 DEF OwnPlace, NetStep, ReadBegin, ReadEnd, Take, Answer, BreakMessageWaiting,
                    Arrive, callVars
<1>6. CASE UNCHANGED vars
  BY <1>1, <1>6 DEF OwnPlace, vars, callVars
<1> QED BY <1>2, <1>3, <1>4, <1>5, <1>6 DEF Next

LEMMA WaitInit == Init => WaitInv
BY EmptySeq DEF Init, WaitInv

LEMMA WaitInvStep ==
  ASSUME TypeInv, WaitInv, [Next]_vars
  PROVE  WaitInv'
<1>1. \A t \in Terminals : \A j \in 1..Len(posts'[t]) : OwnPost(t, j)'
  BY PostsStep
<1>2. \A t \in Terminals : \A j \in 1..Len(waits'[t]) : OwnWait(t, j)'
  BY WaitsStep
<1>3. \A t \in Terminals : (\A j \in 1..Len(queue'[t]) : OwnQueue(t, j)') /\ OwnBusy(t)'
  BY QueueStep
<1>4. \A c \in Calls : OwnPlace(c)'
  BY PlaceStep DEF TypeInv
<1> QED BY <1>1, <1>2, <1>3, <1>4 DEF WaitInv, OwnPost, OwnWait, OwnQueue, OwnBusy, OwnPlace

----------------------------------------------------------------------------
\* An ACK that a call of terminal t accepts is an ACK of its message, which has arrived.
LEMMA AckIsOwn ==
  ASSUME TypeOK, SyncInv, NetInv, NEW c \in Calls, Begun(c), NEW p \in net, p.to = c.from,
         AckMatch(c, sync[c], p)
  PROVE  c \in arrived
<1>1. p.call \in Calls /\ Genuine(p)
  BY DEF TypeOK, Packets, NetInv
<1>2. p.kind = ACK /\ p.from = c.to /\ p.sync = sync[c] /\ p.ackid = c.kind
  BY DEF AckMatch
<1>3. ~ IsMessage(p) /\ ~ IsAnswer(p)
  BY <1>1, <1>2, CallsAssumption, BoundsAssumption DEF IsMessage, IsAnswer, Kinds
<1>4. IsAck(p)
  BY <1>1, <1>3 DEF Genuine
<1>5. /\ p.ackid = p.call.kind /\ p.call \in arrived
      /\ p.from = p.call.to /\ p.to = p.call.from
  BY <1>2, <1>4, CallsAssumption DEF IsAck
<1>6. Begun(p.call) /\ p.sync = sync[p.call]
  BY <1>1 DEF Genuine
<1>7. p.call = c
  BY <1>1, <1>2, <1>5, <1>6, SyncUnique
<1> QED BY <1>5, <1>7

\* An answer that a request accepts is the answer to it.
LEMMA AnswerIsOwn ==
  ASSUME TypeOK, SyncInv, NetInv, NEW c \in Calls, Begun(c), NEW p \in net, p.to = c.from,
         AnswerMatch(c, sync[c], p)
  PROVE  p.call = c
<1>1. p.call \in Calls /\ Genuine(p) /\ Begun(p.call) /\ p.sync = sync[p.call]
  BY DEF TypeOK, Packets, NetInv, Genuine
<1>2. /\ c.kind \in DOMAIN Answers /\ p.kind = Answers[c.kind] /\ p.from = c.to
      /\ p.sync \in {0, sync[c]}
  BY DEF AnswerMatch
<1>3. p.sync = sync[c]
  BY <1>1, <1>2 DEF SyncInv
<1>4. ~ IsMessage(p) /\ ~ IsAck(p)
  BY <1>1, <1>2, CallsAssumption, BoundsAssumption DEF IsMessage, IsAck, Kinds
<1>5. IsAnswer(p)
  BY <1>1, <1>4 DEF Genuine
<1>6. p.call.kind = c.kind
  BY <1>2, <1>5, CallsAssumption DEF IsAnswer, IsInjective
<1> QED BY <1>1, <1>2, <1>3, <1>5, <1>6, SyncUnique DEF IsAnswer
----------------------------------------------------------------------------
SendResult(c) == (c.op = "send" /\ (signalled[c] \/ pc[c] = "done")) => c \in arrived \cup broken

RequestResult(c) == c.op = "request" => /\ got[c] # None => got[c].call = c
                                        /\ outcome[c] # None => outcome[c].call = c

\* What Dispatch does for a waiter: it was this waiter's ACK or answer.
LEMMA DispatchOwn ==
  ASSUME TypeInv, SyncInv, NetInv, WaitInv, NEW t \in Terminals, NEW p \in net, Arrive(t, p),
         WaiterFor(t, p) # 0, NEW c, c = waits[t][WaiterFor(t, p)]
  PROVE  /\ c \in Calls
         /\ IF c.op = "send" THEN c \in arrived ELSE p.call = c
<1> USE DEF TypeInv
<1>1. /\ WaiterFor(t, p) \in 1..Len(waits[t])
      /\ IF c.op = "send" THEN AckMatch(c, sync[c], p) ELSE AnswerMatch(c, sync[c], p)
  BY WaiterForIndex
<1>2. waits[t] \in Seq(Calls)
  BY DEF TypeOK
<1>3. c \in Calls
  BY <1>1, <1>2, ElementOfSeq
<1>4. c.from = t /\ Begun(c)
  BY <1>1 DEF WaitInv
<1>5. p.to = c.from
  BY <1>4 DEF Arrive
<1>6. CASE c.op = "send"
  BY <1>1, <1>3, <1>4, <1>5, <1>6, AckIsOwn
<1>7. CASE c.op # "send"
  BY <1>1, <1>3, <1>4, <1>5, <1>7, AnswerIsOwn
<1> QED BY <1>3, <1>6, <1>7

LEMMA ConfirmedStep ==
  ASSUME TypeInv, SyncInv, NetInv, WaitInv, confirmed \subseteq arrived, [Next]_vars
  PROVE  confirmed' \subseteq arrived'
<1> USE DEF TypeInv
<1>1. arrived \subseteq arrived'
  BY Monotone
<1>2. ASSUME NEW t \in Terminals, NEW p \in net, Arrive(t, p) PROVE confirmed' \subseteq arrived'
  <2> DEFINE i == AckedPost(t, p)
  <2>1. confirmed' = confirmed \/ (i # 0 /\ confirmed' = confirmed \cup {posts[t][i].call})
    BY <1>2 DEF Arrive, RemoveAcked
  <2>2. ASSUME i # 0 PROVE posts[t][i].call \in arrived
    <3>1. i \in 1..Len(posts[t]) /\ AckMatch(posts[t][i].call, sync[posts[t][i].call], p)
      BY <2>2, AckedPostIndex
    <3> HIDE DEF i
    <3>2. PICK c \in Calls : c = posts[t][i].call
      <4>1. posts[t] \in Seq(PostEntries)
        BY DEF TypeOK
      <4>2. posts[t][i] \in PostEntries
        BY <3>1, <4>1, ElementOfSeq
      <4> QED BY <4>2 DEF PostEntries
    <3>3. c.from = t /\ Begun(c)
      BY <3>1, <3>2 DEF WaitInv
    <3>4. p.to = c.from
      BY <1>2, <3>3 DEF Arrive
    <3> QED BY <3>1, <3>2, <3>3, <3>4, AckIsOwn
  <2> QED BY <1>1, <2>1, <2>2
<1>3. ASSUME NEW c \in Calls, PostStep(c) \/ WaitStep(c) PROVE confirmed' = confirmed
  BY <1>3 DEF PostStep, Post, Enqueue, WaitStep, StartWait, SendInWait, WakeUp, TimeOut,
              RequestRetry, LeaveTry, NewTry, history
<1>4. ASSUME NEW u \in Terminals, TickStep(u) \/ NetStep(u), ~ \E p \in net : Arrive(u, p)
      PROVE  confirmed' = confirmed
  BY <1>4 DEF TickStep, TimePasses, TickBegin, Retransmit, TickEnd, NetStep, ReadBegin, ReadEnd,
              Take, Answer, BreakMessageWaiting, history
<1>5. CASE UNCHANGED vars
  BY <1>1, <1>5 DEF vars, history
<1> QED BY <1>1, <1>2, <1>3, <1>4, <1>5 DEF Next

LEMMA SendStep ==
  ASSUME TypeInv, SyncInv, NetInv, WaitInv, [Next]_vars, NEW c \in Calls, SendResult(c)
  PROVE  SendResult(c)'
<1> USE DEF TypeInv
<1>1. arrived \subseteq arrived' /\ broken \subseteq broken'
  BY Monotone
<1>2. CASE signalled'[c] = signalled[c] /\ (pc'[c] = "done" => pc[c] = "done")
  BY <1>1, <1>2 DEF SendResult
<1>3. ASSUME NEW d \in Calls, PostStep(d) PROVE SendResult(c)'
  <2>1. signalled' = signalled /\ (d # c => pc'[c] = pc[c]) /\ d.op = "post"
    BY <1>3 DEF PostStep, Post, Enqueue, TypeOK, WaitInv, waitVars
  <2> QED BY <1>1, <2>1 DEF SendResult
<1>4. ASSUME NEW d \in Calls, DropWait(d), pc' = [pc EXCEPT ![d] = pc'[d]],
             (pc'[d] = "done" /\ d.op = "send") => signalled[d]
      PROVE  SendResult(c)'
  <2>1. signalled' = [signalled EXCEPT ![d] = FALSE]
    BY <1>4 DEF DropWait
  <2>2. CASE d # c
    BY <1>2, <1>4, <2>1, <2>2 DEF TypeOK
  <2>3. CASE d = c
    <3>1. ~ signalled'[c]
      BY <2>1, <2>3 DEF TypeOK
    <3> QED BY <1>1, <1>4, <2>3, <3>1 DEF SendResult
  <2> QED BY <2>2, <2>3
<1>5. ASSUME NEW d \in Calls, WaitStep(d) PROVE SendResult(c)'
  <2>1. CASE WakeUp(d)
    <3>1. DropWait(d) /\ signalled[d] /\ pc' = [pc EXCEPT ![d] = pc'[d]]
      BY <2>1 DEF WakeUp, TypeOK
    <3> QED BY <1>4, <3>1
  <2>2. CASE LeaveTry(d)
    <3>1. DropWait(d) /\ pc' = [pc EXCEPT ![d] = pc'[d]] /\ pc'[d] # "done"
      BY <2>2 DEF LeaveTry, TypeOK
    <3> QED BY <1>4, <3>1
  <2>3. CASE RequestRetry(d)
    <3>1. d.op = "request" /\ pc' = [pc EXCEPT ![d] = pc'[d]]
      BY <2>3 DEF RequestRetry, TypeOK
    <3>2. DropWait(d) \/ (signalled' = signalled /\ pc'[d] = "entered")
      BY <2>3 DEF RequestRetry, TypeOK
    <3>3. CASE signalled' = signalled /\ pc'[d] = "entered"
      <4>1. pc'[c] = "done" => pc[c] = "done"
        BY <3>1, <3>3 DEF TypeOK
      <4> QED BY <1>2, <3>3, <4>1
    <3> QED BY <1>4, <3>1, <3>2, <3>3
  <2>4. ASSUME StartWait(d) \/ SendInWait(d) \/ TimeOut(d) \/ NewTry(d) PROVE SendResult(c)'
    <3>1. signalled' = signalled /\ (pc'[c] = "done" => pc[c] = "done")
      BY <2>4 DEF StartWait, SendInWait, TimeOut, NewTry, TypeOK, waitVars
    <3> QED BY <1>2, <3>1
  <2> QED BY <1>5, <2>1, <2>2, <2>3, <2>4 DEF WaitStep
<1>6. ASSUME NEW t \in Terminals, BreakMessageWaiting(t) PROVE SendResult(c)'
  <2>1. /\ pc' = pc /\ signalled'[c] = (signalled[c] \/ c \in ToSet(waits[t]))
        /\ broken' = broken \cup ToSet(waits[t])
    BY <1>6 DEF BreakMessageWaiting, callVars
  <2> QED BY <1>1, <2>1, ZenonT(30) DEF SendResult
<1>7. ASSUME NEW t \in Terminals, NEW p \in net, Arrive(t, p) PROVE SendResult(c)'
  <2> DEFINE d == waits[t][WaiterFor(t, p)]
  <2>1. pc' = pc
    BY <1>7 DEF Arrive, callVars
  <2>2. CASE WaiterFor(t, p) = 0
    BY <1>2, <1>7, <2>1, <2>2 DEF Arrive, Dispatch, waitVars
  <2>3. CASE WaiterFor(t, p) # 0
    <3>1. d \in Calls /\ (d.op = "send" => d \in arrived)
      BY <1>7, <2>3, DispatchOwn
    <3>2. signalled' = [signalled EXCEPT ![d] = TRUE]
      BY <1>7, <2>3 DEF Arrive, Dispatch
    <3> HIDE DEF d
    <3>3. CASE c = d
      BY <1>1, <3>1, <3>3 DEF SendResult
    <3>4. CASE c # d
      BY <1>2, <2>1, <3>2, <3>4 DEF TypeOK
    <3> QED BY <3>3, <3>4
  <2> QED BY <2>2, <2>3
<1>8. ASSUME NEW u \in Terminals, TickStep(u) \/ NetStep(u), ~ BreakMessageWaiting(u),
             ~ \E p \in net : Arrive(u, p)
      PROVE  signalled' = signalled /\ pc' = pc
  BY <1>8 DEF TickStep, TimePasses, TickBegin, Retransmit, TickEnd, NetStep, ReadBegin, ReadEnd,
              Take, Answer, waitVars, callVars
<1>9. CASE UNCHANGED vars
  BY <1>2, <1>9 DEF vars, waitVars, callVars
<1> QED BY <1>2, <1>3, <1>5, <1>6, <1>7, <1>8, <1>9 DEF Next

LEMMA RequestStep ==
  ASSUME TypeInv, SyncInv, NetInv, WaitInv, [Next]_vars, NEW c \in Calls, RequestResult(c)
  PROVE  RequestResult(c)'
<1> USE DEF TypeInv
<1>1. CASE /\ got'[c] \in {got[c], None}
           /\ outcome'[c] \in {outcome[c], got[c]}
  BY <1>1 DEF RequestResult
<1>2. ASSUME NEW d \in Calls, PostStep(d) \/ WaitStep(d) PROVE RequestResult(c)'
  <2>1. /\ got'[c] \in {got[c], None}
        /\ outcome'[c] \in {outcome[c], got[c]}
    BY <1>2 DEF PostStep, Post, Enqueue, WaitStep, StartWait, SendInWait, WakeUp, TimeOut,
                RequestRetry, LeaveTry, NewTry, DropWait, TypeOK, waitVars
  <2> QED BY <1>1, <2>1
<1>3. ASSUME NEW t \in Terminals, NEW p \in net, Arrive(t, p) PROVE RequestResult(c)'
  <2> DEFINE d == waits[t][WaiterFor(t, p)]
  <2>1. outcome' = outcome
    BY <1>3 DEF Arrive, callVars
  <2>2. CASE WaiterFor(t, p) = 0
    BY <1>1, <1>3, <2>1, <2>2 DEF Arrive, Dispatch, waitVars
  <2>3. CASE WaiterFor(t, p) # 0
    <3>1. d \in Calls /\ (d.op # "send" => p.call = d)
      BY <1>3, <2>3, DispatchOwn
    <3>2. got' = IF d.op = "send" THEN got ELSE [got EXCEPT ![d] = p]
      BY <1>3, <2>3 DEF Arrive, Dispatch
    <3> HIDE DEF d
    <3>3. CASE c = d
      BY <2>1, <3>1, <3>2, <3>3 DEF RequestResult, TypeOK
    <3>4. CASE c # d
      BY <1>1, <2>1, <3>2, <3>4 DEF TypeOK
    <3> QED BY <3>3, <3>4
  <2> QED BY <2>2, <2>3
<1>4. ASSUME NEW u \in Terminals, TickStep(u) \/ NetStep(u), ~ \E p \in net : Arrive(u, p)
      PROVE  got' = got /\ outcome' = outcome
  BY <1>4 DEF TickStep, TimePasses, TickBegin, Retransmit, TickEnd, NetStep, ReadBegin, ReadEnd,
              Take, Answer, BreakMessageWaiting, waitVars, callVars
<1>5. CASE UNCHANGED vars
  BY <1>1, <1>5 DEF vars, waitVars, callVars
<1> QED BY <1>1, <1>2, <1>3, <1>4, <1>5 DEF Next

----------------------------------------------------------------------------
LEMMA InvInit == Init => IInv
<1> SUFFICES ASSUME Init PROVE IInv
  OBVIOUS
<1>1. ResultInv
  BY DEF Init, ResultInv
<1> QED BY <1>1, TypeInit, SyncInit, NetInit, WaitInit DEF IInv

LEMMA InvStep == IInv /\ [Next]_vars => IInv'
<1> SUFFICES ASSUME IInv, [Next]_vars PROVE IInv'
  OBVIOUS
<1>1. TypeInv /\ TypeOK /\ SyncInv /\ NetInv /\ WaitInv /\ ResultInv
  BY DEF IInv, TypeInv
<1>2. TypeInv' /\ SyncInv' /\ NetInv' /\ WaitInv'
  BY <1>1, TypeStep, SyncStep, NetInvStep, WaitInvStep
<1>3. confirmed' \subseteq arrived'
  BY <1>1, ConfirmedStep DEF ResultInv
<1>4. \A c \in Calls : SendResult(c)' /\ RequestResult(c)'
  <2>1. \A c \in Calls : SendResult(c) /\ RequestResult(c)
    BY <1>1 DEF ResultInv, SendResult, RequestResult
  <2> QED BY <1>1, <2>1, SendStep, RequestStep
<1>5. ResultInv'
  BY <1>3, <1>4 DEF ResultInv, SendResult, RequestResult
<1> QED BY <1>2, <1>5 DEF IInv

\* IInv holds in every reachable state of the terminals.
THEOREM Invariance == Spec => []IInv
BY InvInit, InvStep, PTL DEF Spec

\* A post is confirmed only by the ACK of its own message, which has arrived at the peer:
\* RemoveAcked (OnMessageArriveInternal) with SIM_ACKFILTER_MATCH_2 never takes the wrong
\* post out of m_listMsgPosts.
THEOREM PostConfirmation == Spec => []ConfirmedArrived
<1>1. IInv => ConfirmedArrived
  BY DEF IInv, ResultInv, ConfirmedArrived
<1> QED BY <1>1, Invariance, PTL

\* SendMessage returns TRUE only if its message has arrived or Logout broke the wait.
THEOREM SendConfirmation == Spec => []SendTrueArrived
<1>1. IInv => SendTrueArrived
  BY DEF IInv, ResultInv, SendTrueArrived
<1> QED BY <1>1, Invariance, PTL

\* RequestMessage never returns the answer to another request.
THEOREM AnswerOwnership == Spec => []OwnAnswer
<1>1. IInv => OwnAnswer
  BY DEF IInv, ResultInv, OwnAnswer
<1> QED BY <1>1, Invariance, PTL

----------------------------------------------------------------------------
(***************************************************************************)
(* The wait list: ScopeInv adds to WaitListSound that a semaphore is       *)
(* signalled only while its call is in the scope of its object.            *)
(***************************************************************************)
InScope(c) == pc[c] \in {"entered", "waiting", "timedout"}

WaitsOK(t) ==
  /\ Once(waits[t])
  /\ \A i \in 1..Len(waits[t]) :
       waits[t][i].from = t /\ ~ signalled[waits[t][i]] /\ InScope(waits[t][i])

ScopeInv ==
  /\ \A c \in Calls : signalled[c] => InScope(c)
  /\ \A t \in Terminals : WaitsOK(t)

LEMMA WaitsType ==
  ASSUME TypeOK, NEW t \in Terminals, NEW i \in 1..Len(waits[t])
  PROVE  waits[t] \in Seq(Calls) /\ waits[t][i] \in Calls
<1>1. waits[t] \in Seq(Calls)
  BY DEF TypeOK
<1> QED BY <1>1, ElementOfSeq

\* Nothing happens to the list, and nobody leaves a scope.
LEMMA ScopeRest ==
  ASSUME TypeOK, ScopeInv, UNCHANGED <<waits, signalled>>,
         \A c \in Calls : InScope(c) => InScope(c)'
  PROVE  ScopeInv'
<1>1. ASSUME NEW t \in Terminals PROVE WaitsOK(t)'
  <2>1. Once(waits[t])'
    BY DEF ScopeInv, WaitsOK, Once
  <2>2. ASSUME NEW i \in 1..Len(waits[t])
        PROVE  waits[t][i].from = t /\ ~ signalled[waits[t][i]] /\ InScope(waits[t][i])'
    <3> PICK c \in Calls : c = waits[t][i]
      BY WaitsType
    <3>1. c.from = t /\ ~ signalled[c] /\ InScope(c)'
      BY DEF ScopeInv, WaitsOK
    <3> QED BY <3>1 DEF InScope
  <2> QED BY <2>1, <2>2 DEF WaitsOK
<1> QED BY <1>1 DEF ScopeInv

\* A call that is in no scope enters the list.
LEMMA ScopeEnter ==
  ASSUME TypeOK, ScopeInv, NEW c \in Calls, ~ InScope(c), signalled' = signalled,
         waits' = [waits EXCEPT ![c.from] = Append(@, c)], pc' = [pc EXCEPT ![c] = "entered"]
  PROVE  ScopeInv'
<1>1. c.from \in Terminals /\ InScope(c)' /\ ~ signalled[c]
      /\ \A d \in Calls : d # c => (InScope(d)' <=> InScope(d))
  BY CallsAssumption DEF InScope, ScopeInv, TypeOK
<1>2. ASSUME NEW t \in Terminals PROVE WaitsOK(t)'
  <2>1. waits[t] \in Seq(Calls) /\ Once(waits[t])
        /\ \A k \in 1..Len(waits[t]) : /\ waits[t][k] \in Calls /\ waits[t][k] # c
                                       /\ waits[t][k].from = t /\ ~ signalled[waits[t][k]]
    <3>1. waits[t] \in Seq(Calls) /\ Once(waits[t])
      BY DEF ScopeInv, WaitsOK, TypeOK
    <3>2. ASSUME NEW k \in 1..Len(waits[t])
          PROVE  /\ waits[t][k] \in Calls /\ waits[t][k] # c
                 /\ waits[t][k].from = t /\ ~ signalled[waits[t][k]]
      BY WaitsType DEF ScopeInv, WaitsOK, InScope
    <3> QED BY <3>1, <3>2
  <2>2. waits'[t] = IF t = c.from THEN Append(waits[t], c) ELSE waits[t]
    BY DEF TypeOK
  <2>3. Once(waits'[t]) /\ From(waits'[t], waits[t], {c})
    <3>1. Once(Append(waits[t], c)) /\ From(Append(waits[t], c), waits[t], {c})
      BY <2>1, AppendOnce, AppendFrom
    <3>2. From(waits[t], waits[t], {c})
      BY DEF From
    <3> QED BY <2>1, <2>2, <3>1, <3>2
  <2>4. ASSUME NEW i \in 1..Len(waits'[t])
        PROVE  waits'[t][i].from = t /\ ~ signalled'[waits'[t][i]] /\ InScope(waits[t][i])'
    <3>1. CASE t = c.from /\ waits'[t][i] = c
      BY <1>1, <3>1 DEF InScope
    <3>2. ASSUME NEW k \in 1..Len(waits[t]), waits'[t][i] = waits[t][k]
          PROVE  waits'[t][i].from = t /\ ~ signalled'[waits'[t][i]] /\ InScope(waits[t][i])'
      <4> PICK d \in Calls : d = waits[t][k]
        BY <2>1
      <4>1. d # c /\ d.from = t /\ ~ signalled[d] /\ InScope(d)
        BY <2>1 DEF ScopeInv, WaitsOK
      <4> QED BY <1>1, <3>2, <4>1 DEF InScope
    <3>3. (t = c.from /\ waits'[t][i] = c) \/ \E k \in 1..Len(waits[t]) : waits'[t][i] = waits[t][k]
      BY <2>2, <2>3 DEF From
    <3> QED BY <3>1, <3>2, <3>3
  <2> QED BY <2>3, <2>4 DEF WaitsOK
<1>3. \A d \in Calls : signalled'[d] => InScope(d)'
  BY <1>1 DEF ScopeInv
<1> QED BY <1>2, <1>3 DEF ScopeInv

\* What remains in the lists when nothing else changes but for one call, which is in none.
LEMMA ScopeWithout ==
  ASSUME TypeOK, ScopeInv, NEW c \in Calls,
         \A d \in Calls : d # c => signalled'[d] = signalled[d] /\ (InScope(d)' <=> InScope(d)),
         signalled'[c] => InScope(c)',
         NEW t \in Terminals, Once(waits'[t]), From(waits'[t], waits[t], {}),
         \A k \in 1..Len(waits'[t]) : waits'[t][k] # c
  PROVE  WaitsOK(t)'
<1> SUFFICES ASSUME NEW i \in 1..Len(waits'[t])
             PROVE  waits'[t][i].from = t /\ ~ signalled'[waits'[t][i]] /\ InScope(waits[t][i])'
  BY DEF WaitsOK
<1> PICK k \in 1..Len(waits[t]) : waits'[t][i] = waits[t][k]
  BY DEF From
<1> PICK d \in Calls : d = waits[t][k]
  BY WaitsType
<1>1. d # c /\ d.from = t /\ ~ signalled[d] /\ InScope(d)
  BY DEF ScopeInv, WaitsOK
<1> QED BY <1>1 DEF InScope

\* ~MsgWait takes the only entry of its call out of the list.
LEMMA ScopeDrop ==
  ASSUME TypeOK, ScopeInv, NEW c \in Calls, DropWait(c),
         \A d \in Calls : d # c => pc'[d] = pc[d]
  PROVE  ScopeInv'
<1>1. /\ waits' = [waits EXCEPT ![c.from] = RemoveFirst(waits[c.from], c)]
      /\ signalled' = [signalled EXCEPT ![c] = FALSE] /\ c.from \in Terminals
  BY CallsAssumption DEF DropWait
<1>2. ~ signalled'[c]
      /\ \A d \in Calls : d # c => signalled'[d] = signalled[d] /\ (InScope(d)' <=> InScope(d))
  BY <1>1 DEF InScope, TypeOK
<1>3. ASSUME NEW t \in Terminals PROVE WaitsOK(t)'
  <2>1. waits[t] \in Seq(Calls) /\ Once(waits[t])
    BY DEF ScopeInv, WaitsOK, TypeOK
  <2>2. CASE t = c.from
    <3>1. waits'[t] = RemoveFirst(waits[t], c)
      BY <1>1, <2>2 DEF TypeOK
    <3>2. /\ Once(RemoveFirst(waits[t], c))
          /\ \A k \in 1..Len(RemoveFirst(waits[t], c)) : RemoveFirst(waits[t], c)[k] # c
      BY <2>1, RemoveFirstOnce
    <3>3. RemoveFirst(waits[t], c) \in Seq(Calls) /\ From(RemoveFirst(waits[t], c), waits[t], {})
      BY <2>1, RemoveFirstProperties
    <3> QED BY <1>2, <3>1, <3>2, <3>3, ScopeWithout
  <2>3. CASE t # c.from
    <3>1. waits'[t] = waits[t] /\ From(waits[t], waits[t], {})
      BY <1>1, <2>3 DEF TypeOK, From
    <3>2. \A k \in 1..Len(waits'[t]) : waits'[t][k] # c
      BY <2>3, <3>1 DEF ScopeInv, WaitsOK
    <3> QED BY <1>2, <2>1, <3>1, <3>2, ScopeWithout
  <2> QED BY <2>2, <2>3
<1> QED BY <1>2, <1>3 DEF ScopeInv

\* Taking a waiter out of the list and signalling it.
LEMMA ScopeSignal ==
  ASSUME TypeOK, ScopeInv, NEW t \in Terminals, NEW w \in 1..Len(waits[t]), pc' = pc,
         waits' = [waits EXCEPT ![t] = RemoveAt(@, w)],
         signalled' = [signalled EXCEPT ![waits[t][w]] = TRUE]
  PROVE  ScopeInv'
<1> PICK c \in Calls : c = waits[t][w]
  BY WaitsType
<1>1. c.from = t /\ InScope(c) /\ InScope(c)'
  BY DEF ScopeInv, WaitsOK, InScope
<1>2. \A d \in Calls : d # c => signalled'[d] = signalled[d] /\ (InScope(d)' <=> InScope(d))
  BY DEF InScope, TypeOK
<1>3. ASSUME NEW u \in Terminals PROVE WaitsOK(u)'
  <2>1. waits[u] \in Seq(Calls) /\ Once(waits[u])
    BY DEF ScopeInv, WaitsOK, TypeOK
  <2>2. CASE u = t
    <3>1. waits'[u] = RemoveAt(waits[u], w) /\ w \in 1..Len(waits[u]) /\ c = waits[u][w]
      BY <2>2 DEF TypeOK
    <3>2. /\ Once(RemoveAt(waits[u], w))
          /\ \A k \in 1..Len(RemoveAt(waits[u], w)) : RemoveAt(waits[u], w)[k] # waits[u][w]
      BY <2>1, <3>1, RemoveAtOnce
    <3>3. RemoveAt(waits[u], w) \in Seq(Calls) /\ From(RemoveAt(waits[u], w), waits[u], {})
      BY <2>1, <3>1, RemoveAtProperties
    <3>4. /\ Once(waits'[u]) /\ From(waits'[u], waits[u], {})
          /\ \A k \in 1..Len(waits'[u]) : waits'[u][k] # c
      BY <3>1, <3>2, <3>3
    <3>5. signalled'[c] => InScope(c)'
      BY <1>1
    <3> QED BY <1>2, <3>4, <3>5, ScopeWithout
  <2>3. CASE u # t
    <3>1. waits'[u] = waits[u] /\ From(waits[u], waits[u], {})
      BY <2>3 DEF TypeOK, From
    <3>2. \A k \in 1..Len(waits'[u]) : waits'[u][k] # c
      BY <1>1, <2>3, <3>1 DEF ScopeInv, WaitsOK
    <3> QED BY <1>1, <1>2, <2>1, <3>1, <3>2, ScopeWithout
  <2> QED BY <2>2, <2>3
<1>4. \A d \in Calls : signalled'[d] => InScope(d)'
  BY <1>1, <1>2 DEF ScopeInv
<1> QED BY <1>3, <1>4 DEF ScopeInv

LEMMA ScopeBreak ==
  ASSUME TypeOK, ScopeInv, NEW t \in Terminals, BreakMessageWaiting(t)
  PROVE  ScopeInv'
<1>1. /\ pc' = pc /\ waits' = [waits EXCEPT ![t] = <<>>]
      /\ \A c \in Calls : signalled'[c] = (signalled[c] \/ c \in ToSet(waits[t]))
  BY DEF BreakMessageWaiting, callVars
<1>2. ASSUME NEW c \in Calls, c \in ToSet(waits[t]) PROVE InScope(c) /\ c.from = t
  <2>1. PICK k \in 1..Len(waits[t]) : c = waits[t][k]
    <3>1. DOMAIN waits[t] = 1..Len(waits[t])
      BY LenProperties DEF TypeOK
    <3> QED BY <1>2, <3>1 DEF ToSet
  <2> QED BY <2>1 DEF ScopeInv, WaitsOK, InScope
<1>3. ASSUME NEW c \in Calls, signalled'[c] PROVE InScope(c)'
  <2>1. signalled[c] \/ c \in ToSet(waits[t])
    BY <1>1, <1>3, ZenonT(30)
  <2>2. InScope(c)
    BY <1>2, <2>1 DEF ScopeInv
  <2> QED BY <1>1, <2>2 DEF InScope
<1>4. ASSUME NEW u \in Terminals PROVE WaitsOK(u)'
  <2>1. CASE u = t
    <3>1. waits'[u] = <<>> /\ Len(waits'[u]) = 0
      BY <1>1, <2>1 DEF TypeOK
    <3> QED BY <3>1 DEF WaitsOK, Once
  <2>2. CASE u # t
    <3>1. waits'[u] = waits[u] /\ Once(waits[u])
      BY <1>1, <2>2 DEF TypeOK, ScopeInv, WaitsOK
    <3>2. ASSUME NEW i \in 1..Len(waits[u])
          PROVE  waits[u][i].from = u /\ ~ signalled'[waits[u][i]] /\ InScope(waits[u][i])'
      <4> PICK c \in Calls : c = waits[u][i]
        BY WaitsType
      <4>1. c.from = u /\ ~ signalled[c] /\ InScope(c)
        BY DEF ScopeInv, WaitsOK
      <4>2. c \notin ToSet(waits[t])
        BY <1>2, <2>2, <4>1
      <4>3. ~ signalled'[c]
        BY <1>1, <4>1, <4>2, ZenonT(30)
      <4> QED BY <1>1, <3>1, <4>1, <4>3 DEF InScope
    <3> QED BY <3>1, <3>2 DEF WaitsOK
  <2> QED BY <2>1, <2>2
<1> QED BY <1>3, <1>4 DEF ScopeInv

LEMMA ScopeStep ==
  ASSUME TypeInv, WaitInv, ScopeInv, [Next]_vars
  PROVE  ScopeInv'
<1> USE DEF TypeInv
<1>1. ASSUME NEW c \in Calls, Post(c) \/ Enqueue(c) \/ SendInWait(c) \/ TimeOut(c)
      PROVE  ScopeInv'
  <2>1. UNCHANGED <<waits, signalled>>
    BY <1>1 DEF Post, Enqueue, SendInWait, TimeOut, waitVars
  <2>2. \A d \in Calls : InScope(d) => InScope(d)'
    BY <1>1 DEF Post, Enqueue, SendInWait, TimeOut, InScope, TypeOK
  <2> QED BY <2>1, <2>2, ScopeRest
<1>2. ASSUME NEW c \in Calls, StartWait(c) \/ NewTry(c) PROVE ScopeInv'
  BY <1>2, ScopeEnter DEF StartWait, NewTry, InScope
<1>3. ASSUME NEW c \in Calls, DropWait(c), \A d \in Calls : d # c => pc'[d] = pc[d]
      PROVE  ScopeInv'
  BY <1>3, ScopeDrop
<1>4. ASSUME NEW c \in Calls, WakeUp(c) \/ LeaveTry(c) PROVE ScopeInv'
  BY <1>3, <1>4 DEF WakeUp, LeaveTry, TypeOK
<1>5. ASSUME NEW c \in Calls, RequestRetry(c) PROVE ScopeInv'
  <2>1. CASE GoOn(left[c])
    <3>1. UNCHANGED <<waits, signalled>> /\ \A d \in Calls : InScope(d) => InScope(d)'
      BY <1>5, <2>1 DEF RequestRetry, InScope, TypeOK
    <3> QED BY <3>1, ScopeRest
  <2>2. CASE ~ GoOn(left[c])
    BY <1>3, <1>5, <2>2 DEF RequestRetry, TypeOK
  <2> QED BY <2>1, <2>2
<1>6. CASE UNCHANGED <<waits, signalled, pc>>
  BY <1>6, ScopeRest DEF InScope
<1>7. ASSUME NEW t \in Terminals, NEW p \in net, Arrive(t, p) PROVE ScopeInv'
  <2>1. pc' = pc
    BY <1>7 DEF Arrive, callVars
  <2>2. CASE WaiterFor(t, p) = 0
    BY <1>6, <1>7, <2>1, <2>2 DEF Arrive, Dispatch, waitVars
  <2>3. CASE WaiterFor(t, p) # 0
    <3> DEFINE w == WaiterFor(t, p)
    <3>1. /\ w \in 1..Len(waits[t]) /\ waits' = [waits EXCEPT ![t] = RemoveAt(@, w)]
          /\ signalled' = [signalled EXCEPT ![waits[t][w]] = TRUE]
      BY <1>7, <2>3, WaiterForIndex DEF Arrive, Dispatch
    <3> HIDE DEF w
    <3> QED BY <2>1, <3>1, ScopeSignal
  <2> QED BY <2>2, <2>3
<1>8. ASSUME NEW t \in Terminals, TickStep(t) PROVE ScopeInv'
  BY <1>6, <1>8 DEF TickStep, TimePasses, TickBegin, Retransmit, TickEnd, callVars, waitVars
<1>9. ASSUME NEW t \in Terminals, NetStep(t) PROVE ScopeInv'
  <2>1. CASE BreakMessageWaiting(t)
    BY <2>1, ScopeBreak
  <2>2. CASE ReadBegin(t) \/ ReadEnd(t) \/ Take(t) \/ Answer(t)
    BY <1>6, <2>2 DEF ReadBegin, ReadEnd, Take, Answer, callVars, waitVars
  <2> QED BY <1>7, <1>9, <2>1, <2>2 DEF NetStep
<1>10. CASE UNCHANGED vars
  BY <1>6, <1>10 DEF vars, callVars, waitVars
<1>11. ASSUME NEW c \in Calls, PostStep(c) \/ WaitStep(c) PROVE ScopeInv'
  BY <1>1, <1>2, <1>4, <1>5, <1>11 DEF PostStep, WaitStep
<1> QED BY <1>8, <1>9, <1>10, <1>11 DEF Next

LEMMA ScopeInit == Init => ScopeInv
<1> SUFFICES ASSUME Init PROVE ScopeInv
  OBVIOUS
<1>1. \A t \in Terminals : waits[t] = <<>> /\ Len(waits[t]) = 0
  BY DEF Init
<1> QED BY <1>1 DEF Init, ScopeInv, WaitsOK, Once

\* The wait list holds no pointer to an object that has left its caller's stack, none twice and
\* none that is signalled, however WaitRequest, its time-out, ~MsgWait, the net thread's
\* HandleMessageWait and Logout's BreakMessageWaiting interleave.
THEOREM WaitListSoundness == Spec => []WaitListSound
<1>1. IInv /\ ScopeInv /\ [Next]_vars => ScopeInv'
  BY ScopeStep DEF IInv
<1>2. ScopeInv => WaitListSound
  BY DEF ScopeInv, WaitsOK, Once, InScope, WaitListSound
<1> QED BY <1>1, <1>2, ScopeInit, Invariance, PTL DEF Spec
=============================================================================
