---------------------------- MODULE MsgTerminal ----------------------------
(***************************************************************************)
(* BBQMsgTerminal (msgterminal.cxx) over UDP: the one layer by which the   *)
(* servers, proxies and clients exchange messages.  A terminal             *)
(*   - posts a message and retransmits it from its tick thread until an    *)
(*     ACK comes or the retries are used up (PostMessage, OnTick);         *)
(*   - sends a message and blocks for its ACK (SendMessage), or sends a    *)
(*     request and blocks for the answer (RequestMessage), with MsgWait    *)
(*     objects that the receiving thread signals;                          *)
(*   - acknowledges what it receives, offers it to the waiters and else    *)
(*     copies it to a bounded queue for its handler threads.               *)
(* The network loses, duplicates and reorders datagrams: net keeps what    *)
(* was ever sent, any of it may arrive at any time, again, or never.       *)
(*                                                                         *)
(* m_mutexNet guards the posts and all sending; the tick thread and the    *)
(* receiving thread keep it for a whole loop (netLock).  m_mutexMsgWait    *)
(* and m_mutexRequest are held within one step.                            *)
(***************************************************************************)
EXTENDS Integers, SequencesExt

CONSTANTS
  Terminals,  \* BBQMsgTerminal objects
  Calls,      \* the messages the program sends: one API call each, a record
              \*   [id, op, from, to, kind, preset, interval, tries]
  AckKinds,   \* the message ids for which NeedAck() is true
  Answers,    \* [request id -> answer id]: what the handlers answer
  SyncMax,    \* greatest sync, 65535 in the code
  QueueMax,   \* m_nRequestQueueMax
  PostMax,    \* m_nMsgPostMax
  MaxLate,    \* bound: how late (in time units) the tick thread may be
  None        \* a NULL pointer

ACK == "ACK"                     \* SIM_ACK
NoKind == "-"                    \* the ackid of a packet that is no ACK

Ops == {"post", "send", "request"}
Kinds == {c.kind : c \in Calls} \cup {Answers[k] : k \in DOMAIN Answers}
Fresh(t) == {c \in Calls : c.from = t /\ c.preset = 0}

(***************************************************************************)
(* Two calls of one terminal with one message id and one peer never share  *)
(* a sync that the caller has set (a reply carries the sync of its         *)
(* request), and ids sent with a caller's sync are not sent with a sync of *)
(* the terminal's own counter.  The ids of answers that handlers give are  *)
(* no ids of calls or requests, and each answers one request id.           *)
(***************************************************************************)
ASSUME CallsAssumption ==
  /\ \A c \in Calls :
       /\ c.op \in Ops /\ c.from \in Terminals /\ c.to \in Terminals
       /\ c.preset \in 0..SyncMax /\ c.interval \in Nat /\ c.tries \in Nat
       /\ c.kind # ACK /\ (c.op # "post" => c.tries > 0)
  /\ \A c, d \in Calls :
       (c # d /\ c.from = d.from /\ c.to = d.to /\ c.kind = d.kind /\ c.preset # 0)
         => d.preset \notin {0, c.preset}
  /\ \A k \in DOMAIN Answers :
       Answers[k] \notin DOMAIN Answers /\ \A c \in Calls : Answers[k] # c.kind
  /\ IsInjective(Answers)

ASSUME BoundsAssumption ==
  /\ SyncMax \in Nat \ {0} /\ QueueMax \in Nat /\ PostMax \in Nat /\ MaxLate \in Nat
  /\ ACK \notin Kinds \cup AckKinds \cup DOMAIN Answers /\ NoKind \notin Kinds

(***************************************************************************)
(* The counter of a terminal does not wrap around within one behaviour.    *)
(***************************************************************************)
ASSUME NoWrapAssumption ==
  \A t \in Terminals : IsFiniteSet(Fresh(t)) /\ Cardinality(Fresh(t)) <= SyncMax

VARIABLES
  counter,    \* [Terminals -> 0..SyncMax]: m_nSyncCounter
  sync,       \* [Calls -> 0..SyncMax]: simHeader.sync of the call's message, 0 before
  pc,         \* [Calls -> where the calling thread is]; "failed": SendMessage returned FALSE
  posts,      \* [Terminals -> Seq(post)]: m_listMsgPosts
  netLock,    \* [Terminals -> {"free", "tick", "read"}]: who keeps m_mutexNet: the tick
              \*   thread in OnTick, the net thread in its ReadFrom loop
  waits,      \* [Terminals -> Seq(Calls)]: m_listMsgWaits
  signalled,  \* [Calls -> BOOLEAN]: the semaphore of the call's MsgWait
  got,        \* [Calls -> packet or None]: its m_pReq
  left,      \* [Calls -> Nat]: nTry / nRetry still left
  outcome,    \* [Calls -> packet or None]: the answer that RequestMessage returned
  queue,      \* [Terminals -> Seq(packet)]: m_listRequests
  busy,       \* [Terminals -> packet or None]: the request a handler thread is at
  net,        \* the datagrams ever sent
  sends,      \* history: [Calls -> Nat] transmissions of the call's message, counted up to
              \*   tries + 2
  arrived,    \* history: calls whose message reached OnMessageArriveInternal
  kept,       \* history: calls whose message was queued or given to a waiter
  confirmed,  \* history: posts that an ACK removed
  answered,   \* history: requests for which an answer was taken from the net
  broken      \* history: calls released by BreakMessageWaiting

callVars == <<pc, left, outcome>>
waitVars == <<waits, signalled, got>>
recvVars == <<queue, busy>>
history  == <<arrived, kept, confirmed, answered, broken>>
vars == <<counter, sync, callVars, posts, netLock, waitVars, recvVars, net, sends, history>>

----------------------------------------------------------------------------
(* Messages. *)

\* the datagram of a call's message with sync n
Message(c, n) == [from |-> c.from, to |-> c.to, kind |-> c.kind, sync |-> n,
                  ackid |-> NoKind, call |-> c]

\* SIM_REPLY_REQUEST: back to where p came from, with p's sync
Reply(p, kind, ackid) == [from |-> p.to, to |-> p.from, kind |-> kind, sync |-> p.sync,
                          ackid |-> ackid, call |-> p.call]

Packets == [from : Terminals, to : Terminals, kind : Kinds \cup {ACK}, sync : 0..SyncMax,
            ackid : Kinds \cup {NoKind}, call : Calls]

\* p is the message of a call, not an ACK or an answer
IsMessage(p) == p.kind = p.call.kind /\ p.from = p.call.from

\* GetNextSync: the counter skips 0
NextSync(n) == IF n = SyncMax THEN 1 ELSE n + 1

\* SIM_NEXTSYNC: a sync that the caller has set stays
SyncOf(c) == IF c.preset # 0 THEN c.preset ELSE NextSync(counter[c.from])

TakeSync(c) ==
  /\ sync' = [sync EXCEPT ![c] = SyncOf(c)]
  /\ counter' = IF c.preset # 0 THEN counter
                ELSE [counter EXCEPT ![c.from] = NextSync(@)]

\* faulty variant: the older filter without the acknowledged id (SIM_ACKFILTER_MATCH)
AckMatchAnyId(c, n, p) == p.kind = ACK /\ p.from = c.to /\ p.sync = n

\* SIM_ACKFILTER_MATCH_2 for a UDP channel
AckMatch(c, n, p) == p.kind = ACK /\ p.from = c.to /\ p.sync = n /\ p.ackid = c.kind

\* faulty variant: the sync is not compared
AnswerMatchAnySync(c, n, p) ==
  c.kind \in DOMAIN Answers /\ p.kind = Answers[c.kind] /\ p.from = c.to

\* SIM_REQFILTER_MATCH for the filter that RequestMessage builds
AnswerMatch(c, n, p) ==
  /\ c.kind \in DOMAIN Answers
  /\ p.kind = Answers[c.kind] /\ p.from = c.to /\ p.sync \in {0, n}

\* one more transmission of the message of c
Count(c) == sends' = [sends EXCEPT ![c] = IF @ > c.tries + 1 THEN @ ELSE @ + 1]

----------------------------------------------------------------------------
(* Posted messages. *)

\* faulty variant: always at the end
InsertPostLast(s, e) == Append(s, e)

\* ordered insertion by next_try, after the posts with the same next_try
InsertPost(s, e) ==
  LET i == SelectInSeq(s, LAMBDA p : p.due > e.due)
  IN  IF i = 0 THEN Append(s, e) ELSE InsertAt(s, i, e)

\* the first post that the ACK p of terminal t matches, 0 if none
AckedPost(t, p) ==
  SelectInSeq(posts[t], LAMBDA e : AckMatch(e.call, sync[e.call], p))

\* PostMessage, first part: number the message and send it at once
Post(c) ==
  /\ c.op = "post" /\ pc[c] = "idle" /\ netLock[c.from] = "free"
  /\ TakeSync(c)
  /\ net' = net \cup {Message(c, SyncOf(c))}
  /\ Count(c)
  /\ pc' = [pc EXCEPT ![c] = "sent"]
  /\ UNCHANGED <<left, outcome, posts, netLock, waitVars, recvVars, history>>

\* PostMessage, second part, with m_mutexNet: put the post in the queue
Enqueue(c) ==
  /\ pc[c] = "sent" /\ netLock[c.from] = "free"
  /\ pc' = [pc EXCEPT ![c] = "done"]
  /\ posts' = IF c.tries > 1 /\ Len(posts[c.from]) < PostMax
              THEN [posts EXCEPT ![c.from] =
                      InsertPost(@, [call |-> c, due |-> c.interval, counter |-> 1])]
              ELSE posts
  /\ UNCHANGED <<counter, sync, left, outcome, netLock, waitVars, recvVars, net, sends, history>>

\* the posts s a unit of time later
Later(s) == [i \in DOMAIN s |->
               [call |-> s[i].call, due |-> s[i].due - 1, counter |-> s[i].counter]]

\* the host's clock: a unit of time passes for the posts of t
TimePasses(t) ==
  /\ netLock[t] # "tick" /\ posts[t] # <<>>
  /\ \A i \in DOMAIN posts[t] : posts[t][i].due > -MaxLate
  /\ posts' = [posts EXCEPT ![t] = Later(@)]
  /\ UNCHANGED <<counter, sync, callVars, netLock, waitVars, recvVars, net, sends, history>>

\* OnTick, called by the tick thread: it holds m_mutexNet throughout the loop
TickBegin(t) ==
  /\ netLock[t] = "free" /\ posts[t] # <<>>
  /\ netLock' = [netLock EXCEPT ![t] = "tick"]
  /\ UNCHANGED <<counter, sync, callVars, posts, waitVars, recvVars, net, sends, history>>

\* the post e after its nth transmission
Retry(e, n) == [call |-> e.call, due |-> e.due + e.call.interval, counter |-> n]

\* faulty variants: one retry too many, and retries for ever
RequeueOnceMore(s, e, n) ==
  IF n > e.call.tries THEN Tail(s)
  ELSE InsertPost(Tail(s), Retry(e, n))

RequeueForever(s, e, n) == InsertPost(Tail(s), Retry(e, e.counter))

\* what becomes of the front post e of the list s once it was sent for the nth time
Requeue(s, e, n) ==
  IF n >= e.call.tries THEN Tail(s)
  ELSE InsertPost(Tail(s), Retry(e, n))

\* one round of the loop: the front post is due
Retransmit(t) ==
  /\ netLock[t] = "tick" /\ posts[t] # <<>> /\ Head(posts[t]).due < 0
  /\ LET e == Head(posts[t])
     IN  /\ net' = net \cup {Message(e.call, sync[e.call])}
         /\ Count(e.call)
         /\ posts' = [posts EXCEPT ![t] = Requeue(@, e, e.counter + 1)]
  /\ UNCHANGED <<counter, sync, callVars, netLock, waitVars, recvVars, history>>

TickEnd(t) ==
  /\ netLock[t] = "tick" /\ (posts[t] # <<>> => Head(posts[t]).due >= 0)
  /\ netLock' = [netLock EXCEPT ![t] = "free"]
  /\ UNCHANGED <<counter, sync, callVars, posts, waitVars, recvVars, net, sends, history>>

----------------------------------------------------------------------------
(* Calls that wait. *)

\* what SendMessage and RequestMessage send on every try (three, two copies: the set
\* of datagrams under way keeps a datagram that the network duplicates anyway)
SendTry(c, n) ==
  /\ net' = net \cup {Message(c, n)}
  /\ Count(c)

\* SendMessage with bWaitACK, RequestMessage: enter the wait list, then send
StartWait(c) ==
  /\ c.op \in {"send", "request"} /\ pc[c] = "idle"
  /\ TakeSync(c)
  /\ waits' = [waits EXCEPT ![c.from] = Append(@, c)]
  /\ left' = [left EXCEPT ![c] = c.tries]
  /\ pc' = [pc EXCEPT ![c] = "entered"]
  /\ UNCHANGED <<outcome, posts, netLock, signalled, got, recvVars, net, sends, history>>

SendInWait(c) ==
  /\ pc[c] = "entered" /\ netLock[c.from] = "free"
  /\ SendTry(c, sync[c])
  /\ pc' = [pc EXCEPT ![c] = "waiting"]
  /\ UNCHANGED <<counter, sync, left, outcome, posts, netLock, waitVars, recvVars, history>>

\* faulty variant: the object stays in the list
KeepWait(c) ==
  /\ signalled' = [signalled EXCEPT ![c] = FALSE]
  /\ got' = [got EXCEPT ![c] = None]
  /\ UNCHANGED waits

\* ~MsgWait
DropWait(c) ==
  /\ waits' = [waits EXCEPT ![c.from] = RemoveFirst(@, c)]
  /\ signalled' = [signalled EXCEPT ![c] = FALSE]
  /\ got' = [got EXCEPT ![c] = None]

\* the semaphore was signalled: WaitRequest returns TRUE with m_pReq, ~MsgWait follows
WakeUp(c) ==
  /\ pc[c] = "waiting" /\ signalled[c]
  /\ outcome' = [outcome EXCEPT ![c] = got[c]]
  /\ DropWait(c)
  /\ pc' = [pc EXCEPT ![c] = "done"]
  /\ UNCHANGED <<counter, sync, left, posts, netLock, recvVars, net, sends, history>>

\* faulty variant: it waits without a time-out
WaitForEver(c) == FALSE

\* the semaphore's Wait times out ...
TimeOut(c) ==
  /\ pc[c] = "waiting" /\ ~ signalled[c]
  /\ pc' = [pc EXCEPT ![c] = "timedout"]
  /\ UNCHANGED <<counter, sync, left, outcome, posts, netLock, waitVars, recvVars, net, sends,
                 history>>

\* faulty variant: the test comes before the decrement
GoOnBeforeDecrement(n) == n > 0

\* the conditions of the two loops: with n tries left, one of which is over
GoOn(n) == n > 1

TriesAfter(n) == n - 1

\* ... and only then, without a lock, m_pReq is read.  RequestMessage keeps its MsgWait
\* for the next try; on the last one ~MsgWait runs and what was read is returned
RequestRetry(c) ==
  /\ c.op = "request" /\ pc[c] = "timedout"
  /\ left' = [left EXCEPT ![c] = TriesAfter(@)]
  /\ IF GoOn(left[c])
     THEN /\ pc' = [pc EXCEPT ![c] = "entered"]
          /\ got' = [got EXCEPT ![c] = None]
          /\ UNCHANGED <<outcome, waits, signalled>>
     ELSE /\ pc' = [pc EXCEPT ![c] = "done"]
          /\ outcome' = [outcome EXCEPT ![c] = got[c]]
          /\ DropWait(c)
  /\ UNCHANGED <<counter, sync, posts, netLock, recvVars, net, sends, history>>

\* SendMessage leaves the scope of its MsgWait at the end of each try ...
LeaveTry(c) ==
  /\ c.op = "send" /\ pc[c] = "timedout"
  /\ DropWait(c)
  /\ left' = [left EXCEPT ![c] = TriesAfter(@)]
  /\ pc' = [pc EXCEPT ![c] = IF GoOn(left[c]) THEN "between" ELSE "failed"]
  /\ UNCHANGED <<counter, sync, outcome, posts, netLock, recvVars, net, sends, history>>

\* ... and makes a new one for the next
NewTry(c) ==
  /\ pc[c] = "between"
  /\ waits' = [waits EXCEPT ![c.from] = Append(@, c)]
  /\ pc' = [pc EXCEPT ![c] = "entered"]
  /\ UNCHANGED <<counter, sync, left, outcome, posts, netLock, signalled, got, recvVars, net,
                 sends, history>>

\* BreakMessageWaiting (BBQClient::Logout): release every waiter
BreakMessageWaiting(t) ==
  /\ waits[t] # <<>>
  /\ waits' = [waits EXCEPT ![t] = <<>>]
  /\ signalled' = [c \in Calls |-> signalled[c] \/ c \in ToSet(waits[t])]
  /\ broken' = broken \cup ToSet(waits[t])
  /\ UNCHANGED <<counter, sync, callVars, posts, netLock, got, recvVars, net, sends, arrived,
                 kept, confirmed, answered>>

----------------------------------------------------------------------------
(* Receiving. *)

\* the first waiter that p satisfies, 0 if none
WaiterFor(t, p) ==
  SelectInSeq(waits[t], LAMBDA c : IF c.op = "send" THEN AckMatch(c, sync[c], p)
                                   ELSE AnswerMatch(c, sync[c], p))

\* HandleUdpListenersEvent: an event is skipped while the request queue is full
ReadBegin(t) ==
  /\ netLock[t] = "free" /\ Len(queue[t]) < QueueMax
  /\ \E p \in net : p.to = t
  /\ netLock' = [netLock EXCEPT ![t] = "read"]
  /\ UNCHANGED <<counter, sync, callVars, posts, waitVars, recvVars, net, sends, history>>

ReadEnd(t) ==
  /\ netLock[t] = "read"
  /\ netLock' = [netLock EXCEPT ![t] = "free"]
  /\ UNCHANGED <<counter, sync, callVars, posts, waitVars, recvVars, net, sends, history>>

\* faulty variant: the front post goes, whichever matched
RemoveFront(t, p) ==
  LET i == IF p.sync # 0 /\ p.kind = ACK THEN AckedPost(t, p) ELSE 0
  IN  /\ posts' = IF i = 0 THEN posts ELSE [posts EXCEPT ![t] = Tail(@)]
      /\ confirmed' = IF i = 0 THEN confirmed ELSE confirmed \cup {posts[t][i].call}

\* an ACK takes the first post that it matches out of the queue
RemoveAcked(t, p) ==
  LET i == IF p.sync # 0 /\ p.kind = ACK THEN AckedPost(t, p) ELSE 0
  IN  /\ posts' = IF i = 0 THEN posts ELSE [posts EXCEPT ![t] = RemoveAt(@, i)]
      /\ confirmed' = IF i = 0 THEN confirmed ELSE confirmed \cup {posts[t][i].call}

\* what needs an ACK gets one, however often it comes
Acknowledge(p) ==
  net' = net \cup (IF p.sync # 0 /\ p.kind \in AckKinds THEN {Reply(p, ACK, p.kind)} ELSE {})

\* HandleMessageWait, and CopyRequestToQueue for what no waiter takes: it drops p when
\* the queue is full
Dispatch(t, p) ==
  LET w == WaiterFor(t, p)
      c == waits[t][w]
      fits == Len(queue[t]) < QueueMax
  IN  IF w # 0
      THEN /\ waits' = [waits EXCEPT ![t] = RemoveAt(@, w)]
           /\ signalled' = [signalled EXCEPT ![c] = TRUE]
           /\ got' = IF c.op = "send" THEN got ELSE [got EXCEPT ![c] = p]
           /\ answered' = IF c.op = "send" THEN answered ELSE answered \cup {c}
           /\ kept' = IF IsMessage(p) THEN kept \cup {p.call} ELSE kept
           /\ UNCHANGED queue
      ELSE /\ queue' = IF fits THEN [queue EXCEPT ![t] = Append(@, p)] ELSE queue
           /\ kept' = IF fits /\ IsMessage(p) THEN kept \cup {p.call} ELSE kept
           /\ UNCHANGED <<waitVars, answered>>

\* OnMessageArriveInternal for a datagram
Arrive(t, p) ==
  /\ netLock[t] = "read"
  /\ p \in net /\ p.to = t
  /\ RemoveAcked(t, p)
  /\ Acknowledge(p)
  /\ Dispatch(t, p)
  /\ arrived' = IF IsMessage(p) THEN arrived \cup {p.call} ELSE arrived
  /\ UNCHANGED <<counter, sync, callVars, netLock, busy, sends, broken>>

\* HandlerThread::Main: take a message from the queue; what is no request is handled at
\* once, as far as the terminal is concerned ...
Take(t) ==
  /\ busy[t] = None /\ queue[t] # <<>>
  /\ busy' = [busy EXCEPT ![t] = IF Head(queue[t]).kind \in DOMAIN Answers
                                 THEN Head(queue[t]) ELSE None]
  /\ queue' = [queue EXCEPT ![t] = Tail(@)]
  /\ UNCHANGED <<counter, sync, callVars, posts, netLock, waitVars, net, sends, history>>

\* ... and a request is answered by the handler of OnMessageArrive
Answer(t) ==
  /\ busy[t] # None /\ netLock[t] = "free"
  /\ net' = net \cup {Reply(busy[t], Answers[busy[t].kind], NoKind)}
  /\ busy' = [busy EXCEPT ![t] = None]
  /\ UNCHANGED <<counter, sync, callVars, posts, netLock, waitVars, queue, sends, history>>

----------------------------------------------------------------------------
Init ==
  /\ counter = [t \in Terminals |-> 0]
  /\ sync = [c \in Calls |-> 0]
  /\ pc = [c \in Calls |-> "idle"]
  /\ posts = [t \in Terminals |-> <<>>]
  /\ netLock = [t \in Terminals |-> "free"]
  /\ waits = [t \in Terminals |-> <<>>]
  /\ signalled = [c \in Calls |-> FALSE]
  /\ got = [c \in Calls |-> None]
  /\ left = [c \in Calls |-> 0]
  /\ outcome = [c \in Calls |-> None]
  /\ queue = [t \in Terminals |-> <<>>]
  /\ busy = [t \in Terminals |-> None]
  /\ net = {}
  /\ sends = [c \in Calls |-> 0]
  /\ arrived = {} /\ kept = {} /\ confirmed = {} /\ answered = {} /\ broken = {}

PostStep(c) == Post(c) \/ Enqueue(c)
WaitStep(c) == \/ StartWait(c) \/ SendInWait(c) \/ WakeUp(c) \/ TimeOut(c)
               \/ RequestRetry(c) \/ LeaveTry(c) \/ NewTry(c)
TickStep(t) == TimePasses(t) \/ TickBegin(t) \/ Retransmit(t) \/ TickEnd(t)
NetStep(t) == \/ ReadBegin(t) \/ ReadEnd(t) \/ Take(t) \/ Answer(t) \/ BreakMessageWaiting(t)
              \/ \E p \in net : Arrive(t, p)

Next == \/ \E c \in Calls : PostStep(c) \/ WaitStep(c)
        \/ \E t \in Terminals : TickStep(t) \/ NetStep(t)

\* the steps of a calling thread that need m_mutexNet, and those that do not
CallerLocks(c) == Enqueue(c) \/ SendInWait(c)
CallerGoesOn(c) == WakeUp(c) \/ TimeOut(c) \/ RequestRetry(c) \/ LeaveTry(c) \/ NewTry(c)

\* the steps by which the threads of t come to release m_mutexNet
LoopGoesOn(t) == Retransmit(t) \/ TickEnd(t) \/ ReadEnd(t)

(***************************************************************************)
(* A caller goes on once it has begun, the tick thread and the net thread  *)
(* finish their loops, and time passes between two ticks.  Strong fairness *)
(* where m_mutexNet must be free: the net thread sleeps in select and the  *)
(* tick thread in sleep_ms between two loops, so that nobody waits for the *)
(* mutex for ever.  Nothing is assumed of the network.                     *)
(***************************************************************************)
FairTo(calls) ==
  /\ \A c \in calls : SF_vars(CallerLocks(c)) /\ WF_vars(CallerGoesOn(c))
  /\ \A t \in Terminals : SF_vars(TimePasses(t)) /\ SF_vars(TickBegin(t)) /\ WF_vars(LoopGoesOn(t))

Spec == Init /\ [][Next]_vars /\ FairTo(Calls)

----------------------------------------------------------------------------
PostEntries == [call : Calls, due : Int, counter : Nat]

\* The shape of the state.
TypeOK ==
  /\ counter \in [Terminals -> 0..SyncMax]
  /\ sync \in [Calls -> 0..SyncMax]
  /\ pc \in [Calls -> {"idle", "sent", "entered", "waiting", "timedout", "between", "done",
                       "failed"}]
  /\ posts \in [Terminals -> Seq(PostEntries)]
  /\ netLock \in [Terminals -> {"free", "tick", "read"}]
  /\ waits \in [Terminals -> Seq(Calls)]
  /\ signalled \in [Calls -> BOOLEAN]
  /\ got \in [Calls -> Packets \cup {None}]
  /\ left \in [Calls -> Nat]
  /\ outcome \in [Calls -> Packets \cup {None}]
  /\ queue \in [Terminals -> Seq(Packets)]
  /\ busy \in [Terminals -> Packets \cup {None}]
  /\ net \subseteq Packets
  /\ sends \in [Calls -> Nat]
  /\ arrived \subseteq Calls /\ kept \subseteq Calls /\ confirmed \subseteq Calls
  /\ answered \subseteq Calls /\ broken \subseteq Calls

\* OnTick stops at the first post that is not due (msgterminal.cxx:2833): no due post is
\* overlooked only if every insertion keeps the list in the order of next_try.
PostsOrdered ==
  \A t \in Terminals : \A i, j \in 1..Len(posts[t]) :
    i < j => posts[t][i].due <= posts[t][j].due

\* PostMessage(nRetry) transmits a message at most nRetry times, however late the tick
\* thread is and however the retries of several posts interleave.
RetransmissionBound ==
  \A c \in Calls : c.op = "post" => sends[c] <= (IF c.tries > 1 THEN c.tries ELSE 1)

\* An ACK takes a post out of the queue only if that very message has reached its peer:
\* ACKs of other messages, of other peers or of an answer with the same sync, late and
\* duplicated ones included, never confirm it.
ConfirmedArrived == confirmed \subseteq arrived

\* SendMessage with bWaitACK returns TRUE only if its message has reached the peer
\* (or Logout broke the wait).
SendTrueArrived ==
  \A c \in Calls : (c.op = "send" /\ pc[c] = "done") => c \in arrived \cup broken

\* RequestMessage returns the answer to its own request, whatever other requests with
\* the same ids are under way to the same peer and however late their answers come.
OwnAnswer ==
  \A c \in Calls : (c.op = "request" /\ outcome[c] # None) => outcome[c].call = c

\* The wait list holds pointers to objects on the callers' stacks: each is in the list
\* at most once, only while its call is in the scope of the object, and not after it
\* was signalled.
WaitListSound ==
  \A t \in Terminals : \A i \in 1..Len(waits[t]) :
    LET c == waits[t][i]
    IN  /\ c.from = t /\ ~ signalled[c]
        /\ pc[c] \in {"entered", "waiting", "timedout"}
        /\ \A j \in 1..Len(waits[t]) : waits[t][j] = c => j = i

\* Once an ACK has taken a post out of the queue the message is never transmitted again.
ConfirmedIsFinal == [][\A c \in confirmed : sends'[c] = sends[c]]_vars

\* What the sender takes for delivered was queued for a handler (or taken by a waiter):
\* "if queue full, skip read, block it in socket" (msgterminal.h:59).
ConfirmedKept == confirmed \subseteq kept

\* An answer that was taken from the network for a request is what the request returns
\* (unless Logout broke the wait): "put into wait list before send, cause sometimes the
\* response is very fast" (msgterminal.cxx:2455).
AnswerReturned ==
  \A c \in answered \ broken : pc[c] = "done" => outcome[c] # None
=============================================================================
