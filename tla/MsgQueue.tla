------------------------------ MODULE MsgQueue ------------------------------
(***************************************************************************)
(* The request queue of a BBQMsgTerminal and its handler threads           *)
(* (msgterminal.cxx): CopyRequestToQueue, GetRequestFromQueue,             *)
(* HandlerThread::Main, SetNumberOfHandlers and OnClose.                   *)
(*                                                                         *)
(* m_mutexRequest guards the queue and m_nWaitingHandlers.  A handler that *)
(* finds the queue empty counts itself as waiting, releases the mutex and  *)
(* only then waits for m_semRequest, so that what is a condition variable  *)
(* elsewhere is spread over a counter and a semaphore here.  Whoever stops *)
(* a handler sets its flag, releases the mutex and waits for its end       *)
(* (delete th).                                                            *)
(***************************************************************************)
EXTENDS Integers, SequencesExt

CONSTANTS
  Handlers,   \* HandlerThread objects, those made later included
  Requests,   \* the messages that arrive, each once
  QueueMax,   \* m_nRequestQueueMax
  SemMax,     \* maximum of m_semRequest, 256 in the code
  Sizes,      \* arguments of the calls of SetNumberOfHandlers
  First,      \* the handlers that the constructor makes, in order
  None

ASSUME SizesAssumption ==
  /\ IsFiniteSet(Handlers) /\ Cardinality(Handlers) <= SemMax
  /\ SemMax \in Nat /\ QueueMax \in Nat
  /\ Sizes \subseteq 1..Cardinality(Handlers)
  /\ First \in Seq(Handlers) /\ IsInjective(First)
  /\ None \notin Handlers /\ None \notin Requests

VARIABLES
  queue,      \* m_listRequests
  waiting,    \* m_nWaitingHandlers
  sem,        \* the count of m_semRequest
  at,         \* [Handlers -> where the thread is]
  job,        \* [Handlers -> the request it handles or None]
  list,       \* m_listRequestHandlers
  flagged,    \* the handlers with m_bClose
  closing,    \* m_bClosing
  boss,       \* the thread in SetNumberOfHandlers or OnClose: "idle", "shrink", "closing",
              \*   "close", "done"
  victim,     \* the handler whose end it waits for, or None
  excess,     \* handlers that SetNumberOfHandlers has still to stop
  handled,    \* history: [Requests -> how often the request was given to a handler]
  dropped     \* history: the requests that were refused or cleared

queueVars == <<queue, waiting, sem>>
bossVars == <<list, flagged, closing, boss, victim, excess>>
vars == <<queueVars, at, job, bossVars, handled, dropped>>

\* threads that wait for the semaphore or, woken, for the mutex
Blocked == {h \in Handlers : at[h] = "blocked"}
Woken == {h \in Handlers : at[h] = "woken"}

\* faulty variant: no maximum
SignalUnbounded(n) == n + 1

\* m_semRequest.Signal(): a signal beyond the maximum has no effect
SignalSem(n) == IF n < SemMax THEN n + 1 ELSE n

\* n signals in a row
SignalAll(n) == IF sem + n <= SemMax THEN sem + n ELSE SemMax

----------------------------------------------------------------------------
\* faulty variant: one handler that waits is not signalled
TokenOffByOne == IF waiting > 1 THEN SignalSem(sem) ELSE sem

\* the semaphore after a request was queued
TokenForPut == IF waiting > 0 THEN SignalSem(sem) ELSE sem

\* CopyRequestToQueue, by the net thread, which ends before OnClose clears the queue
Put(r) ==
  /\ handled[r] = 0 /\ r \notin dropped /\ r \notin ToSet(queue)
  /\ boss # "close" /\ boss # "done"
  /\ \A h \in Handlers : job[h] # r
  /\ IF Len(queue) >= QueueMax
     THEN /\ dropped' = dropped \cup {r}
          /\ UNCHANGED queueVars
     ELSE /\ queue' = Append(queue, r)
          /\ sem' = TokenForPut
          /\ UNCHANGED <<waiting, dropped>>
  /\ UNCHANGED <<at, job, bossVars, handled>>

\* the test at the top of the loop of HandlerThread::Main
Loop(h) ==
  /\ at[h] = "loop"
  /\ at' = [at EXCEPT ![h] = IF closing \/ h \in flagged THEN "exited" ELSE "enter"]
  /\ UNCHANGED <<queueVars, job, bossVars, handled, dropped>>

\* faulty variant: the request stays in the queue
PeekFront(h) ==
  IF queue = <<>>
  THEN /\ at' = [at EXCEPT ![h] = "loop"]
       /\ UNCHANGED <<queue, job, handled>>
  ELSE /\ job' = [job EXCEPT ![h] = Head(queue)]
       /\ handled' = [handled EXCEPT ![Head(queue)] = @ + 1]
       /\ at' = [at EXCEPT ![h] = "busy"]
       /\ UNCHANGED queue

\* take the front request, if there is one, with the mutex held
TakeFront(h) ==
  IF queue = <<>>
  THEN /\ at' = [at EXCEPT ![h] = "loop"]
       /\ UNCHANGED <<queue, job, handled>>
  ELSE /\ queue' = Tail(queue)
       /\ job' = [job EXCEPT ![h] = Head(queue)]
       /\ handled' = [handled EXCEPT ![Head(queue)] = @ + 1]
       /\ at' = [at EXCEPT ![h] = "busy"]

\* faulty variant: the handler is not counted before it unlocks
NotCounted == waiting

\* m_nWaitingHandlers, once one more handler is about to wait
Counted == waiting + 1

\* GetRequestFromQueue up to the unlock before the wait
GetOrBlock(h) ==
  /\ at[h] = "enter"
  /\ IF queue = <<>>
     THEN /\ waiting' = Counted
          /\ at' = [at EXCEPT ![h] = "blocked"]
          /\ UNCHANGED <<queue, job, handled>>
     ELSE TakeFront(h) /\ UNCHANGED waiting
  /\ UNCHANGED <<sem, bossVars, dropped>>

\* m_semRequest.Wait() returns
PassSem(h) ==
  /\ at[h] = "blocked" /\ sem > 0
  /\ sem' = sem - 1
  /\ at' = [at EXCEPT ![h] = "woken"]
  /\ UNCHANGED <<queue, waiting, job, bossVars, handled, dropped>>

\* GetRequestFromQueue from the second lock on: the queue may be empty again
Resume(h) ==
  /\ at[h] = "woken"
  /\ waiting' = waiting - 1
  /\ TakeFront(h)
  /\ UNCHANGED <<sem, bossVars, dropped>>

\* OnMessageArrive returns
Finish(h) ==
  /\ at[h] = "busy"
  /\ job' = [job EXCEPT ![h] = None]
  /\ at' = [at EXCEPT ![h] = "loop"]
  /\ UNCHANGED <<queueVars, bossVars, handled, dropped>>

----------------------------------------------------------------------------
\* SetNumberOfHandlers(n) with more handlers than before: new threads start
Grow(n) ==
  /\ boss = "idle" /\ n > Len(list)
  /\ \E more \in [1..(n - Len(list)) -> {h \in Handlers : at[h] = "unborn"}] :
       /\ IsInjective(more)
       /\ list' = list \o more
       /\ at' = [h \in Handlers |-> IF h \in ToSet(more) THEN "loop" ELSE at[h]]
  /\ UNCHANGED <<queueVars, job, flagged, closing, boss, victim, excess, handled, dropped>>

\* SetNumberOfHandlers(n) with fewer: one signal for every handler, the mutex is kept
\* until the first one is flagged
Shrink(n) ==
  /\ boss = "idle" /\ n < Len(list)
  /\ sem' = SignalAll(Len(list))
  /\ boss' = "shrink"
  /\ excess' = Len(list) - n - 1
  /\ victim' = Head(list) /\ list' = Tail(list)
  /\ flagged' = flagged \cup {Head(list)}
  /\ UNCHANGED <<queue, waiting, at, job, closing, handled, dropped>>

\* delete th returns; the next handler is flagged
NextVictim ==
  /\ boss = "shrink" /\ at[victim] = "exited" /\ excess > 0
  /\ excess' = excess - 1
  /\ victim' = Head(list) /\ list' = Tail(list)
  /\ flagged' = flagged \cup {Head(list)}
  /\ UNCHANGED <<queueVars, at, job, closing, boss, handled, dropped>>

ShrinkEnd ==
  /\ boss = "shrink" /\ at[victim] = "exited" /\ excess = 0
  /\ boss' = "idle" /\ victim' = None
  /\ UNCHANGED <<queueVars, at, job, list, flagged, closing, excess, handled, dropped>>

----------------------------------------------------------------------------
\* OnClose: the flag first, then the net thread and the tick thread end
CloseBegin ==
  /\ boss = "idle" /\ ~ closing
  /\ closing' = TRUE /\ boss' = "closing"
  /\ UNCHANGED <<queueVars, at, job, list, flagged, victim, excess, handled, dropped>>

\* faulty variant: one signal
WakeOne == SignalSem(sem)

\* the semaphore after OnClose has signalled every handler
WakeAll == SignalAll(Len(list))

\* ... clear the queue, signal once for every handler
CloseClear ==
  /\ boss = "closing"
  /\ dropped' = dropped \cup ToSet(queue)
  /\ queue' = <<>>
  /\ sem' = WakeAll
  /\ boss' = "close"
  /\ victim' = IF list = <<>> THEN None ELSE Head(list)
  /\ list' = IF list = <<>> THEN list ELSE Tail(list)
  /\ UNCHANGED <<waiting, at, job, flagged, closing, excess, handled>>

\* ... and wait for one handler after the other
CloseNext ==
  /\ boss = "close" /\ (victim # None => at[victim] = "exited")
  /\ IF list = <<>>
     THEN /\ boss' = "done" /\ victim' = None
          /\ UNCHANGED list
     ELSE /\ victim' = Head(list) /\ list' = Tail(list)
          /\ UNCHANGED boss
  /\ UNCHANGED <<queueVars, at, job, flagged, closing, excess, handled, dropped>>

----------------------------------------------------------------------------
Init ==
  /\ queue = <<>> /\ waiting = 0 /\ sem = 0
  /\ at = [h \in Handlers |-> IF h \in ToSet(First) THEN "loop" ELSE "unborn"]
  /\ job = [h \in Handlers |-> None]
  /\ list = First /\ flagged = {} /\ closing = FALSE
  /\ boss = "idle" /\ victim = None /\ excess = 0
  /\ handled = [r \in Requests |-> 0] /\ dropped = {}

HandlerStep(h) == Loop(h) \/ GetOrBlock(h) \/ PassSem(h) \/ Resume(h) \/ Finish(h)
BossStep == NextVictim \/ ShrinkEnd \/ CloseClear \/ CloseNext

Next == \/ \E r \in Requests : Put(r)
        \/ \E h \in Handlers : HandlerStep(h)
        \/ \E n \in Sizes : Grow(n) \/ Shrink(n)
        \/ BossStep \/ CloseBegin

(***************************************************************************)
(* Threads run, and a handler returns from OnMessageArrive; a thread that  *)
(* the semaphore lets through again and again goes through (the scheduler  *)
(* starves nobody).                                                        *)
(***************************************************************************)
Fairness ==
  /\ \A h \in Handlers : WF_vars(HandlerStep(h)) /\ SF_vars(PassSem(h))
  /\ WF_vars(BossStep)

Spec == Init /\ [][Next]_vars /\ Fairness

----------------------------------------------------------------------------
\* The shape of the state.
TypeOK ==
  /\ queue \in Seq(Requests) /\ waiting \in 0..Cardinality(Handlers) /\ sem \in 0..SemMax
  /\ at \in [Handlers -> {"unborn", "loop", "enter", "blocked", "woken", "busy", "exited"}]
  /\ job \in [Handlers -> Requests \cup {None}]
  /\ list \in Seq(Handlers) /\ flagged \subseteq Handlers /\ closing \in BOOLEAN
  /\ boss \in {"idle", "shrink", "closing", "close", "done"}
  /\ victim \in Handlers \cup {None} /\ excess \in Nat
  /\ handled \in [Requests -> Nat] /\ dropped \subseteq Requests

\* No wakeup is lost: while a handler sleeps there is, for every queued request, a token
\* of the semaphore or a handler that has passed it and not yet looked at the queue,
\* although a woken handler may find its request taken by another one.  Signals that
\* exceed the maximum of the semaphore are lost (the queue of the server takes 8192
\* requests, the semaphore 256): then a token is there for every handler that sleeps.
NoLostWakeup == Blocked # {} =>
  Len(queue) <= sem + Cardinality(Woken) \/ Cardinality(Blocked) <= sem

\* A request goes to one handler, once, or is dropped, never both.
HandledOnce ==
  \A r \in Requests : handled[r] <= 1 /\ (handled[r] = 1 => r \notin dropped \cup ToSet(queue))

\* Every queued request gets a handler, unless the terminal is closed.
RequestsServed == \A r \in Requests :
  r \in ToSet(queue) ~> (handled[r] = 1 \/ closing)

\* OnClose comes to an end: the signals it gives reach every handler, also the one that
\* was about to wait when m_bClosing was set (msgterminal.cxx:1020).
CloseEnds == closing ~> boss = "done"

\* SetNumberOfHandlers comes to an end: "give signal to the waiting thread to go on and
\* abort" (msgterminal.cxx:896).
ShrinkEnds == boss = "shrink" ~> boss # "shrink"
=============================================================================
