--------------------------- MODULE MsgQueueProofs ---------------------------
(***************************************************************************)
(* Proofs about the request queue of a message terminal and its handlers:  *)
(* the shape of its state, no lost wakeup, every request once, and that    *)
(* OnClose leaves a token of the semaphore for every handler that waits or *)
(* is about to.  What the counter, the semaphore and the list of handlers  *)
(* have to do with where the threads are is the inductive invariant.       *)
(***************************************************************************)
EXTENDS MsgQueue, SequenceLemmas, FiniteSetTheorems

\* the handlers that m_nWaitingHandlers counts
Waiters == {h \in Handlers : at[h] \in {"blocked", "woken"}}

\* the handlers that still need a token of m_semRequest once the queue is empty
Sleepers == {h \in Handlers : at[h] \in {"enter", "blocked"}}

\* the threads that run
Alive == {h \in Handlers : at[h] \notin {"unborn", "exited"}}

\* m_nWaitingHandlers counts the handlers between the two locks of GetRequestFromQueue.
CountInv == waiting = Cardinality(Waiters)

\* SetNumberOfHandlers stops no more handlers than it has.
ShrinkInv == boss = "shrink" => excess <= Len(list)

\* A queued request is queued once and was neither handled nor dropped.
OnceInv ==
  /\ IsInjective(queue)
  /\ \A r \in Requests :
       /\ handled[r] <= 1
       /\ handled[r] = 1 => r \notin dropped
       /\ r \in ToSet(queue) => handled[r] = 0 /\ r \notin dropped

\* Every thread that runs is in the list or is the one that is being stopped.
ListInv ==
  /\ boss \in {"idle", "closing"} => Alive \subseteq ToSet(list)
  /\ boss = "shrink" => Alive \subseteq ToSet(list) \cup {victim}

\* When OnClose waits for the handlers there is a token for each of them that waits for
\* one or may still do so: the queue stays empty, and none of them enters it anew.
CloseTokens == boss \in {"close", "done"} => queue = <<>> /\ Cardinality(Sleepers) <= sem

ClosingInv == boss \in {"closing", "close", "done"} => closing

IInv == /\ TypeOK /\ CountInv /\ ShrinkInv /\ NoLostWakeup /\ OnceInv
        /\ ListInv /\ ClosingInv /\ CloseTokens

----------------------------------------------------------------------------
\* Sets of handlers are finite, and no larger than the set of all of them.
LEMMA HandlerSets ==
  ASSUME NEW X, X \subseteq Handlers
  PROVE  /\ IsFiniteSet(X) /\ Cardinality(X) \in 0..Cardinality(Handlers)
         /\ X # {} => Cardinality(X) > 0
         /\ Cardinality(Handlers) \in Nat
<1>1. IsFiniteSet(Handlers)
  BY SizesAssumption
<1>2. IsFiniteSet(X) /\ Cardinality(X) <= Cardinality(Handlers)
  BY <1>1, FS_Subset
<1> QED BY <1>1, <1>2, FS_CardinalityType, FS_EmptySet

\* A sequence lists no more handlers than it has places.
LEMMA ListedBound ==
  ASSUME NEW s \in Seq(Handlers), NEW X, X \subseteq ToSet(s)
  PROVE  Cardinality(X) <= Len(s)
<1>1. X \subseteq Handlers /\ ToSet(s) \subseteq Handlers
  BY ElementOfSeq DEF ToSet
<1>2. Len(s) \in Nat /\ s \in [1..Len(s) -> ToSet(s)]
  BY ElementOfSeq, LenProperties DEF ToSet
<1>3. s \in Surjection(1..Len(s), ToSet(s))
  BY <1>2 DEF Surjection, ToSet
<1>4. Cardinality(ToSet(s)) <= Len(s)
  BY <1>2, <1>3, FS_SurjCardinalityBound DEF ExistsSurjection
<1>5. Cardinality(X) <= Cardinality(ToSet(s))
  BY <1>1, HandlerSets, FS_Subset
<1> QED BY <1>1, <1>2, <1>4, <1>5, HandlerSets

\* Taking a handler out of a set of handlers, or putting one in.
LEMMA OneHandler ==
  ASSUME NEW X, X \subseteq Handlers, NEW h \in Handlers
  PROVE  /\ h \in X => Cardinality(X \ {h}) = Cardinality(X) - 1
         /\ h \notin X => Cardinality(X \cup {h}) = Cardinality(X) + 1
BY HandlerSets, FS_AddElement, FS_RemoveElement

\* The entries of a queue after one was appended or the first one was taken.
LEMMA AppendEntries ==
  ASSUME NEW S, NEW s \in Seq(S), NEW e \in S
  PROVE  /\ Append(s, e) \in Seq(S) /\ Len(Append(s, e)) = Len(s) + 1
         /\ ToSet(Append(s, e)) = ToSet(s) \cup {e}
         /\ IsInjective(s) /\ e \notin ToSet(s) => IsInjective(Append(s, e))
<1>1. /\ Append(s, e) \in Seq(S) /\ Len(Append(s, e)) = Len(s) + 1 /\ Len(s) \in Nat
      /\ \A i \in 1..Len(s) : Append(s, e)[i] = s[i]
      /\ Append(s, e)[Len(s) + 1] = e
      /\ DOMAIN s = 1..Len(s) /\ DOMAIN Append(s, e) = 1..(Len(s) + 1)
  BY AppendProperties, LenProperties
<1>2. ToSet(Append(s, e)) = ToSet(s) \cup {e}
  BY <1>1 DEF ToSet
<1>3. ASSUME IsInjective(s), e \notin ToSet(s) PROVE IsInjective(Append(s, e))
  BY <1>1, <1>3 DEF IsInjective, ToSet
<1> QED BY <1>1, <1>2, <1>3

LEMMA TailEntries ==
  ASSUME NEW S, NEW s \in Seq(S), s # <<>>
  PROVE  /\ Tail(s) \in Seq(S) /\ Len(Tail(s)) = Len(s) - 1 /\ Len(s) > 0
         /\ Head(s) \in S /\ ToSet(s) = ToSet(Tail(s)) \cup {Head(s)}
         /\ IsInjective(s) => IsInjective(Tail(s)) /\ Head(s) \notin ToSet(Tail(s))
<1>1. /\ Tail(s) \in Seq(S) /\ Len(Tail(s)) = Len(s) - 1 /\ Len(s) \in Nat /\ Len(s) > 0
      /\ \A i \in 1..(Len(s) - 1) : Tail(s)[i] = s[i + 1]
      /\ Head(s) \in S /\ Head(s) = s[1]
      /\ DOMAIN s = 1..Len(s) /\ DOMAIN Tail(s) = 1..(Len(s) - 1)
  BY HeadTailProperties, EmptySeq, LenProperties
<1>2. ToSet(s) = ToSet(Tail(s)) \cup {Head(s)}
  <2>1. ASSUME NEW x \in ToSet(s) PROVE x \in ToSet(Tail(s)) \cup {Head(s)}
    <3>1. PICK i \in 1..Len(s) : s[i] = x
      BY <1>1, <2>1 DEF ToSet
    <3>2. CASE i = 1
      BY <1>1, <3>1, <3>2
    <3>3. CASE i # 1
      <4>1. i - 1 \in 1..(Len(s) - 1) /\ (i - 1) + 1 = i
        BY <1>1, <3>1, <3>3
      <4> QED BY <1>1, <3>1, <4>1 DEF ToSet
    <3> QED BY <3>2, <3>3
  <2>2. ASSUME NEW x \in ToSet(Tail(s)) \cup {Head(s)} PROVE x \in ToSet(s)
    BY <1>1, <2>2 DEF ToSet
  <2> QED BY <2>1, <2>2
<1>3. ASSUME IsInjective(s) PROVE IsInjective(Tail(s)) /\ Head(s) \notin ToSet(Tail(s))
  BY <1>1, <1>3 DEF IsInjective, ToSet
<1> QED BY <1>1, <1>2, <1>3

LEMMA EmptyEntries ==
  /\ <<>> \in Seq(Requests) /\ Len(<<>>) = 0
  /\ ToSet(<<>>) = {} /\ IsInjective(<<>>)
BY DEF ToSet, IsInjective

\* Signals never take a token away.
LEMMA Signals ==
  ASSUME sem \in 0..SemMax, NEW n \in Nat
  PROVE  /\ SignalSem(sem) \in 0..SemMax /\ SignalSem(sem) >= sem
         /\ SignalAll(n) \in 0..SemMax /\ SignalAll(n) >= sem
         /\ SignalAll(n) >= n \/ SignalAll(n) = SemMax
         /\ SignalSem(sem) = sem + 1 \/ SignalSem(sem) = SemMax
BY SizesAssumption DEF SignalSem, SignalAll

----------------------------------------------------------------------------
(***************************************************************************)
(* The shape of the state.                                                 *)
(***************************************************************************)
LEMMA TypeInit == Init => TypeOK /\ ShrinkInv /\ CountInv
<1> SUFFICES ASSUME Init PROVE TypeOK /\ ShrinkInv /\ CountInv
  OBVIOUS
<1>1. Waiters = {} /\ waiting = 0
  BY DEF Init, Waiters
<1>2. CountInv /\ waiting \in 0..Cardinality(Handlers)
  BY <1>1, HandlerSets, FS_EmptySet DEF CountInv
<1>3. queue \in Seq(Requests)
  BY EmptyEntries DEF Init
<1>4. at \in [Handlers -> {"unborn", "loop", "enter", "blocked", "woken", "busy", "exited"}]
  BY DEF Init
<1>5. /\ sem \in 0..SemMax /\ list \in Seq(Handlers) /\ victim \in Handlers \cup {None}
      /\ handled \in [Requests -> Nat] /\ job \in [Handlers -> Requests \cup {None}]
      /\ excess \in Nat /\ ShrinkInv
  BY SizesAssumption DEF Init, ShrinkInv
<1>6. /\ flagged \subseteq Handlers /\ closing \in BOOLEAN /\ dropped \subseteq Requests
      /\ boss \in {"idle", "shrink", "closing", "close", "done"}
  BY DEF Init
<1> QED BY <1>2, <1>3, <1>4, <1>5, <1>6 DEF TypeOK

LEMMA ShapeTake ==
  ASSUME TypeOK, NEW h \in Handlers, TakeFront(h)
  PROVE  /\ queue' \in Seq(Requests) /\ handled' \in [Requests -> Nat]
         /\ job' \in [Handlers -> Requests \cup {None}]
         /\ at' \in [Handlers -> {"unborn", "loop", "enter", "blocked", "woken", "busy", "exited"}]
<1>1. CASE queue = <<>>
  BY <1>1 DEF TakeFront, TypeOK
<1>2. CASE queue # <<>>
  <2>1. Tail(queue) \in Seq(Requests) /\ Head(queue) \in Requests
    BY <1>2, TailEntries DEF TypeOK
  <2>2. PICK q \in Requests : q = Head(queue)
    BY <2>1
  <2>3. /\ queue' = Tail(queue) /\ job' = [job EXCEPT ![h] = q]
        /\ handled' = [handled EXCEPT ![q] = @ + 1] /\ at' = [at EXCEPT ![h] = "busy"]
    BY <1>2, <2>2 DEF TakeFront
  <2> QED BY <2>1, <2>3 DEF TypeOK
<1> QED BY <1>1, <1>2

LEMMA ShapeHandler ==
  ASSUME TypeOK, ShrinkInv, NEW h \in Handlers, HandlerStep(h),
         waiting' \in 0..Cardinality(Handlers)
  PROVE  TypeOK' /\ ShrinkInv'
<1>1. CASE Loop(h)
  BY <1>1 DEF Loop, TypeOK, ShrinkInv, queueVars, bossVars
<1>2. CASE GetOrBlock(h)
  <2>1. CASE queue = <<>>
    BY <1>2, <2>1 DEF GetOrBlock, TypeOK, ShrinkInv, bossVars
  <2>2. CASE queue # <<>>
    BY <1>2, <2>2, ShapeTake DEF GetOrBlock, TypeOK, ShrinkInv, bossVars
  <2> QED BY <2>1, <2>2
<1>3. CASE PassSem(h)
  BY <1>3, SizesAssumption DEF PassSem, TypeOK, ShrinkInv, bossVars
<1>4. CASE Resume(h)
  BY <1>4, ShapeTake DEF Resume, TypeOK, ShrinkInv, bossVars
<1>5. CASE Finish(h)
  BY <1>5 DEF Finish, TypeOK, ShrinkInv, queueVars, bossVars
<1> QED BY <1>1, <1>2, <1>3, <1>4, <1>5 DEF HandlerStep

LEMMA ShapePut ==
  ASSUME TypeOK, ShrinkInv, NEW r \in Requests, Put(r),
         waiting' \in 0..Cardinality(Handlers)
  PROVE  TypeOK' /\ ShrinkInv'
<1>1. Append(queue, r) \in Seq(Requests) /\ SignalSem(sem) \in 0..SemMax
  BY AppendEntries, Signals DEF TypeOK
<1> QED BY <1>1 DEF Put, TokenForPut, TypeOK, ShrinkInv, queueVars, bossVars

\* The front of m_listRequestHandlers is taken off.
LEMMA ListTail ==
  ASSUME TypeOK, list # <<>>
  PROVE  Tail(list) \in Seq(Handlers) /\ Len(Tail(list)) = Len(list) - 1 /\ Len(list) \in Nat
         /\ Head(list) \in Handlers
BY TailEntries, LenProperties DEF TypeOK

LEMMA ListLen ==
  ASSUME TypeOK, Len(list) > 0
  PROVE  list # <<>>
BY EmptySeq, LenProperties DEF TypeOK

\* What Grow adds to the list is a sequence of threads that did not run.
LEMMA GrowMore ==
  ASSUME TypeOK, NEW n \in Sizes, Grow(n)
  PROVE  \E more \in Seq(Handlers) :
           /\ list' = list \o more
           /\ at' = [h \in Handlers |-> IF h \in ToSet(more) THEN "loop" ELSE at[h]]
           /\ \A h \in ToSet(more) : at[h] = "unborn"
<1>1. PICK more \in [1..(n - Len(list)) -> {h \in Handlers : at[h] = "unborn"}] :
        /\ list' = list \o more
        /\ at' = [h \in Handlers |-> IF h \in ToSet(more) THEN "loop" ELSE at[h]]
  BY DEF Grow
<1>2. n > Len(list)
  BY Zenon DEF Grow
<1>3. n - Len(list) \in Nat
  BY <1>2, SizesAssumption, HandlerSets, LenProperties DEF TypeOK
<1>4. \A h \in ToSet(more) : at[h] = "unborn"
  BY DEF ToSet
<1> DEFINE m == n - Len(list)
<1>5. more \in [1..m -> {h \in Handlers : at[h] = "unborn"}] /\ m \in Nat
  BY <1>3
<1> HIDE DEF m
<1>6. more \in [1..m -> Handlers]
  BY <1>5
<1>7. m \in Nat
  BY <1>5
<1>8. more \in Seq(Handlers)
  <2>1. \E k \in Nat : more \in [1..k -> Handlers]
    BY <1>6, <1>7
  <2> QED BY <2>1, SeqDef
<1> QED BY <1>1, <1>4, <1>8, Zenon

LEMMA ShapeSizes ==
  ASSUME TypeOK, ShrinkInv, NEW n \in Sizes, Grow(n) \/ Shrink(n),
         waiting' \in 0..Cardinality(Handlers)
  PROVE  TypeOK' /\ ShrinkInv'
<1>0. n \in Nat /\ n > 0 /\ Len(list) \in Nat
  BY SizesAssumption, HandlerSets, LenProperties DEF TypeOK
<1>1. CASE Grow(n)
  <2>1. PICK more \in Seq(Handlers) :
          /\ list' = list \o more
          /\ at' = [h \in Handlers |-> IF h \in ToSet(more) THEN "loop" ELSE at[h]]
    BY <1>1, GrowMore
  <2>3. list' \in Seq(Handlers)
    BY <2>1, ConcatProperties DEF TypeOK
  <2> QED BY <1>1, <2>1, <2>3 DEF Grow, TypeOK, ShrinkInv, queueVars
<1>2. CASE Shrink(n)
  <2>1. list # <<>>
    BY <1>0, <1>2, ListLen DEF Shrink
  <2>2. SignalAll(Len(list)) \in 0..SemMax
    BY <1>0, Signals DEF TypeOK
  <2>3. Len(list) - n - 1 \in Nat /\ Len(list) - n - 1 <= Len(list) - 1
    BY <1>0, <1>2 DEF Shrink
  <2> QED BY <1>2, <2>1, <2>2, <2>3, ListTail DEF Shrink, TypeOK, ShrinkInv
<1> QED BY <1>1, <1>2

LEMMA ShapeBoss ==
  ASSUME TypeOK, ShrinkInv, BossStep \/ CloseBegin,
         waiting' \in 0..Cardinality(Handlers)
  PROVE  TypeOK' /\ ShrinkInv'
<1>1. CASE NextVictim
  <2>1. Len(list) \in Nat /\ excess > 0 /\ excess <= Len(list)
    BY <1>1, LenProperties DEF NextVictim, TypeOK, ShrinkInv
  <2>2. list # <<>>
    BY <2>1, ListLen DEF TypeOK
  <2> QED BY <1>1, <2>1, <2>2, ListTail DEF NextVictim, TypeOK, ShrinkInv, queueVars
<1>2. CASE ShrinkEnd
  BY <1>2 DEF ShrinkEnd, TypeOK, ShrinkInv, queueVars
<1>3. CASE CloseClear
  <2>1. Len(list) \in Nat /\ WakeAll \in 0..SemMax
    BY Signals, LenProperties DEF TypeOK, WakeAll
  <2>2. ToSet(queue) \subseteq Requests
    BY ElementOfSeq DEF ToSet, TypeOK
  <2>3. list' \in Seq(Handlers) /\ victim' \in Handlers \cup {None}
    BY <1>3, ListTail DEF CloseClear, TypeOK
  <2> QED BY <1>3, <2>1, <2>2, <2>3, EmptyEntries DEF CloseClear, TypeOK, ShrinkInv
<1>4. CASE CloseNext
  <2>1. list' \in Seq(Handlers) /\ victim' \in Handlers \cup {None}
    BY <1>4, ListTail DEF CloseNext, TypeOK
  <2> QED BY <1>4, <2>1 DEF CloseNext, TypeOK, ShrinkInv, queueVars
<1>5. CASE CloseBegin
  BY <1>5 DEF CloseBegin, TypeOK, ShrinkInv, queueVars
<1> QED BY <1>1, <1>2, <1>3, <1>4, <1>5 DEF BossStep

LEMMA ShapeStep ==
  ASSUME TypeOK, ShrinkInv, [Next]_vars,
         waiting' \in 0..Cardinality(Handlers)
  PROVE  TypeOK' /\ ShrinkInv'
<1>1. CASE UNCHANGED vars
  BY <1>1 DEF vars, queueVars, bossVars, TypeOK, ShrinkInv
<1> QED BY <1>1, ShapeHandler, ShapePut, ShapeSizes, ShapeBoss DEF Next

----------------------------------------------------------------------------
(***************************************************************************)
(* Who is where: how each step changes the sets of handlers.               *)
(***************************************************************************)
\* Apart from the handlers' own steps only Grow moves a thread, and it starts some.
LEMMA OthersKeepPlaces ==
  ASSUME TypeOK,
         \/ \E r \in Requests : Put(r)
         \/ \E n \in Sizes : Grow(n) \/ Shrink(n)
         \/ BossStep \/ CloseBegin
         \/ UNCHANGED vars
  PROVE  /\ Waiters' = Waiters /\ Sleepers' = Sleepers
         /\ Blocked' = Blocked /\ Woken' = Woken
         /\ waiting' = waiting
<1>1. CASE \E n \in Sizes : Grow(n)
  <2>1. PICK more : /\ at' = [h \in Handlers |-> IF h \in ToSet(more) THEN "loop" ELSE at[h]]
                    /\ \A h \in ToSet(more) : at[h] = "unborn"
    BY <1>1, GrowMore
  <2>2. waiting' = waiting
    BY <1>1 DEF Grow, queueVars
  <2> QED BY <2>1, <2>2 DEF Waiters, Sleepers, Blocked, Woken
<1>2. CASE UNCHANGED <<waiting, at>>
  BY <1>2 DEF Waiters, Sleepers, Blocked, Woken
<1>3. CASE \E r \in Requests : Put(r)
  BY <1>2, <1>3 DEF Put, queueVars
<1>4. CASE \E n \in Sizes : Shrink(n)
  BY <1>2, <1>4 DEF Shrink
<1>5. CASE BossStep \/ CloseBegin \/ UNCHANGED vars
  BY <1>2, <1>5 DEF BossStep, NextVictim, ShrinkEnd, CloseClear, CloseNext, CloseBegin,
                    vars, queueVars
<1> QED BY <1>1, <1>3, <1>4, <1>5

\* A handler that takes the front of the queue, or finds it empty, waits no longer.
LEMMA TakeMoves ==
  ASSUME TypeOK, NEW h \in Handlers, TakeFront(h)
  PROVE  \/ queue = <<>> /\ at' = [at EXCEPT ![h] = "loop"] /\ queue' = queue
         \/ queue # <<>> /\ at' = [at EXCEPT ![h] = "busy"] /\ queue' = Tail(queue)
BY DEF TakeFront

LEMMA CountStep ==
  ASSUME TypeOK, CountInv, [Next]_vars
  PROVE  CountInv' /\ waiting' \in 0..Cardinality(Handlers)
<1>1. SUFFICES CountInv'
  BY HandlerSets DEF CountInv, Waiters
<1>2. ASSUME NEW h \in Handlers, Loop(h) \/ PassSem(h) \/ Finish(h)
      PROVE  CountInv'
  <2>1. Waiters' = Waiters /\ waiting' = waiting
    BY <1>2 DEF Loop, PassSem, Finish, Waiters, TypeOK, queueVars
  <2> QED BY <2>1 DEF CountInv
<1>3. ASSUME NEW h \in Handlers, GetOrBlock(h)
      PROVE  CountInv'
  <2>1. CASE queue = <<>>
    <3>1. Waiters' = Waiters \cup {h} /\ h \notin Waiters /\ waiting' = waiting + 1
      BY <1>3, <2>1 DEF GetOrBlock, Counted, Waiters, TypeOK
    <3> QED BY <3>1, OneHandler DEF CountInv, Waiters
  <2>2. CASE queue # <<>>
    <3>1. Waiters' = Waiters /\ waiting' = waiting
      BY <1>3, <2>2, TakeMoves DEF GetOrBlock, Waiters, TypeOK
    <3> QED BY <3>1 DEF CountInv
  <2> QED BY <2>1, <2>2
<1>4. ASSUME NEW h \in Handlers, Resume(h)
      PROVE  CountInv'
  <2>1. Waiters' = Waiters \ {h} /\ h \in Waiters /\ waiting' = waiting - 1
    BY <1>4, TakeMoves DEF Resume, Waiters, TypeOK
  <2> QED BY <2>1, OneHandler DEF CountInv, Waiters
<1>5. ASSUME \/ \E r \in Requests : Put(r)
             \/ \E n \in Sizes : Grow(n) \/ Shrink(n)
             \/ BossStep \/ CloseBegin
             \/ UNCHANGED vars
      PROVE  CountInv'
  BY <1>5, OthersKeepPlaces DEF CountInv
<1> QED BY <1>2, <1>3, <1>4, <1>5 DEF Next, HandlerStep

----------------------------------------------------------------------------
(***************************************************************************)
(* No lost wakeup.  A handler that sleeps is counted, so that every        *)
(* request that is queued then gives a token; a handler goes to sleep only *)
(* when the queue is empty; whoever takes a token becomes one of Woken and *)
(* leaves it with a look at the queue.  A signal is lost only when the     *)
(* semaphore is full, which is then enough for all handlers, and who takes *)
(* a token of it no longer sleeps.                                         *)
(***************************************************************************)
Enough == Len(queue) <= sem + Cardinality(Woken) \/ Cardinality(Blocked) <= sem

LEMMA TokensStep ==
  ASSUME TypeOK, CountInv, NoLostWakeup, [Next]_vars
  PROVE  NoLostWakeup'
<1>1. SUFFICES ASSUME Blocked' # {}
               PROVE  Enough'
  BY DEF NoLostWakeup, Enough
<1>2. /\ Len(queue) \in Nat /\ sem \in Nat /\ SemMax \in Nat /\ QueueMax \in Nat
      /\ Cardinality(Woken) \in Nat /\ Cardinality(Woken') \in Nat
      /\ Cardinality(Blocked) \in Nat /\ Cardinality(Blocked') \in Nat
      /\ Cardinality(Blocked') <= SemMax
  BY HandlerSets, LenProperties, SizesAssumption DEF TypeOK, Woken, Blocked
<1>3. CASE Blocked' = Blocked /\ Cardinality(Woken') = Cardinality(Woken)
           /\ queue' = queue /\ sem' >= sem /\ sem' \in Nat
  BY <1>1, <1>2, <1>3 DEF NoLostWakeup, Enough
<1>4. CASE queue' = <<>> /\ sem' \in Nat
  BY <1>2, <1>4, EmptyEntries DEF Enough
<1>5. ASSUME NEW h \in Handlers, HandlerStep(h)
      PROVE  Enough'
  <2>1. CASE Loop(h) \/ Finish(h)
    <3>1. Blocked' = Blocked /\ Woken' = Woken
      BY <2>1 DEF Loop, Finish, Blocked, Woken, TypeOK
    <3> QED BY <1>2, <1>3, <2>1, <3>1 DEF Loop, Finish, queueVars
  <2>2. CASE GetOrBlock(h) /\ queue = <<>>
    BY <1>2, <1>4, <2>2 DEF GetOrBlock
  <2>3. CASE GetOrBlock(h) /\ queue # <<>>
    <3>1. queue' = Tail(queue) /\ sem' = sem /\ Blocked' = Blocked /\ Woken' = Woken
      BY <2>3, TakeMoves DEF GetOrBlock, Blocked, Woken, TypeOK
    <3>2. Len(queue') = Len(queue) - 1
      BY <2>3, <3>1, TailEntries DEF TypeOK
    <3> QED BY <1>1, <1>2, <3>1, <3>2 DEF NoLostWakeup, Enough
  <2>4. CASE PassSem(h)
    <3>1. /\ queue' = queue /\ sem' = sem - 1 /\ sem > 0
          /\ Blocked' = Blocked \ {h} /\ h \in Blocked
          /\ Woken' = Woken \cup {h} /\ h \notin Woken
      BY <2>4 DEF PassSem, Blocked, Woken, TypeOK
    <3>2. /\ Cardinality(Woken') = Cardinality(Woken) + 1
          /\ Cardinality(Blocked') = Cardinality(Blocked) - 1
      BY <3>1, OneHandler DEF Woken, Blocked
    <3> QED BY <1>1, <1>2, <3>1, <3>2 DEF NoLostWakeup, Enough
  <2>5. CASE Resume(h)
    <3>1. /\ sem' = sem /\ Blocked' = Blocked
          /\ Woken' = Woken \ {h} /\ h \in Woken
      BY <2>5, TakeMoves DEF Resume, Blocked, Woken, TypeOK
    <3>2. Cardinality(Woken') = Cardinality(Woken) - 1
      BY <3>1, OneHandler DEF Woken
    <3>3. CASE queue = <<>>
      BY <1>2, <1>4, <2>5, <3>1, <3>3, TakeMoves DEF Resume
    <3>4. CASE queue # <<>>
      <4>1. Len(queue') = Len(queue) - 1
        BY <2>5, <3>4, TakeMoves, TailEntries DEF Resume, TypeOK
      <4> QED BY <1>1, <1>2, <3>1, <3>2, <4>1 DEF NoLostWakeup, Enough
    <3> QED BY <3>3, <3>4
  <2> QED BY <1>5, <2>1, <2>2, <2>3, <2>4, <2>5 DEF HandlerStep
<1>6. ASSUME NEW r \in Requests, Put(r)
      PROVE  Enough'
  <2>1. Blocked' = Blocked /\ Woken' = Woken
    BY <1>6, OthersKeepPlaces
  <2>2. CASE Len(queue) >= QueueMax
    BY <1>2, <1>3, <1>6, <2>1, <2>2 DEF Put, queueVars
  <2>3. CASE ~ (Len(queue) >= QueueMax)
    <3>1. Waiters # {}
      BY <1>1, <2>1 DEF Blocked, Waiters
    <3>2. waiting > 0
      BY <3>1, HandlerSets DEF CountInv, Waiters
    <3>3. sem' = SignalSem(sem) /\ queue' = Append(queue, r)
      BY <1>6, <2>3, <3>2 DEF Put, TokenForPut
    <3>4. Len(queue') = Len(queue) + 1
      BY <3>3, AppendEntries DEF TypeOK
    <3>5. sem' = sem + 1 \/ sem' = SemMax
      BY <3>3, Signals DEF TypeOK
    <3>6. CASE sem' = SemMax
      BY <1>2, <3>6 DEF Enough
    <3>7. CASE sem' = sem + 1
      BY <1>1, <1>2, <2>1, <3>4, <3>7 DEF NoLostWakeup, Enough
    <3> QED BY <3>5, <3>6, <3>7
  <2> QED BY <2>2, <2>3
<1>7. ASSUME \/ \E n \in Sizes : Grow(n) \/ Shrink(n)
             \/ BossStep \/ CloseBegin
             \/ UNCHANGED vars
      PROVE  Enough'
  <2>1. Blocked' = Blocked /\ Woken' = Woken
    BY <1>7, OthersKeepPlaces
  <2>2. \/ queue' = queue /\ sem' = sem
        \/ queue' = queue /\ sem' = SignalAll(Len(list))
        \/ queue' = <<>> /\ sem' = SignalAll(Len(list))
    BY <1>7 DEF Grow, Shrink, BossStep, NextVictim, ShrinkEnd, CloseClear, WakeAll,
                CloseNext, CloseBegin, vars, queueVars
  <2>3. SignalAll(Len(list)) \in Nat /\ SignalAll(Len(list)) >= sem
    BY Signals, LenProperties, SizesAssumption DEF TypeOK
  <2> QED BY <1>2, <1>3, <1>4, <2>1, <2>2, <2>3
<1> QED BY <1>5, <1>6, <1>7 DEF Next

----------------------------------------------------------------------------
(***************************************************************************)
(* A request goes to one handler, once.                                    *)
(***************************************************************************)
LEMMA OnceTake ==
  ASSUME TypeOK, OnceInv, NEW h \in Handlers, TakeFront(h), dropped' = dropped
  PROVE  OnceInv'
<1>1. CASE queue = <<>>
  BY <1>1 DEF TakeFront, OnceInv
<1>2. CASE queue # <<>>
  <2> DEFINE q == Head(queue)
  <2>1. /\ q \in Requests /\ ToSet(queue) = ToSet(Tail(queue)) \cup {q}
        /\ IsInjective(Tail(queue)) /\ q \notin ToSet(Tail(queue))
    BY <1>2, TailEntries DEF TypeOK, OnceInv
  <2>2. queue' = Tail(queue) /\ handled' = [handled EXCEPT ![q] = @ + 1]
    BY <1>2 DEF TakeFront
  <2> HIDE DEF q
  <2>3. handled[q] = 0 /\ q \notin dropped
    BY <2>1 DEF OnceInv
  <2>4. /\ handled'[q] = 1
        /\ \A r \in Requests : r # q => handled'[r] = handled[r]
    BY <2>1, <2>2, <2>3 DEF TypeOK
  <2>5. IsInjective(queue')
    BY <2>1, <2>2
  <2>6. ToSet(queue') = ToSet(queue) \ {q}
    BY <2>1, <2>2
  <2> QED BY <2>3, <2>4, <2>5, <2>6 DEF OnceInv
<1> QED BY <1>1, <1>2

LEMMA OnceStep ==
  ASSUME TypeOK, OnceInv, [Next]_vars
  PROVE  OnceInv'
<1>1. ASSUME NEW r \in Requests, Put(r)
      PROVE  OnceInv'
  <2>1. handled[r] = 0 /\ r \notin dropped /\ r \notin ToSet(queue) /\ handled' = handled
    BY <1>1 DEF Put
  <2>2. CASE Len(queue) >= QueueMax
    BY <1>1, <2>1, <2>2 DEF Put, OnceInv, queueVars
  <2>3. CASE ~ (Len(queue) >= QueueMax)
    <3>0. queue' = Append(queue, r) /\ dropped' = dropped /\ queue \in Seq(Requests)
      BY <1>1, <2>3 DEF Put, TypeOK
    <3>1. IsInjective(queue') /\ ToSet(queue') = ToSet(queue) \cup {r} /\ dropped' = dropped
      BY <2>1, <3>0, AppendEntries DEF OnceInv
    <3>2. ASSUME NEW x \in Requests
          PROVE  /\ handled'[x] <= 1
                 /\ handled'[x] = 1 => x \notin dropped'
                 /\ x \in ToSet(queue') => handled'[x] = 0 /\ x \notin dropped'
      <4>1. CASE x = r
        BY <2>1, <3>1, <4>1
      <4>2. CASE x # r
        BY <2>1, <3>1, <4>2 DEF OnceInv
      <4> QED BY <4>1, <4>2
    <3> QED BY <3>1, <3>2 DEF OnceInv
  <2> QED BY <2>2, <2>3
<1>2. ASSUME NEW h \in Handlers, HandlerStep(h)
      PROVE  OnceInv'
  <2>1. CASE Loop(h) \/ PassSem(h) \/ Finish(h) \/ (GetOrBlock(h) /\ queue = <<>>)
    <3>1. UNCHANGED <<queue, handled, dropped>>
      BY <2>1 DEF Loop, PassSem, Finish, GetOrBlock, queueVars
    <3> QED BY <3>1 DEF OnceInv
  <2>2. CASE (GetOrBlock(h) /\ queue # <<>>) \/ Resume(h)
    BY <2>2, OnceTake DEF GetOrBlock, Resume
  <2> QED BY <1>2, <2>1, <2>2 DEF HandlerStep
<1>3. CASE CloseClear
  <2>1. queue' = <<>> /\ handled' = handled /\ dropped' = dropped \cup ToSet(queue)
    BY <1>3 DEF CloseClear
  <2>2. IsInjective(queue') /\ ToSet(queue') = {}
    BY <2>1, EmptyEntries
  <2> QED BY <2>1, <2>2 DEF OnceInv
<1>4. CASE \/ \E n \in Sizes : Grow(n) \/ Shrink(n)
           \/ NextVictim \/ ShrinkEnd \/ CloseNext \/ CloseBegin
           \/ UNCHANGED vars
  <2>1. UNCHANGED <<queue, handled, dropped>>
    BY <1>4 DEF Grow, Shrink, NextVictim, ShrinkEnd, CloseNext, CloseBegin, vars, queueVars
  <2> QED BY <2>1 DEF OnceInv
<1> QED BY <1>1, <1>2, <1>3, <1>4 DEF Next, BossStep

----------------------------------------------------------------------------
(***************************************************************************)
(* The signals of OnClose.  A thread that runs is in the list when OnClose *)
(* counts it, so that there are as many tokens as handlers that may wait;  *)
(* none enters the queue once m_bClosing is set, and each that goes to     *)
(* sleep or takes a token was counted.                                     *)
(***************************************************************************)
\* The threads that Grow starts are put in the list.
LEMMA GrowList ==
  ASSUME TypeOK, NEW n \in Sizes, Grow(n), Alive \subseteq ToSet(list)
  PROVE  Alive' \subseteq ToSet(list')
<1>1. PICK more \in Seq(Handlers) :
        /\ list' = list \o more
        /\ at' = [h \in Handlers |-> IF h \in ToSet(more) THEN "loop" ELSE at[h]]
  BY GrowMore
<1>2. Len(list) \in Nat /\ Len(more) \in Nat
  BY LenProperties DEF TypeOK
<1>3. /\ Len(list') = Len(list) + Len(more) /\ DOMAIN list' = 1..(Len(list) + Len(more))
      /\ DOMAIN list = 1..Len(list) /\ DOMAIN more = 1..Len(more)
      /\ \A i \in 1..(Len(list) + Len(more)) :
           list'[i] = IF i <= Len(list) THEN list[i] ELSE more[i - Len(list)]
  BY <1>1, ConcatProperties, LenProperties DEF TypeOK
<1>4. ASSUME NEW h \in Alive' PROVE h \in ToSet(list')
  <2>1. CASE h \in ToSet(more)
    <3>1. PICK i \in 1..Len(more) : more[i] = h
      BY <1>3, <2>1 DEF ToSet
    <3>2. i + Len(list) \in 1..(Len(list) + Len(more)) /\ ~ (i + Len(list) <= Len(list))
          /\ (i + Len(list)) - Len(list) = i
      BY <1>2
    <3> QED BY <1>3, <3>1, <3>2 DEF ToSet
  <2>2. CASE h \notin ToSet(more)
    <3>1. h \in Alive
      BY <1>1, <2>2 DEF Alive
    <3>2. PICK i \in 1..Len(list) : list[i] = h
      BY <1>3, <3>1 DEF ToSet
    <3>3. i \in 1..(Len(list) + Len(more)) /\ i <= Len(list)
      BY <1>2
    <3> QED BY <1>3, <3>2, <3>3 DEF ToSet
  <2> QED BY <2>1, <2>2
<1> QED BY <1>4

LEMMA ListStep ==
  ASSUME TypeOK, ShrinkInv, ListInv, [Next]_vars
  PROVE  ListInv'
<1>1. ASSUME NEW h \in Handlers, HandlerStep(h)
      PROVE  ListInv'
  <2>1. UNCHANGED bossVars
    BY <1>1 DEF HandlerStep, Loop, GetOrBlock, PassSem, Resume, Finish
  <2>2. Alive' \subseteq Alive
    BY <1>1, TakeMoves
    DEF HandlerStep, Loop, GetOrBlock, PassSem, Resume, Finish, Alive, TypeOK
  <2> QED BY <2>1, <2>2 DEF ListInv, bossVars
<1>2. ASSUME NEW n \in Sizes, Grow(n)
      PROVE  ListInv'
  <2>1. boss = "idle" /\ boss' = boss /\ victim' = victim
    BY <1>2 DEF Grow
  <2>2. Alive' \subseteq ToSet(list')
    BY <1>2, <2>1, GrowList DEF ListInv
  <2> QED BY <2>1, <2>2 DEF ListInv
<1>3. ASSUME NEW n \in Sizes, Shrink(n)
      PROVE  ListInv'
  <2>1. list # <<>>
    BY <1>3, SizesAssumption, HandlerSets, LenProperties, ListLen DEF Shrink, TypeOK
  <2>2. ToSet(list) = ToSet(Tail(list)) \cup {Head(list)}
    BY <2>1, TailEntries DEF TypeOK
  <2>3. Alive' = Alive /\ boss' = "shrink" /\ victim' = Head(list) /\ list' = Tail(list)
    BY <1>3 DEF Shrink, Alive
  <2> QED BY <1>3, <2>2, <2>3 DEF Shrink, ListInv
<1>4. CASE NextVictim
  <2>1. list # <<>>
    BY <1>4, ListLen, LenProperties DEF NextVictim, TypeOK, ShrinkInv
  <2>2. ToSet(list) = ToSet(Tail(list)) \cup {Head(list)}
    BY <2>1, TailEntries DEF TypeOK
  <2>3. Alive' = Alive /\ boss' = "shrink" /\ victim' = Head(list) /\ list' = Tail(list)
    BY <1>4 DEF NextVictim, Alive
  <2>4. victim \notin Alive
    BY <1>4 DEF NextVictim, Alive
  <2> QED BY <1>4, <2>2, <2>3, <2>4 DEF NextVictim, ListInv
<1>5. CASE ShrinkEnd
  <2>1. victim \notin Alive /\ Alive' = Alive
    BY <1>5 DEF ShrinkEnd, Alive
  <2> QED BY <1>5, <2>1 DEF ShrinkEnd, ListInv
<1>6. CASE CloseClear \/ CloseNext
  BY <1>6 DEF CloseClear, CloseNext, ListInv
<1>7. CASE (\E r \in Requests : Put(r)) \/ CloseBegin \/ UNCHANGED vars
  <2>1. Alive' = Alive /\ list' = list /\ victim' = victim
    BY <1>7 DEF Put, CloseBegin, vars, bossVars, Alive
  <2>2. boss' = boss \/ (boss = "idle" /\ boss' = "closing")
    BY <1>7 DEF Put, CloseBegin, vars, bossVars
  <2> QED BY <2>1, <2>2 DEF ListInv
<1> QED BY <1>1, <1>2, <1>3, <1>4, <1>5, <1>6, <1>7 DEF Next, BossStep

LEMMA ClosingStep ==
  ASSUME ClosingInv, [Next]_vars
  PROVE  ClosingInv'
BY DEF Next, HandlerStep, BossStep, Put, Loop, GetOrBlock, PassSem, Resume, Finish, Grow, Shrink,
       NextVictim, ShrinkEnd, CloseBegin, CloseClear, CloseNext, vars, bossVars, ClosingInv

LEMMA CloseTokensStep ==
  ASSUME TypeOK, ListInv, ClosingInv, CloseTokens, [Next]_vars
  PROVE  CloseTokens'
<1>1. SUFFICES ASSUME boss' \in {"close", "done"}
               PROVE  queue' = <<>> /\ Cardinality(Sleepers') <= sem'
  BY DEF CloseTokens
<1>2. sem \in Nat /\ SemMax \in Nat /\ Cardinality(Handlers) \in Nat
      /\ Cardinality(Sleepers) \in Nat
  BY HandlerSets, SizesAssumption DEF TypeOK, Sleepers
<1>3. ASSUME NEW h \in Handlers, HandlerStep(h)
      PROVE  queue' = <<>> /\ Cardinality(Sleepers') <= sem'
  <2>1. boss' = boss /\ closing
    BY <1>1, <1>3 DEF HandlerStep, Loop, GetOrBlock, PassSem, Resume, Finish, bossVars, ClosingInv
  <2>2. queue = <<>> /\ Cardinality(Sleepers) <= sem
    BY <1>1, <2>1 DEF CloseTokens
  <2>3. CASE PassSem(h)
    <3>1. Sleepers' = Sleepers \ {h} /\ h \in Sleepers /\ sem' = sem - 1 /\ queue' = queue
      BY <2>3 DEF PassSem, Sleepers, TypeOK
    <3> QED BY <1>2, <2>2, <3>1, OneHandler DEF Sleepers
  <2>4. CASE Loop(h) \/ GetOrBlock(h) \/ Resume(h) \/ Finish(h)
    <3>1. Sleepers' = Sleepers
      BY <2>1, <2>2, <2>4, TakeMoves
      DEF Loop, GetOrBlock, Resume, Finish, Sleepers, TypeOK
    <3>2. sem' = sem /\ queue' = queue
      BY <2>2, <2>4, TakeMoves DEF Loop, GetOrBlock, Resume, Finish, queueVars
    <3> QED BY <2>2, <3>1, <3>2
  <2> QED BY <1>3, <2>3, <2>4 DEF HandlerStep
<1>4. CASE CloseClear
  <2>1. Sleepers \subseteq Alive /\ Alive \subseteq ToSet(list)
    BY <1>4 DEF CloseClear, ListInv, Sleepers, Alive
  <2>2. Cardinality(Sleepers) <= Len(list) /\ Len(list) \in Nat
    BY <2>1, ListedBound, LenProperties DEF TypeOK
  <2>3. Cardinality(Sleepers) <= SemMax
    BY <1>2, HandlerSets, SizesAssumption DEF Sleepers
  <2>4. sem' = SignalAll(Len(list)) /\ queue' = <<>> /\ Sleepers' = Sleepers
    BY <1>4, OthersKeepPlaces DEF CloseClear, WakeAll, BossStep
  <2>5. SignalAll(Len(list)) \in Nat
        /\ (SignalAll(Len(list)) >= Len(list) \/ SignalAll(Len(list)) = SemMax)
    BY <2>2, Signals, SizesAssumption DEF TypeOK
  <2> QED BY <1>2, <2>2, <2>3, <2>4, <2>5
<1>5. CASE \/ \E r \in Requests : Put(r)
           \/ \E n \in Sizes : Grow(n) \/ Shrink(n)
           \/ NextVictim \/ ShrinkEnd \/ CloseNext \/ CloseBegin
           \/ UNCHANGED vars
  <2>1. boss \in {"close", "done"} /\ queue' = queue /\ sem' = sem
    BY <1>1, <1>5 DEF Put, Grow, Shrink, NextVictim, ShrinkEnd, CloseNext, CloseBegin,
                      vars, queueVars, bossVars
  <2>2. Sleepers' = Sleepers
    BY <1>5, OthersKeepPlaces DEF BossStep
  <2> QED BY <2>1, <2>2 DEF CloseTokens
<1> QED BY <1>3, <1>4, <1>5 DEF Next, BossStep

----------------------------------------------------------------------------
LEMMA IInvInit == Init => IInv
<1> SUFFICES ASSUME Init PROVE IInv
  OBVIOUS
<1>1. TypeOK /\ CountInv /\ ShrinkInv
  BY TypeInit
<1>2. NoLostWakeup /\ ClosingInv /\ CloseTokens
  BY DEF Init, NoLostWakeup, Blocked, ClosingInv, CloseTokens
<1>3. OnceInv
  BY EmptyEntries DEF Init, OnceInv
<1>4. ListInv
  BY DEF Init, ListInv, Alive
<1> QED BY <1>1, <1>2, <1>3, <1>4 DEF IInv

LEMMA IInvStep == IInv /\ [Next]_vars => IInv'
<1> SUFFICES ASSUME IInv, [Next]_vars PROVE IInv'
  OBVIOUS
<1>1. CountInv' /\ waiting' \in 0..Cardinality(Handlers)
  BY CountStep DEF IInv
<1>2. TypeOK' /\ ShrinkInv'
  BY <1>1, ShapeStep DEF IInv
<1> QED BY <1>1, <1>2, TokensStep, OnceStep, ListStep, ClosingStep, CloseTokensStep DEF IInv

\* The inductive invariant holds in every state.
THEOREM QueueInvariance == Spec => []IInv
BY IInvInit, IInvStep, PTL DEF Spec

\* The state of the queue and of its handlers keeps its shape: m_nWaitingHandlers is never
\* negative nor larger than the number of handlers, and SetNumberOfHandlers and OnClose
\* take only handlers from the list that are there.
THEOREM QueueTypes == Spec => []TypeOK
BY QueueInvariance, PTL DEF IInv

\* No wakeup is lost: while a handler sleeps every request that CopyRequestToQueue queued has
\* a token of m_semRequest or a handler on its way to the queue, or, when the semaphore was
\* full and lost signals, every handler that sleeps has a token.
THEOREM NoWakeupLost == Spec => []NoLostWakeup
BY QueueInvariance, PTL DEF IInv

\* GetRequestFromQueue gives a request to one handler, once, and never one that was
\* refused or cleared.
THEOREM OneHandlerEach == Spec => []HandledOnce
<1>1. IInv => HandledOnce
  BY DEF IInv, OnceInv, HandledOnce
<1> QED BY <1>1, QueueInvariance, PTL

\* OnClose gives enough signals: while it waits for the handlers, those that sleep have a
\* token each, so that none of them waits for ever (msgterminal.cxx:1020).
THEOREM CloseWakes == Spec => [](boss \in {"close", "done"} => Cardinality(Blocked) <= sem)
<1>1. IInv => (boss \in {"close", "done"} => Cardinality(Blocked) <= sem)
  <2> SUFFICES ASSUME IInv, boss \in {"close", "done"} PROVE Cardinality(Blocked) <= sem
    OBVIOUS
  <2>1. Blocked \subseteq Sleepers /\ Sleepers \subseteq Handlers
    BY DEF Sleepers, Blocked
  <2>2. IsFiniteSet(Sleepers) /\ Cardinality(Sleepers) \in Nat /\ Cardinality(Blocked) \in Nat
    BY <2>1, HandlerSets
  <2>3. Cardinality(Blocked) <= Cardinality(Sleepers)
    BY <2>1, <2>2, FS_Subset
  <2> QED BY <2>2, <2>3 DEF IInv, CloseTokens, TypeOK
<1> QED BY <1>1, QueueInvariance, PTL
=============================================================================
