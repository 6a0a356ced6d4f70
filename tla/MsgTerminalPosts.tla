-------------------------- MODULE MsgTerminalPosts --------------------------
(***************************************************************************)
(* Proofs about the list of posts of a message terminal: it stays in the   *)
(* order of next_try, no message is transmitted more often than its caller *)
(* said nor once it is confirmed, and the terminal keeps the promise of    *)
(* AtLeastOnce (its safety part).                                          *)
(***************************************************************************)
EXTENDS MsgTerminalProofs, MsgTerminalPromise

\* the order in which OnTick relies, and one post for each call
Ordered(s) == \A i, j \in 1..Len(s) : i < j => s[i].due <= s[j].due
OneEach(s) == \A i, j \in 1..Len(s) : s[i].call = s[j].call => i = j

\* A queued post counts the transmissions of its message, has some left, and its call has
\* returned and is not confirmed.
EntryOK(t, e) ==
  /\ e.call.op = "post" /\ e.call.from = t
  /\ pc[e.call] = "done" /\ e.call \notin confirmed
  /\ sends[e.call] = e.counter /\ e.counter < e.call.tries

\* the greatest number of transmissions of a post
Limit(c) == IF c.tries > 1 THEN c.tries ELSE 1

CallOK(c) ==
  /\ c.op = "post" => /\ sends[c] <= Limit(c)
                      /\ pc[c] = "idle" => sends[c] = 0
                      /\ pc[c] = "sent" => sends[c] = 1
  /\ c \in confirmed => c.op = "post" /\ pc[c] = "done"

PostInv ==
  /\ \A t \in Terminals : /\ Ordered(posts[t]) /\ OneEach(posts[t])
                          /\ \A i \in 1..Len(posts[t]) : EntryOK(t, posts[t][i])
  /\ \A c \in Calls : CallOK(c)

----------------------------------------------------------------------------
(***************************************************************************)
(* What the operators on the list keep.                                    *)
(***************************************************************************)
\* Every entry of r is still in s, unless it is in X.
Keeps(s, r, X) == \A k \in 1..Len(r) : r[k] \in X \/ \E j \in 1..Len(s) : s[j] = r[k]

LEMMA AppendPost ==
  ASSUME NEW s \in Seq(PostEntries), NEW e \in PostEntries
  PROVE  LET r == Append(s, e)
         IN  /\ Keeps(r, s, {}) /\ \E j \in 1..Len(r) : r[j] = e
             /\ Ordered(s) /\ (\A k \in 1..Len(s) : s[k].due <= e.due) => Ordered(r)
             /\ OneEach(s) /\ (\A k \in 1..Len(s) : s[k].call # e.call) => OneEach(r)
<1> DEFINE r == Append(s, e)
<1>1. /\ Len(r) = Len(s) + 1 /\ Len(s) \in Nat
      /\ \A j \in 1..(Len(s) + 1) : r[j] = IF j <= Len(s) THEN s[j] ELSE e
  BY AppendProperties, LenProperties
<1> HIDE DEF r
<1>2. Keeps(r, s, {}) /\ \E j \in 1..Len(r) : r[j] = e
  BY <1>1 DEF Keeps
<1>3. ASSUME Ordered(s), \A k \in 1..Len(s) : s[k].due <= e.due
      PROVE  Ordered(r)
  <2> SUFFICES ASSUME NEW i \in 1..Len(r), NEW j \in 1..Len(r), i < j
               PROVE  r[i].due <= r[j].due
    BY DEF Ordered
  <2>1. i \in 1..Len(s) /\ r[i] = s[i]
    BY <1>1
  <2>2. CASE j <= Len(s)
    BY <1>1, <1>3, <2>1, <2>2 DEF Ordered
  <2>3. CASE ~ (j <= Len(s))
    BY <1>1, <1>3, <2>1, <2>3
  <2> QED BY <2>2, <2>3
<1>4. ASSUME OneEach(s), \A k \in 1..Len(s) : s[k].call # e.call
      PROVE  OneEach(r)
  <2> SUFFICES ASSUME NEW i \in 1..Len(r), NEW j \in 1..Len(r), r[i].call = r[j].call
               PROVE  i = j
    BY DEF OneEach
  <2>1. CASE i <= Len(s) /\ j <= Len(s)
    BY <1>1, <1>4, <2>1 DEF OneEach
  <2>2. CASE ~ (i <= Len(s) /\ j <= Len(s))
    BY <1>1, <1>4, <2>2
  <2> QED BY <2>1, <2>2
<1> QED BY <1>2, <1>3, <1>4 DEF r

LEMMA InsertPostAt ==
  ASSUME NEW s \in Seq(PostEntries), NEW e \in PostEntries, NEW m \in 1..Len(s)
  PROVE  LET r == InsertAt(s, m, e)
         IN  /\ Keeps(r, s, {}) /\ \E j \in 1..Len(r) : r[j] = e
             /\ /\ Ordered(s)
                /\ \A k \in 1..Len(s) : IF k < m THEN s[k].due <= e.due ELSE e.due <= s[k].due
                => Ordered(r)
             /\ OneEach(s) /\ (\A k \in 1..Len(s) : s[k].call # e.call) => OneEach(r)
<1> DEFINE r == InsertAt(s, m, e)
<1>1. /\ Len(r) = Len(s) + 1 /\ Len(s) \in Nat
      /\ \A j \in 1..(Len(s) + 1) : r[j] = IF j < m THEN s[j] ELSE IF j = m THEN e ELSE s[j - 1]
  <2>1. Len(s) \in Nat
    BY LenProperties
  <2>2. /\ r \in Seq(PostEntries)
        /\ Len(r) = Len(s) + 1
        /\ \A j \in 1..(Len(s) + 1) : r[j] = IF j < m THEN s[j] ELSE IF j = m THEN e ELSE s[j - 1]
        /\ From(r, s, {e})
    BY InsertAtProperties
  <2> HIDE DEF r
  <2> QED BY <2>1, <2>2
<1> HIDE DEF r
<1>2. Keeps(r, s, {}) /\ \E j \in 1..Len(r) : r[j] = e
  <2>1. ASSUME NEW k \in 1..Len(s) PROVE \E j \in 1..Len(r) : r[j] = s[k]
    <3>1. CASE k < m
      BY <1>1, <3>1
    <3>2. CASE ~ (k < m)
      <4>1. k + 1 \in 1..Len(r) /\ ~ (k + 1 < m) /\ k + 1 # m /\ (k + 1) - 1 = k
        BY <1>1, <3>2
      <4> QED BY <1>1, <4>1
    <3> QED BY <3>1, <3>2
  <2>2. r[m] = e /\ m \in 1..Len(r)
    BY <1>1
  <2> QED BY <2>1, <2>2 DEF Keeps
<1>3. ASSUME Ordered(s),
             \A k \in 1..Len(s) : IF k < m THEN s[k].due <= e.due ELSE e.due <= s[k].due
      PROVE  Ordered(r)
  <2> SUFFICES ASSUME NEW i \in 1..Len(r), NEW j \in 1..Len(r), i < j
               PROVE  r[i].due <= r[j].due
    BY DEF Ordered
  <2>1. CASE j < m
    BY <1>1, <1>3, <2>1 DEF Ordered
  <2>2. CASE j = m
    BY <1>1, <1>3, <2>2
  <2>3. CASE j > m
    <3>1. r[j] = s[j - 1] /\ j - 1 \in 1..Len(s) /\ ~ (j - 1 < m)
      BY <1>1, <2>3
    <3>2. CASE i < m
      <4>1. r[i] = s[i] /\ i \in 1..Len(s) /\ i < j - 1
        BY <1>1, <2>3, <3>2
      <4> QED BY <1>3, <3>1, <4>1 DEF Ordered
    <3>3. CASE i = m
      BY <1>1, <1>3, <3>1, <3>3
    <3>4. CASE i > m
      <4>1. r[i] = s[i - 1] /\ i - 1 \in 1..Len(s) /\ i - 1 < j - 1
        BY <1>1, <3>4
      <4> QED BY <1>3, <3>1, <4>1 DEF Ordered
    <3> QED BY <3>2, <3>3, <3>4
  <2> QED BY <2>1, <2>2, <2>3
<1>4. ASSUME OneEach(s), \A k \in 1..Len(s) : s[k].call # e.call
      PROVE  OneEach(r)
  <2> DEFINE old(i) == IF i < m THEN i ELSE i - 1
  <2>1. ASSUME NEW i \in 1..Len(r), i # m PROVE r[i] = s[old(i)] /\ old(i) \in 1..Len(s)
    BY <1>1, <2>1
  <2> SUFFICES ASSUME NEW i \in 1..Len(r), NEW j \in 1..Len(r), r[i].call = r[j].call
               PROVE  i = j
    BY DEF OneEach
  <2>2. r[m] = e
    BY <1>1
  <2>3. CASE i # m /\ j # m
    <3>1. old(i) = old(j)
      BY <1>4, <2>1, <2>3 DEF OneEach
    <3>2. i \in Int /\ j \in Int /\ m \in Int
      OBVIOUS
    <3>3. (IF i < m THEN i ELSE i - 1) = (IF j < m THEN j ELSE j - 1)
      BY <3>1 DEF old
    <3> QED BY <2>3, <3>2, <3>3
  <2>4. CASE i = m \/ j = m
    <3> HIDE DEF old
    <3> QED BY <1>4, <2>1, <2>2, <2>4
  <2> QED BY <2>3, <2>4
<1> QED BY <1>2, <1>3, <1>4 DEF r

\* The ordered insertion keeps the order: it goes before the first entry that is later.
LEMMA InsertPostOrder ==
  ASSUME NEW s \in Seq(PostEntries), NEW e \in PostEntries
  PROVE  LET r == InsertPost(s, e)
         IN  /\ Keeps(r, s, {}) /\ \E j \in 1..Len(r) : r[j] = e
             /\ Ordered(s) => Ordered(r)
             /\ OneEach(s) /\ (\A k \in 1..Len(s) : s[k].call # e.call) => OneEach(r)
<1> DEFINE I == {i \in 1..Len(s) : s[i].due > e.due}
<1>1. InsertPost(s, e) = IF I = {} THEN Append(s, e)
                         ELSE IF Min(I) = 0 THEN Append(s, e) ELSE InsertAt(s, Min(I), e)
  BY DEF InsertPost, SelectInSeq
<1>2. I \in SUBSET Nat /\ I \subseteq 1..Len(s)
  OBVIOUS
<1>3. e.due \in Int /\ \A k \in 1..Len(s) : s[k].due \in Int
  <2>1. \A k \in 1..Len(s) : s[k] \in PostEntries
    BY ElementOfSeq
  <2> QED BY <2>1 DEF PostEntries
<1>4. CASE I = {}
  <2>1. \A k \in 1..Len(s) : s[k].due <= e.due
    BY <1>3, <1>4
  <2> QED BY <1>1, <1>4, <2>1, AppendPost
<1>5. CASE I # {}
  <2> DEFINE m == Min(I)
  <2>1. m \in I /\ \A i \in I : m <= i
    <3> HIDE DEF I
    <3> QED BY <1>2, <1>5, MinInSet
  <2>2. m \in 1..Len(s) /\ s[m].due > e.due /\ InsertPost(s, e) = InsertAt(s, m, e)
    BY <1>1, <1>5, <2>1
  <2>3. ASSUME NEW k \in 1..Len(s), k < m PROVE s[k].due <= e.due
    BY <1>3, <2>1, <2>2, <2>3
  <2>4. ASSUME Ordered(s), NEW k \in 1..Len(s), ~ (k < m) PROVE e.due <= s[k].due
    <3> HIDE DEF m, I
    <3>1. s[m].due <= s[k].due
      BY <1>3, <2>2, <2>4 DEF Ordered
    <3> QED BY <1>3, <2>2, <3>1
  <2> HIDE DEF m, I
  <2> QED BY <2>2, <2>3, <2>4, InsertPostAt
<1> QED BY <1>4, <1>5

\* Taking the front or the ith entry out.
LEMMA RemovePost ==
  ASSUME NEW s \in Seq(PostEntries), NEW m \in 1..Len(s)
  PROVE  LET r == RemoveAt(s, m)
         IN  /\ Keeps(r, s, {s[m]})
             /\ Ordered(s) => Ordered(r)
             /\ OneEach(s) => OneEach(r) /\ \A k \in 1..Len(r) : r[k].call # s[m].call
<1> DEFINE r == RemoveAt(s, m)
           old(i) == IF i < m THEN i ELSE i + 1
<1>1. /\ Len(r) = Len(s) - 1 /\ Len(s) \in Nat
      /\ \A j \in 1..(Len(s) - 1) : r[j] = IF j < m THEN s[j] ELSE s[j + 1]
  BY RemoveAtProperties, LenProperties
<1> HIDE DEF r
<1>2. ASSUME NEW i \in 1..Len(r) PROVE r[i] = s[old(i)] /\ old(i) \in 1..Len(s) /\ old(i) # m
  BY <1>1, <1>2
<1>3. Keeps(r, s, {s[m]})
  <2>1. ASSUME NEW k \in 1..Len(s), k # m PROVE \E j \in 1..Len(r) : r[j] = s[k]
    <3>1. CASE k < m
      BY <1>1, <3>1
    <3>2. CASE k > m
      <4>1. k - 1 \in 1..Len(r) /\ ~ (k - 1 < m) /\ (k - 1) + 1 = k
        BY <1>1, <3>2
      <4> QED BY <1>1, <4>1
    <3> QED BY <2>1, <3>1, <3>2
  <2> QED BY <2>1 DEF Keeps
<1>4. ASSUME Ordered(s) PROVE Ordered(r)
  <2>1. ASSUME NEW i \in 1..Len(r), NEW j \in 1..Len(r), i < j PROVE r[i].due <= r[j].due
    <3>1. old(i) < old(j)
      BY <2>1
    <3> HIDE DEF old
    <3> QED BY <1>2, <1>4, <3>1 DEF Ordered
  <2> QED BY <2>1 DEF Ordered
<1>5. ASSUME OneEach(s) PROVE OneEach(r) /\ \A k \in 1..Len(r) : r[k].call # s[m].call
  <2>1. ASSUME NEW i \in 1..Len(r), NEW j \in 1..Len(r), r[i].call = r[j].call PROVE i = j
    <3>1. old(i) = old(j)
      <4> HIDE DEF old
      <4> QED BY <1>2, <1>5, <2>1 DEF OneEach
    <3> QED BY <3>1
  <2>2. ASSUME NEW k \in 1..Len(r) PROVE r[k].call # s[m].call
    <3> HIDE DEF old
    <3> QED BY <1>2, <1>5 DEF OneEach
  <2> QED BY <2>1, <2>2 DEF OneEach
<1> QED BY <1>3, <1>4, <1>5 DEF r

LEMMA TailIsRemoveAt ==
  ASSUME NEW s \in Seq(PostEntries), s # <<>>
  PROVE  /\ Tail(s) = RemoveAt(s, 1) /\ 1 \in 1..Len(s) /\ s[1] = Head(s)
         /\ Tail(s) \in Seq(PostEntries) /\ Head(s) \in PostEntries
<1>1. /\ Tail(s) \in Seq(PostEntries) /\ Len(Tail(s)) = Len(s) - 1 /\ Len(s) \in Nat /\ Len(s) > 0
      /\ \A i \in 1..(Len(s) - 1) : Tail(s)[i] = s[i + 1]
      /\ Head(s) = s[1] /\ Head(s) \in PostEntries
  BY HeadTailProperties, EmptySeq, LenProperties
<1>2. 1 \in 1..Len(s)
  BY <1>1
<1>3. /\ RemoveAt(s, 1) \in Seq(PostEntries) /\ Len(RemoveAt(s, 1)) = Len(s) - 1
      /\ \A j \in 1..(Len(s) - 1) : RemoveAt(s, 1)[j] = s[j + 1]
  BY <1>2, RemoveAtProperties
<1>4. Tail(s) = RemoveAt(s, 1)
  <2> DEFINE a == Tail(s)
             b == RemoveAt(s, 1)
  <2>1. a \in Seq(PostEntries) /\ b \in Seq(PostEntries) /\ Len(a) = Len(b)
        /\ \A i \in 1..Len(a) : a[i] = b[i]
    BY <1>1, <1>3
  <2> HIDE DEF a, b
  <2>2. a = b
    BY <2>1, SeqEqual
  <2> QED BY <2>2 DEF a, b
<1> QED BY <1>1, <1>2, <1>4

\* One round of OnTick: the front post goes or comes back later in the list.
LEMMA RequeueOrder ==
  ASSUME NEW s \in Seq(PostEntries), s # <<>>, NEW n \in Nat, Ordered(s), OneEach(s)
  PROVE  LET r == Requeue(s, Head(s), n)
             e == Retry(Head(s), n)
         IN  /\ Ordered(r) /\ OneEach(r) /\ Keeps(r, s, {Head(s)})
             /\ \A j \in 1..Len(r) :
                  \/ r[j] = e /\ n < Head(s).call.tries
                  \/ \E k \in 1..Len(s) : r[j] = s[k] /\ s[k].call # Head(s).call
             /\ n < Head(s).call.tries => \E j \in 1..Len(r) : r[j] = e
<1> DEFINE h == Head(s)
           u == Tail(s)
           e == Retry(h, n)
           r == Requeue(s, h, n)
<1>1. /\ u = RemoveAt(s, 1) /\ 1 \in 1..Len(s) /\ s[1] = h /\ u \in Seq(PostEntries)
      /\ h \in PostEntries
  BY TailIsRemoveAt
<1>2. Ordered(u) /\ OneEach(u) /\ Keeps(u, s, {h}) /\ \A k \in 1..Len(u) : u[k].call # h.call
  <2> HIDE DEF h, u
  <2> QED BY <1>1, RemovePost
<1>3. From(u, s, {})
  BY TailFrom
<1>4. h.call.tries \in Nat /\ h.call.interval \in Nat /\ h.call \in Calls /\ h.due \in Int
  <2> HIDE DEF h
  <2> QED BY <1>1, CallsAssumption DEF PostEntries
<1>5. e \in PostEntries /\ e.call = h.call
  BY <1>4 DEF PostEntries, Retry
<1>6. r = IF n >= h.call.tries THEN u ELSE InsertPost(u, e)
  BY DEF Requeue
<1> HIDE DEF h, u, e, r
<1>7. \A j \in 1..Len(u) : \E k \in 1..Len(s) : u[j] = s[k] /\ s[k].call # h.call
  BY <1>2, <1>3 DEF From
<1>8. CASE n >= h.call.tries
  BY <1>2, <1>4, <1>6, <1>7, <1>8 DEF h, r
<1>9. CASE n < h.call.tries
  <2>1. r = InsertPost(u, e)
    BY <1>4, <1>6, <1>9
  <2>2. From(r, u, {e})
    BY <1>1, <1>5, <2>1, InsertPostProperties
  <2>3. Keeps(r, u, {}) /\ Ordered(r) /\ OneEach(r) /\ \E j \in 1..Len(r) : r[j] = e
    <3>1. \A k \in 1..Len(u) : u[k].call # e.call
      BY <1>2, <1>5
    <3>2. LET q == InsertPost(u, e)
          IN  Keeps(q, u, {}) /\ Ordered(q) /\ OneEach(q) /\ \E j \in 1..Len(q) : q[j] = e
      BY <1>1, <1>2, <1>5, <3>1, InsertPostOrder
    <3> QED BY <2>1, <3>2
  <2>4. Keeps(r, s, {h})
    BY <1>2, <2>3 DEF Keeps
  <2>5. \A j \in 1..Len(r) : \/ r[j] = e
                             \/ \E k \in 1..Len(s) : r[j] = s[k] /\ s[k].call # h.call
    BY <1>7, <2>2 DEF From
  <2> QED BY <1>9, <2>3, <2>4, <2>5 DEF h, r, e
<1> QED BY <1>4, <1>8, <1>9

LEMMA LaterOrder ==
  ASSUME NEW s \in Seq(PostEntries)
  PROVE  /\ Ordered(s) => Ordered(Later(s))
         /\ OneEach(s) => OneEach(Later(s))
         /\ Len(Later(s)) = Len(s)
         /\ \A j \in 1..Len(s) : Later(s)[j].call = s[j].call /\ Later(s)[j].counter = s[j].counter
<1>1. DOMAIN s = 1..Len(s) /\ \A j \in 1..Len(s) : s[j].due \in Int
  <2>1. DOMAIN s = 1..Len(s) /\ \A j \in 1..Len(s) : s[j] \in PostEntries
    BY LenProperties, ElementOfSeq
  <2> QED BY <2>1 DEF PostEntries
<1>2. Len(Later(s)) = Len(s)
  BY LaterProperties
<1>3. \A j \in 1..Len(s) : /\ Later(s)[j].due = s[j].due - 1 /\ Later(s)[j].call = s[j].call
                           /\ Later(s)[j].counter = s[j].counter
  BY <1>1 DEF Later
<1>4. ASSUME Ordered(s) PROVE Ordered(Later(s))
  BY <1>1, <1>2, <1>3, <1>4 DEF Ordered
<1>5. ASSUME OneEach(s) PROVE OneEach(Later(s))
  BY <1>2, <1>3, <1>5 DEF OneEach
<1> QED BY <1>2, <1>3, <1>4, <1>5

----------------------------------------------------------------------------
(***************************************************************************)
(* The steps that touch a posted message, and those that do not.           *)
(***************************************************************************)
PostsRest ==
  /\ UNCHANGED <<posts, confirmed, arrived>>
  /\ \A c \in Calls : c.op = "post" => pc'[c] = pc[c] /\ sends'[c] = sends[c]
  /\ \A c \in Calls : pc'[c] # pc[c] => c.op # "post"

LEMMA PostSteps ==
  ASSUME TypeInv, WaitInv, [Next]_vars
  PROVE  \/ \E c \in Calls : Post(c) \/ Enqueue(c)
         \/ \E t \in Terminals : \/ TimePasses(t) \/ Retransmit(t)
                                 \/ \E p \in net : Arrive(t, p)
         \/ PostsRest
<1> USE DEF TypeInv
<1>1. ASSUME NEW c \in Calls, WaitStep(c) PROVE PostsRest
  <2>1. c.op # "post"
    BY <1>1 DEF WaitStep, StartWait, SendInWait, WakeUp, TimeOut, RequestRetry, LeaveTry, NewTry,
                WaitInv
  <2>2. UNCHANGED <<posts, confirmed, arrived>>
    BY <1>1 DEF WaitStep, StartWait, SendInWait, WakeUp, TimeOut, RequestRetry, LeaveTry, NewTry,
                history
  <2>3. \A d \in Calls : d # c => pc'[d] = pc[d] /\ sends'[d] = sends[d]
    BY <1>1 DEF WaitStep, StartWait, SendInWait, SendTry, Count, WakeUp, TimeOut, RequestRetry,
                LeaveTry, NewTry, TypeOK
  <2> QED BY <2>1, <2>2, <2>3 DEF PostsRest
<1>2. ASSUME NEW t \in Terminals, TickBegin(t) \/ TickEnd(t) PROVE PostsRest
  BY <1>2 DEF TickBegin, TickEnd, PostsRest, callVars, history
<1>3. ASSUME NEW t \in Terminals, NetStep(t), ~ \E p \in net : Arrive(t, p) PROVE PostsRest
  BY <1>3 DEF NetStep, ReadBegin, ReadEnd, Take, Answer, BreakMessageWaiting, PostsRest, callVars,
              history
<1>4. CASE UNCHANGED vars
  BY <1>4 DEF vars, PostsRest, callVars, history
<1> QED BY <1>1, <1>2, <1>3, <1>4 DEF Next, PostStep, TickStep

----------------------------------------------------------------------------
\* The entries of the lists.
LEMMA EntryOf ==
  ASSUME TypeOK, PostInv, NEW t \in Terminals, NEW i \in 1..Len(posts[t])
  PROVE  /\ posts[t] \in Seq(PostEntries) /\ posts[t][i] \in PostEntries
         /\ posts[t][i].call \in Calls /\ posts[t][i].counter \in Nat
         /\ EntryOK(t, posts[t][i])
<1>1. posts[t] \in Seq(PostEntries)
  BY DEF TypeOK
<1>2. posts[t][i] \in PostEntries
  BY <1>1, ElementOfSeq
<1> QED BY <1>1, <1>2 DEF PostEntries, PostInv

\* An entry stays sound while nothing is done with its call.
LEMMA EntryStable ==
  ASSUME NEW t \in Terminals, NEW e \in PostEntries, EntryOK(t, e),
         pc'[e.call] = pc[e.call], sends'[e.call] = sends[e.call],
         e.call \in confirmed' => e.call \in confirmed
  PROVE  EntryOK(t, e)'
BY DEF EntryOK

\* What is to be shown of a list of posts and of a call.
ListOK(t) == /\ Ordered(posts[t]) /\ OneEach(posts[t])
             /\ \A i \in 1..Len(posts[t]) : EntryOK(t, posts[t][i])

LEMMA PostInvInit == Init => PostInv
<1> SUFFICES ASSUME Init PROVE PostInv
  OBVIOUS
<1>1. \A t \in Terminals : posts[t] = <<>> /\ Len(posts[t]) = 0
  BY DEF Init
<1>2. ASSUME NEW c \in Calls PROVE CallOK(c)
  <2>1. c.tries \in Nat
    BY CallsAssumption
  <2> QED BY <2>1 DEF Init, CallOK, Limit
<1> QED BY <1>1, <1>2 DEF PostInv, Ordered, OneEach

LEMMA PostInvRest ==
  ASSUME TypeOK, PostInv, UNCHANGED <<posts, confirmed>>,
         \A c \in Calls : c.op = "post" => pc'[c] = pc[c] /\ sends'[c] = sends[c]
  PROVE  PostInv'
<1>1. ASSUME NEW t \in Terminals PROVE ListOK(t)'
  <2>1. ASSUME NEW i \in 1..Len(posts[t]) PROVE EntryOK(t, posts[t][i])'
    <3>1. posts[t][i].call \in Calls /\ EntryOK(t, posts[t][i])
      BY EntryOf
    <3> QED BY <3>1 DEF EntryOK
  <2> QED BY <2>1 DEF ListOK, PostInv
<1>2. ASSUME NEW c \in Calls PROVE CallOK(c)'
  BY DEF PostInv, CallOK
<1> QED BY <1>1, <1>2 DEF ListOK, PostInv

LEMMA PostInvPost ==
  ASSUME TypeOK, PostInv, NEW c \in Calls, Post(c)
  PROVE  PostInv'
<1>1. /\ posts' = posts /\ confirmed' = confirmed /\ pc[c] = "idle" /\ c.op = "post"
      /\ pc' = [pc EXCEPT ![c] = "sent"] /\ sends[c] = 0 /\ sends' = [sends EXCEPT ![c] = 1]
  <2>1. sends[c] = 0 /\ c.tries \in Nat
    BY CallsAssumption DEF Post, PostInv, CallOK
  <2>2. ~ (sends[c] > c.tries + 1) /\ sends[c] + 1 = 1
    BY <2>1
  <2>3. sends' = [sends EXCEPT ![c] = IF sends[c] > c.tries + 1 THEN sends[c] ELSE sends[c] + 1]
    BY DEF Post, Count
  <2>4. sends' = [sends EXCEPT ![c] = 1]
    BY <2>2, <2>3
  <2> QED BY <2>1, <2>4 DEF Post, history
<1>2. ASSUME NEW t \in Terminals PROVE ListOK(t)'
  <2>1. ASSUME NEW i \in 1..Len(posts[t]) PROVE EntryOK(t, posts[t][i])'
    <3>1. posts[t][i].call \in Calls /\ EntryOK(t, posts[t][i])
      BY EntryOf
    <3> QED BY <1>1, <3>1 DEF EntryOK, TypeOK
  <2> QED BY <1>1, <2>1 DEF ListOK, PostInv
<1>3. ASSUME NEW d \in Calls PROVE CallOK(d)'
  <2>1. Limit(c) >= 1
    BY CallsAssumption DEF Limit
  <2> QED BY <1>1, <2>1 DEF PostInv, CallOK, TypeOK
<1> QED BY <1>2, <1>3 DEF ListOK, PostInv

\* The ith entry of the list is afterwards what the kth was, and nothing is done with its call.
Stays(t, i, k) ==
  LET d == posts'[t][i].call
  IN  /\ posts[t][k].call = d /\ posts[t][k].counter = posts'[t][i].counter
      /\ pc'[d] = pc[d] /\ sends'[d] = sends[d] /\ (d \in confirmed' => d \in confirmed)

\* What a step must keep for the list of a terminal: its entries stay or are new and sound.
LEMMA ListOKStep ==
  ASSUME TypeOK, PostInv, NEW t \in Terminals, Ordered(posts[t])', OneEach(posts[t])',
         \A i \in 1..Len(posts'[t]) : \/ \E k \in 1..Len(posts[t]) : Stays(t, i, k)
                                      \/ EntryOK(t, posts[t][i])'
  PROVE  ListOK(t)'
<1>1. ASSUME NEW i \in 1..Len(posts'[t]), NEW k \in 1..Len(posts[t]), Stays(t, i, k)
      PROVE  EntryOK(t, posts[t][i])'
  <2>1. EntryOK(t, posts[t][k])
    BY EntryOf
  <2> QED BY <1>1, <2>1 DEF EntryOK, Stays
<1> QED BY <1>1 DEF ListOK

LEMMA PostInvEnqueue ==
  ASSUME TypeOK, WaitInv, PostInv, NEW c \in Calls, Enqueue(c)
  PROVE  PostInv'
<1> DEFINE s == posts[c.from]
           e == [call |-> c, due |-> c.interval, counter |-> 1]
<1>1. /\ c.from \in Terminals /\ c.op = "post" /\ pc[c] = "sent" /\ confirmed' = confirmed
      /\ pc' = [pc EXCEPT ![c] = "done"] /\ sends' = sends /\ sends[c] = 1 /\ c \notin confirmed
  BY CallsAssumption DEF Enqueue, WaitInv, PostInv, CallOK, history
<1>2. ASSUME NEW t \in Terminals, NEW k \in 1..Len(posts[t])
      PROVE  LET d == posts[t][k].call
             IN  d # c /\ pc'[d] = pc[d] /\ sends'[d] = sends[d] /\ (d \in confirmed' => d \in confirmed)
  <2>1. posts[t][k].call \in Calls /\ EntryOK(t, posts[t][k])
    BY EntryOf
  <2> QED BY <1>1, <2>1 DEF EntryOK, TypeOK
<1>3. ASSUME NEW t \in Terminals, posts'[t] = posts[t] PROVE ListOK(t)'
  <2>1. Ordered(posts[t])' /\ OneEach(posts[t])'
    BY <1>3 DEF PostInv
  <2>2. \A i \in 1..Len(posts'[t]) : i \in 1..Len(posts[t]) /\ Stays(t, i, i)
    BY <1>2, <1>3 DEF Stays
  <2> QED BY <2>1, <2>2, ListOKStep
<1>4. ASSUME NEW d \in Calls PROVE CallOK(d)'
  BY <1>1 DEF PostInv, CallOK, TypeOK
<1>5. CASE c.tries > 1 /\ Len(s) < PostMax
  <2> DEFINE r == InsertPost(s, e)
  <2>1. s \in Seq(PostEntries) /\ e \in PostEntries
    BY <1>1, CallsAssumption DEF TypeOK, PostEntries
  <2>2. \A k \in 1..Len(s) : s[k].call # e.call
    BY <1>1, <1>2
  <2>3. Ordered(s) /\ OneEach(s)
    BY <1>1 DEF PostInv
  <2>4. From(r, s, {e}) /\ Ordered(r) /\ OneEach(r)
    <3> HIDE DEF s, e
    <3> QED BY <2>1, <2>2, <2>3, InsertPostProperties, InsertPostOrder
  <2>5. posts' = [posts EXCEPT ![c.from] = r]
    BY <1>5 DEF Enqueue
  <2>6. posts'[c.from] = r
    BY <1>1, <2>5 DEF TypeOK
  <2>7. ASSUME NEW i \in 1..Len(posts'[c.from]), posts'[c.from][i] = e
        PROVE  EntryOK(c.from, posts[c.from][i])'
    BY <1>1, <1>5, <2>7 DEF EntryOK, TypeOK
  <2>8. ListOK(c.from)'
    <3>1. \A i \in 1..Len(posts'[c.from]) : \/ posts'[c.from][i] = e
                                            \/ \E k \in 1..Len(s) : posts'[c.from][i] = s[k]
      BY <2>4, <2>6 DEF From
    <3>2. Ordered(posts[c.from])' /\ OneEach(posts[c.from])'
      BY <2>4, <2>6
    <3>3. ASSUME NEW i \in 1..Len(posts'[c.from])
          PROVE  (\E k \in 1..Len(s) : Stays(c.from, i, k)) \/ EntryOK(c.from, posts[c.from][i])'
      <4>1. CASE posts'[c.from][i] = e
        BY <2>7, <4>1
      <4>2. ASSUME NEW k \in 1..Len(s), posts'[c.from][i] = s[k] PROVE Stays(c.from, i, k)
        <5> DEFINE d == s[k].call
        <5>1. pc'[d] = pc[d] /\ sends'[d] = sends[d] /\ (d \in confirmed' => d \in confirmed)
          BY <1>1, <1>2
        <5> QED BY <4>2, <5>1 DEF Stays
      <4> QED BY <3>1, <4>1, <4>2
    <3> HIDE DEF e
    <3> QED BY <1>1, <3>2, <3>3, ListOKStep
  <2>9. ASSUME NEW t \in Terminals, t # c.from PROVE ListOK(t)'
    BY <1>3, <2>5, <2>9 DEF TypeOK
  <2> QED BY <1>4, <2>8, <2>9 DEF ListOK, PostInv
<1>6. CASE ~ (c.tries > 1 /\ Len(s) < PostMax)
  <2>1. posts' = posts
    BY <1>6 DEF Enqueue
  <2> QED BY <1>3, <1>4, <2>1 DEF ListOK, PostInv
<1> QED BY <1>5, <1>6

LEMMA PostInvTime ==
  ASSUME TypeOK, PostInv, NEW t \in Terminals, TimePasses(t)
  PROVE  PostInv'
<1>1. /\ posts' = [posts EXCEPT ![t] = Later(posts[t])]
      /\ pc' = pc /\ sends' = sends /\ confirmed' = confirmed
  BY DEF TimePasses, callVars, history
<1>2. ASSUME NEW u \in Terminals, u # t PROVE ListOK(u)'
  <2>1. posts'[u] = posts[u]
    BY <1>1, <1>2 DEF TypeOK
  <2>2. \A i \in 1..Len(posts[u]) : Stays(u, i, i)
    BY <1>1, <2>1 DEF Stays
  <2>3. Ordered(posts[u])' /\ OneEach(posts[u])'
    BY <2>1 DEF PostInv
  <2> QED BY <2>1, <2>2, <2>3, ListOKStep
<1>3. ListOK(t)'
  <2>1. posts'[t] = Later(posts[t]) /\ posts[t] \in Seq(PostEntries)
    BY <1>1 DEF TypeOK
  <2>2. /\ Ordered(Later(posts[t])) /\ OneEach(Later(posts[t]))
        /\ Len(Later(posts[t])) = Len(posts[t])
        /\ \A j \in 1..Len(posts[t]) : /\ Later(posts[t])[j].call = posts[t][j].call
                                       /\ Later(posts[t])[j].counter = posts[t][j].counter
    BY <2>1, LaterOrder DEF PostInv
  <2>3. \A i \in 1..Len(posts'[t]) : Stays(t, i, i) /\ i \in 1..Len(posts[t])
    BY <1>1, <2>1, <2>2 DEF Stays
  <2>4. Ordered(posts[t])' /\ OneEach(posts[t])'
    BY <2>1, <2>2
  <2> QED BY <2>3, <2>4, ListOKStep
<1>4. ASSUME NEW d \in Calls PROVE CallOK(d)'
  BY <1>1 DEF PostInv, CallOK
<1> QED BY <1>2, <1>3, <1>4 DEF ListOK, PostInv

LEMMA PostInvRetransmit ==
  ASSUME TypeOK, PostInv, NEW t \in Terminals, Retransmit(t)
  PROVE  PostInv'
<1> DEFINE s == posts[t]
           h == Head(s)
           c == h.call
           n == h.counter + 1
           r == Requeue(s, h, n)
           e == Retry(h, n)
<1>1. s \in Seq(PostEntries) /\ s # <<>> /\ Ordered(s) /\ OneEach(s)
  BY DEF Retransmit, TypeOK, PostInv
<1>2. h = s[1] /\ 1 \in 1..Len(s)
  BY <1>1, TailFrom
<1>3. c \in Calls /\ h.counter \in Nat /\ EntryOK(t, h) /\ n \in Nat
  BY <1>2, EntryOf
<1>4. /\ posts' = [posts EXCEPT ![t] = r] /\ pc' = pc /\ confirmed' = confirmed
      /\ sends' = [sends EXCEPT ![c] = n] /\ n <= c.tries /\ pc[c] = "done" /\ c.op = "post"
  <2>1. /\ sends[c] = h.counter /\ h.counter < c.tries /\ c.tries \in Nat
        /\ pc[c] = "done" /\ c.op = "post"
    BY <1>3, CallsAssumption DEF EntryOK
  <2>2. ~ (sends[c] > c.tries + 1) /\ n <= c.tries
    BY <1>3, <2>1
  <2>3. /\ posts' = [posts EXCEPT ![t] = r] /\ pc' = pc /\ confirmed' = confirmed
        /\ sends' = [sends EXCEPT ![c] = IF @ > c.tries + 1 THEN @ ELSE @ + 1]
    BY DEF Retransmit, Count, callVars, history
  <2>4. sends' = [sends EXCEPT ![c] = IF sends[c] > c.tries + 1 THEN sends[c] ELSE sends[c] + 1]
    BY <2>3
  <2> QED BY <2>1, <2>2, <2>3, <2>4
<1>5. /\ Ordered(r) /\ OneEach(r)
      /\ \A j \in 1..Len(r) : \/ r[j] = e /\ n < c.tries
                              \/ \E k \in 1..Len(s) : r[j] = s[k] /\ s[k].call # c
  BY <1>1, <1>3, RequeueOrder
<1>6. e.call = c /\ e.counter = n
  BY DEF Retry
<1>7. posts'[t] = r
  BY <1>4 DEF TypeOK
<1>8. c.from = t /\ c \notin confirmed /\ c \notin confirmed'
  BY <1>3, <1>4 DEF EntryOK
<1> HIDE DEF h, c, n, r, e
<1>9. ListOK(t)'
  <2>1. ASSUME NEW i \in 1..Len(posts'[t]), posts'[t][i] = e, n < c.tries
        PROVE  EntryOK(t, posts[t][i])'
    BY <1>3, <1>4, <1>6, <1>8, <2>1 DEF EntryOK, TypeOK
  <2>2. ASSUME NEW i \in 1..Len(posts'[t]), NEW k \in 1..Len(s), posts'[t][i] = s[k], s[k].call # c
        PROVE  Stays(t, i, k)
    <3>1. s[k].call \in Calls
      BY EntryOf
    <3> QED BY <1>4, <2>2, <3>1 DEF Stays, TypeOK
  <2>3. Ordered(posts[t])' /\ OneEach(posts[t])'
    BY <1>5, <1>7
  <2> QED BY <1>5, <1>7, <2>1, <2>2, <2>3, ListOKStep
<1>10. ASSUME NEW u \in Terminals, u # t PROVE ListOK(u)'
  <2>1. posts'[u] = posts[u]
    BY <1>4, <1>10 DEF TypeOK
  <2>2. ASSUME NEW i \in 1..Len(posts[u]) PROVE Stays(u, i, i)
    <3>1. posts[u][i].call \in Calls /\ posts[u][i].call # c
      BY <1>8, <1>10, EntryOf DEF EntryOK
    <3> QED BY <1>4, <2>1, <3>1 DEF Stays, TypeOK
  <2>3. Ordered(posts[u])' /\ OneEach(posts[u])'
    BY <2>1 DEF PostInv
  <2> QED BY <2>1, <2>2, <2>3, ListOKStep
<1>11. ASSUME NEW d \in Calls PROVE CallOK(d)'
  <2>1. n <= Limit(c)
    BY <1>3, <1>4, CallsAssumption DEF Limit
  <2> QED BY <1>3, <1>4, <2>1 DEF PostInv, CallOK, TypeOK
<1> QED BY <1>9, <1>10, <1>11 DEF ListOK, PostInv

LEMMA PostInvArrive ==
  ASSUME TypeOK, PostInv, NEW t \in Terminals, NEW p \in net, Arrive(t, p)
  PROVE  PostInv'
<1> DEFINE m == AckedPost(t, p)
           c == posts[t][m].call
           r == RemoveAt(posts[t], m)
<1>1. pc' = pc /\ sends' = sends
  BY DEF Arrive, callVars
<1>2. CASE posts' = posts /\ confirmed' = confirmed
  BY <1>1, <1>2, PostInvRest
<1>3. CASE m # 0 /\ posts' = [posts EXCEPT ![t] = r] /\ confirmed' = confirmed \cup {c}
  <2>1. m \in 1..Len(posts[t])
    BY <1>3, AckedPostIndex
  <2> HIDE DEF m
  <2>2. posts[t] \in Seq(PostEntries) /\ Ordered(posts[t]) /\ OneEach(posts[t]) /\ c \in Calls
        /\ EntryOK(t, posts[t][m])
    BY <2>1, EntryOf DEF PostInv
  <2>3. /\ From(r, posts[t], {}) /\ Ordered(r) /\ OneEach(r)
        /\ \A k \in 1..Len(r) : r[k].call # c
    BY <2>1, <2>2, RemoveAtProperties, RemovePost
  <2>4. posts'[t] = r
    BY <1>3 DEF TypeOK
  <2> HIDE DEF r
  <2>5. ListOK(t)'
    <3>1. ASSUME NEW i \in 1..Len(posts'[t]) PROVE \E k \in 1..Len(posts[t]) : Stays(t, i, k)
      <4>1. PICK k \in 1..Len(posts[t]) : posts'[t][i] = posts[t][k]
        BY <2>3, <2>4 DEF From
      <4>2. posts'[t][i].call # c
        BY <2>3, <2>4
      <4> HIDE DEF c
      <4>3. Stays(t, i, k)
        BY <1>1, <1>3, <4>1, <4>2 DEF Stays
      <4> QED BY <4>3
    <3>2. Ordered(posts[t])' /\ OneEach(posts[t])'
      BY <2>3, <2>4
    <3> QED BY <3>1, <3>2, ListOKStep
  <2>6. ASSUME NEW u \in Terminals, u # t PROVE ListOK(u)'
    <3>1. posts'[u] = posts[u]
      BY <1>3, <2>6 DEF TypeOK
    <3>2. ASSUME NEW i \in 1..Len(posts[u]) PROVE Stays(u, i, i)
      <4>1. posts[u][i].call # c
        BY <2>2, <2>6, EntryOf DEF EntryOK
      <4> QED BY <1>1, <1>3, <3>1, <4>1 DEF Stays
    <3>3. Ordered(posts[u])' /\ OneEach(posts[u])'
      BY <3>1 DEF PostInv
    <3> QED BY <3>1, <3>2, <3>3, ListOKStep
  <2>7. ASSUME NEW d \in Calls PROVE CallOK(d)'
    BY <1>1, <1>3, <2>2 DEF PostInv, CallOK, EntryOK
  <2> QED BY <2>5, <2>6, <2>7 DEF ListOK, PostInv
<1> QED BY <1>2, <1>3 DEF Arrive, RemoveAcked

LEMMA PostInvStep ==
  ASSUME TypeInv, WaitInv, PostInv, [Next]_vars
  PROVE  PostInv'
<1>1. TypeOK
  BY DEF TypeInv
<1>2. ASSUME PostsRest PROVE PostInv'
  BY <1>1, <1>2, PostInvRest DEF PostsRest
<1> QED BY <1>1, <1>2, PostSteps, PostInvPost, PostInvEnqueue, PostInvTime, PostInvRetransmit,
           PostInvArrive

\* PostInv holds in every reachable state.
THEOREM PostInvariance == Spec => [](IInv /\ PostInv)
<1>1. Init => IInv /\ PostInv
  BY InvInit, PostInvInit
<1>2. IInv /\ PostInv /\ [Next]_vars => (IInv /\ PostInv)'
  BY InvStep, PostInvStep DEF IInv
<1> QED BY <1>1, <1>2, PTL DEF Spec

\* m_listMsgPosts is always in the order of next_try, so that OnTick, which stops at the first
\* post that is not due, overlooks none: for any number of posts, retries and intervals.
THEOREM PostsInOrder == Spec => []PostsOrdered
<1>1. PostInv => PostsOrdered
  BY DEF PostInv, Ordered, PostsOrdered
<1> QED BY <1>1, PostInvariance, PTL

\* PostMessage(nRetry) never transmits a message more than nRetry times, however OnTick and
\* the net thread interleave and however late the ACKs are.
THEOREM RetransmissionsBounded == Spec => []RetransmissionBound
<1>1. PostInv => RetransmissionBound
  BY DEF PostInv, CallOK, Limit, RetransmissionBound
<1> QED BY <1>1, PostInvariance, PTL

\* After an ACK has taken its post out of the queue a message is never transmitted again.
THEOREM ConfirmedFinal == Spec => ConfirmedIsFinal
<1>1. ASSUME IInv, PostInv, [Next]_vars, NEW c \in confirmed PROVE sends'[c] = sends[c]
  <2>1. TypeOK /\ TypeInv /\ WaitInv /\ c \in Calls
    BY <1>1 DEF IInv, TypeInv, TypeOK
  <2>2. c.op = "post" /\ pc[c] = "done"
    BY <1>1, <2>1 DEF PostInv, CallOK
  <2>3. ASSUME NEW d \in Calls, Post(d) PROVE sends'[c] = sends[c]
    BY <2>1, <2>2, <2>3 DEF Post, Count, TypeOK
  <2>4. ASSUME NEW d \in Calls, Enqueue(d) PROVE sends'[c] = sends[c]
    BY <2>4 DEF Enqueue
  <2>5. ASSUME NEW t \in Terminals, Retransmit(t) PROVE sends'[c] = sends[c]
    <3>1. posts[t] \in Seq(PostEntries) /\ posts[t] # <<>>
      BY <2>1, <2>5 DEF Retransmit, TypeOK
    <3>2. Head(posts[t]) = posts[t][1] /\ 1 \in 1..Len(posts[t])
      BY <3>1, TailFrom
    <3>3. Head(posts[t]).call # c
      BY <1>1, <3>2 DEF PostInv, EntryOK
    <3> QED BY <2>1, <2>5, <3>3 DEF Retransmit, Count, TypeOK
  <2>6. ASSUME NEW t \in Terminals, TimePasses(t) \/ \E p \in net : Arrive(t, p)
        PROVE  sends'[c] = sends[c]
    BY <2>6 DEF TimePasses, Arrive
  <2>7. CASE PostsRest
    BY <2>1, <2>2, <2>7 DEF PostsRest
  <2> QED BY <1>1, <2>1, <2>3, <2>4, <2>5, <2>6, <2>7, PostSteps
<1>2. IInv /\ PostInv /\ [Next]_vars => [\A c \in confirmed : sends'[c] = sends[c]]_vars
  BY <1>1
<1> QED BY <1>2, PostInvariance, PTL DEF Spec, ConfirmedIsFinal

----------------------------------------------------------------------------
(***************************************************************************)
(* Every step of the terminals is a step of AtLeastOnce or a stutter.      *)
(***************************************************************************)
Status == [c \in PostCalls |-> StatusOf(c)]
Reached == arrived \cap PostCalls

\* The status of a call stays, or that of one call changes.
LEMMA StatusStays ==
  ASSUME NEW c, pc'[c] = pc[c], c \in confirmed' <=> c \in confirmed, Queued(c)' <=> Queued(c)
  PROVE  StatusOf(c)' = StatusOf(c)
BY DEF StatusOf

LEMMA StatusSame ==
  ASSUME \A d \in PostCalls : StatusOf(d)' = StatusOf(d)
  PROVE  Status' = Status
BY DEF Status

LEMMA StatusChange ==
  ASSUME NEW c \in PostCalls, NEW v, StatusOf(c)' = v,
         \A d \in PostCalls : d # c => StatusOf(d)' = StatusOf(d)
  PROVE  Status' = [Status EXCEPT ![c] = v]
BY DEF Status

\* Only an idle call has the status of one.
LEMMA StatusIdle ==
  ASSUME NEW c
  PROVE  StatusOf(c) = "idle" <=> pc[c] = "idle"
BY DEF StatusOf

\* A list that keeps every entry but those of the calls D, and has no other new ones.
LEMMA QueuedStays ==
  ASSUME TypeOK, TypeOK', NEW c \in Calls, NEW X, NEW Y,
         From(posts'[c.from], posts[c.from], X), Keeps(posts'[c.from], posts[c.from], Y),
         \A x \in X : x.call # c, \A y \in Y : y.call # c
  PROVE  Queued(c)' <=> Queued(c)
<1>1. c.from \in Terminals
  BY CallsAssumption
<1>2. DOMAIN posts[c.from] = 1..Len(posts[c.from]) /\ DOMAIN posts'[c.from] = 1..Len(posts'[c.from])
  <2>1. posts[c.from] \in Seq(PostEntries) /\ posts'[c.from] \in Seq(PostEntries)
    BY <1>1 DEF TypeOK
  <2> QED BY <2>1, LenProperties
<1>3. Queued(c)' => Queued(c)
  BY <1>2 DEF Queued, From
<1>4. Queued(c) => Queued(c)'
  BY <1>2 DEF Queued, Keeps
<1> QED BY <1>3, <1>4

LEMMA QueuedSame ==
  ASSUME NEW c \in Calls, posts'[c.from] = posts[c.from]
  PROVE  Queued(c)' <=> Queued(c)
BY DEF Queued

LEMMA MapPost ==
  ASSUME TypeOK, PostInv, NEW c \in Calls, Post(c)
  PROVE  c \in PostCalls /\ Promise!Submit(c)
<1>1. /\ posts' = posts /\ confirmed' = confirmed /\ arrived' = arrived /\ pc[c] = "idle"
      /\ c.op = "post" /\ pc' = [pc EXCEPT ![c] = "sent"]
  BY DEF Post, history
<1>2. c \in PostCalls /\ c \notin confirmed
  BY <1>1 DEF PostCalls, PostInv, CallOK
<1>3. StatusOf(c) = "idle" /\ StatusOf(c)' = "pending"
  BY <1>1, <1>2 DEF StatusOf, TypeOK
<1>4. ASSUME NEW d \in PostCalls, d # c PROVE StatusOf(d)' = StatusOf(d)
  <2>1. d \in Calls /\ pc'[d] = pc[d] /\ (Queued(d)' <=> Queued(d))
    BY <1>1, <1>4, QueuedSame DEF PostCalls, TypeOK
  <2> QED BY <1>1, <2>1, StatusStays
<1>5. Status' = [Status EXCEPT ![c] = "pending"] /\ Reached' = Reached
  BY <1>1, <1>2, <1>3, <1>4, StatusChange DEF Reached
<1>6. Status[c] = "idle"
  BY <1>2, <1>3 DEF Status
<1> QED BY <1>2, <1>5, <1>6 DEF Promise!Submit, Status, Reached

LEMMA MapPending ==
  ASSUME NEW c \in PostCalls, StatusOf(c) = "pending", arrived' = arrived,
         StatusOf(c)' \in {"pending", "abandoned"},
         \A d \in PostCalls : d # c => StatusOf(d)' = StatusOf(d)
  PROVE  Promise!Abandon(c) \/ UNCHANGED Promise!vars
<1>1. Reached' = Reached /\ Status[c] = "pending"
  BY DEF Reached, Status
<1>2. CASE StatusOf(c)' = "pending"
  <2>1. Status' = Status
    BY <1>2, StatusSame
  <2> QED BY <1>1, <2>1 DEF Promise!vars, Status, Reached
<1>3. CASE StatusOf(c)' = "abandoned"
  <2>1. Status' = [Status EXCEPT ![c] = "abandoned"]
    BY <1>3, StatusChange
  <2> QED BY <1>1, <2>1 DEF Promise!Abandon, Status, Reached
<1> QED BY <1>2, <1>3

LEMMA MapRest ==
  ASSUME arrived' = arrived, \A d \in PostCalls : StatusOf(d)' = StatusOf(d)
  PROVE  UNCHANGED Promise!vars
BY StatusSame DEF Promise!vars, Status, Reached

LEMMA MapEnqueue ==
  ASSUME TypeOK, TypeOK', WaitInv, PostInv, NEW c \in Calls, Enqueue(c)
  PROVE  c \in PostCalls /\ (Promise!Abandon(c) \/ UNCHANGED Promise!vars)
<1> DEFINE t == c.from
           e == [call |-> c, due |-> c.interval, counter |-> 1]
<1>1. /\ t \in Terminals /\ c.op = "post" /\ pc[c] = "sent" /\ arrived' = arrived
      /\ confirmed' = confirmed /\ pc' = [pc EXCEPT ![c] = "done"]
      /\ posts' = posts \/ posts' = [posts EXCEPT ![t] = InsertPost(posts[t], e)]
  BY CallsAssumption DEF Enqueue, WaitInv, history
<1>2. c \in PostCalls /\ c \notin confirmed /\ c \notin confirmed'
  BY <1>1 DEF PostCalls, PostInv, CallOK
<1>3. StatusOf(c) = "pending" /\ StatusOf(c)' \in {"pending", "abandoned"}
  BY <1>1, <1>2 DEF StatusOf, TypeOK
<1>4. ASSUME NEW d \in PostCalls, d # c PROVE StatusOf(d)' = StatusOf(d)
  <2>1. d \in Calls /\ d.from \in Terminals
    BY CallsAssumption DEF PostCalls
  <2>2. CASE posts'[d.from] = posts[d.from]
    <3>1. Queued(d)' <=> Queued(d)
      BY <2>1, <2>2, QueuedSame
    <3> QED BY <1>1, <1>4, <2>1, <3>1, StatusStays DEF TypeOK
  <2>3. CASE posts'[d.from] # posts[d.from]
    <3>1. d.from = t /\ posts'[t] = InsertPost(posts[t], e)
      BY <1>1, <2>1, <2>3 DEF TypeOK
    <3>2. posts[t] \in Seq(PostEntries) /\ e \in PostEntries /\ e.call = c
      BY <1>1, CallsAssumption DEF TypeOK, PostEntries
    <3> HIDE DEF e
    <3>3. From(InsertPost(posts[t], e), posts[t], {e})
      BY <3>2, InsertPostProperties
    <3>4. Keeps(InsertPost(posts[t], e), posts[t], {})
      BY <3>2, InsertPostOrder
    <3>5. /\ From(posts'[d.from], posts[d.from], {e}) /\ Keeps(posts'[d.from], posts[d.from], {})
          /\ (\A x \in {e} : x.call # d) /\ (\A x \in {} : x.call # d)
      BY <1>4, <3>1, <3>2, <3>3, <3>4
    <3>6. Queued(d)' <=> Queued(d)
      BY <2>1, <3>5, QueuedStays
    <3> QED BY <1>1, <1>4, <2>1, <3>6, StatusStays DEF TypeOK
  <2> QED BY <2>2, <2>3
<1> QED BY <1>1, <1>2, <1>3, <1>4, MapPending

LEMMA MapTime ==
  ASSUME TypeOK, NEW t \in Terminals, TimePasses(t)
  PROVE  UNCHANGED Promise!vars
<1>1. /\ posts' = [posts EXCEPT ![t] = Later(posts[t])] /\ posts[t] \in Seq(PostEntries)
      /\ pc' = pc /\ confirmed' = confirmed /\ arrived' = arrived
  BY DEF TimePasses, callVars, history, TypeOK
<1>2. ASSUME NEW d \in PostCalls PROVE Queued(d)' <=> Queued(d)
  <2>1. d \in Calls /\ d.from \in Terminals
    BY CallsAssumption DEF PostCalls
  <2>2. CASE d.from # t
    <3>1. posts'[d.from] = posts[d.from]
      BY <1>1, <2>1, <2>2 DEF TypeOK
    <3> QED BY <2>1, <3>1, QueuedSame
  <2>3. CASE d.from = t
    <3>1. posts'[t] = Later(posts[t])
      BY <1>1 DEF TypeOK
    <3>2. DOMAIN Later(posts[t]) = DOMAIN posts[t]
          /\ \A j \in DOMAIN posts[t] : Later(posts[t])[j].call = posts[t][j].call
      BY DEF Later
    <3> QED BY <2>3, <3>1, <3>2 DEF Queued
  <2> QED BY <2>2, <2>3
<1> QED BY <1>1, <1>2, StatusStays, MapRest

LEMMA MapRetransmit ==
  ASSUME TypeOK, TypeOK', PostInv, NEW t \in Terminals, Retransmit(t)
  PROVE  \E c \in PostCalls : Promise!Abandon(c) \/ UNCHANGED Promise!vars
<1> DEFINE s == posts[t]
           h == Head(s)
           n == h.counter + 1
           r == Requeue(s, h, n)
           e == Retry(h, n)
<1>1. s \in Seq(PostEntries) /\ s # <<>> /\ Ordered(s) /\ OneEach(s)
  BY DEF Retransmit, TypeOK, PostInv
<1>2. h = s[1] /\ 1 \in 1..Len(s) /\ DOMAIN s = 1..Len(s)
  BY <1>1, TailFrom, LenProperties
<1>3. h.call \in Calls /\ EntryOK(t, h) /\ n \in Nat
  BY <1>2, EntryOf
<1> PICK c \in Calls : c = h.call
  BY <1>3
<1>4. c \in PostCalls /\ c.from = t /\ pc[c] = "done" /\ c \notin confirmed /\ Queued(c)
  BY <1>2, <1>3 DEF PostCalls, EntryOK, Queued
<1>5. /\ posts' = [posts EXCEPT ![t] = r] /\ pc' = pc /\ confirmed' = confirmed
      /\ arrived' = arrived
  BY DEF Retransmit, callVars, history
<1>6. /\ Keeps(r, s, {h})
      /\ \A j \in 1..Len(r) : r[j] = e \/ \E k \in 1..Len(s) : r[j] = s[k] /\ s[k].call # c
  BY <1>1, <1>3, RequeueOrder
<1>7. posts'[t] = r /\ e.call = c
  BY <1>5 DEF TypeOK, Retry
<1> HIDE DEF h, n, r, e
<1>8. StatusOf(c) = "pending" /\ StatusOf(c)' \in {"pending", "abandoned"}
  BY <1>4, <1>5 DEF StatusOf
<1>9. ASSUME NEW d \in PostCalls, d # c PROVE StatusOf(d)' = StatusOf(d)
  <2>1. d \in Calls /\ d.from \in Terminals
    BY CallsAssumption DEF PostCalls
  <2>2. CASE d.from # t
    <3>1. posts'[d.from] = posts[d.from]
      BY <1>5, <2>1, <2>2 DEF TypeOK
    <3>2. Queued(d)' <=> Queued(d)
      BY <2>1, <3>1, QueuedSame
    <3> QED BY <1>5, <3>2, StatusStays
  <2>3. CASE d.from = t
    <3>1. From(r, s, {e})
      BY <1>6 DEF From
    <3>2. h.call # d /\ e.call # d
      BY <1>7, <1>9
    <3>3. /\ From(posts'[d.from], posts[d.from], {e}) /\ Keeps(posts'[d.from], posts[d.from], {h})
          /\ (\A x \in {e} : x.call # d) /\ (\A x \in {h} : x.call # d)
      BY <1>6, <1>7, <2>3, <3>1, <3>2
    <3>4. Queued(d)' <=> Queued(d)
      BY <2>1, <3>3, QueuedStays
    <3> QED BY <1>5, <3>4, StatusStays
  <2> QED BY <2>2, <2>3
<1> QED BY <1>4, <1>5, <1>8, <1>9, MapPending

LEMMA MapArrive ==
  ASSUME TypeOK, TypeOK', NetInv, PostInv, ResultInv', NEW t \in Terminals, NEW p \in net,
         Arrive(t, p)
  PROVE  (\E c \in PostCalls : Promise!Confirm(c) \/ Promise!Reach(c)) \/ UNCHANGED Promise!vars
<1>1. pc' = pc /\ p \in Packets /\ p.call \in Calls /\ Begun(p.call)
  BY DEF Arrive, callVars, TypeOK, Packets, NetInv, Genuine
<1>2. CASE posts' = posts /\ confirmed' = confirmed
  <2>1. \A d \in PostCalls : StatusOf(d)' = StatusOf(d)
    <3> SUFFICES ASSUME NEW d \in PostCalls PROVE StatusOf(d)' = StatusOf(d)
      OBVIOUS
    <3>1. d \in Calls
      BY DEF PostCalls
    <3>2. Queued(d)' <=> Queued(d)
      BY <1>2, <3>1, QueuedSame
    <3> QED BY <1>1, <1>2, <3>2, StatusStays
  <2>2. Status' = Status
    BY <2>1, StatusSame
  <2>3. CASE Reached' = Reached
    BY <2>2, <2>3 DEF Promise!vars, Status, Reached
  <2>4. CASE Reached' # Reached
    <3> DEFINE c == p.call
    <3>1. arrived' = arrived \cup {c} /\ c \in PostCalls
      BY <2>4 DEF Arrive, Reached
    <3>2. Status[c] # "idle"
      BY <1>1, <3>1, StatusIdle DEF Status, Begun
    <3>3. Reached' = Reached \cup {c}
      BY <3>1 DEF Reached
    <3> HIDE DEF c
    <3>4. Promise!Reach(c)
      BY <2>2, <3>2, <3>3 DEF Promise!Reach, Status, Reached
    <3> QED BY <3>1, <3>4
  <2> QED BY <2>3, <2>4
<1> DEFINE m == AckedPost(t, p)
           r == RemoveAt(posts[t], m)
<1>3. CASE /\ m # 0 /\ p.kind = ACK /\ posts' = [posts EXCEPT ![t] = r]
           /\ confirmed' = confirmed \cup {posts[t][m].call}
  <2>1. m \in 1..Len(posts[t])
    BY <1>3, AckedPostIndex
  <2> HIDE DEF m
  <2>2. posts[t] \in Seq(PostEntries) /\ OneEach(posts[t]) /\ posts[t][m].call \in Calls
        /\ EntryOK(t, posts[t][m])
    BY <2>1, EntryOf DEF PostInv
  <2> PICK c \in Calls : c = posts[t][m].call
    BY <2>2
  <2>3. c \in PostCalls /\ c.from = t /\ pc[c] = "done" /\ c \notin confirmed /\ Queued(c)
    <3>1. DOMAIN posts[t] = 1..Len(posts[t])
      BY <2>2, LenProperties
    <3> QED BY <2>1, <2>2, <3>1 DEF PostCalls, EntryOK, Queued
  <2>4. From(r, posts[t], {}) /\ Keeps(r, posts[t], {posts[t][m]}) /\ posts'[t] = r
    BY <1>3, <2>1, <2>2, RemoveAtProperties, RemovePost DEF TypeOK
  <2> HIDE DEF r
  <2>5. ASSUME NEW d \in PostCalls, d # c PROVE StatusOf(d)' = StatusOf(d)
    <3>1. d \in Calls /\ d.from \in Terminals
      BY CallsAssumption DEF PostCalls
    <3>2. Queued(d)' <=> Queued(d)
      <4>1. CASE d.from # t
        <5>1. posts'[d.from] = posts[d.from]
          BY <1>3, <3>1, <4>1 DEF TypeOK
        <5> QED BY <3>1, <5>1, QueuedSame
      <4>2. CASE d.from = t
        <5> PICK X : X = {posts[t][m]}
          OBVIOUS
        <5>1. From(posts'[d.from], posts[d.from], X) /\ Keeps(posts'[d.from], posts[d.from], X)
          BY <2>4, <4>2 DEF From
        <5>2. \A x \in X : x.call # d
          BY <2>5
        <5>3. TypeOK /\ TypeOK' /\ d \in Calls
          BY <3>1
        <5> HIDE DEF m
        <5> QED BY <5>1, <5>2, <5>3, QueuedStays
      <4> QED BY <4>1, <4>2
    <3>3. d \in confirmed' <=> d \in confirmed
      BY <1>3, <2>5
    <3> QED BY <1>1, <3>2, <3>3, StatusStays
  <2>6. StatusOf(c) = "pending" /\ StatusOf(c)' = "confirmed"
    BY <1>1, <1>3, <2>3 DEF StatusOf
  <2>7. arrived' = arrived
    BY <1>1, <1>3, CallsAssumption DEF Arrive, IsMessage
  <2>8. c \in arrived
    BY <1>3, <2>7 DEF ResultInv
  <2>9. Status' = [Status EXCEPT ![c] = "confirmed"] /\ Reached' = Reached /\ c \in Reached
    BY <2>3, <2>5, <2>6, <2>7, <2>8, StatusChange DEF Reached
  <2>10. Status[c] = "pending"
    BY <2>3, <2>6 DEF Status
  <2>11. Promise!Confirm(c)
    BY <2>9, <2>10 DEF Promise!Confirm, Status, Reached
  <2> QED BY <2>3, <2>11
<1> QED BY <1>2, <1>3 DEF Arrive, RemoveAcked

\* Message retransmission implements the safety part of AtLeastOnce for any number of messages,
\* however many datagrams are lost, duplicated or late: what is confirmed has reached its peer,
\* and neither a confirmed nor an abandoned post becomes pending again.
THEOREM PromiseKept == Spec => Promise!Safety
<1>1. Init => Promise!Init
  <2> SUFFICES ASSUME Init PROVE Promise!Init
    OBVIOUS
  <2>1. \A c \in PostCalls : StatusOf(c) = "idle"
    BY DEF Init, PostCalls, StatusOf
  <2> QED BY <2>1 DEF Init, Promise!Init
<1>2. IInv /\ PostInv /\ IInv' /\ [Next]_vars => [Promise!Next]_(Promise!vars)
  <2> SUFFICES ASSUME IInv, PostInv, IInv', [Next]_vars
               PROVE  Promise!Next \/ UNCHANGED Promise!vars
    BY Zenon
  <2>1. TypeInv /\ TypeOK /\ TypeOK' /\ WaitInv /\ NetInv /\ ResultInv'
    BY DEF IInv, TypeInv
  <2>2. ASSUME NEW c \in Calls, Post(c) PROVE Promise!Next
    <3>1. c \in PostCalls /\ Promise!Submit(c)
      BY <2>1, <2>2, MapPost
    <3> QED BY <3>1 DEF Promise!Next
  <2>3. ASSUME NEW c \in Calls, Enqueue(c) PROVE Promise!Next \/ UNCHANGED Promise!vars
    <3>1. c \in PostCalls /\ (Promise!Abandon(c) \/ UNCHANGED Promise!vars)
      BY <2>1, <2>3, MapEnqueue
    <3> QED BY <3>1 DEF Promise!Next, Promise!Settle
  <2>4. ASSUME NEW t \in Terminals, TimePasses(t) PROVE UNCHANGED Promise!vars
    BY <2>1, <2>4, MapTime
  <2>5. ASSUME NEW t \in Terminals, Retransmit(t) PROVE Promise!Next \/ UNCHANGED Promise!vars
    <3>1. PICK c \in PostCalls : Promise!Abandon(c) \/ UNCHANGED Promise!vars
      BY <2>1, <2>5, MapRetransmit
    <3> QED BY <3>1 DEF Promise!Next, Promise!Settle
  <2>6. ASSUME NEW t \in Terminals, NEW p \in net, Arrive(t, p)
        PROVE  Promise!Next \/ UNCHANGED Promise!vars
    <3>1. (\E c \in PostCalls : Promise!Confirm(c) \/ Promise!Reach(c)) \/ UNCHANGED Promise!vars
      BY <2>1, <2>6, MapArrive
    <3> QED BY <3>1 DEF Promise!Next, Promise!Settle
  <2>7. CASE PostsRest
    <3>1. ASSUME NEW d \in PostCalls PROVE StatusOf(d)' = StatusOf(d)
      <4>1. d \in Calls /\ pc'[d] = pc[d] /\ confirmed' = confirmed /\ posts' = posts
        BY <2>7 DEF PostCalls, PostsRest
      <4>2. Queued(d)' <=> Queued(d)
        BY <4>1, QueuedSame
      <4> QED BY <4>1, <4>2, StatusStays
    <3>2. arrived' = arrived
      BY <2>7 DEF PostsRest
    <3> QED BY <3>1, <3>2, MapRest
  <2> QED BY <2>1, <2>2, <2>3, <2>4, <2>5, <2>6, <2>7, PostSteps
<1> QED BY <1>1, <1>2, PostInvariance, PTL DEF Spec, Promise!Safety
=============================================================================
