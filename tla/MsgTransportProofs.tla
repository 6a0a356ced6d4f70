------------------------- MODULE MsgTransportProofs -------------------------
(***************************************************************************)
(* Proofs about MsgTransport for any messages, sizes, limits and peers:    *)
(* the bytes of a TCP connection, and the segments of big messages.        *)
(***************************************************************************)
EXTENDS MsgTransport, SequenceLemmas, FiniteSetTheorems

----------------------------------------------------------------------------
(* TCP: the bytes that are on the way, in the receiver's buffer or in the sockets. *)

WireBytes == [msg : Messages, at : Nat \ {0}]

ConnTypes ==
  /\ writeQueue \in Seq(WireBytes) /\ wire \in Seq(WireBytes) /\ readBuf \in Seq(WireBytes)
  /\ writer \in Messages \cup {"free", "flush"}
  /\ accepted \in Seq(Messages) /\ received \in Seq(Messages)

Stream == readBuf \o wire

\* the messages of which every byte was written
Written == Len(accepted) - Len(writeQueue)

\* Messages are accepted once, and received in that order.
AcceptInv ==
  /\ \A i, j \in 1..Len(accepted) : accepted[i] = accepted[j] => i = j
  /\ writer \in Messages => \A i \in 1..Len(accepted) : accepted[i] # writer
  /\ ~ open => writer = "free" /\ writeQueue = <<>>
  /\ Len(received) <= Len(accepted)
  /\ \A i \in 1..Len(received) : received[i] = accepted[i]

\* The blocks in the queue are the last messages that were accepted; only the first of them
\* may have been written in part.
QueueInv ==
  /\ Len(writeQueue) <= Len(accepted)
  /\ \A i \in 1..Len(writeQueue) :
       /\ writeQueue[i].msg = accepted[Written + i]
       /\ writeQueue[i].at \in 1..Size[writeQueue[i].msg]
       /\ i > 1 => writeQueue[i].at = 1

\* After the first byte of a message the others follow, and then the first one of the message
\* that was accepted next.
InPlace(s, acc) ==
  \A j \in 1..Len(s) : s[j].at = 1 =>
    /\ \A a \in 1..Size[s[j].msg] : j + a - 1 <= Len(s) => s[j + a - 1] = Block(s[j].msg, a)
    /\ j + Size[s[j].msg] <= Len(s) =>
         /\ s[j + Size[s[j].msg]].at = 1
         /\ \E i \in 1..(Len(acc) - 1) :
              acc[i] = s[j].msg /\ acc[i + 1] = s[j + Size[s[j].msg]].msg

\* The bytes begin with the message that is to be received next.
Begins(s, acc, k) ==
  s # <<>> => k < Len(acc) /\ s[1] = Block(acc[k + 1], 1)

StreamInv == InPlace(Stream, accepted) /\ Begins(Stream, accepted, Len(received))

\* The socket is between two messages.
Between == writeQueue = <<>> \/ writeQueue[1].at = 1

\* The last byte on the way is the one before the next that will be written.
NextInv == open =>
  IF Stream = <<>> THEN Len(received) = Written /\ Between
  ELSE IF Between
  THEN Written > 0 /\ Stream[Len(Stream)] = Block(accepted[Written], Size[accepted[Written]])
  ELSE Stream[Len(Stream)] = Block(writeQueue[1].msg, writeQueue[1].at - 1)

ConnInv == ConnTypes /\ AcceptInv /\ QueueInv /\ StreamInv /\ NextInv

LEMMA BlockFields ==
  \A m, i : Block(m, i).msg = m /\ Block(m, i).at = i /\ DOMAIN Block(m, i) = {"msg", "at"}
  BY DEF Block

\* A socket takes no more than there is.
LEMMA TakenBound ==
  ASSUME ConnTypes, NEW b \in WireBytes, b.at <= Size[b.msg]
  PROVE  /\ Left(b) \in Nat \ {0} /\ Size[b.msg] \in Nat \ {0} /\ Left(b) = Size[b.msg] - b.at + 1
         /\ \A n \in Taken(b) : n \in Nat /\ n <= Left(b)
<1>1. b.at \in Nat \ {0} /\ Size[b.msg] \in Nat  BY ConnectionAssumption DEF WireBytes
<1>2. Left(b) \in Nat \ {0}  BY <1>1 DEF Left
<1>3. Len(wire) \in Nat /\ WireMax \in Nat  BY ConnectionAssumption DEF ConnTypes
<1>4. WireMax - Len(wire) \in Int  BY <1>3
<1>5. ASSUME NEW n \in Taken(b)  PROVE n \in Nat /\ n <= Left(b)
  <2> DEFINE room == WireMax - Len(wire)
  <2>1. n \in {0} \/ n \in 1..(IF Left(b) < room THEN Left(b) ELSE room)
    BY <1>5 DEF Taken
  <2>2. room \in Int  BY <1>4
  <2> HIDE DEF room
  <2> QED  BY <1>2, <2>1, <2>2
<1>6. Left(b) = Size[b.msg] - b.at + 1  BY DEF Left
<1> QED  BY <1>1, <1>2, <1>5, <1>6

\* The bytes of a block that are written.
LEMMA BytesProperties ==
  ASSUME NEW b \in WireBytes, NEW n \in Nat
  PROVE  /\ Bytes(b, n) \in Seq(WireBytes) /\ Len(Bytes(b, n)) = n
         /\ \A k \in 1..n : Bytes(b, n)[k] = Block(b.msg, b.at + k - 1)
<1>1. \A k \in 1..n : Block(b.msg, b.at + k - 1) \in WireBytes  BY DEF Block, WireBytes
<1>2. Bytes(b, n) \in [1..n -> WireBytes]  BY <1>1 DEF Bytes
<1>3. Bytes(b, n) \in Seq(WireBytes)  BY <1>2
<1>4. Len(Bytes(b, n)) = n  BY <1>2, <1>3
<1> QED  BY <1>3, <1>4 DEF Bytes

\* b is the block whose bytes come after those of s.
Follows(b, s, acc) ==
  /\ b.at \in 1..Size[b.msg]
  /\ s # <<>> =>
       IF b.at = 1
       THEN /\ s[Len(s)].at = Size[s[Len(s)].msg]
            /\ \E i \in 1..(Len(acc) - 1) : acc[i] = s[Len(s)].msg /\ acc[i + 1] = b.msg
       ELSE s[Len(s)] = Block(b.msg, b.at - 1)

LEMMA Extend ==
  ASSUME NEW s \in Seq(WireBytes), NEW acc \in Seq(Messages), NEW acc1 \in Seq(Messages),
         Len(acc) <= Len(acc1), \A i \in 1..Len(acc) : acc1[i] = acc[i], InPlace(s, acc),
         NEW b \in WireBytes, Follows(b, s, acc1), NEW n \in 0..Left(b)
  PROVE  InPlace(s \o Bytes(b, n), acc1)
<1>0. PICK at \in Nat : at = b.at  BY DEF WireBytes
<1>1. PICK max \in Nat : /\ max = Size[b.msg] /\ 1 <= at /\ at <= max
                         /\ n \in Nat /\ n <= max - at + 1
  BY <1>0, ConnectionAssumption DEF Follows, WireBytes, Left
<1>2. PICK L \in Nat : L = Len(s)
  OBVIOUS
<1>3. PICK t : t = s \o Bytes(b, n)
  OBVIOUS
<1>4. /\ Len(t) = L + n
      /\ \A j \in 1..L : t[j] = s[j]
      /\ \A k \in 1..n : t[L + k] = Block(b.msg, at + k - 1)
  <2>1. PICK w \in Seq(WireBytes) :
          /\ w = Bytes(b, n) /\ Len(w) = n
          /\ \A k \in 1..n : w[k] = Block(b.msg, at + k - 1)
    BY <1>0, <1>1, BytesProperties
  <2>2. t = s \o w  BY <1>3, <2>1
  <2>3. /\ Len(t) = L + n
        /\ \A j \in 1..L : t[j] = s[j]
        /\ \A k \in 1..n : t[L + k] = w[k]
    <3>1. /\ Len(t) = Len(s) + Len(w)
          /\ \A j \in 1..Len(s) : t[j] = s[j]
          /\ \A k \in 1..Len(w) : t[Len(s) + k] = w[k]
      BY <2>2, ConcatIndices
    <3> QED  BY <1>2, <2>1, <3>1
  <2> QED  BY <2>1, <2>3
<1> SUFFICES InPlace(t, acc1)
  BY <1>3
<1> SUFFICES ASSUME NEW j \in 1..Len(t), t[j].at = 1
             PROVE  /\ \A a \in 1..Size[t[j].msg] : j + a - 1 <= Len(t) =>
                         t[j + a - 1] = Block(t[j].msg, a)
                    /\ j + Size[t[j].msg] <= Len(t) =>
                         /\ t[j + Size[t[j].msg]].at = 1
                         /\ \E i \in 1..(Len(acc1) - 1) :
                              acc1[i] = t[j].msg /\ acc1[i + 1] = t[j + Size[t[j].msg]].msg
  BY DEF InPlace
<1>5. CASE j \in 1..L
  <2>1. PICK m \in Messages : m = t[j].msg /\ m = s[j].msg
    <3>1. s[j] \in WireBytes /\ t[j] = s[j]  BY <1>2, <1>4, <1>5
    <3> QED  BY <3>1 DEF WireBytes
  <2>2. PICK size \in Nat : size = Size[m] /\ size > 0  BY ConnectionAssumption
  <2>0. size > 0 /\ j \in Nat /\ j >= 1 /\ j <= L  BY <1>5, <2>2
  <2>3. /\ \A a \in 1..size : j + a - 1 <= L => s[j + a - 1] = Block(m, a)
        /\ j + size <= L =>
             /\ s[j + size].at = 1
             /\ \E i \in 1..(Len(acc) - 1) : acc[i] = m /\ acc[i + 1] = s[j + size].msg
    <3>1. s[j].at = 1 /\ j \in 1..Len(s)  BY <1>2, <1>4, <1>5
    <3> QED  BY <1>2, <2>1, <2>2, <3>1 DEF InPlace
  \* of a message that is not complete yet b is the next part
  <2>4. L - j + 1 < size => at > 1 /\ b.msg = m /\ at - 1 = L - j + 1
    <3> SUFFICES ASSUME L - j + 1 < size  PROVE at > 1 /\ b.msg = m /\ at - 1 = L - j + 1
      OBVIOUS
    <3>1. s[L] = Block(m, L - j + 1) /\ s # <<>>
      <4>1. PICK a \in 1..size : a = L - j + 1  BY <1>5, <2>2
      <4>2. j + a - 1 = L /\ L <= L  BY <1>5, <4>1
      <4>3. s[j + a - 1] = Block(m, a)  BY <2>3, <4>2
      <4>4. s # <<>>  BY <1>2, <1>5
      <4> QED  BY <4>1, <4>2, <4>3, <4>4
    <3>2. s[L].msg = m /\ s[L].at = L - j + 1  BY <3>1, BlockFields
    <3>3. at # 1  BY <1>0, <1>1, <1>2, <1>5, <2>2, <3>1, <3>2 DEF Follows
    <3>4. s[L] = Block(b.msg, at - 1)  BY <1>0, <1>1, <1>2, <3>1, <3>3 DEF Follows
    <3>5. s[L].msg = b.msg /\ s[L].at = at - 1  BY <3>4, BlockFields
    <3> QED  BY <1>1, <3>2, <3>3, <3>5
  <2>5. ASSUME NEW a \in 1..size, j + a - 1 <= L + n  PROVE t[j + a - 1] = Block(m, a)
    <3>1. CASE j + a - 1 <= L
      <4>1. j + a - 1 \in 1..L  BY <1>5, <2>2, <2>5, <3>1
      <4> QED  BY <1>4, <2>3, <2>5, <3>1, <4>1
    <3>2. CASE j + a - 1 > L
      <4>1. PICK k \in 1..n : j + a - 1 = L + k
        <5>1. j + a - 1 - L \in 1..n /\ j + a - 1 = L + (j + a - 1 - L)
          BY <1>1, <1>5, <2>2, <2>5, <3>2
        <5> QED  BY <5>1
      <4>2. L - j + 1 < size  BY <1>5, <2>2, <2>5, <3>2
      <4>3. b.msg = m /\ at + k - 1 = a  BY <1>1, <2>0, <2>4, <2>5, <4>1, <4>2
      <4>4. t[L + k] = Block(b.msg, at + k - 1)  BY <1>4
      <4> QED  BY <4>1, <4>3, <4>4
    <3> QED  BY <1>5, <2>2, <2>5, <3>1, <3>2
  <2>6. ASSUME j + size <= L + n
        PROVE  /\ t[j + size].at = 1
               /\ \E i \in 1..(Len(acc1) - 1) : acc1[i] = m /\ acc1[i + 1] = t[j + size].msg
    <3>1. CASE j + size <= L
      <4>1. j + size \in 1..L  BY <1>5, <2>2, <3>1
      <4>2. PICK i \in 1..(Len(acc) - 1) : acc[i] = m /\ acc[i + 1] = s[j + size].msg
        BY <2>3, <3>1
      <4>3. Len(acc) \in Nat /\ Len(acc1) \in Nat
        OBVIOUS
      <4>4. i \in 1..Len(acc) /\ i + 1 \in 1..Len(acc) /\ i \in 1..(Len(acc1) - 1)
        BY <4>2, <4>3
      <4> QED  BY <1>4, <2>3, <3>1, <4>1, <4>2, <4>4
    <3>2. CASE j + size > L
      <4>1. L - j + 1 >= size
        <5> SUFFICES ASSUME L - j + 1 < size  PROVE FALSE
          BY <2>0
        <5>1. max = size /\ at - 1 = L - j + 1  BY <1>1, <2>2, <2>4
        <5> QED  BY <1>1, <2>0, <2>6, <5>1
      <4>2. j + size = L + 1  BY <2>0, <3>2, <4>1
      <4>3. s[L] = Block(m, size) /\ s # <<>>
        <5>1. j + size - 1 = L /\ size \in 1..size /\ L <= L  BY <2>0, <4>2
        <5>2. s # <<>>  BY <1>2, <1>5
        <5>3. s[j + size - 1] = Block(m, size)  BY <2>3, <5>1
        <5> QED  BY <5>1, <5>2, <5>3
      <4>4. s[L].msg = m /\ s[L].at = size  BY <4>3, BlockFields
      <4>5. at = 1
        <5> SUFFICES ASSUME at # 1  PROVE FALSE
          OBVIOUS
        <5>1. s[L] = Block(b.msg, at - 1)  BY <1>0, <1>1, <1>2, <4>3 DEF Follows
        <5>2. b.msg = m /\ at - 1 = size  BY <4>4, <5>1, BlockFields
        <5> QED  BY <1>1, <2>2, <5>2
      <4>6. \E i \in 1..(Len(acc1) - 1) : acc1[i] = m /\ acc1[i + 1] = b.msg
        BY <1>0, <1>1, <1>2, <4>3, <4>4, <4>5 DEF Follows
      <4>7. 1 \in 1..n  BY <1>1, <1>5, <2>2, <2>6, <4>2
      <4>8. t[L + 1] = Block(b.msg, at + 1 - 1) /\ at + 1 - 1 = 1  BY <1>4, <4>5, <4>7
      <4> QED  BY <4>2, <4>6, <4>8, BlockFields
    <3> QED  BY <1>5, <2>2, <3>1, <3>2
  <2> QED  BY <1>4, <2>1, <2>2, <2>5, <2>6
<1>6. CASE j \notin 1..L
  <2>1. PICK k \in 1..n : j = L + k
    <3>1. j - L \in 1..n /\ j = L + (j - L)  BY <1>1, <1>4, <1>6
    <3> QED  BY <3>1
  <2>2. t[j] = Block(b.msg, at + k - 1)  BY <1>4, <2>1
  <2>3. t[j].msg = b.msg /\ at + k - 1 = 1  BY <2>2, BlockFields
  <2>4. at = 1 /\ j = L + 1  BY <1>1, <2>1, <2>3
  <2>5. ASSUME NEW a \in 1..max, j + a - 1 <= Len(t)
        PROVE  t[j + a - 1] = Block(b.msg, a)
    <3>1. a \in 1..n /\ j + a - 1 = L + a /\ at + a - 1 = a
      BY <1>1, <1>4, <2>4, <2>5
    <3> QED  BY <1>4, <3>1
  <2>6. ~ (j + max <= Len(t))  BY <1>1, <1>4, <2>4
  <2> QED  BY <1>1, <2>3, <2>5, <2>6
<1> QED  BY <1>5, <1>6

LEMMA ThreeParts ==
  ASSUME NEW s \in Seq(WireBytes), NEW t \in Seq(WireBytes), NEW u \in Seq(WireBytes)
  PROVE  (s \o t) \o u = s \o (t \o u)
  BY ConcatAssociative

\* A write of n bytes of the block that is next; acc1 is what has then been accepted.
LEMMA WriteStep ==
  ASSUME ConnInv, open, NEW b \in WireBytes, b.at \in 1..Size[b.msg], NEW n \in 0..Left(b),
         NEW acc1 \in Seq(Messages), Written + 1 <= Len(acc1), b.msg = acc1[Written + 1],
         Len(accepted) <= Len(acc1), \A i \in 1..Len(accepted) : acc1[i] = accepted[i],
         b.at = 1 <=> Between,
         ~ Between => b.msg = writeQueue[1].msg /\ b.at = writeQueue[1].at,
         wire' = wire \o Bytes(b, n), UNCHANGED <<readBuf, received>>
  PROVE  /\ wire' \in Seq(WireBytes)
         /\ InPlace(Stream', acc1) /\ Begins(Stream', acc1, Len(received))
         /\ n = 0 => Stream' = Stream
         /\ n > 0 => /\ Stream' # <<>>
                     /\ Stream'[Len(Stream')] = Block(b.msg, b.at + n - 1)
<1>0. PICK a \in Seq(WireBytes), c \in Seq(WireBytes) : a = readBuf /\ c = wire
  BY DEF ConnInv, ConnTypes
<1>1. PICK s \in Seq(WireBytes) : s = Stream /\ s = a \o c
  <2>1. Stream = a \o c  BY <1>0 DEF Stream
  <2>2. a \o c \in Seq(WireBytes)  BY ConcatIndices
  <2> QED  BY <2>1, <2>2
<1>2. PICK L \in Nat : L = Len(s)  BY <1>1
<1>3. n \in Nat
  <2>1. Left(b) \in Int  BY ConnectionAssumption DEF Left, WireBytes
  <2> QED  BY <2>1
<1>4. PICK w \in Seq(WireBytes) :
        /\ w = Bytes(b, n) /\ Len(w) = n
        /\ \A k \in 1..n : w[k] = Block(b.msg, b.at + k - 1)
  BY <1>3, BytesProperties
<1>5. PICK t \in Seq(WireBytes) : t = s \o w
  <2>1. s \o w \in Seq(WireBytes)  BY ConcatIndices
  <2> QED  BY <2>1
<1>6. wire' \in Seq(WireBytes) /\ Stream' = t
  <2>1. wire' = c \o w /\ readBuf' = a  BY <1>0, <1>4
  <2>2. Stream' = a \o (c \o w)  BY <2>1 DEF Stream
  <2>3. (a \o c) \o w = a \o (c \o w)  BY ThreeParts
  <2>4. c \o w \in Seq(WireBytes)  BY ConcatIndices
  <2> QED  BY <1>1, <1>5, <2>1, <2>2, <2>3, <2>4
<1>7. /\ Len(t) = L + n
      /\ \A j \in 1..L : t[j] = s[j]
      /\ \A k \in 1..n : t[L + k] = w[k]
  <2>1. /\ Len(t) = Len(s) + Len(w)
        /\ \A j \in 1..Len(s) : t[j] = s[j]
        /\ \A k \in 1..Len(w) : t[Len(s) + k] = w[k]
    BY <1>5, ConcatIndices
  <2> QED  BY <1>2, <1>4, <2>1
<1>8. Written \in Int /\ Written <= Len(accepted) /\ accepted \in Seq(Messages)
  <2>1. Len(accepted) \in Nat /\ Len(writeQueue) \in Nat /\ accepted \in Seq(Messages)
    BY DEF ConnInv, ConnTypes
  <2> QED  BY <2>1 DEF Written
<1>9. Follows(b, s, acc1)
  <2> SUFFICES ASSUME s # <<>>
               PROVE  IF b.at = 1
                      THEN /\ s[L].at = Size[s[L].msg]
                           /\ \E i \in 1..(Len(acc1) - 1) : acc1[i] = s[L].msg /\ acc1[i + 1] = b.msg
                      ELSE s[L] = Block(b.msg, b.at - 1)
    BY <1>2 DEF Follows
  <2>1. CASE Between
    <3>1. Written > 0 /\ s[L] = Block(accepted[Written], Size[accepted[Written]])
      BY <1>1, <1>2, <2>1 DEF ConnInv, NextInv
    <3>2. s[L].msg = accepted[Written] /\ s[L].at = Size[s[L].msg]  BY <3>1, BlockFields
    <3>3. PICK k \in Int : k = Written  BY <1>8
    <3>4. k \in 1..Len(accepted) /\ k \in 1..(Len(acc1) - 1)
      <4>1. Len(acc1) \in Nat /\ Len(accepted) \in Nat  BY <1>8
      <4> QED  BY <1>8, <3>1, <3>3, <4>1
    <3>5. acc1[k] = s[L].msg /\ acc1[k + 1] = b.msg  BY <3>2, <3>3, <3>4
    <3> QED  BY <2>1, <3>2, <3>4, <3>5
  <2>2. CASE ~ Between
    BY <1>1, <1>2, <2>2 DEF ConnInv, NextInv
  <2> QED  BY <2>1, <2>2
<1>10. InPlace(t, acc1)
  <2>1. InPlace(s, accepted)  BY <1>1 DEF ConnInv, StreamInv
  <2>2. InPlace(s \o Bytes(b, n), acc1)  BY <1>8, <1>9, <2>1, Extend
  <2> QED  BY <1>4, <1>5, <2>2
<1>11. Begins(t, acc1, Len(received))
  <2>1. CASE s # <<>>
    <3>1. Len(received) < Len(accepted) /\ s[1] = Block(accepted[Len(received) + 1], 1)
      BY <1>1, <2>1 DEF ConnInv, StreamInv, Begins
    <3>2. 1 \in 1..L  BY <1>2, <2>1
    <3>3. Len(received) \in Nat /\ Len(accepted) \in Nat /\ Len(acc1) \in Nat
      BY <1>8 DEF ConnInv, ConnTypes
    <3>4. Len(received) + 1 \in 1..Len(accepted) /\ Len(received) < Len(acc1)  BY <3>1, <3>3
    <3> QED  BY <1>7, <3>1, <3>2, <3>4 DEF Begins
  <2>2. CASE s = <<>> /\ t # <<>>
    <3>1. Len(received) = Written /\ Between  BY <1>1, <2>2 DEF ConnInv, NextInv
    <3>2. L = 0 /\ 1 \in 1..n  BY <1>2, <1>3, <1>7, <2>2
    <3>3. t[1] = w[1] /\ w[1] = Block(b.msg, b.at + 1 - 1)  BY <1>4, <1>7, <3>2
    <3>4. b.at = 1 /\ b.msg = acc1[Len(received) + 1]  BY <3>1
    <3>5. Len(received) < Len(acc1)
      <4>1. Len(acc1) \in Nat
        OBVIOUS
      <4> QED  BY <1>8, <3>1, <4>1
    <3> QED  BY <3>3, <3>4, <3>5 DEF Begins
  <2>3. CASE t = <<>>  BY <2>3 DEF Begins
  <2> QED  BY <2>1, <2>2, <2>3
<1>12. n = 0 => t = s
  <2> SUFFICES ASSUME n = 0  PROVE t = s
    OBVIOUS
  <2>1. w = <<>>  BY <1>4
  <2> QED  BY <1>5, <2>1
<1>13. n > 0 => t # <<>> /\ t[Len(t)] = Block(b.msg, b.at + n - 1)
  <2> SUFFICES ASSUME n > 0  PROVE t # <<>> /\ t[L + n] = Block(b.msg, b.at + n - 1)
    BY <1>7
  <2>1. n \in 1..n /\ L + n # 0  BY <1>3
  <2> QED  BY <1>4, <1>7, <2>1
<1> QED  BY <1>1, <1>6, <1>10, <1>11, <1>12, <1>13

\* What is left in place when the first k bytes are gone.
LEMMA Drop ==
  ASSUME NEW s \in Seq(WireBytes), NEW acc \in Seq(Messages), NEW k \in 0..Len(s),
         InPlace(s, acc)
  PROVE  InPlace(SubSeq(s, k + 1, Len(s)), acc)
<1>1. PICK t : t = SubSeq(s, k + 1, Len(s))
  OBVIOUS
<1>2. PICK L \in Nat : L = Len(s)  BY LenProperties
<1>3. k \in Nat /\ k <= L  BY <1>2
<1>4. t \in Seq(WireBytes) /\ Len(t) = L - k /\ \A j \in 1..(L - k) : t[j] = s[k + j]
  BY <1>1, <1>2, DropProperties
<1> SUFFICES ASSUME NEW j \in 1..(L - k), t[j].at = 1
             PROVE  /\ \A a \in 1..Size[t[j].msg] : j + a - 1 <= L - k =>
                         t[j + a - 1] = Block(t[j].msg, a)
                    /\ j + Size[t[j].msg] <= L - k =>
                         /\ t[j + Size[t[j].msg]].at = 1
                         /\ \E i \in 1..(Len(acc) - 1) :
                              acc[i] = t[j].msg /\ acc[i + 1] = t[j + Size[t[j].msg]].msg
  BY <1>1, <1>4 DEF InPlace
<1>5. PICK m \in Messages : m = t[j].msg
  <2>1. t[j] \in WireBytes  BY <1>4
  <2> QED  BY <2>1 DEF WireBytes
<1>6. PICK size \in Nat : size = Size[m] /\ size > 0  BY ConnectionAssumption
<1>7. PICK h \in 1..L : h = k + j /\ s[h] = t[j]  BY <1>3, <1>4
<1>8. /\ \A a \in 1..size : h + a - 1 <= L => s[h + a - 1] = Block(m, a)
      /\ h + size <= L =>
           /\ s[h + size].at = 1
           /\ \E i \in 1..(Len(acc) - 1) : acc[i] = m /\ acc[i + 1] = s[h + size].msg
  BY <1>2, <1>5, <1>6, <1>7 DEF InPlace
<1>9. ASSUME NEW a \in 1..size, j + a - 1 <= L - k  PROVE t[j + a - 1] = Block(m, a)
  <2>1. j + a - 1 \in 1..(L - k) /\ k + (j + a - 1) = h + a - 1 /\ h + a - 1 <= L
    BY <1>3, <1>7, <1>9
  <2> QED  BY <1>4, <1>8, <2>1
<1>10. ASSUME j + size <= L - k
       PROVE  /\ t[j + size].at = 1
              /\ \E i \in 1..(Len(acc) - 1) : acc[i] = m /\ acc[i + 1] = t[j + size].msg
  <2>1. j + size \in 1..(L - k) /\ k + (j + size) = h + size /\ h + size <= L
    BY <1>3, <1>6, <1>7, <1>10
  <2>2. t[j + size] = s[h + size]  BY <1>4, <2>1
  <2> QED  BY <1>8, <2>1, <2>2
<1> QED  BY <1>5, <1>6, <1>9, <1>10

\* Only the writer changes.
LEMMA WriterStep ==
  ASSUME ConnInv, UNCHANGED <<writeQueue, wire, readBuf, accepted, received, open>>,
         writer' \in Messages \cup {"free", "flush"}, open \/ writer' = "free",
         writer' \in Messages => \A i \in 1..Len(accepted) : accepted[i] # writer'
  PROVE  ConnInv'
<1>1. /\ writeQueue' = writeQueue /\ wire' = wire /\ readBuf' = readBuf
      /\ accepted' = accepted /\ received' = received /\ open' = open
  OBVIOUS
<1>2. Stream' = Stream /\ Written' = Written /\ Between' = Between
  BY <1>1 DEF Stream, Written, Between
<1>3. ConnTypes'  BY <1>1 DEF ConnInv, ConnTypes
<1>4. AcceptInv'  BY <1>1 DEF ConnInv, AcceptInv
<1>5. QueueInv'  BY <1>1, <1>2 DEF ConnInv, QueueInv
<1>6. StreamInv'
  <2>1. Begins(Stream, accepted, Len(received)) /\ InPlace(Stream, accepted)
    BY DEF ConnInv, StreamInv
  <2>2. Begins(Stream', accepted', Len(received')) /\ InPlace(Stream', accepted')
    BY <1>1, <1>2, <2>1
  <2> QED  BY <2>2 DEF StreamInv
<1>7. NextInv'  BY <1>1, <1>2 DEF ConnInv, NextInv
<1> QED  BY <1>3, <1>4, <1>5, <1>6, <1>7 DEF ConnInv

\* The messages accepted when the writer leaves.
LEMMA AcceptStep ==
  ASSUME ConnInv, open, writer' = "free", received' = received, open' = open,
         accepted' = accepted \/ (writer \in Messages /\ accepted' = Append(accepted, writer))
  PROVE  AcceptInv'
<1>1. PICK acc \in Seq(Messages), rec \in Seq(Messages) : acc = accepted /\ rec = received
  BY DEF ConnInv, ConnTypes
<1>2. PICK len \in Nat, m \in Nat : len = Len(acc) /\ m = Len(rec)  BY LenProperties
<1>3. PICK w : w = writer
  OBVIOUS
<1>4. /\ \A i, j \in 1..len : acc[i] = acc[j] => i = j
      /\ w \in Messages => \A i \in 1..len : acc[i] # w
      /\ m <= len /\ \A i \in 1..m : rec[i] = acc[i]
  BY <1>1, <1>2, <1>3 DEF ConnInv, AcceptInv
<1>5. PICK acc1 : acc1 = accepted'
  OBVIOUS
<1>6. CASE acc1 = acc
  <2>1. accepted' = accepted /\ writer' \notin Messages
    BY <1>1, <1>5, <1>6, ConnectionAssumption
  <2> QED  BY <2>1 DEF ConnInv, AcceptInv
<1>7. CASE w \in Messages /\ acc1 = Append(acc, w)
  <2>1. Len(acc1) = len + 1 /\ acc1[len + 1] = w /\ \A i \in 1..len : acc1[i] = acc[i]
    BY <1>2, <1>7, AppendProperties
  <2>2. ASSUME NEW i \in 1..(len + 1), NEW j \in 1..(len + 1), acc1[i] = acc1[j]  PROVE i = j
    <3>1. CASE i \in 1..len /\ j \in 1..len
      <4>1. acc1[i] = acc[i] /\ acc1[j] = acc[j]  BY <2>1, <3>1
      <4> QED  BY <1>4, <2>2, <3>1, <4>1
    <3>2. CASE i = len + 1 /\ j \in 1..len
      BY <1>4, <1>7, <2>1, <2>2, <3>2
    <3>3. CASE j = len + 1 /\ i \in 1..len
      BY <1>4, <1>7, <2>1, <2>2, <3>3
    <3>4. CASE i = len + 1 /\ j = len + 1
      BY <3>4
    <3>5. i \in 1..len \/ i = len + 1
      OBVIOUS
    <3>6. j \in 1..len \/ j = len + 1
      OBVIOUS
    <3> QED  BY <3>1, <3>2, <3>3, <3>4, <3>5, <3>6
  <2>3. m <= len + 1
    BY <1>4
  <2>4. ASSUME NEW i \in 1..m  PROVE rec[i] = acc1[i]
    <3>1. i \in 1..len  BY <1>4
    <3> QED  BY <1>4, <2>1, <3>1
  <2>5. \A i, j \in 1..Len(accepted') : accepted'[i] = accepted'[j] => i = j
    BY <1>5, <2>1, <2>2
  <2>6. Len(received') <= Len(accepted') /\ \A i \in 1..Len(received') : received'[i] = accepted'[i]
    BY <1>1, <1>2, <1>5, <2>1, <2>3, <2>4
  <2>7. writer' \notin Messages  BY ConnectionAssumption
  <2> QED  BY <2>5, <2>6, <2>7 DEF AcceptInv
<1> QED  BY <1>1, <1>3, <1>5, <1>6, <1>7

\* The block at the front of the queue.
LEMMA QueueFront ==
  ASSUME ConnInv, writeQueue # <<>>
  PROVE  /\ Head(writeQueue) = writeQueue[1] /\ writeQueue[1] \in WireBytes
         /\ writeQueue[1].at \in 1..Size[writeQueue[1].msg]
         /\ Written \in Nat /\ Written + 1 <= Len(accepted)
         /\ writeQueue[1].msg = accepted[Written + 1]
         /\ Len(writeQueue) \in Nat \ {0} /\ Len(accepted) \in Nat
<1>1. writeQueue \in Seq(WireBytes) /\ accepted \in Seq(Messages)  BY DEF ConnInv, ConnTypes
<1>2. Len(writeQueue) \in Nat \ {0} /\ Len(accepted) \in Nat  BY <1>1, EmptySeq, LenProperties
<1>3. 1 \in 1..Len(writeQueue)  BY <1>2
<1>4. Head(writeQueue) = writeQueue[1] /\ writeQueue[1] \in WireBytes
  BY <1>1, <1>3, ElementOfSeq
<1>5. Len(writeQueue) <= Len(accepted)  BY DEF ConnInv, QueueInv
<1>6. Written \in Nat /\ Written + 1 <= Len(accepted)  BY <1>2, <1>5 DEF Written
<1>7. writeQueue[1].msg = accepted[Written + 1]
        /\ writeQueue[1].at \in 1..Size[writeQueue[1].msg]
  BY <1>3 DEF ConnInv, QueueInv
<1> QED  BY <1>2, <1>4, <1>6, <1>7

\* The front block leaves completely.
LEMMA FlushBlockStep ==
  ASSUME ConnInv, FlushBlock
  PROVE  ConnInv'
<1>1. /\ writer # "free" /\ writeQueue # <<>> /\ writeQueue' = Tail(writeQueue)
      /\ Left(Head(writeQueue)) \in Taken(Head(writeQueue))
      /\ wire' = wire \o Bytes(Head(writeQueue), Left(Head(writeQueue)))
      /\ writer' = writer /\ accepted' = accepted /\ readBuf' = readBuf
      /\ received' = received /\ open' = open
  BY DEF FlushBlock, recvVars
<1>2. PICK b \in WireBytes : b = writeQueue[1] /\ b = Head(writeQueue)  BY <1>1, QueueFront
<1>3. PICK k \in Nat : k = Written  BY <1>1, QueueFront
<1>4. PICK acc \in Seq(Messages) : acc = accepted  BY DEF ConnInv, ConnTypes
<1>5. PICK q \in Seq(WireBytes) : q = writeQueue /\ q # <<>>
  BY <1>1 DEF ConnInv, ConnTypes
<1>6. PICK l \in Nat, len \in Nat : l = Len(q) /\ l > 0 /\ len = Len(acc) /\ l <= len /\ k = len - l
  <2>1. Len(q) \in Nat \ {0} /\ Len(acc) \in Nat  BY <1>1, <1>4, <1>5, QueueFront
  <2>2. k = Len(acc) - Len(q)  BY <1>3, <1>4, <1>5 DEF Written
  <2> QED  BY <2>1, <2>2
<1>7. /\ Left(b) \in Nat /\ Left(b) > 0 /\ Left(b) = Size[b.msg] - b.at + 1
      /\ b.at \in 1..Size[b.msg] /\ Size[b.msg] \in Nat
  <2>1. b.at \in 1..Size[b.msg] /\ Size[b.msg] \in Nat
    BY <1>1, <1>2, QueueFront, ConnectionAssumption DEF WireBytes
  <2> QED  BY <2>1 DEF Left
<1>8. b.msg = acc[k + 1] /\ k + 1 <= len  BY <1>1, <1>2, <1>3, <1>4, <1>6, QueueFront
<1>9. open  BY <1>1 DEF ConnInv, AcceptInv
<1>10. /\ wire' \in Seq(WireBytes) /\ InPlace(Stream', acc) /\ Begins(Stream', acc, Len(received))
       /\ Stream' # <<>> /\ Stream'[Len(Stream')] = Block(b.msg, b.at + Left(b) - 1)
  <2>1. b.at = 1 <=> Between  BY <1>1, <1>2 DEF Between
  <2>2. Left(b) \in 0..Left(b)  BY <1>7
  <2>3. wire' = wire \o Bytes(b, Left(b))  BY <1>1, <1>2
  <2>4. b.msg = writeQueue[1].msg /\ b.at = writeQueue[1].at  BY <1>2
  <2>5. /\ Written + 1 <= Len(acc) /\ b.msg = acc[Written + 1] /\ Len(accepted) <= Len(acc)
        /\ \A i \in 1..Len(accepted) : acc[i] = accepted[i]
    BY <1>3, <1>4, <1>6, <1>8
  <2>6. UNCHANGED <<readBuf, received>>  BY <1>1
  <2> QED  BY <1>7, <1>9, <2>1, <2>2, <2>3, <2>4, <2>5, <2>6, WriteStep
<1>11. PICK r \in Seq(WireBytes) :
         r = writeQueue' /\ Len(r) = l - 1 /\ \A i \in 1..(l - 1) : r[i] = q[i + 1]
  <2>1. /\ Tail(q) \in Seq(WireBytes) /\ Len(Tail(q)) = l - 1
        /\ \A i \in 1..Len(Tail(q)) : Tail(q)[i] = q[i + 1]
    BY <1>5, <1>6, HeadTailProperties
  <2> QED  BY <1>1, <1>5, <2>1
<1>12. ConnTypes'  BY <1>1, <1>10, <1>11 DEF ConnInv, ConnTypes
<1>13. AcceptInv'  BY <1>1, <1>9 DEF ConnInv, AcceptInv
<1>14. Written' = k + 1
  <2>1. Len(accepted') = len /\ Len(writeQueue') = l - 1  BY <1>1, <1>4, <1>6, <1>11
  <2>2. Written' = len - (l - 1)  BY <2>1 DEF Written
  <2> QED  BY <1>6, <2>2
<1>15. \A i \in 1..(l - 1) : /\ r[i].msg = acc[k + 1 + i]
                             /\ r[i].at \in 1..Size[r[i].msg] /\ r[i].at = 1
  <2> SUFFICES ASSUME NEW i \in 1..(l - 1)
               PROVE  r[i].msg = acc[k + 1 + i] /\ r[i].at \in 1..Size[r[i].msg] /\ r[i].at = 1
    OBVIOUS
  <2>1. i + 1 \in 1..l /\ i + 1 > 1 /\ k + (i + 1) = k + 1 + i  BY <1>6
  <2>2. /\ q[i + 1].msg = acc[k + (i + 1)] /\ q[i + 1].at = 1
        /\ q[i + 1].at \in 1..Size[q[i + 1].msg]
    BY <1>3, <1>4, <1>5, <1>6, <2>1 DEF ConnInv, QueueInv
  <2> QED  BY <1>11, <2>1, <2>2
<1>16. QueueInv'
  <2>1. Len(writeQueue') <= Len(accepted')  BY <1>1, <1>4, <1>6, <1>11
  <2>2. \A i \in 1..Len(writeQueue') :
          /\ writeQueue'[i].msg = accepted'[Written' + i]
          /\ writeQueue'[i].at \in 1..Size[writeQueue'[i].msg]
          /\ i > 1 => writeQueue'[i].at = 1
    BY <1>1, <1>4, <1>11, <1>14, <1>15
  <2> QED  BY <2>1, <2>2 DEF QueueInv
<1>17. StreamInv'  BY <1>1, <1>4, <1>10 DEF StreamInv
<1>18. NextInv'
  <2>1. Between'
    <3>1. r = <<>> \/ 1 \in 1..(l - 1)
      <4>1. r # <<>> => Len(r) # 0  BY EmptySeq
      <4> QED  BY <1>6, <1>11, <4>1
    <3>2. writeQueue' = <<>> \/ writeQueue'[1].at = 1  BY <1>11, <1>15, <3>1
    <3> QED  BY <3>2 DEF Between
  <2>2. Written' > 0 /\ accepted'[Written'] = b.msg  BY <1>1, <1>4, <1>8, <1>14
  <2>3. Stream'[Len(Stream')] = Block(b.msg, Size[b.msg])
    <3>1. PICK at \in Nat, max \in Nat : at = b.at /\ max = Size[b.msg]  BY <1>7
    <3>2. b.at + Left(b) - 1 = Size[b.msg]  BY <1>7, <3>1
    <3> QED  BY <1>10, <3>2
  <2> QED  BY <1>10, <2>1, <2>2, <2>3 DEF NextInv
<1> QED  BY <1>12, <1>13, <1>16, <1>17, <1>18 DEF ConnInv

\* A part of the front block, or nothing, leaves; the writer's message may be queued.
LEMMA FlushBlockedStep ==
  ASSUME ConnInv, FlushBlocked
  PROVE  ConnInv'
<1>1. /\ writer # "free" /\ writeQueue # <<>> /\ writer' = "free" /\ readBuf' = readBuf
      /\ received' = received /\ open' = open
  BY DEF FlushBlocked, recvVars
<1>2. PICK b \in WireBytes : b = writeQueue[1] /\ b = Head(writeQueue)  BY <1>1, QueueFront
<1>3. PICK k \in Nat : k = Written  BY <1>1, QueueFront
<1>4. PICK acc \in Seq(Messages) : acc = accepted  BY DEF ConnInv, ConnTypes
<1>5. PICK q \in Seq(WireBytes) : q = writeQueue /\ q # <<>>
  BY <1>1 DEF ConnInv, ConnTypes
<1>6. PICK l \in Nat, len \in Nat : l = Len(q) /\ l > 0 /\ len = Len(acc) /\ l <= len /\ k = len - l
  <2>1. Len(q) \in Nat \ {0} /\ Len(acc) \in Nat  BY <1>1, <1>4, <1>5, QueueFront
  <2>2. k = Len(acc) - Len(q)  BY <1>3, <1>4, <1>5 DEF Written
  <2> QED  BY <2>1, <2>2
<1>7. PICK at \in Nat, max \in Nat :
        at = b.at /\ max = Size[b.msg] /\ at >= 1 /\ at <= max /\ Left(b) = max - at + 1
  <2>1. b.at \in 1..Size[b.msg] /\ Size[b.msg] \in Nat
    BY <1>1, <1>2, QueueFront, ConnectionAssumption DEF WireBytes
  <2> QED  BY <2>1 DEF Left
<1>8. PICK n \in Nat, queued \in BOOLEAN :
        /\ n < Left(b) /\ wire' = wire \o Bytes(b, n)
        /\ queued => writer \in Messages
        /\ writeQueue' = IF queued THEN Append(PopFront(q, n), Block(writer, 1)) ELSE PopFront(q, n)
        /\ accepted' = IF queued THEN Append(acc, writer) ELSE acc
  <2>1. PICK n \in Taken(b), queued \in BOOLEAN :
          /\ n < Left(b) /\ wire' = wire \o Bytes(b, n)
          /\ queued => writer \in Messages
          /\ writeQueue' = IF queued THEN Append(PopFront(q, n), Block(writer, 1))
                                     ELSE PopFront(q, n)
          /\ accepted' = IF queued THEN Append(acc, writer) ELSE acc
    BY <1>2, <1>4, <1>5 DEF FlushBlocked
  <2>2. n \in Nat
    <3>1. b.at <= Size[b.msg]  BY <1>7
    <3> QED  BY <3>1, TakenBound DEF ConnInv
  <2> QED  BY <2>1, <2>2
<1>9. PICK w \in Messages \cup {"free", "flush"} : w = writer
  BY DEF ConnInv, ConnTypes
<1>10. PICK rest \in Seq(WireBytes) :
         /\ rest = PopFront(q, n) /\ Len(rest) = l /\ rest[1] = Block(b.msg, at + n)
         /\ \A i \in 2..l : rest[i] = q[i]
  <2>0. PICK h, t : h = <<Block(b.msg, at + n)>> /\ t = Tail(q)
    OBVIOUS
  <2>1. /\ h \in Seq(WireBytes) /\ Len(h) = 1 /\ h[1] = Block(b.msg, at + n)
        /\ t \in Seq(WireBytes) /\ Len(t) = l - 1 /\ \A i \in 1..(l - 1) : t[i] = q[i + 1]
    <3>1. Block(b.msg, at + n) \in WireBytes  BY <1>7 DEF Block, WireBytes
    <3>2. /\ Tail(q) \in Seq(WireBytes) /\ Len(Tail(q)) = l - 1
          /\ \A i \in 1..Len(Tail(q)) : Tail(q)[i] = q[i + 1]
      BY <1>5, <1>6, HeadTailProperties
    <3>3. h \in Seq(WireBytes) /\ Len(h) = 1 /\ h[1] = Block(b.msg, at + n)  BY <2>0, <3>1
    <3> QED  BY <2>0, <3>2, <3>3
  <2>2. PICK r : r = h \o t
    OBVIOUS
  <2>3. /\ r \in Seq(WireBytes) /\ Len(r) = Len(h) + Len(t)
        /\ \A j \in 1..Len(h) : r[j] = h[j]
        /\ \A j \in 1..Len(t) : r[Len(h) + j] = t[j]
    <3>1. h \in Seq(WireBytes) /\ t \in Seq(WireBytes)  BY <2>1
    <3> QED  BY <2>2, <3>1, ConcatIndices
  <2>4. r = PopFront(q, n)  BY <1>2, <1>5, <1>7, <2>0, <2>2 DEF PopFront
  <2>5. Len(r) = l /\ r[1] = Block(b.msg, at + n)  BY <1>6, <2>1, <2>3
  <2>6. ASSUME NEW i \in 2..l  PROVE r[i] = q[i]
    <3>1. PICK j \in 1..(l - 1) : i = 1 + j /\ i = j + 1
      <4>1. i - 1 \in 1..(l - 1) /\ i = 1 + (i - 1) /\ i = (i - 1) + 1  BY <1>6
      <4> QED  BY <4>1
    <3>2. r[1 + j] = t[j]  BY <2>1, <2>3
    <3> QED  BY <2>1, <3>1, <3>2
  <2> QED  BY <2>3, <2>4, <2>5, <2>6
<1>11. PICK d \in 0..1, q1 \in Seq(WireBytes), acc1 \in Seq(Messages) :
         /\ q1 = writeQueue' /\ acc1 = accepted' /\ Len(q1) = l + d /\ Len(acc1) = len + d
         /\ \A i \in 1..l : q1[i] = rest[i]
         /\ \A i \in 1..len : acc1[i] = acc[i]
         /\ d = 1 => w \in Messages /\ q1[l + 1] = Block(w, 1) /\ acc1[len + 1] = w
  <2>1. CASE queued
    <3>1. w \in Messages /\ Block(w, 1) \in WireBytes  BY <1>8, <1>9, <2>1 DEF Block, WireBytes
    <3>2. PICK q2, acc2 : q2 = Append(rest, Block(w, 1)) /\ acc2 = Append(acc, w)
      OBVIOUS
    <3>3. /\ q2 \in Seq(WireBytes) /\ Len(q2) = Len(rest) + 1
          /\ \A i \in 1..Len(rest) : q2[i] = rest[i]
          /\ q2[Len(rest) + 1] = Block(w, 1)
      BY <3>1, <3>2, AppendProperties
    <3>4. /\ acc2 \in Seq(Messages) /\ Len(acc2) = Len(acc) + 1
          /\ \A i \in 1..Len(acc) : acc2[i] = acc[i]
          /\ acc2[Len(acc) + 1] = w
      BY <3>1, <3>2, AppendProperties
    <3>5. q2 = writeQueue' /\ acc2 = accepted'  BY <1>8, <1>9, <1>10, <2>1, <3>2
    <3> QED  BY <1>6, <1>10, <3>1, <3>3, <3>4, <3>5
  <2>2. CASE ~ queued
    <3>1. rest = writeQueue' /\ acc = accepted'  BY <1>8, <1>10, <2>2
    <3>2. Len(rest) = l + 0 /\ Len(acc) = len + 0 /\ ~ (0 = 1)  BY <1>6, <1>10
    <3> QED  BY <3>1, <3>2
  <2> QED  BY <2>1, <2>2
<1>12. b.msg = acc[k + 1] /\ k + 1 \in 1..len  BY <1>1, <1>2, <1>3, <1>4, <1>6, QueueFront
<1>13. open  BY <1>1 DEF ConnInv, AcceptInv
<1>14. /\ wire' \in Seq(WireBytes) /\ InPlace(Stream', acc1) /\ Begins(Stream', acc1, Len(received))
       /\ n = 0 => Stream' = Stream
       /\ n > 0 => Stream' # <<>> /\ Stream'[Len(Stream')] = Block(b.msg, b.at + n - 1)
  <2>1. b.at = 1 <=> Between  BY <1>1, <1>2 DEF Between
  <2>2. n \in 0..Left(b) /\ b.at \in 1..Size[b.msg]  BY <1>7, <1>8
  <2>3. wire' = wire \o Bytes(b, n)  BY <1>8
  <2>4. b.msg = writeQueue[1].msg /\ b.at = writeQueue[1].at  BY <1>2
  <2>5. /\ Written + 1 <= Len(acc1) /\ b.msg = acc1[Written + 1] /\ Len(accepted) <= Len(acc1)
        /\ \A i \in 1..Len(accepted) : acc1[i] = accepted[i]
    <3>1. Len(acc1) = len + d /\ d \in Nat /\ k + 1 <= len  BY <1>11, <1>12
    <3>2. k + 1 <= Len(acc1) /\ len <= Len(acc1)  BY <3>1
    <3>3. acc1[k + 1] = acc[k + 1]  BY <1>11, <1>12
    <3> QED  BY <1>3, <1>4, <1>6, <1>11, <1>12, <3>2, <3>3
  <2>6. UNCHANGED <<readBuf, received>>  BY <1>1
  <2> QED  BY <1>13, <2>1, <2>2, <2>3, <2>4, <2>5, <2>6, WriteStep
<1>15. ConnTypes'  BY <1>1, <1>11, <1>14 DEF ConnInv, ConnTypes
<1>16. AcceptInv'
  <2>1. accepted' = accepted \/ (writer \in Messages /\ accepted' = Append(accepted, writer))
    BY <1>4, <1>8
  <2> QED  BY <1>1, <1>13, <2>1, AcceptStep
<1>17. Written' = k
  <2>1. Len(accepted') = len + d /\ Len(writeQueue') = l + d  BY <1>11
  <2>2. Written' = (len + d) - (l + d)  BY <2>1 DEF Written
  <2> QED  BY <1>6, <2>2
<1>18. ASSUME NEW i \in 1..(l + d)
       PROVE  q1[i].msg = acc1[k + i] /\ q1[i].at \in 1..Size[q1[i].msg] /\ (i > 1 => q1[i].at = 1)
  <2>1. CASE i = 1
    <3>1. q1[1] = Block(b.msg, at + n)  BY <1>6, <1>10, <1>11
    <3>2. q1[1].msg = b.msg /\ q1[1].at = at + n  BY <3>1, BlockFields
    <3>3. at + n \in 1..max  
      <4>1. n < max - at + 1  BY <1>7, <1>8
      <4>2. at >= 1 /\ at <= max  BY <1>7
      <4> QED  BY <4>1, <4>2
    <3> QED  BY <1>7, <1>11, <1>12, <2>1, <3>2, <3>3
  <2>2. CASE i \in 2..l
    <3>1. q1[i] = q[i]  BY <1>10, <1>11, <2>2
    <3>2. q[i].msg = acc[k + i] /\ q[i].at \in 1..Size[q[i].msg] /\ q[i].at = 1
      <4>1. i \in 1..Len(writeQueue) /\ i > 1  BY <1>5, <1>6, <2>2
      <4> QED  BY <1>3, <1>4, <1>5, <4>1 DEF ConnInv, QueueInv
    <3>3. k + i \in 1..len  BY <1>6, <2>2
    <3> QED  BY <1>11, <3>1, <3>2, <3>3
  <2>3. CASE i = l + 1 /\ d = 1
    <3>1. q1[i].msg = w /\ q1[i].at = 1 /\ w \in Messages  BY <1>11, <2>3, BlockFields
    <3>2. k + i = len + 1  BY <1>6, <2>3
    <3>3. 1 \in 1..Size[w]  BY <3>1, ConnectionAssumption
    <3> QED  BY <1>11, <2>3, <3>1, <3>2, <3>3
  <2> QED  BY <1>6, <2>1, <2>2, <2>3
<1>19. QueueInv'
  <2>1. Len(writeQueue') <= Len(accepted')  BY <1>6, <1>11
  <2>2. \A i \in 1..Len(writeQueue') :
          /\ writeQueue'[i].msg = accepted'[Written' + i]
          /\ writeQueue'[i].at \in 1..Size[writeQueue'[i].msg]
          /\ i > 1 => writeQueue'[i].at = 1
    BY <1>11, <1>17, <1>18
  <2> QED  BY <2>1, <2>2 DEF QueueInv
<1>20. StreamInv'  BY <1>1, <1>11, <1>14 DEF StreamInv
<1>21. /\ writeQueue'[1].msg = b.msg /\ writeQueue'[1].at = at + n /\ writeQueue' # <<>>
  <2>1. q1[1] = Block(b.msg, at + n)  BY <1>6, <1>10, <1>11
  <2>2. q1 # <<>>
    <3>1. Len(q1) # 0  BY <1>6, <1>11
    <3> QED  BY <3>1, EmptySeq
  <2> QED  BY <1>11, <2>1, <2>2, BlockFields
<1>22. NextInv'
  <2>1. CASE n = 0
    <3>1. Stream' = Stream  BY <1>14, <2>1
    <3>2. Between' <=> Between
      <4>1. writeQueue'[1].at = b.at  BY <1>7, <1>21, <2>1
      <4>2. Between <=> b.at = 1  BY <1>1, <1>2 DEF Between
      <4>3. Between' <=> writeQueue'[1].at = 1  BY <1>21 DEF Between
      <4> QED  BY <4>1, <4>2, <4>3
    <3>3. Stream = <<>> => Len(received) = k /\ Between
      BY <1>3, <1>13 DEF ConnInv, NextInv
    <3>4. Stream # <<>> /\ Between =>
            k > 0 /\ Stream[Len(Stream)] = Block(acc[k], Size[acc[k]])
      BY <1>3, <1>4, <1>13 DEF ConnInv, NextInv
    <3>5. Stream # <<>> /\ ~ Between =>
            Stream[Len(Stream)] = Block(b.msg, b.at - 1)
      BY <1>2, <1>13 DEF ConnInv, NextInv
    <3>6. k > 0 => accepted'[k] = acc[k]
      <4>1. k > 0 => k \in 1..len  BY <1>6
      <4> QED  BY <1>11, <4>1
    <3>7. writeQueue'[1].msg = b.msg /\ writeQueue'[1].at = b.at  BY <1>7, <1>21, <2>1
    <3> QED  BY <1>1, <1>17, <3>1, <3>2, <3>3, <3>4, <3>5, <3>6, <3>7 DEF NextInv
  <2>2. CASE n > 0
    <3>1. ~ Between'
      <4>1. at + n # 1  BY <1>7, <2>2
      <4> QED  BY <1>21, <4>1 DEF Between
    <3>2. Stream' # <<>> /\ Stream'[Len(Stream')] = Block(writeQueue'[1].msg, writeQueue'[1].at - 1)
      BY <1>7, <1>14, <1>21, <2>2
    <3> QED  BY <3>1, <3>2 DEF NextInv
  <2> QED  BY <2>1, <2>2
<1> QED  BY <1>15, <1>16, <1>19, <1>20, <1>22 DEF ConnInv

\* The queue is empty: what the socket takes of the message leaves, the rest is queued.
LEMMA FlushDoneStep ==
  ASSUME ConnInv, FlushDone
  PROVE  ConnInv'
<1>1. /\ writer # "free" /\ writeQueue = <<>> /\ writer' = "free" /\ readBuf' = readBuf
      /\ received' = received /\ open' = open
  BY DEF FlushDone, recvVars
<1>2. open  BY <1>1 DEF ConnInv, AcceptInv
<1>3. CASE writer = "flush"
  <2>1. UNCHANGED <<writeQueue, wire, readBuf, accepted, received, open>>
    BY <1>1, <1>3 DEF FlushDone
  <2>2. writer' \notin Messages  BY <1>1, ConnectionAssumption
  <2> QED  BY <1>1, <2>1, <2>2, WriterStep
<1>4. CASE writer # "flush"
  <2>1. PICK w \in Messages : w = writer  BY <1>1, <1>4 DEF ConnInv, ConnTypes
  <2>2. PICK acc \in Seq(Messages) : acc = accepted  BY DEF ConnInv, ConnTypes
  <2>3. PICK k \in Nat : k = Len(acc) /\ k = Written
    <3>1. Len(acc) \in Nat /\ Len(writeQueue) = 0  BY <1>1, LenProperties, EmptySeq
    <3>2. Written = Len(acc) - 0  BY <2>2, <3>1 DEF Written
    <3> QED  BY <3>1, <3>2
  <2>4. PICK b \in WireBytes : b = Block(w, 1)
    <3>1. Block(w, 1) \in WireBytes  BY DEF Block, WireBytes
    <3> QED  BY <3>1
  <2>5. b.msg = w /\ b.at = 1  BY <2>4, BlockFields
  <2>6. PICK max \in Nat : max = Size[w] /\ max > 0 /\ Left(b) = max
    <3>1. Size[w] \in Nat /\ Size[w] > 0  BY ConnectionAssumption
    <3> QED  BY <2>5, <3>1 DEF Left
  <2>7. PICK n \in Nat :
          /\ n <= max /\ wire' = wire \o Bytes(b, n)
          /\ writeQueue' = Queued(w, n) /\ accepted' = Append(acc, w)
    <3>1. PICK n \in Taken(b) :
            /\ wire' = wire \o Bytes(b, n)
            /\ writeQueue' = Queued(w, n) /\ accepted' = Append(acc, w)
      BY <1>4, <2>1, <2>2, <2>4 DEF FlushDone
    <3>2. b.at <= Size[b.msg]  BY <2>5, <2>6
    <3>3. n \in Nat /\ n <= Left(b)  BY <3>2, TakenBound DEF ConnInv
    <3> QED  BY <2>6, <3>1, <3>3
  <2>8. PICK acc1 \in Seq(Messages) :
          /\ acc1 = accepted' /\ Len(acc1) = k + 1 /\ acc1[k + 1] = w
          /\ \A i \in 1..k : acc1[i] = acc[i]
    <3>1. /\ Append(acc, w) \in Seq(Messages) /\ Len(Append(acc, w)) = Len(acc) + 1
          /\ \A i \in 1..Len(acc) : Append(acc, w)[i] = acc[i]
          /\ Append(acc, w)[Len(acc) + 1] = w
      BY AppendProperties
    <3>2. PICK t : t = Append(acc, w)
      OBVIOUS
    <3> QED  BY <2>3, <2>7, <3>1, <3>2
  <2>9. Between  BY <1>1 DEF Between
  <2>10. /\ wire' \in Seq(WireBytes) /\ InPlace(Stream', acc1) /\ Begins(Stream', acc1, Len(received))
         /\ n = 0 => Stream' = Stream
         /\ n > 0 => Stream' # <<>> /\ Stream'[Len(Stream')] = Block(w, n)
    <3>1. b.at = 1 <=> Between  BY <2>5, <2>9
    <3>2. n \in 0..Left(b) /\ b.at \in 1..Size[b.msg]  BY <2>5, <2>6, <2>7
    <3>3. wire' = wire \o Bytes(b, n)  BY <2>7
    <3>4. /\ Written + 1 <= Len(acc1) /\ b.msg = acc1[Written + 1] /\ Len(accepted) <= Len(acc1)
          /\ \A i \in 1..Len(accepted) : acc1[i] = accepted[i]
      BY <2>2, <2>3, <2>5, <2>8
    <3>5. UNCHANGED <<readBuf, received>>  BY <1>1
    <3>6. /\ wire' \in Seq(WireBytes) /\ InPlace(Stream', acc1) /\ Begins(Stream', acc1, Len(received))
          /\ n = 0 => Stream' = Stream
          /\ n > 0 => Stream' # <<>> /\ Stream'[Len(Stream')] = Block(b.msg, b.at + n - 1)
      BY <1>2, <2>9, <3>1, <3>2, <3>3, <3>4, <3>5, WriteStep
    <3>7. b.at + n - 1 = n  BY <2>5
    <3> QED  BY <2>5, <3>6, <3>7
  <2>11. AcceptInv'
    <3>1. writer \in Messages /\ accepted' = Append(accepted, writer)  BY <2>1, <2>2, <2>7
    <3> QED  BY <1>1, <1>2, <3>1, AcceptStep
  <2>12. StreamInv'  BY <1>1, <2>8, <2>10 DEF StreamInv
  <2>13. CASE n < max
    <3>1. PICK q \in Seq(WireBytes) : /\ q = writeQueue' /\ Len(q) = 1 /\ q # <<>>
                                      /\ q[1].msg = w /\ q[1].at = n + 1
      <4>1. writeQueue' = <<Block(w, n + 1)>>  BY <2>6, <2>7, <2>13 DEF Queued
      <4>2. Block(w, n + 1) \in WireBytes  BY DEF Block, WireBytes
      <4>3. PICK c \in WireBytes : c = Block(w, n + 1) /\ c.msg = w /\ c.at = n + 1
        BY <4>2, BlockFields
      <4>4. <<c>> \in Seq(WireBytes) /\ Len(<<c>>) = 1 /\ <<c>> # <<>> /\ <<c>>[1] = c
        OBVIOUS
      <4> QED  BY <4>1, <4>3, <4>4
    <3>2. Written' = k
      <4>1. Written' = (k + 1) - 1  BY <2>8, <3>1 DEF Written
      <4> QED  BY <4>1
    <3>3. ConnTypes'  BY <1>1, <2>8, <2>10, <3>1 DEF ConnInv, ConnTypes
    <3>4. QueueInv'
      <4>1. n + 1 \in 1..Size[w] /\ 1 <= k + 1  BY <2>6, <2>13
      <4>2. ASSUME NEW i \in 1..1
            PROVE  q[i].msg = acc1[k + i] /\ q[i].at \in 1..Size[q[i].msg] /\ (i > 1 => q[i].at = 1)
        <5>1. i = 1
          OBVIOUS
        <5> QED  BY <2>8, <3>1, <4>1, <5>1
      <4> QED  BY <2>8, <3>1, <3>2, <4>1, <4>2 DEF QueueInv
    <3>5. Between' <=> n = 0
      <4>1. Between' <=> n + 1 = 1  BY <3>1 DEF Between
      <4> QED  BY <4>1
    <3>6. NextInv'
      <4>1. CASE n = 0
        <5>1. Stream = <<>> => Len(received) = k  BY <1>2, <2>3 DEF ConnInv, NextInv
        <5>2. Stream # <<>> => k > 0 /\ Stream[Len(Stream)] = Block(acc[k], Size[acc[k]])
          BY <1>2, <2>2, <2>3, <2>9 DEF ConnInv, NextInv
        <5>3. k > 0 => accepted'[k] = acc[k]
          <6>1. k > 0 => k \in 1..k
            OBVIOUS
          <6> QED  BY <2>8, <6>1
        <5>4. Stream' = Stream /\ Between'  BY <2>10, <3>5, <4>1
        <5> QED  BY <1>1, <3>2, <5>1, <5>2, <5>3, <5>4 DEF NextInv
      <4>2. CASE n > 0
        <5>1. ~ Between' /\ n + 1 - 1 = n  BY <3>5, <4>2
        <5>2. Stream'[Len(Stream')] = Block(writeQueue'[1].msg, writeQueue'[1].at - 1)
          BY <2>10, <3>1, <4>2, <5>1
        <5> QED  BY <2>10, <4>2, <5>1, <5>2 DEF NextInv
      <4> QED  BY <4>1, <4>2
    <3> QED  BY <2>11, <2>12, <3>3, <3>4, <3>6 DEF ConnInv
  <2>14. CASE n = max
    <3>1. writeQueue' = <<>>  BY <2>6, <2>7, <2>14 DEF Queued
    <3>2. Len(writeQueue') = 0 /\ writeQueue' \in Seq(WireBytes)  BY <3>1, EmptySeq
    <3>3. Written' = k + 1
      <4>1. Written' = (k + 1) - 0  BY <2>8, <3>2 DEF Written
      <4> QED  BY <4>1
    <3>4. ConnTypes'  BY <1>1, <2>8, <2>10, <3>2 DEF ConnInv, ConnTypes
    <3>5. QueueInv'
      <4>1. Len(writeQueue') <= Len(accepted')  BY <2>8, <3>2
      <4>2. \A i \in 1..Len(writeQueue') : FALSE  BY <3>2
      <4> QED  BY <4>1, <4>2 DEF QueueInv
    <3>6. Between'  BY <3>1 DEF Between
    <3>7. NextInv'
      <4>1. n > 0 /\ k + 1 > 0  BY <2>6, <2>14
      <4>2. accepted'[Written'] = w /\ Stream'[Len(Stream')] = Block(w, Size[w]) /\ Stream' # <<>>
        BY <2>6, <2>8, <2>10, <2>14, <3>3, <4>1
      <4> QED  BY <3>3, <3>6, <4>1, <4>2 DEF NextInv
    <3> QED  BY <2>11, <2>12, <3>4, <3>5, <3>7 DEF ConnInv
  <2> QED  BY <2>7, <2>13, <2>14
<1> QED  BY <1>3, <1>4

LEMMA CloseStep ==
  ASSUME ConnInv, Close
  PROVE  ConnInv'
<1>1. /\ open' = FALSE /\ writeQueue' = <<>> /\ writer = "free" /\ writer' = writer
      /\ accepted' = accepted /\ wire' = wire /\ readBuf' = readBuf /\ received' = received
  BY DEF Close, recvVars
<1>2. Len(writeQueue') = 0 /\ writeQueue' \in Seq(WireBytes)  BY <1>1, EmptySeq
<1>3. ConnTypes'  BY <1>1, <1>2 DEF ConnInv, ConnTypes
<1>4. AcceptInv'  BY <1>1 DEF ConnInv, AcceptInv
<1>5. QueueInv'
  <2>1. Len(accepted') \in Nat  BY <1>3, LenProperties DEF ConnTypes
  <2>2. \A i \in 1..Len(writeQueue') : FALSE  BY <1>2
  <2> QED  BY <1>2, <2>1, <2>2 DEF QueueInv
<1>6. StreamInv'
  <2>1. Stream' = Stream  BY <1>1 DEF Stream
  <2>2. Begins(Stream, accepted, Len(received)) /\ InPlace(Stream, accepted)
    BY DEF ConnInv, StreamInv
  <2>3. Begins(Stream', accepted', Len(received')) /\ InPlace(Stream', accepted')
    BY <1>1, <2>1, <2>2
  <2> QED  BY <2>3 DEF StreamInv
<1>7. NextInv'  BY <1>1 DEF NextInv
<1> QED  BY <1>3, <1>4, <1>5, <1>6, <1>7 DEF ConnInv

\* The receiver's buffer begins with a header.
LEMMA BufferBegins ==
  ASSUME ConnInv, NEW r \in Seq(WireBytes), NEW c \in Seq(WireBytes), r \o c = Stream, r # <<>>
  PROVE  /\ Len(received) < Len(accepted)
         /\ r[1] = Block(accepted[Len(received) + 1], 1) /\ Magic(r)
<1>1. Len(r) \in Nat \ {0} /\ Len(c) \in Nat  BY EmptySeq, LenProperties
<1>2. PICK t : t = r \o c
  OBVIOUS
<1>3. /\ t \in Seq(WireBytes) /\ Len(t) = Len(r) + Len(c)
      /\ \A j \in 1..Len(r) : t[j] = r[j]
  BY <1>2, ConcatIndices
<1>4. 1 \in 1..Len(r) /\ Len(t) # 0  BY <1>1, <1>3
<1>5. t[1] = r[1] /\ t # <<>>  BY <1>3, <1>4, EmptySeq
<1>6. Begins(t, accepted, Len(received))  BY <1>2 DEF ConnInv, StreamInv
<1>7. r[1] = Block(accepted[Len(received) + 1], 1) /\ Len(received) < Len(accepted)
  BY <1>5, <1>6 DEF Begins
<1>8. Magic(r)  BY <1>7, BlockFields DEF Magic
<1> QED  BY <1>7, <1>8

\* so that PickMessageFromBuffer never empties it
LEMMA BufferSound ==
  ASSUME ConnInv, NEW r \in Seq(WireBytes), NEW c \in Seq(WireBytes), r \o c = Stream
  PROVE  Sound(r) = r
<1>1. CASE r = <<>>
  <2>1. ~ HasHeader(r)  BY <1>1, ConnectionAssumption, EmptySeq DEF HasHeader
  <2> QED  BY <2>1 DEF Sound
<1>2. CASE r # <<>>
  BY <1>2, BufferBegins DEF Sound
<1> QED  BY <1>1, <1>2

\* Bytes move between the sockets and the buffer.
LEMMA SameStream ==
  ASSUME ConnInv, UNCHANGED <<writeQueue, writer, accepted, received, open>>,
         wire' \in Seq(WireBytes), readBuf' \in Seq(WireBytes), Stream' = Stream
  PROVE  ConnInv'
<1>1. /\ writeQueue' = writeQueue /\ writer' = writer /\ accepted' = accepted
      /\ received' = received /\ open' = open
  OBVIOUS
<1>2. Written' = Written /\ Between' = Between  BY <1>1 DEF Written, Between
<1>3. ConnTypes'  BY <1>1 DEF ConnInv, ConnTypes
<1>4. AcceptInv'  BY <1>1 DEF ConnInv, AcceptInv
<1>5. QueueInv'  BY <1>1, <1>2 DEF ConnInv, QueueInv
<1>6. StreamInv'
  <2>1. Begins(Stream, accepted, Len(received)) /\ InPlace(Stream, accepted)
    BY DEF ConnInv, StreamInv
  <2>2. Begins(Stream', accepted', Len(received')) /\ InPlace(Stream', accepted')
    BY <1>1, <2>1
  <2> QED  BY <2>2 DEF StreamInv
<1>7. NextInv'  BY <1>1, <1>2 DEF ConnInv, NextInv
<1> QED  BY <1>3, <1>4, <1>5, <1>6, <1>7 DEF ConnInv

LEMMA FillStep ==
  ASSUME ConnInv, Fill
  PROVE  ConnInv' /\ NoneLeftInBuffer'
<1>1. PICK r \in Seq(WireBytes), c \in Seq(WireBytes) : r = readBuf /\ c = wire
  BY DEF ConnInv, ConnTypes
<1>2. r \o c = Stream  BY <1>1 DEF Stream
<1>3. Sound(r) = r  BY <1>2, BufferSound
<1>4. PICK l \in Nat : l = Len(c)  BY LenProperties
<1>5. PICK n \in 0..Len(c) :
        /\ wire' = SubSeq(c, n + 1, Len(c))
        /\ readBuf' = Sound(r \o SubSeq(c, 1, n))
        /\ reading' = Whole(r \o SubSeq(c, 1, n))
  <2>1. PICK n \in 1..(IF BufSize - Len(r) < l THEN BufSize - Len(r) ELSE l) :
        /\ wire' = SubSeq(c, n + 1, Len(c))
        /\ readBuf' = Sound(r \o SubSeq(c, 1, n))
        /\ reading' = Whole(r \o SubSeq(c, 1, n))
    BY <1>1, <1>3, <1>4 DEF Fill
  <2>2. BufSize - Len(r) \in Int  BY ConnectionAssumption, LenProperties
  <2>3. n \in 0..l  BY <2>2
  <2> QED  BY <1>4, <2>1, <2>3
<1>6. PICK f, d : f = r \o SubSeq(c, 1, n) /\ d = SubSeq(c, n + 1, Len(c))
  OBVIOUS
<1>7. f \in Seq(WireBytes) /\ d \in Seq(WireBytes)
  <2>1. SubSeq(c, 1, n) \in Seq(WireBytes) /\ SubSeq(c, n + 1, Len(c)) \in Seq(WireBytes)
    BY DropProperties
  <2> QED  BY <1>6, <2>1, ConcatProperties
<1>8. f \o d = Stream  BY <1>2, <1>6, MoveEntries
<1>9. Sound(f) = f  BY <1>7, <1>8, BufferSound
<1>10. readBuf' = f /\ wire' = d /\ reading' = Whole(f)  BY <1>5, <1>6, <1>9
<1>11. Stream' = Stream  BY <1>8, <1>10 DEF Stream
<1>12. UNCHANGED <<writeQueue, writer, accepted, received, open>>  BY DEF Fill, sendVars
<1>13. ConnInv'  BY <1>7, <1>10, <1>11, <1>12, SameStream
<1>14. ~ Whole(f) => ~ (HasHeader(f) /\ Len(f) >= Size[f[1].msg])
  <2>1. HasHeader(f) => f # <<>>  BY ConnectionAssumption, EmptySeq DEF HasHeader
  <2>2. HasHeader(f) => Magic(f)  BY <1>7, <1>8, <2>1, BufferBegins
  <2> QED  BY <2>2 DEF Whole
<1>15. NoneLeftInBuffer'
  <2>1. ~ reading' => ~ (HasHeader(readBuf') /\ Len(readBuf') >= Size[readBuf'[1].msg])
    BY <1>10, <1>14
  <2> QED  BY <2>1 DEF NoneLeftInBuffer, HasHeader
<1> QED  BY <1>13, <1>15

LEMMA ReadEndStep ==
  ASSUME ConnInv, ReadEnd
  PROVE  ConnInv' /\ NoneLeftInBuffer'
<1>1. PICK r \in Seq(WireBytes), c \in Seq(WireBytes) : r = readBuf /\ c = wire
  BY DEF ConnInv, ConnTypes
<1>2. r \o c = Stream  BY <1>1 DEF Stream
<1>3. Sound(r) = r  BY <1>2, BufferSound
<1>4. readBuf' = r /\ wire' = c /\ ~ Whole(r) /\ ~ reading'
  BY <1>1, <1>3 DEF ReadEnd
<1>5. Stream' = Stream  BY <1>1, <1>4 DEF Stream
<1>6. UNCHANGED <<writeQueue, writer, accepted, received, open>>  BY DEF ReadEnd, sendVars
<1>7. ConnInv'  BY <1>4, <1>5, <1>6, SameStream
<1>8. ~ (HasHeader(r) /\ Len(r) >= Size[r[1].msg])
  <2>1. HasHeader(r) => r # <<>>  BY ConnectionAssumption, EmptySeq DEF HasHeader
  <2>2. HasHeader(r) => Magic(r)  BY <1>2, <2>1, BufferBegins
  <2> QED  BY <1>4, <2>2 DEF Whole
<1>9. NoneLeftInBuffer'
  <2>1. ~ (HasHeader(readBuf') /\ Len(readBuf') >= Size[readBuf'[1].msg])
    BY <1>4, <1>8
  <2> QED  BY <2>1 DEF NoneLeftInBuffer, HasHeader
<1> QED  BY <1>7, <1>9

\* A whole message leaves the buffer: what follows it is the message accepted next.
LEMMA PickStep ==
  ASSUME ConnInv, Pick
  PROVE  ConnInv'
<1>1. PICK r \in Seq(WireBytes), c \in Seq(WireBytes) : r = readBuf /\ c = wire
  BY DEF ConnInv, ConnTypes
<1>2. PICK acc \in Seq(Messages), rec \in Seq(Messages) : acc = accepted /\ rec = received
  BY DEF ConnInv, ConnTypes
<1>3. PICK len \in Nat, k \in Nat : len = Len(acc) /\ k = Len(rec)  BY LenProperties
<1>4. PICK s \in Seq(WireBytes) : s = Stream /\ s = r \o c
  <2>1. Stream = r \o c  BY <1>1 DEF Stream
  <2>2. r \o c \in Seq(WireBytes)  BY ConcatIndices
  <2> QED  BY <2>1, <2>2
<1>5. /\ reading /\ Whole(r) /\ reading' = reading /\ wire' = c
      /\ readBuf' = SubSeq(r, Size[r[1].msg] + 1, Len(r))
      /\ received' = Append(rec, r[1].msg)
      /\ UNCHANGED <<writeQueue, writer, accepted, open>>
  BY <1>1, <1>2 DEF Pick, sendVars
<1>6. r # <<>>  BY <1>5, ConnectionAssumption, EmptySeq DEF Whole, HasHeader
<1>7. k < len /\ r[1] = Block(acc[k + 1], 1)  BY <1>1, <1>2, <1>3, <1>4, <1>6, BufferBegins
<1>8. PICK m \in Messages : m = acc[k + 1] /\ m = r[1].msg /\ r[1] = Block(m, 1)
  <2>1. k + 1 \in 1..len  BY <1>7
  <2>2. acc[k + 1] \in Messages  BY <1>3, <2>1
  <2> QED  BY <1>7, <2>2, BlockFields
<1>9. PICK size \in Nat : size = Size[m] /\ size > 0  BY ConnectionAssumption
<1>10. PICK L \in Nat, lr \in Nat : L = Len(s) /\ lr = Len(r) /\ size <= lr /\ lr <= L
  <2>1. Len(s) \in Nat /\ Len(r) \in Nat /\ Len(c) \in Nat  BY LenProperties
  <2>2. Len(s) = Len(r) + Len(c)  BY <1>4, ConcatIndices
  <2>3. Len(r) >= size  BY <1>5, <1>8, <1>9 DEF Whole
  <2> QED  BY <2>1, <2>2, <2>3
<1>11. s[1] = Block(m, 1)
  <2>1. 1 \in 1..Len(r)  BY <1>9, <1>10
  <2>2. \A j \in 1..Len(r) : (r \o c)[j] = r[j]  BY ConcatIndices
  <2> QED  BY <1>4, <1>8, <2>1, <2>2
<1>12. InPlace(s, acc)  BY <1>2, <1>4 DEF ConnInv, StreamInv
<1>13. /\ s[size] = Block(m, size)
       /\ size < L => /\ s[size + 1] = Block(s[size + 1].msg, 1)
                      /\ \E i \in 1..(len - 1) : acc[i] = m /\ acc[i + 1] = s[size + 1].msg
  <2>1. s[1].msg = m /\ s[1].at = 1 /\ 1 \in 1..Len(s)  BY <1>9, <1>10, <1>11, BlockFields
  <2>2. /\ \A a \in 1..size : 1 + a - 1 <= L => s[1 + a - 1] = Block(m, a)
        /\ 1 + size <= L =>
             /\ s[1 + size].at = 1
             /\ \E i \in 1..(len - 1) : acc[i] = m /\ acc[i + 1] = s[1 + size].msg
    BY <1>3, <1>9, <1>10, <1>12, <2>1 DEF InPlace
  <2>3. size \in 1..size /\ 1 + size - 1 = size /\ 1 + size = size + 1 /\ size <= L
    BY <1>9, <1>10
  <2>4. s[size] = Block(m, size)  BY <2>2, <2>3
  <2>5. ASSUME size < L
        PROVE  /\ s[size + 1] = Block(s[size + 1].msg, 1)
               /\ \E i \in 1..(len - 1) : acc[i] = m /\ acc[i + 1] = s[size + 1].msg
    <3>1. size + 1 \in 1..Len(s) /\ 1 + size <= L  BY <1>10, <2>5
    <3>2. s[size + 1].at = 1  BY <2>2, <2>3, <3>1
    <3>3. s[size + 1] \in WireBytes  BY <3>1
    <3>4. s[size + 1] = Block(s[size + 1].msg, 1)  BY <3>2, <3>3 DEF WireBytes, Block
    <3> QED  BY <2>2, <2>3, <3>1, <3>4
  <2> QED  BY <2>4, <2>5
<1>14. \A i, j \in 1..len : acc[i] = acc[j] => i = j  BY <1>2, <1>3 DEF ConnInv, AcceptInv
<1>15. size < L => k + 1 < len /\ s[size + 1] = Block(acc[k + 2], 1)
  <2> SUFFICES ASSUME size < L  PROVE k + 1 < len /\ s[size + 1] = Block(acc[k + 2], 1)
    OBVIOUS
  <2>1. PICK i \in 1..(len - 1) : acc[i] = m /\ acc[i + 1] = s[size + 1].msg  BY <1>13
  <2>2. i \in 1..len /\ k + 1 \in 1..len  BY <1>7
  <2>3. i = k + 1  BY <1>8, <1>14, <2>1, <2>2
  <2>4. i + 1 = k + 2 /\ k + 1 < len  BY <2>3
  <2> QED  BY <1>13, <2>1, <2>4
<1>16. PICK t : t = SubSeq(s, size + 1, Len(s))
  OBVIOUS
<1>17. /\ t \in Seq(WireBytes) /\ Len(t) = L - size
       /\ \A j \in 1..(L - size) : t[j] = s[size + j]
       /\ InPlace(t, acc)
  <2>1. size \in 0..Len(s)  BY <1>10
  <2> QED  BY <1>10, <1>12, <1>16, <2>1, DropProperties, Drop
<1>18. readBuf' \in Seq(WireBytes) /\ Stream' = t
  <2>1. PICK d : d = SubSeq(r, size + 1, Len(r))
    OBVIOUS
  <2>2. size \in 0..Len(r)  BY <1>10
  <2>3. d \in Seq(WireBytes)  BY <2>1, <2>2, DropProperties
  <2>4. d \o c = SubSeq(r \o c, size + 1, Len(r \o c))  BY <2>1, <2>2, DropConcat
  <2>5. readBuf' = d  BY <1>5, <1>8, <1>9, <2>1
  <2>6. Stream' = d \o c  BY <1>5, <2>5 DEF Stream
  <2> QED  BY <1>4, <1>16, <2>3, <2>4, <2>5, <2>6
<1>19. PICK rec1 : rec1 = received'
  OBVIOUS
<1>20. /\ rec1 \in Seq(Messages) /\ Len(rec1) = k + 1 /\ rec1[k + 1] = m
       /\ \A i \in 1..k : rec1[i] = rec[i]
  <2>1. rec1 = Append(rec, m)  BY <1>5, <1>8, <1>19
  <2> QED  BY <1>3, <2>1, AppendProperties
<1>21. ConnTypes'  BY <1>1, <1>5, <1>18, <1>19, <1>20 DEF ConnInv, ConnTypes
<1>22. AcceptInv'
  <2>1. \A i \in 1..k : rec[i] = acc[i]  BY <1>2, <1>3 DEF ConnInv, AcceptInv
  <2>2. ASSUME NEW i \in 1..(k + 1)  PROVE rec1[i] = acc[i]
    <3>1. CASE i \in 1..k  BY <1>20, <2>1, <3>1
    <3>2. CASE i = k + 1  BY <1>8, <1>20, <3>2
    <3> QED  BY <3>1, <3>2
  <2>3. k + 1 <= len  BY <1>7
  <2>4. Len(received') <= Len(accepted') /\ \A i \in 1..Len(received') : received'[i] = accepted'[i]
    BY <1>2, <1>3, <1>5, <1>19, <1>20, <2>2, <2>3
  <2> QED  BY <1>5, <2>4 DEF ConnInv, AcceptInv
<1>23. Written' = Written /\ Between' = Between  BY <1>5 DEF Written, Between
<1>24. QueueInv'  BY <1>5, <1>23 DEF ConnInv, QueueInv
<1>25. StreamInv'
  <2>1. Begins(t, acc, k + 1)
    <3> SUFFICES ASSUME t # <<>>  PROVE k + 1 < Len(acc) /\ t[1] = Block(acc[k + 1 + 1], 1)
      BY DEF Begins
    <3>1. Len(t) \in Nat \ {0}  BY <1>17, EmptySeq
    <3>2. size < L /\ 1 \in 1..(L - size)  BY <1>17, <3>1
    <3>3. k + 1 + 1 = k + 2
      OBVIOUS
    <3> QED  BY <1>3, <1>15, <1>17, <3>2, <3>3
  <2> QED  BY <1>2, <1>5, <1>17, <1>18, <1>19, <1>20, <2>1 DEF StreamInv
<1>26. NextInv'
  <2> SUFFICES ASSUME open'
               PROVE  IF Stream' = <<>> THEN Len(received') = Written' /\ Between'
                      ELSE IF Between'
                      THEN Written' > 0 /\ Stream'[Len(Stream')]
                                             = Block(accepted'[Written'], Size[accepted'[Written']])
                      ELSE Stream'[Len(Stream')] = Block(writeQueue'[1].msg, writeQueue'[1].at - 1)
    BY DEF NextInv
  <2>1. s # <<>>  BY <1>9, <1>10, EmptySeq
  <2>2. IF Between THEN Written > 0 /\ s[L] = Block(acc[Written], Size[acc[Written]])
        ELSE s[L] = Block(writeQueue[1].msg, writeQueue[1].at - 1)
    BY <1>2, <1>4, <1>5, <1>10, <2>1 DEF ConnInv, NextInv
  <2>3. CASE t = <<>>
    <3>1. L = size  BY <1>10, <1>17, <2>3, EmptySeq
    <3>2. s[L].msg = m /\ s[L].at = size  BY <1>13, <3>1, BlockFields
    <3>3. Between
      <4> SUFFICES ASSUME ~ Between  PROVE FALSE
        OBVIOUS
      <4>1. writeQueue # <<>>  BY DEF Between
      <4>2. PICK at \in Nat : at = writeQueue[1].at  BY <4>1, QueueFront DEF WireBytes
      <4>3. writeQueue[1].msg = m /\ at - 1 = size  BY <2>2, <3>2, <4>2, BlockFields
      <4>4. at \in 1..size  BY <1>9, <4>1, <4>2, <4>3, QueueFront
      <4> QED  BY <4>3, <4>4
    <3>4. PICK w \in Int : w = Written /\ w <= len
      <4>1. Len(accepted) \in Nat /\ Len(writeQueue) \in Nat  BY DEF ConnInv, ConnTypes
      <4>2. Written \in Int /\ Written <= Len(accepted)  BY <4>1 DEF Written
      <4> QED  BY <1>2, <1>3, <4>2
    <3>5. w > 0 /\ acc[w] = m  BY <2>2, <3>2, <3>3, <3>4, BlockFields
    <3>6. w \in 1..len /\ k + 1 \in 1..len  BY <1>7, <3>4, <3>5
    <3>7. w = k + 1  BY <1>8, <1>14, <3>5, <3>6
    <3> QED  BY <1>18, <1>19, <1>20, <1>23, <2>3, <3>3, <3>4, <3>7
  <2>4. CASE t # <<>>
    <3>1. Len(t) \in Nat \ {0}  BY <1>17, <2>4, EmptySeq
    <3>2. PICK lt \in Nat : lt = Len(t) /\ lt \in 1..(L - size) /\ size + lt = L
      BY <1>10, <1>17, <3>1
    <3>3. t[Len(t)] = s[L]  BY <1>17, <3>2
    <3> QED  BY <1>2, <1>5, <1>18, <1>23, <2>2, <2>4, <3>3
  <2> QED  BY <2>3, <2>4
<1> QED  BY <1>21, <1>22, <1>24, <1>25, <1>26 DEF ConnInv

LEMMA ConnectionStep ==
  ASSUME ConnInv, NoneLeftInBuffer, ConnectionNext
  PROVE  ConnInv' /\ NoneLeftInBuffer'
<1>1. ASSUME NEW m \in Messages, WriteBegin(m)  PROVE ConnInv' /\ NoneLeftInBuffer'
  <2>1. /\ UNCHANGED <<writeQueue, wire, readBuf, accepted, received, open>>
        /\ open /\ writer' = m /\ m \notin ToSet(accepted)
        /\ reading' = reading
    BY <1>1 DEF WriteBegin, recvVars
  <2>2. PICK acc \in Seq(Messages) : acc = accepted  BY DEF ConnInv, ConnTypes
  <2>3. \A i \in 1..Len(acc) : acc[i] # m  BY <2>1, <2>2 DEF ToSet
  <2>4. ConnInv'  BY <2>1, <2>2, <2>3, WriterStep
  <2> QED  BY <2>1, <2>4 DEF NoneLeftInBuffer, HasHeader
<1>2. CASE FlushBegin
  <2>1. /\ UNCHANGED <<writeQueue, wire, readBuf, accepted, received, open>>
        /\ open /\ writer' = "flush" /\ reading' = reading
    BY <1>2 DEF FlushBegin, recvVars
  <2>2. writer' \notin Messages  BY <2>1, ConnectionAssumption
  <2>3. ConnInv'  BY <2>1, <2>2, WriterStep
  <2> QED  BY <2>1, <2>3 DEF NoneLeftInBuffer, HasHeader
<1>3. CASE SendStep
  <2>1. ConnInv'
    BY <1>3, FlushBlockStep, FlushBlockedStep, FlushDoneStep DEF SendStep
  <2>2. readBuf' = readBuf /\ reading' = reading
    BY <1>3 DEF SendStep, FlushBlock, FlushBlocked, FlushDone, recvVars
  <2> QED  BY <2>1, <2>2 DEF NoneLeftInBuffer, HasHeader
<1>4. CASE ReadBegin
  <2>1. /\ UNCHANGED <<writeQueue, writer, accepted, received, open>>
        /\ wire' = wire /\ readBuf' = readBuf /\ reading' = TRUE
    BY <1>4 DEF ReadBegin, sendVars
  <2>2. Stream' = Stream  BY <2>1 DEF Stream
  <2>3. wire' \in Seq(WireBytes) /\ readBuf' \in Seq(WireBytes)  BY <2>1 DEF ConnInv, ConnTypes
  <2>4. ConnInv'  BY <2>1, <2>2, <2>3, SameStream
  <2> QED  BY <2>1, <2>4 DEF NoneLeftInBuffer
<1>5. CASE Pick
  <2>1. reading' = TRUE \/ reading'  BY <1>5 DEF Pick
  <2> QED  BY <1>5, <2>1, PickStep DEF NoneLeftInBuffer
<1>6. CASE Fill
  BY <1>6, FillStep
<1>7. CASE ReadEnd
  BY <1>7, ReadEndStep
<1>8. CASE Handle
  <2>1. /\ UNCHANGED <<writeQueue, writer, accepted, received, open>>
        /\ wire' = wire /\ readBuf' = readBuf /\ reading' = reading
    BY <1>8 DEF Handle, sendVars
  <2>2. Stream' = Stream  BY <2>1 DEF Stream
  <2>3. wire' \in Seq(WireBytes) /\ readBuf' \in Seq(WireBytes)  BY <2>1 DEF ConnInv, ConnTypes
  <2>4. ConnInv'  BY <2>1, <2>2, <2>3, SameStream
  <2> QED  BY <2>1, <2>4 DEF NoneLeftInBuffer, HasHeader
<1>9. CASE Close
  <2>1. readBuf' = readBuf /\ reading' = reading  BY <1>9 DEF Close, recvVars
  <2> QED  BY <1>9, <2>1, CloseStep DEF NoneLeftInBuffer, HasHeader
<1> QED
  BY <1>1, <1>2, <1>3, <1>4, <1>5, <1>6, <1>7, <1>8, <1>9 DEF ConnectionNext, ReadStep

LEMMA ConnectionStays ==
  ASSUME ConnInv, NoneLeftInBuffer, UNCHANGED connectionVars
  PROVE  ConnInv' /\ NoneLeftInBuffer'
<1>1. /\ UNCHANGED <<writeQueue, writer, accepted, received, open>>
      /\ wire' = wire /\ readBuf' = readBuf /\ reading' = reading
  BY DEF connectionVars, sendVars, recvVars
<1>2. Stream' = Stream  BY <1>1 DEF Stream
<1>3. wire' \in Seq(WireBytes) /\ readBuf' \in Seq(WireBytes)  BY <1>1 DEF ConnInv, ConnTypes
<1>4. ConnInv'  BY <1>1, <1>2, <1>3, SameStream
<1> QED  BY <1>1, <1>4 DEF NoneLeftInBuffer, HasHeader

LEMMA ConnectionBegins ==
  ASSUME ConnectionInit
  PROVE  ConnInv /\ NoneLeftInBuffer
<1>1. /\ writeQueue = <<>> /\ writer = "free" /\ wire = <<>> /\ readBuf = <<>>
      /\ open /\ accepted = <<>> /\ received = <<>>
  BY DEF ConnectionInit
<1>2. /\ Len(writeQueue) = 0 /\ Len(accepted) = 0 /\ Len(received) = 0 /\ Stream = <<>>
      /\ Len(Stream) = 0 /\ Len(readBuf) = 0
  <2>1. Stream = <<>>  BY <1>1 DEF Stream
  <2> QED  BY <1>1, <2>1, EmptySeq
<1>3. ConnTypes  BY <1>1, EmptySeq DEF ConnTypes
<1>4. AcceptInv
  <2>1. writer \notin Messages  BY <1>1, ConnectionAssumption
  <2> QED  BY <1>1, <1>2, <2>1 DEF AcceptInv
<1>5. QueueInv  BY <1>2 DEF QueueInv
<1>6. StreamInv  BY <1>2 DEF StreamInv, InPlace, Begins
<1>7. NextInv
  <2>1. Written = 0  BY <1>2 DEF Written
  <2> QED  BY <1>1, <1>2, <2>1 DEF NextInv, Between
<1>8. NoneLeftInBuffer
  BY <1>2, ConnectionAssumption DEF NoneLeftInBuffer, HasHeader
<1> QED  BY <1>3, <1>4, <1>5, <1>6, <1>7, <1>8 DEF ConnInv

\* The bytes on the way are those of the messages accepted and not yet received, whole and
\* in order, up to what the sender still has; no whole message stays in the buffer.
THEOREM StreamInvariance == Spec => [](ConnInv /\ NoneLeftInBuffer)
<1>1. Init => ConnInv /\ NoneLeftInBuffer
  BY ConnectionBegins DEF Init
<1>2. ConnInv /\ NoneLeftInBuffer /\ [Next]_vars => (ConnInv /\ NoneLeftInBuffer)'
  <2> SUFFICES ASSUME ConnInv, NoneLeftInBuffer, [Next]_vars
               PROVE  ConnInv' /\ NoneLeftInBuffer'
    OBVIOUS
  <2>1. ConnectionNext \/ UNCHANGED connectionVars  BY DEF Next, OverTCP, OverUDP, vars
  <2> QED  BY <2>1, ConnectionStep, ConnectionStays
<1> QED  BY <1>1, <1>2, PTL DEF Spec

\* What OnMessageArriveInternal is given is a prefix of what WriteMessage accepted, whatever
\* the socket takes and gives at a time, and whichever threads write.
THEOREM MessagesInOrder == Spec => []ReceivedInOrder
<1>1. ConnInv => ReceivedInOrder
  <2> SUFFICES ASSUME ConnInv  PROVE IsPrefix(received, accepted)
    BY DEF ReceivedInOrder
  <2>1. PICK acc \in Seq(Messages), rec \in Seq(Messages) : acc = accepted /\ rec = received
    BY DEF ConnInv, ConnTypes
  <2>2. Len(rec) <= Len(acc) /\ \A i \in 1..Len(rec) : rec[i] = acc[i]
    BY <2>1 DEF ConnInv, AcceptInv
  <2> QED  BY <2>1, <2>2 DEF IsPrefix
<1> QED  BY <1>1, StreamInvariance, PTL

\* The receiving loop leaves no whole message in m_ReadBuf when it waits for the socket again.
THEOREM BufferEmptied == Spec => []NoneLeftInBuffer
  BY StreamInvariance, PTL

----------------------------------------------------------------------------
(* UDP: the segments that were sent, and the sessions that collect them. *)

SegmentSet == [from : Senders, sync : Nat, total : Nat, pieces : Nat, offset : Nat,
               length : Nat, life : Nat, msg : BigMessages]

SessionSet == [from : Senders, sync : Nat, total : Nat, pieces : Nat, left : Nat,
               flags : SUBSET Nat, parts : SUBSET SegmentSet, age : Nat]

\* the last segment of a message
LastPiece(size) == Pieces(size) - 1

SegmentOK(p) ==
  /\ p.from = p.msg.from /\ p.total = p.msg.size /\ p.pieces = Pieces(p.msg.size)
  /\ p.offset \in 0..LastPiece(p.msg.size) /\ p.length = PieceLength(p.msg.size, p.offset)
  /\ p.sync < MaxSends[p.from]
  /\ p.life <= life[p.from] /\ (p.life = life[p.from] => p.sync < serial[p.from])

\* A number of m_nSegSyncSerial is that of one message in one life of a sender.
NetInv ==
  /\ serial \in [Senders -> Nat] /\ life \in [Senders -> Nat] /\ net \in SUBSET SegmentSet
  /\ \A p \in net : SegmentOK(p)
  /\ \A p, q \in net : p.from = q.from /\ p.life = q.life /\ p.sync = q.sync => p.msg = q.msg

\* the bytes that are still missing when these segments are there
Remaining(size, flags) ==
  Unit * (LastPiece(size) - Cardinality(flags \ {LastPiece(size)}))
    + (IF LastPiece(size) \in flags THEN 0 ELSE size - Unit * LastPiece(size))

Collected(s, m) ==
  /\ s.total = m.size /\ s.pieces = Pieces(m.size)
  /\ \A p \in s.parts : p.msg = m
  /\ s.flags \subseteq 0..LastPiece(m.size)
  /\ s.left = Remaining(m.size, s.flags)

\* A session has segments of its number alone; if they are of one life, they are of one
\* message, and leftsize is what is missing of it.
PartsOK(s) ==
  /\ s.parts \subseteq net /\ s.flags = {p.offset : p \in s.parts}
  /\ \A p \in s.parts : p.from = s.from /\ p.sync = s.sync
  /\ OneLife(s.parts) => \E m \in BigMessages : Collected(s, m)

SessionInv ==
  /\ sessions \in Seq(SessionSet)
  /\ \A i \in 1..Len(sessions) :
       PartsOK(sessions[i]) /\ sessions[i].parts # {} /\ sessions[i].left # 0

SegmentInv == NetInv /\ SessionInv /\ OneSessionEach /\ DeliveredWhole

LEMMA Products ==
  ASSUME NEW u \in Nat, u > 0, NEW c \in Nat
  PROVE  /\ u * c \in Nat /\ (u * c = 0 => c = 0)
         /\ c > 0 => u * c >= u /\ u * c - u = u * (c - 1)
  OBVIOUS

LEMMA Divide ==
  ASSUME NEW u \in Nat, u > 0, NEW x \in Nat
  PROVE  (x \div u) \in Nat /\ u * (x \div u) <= x /\ x < u * (x \div u) + u
  OBVIOUS

\* The segments of a message: all of the same length but the last, which is not empty.
LEMMA PieceProperties ==
  ASSUME NEW size \in Nat, size > Unit
  PROVE  /\ Unit \in Nat /\ Unit > 0
         /\ LastPiece(size) \in Nat /\ Pieces(size) = LastPiece(size) + 1
         /\ size - Unit * LastPiece(size) \in Nat /\ size - Unit * LastPiece(size) > 0
         /\ \A i \in 0..LastPiece(size) :
              /\ PieceLength(size, i) = IF i = LastPiece(size) THEN size - Unit * LastPiece(size) ELSE Unit
              /\ PieceLength(size, i) \in Nat /\ PieceLength(size, i) <= size
<1>1. PICK u \in Nat : u = Unit /\ u > 0  BY SegmentAssumption
<1>2. PICK last \in Nat : /\ last = (size - 1) \div u
                          /\ u * last <= size - 1 /\ size - 1 < u * last + u
  <2>1. size - 1 \in Nat  BY <1>1
  <2> QED  BY <1>1, <2>1, Divide
<1>3. LastPiece(size) = last /\ Pieces(size) = last + 1
  <2>1. Pieces(size) = last + 1  BY <1>1, <1>2 DEF Pieces
  <2> QED  BY <2>1 DEF LastPiece
<1>4. PICK all \in Nat : all = u * last  BY <1>1, Products
<1>5. size - all \in Nat /\ size - all > 0 /\ size - all <= size  BY <1>2, <1>4
<1>6. ASSUME NEW i \in 0..last
      PROVE  /\ PieceLength(size, i) = IF i = last THEN size - all ELSE u
             /\ PieceLength(size, i) \in Nat /\ PieceLength(size, i) <= size
  <2>1. CASE i = last
    <3>1. ~ (i < Pieces(size) - 1)  BY <1>3, <2>1
    <3>2. PieceLength(size, i) = size - all  BY <1>1, <1>4, <2>1, <3>1 DEF PieceLength
    <3> QED  BY <1>5, <2>1, <3>2
  <2>2. CASE i # last
    <3>1. i < Pieces(size) - 1  BY <1>3, <2>2
    <3>2. PieceLength(size, i) = u  BY <1>1, <3>1 DEF PieceLength
    <3> QED  BY <1>1, <2>2, <3>2
  <2> QED  BY <2>1, <2>2
<1> QED  BY <1>1, <1>3, <1>4, <1>5, <1>6

\* What is missing of a message, segment by segment.
LEMMA RemainingProperties ==
  ASSUME NEW size \in Nat, size > Unit, NEW flags \in SUBSET (0..LastPiece(size))
  PROVE  /\ Remaining(size, flags) \in Nat
         /\ Remaining(size, {}) = size
         /\ Remaining(size, flags) = 0 => flags = 0..LastPiece(size)
         /\ Remaining(size, flags) # 0 => Cardinality(flags) < Pieces(size)
         /\ \A i \in 0..LastPiece(size) : i \notin flags =>
              /\ PieceLength(size, i) <= Remaining(size, flags)
              /\ Remaining(size, flags \cup {i}) = Remaining(size, flags) - PieceLength(size, i)
<1>1. PICK u \in Nat, last \in Nat, rest \in Nat :
        /\ u = Unit /\ u > 0 /\ last = LastPiece(size) /\ Pieces(size) = last + 1
        /\ rest = size - u * last /\ rest > 0
  BY PieceProperties
<1>2. \A i \in 0..last : PieceLength(size, i) = IF i = last THEN rest ELSE u
  BY <1>1, PieceProperties
<1> DEFINE D == flags \ {last}
<1>3. /\ IsFiniteSet(0..(last - 1)) /\ Cardinality(0..(last - 1)) = last
      /\ D \subseteq 0..(last - 1)
  <2>1. 0 \in Int /\ last - 1 \in Int  BY <1>1
  <2>2. IsFiniteSet(0..(last - 1)) /\ Cardinality(0..(last - 1)) = last
    BY <2>1, FS_Interval
  <2>3. D \subseteq 0..(last - 1)
    <3>1. \A i \in 0..last : i # last => i \in 0..(last - 1)
      OBVIOUS
    <3> QED  BY <1>1, <3>1
  <2> QED  BY <2>2, <2>3
<1>4. PICK card \in Nat : /\ card = Cardinality(D) /\ card <= last /\ IsFiniteSet(D)
                          /\ card = last => D = 0..(last - 1)
  <2>1. IsFiniteSet(D) /\ Cardinality(D) <= last /\ (Cardinality(D) = last => D = 0..(last - 1))
    BY <1>3, FS_Subset
  <2>2. Cardinality(D) \in Nat  BY <2>1, FS_CardinalityType
  <2> QED  BY <2>1, <2>2
<1>5. \A f : Remaining(size, f) = u * (last - Cardinality(f \ {last})) + (IF last \in f THEN 0 ELSE rest)
  BY <1>1 DEF Remaining
<1> HIDE DEF D
<1>6. Remaining(size, flags) = u * (last - card) + (IF last \in flags THEN 0 ELSE rest)
  <2>1. Cardinality(flags \ {last}) = card  BY <1>4 DEF D
  <2> QED  BY <1>5, <2>1
<1>7. PICK c \in Nat, product \in Nat :
        /\ c = last - card /\ product = u * c /\ (product = 0 => c = 0)
        /\ c > 0 => product >= u /\ product - u = u * (c - 1)
  <2>1. PICK c \in Nat : c = last - card  BY <1>1, <1>4
  <2>2. /\ u * c \in Nat /\ (u * c = 0 => c = 0)
        /\ c > 0 => u * c >= u /\ u * c - u = u * (c - 1)
    BY <1>1, Products
  <2> QED  BY <2>1, <2>2
<1>8. Remaining(size, flags) = product + (IF last \in flags THEN 0 ELSE rest)
  BY <1>6, <1>7
<1>9. Remaining(size, flags) \in Nat  BY <1>1, <1>7, <1>8
<1>10. Remaining(size, {}) = size
  <2>1. Cardinality({} \ {last}) = 0  BY FS_EmptySet
  <2>2. Remaining(size, {}) = u * (last - 0) + rest  BY <1>5, <2>1
  <2>3. PICK all \in Nat : all = u * last  BY <1>1, Products
  <2>4. last - 0 = last /\ rest = size - all  BY <1>1, <2>3
  <2> QED  BY <2>2, <2>3, <2>4
<1>11. ASSUME Remaining(size, flags) = 0  PROVE flags = 0..last
  <2>1. last \in flags /\ product = 0  BY <1>1, <1>7, <1>8, <1>11
  <2>2. card = last  BY <1>1, <1>4, <1>7, <2>1
  <2>3. D = 0..(last - 1)  BY <1>4, <2>2
  <2>4. ASSUME NEW i \in 0..last  PROVE i \in flags
    <3>1. i = last \/ i \in 0..(last - 1)  BY <1>1
    <3> QED  BY <2>1, <2>3, <3>1 DEF D
  <2> QED  BY <1>1, <2>4
<1>12. ASSUME Remaining(size, flags) # 0  PROVE Cardinality(flags) < last + 1
  <2>1. CASE last \in flags
    <3>1. product # 0  BY <1>8, <1>12, <2>1
    <3>2. c # 0
      <4> SUFFICES ASSUME c = 0  PROVE FALSE
        OBVIOUS
      <4>1. product = u * 0  BY <1>7
      <4> QED  BY <1>1, <3>1, <4>1
    <3>3. flags = D \cup {last} /\ last \notin D  BY <2>1 DEF D
    <3>4. Cardinality(flags) = card + 1  BY <1>4, <3>3, FS_AddElement
    <3> QED  BY <1>4, <1>7, <3>2, <3>4
  <2>2. CASE last \notin flags
    <3>1. flags = D  BY <2>2 DEF D
    <3> QED  BY <1>1, <1>4, <3>1
  <2> QED  BY <2>1, <2>2
<1>13. ASSUME NEW i \in 0..last, i \notin flags
       PROVE  /\ PieceLength(size, i) <= Remaining(size, flags)
              /\ Remaining(size, flags \cup {i}) = Remaining(size, flags) - PieceLength(size, i)
  <2>1. CASE i = last
    <3>1. (flags \cup {i}) \ {last} = D  BY <2>1 DEF D
    <3>2. Remaining(size, flags \cup {i}) = u * (last - card) + 0  BY <1>4, <1>5, <2>1, <3>1
    <3>3. Remaining(size, flags \cup {i}) = product  BY <1>7, <3>2
    <3>4. PieceLength(size, i) = rest /\ Remaining(size, flags) = product + rest
      BY <1>2, <1>8, <1>13, <2>1
    <3> QED  BY <3>3, <3>4
  <2>2. CASE i # last
    <3>1. i \in 0..(last - 1) /\ i \notin D  BY <1>1, <1>13, <2>2 DEF D
    <3>2. (flags \cup {i}) \ {last} = D \cup {i}  BY <2>2 DEF D
    <3>3. Cardinality(D \cup {i}) = card + 1  BY <1>4, <3>1, FS_AddElement
    <3>4. c > 0
      <4> SUFFICES ASSUME c = 0  PROVE FALSE
        BY <1>7
      <4>1. card = last  BY <1>1, <1>4, <1>7
      <4> QED  BY <1>4, <3>1, <4>1
    <3>5. last - (card + 1) = c - 1  BY <1>1, <1>4, <1>7
    <3>6. Remaining(size, flags \cup {i}) = u * (c - 1) + (IF last \in flags THEN 0 ELSE rest)
      BY <1>5, <2>2, <3>2, <3>3, <3>5
    <3>7. Remaining(size, flags \cup {i}) = product - u + (IF last \in flags THEN 0 ELSE rest)
      BY <1>7, <3>4, <3>6
    <3>8. PieceLength(size, i) = u  BY <1>2, <2>2
    <3> QED  BY <1>1, <1>7, <1>8, <3>4, <3>7, <3>8
  <2> QED  BY <2>1, <2>2
<1> QED  BY <1>1, <1>9, <1>10, <1>11, <1>12, <1>13

LEMMA SegmentFields ==
  ASSUME NEW m, NEW n, NEW i, NEW p, p = Segment(m, n, i)
  PROVE  /\ p.from = m.from /\ p.sync = n /\ p.total = m.size /\ p.pieces = Pieces(m.size)
         /\ p.offset = i /\ p.length = PieceLength(m.size, i) /\ p.life = life[m.from] /\ p.msg = m
  BY DEF Segment

LEMMA SegmentTyped ==
  ASSUME NetInv, NEW m \in BigMessages, NEW n \in Nat, NEW i \in 0..LastPiece(m.size)
  PROVE  Segment(m, n, i) \in SegmentSet
<1>1. m.from \in Senders /\ m.size \in Nat /\ m.size > Unit  BY SegmentAssumption
<1>2. /\ LastPiece(m.size) \in Nat /\ Pieces(m.size) = LastPiece(m.size) + 1
      /\ PieceLength(m.size, i) \in Nat
  BY <1>1, PieceProperties
<1>3. life[m.from] \in Nat  BY <1>1 DEF NetInv
<1>4. i \in Nat /\ Pieces(m.size) \in Nat  BY <1>2
<1> QED  BY <1>1, <1>2, <1>3, <1>4 DEF Segment, SegmentSet

\* The parts that a session has stay what they are when more segments are sent.
LEMMA SessionsStay ==
  ASSUME SegmentInv, NetInv', net \subseteq net', UNCHANGED <<sessions, delivered>>
  PROVE  SegmentInv'
<1>1. sessions' = sessions /\ delivered' = delivered
  OBVIOUS
<1>2. SessionInv'
  <2>1. \A i \in 1..Len(sessions) :
          PartsOK(sessions[i])' /\ sessions[i].parts # {} /\ sessions[i].left # 0
    BY <1>1 DEF SegmentInv, SessionInv, PartsOK
  <2> QED  BY <1>1, <2>1 DEF SegmentInv, SessionInv, PartsOK
<1>3. OneSessionEach'  BY <1>1 DEF SegmentInv, OneSessionEach
<1>4. DeliveredWhole'  BY <1>1 DEF SegmentInv, DeliveredWhole
<1> QED  BY <1>2, <1>3, <1>4 DEF SegmentInv

LEMMA SentStep ==
  ASSUME SegmentInv, NEW m \in BigMessages, NEW k \in 1..Pieces(m.size), Send(m, k)
  PROVE  SegmentInv'
<1>1. m.from \in Senders /\ m.size \in Nat /\ m.size > Unit  BY SegmentAssumption
<1>2. /\ serial \in [Senders -> Nat] /\ life \in [Senders -> Nat] /\ net \in SUBSET SegmentSet
      /\ \A p \in net : SegmentOK(p)
      /\ \A p, q \in net : p.from = q.from /\ p.life = q.life /\ p.sync = q.sync => p.msg = q.msg
  BY DEF SegmentInv, NetInv
<1>3. PICK n \in Nat, l \in Nat : n = serial[m.from] /\ l = life[m.from]  BY <1>1, <1>2
<1>4. PICK new : new = {Segment(m, n, i) : i \in 0..(k - 1)}
  OBVIOUS
<1>5. /\ n < MaxSends[m.from] /\ serial' = [serial EXCEPT ![m.from] = n + 1]
      /\ net' = net \cup new /\ life' = life /\ UNCHANGED <<sessions, delivered>>
  BY <1>3, <1>4 DEF Send
<1>6. ASSUME NEW p \in new
      PROVE  /\ p \in SegmentSet /\ p.from = m.from /\ p.sync = n /\ p.life = l /\ p.msg = m
             /\ p.total = m.size /\ p.pieces = Pieces(m.size)
             /\ p.offset \in 0..LastPiece(m.size) /\ p.length = PieceLength(m.size, p.offset)
  <2>1. PICK i \in 0..(k - 1) : p = Segment(m, n, i)  BY <1>4, <1>6
  <2>2. i \in 0..LastPiece(m.size)
    <3>1. LastPiece(m.size) \in Nat /\ Pieces(m.size) = LastPiece(m.size) + 1
      BY <1>1, PieceProperties
    <3> QED  BY <3>1
  <2>3. p \in SegmentSet  BY <2>1, <2>2, SegmentTyped DEF SegmentInv
  <2> QED  BY <1>3, <2>1, <2>2, <2>3, SegmentFields
<1>7. serial' \in [Senders -> Nat] /\ serial'[m.from] = n + 1
        /\ \A s \in Senders : s # m.from => serial'[s] = serial[s]
  BY <1>1, <1>2, <1>3, <1>5
<1>8. ASSUME NEW p \in net  PROVE SegmentOK(p)'
  <2>1. SegmentOK(p) /\ p \in SegmentSet  BY <1>2
  <2>2. p.from \in Senders /\ p.sync \in Nat  BY <2>1 DEF SegmentSet
  <2>3. p.life = life[p.from] => p.sync < serial'[p.from]
    <3>1. CASE p.from = m.from
      <4>1. p.life = life[p.from] => p.sync < n  BY <1>3, <2>1, <3>1 DEF SegmentOK
      <4> QED  BY <1>7, <2>2, <3>1, <4>1
    <3>2. CASE p.from # m.from
      BY <1>7, <2>1, <2>2, <3>2 DEF SegmentOK
    <3> QED  BY <3>1, <3>2
  <2> QED  BY <1>5, <2>1, <2>3 DEF SegmentOK
<1>9. ASSUME NEW p \in new  PROVE SegmentOK(p)'
  <2>1. p.life = life'[p.from] /\ p.sync < serial'[p.from] /\ p.life <= life'[p.from]
    BY <1>3, <1>5, <1>6, <1>7
  <2> QED  BY <1>5, <1>6, <2>1 DEF SegmentOK
<1>10. ASSUME NEW p \in net, NEW q \in new, p.from = q.from, p.life = q.life, p.sync = q.sync
       PROVE  FALSE
  <2>1. p.from = m.from /\ p.life = life[p.from] /\ p.sync = n  BY <1>3, <1>6, <1>10
  <2>2. p.sync < n  BY <1>2, <1>3, <2>1 DEF SegmentOK
  <2> QED  BY <2>1, <2>2
<1>11. \A p, q \in net' : p.from = q.from /\ p.life = q.life /\ p.sync = q.sync => p.msg = q.msg
  <2> SUFFICES ASSUME NEW p \in net', NEW q \in net',
                      p.from = q.from, p.life = q.life, p.sync = q.sync
               PROVE  p.msg = q.msg
    OBVIOUS
  <2>1. CASE p \in net /\ q \in net  BY <1>2, <2>1
  <2>2. CASE p \in new /\ q \in new  BY <1>6, <2>2
  <2>3. CASE p \in net /\ q \in new  BY <1>10, <2>3
  <2>4. CASE p \in new /\ q \in net  BY <1>10, <2>4
  <2> QED  BY <1>5, <2>1, <2>2, <2>3, <2>4
<1>12. NetInv'
  <2>1. net' \in SUBSET SegmentSet  BY <1>2, <1>5, <1>6
  <2>2. \A p \in net' : SegmentOK(p)'  BY <1>5, <1>8, <1>9
  <2> QED  BY <1>2, <1>5, <1>7, <1>11, <2>1, <2>2 DEF NetInv, SegmentOK
<1> QED  BY <1>5, <1>12, SessionsStay

LEMMA RestartStep ==
  ASSUME SegmentInv, NEW s \in Senders, Restart(s)
  PROVE  SegmentInv'
<1>1. /\ serial \in [Senders -> Nat] /\ life \in [Senders -> Nat] /\ net \in SUBSET SegmentSet
      /\ \A p \in net : SegmentOK(p)
      /\ \A p, q \in net : p.from = q.from /\ p.life = q.life /\ p.sync = q.sync => p.msg = q.msg
  BY DEF SegmentInv, NetInv
<1>2. /\ life' = [life EXCEPT ![s] = life[s] + 1] /\ serial' = [serial EXCEPT ![s] = 0]
      /\ net' = net /\ UNCHANGED <<sessions, delivered>>
  BY DEF Restart
<1>3. serial' \in [Senders -> Nat] /\ life' \in [Senders -> Nat]  BY <1>1, <1>2
<1>4. ASSUME NEW p \in net  PROVE SegmentOK(p)'
  <2>1. SegmentOK(p) /\ p.from \in Senders /\ p.life \in Nat /\ p.sync \in Nat
    BY <1>1 DEF SegmentSet
  <2>2. p.life <= life[p.from] /\ life[p.from] \in Nat  BY <1>1, <2>1 DEF SegmentOK
  <2>3. p.life <= life'[p.from] /\ (p.life = life'[p.from] => p.sync < serial'[p.from])
    <3>1. CASE p.from = s
      <4>1. life'[p.from] = life[p.from] + 1  BY <1>1, <1>2, <2>1, <3>1
      <4>2. PICK a \in Nat, b \in Nat : a = p.life /\ b = life[p.from] /\ a <= b
        BY <2>1, <2>2
      <4>3. a <= b + 1 /\ a # b + 1  BY <4>2
      <4> QED  BY <4>1, <4>2, <4>3
    <3>2. CASE p.from # s
      <4>1. life'[p.from] = life[p.from] /\ serial'[p.from] = serial[p.from]
        BY <1>1, <1>2, <2>1, <3>2
      <4> QED  BY <2>1, <4>1 DEF SegmentOK
    <3> QED  BY <3>1, <3>2
  <2> QED  BY <2>1, <2>3 DEF SegmentOK
<1>5. NetInv'
  <2>1. \A p \in net' : SegmentOK(p)'  BY <1>2, <1>4
  <2> QED  BY <1>1, <1>2, <1>3, <2>1 DEF NetInv, SegmentOK
<1> QED  BY <1>2, <1>5, SessionsStay

\* What copying a segment into the buffer of a session does.
Copied(s, p, s1) ==
  /\ s1 \in SessionSet /\ s1.from = s.from /\ s1.sync = s.sync
  /\ s1.total = s.total /\ s1.pieces = s.pieces
  /\ IF p.offset \notin s.flags /\ p.length <= s.left
     THEN /\ s1.flags = s.flags \cup {p.offset} /\ s1.left = s.left - p.length
          /\ s1.parts = s.parts \cup {p}
     ELSE s1 = s

LEMMA CopyFields ==
  ASSUME NEW s \in SessionSet, NEW p \in SegmentSet
  PROVE  Copied(s, p, Copy(s, p))
<1>1. PICK s1 : s1 = Copy(s, p)
  OBVIOUS
<1>2. CASE p.offset \notin s.flags /\ p.length <= s.left
  <2>1. s1 = [s EXCEPT !.flags = @ \cup {p.offset}, !.left = @ - p.length, !.parts = @ \cup {p}]
    BY <1>1, <1>2 DEF Copy
  <2>2. s.left \in Nat /\ p.length \in Nat /\ p.offset \in Nat
    BY DEF SessionSet, SegmentSet
  <2>3. s.left - p.length \in Nat  BY <1>2, <2>2
  <2>4. /\ s1.flags = s.flags \cup {p.offset} /\ s1.left = s.left - p.length
        /\ s1.parts = s.parts \cup {p}
        /\ s1.from = s.from /\ s1.sync = s.sync /\ s1.total = s.total /\ s1.pieces = s.pieces
    BY <2>1 DEF SessionSet
  <2>5. s1 \in SessionSet  BY <2>1, <2>2, <2>3 DEF SessionSet
  <2> QED  BY <1>1, <1>2, <2>4, <2>5 DEF Copied
<1>3. CASE ~ (p.offset \notin s.flags /\ p.length <= s.left)
  <2>1. s1 = s  BY <1>1, <1>3 DEF Copy
  <2> QED  BY <1>1, <1>3, <2>1 DEF Copied
<1> QED  BY <1>2, <1>3

\* A session that its constructor begins.
LEMMA NewSessionProperties ==
  ASSUME NetInv, NEW p \in net, NEW s, s = NewSession(p)
  PROVE  /\ s \in SessionSet /\ s.from = p.from /\ s.sync = p.sync
         /\ s.parts = {} /\ s.flags = {} /\ s.left = p.total
         /\ PartsOK(s) /\ Collected(s, p.msg)
<1>1. p \in SegmentSet /\ SegmentOK(p)  BY DEF NetInv
<1>2. /\ s.from = p.from /\ s.sync = p.sync /\ s.total = p.total /\ s.pieces = p.pieces
      /\ s.parts = {} /\ s.flags = {} /\ s.left = p.total
  BY DEF NewSession
<1>3. s \in SessionSet  BY <1>1 DEF NewSession, SessionSet, SegmentSet
<1>4. p.msg \in BigMessages  BY <1>1 DEF SegmentSet
<1>5. p.msg.size \in Nat /\ p.msg.size > Unit  BY <1>4, SegmentAssumption
<1>6. Remaining(p.msg.size, {}) = p.msg.size
  <2>1. {} \in SUBSET (0..LastPiece(p.msg.size))
    OBVIOUS
  <2> QED  BY <1>5, <2>1, RemainingProperties
<1>7. Collected(s, p.msg)  BY <1>1, <1>2, <1>6 DEF Collected, SegmentOK
<1>8. PartsOK(s)  BY <1>2, <1>4, <1>7 DEF PartsOK
<1> QED  BY <1>2, <1>3, <1>7, <1>8

\* A segment of the session's number keeps it right.
LEMMA CopyStep ==
  ASSUME NetInv, NEW p \in net, NEW s \in SessionSet, PartsOK(s), NEW s1, Copied(s, p, s1),
         p.from = s.from, p.sync = s.sync, s.parts = {} => Collected(s, p.msg)
  PROVE  PartsOK(s1)
<1>1. p \in SegmentSet /\ SegmentOK(p) /\ p.msg \in BigMessages  BY DEF NetInv, SegmentSet
<1>2. CASE ~ (p.offset \notin s.flags /\ p.length <= s.left)
  BY <1>2 DEF Copied
<1>3. CASE p.offset \notin s.flags /\ p.length <= s.left
  <2>1. /\ s1.from = s.from /\ s1.sync = s.sync /\ s1.total = s.total /\ s1.pieces = s.pieces
        /\ s1.flags = s.flags \cup {p.offset} /\ s1.left = s.left - p.length
        /\ s1.parts = s.parts \cup {p}
    BY <1>3 DEF Copied
  <2>2. s1.parts \subseteq net /\ s1.flags = {q.offset : q \in s1.parts}  BY <2>1 DEF PartsOK
  <2>3. \A q \in s1.parts : q.from = s1.from /\ q.sync = s1.sync  BY <2>1 DEF PartsOK
  <2>4. ASSUME OneLife(s1.parts)  PROVE Collected(s1, p.msg)
    <3>1. Collected(s, p.msg)
      <4>1. CASE s.parts = {}
        BY <4>1
      <4>2. CASE s.parts # {}
        <5>1. OneLife(s.parts)  BY <2>1, <2>4 DEF OneLife
        <5>2. PICK m \in BigMessages : Collected(s, m)  BY <5>1 DEF PartsOK
        <5>3. PICK q \in s.parts : TRUE  BY <4>2
        <5>4. q \in net /\ q.from = p.from /\ q.sync = p.sync  BY DEF PartsOK
        <5>5. q.life = p.life  BY <2>1, <2>4 DEF OneLife
        <5>6. q.msg = p.msg  BY <5>4, <5>5 DEF NetInv
        <5>7. q.msg = m  BY <5>2 DEF Collected
        <5> QED  BY <5>2, <5>6, <5>7
      <4> QED  BY <4>1, <4>2
    <3>2. PICK size \in Nat : size = p.msg.size /\ size > Unit  BY <1>1, SegmentAssumption
    <3>3. s.flags \in SUBSET (0..LastPiece(size)) /\ s.left = Remaining(size, s.flags)
      BY <3>1, <3>2 DEF Collected
    <3>4. p.offset \in 0..LastPiece(size) /\ p.length = PieceLength(size, p.offset)
      BY <1>1, <3>2 DEF SegmentOK
    <3>5. Remaining(size, s.flags \cup {p.offset}) = Remaining(size, s.flags) - p.length
      BY <1>3, <3>2, <3>3, <3>4, RemainingProperties
    <3>6. s1.left = Remaining(size, s1.flags) /\ s1.flags \subseteq 0..LastPiece(size)
      BY <2>1, <3>3, <3>4, <3>5
    <3>7. \A q \in s1.parts : q.msg = p.msg  BY <2>1, <3>1 DEF Collected
    <3> QED  BY <2>1, <3>1, <3>2, <3>6, <3>7 DEF Collected
  <2> QED  BY <1>1, <2>2, <2>3, <2>4 DEF PartsOK
<1> QED  BY <1>2, <1>3

\* What is handed on is whole.
WholeMessage(d) ==
  (d # {} /\ OneLife(d)) =>
    \E m \in BigMessages : \E n \in 0..(MaxSends[m.from] - 1) :
      /\ \A p \in d : p.msg = m /\ p.sync = n
      /\ {p.offset : p \in d} = 0..(Pieces(m.size) - 1)

LEMMA CompleteSession ==
  ASSUME NetInv, NEW s \in SessionSet, PartsOK(s), s.left = 0
  PROVE  WholeMessage(s.parts)
<1> SUFFICES ASSUME s.parts # {}, OneLife(s.parts)
             PROVE  \E m \in BigMessages : \E n \in 0..(MaxSends[m.from] - 1) :
                      /\ \A p \in s.parts : p.msg = m /\ p.sync = n
                      /\ {p.offset : p \in s.parts} = 0..(Pieces(m.size) - 1)
  BY DEF WholeMessage
<1>1. PICK m \in BigMessages : Collected(s, m)  BY DEF PartsOK
<1>2. PICK size \in Nat : size = m.size /\ size > Unit  BY SegmentAssumption
<1>3. s.flags \in SUBSET (0..LastPiece(size)) /\ Remaining(size, s.flags) = 0
  BY <1>1, <1>2 DEF Collected
<1>4. s.flags = 0..LastPiece(size)  BY <1>2, <1>3, RemainingProperties
<1>5. PICK q \in s.parts : q \in net /\ q.sync = s.sync /\ q.msg = m
  BY <1>1 DEF PartsOK, Collected
<1>6. SegmentOK(q) /\ q \in SegmentSet  BY <1>5 DEF NetInv
<1>7. q.from = m.from /\ q.sync < MaxSends[m.from] /\ q.sync \in Nat /\ m.from \in Senders
  BY <1>5, <1>6, SegmentAssumption DEF SegmentOK, SegmentSet
<1>8. PICK n \in 0..(MaxSends[m.from] - 1) : n = s.sync
  <2>1. MaxSends[m.from] \in Nat  BY <1>7, SegmentAssumption
  <2> QED  BY <1>5, <1>7, <2>1
<1>9. \A p \in s.parts : p.msg = m /\ p.sync = n  BY <1>1, <1>8 DEF PartsOK, Collected
<1>10. {p.offset : p \in s.parts} = 0..(Pieces(m.size) - 1)
  BY <1>2, <1>4 DEF PartsOK, LastPiece
<1> QED  BY <1>9, <1>10

LEMMA IncompleteSession ==
  ASSUME NEW s \in SessionSet, PartsOK(s), s.left # 0, OneLife(s.parts)
  PROVE  Cardinality(s.flags) < s.pieces
<1>1. PICK m \in BigMessages : Collected(s, m)  BY DEF PartsOK
<1>2. PICK size \in Nat : size = m.size /\ size > Unit  BY SegmentAssumption
<1>3. s.flags \in SUBSET (0..LastPiece(size)) /\ Remaining(size, s.flags) # 0
  BY <1>1, <1>2 DEF Collected
<1>4. Cardinality(s.flags) < Pieces(size)  BY <1>2, <1>3, RemainingProperties
<1> QED  BY <1>1, <1>2, <1>4 DEF Collected

\* the session that a segment belongs to
Found(p) == SelectInSeq(sessions, LAMBDA s : Matches(s, p))

LEMMA FoundProperties ==
  ASSUME SessionInv, NEW p
  PROVE  /\ Found(p) = 0 \/ Found(p) \in 1..Len(sessions)
         /\ Found(p) = 0 => \A j \in 1..Len(sessions) : ~ Matches(sessions[j], p)
         /\ Found(p) # 0 => Matches(sessions[Found(p)], p)
<1> DEFINE I == {j \in 1..Len(sessions) : Matches(sessions[j], p)}
<1>1. Found(p) = IF I # {} THEN Min(I) ELSE 0  BY DEF Found, SelectInSeq
<1>2. I \in SUBSET Nat /\ I \subseteq 1..Len(sessions)
  OBVIOUS
<1>3. \A j \in I : Matches(sessions[j], p)
  OBVIOUS
<1>4. I = {} => \A j \in 1..Len(sessions) : ~ Matches(sessions[j], p)
  OBVIOUS
<1> HIDE DEF I
<1>5. I # {} => Min(I) \in I  BY <1>2, MinInSet
<1>6. CASE I = {}
  BY <1>1, <1>4, <1>6
<1>7. CASE I # {}
  <2>1. PICK i \in I : i = Found(p)  BY <1>1, <1>5, <1>7
  <2>2. i \in 1..Len(sessions) /\ i # 0  BY <1>2
  <2> QED  BY <1>3, <2>1, <2>2
<1> QED  BY <1>6, <1>7

\* the sessions are right, and there is one for a number
Fine(t) ==
  /\ t \in Seq(SessionSet)
  /\ \A j \in 1..Len(t) : PartsOK(t[j]) /\ t[j].parts # {} /\ t[j].left # 0
  /\ \A j, k \in 1..Len(t) : (t[j].from = t[k].from /\ t[j].sync = t[k].sync) => j = k

LEMMA ArriveStep ==
  ASSUME SegmentInv, NEW p \in net, Arrive(p)
  PROVE  SegmentInv'
<1>1. NetInv /\ SessionInv /\ p \in SegmentSet  BY DEF SegmentInv, NetInv
<1>2. PICK l \in Seq(SessionSet) : l = sessions  BY <1>1 DEF SessionInv
<1>3. PICK len \in Nat : len = Len(l)  BY LenProperties
<1>4. PICK i \in 0..len :
        /\ i = Found(p)
        /\ i = 0 => \A j \in 1..len : ~ Matches(l[j], p)
        /\ i # 0 => i \in 1..len /\ Matches(l[i], p)
  <2>1. /\ Found(p) = 0 \/ Found(p) \in 1..len
        /\ Found(p) = 0 => \A j \in 1..len : ~ Matches(l[j], p)
        /\ Found(p) # 0 => Matches(l[Found(p)], p)
    BY <1>1, <1>2, <1>3, FoundProperties
  <2>2. Found(p) \in 0..len  BY <2>1
  <2> QED  BY <2>1, <2>2
<1>5. PICK s0 : s0 = IF i = 0 THEN NewSession(p) ELSE l[i]
  OBVIOUS
<1>6. /\ s0 \in SessionSet /\ s0.from = p.from /\ s0.sync = p.sync /\ PartsOK(s0)
      /\ s0.parts = {} => Collected(s0, p.msg) /\ s0.flags = {} /\ s0.left = p.total
  <2>1. CASE i = 0  BY <1>1, <1>5, <2>1, NewSessionProperties
  <2>2. CASE i # 0
    <3>1. i \in 1..len /\ s0 = l[i] /\ s0.from = p.from /\ s0.sync = p.sync
      BY <1>4, <1>5, <2>2 DEF Matches
    <3>2. s0 \in SessionSet  BY <1>3, <3>1, ElementOfSeq
    <3>3. PartsOK(s0) /\ s0.parts # {}  BY <1>1, <1>2, <1>3, <3>1 DEF SessionInv
    <3> QED  BY <3>1, <3>2, <3>3
  <2> QED  BY <2>1, <2>2
<1>7. PICK s \in SessionSet : s = Copy(s0, p) /\ Copied(s0, p, s)
  <2>1. Copied(s0, p, Copy(s0, p))  BY <1>1, <1>6, CopyFields
  <2>2. Copy(s0, p) \in SessionSet  BY <2>1 DEF Copied
  <2> QED  BY <2>1, <2>2
<1>8. PartsOK(s) /\ s.from = p.from /\ s.sync = p.sync
  <2>1. PartsOK(s)  BY <1>1, <1>6, <1>7, CopyStep
  <2> QED  BY <1>6, <1>7, <2>1 DEF Copied
<1>9. s.parts # {}
  <2>1. CASE s0.parts = {}
    <3>1. p.offset \notin s0.flags /\ p.length <= s0.left
      <4>1. SegmentOK(p) /\ p.msg \in BigMessages  BY <1>1 DEF NetInv, SegmentSet
      <4>2. p.msg.size \in Nat /\ p.msg.size > Unit  BY <4>1, SegmentAssumption
      <4>3. p.length <= p.total  BY <4>1, <4>2, PieceProperties DEF SegmentOK
      <4> QED  BY <1>6, <2>1, <4>3
    <3> QED  BY <1>7, <3>1 DEF Copied
  <2>2. CASE s0.parts # {}
    BY <1>7, <2>2 DEF Copied
  <2> QED  BY <2>1, <2>2
<1>10. PICK rest : rest = IF i = 0 THEN l ELSE RemoveAt(l, i)
  OBVIOUS
<1>11. /\ serial' = serial /\ life' = life /\ net' = net
       /\ IF s.left = 0 THEN sessions' = rest /\ delivered' = s.parts
          ELSE /\ sessions' = IF i = 0 THEN Append(l, s) ELSE [l EXCEPT ![i] = s]
               /\ delivered' = delivered
  BY <1>2, <1>4, <1>5, <1>7, <1>10 DEF Arrive, Found
<1>12. NetInv'
  <2>1. \A q \in net : SegmentOK(q)'  BY <1>1, <1>11 DEF NetInv, SegmentOK
  <2> QED  BY <1>1, <1>11, <2>1 DEF NetInv, SegmentOK
<1>13. \A j \in 1..len : PartsOK(l[j]) /\ l[j].parts # {} /\ l[j].left # 0 /\ l[j] \in SessionSet
  BY <1>1, <1>2, <1>3, ElementOfSeq DEF SessionInv
<1>14. \A j, k \in 1..len : l[j].from = l[k].from /\ l[j].sync = l[k].sync => j = k
  BY <1>2, <1>3 DEF SegmentInv, OneSessionEach
<1>15. PICK t : t = sessions'
  OBVIOUS
<1>16. Fine(t)
  <2>1. CASE s.left = 0 /\ i = 0
    <3>1. t = l  BY <1>10, <1>11, <1>15, <2>1
    <3> QED  BY <1>3, <1>13, <1>14, <3>1 DEF Fine
  <2>2. CASE s.left = 0 /\ i # 0
    <3>1. t = RemoveAt(l, i) /\ i \in 1..Len(l)  BY <1>3, <1>4, <1>10, <1>11, <1>15, <2>2
    <3>2. /\ t \in Seq(SessionSet) /\ Len(t) = len - 1
          /\ \A j \in 1..(len - 1) : t[j] = IF j < i THEN l[j] ELSE l[j + 1]
      BY <1>3, <3>1, RemoveAtProperties
    <3> DEFINE old(j) == IF j < i THEN j ELSE j + 1
    <3>3. \A j \in 1..(len - 1) : t[j] = l[old(j)] /\ old(j) \in 1..len
      BY <3>2
    <3>4. \A j, k \in 1..(len - 1) : old(j) = old(k) => j = k
      OBVIOUS
    <3> HIDE DEF old
    <3>5. \A j \in 1..Len(t) : PartsOK(t[j]) /\ t[j].parts # {} /\ t[j].left # 0
      BY <1>13, <3>2, <3>3
    <3>6. \A j, k \in 1..Len(t) : (t[j].from = t[k].from /\ t[j].sync = t[k].sync) => j = k
      <4> SUFFICES ASSUME NEW j \in 1..(len - 1), NEW k \in 1..(len - 1),
                          t[j].from = t[k].from, t[j].sync = t[k].sync
                   PROVE  j = k
        BY <3>2
      <4>1. PICK a \in 1..len : a = old(j) /\ t[j] = l[a]  BY <3>3
      <4>2. PICK b \in 1..len : b = old(k) /\ t[k] = l[b]  BY <3>3
      <4>3. a = b  BY <1>14, <4>1, <4>2
      <4> QED  BY <3>4, <4>1, <4>2, <4>3
    <3> QED  BY <3>2, <3>5, <3>6 DEF Fine
  <2>3. CASE s.left # 0 /\ i = 0
    <3>1. t = Append(l, s)  BY <1>11, <1>15, <2>3
    <3>2. /\ t \in Seq(SessionSet) /\ Len(t) = len + 1 /\ t[len + 1] = s
          /\ \A j \in 1..len : t[j] = l[j]
      BY <1>3, <3>1, AppendProperties
    <3>3. \A j \in 1..(len + 1) : j \in 1..len \/ j = len + 1
      OBVIOUS
    <3>4. \A j \in 1..Len(t) : PartsOK(t[j]) /\ t[j].parts # {} /\ t[j].left # 0
      BY <1>8, <1>9, <1>13, <2>3, <3>2, <3>3
    <3>5. \A j \in 1..len : ~ (l[j].from = s.from /\ l[j].sync = s.sync)
      BY <1>4, <1>8, <2>3 DEF Matches
    <3>6. \A j, k \in 1..Len(t) : (t[j].from = t[k].from /\ t[j].sync = t[k].sync) => j = k
      <4> SUFFICES ASSUME NEW j \in 1..(len + 1), NEW k \in 1..(len + 1),
                          t[j].from = t[k].from, t[j].sync = t[k].sync
                   PROVE  j = k
        BY <3>2
      <4>1. CASE j \in 1..len /\ k \in 1..len  BY <1>14, <3>2, <4>1
      <4>2. CASE j \in 1..len /\ k = len + 1  BY <3>2, <3>5, <4>2
      <4>3. CASE j = len + 1 /\ k \in 1..len  BY <3>2, <3>5, <4>3
      <4>4. CASE j = len + 1 /\ k = len + 1  BY <4>4
      <4> QED  BY <3>3, <4>1, <4>2, <4>3, <4>4
    <3> QED  BY <3>2, <3>4, <3>6 DEF Fine
  <2>4. CASE s.left # 0 /\ i # 0
    <3>1. t = [l EXCEPT ![i] = s] /\ i \in 1..Len(l)  BY <1>3, <1>4, <1>11, <1>15, <2>4
    <3>2. /\ t \in Seq(SessionSet) /\ Len(t) = len
          /\ \A j \in 1..len : t[j] = IF j = i THEN s ELSE l[j]
      BY <1>3, <3>1, ExceptSeq
    <3>3. s.from = l[i].from /\ s.sync = l[i].sync  BY <1>4, <1>8, <2>4 DEF Matches
    <3>4. \A j \in 1..Len(t) : PartsOK(t[j]) /\ t[j].parts # {} /\ t[j].left # 0
      BY <1>8, <1>9, <1>13, <2>4, <3>2
    <3>5. \A j \in 1..len : t[j].from = l[j].from /\ t[j].sync = l[j].sync
      BY <3>2, <3>3
    <3>6. \A j, k \in 1..Len(t) : (t[j].from = t[k].from /\ t[j].sync = t[k].sync) => j = k
      BY <1>14, <3>2, <3>5
    <3> QED  BY <3>2, <3>4, <3>6 DEF Fine
  <2> QED  BY <2>1, <2>2, <2>3, <2>4
<1>17. SessionInv' /\ OneSessionEach'
  BY <1>11, <1>15, <1>16 DEF Fine, SessionInv, OneSessionEach, PartsOK
<1>18. DeliveredWhole'
  <2>1. CASE s.left = 0
    <3>1. WholeMessage(delivered')  BY <1>1, <1>8, <1>11, <2>1, CompleteSession
    <3> QED  BY <3>1 DEF WholeMessage, DeliveredWhole, OneLife
  <2>2. CASE s.left # 0
    <3>1. delivered' = delivered  BY <1>11, <2>2
    <3> QED  BY <3>1 DEF SegmentInv, DeliveredWhole
  <2> QED  BY <2>1, <2>2
<1> QED  BY <1>12, <1>17, <1>18 DEF SegmentInv

\* Only the ages change.
LEMMA TimeStep ==
  ASSUME SegmentInv, TimePasses
  PROVE  SegmentInv'
<1>1. NetInv /\ SessionInv  BY DEF SegmentInv
<1>2. PICK l \in Seq(SessionSet) : l = sessions  BY <1>1 DEF SessionInv
<1>3. PICK len \in Nat : len = Len(l) /\ DOMAIN l = 1..len  BY LenProperties
<1>4. /\ serial' = serial /\ life' = life /\ net' = net /\ delivered' = delivered
      /\ sessions' = [i \in 1..len |-> [l[i] EXCEPT !.age = IF @ > MaxAge THEN @ ELSE @ + 1]]
  BY <1>2, <1>3 DEF TimePasses
<1>5. \A j \in 1..len : PartsOK(l[j]) /\ l[j].parts # {} /\ l[j].left # 0 /\ l[j] \in SessionSet
  BY <1>1, <1>2, <1>3, ElementOfSeq DEF SessionInv
<1>6. \A j, k \in 1..len : l[j].from = l[k].from /\ l[j].sync = l[k].sync => j = k
  BY <1>2, <1>3 DEF SegmentInv, OneSessionEach
<1>7. PICK t : t = sessions'
  OBVIOUS
<1>8. ASSUME NEW j \in 1..len
      PROVE  /\ t[j] \in SessionSet /\ t[j].from = l[j].from /\ t[j].sync = l[j].sync
             /\ t[j].total = l[j].total /\ t[j].pieces = l[j].pieces /\ t[j].left = l[j].left
             /\ t[j].flags = l[j].flags /\ t[j].parts = l[j].parts
  <2>1. l[j] \in SessionSet /\ l[j].age \in Nat  BY <1>5 DEF SessionSet
  <2>2. PICK a \in Nat : t[j] = [l[j] EXCEPT !.age = a]
    <3>1. (IF l[j].age > MaxAge THEN l[j].age ELSE l[j].age + 1) \in Nat  BY <2>1
    <3>2. t[j] = [l[j] EXCEPT !.age = IF l[j].age > MaxAge THEN l[j].age ELSE l[j].age + 1]
      BY <1>4, <1>7
    <3> QED  BY <3>1, <3>2
  <2> QED  BY <2>1, <2>2 DEF SessionSet
<1>9. t \in Seq(SessionSet) /\ Len(t) = len
  <2>1. t \in [1..len -> SessionSet]  BY <1>4, <1>7, <1>8
  <2> QED  BY <2>1
<1>10. \A j \in 1..len : PartsOK(t[j]) /\ t[j].parts # {} /\ t[j].left # 0
  <2> SUFFICES ASSUME NEW j \in 1..len  PROVE PartsOK(t[j]) /\ t[j].parts # {} /\ t[j].left # 0
    OBVIOUS
  <2>1. PartsOK(l[j]) /\ l[j].parts # {} /\ l[j].left # 0  BY <1>5
  <2> QED  BY <1>8, <2>1 DEF PartsOK, Collected
<1>11. Fine(t)  BY <1>6, <1>8, <1>9, <1>10 DEF Fine
<1>12. SessionInv' /\ OneSessionEach'
  <2>1. net' = net  BY <1>4
  <2> QED  BY <1>7, <1>11, <2>1 DEF Fine, SessionInv, OneSessionEach, PartsOK
<1>13. NetInv'
  <2>1. \A q \in net : SegmentOK(q)'  BY <1>1, <1>4 DEF NetInv, SegmentOK
  <2> QED  BY <1>1, <1>4, <2>1 DEF NetInv, SegmentOK
<1>14. DeliveredWhole'  BY <1>4 DEF SegmentInv, DeliveredWhole
<1> QED  BY <1>12, <1>13, <1>14 DEF SegmentInv

\* Sessions that are too old go.
LEMMA CleanStep ==
  ASSUME SegmentInv, Clean
  PROVE  SegmentInv'
<1>1. NetInv /\ SessionInv  BY DEF SegmentInv
<1>2. PICK l \in Seq(SessionSet) : l = sessions  BY <1>1 DEF SessionInv
<1>3. PICK del : sessions' = Without(l, del)  BY <1>2 DEF Clean
<1>4. PICK t : t = sessions' /\ t = Without(l, del)  BY <1>3
<1>5. serial' = serial /\ life' = life /\ net' = net /\ delivered' = delivered
  BY DEF Clean
<1>6. \A j \in 1..Len(l) : PartsOK(l[j]) /\ l[j].parts # {} /\ l[j].left # 0
  BY <1>1, <1>2 DEF SessionInv
<1>7. \A j, k \in 1..Len(l) : l[j].from = l[k].from /\ l[j].sync = l[k].sync => j = k
  BY <1>2 DEF SegmentInv, OneSessionEach
<1>8. /\ t \in Seq(SessionSet)
      /\ \A j \in 1..Len(t) : \E i \in 1..Len(l) : l[i] = t[j]
      /\ \A i, j \in 1..Len(t) : t[i] = t[j] => i = j
  <2>1. \A i, j \in 1..Len(l) : l[i] = l[j] => i = j  BY <1>7
  <2>2. /\ Without(l, del) \in Seq(SessionSet)
        /\ \A j \in 1..Len(Without(l, del)) : \E i \in 1..Len(l) : l[i] = Without(l, del)[j]
        /\ \A i, j \in 1..Len(Without(l, del)) : Without(l, del)[i] = Without(l, del)[j] => i = j
    BY <2>1, WithoutProperties
  <2> QED  BY <1>4, <2>2
<1>9. \A j \in 1..Len(t) : PartsOK(t[j]) /\ t[j].parts # {} /\ t[j].left # 0  BY <1>6, <1>8
<1>10. \A j, k \in 1..Len(t) : (t[j].from = t[k].from /\ t[j].sync = t[k].sync) => j = k
  <2> SUFFICES ASSUME NEW j \in 1..Len(t), NEW k \in 1..Len(t),
                      t[j].from = t[k].from, t[j].sync = t[k].sync
               PROVE  j = k
    OBVIOUS
  <2>1. PICK a \in 1..Len(l) : l[a] = t[j]  BY <1>8
  <2>2. PICK b \in 1..Len(l) : l[b] = t[k]  BY <1>8
  <2>3. a = b  BY <1>7, <2>1, <2>2
  <2>4. t[j] = t[k]  BY <2>1, <2>2, <2>3
  <2> QED  BY <1>8, <2>4
<1>11. SessionInv' /\ OneSessionEach'
  BY <1>4, <1>5, <1>8, <1>9, <1>10 DEF SessionInv, OneSessionEach, PartsOK
<1>12. NetInv'
  <2>1. \A q \in net : SegmentOK(q)'  BY <1>1, <1>5 DEF NetInv, SegmentOK
  <2> QED  BY <1>1, <1>5, <2>1 DEF NetInv, SegmentOK
<1>13. DeliveredWhole'  BY <1>5 DEF SegmentInv, DeliveredWhole
<1> QED  BY <1>11, <1>12, <1>13 DEF SegmentInv

\* The segments of a number are of one message; each session has collected segments of one
\* number and knows what is missing.
THEOREM SessionInvariance == Spec => []SegmentInv
<1>1. Init => SegmentInv
  <2> SUFFICES ASSUME Init  PROVE SegmentInv
    OBVIOUS
  <2>1. /\ serial = [s \in Senders |-> 0] /\ life = [s \in Senders |-> 1] /\ net = {}
        /\ sessions = <<>> /\ delivered = {}
    BY DEF Init, SegmentInit
  <2>2. NetInv  BY <2>1 DEF NetInv
  <2>3. SessionInv /\ OneSessionEach  BY <2>1 DEF SessionInv, OneSessionEach
  <2>4. DeliveredWhole  BY <2>1 DEF DeliveredWhole
  <2> QED  BY <2>2, <2>3, <2>4 DEF SegmentInv
<1>2. SegmentInv /\ [Next]_vars => SegmentInv'
  <2> SUFFICES ASSUME SegmentInv, [Next]_vars  PROVE SegmentInv'
    OBVIOUS
  <2>1. CASE SegmentNext
    BY <2>1, SentStep, RestartStep, ArriveStep, TimeStep, CleanStep DEF SegmentNext
  <2>2. CASE UNCHANGED segmentVars
    <3>1. /\ serial' = serial /\ life' = life /\ net' = net
          /\ UNCHANGED <<sessions, delivered>>
      BY <2>2 DEF segmentVars
    <3>2. NetInv'
      <4>1. \A q \in net : SegmentOK(q)'  BY <3>1 DEF SegmentInv, NetInv, SegmentOK
      <4> QED  BY <3>1, <4>1 DEF SegmentInv, NetInv, SegmentOK
    <3> QED  BY <3>1, <3>2, SessionsStay
  <2>3. SegmentNext \/ UNCHANGED segmentVars  BY DEF Next, OverTCP, OverUDP, vars
  <2> QED  BY <2>1, <2>2, <2>3
<1> QED  BY <1>1, <1>2, PTL DEF Spec

\* Whatever is lost, duplicated or reordered: what is handed on is one message that was
\* sent, with every segment of it (unless the sender was started anew meanwhile).
THEOREM BigMessagesWhole == Spec => []DeliveredWhole
  BY SessionInvariance, PTL DEF SegmentInv

\* No session lies there with all its segments.
THEOREM CompletedLeave == Spec => []NoneLeftComplete
<1>1. SegmentInv => NoneLeftComplete
  <2> SUFFICES ASSUME SegmentInv, NEW i \in 1..Len(sessions), OneLife(sessions[i].parts)
               PROVE  Cardinality(sessions[i].flags) < sessions[i].pieces
    BY DEF NoneLeftComplete
  <2>1. PartsOK(sessions[i]) /\ sessions[i].left # 0 /\ sessions \in Seq(SessionSet)
    BY DEF SegmentInv, SessionInv
  <2>2. sessions[i] \in SessionSet  BY <2>1, ElementOfSeq
  <2> QED  BY <2>1, <2>2, IncompleteSession
<1> QED  BY <1>1, SessionInvariance, PTL

\* A number of one peer has one session, which gets all the segments that come for it.
THEOREM SessionsDiffer == Spec => []OneSessionEach
  BY SessionInvariance, PTL DEF SegmentInv
=============================================================================
