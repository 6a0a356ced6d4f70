--------------------------- MODULE SequenceLemmas ---------------------------
(***************************************************************************)
(* What the operators of SequencesExt that the models use do to the        *)
(* elements of a sequence, and when SelectInSeq finds one.                 *)
(***************************************************************************)
EXTENDS SequencesExt, Integers, Lists, TLAPS, SequenceTheorems, WellFoundedInduction

\* Every entry of s is an entry of r or one of the set X.
From(s, r, X) == \A j \in 1..Len(s) : s[j] \in X \/ \E k \in 1..Len(r) : s[j] = r[k]

\* A non-empty set of natural numbers has a least element, which Min picks.
LEMMA MinInSet ==
  ASSUME NEW I \in SUBSET Nat, I # {}
  PROVE  Min(I) \in I /\ \A j \in I : Min(I) <= j
<1>1. PICK x \in I : \A y \in I : ~ (<<y, x>> \in OpToRel(<, Nat))
  BY NatLessThanWellFounded, WFMin
<1>2. ASSUME NEW y \in I, y < x PROVE FALSE
  <2>1. <<y, x>> \in Nat \X Nat /\ <<y, x>>[1] = y /\ <<y, x>>[2] = x
    OBVIOUS
  <2>2. <<y, x>> \in OpToRel(<, Nat)
    BY <1>2, <2>1, ZenonT(30) DEF OpToRel
  <2> QED BY <1>1, <2>2, Zenon
<1>3. \A y \in I : x <= y
  BY <1>2
<1> QED BY <1>3 DEF Min

\* Removing a position leaves the other entries.
LEMMA RemoveAtProperties ==
  ASSUME NEW S, NEW s \in Seq(S), NEW i \in 1..Len(s)
  PROVE  /\ RemoveAt(s, i) \in Seq(S)
         /\ Len(RemoveAt(s, i)) = Len(s) - 1
         /\ \A j \in 1..(Len(s) - 1) : RemoveAt(s, i)[j] = IF j < i THEN s[j] ELSE s[j + 1]
         /\ From(RemoveAt(s, i), s, {})
<1> DEFINE a == SubSeq(s, 1, i - 1)
           b == SubSeq(s, i + 1, Len(s))
<1>1. /\ a \in Seq(S) /\ Len(a) = i - 1 /\ \A j \in 1..(i - 1) : a[j] = s[j]
      /\ b \in Seq(S) /\ Len(b) = Len(s) - i /\ \A j \in 1..(Len(s) - i) : b[j] = s[i + j]
  BY SubSeqProperties
<1>2. RemoveAt(s, i) = a \o b
  BY DEF RemoveAt
<1> HIDE DEF a, b
<1> DEFINE r == a \o b
<1>3. /\ r \in Seq(S) /\ Len(r) = Len(a) + Len(b)
      /\ \A j \in 1..(Len(a) + Len(b)) : r[j] = IF j <= Len(a) THEN a[j] ELSE b[j - Len(a)]
  BY <1>1, ConcatProperties
<1> HIDE DEF r
<1>4. /\ Len(r) = Len(s) - 1
      /\ \A j \in 1..(Len(s) - 1) : r[j] = IF j < i THEN s[j] ELSE s[j + 1]
  <2>1. Len(s) \in Nat /\ Len(r) = Len(s) - 1
    BY <1>1, <1>3
  <2>2. ASSUME NEW j \in 1..(Len(s) - 1), j < i PROVE r[j] = s[j]
    <3>1. j \in 1..(i - 1) /\ j \in 1..(Len(a) + Len(b)) /\ j <= Len(a)
      BY <1>1, <2>1, <2>2
    <3>2. r[j] = a[j]
      BY <1>3, <3>1
    <3> QED BY <1>1, <3>1, <3>2
  <2>3. ASSUME NEW j \in 1..(Len(s) - 1), ~ (j < i) PROVE r[j] = s[j + 1]
    <3>1. r[j] = b[j - (i - 1)] /\ j - (i - 1) \in 1..(Len(s) - i)
      BY <1>1, <1>3, <2>1, <2>3
    <3>2. i + (j - (i - 1)) = j + 1
      OBVIOUS
    <3> QED BY <1>1, <3>1, <3>2
  <2> QED BY <2>1, <2>2, <2>3
<1>5. From(r, s, {})
  BY <1>4 DEF From
<1> QED BY <1>2, <1>3, <1>4, <1>5 DEF r

\* Inserting at a position adds one entry.
LEMMA InsertAtProperties ==
  ASSUME NEW S, NEW s \in Seq(S), NEW i \in 1..Len(s), NEW e \in S
  PROVE  /\ InsertAt(s, i, e) \in Seq(S)
         /\ Len(InsertAt(s, i, e)) = Len(s) + 1
         /\ \A j \in 1..(Len(s) + 1) :
              InsertAt(s, i, e)[j] = IF j < i THEN s[j] ELSE IF j = i THEN e ELSE s[j - 1]
         /\ From(InsertAt(s, i, e), s, {e})
<1> DEFINE a == SubSeq(s, 1, i - 1)
           b == SubSeq(s, i, Len(s))
<1>1. a \in Seq(S) /\ b \in Seq(S) /\ <<e>> \in Seq(S) /\ Len(<<e>>) = 1 /\ <<e>>[1] = e
  BY SubSeqProperties
<1>2. Len(a) = i - 1 /\ Len(b) = Len(s) - i + 1
  BY SubSeqProperties
<1>3. /\ \A j \in 1..(i - 1) : a[j] = s[j]
      /\ \A j \in 1..(Len(s) - i + 1) : b[j] = s[i + j - 1]
  BY SubSeqProperties
<1>4. InsertAt(s, i, e) = (a \o <<e>>) \o b
  BY DEF InsertAt
<1> HIDE DEF a, b
<1> DEFINE h == a \o <<e>>
           r == h \o b
<1>5. /\ h \in Seq(S) /\ Len(h) = Len(a) + Len(<<e>>)
      /\ \A j \in 1..(Len(a) + Len(<<e>>)) :
           h[j] = IF j <= Len(a) THEN a[j] ELSE <<e>>[j - Len(a)]
  BY <1>1, ConcatProperties
<1>6. Len(h) = i /\ \A j \in 1..i : h[j] = IF j < i THEN s[j] ELSE e
  BY <1>1, <1>2, <1>3, <1>5
<1> HIDE DEF h
<1>7. h \in Seq(S) /\ b \in Seq(S)
  BY <1>1, <1>5
<1>8. /\ r \in Seq(S) /\ Len(r) = Len(h) + Len(b)
      /\ \A j \in 1..(Len(h) + Len(b)) : r[j] = IF j <= Len(h) THEN h[j] ELSE b[j - Len(h)]
  BY <1>7, ConcatProperties
<1> HIDE DEF r
<1>9. /\ Len(r) = Len(s) + 1
      /\ \A j \in 1..(Len(s) + 1) : r[j] = IF j < i THEN s[j] ELSE IF j = i THEN e ELSE s[j - 1]
  <2>1. Len(s) \in Nat /\ Len(r) = Len(s) + 1
    BY <1>2, <1>6, <1>8
  <2>2. ASSUME NEW j \in 1..(Len(s) + 1), j <= i
        PROVE  r[j] = IF j < i THEN s[j] ELSE e
    BY <1>2, <1>6, <1>8, <2>1, <2>2
  <2>3. ASSUME NEW j \in 1..(Len(s) + 1), ~ (j <= i) PROVE r[j] = s[j - 1]
    <3>1. r[j] = b[j - i] /\ j - i \in 1..(Len(s) - i + 1)
      BY <1>2, <1>6, <1>8, <2>1, <2>3
    <3>2. i + (j - i) - 1 = j - 1
      OBVIOUS
    <3> QED BY <1>3, <3>1, <3>2
  <2> QED BY <2>1, <2>2, <2>3
<1>10. From(r, s, {e})
  BY <1>9 DEF From
<1> QED BY <1>4, <1>8, <1>9, <1>10 DEF r, h

\* The first occurrence of an entry is removed, if there is one.
LEMMA RemoveFirstProperties ==
  ASSUME NEW S, NEW s \in Seq(S), NEW e
  PROVE  RemoveFirst(s, e) \in Seq(S) /\ From(RemoveFirst(s, e), s, {})
<1>1. CASE \E i \in 1..Len(s) : s[i] = e
  <2> DEFINE I == {i \in 1..Len(s) : s[i] = e}
  <2>1. I \in SUBSET Nat /\ I # {}
    BY <1>1
  <2> HIDE DEF I
  <2>2. Min(I) \in I
    BY <2>1, MinInSet
  <2> USE DEF I
  <2>3. RemoveFirst(s, e) = RemoveAt(s, Min(I))
    BY <1>1 DEF RemoveFirst, SelectInSeq
  <2> QED BY <2>2, <2>3, RemoveAtProperties
<1>2. CASE ~ \E i \in 1..Len(s) : s[i] = e
  BY <1>2 DEF RemoveFirst, From
<1> QED BY <1>1, <1>2

\* Appending adds one entry, Tail removes one.
LEMMA AppendFrom ==
  ASSUME NEW S, NEW s \in Seq(S), NEW e \in S
  PROVE  Append(s, e) \in Seq(S) /\ From(Append(s, e), s, {e})
BY AppendProperties DEF From

LEMMA TailFrom ==
  ASSUME NEW S, NEW s \in Seq(S), s # <<>>
  PROVE  Tail(s) \in Seq(S) /\ From(Tail(s), s, {}) /\ Head(s) \in S /\ Head(s) = s[1]
         /\ 1 \in 1..Len(s)
BY HeadTailProperties, EmptySeq DEF From

\* No entry of s is there twice.
Once(s) == \A i, j \in 1..Len(s) : s[i] = s[j] => i = j

\* Without one of its positions such a sequence does not have the entry any more.
LEMMA RemoveAtOnce ==
  ASSUME NEW S, NEW s \in Seq(S), NEW i \in 1..Len(s), Once(s)
  PROVE  Once(RemoveAt(s, i)) /\ \A k \in 1..Len(RemoveAt(s, i)) : RemoveAt(s, i)[k] # s[i]
<1> DEFINE r == RemoveAt(s, i)
           old(j) == IF j < i THEN j ELSE j + 1
<1>1. /\ Len(r) = Len(s) - 1 /\ Len(s) \in Nat
      /\ \A j \in 1..(Len(s) - 1) : r[j] = IF j < i THEN s[j] ELSE s[j + 1]
  BY RemoveAtProperties, LenProperties
<1> HIDE DEF r
<1>2. ASSUME NEW j \in 1..Len(r) PROVE r[j] = s[old(j)] /\ old(j) \in 1..Len(s) /\ old(j) # i
  BY <1>1, <1>2
<1>3. ASSUME NEW j \in 1..Len(r), NEW k \in 1..Len(r), r[j] = r[k] PROVE j = k
  <2>1. old(j) = old(k)
    <3> HIDE DEF old
    <3> QED BY <1>2, <1>3 DEF Once
  <2> QED BY <2>1
<1>4. ASSUME NEW k \in 1..Len(r) PROVE r[k] # s[i]
  <2> HIDE DEF old
  <2> QED BY <1>2, <1>4 DEF Once
<1> QED BY <1>3, <1>4 DEF Once, r

LEMMA RemoveFirstOnce ==
  ASSUME NEW S, NEW s \in Seq(S), NEW e, Once(s)
  PROVE  Once(RemoveFirst(s, e)) /\ \A k \in 1..Len(RemoveFirst(s, e)) : RemoveFirst(s, e)[k] # e
<1>1. CASE \E i \in 1..Len(s) : s[i] = e
  <2> DEFINE I == {i \in 1..Len(s) : s[i] = e}
  <2>1. I \in SUBSET Nat /\ I # {}
    BY <1>1
  <2> HIDE DEF I
  <2>2. Min(I) \in I
    BY <2>1, MinInSet
  <2> USE DEF I
  <2>3. RemoveFirst(s, e) = RemoveAt(s, Min(I))
    BY <1>1 DEF RemoveFirst, SelectInSeq
  <2> PICK m \in 1..Len(s) : m = Min(I) /\ s[m] = e
    BY <2>2
  <2>4. Once(RemoveAt(s, m)) /\ \A k \in 1..Len(RemoveAt(s, m)) : RemoveAt(s, m)[k] # s[m]
    BY RemoveAtOnce
  <2> HIDE DEF I
  <2> QED BY <2>3, <2>4
<1>2. CASE ~ \E i \in 1..Len(s) : s[i] = e
  BY <1>2 DEF RemoveFirst
<1> QED BY <1>1, <1>2

LEMMA AppendOnce ==
  ASSUME NEW S, NEW s \in Seq(S), NEW e \in S, Once(s), \A k \in 1..Len(s) : s[k] # e
  PROVE  Once(Append(s, e))
<1> DEFINE r == Append(s, e)
<1>1. /\ Len(r) = Len(s) + 1 /\ Len(s) \in Nat
      /\ \A j \in 1..(Len(s) + 1) : r[j] = IF j <= Len(s) THEN s[j] ELSE e
  BY AppendProperties, LenProperties
<1> HIDE DEF r
<1>2. ASSUME NEW i \in 1..Len(r), NEW j \in 1..Len(r), r[i] = r[j] PROVE i = j
  <2>1. CASE i <= Len(s) /\ j <= Len(s)
    BY <1>1, <1>2, <2>1 DEF Once
  <2>2. CASE ~ (i <= Len(s) /\ j <= Len(s))
    BY <1>1, <1>2, <2>2
  <2> QED BY <2>1, <2>2
<1> QED BY <1>2 DEF Once, r

\* s \o w has the entries of s, and then those of w.
LEMMA ConcatIndices ==
  ASSUME NEW S, NEW s \in Seq(S), NEW w \in Seq(S)
  PROVE  /\ s \o w \in Seq(S) /\ Len(s \o w) = Len(s) + Len(w)
         /\ \A j \in 1..Len(s) : (s \o w)[j] = s[j]
         /\ \A k \in 1..Len(w) : (s \o w)[Len(s) + k] = w[k]
<1>1. PICK l \in Nat : l = Len(s)
  OBVIOUS
<1>2. PICK n \in Nat : n = Len(w)
  OBVIOUS
<1>3. PICK t : t = s \o w
  OBVIOUS
<1>4. /\ t \in Seq(S) /\ Len(t) = l + n
      /\ \A i \in 1..(l + n) : t[i] = IF i <= l THEN s[i] ELSE w[i - l]
  BY <1>1, <1>2, <1>3, ConcatProperties
<1>5. \A k \in 1..n : l + k \in 1..(l + n) /\ ~ (l + k <= l) /\ l + k - l = k
  OBVIOUS
<1>6. \A j \in 1..l : j \in 1..(l + n) /\ j <= l
  OBVIOUS
<1> QED  BY <1>1, <1>2, <1>3, <1>4, <1>5, <1>6

\* A sequence without its first k entries, and what they were.
LEMMA DropProperties ==
  ASSUME NEW S, NEW s \in Seq(S), NEW k \in 0..Len(s)
  PROVE  /\ SubSeq(s, k + 1, Len(s)) \in Seq(S) /\ Len(SubSeq(s, k + 1, Len(s))) = Len(s) - k
         /\ \A j \in 1..(Len(s) - k) : SubSeq(s, k + 1, Len(s))[j] = s[k + j]
         /\ SubSeq(s, 1, k) \in Seq(S) /\ Len(SubSeq(s, 1, k)) = k
         /\ \A j \in 1..k : SubSeq(s, 1, k)[j] = s[j]
<1>1. PICK l \in Nat : l = Len(s)  BY LenProperties
<1>2. k \in Nat /\ k <= l  BY <1>1
<1>3. \A i \in (k + 1)..l : s[i] \in S  BY <1>1, <1>2
<1>4. \A i \in 1..k : s[i] \in S  BY <1>1, <1>2
<1>5. /\ SubSeq(s, k + 1, l) \in Seq(S)
      /\ Len(SubSeq(s, k + 1, l)) = IF k + 1 <= l THEN l - (k + 1) + 1 ELSE 0
      /\ \A i \in 1..(l - (k + 1) + 1) : SubSeq(s, k + 1, l)[i] = s[k + 1 + i - 1]
  <2>1. k + 1 \in Int /\ l \in Int  BY <1>2
  <2> QED  BY <1>3, <2>1, SubSeqProperties
<1>6. /\ SubSeq(s, 1, k) \in Seq(S)
      /\ Len(SubSeq(s, 1, k)) = IF 1 <= k THEN k - 1 + 1 ELSE 0
      /\ \A i \in 1..(k - 1 + 1) : SubSeq(s, 1, k)[i] = s[1 + i - 1]
  <2>1. 1 \in Int /\ k \in Int  BY <1>2
  <2> QED  BY <1>4, <2>1, SubSeqProperties
<1>7. \A i \in 1..k : i \in 1..(k - 1 + 1) /\ 1 + i - 1 = i  BY <1>2
<1>8. \A i \in 1..(l - k) : i \in 1..(l - (k + 1) + 1) /\ k + 1 + i - 1 = k + i  BY <1>2
<1> QED  BY <1>1, <1>2, <1>5, <1>6, <1>7, <1>8

\* Entries may move from the front of c to the end of s.
LEMMA MoveEntries ==
  ASSUME NEW S, NEW s \in Seq(S), NEW c \in Seq(S), NEW k \in 0..Len(c)
  PROVE  (s \o SubSeq(c, 1, k)) \o SubSeq(c, k + 1, Len(c)) = s \o c
<1>1. PICK a, b : a = SubSeq(c, 1, k) /\ b = SubSeq(c, k + 1, Len(c))
  OBVIOUS
<1>2. PICK l \in Nat : l = Len(c)  BY LenProperties
<1>3. k \in Nat /\ k <= l  BY <1>2
<1>4. a \in Seq(S) /\ Len(a) = k /\ \A j \in 1..k : a[j] = c[j]
  BY <1>1, DropProperties
<1>5. b \in Seq(S) /\ Len(b) = l - k /\ \A j \in 1..(l - k) : b[j] = c[k + j]
  BY <1>1, <1>2, DropProperties
<1>6. PICK t : t = a \o b
  OBVIOUS
<1>7. /\ t \in Seq(S) /\ Len(t) = Len(a) + Len(b)
      /\ \A j \in 1..Len(a) : t[j] = a[j]
      /\ \A j \in 1..Len(b) : t[Len(a) + j] = b[j]
  <2>1. a \in Seq(S) /\ b \in Seq(S)  BY <1>4, <1>5
  <2> QED  BY <1>6, <2>1, ConcatIndices
<1>8. ASSUME NEW i \in 1..l  PROVE t[i] = c[i]
  <2>1. CASE i <= k
    <3>1. i \in 1..k  BY <1>3, <2>1
    <3> QED  BY <1>4, <1>7, <3>1
  <2>2. CASE ~ (i <= k)
    <3>1. PICK j \in 1..(l - k) : i = k + j
      <4>1. i - k \in 1..(l - k) /\ i = k + (i - k)  BY <1>3, <2>2
      <4> QED  BY <4>1
    <3> QED  BY <1>4, <1>5, <1>7, <3>1
  <2> QED  BY <2>1, <2>2
<1>9. Len(t) = Len(c)  BY <1>2, <1>3, <1>4, <1>5, <1>7
<1>10. t = c
  <2>1. \A i \in 1..Len(t) : t[i] = c[i]  BY <1>2, <1>8, <1>9
  <2> QED  BY <1>7, <1>9, <2>1, SeqEqual
<1>11. (s \o a) \o b = s \o (a \o b)  BY <1>4, <1>5, ConcatAssociative
<1> QED  BY <1>1, <1>6, <1>10, <1>11

\* Entries at the front of s go without those of c being touched.
LEMMA DropConcat ==
  ASSUME NEW S, NEW s \in Seq(S), NEW c \in Seq(S), NEW k \in 0..Len(s)
  PROVE  SubSeq(s, k + 1, Len(s)) \o c = SubSeq(s \o c, k + 1, Len(s \o c))
<1>1. PICK l \in Nat, n \in Nat : l = Len(s) /\ n = Len(c)  BY LenProperties
<1>2. k \in Nat /\ k <= l  BY <1>1
<1>3. PICK t : t = s \o c
  OBVIOUS
<1>4. /\ t \in Seq(S) /\ Len(t) = l + n
      /\ \A j \in 1..l : t[j] = s[j]
      /\ \A j \in 1..n : t[l + j] = c[j]
  BY <1>1, <1>3, ConcatIndices
<1>5. PICK a, d : a = SubSeq(s, k + 1, Len(s)) /\ d = SubSeq(t, k + 1, Len(t))
  OBVIOUS
<1>6. a \in Seq(S) /\ Len(a) = l - k /\ \A j \in 1..(l - k) : a[j] = s[k + j]
  BY <1>1, <1>5, DropProperties
<1>7. d \in Seq(S) /\ Len(d) = l + n - k /\ \A j \in 1..(l + n - k) : d[j] = t[k + j]
  <2>1. k \in 0..Len(t)  BY <1>1, <1>2, <1>4
  <2>2. /\ d \in Seq(S) /\ Len(d) = Len(t) - k
        /\ \A j \in 1..(Len(t) - k) : d[j] = t[k + j]
    BY <1>4, <1>5, <2>1, DropProperties
  <2> QED  BY <1>4, <2>2
<1>8. PICK e : e = a \o c
  OBVIOUS
<1>9. /\ e \in Seq(S) /\ Len(e) = Len(a) + Len(c)
      /\ \A j \in 1..Len(a) : e[j] = a[j]
      /\ \A j \in 1..Len(c) : e[Len(a) + j] = c[j]
  <2>1. a \in Seq(S)  BY <1>6
  <2> QED  BY <1>8, <2>1, ConcatIndices
<1>10. ASSUME NEW i \in 1..(l + n - k)  PROVE e[i] = d[i]
  <2>1. CASE i <= l - k
    <3>1. i \in 1..(l - k) /\ k + i \in 1..l  BY <1>2, <2>1
    <3> QED  BY <1>4, <1>6, <1>7, <1>9, <3>1
  <2>2. CASE ~ (i <= l - k)
    <3>1. PICK j \in 1..n : i = (l - k) + j
      <4>1. i - (l - k) \in 1..n /\ i = (l - k) + (i - (l - k))  BY <1>1, <1>2, <2>2
      <4> QED  BY <4>1
    <3>2. k + i = l + j  BY <1>2, <3>1
    <3>3. e[i] = c[j]  BY <1>1, <1>6, <1>9, <3>1
    <3>4. t[k + i] = c[j]  BY <1>4, <3>2
    <3> QED  BY <1>7, <3>3, <3>4
  <2> QED  BY <2>1, <2>2
<1>11. Len(e) = l + n - k  BY <1>1, <1>2, <1>6, <1>9
<1>12. e = d
  <2>1. \A i \in 1..Len(e) : e[i] = d[i]  BY <1>10, <1>11
  <2> QED  BY <1>7, <1>9, <1>11, <2>1, SeqEqual
<1> QED  BY <1>3, <1>5, <1>8, <1>12

\* The list that is left has every entry that is not deleted, and no other, as often as
\* before; it is not longer.
LEMMA WithoutProperties ==
  ASSUME NEW S, NEW s \in Seq(S), NEW del
  PROVE  /\ Without(s, del) \in Seq(S)
         /\ Len(Without(s, del)) <= Len(s)
         /\ \A j \in 1..Len(Without(s, del)) :
              /\ Without(s, del)[j] \notin del
              /\ \E i \in 1..Len(s) : s[i] = Without(s, del)[j]
         /\ \A i \in 1..Len(s) :
              s[i] \notin del => \E j \in 1..Len(Without(s, del)) : Without(s, del)[j] = s[i]
         /\ (\A i, j \in 1..Len(s) : s[i] = s[j] => i = j) =>
              \A i, j \in 1..Len(Without(s, del)) :
                Without(s, del)[i] = Without(s, del)[j] => i = j
<1> DEFINE N == 0..Len(s)
           Next1(f, i) == IF i = 0 THEN <<>>
                          ELSE IF s[i] \in del THEN f[i - 1] ELSE Append(f[i - 1], s[i])
           \* f is the function up to n
           Upto(f, n) == f \in [0..n -> Seq(S)] /\ \A i \in 0..n : f[i] = Next1(f, i)
<1>0. Len(s) \in Nat /\ \A i \in 1..Len(s) : s[i] \in S
  OBVIOUS
<1>1. \A n \in N : \E f : Upto(f, n)
  <2> DEFINE I == {n \in N : ~ \E f : Upto(f, n)}
  <2> SUFFICES ASSUME I # {}  PROVE FALSE
    OBVIOUS
  <2>1. I \in SUBSET Nat  BY <1>0
  <2>2. PICK n \in I : \A j \in I : n <= j
    <3> HIDE DEF I
    <3> QED  BY <2>1, MinInSet
  <2>3. n \in N /\ ~ \E f : Upto(f, n)
    OBVIOUS
  <2>4. n # 0
    <3>1. Upto([i \in 0..0 |-> <<>>], 0)
      OBVIOUS
    <3> QED  BY <2>3, <3>1
  <2>5. n - 1 \in N /\ n \in 1..Len(s)  BY <1>0, <2>3, <2>4
  <2>6. n - 1 \notin I
    <3> HIDE DEF I
    <3> QED  BY <1>0, <2>2, <2>5
  <2>7. PICK f : Upto(f, n - 1)  BY <2>5, <2>6
  <2> DEFINE g == [i \in 0..n |-> IF i = n THEN Next1(f, n) ELSE f[i]]
  <2>8. n \in Nat /\ n > 0 /\ n - 1 \in 0..(n - 1)  BY <1>0, <2>5
  <2>9. f[n - 1] \in Seq(S) /\ s[n] \in S  BY <1>0, <2>5, <2>7, <2>8
  <2>10. Next1(f, n) \in Seq(S)  BY <2>8, <2>9
  <2>11. g \in [0..n -> Seq(S)]
    <3>1. \A i \in 0..n : i = n \/ i \in 0..(n - 1)  BY <2>8
    <3> HIDE DEF Next1
    <3> QED  BY <2>7, <2>10, <3>1
  <2>12. \A i \in 0..n : g[i] = Next1(g, i)
    <3> SUFFICES ASSUME NEW i \in 0..n  PROVE g[i] = Next1(g, i)
      OBVIOUS
    <3>1. CASE i = n
      <4>1. g[n - 1] = f[n - 1]  BY <2>8
      <4> QED  BY <2>8, <3>1, <4>1
    <3>2. CASE i = 0  BY <2>7, <2>8, <3>2
    <3>3. CASE i # n /\ i # 0
      <4>1. i \in 0..(n - 1) /\ i - 1 \in 0..n /\ i - 1 # n  BY <2>8, <3>3
      <4>2. g[i - 1] = f[i - 1] /\ g[i] = f[i]  BY <3>3, <4>1
      <4> QED  BY <2>7, <4>1, <4>2
    <3> QED  BY <3>1, <3>2, <3>3
  <2> QED  BY <2>3, <2>11, <2>12
<1>2. PICK k : k = [i \in N |-> Next1(k, i)] /\ Without(s, del) = k[Len(s)]
  <2>1. PICK f : Upto(f, Len(s))
    <3>1. Len(s) \in N  BY <1>0
    <3> HIDE DEF N, Upto
    <3> QED  BY <1>1, <3>1
  <2>2. f = [i \in N |-> Next1(f, i)]
    <3> HIDE DEF Next1
    <3> QED  BY <2>1
  <2> DEFINE kept == CHOOSE f1 : f1 = [i \in N |-> Next1(f1, i)]
  <2>3. kept = [i \in N |-> Next1(kept, i)]  BY <2>2
  <2>4. Without(s, del) = kept[Len(s)]  BY DEF Without
  <2> HIDE DEF kept, Next1
  <2> QED  BY <2>3, <2>4
<1> DEFINE Kept(w, n) ==
             /\ w \in Seq(S) /\ Len(w) <= n
             /\ \A j \in 1..Len(w) : w[j] \notin del /\ \E i \in 1..n : s[i] = w[j]
             /\ \A i \in 1..n : s[i] \notin del => \E j \in 1..Len(w) : w[j] = s[i]
             /\ (\A i, j \in 1..n : s[i] = s[j] => i = j) =>
                  \A i, j \in 1..Len(w) : w[i] = w[j] => i = j
<1>3. \A n \in N : Kept(k[n], n)
  <2> DEFINE I == {n \in N : ~ Kept(k[n], n)}
  <2> SUFFICES ASSUME I # {}  PROVE FALSE
    OBVIOUS
  <2>1. I \in SUBSET Nat  BY <1>0
  <2>2. PICK n \in I : \A j \in I : n <= j
    <3> HIDE DEF I
    <3> QED  BY <2>1, MinInSet
  <2>3. n \in N /\ ~ Kept(k[n], n)
    OBVIOUS
  <2>4. n # 0
    <3>1. Kept(<<>>, 0)
      OBVIOUS
    <3>2. k[0] = <<>>  BY <1>0, <1>2
    <3> HIDE DEF Kept
    <3> QED  BY <2>3, <3>1, <3>2
  <2>5. n - 1 \in N /\ n \in 1..Len(s)  BY <1>0, <2>3, <2>4
  <2>6. n - 1 \notin I
    <3> HIDE DEF I
    <3> QED  BY <1>0, <2>2, <2>5
  <2>7. Kept(k[n - 1], n - 1)
    <3> HIDE DEF Kept
    <3> QED  BY <2>5, <2>6
  <2>8. PICK w : w = k[n - 1] /\ Kept(w, n - 1)
    <3> HIDE DEF Kept
    <3> QED  BY <2>7
  <2>9. k[n] = IF s[n] \in del THEN w ELSE Append(w, s[n])
    BY <1>2, <2>3, <2>4, <2>8
  <2>10. n \in Nat /\ n > 0 /\ s[n] \in S /\ \A i \in 1..n : i = n \/ i \in 1..(n - 1)
    BY <1>0, <2>5
  <2>11. w \in Seq(S) /\ Len(w) <= n - 1  BY <2>8
  <2>12. CASE s[n] \in del
    <3>1. Kept(w, n)  BY <2>8, <2>10, <2>12
    <3> HIDE DEF Kept
    <3> QED  BY <2>3, <2>9, <2>12, <3>1
  <2>13. CASE s[n] \notin del
    <3> DEFINE v == Append(w, s[n])
    <3>1. /\ v \in Seq(S) /\ Len(v) = Len(w) + 1 /\ v[Len(w) + 1] = s[n]
          /\ \A j \in 1..Len(w) : v[j] = w[j]
          /\ \A j \in 1..Len(v) : j = Len(w) + 1 \/ j \in 1..Len(w)
      BY <2>10, <2>11
    <3> HIDE DEF v
    <3>2. \A j \in 1..Len(v) : v[j] \notin del /\ \E i \in 1..n : s[i] = v[j]
      <4>1. \A j \in 1..Len(w) : w[j] \notin del /\ \E i \in 1..(n - 1) : s[i] = w[j]
        BY <2>8
      <4>2. n \in 1..n /\ \A i \in 1..(n - 1) : i \in 1..n  BY <2>10
      <4>3. ASSUME NEW j \in 1..Len(w)
            PROVE  v[j] \notin del /\ \E i \in 1..n : s[i] = v[j]
        BY <3>1, <4>1, <4>2
      <4>4. v[Len(w) + 1] \notin del /\ \E i \in 1..n : s[i] = v[Len(w) + 1]
        BY <2>13, <3>1, <4>2
      <4> QED  BY <3>1, <4>3, <4>4
    <3>3. \A i \in 1..n : s[i] \notin del => \E j \in 1..Len(v) : v[j] = s[i]
      <4>1. \A i \in 1..(n - 1) : s[i] \notin del => \E j \in 1..Len(w) : w[j] = s[i]
        BY <2>8
      <4>2. Len(w) \in Nat  BY <2>11
      <4> QED  BY <2>10, <3>1, <4>1, <4>2
    <3>4. ASSUME \A i, j \in 1..n : s[i] = s[j] => i = j
          PROVE  \A i, j \in 1..Len(v) : v[i] = v[j] => i = j
      <4>1. \A i, j \in 1..Len(w) : w[i] = w[j] => i = j
        BY <2>8, <2>10, <3>4
      <4>2. \A j \in 1..Len(w) : w[j] # s[n]
        <5>1. \A j \in 1..Len(w) : \E i \in 1..(n - 1) : s[i] = w[j]  BY <2>8
        <5> QED  BY <2>10, <3>4, <5>1
      <4> QED  BY <3>1, <4>1, <4>2
    <3>5. Kept(v, n)
      <4>1. Len(v) <= n  BY <2>10, <2>11, <3>1
      <4> QED  BY <3>1, <3>2, <3>3, <3>4, <4>1
    <3>6. k[n] = v  BY <2>9, <2>13 DEF v
    <3> HIDE DEF Kept
    <3> QED  BY <2>3, <3>5, <3>6
  <2> QED  BY <2>12, <2>13
<1>4. Kept(k[Len(s)], Len(s))
  <2>1. Len(s) \in N  BY <1>0
  <2> HIDE DEF N, Kept
  <2> QED  BY <1>3, <2>1
<1> QED  BY <1>2, <1>4
=============================================================================
