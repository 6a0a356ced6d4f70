------------------------- MODULE ProxyChannelProofs -------------------------
(***************************************************************************)
(* Proofs about ProxyChannel for any number of channels, of forwarding     *)
(* threads and of time units until an entry is idle.                       *)
(***************************************************************************)
EXTENDS ProxyChannel, SequenceLemmas, FiniteSetTheorems

----------------------------------------------------------------------------
(* Types, and the rounds of the threads. *)

Records == [life : {"none", "listed", "gone"}, sock : {"none", "open", "closed"},
            peer : BOOLEAN, identified : BOOLEAN, connected : BOOLEAN, queued : BOOLEAN,
            age : 0..Idle]

\* A thread that holds the lock of its list is at an entry of it.
Rounds ==
  /\ stage \in [Threads -> {"prepare", "select", "read", "flush"}]
  /\ pos \in [Threads -> Nat]
  /\ \A t \in Threads : ~ Unlocked(t) => pos[t] \in 1..Len(list[t])

TypeInv ==
  /\ entry \in [Entries -> Records]
  /\ list \in [Threads -> Seq(Entries)]
  /\ Rounds

----------------------------------------------------------------------------
(* The lists.  The sides of a channel that are both there are in one list. *)

At(e, t) == \E i \in 1..Len(list[t]) : list[t][i] = e

PlacedOnce ==
  \A t, s \in Threads : \A i \in 1..Len(list[t]), j \in 1..Len(list[s]) :
    list[t][i] = list[s][j] => t = s /\ i = j

ListInv ==
  /\ PlacedOnce
  /\ \A e \in Entries : Listed(e) <=> \E t \in Threads : At(e, t)
  /\ \A e \in Entries, t \in Threads : At(e, t) /\ Listed(Peer(e)) => At(Peer(e), t)

\* While a channel is created there is a list that CreateChannel will take.
CreateInv ==
  /\ \A c \in Channels : entry[<<c, "A">>].life = "none" <=> entry[<<c, "B">>].life = "none"
  /\ creating # NotCreating =>
       /\ creating.id \in Channels /\ entry[<<creating.id, "A">>].life = "none"
       /\ creating.average \in Nat
       /\ \E t \in Threads : Len(list[t]) <= creating.average

----------------------------------------------------------------------------
(* The two sides of a channel: what holds of an entry r that is listed, with regard to p on *)
(* the other side.  An entry that has no peer any more was identified, so that no client    *)
(* of it is waited for, and has nothing queued: as long as a client has not come its entry   *)
(* is the one that becomes idle first, and an entry with data is as old as its peer.         *)

Sound(r, p) ==
  /\ ~ r.peer => p.life = "gone" /\ r.identified
  /\ r.connected => r.peer /\ r.identified
  /\ r.queued => r.peer /\ r.identified
  /\ p.life = "listed" =>
       /\ ~ r.identified => p.age <= r.age
       /\ r.queued => p.identified /\ p.age = r.age
       /\ r.peer /\ p.peer => (r.connected <=> r.identified /\ p.identified)

PairInv == \A e \in Entries : Listed(e) => Sound(entry[e], entry[Peer(e)])

IInv == TypeInv /\ ListInv /\ CreateInv /\ PairInv

LEMMA PeerOf ==
  \A e \in Entries : /\ Peer(e) \in Entries /\ Peer(e) # e /\ Peer(Peer(e)) = e
                     /\ Peer(e)[1] = e[1] /\ e[1] \in Channels
  BY DEF Entries, Peer

LEMMA EntryType ==
  ASSUME NEW life \in {"none", "listed", "gone"}, NEW sock \in {"none", "open", "closed"}
  PROVE  Entry(life, sock) \in Records
  BY ProxyAssumption DEF Entry, Records

LEMMA ProxyInit == Init => IInv
<1> SUFFICES ASSUME Init  PROVE IInv
  OBVIOUS
<1> USE DEF Init
<1>1. TypeInv
  <2>1. entry \in [Entries -> Records]  BY EntryType
  <2> QED  BY <2>1 DEF TypeInv, Rounds, Unlocked
<1>2. \A e \in Entries : ~ Listed(e)  BY DEF Listed, Entry
<1>3. \A t \in Threads : Len(list[t]) = 0
  OBVIOUS
<1>4. ListInv  BY <1>2, <1>3 DEF ListInv, PlacedOnce, At
<1>5. CreateInv  BY DEF CreateInv, Entries, Entry
<1>6. PairInv  BY <1>2 DEF PairInv
<1> QED  BY <1>1, <1>4, <1>5, <1>6 DEF IInv

----------------------------------------------------------------------------
(* CreateChannel finds a list: the average, rounded down, is not below the shortest one. *)

LEMMA PlacesFinite == ASSUME TypeInv  PROVE IsFiniteSet(Places) /\ Cardinality(Places) \in Nat
<1> DEFINE F == [t \in Threads |-> {t} \X (1..Len(list[t]))]
           T == {{t} \X (1..Len(list[t])) : t \in Threads}
<1>1. IsFiniteSet(Threads)  BY ProxyAssumption, FS_Interval DEF Threads
<1>2. F \in Surjection(Threads, T)  BY DEF Surjection
<1>3. IsFiniteSet(T)  BY <1>1, <1>2, FS_Surjection
<1>4. ASSUME NEW t \in Threads  PROVE IsFiniteSet({t} \X (1..Len(list[t])))
  <2>1. Len(list[t]) \in Nat  BY DEF TypeInv
  <2>2. IsFiniteSet({t})  BY FS_Singleton, Zenon
  <2>3. IsFiniteSet(1..Len(list[t]))  BY <2>1, FS_Interval
  <2> QED  BY <2>2, <2>3, FS_Product
<1>5. IsFiniteSet(UNION T)  BY <1>3, <1>4, FS_UNION
<1> QED  BY <1>5, FS_CardinalityType DEF Places

LEMMA SomeShort ==
  ASSUME TypeInv
  PROVE  Average \in Nat /\ \E t \in Threads : Len(list[t]) <= Average
<1>1. /\ IsFiniteSet(Places) /\ Cardinality(Places) \in Nat /\ NThreads \in Nat \ {0}
  BY PlacesFinite, ProxyAssumption
<1>2. Average \in Nat /\ NThreads * (Average + 1) > Cardinality(Places)
  <2> DEFINE total == Cardinality(Places)
  <2>1. total \in Nat  BY <1>1
  <2> HIDE DEF total
  <2>2. total \div NThreads \in Nat /\ NThreads * ((total \div NThreads) + 1) > total
    BY <1>1, <2>1
  <2> QED  BY <2>2 DEF Average, total
<1>3. ASSUME \A t \in Threads : Len(list[t]) > Average  PROVE FALSE
  <2>1. Threads \X (1..(Average + 1)) \subseteq Places
    <3> SUFFICES ASSUME NEW t \in Threads, NEW i \in 1..(Average + 1)
                 PROVE  <<t, i>> \in Places
      OBVIOUS
    <3>1. Len(list[t]) \in Nat  BY DEF TypeInv
    <3>2. i \in 1..Len(list[t])  BY <1>2, <1>3, <3>1
    <3> QED  BY <3>2 DEF Places
  <2>2. IsFiniteSet(Threads) /\ Cardinality(Threads) = NThreads
    BY <1>1, FS_Interval DEF Threads
  <2>3. IsFiniteSet(1..(Average + 1)) /\ Cardinality(1..(Average + 1)) = Average + 1
    BY <1>2, FS_Interval
  <2>4. Cardinality(Threads \X (1..(Average + 1))) = NThreads * (Average + 1)
    BY <2>2, <2>3, FS_Product
  <2>5. Cardinality(Threads \X (1..(Average + 1))) <= Cardinality(Places)
    BY <1>1, <2>1, FS_Subset
  <2>6. NThreads * (Average + 1) \in Nat  BY <1>1, <1>2
  <2> QED  BY <1>1, <1>2, <2>4, <2>5, <2>6
<1>4. \A t \in Threads : Len(list[t]) \in Nat  BY DEF TypeInv
<1> QED  BY <1>2, <1>3, <1>4

----------------------------------------------------------------------------
(* Channels come and go. *)

\* A thread that holds its lock now held it before, at the same entry.
RoundsGoOn(T) == \A s \in T : ~ Unlocked(s)' => ~ Unlocked(s) /\ pos'[s] = pos[s]

\* What a deletion does to the lists: the deleted entries are in none any more.
LEMMA DeleteLists ==
  ASSUME TypeInv, ListInv, NEW t \in Threads, NEW del, \A e \in del : e \in Entries /\ At(e, t),
         NEW clear \in BOOLEAN, DeleteEntries(t, del, clear)
  PROVE  /\ ListInv' /\ list' \in [Threads -> Seq(Entries)]
         /\ \A s \in Threads : s # t => list'[s] = list[s]
         /\ Len(list'[t]) <= Len(list[t])
<1> USE DEF ListInv
<1>1. PICK w : w = Without(list[t], del) /\ list' = [list EXCEPT ![t] = w]
  BY DEF DeleteEntries
<1>2. list[t] \in Seq(Entries) /\ Len(list[t]) \in Nat  BY DEF TypeInv
<1>3. /\ w \in Seq(Entries) /\ Len(w) <= Len(list[t])
      /\ \A j \in 1..Len(w) : w[j] \notin del /\ \E i \in 1..Len(list[t]) : list[t][i] = w[j]
      /\ \A i \in 1..Len(list[t]) : list[t][i] \notin del => \E j \in 1..Len(w) : w[j] = list[t][i]
      /\ (\A i, j \in 1..Len(list[t]) : list[t][i] = list[t][j] => i = j) =>
           \A i, j \in 1..Len(w) : w[i] = w[j] => i = j
  <2> DEFINE v == Without(list[t], del)
  <2>1. /\ v \in Seq(Entries) /\ Len(v) <= Len(list[t])
        /\ \A j \in 1..Len(v) : v[j] \notin del /\ \E i \in 1..Len(list[t]) : list[t][i] = v[j]
        /\ \A i \in 1..Len(list[t]) : list[t][i] \notin del => \E j \in 1..Len(v) : v[j] = list[t][i]
        /\ (\A i, j \in 1..Len(list[t]) : list[t][i] = list[t][j] => i = j) =>
             \A i, j \in 1..Len(v) : v[i] = v[j] => i = j
    BY <1>2, WithoutProperties
  <2>2. v = w  BY <1>1
  <2> HIDE DEF v
  <2> QED  BY <2>1, <2>2
<1>4. /\ list' \in [Threads -> Seq(Entries)] /\ list'[t] = w
      /\ \A s \in Threads : s # t => list'[s] = list[s]
  BY <1>1, <1>3 DEF TypeInv
<1>5. \A e \in Entries, s \in Threads : At(e, s)' <=> At(e, s) /\ e \notin del
  <2> SUFFICES ASSUME NEW e \in Entries, NEW s \in Threads
               PROVE  At(e, s)' <=> At(e, s) /\ e \notin del
    OBVIOUS
  <2>1. CASE s = t
    <3>1. At(e, t)' <=> \E j \in 1..Len(w) : w[j] = e  BY <1>4 DEF At
    <3>2. ASSUME At(e, t)'  PROVE At(e, t) /\ e \notin del
      <4>1. PICK j \in 1..Len(w) : w[j] = e  BY <3>1, <3>2
      <4>2. w[j] \notin del /\ \E i \in 1..Len(list[t]) : list[t][i] = w[j]  BY <1>3
      <4> QED  BY <4>1, <4>2 DEF At
    <3>3. ASSUME At(e, t), e \notin del  PROVE At(e, t)'
      <4>1. PICK i \in 1..Len(list[t]) : list[t][i] = e  BY <3>3 DEF At
      <4>2. \E j \in 1..Len(w) : w[j] = list[t][i]  BY <1>3, <3>3, <4>1
      <4> QED  BY <3>1, <4>1, <4>2
    <3> QED  BY <2>1, <3>2, <3>3
  <2>2. CASE s # t
    <3>1. At(e, s)' <=> At(e, s)  BY <1>4, <2>2 DEF At
    <3>2. At(e, s) => e \notin del
      BY <2>2 DEF At, PlacedOnce
    <3> QED  BY <3>1, <3>2
  <2> QED  BY <2>1, <2>2
<1>6. \A e \in Entries : Listed(e)' <=> Listed(e) /\ e \notin del
  <2> SUFFICES ASSUME NEW e \in Entries  PROVE Listed(e)' <=> Listed(e) /\ e \notin del
    OBVIOUS
  <2>1. entry[e] \in Records  BY DEF TypeInv
  <2>2. Gone.life = "gone" /\ Orphan(entry[e]).life = entry[e].life
    BY <2>1 DEF Gone, Entry, Orphan, Records
  <2>3. entry'[e].life = IF e \in del THEN "gone" ELSE entry[e].life
    BY <2>2 DEF DeleteEntries
  <2> QED  BY <2>3 DEF Listed
<1>7. PlacedOnce'
  <2> SUFFICES ASSUME NEW r \in Threads, NEW s \in Threads, NEW i \in 1..Len(list'[r]),
                      NEW j \in 1..Len(list'[s]), list'[r][i] = list'[s][j]
               PROVE  r = s /\ i = j
    BY DEF PlacedOnce
  <2>1. CASE r = t /\ s = t
    <3>1. \A k, l \in 1..Len(list[t]) : list[t][k] = list[t][l] => k = l  BY DEF PlacedOnce
    <3> QED  BY <1>3, <1>4, <2>1, <3>1
  <2>2. CASE r # t /\ s # t
    <3>1. i \in 1..Len(list[r]) /\ j \in 1..Len(list[s]) /\ list[r][i] = list[s][j]
      BY <1>4, <2>2
    <3> QED  BY <3>1 DEF PlacedOnce
  <2>3. CASE r = t /\ s # t
    <3>1. PICK k \in 1..Len(list[t]) : list[t][k] = list'[r][i]  BY <1>3, <1>4, <2>3
    <3>2. j \in 1..Len(list[s]) /\ list[t][k] = list[s][j]  BY <1>4, <2>3, <3>1
    <3> QED  BY <2>3, <3>2 DEF PlacedOnce
  <2>4. CASE r # t /\ s = t
    <3>1. PICK k \in 1..Len(list[t]) : list[t][k] = list'[s][j]  BY <1>3, <1>4, <2>4
    <3>2. i \in 1..Len(list[r]) /\ list[r][i] = list[t][k]  BY <1>4, <2>4, <3>1
    <3> QED  BY <2>4, <3>2 DEF PlacedOnce
  <2> QED  BY <2>1, <2>2, <2>3, <2>4
<1>8. \A e \in Entries : Listed(e)' <=> \E s \in Threads : At(e, s)'
  BY <1>5, <1>6
<1>9. \A e \in Entries, s \in Threads : At(e, s)' /\ Listed(Peer(e))' => At(Peer(e), s)'
  BY <1>5, <1>6, PeerOf
<1> QED  BY <1>3, <1>4, <1>7, <1>8, <1>9

\* ... and to the rest: if the entries whose peers are deleted with a word to them wait for no
\* client and have nothing queued, all is as before.
LEMMA DeleteStep ==
  ASSUME IInv, NEW t \in Threads, NEW del, \A e \in del : e \in Entries /\ At(e, t),
         NEW clear \in BOOLEAN, DeleteEntries(t, del, clear),
         clear => \A e \in Entries : Listed(e) /\ e \notin del /\ Peer(e) \in del =>
                                       entry[e].identified /\ ~ entry[e].queued,
         Unlocked(t)', stage' \in [Threads -> {"prepare", "select", "read", "flush"}],
         RoundsGoOn(Threads), UNCHANGED <<pos, creating>>
  PROVE  IInv'
<1> USE DEF IInv
<1>1. /\ ListInv' /\ list' \in [Threads -> Seq(Entries)]
      /\ \A s \in Threads : s # t => list'[s] = list[s]
      /\ Len(list'[t]) <= Len(list[t])
  BY DeleteLists
<1>2. \A e \in Entries :
        entry'[e] = IF e \in del THEN Gone
                    ELSE IF clear /\ Peer(e) \in del /\ entry[Peer(e)].peer THEN Orphan(entry[e])
                    ELSE entry[e]
  BY DEF DeleteEntries
<1>3. Gone \in Records  BY EntryType DEF Gone
<1>4. \A e \in Entries : Orphan(entry[e]) \in Records  BY DEF TypeInv, Orphan, Records
<1>5. entry' \in [Entries -> Records]
  BY <1>2, <1>3, <1>4 DEF DeleteEntries, TypeInv
<1>6. TypeInv'
  <2>1. \A s \in Threads : ~ Unlocked(s)' => pos'[s] \in 1..Len(list'[s])
    BY <1>1 DEF TypeInv, Rounds, RoundsGoOn
  <2> QED  BY <1>1, <1>5, <2>1 DEF TypeInv, Rounds
<1>7. \A e \in Entries : /\ e \in del => Listed(e)
                         /\ Listed(e)' <=> Listed(e) /\ e \notin del
                         /\ entry'[e].life = "none" <=> entry[e].life = "none"
                         /\ entry'[e].life = "gone" <=> entry[e].life = "gone" \/ e \in del
  <2>1. \A e \in Entries : e \in del => Listed(e)  BY DEF ListInv
  <2>2. ASSUME NEW e \in Entries
        PROVE  entry'[e].life = IF e \in del THEN "gone" ELSE entry[e].life
    <3>1. entry[e] \in Records  BY DEF TypeInv
    <3>2. Gone.life = "gone" /\ Orphan(entry[e]).life = entry[e].life
      BY <3>1 DEF Gone, Entry, Orphan, Records
    <3> QED  BY <1>2, <3>2
  <2> QED  BY <2>1, <2>2 DEF Listed
<1>8. CreateInv'
  <2>1. \A c \in Channels : <<c, "A">> \in Entries /\ <<c, "B">> \in Entries
    BY DEF Entries
  <2>2. ASSUME creating # NotCreating
        PROVE  \E s \in Threads : Len(list'[s]) <= creating.average
    <3>1. \A s \in Threads : Len(list[s]) \in Nat /\ Len(list'[s]) \in Nat
      BY <1>1 DEF TypeInv
    <3>2. PICK s \in Threads : Len(list[s]) <= creating.average  BY <2>2 DEF CreateInv
    <3>3. creating.average \in Nat  BY <2>2 DEF CreateInv
    <3> QED  BY <1>1, <3>1, <3>2, <3>3
  <2> QED  BY <1>7, <2>1, <2>2 DEF CreateInv
<1>9. PairInv'
  <2> SUFFICES ASSUME NEW e \in Entries, Listed(e)'
               PROVE  Sound(entry'[e], entry'[Peer(e)])
    BY DEF PairInv
  <2>1. Listed(e) /\ e \notin del /\ Sound(entry[e], entry[Peer(e)]) /\ Peer(e) \in Entries
    BY <1>7, PeerOf DEF PairInv
  <2>2. CASE Peer(e) \in del
    <3>1. entry'[Peer(e)].life = "gone"  BY <1>7, <2>1, <2>2
    <3>2. CASE clear /\ entry[Peer(e)].peer
      <4>1. entry'[e] = Orphan(entry[e])  BY <1>2, <2>1, <2>2, <3>2
      <4>2. entry[e].identified /\ ~ entry[e].queued  BY <2>1, <2>2, <3>2
      <4> QED  BY <3>1, <4>1, <4>2 DEF Orphan, Sound, TypeInv, Records
    <3>3. CASE ~ (clear /\ entry[Peer(e)].peer)
      <4>1. entry'[e] = entry[e]  BY <1>2, <2>1, <2>2, <3>3
      <4>2. entry[Peer(e)].life = "listed"  BY <1>7, <2>1, <2>2 DEF Listed
      <4> QED  BY <2>1, <3>1, <4>1, <4>2 DEF Sound
    <3> QED  BY <3>2, <3>3
  <2>3. CASE Peer(e) \notin del
    <3>1. entry'[e] = entry[e]  BY <1>2, <2>1, <2>3
    <3>2. CASE entry'[Peer(e)] = entry[Peer(e)]  BY <2>1, <3>1, <3>2
    <3>3. CASE Peer(Peer(e)) \in del  BY <2>1, <3>3, PeerOf
    <3> QED  BY <1>2, <2>1, <2>3, <3>2, <3>3
  <2> QED  BY <2>2, <2>3
<1> QED  BY <1>1, <1>6, <1>8, <1>9

LEMMA AtToSet ==
  ASSUME TypeInv, NEW t \in Threads
  PROVE  \A e : e \in ToSet(list[t]) <=> e \in Entries /\ At(e, t)
<1>1. list[t] \in Seq(Entries)  BY DEF TypeInv
<1> QED  BY <1>1 DEF ToSet, At

\* A step that ends the behaviour, or that changes only a thread's place in its loop.
LEMMA SameEntries ==
  ASSUME IInv, UNCHANGED <<entry, list, creating>>, Rounds'
  PROVE  IInv'
<1> USE DEF IInv
<1>1. TypeInv'  BY DEF TypeInv
<1>2. \A e, t : At(e, t)' <=> At(e, t)  BY DEF At
<1>3. \A e : Listed(e)' <=> Listed(e)  BY DEF Listed
<1>4. PlacedOnce'  BY DEF ListInv, PlacedOnce
<1>5. ListInv'  BY <1>2, <1>3, <1>4 DEF ListInv
<1>6. CreateInv'  BY DEF CreateInv
<1>7. PairInv'  BY <1>3 DEF PairInv
<1> QED  BY <1>1, <1>5, <1>6, <1>7

LEMMA CrashStep ==
  ASSUME IInv, NEW how, Crash(how)
  PROVE  IInv'
<1>1. UNCHANGED <<entry, list, stage, pos, creating>>  BY DEF Crash
<1>2. Rounds'  BY <1>1 DEF IInv, TypeInv, Rounds, Unlocked
<1> QED  BY <1>1, <1>2, SameEntries

\* A channel that is cut is cut on both sides.
LEMMA CutStep ==
  ASSUME IInv, NEW c \in Channels, NEW t \in Threads, CutChannel(c, t)
  PROVE  IInv'
<1> DEFINE del == {e \in ToSet(list[t]) : e[1] = c}
<1>1. \A e \in del : e \in Entries /\ At(e, t)  BY AtToSet DEF IInv
<1>2. CASE Crash("freed")
  BY <1>2, CrashStep
<1>3. CASE DeleteEntries(t, del, TRUE) /\ UNCHANGED <<stage, pos, creating, wild>>
  <2>1. ASSUME NEW e \in Entries, Listed(e), e \notin del, Peer(e) \in del  PROVE FALSE
    <3>1. At(Peer(e), t) /\ Peer(e) \in Entries /\ Peer(Peer(e)) = e /\ e[1] = c
      BY <1>1, <2>1, PeerOf
    <3>2. At(e, t)  BY <2>1, <3>1 DEF IInv, ListInv
    <3> QED  BY <2>1, <3>1, <3>2, AtToSet DEF IInv
  <2>2. /\ Unlocked(t)' /\ RoundsGoOn(Threads)
        /\ stage' \in [Threads -> {"prepare", "select", "read", "flush"}]
    BY <1>3 DEF CutChannel, Unlocked, RoundsGoOn, IInv, TypeInv, Rounds
  <2> HIDE DEF del
  <2> QED  BY <1>1, <1>3, <2>1, <2>2, DeleteStep
<1> QED  BY <1>2, <1>3 DEF CutChannel

\* Of two sides in one list of which one is idle and the other is not, this one was identified
\* and has nothing queued: it would be as old otherwise.
LEMMA ValidateStep ==
  ASSUME IInv, NEW t \in Threads, Validate(t)
  PROVE  IInv'
<1> DEFINE del == IdleIn(t)
<1>1. \A e : e \in del <=> e \in Entries /\ At(e, t) /\ entry[e].age = Idle
  BY AtToSet DEF IInv, IdleIn
<1>2. CASE Crash("freed")
  BY <1>2, CrashStep
<1>3. CASE DeleteEntries(t, del, TRUE) /\ UNCHANGED <<stage, pos, creating, wild>>
  <2>1. ASSUME NEW e \in Entries, Listed(e), e \notin del, Peer(e) \in del
        PROVE  entry[e].identified /\ ~ entry[e].queued
    <3>1. /\ At(Peer(e), t) /\ Peer(e) \in Entries /\ Peer(Peer(e)) = e
          /\ entry[Peer(e)].age = Idle
      BY <1>1, <2>1, PeerOf
    <3>2. At(e, t) /\ Listed(Peer(e))  BY <2>1, <3>1 DEF IInv, ListInv
    <3>3. entry[e] \in Records /\ entry[e].age # Idle  BY <1>1, <2>1, <3>2 DEF IInv, TypeInv
    <3>4. ~ (entry[Peer(e)].age <= entry[e].age)
      BY <3>1, <3>3, ProxyAssumption DEF Records
    <3>5. Sound(entry[e], entry[Peer(e)])  BY <2>1 DEF IInv, PairInv
    <3> QED  BY <3>1, <3>2, <3>3, <3>4, <3>5 DEF Sound, Listed
  <2>2. /\ Unlocked(t)' /\ RoundsGoOn(Threads)
        /\ stage' \in [Threads -> {"prepare", "select", "read", "flush"}]
    BY <1>3 DEF Validate, Unlocked, RoundsGoOn, IInv, TypeInv, Rounds
  <2> HIDE DEF del
  <2> QED  BY <1>1, <1>3, <2>1, <2>2, DeleteStep
<1> QED  BY <1>2, <1>3 DEF Validate

LEMMA PrepareStep ==
  ASSUME IInv, NEW t \in Threads, Prepare(t)
  PROVE  IInv'
<1> DEFINE del == ClosedIn(t)
<1>1. \A e \in del : e \in Entries /\ At(e, t)  BY AtToSet DEF IInv, ClosedIn
<1>2. DeleteEntries(t, del, FALSE) /\ UNCHANGED <<pos, creating>>
  BY DEF Prepare
<1>3. /\ stage' \in [Threads -> {"prepare", "select", "read", "flush"}]
      /\ stage'[t] = "select" /\ \A s \in Threads : s # t => stage'[s] = stage[s]
  BY DEF Prepare, IInv, TypeInv, Rounds
<1>4. Unlocked(t)' /\ RoundsGoOn(Threads)
  BY <1>2, <1>3 DEF Unlocked, RoundsGoOn
<1> HIDE DEF del
<1> QED  BY <1>1, <1>2, <1>3, <1>4, DeleteStep

LEMMA CreateBeginStep ==
  ASSUME IInv, NEW c \in Channels, CreateBegin(c)
  PROVE  IInv'
<1>1. UNCHANGED <<entry, list, stage, pos>> /\ entry[<<c, "A">>].life = "none"
      /\ creating' = [id |-> c, average |-> Average]
  BY DEF CreateBegin
<1>2. TypeInv' /\ ListInv' /\ PairInv'
  BY <1>1 DEF IInv, TypeInv, Rounds, Unlocked, ListInv, PlacedOnce, At, Listed, PairInv
<1>3. Average \in Nat /\ \E t \in Threads : Len(list[t]) <= Average
  BY SomeShort DEF IInv
<1>4. CreateInv'
  BY <1>1, <1>3 DEF IInv, CreateInv
<1> QED  BY <1>2, <1>4 DEF IInv

\* The pair goes to the end of a list.
LEMMA CreateEndStep ==
  ASSUME IInv, CreateEnd
  PROVE  IInv'
<1> DEFINE c == creating.id
           a == <<creating.id, "A">>
           b == <<creating.id, "B">>
<1> USE DEF IInv
<1>1. /\ creating # NotCreating /\ creating.id \in Channels /\ creating' = NotCreating
      /\ UNCHANGED <<stage, pos>>
      /\ entry' = [e \in Entries |-> IF e[1] = creating.id THEN NewEntry(creating.id) ELSE entry[e]]
  BY DEF CreateEnd, CreateInv
<1>2. /\ a \in Entries /\ b \in Entries /\ a # b /\ Peer(a) = b /\ Peer(b) = a
      /\ \A e \in Entries : e[1] = creating.id <=> e = a \/ e = b
  BY <1>1 DEF Entries, Peer
<1>3. ~ Listed(a) /\ ~ Listed(b)
  BY <1>1, <1>2 DEF CreateInv, Listed
<1>4. PICK t \in Threads :
        /\ Unlocked(t) /\ list' = [list EXCEPT ![t] = list[t] \o <<a, b>>]
  BY <1>1 DEF CreateEnd, CreateInv, NoLongerThanAverage
<1> HIDE DEF a, b
<1>5. /\ list[t] \in Seq(Entries) /\ Len(list[t]) \in Nat
      /\ list' \in [Threads -> Seq(Entries)]
      /\ Len(list'[t]) = Len(list[t]) + 2
      /\ \A i \in 1..Len(list[t]) : list'[t][i] = list[t][i]
      /\ list'[t][Len(list[t]) + 1] = a /\ list'[t][Len(list[t]) + 2] = b
      /\ \A s \in Threads : s # t => list'[s] = list[s]
  <2>1. list \in [Threads -> Seq(Entries)]  BY DEF TypeInv
  <2>2. <<a, b>> \in Seq(Entries)  BY <1>2
  <2>3. PICK w : w = list[t] \o <<a, b>>
    OBVIOUS
  <2>4. /\ list[t] \in Seq(Entries) /\ Len(list[t]) \in Nat
        /\ w \in Seq(Entries) /\ Len(w) = Len(list[t]) + 2
        /\ \A i \in 1..Len(list[t]) : w[i] = list[t][i]
        /\ w[Len(list[t]) + 1] = a /\ w[Len(list[t]) + 2] = b
    BY <2>1, <2>2, <2>3
  <2>5. list' = [list EXCEPT ![t] = w]  BY <1>4, <2>3
  <2> QED  BY <2>1, <2>4, <2>5
<1>6. \A e : \A s \in Threads : At(e, s)' <=> At(e, s) \/ (s = t /\ (e = a \/ e = b))
  <2> SUFFICES ASSUME NEW e, NEW s \in Threads
               PROVE  At(e, s)' <=> At(e, s) \/ (s = t /\ (e = a \/ e = b))
    OBVIOUS
  <2>1. CASE s # t
    <3>1. list'[s] = list[s]  BY <1>5, <2>1
    <3> QED  BY <2>1, <3>1 DEF At
  <2>2. CASE s = t
    <3> DEFINE n == Len(list[t])
    <3>1. n \in Nat /\ Len(list'[t]) = n + 2  BY <1>5
    <3> HIDE DEF n
    <3>2. /\ \A i \in 1..(n + 2) : i \in 1..n \/ i = n + 1 \/ i = n + 2
          /\ n + 1 \in 1..(n + 2) /\ n + 2 \in 1..(n + 2)
          /\ \A i \in 1..n : i \in 1..(n + 2)
      BY <3>1
    <3>3. /\ \A i \in 1..n : list'[t][i] = list[t][i]
          /\ list'[t][n + 1] = a /\ list'[t][n + 2] = b
      BY <1>5 DEF n
    <3>4. At(e, t)' <=> \E i \in 1..(n + 2) : list'[t][i] = e  BY <3>1 DEF At
    <3>5. At(e, t) <=> \E i \in 1..n : list[t][i] = e  BY DEF At, n
    <3> QED  BY <2>2, <3>2, <3>3, <3>4, <3>5
  <2> QED  BY <2>1, <2>2
<1>7. \A e \in Entries : Listed(e)' <=> Listed(e) \/ e = a \/ e = b
  BY <1>1, <1>2 DEF Listed, NewEntry, Entry
<1>8. TypeInv'
  <2>1. NewEntry(creating.id) \in Records  BY EntryType DEF NewEntry
  <2>2. entry' \in [Entries -> Records]  BY <1>1, <2>1 DEF TypeInv
  <2>3. Rounds'
    <3>1. \A s \in Threads : ~ Unlocked(s)' => s # t /\ ~ Unlocked(s)
      BY <1>1, <1>4 DEF Unlocked
    <3> QED  BY <1>1, <1>5, <3>1 DEF TypeInv, Rounds
  <2> QED  BY <1>5, <2>2, <2>3 DEF TypeInv
<1>9. ListInv'
  <2>1. \A s \in Threads : ~ At(a, s) /\ ~ At(b, s)  BY <1>2, <1>3 DEF ListInv
  <2>2. PlacedOnce'
    <3> DEFINE n == Len(list[t])
    <3> SUFFICES ASSUME NEW r \in Threads, NEW s \in Threads, NEW i \in 1..Len(list'[r]),
                        NEW j \in 1..Len(list'[s]), list'[r][i] = list'[s][j]
                 PROVE  r = s /\ i = j
      BY DEF PlacedOnce
    <3>1. ASSUME NEW q \in Threads, NEW k \in 1..Len(list'[q])
          PROVE  \/ /\ k \in 1..Len(list[q]) /\ list'[q][k] = list[q][k]
                    /\ list'[q][k] # a /\ list'[q][k] # b
                 \/ q = t /\ k = n + 1 /\ list'[q][k] = a
                 \/ q = t /\ k = n + 2 /\ list'[q][k] = b
      <4>1. n \in Nat /\ Len(list'[t]) = n + 2  BY <1>5
      <4>2. CASE k \in 1..Len(list[q])
        <5>1. list'[q][k] = list[q][k]  BY <1>5, <4>2
        <5>2. list[q][k] # a /\ list[q][k] # b  BY <2>1, <4>2 DEF At
        <5> QED  BY <4>2, <5>1, <5>2
      <4>3. CASE k \notin 1..Len(list[q])
        <5>1. q = t  BY <1>5, <4>3
        <5>2. k = n + 1 \/ k = n + 2
          <6> HIDE DEF n
          <6>1. k \in 1..(n + 2) /\ k \notin 1..n  BY <4>1, <4>3, <5>1 DEF n
          <6> QED  BY <4>1, <6>1
        <5> QED  BY <1>5, <5>1, <5>2
      <4> QED  BY <4>2, <4>3
    <3>2. (i \in 1..Len(list[r]) /\ j \in 1..Len(list[s]) /\ list[r][i] = list[s][j])
            => r = s /\ i = j
      BY DEF ListInv, PlacedOnce
    <3> HIDE DEF n
    <3> QED  BY <1>2, <3>1, <3>2
  <2>3. \A e \in Entries : Listed(e)' <=> \E s \in Threads : At(e, s)'
    BY <1>6, <1>7 DEF ListInv
  <2>4. \A e \in Entries, s \in Threads : At(e, s)' /\ Listed(Peer(e))' => At(Peer(e), s)'
    <3> SUFFICES ASSUME NEW e \in Entries, NEW s \in Threads, At(e, s)', Listed(Peer(e))'
                 PROVE  At(Peer(e), s)'
      OBVIOUS
    <3>1. Peer(e) \in Entries /\ Peer(Peer(e)) = e  BY PeerOf
    <3>2. CASE e = a \/ e = b  BY <1>2, <1>6, <2>1, <3>2
    <3>3. CASE e # a /\ e # b
      <4>1. At(e, s) /\ Peer(e) # a /\ Peer(e) # b  BY <1>2, <1>6, <3>1, <3>3
      <4>2. Listed(Peer(e))  BY <1>7, <3>1, <4>1
      <4> QED  BY <1>6, <4>1, <4>2 DEF ListInv
    <3> QED  BY <3>2, <3>3
  <2> QED  BY <2>2, <2>3, <2>4 DEF ListInv
<1>10. CreateInv'
  <2>1. \A d \in Channels : <<d, "A">> \in Entries /\ <<d, "B">> \in Entries
    BY DEF Entries
  <2>2. NewEntry(creating.id).life = "listed"  BY DEF NewEntry, Entry
  <2>3. \A d \in Channels : \A x \in {"A", "B"} :
          entry'[<<d, x>>].life = IF d = creating.id THEN "listed" ELSE entry[<<d, x>>].life
    BY <1>1, <2>1, <2>2
  <2> QED  BY <1>1, <2>3 DEF CreateInv
<1>11. PairInv'
  <2> SUFFICES ASSUME NEW e \in Entries, Listed(e)'
               PROVE  Sound(entry'[e], entry'[Peer(e)])
    BY DEF PairInv
  <2>1. Peer(e) \in Entries /\ Peer(e)[1] = e[1]  BY PeerOf
  <2>2. CASE e[1] = creating.id
    <3>1. entry'[e] = NewEntry(creating.id) /\ entry'[Peer(e)] = NewEntry(creating.id)
      BY <1>1, <2>1, <2>2
    <3>2. /\ NewEntry(creating.id).peer = TRUE /\ NewEntry(creating.id).identified = FALSE
          /\ NewEntry(creating.id).connected = FALSE /\ NewEntry(creating.id).queued = FALSE
          /\ NewEntry(creating.id).age = 0
      BY DEF NewEntry, Entry
    <3> QED  BY <3>1, <3>2 DEF Sound
  <2>3. CASE e[1] # creating.id
    <3>1. entry'[e] = entry[e] /\ entry'[Peer(e)] = entry[Peer(e)]
      BY <1>1, <2>1, <2>3
    <3>2. Listed(e)  BY <3>1 DEF Listed
    <3> QED  BY <3>1, <3>2 DEF PairInv
  <2> QED  BY <2>2, <2>3
<1> QED  BY <1>8, <1>9, <1>10, <1>11

----------------------------------------------------------------------------
(* Steps that change the entries of a channel. *)

LEMMA PairChange ==
  ASSUME IInv, UNCHANGED <<list, creating>>, Rounds', entry' \in [Entries -> Records],
         NEW e \in Entries,
         \A x \in Entries : x # e /\ x # Peer(e) => entry'[x] = entry[x],
         entry'[e].life = entry[e].life, entry'[Peer(e)].life = entry[Peer(e)].life,
         Listed(e) => Sound(entry'[e], entry'[Peer(e)]),
         Listed(Peer(e)) => Sound(entry'[Peer(e)], entry'[e])
  PROVE  IInv'
<1> USE DEF IInv
<1>1. TypeInv'  BY DEF TypeInv
<1>2. \A x \in Entries : entry'[x].life = entry[x].life
  OBVIOUS
<1>3. \A x \in Entries : Listed(x)' <=> Listed(x)  BY <1>2 DEF Listed
<1>4. \A x, t : At(x, t)' <=> At(x, t)  BY DEF At
<1>5. ListInv'
  <2>1. PlacedOnce'  BY DEF ListInv, PlacedOnce
  <2> QED  BY <1>3, <1>4, <2>1, PeerOf DEF ListInv
<1>6. CreateInv'
  <2>1. \A c \in Channels : <<c, "A">> \in Entries /\ <<c, "B">> \in Entries
    BY DEF Entries
  <2> QED  BY <1>2, <2>1 DEF CreateInv
<1>7. PairInv'
  <2> SUFFICES ASSUME NEW x \in Entries, Listed(x)
               PROVE  Sound(entry'[x], entry'[Peer(x)])
    BY <1>3 DEF PairInv
  <2>1. CASE x = e  BY <2>1
  <2>2. CASE x = Peer(e)  BY <2>2, PeerOf
  <2>3. CASE x # e /\ x # Peer(e)
    <3>1. Peer(x) \in Entries /\ Peer(x) # e /\ Peer(x) # Peer(e)  BY <2>3, PeerOf
    <3>2. entry'[x] = entry[x] /\ entry'[Peer(x)] = entry[Peer(x)]  BY <2>3, <3>1
    <3> QED  BY <3>2 DEF PairInv
  <2> QED  BY <2>1, <2>2, <2>3
<1> QED  BY <1>1, <1>5, <1>6, <1>7

LEMMA AdvanceRounds ==
  ASSUME TypeInv, NEW t \in Threads, ~ Unlocked(t), Advance(t)
  PROVE  Rounds'
<1>1. pos[t] \in 1..Len(list[t]) /\ Len(list[t]) \in Nat /\ UNCHANGED list
  BY DEF TypeInv, Rounds, Advance
<1>2. CASE pos[t] = Len(list[t])
  <2>1. stage' = [stage EXCEPT ![t] = "prepare"] /\ pos' = [pos EXCEPT ![t] = 0]
    BY <1>2 DEF Advance
  <2> QED  BY <1>1, <2>1 DEF TypeInv, Rounds, Unlocked
<1>3. CASE pos[t] # Len(list[t])
  <2>1. stage' = [stage EXCEPT ![t] = "read"] /\ pos' = [pos EXCEPT ![t] = pos[t] + 1]
    BY <1>3 DEF Advance
  <2>2. pos[t] + 1 \in 1..Len(list[t])  BY <1>1, <1>3
  <2>3. stage' \in [Threads -> {"prepare", "select", "read", "flush"}]
    BY <2>1 DEF TypeInv, Rounds
  <2>4. pos' \in [Threads -> Nat]  BY <2>1, <2>2 DEF TypeInv, Rounds
  <2>5. ASSUME NEW s \in Threads, ~ Unlocked(s)'  PROVE pos'[s] \in 1..Len(list[s])
    <3>1. CASE s = t  BY <2>1, <2>2, <3>1 DEF TypeInv, Rounds
    <3>2. CASE s # t  BY <2>1, <2>5, <3>2 DEF TypeInv, Rounds, Unlocked
    <3> QED  BY <3>1, <3>2
  <2> QED  BY <1>1, <2>3, <2>4, <2>5 DEF Rounds
<1> QED  BY <1>2, <1>3

LEMMA ToFlushRounds ==
  ASSUME TypeInv, NEW t \in Threads, ~ Unlocked(t), ToFlush(t)
  PROVE  Rounds'
<1>1. stage' = [stage EXCEPT ![t] = "flush"] /\ UNCHANGED <<pos, list>>  BY DEF ToFlush
<1> QED  BY <1>1 DEF TypeInv, Rounds, Unlocked

\* The entry of a round is in the list and there.
LEMMA CurrentListed ==
  ASSUME IInv, NEW t \in Threads, ~ Unlocked(t)
  PROVE  Current(t) \in Entries /\ Listed(Current(t))
<1>1. pos[t] \in 1..Len(list[t]) /\ list[t] \in Seq(Entries)
  BY DEF IInv, TypeInv, Rounds
<1>2. Current(t) \in Entries /\ At(Current(t), t)  BY <1>1 DEF Current, At
<1> QED  BY <1>2 DEF IInv, ListInv

\* The pointer of an entry that is there is NULL only when its peer has been deleted, and
\* leads to the peer when that is there.
LEMMA FollowLeads ==
  ASSUME IInv, NEW e \in Entries, Listed(e)
  PROVE  /\ Follow(e) \in {"null", "freed", "no"}
         /\ Follow(e) = "null" <=> ~ entry[e].peer
         /\ Follow(e) = "no" => /\ entry[e].peer /\ Listed(Peer(e))
                                /\ entry[Peer(e)].peer
<1>1. /\ Peer(e) \in Entries /\ entry[Peer(e)].life \in {"none", "listed", "gone"}
      /\ Peer(Peer(e)) = e
  BY PeerOf DEF IInv, TypeInv, Records
<1>2. entry[Peer(e)].life # "none"
  <2>1. \A c \in Channels : entry[<<c, "A">>].life = "none" <=> entry[<<c, "B">>].life = "none"
    BY DEF IInv, CreateInv
  <2> QED  BY <2>1 DEF Entries, Peer, Listed
<1>3. Listed(Peer(e)) => entry[Peer(e)].peer
  BY <1>1 DEF IInv, PairInv, Sound, Listed
<1> QED  BY <1>1, <1>2, <1>3 DEF Follow, Listed

\* A client is identified, and the channel connected if its peer was: MatchTcp, IdentifyUdp.
LEMMA SetupStep ==
  ASSUME IInv, UNCHANGED <<list, creating>>, Rounds', NEW e \in Entries, Listed(e),
         ~ entry[e].identified, Follow(e) = "no",
         entry' = Setup(e) \/ entry' = [Setup(e) EXCEPT ![e].sock = "open"]
  PROVE  IInv'
<1>1. /\ Peer(e) \in Entries /\ Peer(e) # e /\ entry \in [Entries -> Records]
      /\ entry[e].peer /\ Listed(Peer(e)) /\ entry[Peer(e)].peer
  BY FollowLeads, PeerOf DEF IInv, TypeInv
<1>2. PICK r \in Records : r = entry[e]  BY <1>1
<1>3. PICK p \in Records : p = entry[Peer(e)]  BY <1>1
<1>4. 0 \in 0..Idle  BY ProxyAssumption
<1>5. PICK r1 \in Records :
        /\ \/ r1 = [r EXCEPT !.identified = TRUE, !.age = 0, !.connected = p.identified]
           \/ r1 = [r EXCEPT !.identified = TRUE, !.age = 0, !.connected = p.identified,
                             !.sock = "open"]
        /\ entry'[e] = r1
  <2>1. CASE entry' = Setup(e)
    <3>1. PICK r1 \in Records :
            r1 = [r EXCEPT !.identified = TRUE, !.age = 0, !.connected = p.identified]
      BY <1>4 DEF Records
    <3>2. entry'[e] = r1  BY <1>1, <1>2, <1>3, <2>1, <3>1 DEF Setup
    <3> QED  BY <3>1, <3>2
  <2>2. CASE entry' = [Setup(e) EXCEPT ![e].sock = "open"]
    <3>1. PICK r1 \in Records :
            r1 = [r EXCEPT !.identified = TRUE, !.age = 0, !.connected = p.identified,
                           !.sock = "open"]
      BY <1>4 DEF Records
    <3>2. entry'[e] = r1  BY <1>1, <1>2, <1>3, <2>2, <3>1 DEF Setup
    <3> QED  BY <3>1, <3>2
  <2> QED  BY <2>1, <2>2
<1>6. PICK p1 \in Records : p1 = [p EXCEPT !.connected = p.connected \/ p.identified]
  BY DEF Records
<1>7. /\ entry' \in [Entries -> Records] /\ entry'[e] = r1 /\ entry'[Peer(e)] = p1
      /\ \A x \in Entries : x # e /\ x # Peer(e) => entry'[x] = entry[x]
  <2>1. /\ entry'[Peer(e)] = p1
        /\ \A x \in Entries : x # e /\ x # Peer(e) => entry'[x] = entry[x]
        /\ entry' = [x \in Entries |-> entry'[x]]
    BY <1>1, <1>2, <1>3, <1>6 DEF Setup
  <2>2. \A x \in Entries : entry'[x] \in Records  BY <1>1, <1>5, <2>1
  <2> QED  BY <1>5, <2>1, <2>2
<1>8. /\ r1.life = r.life /\ r1.peer = r.peer /\ r1.identified = TRUE /\ r1.age = 0
      /\ r1.connected = p.identified /\ r1.queued = r.queued
      /\ p1.life = p.life /\ p1.peer = p.peer /\ p1.identified = p.identified
      /\ p1.age = p.age /\ p1.queued = p.queued /\ p1.connected = (p.connected \/ p.identified)
  <2>1. CASE r1 = [r EXCEPT !.identified = TRUE, !.age = 0, !.connected = p.identified]
    BY <1>6, <2>1 DEF Records
  <2>2. CASE r1 = [r EXCEPT !.identified = TRUE, !.age = 0, !.connected = p.identified,
                            !.sock = "open"]
    BY <1>6, <2>2 DEF Records
  <2> QED  BY <1>5, <2>1, <2>2
<1>9. Sound(r, p) /\ Sound(p, r) /\ r.life = "listed" /\ p.life = "listed"
  BY <1>1, <1>2, <1>3, PeerOf DEF IInv, PairInv, Listed
<1>10. Sound(r1, p1)
  <2>1. r.peer /\ ~ r.identified /\ ~ r.queued /\ p.peer  BY <1>1, <1>2, <1>3, <1>9 DEF Sound
  <2> QED  BY <1>8, <1>9, <2>1 DEF Sound
<1>11. Sound(p1, r1)
  <2>1. r.peer /\ ~ r.identified /\ p.peer  BY <1>1, <1>2, <1>3
  <2>2. ~ p.connected /\ ~ p.queued  BY <1>9, <2>1 DEF Sound
  <2>3. r1.age <= p1.age  BY <1>8 DEF Records
  <2> QED  BY <1>8, <1>9, <2>1, <2>2, <2>3 DEF Sound
<1>12. entry'[e].life = entry[e].life /\ entry'[Peer(e)].life = entry[Peer(e)].life
  BY <1>2, <1>3, <1>7, <1>8
<1> QED  BY <1>7, <1>10, <1>11, <1>12, PairChange

\* In f the two entries of e's channel are as identified and connected as they were; one that
\* has data queued is as old as the other.
DataChange(f, e) ==
  /\ f \in [Entries -> Records]
  /\ \A x \in Entries : x # e /\ x # Peer(e) => f[x] = entry[x]
  /\ \A x \in {e, Peer(e)} :
       /\ f[x].life = entry[x].life /\ f[x].peer = entry[x].peer
       /\ f[x].identified = entry[x].identified /\ f[x].connected = entry[x].connected
  /\ f[e].queued \/ f[Peer(e)].queued => f[e].age = f[Peer(e)].age

\* Data pass between two identified sides, or one of them is found broken.
LEMMA DataStep ==
  ASSUME IInv, UNCHANGED <<list, creating>>, Rounds', NEW e \in Entries, Listed(e),
         Listed(Peer(e)), entry[e].peer, entry[e].identified, entry[Peer(e)].identified,
         DataChange(entry', e)
  PROVE  IInv'
<1> USE DEF DataChange
<1>1. /\ Peer(e) \in Entries /\ Peer(Peer(e)) = e
      /\ Sound(entry[e], entry[Peer(e)]) /\ Sound(entry[Peer(e)], entry[e])
      /\ entry[e].life = "listed" /\ entry[Peer(e)].life = "listed"
  BY PeerOf DEF IInv, PairInv, Listed
<1>2. entry[Peer(e)].peer  BY <1>1 DEF Sound
<1>3. Sound(entry'[e], entry'[Peer(e)])  BY <1>1, <1>2 DEF Sound
<1>4. Sound(entry'[Peer(e)], entry'[e])  BY <1>1, <1>2 DEF Sound
<1> QED  BY <1>1, <1>3, <1>4, PairChange

\* What the updates of the two entries of a channel come to.
LEMMA PairFields ==
  ASSUME TypeInv, NEW e \in Entries, NEW left \in BOOLEAN, NEW f,
         \/ f = Moved(e, left)
         \/ f = ClosedBoth(e)
         \/ f = ClosedBad(e, left)
         \/ f = [entry EXCEPT ![e].age = 0, ![Peer(e)].age = 0, ![e].queued = left]
  PROVE  DataChange(f, e)
<1> USE DEF DataChange
<1>1. /\ Peer(e) \in Entries /\ Peer(e) # e /\ entry \in [Entries -> Records]
      /\ 0 \in 0..Idle /\ Idle \in 0..Idle
  BY PeerOf, ProxyAssumption DEF TypeInv
<1>2. PICK r \in Records : r = entry[e]  BY <1>1
<1>3. PICK p \in Records : p = entry[Peer(e)]  BY <1>1
<1>4. ASSUME NEW r1 \in Records, NEW p1 \in Records,
             f = [entry EXCEPT ![e] = r1, ![Peer(e)] = p1],
             /\ r1.life = r.life /\ r1.peer = r.peer
             /\ r1.identified = r.identified /\ r1.connected = r.connected,
             /\ p1.life = p.life /\ p1.peer = p.peer
             /\ p1.identified = p.identified /\ p1.connected = p.connected,
             r1.queued \/ p1.queued => r1.age = p1.age
      PROVE  DataChange(f, e)
  <2>1. f[e] = r1 /\ f[Peer(e)] = p1  BY <1>1, <1>4
  <2> QED  BY <1>1, <1>2, <1>3, <1>4, <2>1
<1>5. CASE f = Moved(e, left)
  <2>1. PICK r1 \in Records : r1 = [r EXCEPT !.age = 0]  BY <1>1 DEF Records
  <2>2. PICK p1 \in Records : p1 = [p EXCEPT !.age = 0, !.queued = left]
    BY <1>1 DEF Records
  <2>3. f = [entry EXCEPT ![e] = r1, ![Peer(e)] = p1]
    BY <1>1, <1>2, <1>3, <1>5, <2>1, <2>2 DEF Moved
  <2>4. /\ r1.life = r.life /\ r1.peer = r.peer
        /\ r1.identified = r.identified /\ r1.connected = r.connected
        /\ p1.life = p.life /\ p1.peer = p.peer
        /\ p1.identified = p.identified /\ p1.connected = p.connected
    BY <1>1, <2>1, <2>2 DEF Records
  <2>5. r1.queued \/ p1.queued => r1.age = p1.age  BY <1>1, <2>1, <2>2 DEF Records
  <2> QED  BY <1>4, <2>3, <2>4, <2>5
<1>6. CASE f = [entry EXCEPT ![e].age = 0, ![Peer(e)].age = 0, ![e].queued = left]
  <2>1. PICK r1 \in Records : r1 = [r EXCEPT !.age = 0, !.queued = left]
    BY <1>1 DEF Records
  <2>2. PICK p1 \in Records : p1 = [p EXCEPT !.age = 0]  BY <1>1 DEF Records
  <2>3. f = [entry EXCEPT ![e] = r1, ![Peer(e)] = p1]
    BY <1>1, <1>2, <1>3, <1>6, <2>1, <2>2
  <2>4. /\ r1.life = r.life /\ r1.peer = r.peer
        /\ r1.identified = r.identified /\ r1.connected = r.connected
        /\ p1.life = p.life /\ p1.peer = p.peer
        /\ p1.identified = p.identified /\ p1.connected = p.connected
    BY <1>1, <2>1, <2>2 DEF Records
  <2>5. r1.queued \/ p1.queued => r1.age = p1.age  BY <1>1, <2>1, <2>2 DEF Records
  <2> QED  BY <1>4, <2>3, <2>4, <2>5
<1>7. \A q \in Records : /\ Closed(q) \in Records
                         /\ Closed(q).life = q.life /\ Closed(q).peer = q.peer
                         /\ Closed(q).identified = q.identified
                         /\ Closed(q).connected = q.connected /\ Closed(q).queued = FALSE
  BY <1>1 DEF Closed, Records
<1>8. CASE f = ClosedBoth(e)
  <2>1. f = [entry EXCEPT ![e] = Closed(r), ![Peer(e)] = Closed(p)]
    BY <1>1, <1>2, <1>3, <1>8 DEF ClosedBoth
  <2> QED  BY <1>4, <1>7, <2>1
<1>9. CASE f = ClosedBad(e, left)
  <2>1. PICK p1 \in Records :
          p1 = [p EXCEPT !.queued = FALSE, !.age = IF left \/ p.queued THEN 0 ELSE p.age]
    BY <1>1 DEF Records
  <2>2. f = [entry EXCEPT ![e] = Closed(r), ![Peer(e)] = p1]
    BY <1>1, <1>2, <1>3, <1>9, <2>1 DEF ClosedBad
  <2>3. /\ p1.life = p.life /\ p1.peer = p.peer /\ p1.identified = p.identified
        /\ p1.connected = p.connected /\ p1.queued = FALSE
    BY <2>1 DEF Records
  <2> QED  BY <1>4, <1>7, <2>2, <2>3
<1> QED  BY <1>5, <1>6, <1>8, <1>9

\* Each of the two stays as old as the other, or older.
LEMMA TimeStep ==
  ASSUME IInv, TimePasses
  PROVE  IInv'
<1> DEFINE Aged(r) == IF r.life = "listed" /\ r.age < Idle THEN [r EXCEPT !.age = r.age + 1] ELSE r
<1> USE DEF IInv
<1>1. /\ entry' = [e \in Entries |-> Aged(entry[e])]
      /\ UNCHANGED <<list, stage, pos, creating>>
  BY DEF TimePasses
<1>2. ASSUME NEW r \in Records
      PROVE  /\ Aged(r) \in Records
             /\ Aged(r).life = r.life /\ Aged(r).peer = r.peer
             /\ Aged(r).identified = r.identified /\ Aged(r).connected = r.connected
             /\ Aged(r).queued = r.queued
             /\ r.life = "listed" => Aged(r).age = IF r.age < Idle THEN r.age + 1 ELSE r.age
  BY ProxyAssumption DEF Records
<1> HIDE DEF Aged
<1>3. entry \in [Entries -> Records]  BY DEF TypeInv
<1>4. /\ entry' \in [Entries -> Records]
      /\ \A e \in Entries : entry'[e] = Aged(entry[e]) /\ entry'[e].life = entry[e].life
  BY <1>1, <1>2, <1>3
<1>5. TypeInv'  BY <1>1, <1>4 DEF TypeInv, Rounds, Unlocked
<1>6. \A e \in Entries : Listed(e)' <=> Listed(e)  BY <1>4 DEF Listed
<1>7. ListInv'
  <2>1. PlacedOnce'  BY <1>1 DEF ListInv, PlacedOnce
  <2>2. \A e, t : At(e, t)' <=> At(e, t)  BY <1>1 DEF At
  <2> QED  BY <1>6, <2>1, <2>2, PeerOf DEF ListInv
<1>8. CreateInv'
  <2>1. \A c \in Channels : <<c, "A">> \in Entries /\ <<c, "B">> \in Entries
    BY DEF Entries
  <2> QED  BY <1>1, <1>4, <2>1 DEF CreateInv
<1>9. ASSUME NEW r \in Records, NEW p \in Records, r.life = "listed", Sound(r, p)
      PROVE  Sound(Aged(r), Aged(p))
  <2>1. CASE p.life = "listed"
    <3>1. p.age <= r.age => Aged(p).age <= Aged(r).age
      BY <1>2, <1>9, <2>1, ProxyAssumption DEF Records
    <3>2. p.age = r.age => Aged(p).age = Aged(r).age  BY <1>2, <1>9, <2>1
    <3> QED  BY <1>2, <1>9, <2>1, <3>1, <3>2 DEF Sound
  <2>2. CASE p.life # "listed"  BY <1>2, <1>9, <2>2 DEF Sound
  <2> QED  BY <2>1, <2>2
<1>10. PairInv'
  <2> SUFFICES ASSUME NEW e \in Entries, Listed(e)
               PROVE  Sound(entry'[e], entry'[Peer(e)])
    BY <1>6 DEF PairInv
  <2>1. Peer(e) \in Entries  BY PeerOf
  <2>2. Sound(Aged(entry[e]), Aged(entry[Peer(e)]))
    BY <1>3, <1>9, <2>1 DEF PairInv, Listed
  <2> QED  BY <1>4, <2>1, <2>2
<1> QED  BY <1>5, <1>7, <1>8, <1>10

\* A client that is waited for, and data that are to be sent, have a peer.
LEMMA WaitsForPeer ==
  ASSUME IInv, NEW e \in Entries, Listed(e),
         \/ ~ entry[e].identified \/ entry[e].connected \/ entry[e].queued
  PROVE  Follow(e) # "null"
<1>1. Sound(entry[e], entry[Peer(e)])  BY DEF IInv, PairInv
<1>2. entry[e].peer  BY <1>1 DEF Sound
<1> QED  BY <1>2, FollowLeads

LEMMA MatchTcpStep ==
  ASSUME IInv, NEW e \in Entries, NEW t \in Threads, MatchTcp(e, t)
  PROVE  IInv' /\ (wild = "no" => wild' # "null")
<1>1. Listed(e) /\ ~ entry[e].identified
  BY AtToSet DEF MatchTcp, IInv, ListInv
<1>2. Follow(e) # "null"  BY <1>1, WaitsForPeer
<1>3. CASE Follow(e) # "no"
  <2>1. Crash(Follow(e))  BY <1>3 DEF MatchTcp
  <2>2. IInv'  BY <2>1, CrashStep
  <2> QED  BY <1>2, <2>1, <2>2 DEF Crash
<1>4. CASE Follow(e) = "no"
  <2>1. /\ entry' = [Setup(e) EXCEPT ![e].sock = "open"]
        /\ UNCHANGED <<list, stage, pos, creating, wild>>
    BY <1>4 DEF MatchTcp
  <2>2. Rounds'  BY <2>1 DEF IInv, TypeInv, Rounds, Unlocked
  <2>3. IInv'  BY <1>1, <1>4, <2>1, <2>2, SetupStep
  <2> QED  BY <2>1, <2>3
<1> QED  BY <1>3, <1>4

LEMMA IdentifyUdpStep ==
  ASSUME IInv, NEW t \in Threads, IdentifyUdp(t)
  PROVE  IInv' /\ (wild = "no" => wild' # "null")
<1>1. PICK e \in Entries : e = Current(t) /\ Listed(e)
  BY CurrentListed DEF IdentifyUdp, Reading, Unlocked
<1>2. ~ entry[e].identified /\ ~ Unlocked(t)
  BY <1>1 DEF IdentifyUdp, Reading, Unlocked
<1>3. Follow(e) # "null"  BY <1>1, <1>2, WaitsForPeer
<1>4. CASE Follow(e) # "no"
  <2>1. Crash(Follow(e))  BY <1>1, <1>4 DEF IdentifyUdp
  <2>2. IInv'  BY <2>1, CrashStep
  <2> QED  BY <1>3, <2>1, <2>2 DEF Crash
<1>5. CASE Follow(e) = "no"
  <2>1. entry' = Setup(e) /\ ToFlush(t)  BY <1>1, <1>5 DEF IdentifyUdp
  <2>2. Rounds'  BY <1>2, <2>1, ToFlushRounds DEF IInv
  <2>3. UNCHANGED <<list, creating, wild>>  BY <2>1 DEF ToFlush
  <2>4. IInv'  BY <1>1, <1>2, <1>5, <2>1, <2>2, <2>3, SetupStep
  <2> QED  BY <2>3, <2>4
<1> QED  BY <1>4, <1>5

LEMMA ForwardStep ==
  ASSUME IInv, NEW t \in Threads, Forward(t)
  PROVE  IInv' /\ (wild = "no" => wild' # "null")
<1>1. PICK e \in Entries : e = Current(t) /\ Listed(e)
  BY CurrentListed DEF Forward, Reading, Unlocked
<1>2. entry[e].connected /\ ~ Unlocked(t)
  BY <1>1 DEF Forward, Reading, Unlocked
<1>3. Follow(e) # "null"  BY <1>1, <1>2, WaitsForPeer
<1>4. Follow(e) = "no" => /\ Listed(Peer(e)) /\ Peer(e) \in Entries
                          /\ entry[e].peer /\ entry[Peer(e)].peer
  BY <1>1, FollowLeads, PeerOf
<1>5. Followed(e) # "null"
  <2>1. CASE Follow(e) = "no" /\ entry[Peer(e)].queued
    <3>1. Follow(Peer(e)) # "null"  BY <1>4, <2>1, WaitsForPeer
    <3> QED  BY <2>1, <3>1 DEF Followed
  <2>2. CASE ~ (Follow(e) = "no" /\ entry[Peer(e)].queued)  BY <1>3, <2>2 DEF Followed
  <2> QED  BY <2>1, <2>2
<1>6. CASE Followed(e) # "no"
  <2>1. Crash(Followed(e))  BY <1>1, <1>6 DEF Forward
  <2>2. IInv'  BY <2>1, CrashStep
  <2> QED  BY <1>5, <2>1, <2>2 DEF Crash
<1>7. CASE Followed(e) = "no"
  <2>1. Follow(e) = "no"  BY <1>7 DEF Followed
  <2>2. /\ ToFlush(t)
        /\ \E left \in BOOLEAN : \/ entry' = Moved(e, left)
                                 \/ entry' = ClosedBoth(e)
                                 \/ entry' = ClosedBad(e, left)
    BY <1>1, <1>7 DEF Forward
  <2>3. entry[e].identified /\ entry[Peer(e)].identified
    <3>1. Sound(entry[e], entry[Peer(e)])  BY <1>1 DEF IInv, PairInv
    <3> QED  BY <1>2, <1>4, <2>1, <3>1 DEF Sound, Listed
  <2>4. Rounds'  BY <1>2, <2>2, ToFlushRounds DEF IInv
  <2>5. UNCHANGED <<list, creating, wild>>  BY <2>2 DEF ToFlush
  <2>6. DataChange(entry', e)
    <3>1. PICK left \in BOOLEAN : \/ entry' = Moved(e, left)
                                  \/ entry' = ClosedBoth(e)
                                  \/ entry' = ClosedBad(e, left)
      BY <2>2
    <3>2. PICK f : f = entry'
      OBVIOUS
    <3>3. TypeInv  BY DEF IInv
    <3>4. f = Moved(e, left) \/ f = ClosedBoth(e) \/ f = ClosedBad(e, left)
      BY <3>1, <3>2
    <3>5. DataChange(f, e)  BY <3>3, <3>4, PairFields
    <3> QED  BY <3>2, <3>5
  <2>7. IInv'  BY <1>1, <1>4, <2>1, <2>3, <2>4, <2>5, <2>6, DataStep
  <2> QED  BY <2>5, <2>7
<1> QED  BY <1>6, <1>7

LEMMA FlushStep ==
  ASSUME IInv, NEW t \in Threads, Flush(t)
  PROVE  IInv' /\ (wild = "no" => wild' # "null")
<1>1. PICK e \in Entries : e = Current(t) /\ Listed(e)
  BY CurrentListed DEF Flush, Unlocked
<1>2. entry[e].queued /\ ~ Unlocked(t)
  BY <1>1 DEF Flush, Unlocked
<1>3. Follow(e) # "null"  BY <1>1, <1>2, WaitsForPeer
<1>4. CASE Follow(e) # "no"
  <2>1. Crash(Follow(e))  BY <1>1, <1>4 DEF Flush
  <2>2. IInv'  BY <2>1, CrashStep
  <2> QED  BY <1>3, <2>1, <2>2 DEF Crash
<1>5. CASE Follow(e) = "no"
  <2>1. Listed(Peer(e)) /\ Peer(e) \in Entries /\ entry[e].peer /\ entry[Peer(e)].peer
    BY <1>1, <1>5, FollowLeads, PeerOf
  <2>2. /\ Advance(t)
        /\ \E left \in BOOLEAN :
             entry' = [entry EXCEPT ![e].age = 0, ![Peer(e)].age = 0, ![e].queued = left]
    BY <1>1, <1>5 DEF Flush
  <2>3. entry[e].identified /\ entry[Peer(e)].identified
    <3>1. Sound(entry[e], entry[Peer(e)])  BY <1>1 DEF IInv, PairInv
    <3> QED  BY <1>2, <2>1, <3>1 DEF Sound, Listed
  <2>4. Rounds'  BY <1>2, <2>2, AdvanceRounds DEF IInv
  <2>5. UNCHANGED <<list, creating, wild>>  BY <2>2 DEF Advance
  <2>6. DataChange(entry', e)
    <3>1. PICK left \in BOOLEAN : entry' = [entry EXCEPT ![e].age = 0, ![Peer(e)].age = 0, ![e].queued = left]
      BY <2>2
    <3>2. PICK f : f = entry'
      OBVIOUS
    <3>3. TypeInv  BY DEF IInv
    <3>4. f = [entry EXCEPT ![e].age = 0, ![Peer(e)].age = 0, ![e].queued = left]
      BY <3>1, <3>2
    <3>5. DataChange(f, e)  BY <3>3, <3>4, PairFields
    <3> QED  BY <3>2, <3>5
  <2>7. IInv'  BY <1>1, <2>1, <2>3, <2>4, <2>5, <2>6, DataStep
  <2> QED  BY <2>5, <2>7
<1> QED  BY <1>4, <1>5

\* The steps of a thread that leave the entries alone.
LEMMA LoopStep ==
  ASSUME IInv, NEW t \in Threads,
         \/ SelectNothing(t) \/ SelectSome(t) \/ Skip(t) \/ NothingRead(t) \/ NothingFlushed(t)
  PROVE  IInv' /\ UNCHANGED wild
<1>1. CASE SelectNothing(t)
  <2>1. stage' = [stage EXCEPT ![t] = "prepare"] /\ UNCHANGED <<entry, list, pos, creating, wild>>
    BY <1>1 DEF SelectNothing
  <2>2. Rounds'  BY <2>1 DEF IInv, TypeInv, Rounds, Unlocked
  <2> QED  BY <2>1, <2>2, SameEntries
<1>2. CASE SelectSome(t)
  <2>1. /\ stage' = [stage EXCEPT ![t] = "read"] /\ pos' = [pos EXCEPT ![t] = 1]
        /\ UNCHANGED <<entry, list, creating, wild>> /\ list[t] # <<>>
    BY <1>2 DEF SelectSome
  <2>2. 1 \in 1..Len(list[t])
    <3>1. list[t] \in Seq(Entries)  BY DEF IInv, TypeInv
    <3> QED  BY <2>1, <3>1
  <2>3. Rounds'  BY <2>1, <2>2 DEF IInv, TypeInv, Rounds, Unlocked
  <2> QED  BY <2>1, <2>3, SameEntries
<1>3. CASE Skip(t) \/ NothingFlushed(t)
  <2>1. Advance(t) /\ UNCHANGED entry /\ ~ Unlocked(t)
    BY <1>3 DEF Skip, NothingFlushed, Unlocked
  <2>2. Rounds'  BY <2>1, AdvanceRounds DEF IInv
  <2>3. UNCHANGED <<list, creating, wild>>  BY <2>1 DEF Advance
  <2> QED  BY <2>1, <2>2, <2>3, SameEntries
<1>4. CASE NothingRead(t)
  <2>1. ToFlush(t) /\ UNCHANGED entry /\ ~ Unlocked(t)
    BY <1>4 DEF NothingRead, Reading, Unlocked
  <2>2. Rounds'  BY <2>1, ToFlushRounds DEF IInv
  <2>3. UNCHANGED <<list, creating, wild>>  BY <2>1 DEF ToFlush
  <2> QED  BY <2>1, <2>2, <2>3, SameEntries
<1> QED  BY <1>1, <1>2, <1>3, <1>4

----------------------------------------------------------------------------
(* The theorems. *)

LEMMA ProxyStep == IInv /\ wild # "null" /\ [Next]_vars => (IInv /\ wild # "null")'
<1> SUFFICES ASSUME IInv, wild # "null", [Next]_vars  PROVE IInv' /\ wild' # "null"
  OBVIOUS
<1>1. CASE UNCHANGED vars
  <2>1. UNCHANGED <<entry, list, stage, pos, creating, wild>>  BY <1>1 DEF vars
  <2>2. Rounds'  BY <2>1 DEF IInv, TypeInv, Rounds, Unlocked
  <2> QED  BY <2>1, <2>2, SameEntries
<1>2. CASE Next
  <2>0. wild = "no"  BY <1>2 DEF Next
  <2>1. ASSUME NEW c \in Channels, CreateBegin(c)  PROVE IInv' /\ wild' # "null"
    BY <2>0, <2>1, CreateBeginStep DEF CreateBegin
  <2>2. CASE CreateEnd  BY <2>0, <2>2, CreateEndStep DEF CreateEnd
  <2>3. CASE TimePasses  BY <2>0, <2>3, TimeStep DEF TimePasses
  <2>4. ASSUME NEW t \in Threads, NEW c \in Channels, CutChannel(c, t)
        PROVE  IInv' /\ wild' # "null"
    <3>1. wild' # "null"  BY <2>0, <2>4 DEF CutChannel, Crash
    <3> QED  BY <2>4, <3>1, CutStep
  <2>5. ASSUME NEW t \in Threads, NEW e \in Entries, MatchTcp(e, t)
        PROVE  IInv' /\ wild' # "null"
    BY <2>0, <2>5, MatchTcpStep
  <2>6. ASSUME NEW t \in Threads, Validate(t)  PROVE IInv' /\ wild' # "null"
    <3>1. wild' # "null"  BY <2>0, <2>6 DEF Validate, Crash
    <3> QED  BY <2>6, <3>1, ValidateStep
  <2>7. ASSUME NEW t \in Threads, ThreadStep(t)  PROVE IInv' /\ wild' # "null"
    <3>1. CASE Prepare(t)  BY <2>0, <3>1, PrepareStep DEF Prepare
    <3>2. CASE PrepareStray(t)
      <4>1. Crash("freed")  BY <3>2 DEF PrepareStray
      <4> QED  BY <4>1, CrashStep DEF Crash
    <3>3. CASE \/ SelectNothing(t) \/ SelectSome(t) \/ Skip(t) \/ NothingRead(t)
               \/ NothingFlushed(t)
      BY <2>0, <3>3, LoopStep
    <3>4. CASE IdentifyUdp(t)  BY <2>0, <3>4, IdentifyUdpStep
    <3>5. CASE Forward(t)  BY <2>0, <3>5, ForwardStep
    <3>6. CASE Flush(t)  BY <2>0, <3>6, FlushStep
    <3> QED  BY <2>7, <3>1, <3>2, <3>3, <3>4, <3>5, <3>6 DEF ThreadStep
  <2> QED  BY <1>2, <2>1, <2>2, <2>3, <2>4, <2>5, <2>6, <2>7 DEF Next
<1> QED  BY <1>1, <1>2

\* What holds in every state: the sides of a channel are in one list while they are there,
\* CreateChannel will find a list, and what an entry may wait for or send has a peer.
THEOREM ProxyInvariance == Spec => [](IInv /\ wild # "null")
<1>1. Init => IInv /\ wild # "null"  BY ProxyInit DEF Init
<1> QED  BY <1>1, ProxyStep, PTL DEF Spec

\* Every entry is in the list of one thread until it is deleted, and there once, whatever the
\* number of threads: the average that CreateChannel computes and the lists that shrink
\* afterwards leave a list that it takes, and no deletion leaves an entry out or takes it twice.
THEOREM EntriesListedOnce == Spec => []ListedOnce
<1>1. ASSUME IInv  PROVE ListedOnce
  <2> SUFFICES ASSUME NEW e \in Entries
               PROVE  Cardinality({p \in Places : list[p[1]][p[2]] = e}) =
                        IF Listed(e) THEN 1 ELSE 0
    BY DEF ListedOnce
  <2> DEFINE P == {p \in Places : list[p[1]][p[2]] = e}
  <2>1. \A p : p \in Places <=> \E t \in Threads : \E i \in 1..Len(list[t]) : p = <<t, i>>
    BY DEF Places
  <2>2. CASE Listed(e)
    <3>1. PICK t \in Threads : \E i \in 1..Len(list[t]) : list[t][i] = e
      BY <1>1, <2>2 DEF IInv, ListInv, At
    <3>5. PICK i \in 1..Len(list[t]) : list[t][i] = e  BY <3>1
    <3>2. <<t, i>> \in P  BY <2>1, <3>5
    <3>3. ASSUME NEW p \in P  PROVE p = <<t, i>>
      <4>1. PICK s \in Threads : \E j \in 1..Len(list[s]) : p = <<s, j>>  BY <2>1
      <4>3. PICK j \in 1..Len(list[s]) : p = <<s, j>>  BY <4>1
      <4>2. list[s][j] = e  BY <4>3
      <4> QED  BY <1>1, <3>5, <4>3, <4>2 DEF IInv, ListInv, PlacedOnce
    <3>4. P = {<<t, i>>}
      <4> HIDE DEF P
      <4> QED  BY <3>2, <3>3
    <3> QED  BY <2>2, <3>4, FS_Singleton
  <2>3. CASE ~ Listed(e)
    <3>1. ASSUME NEW p \in P  PROVE FALSE
      <4>1. PICK s \in Threads : \E j \in 1..Len(list[s]) : p = <<s, j>>  BY <2>1
      <4>3. PICK j \in 1..Len(list[s]) : p = <<s, j>>  BY <4>1
      <4>2. list[s][j] = e  BY <4>3
      <4> QED  BY <1>1, <2>3, <4>2 DEF IInv, ListInv, At
    <3>2. P = {}
      <4> HIDE DEF P
      <4> QED  BY <3>1
    <3> QED  BY <2>3, <3>2, FS_EmptySet
  <2> QED  BY <2>2, <2>3
<1> QED  BY <1>1, ProxyInvariance, PTL

\* Both sides of a channel are connected when both clients have been identified, and neither
\* before, whichever threads handle the two requests and whatever is closed meanwhile.
THEOREM SidesConnected == Spec => []ConnectedTogether
<1>1. ASSUME IInv  PROVE ConnectedTogether
  BY <1>1 DEF IInv, PairInv, Sound, Listed, ConnectedTogether
<1> QED  BY <1>1, ProxyInvariance, PTL

\* No step follows a NULL m_peer: an entry whose peer was removed as idle was identified, has
\* nothing queued and is not connected any more.
THEOREM NullNeverFollowed == Spec => []NoNullPeer
<1>1. wild # "null" => NoNullPeer  BY DEF NoNullPeer
<1> QED  BY <1>1, ProxyInvariance, PTL
=============================================================================
