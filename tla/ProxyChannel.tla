---------------------------- MODULE ProxyChannel ----------------------------
(***************************************************************************)
(* The channels of a BBQProxy (bbqproxy.cxx): a channel is a pair of Entry *)
(* objects that point to each other (m_peer), both in the list of one      *)
(* forwarding thread.  Handler threads create and cut channels, clients    *)
(* identify themselves by UDP or TCP, and the forwarding thread forwards   *)
(* data, closes the sides of broken channels and removes closed and idle   *)
(* entries.                                                                *)
(*                                                                         *)
(* The forwarding thread holds the lock of its list for one                *)
(* ValidateActiveChannel, one PrepareSelectForChannel, or one whole        *)
(* HandleChannelEvent, and not between them.  m_mutexNet serialises        *)
(* CreateChannel, CutChannel and the identification by TCP.                *)
(*                                                                         *)
(* What select says is any subset of the open sockets: the descriptor sets *)
(* are left out, and so are the bytes (an entry has data queued or not).   *)
(* A step that follows a pointer to a deleted entry, or NULL, ends the     *)
(* behaviour, with the pointer in wild.                                    *)
(***************************************************************************)
EXTENDS Integers, SequencesExt, Lists

CONSTANTS
  Channels,   \* channel ids, each created at most once
  Tcp,        \* those created with bTCP
  NThreads,   \* the forwarding threads
  Idle        \* m_config.nChannelIdle, in time units

ASSUME ProxyAssumption ==
  /\ Tcp \subseteq Channels /\ NThreads \in Nat \ {0} /\ Idle \in Nat \ {0}

Threads == 1..NThreads
Entries == Channels \X {"A", "B"}

\* where m_peer points when it is set
Peer(e) == <<e[1], IF e[2] = "A" THEN "B" ELSE "A">>

VARIABLES
  entry,      \* [Entries -> record]: the Entry objects, see NewEntry
  list,       \* [Threads -> Seq(Entries)]: m_listChannelEntry of a ForwardThread
  stage,      \* [Threads -> {"prepare", "select", "read", "flush"}]: where its loop is; "read"
              \*   and "flush" are the two halves of a round of HandleChannelEvent
  pos,        \* [Threads -> Nat]: which entry that round is at, 0 outside
  creating,   \* a CreateChannel between nAverage and its pick: [id, average], or NotCreating
  wild        \* "no", or the pointer that a step followed: "null", "freed"

vars == <<entry, list, stage, pos, creating, wild>>

NotCreating == [id |-> "-", average |-> 0]

Entry(life, sock) ==
  [life |-> life, sock |-> sock, peer |-> life = "listed", identified |-> FALSE,
   connected |-> FALSE, queued |-> FALSE, age |-> 0]

\* a new Entry: UDP sockets are bound at once, a TCP socket comes with its client
NewEntry(c) == Entry("listed", IF c \in Tcp THEN "none" ELSE "open")

Gone == Entry("gone", "none")

\* Entry::Close; the time stamp 0 makes the entry idle
Closed(r) == [r EXCEPT !.sock = IF @ = "open" THEN "closed" ELSE @, !.queued = FALSE, !.age = Idle]

\* what it means to follow m_peer of e
Follow(e) == CASE ~ entry[e].peer -> "null"
               [] entry[e].peer /\ entry[Peer(e)].life = "gone" -> "freed"
               [] OTHER -> "no"

Unlocked(t) == stage[t] \in {"prepare", "select"}

\* the step has followed a pointer that leads nowhere
Crash(how) == wild' = how /\ UNCHANGED <<entry, list, stage, pos, creating>>

----------------------------------------------------------------------------
(* Channels come and go. *)

\* the places in the lists: <<thread, position>>
Places == UNION {{t} \X (1..Len(list[t])) : t \in Threads}

\* nAverage: the entries per thread, read without the locks of the lists
Average == Cardinality(Places) \div NThreads

\* CreateChannel takes m_mutexNet ...
CreateBegin(c) ==
  /\ creating = NotCreating /\ entry[<<c, "A">>].life = "none"
  /\ creating' = [id |-> c, average |-> Average]
  /\ UNCHANGED <<entry, list, stage, pos, wild>>

\* faulty variant: a list that is as long as the average is not taken
ShorterThanAverage(t) == Len(list[t]) < creating.average

\* the test by which CreateChannel picks a thread (the first that passes it, before it waits
\* for its lock; lists only shrink meanwhile)
NoLongerThanAverage(t) == Len(list[t]) <= creating.average

\* ... and puts the pair in the list of the thread that it picks, if it finds one
CreateEnd ==
  LET c == creating.id
      pick == {t \in Threads : NoLongerThanAverage(t)}
  IN  /\ creating # NotCreating
      /\ entry' = [e \in Entries |-> IF e[1] = c THEN NewEntry(c) ELSE entry[e]]
      /\ IF pick = {} THEN UNCHANGED list
         ELSE \E t \in pick : /\ Unlocked(t)
                              /\ list' = [list EXCEPT ![t] = @ \o <<<<c, "A">>, <<c, "B">>>>]
      /\ creating' = NotCreating
      /\ UNCHANGED <<stage, pos, wild>>

\* faulty variant: the peer of a removed entry stays connected
OrphanConnected(r) == [r EXCEPT !.peer = FALSE]

\* the peer of an entry that was removed
Orphan(r) == [r EXCEPT !.peer = FALSE, !.connected = FALSE]

\* delete the entries del of t; clear: their peers' pointers are set to NULL
DeleteEntries(t, del, clear) ==
  /\ entry' = [e \in Entries |->
                 IF e \in del THEN Gone
                 ELSE IF clear /\ Peer(e) \in del /\ entry[Peer(e)].peer THEN Orphan(entry[e])
                 ELSE entry[e]]
  /\ list' = [list EXCEPT ![t] = Without(@, del)]

\* an entry of del points to one that was deleted before: its m_peer would be written to
Stray(del) == \E e \in del : Follow(e) = "freed"

\* CutChannel, InternalCutChannel
CutChannel(c, t) ==
  LET del == {e \in ToSet(list[t]) : e[1] = c}
  IN  /\ creating = NotCreating /\ Unlocked(t) /\ del # {}
      /\ IF Stray(del) THEN Crash("freed")
         ELSE DeleteEntries(t, del, TRUE) /\ UNCHANGED <<stage, pos, creating, wild>>

----------------------------------------------------------------------------
(* Clients identify themselves. *)

\* faulty variant: the peer is not told
SetupOneSide(e) ==
  [entry EXCEPT ![e].identified = TRUE, ![e].age = 0, ![e].connected = entry[Peer(e)].identified]

\* the connect request of the client of e is accepted; the second one connects both
Setup(e) ==
  LET both == entry[Peer(e)].identified
  IN  [entry EXCEPT ![e].identified = TRUE, ![e].age = 0, ![e].connected = both,
                    ![Peer(e)].connected = @ \/ both]

\* HandleAnonymousTcpEvent and AnonymousTcpMatchEntry, on the proxy's main thread: a client
\* that connected to the TCP port sends the request for e
MatchTcp(e, t) ==
  /\ creating = NotCreating /\ Unlocked(t) /\ e \in ToSet(list[t])
  /\ e[1] \in Tcp /\ entry[e].sock = "none" /\ ~ entry[e].identified /\ ~ entry[e].connected
  /\ IF Follow(e) # "no" THEN Crash(Follow(e))
     ELSE /\ entry' = [Setup(e) EXCEPT ![e].sock = "open"]
          /\ UNCHANGED <<list, stage, pos, creating, wild>>

----------------------------------------------------------------------------
(* The forwarding thread t. *)

\* faulty variant: an entry without a peer is not looked at
IdleWithPeer(t) == {e \in ToSet(list[t]) : entry[e].age = Idle /\ entry[e].peer}

IdleIn(t) == {e \in ToSet(list[t]) : entry[e].age = Idle}

\* ValidateActiveChannel, every five seconds
Validate(t) ==
  LET del == IdleIn(t)
  IN  /\ stage[t] = "prepare" /\ del # {}
      /\ IF Stray(del) THEN Crash("freed")
         ELSE DeleteEntries(t, del, TRUE) /\ UNCHANGED <<stage, pos, creating, wild>>

ClosedIn(t) == {e \in ToSet(list[t]) : entry[e].sock = "closed"}

\* PrepareSelectForChannel: closed entries are deleted, without a word to their peers
Prepare(t) ==
  /\ stage[t] = "prepare" /\ list[t] # <<>>
  /\ DeleteEntries(t, ClosedIn(t), FALSE)
  /\ stage' = [stage EXCEPT ![t] = "select"]
  /\ UNCHANGED <<pos, creating, wild>>

\* ... and if an entry was readable in the last round, the loop asks its peer for a handle:
\* the peer was deleted earlier, or by this loop
PrepareStray(t) ==
  /\ stage[t] = "prepare"
  /\ \E i \in 1..Len(list[t]) :
       LET e == list[t][i]
       IN  /\ entry[e].sock = "open" /\ entry[e].peer
           /\ Follow(e) = "freed" \/ Peer(e) \in ClosedIn(t) \cap ToSet(SubSeq(list[t], 1, i))
  /\ Crash("freed")

\* select comes back with nothing
SelectNothing(t) ==
  /\ stage[t] = "select"
  /\ stage' = [stage EXCEPT ![t] = "prepare"]
  /\ UNCHANGED <<entry, list, pos, creating, wild>>

\* HandleChannelEvent begins
SelectSome(t) ==
  /\ stage[t] = "select" /\ list[t] # <<>>
  /\ stage' = [stage EXCEPT ![t] = "read"] /\ pos' = [pos EXCEPT ![t] = 1]
  /\ UNCHANGED <<entry, list, creating, wild>>

Current(t) == list[t][pos[t]]

\* to the next entry, or out of the loop
Advance(t) ==
  LET last == pos[t] = Len(list[t])
  IN  /\ stage' = [stage EXCEPT ![t] = IF last THEN "prepare" ELSE "read"]
      /\ pos' = [pos EXCEPT ![t] = IF last THEN 0 ELSE @ + 1]
      /\ UNCHANGED <<list, creating, wild>>

\* from the first half of the round to the second
ToFlush(t) ==
  /\ stage' = [stage EXCEPT ![t] = "flush"]
  /\ UNCHANGED <<list, pos, creating, wild>>

Reading(t) == stage[t] = "read" /\ entry[Current(t)].sock = "open"

\* no socket, or it is closed
Skip(t) ==
  /\ stage[t] = "read" /\ entry[Current(t)].sock # "open"
  /\ Advance(t)
  /\ UNCHANGED entry

\* the socket is not readable, or the data stay in it, or the request is bad
NothingRead(t) ==
  /\ Reading(t)
  /\ ToFlush(t)
  /\ UNCHANGED entry

\* a UDP client sends its connect request
IdentifyUdp(t) ==
  LET e == Current(t)
  IN  /\ Reading(t) /\ e[1] \notin Tcp /\ ~ entry[e].connected /\ ~ entry[e].identified
      /\ IF Follow(e) # "no" THEN Crash(Follow(e))
         ELSE entry' = Setup(e) /\ ToFlush(t)

\* the pointers that HandleChannelEvent, ForwardToPeer and the Flush of the peer follow
Followed(e) == IF Follow(e) = "no" /\ entry[Peer(e)].queued THEN Follow(Peer(e)) ELSE Follow(e)

\* ForwardToPeer moves data: e and its peer are stamped; left: data stay in the peer's queue
Moved(e, left) ==
  [entry EXCEPT ![e].age = 0, ![Peer(e)].age = 0, ![Peer(e)].queued = left]

\* Read finds a TCP socket broken, and closes both sides
ClosedBoth(e) == [entry EXCEPT ![e] = Closed(@), ![Peer(e)] = Closed(@)]

\* Read finds bad data in the TCP stream, and closes the side they came from; the peer's
\* queue was flushed before, and data may have moved
ClosedBad(e, moved) ==
  [entry EXCEPT ![e] = Closed(@), ![Peer(e)].queued = FALSE,
                ![Peer(e)].age = IF moved \/ entry[Peer(e)].queued THEN 0 ELSE @]

\* e is readable and connected
Forward(t) ==
  LET e == Current(t)
  IN  /\ Reading(t) /\ entry[e].connected
      /\ IF Followed(e) # "no" THEN Crash(Followed(e))
         ELSE /\ entry[Peer(e)].sock = "open"
              /\ \/ \E left \in BOOLEAN : entry' = Moved(e, left)
                 \/ e[1] \in Tcp /\ entry' = ClosedBoth(e)
                 \/ e[1] \in Tcp /\ \E moved \in BOOLEAN : entry' = ClosedBad(e, moved)
              /\ ToFlush(t)

\* the second half: the socket takes nothing, or there is nothing to flush
NothingFlushed(t) ==
  /\ stage[t] = "flush"
  /\ Advance(t)
  /\ UNCHANGED entry

\* Flush: what is left stays in the queue
Flush(t) ==
  LET e == Current(t)
  IN  /\ stage[t] = "flush" /\ entry[e].queued
      /\ IF Follow(e) # "no" THEN Crash(Follow(e))
         ELSE /\ \E left \in BOOLEAN :
                   entry' = [entry EXCEPT ![e].age = 0, ![Peer(e)].age = 0, ![e].queued = left]
              /\ Advance(t)

\* time passes; the age of an entry counts up to Idle
TimePasses ==
  /\ \E e \in Entries : entry[e].life = "listed" /\ entry[e].age < Idle
  /\ entry' = [e \in Entries |->
                 IF entry[e].life = "listed" /\ entry[e].age < Idle
                 THEN [entry[e] EXCEPT !.age = @ + 1] ELSE entry[e]]
  /\ UNCHANGED <<list, stage, pos, creating, wild>>

----------------------------------------------------------------------------
Init ==
  /\ entry = [e \in Entries |-> Entry("none", "none")]
  /\ list = [t \in Threads |-> <<>>]
  /\ stage = [t \in Threads |-> "prepare"] /\ pos = [t \in Threads |-> 0]
  /\ creating = NotCreating /\ wild = "no"

ThreadStep(t) == \/ Prepare(t) \/ PrepareStray(t) \/ SelectNothing(t) \/ SelectSome(t)
                 \/ Skip(t) \/ NothingRead(t) \/ IdentifyUdp(t) \/ Forward(t)
                 \/ NothingFlushed(t) \/ Flush(t)

Next ==
  /\ wild = "no"
  /\ \/ \E c \in Channels : CreateBegin(c)
     \/ CreateEnd \/ TimePasses
     \/ \E t \in Threads :
          \/ \E c \in Channels : CutChannel(c, t)
          \/ \E e \in Entries : MatchTcp(e, t)
          \/ Validate(t) \/ ThreadStep(t)

\* The threads run, select returns, and ValidateActiveChannel is called every five seconds.
Fairness ==
  /\ WF_vars(TimePasses /\ wild = "no")
  /\ \A t \in Threads : WF_vars(ThreadStep(t) /\ wild = "no") /\ SF_vars(Validate(t) /\ wild = "no")

Spec == Init /\ [][Next]_vars /\ Fairness

----------------------------------------------------------------------------
Listed(e) == entry[e].life = "listed"

\* Every entry is in the list of one thread until it is deleted, once: CreateChannel always
\* finds a thread, although it compares the lengths with an average that is rounded down,
\* and reads them without the locks of the threads that remove entries meanwhile.
ListedOnce ==
  \A e \in Entries :
    Cardinality({p \in Places : list[p[1]][p[2]] = e}) = IF Listed(e) THEN 1 ELSE 0

\* Both sides of a channel are connected, or neither: as soon as both clients have been
\* identified, by whatever threads, data pass both ways, and not before.
ConnectedTogether ==
  \A e \in Entries :
    (Listed(e) /\ Listed(Peer(e)) /\ entry[e].peer /\ entry[Peer(e)].peer) =>
      (entry[e].connected <=> entry[e].identified /\ entry[Peer(e)].identified)

\* No step follows a NULL m_peer: neither an entry whose peer was removed as idle nor one
\* whose channel was cut has data to forward or to flush, or a client to wait for.
NoNullPeer == wild # "null"

\* When one side of a channel was removed, the other one does not stay for ever.
OrphansEnd ==
  \A e \in Entries :
    (entry[e].life = "gone" /\ Listed(Peer(e))) ~> (~ Listed(Peer(e)) \/ wild # "no")

\* "empty peer's pointer to avoid accessing deleted object" (bbqproxy.cxx:1119).
NoFreedPeer == wild # "freed"
=============================================================================
