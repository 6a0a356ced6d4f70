----------------------------- MODULE SessionNet -----------------------------
(***************************************************************************)
(* The messages between the clients and the server of a domain, over UDP.  *)
(* A message may be lost or late, and two messages arrive in any order,    *)
(* for 16 handler threads serve one queue.  A message that RequestMessage  *)
(* repeats is as a second request of its client.  MsgTerminal and MsgQueue *)
(* model how.                                                              *)
(***************************************************************************)
EXTENDS Integers, FiniteSets

CONSTANTS
  Users,       \* accounts
  Devices,     \* running client programs, each with an address of its own
  NetMax,      \* bound: messages on their way, logouts not counted
  None

ASSUME NetAssumption == NetMax \in Nat /\ None \notin Devices \cup Users

VARIABLE net   \* the messages on their way

(***************************************************************************)
(* dev made the request, or is the one whose request is answered; user and *)
(* cookie are the message's sessionInfo; n is the sync of a login; to is   *)
(* the peer of the channel, or None for the server.                        *)
(***************************************************************************)
Message(kind, dev, user, n, cookie, to) ==
  [kind |-> kind, dev |-> dev, user |-> user, n |-> n, cookie |-> cookie, to |-> to]

\* the server's answer to m, or what it sends because of m
FromServer(kind, m, cookie, to) == {Message(kind, m.dev, m.user, m.n, cookie, to)}

\* m, of this kind, is taken off the net
Receives(m, kind) == m \in net /\ m.kind = kind
Rest(m) == net \ {m}

Lose(m) == m \in net /\ net' = Rest(m)

NetBound == Cardinality({m \in net : m.kind # "logout"}) <= NetMax
=============================================================================
