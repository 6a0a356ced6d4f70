--------------------------- MODULE MCChannelSetup ---------------------------
(***************************************************************************)
(* ChannelSetup with two clients, in three scenarios: one call, in each of *)
(* six circumstances; one call that asks for a proxy; and two clients that *)
(* call each other at the same time, and draw the same channel id.         *)
(***************************************************************************)
EXTENDS ChannelSetup

MCCall(n, from, to, proxy) == [id |-> n, from |-> from, to |-> to, proxy |-> proxy]
MCPlain == MCCall(1, "a", "b", FALSE)
MCCrossing == MCCall(2, "b", "a", FALSE)
MCProxied == MCCall(3, "a", "b", TRUE)
MCCalls == {MCPlain, MCCrossing, MCProxied}
MCOneCall == {MCPlain}

MCSite(atA, atB, lan, allow) ==
  [firewall |-> [c \in Clients |-> IF c = "a" THEN atA ELSE atB], lan |-> lan, allow |-> allow]
MCOpen == MCSite(NoFirewall, NoFirewall, {}, TRUE)
MCSites == { MCOpen, MCSite(StrictPolicy, NoFirewall, {}, TRUE),
             MCSite(StrictPolicy, StrictPolicy, {}, TRUE),
             MCSite(MediumPolicy, StrictPolicy, {}, FALSE), MCSite(MediumPolicy, NoFirewall, {"b"}, TRUE),
             MCSite(StrictPolicy, NoFirewall, {"b"}, TRUE) }
MCOpenSites == {MCOpen}

Begun == {k \in Calls : pc[k] # "idle"}

(***************************************************************************)
(* Two calls in full are out of reach.  Of those that cross, both have     *)
(* their number before the server gets a request, nothing is refused,      *)
(* broken or times out, and no confirmation is lost or blank.  They are    *)
(* alike up to there: the server gets the first one's request first.       *)
(***************************************************************************)
Smooth ==
  /\ \A k \in {MCPlain, MCCrossing} : /\ pc[k] \in {"leaving", "done"} => signalled[k]
                                      /\ signalled[k] => done[k] # NoEnd
  /\ requested # {} => <<"a", cid[MCPlain]>> \in requested
  /\ \A m \in net : m.type = "SC_A" => m.ok
  /\ \A c \in Clients : \A x \in confirming[c] : x.cfm.cid # 0

\* A confirmation arrives at once: that it is handled, and that its ACK is, still takes time.
Sent == {m \in net : m.type = "CC_CONCFM"}
NoneLost == Sent # queued => Sent = queued'

\* Confirmations go astray in an open network only.
OneScenario ==
  /\ site # MCOpen => astray' = {}
  /\ \/ Begun' \subseteq {MCPlain}
     \/ Begun' = {MCProxied} /\ site = MCOpen
     \/ /\ Begun' = {MCPlain, MCCrossing} /\ site = MCOpen
        /\ Begun # Begun' => net = {}
        /\ Smooth' /\ NoneLost /\ astray' = {}
=============================================================================
