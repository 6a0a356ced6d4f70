------------------------- MODULE MsgTerminalPromise -------------------------
(***************************************************************************)
(* The refinement mapping from MsgTerminal to AtLeastOnce.  A post is      *)
(* abandoned when PostMessage did not queue it or OnTick has used up its   *)
(* retries.                                                                *)
(***************************************************************************)
EXTENDS MsgTerminal

PostCalls == {c \in Calls : c.op = "post"}

Queued(c) == \E i \in DOMAIN posts[c.from] : posts[c.from][i].call = c

StatusOf(c) == IF pc[c] = "idle" THEN "idle"
               ELSE IF c \in confirmed THEN "confirmed"
               ELSE IF pc[c] = "sent" \/ Queued(c) THEN "pending"
               ELSE "abandoned"

Promise == INSTANCE AtLeastOnce WITH Posts <- PostCalls,
             status <- [c \in PostCalls |-> StatusOf(c)], reached <- arrived \cap PostCalls

\* MsgTerminal implements AtLeastOnce, with its liveness.
DeliversAtLeastOnce == Promise!Spec
=============================================================================
