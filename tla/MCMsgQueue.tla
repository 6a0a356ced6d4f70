----------------------------- MODULE MCMsgQueue -----------------------------
(***************************************************************************)
(* MsgQueue with a few handlers: MCTwo grow to three and shrink to one;    *)
(* MCThree shrink by two.                                                  *)
(***************************************************************************)
EXTENDS MsgQueue

MCTwo == <<"h1", "h2">>
MCThree == <<"h1", "h2", "h3">>
=============================================================================
