--------------------------- MODULE MCProxyChannel ---------------------------
(***************************************************************************)
(* ProxyChannel with a TCP channel and a UDP channel.                      *)
(***************************************************************************)
EXTENDS ProxyChannel

MCChannels == {"tcp", "udp"}
MCTcp == {"tcp"}
=============================================================================
