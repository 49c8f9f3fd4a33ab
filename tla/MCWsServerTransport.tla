------------------------- MODULE MCWsServerTransport -------------------------
(* Instances of WsServerTransport for TLC. *)
EXTENDS WsServerTransport, TLC
==============================================================================
