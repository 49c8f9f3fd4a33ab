-------------------------- MODULE MCSocketLifecycle --------------------------
(* An instance of SocketLifecycle for TLC. *)
EXTENDS SocketLifecycle, TLC
==============================================================================
