---------------------------- MODULE MCLongPolling -----------------------------
(* Instances of LongPolling for TLC. *)
EXTENDS LongPolling, TLC

\* Three messages from the server, or two from the client.
SomeLoads == {<<3, 0>>, <<0, 2>>}
===============================================================================
