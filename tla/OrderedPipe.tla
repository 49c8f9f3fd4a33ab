----------------------------- MODULE OrderedPipe -----------------------------
(***************************************************************************)
(* What a server transport promises its writers: messages it accepted go   *)
(* out in the order they were accepted, without gaps or repetitions, until *)
(* the transport is closed; after that nothing more goes out.  A message   *)
(* accepted before the close may still be lost with it.                    *)
(***************************************************************************)
EXTENDS Naturals, Sequences

CONSTANT Messages

VARIABLES
    accepted,   \* what Write took over, in order
    delivered,  \* what has been put on the connection, in order
    open

vars == <<accepted, delivered, open>>

Init == accepted = <<>> /\ delivered = <<>> /\ open = TRUE

Accept(m) ==
    /\ accepted' = Append(accepted, m)
    /\ UNCHANGED <<delivered, open>>

Deliver ==
    /\ open
    /\ Len(delivered) < Len(accepted)
    /\ delivered' = Append(delivered, accepted[Len(delivered) + 1])
    /\ UNCHANGED <<accepted, open>>

Close ==
    /\ open
    /\ open' = FALSE
    /\ UNCHANGED <<accepted, delivered>>

Next == (\E m \in Messages : Accept(m)) \/ Deliver \/ Close

\* As long as it stays open, the pipe keeps moving.
Spec == Init /\ [][Next]_vars /\ WF_vars(Deliver)
==============================================================================
