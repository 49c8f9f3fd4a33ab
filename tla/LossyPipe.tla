------------------------------ MODULE LossyPipe ------------------------------
(***************************************************************************)
(* What a connection promises without acknowledgements: messages, numbered *)
(* as they are accepted, come out at most once, and what is lost does not  *)
(* come back.  While the pipe is ordered they also come out in the order   *)
(* in which they were accepted, with gaps where some were lost.            *)
(***************************************************************************)
EXTENDS Naturals, Sequences

VARIABLES
    accepted,   \* number of messages taken over
    transit,    \* the messages on their way
    delivered,  \* what came out
    ordered     \* messages do not overtake each other

vars == <<accepted, transit, delivered, ordered>>

Init ==
    /\ accepted = 0 /\ transit = {} /\ delivered = <<>>
    /\ ordered \in BOOLEAN

\* A message goes in, or is dropped at once.
Accept ==
    /\ accepted' = accepted + 1
    /\ transit' \in {transit, transit \cup {accepted + 1}}
    /\ UNCHANGED <<delivered, ordered>>

\* Of the messages that leave the pipe those in out are delivered, each once
\* and in this order; the others are lost.
Leave(gone, out) ==
    /\ \A i, j \in DOMAIN out : out[i] = out[j] => i = j
    /\ ordered => /\ \A i, j \in DOMAIN out : i < j => out[i] < out[j]
                  /\ \A i \in DOMAIN out, m \in transit \ gone : out[i] < m
    /\ transit' = transit \ gone
    /\ delivered' = delivered \o out
    /\ UNCHANGED <<accepted, ordered>>

\* From now on messages may overtake each other.
Disorder ==
    /\ ordered' = FALSE
    /\ UNCHANGED <<accepted, transit, delivered>>

Next ==
    \/ Accept \/ Disorder
    \/ \E gone \in SUBSET transit, n \in 0..accepted :
          \E out \in [1..n -> gone] : Leave(gone, out)

Spec == Init /\ [][Next]_vars
==============================================================================
