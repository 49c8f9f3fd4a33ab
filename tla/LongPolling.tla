----------------------------- MODULE LongPolling ------------------------------
(***************************************************************************)
(* A long-polling connection end to end: LongPollingTransport of           *)
(* socket/transport/longpolling.go on the client's side, and on the        *)
(* server's side LongPollingServerTransport of server_transport.go behind  *)
(* the endpoints of socket/server.go, joined by HTTP requests and replies  *)
(* that may be delayed or lost.                                            *)
(*                                                                         *)
(* The client side has the poll goroutine, one goroutine that calls        *)
(* Receive, one that calls Send, and Close.  A transport is connected once *)
(* in its life: Client.reconnect finds it still connected, and Client.Close*)
(* cancels the context every later Connect would use.  A request the       *)
(* client has given up may still be handled; MaxStale bounds the polls     *)
(* among them.                                                             *)
(*                                                                         *)
(* Messages are numbered in the order in which they are written.           *)
(***************************************************************************)
EXTENDS Naturals, Sequences, FiniteSets

CONSTANTS
    Loads,     \* numbers of messages <<written by the server, sent by the client>>
    QueueCap,  \* capacity of LongPollingTransport.incomingQueue
    InCap,     \* LongPollingServerConfig.BufferSize
    MaxStale   \* polls that outlive the client's interest in them

ASSUME LongPollingAssumption ==
    /\ Loads \subseteq Nat \X Nat /\ MaxStale \in Nat
    /\ QueueCap \in Nat \ {0} /\ InCap \in Nat \ {0}

VARIABLES
    load,       \* the load of this connection
    conn,       \* the client transport: connected iff "open", with a session id
    cancelled,  \* t.ctx is done
    closing,    \* Close: holds t.mu while "busy"
    disconnect, \* the request of Close
    session,    \* the entry in Server.sessions
    sclosed,    \* LongPollingServerTransport.closed
    pending,    \* LongPollingServerTransport.pendingMessages
    nextDown,   \* the next message to write
    poll,       \* the poll goroutine
    request,    \* its request
    reply,      \* the body of the reply on its way
    stale,      \* abandoned polls that the server has not handled
    hand,       \* messages of the last reply not in the queue yet
    queue,      \* LongPollingTransport.incomingQueue
    receiver,   \* the goroutine calling Receive
    received,   \* what Receive has returned
    sending,    \* the message Send is busy with, or 0
    nextUp,     \* the next message to send
    up,         \* the request of every message sent
    acked,      \* messages for which Send returned nil
    incoming,   \* LongPollingServerTransport.incomingMessages
    read,       \* what the server's Read has returned
    lost        \* history: messages dropped after they were taken out of pending

linkVars == <<load, conn, cancelled, closing, disconnect, session, sclosed>>
pollVars == <<poll, request, reply, stale, hand>>
recvVars == <<queue, receiver, received>>
downVars == <<pending, nextDown, pollVars, recvVars, lost>>
upVars == <<sending, nextUp, up, acked, incoming, read>>
vars == <<linkVars, downVars, upVars>>

Down == 1..load[1]
Up == 1..load[2]

\* t.mu can be taken.
MuFree == closing # "busy"

\* Message m is written as a JSON object.  HandlePoll encodes the [][]byte as
\* JSON, which makes every element a string of base64 digits, and fetchMessages
\* keeps the raw JSON of each element: what Receive returns is that string.
Base64String(m) == <<"base64", m>>
Body(text) == text[2]
Encode(messages) == [n \in DOMAIN messages |-> Base64String(messages[n])]
Bodies(texts) == {Body(texts[n]) : n \in DOMAIN texts}

Init ==
    /\ load \in Loads
    /\ conn = "idle" /\ cancelled = FALSE /\ closing = "no" /\ disconnect = "none"
    /\ session = "none" /\ sclosed = FALSE
    /\ pending = <<>> /\ nextDown = 1
    /\ poll = "none" /\ request = "none" /\ reply = <<>> /\ stale = 0 /\ hand = <<>>
    /\ queue = <<>> /\ receiver = "none" /\ received = <<>>
    /\ sending = 0 /\ nextUp = 1 /\ up = [m \in Up |-> "unsent"] /\ acked = {}
    /\ incoming = <<>> /\ read = <<>>
    /\ lost = {}

------------------------------------------------------------------------------
(* Connect, Close and the end of a session. *)

Connect ==
    /\ conn = "idle"
    /\ conn' = "connecting"
    /\ UNCHANGED <<load, cancelled, closing, disconnect, session, sclosed, downVars, upVars>>

\* handleLongPollingConnect, possibly after the client has given up.
HandleConnect ==
    /\ conn \in {"connecting", "failed"} /\ session = "none"
    /\ session' = "registered"
    /\ UNCHANGED <<load, conn, cancelled, closing, disconnect, sclosed, downVars, upVars>>

\* Connect returns: the poll goroutine and the receiver start.
ConnectReply ==
    /\ conn = "connecting" /\ session # "none"
    /\ conn' = "open"
    /\ poll' = "sleep"
    /\ receiver' = "check"
    /\ UNCHANGED <<load, cancelled, closing, disconnect, session, sclosed, pending, nextDown,
                   request, reply, stale, hand, queue, received, lost, upVars>>

ConnectError ==
    /\ conn = "connecting"
    /\ conn' = "failed"
    /\ UNCHANGED <<load, cancelled, closing, disconnect, session, sclosed, downVars, upVars>>

\* Client.Close cancels the parent context before it closes the transport.
Cancel ==
    /\ conn = "open" /\ ~cancelled
    /\ cancelled' = TRUE
    /\ UNCHANGED <<load, conn, closing, disconnect, session, sclosed, downVars, upVars>>

\* Close takes t.mu and keeps it until its request is answered or times out.
CloseBegin ==
    /\ conn = "open" /\ closing = "no"
    /\ closing' = "busy"
    /\ disconnect' = "sent"
    /\ UNCHANGED <<load, conn, cancelled, session, sclosed, downVars, upVars>>

CloseEnd ==
    /\ closing = "busy"
    /\ closing' = "done"
    /\ conn' = "closed"
    /\ cancelled' = TRUE
    /\ UNCHANGED <<load, disconnect, session, sclosed, downVars, upVars>>

\* handleLongPollingDisconnect removes the session; ServerClose follows.
HandleDisconnect ==
    /\ disconnect = "sent"
    /\ disconnect' = "handled"
    /\ session' = "removed"
    /\ UNCHANGED <<load, conn, cancelled, closing, sclosed, downVars, upVars>>

\* LongPollingServerTransport.Close, called through the socket by anybody.
ServerClose ==
    /\ session # "none" /\ ~sclosed
    /\ sclosed' = TRUE
    /\ UNCHANGED <<load, conn, cancelled, closing, disconnect, session, downVars, upVars>>

\* IsExpired: the transport is closed, or the last request is too long ago.
CollectSession ==
    /\ session = "registered"
    /\ session' = "removed"
    /\ sclosed' = TRUE
    /\ UNCHANGED <<load, conn, cancelled, closing, disconnect, downVars, upVars>>

------------------------------------------------------------------------------
(* From the server to the client: Write, the poll goroutine, Receive. *)

\* A closed transport drops the message and reports no error.
Write ==
    /\ session # "none" /\ nextDown \in Down
    /\ nextDown' = nextDown + 1
    /\ pending' = IF sclosed THEN pending ELSE Append(pending, nextDown)
    /\ UNCHANGED <<linkVars, pollVars, recvVars, lost, upVars>>

\* The endpoints look the session up before its transport tests closed, so a
\* request may get through to a session that was removed in between.
Admitted == session # "none" /\ ~sclosed
Rejected == session # "registered" \/ sclosed

PollDone ==
    /\ poll = "sleep" /\ cancelled
    /\ poll' = "ended"
    /\ UNCHANGED <<linkVars, pending, nextDown, request, reply, stale, hand, recvVars,
                   lost, upVars>>

\* fetchMessages, after the interval.  Without a session id or with a context
\* that is done it returns an error at once, and poll goes back to sleep.
PollRequest ==
    /\ poll = "sleep" /\ conn = "open" /\ MuFree /\ ~cancelled
    /\ poll' = "wait"
    /\ request' = "sent"
    /\ UNCHANGED <<linkVars, pending, nextDown, reply, stale, hand, recvVars, lost, upVars>>

\* Mutant: the pending messages are not taken out.
HandlePollKeeps ==
    /\ request = "sent" /\ Admitted
    /\ request' = "answered" /\ reply' = Encode(pending)
    /\ UNCHANGED <<linkVars, pending, nextDown, poll, stale, hand, recvVars, lost, upVars>>

HandlePoll ==
    /\ request = "sent"
    /\ \/ /\ Admitted
          /\ request' = "answered" /\ reply' = Encode(pending)
          /\ pending' = <<>>
       \/ Rejected /\ request' = "refused" /\ UNCHANGED <<reply, pending>>
    /\ UNCHANGED <<linkVars, nextDown, poll, stale, hand, recvVars, lost, upVars>>

\* HandlePoll for a request whose client is gone: nobody gets the messages.
HandleStalePoll ==
    /\ stale > 0
    /\ stale' = stale - 1
    /\ \/ /\ Admitted
          /\ lost' = lost \cup {pending[n] : n \in DOMAIN pending}
          /\ pending' = <<>>
       \/ Rejected /\ UNCHANGED <<lost, pending>>
    /\ UNCHANGED <<linkVars, nextDown, poll, request, reply, hand, recvVars, upVars>>

\* The reply arrives; a status other than 200 is an error.
PollReply ==
    /\ poll = "wait" /\ request \in {"answered", "refused"}
    /\ request' = "none"
    /\ hand' = reply /\ reply' = <<>>
    /\ poll' = IF request = "answered" THEN "push" ELSE "sleep"
    /\ UNCHANGED <<linkVars, pending, nextDown, stale, recvVars, lost, upVars>>

\* Mutant: poll returns at an error instead of going on.
PollAbandonedEnds ==
    /\ poll = "wait"
    /\ poll' = "ended"
    /\ request' = "none" /\ reply' = <<>>
    /\ lost' = lost \cup Bodies(reply)
    /\ UNCHANGED <<linkVars, pending, nextDown, stale, hand, recvVars, upVars>>

\* The request timed out, the connection broke or the context was cancelled.
\* The request may be lost, still be on its way, or its reply may be lost.
PollAbandoned ==
    /\ poll = "wait"
    /\ poll' = "sleep"
    /\ request' = "none" /\ reply' = <<>>
    /\ lost' = lost \cup Bodies(reply)
    /\ \/ UNCHANGED stale
       \/ request = "sent" /\ stale < MaxStale /\ stale' = stale + 1
    /\ UNCHANGED <<linkVars, pending, nextDown, hand, recvVars, upVars>>

\* A full incomingQueue drops the message.
Push ==
    /\ poll = "push"
    /\ \/ hand = <<>> /\ poll' = "sleep" /\ UNCHANGED <<hand, queue, lost>>
       \/ /\ hand # <<>>
          /\ hand' = Tail(hand)
          /\ IF Len(queue) < QueueCap
             THEN queue' = Append(queue, Head(hand)) /\ UNCHANGED lost
             ELSE lost' = lost \cup {Body(Head(hand))} /\ UNCHANGED queue
          /\ UNCHANGED poll
    /\ UNCHANGED <<linkVars, pending, nextDown, request, reply, stale, receiver, received,
                   upVars>>

\* Receive's test of connected; an error ends the client's receiveLoop.
ReceiveCheck ==
    /\ receiver = "check" /\ MuFree
    /\ receiver' = IF conn = "open" THEN "select" ELSE "ended"
    /\ UNCHANGED <<linkVars, pending, nextDown, pollVars, queue, received, lost, upVars>>

ReceiveMessage ==
    /\ receiver = "select" /\ queue # <<>>
    /\ receiver' = "check"
    /\ received' = Append(received, Head(queue))
    /\ queue' = Tail(queue)
    /\ UNCHANGED <<linkVars, pending, nextDown, pollVars, lost, upVars>>

ReceiveDone ==
    /\ receiver = "select" /\ cancelled
    /\ receiver' = "ended"
    /\ UNCHANGED <<linkVars, pending, nextDown, pollVars, queue, received, lost, upVars>>

------------------------------------------------------------------------------
(* From the client to the server: Send, HandleSend, Read. *)

\* Without a session id or with a context that is done Send fails at once.
Send ==
    /\ sending = 0 /\ nextUp \in Up
    /\ conn = "open" /\ MuFree /\ ~cancelled
    /\ sending' = nextUp
    /\ nextUp' = nextUp + 1
    /\ up' = [up EXCEPT ![nextUp] = "sent"]
    /\ UNCHANGED <<linkVars, downVars, acked, incoming, read>>

\* HandleSend tests closed under t.mu ...
HandleSendCheck(m) ==
    /\ up[m] = "sent"
    /\ \/ Admitted /\ up' = [up EXCEPT ![m] = "reading"]
       \/ Rejected /\ up' = [up EXCEPT ![m] = "refused"]
    /\ UNCHANGED <<linkVars, downVars, sending, nextUp, acked, incoming, read>>

\* Mutant: a message that a full queue drops is acknowledged.
HandleSendEnqueueAcks(m) ==
    /\ up[m] = "reading"
    /\ up' = [up EXCEPT ![m] = "accepted"]
    /\ incoming' = IF Len(incoming) < InCap THEN Append(incoming, m) ELSE incoming
    /\ UNCHANGED <<linkVars, downVars, sending, nextUp, acked, read>>

\* ... and enqueues after it has read the body, whatever happened meanwhile.  A
\* body that cannot be read and a full queue are refused.
HandleSendEnqueue(m) ==
    /\ up[m] = "reading"
    /\ \/ /\ Len(incoming) < InCap
          /\ incoming' = Append(incoming, m)
          /\ up' = [up EXCEPT ![m] = "accepted"]
       \/ up' = [up EXCEPT ![m] = "refused"] /\ UNCHANGED incoming
    /\ UNCHANGED <<linkVars, downVars, sending, nextUp, acked, read>>

SendReply ==
    /\ sending # 0 /\ up[sending] \in {"accepted", "refused"}
    /\ acked' = IF up[sending] = "accepted" THEN acked \cup {sending} ELSE acked
    /\ sending' = 0
    /\ UNCHANGED <<linkVars, downVars, nextUp, up, incoming, read>>

\* Mutant: a request that was given up is sent once more.
SendAbandonedRetries ==
    /\ sending # 0
    /\ sending' = 0
    /\ up' = [up EXCEPT ![sending] = "sent"]
    /\ UNCHANGED <<linkVars, downVars, nextUp, acked, incoming, read>>

\* Send returns an error; its request may still be handled, or never.
SendAbandoned ==
    /\ sending # 0
    /\ sending' = 0
    /\ UNCHANGED <<linkVars, downVars, nextUp, up, acked, incoming, read>>

\* Mutant: the receive loop ends with the session.
ServerReadOpen ==
    /\ incoming # <<>> /\ ~sclosed
    /\ read' = Append(read, Head(incoming))
    /\ incoming' = Tail(incoming)
    /\ UNCHANGED <<linkVars, downVars, sending, nextUp, up, acked>>

\* Read waits for messages only, also after Close.
ServerRead ==
    /\ incoming # <<>>
    /\ read' = Append(read, Head(incoming))
    /\ incoming' = Tail(incoming)
    /\ UNCHANGED <<linkVars, downVars, sending, nextUp, up, acked>>

------------------------------------------------------------------------------
Next ==
    \/ Connect \/ HandleConnect \/ ConnectReply \/ ConnectError
    \/ Cancel \/ CloseBegin \/ CloseEnd \/ HandleDisconnect \/ ServerClose \/ CollectSession
    \/ Write \/ PollDone \/ PollRequest \/ HandlePoll \/ HandleStalePoll
    \/ PollReply \/ PollAbandoned \/ Push
    \/ ReceiveCheck \/ ReceiveMessage \/ ReceiveDone
    \/ Send \/ SendReply \/ SendAbandoned \/ ServerRead
    \/ \E m \in Up : HandleSendCheck(m) \/ HandleSendEnqueue(m)

Spec == Init /\ [][Next]_vars

\* Goroutines that can move do, a request ends within its timeout, and of the
\* polls a client keeps sending some reach the server.  Nobody is obliged to
\* connect, to write, to send or to close.
Fairness ==
    /\ WF_vars(PollDone) /\ WF_vars(PollRequest) /\ SF_vars(HandlePoll)
    /\ WF_vars(PollReply \/ PollAbandoned) /\ WF_vars(Push)
    /\ WF_vars(ReceiveCheck) /\ WF_vars(ReceiveMessage) /\ WF_vars(ReceiveDone)
    /\ WF_vars(ConnectReply \/ ConnectError) /\ WF_vars(CloseEnd) /\ WF_vars(ServerRead)
    /\ WF_vars(session = "removed" /\ ServerClose)

FairSpec == Spec /\ Fairness

------------------------------------------------------------------------------
(* Properties. *)

\* Every message of every load.
Numbers == UNION {1..(l[1] + l[2]) : l \in Loads}

Texts == {Base64String(m) : m \in Down}

(* Both transports' fields hold values of the code's types, and neither queue *)
(* exceeds its capacity.                                                      *)
TypeOK ==
    /\ load \in Loads
    /\ conn \in {"idle", "connecting", "open", "closed", "failed"}
    /\ cancelled \in BOOLEAN /\ sclosed \in BOOLEAN
    /\ closing \in {"no", "busy", "done"} /\ disconnect \in {"none", "sent", "handled"}
    /\ session \in {"none", "registered", "removed"}
    /\ pending \in Seq(Down) /\ nextDown \in 1..load[1] + 1
    /\ poll \in {"none", "sleep", "wait", "push", "ended"}
    /\ request \in {"none", "sent", "answered", "refused"}
    /\ reply \in Seq(Texts) /\ hand \in Seq(Texts) /\ stale \in 0..MaxStale
    /\ queue \in Seq(Texts) /\ Len(queue) <= QueueCap
    /\ receiver \in {"none", "check", "select", "ended"} /\ received \in Seq(Texts)
    /\ sending \in 0..load[2] /\ nextUp \in 1..load[2] + 1
    /\ up \in [Up -> {"unsent", "sent", "reading", "accepted", "refused"}]
    /\ acked \subseteq Up
    /\ incoming \in Seq(Up) /\ Len(incoming) <= InCap /\ read \in Seq(Up)
    /\ lost \subseteq Down

(* What Receive returns comes in the order of Write and never twice, whatever *)
(* polls are lost, abandoned or overtaken: messages may only be missing.      *)
InOrderOnce ==
    \A m, n \in DOMAIN received : m < n => Body(received[m]) < Body(received[n])

(* A Send that returned nil has put its message into the server's queue, once *)
(* and for good; one that reported an error may have done so as well.         *)
AckedOnce ==
    LET arrived == read \o incoming IN
    /\ \A m, n \in DOMAIN arrived : arrived[m] = arrived[n] => m = n
    /\ \A m \in acked : \E n \in DOMAIN arrived : arrived[n] = m

(* Each direction is a pipe that may lose messages and never repeats one.     *)
(* The server's messages also keep their order on their way through reply,    *)
(* hand and queue; the client's may overtake each other, as a request that    *)
(* Send has given up can be handled after a later one.                        *)
DownPipe == INSTANCE LossyPipe WITH
    accepted <- nextDown - 1,
    transit <- Bodies(queue) \cup Bodies(hand) \cup Bodies(reply)
                 \cup {pending[n] : n \in DOMAIN pending},
    delivered <- [n \in DOMAIN received |-> Body(received[n])],
    ordered <- TRUE

UpPipe == INSTANCE LossyPipe WITH
    accepted <- nextUp - 1,
    transit <- {m \in Up : up[m] \in {"sent", "reading"}}
                 \cup {incoming[n] : n \in DOMAIN incoming},
    delivered <- read,
    ordered <- FALSE

PipesSpec == DownPipe!Spec /\ UpPipe!Spec

(* An acknowledged message reaches the socket, even when the session is       *)
(* closed or removed before the receive loop has read it.                     *)
AckedIsRead ==
    \A m \in Numbers : m \in acked ~> \E n \in DOMAIN read : read[n] = m

(* A written message does not stay with the server for ever: it is received,  *)
(* or dropped with a reply, unless one side closes.  Polls that fail do not   *)
(* stop the poll goroutine.                                                   *)
WrittenLeaves ==
    \A m \in Numbers :
        (\E n \in DOMAIN pending : pending[n] = m)
            ~> \/ \E n \in DOMAIN received : Body(received[n]) = m
               \/ m \in lost \/ sclosed \/ cancelled \/ conn = "failed"
===============================================================================
