-------------------------- MODULE WsServerTransport --------------------------
(***************************************************************************)
(* WebSocketServerTransport of socket/transport/server_transport.go.       *)
(*                                                                         *)
(* Three kinds of goroutines share one transport: its writePump, the       *)
(* receive loop that calls Read, and callers of Write and Close.  One      *)
(* action is one critical section of t.mu, one channel operation or one    *)
(* call on the websocket connection.  t.mu is held across a step only by   *)
(* the pump, while it is inside conn.WriteMessage; every other critical    *)
(* section is a single action that waits for that call to return.          *)
(*                                                                         *)
(* The websocket connection is external: WriteMessage succeeds or fails,   *)
(* ReadMessage returns a message or fails.  Payloads are distinct tokens.  *)
(***************************************************************************)
EXTENDS Naturals, Sequences

CONSTANTS
    Callers,   \* goroutines that call Write or Close on this transport
    Messages,  \* payloads, each written once
    Cap        \* WebSocketServerConfig.BufferSize

ASSUME CapAssumption == Cap \in Nat \ {0}

VARIABLES
    pc,        \* the next step of every goroutine
    sendCh,    \* the buffered channel between Write and the pump
    held,      \* the message a goroutine has in hand, as a sequence of length <= 1
    closed,    \* t.closed; closeCh is closed in the same critical section
    connClosed,\* conn.Close has been called
    wire,      \* what WriteMessage put on the connection
    accepted,  \* history: what sendCh took over
    unsent     \* payloads not written yet

vars == <<pc, sendCh, held, closed, connClosed, wire, accepted, unsent>>

Pump == "pump"
Reader == "reader"
Procs == {Pump, Reader} \cup Callers
Labels == {"idle", "enqueue", "select", "lock", "write", "read", "close", "wait",
           "conn", "done"}

ASSUME ProcsAssumption == Callers \cap {Pump, Reader} = {}

Goto(p, label) == pc' = [pc EXCEPT ![p] = label]
Hold(p, s) == held' = [held EXCEPT ![p] = s]

\* The pump holds t.mu exactly while it is inside WriteMessage.
MuFree == pc[Pump] # "write"

------------------------------------------------------------------------------
(* Close, for whichever goroutine calls it. *)

\* Where Close returns to: the pump and Read return at once, a caller goes on.
AfterClose(p) == IF p \in {Pump, Reader} THEN "done" ELSE "idle"

\* Mutant: the early return of an already closed transport is missing.
CloseAgain(p) ==
    /\ pc[p] = "close"
    /\ MuFree
    /\ Goto(p, "wait")
    /\ closed' = TRUE
    /\ UNCHANGED <<sendCh, held, connClosed, wire, accepted, unsent>>

\* The first caller sets the flag, closes closeCh and sends the close frame.
Close(p) ==
    /\ pc[p] = "close"
    /\ MuFree
    /\ IF closed THEN Goto(p, AfterClose(p)) ELSE Goto(p, "wait")
    /\ closed' = TRUE
    /\ UNCHANGED <<sendCh, held, connClosed, wire, accepted, unsent>>

\* Mutant: the connection is closed without waiting for the pump.
DontWaitForPump(p) ==
    /\ pc[p] = "wait"
    /\ Goto(p, "conn")
    /\ UNCHANGED <<sendCh, held, closed, connClosed, wire, accepted, unsent>>

\* writeWg.Wait: the pump's Done is deferred to its return.
WaitForPump(p) ==
    /\ pc[p] = "wait"
    /\ pc[Pump] = "done"
    /\ Goto(p, "conn")
    /\ UNCHANGED <<sendCh, held, closed, connClosed, wire, accepted, unsent>>

CloseConn(p) ==
    /\ pc[p] = "conn"
    /\ connClosed' = TRUE
    /\ Goto(p, AfterClose(p))
    /\ UNCHANGED <<sendCh, held, closed, wire, accepted, unsent>>

------------------------------------------------------------------------------
(* writePump. *)

\* Mutant: the pump waits for messages only.
PumpSelectNoClose ==
    /\ pc[Pump] = "select"
    /\ sendCh # <<>>
    /\ Goto(Pump, "lock")
    /\ Hold(Pump, <<Head(sendCh)>>)
    /\ sendCh' = Tail(sendCh)
    /\ UNCHANGED <<closed, connClosed, wire, accepted, unsent>>

\* The select: with both channels ready Go picks either one.
PumpSelect ==
    /\ pc[Pump] = "select"
    /\ \/ closed /\ Goto(Pump, "done") /\ UNCHANGED <<sendCh, held>>
       \/ /\ sendCh # <<>>
          /\ Goto(Pump, "lock")
          /\ Hold(Pump, <<Head(sendCh)>>)
          /\ sendCh' = Tail(sendCh)
    /\ UNCHANGED <<closed, connClosed, wire, accepted, unsent>>

\* t.mu.Lock and the test of t.closed: a closed transport drops the message.
PumpLock ==
    /\ pc[Pump] = "lock"
    /\ IF closed THEN Goto(Pump, "done") /\ Hold(Pump, <<>>)
                 ELSE Goto(Pump, "write") /\ UNCHANGED held
    /\ UNCHANGED <<sendCh, closed, connClosed, wire, accepted, unsent>>

\* WriteMessage returns: the peer got the message, or the deadline passed or
\* the connection broke, which makes the pump close the transport.
PumpWrite ==
    /\ pc[Pump] = "write"
    /\ Hold(Pump, <<>>)
    /\ \/ Goto(Pump, "select") /\ wire' = wire \o held[Pump]
       \/ Goto(Pump, "close") /\ UNCHANGED wire
    /\ UNCHANGED <<sendCh, closed, connClosed, accepted, unsent>>

------------------------------------------------------------------------------
(* Read, called by the receive loop until it fails. *)

\* The peer left, the connection was closed, or the read deadline set at
\* construction (and never renewed) has passed.
ReadError ==
    /\ pc[Reader] = "read"
    /\ Goto(Reader, "close")
    /\ UNCHANGED <<sendCh, held, closed, connClosed, wire, accepted, unsent>>

------------------------------------------------------------------------------
(* Write, and Close called from outside. *)

\* The test of t.closed: a message for a closed transport is dropped silently.
Write(c, m) ==
    /\ pc[c] = "idle" /\ MuFree
    /\ unsent' = unsent \ {m}
    /\ IF closed THEN UNCHANGED <<pc, held>>
                 ELSE Goto(c, "enqueue") /\ Hold(c, <<m>>)
    /\ UNCHANGED <<sendCh, closed, connClosed, wire, accepted>>

\* Mutant: the newest message displaces the oldest one of a full buffer.
EnqueueDropOldest(c) ==
    /\ pc[c] = "enqueue"
    /\ Hold(c, <<>>)
    /\ sendCh' = (IF Len(sendCh) < Cap THEN sendCh ELSE Tail(sendCh)) \o held[c]
    /\ accepted' = accepted \o held[c]
    /\ Goto(c, "idle")
    /\ UNCHANGED <<closed, connClosed, wire, unsent>>

\* The non-blocking send, after t.mu was released: a full buffer drops the
\* message and closes the transport.
Enqueue(c) ==
    /\ pc[c] = "enqueue"
    /\ Hold(c, <<>>)
    /\ IF Len(sendCh) < Cap
       THEN /\ sendCh' = sendCh \o held[c]
            /\ accepted' = accepted \o held[c]
            /\ Goto(c, "idle")
       ELSE Goto(c, "close") /\ UNCHANGED <<sendCh, accepted>>
    /\ UNCHANGED <<closed, connClosed, wire, unsent>>

CallClose(c) ==
    /\ pc[c] = "idle"
    /\ Goto(c, "close")
    /\ UNCHANGED <<sendCh, held, closed, connClosed, wire, accepted, unsent>>

------------------------------------------------------------------------------
\* NewWebSocketServerTransport: the pump runs, and the receive loop reads.
Init ==
    /\ pc = [p \in Procs |-> IF p = Pump THEN "select"
                             ELSE IF p = Reader THEN "read" ELSE "idle"]
    /\ sendCh = <<>>
    /\ held = [p \in Procs |-> <<>>]
    /\ closed = FALSE
    /\ connClosed = FALSE
    /\ wire = <<>>
    /\ accepted = <<>>
    /\ unsent = Messages

PumpStep == PumpSelect \/ PumpLock \/ PumpWrite
CloseStep(p) == Close(p) \/ WaitForPump(p) \/ CloseConn(p)

Next ==
    \/ PumpStep \/ ReadError
    \/ \E p \in Procs : CloseStep(p)
    \/ \E c \in Callers : Enqueue(c) \/ CallClose(c) \/ \E m \in unsent : Write(c, m)

\* A goroutine that can move does; WriteMessage returns within writeTimeout.
\* Nobody is obliged to write, to close, or to hang up.
Fairness ==
    /\ WF_vars(PumpStep)
    /\ \A p \in Procs : WF_vars(CloseStep(p))
    /\ \A c \in Callers : WF_vars(Enqueue(c))

Spec == Init /\ [][Next]_vars /\ Fairness

------------------------------------------------------------------------------
(* The transport's fields hold values of the code's types, and sendCh never  *)
(* holds more than its BufferSize.                                           *)
TypeOK ==
    /\ pc \in [Procs -> Labels]
    /\ sendCh \in Seq(Messages) /\ Len(sendCh) <= Cap
    /\ held \in [Procs -> {<<>>} \cup {<<m>> : m \in Messages}]
    /\ closed \in BOOLEAN /\ connClosed \in BOOLEAN
    /\ wire \in Seq(Messages) /\ accepted \in Seq(Messages)
    /\ unsent \in SUBSET Messages

\* The goroutine is past Close's test of t.closed.
Closing(p) == pc[p] \in {"wait", "conn"}

(* At most one goroutine ever gets past Close's test of t.closed: closeCh is *)
(* closed once (a second close would panic), one close frame is sent and one *)
(* goroutine owns the connection's shutdown.                                 *)
SingleCloser ==
    /\ \A p, q \in Procs : Closing(p) /\ Closing(q) => p = q
    /\ connClosed => \A p \in Procs : ~Closing(p)

(* The connection is not closed under a pump that could still write to it:   *)
(* what writeWg is there for.                                                *)
ConnClosedAfterPump ==
    connClosed \/ (\E p \in Procs : pc[p] = "conn") => pc[Pump] = "done"

(* The messages Write accepted reach the connection in order, without gaps   *)
(* or repetitions, nothing follows the close, and while the transport stays  *)
(* open the pump keeps delivering.                                           *)
Pipe == INSTANCE OrderedPipe WITH delivered <- wire, open <- ~closed
PipeSpec == Pipe!Spec

(* A Close called by anybody but the pump runs to its end: the pump notices, *)
(* whatever it is doing, and the connection is closed.                       *)
CloseCompletes ==
    (\E p \in Procs \ {Pump} : pc[p] = "wait") ~> connClosed
==============================================================================
