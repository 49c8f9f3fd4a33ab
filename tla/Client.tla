-------------------------------- MODULE Client --------------------------------
(***************************************************************************)
(* Client of socket/client.go on the WebSocketTransport of                 *)
(* socket/transport/websocket.go.                                          *)
(*                                                                         *)
(* Every section under the client's mutex c.mu takes it in one step and    *)
(* unlocks it in a later one; what only reads under it is one step.  An    *)
(* Unlock does not ask who holds the mutex: with nobody in it, it is a     *)
(* fatal error of the runtime, otherwise it lets others into a section     *)
(* that is still in use.  Connect unlocks c.mu itself and once more in its *)
(* defer.  A Join or Leave of a connected client waits for itself.         *)
(*                                                                         *)
(* Every Connect that gets through starts a set of loops, numbered in that *)
(* order, and a disconnect a reconnect goroutine.  With batchSize > 1      *)
(* batchProcessingLoop writes the messages, otherwise sendLoop; the other  *)
(* loop has nothing to do and is left out.                                 *)
(*                                                                         *)
(* The websocket connection is external: errors of a connection are final  *)
(* for the direction they occur in.  Messages are numbered as Send accepts *)
(* them.                                                                   *)
(***************************************************************************)
EXTENDS Integers, Sequences, SequencesExt, FiniteSets

CONSTANTS
    Callers,      \* goroutines of the application
    Calls,        \* the calls it makes besides Connect
    Connects,     \* bound on Connects that get through, and on disconnects
    MaxMessages,  \* bound on accepted messages
    BufferSize,   \* capacity of messageBufferCh and sendCh
    BatchSizes,   \* values of WithBatchSend to choose from
    Attempts,     \* reconnectAttempts; 0 turns reconnecting off
    None

Sets == 1..Connects
Reconnect(k) == <<"reconnect", k>>
Writer(k) == <<"writer", k>>
Receiver(k) == <<"receiver", k>>

Reconnects == {Reconnect(k) : k \in Sets}
Writers == {Writer(k) : k \in Sets}
Receivers == {Receiver(k) : k \in Sets}
Threads == Callers \cup Reconnects
Loops == Writers \cup Receivers
Goroutines == Threads \cup Loops

ASSUME ClientAssumption ==
    /\ Calls \subseteq {"send", "handlers", "rooms", "close"}
    /\ Connects \in Nat /\ MaxMessages \in Nat /\ BufferSize \in Nat \ {0}
    /\ BatchSizes \subseteq Nat \ {0} /\ Attempts \in Nat
    /\ Callers \cap (Reconnects \cup Loops) = {} /\ None \notin Goroutines

VARIABLES
    crashed,    \* the program has ended: "unlock" or "nil", else "no"
    mu,         \* the goroutine whose Lock of c.mu is in force
    doubled,    \* history: second Unlocks that found c.mu locked
    torn,       \* history: c.mu was unlocked between a test of connected and its change
    connected,  \* Client.connected
    cancelled,  \* Client.ctx is cancelled
    connects,   \* history: Connects that got through
    reports,    \* history: disconnects that handleDisconnect acted on
    pc,         \* where every goroutine is
    rooms,      \* whether Client.rooms has a room
    rejoin,     \* Connect: who found one
    attempts,   \* reconnect: attempts made
    batchSize,  \* Client.batchSize
    buffer,     \* messageBufferCh, or sendCh
    accepted,   \* number of messages Send has accepted
    batch,      \* messages a writing loop has taken from the buffer
    started,    \* history: sets of loops that were started
    open,       \* WebSocketTransport.connected, and conn # nil
    readErr,    \* reading from conn fails
    writeErr,   \* writing to conn fails
    wire        \* history: messages written to connections

lockVars == <<crashed, mu, doubled, torn>>
stateVars == <<connected, cancelled, connects, reports>>
threadVars == <<rooms, rejoin, attempts>>
sendVars == <<buffer, accepted>>
loopVars == <<batch, started>>
connVars == <<open, readErr, writeErr, wire>>
vars == <<lockVars, stateVars, pc, threadVars, batchSize, sendVars, loopVars, connVars>>

Init ==
    /\ crashed = "no" /\ mu = None /\ doubled = 0 /\ torn = FALSE
    /\ connected = FALSE /\ cancelled = FALSE /\ connects = 0 /\ reports = 0
    /\ pc = [g \in Goroutines |-> IF g \in Callers THEN "idle" ELSE "off"]
    /\ rooms = FALSE /\ rejoin = {}
    /\ attempts = [t \in Reconnects |-> 0]
    /\ batchSize \in BatchSizes
    /\ buffer = <<>> /\ accepted = 0
    /\ batch = [k \in Sets |-> <<>>] /\ started = 0
    /\ open = FALSE /\ readErr = FALSE /\ writeErr = FALSE /\ wire = <<>>

GoTo(g, where) == pc' = [pc EXCEPT ![g] = where]

------------------------------------------------------------------------------
(* The mutex c.mu. *)

\* In a section that has tested connected and not yet done what it is to do.
Midway == {"dial", "dialled", "cancel", "closing", "acting"}

\* In a section under c.mu.
Inside == {g \in Goroutines : pc[g] \in Midway \cup {"up", "send", "down", "unlock"}}

Lock(g) ==
    /\ mu = None /\ mu' = g
    /\ UNCHANGED <<crashed, doubled, torn>>

Unlock(g) ==
    /\ crashed' = IF mu = None THEN "unlock" ELSE crashed
    /\ mu' = None
    /\ torn' = (torn \/ (mu \notin {None, g} /\ pc[mu] \in Midway))

\* A read lock, for a section of one step.
RLock == mu = None /\ UNCHANGED lockVars

\* Where a goroutine is after a section that has nothing left to do.
Back(g) == CASE g \in Callers -> "idle"
             [] g \in Writers /\ batchSize > 1 -> "select"
             [] OTHER -> "ended"

Unlocks(g) ==
    /\ pc[g] = "unlock"
    /\ Unlock(g) /\ GoTo(g, Back(g))
    /\ UNCHANGED <<doubled, stateVars, threadVars, batchSize, sendVars, loopVars, connVars>>

------------------------------------------------------------------------------
(* Client.Connect, called by the application or by reconnect. *)

\* A connected client is left as it is, with one Unlock.
ConnectAgain(t) ==
    /\ pc[t] \in {"idle", "connect"} /\ Lock(t)
    /\ connected
    /\ GoTo(t, "unlock")
    /\ UNCHANGED <<stateVars, threadVars, batchSize, sendVars, loopVars, connVars>>

Connect(t) ==
    /\ pc[t] \in {"idle", "connect"} /\ Lock(t)
    /\ ~connected /\ connects < Connects
    /\ rejoin' = IF rooms THEN rejoin \cup {t} ELSE rejoin \ {t}
    /\ GoTo(t, "dial")
    /\ UNCHANGED <<stateVars, rooms, attempts, batchSize, sendVars, loopVars, connVars>>

\* Mutant: the handshake does not use the client's context.
DialsAnyway == TRUE

\* DialContext succeeds on a context that is not cancelled, if the server answers.
Dials == ~cancelled

\* WebSocketTransport.Connect returns nil: it has dialled, or it is connected
\* as far as it knows.
ConnectDials(t) ==
    /\ pc[t] = "dial"
    /\ open \/ Dials
    /\ open' = TRUE
    /\ IF open THEN UNCHANGED <<readErr, writeErr>> ELSE readErr' = FALSE /\ writeErr' = FALSE
    /\ GoTo(t, "dialled")
    /\ UNCHANGED <<lockVars, stateVars, threadVars, batchSize, sendVars, loopVars, wire>>

\* The dial fails: Unlock, and the error is returned through the defer.
ConnectFails(t) ==
    /\ pc[t] = "dial" /\ ~open
    /\ Unlock(t) /\ GoTo(t, "failed")
    /\ rejoin' = rejoin \ {t}
    /\ UNCHANGED <<doubled, stateVars, rooms, attempts, batchSize, sendVars, loopVars, connVars>>

ConnectSucceeds(t) ==
    /\ pc[t] = "dialled" /\ connects < Connects
    /\ connected' = TRUE
    /\ connects' = connects + 1
    /\ GoTo(t, "up")
    /\ UNCHANGED <<lockVars, cancelled, reports, threadVars, batchSize, sendVars, loopVars, connVars>>

\* Unlock, and the loops start.
ConnectStarts(t) ==
    /\ pc[t] = "up" /\ started < Connects
    /\ Unlock(t)
    /\ started' = started + 1
    /\ pc' = [pc EXCEPT ![t] = IF t \in rejoin THEN "rejoin" ELSE "defer",
                        ![Writer(started + 1)] = "select",
                        ![Receiver(started + 1)] = "call"]
    /\ UNCHANGED <<doubled, stateVars, threadVars, batchSize, sendVars, batch, connVars>>

\* Client.Send's test and its select.
Accepts == connected /\ Len(buffer) < BufferSize /\ accepted < MaxMessages

Accept ==
    IF Accepts THEN buffer' = Append(buffer, accepted + 1) /\ accepted' = accepted + 1
               ELSE UNCHANGED sendVars

\* The rooms are joined again.
Rejoin(t) ==
    /\ pc[t] = "rejoin" /\ RLock
    /\ Accept
    /\ rejoin' = rejoin \ {t}
    /\ GoTo(t, "defer")
    /\ UNCHANGED <<stateVars, rooms, attempts, batchSize, loopVars, connVars>>

\* The deferred second Unlock.  A reconnect that failed counts the attempt.
ConnectReturns(t) ==
    /\ pc[t] \in {"defer", "failed"}
    /\ Unlock(t)
    /\ doubled' = doubled + (IF mu = None THEN 0 ELSE 1)
    /\ GoTo(t, IF t \in Reconnects /\ pc[t] = "failed" THEN "wait" ELSE Back(t))
    /\ attempts' = IF t \in Reconnects /\ pc[t] = "failed"
                   THEN [attempts EXCEPT ![t] = @ + 1] ELSE attempts
    /\ UNCHANGED <<stateVars, rooms, rejoin, batchSize, sendVars, loopVars, connVars>>

------------------------------------------------------------------------------
(* The other calls of the application. *)

Send(t) ==
    /\ "send" \in Calls /\ pc[t] = "idle" /\ RLock
    /\ Accepts /\ Accept
    /\ UNCHANGED <<stateVars, pc, threadVars, batchSize, loopVars, connVars>>

\* On and Off.
OnOrOff(t) ==
    /\ "handlers" \in Calls /\ pc[t] = "idle" /\ Lock(t)
    /\ GoTo(t, "unlock")
    /\ UNCHANGED <<stateVars, threadVars, batchSize, sendVars, loopVars, connVars>>

\* Join and Leave, up to their call of Send.
JoinOrLeave(t, joined) ==
    /\ "rooms" \in Calls /\ pc[t] = "idle" /\ Lock(t)
    /\ rooms' = joined
    /\ GoTo(t, IF connected THEN "send" ELSE "unlock")
    /\ UNCHANGED <<stateVars, rejoin, attempts, batchSize, sendVars, loopVars, connVars>>

\* Their Send gets its read lock only if somebody else has unlocked c.mu.
JoinSends(t) ==
    /\ pc[t] = "send" /\ RLock
    /\ Accept
    /\ GoTo(t, "unlock")
    /\ UNCHANGED <<stateVars, threadVars, batchSize, loopVars, connVars>>

\* Close of a client that is not connected stops nothing.
Close(t) ==
    /\ "close" \in Calls /\ pc[t] = "idle" /\ Lock(t)
    /\ GoTo(t, IF connected THEN "cancel" ELSE "unlock")
    /\ UNCHANGED <<stateVars, threadVars, batchSize, sendVars, loopVars, connVars>>

CloseCancels(t) ==
    /\ pc[t] = "cancel"
    /\ cancelled' = TRUE /\ connected' = FALSE
    /\ GoTo(t, "closing")
    /\ UNCHANGED <<lockVars, connects, reports, threadVars, batchSize, sendVars, loopVars, connVars>>

\* WebSocketTransport.Close.
CloseCloses(t) ==
    /\ pc[t] = "closing"
    /\ open' = FALSE
    /\ GoTo(t, "unlock")
    /\ UNCHANGED <<lockVars, stateVars, threadVars, batchSize, sendVars, loopVars,
                   readErr, writeErr, wire>>

------------------------------------------------------------------------------
(* handleDisconnect and reconnect. *)

\* Mutant: connected is not tested.
ActsAlways == TRUE

\* handleDisconnect acts on the first report of a connection only.
Acts == connected

\* Mutant: the early return leaves c.mu locked.
HandleDisconnectKeepsLock(g) ==
    /\ pc[g] = "report" /\ Lock(g)
    /\ GoTo(g, IF Acts THEN "acting" ELSE Back(g))
    /\ UNCHANGED <<stateVars, threadVars, batchSize, sendVars, loopVars, connVars>>

HandleDisconnect(g) ==
    /\ pc[g] = "report" /\ Lock(g)
    /\ GoTo(g, IF Acts THEN "acting" ELSE "unlock")
    /\ UNCHANGED <<stateVars, threadVars, batchSize, sendVars, loopVars, connVars>>

\* The transport stays as it is.
Disconnects(g) ==
    /\ pc[g] = "acting" /\ reports < Connects
    /\ connected' = FALSE
    /\ reports' = reports + 1
    /\ GoTo(g, "down")
    /\ UNCHANGED <<lockVars, cancelled, connects, threadVars, batchSize, sendVars, loopVars, connVars>>

DisconnectUnlocks(g) ==
    /\ pc[g] = "down"
    /\ Unlock(g) /\ GoTo(g, "trigger")
    /\ UNCHANGED <<doubled, stateVars, threadVars, batchSize, sendVars, loopVars, connVars>>

\* The reconnect goroutines that have not been used.
Unused == {r \in Reconnects : pc[r] = "off"}

\* The handlers of "disconnect" are looked up, and a reconnect starts.
DisconnectTriggers(g) ==
    /\ pc[g] = "trigger" /\ RLock
    /\ IF Attempts = 0 THEN GoTo(g, Back(g))
       ELSE /\ Unused # {}
            /\ pc' = [pc EXCEPT ![g] = Back(g), ![CHOOSE r \in Unused : TRUE] = "wait"]
    /\ UNCHANGED <<stateVars, threadVars, batchSize, sendVars, loopVars, connVars>>

\* The delay is over.
ReconnectTries(t) ==
    /\ pc[t] = "wait" /\ attempts[t] < Attempts
    /\ GoTo(t, "connect")
    /\ UNCHANGED <<lockVars, stateVars, threadVars, batchSize, sendVars, loopVars, connVars>>

ReconnectEnds(t) ==
    /\ pc[t] = "wait"
    /\ cancelled \/ attempts[t] = Attempts
    /\ GoTo(t, "ended")
    /\ UNCHANGED <<lockVars, stateVars, threadVars, batchSize, sendVars, loopVars, connVars>>

------------------------------------------------------------------------------
(* sendLoop, batchProcessingLoop and WebSocketTransport.Send, BatchSend. *)

WriterTakes(k) ==
    /\ pc[Writer(k)] = "select" /\ buffer # <<>>
    /\ buffer' = Tail(buffer)
    /\ batch' = [batch EXCEPT ![k] = Append(@, Head(buffer))]
    /\ GoTo(Writer(k), IF Len(batch[k]) + 1 >= batchSize THEN "write" ELSE "select")
    /\ UNCHANGED <<lockVars, stateVars, threadVars, batchSize, accepted, started, connVars>>

\* The batch interval is over.
BatchTick(k) ==
    /\ pc[Writer(k)] = "select" /\ batch[k] # <<>>
    /\ GoTo(Writer(k), "write")
    /\ UNCHANGED <<lockVars, stateVars, threadVars, batchSize, sendVars, loopVars, connVars>>

\* A message is no JSON: an "error" event is triggered and the message dropped.
WriterDrops(k, i) ==
    /\ pc[Writer(k)] = "write" /\ i \in DOMAIN batch[k] /\ RLock
    /\ batch' = [batch EXCEPT ![k] = RemoveAt(@, i)]
    /\ GoTo(Writer(k), IF Len(batch[k]) = 1 THEN "select" ELSE "write")
    /\ UNCHANGED <<stateVars, threadVars, batchSize, sendVars, started, connVars>>

\* Mutant: the batch is not made anew.
WriterWritesAgain(k) ==
    /\ pc[Writer(k)] = "write"
    /\ open /\ ~writeErr
    /\ wire' = wire \o batch[k]
    /\ GoTo(Writer(k), "select")
    /\ UNCHANGED <<lockVars, stateVars, threadVars, batchSize, sendVars, loopVars,
                   open, readErr, writeErr>>

WriterWrites(k) ==
    /\ pc[Writer(k)] = "write"
    /\ open /\ ~writeErr
    /\ wire' = wire \o batch[k]
    /\ batch' = [batch EXCEPT ![k] = <<>>]
    /\ GoTo(Writer(k), "select")
    /\ UNCHANGED <<lockVars, stateVars, threadVars, batchSize, sendVars, started,
                   open, readErr, writeErr>>

\* Mutant: the batch that failed is kept and tried again.
WriterFailsRetries(k, n) ==
    /\ pc[Writer(k)] = "write"
    /\ n < Len(batch[k])
    /\ (~open \/ writeErr) => n = 0
    /\ wire' = wire \o SubSeq(batch[k], 1, n)
    /\ writeErr' = (writeErr \/ open)
    /\ GoTo(Writer(k), "report")
    /\ UNCHANGED <<lockVars, stateVars, threadVars, batchSize, sendVars, loopVars, open, readErr>>

\* The transport is not connected, or the connection fails after n messages;
\* the batch is not used again.  After the report sendLoop returns, and
\* batchProcessingLoop goes on.
WriterFails(k, n) ==
    /\ pc[Writer(k)] = "write"
    /\ n < Len(batch[k])
    /\ (~open \/ writeErr) => n = 0
    /\ wire' = wire \o SubSeq(batch[k], 1, n)
    /\ writeErr' = (writeErr \/ open)
    /\ batch' = [batch EXCEPT ![k] = <<>>]
    /\ GoTo(Writer(k), "report")
    /\ UNCHANGED <<lockVars, stateVars, threadVars, batchSize, sendVars, started, open, readErr>>

\* ctx.Done: what is in the batch or the buffer is dropped.
WriterEnds(k) ==
    /\ pc[Writer(k)] = "select" /\ cancelled
    /\ batch' = [batch EXCEPT ![k] = <<>>]
    /\ GoTo(Writer(k), "ended")
    /\ UNCHANGED <<lockVars, stateVars, threadVars, batchSize, sendVars, started, connVars>>

------------------------------------------------------------------------------
(* receiveLoop and WebSocketTransport.Receive. *)

ReceiveTest(k) ==
    /\ pc[Receiver(k)] = "call"
    /\ GoTo(Receiver(k), IF open THEN "tested" ELSE "report")
    /\ UNCHANGED <<lockVars, stateVars, threadVars, batchSize, sendVars, loopVars, connVars>>

\* t.conn is read again after t.mu was unlocked, and may be nil by now.
ReceiveUnlocked(k) ==
    /\ pc[Receiver(k)] = "tested"
    /\ GoTo(Receiver(k), "read")
    /\ crashed' = IF open THEN "no" ELSE "nil"
    /\ UNCHANGED <<mu, doubled, torn, stateVars, threadVars, batchSize, sendVars, loopVars, connVars>>

\* A message: triggerEvent looks its handlers up under c.mu and starts them.
ReceiveMessage(k) ==
    /\ pc[Receiver(k)] = "read" /\ open /\ ~readErr
    /\ RLock
    /\ GoTo(Receiver(k), "call")
    /\ UNCHANGED <<stateVars, threadVars, batchSize, sendVars, loopVars, connVars>>

\* The deadline, the peer, the network or Close ends the read.
ReceiveFails(k) ==
    /\ pc[Receiver(k)] = "read"
    /\ readErr' = TRUE
    /\ GoTo(Receiver(k), "report")
    /\ UNCHANGED <<lockVars, stateVars, threadVars, batchSize, sendVars, loopVars,
                   open, writeErr, wire>>

------------------------------------------------------------------------------
\* What the application may do next: another call.
Calling(t) ==
    \/ ConnectAgain(t) \/ Connect(t) \/ Send(t) \/ OnOrOff(t) \/ Close(t)
    \/ \E joined \in BOOLEAN : JoinOrLeave(t, joined)

\* The rest of a call.
Returning(t) ==
    \/ ConnectDials(t) \/ ConnectFails(t) \/ ConnectSucceeds(t) \/ ConnectStarts(t)
    \/ Rejoin(t) \/ ConnectReturns(t)
    \/ JoinSends(t) \/ CloseCancels(t) \/ CloseCloses(t) \/ Unlocks(t)

Reconnecting(t) ==
    \/ ReconnectTries(t) \/ ReconnectEnds(t) \/ ConnectAgain(t) \/ Connect(t) \/ Returning(t)

Reporting(g) ==
    HandleDisconnect(g) \/ Disconnects(g) \/ DisconnectUnlocks(g) \/ DisconnectTriggers(g) \/ Unlocks(g)

Writing(k) ==
    \/ WriterTakes(k) \/ BatchTick(k) \/ WriterWrites(k) \/ WriterEnds(k)
    \/ \E i \in 1..MaxMessages : WriterDrops(k, i)
    \/ \E n \in 0..MaxMessages : WriterFails(k, n)
    \/ Reporting(Writer(k))

Receiving(k) ==
    \/ ReceiveTest(k) \/ ReceiveUnlocked(k) \/ ReceiveMessage(k) \/ ReceiveFails(k)
    \/ Reporting(Receiver(k))

Next ==
    /\ crashed = "no"
    /\ \/ \E t \in Callers : Calling(t) \/ Returning(t)
       \/ \E t \in Reconnects : Reconnecting(t)
       \/ \E k \in Sets : Writing(k) \/ Receiving(k)

Spec == Init /\ [][Next]_vars

------------------------------------------------------------------------------
(* Properties. *)

ThreadPlaces == {"idle", "off", "wait", "connect", "dial", "dialled", "up", "rejoin", "defer",
                 "failed", "send", "cancel", "closing", "unlock", "ended"}
LoopPlaces == {"off", "select", "write", "call", "tested", "read",
               "report", "acting", "down", "trigger", "unlock", "ended"}

\* Fields, locals and channels are of the code's types.
TypeOK ==
    /\ crashed \in {"no", "unlock", "nil"} /\ mu \in Goroutines \cup {None}
    /\ doubled \in Nat
    /\ {torn, connected, cancelled, rooms, open, readErr, writeErr} \subseteq BOOLEAN
    /\ {connects, reports, started} \subseteq 0..Connects
    /\ pc \in [Goroutines -> ThreadPlaces \cup LoopPlaces]
    /\ rejoin \subseteq Threads
    /\ attempts \in [Reconnects -> 0..Attempts]
    /\ batchSize \in BatchSizes
    /\ buffer \in Seq(1..MaxMessages) /\ Len(buffer) <= BufferSize
    /\ accepted \in 0..MaxMessages
    /\ batch \in [Sets -> Seq(1..MaxMessages)]
    /\ wire \in Seq(1..MaxMessages)

\* No message is written twice, and as long as there is one set of loops the
\* messages are written in the order in which Send accepted them.
WrittenInOrder ==
    /\ IsInjective(wire)
    /\ started <= 1 => \A m, n \in DOMAIN wire : m < n => wire[m] < wire[n]

\* From Send to the connection the client is a pipe that may lose messages and
\* never repeats one; it keeps their order until a second set of loops starts.
Pipe == INSTANCE LossyPipe WITH
    transit <- ToSet(buffer) \cup UNION {ToSet(batch[k]) : k \in Sets},
    delivered <- wire,
    ordered <- started <= 1
PipeSpec == Pipe!Spec

\* Every Connect that got through is ended by one disconnect that
\* handleDisconnect acts on or by a Close, never by both and never twice,
\* although three loops and Close compete for it.  Void once the second Unlock
\* of some Connect has taken c.mu from a goroutine between its test of
\* connected and its change; the Unlock itself, a crash and goroutines let into
\* any other section do not void it.
EndsAccounted ==
    torn \/ connects = reports + (IF connected THEN 1 ELSE 0) + (IF cancelled THEN 1 ELSE 0)

\* A Close that found the client connected is final: its connection is open
\* until that Close has closed it and no Connect or reconnect, also one that is
\* past its delay or dialling, opens another, whatever second Unlocks have
\* done; and none sets connected again unless c.mu was taken from it halfway.
ClosedIsFinal ==
    cancelled => /\ open => \E t \in Callers : pc[t] = "closing"
                 /\ connected => torn

\* The mutex is never left locked by a goroutine that has gone on, on none of
\* the returns of any call; and there are no more goroutines in a section than
\* the one that holds it and one for each second Unlock of a Connect that did
\* not end the program, so only that Unlock lets two in.
LockAccounted ==
    /\ mu # None => mu \in Inside
    /\ crashed # "unlock" => Cardinality(Inside) = doubled + (IF mu = None THEN 0 ELSE 1)
==============================================================================
