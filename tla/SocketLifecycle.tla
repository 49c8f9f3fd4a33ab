--------------------------- MODULE SocketLifecycle ---------------------------
(***************************************************************************)
(* The life of a server-side socket: Server of socket/server.go with       *)
(* socketImpl of socket/socket_impl.go, from the HTTP request that creates *)
(* it to its last trace in the registry.                                   *)
(*                                                                         *)
(* For every socket there is a goroutine that sets it up, a receive loop,  *)
(* any number of Close calls, and one goroutine per handler a trigger of   *)
(* its disconnect event finds.  One action is one critical section of      *)
(* Server.mu or socketImpl.mu, or one transport call.  Server.mu is held   *)
(* across steps only by cleanupSessions, which closes an expired session   *)
(* under it.  Socket ids are never reused.                                 *)
(*                                                                         *)
(* Rooms (module Rooms) are reduced to whether the socket is in any; the   *)
(* transports to whether they are closed and whether a Read fails.         *)
(* Clients send one event of their own, for which the application has      *)
(* given the server a handler (HandleFunc) before it serves, and they may  *)
(* name the built-in event "disconnect", which the loop triggers like any  *)
(* other.  A panic of any goroutine ends the server: no step follows it.   *)
(***************************************************************************)
EXTENDS Naturals, FiniteSets

CONSTANTS
    Sockets,         \* socket ids
    MaxConcurrency,  \* capacity of concurrencySemaphore
    MaxDispatch,     \* bound: goroutines of a socket's message handler
    MaxNamed,        \* bound: messages of a client that name "disconnect"
    NoSocket

ASSUME LifecycleAssumption ==
    /\ NoSocket \notin Sockets
    /\ MaxConcurrency \in Nat /\ MaxDispatch \in Nat
    /\ MaxNamed \in Nat

VARIABLES
    kind,        \* the transport its request asked for
    stage,       \* progress of the goroutine that sets the socket up
    loop,        \* receiveLoop
    connected,   \* socketImpl.connected
    tclosed,     \* the transport has been closed
    closing,     \* progress of the Close call that found the socket connected
    callers,     \* Close calls about to begin
    hooks,       \* the server's handlers in socketImpl.handlers
    running,     \* goroutines running the cleanup handler, by their next step
    waking,      \* goroutines about to close disconnectChan
    woken,       \* how often disconnectChan has been closed
    sockets,     \* Server.sockets
    sessions,    \* Server.sessions
    slots,       \* tokens in concurrencySemaphore
    reaping,     \* the session cleanupSessions is closing under Server.mu
    joining,     \* Join found the socket and has not added it yet
    inRoom,      \* the socket is a member of a room
    connects,    \* EventConnect triggers
    disconnects, \* EventDisconnect triggers of the server
    down,        \* Shutdown has been called
    dispatching, \* goroutines running the socket's message handler
    crashed,     \* a handler has panicked
    named,       \* history: messages of the client that named "disconnect"
    off,         \* history: the application has called Off(EventDisconnect)
    missed,      \* history: a disconnect trigger found no cleanup handler
    late         \* history: the socket was added to a room after its removal

setupVars == <<kind, stage, slots, connects>>
closeVars == <<connected, closing, callers>>
hookVars == <<running, waking, missed>>
roomVars == <<joining, inRoom, late>>
appVars == <<dispatching, off>>
wireVars == <<named, crashed>>
vars == <<setupVars, closeVars, hookVars, roomVars, appVars, wireVars, loop, tclosed,
          hooks, woken, sockets, sessions, reaping, disconnects, down>>

Stages == {"absent", "handshake", "refused", "created", "registered", "routed",
           "guarded", "announced", "waiting", "done"}
Closers == {"app", "loop", "lp", "shutdown"}
CleanupSteps == {"delete", "leave", "fire"}

\* The goroutine that sets s up has come to stage st.
Enter(s, st) == stage' = [stage EXCEPT ![s] = st]

\* Server.mu can be taken.
ServerMu == reaping = NoSocket

------------------------------------------------------------------------------
(* HandleHTTP: tryWebSocketUpgrade and handleLongPollingConnect. *)

\* A token is taken, or the request is refused with 503.
TryUpgrade(s) ==
    /\ stage[s] = "absent"
    /\ kind' = [kind EXCEPT ![s] = "websocket"]
    /\ IF slots < MaxConcurrency
       THEN Enter(s, "handshake") /\ slots' = slots + 1
       ELSE Enter(s, "refused") /\ UNCHANGED slots
    /\ UNCHANGED <<wireVars, appVars, connects, closeVars, hookVars, roomVars,
                   loop, tclosed, hooks, woken, sockets, sessions, reaping,
                   disconnects, down>>

\* Upgrade succeeds and the transport, the socket and its receive loop start,
\* or it fails; the deferred release of the token runs either way.
Upgrade(s) ==
    /\ stage[s] = "handshake"
    /\ slots' = slots - 1
    /\ \/ /\ Enter(s, "created")
          /\ connected' = [connected EXCEPT ![s] = TRUE]
          /\ loop' = [loop EXCEPT ![s] = "reading"]
       \/ Enter(s, "refused") /\ UNCHANGED <<connected, loop>>
    /\ UNCHANGED <<wireVars, appVars, kind, connects, closing, callers,
                   hookVars, roomVars, tclosed, hooks, woken, sockets, sessions,
                   reaping, disconnects, down>>

\* A request that asked for no upgrade, or whose upgrade was refused or failed:
\* HandleHTTP then goes on to the long-polling endpoints.
LongPollingConnect(s) ==
    /\ stage[s] \in {"absent", "refused"} /\ ServerMu
    /\ kind' = [kind EXCEPT ![s] = "longpolling"]
    /\ Enter(s, "created")
    /\ connected' = [connected EXCEPT ![s] = TRUE]
    /\ loop' = [loop EXCEPT ![s] = "reading"]
    /\ sessions' = sessions \cup {s}
    /\ UNCHANGED <<wireVars, appVars, slots, connects, closing, callers,
                   hookVars, roomVars, tclosed, hooks, woken, sockets, reaping,
                   disconnects, down>>

------------------------------------------------------------------------------
(* handleSocket, then registerSocketAndWaitForDisconnect for long polling. *)

Register(s) ==
    /\ stage[s] = "created" /\ ServerMu
    /\ Enter(s, "registered")
    /\ sockets' = sockets \cup {s}
    /\ UNCHANGED <<wireVars, kind, slots, connects, closeVars, hookVars,
                   roomVars, loop, tclosed, hooks, woken, sessions, reaping,
                   disconnects, down, appVars>>

\* The events with server handlers are copied and routed to them.
RouteEvents(s) ==
    /\ stage[s] = "registered" /\ ServerMu
    /\ Enter(s, "routed")
    /\ hooks' = [hooks EXCEPT ![s] = @ \cup {"message"}]
    /\ UNCHANGED <<wireVars, appVars, kind, slots, connects, closeVars,
                   hookVars, roomVars, loop, tclosed, woken, sockets, sessions,
                   reaping, disconnects, down>>

\* On(EventDisconnect): the handler that unregisters the socket.
OnDisconnect(s) ==
    /\ stage[s] = "routed"
    /\ Enter(s, "guarded")
    /\ hooks' = [hooks EXCEPT ![s] = @ \cup {"cleanup"}]
    /\ UNCHANGED <<wireVars, appVars, kind, slots, connects, closeVars,
                   hookVars, roomVars, loop, tclosed, woken, sockets, sessions,
                   reaping, disconnects, down>>

TriggerConnect(s) ==
    /\ stage[s] = "guarded" /\ ServerMu
    /\ Enter(s, IF kind[s] = "longpolling" THEN "announced" ELSE "done")
    /\ connects' = [connects EXCEPT ![s] = @ + 1]
    /\ UNCHANGED <<wireVars, appVars, kind, slots, closeVars, hookVars,
                   roomVars, loop, tclosed, hooks, woken, sockets, sessions,
                   reaping, disconnects, down>>

\* On(EventDisconnect): the handler that closes disconnectChan.
OnDisconnectWake(s) ==
    /\ stage[s] = "announced"
    /\ Enter(s, "waiting")
    /\ hooks' = [hooks EXCEPT ![s] = @ \cup {"wake"}]
    /\ UNCHANGED <<wireVars, appVars, kind, slots, connects, closeVars,
                   hookVars, roomVars, loop, tclosed, woken, sockets, sessions,
                   reaping, disconnects, down>>

Awake(s) ==
    /\ stage[s] = "waiting" /\ woken[s] > 0
    /\ Enter(s, "done")
    /\ UNCHANGED <<wireVars, appVars, kind, slots, connects, closeVars,
                   hookVars, roomVars, loop, tclosed, hooks, woken, sockets,
                   sessions, reaping, disconnects, down>>

------------------------------------------------------------------------------
(* socketImpl.triggerEvent(EventDisconnect). *)

\* A goroutine per handler.
StartHandlers(s) ==
    /\ running' = IF "cleanup" \in hooks[s]
                  THEN [running EXCEPT ![s]["delete"] = @ + 1] ELSE running
    /\ waking' = IF "wake" \in hooks[s]
                 THEN [waking EXCEPT ![s] = @ + 1] ELSE waking

\* The trigger of a Close or of a failed Read.
Trigger(s) ==
    /\ StartHandlers(s)
    /\ missed' = [missed EXCEPT ![s] = @ \/ "cleanup" \notin hooks[s]]

(* The cleanup handler: unregister, leave all rooms, tell the application. *)

Cleaned(s, step, next) ==
    /\ running[s][step] > 0
    /\ running' = [running EXCEPT ![s] =
         [x \in CleanupSteps |-> IF x = step THEN @[x] - 1
                                 ELSE IF x = next THEN @[x] + 1 ELSE @[x]]]

\* Mutant: the registry entry is left alone.
CleanupDeleteNothing(s) ==
    /\ Cleaned(s, "delete", "leave") /\ ServerMu
    /\ UNCHANGED <<wireVars, appVars, setupVars, closeVars, waking, missed,
                   roomVars, loop, tclosed, hooks, woken, sockets, sessions,
                   reaping, disconnects, down>>

CleanupDelete(s) ==
    /\ Cleaned(s, "delete", "leave") /\ ServerMu
    /\ sockets' = sockets \ {s}
    /\ UNCHANGED <<wireVars, appVars, setupVars, closeVars, waking, missed,
                   roomVars, loop, tclosed, hooks, woken, sessions, reaping,
                   disconnects, down>>

\* Mutant: the socket is not taken out of its rooms.
CleanupLeaveNothing(s) ==
    /\ Cleaned(s, "leave", "fire")
    /\ UNCHANGED <<wireVars, appVars, setupVars, closeVars, waking, missed,
                   roomVars, loop, tclosed, hooks, woken, sockets, sessions,
                   reaping, disconnects, down>>

CleanupLeave(s) ==
    /\ Cleaned(s, "leave", "fire")
    /\ inRoom' = [inRoom EXCEPT ![s] = FALSE]
    /\ UNCHANGED <<wireVars, appVars, setupVars, closeVars, waking, missed,
                   joining, late, loop, tclosed, hooks, woken, sockets,
                   sessions, reaping, disconnects, down>>

CleanupFire(s) ==
    /\ Cleaned(s, "fire", "end") /\ ServerMu
    /\ disconnects' = [disconnects EXCEPT ![s] = @ + 1]
    /\ UNCHANGED <<wireVars, appVars, setupVars, closeVars, waking, missed,
                   roomVars, loop, tclosed, hooks, woken, sockets, sessions,
                   reaping, down>>

\* close(disconnectChan), which panics when the channel is closed already.
Wake(s) ==
    /\ waking[s] > 0
    /\ waking' = [waking EXCEPT ![s] = @ - 1]
    /\ woken' = [woken EXCEPT ![s] = @ + 1]
    /\ crashed' = (woken[s] > 0)
    /\ UNCHANGED <<named, appVars, setupVars, closeVars, running, missed,
                   roomVars, loop, tclosed, hooks, sockets, sessions, reaping,
                   disconnects, down>>

------------------------------------------------------------------------------
(* socketImpl.Close. *)

\* Mutant: Close does not test connected.
CloseBeginAgain(s, c) ==
    /\ c \in callers[s]
    /\ callers' = [callers EXCEPT ![s] = @ \ {c}]
    /\ connected' = [connected EXCEPT ![s] = FALSE]
    /\ closing' = [closing EXCEPT ![s] = "trigger"]
    /\ UNCHANGED <<wireVars, appVars, setupVars, hookVars, roomVars, loop,
                   tclosed, hooks, woken, sockets, sessions, reaping,
                   disconnects, down>>

\* The caller's test of connected.
CloseBegin(s, c) ==
    /\ c \in callers[s]
    /\ callers' = [callers EXCEPT ![s] = @ \ {c}]
    /\ IF connected[s]
       THEN /\ connected' = [connected EXCEPT ![s] = FALSE]
            /\ closing' = [closing EXCEPT ![s] = "trigger"]
       ELSE UNCHANGED <<connected, closing>>
    /\ UNCHANGED <<wireVars, appVars, setupVars, hookVars, roomVars, loop,
                   tclosed, hooks, woken, sockets, sessions, reaping,
                   disconnects, down>>

\* Mutant: Close does not trigger the event.
CloseTriggerSilent(s) ==
    /\ closing[s] = "trigger"
    /\ closing' = [closing EXCEPT ![s] = "transport"]
    /\ UNCHANGED <<wireVars, appVars, setupVars, connected, callers, hookVars,
                   roomVars, loop, tclosed, hooks, woken, sockets, sessions,
                   reaping, disconnects, down>>

CloseTrigger(s) ==
    /\ closing[s] = "trigger"
    /\ closing' = [closing EXCEPT ![s] = "transport"]
    /\ Trigger(s)
    /\ UNCHANGED <<wireVars, appVars, setupVars, connected, callers, roomVars,
                   loop, tclosed, hooks, woken, sockets, sessions, reaping,
                   disconnects, down>>

\* cleanupSessions, if it is the caller, unlocks Server.mu afterwards.
CloseTransport(s) ==
    /\ closing[s] = "transport"
    /\ closing' = [closing EXCEPT ![s] = "done"]
    /\ tclosed' = [tclosed EXCEPT ![s] = TRUE]
    /\ reaping' = IF reaping = s THEN NoSocket ELSE reaping
    /\ UNCHANGED <<wireVars, appVars, setupVars, connected, callers, hookVars,
                   roomVars, loop, hooks, woken, sockets, sessions, disconnects,
                   down>>

------------------------------------------------------------------------------
(* receiveLoop.  A websocket Read fails when the peer leaves, the connection *)
(* is closed or the read deadline passes, and closes the transport itself;   *)
(* a long-polling Read never returns an error.                               *)

ReadFails(s) ==
    /\ kind[s] = "websocket" /\ loop[s] = "reading"
    /\ loop' = [loop EXCEPT ![s] = "failed"]
    /\ tclosed' = [tclosed EXCEPT ![s] = TRUE]
    /\ UNCHANGED <<wireVars, appVars, setupVars, closeVars, hookVars, roomVars,
                   hooks, woken, sockets, sessions, reaping, disconnects, down>>

\* The loop triggers the event and then calls Close.
LoopTrigger(s) ==
    /\ loop[s] = "failed"
    /\ loop' = [loop EXCEPT ![s] = "ended"]
    /\ Trigger(s)
    /\ callers' = [callers EXCEPT ![s] = @ \cup {"loop"}]
    /\ UNCHANGED <<wireVars, appVars, setupVars, connected, closing, roomVars,
                   tclosed, hooks, woken, sockets, sessions, reaping,
                   disconnects, down>>

\* Read returns a message, and the loop triggers its event.  A message that
\* comes before RouteEvents, or that cannot be decoded, finds no handler and
\* changes nothing.
ReadMessage(s) ==
    /\ loop[s] = "reading" /\ "message" \in hooks[s]
    /\ dispatching[s] < MaxDispatch
    /\ dispatching' = [dispatching EXCEPT ![s] = @ + 1]
    /\ UNCHANGED <<wireVars, setupVars, closeVars, hookVars, roomVars, loop,
                   tclosed, hooks, woken, sockets, sessions, reaping,
                   disconnects, down, off>>

\* The handler handleSocket installed starts the application's.
Dispatch(s) ==
    /\ dispatching[s] > 0 /\ ServerMu
    /\ dispatching' = [dispatching EXCEPT ![s] = @ - 1]
    /\ UNCHANGED <<wireVars, setupVars, closeVars, hookVars, roomVars, loop,
                   tclosed, hooks, woken, sockets, sessions, reaping,
                   disconnects, down, off>>

\* Read returns a message whose event is "disconnect".  The loop reads on.
ReadDisconnect(s) ==
    /\ loop[s] = "reading" /\ named[s] < MaxNamed
    /\ named' = [named EXCEPT ![s] = @ + 1]
    /\ StartHandlers(s)
    /\ UNCHANGED <<crashed, missed, appVars, setupVars, closeVars, roomVars, loop,
                   tclosed, hooks, woken, sockets, sessions, reaping,
                   disconnects, down>>

------------------------------------------------------------------------------
(* What the application does with a socket, and the other callers of Close. *)

\* The application may hold a reference to the socket.
Known(s) == stage[s] \notin {"absent", "handshake", "refused", "created"}

\* Mutant: Off clears the whole handler map.
OffClears(s) ==
    /\ Known(s)
    /\ hooks' = [hooks EXCEPT ![s] = {}]
    /\ off' = [off EXCEPT ![s] = TRUE]
    /\ UNCHANGED <<wireVars, setupVars, closeVars, hookVars, roomVars, loop,
                   tclosed, woken, sockets, sessions, reaping, disconnects,
                   down, dispatching>>

\* Off(EventDisconnect) removes the server's own handlers as well.
Off(s) ==
    /\ Known(s)
    /\ hooks' = [hooks EXCEPT ![s] = @ \ {"cleanup", "wake"}]
    /\ off' = [off EXCEPT ![s] = TRUE]
    /\ UNCHANGED <<wireVars, setupVars, closeVars, hookVars, roomVars, loop,
                   tclosed, woken, sockets, sessions, reaping, disconnects,
                   down, dispatching>>

\* A handler of the application calls Close on a socket it was given.
AppClose(s) ==
    /\ connected[s] /\ Known(s)
    /\ callers' = [callers EXCEPT ![s] = @ \cup {"app"}]
    /\ UNCHANGED <<wireVars, appVars, setupVars, connected, closing, hookVars,
                   roomVars, loop, tclosed, hooks, woken, sockets, sessions,
                   reaping, disconnects, down>>

\* Shutdown copies the registry and closes the sockets of the copy.  It changes
\* nothing that HandleHTTP looks at.
Shutdown ==
    /\ ServerMu
    /\ down' = TRUE
    /\ callers' = [s \in Sockets |-> IF s \in sockets THEN callers[s] \cup {"shutdown"}
                                     ELSE callers[s]]
    /\ UNCHANGED <<wireVars, appVars, setupVars, connected, closing, hookVars,
                   roomVars, loop, tclosed, hooks, woken, sockets, sessions,
                   reaping, disconnects>>

LongPollingDisconnect(s) ==
    /\ s \in sessions /\ ServerMu
    /\ sessions' = sessions \ {s}
    /\ sockets' = sockets \ {s}
    /\ callers' = [callers EXCEPT ![s] = @ \cup {"lp"}]
    /\ UNCHANGED <<wireVars, appVars, setupVars, connected, closing, hookVars,
                   roomVars, loop, tclosed, hooks, woken, reaping, disconnects,
                   down>>

\* One session cleanupSessions finds expired: its transport is closed, or its
\* client has not polled for too long, which may happen at any time.  A socket
\* that is still connected is closed before Server.mu is released.  (A sweep of
\* the code keeps Server.mu from one expired session to the next; letting others
\* in between only adds behaviours.)
CollectSession(s) ==
    /\ s \in sessions /\ ServerMu
    /\ sessions' = sessions \ {s}
    /\ sockets' = sockets \ {s}
    /\ connected' = [connected EXCEPT ![s] = FALSE]
    /\ IF connected[s]
       THEN /\ closing' = [closing EXCEPT ![s] = "trigger"]
            /\ reaping' = s
       ELSE UNCHANGED <<closing, reaping>>
    /\ UNCHANGED <<wireVars, appVars, setupVars, callers, hookVars, roomVars,
                   loop, tclosed, hooks, woken, disconnects, down>>

------------------------------------------------------------------------------
(* Server.Join: the lookup, then RoomManager.JoinRoom. *)

JoinLookup(s) ==
    /\ s \in sockets /\ ~joining[s] /\ ServerMu
    /\ joining' = [joining EXCEPT ![s] = TRUE]
    /\ UNCHANGED <<wireVars, appVars, setupVars, closeVars, hookVars, inRoom,
                   late, loop, tclosed, hooks, woken, sockets, sessions,
                   reaping, disconnects, down>>

JoinRoom(s) ==
    /\ joining[s]
    /\ joining' = [joining EXCEPT ![s] = FALSE]
    /\ inRoom' = [inRoom EXCEPT ![s] = TRUE]
    /\ late' = [late EXCEPT ![s] = @ \/ s \notin sockets]
    /\ UNCHANGED <<wireVars, appVars, setupVars, closeVars, hookVars, loop,
                   tclosed, hooks, woken, sockets, sessions, reaping,
                   disconnects, down>>

------------------------------------------------------------------------------
Init ==
    /\ kind = [s \in Sockets |-> "none"]
    /\ stage = [s \in Sockets |-> "absent"]
    /\ loop = [s \in Sockets |-> "none"]
    /\ connected = [s \in Sockets |-> FALSE]
    /\ tclosed = [s \in Sockets |-> FALSE]
    /\ closing = [s \in Sockets |-> "no"]
    /\ callers = [s \in Sockets |-> {}]
    /\ hooks = [s \in Sockets |-> {}]
    /\ running = [s \in Sockets |-> [x \in CleanupSteps |-> 0]]
    /\ waking = [s \in Sockets |-> 0]
    /\ woken = [s \in Sockets |-> 0]
    /\ sockets = {} /\ sessions = {}
    /\ slots = 0
    /\ reaping = NoSocket
    /\ joining = [s \in Sockets |-> FALSE]
    /\ inRoom = [s \in Sockets |-> FALSE]
    /\ connects = [s \in Sockets |-> 0]
    /\ disconnects = [s \in Sockets |-> 0]
    /\ down = FALSE
    /\ missed = [s \in Sockets |-> FALSE]
    /\ late = [s \in Sockets |-> FALSE]
    /\ dispatching = [s \in Sockets |-> 0]
    /\ off = [s \in Sockets |-> FALSE]
    /\ named = [s \in Sockets |-> 0]
    /\ crashed = FALSE

\* The steps a goroutine of the server takes once it has been started.
SetUp(s) == Upgrade(s) \/ Register(s) \/ RouteEvents(s) \/ OnDisconnect(s)
            \/ TriggerConnect(s) \/ OnDisconnectWake(s) \/ Awake(s)
Handle(s) == CleanupDelete(s) \/ CleanupLeave(s) \/ CleanupFire(s) \/ Wake(s)
Finish(s) == (\E c \in Closers : CloseBegin(s, c)) \/ CloseTrigger(s) \/ CloseTransport(s)

Next ==
    /\ ~crashed
    /\ \/ Shutdown
       \/ \E s \in Sockets :
           \/ TryUpgrade(s) \/ LongPollingConnect(s) \/ SetUp(s)
           \/ Handle(s) \/ Finish(s)
           \/ ReadFails(s) \/ LoopTrigger(s) \/ ReadMessage(s) \/ ReadDisconnect(s)
           \/ Dispatch(s) \/ Off(s) \/ AppClose(s)
           \/ LongPollingDisconnect(s) \/ CollectSession(s)
           \/ JoinLookup(s) \/ JoinRoom(s)

\* Started goroutines run on.  A Read on a closed transport fails, by the read
\* deadline at the latest, and the ticker keeps collecting closed sessions.
\* No client is obliged to come, to leave or to poll.
Fairness == \A s \in Sockets :
    /\ WF_vars(~crashed /\ SetUp(s))
    /\ WF_vars(~crashed /\ LoopTrigger(s))
    /\ \A c \in Closers : WF_vars(~crashed /\ CloseBegin(s, c))
    /\ WF_vars(~crashed /\ CloseTrigger(s))
    /\ WF_vars(~crashed /\ CloseTransport(s))
    /\ WF_vars(~crashed /\ CleanupDelete(s))
    /\ WF_vars(~crashed /\ CleanupLeave(s))
    /\ WF_vars(~crashed /\ CleanupFire(s))
    /\ WF_vars(~crashed /\ Wake(s))
    /\ WF_vars(~crashed /\ Dispatch(s))
    /\ WF_vars(~crashed /\ JoinRoom(s))
    /\ WF_vars(~crashed /\ tclosed[s] /\ ReadFails(s))
    /\ WF_vars(~crashed /\ tclosed[s] /\ CollectSession(s))

Spec == Init /\ [][Next]_vars
FairSpec == Spec /\ Fairness

------------------------------------------------------------------------------
(* The server's and the sockets' fields hold values of the code's types: the *)
(* semaphore never holds more tokens than its capacity and gives back no     *)
(* more than it took, and only long-polling sockets have sessions.           *)
TypeOK ==
    /\ kind \in [Sockets -> {"none", "websocket", "longpolling"}]
    /\ stage \in [Sockets -> Stages]
    /\ loop \in [Sockets -> {"none", "reading", "failed", "ended"}]
    /\ connected \in [Sockets -> BOOLEAN] /\ tclosed \in [Sockets -> BOOLEAN]
    /\ closing \in [Sockets -> {"no", "trigger", "transport", "done"}]
    /\ callers \in [Sockets -> SUBSET Closers]
    /\ hooks \in [Sockets -> SUBSET {"message", "cleanup", "wake"}]
    /\ running \in [Sockets -> [CleanupSteps -> Nat]]
    /\ waking \in [Sockets -> Nat] /\ woken \in [Sockets -> Nat]
    /\ sockets \in SUBSET Sockets
    /\ sessions \in SUBSET {s \in Sockets : kind[s] = "longpolling"}
    /\ slots \in 0..MaxConcurrency
    /\ reaping \in Sockets \cup {NoSocket}
    /\ joining \in [Sockets -> BOOLEAN] /\ inRoom \in [Sockets -> BOOLEAN]
    /\ connects \in [Sockets -> 0..1] /\ disconnects \in [Sockets -> Nat]
    /\ down \in BOOLEAN
    /\ missed \in [Sockets -> BOOLEAN] /\ late \in [Sockets -> BOOLEAN]
    /\ dispatching \in [Sockets -> 0..MaxDispatch]
    /\ off \in [Sockets -> BOOLEAN]
    /\ named \in [Sockets -> 0..MaxNamed] /\ crashed \in BOOLEAN

\* Nothing is under way for the socket any more.
Quiet(s) ==
    /\ stage[s] \in {"waiting", "done"}
    /\ loop[s] # "failed" /\ callers[s] = {} /\ closing[s] \in {"no", "done"}
    /\ \A x \in CleanupSteps : running[s][x] = 0

(* A disconnect reported to the application is final: the socket has left    *)
(* the registry and is never entered again, whichever goroutine reports it.  *)
ReportedIsGone == \A s \in Sockets : disconnects[s] > 0 => s \notin sockets

(* A closed socket stays in the registry only if a disconnect trigger did not *)
(* find the server's handler: it came before handleSocket had installed it, or *)
(* after the application had removed it with Off(EventDisconnect).            *)
ZombieOnlyIfMissed ==
    \A s \in Sockets : Quiet(s) /\ ~connected[s] /\ s \in sockets => missed[s]

(* A socket reported as disconnected is in a room only if a Join that had    *)
(* looked it up before its removal added it afterwards.  This is why the     *)
(* registry entry goes before LeaveAll.                                      *)
GhostOnlyByLateJoin ==
    \A s \in Sockets : disconnects[s] > 0 /\ inRoom[s] => late[s]

(* disconnectChan is closed once for every message in which the client names *)
(* "disconnect", and once for all the Closes of the socket together, of      *)
(* which one gets through.  A second close of it panics: so the server goes  *)
(* down over a client that names the event, and never over Closes alone.     *)
PanicsOnlyIfNamed ==
    /\ \A s \in Sockets :
           waking[s] + woken[s] <= named[s] + (IF connected[s] THEN 0 ELSE 1)
    /\ crashed => \E s \in Sockets : named[s] > 0

(* Once the handler is in place, closing a connected socket or losing its    *)
(* connection is reported and unregisters the socket, unless the application *)
(* takes the handler away or the server goes down.                           *)
DisconnectReported ==
    \A s \in Sockets :
        /\ "cleanup" \in hooks[s]
        /\ (connected[s] /\ callers[s] # {}) \/ loop[s] = "failed" \/ closing[s] = "trigger"
      ~> (disconnects[s] > 0 /\ s \notin sockets) \/ off[s] \/ crashed

(* A client that has been announced is listened to: its messages find their  *)
(* handler.  Only what comes while the socket is being set up is dropped.     *)
AnnouncedIsServed == \A s \in Sockets : connects[s] > 0 => "message" \in hooks[s]
==============================================================================
