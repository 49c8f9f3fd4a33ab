------------------------ MODULE SocketLifecycleProofs ------------------------
(***************************************************************************)
(* Proofs about SocketLifecycle, for any set of sockets and any capacity   *)
(* of the semaphore.  Sockets share Server.mu and the semaphore only, so   *)
(* the inductive invariant is one formula per socket and one about the     *)
(* tokens.                                                                 *)
(***************************************************************************)
EXTENDS SocketLifecycle, FiniteSetTheorems, TLAPS

\* The set-up goroutine has made the socket.
Created(s) == stage[s] \notin {"absent", "handshake", "refused"}

\* It has routed the events, and it has installed the cleanup handler.
Routed(s) == stage[s] \in {"routed", "guarded", "announced", "waiting", "done"}
Guarded(s) == stage[s] \in {"guarded", "announced", "waiting", "done"}

\* What there is of a socket before a stage of its set-up, and after it.
StageOK(s) ==
    /\ stage[s] = "absent" => kind[s] = "none"
    /\ ~Created(s) => ~connected[s] /\ closing[s] = "no"
    /\ ~Guarded(s) => /\ "cleanup" \notin hooks[s]
                      /\ \A x \in CleanupSteps : running[s][x] = 0
                      /\ disconnects[s] = 0
    /\ Routed(s) => "message" \in hooks[s]
    /\ stage[s] \notin {"announced", "waiting", "done"} => connects[s] = 0

\* The Close that found a long-polling socket connected wakes its request once,
\* and every message that names the event does so once.
WakeOK(s) ==
    /\ stage[s] = "announced" \/ "wake" \in hooks[s] => kind[s] = "longpolling"
    /\ loop[s] = "failed" => kind[s] = "websocket"
    /\ connected[s] => closing[s] = "no"
    /\ waking[s] + woken[s] > 0 => kind[s] = "longpolling"
    /\ waking[s] + woken[s]
         <= named[s] + (IF closing[s] \in {"transport", "done"} THEN 1 ELSE 0)

\* A closed socket is on its way out of the registry, was missed by its
\* trigger, or is out for good.
ClosedOK(s) ==
    Created(s) /\ ~connected[s]
      => \/ closing[s] = "trigger" \/ missed[s] \/ running[s]["delete"] > 0
         \/ s \notin sockets /\ stage[s] # "created"

\* The order of the cleanup handler's steps: out of the registry, then out of
\* the rooms, then the report.
CleanupOK(s) ==
    /\ running[s]["leave"] > 0 \/ running[s]["fire"] > 0 \/ disconnects[s] > 0
         => s \notin sockets
    /\ (running[s]["fire"] > 0 \/ disconnects[s] > 0) /\ inRoom[s] => late[s]

SocketInv(s) == StageOK(s) /\ WakeOK(s) /\ ClosedOK(s) /\ CleanupOK(s)

\* A token is out for every handshake.
Handshaking == {s \in Sockets : stage[s] = "handshake"}
TokensOK == IsFiniteSet(Handshaking) /\ slots = Cardinality(Handshaking)

\* A panic has closed some channel twice.
CrashOK == crashed => \E s \in Sockets : woken[s] > 1

\* The inductive invariant.
LifecycleInv == TypeOK /\ TokensOK /\ CrashOK /\ \A s \in Sockets : SocketInv(s)

------------------------------------------------------------------------------
(* What the steps of one socket leave alone. *)

\* Everything SocketInv(u) speaks of.
Same(u) ==
    /\ kind'[u] = kind[u] /\ stage'[u] = stage[u] /\ loop'[u] = loop[u]
    /\ connected'[u] = connected[u] /\ closing'[u] = closing[u]
    /\ hooks'[u] = hooks[u] /\ running'[u] = running[u]
    /\ waking'[u] = waking[u] /\ woken'[u] = woken[u] /\ named'[u] = named[u]
    /\ connects'[u] = connects[u] /\ disconnects'[u] = disconnects[u]
    /\ missed'[u] = missed[u] /\ inRoom'[u] = inRoom[u] /\ late'[u] = late[u]
    /\ u \in sockets' <=> u \in sockets

\* The invariant of a socket that a step does not touch is preserved.
LEMMA SameSocket ==
    ASSUME NEW u \in Sockets, SocketInv(u), Same(u)
    PROVE  SocketInv(u)'
<1>1. StageOK(u)'
  BY DEF Same, SocketInv, StageOK, Created, Guarded, Routed
<1>2. WakeOK(u)'
  BY DEF Same, SocketInv, WakeOK
<1>3. ClosedOK(u)'
  BY DEF Same, SocketInv, ClosedOK, Created
<1>4. CleanupOK(u)'
  BY DEF Same, SocketInv, CleanupOK
<1>5. QED
  BY <1>1, <1>2, <1>3, <1>4 DEF SocketInv

\* A step of one socket need only be looked at for that socket.
LEMMA OtherSockets ==
    ASSUME NEW s \in Sockets, \A u \in Sockets : SocketInv(u),
           SocketInv(s)', \A u \in Sockets \ {s} : Same(u)
    PROVE  \A u \in Sockets : SocketInv(u)'
BY SameSocket

------------------------------------------------------------------------------
(* The initial state and the types. *)

\* A server without sockets.
LEMMA InitInv == Init => LifecycleInv
<1> SUFFICES ASSUME Init PROVE LifecycleInv
  OBVIOUS
<1>1. TypeOK
  <2>1. /\ running \in [Sockets -> [CleanupSteps -> Nat]]
        /\ stage \in [Sockets -> Stages] /\ slots \in 0..MaxConcurrency
        /\ dispatching \in [Sockets -> 0..MaxDispatch]
        /\ named \in [Sockets -> 0..MaxNamed]
    BY LifecycleAssumption DEF Init, Stages
  <2>2. /\ callers \in [Sockets -> SUBSET Closers]
        /\ hooks \in [Sockets -> SUBSET {"message", "cleanup", "wake"}]
        /\ sockets \in SUBSET Sockets
        /\ sessions \in SUBSET {s \in Sockets : kind[s] = "longpolling"}
    BY DEF Init
  <2>3. /\ waking \in [Sockets -> Nat] /\ woken \in [Sockets -> Nat]
        /\ connects \in [Sockets -> 0..1] /\ disconnects \in [Sockets -> Nat]
    BY DEF Init
  <2>4. QED
    BY <2>1, <2>2, <2>3 DEF Init, TypeOK
<1>2. TokensOK
  <2>1. Handshaking = {}
    BY DEF Init, Handshaking
  <2>2. QED
    BY <2>1, FS_EmptySet DEF TokensOK, Init
<1>3. \A s \in Sockets : SocketInv(s)
  BY DEF Init, SocketInv, StageOK, WakeOK, ClosedOK, CleanupOK, Created, Guarded, Routed,
         CleanupSteps
<1>4. CrashOK
  BY DEF Init, CrashOK
<1>5. QED
  BY <1>1, <1>2, <1>3, <1>4 DEF LifecycleInv

\* A goroutine of the cleanup handler moves on; the counters stay numbers.
LEMMA CleanedType ==
    ASSUME TypeOK, NEW s \in Sockets, NEW step \in CleanupSteps, NEW next,
           Cleaned(s, step, next)
    PROVE  running' \in [Sockets -> [CleanupSteps -> Nat]]
<1>1. [x \in CleanupSteps |-> IF x = step THEN running[s][x] - 1
                              ELSE IF x = next THEN running[s][x] + 1 ELSE running[s][x]]
        \in [CleanupSteps -> Nat]
  BY DEF TypeOK, Cleaned
<1>2. QED
  BY <1>1 DEF TypeOK, Cleaned

\* A trigger starts goroutines.
LEMMA HandlersType ==
    ASSUME TypeOK, NEW s \in Sockets, StartHandlers(s)
    PROVE  /\ running' \in [Sockets -> [CleanupSteps -> Nat]]
           /\ waking' \in [Sockets -> Nat]
<1>1. [running[s] EXCEPT !["delete"] = @ + 1] \in [CleanupSteps -> Nat]
  BY DEF TypeOK, CleanupSteps
<1>2. running' \in [Sockets -> [CleanupSteps -> Nat]]
  BY <1>1 DEF TypeOK, StartHandlers
<1>3. waking' \in [Sockets -> Nat]
  BY DEF TypeOK, StartHandlers
<1>4. QED
  BY <1>2, <1>3

\* The trigger of a Close or of a failed Read may miss the handler.
LEMMA TriggerType ==
    ASSUME TypeOK, NEW s \in Sockets, Trigger(s)
    PROVE  /\ running' \in [Sockets -> [CleanupSteps -> Nat]]
           /\ waking' \in [Sockets -> Nat]
           /\ missed' \in [Sockets -> BOOLEAN]
<1>1. missed' \in [Sockets -> BOOLEAN]
  BY DEF TypeOK, Trigger
<1>2. QED
  BY <1>1, HandlersType DEF Trigger

\* Every step keeps the types.
LEMMA TypeStep == LifecycleInv /\ [Next]_vars => TypeOK'
<1> SUFFICES ASSUME LifecycleInv, [Next]_vars
             PROVE  TypeOK'
  OBVIOUS
<1> USE LifecycleAssumption DEF setupVars, closeVars, hookVars, roomVars, appVars, wireVars, Enter
<1>0. TypeOK /\ TokensOK /\ \A s \in Sockets : SocketInv(s)
  BY DEF LifecycleInv
<1>1. CASE Shutdown
  BY <1>0, <1>1 DEF Shutdown, TypeOK, Closers
<1>2. ASSUME NEW s \in Sockets, TryUpgrade(s) PROVE TypeOK'
  <2>1. s \notin sessions
    BY <1>0, <1>2 DEF TryUpgrade, TypeOK, SocketInv, StageOK
  <2>2. slots' \in 0..MaxConcurrency
    BY <1>0, <1>2 DEF TryUpgrade, TypeOK
  <2>3. stage' \in [Sockets -> Stages]
    <3>1. stage \in [Sockets -> Stages]
      BY <1>0 DEF TypeOK
    <3>2. QED
      BY <3>1, <1>2 DEF TryUpgrade, Stages
  <2>4. QED
    BY <2>1, <2>2, <2>3, <1>0, <1>2 DEF TryUpgrade, TypeOK
<1>3. ASSUME NEW s \in Sockets, Upgrade(s) PROVE TypeOK'
  <2>1. slots > 0
    <3>1. s \in Handshaking
      BY <1>3 DEF Upgrade, Handshaking
    <3>2. Cardinality(Handshaking) # 0
      BY <3>1, <1>0, FS_EmptySet DEF TokensOK
    <3>3. QED
      BY <3>2, <1>0 DEF TokensOK, TypeOK
  <2>2. slots' \in 0..MaxConcurrency
    BY <2>1, <1>0, <1>3 DEF Upgrade, TypeOK
  <2>3. /\ stage' \in [Sockets -> Stages]
        /\ connected' \in [Sockets -> BOOLEAN]
        /\ loop' \in [Sockets -> {"none", "reading", "failed", "ended"}]
    <3>1. /\ stage \in [Sockets -> Stages]
          /\ connected \in [Sockets -> BOOLEAN]
          /\ loop \in [Sockets -> {"none", "reading", "failed", "ended"}]
      BY <1>0 DEF TypeOK
    <3>2. QED
      BY <3>1, <1>3 DEF Upgrade, Stages
  <2>4. QED
    BY <2>2, <2>3, <1>0, <1>3 DEF Upgrade, TypeOK
<1>4. ASSUME NEW s \in Sockets, LongPollingConnect(s) PROVE TypeOK'
  BY <1>0, <1>4 DEF LongPollingConnect, TypeOK, Stages
<1>5. ASSUME NEW s \in Sockets, Register(s) PROVE TypeOK'
  BY <1>0, <1>5 DEF Register, TypeOK, Stages
<1>6. ASSUME NEW s \in Sockets, RouteEvents(s) PROVE TypeOK'
  BY <1>0, <1>6 DEF RouteEvents, TypeOK, Stages
<1>7. ASSUME NEW s \in Sockets, OnDisconnect(s) PROVE TypeOK'
  BY <1>0, <1>7 DEF OnDisconnect, TypeOK, Stages
<1>8. ASSUME NEW s \in Sockets, TriggerConnect(s) PROVE TypeOK'
  <2>1. connects[s] = 0
    BY <1>0, <1>8 DEF TriggerConnect, SocketInv, StageOK
  <2>2. QED
    BY <2>1, <1>0, <1>8 DEF TriggerConnect, TypeOK, Stages
<1>9. ASSUME NEW s \in Sockets, OnDisconnectWake(s) PROVE TypeOK'
  BY <1>0, <1>9 DEF OnDisconnectWake, TypeOK, Stages
<1>10. ASSUME NEW s \in Sockets, Awake(s) PROVE TypeOK'
  BY <1>0, <1>10 DEF Awake, TypeOK, Stages
<1>11. ASSUME NEW s \in Sockets, CleanupDelete(s) PROVE TypeOK'
  <2>1. running' \in [Sockets -> [CleanupSteps -> Nat]]
    BY <1>0, <1>11, CleanedType DEF CleanupDelete, CleanupSteps
  <2>2. QED
    BY <2>1, <1>0, <1>11 DEF CleanupDelete, TypeOK
<1>12. ASSUME NEW s \in Sockets, CleanupLeave(s) PROVE TypeOK'
  <2>1. running' \in [Sockets -> [CleanupSteps -> Nat]]
    BY <1>0, <1>12, CleanedType DEF CleanupLeave, CleanupSteps
  <2>2. QED
    BY <2>1, <1>0, <1>12 DEF CleanupLeave, TypeOK
<1>13. ASSUME NEW s \in Sockets, CleanupFire(s) PROVE TypeOK'
  <2>1. running' \in [Sockets -> [CleanupSteps -> Nat]]
    BY <1>0, <1>13, CleanedType DEF CleanupFire, CleanupSteps
  <2>2. QED
    BY <2>1, <1>0, <1>13 DEF CleanupFire, TypeOK
<1>14. ASSUME NEW s \in Sockets, Wake(s) PROVE TypeOK'
  BY <1>0, <1>14 DEF Wake, TypeOK
<1>15. ASSUME NEW s \in Sockets, NEW c \in Closers, CloseBegin(s, c) PROVE TypeOK'
  <2>1. callers' \in [Sockets -> SUBSET Closers]
    BY <1>0, <1>15 DEF CloseBegin, TypeOK
  <2>2. /\ connected' \in [Sockets -> BOOLEAN]
        /\ closing' \in [Sockets -> {"no", "trigger", "transport", "done"}]
    <3>1. /\ connected \in [Sockets -> BOOLEAN]
          /\ closing \in [Sockets -> {"no", "trigger", "transport", "done"}]
      BY <1>0 DEF TypeOK
    <3>2. CASE connected[s]
      <4>1. /\ connected' = [connected EXCEPT ![s] = FALSE]
            /\ closing' = [closing EXCEPT ![s] = "trigger"]
        BY <3>2, <1>15 DEF CloseBegin
      <4>2. QED
        BY <4>1, <3>1
    <3>3. CASE ~connected[s]
      <4>1. UNCHANGED <<connected, closing>>
        BY <3>3, <1>15 DEF CloseBegin
      <4>2. QED
        BY <4>1, <3>1
    <3>4. QED
      BY <3>2, <3>3
  <2>3. QED
    BY <2>1, <2>2, <1>0, <1>15 DEF CloseBegin, TypeOK
<1>16. ASSUME NEW s \in Sockets, CloseTrigger(s) PROVE TypeOK'
  <2>1. /\ running' \in [Sockets -> [CleanupSteps -> Nat]]
        /\ waking' \in [Sockets -> Nat] /\ missed' \in [Sockets -> BOOLEAN]
    BY <1>0, <1>16, TriggerType DEF CloseTrigger
  <2>2. QED
    BY <2>1, <1>0, <1>16 DEF CloseTrigger, TypeOK
<1>17. ASSUME NEW s \in Sockets, LoopTrigger(s) PROVE TypeOK'
  <2>1. /\ running' \in [Sockets -> [CleanupSteps -> Nat]]
        /\ waking' \in [Sockets -> Nat] /\ missed' \in [Sockets -> BOOLEAN]
    BY <1>0, <1>17, TriggerType DEF LoopTrigger
  <2>2. QED
    BY <2>1, <1>0, <1>17 DEF LoopTrigger, TypeOK, Closers
<1>18. ASSUME NEW s \in Sockets, CloseTransport(s) PROVE TypeOK'
  BY <1>0, <1>18 DEF CloseTransport, TypeOK
<1>19. ASSUME NEW s \in Sockets, ReadFails(s) PROVE TypeOK'
  BY <1>0, <1>19 DEF ReadFails, TypeOK
<1>20. ASSUME NEW s \in Sockets, ReadMessage(s) PROVE TypeOK'
  BY <1>0, <1>20 DEF ReadMessage, TypeOK
<1>21. ASSUME NEW s \in Sockets, Dispatch(s) PROVE TypeOK'
  BY <1>0, <1>21 DEF Dispatch, TypeOK
<1>22. ASSUME NEW s \in Sockets, Off(s) PROVE TypeOK'
  BY <1>0, <1>22 DEF Off, TypeOK
<1>23. ASSUME NEW s \in Sockets, AppClose(s) PROVE TypeOK'
  BY <1>0, <1>23 DEF AppClose, TypeOK, Closers
<1>24. ASSUME NEW s \in Sockets, LongPollingDisconnect(s) PROVE TypeOK'
  BY <1>0, <1>24 DEF LongPollingDisconnect, TypeOK, Closers
<1>25. ASSUME NEW s \in Sockets, CollectSession(s) PROVE TypeOK'
  <2>1. /\ connected \in [Sockets -> BOOLEAN] /\ reaping \in Sockets \cup {NoSocket}
        /\ closing \in [Sockets -> {"no", "trigger", "transport", "done"}]
    BY <1>0 DEF TypeOK
  <2>2. /\ connected' = [connected EXCEPT ![s] = FALSE]
        /\ \/ closing' = [closing EXCEPT ![s] = "trigger"] /\ reaping' = s
           \/ UNCHANGED <<closing, reaping>>
    BY <1>25 DEF CollectSession
  <2>3. connected' \in [Sockets -> BOOLEAN]
    BY <2>1, <2>2
  <2>4. /\ closing' \in [Sockets -> {"no", "trigger", "transport", "done"}]
        /\ reaping' \in Sockets \cup {NoSocket}
    BY <2>1, <2>2
  <2>5. QED
    BY <2>3, <2>4, <1>0, <1>25 DEF CollectSession, TypeOK
<1>26. ASSUME NEW s \in Sockets, JoinLookup(s) PROVE TypeOK'
  BY <1>0, <1>26 DEF JoinLookup, TypeOK
<1>27. ASSUME NEW s \in Sockets, JoinRoom(s) PROVE TypeOK'
  BY <1>0, <1>27 DEF JoinRoom, TypeOK
<1>28. ASSUME NEW s \in Sockets, ReadDisconnect(s) PROVE TypeOK'
  <2>1. /\ running' \in [Sockets -> [CleanupSteps -> Nat]]
        /\ waking' \in [Sockets -> Nat]
    BY <1>0, <1>28, HandlersType DEF ReadDisconnect
  <2>2. named' \in [Sockets -> 0..MaxNamed]
    BY <1>0, <1>28 DEF ReadDisconnect, TypeOK
  <2>3. QED
    BY <2>1, <2>2, <1>0, <1>28 DEF ReadDisconnect, TypeOK
<1>29. CASE UNCHANGED vars
  BY <1>0, <1>29 DEF vars, TypeOK
<1>30. QED
  BY <1>1, <1>2, <1>3, <1>4, <1>5, <1>6, <1>7, <1>8, <1>9, <1>10, <1>11, <1>12,
     <1>13, <1>14, <1>15, <1>16, <1>17, <1>18, <1>19, <1>20, <1>21, <1>22,
     <1>23, <1>24, <1>25, <1>26, <1>27, <1>28, <1>29
     DEF Next, SetUp, Handle, Finish

------------------------------------------------------------------------------
(* The tokens and the sockets. *)

\* A token goes out with a handshake and comes back with its end.
LEMMA TokensStep == LifecycleInv /\ [Next]_vars => TokensOK'
<1> SUFFICES ASSUME LifecycleInv, [Next]_vars
             PROVE  TokensOK'
  OBVIOUS
<1> USE DEF setupVars, closeVars, hookVars, roomVars, appVars, wireVars, Enter
<1>0. TypeOK /\ TokensOK /\ stage \in [Sockets -> Stages] /\ slots \in Nat
  BY LifecycleAssumption DEF LifecycleInv, TypeOK
<1>1. ASSUME NEW s \in Sockets, TryUpgrade(s) PROVE TokensOK'
  <2>1. CASE slots < MaxConcurrency
    <3>1. Handshaking' = Handshaking \cup {s} /\ s \notin Handshaking /\ slots' = slots + 1
      BY <2>1, <1>0, <1>1 DEF TryUpgrade, Handshaking
    <3>2. QED
      BY <3>1, <1>0, FS_AddElement DEF TokensOK
  <2>2. CASE ~(slots < MaxConcurrency)
    <3>1. Handshaking' = Handshaking /\ slots' = slots
      BY <2>2, <1>0, <1>1 DEF TryUpgrade, Handshaking
    <3>2. QED
      BY <3>1, <1>0 DEF TokensOK
  <2>3. QED
    BY <2>1, <2>2
<1>2. ASSUME NEW s \in Sockets, Upgrade(s) PROVE TokensOK'
  <2>1. Handshaking' = Handshaking \ {s} /\ s \in Handshaking /\ slots' = slots - 1
    BY <1>0, <1>2 DEF Upgrade, Handshaking
  <2>2. QED
    BY <2>1, <1>0, FS_RemoveElement DEF TokensOK
<1>3. ASSUME NEW s \in Sockets,
             \/ LongPollingConnect(s) \/ Register(s) \/ RouteEvents(s) \/ OnDisconnect(s)
             \/ TriggerConnect(s) \/ OnDisconnectWake(s) \/ Awake(s)
      PROVE  TokensOK'
  <2>1. slots' = slots /\ stage[s] # "handshake" /\ \E st \in Stages \ {"handshake"} : Enter(s, st)
    BY <1>3 DEF LongPollingConnect, Register, RouteEvents, OnDisconnect, TriggerConnect,
                OnDisconnectWake, Awake, Stages
  <2>2. Handshaking' = Handshaking
    BY <2>1, <1>0 DEF Handshaking
  <2>3. QED
    BY <2>1, <2>2, <1>0 DEF TokensOK
<1>4. ASSUME UNCHANGED <<stage, slots>> PROVE TokensOK'
  BY <1>0, <1>4 DEF TokensOK, Handshaking
<1>5. CASE Shutdown \/ UNCHANGED vars
  BY <1>4, <1>5 DEF Shutdown, vars
<1>6. ASSUME NEW s \in Sockets, Handle(s) \/ Finish(s) PROVE TokensOK'
  BY <1>4, <1>6 DEF Handle, Finish, CleanupDelete, CleanupLeave, CleanupFire, Wake,
                    CloseBegin, CloseTrigger, CloseTransport
<1>7. ASSUME NEW s \in Sockets,
             \/ ReadFails(s) \/ LoopTrigger(s) \/ ReadMessage(s) \/ Dispatch(s)
             \/ ReadDisconnect(s) \/ Off(s) \/ AppClose(s) \/ LongPollingDisconnect(s) \/ CollectSession(s)
             \/ JoinLookup(s) \/ JoinRoom(s)
      PROVE  TokensOK'
  BY <1>4, <1>7 DEF ReadFails, LoopTrigger, ReadMessage, ReadDisconnect, Dispatch, Off, AppClose,
                    LongPollingDisconnect, CollectSession, JoinLookup, JoinRoom
<1>8. QED
  BY <1>1, <1>2, <1>3, <1>5, <1>6, <1>7 DEF Next, SetUp

\* Only Wake panics, when it closes the channel again.
LEMMA CrashStep == LifecycleInv /\ [Next]_vars => CrashOK'
<1> SUFFICES ASSUME LifecycleInv, [Next]_vars, crashed'
             PROVE  \E s \in Sockets : woken'[s] > 1
  BY DEF CrashOK
<1> USE DEF setupVars, closeVars, hookVars, roomVars, appVars, wireVars
<1>0. woken \in [Sockets -> Nat] /\ CrashOK
  BY DEF LifecycleInv, TypeOK
<1>1. ASSUME NEW s \in Sockets, Wake(s) PROVE woken'[s] > 1
  <2>1. woken[s] > 0
    BY <1>1, Zenon DEF Wake
  <2>2. woken'[s] = woken[s] + 1
    BY <1>0, <1>1 DEF Wake
  <2>3. QED
    BY <2>1, <2>2, <1>0
<1>2. CASE UNCHANGED <<woken, crashed>>
  BY <1>0, <1>2 DEF CrashOK
<1>3. CASE Shutdown \/ UNCHANGED vars
  BY <1>2, <1>3 DEF Shutdown, vars
<1>4. ASSUME NEW s \in Sockets, SetUp(s) \/ TryUpgrade(s) \/ LongPollingConnect(s)
      PROVE  UNCHANGED <<woken, crashed>>
  BY <1>4 DEF SetUp, TryUpgrade, Upgrade, LongPollingConnect, Register, RouteEvents,
              OnDisconnect, TriggerConnect, OnDisconnectWake, Awake
<1>5. ASSUME NEW s \in Sockets,
             CleanupDelete(s) \/ CleanupLeave(s) \/ CleanupFire(s) \/ Finish(s)
      PROVE  UNCHANGED <<woken, crashed>>
  BY <1>5 DEF CleanupDelete, CleanupLeave, CleanupFire, Finish, CloseBegin, CloseTrigger,
              CloseTransport
<1>6. ASSUME NEW s \in Sockets,
             \/ ReadFails(s) \/ LoopTrigger(s) \/ ReadMessage(s) \/ Dispatch(s)
             \/ ReadDisconnect(s) \/ Off(s) \/ AppClose(s) \/ LongPollingDisconnect(s)
             \/ CollectSession(s) \/ JoinLookup(s) \/ JoinRoom(s)
      PROVE  UNCHANGED <<woken, crashed>>
  BY <1>6 DEF ReadFails, LoopTrigger, ReadMessage, ReadDisconnect, Dispatch, Off, AppClose,
              LongPollingDisconnect, CollectSession, JoinLookup, JoinRoom
<1>7. QED
  BY <1>1, <1>2, <1>3, <1>4, <1>5, <1>6 DEF Next, Handle

\* Every step preserves the invariant of every socket.
LEMMA SocketStep == LifecycleInv /\ [Next]_vars => \A s \in Sockets : SocketInv(s)'
<1> SUFFICES ASSUME LifecycleInv, [Next]_vars
             PROVE  \A s \in Sockets : SocketInv(s)'
  OBVIOUS
<1> USE DEF setupVars, closeVars, hookVars, roomVars, appVars, wireVars, Enter
<1>0. TypeOK /\ (\A s \in Sockets : SocketInv(s)) /\ TypeOK'
  BY TypeStep DEF LifecycleInv
<1>1. ASSUME NEW s \in Sockets, TryUpgrade(s)
      PROVE  \A u \in Sockets : SocketInv(u)'
  <2>1. StageOK(s)'
    BY <1>0, <1>1 DEF TryUpgrade, TypeOK, SocketInv, StageOK, Created, Guarded, Routed,
           CleanupSteps
  <2>2. WakeOK(s)'
    BY <1>0, <1>1 DEF TryUpgrade, TypeOK, SocketInv, StageOK, WakeOK, Created
  <2>3. ClosedOK(s)'
    BY <1>0, <1>1 DEF TryUpgrade, TypeOK, SocketInv, StageOK, ClosedOK, Created, Guarded,
           CleanupSteps
  <2>4. CleanupOK(s)'
    BY <1>0, <1>1 DEF TryUpgrade, TypeOK, SocketInv, StageOK, CleanupOK, Guarded,
           CleanupSteps
  <2>5. \A u \in Sockets \ {s} : Same(u)
    BY <1>0, <1>1 DEF TryUpgrade, TypeOK, Same
  <2>6. QED
    BY <2>1, <2>2, <2>3, <2>4, <2>5, <1>0, OtherSockets DEF SocketInv
<1>2. ASSUME NEW s \in Sockets, Upgrade(s)
      PROVE  \A u \in Sockets : SocketInv(u)'
  <2>1. StageOK(s)'
    BY <1>0, <1>2 DEF Upgrade, TypeOK, SocketInv, StageOK, Created, Guarded, Routed,
           CleanupSteps
  <2>2. WakeOK(s)'
    BY <1>0, <1>2 DEF Upgrade, TypeOK, SocketInv, StageOK, WakeOK, Created
  <2>3. ClosedOK(s)'
    BY <1>0, <1>2 DEF Upgrade, TypeOK, SocketInv, StageOK, ClosedOK, Created, Guarded,
           CleanupSteps
  <2>4. CleanupOK(s)'
    BY <1>0, <1>2 DEF Upgrade, TypeOK, SocketInv, StageOK, CleanupOK, Guarded,
           CleanupSteps
  <2>5. \A u \in Sockets \ {s} : Same(u)
    BY <1>0, <1>2 DEF Upgrade, TypeOK, Same
  <2>6. QED
    BY <2>1, <2>2, <2>3, <2>4, <2>5, <1>0, OtherSockets DEF SocketInv
<1>3. ASSUME NEW s \in Sockets, LongPollingConnect(s)
      PROVE  \A u \in Sockets : SocketInv(u)'
  <2>1. StageOK(s)'
    <3>1. stage[s] \in {"absent", "refused"} /\ stage'[s] = "created"
      BY <1>0, <1>3 DEF LongPollingConnect, TypeOK
    <3>2. StageOK(s)
      BY <1>0 DEF SocketInv
    <3>3. /\ "cleanup" \notin hooks[s] /\ connects[s] = 0 /\ disconnects[s] = 0
          /\ \A x \in CleanupSteps : running[s][x] = 0
      BY <3>1, <3>2 DEF StageOK, Guarded
    <3>4. QED
      BY <3>1, <3>3, <1>3 DEF LongPollingConnect, StageOK, Created, Guarded, Routed
  <2>2. WakeOK(s)'
    BY <1>0, <1>3 DEF LongPollingConnect, TypeOK, SocketInv, StageOK, WakeOK, Created
  <2>3. ClosedOK(s)'
    BY <1>0, <1>3 DEF LongPollingConnect, TypeOK, SocketInv, StageOK, ClosedOK, Created,
           Guarded, CleanupSteps
  <2>4. CleanupOK(s)'
    BY <1>0, <1>3 DEF LongPollingConnect, TypeOK, SocketInv, StageOK, CleanupOK, Guarded,
           CleanupSteps
  <2>5. \A u \in Sockets \ {s} : Same(u)
    BY <1>0, <1>3 DEF LongPollingConnect, TypeOK, Same
  <2>6. QED
    BY <2>1, <2>2, <2>3, <2>4, <2>5, <1>0, OtherSockets DEF SocketInv
<1>4. ASSUME NEW s \in Sockets, Register(s)
      PROVE  \A u \in Sockets : SocketInv(u)'
  <2>1. StageOK(s)'
    <3>1. stage[s] = "created" /\ stage'[s] = "registered"
      BY <1>0, <1>4 DEF Register, TypeOK
    <3>2. StageOK(s)
      BY <1>0 DEF SocketInv
    <3>3. /\ "cleanup" \notin hooks[s] /\ connects[s] = 0 /\ disconnects[s] = 0
          /\ \A x \in CleanupSteps : running[s][x] = 0
      BY <3>1, <3>2 DEF StageOK, Guarded
    <3>4. QED
      BY <3>1, <3>3, <1>4 DEF Register, StageOK, Created, Guarded, Routed
  <2>2. WakeOK(s)'
    BY <1>0, <1>4 DEF Register, TypeOK, SocketInv, StageOK, WakeOK, Created
  <2>3. ClosedOK(s)'
    BY <1>0, <1>4 DEF Register, TypeOK, SocketInv, StageOK, ClosedOK, Created, Guarded,
           CleanupSteps
  <2>4. CleanupOK(s)'
    <3>1. (\A x \in CleanupSteps : running'[s][x] = 0) /\ disconnects'[s] = 0
      BY <1>0, <1>4 DEF Register, SocketInv, StageOK, Guarded
    <3>2. QED
      BY <3>1 DEF CleanupOK, CleanupSteps
  <2>5. \A u \in Sockets \ {s} : Same(u)
    BY <1>0, <1>4 DEF Register, TypeOK, Same
  <2>6. QED
    BY <2>1, <2>2, <2>3, <2>4, <2>5, <1>0, OtherSockets DEF SocketInv
<1>5. ASSUME NEW s \in Sockets, RouteEvents(s)
      PROVE  \A u \in Sockets : SocketInv(u)'
  <2>1. StageOK(s)'
    <3>1. stage'[s] = "routed" /\ hooks'[s] = hooks[s] \cup {"message"}
      BY <1>0, <1>5 DEF RouteEvents, TypeOK
    <3>2. /\ "cleanup" \notin hooks[s] /\ connects[s] = 0 /\ disconnects[s] = 0
          /\ \A x \in CleanupSteps : running[s][x] = 0
      BY <1>0, <1>5 DEF RouteEvents, SocketInv, StageOK, Guarded
    <3>3. QED
      BY <3>1, <3>2, <1>5 DEF RouteEvents, StageOK, Created, Guarded, Routed
  <2>2. WakeOK(s)'
    BY <1>0, <1>5 DEF RouteEvents, TypeOK, SocketInv, StageOK, WakeOK, Created
  <2>3. ClosedOK(s)'
    <3>1. stage[s] = "registered" /\ stage'[s] = "routed" /\ ClosedOK(s)
      BY <1>0, <1>5 DEF RouteEvents, TypeOK, SocketInv
    <3>2. QED
      BY <3>1, <1>5 DEF RouteEvents, ClosedOK, Created
  <2>4. CleanupOK(s)'
    BY <1>0, <1>5 DEF RouteEvents, TypeOK, SocketInv, StageOK, CleanupOK, Guarded,
           CleanupSteps
  <2>5. \A u \in Sockets \ {s} : Same(u)
    BY <1>0, <1>5 DEF RouteEvents, TypeOK, Same
  <2>6. QED
    BY <2>1, <2>2, <2>3, <2>4, <2>5, <1>0, OtherSockets DEF SocketInv
<1>6. ASSUME NEW s \in Sockets, OnDisconnect(s)
      PROVE  \A u \in Sockets : SocketInv(u)'
  <2>1. StageOK(s)'
    <3>1. stage'[s] = "guarded" /\ hooks'[s] = hooks[s] \cup {"cleanup"}
      BY <1>0, <1>6 DEF OnDisconnect, TypeOK
    <3>2. "message" \in hooks[s] /\ connects[s] = 0
      BY <1>0, <1>6 DEF OnDisconnect, SocketInv, StageOK, Routed
    <3>3. QED
      BY <3>1, <3>2, <1>6 DEF OnDisconnect, StageOK, Created, Guarded, Routed
  <2>2. WakeOK(s)'
    BY <1>0, <1>6 DEF OnDisconnect, TypeOK, SocketInv, StageOK, WakeOK, Created
  <2>3. ClosedOK(s)'
    <3>1. stage[s] = "routed" /\ stage'[s] = "guarded" /\ ClosedOK(s)
      BY <1>0, <1>6 DEF OnDisconnect, TypeOK, SocketInv
    <3>2. QED
      BY <3>1, <1>6 DEF OnDisconnect, ClosedOK, Created
  <2>4. CleanupOK(s)'
    BY <1>0, <1>6 DEF OnDisconnect, TypeOK, SocketInv, StageOK, CleanupOK, Guarded,
           CleanupSteps
  <2>5. \A u \in Sockets \ {s} : Same(u)
    BY <1>0, <1>6 DEF OnDisconnect, TypeOK, Same
  <2>6. QED
    BY <2>1, <2>2, <2>3, <2>4, <2>5, <1>0, OtherSockets DEF SocketInv
<1>7. ASSUME NEW s \in Sockets, TriggerConnect(s)
      PROVE  \A u \in Sockets : SocketInv(u)'
  <2>1. StageOK(s)'
    BY <1>0, <1>7 DEF TriggerConnect, TypeOK, SocketInv, StageOK, Created, Guarded,
           Routed, CleanupSteps
  <2>2. WakeOK(s)'
    BY <1>0, <1>7 DEF TriggerConnect, TypeOK, SocketInv, StageOK, WakeOK, Created
  <2>3. ClosedOK(s)'
    <3>1. stage[s] = "guarded" /\ stage'[s] \in {"announced", "done"} /\ ClosedOK(s)
      BY <1>0, <1>7 DEF TriggerConnect, TypeOK, SocketInv
    <3>2. QED
      BY <3>1, <1>7 DEF TriggerConnect, ClosedOK, Created
  <2>4. CleanupOK(s)'
    BY <1>0, <1>7 DEF TriggerConnect, TypeOK, SocketInv, StageOK, CleanupOK, Guarded,
           CleanupSteps
  <2>5. \A u \in Sockets \ {s} : Same(u)
    BY <1>0, <1>7 DEF TriggerConnect, TypeOK, Same
  <2>6. QED
    BY <2>1, <2>2, <2>3, <2>4, <2>5, <1>0, OtherSockets DEF SocketInv
<1>8. ASSUME NEW s \in Sockets, OnDisconnectWake(s)
      PROVE  \A u \in Sockets : SocketInv(u)'
  <2>1. StageOK(s)'
    BY <1>0, <1>8 DEF OnDisconnectWake, TypeOK, SocketInv, StageOK, Created, Guarded,
           Routed, CleanupSteps
  <2>2. WakeOK(s)'
    BY <1>0, <1>8 DEF OnDisconnectWake, TypeOK, SocketInv, StageOK, WakeOK, Created
  <2>3. ClosedOK(s)'
    <3>1. stage[s] = "announced" /\ stage'[s] = "waiting" /\ ClosedOK(s)
      BY <1>0, <1>8 DEF OnDisconnectWake, TypeOK, SocketInv
    <3>2. QED
      BY <3>1, <1>8 DEF OnDisconnectWake, ClosedOK, Created
  <2>4. CleanupOK(s)'
    BY <1>0, <1>8 DEF OnDisconnectWake, TypeOK, SocketInv, StageOK, CleanupOK, Guarded,
           CleanupSteps
  <2>5. \A u \in Sockets \ {s} : Same(u)
    BY <1>0, <1>8 DEF OnDisconnectWake, TypeOK, Same
  <2>6. QED
    BY <2>1, <2>2, <2>3, <2>4, <2>5, <1>0, OtherSockets DEF SocketInv
<1>9. ASSUME NEW s \in Sockets, Awake(s)
      PROVE  \A u \in Sockets : SocketInv(u)'
  <2>1. StageOK(s)'
    BY <1>0, <1>9 DEF Awake, TypeOK, SocketInv, StageOK, Created, Guarded, Routed,
           CleanupSteps
  <2>2. WakeOK(s)'
    BY <1>0, <1>9 DEF Awake, TypeOK, SocketInv, StageOK, WakeOK, Created
  <2>3. ClosedOK(s)'
    <3>1. stage[s] = "waiting" /\ stage'[s] = "done" /\ ClosedOK(s)
      BY <1>0, <1>9 DEF Awake, TypeOK, SocketInv
    <3>2. QED
      BY <3>1, <1>9 DEF Awake, ClosedOK, Created
  <2>4. CleanupOK(s)'
    BY <1>0, <1>9 DEF Awake, TypeOK, SocketInv, StageOK, CleanupOK, Guarded, CleanupSteps
  <2>5. \A u \in Sockets \ {s} : Same(u)
    BY <1>0, <1>9 DEF Awake, TypeOK, Same
  <2>6. QED
    BY <2>1, <2>2, <2>3, <2>4, <2>5, <1>0, OtherSockets DEF SocketInv
<1>10. ASSUME NEW s \in Sockets, CleanupDelete(s)
      PROVE  \A u \in Sockets : SocketInv(u)'
  <2>1. StageOK(s)'
    BY <1>0, <1>10 DEF CleanupDelete, Cleaned, TypeOK, SocketInv, StageOK, Created,
           Guarded, Routed, CleanupSteps
  <2>2. WakeOK(s)'
    BY <1>0, <1>10 DEF CleanupDelete, Cleaned, TypeOK, SocketInv, StageOK, WakeOK, Created
  <2>3. ClosedOK(s)'
    <3>1. s \notin sockets' /\ stage'[s] # "created"
      BY <1>0, <1>10 DEF CleanupDelete, Cleaned, SocketInv, StageOK, Guarded, CleanupSteps
    <3>2. QED
      BY <3>1 DEF ClosedOK
  <2>4. CleanupOK(s)'
    BY <1>0, <1>10 DEF CleanupDelete, Cleaned, TypeOK, SocketInv, StageOK, CleanupOK,
           Guarded, CleanupSteps
  <2>5. \A u \in Sockets \ {s} : Same(u)
    BY <1>0, <1>10 DEF CleanupDelete, Cleaned, TypeOK, Same
  <2>6. QED
    BY <2>1, <2>2, <2>3, <2>4, <2>5, <1>0, OtherSockets DEF SocketInv
<1>11. ASSUME NEW s \in Sockets, CleanupLeave(s)
      PROVE  \A u \in Sockets : SocketInv(u)'
  <2>1. StageOK(s)'
    BY <1>0, <1>11 DEF CleanupLeave, Cleaned, TypeOK, SocketInv, StageOK, Created, Guarded,
           Routed, CleanupSteps
  <2>2. WakeOK(s)'
    BY <1>0, <1>11 DEF CleanupLeave, Cleaned, TypeOK, SocketInv, StageOK, WakeOK, Created
  <2>3. ClosedOK(s)'
    BY <1>0, <1>11 DEF CleanupLeave, Cleaned, TypeOK, SocketInv, StageOK, ClosedOK,
           Created, Guarded, CleanupSteps
  <2>4. CleanupOK(s)'
    BY <1>0, <1>11 DEF CleanupLeave, Cleaned, TypeOK, SocketInv, StageOK, CleanupOK,
           Guarded, CleanupSteps
  <2>5. \A u \in Sockets \ {s} : Same(u)
    BY <1>0, <1>11 DEF CleanupLeave, Cleaned, TypeOK, Same
  <2>6. QED
    BY <2>1, <2>2, <2>3, <2>4, <2>5, <1>0, OtherSockets DEF SocketInv
<1>12. ASSUME NEW s \in Sockets, CleanupFire(s)
      PROVE  \A u \in Sockets : SocketInv(u)'
  <2>1. StageOK(s)'
    BY <1>0, <1>12 DEF CleanupFire, Cleaned, TypeOK, SocketInv, StageOK, Created, Guarded,
           Routed, CleanupSteps
  <2>2. WakeOK(s)'
    BY <1>0, <1>12 DEF CleanupFire, Cleaned, TypeOK, SocketInv, StageOK, WakeOK, Created
  <2>3. ClosedOK(s)'
    BY <1>0, <1>12 DEF CleanupFire, Cleaned, TypeOK, SocketInv, StageOK, ClosedOK, Created,
           Guarded, CleanupSteps
  <2>4. CleanupOK(s)'
    BY <1>0, <1>12 DEF CleanupFire, Cleaned, TypeOK, SocketInv, StageOK, CleanupOK,
           Guarded, CleanupSteps
  <2>5. \A u \in Sockets \ {s} : Same(u)
    BY <1>0, <1>12 DEF CleanupFire, Cleaned, TypeOK, Same
  <2>6. QED
    BY <2>1, <2>2, <2>3, <2>4, <2>5, <1>0, OtherSockets DEF SocketInv
<1>13. ASSUME NEW s \in Sockets, Wake(s)
      PROVE  \A u \in Sockets : SocketInv(u)'
  <2>1. StageOK(s)'
    BY <1>0, <1>13 DEF Wake, TypeOK, SocketInv, StageOK, Created, Guarded, Routed,
           CleanupSteps
  <2>2. WakeOK(s)'
    BY <1>0, <1>13 DEF Wake, TypeOK, SocketInv, StageOK, WakeOK, Created
  <2>3. ClosedOK(s)'
    BY <1>0, <1>13 DEF Wake, TypeOK, SocketInv, StageOK, ClosedOK, Created, Guarded,
           CleanupSteps
  <2>4. CleanupOK(s)'
    BY <1>0, <1>13 DEF Wake, TypeOK, SocketInv, StageOK, CleanupOK, Guarded, CleanupSteps
  <2>5. \A u \in Sockets \ {s} : Same(u)
    BY <1>0, <1>13 DEF Wake, TypeOK, Same
  <2>6. QED
    BY <2>1, <2>2, <2>3, <2>4, <2>5, <1>0, OtherSockets DEF SocketInv
<1>14. ASSUME NEW s \in Sockets, NEW c \in Closers, CloseBegin(s, c)
      PROVE  \A u \in Sockets : SocketInv(u)'
  <2>1. StageOK(s)'
    BY <1>0, <1>14 DEF CloseBegin, TypeOK, SocketInv, StageOK, Created, Guarded, Routed,
           CleanupSteps
  <2>2. WakeOK(s)'
    <3>1. CASE connected[s]
      <4>1. closing[s] = "no" /\ closing'[s] = "trigger" /\ connected'[s] = FALSE
        BY <3>1, <1>0, <1>14 DEF CloseBegin, TypeOK, SocketInv, WakeOK
      <4>2. QED
        BY <4>1, <1>0, <1>14 DEF CloseBegin, SocketInv, WakeOK
    <3>2. CASE ~connected[s]
      BY <3>2, <1>0, <1>14 DEF CloseBegin, SocketInv, WakeOK
    <3>3. QED
      BY <3>1, <3>2
  <2>3. ClosedOK(s)'
    BY <1>0, <1>14 DEF CloseBegin, TypeOK, SocketInv, StageOK, ClosedOK, Created, Guarded,
           CleanupSteps
  <2>4. CleanupOK(s)'
    BY <1>0, <1>14 DEF CloseBegin, TypeOK, SocketInv, StageOK, CleanupOK, Guarded,
           CleanupSteps
  <2>5. \A u \in Sockets \ {s} : Same(u)
    BY <1>0, <1>14 DEF CloseBegin, TypeOK, Same
  <2>6. QED
    BY <2>1, <2>2, <2>3, <2>4, <2>5, <1>0, OtherSockets DEF SocketInv
<1>15. ASSUME NEW s \in Sockets, CloseTrigger(s)
      PROVE  \A u \in Sockets : SocketInv(u)'
  <2>1. StageOK(s)'
    BY <1>0, <1>15 DEF CloseTrigger, Trigger, StartHandlers, TypeOK, SocketInv, StageOK, Created, Guarded,
           Routed, CleanupSteps
  <2>2. WakeOK(s)'
    <3>1. /\ closing[s] = "trigger" /\ closing'[s] = "transport" /\ ~connected[s]
          /\ waking[s] \in Nat /\ woken[s] \in Nat /\ named[s] \in Nat
          /\ waking'[s] = IF "wake" \in hooks[s] THEN waking[s] + 1 ELSE waking[s]
      BY <1>0, <1>15 DEF CloseTrigger, Trigger, StartHandlers, TypeOK, SocketInv, WakeOK
    <3>2. WakeOK(s) /\ waking[s] + woken[s] <= named[s]
      BY <3>1, <1>0 DEF SocketInv, WakeOK
    <3>3. QED
      BY <3>1, <3>2, <1>15 DEF CloseTrigger, WakeOK
  <2>3. ClosedOK(s)'
    <3>1. CASE "cleanup" \in hooks[s]
      <4>1. running'[s]["delete"] = running[s]["delete"] + 1
        BY <3>1, <1>0, <1>15 DEF CloseTrigger, Trigger, StartHandlers, TypeOK, CleanupSteps
      <4>2. running[s]["delete"] \in Nat
        BY <1>0 DEF TypeOK, CleanupSteps
      <4>3. QED
        BY <4>1, <4>2 DEF ClosedOK
    <3>2. CASE "cleanup" \notin hooks[s]
      <4>1. missed \in [Sockets -> BOOLEAN]
        BY <1>0 DEF TypeOK
      <4>2. missed'[s]
        BY <4>1, <3>2, <1>15 DEF CloseTrigger, Trigger, StartHandlers
      <4>3. QED
        BY <4>2 DEF ClosedOK
    <3>3. QED
      BY <3>1, <3>2
  <2>4. CleanupOK(s)'
    BY <1>0, <1>15 DEF CloseTrigger, Trigger, StartHandlers, TypeOK, SocketInv, StageOK, CleanupOK,
           Guarded, CleanupSteps
  <2>5. \A u \in Sockets \ {s} : Same(u)
    BY <1>0, <1>15 DEF CloseTrigger, Trigger, StartHandlers, TypeOK, Same
  <2>6. QED
    BY <2>1, <2>2, <2>3, <2>4, <2>5, <1>0, OtherSockets DEF SocketInv
<1>16. ASSUME NEW s \in Sockets, CloseTransport(s)
      PROVE  \A u \in Sockets : SocketInv(u)'
  <2>1. StageOK(s)'
    BY <1>0, <1>16 DEF CloseTransport, TypeOK, SocketInv, StageOK, Created, Guarded,
           Routed, CleanupSteps
  <2>2. WakeOK(s)'
    BY <1>0, <1>16 DEF CloseTransport, TypeOK, SocketInv, StageOK, WakeOK, Created
  <2>3. ClosedOK(s)'
    BY <1>0, <1>16 DEF CloseTransport, TypeOK, SocketInv, StageOK, ClosedOK, Created,
           Guarded, CleanupSteps
  <2>4. CleanupOK(s)'
    BY <1>0, <1>16 DEF CloseTransport, TypeOK, SocketInv, StageOK, CleanupOK, Guarded,
           CleanupSteps
  <2>5. \A u \in Sockets \ {s} : Same(u)
    BY <1>0, <1>16 DEF CloseTransport, TypeOK, Same
  <2>6. QED
    BY <2>1, <2>2, <2>3, <2>4, <2>5, <1>0, OtherSockets DEF SocketInv
<1>17. ASSUME NEW s \in Sockets, ReadFails(s)
      PROVE  \A u \in Sockets : SocketInv(u)'
  <2>1. StageOK(s)'
    BY <1>0, <1>17 DEF ReadFails, TypeOK, SocketInv, StageOK, Created, Guarded, Routed,
           CleanupSteps
  <2>2. WakeOK(s)'
    BY <1>0, <1>17 DEF ReadFails, TypeOK, SocketInv, StageOK, WakeOK, Created
  <2>3. ClosedOK(s)'
    BY <1>0, <1>17 DEF ReadFails, TypeOK, SocketInv, StageOK, ClosedOK, Created, Guarded,
           CleanupSteps
  <2>4. CleanupOK(s)'
    BY <1>0, <1>17 DEF ReadFails, TypeOK, SocketInv, StageOK, CleanupOK, Guarded,
           CleanupSteps
  <2>5. \A u \in Sockets \ {s} : Same(u)
    BY <1>0, <1>17 DEF ReadFails, TypeOK, Same
  <2>6. QED
    BY <2>1, <2>2, <2>3, <2>4, <2>5, <1>0, OtherSockets DEF SocketInv
<1>18. ASSUME NEW s \in Sockets, LoopTrigger(s)
      PROVE  \A u \in Sockets : SocketInv(u)'
  <2>1. StageOK(s)'
    BY <1>0, <1>18 DEF LoopTrigger, Trigger, StartHandlers, TypeOK, SocketInv, StageOK, Created, Guarded,
           Routed, CleanupSteps
  <2>2. WakeOK(s)'
    BY <1>0, <1>18 DEF LoopTrigger, Trigger, StartHandlers, TypeOK, SocketInv, StageOK, WakeOK, Created
  <2>3. ClosedOK(s)'
    BY <1>0, <1>18 DEF LoopTrigger, Trigger, StartHandlers, TypeOK, SocketInv, StageOK, ClosedOK, Created,
           Guarded, CleanupSteps
  <2>4. CleanupOK(s)'
    BY <1>0, <1>18 DEF LoopTrigger, Trigger, StartHandlers, TypeOK, SocketInv, StageOK, CleanupOK,
           Guarded, CleanupSteps
  <2>5. \A u \in Sockets \ {s} : Same(u)
    BY <1>0, <1>18 DEF LoopTrigger, Trigger, StartHandlers, TypeOK, Same
  <2>6. QED
    BY <2>1, <2>2, <2>3, <2>4, <2>5, <1>0, OtherSockets DEF SocketInv
<1>19. ASSUME NEW s \in Sockets, Off(s)
      PROVE  \A u \in Sockets : SocketInv(u)'
  <2>1. StageOK(s)'
    BY <1>0, <1>19 DEF Off, TypeOK, SocketInv, StageOK, Created, Guarded, Routed,
           CleanupSteps
  <2>2. WakeOK(s)'
    BY <1>0, <1>19 DEF Off, TypeOK, SocketInv, StageOK, WakeOK, Created
  <2>3. ClosedOK(s)'
    BY <1>0, <1>19 DEF Off, TypeOK, SocketInv, StageOK, ClosedOK, Created, Guarded,
           CleanupSteps
  <2>4. CleanupOK(s)'
    BY <1>0, <1>19 DEF Off, TypeOK, SocketInv, StageOK, CleanupOK, Guarded, CleanupSteps
  <2>5. \A u \in Sockets \ {s} : Same(u)
    BY <1>0, <1>19 DEF Off, TypeOK, Same
  <2>6. QED
    BY <2>1, <2>2, <2>3, <2>4, <2>5, <1>0, OtherSockets DEF SocketInv
<1>20. ASSUME NEW s \in Sockets, LongPollingDisconnect(s)
      PROVE  \A u \in Sockets : SocketInv(u)'
  <2>1. StageOK(s)'
    BY <1>0, <1>20 DEF LongPollingDisconnect, TypeOK, SocketInv, StageOK, Created, Guarded,
           Routed, CleanupSteps
  <2>2. WakeOK(s)'
    BY <1>0, <1>20 DEF LongPollingDisconnect, TypeOK, SocketInv, StageOK, WakeOK, Created
  <2>3. ClosedOK(s)'
    BY <1>0, <1>20 DEF LongPollingDisconnect, TypeOK, SocketInv, StageOK, ClosedOK,
           Created, Guarded, CleanupSteps
  <2>4. CleanupOK(s)'
    BY <1>0, <1>20 DEF LongPollingDisconnect, TypeOK, SocketInv, StageOK, CleanupOK,
           Guarded, CleanupSteps
  <2>5. \A u \in Sockets \ {s} : Same(u)
    BY <1>0, <1>20 DEF LongPollingDisconnect, TypeOK, Same
  <2>6. QED
    BY <2>1, <2>2, <2>3, <2>4, <2>5, <1>0, OtherSockets DEF SocketInv
<1>21. ASSUME NEW s \in Sockets, CollectSession(s)
      PROVE  \A u \in Sockets : SocketInv(u)'
  <2>1. StageOK(s)'
    BY <1>0, <1>21 DEF CollectSession, TypeOK, SocketInv, StageOK, Created, Guarded,
           Routed, CleanupSteps
  <2>2. WakeOK(s)'
    <3>1. CASE connected[s]
      <4>1. closing[s] = "no" /\ closing'[s] = "trigger" /\ connected'[s] = FALSE
        BY <3>1, <1>0, <1>21 DEF CollectSession, TypeOK, SocketInv, WakeOK
      <4>2. QED
        BY <4>1, <1>0, <1>21 DEF CollectSession, SocketInv, WakeOK
    <3>2. CASE ~connected[s]
      BY <3>2, <1>0, <1>21 DEF CollectSession, TypeOK, SocketInv, WakeOK
    <3>3. QED
      BY <3>1, <3>2
  <2>3. ClosedOK(s)'
    BY <1>0, <1>21 DEF CollectSession, TypeOK, SocketInv, StageOK, ClosedOK, Created,
           Guarded, CleanupSteps
  <2>4. CleanupOK(s)'
    BY <1>0, <1>21 DEF CollectSession, TypeOK, SocketInv, StageOK, CleanupOK, Guarded,
           CleanupSteps
  <2>5. \A u \in Sockets \ {s} : Same(u)
    BY <1>0, <1>21 DEF CollectSession, TypeOK, Same
  <2>6. QED
    BY <2>1, <2>2, <2>3, <2>4, <2>5, <1>0, OtherSockets DEF SocketInv
<1>22. ASSUME NEW s \in Sockets, JoinLookup(s)
      PROVE  \A u \in Sockets : SocketInv(u)'
  <2>1. StageOK(s)'
    BY <1>0, <1>22 DEF JoinLookup, TypeOK, SocketInv, StageOK, Created, Guarded, Routed,
           CleanupSteps
  <2>2. WakeOK(s)'
    BY <1>0, <1>22 DEF JoinLookup, TypeOK, SocketInv, StageOK, WakeOK, Created
  <2>3. ClosedOK(s)'
    BY <1>0, <1>22 DEF JoinLookup, TypeOK, SocketInv, StageOK, ClosedOK, Created, Guarded,
           CleanupSteps
  <2>4. CleanupOK(s)'
    BY <1>0, <1>22 DEF JoinLookup, TypeOK, SocketInv, StageOK, CleanupOK, Guarded,
           CleanupSteps
  <2>5. \A u \in Sockets \ {s} : Same(u)
    BY <1>0, <1>22 DEF JoinLookup, TypeOK, Same
  <2>6. QED
    BY <2>1, <2>2, <2>3, <2>4, <2>5, <1>0, OtherSockets DEF SocketInv
<1>23. ASSUME NEW s \in Sockets, JoinRoom(s)
      PROVE  \A u \in Sockets : SocketInv(u)'
  <2>1. StageOK(s)'
    BY <1>0, <1>23 DEF JoinRoom, TypeOK, SocketInv, StageOK, Created, Guarded, Routed,
           CleanupSteps
  <2>2. WakeOK(s)'
    BY <1>0, <1>23 DEF JoinRoom, TypeOK, SocketInv, StageOK, WakeOK, Created
  <2>3. ClosedOK(s)'
    BY <1>0, <1>23 DEF JoinRoom, TypeOK, SocketInv, StageOK, ClosedOK, Created, Guarded,
           CleanupSteps
  <2>4. CleanupOK(s)'
    BY <1>0, <1>23 DEF JoinRoom, TypeOK, SocketInv, StageOK, CleanupOK, Guarded,
           CleanupSteps
  <2>5. \A u \in Sockets \ {s} : Same(u)
    BY <1>0, <1>23 DEF JoinRoom, TypeOK, Same
  <2>6. QED
    BY <2>1, <2>2, <2>3, <2>4, <2>5, <1>0, OtherSockets DEF SocketInv
<1>24. ASSUME NEW s \in Sockets, ReadDisconnect(s)
      PROVE  \A u \in Sockets : SocketInv(u)'
  <2>1. StageOK(s)'
    BY <1>0, <1>24 DEF ReadDisconnect, StartHandlers, TypeOK, SocketInv, StageOK, Created,
           Guarded, Routed, CleanupSteps
  <2>2. WakeOK(s)'
    <3>1. /\ waking[s] \in Nat /\ woken[s] \in Nat /\ named[s] \in Nat
          /\ named'[s] = named[s] + 1 /\ WakeOK(s)
          /\ waking'[s] = IF "wake" \in hooks[s] THEN waking[s] + 1 ELSE waking[s]
      BY <1>0, <1>24 DEF ReadDisconnect, StartHandlers, TypeOK, SocketInv
    <3>2. QED
      BY <3>1, <1>24 DEF ReadDisconnect, WakeOK
  <2>3. ClosedOK(s)'
    BY <1>0, <1>24 DEF ReadDisconnect, StartHandlers, TypeOK, SocketInv, StageOK, ClosedOK,
           Created, Guarded, CleanupSteps
  <2>4. CleanupOK(s)'
    BY <1>0, <1>24 DEF ReadDisconnect, StartHandlers, TypeOK, SocketInv, StageOK, CleanupOK,
           Guarded, CleanupSteps
  <2>5. \A u \in Sockets \ {s} : Same(u)
    BY <1>0, <1>24 DEF ReadDisconnect, StartHandlers, TypeOK, Same
  <2>6. QED
    BY <2>1, <2>2, <2>3, <2>4, <2>5, <1>0, OtherSockets DEF SocketInv
<1>25. ASSUME \A u \in Sockets : Same(u) PROVE \A u \in Sockets : SocketInv(u)'
  BY <1>25, <1>0, SameSocket
<1>26. CASE Shutdown \/ UNCHANGED vars \/ \E s \in Sockets : ReadMessage(s) \/ Dispatch(s) \/ AppClose(s)
  BY <1>26, <1>25 DEF Shutdown, vars, ReadMessage, Dispatch, AppClose, Same
<1>27. QED
  BY <1>1, <1>2, <1>3, <1>4, <1>5, <1>6, <1>7, <1>8, <1>9, <1>10, <1>11, <1>12,
     <1>13, <1>14, <1>15, <1>16, <1>17, <1>18, <1>19, <1>20, <1>21, <1>22,
     <1>23, <1>24, <1>25, <1>26
     DEF Next, SetUp, Handle, Finish

\* Every step preserves the invariant.
LEMMA InvStep == LifecycleInv /\ [Next]_vars => LifecycleInv'
BY TypeStep, TokensStep, CrashStep, SocketStep DEF LifecycleInv

\* LifecycleInv is inductive.
LEMMA InvHolds == Spec => []LifecycleInv
BY InitInv, InvStep, PTL DEF Spec

------------------------------------------------------------------------------
(* The theorems. *)

\* The fields have their types; above all the semaphore never holds more tokens
\* than its capacity and never gives back one that is not out, and only
\* long-polling sockets have sessions.
THEOREM TypeCorrect == Spec => []TypeOK
<1>1. LifecycleInv => TypeOK
  BY DEF LifecycleInv
<1>2. QED
  BY <1>1, InvHolds, PTL

\* A disconnect reported to the application is final, for any number of
\* goroutines that report it.
THEOREM ReportIsFinal == Spec => []ReportedIsGone
<1>1. LifecycleInv => ReportedIsGone
  BY DEF LifecycleInv, SocketInv, CleanupOK, ReportedIsGone
<1>2. QED
  BY <1>1, InvHolds, PTL

\* A closed socket stays in the registry only if a trigger missed the handler.
THEOREM ZombiesWereMissed == Spec => []ZombieOnlyIfMissed
<1>1. LifecycleInv => ZombieOnlyIfMissed
  <2> SUFFICES ASSUME LifecycleInv, NEW s \in Sockets,
                      Quiet(s), ~connected[s], s \in sockets
               PROVE  missed[s]
    BY DEF ZombieOnlyIfMissed
  <2>1. /\ Created(s) /\ closing[s] # "trigger"
        /\ running[s]["delete"] = 0
    BY DEF Quiet, Created, CleanupSteps
  <2>2. ClosedOK(s) /\ missed[s] \in BOOLEAN
    BY DEF LifecycleInv, SocketInv, TypeOK
  <2>3. QED
    BY <2>1, <2>2 DEF ClosedOK
<1>2. QED
  BY <1>1, InvHolds, PTL

\* A socket reported as disconnected is in a room only by a late Join.
THEOREM GhostsJoinedLate == Spec => []GhostOnlyByLateJoin
<1>1. LifecycleInv => GhostOnlyByLateJoin
  BY DEF LifecycleInv, SocketInv, CleanupOK, GhostOnlyByLateJoin
<1>2. QED
  BY <1>1, InvHolds, PTL

\* The request of a long-polling client is woken once by all the Closes together
\* and once by every message that names the event, and the server panics only
\* over such a message, for any number of messages and of callers of Close.
THEOREM PanicsOverNamedEvent == Spec => []PanicsOnlyIfNamed
<1>1. LifecycleInv => PanicsOnlyIfNamed
  <2> SUFFICES ASSUME LifecycleInv PROVE PanicsOnlyIfNamed
    OBVIOUS
  <2>1. ASSUME NEW s \in Sockets
        PROVE  waking[s] + woken[s] <= named[s] + (IF connected[s] THEN 0 ELSE 1)
    <3>1. WakeOK(s) /\ waking[s] \in Nat /\ woken[s] \in Nat /\ named[s] \in Nat
      BY DEF LifecycleInv, TypeOK, SocketInv
    <3>2. QED
      BY <3>1 DEF WakeOK
  <2>2. ASSUME crashed PROVE \E s \in Sockets : named[s] > 0
    <3>1. PICK s \in Sockets : woken[s] > 1
      BY <2>2 DEF LifecycleInv, CrashOK
    <3>2. waking[s] \in Nat /\ woken[s] \in Nat /\ named[s] \in Nat
      BY DEF LifecycleInv, TypeOK
    <3>3. named[s] > 0
      BY <2>1, <3>1, <3>2
    <3>4. QED
      BY <3>3
  <2>3. QED
    BY <2>1, <2>2 DEF PanicsOnlyIfNamed
<1>2. QED
  BY <1>1, InvHolds, PTL

\* The messages of a client that has been announced find their handler.
THEOREM AnnouncedAreServed == Spec => []AnnouncedIsServed
<1>1. LifecycleInv => AnnouncedIsServed
  BY DEF LifecycleInv, SocketInv, StageOK, Routed, TypeOK, AnnouncedIsServed
<1>2. QED
  BY <1>1, InvHolds, PTL
==============================================================================
