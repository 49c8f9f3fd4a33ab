------------------------------ MODULE NodeEvents ------------------------------
(***************************************************************************)
(* Node of socket/distributed/node.go: the process registry, the room      *)
(* subscriptions, and the room and disconnect events that the socket       *)
(* server's handlers write into the mailboxes of processes.                *)
(*                                                                         *)
(* Everything is guarded by node.mu, a sync.RWMutex: a goroutine that has  *)
(* announced a write lock keeps new readers out while it waits for the     *)
(* readers inside.  The event handlers are the only ones that block inside *)
(* the lock, on a full mailbox; every other critical section is one step.  *)
(*                                                                         *)
(* Callers are goroutines of the application or of a supervisor; a process *)
(* function may make the application's calls, Stop included.  What a call  *)
(* does is chosen when it gets the lock, because its arguments are not     *)
(* looked at before.                                                       *)
(***************************************************************************)
EXTENDS Integers, FiniteSets

CONSTANTS
    Ids,          \* process ids
    Objects,      \* Process objects per id, a bound on live goroutines
    Rooms,        \* room names
    Handlers,     \* goroutines the server runs event handlers in
    Callers,      \* goroutines that use the node, process functions aside
    MailboxSize,  \* capacity of a mailbox
    Disconnect,   \* the event that every process is told of
    None

ASSUME NodeAssumption ==
    /\ MailboxSize \in Nat
    /\ None \notin Objects \cup Callers \cup Rooms \cup {Disconnect} \cup (Ids \X Objects)
    /\ Disconnect \notin Rooms
    /\ Callers \cap (Ids \X Objects) = {}

Incarnations == Ids \X Objects
Threads == Callers \cup Incarnations

VARIABLES
    processes,  \* node.processes: the object registered for an id
    subs,       \* node.roomSubscriptions
    alive,      \* Process.alive
    cancelled,  \* objects whose own context is cancelled
    nodeDone,   \* node.ctx is cancelled, and every context below it
    mailbox,    \* number of messages waiting in every object
    pc,         \* where every caller and every process goroutine is
    found,      \* the object a call of Send has looked up
    announced,  \* the thread that has announced a write lock of node.mu
    event,      \* the event a handler delivers under node.mu's read lock
    todo,       \* ids the handler's range has still to visit
    got,        \* history: objects the handler has written to
    late,       \* history: ids that were subscribed while not registered
    replaced    \* history: objects that a spawn of their id has replaced

regVars == <<processes, subs, alive, cancelled, late, replaced>>
eventVars == <<event, todo, got>>
vars == <<regVars, nodeDone, mailbox, pc, found, announced, eventVars>>

Registered == {o \in Incarnations : processes[o[1]] = o[2]}

\* The handlers that hold node.mu's read lock.
Readers == {h \in Handlers : event[h] # None}

\* A node as NewNode leaves it.
Init ==
    /\ processes = [i \in Ids |-> None]
    /\ subs = [i \in Ids |-> {}]
    /\ alive = {} /\ cancelled = {} /\ nodeDone = FALSE
    /\ mailbox = [o \in Incarnations |-> 0]
    /\ pc = [t \in Threads |-> IF t \in Callers THEN "idle" ELSE "ended"]
    /\ found = [t \in Threads |-> None]
    /\ announced = None
    /\ event = [h \in Handlers |-> None]
    /\ todo = [h \in Handlers |-> {}]
    /\ got = [h \in Handlers |-> {}]
    /\ late = {} /\ replaced = {}

------------------------------------------------------------------------------
(* Room and disconnect events, each in a goroutine of the socket server.    *)

\* The ids that an event's handler ranges over.
Interested(e) ==
    IF e = Disconnect THEN {i \in Ids : processes[i] # None}
                      ELSE {i \in Ids : e \in subs[i]}

\* handleRoomJoin, handleRoomLeave, handleSocketDisconnect: RLock.
HandleEvent(h, e) ==
    /\ event[h] = None /\ announced = None
    /\ event' = [event EXCEPT ![h] = e]
    /\ todo' = [todo EXCEPT ![h] = Interested(e)]
    /\ UNCHANGED <<regVars, nodeDone, mailbox, pc, found, announced, got>>

\* One turn of the range: the send blocks while the mailbox is full.
Post(h, i) ==
    LET o == <<i, processes[i]>> IN
    /\ i \in todo[h]
    /\ todo' = [todo EXCEPT ![h] = @ \ {i}]
    /\ IF processes[i] # None /\ o \in alive
       THEN /\ mailbox[o] < MailboxSize
            /\ mailbox' = [mailbox EXCEPT ![o] = @ + 1]
            /\ got' = [got EXCEPT ![h] = @ \cup {o}]
       ELSE UNCHANGED <<mailbox, got>>
    /\ UNCHANGED <<regVars, nodeDone, pc, found, announced, event>>

\* Mutant: a handler that meets a full mailbox gives up, like Send.
EventHandledFull(h) ==
    /\ event[h] # None
    /\ \A i \in todo[h] : processes[i] # None /\ mailbox[<<i, processes[i]>>] = MailboxSize
    /\ event' = [event EXCEPT ![h] = None]
    /\ todo' = [todo EXCEPT ![h] = {}]
    /\ got' = [got EXCEPT ![h] = {}]
    /\ UNCHANGED <<regVars, nodeDone, mailbox, pc, found, announced>>

\* The range is over: RUnlock.
EventHandled(h) ==
    /\ event[h] # None /\ todo[h] = {}
    /\ event' = [event EXCEPT ![h] = None]
    /\ got' = [got EXCEPT ![h] = {}]
    /\ UNCHANGED <<regVars, nodeDone, mailbox, pc, found, announced, todo>>

------------------------------------------------------------------------------
(* The goroutine of a process. *)

GoTo(t, where) == pc' = [pc EXCEPT ![t] = where]

TakeMessage(o) ==
    /\ pc[o] = "select" /\ mailbox[o] > 0
    /\ mailbox' = [mailbox EXCEPT ![o] = @ - 1]
    /\ GoTo(o, "handle")
    /\ UNCHANGED <<regVars, nodeDone, found, announced, eventVars>>

\* Mutant: an error of the function ends the goroutine.
FunctionReturnsFatal(o) ==
    /\ pc[o] = "handle"
    /\ GoTo(o, "select") \/ GoTo(o, "ended")
    /\ UNCHANGED <<regVars, nodeDone, mailbox, found, announced, eventVars>>

\* An error of the function is only logged.
FunctionReturns(o) ==
    /\ pc[o] = "handle"
    /\ GoTo(o, "select")
    /\ UNCHANGED <<regVars, nodeDone, mailbox, found, announced, eventVars>>

\* ctx.Done is ready: the goroutine may return, or take one more message.
LoopEnds(o) ==
    /\ pc[o] = "select"
    /\ o \in cancelled \/ nodeDone
    /\ GoTo(o, "ended")
    /\ UNCHANGED <<regVars, nodeDone, mailbox, found, announced, eventVars>>

------------------------------------------------------------------------------
(* Calls that read the registry: Send and GetProcessStats. *)

\* Where a thread is when it is in no call.
Base(t) == IF t \in Callers THEN "idle" ELSE "handle"

CallRead(t) ==
    /\ pc[t] = Base(t)
    /\ GoTo(t, "rlock")
    /\ UNCHANGED <<regVars, nodeDone, mailbox, found, announced, eventVars>>

\* Send looks the object up under the lock and uses it after it.
SendLookup(t, i) ==
    /\ pc[t] = "rlock" /\ announced = None
    /\ IF processes[i] = None
       THEN GoTo(t, Base(t)) /\ UNCHANGED found
       ELSE GoTo(t, "enqueue") /\ found' = [found EXCEPT ![t] = <<i, processes[i]>>]
    /\ UNCHANGED <<regVars, nodeDone, mailbox, announced, eventVars>>

\* A killed process or a full mailbox refuses the message; Send never blocks.
Enqueue(t) ==
    /\ pc[t] = "enqueue"
    /\ mailbox' = [mailbox EXCEPT ![found[t]] =
                     IF found[t] \in alive /\ @ < MailboxSize THEN @ + 1 ELSE @]
    /\ GoTo(t, Base(t))
    /\ found' = [found EXCEPT ![t] = None]
    /\ UNCHANGED <<regVars, nodeDone, announced, eventVars>>

GetProcessStats(t) ==
    /\ pc[t] = "rlock" /\ announced = None
    /\ GoTo(t, Base(t))
    /\ UNCHANGED <<regVars, nodeDone, mailbox, found, announced, eventVars>>

------------------------------------------------------------------------------
(* Calls that write it: the steps of node.mu.Lock, then the call itself. *)

CallWrite(t) ==
    /\ pc[t] = Base(t)
    /\ GoTo(t, "lock")
    /\ UNCHANGED <<regVars, nodeDone, mailbox, found, announced, eventVars>>

\* Stop cancels the node's context before it locks.
CallStop(t) ==
    /\ pc[t] = Base(t)
    /\ nodeDone' = TRUE
    /\ GoTo(t, "stop")
    /\ UNCHANGED <<regVars, mailbox, found, announced, eventVars>>

\* A supervisor has found a process to restart, on a running node.
CallRestart(t) ==
    /\ t \in Callers /\ pc[t] = Base(t)
    /\ ~nodeDone
    /\ GoTo(t, "restart")
    /\ UNCHANGED <<regVars, nodeDone, mailbox, found, announced, eventVars>>

\* An object that no goroutine, map entry or sender refers to.
Free(o) == pc[o] = "ended" /\ o \notin Registered /\ \A t \in Threads : found[t] # o

\* One writer at a time waits for the readers, and no reader gets past it.
\* Objects bounds the restarts.
Announce(t) ==
    /\ pc[t] \in {"lock", "stop", "restart"} /\ announced = None
    /\ pc[t] = "restart" => \E o \in Incarnations : Free(o)
    /\ announced' = t
    /\ UNCHANGED <<regVars, nodeDone, mailbox, pc, found, eventVars>>

\* The thread has the write lock, and gives it back as it returns.
Writes(t, where) ==
    /\ announced = t /\ pc[t] = where /\ Readers = {}
    /\ announced' = None
    /\ UNCHANGED <<nodeDone, found, eventVars>>

\* A new object for the id, and its goroutine.
Start(t, o) ==
    /\ Free(o)
    /\ processes' = [processes EXCEPT ![o[1]] = o[2]]
    /\ alive' = alive \cup {o}
    /\ mailbox' = [mailbox EXCEPT ![o] = 0]
    /\ pc' = [pc EXCEPT ![o] = "select", ![t] = Base(t)]
    /\ UNCHANGED <<subs, late>>

\* The registered object of an id, if there is one.
Current(i) == {o \in Registered : o[1] = i}

\* Mutant: the node's context is not tested.
SpawnOnStopped(t, o) ==
    /\ Writes(t, "lock")
    /\ Start(t, o)
    /\ cancelled' = cancelled \ {o}
    /\ replaced' = (replaced \cup Current(o[1])) \ {o}

\* SpawnProcessWithID, SpawnProcessWithIDAndOptions: an object that is
\* registered already is dropped from the map and goes on running.
Spawn(t, o) ==
    /\ Writes(t, "lock")
    /\ ~nodeDone
    /\ Start(t, o)
    /\ cancelled' = cancelled \ {o}
    /\ replaced' = (replaced \cup Current(o[1])) \ {o}

\* The node is stopped: ErrNodeStopped.
SpawnRefused(t) ==
    /\ Writes(t, "lock")
    /\ nodeDone
    /\ GoTo(t, Base(t))
    /\ UNCHANGED <<regVars, mailbox>>

\* restartProcess: the old object is cancelled.  The context of the node is
\* not looked at again, so the goroutine may end at once.
RestartProcess(t, o) ==
    /\ Writes(t, "restart")
    /\ Start(t, o)
    /\ cancelled' = (cancelled \cup Current(o[1])) \ {o}
    /\ replaced' = replaced \ {o}

\* Mutant: the context of a killed process is not cancelled.
KillUncancelled(t, i) ==
    /\ Writes(t, "lock")
    /\ alive' = alive \ Current(i)
    /\ processes' = [processes EXCEPT ![i] = None]
    /\ subs' = IF Current(i) = {} THEN subs ELSE [subs EXCEPT ![i] = {}]
    /\ late' = IF Current(i) = {} THEN late ELSE late \ {i}
    /\ GoTo(t, Base(t))
    /\ UNCHANGED <<cancelled, mailbox, replaced>>

\* Mutant: the subscriptions of a killed process stay.
KillKeepsSubs(t, i) ==
    /\ Writes(t, "lock")
    /\ cancelled' = cancelled \cup Current(i)
    /\ alive' = alive \ Current(i)
    /\ processes' = [processes EXCEPT ![i] = None]
    /\ late' = IF Current(i) = {} THEN late ELSE late \ {i}
    /\ GoTo(t, Base(t))
    /\ UNCHANGED <<subs, mailbox, replaced>>

\* Killing an id that is not registered changes nothing, not even its subscriptions.
Kill(t, i) ==
    /\ Writes(t, "lock")
    /\ cancelled' = cancelled \cup Current(i)
    /\ alive' = alive \ Current(i)
    /\ processes' = [processes EXCEPT ![i] = None]
    /\ subs' = IF Current(i) = {} THEN subs ELSE [subs EXCEPT ![i] = {}]
    /\ late' = IF Current(i) = {} THEN late ELSE late \ {i}
    /\ GoTo(t, Base(t))
    /\ UNCHANGED <<mailbox, replaced>>

\* Whether the id is registered is not tested.
Subscribe(t, i, r) ==
    /\ Writes(t, "lock")
    /\ subs' = [subs EXCEPT ![i] = @ \cup {r}]
    /\ late' = IF processes[i] = None THEN late \cup {i} ELSE late
    /\ GoTo(t, Base(t))
    /\ UNCHANGED <<processes, alive, cancelled, mailbox, replaced>>

\* Mutant: a call for an id without subscriptions returns without unlocking.
UnsubscribeKeepsLock(t, i, r) ==
    /\ announced = t /\ pc[t] = "lock" /\ Readers = {}
    /\ announced' = IF subs[i] = {} THEN announced ELSE None
    /\ subs' = [subs EXCEPT ![i] = @ \ {r}]
    /\ GoTo(t, Base(t))
    /\ UNCHANGED <<processes, alive, cancelled, late, replaced, mailbox, nodeDone,
                   found, eventVars>>

Unsubscribe(t, i, r) ==
    /\ Writes(t, "lock")
    /\ subs' = [subs EXCEPT ![i] = @ \ {r}]
    /\ GoTo(t, Base(t))
    /\ UNCHANGED <<processes, alive, cancelled, late, mailbox, replaced>>

\* Stop leaves alive and the subscriptions as they are.
StopDelete(t) ==
    /\ Writes(t, "stop")
    /\ cancelled' = cancelled \cup Registered
    /\ processes' = [i \in Ids |-> None]
    /\ GoTo(t, Base(t))
    /\ UNCHANGED <<subs, alive, mailbox, late, replaced>>

------------------------------------------------------------------------------
Lookup(t) == GetProcessStats(t) \/ \E i \in Ids : SendLookup(t, i)

Write(t) ==
    \/ \E o \in Incarnations : Spawn(t, o) \/ RestartProcess(t, o)
    \/ SpawnRefused(t)
    \/ \E i \in Ids : Kill(t, i) \/ \E r \in Rooms : Subscribe(t, i, r) \/ Unsubscribe(t, i, r)
    \/ StopDelete(t)

Next ==
    \/ \E h \in Handlers : \/ \E e \in Rooms \cup {Disconnect} : HandleEvent(h, e)
                           \/ \E i \in Ids : Post(h, i)
                           \/ EventHandled(h)
    \/ \E o \in Incarnations : TakeMessage(o) \/ FunctionReturns(o) \/ LoopEnds(o)
    \/ \E t \in Threads : \/ CallRead(t) \/ Lookup(t) \/ Enqueue(t)
                          \/ CallWrite(t) \/ CallStop(t) \/ CallRestart(t)
                          \/ Announce(t) \/ Write(t)

Spec == Init /\ [][Next]_vars

\* Goroutines run, functions make finitely many calls and return.  Senders on
\* a full channel and goroutines at a mutex are served in their turn, and a
\* select with two ready cases takes either in the long run.
Fairness ==
    /\ \A h \in Handlers : SF_vars(\E i \in Ids : Post(h, i)) /\ WF_vars(EventHandled(h))
    /\ \A o \in Incarnations :
         WF_vars(TakeMessage(o)) /\ SF_vars(FunctionReturns(o)) /\ SF_vars(LoopEnds(o))
    /\ \A t \in Threads :
         SF_vars(Lookup(t)) /\ WF_vars(Enqueue(t)) /\ SF_vars(Announce(t))
         /\ WF_vars(Write(t))

FairSpec == Spec /\ Fairness

------------------------------------------------------------------------------
(* Properties. *)

\* Every field and local is of the code's type and no mailbox exceeds its capacity.
TypeOK ==
    /\ processes \in [Ids -> Objects \cup {None}]
    /\ subs \in [Ids -> SUBSET Rooms]
    /\ alive \subseteq Incarnations /\ cancelled \subseteq Incarnations
    /\ nodeDone \in BOOLEAN
    /\ mailbox \in [Incarnations -> 0..MailboxSize]
    /\ pc \in [Threads -> {"idle", "select", "handle", "ended", "rlock",
                         "enqueue", "lock", "stop", "restart"}]
    /\ found \in [Threads -> Incarnations \cup {None}]
    /\ announced \in Threads \cup {None}
    /\ event \in [Handlers -> Rooms \cup {Disconnect, None}]
    /\ todo \in [Handlers -> SUBSET Ids]
    /\ got \in [Handlers -> SUBSET Incarnations]
    /\ late \subseteq Ids /\ replaced \subseteq Incarnations

\* When a handler returns it has written its event to exactly the processes
\* that are registered and subscribed then, although it may have been blocked
\* on any of their mailboxes for as long as it took: no process is killed,
\* started or subscribed under it.
EventsExact ==
    [][\A h \in Handlers :
         (event[h] # None /\ event'[h] = None)
           => got[h] = {o \in Registered \cap alive : o[1] \in Interested(event[h])}]_vars

\* A process starts without subscriptions: what the maps hold for an id that
\* is not registered comes from a Subscribe that was too late for its process
\* or from a stopped node, never from a process that was killed.
OrphanOnlyByLateSubscribe ==
    \A i \in Ids : subs[i] # {} => processes[i] # None \/ i \in late \/ nodeDone

\* A goroutine that nothing will cancel and no id leads to is one whose id was
\* spawned a second time: kills and restarts leave none behind.
LeakOnlyByRespawn ==
    \A o \in Incarnations :
      (pc[o] # "ended" /\ o \notin Registered) => o \in cancelled \/ o \in replaced \/ nodeDone

\* A handler that never gets rid of its event is blocked on a full mailbox
\* whose process waits for node.mu itself, or has ended because the node was
\* stopped: a slow, failing or killed process alone never blocks it for good.
StuckHandlerExplained ==
    \A h \in Handlers :
      <>[](event[h] # None)
        => <>[](\E i \in todo[h], k \in Objects :
                  LET o == <<i, k>> IN
                  /\ o \in Registered /\ mailbox[o] = MailboxSize
                  /\ \/ pc[o] \in {"rlock", "lock", "stop"}
                     \/ pc[o] = "ended" /\ nodeDone)

\* Whoever waits for node.mu for ever waits behind such a handler; otherwise
\* every call of Send, Spawn, Kill, Subscribe or Stop returns.
LockStuckOnlyByHandler ==
    \A t \in Threads :
      <>[](pc[t] \in {"rlock", "lock", "stop"}) => \E h \in Handlers : <>[](event[h] # None)

\* Once the node is stopped every goroutine ends for good, the ones that no id
\* leads to included, unless a handler is stuck.
StoppedNodeEnds ==
    <>nodeDone => \/ <>[](\A o \in Incarnations : pc[o] = "ended")
                  \/ \E h \in Handlers : <>[](event[h] # None)

\* Stated by docs/distributed.md: a process that subscribes to rooms is told
\* of the joins and leaves, so the handler gets its event delivered.
EventsDelivered == \A h \in Handlers : event[h] # None ~> event[h] = None
==============================================================================
