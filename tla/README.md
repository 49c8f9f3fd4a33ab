# socket.go in TLA+

TLA+ models of the server, the rooms, the transports, the client, and the nodes,
supervisors and process groups of `socket.go`, TLC configurations that check them on
small instances, and TLAPS proofs of their safety properties for every instance.

Source paths below are relative to the repository (`socket/...`, `docs/...`).

## 1. The system

| Component | State | Operations | Talks to |
|---|---|---|---|
| `RoomManager`, `Room` (`socket/room.go`) | name → `*Room`, and per room a set of sockets; one RWMutex each | `GetRoom`, `JoinRoom`, `LeaveRoom`, `LeaveAllRooms`, `RemoveRoom`, `BroadcastToRoom` | called by `Server`; sends to sockets |
| `Server` (`socket/server.go`) | `sockets`, `sessions`, `concurrencySemaphore`, event handlers | `HandleHTTP` and its endpoints, `handleSocket`, `cleanupSessions`, `Join`, `In`, `Broadcast`, `Shutdown` | owns sockets, rooms, long-polling sessions |
| `socketImpl` (`socket/socket_impl.go`) | `connected`, handlers, transport | `receiveLoop`, `triggerEvent`, `On`, `Off`, `Send`, `Close` | calls back into `Server` through its disconnect handler |
| `WebSocketServerTransport` (`socket/transport/server_transport.go`) | `sendCh`, `closeCh`, `closed`, `writeWg`, the connection | `writePump`, `Read`, `Write`, `Close` | the socket above, gorilla/websocket below |
| `LongPollingServerTransport` (same file) | `pendingMessages`, `incomingMessages`, `closed`, `lastActivity` | `HandlePoll`, `HandleSend`, `Read`, `Write`, `Close`, `IsExpired` | the endpoints of `Server` |
| `LongPollingTransport` (`socket/transport/longpolling.go`) | `sessionID`, `connected`, `incomingQueue`, `ctx` | `Connect`, `poll`, `fetchMessages`, `Receive`, `Send`, `Close` | the endpoints, over HTTP |
| `WebSocketTransport` (`socket/transport/websocket.go`) | the connection, `connected` | `Connect`, `Send`, `Receive`, `Close`, batch variants | `Client` |
| `Client` (`socket/client.go`) | `connected`, handlers, rooms, batch queue | `Connect`, three loops, `reconnect`, `Join`, `Leave`, `Send`, `Close` | one client transport |
| `Node`, `Process` (`socket/distributed/node.go`) | `processes`, `roomSubscriptions`, mailboxes, contexts; one RWMutex | `Spawn...`, `Send`, `Kill`, `Stop`, `Subscribe`, `Unsubscribe`, the handlers of room and disconnect events | handlers run in goroutines of the `Server`; process functions call back |
| `Supervisor` (same file) | `restartTracker` per id | `monitor`, `checkProcesses`, `restartProcess` | `Node`, under its mutex |
| `Cluster`, `LoadBalancedProcessGroup` (same file) | `RemoteNodes` (filled by nobody but the application), `processList`, `nextIndex` | `checkNodeLiveness`, `RemoteCall`, `BroadcastMessage`; `AddProcess`, `RemoveProcess`, `Send`; the rest only logs | `Node` |

What makes it hard:

* **Concurrency.** Every connection has at least three goroutines (set-up, receive
  loop, write pump), every handler of an event runs in a goroutine of its own, and
  most methods are several critical sections on different mutexes.
* **Teardown.** A socket may be closed by the application, its receive loop,
  `/disconnect`, `cleanupSessions` (under `Server.mu`) and `Shutdown`, at any point of
  its set-up.
* **Delivery.** Long polling runs over requests that time out, get lost or are
  handled after the client has given up.
* **Locks.** `node.mu` is held while a room event waits for room in a mailbox; the
  client's `Connect` unlocks its mutex twice, which ends the program or lets two
  goroutines into one section, and its `Join` takes it twice.
* **Time.** Sessions expire; restarts are counted within a sliding period, by a clock
  that is read before the wait for `node.mu`.

The properties that make each component correct:

* rooms: a join takes effect, leaving leaves every room, empty rooms go, a broadcast
  reaches those who are there;
* sockets: a disconnect is reported, final and cleans up; nothing panics or leaks, and
  what a client sends does not disconnect it;
* websocket transport: FIFO without gaps, one close, nothing written after it;
* long polling: in order, no repetition, an acknowledged message is read;
* supervisor: restart limit, restart strategy, self-healing, an orderly stop;
* node: an event reaches exactly the subscribed processes, nothing outlives its
  process, and the node does not come to a stop;
* client: messages written in order and once, every connection ended once, a close
  that is final, a mutex that nobody leaves locked;
* process groups: a fair rotation, choices in proportion to the weights.

## 2. Modules

| Module | Models | Extends / uses |
|---|---|---|
| `Rooms` | `room.go`, critical section by critical section | instantiates `Membership` |
| `Membership` | the abstract promise of the rooms: one relation between sockets and names | |
| `RoomsProofs` | six theorems about `Rooms`, one of them the refinement | `Rooms`, `TLAPS` |
| `OrderedPipe` | the abstract promise of a websocket connection: an ordered pipe that may close | |
| `LossyPipe` | the abstract promise of a connection without acknowledgements: a pipe that may lose messages and repeats none | |
| `WsServerTransport` | `WebSocketServerTransport` | instantiates `OrderedPipe` |
| `WsServerTransportProofs` | four theorems, one of them the refinement | `WsServerTransport`, `TLAPS` |
| `SocketLifecycle` | `Server` and `socketImpl` from HTTP request to the last trace of a socket | |
| `SocketLifecycleProofs` | six theorems about `SocketLifecycle` | `SocketLifecycle`, `TLAPS` |
| `LongPolling` | both long-polling transports, the endpoints and the network between them | instantiates `LossyPipe`, once for each direction |
| `LongPollingProofs` | four theorems about `LongPolling`, one of them the refinement | `LongPolling`, `TLAPS` |
| `Supervisor` | `Supervisor`, `Process` and the parts of `Node` they use | |
| `SupervisorProofs` | three theorems about `Supervisor` | `Supervisor`, `TLAPS` |
| `NodeEvents` | `Node`: registry, subscriptions, room events, `node.mu` as a reader-writer lock | |
| `NodeEventsProofs` | four theorems about `NodeEvents` | `NodeEvents`, `TLAPS` |
| `Cluster` | `Cluster` and `LoadBalancedProcessGroup` | |
| `ClusterProofs` | six theorems about `Cluster` | `Cluster`, `TLAPS` |
| `Client` | `Client` on a `WebSocketTransport` | instantiates `LossyPipe` |
| `ClientProofs` | six theorems about `Client`, one of them the refinement | `Client`, `TLAPS` |
| `MC...` | instances for TLC, with symmetry sets where they are sound | the module of that name |

Operators introduced by a comment starting with `Mutant:` are wrong variants of the
definition that follows them. They are part of no specification; putting one in the place of
the right definition shows that the property it is paired with in `PROJECT.json`
would notice.

### Rooms

One action is one critical section. `pc[t]` is where goroutine `t` is between two of
them, and `name`, `sock`, `room`, `todo`, `targets`, `sent` are its locals.
`GetRoomLookup`/`GetRoomCreate` are the two halves of `GetRoom`'s double-checked
creation; `RemoveSocket`, `CountSockets` and `RemoveRoom` are the three critical
sections of `LeaveRoom`; `CopyRooms` and `ScanRoom` are the snapshot and the loop of
`LeaveAllRooms`. A `*Room` is a pair of name and id, so that two rooms of one name can
exist at different times; unreferenced objects may be allocated again, which keeps
runs of any length finite. `struck`, `queried`, `rejoined`, `stable` are history
variables the properties need; `Remember` updates the last two from the step.

`Membership` knows only who is in which room and which calls are under way. A
`JoinRoom` acts in one moment, and so does a `LeaveRoom`; `LeaveAllRooms` leaves one
room after the other. `Sweep` is a leaver that removes a room with everybody in it:
calls that have found that room and not acted yet lose their effect. `Member` maps the
relation to the members of the registered rooms, whatever object they are, and `Phase`
says how far a call is: `swept` when the room in its hand is no longer registered,
`left` when a leaver has removed the socket. The abstract specification allows what
`room.go` does and no more: a join that returns has had its effect unless the room
it had found was removed, a leave does not take anybody else out before it removes the
room, and a leave may return without having acted only when nobody is in the room.

### WsServerTransport and OrderedPipe

Actors: the pump, the reader, and any number of callers of `Write` and `Close`. `t.mu`
is held over several steps only by the pump inside `WriteMessage` (`MuFree`). The
`select` of the pump picks any ready case. The connection is external: a write
succeeds or fails, a read fails whenever it likes. `OrderedPipe` has a sequence of
accepted messages, the delivered prefix of it and a flag `open`; `Pipe` maps
`delivered` to the wire and `open` to `~closed`.

### SocketLifecycle

`stage[s]` follows the goroutine of `tryWebSocketUpgrade` or
`handleLongPollingConnect` through `handleSocket`; `loop[s]` is the receive loop,
`callers[s]` and `closing[s]` are calls of `Close` before and after its test of
`connected`, `running[s]` counts the goroutines in each step of the disconnect
handler. `Server.mu` is held over several steps only by `cleanupSessions`
(`reaping`). The kind of transport is decided by the request; one whose upgrade was
refused or failed goes on to the long-polling endpoints, as `HandleHTTP` does
(`LongPollingConnect`). Rooms are reduced to "in some room", since `Rooms` has the detail. `hooks[s]` are the handlers the server itself
installs on a socket: the route of messages, the cleanup, and for long polling the one
that releases the waiting goroutine. A message is read (`ReadMessage`) and handed to the
application (`Dispatch`) by the first of them; `Off` is the application's
`Off(EventDisconnect)`, which removes the other two.

The receive loop triggers any event a message names. `ReadDisconnect` is a message that
names `disconnect`: it starts the server's own handlers (`StartHandlers`), as a `Close`
or a failed `Read` does (`Trigger`), and the loop reads on. A second run of the handler
that closes `disconnectChan` panics (`Wake`); no step follows that (`crashed`). `MaxNamed`
bounds these messages, `MaxDispatch` the handler goroutines of a socket. Handlers are
registered with the server before it serves.

### LongPolling

One client transport and its session, from `Connect` to `Close`. The poll, send,
connect and disconnect requests are each sent, handled and answered in separate
steps; a request may be given up at any time (`PollAbandoned`, `SendAbandoned`,
`ConnectError`) and still be handled later (`stale`, `up[m] = "sent"`). Messages are
numbers; `Encode` is what JSON makes of a `[][]byte`. There is no second `Connect`:
`Client.reconnect` finds the transport connected and returns, and `Client.Close`
cancels the context a later one would need. `load`, chosen at the start, says how many
messages each side writes.

Each direction is a `LossyPipe`. From the server (`DownPipe`) a message is in transit in
`pending`, in a reply, in the poll goroutine's hand or in the client's queue, and the
pipe is ordered: messages come out in the order of `Write`, with gaps. From the client
(`UpPipe`) it is in transit in a request or in `incomingMessages`, and the pipe is not
ordered, since a request that `Send` has given up may be handled after a later one.

### Supervisor

Ids are numbered as in `SupervisorSpec.Processes`; `processes[i]` is the object
registered for an id, and an object's goroutine (`loop`) may outlive its registration.
`CheckProcesses` is the scan under the read lock; the calls of `restartProcess` follow
it one at a time, with `node.mu` free in between. Such a call is `RestartRefused`, or
`BeginRestart`, which reads the clock, forgets old restarts and tests the limit, and then
`RestartProcess`, when it has got `node.mu`. Between the two (`locking`) any number of
ticks may pass, since a handler of room events may hold `node.mu` (module `NodeEvents`);
`waited` counts them, and `RestartProcess` gives the tracker the clock reading from
before the wait. Time counts ticks of the supervisor's ticker; `age` is the age of
`lastTime`. Both are cut off where they no longer matter.

### NodeEvents

`node.mu` is a `sync.RWMutex`. Its readers inside are the handlers with an event
(`Readers`); a writer first announces itself (`Announce`), which keeps new readers out,
and has the lock when the readers are gone (`Writes`). Only the three event handlers
stay inside over several steps: `HandleEvent` is their `RLock` and the start of the
range, `Post` one turn of it, which waits while the mailbox is full, `EventHandled` the
`RUnlock`. All other critical sections are one step; `Send` uses the object it looked
up after the lock (`SendLookup`, `Enqueue`). A thread is a caller or the goroutine of a
process, whose function may make any call, `Stop` included. What a call does is decided
when it has the lock. Objects are used again when nothing refers to them any more. `late` and
`replaced` are histories.

### Cluster

The map of nodes, its liveness check with time in heartbeat ticks, and
`BroadcastMessage` with a goroutine per node and the unsynchronised write to `results`
as a step of its own. A group is its list of weights: nothing else decides where a
message goes. `Totals` are the running totals of the weighted loop, which takes the
first process whose total exceeds the selection. The strategy is chosen at the start.
`SendPanics` is the index out of
range; the deferred unlock runs, so the group goes on. `AddNode` is external, since
nothing in the repository fills `RemoteNodes`.

### Client

`pc[g]` says where a goroutine is: a caller of the application, a reconnect goroutine, or
one of the two loops (`Writer(k)`, `Receiver(k)`) that the `k`-th `Connect` to get through
has started. With batches `batchProcessingLoop` writes, otherwise `sendLoop`.

Every section of the code under the write lock of `c.mu` is several steps: one that takes
it (`Lock`), those that read and change the client, and one that unlocks it (`Unlock`,
mostly in `Unlocks`, the deferred one). Sections that only read are one step (`RLock`), so
no writer is ever seen waiting for a reader. Go's `Unlock` does not ask who holds the
mutex. With nobody in it the program ends (`crashed = "unlock"`); otherwise the next `Lock` succeeds while the one it was taken from
still goes through its section. `Connect` unlocks twice on each way out
(`ConnectStarts` or `ConnectFails`, then `ConnectReturns`), so the model has both outcomes.
Two histories record the second: `doubled` counts the second `Unlock`s that found the
mutex locked, and `torn` says that one has hit a goroutine between its test of `connected`
and the change that rests on it (`Midway`). `ReceiveUnlocked` is the use of `t.conn` after
the transport's own unlock, which finds nil if `Close` came first (`crashed = "nil"`).
`Next` stops at a crash.

`connects` counts the `Connect`s that got through, `reports` the disconnects
`handleDisconnect` acted on, `started` the sets of loops; each is bounded by `Connects`.
`Calls` says which calls besides `Connect` the application makes, so that a run can leave
out what its question does not need. `OnOrOff` is a section and nothing else: what the
handlers do is the application's.

From `Send` to the connection the client is a `LossyPipe`: in transit is what is in the
buffer and in the writing loops' `batch`, delivered what was written. The pipe is ordered
as long as one set of loops has been started (`started <= 1`). A message that is no JSON is
dropped by the loop (`WriterDrops`). A loop that reports a failed write holds nothing any
more: part of its batch may be on the wire, and what is not is lost. That none of it is
tried again is what `PipeSpec` adds to `WrittenInOrder`.

## 3. Runs

`tlc -config <cfg> <module>`; every run takes less than three minutes on two workers.

| Run (cfg) | Instance | What it shows |
|---|---|---|
| `rooms_leave_all` (MCRoomsSafety) | 2 goroutines, 2 names, 2 objects each, 1 socket | refinement of `Membership`; a socket is lost only in a room that `RemoveRoom` took away while in use; `LeaveAllRooms` leaves every room |
| `rooms_broadcast` (MCRoomsLiveness) | 2 goroutines, 1 name, 2 sockets | no empty room without somebody about to act on it; an emptied room goes or is joined; a lasting member is sent the broadcast |
| `ws_transport` (MCWs) | 2 callers, 3 messages, buffer of 1 | a single closer, the connection outlives the pump, refinement of `OrderedPipe` with its progress, `Close` completes |
| `lifecycle` (MCLifecycle) | 1 socket of either kind, 1 token, 1 handler goroutine, 1 message that names `disconnect` | what a reported disconnect means (`ReportedIsGone`, `ZombieOnlyIfMissed`, `GhostOnlyByLateJoin`); `disconnectChan` is closed once for the `Close` and once for each time the client names the event, and only that panics; an announced client is listened to; disconnects are reported |
| `longpolling` (MCLongPolling) | 3 messages down or 2 up, queues of 1, 1 stale poll | order, no repetition, refinement of `LossyPipe` in each direction; written messages leave the server; acknowledged messages are queued exactly once, and read |
| `supervisor_rest` (MCSupervisorRest) | 2 ids, 2 objects each, rest_for_one, 1 restart per tick | a stale scan replaces no running process it should not |
| `supervisor_live` (MCSupervisorLive) | 1 id, 2 objects, 2 restarts in 2 ticks, mailbox of 1 | never more than `MaxRestarts + 1` restarts in a period; self-healing after refusals; `Stop` ends everything |
| `node_safety` (MCNodeEvents) | 2 handlers, 1 caller, 1 id with 2 objects, mailbox of 1 | events reach exactly the registered subscribers (`EventsExact`); subscriptions without a process come from a late `Subscribe`; only a second spawn leaks a goroutine |
| `node_live` (MCNodeEventsLive) | the same with 1 object | a handler is stuck only behind a process that waits for `node.mu` or ended with the node; without a stuck handler every call returns and every goroutine ends after `Stop` |
| `cluster` (MCCluster) | 2 nodes, lists of up to 3, weights -1, 0, 2, every strategy | results are written only for nodes dropped meanwhile; fair rotation; a panic only after a removal; weighted shares |
| `client` (MCClient) | 1 application goroutine with every call, 2 sets of loops, 2 reconnects with 1 attempt each, 2 messages, buffer of 1, batches of 1 and 2 | refinement of `LossyPipe`; nothing is written twice, and in order on one set; every `Connect` that got through ends once; a `Close` is final; who is in a section under `c.mu`, and that nobody leaves it locked |
| `node_stuck` (MCNodeEventsStuck) | 1 handler, 1 object | counterexample, see section 6 |

Why the bounds are enough to be interesting:

* Rooms: races in `room.go` are between two goroutines on one name, and two names are
  needed for `LeaveAllRooms` to have something left to do; two objects of a name let a
  removed room coexist with its successor. The theorems remove the bound.
* Transport: buffer 1 with three messages and two callers makes the buffer full while
  the pump is busy and a second writer is between its test and its send.
* Lifecycle: sockets share only `Server.mu` and the semaphore. One socket has all
  five sources of `Close` against all stages of its set-up. With one socket and one
  token nobody is refused for want of a token; a failed upgrade leads to the same place.
  One message that names `disconnect` is enough for a panic, together with a `Close`.
* Long polling: one message more than the queue holds, one poll that outlives its
  client; the two directions share only the session's state, so they get different
  loads.
* Supervisor: a period of two ticks with two restarts is the smallest instance in
  which restarts of different ages count together. `MailboxSize = 0` in
  `supervisor_rest`, because messages play no part in restarts. Waits are not bounded:
  `waited` stops counting past the period.
* Node: one slot in the mailbox and two handlers make one of them wait while the
  process is busy with the other's event; two objects let a replaced goroutine run on
  beside its successor. The liveness run does without the second object, which
  matters for leaks only.
* Cluster: with three entries removing one leaves an index out of range and a list to
  rotate on; a negative weight makes the running totals fall.
* Client: with two sets of loops a reconnect overlaps with the loops that caused it. One
  slot and two messages fill the buffer while a batch is full. A second `Unlock` that does
  not end the program needs another goroutine in a section at that moment: seven
  goroutines, the caller, two reconnects and four loops, compete for `c.mu`. More than one
  caller is left to the theorems, since every section is several steps.

`CHECK_DEADLOCK FALSE` is used where the system may stop: a long-polling connection
that both sides have closed, a server or client program that a panic or a fatal error
has ended, and a node that a stuck handler has stopped.

### Fairness

Weak fairness stands for "a goroutine that can move does": Go's scheduler is
preemptive, mutexes hand over to waiters, and calls with deadlines return. Nobody
outside (client, application, peer) is obliged to do anything. Beyond that:

* `WsServerTransport`: `WriteMessage` returns because `SetWriteDeadline` precedes it.
* `SocketLifecycle`: a `Read` on a closed transport fails, at the latest when the read
  deadline passes; the ticker of `cleanupSessions` does not stop.
* `LongPolling`: strong fairness of `HandlePoll`, that is, of infinitely many polls
  some reach the server. Without it the network may lose every one of them.
* `Supervisor`: strong fairness of `LoopEnds`, because `select` chooses at random
  between a waiting message and `ctx.Done`.
* `NodeEvents`: a process function makes finitely many calls and returns (strong
  fairness of `FunctionReturns`); waiting for a mutex or for room in a channel is
  served in turn, since both keep their waiters in a queue (strong fairness of
  `Announce`, `Lookup`, `Post`); and `select` as above.
* `Client` and `Cluster` are checked for safety only.

## 4. Theorems

Checked by `tlapm`; all hold for every value of the constants that satisfies the
module's assumption. The assumptions give the bounds and capacities their types and
keep apart what the code keeps apart:

* `RoomsAssumption`: `Nil` is none of the sockets, names and rooms;
* `CapAssumption`, `ProcsAssumption`: the buffer has room for a message, callers are
  not the pump or the reader;
* `SupervisorAssumption`: the constants' types;
* `LifecycleAssumption`: `NoSocket` is not a socket, the bounds are numbers;
* `LongPollingAssumption`: loads are pairs of numbers, both queues have room for one;
* `NodeAssumption`: `None` and `Disconnect` are no rooms, `None` is no object or thread,
  and the application's goroutines are not those of processes;
* `ClusterAssumption`: weights are integers, of any sign, and strategies those of the
  code;
* `ClientAssumption`: calls are those of the code, buffers and batches have room for one,
  the application's goroutines are neither reconnect goroutines nor loops, and `None` is
  no goroutine.

| Module | Theorem | States |
|---|---|---|
| `RoomsProofs` | `TypeCorrect` | `[]TypeOK` |
| | `NoRoomLeaks` | `[]EmptyRoomAccounted` |
| | `OnlyRemoveRoomLoses` | `[]LostOnlyToRemoveRoom` |
| | `LeaveAllLeavesAll` | `LeaveAllComplete` |
| | `BroadcastReaches` | `BroadcastReachesMembers` |
| | `RoomsAreARelation` | `MembershipSpec` |
| `WsServerTransportProofs` | `TypeCorrect` | `[]TypeOK` |
| | `OneCloser` | `[]SingleCloser` |
| | `PumpBeforeConn` | `[]ConnClosedAfterPump` |
| | `IsOrderedPipe` | the safety part of the refinement of `OrderedPipe` |
| `SupervisorProofs` | `TypeCorrect` | `[]TypeOK` |
| | `RestartsBounded` | `[]RestartIntensity` |
| | `NoCollateral` | `NoCollateralRestart` |
| `SocketLifecycleProofs` | `TypeCorrect` | `[]TypeOK` |
| | `ReportIsFinal` | `[]ReportedIsGone` |
| | `ZombiesWereMissed` | `[]ZombieOnlyIfMissed` |
| | `GhostsJoinedLate` | `[]GhostOnlyByLateJoin` |
| | `PanicsOverNamedEvent` | `[]PanicsOnlyIfNamed` |
| | `AnnouncedAreServed` | `[]AnnouncedIsServed` |
| `LongPollingProofs` | `TypeCorrect` | `[]TypeOK` |
| | `ReceivedInOrder` | `[]InOrderOnce` |
| | `AckedArrives` | `[]AckedOnce` |
| | `IsTwoLossyPipes` | `PipesSpec` |
| `NodeEventsProofs` | `TypeCorrect` | `[]TypeOK` |
| | `OrphansSubscribedLate` | `[]OrphanOnlyByLateSubscribe` |
| | `OnlyRespawnLeaks` | `[]LeakOnlyByRespawn` |
| | `EventsReachExactly` | `EventsExact` |
| `ClusterProofs` | `TypeCorrect` | `[]TypeOK` |
| | `ResultsOfDropped` | `[]ResultOnlyForDropped` |
| | `RotationIsFair` | `[]FairRotation` |
| | `PanicsAfterRemove` | `[]PanicOnlyAfterRemove` |
| | `WeightedFindsProcess` | every selection below the total weight finds a process |
| | `WeightsAreShares` | `[]WeightedShare` |
| `ClientProofs` | `TypeCorrect` | `[]TypeOK` |
| | `LockIsAccounted` | `[]LockAccounted` |
| | `EveryEndCounts` | `[]EndsAccounted` |
| | `CloseIsForGood` | `[]ClosedIsFinal` |
| | `WritesInOrder` | `[]WrittenInOrder` |
| | `IsLossyPipe` | `PipeSpec` |

The arguments:

* **Rooms.** `TypeOK` is not inductive: that a goroutine at `add` has a room, and one
  of the right name, depends on where it came from. `TypeInv` adds for every label what
  the locals hold there (`CallOK`) and that the manager maps a name to a room of that
  name (`RightName`). `EmptyRoomAccounted` and `LostOnlyToRemoveRoom` are preserved
  together with `JoinerAccounted`: a goroutine about to add a socket holds a
  registered room or one `RemoveRoom` struck. `LeaveAllTodo` says where a
  socket that `LeaveAllRooms` is removing can still be: in a room of `todo` or in the
  one in hand; `BroadcastInv` that a lasting member has been sent to or is among the
  targets. For the refinement, `OwnRoom` says that the room in the hand of a join or a
  leave is one of the name it was called with. `MemberKept` and `PhasesKept` are then
  what most steps need: the relation depends on the registered rooms alone, and the
  phase of another call on whether its room is still registered. Only `GetRoomCreate`
  and `RemoveRoom` change which rooms those are: the first registers an empty room
  under a name that has none, so it is a stutter, the second is `Sweep` of exactly the calls
  that held the room. `AddSocket` and `RemoveSocket` are `Join` and `Leave`, or
  have no effect, when the room is no longer registered; in `LeaveAllRooms` the second
  is `LeaveOne`.
* **Transport.** The closer is unique because exactly the goroutine that found
  `closed` false is past the test; the pump is done before anybody is at `conn`. For
  the refinement, `accepted` is the wire, then the message in the pump's hand, then
  `sendCh`, as long as the transport is open; and nothing reaches the wire after the
  close, since the pump holds `t.mu` over its test and the write.
* **Supervisor.** `restartTracker` keeps a counter and one timestamp. `TrackerOK` ties
  them to the history `recent`. A stamp may be older than its restart by a wait for
  `node.mu`, but it is no older than any restart before that one, because
  `restartProcess` is never in two calls at once. So as long as the counter is not reset it
  counts every restart of the period, and at a reset only the newest of them can be within
  the period still: `recent` never has more than `count + 1` entries. That is the bound
  `MaxRestarts + 1`, which a restart that waits long enough reaches. `ScanCurrent` (an id
  still to be restarted is in `Affected(dead)`, and is missing until then if the scan found
  it missing) and `RegisteredAlive` (a registered object is alive) give `NoCollateral`.
* **Lifecycle.** Sockets share `Server.mu` and the semaphore only, so `LifecycleInv` is
  one formula per socket (`SocketInv`) and one about the tokens: as many are out as
  there are handshakes, which `TypeOK` needs to bound `slots`. `StageOK` says what
  there is of a socket at each stage of its set-up; `CleanupOK` that whoever is past
  the deletion from the registry finds the socket out of it, and whoever is past
  `LeaveAllRooms` finds it in a room only by a late `Join`; `ClosedOK` where the
  disconnect of a closed socket is if it is still registered: in the `Close` that has
  not triggered yet, in a cleanup that has not deleted yet, or missed. For
  `PanicsOnlyIfNamed`, `WakeOK` counts the wake-ups, past and to come: one for the one
  `Close` that found the socket connected, once it has triggered, and one for each message
  that named the event. A lost connection adds none, since a long-polling `Read` does not
  fail.
* **Long polling.** `InOrderOnce` speaks of what was received only. `DownOK` adds the
  four places a message passes on the way (queue, hand, reply, pending): each is in
  ascending order, each is below the next, and all are below `nextDown`. A message
  moves on or is dropped, from the front or with all of a place, and a poll that takes
  `pending` finds the reply empty (`PollOK`), also when an abandoned poll was in
  between. `UpOK` says that a message has arrived, once, iff its request was accepted,
  and that an unsent message has no request: every message has one in its life.
  The two refinements read the same invariants as statements about a pipe: every step
  accepts a message, takes some out of transit (`DownLoses`, `UpLoses`) or delivers the
  one that `DownOK` shows to be below all others in transit (`DownDelivers`), or
  `UpOK` shows not to have come out before (`UpDelivers`).
* **Node.** `DeliveryOK` says that a handler in its range has written to the targets
  among the ids it has visited and to nobody else; it is preserved because
  nothing that holds the lock changes the registry or the subscriptions while a reader
  is inside. `OrphanOnlyByLateSubscribe` and `LeakOnlyByRespawn` are inductive with
  `StopOK`: `Stop` takes `node.mu` when the node's context is done already.
* **Cluster.** `FairRotation` compares counts. `RotationOK` says which positions have
  had their turn in the current round: the last `k` before `nextIndex`, cyclically
  (`Round`, `Served`); one rotation step moves the window by one. `CallsOK` ties the
  results to the nodes dropped meanwhile, `IndexOK` an index out of range to a removal.
  `WeightedShare` is about sums over a list of any length. `Totals` is a recursive
  function; that it exists and adds up (`PartialTotals`, `TotalsFacts`) and does not fall
  when no weight is negative (`TotalsGrow`) is shown by taking a least counterexample
  (`LeastExists`) instead of the library's induction rule, which needs an operator as
  its parameter. `PickFacts` places a selection between two neighbouring totals; the
  selections a process gets are then the numbers from one total up to the next, and
  there are as many of them as its weight.
* **Client.** `Unlock` may be called by a goroutine that does not hold `c.mu`, so mutual
  exclusion is not an invariant. What is one, `LockAccounted`, counts: in the sections are
  the holder, if there is one, and one goroutine for each second `Unlock` that found the
  mutex locked. `StepSections` sorts the steps by what they do to the sections (`Enters`,
  `Leaves`, `Doubles`, `GoesOn`, `Outside`), and `LockStep` does the arithmetic on
  `Cardinality(Inside)`. `EndsAccounted` and `ClosedIsFinal` are inductive together with
  `MidwayOK`: until `torn`, a goroutine halfway holds `c.mu`, and what it found of
  `connected` still holds when it acts on it (`EndsStep`). That no connection is opened
  after a `Close` needs none of it: a dial needs a context that is not cancelled.
  `WrittenInOrder` speaks of the wire. `Flow` adds the batches and the buffer: every accepted
  message is in one place, once. `LineOK` gives the order of the three places while one set
  of loops exists, and `LoopsOK` that no other loop has any message then. `StepMoves` sorts
  the steps by what they do to the messages: none moves (`Stays`), a set of loops starts,
  a message goes in (`GoesIn`), a loop takes one or drops one (`IsTaken`, `IsDropped`), or
  a batch goes out, in part or whole (`GoOut`). Both `WritesInOrder` and `IsLossyPipe` rest
  on these cases. `Leave` of a `LossyPipe` bounds what goes out by the number of accepted
  messages; `NoMoreThan` is the pigeonhole argument that a repetition-free batch keeps
  that bound.

Each inductive invariant was checked with TLC on the run's instance before it was
proved.

Only model-checked: everything temporal that needs fairness, since the prover has no
liveness rules and no `ENABLED`. These are `CloseCompletes`, `DisconnectReported`,
`WrittenLeaves`, `AckedIsRead`, `EmptyRoomResolved`, `SelfHealing`, `StopEnds`,
`StuckHandlerExplained`, `LockStuckOnlyByHandler`, `StoppedNodeEnds`, and the progress
part of `OrderedPipe` in the transport's `PipeSpec`. Every other property of a passing
run is a theorem. `TypeOK` is proved for every component and listed by no run.

## 5. Not modelled, and why

* `Server.Broadcast`: copies the registry and sends; the same race is in `Rooms`.
* `HandleFunc` after the server has started (a socket keeps the routes of its set-up),
  and the handlers an application installs on sockets or clients itself: what they do
  is the application's.
* `ReceiveConcurrent`, `ReceiveWithContext` and `EnableCompression` of
  `WebSocketTransport`: nothing in the repository calls them.
* A `Client` on long polling: `LongPolling` has the transport, `Client` the loops.
* Discovery, gossip and load of `Cluster`: they only log. `NewDistributedSupervisor`:
  a lookup on top of `NewSupervisor`; when it fails the local supervisor runs on.
* `generateID`: ids are taken to be unique. `debug`, `examples`: no logic of their own.
* Real time: the websocket read deadline is set once and not renewed, so every
  websocket ends after 30 seconds (`server_transport.go:61`); in the models a read may
  fail at any time.
* Contents of messages, logging, compression, headers, sizes of options.

## 6. Where the code and its documentation part

With a run (the trace is TLC's):

* `node_stuck`: a process function that calls a method of its node while its mailbox is
  full and a handler writes to it stops the node for good (`node.go:123`), against
  `docs/distributed.md:61`, whose example calls `Subscribe` in a process function.

Without a run of their own; the modelled actions show them at once, and a property
says how far they go:

* the receive loop triggers whatever event a message names, so a client that sends
  `disconnect` is reported as disconnected, unregistered and taken out of its rooms, and
  stays connected (`socket_impl.go:59`, against `docs/howtouse.md:143`, "Triggered when a
  client disconnects"; `ReadDisconnect`). On long polling a second such message, or one and
  a `Close`, panics, since `disconnectChan` is closed twice (`server.go:262`;
  `PanicsOnlyIfNamed` says that nothing else does);
* a restart is stamped with the time before its wait for `node.mu`; after a long wait it
  counts as older than the period at once, and there are `MaxRestarts + 1` restarts within
  the period (`node.go:411`, `:478`, against `docs/distributed.md:47`, "Maximum restarts
  within the period"; `RestartIntensity` has the bound that holds);
* `Count` and `RemoveRoom` are separate critical sections; a socket that joins in
  between is in a room the manager no longer maps (`room.go:176`, against
  `docs/howtouse.md:152`; `LostOnlyToRemoveRoom`);
* after a failed write the pump calls `Close`, which waits for the pump; the connection
  is never closed (`server_transport.go:93`; `CloseCompletes` holds for everybody else);
* a connection that breaks before `handleSocket` has installed its handler is announced
  and never reported as disconnected (`server.go:314`, against `docs/howtouse.md:143`;
  `ZombieOnlyIfMissed`, `DisconnectReported`);
* `HandlePoll` forgets the messages before the reply has arrived
  (`server_transport.go:235`, against "no lost messages", `README.md:38`;
  `WrittenLeaves` has `m \in lost` among its outcomes);
* after `Stop`, a handler blocked on the mailbox of a process that has ended keeps
  `node.mu`, and `Stop` itself does not return (`node.go:257`; `StuckHandlerExplained`);
* a group's `Send` panics after a `RemoveProcess` that leaves `nextIndex` past the end
  of the list, and goes on doing so until a process is added (`node.go:875`;
  `PanicOnlyAfterRemove`);
* `Client.Connect` unlocks `c.mu` and its defer unlocks it again (`client.go:109`, `:121`,
  `:126`). With nobody else in `c.mu` that ends the program, where the example at
  `docs/howtouse.md:284-288` handles the error and goes on; with somebody else in it, it
  lets others in there too (`ConnectReturns`, `Unlock`; `LockAccounted`, `EndsAccounted` and
  `ClosedIsFinal` say how far that goes);
* `Join` and `Leave` of a connected client wait in their own `Send` for the mutex they hold,
  and everybody who needs `c.mu` waits with them (`client.go:360`, against
  `docs/howtouse.md:364`; `JoinOrLeave`, `JoinSends`);
* `Close` of a client sets `connected` to false itself, so `handleDisconnect` returns early
  and no disconnect handler is called (`client.go:287`, against `docs/howtouse.md:586-589`,
  "Trigger the disconnect event handler"; `EndsAccounted` counts a `Close` in the place of a
  report);
* a reconnect finds the transport connected and dials no new connection
  (`client.go:120`, `websocket.go:75`; `ConnectDials` with `open`);
* `Close` of a client that is waiting to reconnect stops nothing (`client.go:282`;
  `Close` without `connected`);
* `WithReconnectAttempts(0)` turns reconnecting off; `docs/howtouse.md:302` says "0 =
  unlimited" (`client.go:191`; `DisconnectTriggers`).

And some where nothing is left to say beyond the action:

* `Shutdown` does not "stop accepting new connections" (`server.go:434`,
  `docs/howtouse.md:569`; `Register` is enabled after it);
* the client's transport reads `t.conn` after the unlock, and `Close` may have set it to
  nil (`websocket.go:140`; `ReceiveUnlocked`);
* a lost websocket connection is reported twice, by the loop's trigger and by the
  `Close` it calls (`socket_impl.go:43`; `LoopTrigger`, `CloseTrigger`);
* a request whose upgrade was refused with 503 goes on to the long-polling endpoints, which
  may create a session for it (`server.go:115`; `LongPollingConnect`);
* the semaphore bounds handshakes, not "concurrent connections" (`server.go:132`,
  `docs/howtouse.md:108`; `Upgrade` gives the token back);
* a client whose session was collected polls on for ever and never reconnects
  (`longpolling.go:143`; `HandlePoll` refused, `PollReply`, `PollRequest`);
* polled messages arrive as base64 strings instead of JSON objects
  (`server_transport.go:241`, `longpolling.go:202`; `Encode`);
* a restarted process may handle a message while its predecessor still does
  (`node.go:446`, against `docs/distributed.md:97`; `RestartProcess`);
* restarts older than the period keep counting, so a restart may be refused too early
  (`node.go:422`; `CountNow`);
* `RemoteCall` delivers nothing and reports success (`node.go:728`; `Answers`).

## 7. Plan

A composition of `SocketLifecycle` with `Membership` in place of `inRoom`, so that
`GhostOnlyByLateJoin` speaks of single rooms; and a `Client` on the pipes of
`LongPolling` instead of a websocket.
