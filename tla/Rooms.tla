-------------------------------- MODULE Rooms --------------------------------
(***************************************************************************)
(* RoomManager and Room of socket/room.go.                                 *)
(*                                                                         *)
(* The manager maps a room name to a *Room; a Room holds a set of sockets. *)
(* Each has its own RWMutex, and every method takes and releases them      *)
(* critical section by critical section, so the calls of different         *)
(* goroutines interleave between those sections.  One action below is one  *)
(* critical section of one method (or a read that needs no lock); a        *)
(* goroutine's position between two of them is pc[t].                      *)
(*                                                                         *)
(* A *Room is an object <<name, id>>: Room.name never changes, and two     *)
(* rooms may carry the same name at different times.  An object that       *)
(* neither the map nor a goroutine refers to may be allocated again, as    *)
(* Go's collector allows, so runs of any length fit in finitely many ids.  *)
(***************************************************************************)
EXTENDS Naturals, FiniteSets

CONSTANTS
    Sockets,  \* socket ids
    Names,    \* room names
    Ids,      \* distinguishes the Room objects that carry the same name
    Threads,  \* goroutines calling the manager's methods
    Nil       \* Go's nil, and an argument a method does not have

ASSUME RoomsAssumption ==
    /\ Nil \notin Sockets
    /\ Nil \notin Names
    /\ Nil \notin Names \X Ids

VARIABLES
    rooms,    \* RoomManager.rooms: name -> *Room, Nil when absent
    members,  \* Room.sockets of every object
    pc,       \* the critical section a goroutine enters next
    op,       \* the method it is executing
    name,     \* its roomName argument
    sock,     \* its socket argument
    room,     \* its local *Room variable
    todo,     \* LeaveAllRooms: the rest of roomsCopy
    targets,  \* the rest of socketsCopy
    sent,     \* BroadcastToRoom: sockets already sent to
    struck,   \* history: objects RemoveRoom unregistered while in use
    queried,  \* history: registered objects GetRoom created for In, never joined
    rejoined, \* history: the socket was added to a room since CopyRooms
    stable    \* history: members throughout BroadcastToRoom so far

callVars == <<pc, op, name, sock, room, todo, targets, sent>>
histVars == <<struck, queried, rejoined, stable>>
vars == <<rooms, members, callVars, histVars>>

Objects == Names \X Ids
Ops == {"none", "join", "in", "leave", "leaveAll", "broadcast"}
Labels == {"idle", "lookup", "create", "add", "find", "snapshot", "scan",
           "remove", "count", "drop", "copy", "send"}

NameOf(r) == r[1]
Registered(r) == rooms[NameOf(r)] = r

\* What HasSocket on the registered room of that name answers.
Visible(n) == IF rooms[n] = Nil THEN {} ELSE members[rooms[n]]

Referenced(r) ==
    \/ Registered(r)
    \/ \E t \in Threads : room[t] = r \/ r \in todo[t]

\* A joiner between GetRoom and AddSocket still counts on its room.
InUse(r) ==
    \/ members[r] # {}
    \/ \E t \in Threads : pc[t] = "add" /\ room[t] = r

------------------------------------------------------------------------------
(* Control transfer inside a goroutine. *)

Goto(t, label) == pc' = [pc EXCEPT ![t] = label]

\* A call records its arguments; its first critical section is still to come.
Call(t, o, n, s, label) ==
    /\ pc[t] = "idle"
    /\ Goto(t, label)
    /\ op' = [op EXCEPT ![t] = o]
    /\ name' = [name EXCEPT ![t] = n]
    /\ sock' = [sock EXCEPT ![t] = s]
    /\ UNCHANGED <<room, todo, targets, sent>>

\* The method returns and its locals die.
Return(t) ==
    /\ Goto(t, "idle")
    /\ op' = [op EXCEPT ![t] = "none"]
    /\ name' = [name EXCEPT ![t] = Nil]
    /\ sock' = [sock EXCEPT ![t] = Nil]
    /\ room' = [room EXCEPT ![t] = Nil]
    /\ todo' = [todo EXCEPT ![t] = {}]
    /\ targets' = [targets EXCEPT ![t] = {}]
    /\ sent' = [sent EXCEPT ![t] = {}]

\* One room has been left: LeaveAllRooms goes on to the next, LeaveRoom is done.
RoomLeft(t) ==
    IF op[t] = "leaveAll"
    THEN /\ Goto(t, "scan")
         /\ room' = [room EXCEPT ![t] = Nil]
         /\ UNCHANGED <<op, name, sock, todo, targets, sent>>
    ELSE Return(t)

------------------------------------------------------------------------------
(* The entry points. *)

JoinRoom(t, n, s)     == Call(t, "join", n, s, "lookup")
In(t, n)              == Call(t, "in", n, Nil, "lookup")
LeaveRoom(t, n, s)    == Call(t, "leave", n, s, "find")
LeaveAllRooms(t, s)   == Call(t, "leaveAll", Nil, s, "snapshot")
BroadcastToRoom(t, n) == Call(t, "broadcast", n, Nil, "find")

------------------------------------------------------------------------------
(* GetRoom: a read-locked lookup, then a write-locked re-check and creation. *)

AfterGetRoom(t) == IF op[t] = "join" THEN "add" ELSE "copy"

GetRoomLookup(t) ==
    LET r == rooms[name[t]] IN
    /\ pc[t] = "lookup"
    /\ Goto(t, IF r = Nil THEN "create" ELSE AfterGetRoom(t))
    /\ room' = [room EXCEPT ![t] = r]
    /\ UNCHANGED <<rooms, members, op, name, sock, todo, targets, sent,
                   struck, queried>>

\* NewRoom: an object nobody refers to, with no sockets in it.
NewRoom(t, r) ==
    /\ ~Referenced(r)
    /\ rooms' = [rooms EXCEPT ![name[t]] = r]
    /\ members' = [members EXCEPT ![r] = {}]
    /\ room' = [room EXCEPT ![t] = r]
    /\ struck' = struck \ {r}
    /\ queried' = IF op[t] = "in" THEN queried \cup {r} ELSE queried \ {r}

\* Mutant: the second lookup, under the write lock, is missing.
GetRoomCreateUnchecked(t) ==
    /\ pc[t] = "create"
    /\ Goto(t, AfterGetRoom(t))
    /\ \E i \in Ids : NewRoom(t, <<name[t], i>>)
    /\ UNCHANGED <<op, name, sock, todo, targets, sent>>

GetRoomCreate(t) ==
    /\ pc[t] = "create"
    /\ Goto(t, AfterGetRoom(t))
    /\ \/ /\ rooms[name[t]] = Nil
          /\ \E i \in Ids : NewRoom(t, <<name[t], i>>)
       \/ /\ rooms[name[t]] # Nil
          /\ room' = [room EXCEPT ![t] = rooms[name[t]]]
          /\ UNCHANGED <<rooms, members, struck, queried>>
    /\ UNCHANGED <<op, name, sock, todo, targets, sent>>

\* Room.AddSocket, the last step of JoinRoom.
AddSocket(t) ==
    /\ pc[t] = "add"
    /\ members' = [members EXCEPT ![room[t]] = @ \cup {sock[t]}]
    /\ queried' = queried \ {room[t]}
    /\ Return(t)
    /\ UNCHANGED <<rooms, struck>>

------------------------------------------------------------------------------
(* LeaveRoom and LeaveAllRooms: RemoveSocket, Count and RemoveRoom are three  *)
(* critical sections, on two different mutexes.                               *)

\* The map lookup of LeaveRoom and BroadcastToRoom: an absent room ends both.
FindRoom(t) ==
    LET r == rooms[name[t]] IN
    /\ pc[t] = "find"
    /\ \/ r = Nil /\ Return(t)
       \/ /\ r # Nil
          /\ Goto(t, IF op[t] = "leave" THEN "remove" ELSE "copy")
          /\ room' = [room EXCEPT ![t] = r]
          /\ UNCHANGED <<op, name, sock, todo, targets, sent>>
    /\ UNCHANGED <<rooms, members, struck, queried>>

\* LeaveAllRooms copies the registered rooms under the manager's read lock.
CopyRooms(t) ==
    /\ pc[t] = "snapshot"
    /\ Goto(t, "scan")
    /\ todo' = [todo EXCEPT ![t] = {r \in Objects : Registered(r)}]
    /\ UNCHANGED <<rooms, members, op, name, sock, room, targets, sent,
                   struck, queried>>

\* Mutant: the loop ends at the first room that does not hold the socket.
ScanRoomBreak(t) ==
    /\ pc[t] = "scan"
    /\ \/ todo[t] = {} /\ Return(t)
       \/ \E r \in todo[t] :
            \/ /\ sock[t] \in members[r]
               /\ todo' = [todo EXCEPT ![t] = @ \ {r}]
               /\ Goto(t, "remove")
               /\ room' = [room EXCEPT ![t] = r]
               /\ UNCHANGED <<op, name, sock, targets, sent>>
            \/ sock[t] \notin members[r] /\ Return(t)
    /\ UNCHANGED <<rooms, members, struck, queried>>

\* One iteration's HasSocket test; the map order of roomsCopy is arbitrary.
ScanRoom(t) ==
    /\ pc[t] = "scan"
    /\ \/ todo[t] = {} /\ Return(t)
       \/ \E r \in todo[t] :
            /\ todo' = [todo EXCEPT ![t] = @ \ {r}]
            /\ IF sock[t] \in members[r]
               THEN Goto(t, "remove") /\ room' = [room EXCEPT ![t] = r]
               ELSE UNCHANGED <<pc, room>>
            /\ UNCHANGED <<op, name, sock, targets, sent>>
    /\ UNCHANGED <<rooms, members, struck, queried>>

RemoveSocket(t) ==
    /\ pc[t] = "remove"
    /\ Goto(t, "count")
    /\ members' = [members EXCEPT ![room[t]] = @ \ {sock[t]}]
    /\ UNCHANGED <<rooms, op, name, sock, room, todo, targets, sent,
                   struck, queried>>

\* Mutant: the emptied room is never removed.
CountSocketsKeep(t) ==
    /\ pc[t] = "count"
    /\ RoomLeft(t)
    /\ UNCHANGED <<rooms, members, struck, queried>>

CountSockets(t) ==
    /\ pc[t] = "count"
    /\ \/ /\ members[room[t]] = {}
          /\ Goto(t, "drop")
          /\ UNCHANGED <<op, name, sock, room, todo, targets, sent>>
       \/ members[room[t]] # {} /\ RoomLeft(t)
    /\ UNCHANGED <<rooms, members, struck, queried>>

\* Mutant: the deletion is lost.
RemoveRoomNoDelete(t) ==
    /\ pc[t] = "drop"
    /\ RoomLeft(t)
    /\ UNCHANGED <<rooms, members, struck, queried>>

\* RemoveRoom deletes by name, whatever room is registered there by now.
RemoveRoom(t) ==
    LET n == NameOf(room[t]) IN
    /\ pc[t] = "drop"
    /\ rooms' = [rooms EXCEPT ![n] = Nil]
    /\ struck' = struck \cup {r \in Objects : r = rooms[n] /\ InUse(r)}
    /\ queried' = queried \ {rooms[n]}
    /\ RoomLeft(t)
    /\ UNCHANGED members

------------------------------------------------------------------------------
(* Room.GetSockets (for In) and Room.BroadcastParallel.  BroadcastToRoom's    *)
(* ten workers drain a channel that holds every copied socket, so the sends   *)
(* happen in any order and the call returns when all of them have.            *)

CopySockets(t) ==
    /\ pc[t] = "copy"
    /\ \/ /\ op[t] = "broadcast"
          /\ Goto(t, "send")
          /\ targets' = [targets EXCEPT ![t] = members[room[t]]]
          /\ UNCHANGED <<op, name, sock, room, todo, sent>>
       \/ op[t] = "in" /\ Return(t)
    /\ UNCHANGED <<rooms, members, struck, queried>>

\* Mutant: the call does not wait for its workers.
SendToSocketNoWait(t) ==
    /\ pc[t] = "send"
    /\ \/ \E s \in targets[t] :
            /\ targets' = [targets EXCEPT ![t] = @ \ {s}]
            /\ sent' = [sent EXCEPT ![t] = @ \cup {s}]
            /\ UNCHANGED <<pc, op, name, sock, room, todo>>
       \/ Return(t)
    /\ UNCHANGED <<rooms, members, struck, queried>>

SendToSocket(t) ==
    /\ pc[t] = "send"
    /\ \/ \E s \in targets[t] :
            /\ targets' = [targets EXCEPT ![t] = @ \ {s}]
            /\ sent' = [sent EXCEPT ![t] = @ \cup {s}]
            /\ UNCHANGED <<pc, op, name, sock, room, todo>>
       \/ targets[t] = {} /\ Return(t)
    /\ UNCHANGED <<rooms, members, struck, queried>>

------------------------------------------------------------------------------
Init ==
    /\ rooms = [n \in Names |-> Nil]
    /\ members = [r \in Objects |-> {}]
    /\ pc = [t \in Threads |-> "idle"]
    /\ op = [t \in Threads |-> "none"]
    /\ name = [t \in Threads |-> Nil]
    /\ sock = [t \in Threads |-> Nil]
    /\ room = [t \in Threads |-> Nil]
    /\ todo = [t \in Threads |-> {}]
    /\ targets = [t \in Threads |-> {}]
    /\ sent = [t \in Threads |-> {}]
    /\ struck = {}
    /\ queried = {}
    /\ rejoined = [t \in Threads |-> FALSE]
    /\ stable = [t \in Threads |-> {}]

\* A goroutine calls a method; no shared state changes yet.
Start(t) ==
    /\ \/ \E n \in Names, s \in Sockets : JoinRoom(t, n, s) \/ LeaveRoom(t, n, s)
       \/ \E n \in Names : In(t, n) \/ BroadcastToRoom(t, n)
       \/ \E s \in Sockets : LeaveAllRooms(t, s)
    /\ UNCHANGED <<rooms, members, struck, queried>>

\* The next critical section of the method goroutine t is executing.
Run(t) ==
    \/ GetRoomLookup(t) \/ GetRoomCreate(t) \/ AddSocket(t)
    \/ FindRoom(t) \/ CopyRooms(t) \/ ScanRoom(t)
    \/ RemoveSocket(t) \/ CountSockets(t) \/ RemoveRoom(t)
    \/ CopySockets(t) \/ SendToSocket(t)

\* The two per-call history variables, as functions of the step.
Remember ==
    /\ rejoined' = [t \in Threads |->
         /\ op'[t] = "leaveAll" /\ pc[t] \notin {"idle", "snapshot"}
         /\ \/ rejoined[t]
            \/ \E u \in Threads : /\ pc[u] = "add" /\ pc'[u] # "add"
                                  /\ sock[u] = sock[t]]
    /\ stable' = [t \in Threads |->
         IF op'[t] # "broadcast" THEN {}
         ELSE IF pc[t] = "idle" THEN Visible(name'[t])
         ELSE stable[t] \cap Visible(name[t])']

Next == \E t \in Threads : (Start(t) \/ Run(t)) /\ Remember

Fairness == \A t \in Threads : WF_vars(Run(t) /\ Remember)

Spec == Init /\ [][Next]_vars
FairSpec == Spec /\ Fairness

------------------------------------------------------------------------------
(* The manager's map, the rooms and the locals of every call in progress hold *)
(* values of the code's types; a room object is registered or referred to     *)
(* under a name or not at all.                                                *)
TypeOK ==
    /\ rooms \in [Names -> Objects \cup {Nil}]
    /\ members \in [Objects -> SUBSET Sockets]
    /\ pc \in [Threads -> Labels]
    /\ op \in [Threads -> Ops]
    /\ name \in [Threads -> Names \cup {Nil}]
    /\ sock \in [Threads -> Sockets \cup {Nil}]
    /\ room \in [Threads -> Objects \cup {Nil}]
    /\ todo \in [Threads -> SUBSET Objects]
    /\ targets \in [Threads -> SUBSET Sockets]
    /\ sent \in [Threads -> SUBSET Sockets]
    /\ struck \in SUBSET Objects
    /\ queried \in SUBSET Objects
    /\ rejoined \in [Threads -> BOOLEAN]
    /\ stable \in [Threads -> SUBSET Sockets]

(* A registered room with nobody in it is on its way out of that state: a    *)
(* joiner is about to be added, or a leaver is about to remove the room.     *)
(* The one exception is a room In's GetRoom created just to be read; no      *)
(* sequence of joins and leaves leaks a room.                                *)
EmptyRoomAccounted ==
    \A r \in Objects : Registered(r) /\ members[r] = {} =>
        \/ r \in queried
        \/ \E t \in Threads : room[t] = r /\ pc[t] \in {"add", "count", "drop"}

(* A socket that AddSocket put into a room object the manager no longer maps *)
(* is lost to HasSocket, RoomsOf and every broadcast.  That happens only to  *)
(* rooms RemoveRoom took away while they were in use, never for another      *)
(* reason: GetRoom's re-check under the write lock sees to it that two       *)
(* concurrent first joins share one object.                                  *)
LostOnlyToRemoveRoom ==
    \A r \in Objects : members[r] # {} /\ ~Registered(r) => r \in struck

(* LeaveAllRooms is complete: when it returns, no registered room holds the  *)
(* socket, unless the socket was added to a room while it ran.  The rooms    *)
(* are copied first and visited one by one, without the manager's lock.      *)
LeaveAllComplete ==
    [][\A t \in Threads : op[t] = "leaveAll" /\ op'[t] = "none" /\ ~rejoined[t] =>
         \A r \in Objects : Registered(r) => sock[t] \notin members[r]]_vars

(* A socket that is in the room from BroadcastToRoom's call to its return is *)
(* sent the message, whatever other goroutines do to the room meanwhile.     *)
BroadcastReachesMembers ==
    [][\A t \in Threads : op[t] = "broadcast" /\ op'[t] = "none"
                             => stable[t] \subseteq sent[t]]_vars

(* The registered rooms are one relation between sockets and names, on which *)
(* joins and leaves act in one moment of their call, although a join is up   *)
(* to three critical sections and a leave four.  A call loses its effect     *)
(* only when a leaver removes the room it has found.                         *)
Member == {p \in Sockets \X Names : p[1] \in Visible(p[2])}

Phase == [t \in Threads |->
    IF op[t] \in {"join", "leave"} /\ pc[t] \in {"add", "remove"} /\ ~Registered(room[t])
    THEN "swept"
    ELSE IF op[t] = "leave" /\ pc[t] \in {"count", "drop"} THEN "left" ELSE "called"]

Promise == INSTANCE Membership WITH member <- Member, phase <- Phase
MembershipSpec == Promise!Spec

(* A room that joins and leaves have emptied does not stay registered: it is *)
(* removed, or somebody is added to it.                                      *)
EmptyRoomResolved ==
    \A r \in Objects :
        Registered(r) /\ members[r] = {} /\ r \notin queried
            ~> ~Registered(r) \/ members[r] # {}
==============================================================================
