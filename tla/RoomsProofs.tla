----------------------------- MODULE RoomsProofs -----------------------------
(***************************************************************************)
(* The safety properties of Rooms for any number of sockets, names, ids    *)
(* and goroutines.                                                         *)
(***************************************************************************)
EXTENDS Rooms, TLAPS

(* What pc[t] says about the goroutine's method and its locals. *)
CallOK(t) ==
    /\ pc[t] = "idle" => op[t] = "none" /\ room[t] = Nil
    /\ pc[t] \in {"lookup", "create"} =>
         /\ op[t] \in {"join", "in"} /\ name[t] \in Names
         /\ op[t] = "join" => sock[t] \in Sockets
    /\ pc[t] = "add" => /\ op[t] = "join" /\ sock[t] \in Sockets
                        /\ room[t] \in Objects
    /\ pc[t] = "find" =>
         /\ op[t] \in {"leave", "broadcast"} /\ name[t] \in Names
         /\ op[t] = "leave" => sock[t] \in Sockets
    /\ pc[t] \in {"snapshot", "scan"} => op[t] = "leaveAll" /\ sock[t] \in Sockets
    /\ pc[t] \in {"remove", "count", "drop"} =>
         op[t] \in {"leave", "leaveAll"} /\ sock[t] \in Sockets /\ room[t] \in Objects
    /\ pc[t] = "copy" =>
         /\ op[t] \in {"in", "broadcast"} /\ name[t] \in Names
         /\ room[t] \in Objects
    /\ pc[t] = "send" => op[t] = "broadcast"
    /\ op[t] = "broadcast" => name[t] \in Names

(* The calls of all goroutines are well formed. *)
CallsOK ==
    /\ pc \in [Threads -> Labels]
    /\ op \in [Threads -> Ops]
    /\ name \in [Threads -> Names \cup {Nil}]
    /\ sock \in [Threads -> Sockets \cup {Nil}]
    /\ room \in [Threads -> Objects \cup {Nil}]
    /\ todo \in [Threads -> SUBSET Objects]
    /\ targets \in [Threads -> SUBSET Sockets]
    /\ sent \in [Threads -> SUBSET Sockets]
    /\ \A t \in Threads : CallOK(t)

(* A room is registered under its own name. *)
RightName == \A n \in Names : rooms[n] # Nil => NameOf(rooms[n]) = n

TypeInv == TypeOK /\ RightName /\ \A t \in Threads : CallOK(t)

LEMMA ObjectName == \A r \in Objects : NameOf(r) \in Names /\ r # Nil
  BY RoomsAssumption DEF Objects, NameOf

(* The manager maps names to rooms, and each goroutine's arguments and       *)
(* locals are what its next critical section needs.                          *)
LEMMA TypeInvInit == Init => TypeInv
  BY DEF Init, TypeInv, TypeOK, RightName, CallOK, Labels, Ops

LEMMA TypeInvCalls == TypeInv => CallsOK
  BY DEF TypeInv, TypeOK, CallsOK

(* The history variables keep their types whenever the rest does. *)
LEMMA RememberType ==
    ASSUME TypeInv, Remember, CallsOK',
           rooms' \in [Names -> Objects \cup {Nil}],
           members' \in [Objects -> SUBSET Sockets],
           \A t \in Threads : op'[t] = "broadcast" /\ pc[t] # "idle" => op[t] = "broadcast"
    PROVE  /\ rejoined' \in [Threads -> BOOLEAN]
           /\ stable' \in [Threads -> SUBSET Sockets]
  <1>1. rejoined' \in [Threads -> BOOLEAN]
    BY Zenon DEF Remember
  <1>2. \A n \in Names : Visible(n) \subseteq Sockets /\ Visible(n)' \subseteq Sockets
    BY DEF Visible, TypeInv, TypeOK
  <1>3. ASSUME NEW t \in Threads
        PROVE  (IF op'[t] # "broadcast" THEN {}
                ELSE IF pc[t] = "idle" THEN Visible(name'[t])
                ELSE stable[t] \cap Visible(name[t])') \in SUBSET Sockets
    <2>1. op'[t] = "broadcast" => name'[t] \in Names
      BY DEF CallsOK, CallOK
    <2>2. QED
      BY <1>2, <2>1 DEF TypeInv, TypeOK
  <1>4. stable' \in [Threads -> SUBSET Sockets]
    BY <1>3 DEF Remember
  <1>5. QED
    BY <1>1, <1>4

(* A goroutine that returns leaves every call well formed. *)
LEMMA ReturnCalls ==
    ASSUME CallsOK, NEW t \in Threads, Return(t)
    PROVE  CallsOK' /\ \A u \in Threads : op'[u] = "broadcast" => op[u] = "broadcast"
  BY DEF CallsOK, CallOK, Return, Goto, Labels, Ops

LEMMA RoomLeftCalls ==
    ASSUME CallsOK, NEW t \in Threads, RoomLeft(t), pc[t] \in {"count", "drop"}
    PROVE  CallsOK' /\ \A u \in Threads : op'[u] = "broadcast" => op[u] = "broadcast"
  <1>1. CASE op[t] = "leaveAll"
    BY <1>1 DEF RoomLeft, CallsOK, CallOK, Goto, Labels, Ops
  <1>2. CASE op[t] # "leaveAll"
    BY <1>2, ReturnCalls DEF RoomLeft
  <1>3. QED
    BY <1>1, <1>2

LEMMA TypeInvNext == TypeInv /\ [Next]_vars => TypeInv'
  <1> SUFFICES ASSUME TypeInv, [Next]_vars PROVE TypeInv'
    OBVIOUS
  <1> DEFINE Calls == /\ CallsOK'
                      /\ \A u \in Threads : op'[u] = "broadcast" /\ pc[u] # "idle"
                                               => op[u] = "broadcast"
             Rest == /\ rooms' \in [Names -> Objects \cup {Nil}]
                     /\ members' \in [Objects -> SUBSET Sockets]
                     /\ struck' \in SUBSET Objects
                     /\ queried' \in SUBSET Objects
                     /\ RightName'
  <1> USE TypeInvCalls
  <1>a. ASSUME Calls, Rest, Remember PROVE TypeInv'
    BY <1>a, RememberType DEF TypeInv, TypeOK, CallsOK
  <1>b. ASSUME NEW t \in Threads, Start(t) \/ Run(t) PROVE Calls
    <2> USE ObjectName DEF CallsOK, CallOK, Labels, Ops, Goto
    <2>0. rooms \in [Names -> Objects \cup {Nil}] /\ members \in [Objects -> SUBSET Sockets]
      BY DEF TypeInv, TypeOK
    <2>1. CASE Start(t)
      BY <2>1 DEF Start, JoinRoom, LeaveRoom, In, BroadcastToRoom, LeaveAllRooms, Call
    <2>2. CASE GetRoomLookup(t)
      BY <2>0, <2>2 DEF GetRoomLookup, AfterGetRoom
    <2>3. CASE GetRoomCreate(t)
      <3>0. name[t] \in Names
        BY <2>3 DEF GetRoomCreate
      <3>1. PICK r \in Objects : room' = [room EXCEPT ![t] = r]
        <4>1. CASE rooms[name[t]] = Nil
          <5>1. PICK i \in Ids : NewRoom(t, <<name[t], i>>)
            BY <2>3, <4>1 DEF GetRoomCreate
          <5>2. <<name[t], i>> \in Objects
            BY <3>0 DEF Objects
          <5>3. QED
            BY <5>1, <5>2 DEF NewRoom
        <4>2. CASE rooms[name[t]] # Nil
          BY <2>0, <2>3, <3>0, <4>2 DEF GetRoomCreate
        <4>3. QED
          BY <4>1, <4>2
      <3>2. QED
        BY <2>3, <3>1 DEF GetRoomCreate, AfterGetRoom
    <2>4. CASE AddSocket(t)
      BY <2>4, ReturnCalls DEF AddSocket
    <2>5. CASE FindRoom(t)
      <3>1. CASE Return(t)
        BY <3>1, ReturnCalls
      <3>2. CASE ~Return(t)
        BY <2>0, <2>5, <3>2 DEF FindRoom
      <3>3. QED
        BY <3>1, <3>2
    <2>6. CASE CopyRooms(t)
      BY <2>6 DEF CopyRooms
    <2>7. CASE ScanRoom(t)
      <3>1. CASE Return(t)
        BY <3>1, ReturnCalls
      <3>2. CASE ~Return(t)
        BY <2>7, <3>2 DEF ScanRoom
      <3>3. QED
        BY <3>1, <3>2
    <2>8. CASE RemoveSocket(t)
      BY <2>8 DEF RemoveSocket
    <2>9. CASE CountSockets(t)
      <3>1. CASE RoomLeft(t)
        BY <2>9, <3>1, RoomLeftCalls DEF CountSockets
      <3>2. CASE ~RoomLeft(t)
        BY <2>9, <3>2 DEF CountSockets
      <3>3. QED
        BY <3>1, <3>2
    <2>10. CASE RemoveRoom(t)
      BY <2>10, RoomLeftCalls DEF RemoveRoom
    <2>11. CASE CopySockets(t)
      <3>1. CASE Return(t)
        BY <3>1, ReturnCalls
      <3>2. CASE ~Return(t)
        BY <2>0, <2>11, <3>2 DEF CopySockets
      <3>3. QED
        BY <3>1, <3>2
    <2>12. CASE SendToSocket(t)
      <3>1. CASE Return(t)
        BY <3>1, ReturnCalls
      <3>2. CASE ~Return(t)
        BY <2>12, <3>2 DEF SendToSocket
      <3>3. QED
        BY <3>1, <3>2
    <2>13. QED
      BY <1>b, <2>1, <2>2, <2>3, <2>4, <2>5, <2>6, <2>7, <2>8, <2>9, <2>10,
         <2>11, <2>12 DEF Run
  <1>c. ASSUME NEW t \in Threads, Start(t) \/ Run(t) PROVE Rest
    <2> USE DEF TypeInv, TypeOK, RightName
    <2>1. CASE GetRoomCreate(t)
      <3>1. name[t] \in Names
        BY <2>1 DEF GetRoomCreate, CallsOK, CallOK
      <3>2. CASE rooms[name[t]] = Nil
        <4>1. PICK i \in Ids : NewRoom(t, <<name[t], i>>)
          BY <2>1, <3>2 DEF GetRoomCreate
        <4>2. <<name[t], i>> \in Objects /\ NameOf(<<name[t], i>>) = name[t]
          BY <3>1 DEF Objects, NameOf
        <4>3. QED
          BY <3>1, <4>1, <4>2 DEF NewRoom
      <3>3. CASE rooms[name[t]] # Nil
        BY <2>1, <3>3 DEF GetRoomCreate
      <3>4. QED
        BY <3>2, <3>3
    <2>2. CASE AddSocket(t)
      BY <2>2 DEF AddSocket, CallsOK, CallOK
    <2>3. CASE RemoveSocket(t)
      BY <2>3 DEF RemoveSocket, CallsOK, CallOK
    <2>4. CASE RemoveRoom(t)
      <3>1. NameOf(room[t]) \in Names
        BY <2>4, ObjectName DEF RemoveRoom, CallsOK, CallOK
      <3>2. QED
        BY <2>4, <3>1 DEF RemoveRoom
    <2>5. CASE UNCHANGED <<rooms, members, struck, queried>>
      BY <2>5
    <2>6. QED
      BY <1>c, <2>1, <2>2, <2>3, <2>4, <2>5
         DEF Run, Start, GetRoomLookup, FindRoom, CopyRooms, ScanRoom, CountSockets,
             CopySockets, SendToSocket
  <1>d. CASE UNCHANGED vars
    BY <1>d DEF vars, callVars, histVars, TypeInv, TypeOK, CallOK, RightName
  <1>e. QED
    BY <1>a, <1>b, <1>c, <1>d DEF Next

(* Every goroutine's arguments and locals are what its next critical section *)
(* needs: AddSocket, RemoveSocket and RemoveRoom never run on a nil *Room.   *)
THEOREM TypeCorrect == Spec => []TypeOK
  <1>1. TypeInv => TypeOK
    BY DEF TypeInv
  <1>2. QED
    BY <1>1, TypeInvInit, TypeInvNext, PTL DEF Spec

------------------------------------------------------------------------------
(* The steps below share two facts: a goroutine's step leaves the other      *)
(* goroutines' positions and locals alone, and a step outside of the four    *)
(* writing critical sections leaves the rooms alone.                         *)

Others(t) == \A u \in Threads : u # t =>
    /\ pc'[u] = pc[u] /\ op'[u] = op[u] /\ name'[u] = name[u] /\ sock'[u] = sock[u]
    /\ room'[u] = room[u] /\ todo'[u] = todo[u]
    /\ targets'[u] = targets[u] /\ sent'[u] = sent[u]

Writes(t) == GetRoomCreate(t) \/ AddSocket(t) \/ RemoveSocket(t) \/ RemoveRoom(t)

LEMMA StepOthers ==
    ASSUME CallsOK, NEW t \in Threads, Start(t) \/ Run(t)
    PROVE  Others(t)
  <1>1. CASE Start(t)
    BY <1>1 DEF Start, JoinRoom, LeaveRoom, In, BroadcastToRoom, LeaveAllRooms, Call,
                Goto, CallsOK, Others
  <1>2. CASE Run(t)
    <2> USE <1>2 DEF CallsOK, Others, Goto
    <2>1. Return(t) => Others(t)
      BY DEF Return
    <2>2. RoomLeft(t) => Others(t)
      BY <2>1 DEF RoomLeft
    <2>3. GetRoomLookup(t) \/ FindRoom(t) \/ CopyRooms(t) \/ ScanRoom(t) => Others(t)
      BY <2>1 DEF GetRoomLookup, FindRoom, CopyRooms, ScanRoom
    <2>4. GetRoomCreate(t) \/ AddSocket(t) => Others(t)
      BY <2>1 DEF GetRoomCreate, NewRoom, AddSocket
    <2>5. RemoveSocket(t) \/ CountSockets(t) \/ RemoveRoom(t) => Others(t)
      BY <2>2 DEF RemoveSocket, CountSockets, RemoveRoom
    <2>6. CopySockets(t) \/ SendToSocket(t) => Others(t)
      BY <2>1 DEF CopySockets, SendToSocket
    <2>7. QED
      BY <2>3, <2>4, <2>5, <2>6 DEF Run
  <1>3. QED
    BY <1>1, <1>2

LEMMA StepReads ==
    ASSUME NEW t \in Threads, Start(t) \/ Run(t), ~Writes(t)
    PROVE  UNCHANGED <<rooms, members, struck, queried>>
  BY DEF Start, Run, Writes, GetRoomLookup, FindRoom, CopyRooms, ScanRoom, CountSockets,
         CopySockets, SendToSocket

(* What GetRoomCreate does to the manager, with the object it settles on. *)
LEMMA CreateStep ==
    ASSUME TypeInv, NEW t \in Threads, GetRoomCreate(t)
    PROVE  \E r \in Objects :
             /\ NameOf(r) = name[t] /\ name[t] \in Names
             /\ room' = [room EXCEPT ![t] = r]
             /\ \/ /\ rooms[name[t]] = Nil /\ NewRoom(t, r)
                \/ rooms[name[t]] = r /\ UNCHANGED <<rooms, members, struck, queried>>
  <1>1. name[t] \in Names
    BY DEF TypeInv, CallOK, GetRoomCreate
  <1>2. CASE rooms[name[t]] = Nil
    <2>1. PICK i \in Ids : NewRoom(t, <<name[t], i>>)
      BY <1>2 DEF GetRoomCreate
    <2>2. <<name[t], i>> \in Objects /\ NameOf(<<name[t], i>>) = name[t]
      BY <1>1 DEF Objects, NameOf
    <2>3. QED
      BY <1>1, <1>2, <2>1, <2>2 DEF NewRoom
  <1>3. CASE rooms[name[t]] # Nil
    <2>1. rooms[name[t]] \in Objects /\ NameOf(rooms[name[t]]) = name[t]
      BY <1>1, <1>3 DEF TypeInv, TypeOK, RightName
    <2>2. QED
      BY <1>1, <1>3, <2>1 DEF GetRoomCreate
  <1>4. QED
    BY <1>2, <1>3

------------------------------------------------------------------------------
(* No room leaks. *)

LEMMA EmptyRoomAccountedNext ==
    TypeInv /\ EmptyRoomAccounted /\ [Next]_vars => EmptyRoomAccounted'
  <1> SUFFICES ASSUME TypeInv, EmptyRoomAccounted, [Next]_vars
               PROVE  EmptyRoomAccounted'
    OBVIOUS
  <1> USE TypeInvCalls
  <1>1. CASE UNCHANGED vars
    BY <1>1 DEF vars, callVars, histVars, EmptyRoomAccounted, Registered
  <1>2. ASSUME NEW t \in Threads, Start(t) \/ Run(t) PROVE EmptyRoomAccounted'
    <2> SUFFICES ASSUME NEW r \in Objects, Registered(r)', members'[r] = {}
                 PROVE  \/ r \in queried'
                        \/ \E u \in Threads : /\ room'[u] = r
                                              /\ pc'[u] \in {"add", "count", "drop"}
      BY DEF EmptyRoomAccounted
    <2>0. Others(t)
      BY <1>2, StepOthers
    <2> USE <2>0, ObjectName DEF Others
    <2>1. CASE GetRoomCreate(t)
      <3>1. PICK q \in Objects :
              /\ NameOf(q) = name[t] /\ name[t] \in Names
              /\ room' = [room EXCEPT ![t] = q]
              /\ \/ /\ rooms[name[t]] = Nil /\ NewRoom(t, q)
                 \/ rooms[name[t]] = q /\ UNCHANGED <<rooms, members, struck, queried>>
        BY <2>1, CreateStep
      <3>2. CASE NewRoom(t, q) /\ r = q
        <4>1. op[t] = "in" => r \in queried'
          BY <3>2 DEF NewRoom
        <4>2. op[t] # "in" => room'[t] = r /\ pc'[t] = "add"
          BY <2>1, <3>1, <3>2 DEF GetRoomCreate, AfterGetRoom, Goto, TypeInv, TypeOK, CallOK
        <4>3. QED
          BY <4>1, <4>2
      <3>3. CASE ~(NewRoom(t, q) /\ r = q)
        <4>1. Registered(r) /\ members[r] = {} /\ (r \in queried => r \in queried')
          BY <3>1, <3>3 DEF NewRoom, Registered, TypeInv, TypeOK
        <4>2. QED
          BY <2>1, <4>1 DEF GetRoomCreate, EmptyRoomAccounted
      <3>4. QED
        BY <3>2, <3>3
    <2>2. CASE AddSocket(t)
      <3>1. room[t] \in Objects /\ pc[t] = "add"
        BY <2>2 DEF AddSocket, TypeInv, CallOK
      <3>2. r # room[t] /\ members[r] = {}
        BY <2>2, <3>1 DEF AddSocket, TypeInv, TypeOK
      <3>3. Registered(r) /\ (r \in queried => r \in queried')
        BY <2>2, <3>2 DEF AddSocket, Registered
      <3>4. QED
        BY <3>2, <3>3 DEF EmptyRoomAccounted
    <2>3. CASE RemoveSocket(t)
      BY <2>3 DEF RemoveSocket, Goto, TypeInv, TypeOK, CallOK, EmptyRoomAccounted, Registered
    <2>4. CASE RemoveRoom(t)
      <3>0. room[t] \in Objects
        BY <2>4 DEF RemoveRoom, TypeInv, CallOK
      <3>1. r # rooms[NameOf(room[t])] /\ Registered(r) /\ r # room[t]
        BY <2>4, <3>0 DEF RemoveRoom, Registered, TypeInv, TypeOK, RightName
      <3>2. QED
        BY <2>4, <3>1 DEF RemoveRoom, EmptyRoomAccounted
    <2>5. CASE CountSockets(t)
      BY <2>5 DEF CountSockets, Goto, TypeInv, TypeOK, CallOK, EmptyRoomAccounted, Registered
    <2>6. CASE ~Writes(t) /\ ~CountSockets(t)
      <3>1. Registered(r) /\ members[r] = {} /\ queried' = queried
        BY <1>2, <2>6, StepReads DEF Registered
      <3>2. pc[t] \notin {"add", "count", "drop"}
        BY <1>2, <2>6 DEF Writes, Run, Start, JoinRoom, LeaveRoom, In, BroadcastToRoom,
             LeaveAllRooms, Call, GetRoomLookup, FindRoom, CopyRooms, ScanRoom,
             CopySockets, SendToSocket
      <3>3. QED
        BY <3>1, <3>2 DEF EmptyRoomAccounted
    <2>7. QED
      BY <2>1, <2>2, <2>3, <2>4, <2>5, <2>6 DEF Writes
  <1>3. QED
    BY <1>1, <1>2 DEF Next

(* Whatever joins and leaves interleave, a registered room without sockets   *)
(* has a joiner or a remover under way, or was created by In alone: rooms    *)
(* are not leaked by LeaveRoom's and LeaveAllRooms' unlocked clean-up.       *)
THEOREM NoRoomLeaks == Spec => []EmptyRoomAccounted
  <1>1. Init => EmptyRoomAccounted
    BY ObjectName DEF Init, EmptyRoomAccounted, Registered
  <1>2. QED
    BY <1>1, TypeInvInit, TypeInvNext, EmptyRoomAccountedNext, PTL DEF Spec

------------------------------------------------------------------------------
(* Only RemoveRoom loses members. *)

(* The room a joiner is about to add its socket to is the registered one,    *)
(* unless RemoveRoom took it away in between.                                *)
JoinerAccounted ==
    \A t \in Threads : pc[t] = "add" => Registered(room[t]) \/ room[t] \in struck

LEMMA LostNext ==
    TypeInv /\ LostOnlyToRemoveRoom /\ JoinerAccounted /\ [Next]_vars
        => LostOnlyToRemoveRoom' /\ JoinerAccounted'
  <1> SUFFICES ASSUME TypeInv, LostOnlyToRemoveRoom, JoinerAccounted, [Next]_vars
               PROVE  LostOnlyToRemoveRoom' /\ JoinerAccounted'
    OBVIOUS
  <1> USE TypeInvCalls, ObjectName
  <1>1. CASE UNCHANGED vars
    BY <1>1 DEF vars, callVars, histVars, LostOnlyToRemoveRoom, JoinerAccounted, Registered
  <1>2. ASSUME NEW t \in Threads, Start(t) \/ Run(t)
        PROVE  LostOnlyToRemoveRoom' /\ JoinerAccounted'
    <2>0. Others(t)
      BY <1>2, StepOthers
    <2>1. CASE GetRoomCreate(t)
      <3>1. PICK q \in Objects :
              /\ NameOf(q) = name[t] /\ name[t] \in Names
              /\ room' = [room EXCEPT ![t] = q]
              /\ \/ /\ rooms[name[t]] = Nil /\ NewRoom(t, q)
                 \/ rooms[name[t]] = q /\ UNCHANGED <<rooms, members, struck, queried>>
        BY <2>1, CreateStep
      <3>2. Registered(q)'
        BY <3>1 DEF NewRoom, Registered, TypeInv, TypeOK
      <3>3. \A r \in Objects \ {q} : /\ Registered(r) => Registered(r)'
                                     /\ members'[r] = members[r]
                                     /\ r \in struck => r \in struck'
        BY <3>1 DEF NewRoom, Registered, TypeInv, TypeOK
      <3>4. LostOnlyToRemoveRoom'
        BY <3>2, <3>3 DEF LostOnlyToRemoveRoom
      <3>5. JoinerAccounted'
        <4> SUFFICES ASSUME NEW u \in Threads, pc'[u] = "add"
                     PROVE  Registered(room[u])' \/ room'[u] \in struck'
          BY DEF JoinerAccounted
        <4>1. CASE u = t \/ room'[u] = q
          <5>1. room'[u] = q
            BY <3>1, <4>1 DEF TypeInv, TypeOK
          <5>2. QED
            BY <5>1, <3>2 DEF Registered
        <4>2. CASE u # t /\ room'[u] # q
          <5>1. pc[u] = "add" /\ room'[u] = room[u] /\ room[u] \in Objects \ {q}
            BY <2>0, <4>2 DEF Others, TypeInv, CallOK
          <5>2. Registered(room[u]) \/ room[u] \in struck
            BY <5>1 DEF JoinerAccounted
          <5>3. QED
            BY <5>1, <5>2, <3>3 DEF Registered
        <4>3. QED
          BY <4>1, <4>2
      <3>6. QED
        BY <3>4, <3>5
    <2>2. CASE AddSocket(t)
      <3>1. room[t] \in Objects /\ (Registered(room[t]) \/ room[t] \in struck)
        BY <2>2 DEF AddSocket, TypeInv, CallOK, JoinerAccounted
      <3>2. \A r \in Objects \ {room[t]} : members'[r] = members[r]
        BY <2>2, <3>1 DEF AddSocket, TypeInv, TypeOK
      <3>3. LostOnlyToRemoveRoom'
        BY <2>2, <3>1, <3>2 DEF AddSocket, LostOnlyToRemoveRoom, Registered
      <3>4. pc'[t] # "add"
        BY <2>2 DEF AddSocket, Return, Goto, TypeInv, TypeOK
      <3>5. JoinerAccounted'
        BY <2>0, <2>2, <3>4 DEF AddSocket, Others, JoinerAccounted, Registered
      <3>6. QED
        BY <3>3, <3>5
    <2>3. CASE RemoveSocket(t)
      <3>1. \A r \in Objects : members'[r] # {} => members[r] # {}
        BY <2>3 DEF RemoveSocket, TypeInv, TypeOK, CallOK
      <3>2. pc'[t] # "add"
        BY <2>3 DEF RemoveSocket, Goto, TypeInv, TypeOK
      <3>3. QED
        BY <2>0, <2>3, <3>1, <3>2
           DEF RemoveSocket, Others, LostOnlyToRemoveRoom, JoinerAccounted, Registered
    <2>4. CASE RemoveRoom(t)
      <3>1. NameOf(room[t]) \in Names
        BY <2>4 DEF RemoveRoom, TypeInv, CallOK
      <3>2. \A r \in Objects : Registered(r) => \/ Registered(r)'
                                                \/ InUse(r) => r \in struck'
        BY <2>4, <3>1 DEF RemoveRoom, Registered, TypeInv, TypeOK
      <3>3. struck \subseteq struck' /\ members' = members
        BY <2>4 DEF RemoveRoom
      <3>4. LostOnlyToRemoveRoom'
        BY <3>2, <3>3 DEF LostOnlyToRemoveRoom, InUse
      <3>5. pc'[t] # "add"
        BY <2>4 DEF RemoveRoom, RoomLeft, Return, Goto, TypeInv, TypeOK
      <3>6. JoinerAccounted'
        <4> SUFFICES ASSUME NEW u \in Threads, pc'[u] = "add"
                     PROVE  Registered(room[u])' \/ room'[u] \in struck'
          BY DEF JoinerAccounted
        <4>1. pc[u] = "add" /\ room'[u] = room[u] /\ room[u] \in Objects
          BY <2>0, <3>5 DEF Others, TypeInv, CallOK
        <4>2. InUse(room[u])
          BY <4>1 DEF InUse
        <4>3. QED
          BY <3>2, <3>3, <4>1, <4>2 DEF JoinerAccounted, Registered
      <3>7. QED
        BY <3>4, <3>6
    <2>5. CASE ~Writes(t)
      <3>1. UNCHANGED <<rooms, members, struck, queried>>
        BY <1>2, <2>5, StepReads
      <3>2. ASSUME pc'[t] = "add" PROVE Registered(room[t])'
        <4>1. GetRoomLookup(t)
          BY <1>2, <2>5, <3>2
             DEF Writes, Run, Start, JoinRoom, LeaveRoom, In, BroadcastToRoom, LeaveAllRooms,
                 Call, FindRoom, CopyRooms, ScanRoom, CountSockets, RoomLeft,
                 CopySockets, SendToSocket, Return, Goto, TypeInv, TypeOK
        <4>2. name[t] \in Names /\ rooms[name[t]] # Nil /\ room'[t] = rooms[name[t]]
          BY <3>2, <4>1 DEF GetRoomLookup, Goto, TypeInv, TypeOK, CallOK
        <4>3. NameOf(rooms[name[t]]) = name[t]
          BY <4>2 DEF TypeInv, RightName
        <4>4. QED
          BY <3>1, <4>2, <4>3 DEF Registered
      <3>3. QED
        BY <2>0, <3>1, <3>2 DEF Others, LostOnlyToRemoveRoom, JoinerAccounted, Registered
    <2>6. QED
      BY <2>1, <2>2, <2>3, <2>4, <2>5 DEF Writes
  <1>3. QED
    BY <1>1, <1>2 DEF Next

(* The only way a room object with sockets in it drops out of the manager's  *)
(* map is RemoveRoom deleting it while it was in use; in particular no two   *)
(* concurrent GetRoom calls ever split a room in two.                        *)
THEOREM OnlyRemoveRoomLoses == Spec => []LostOnlyToRemoveRoom
  <1>1. Init => LostOnlyToRemoveRoom /\ JoinerAccounted
    BY DEF Init, LostOnlyToRemoveRoom, JoinerAccounted
  <1>2. QED
    BY <1>1, TypeInvInit, TypeInvNext, LostNext, PTL DEF Spec

------------------------------------------------------------------------------
(* LeaveAllRooms leaves all rooms. *)

(* Only AddSocket makes a socket a member of a registered room. *)
LEMMA MembersGrow ==
    ASSUME TypeInv, NEW t \in Threads, Start(t) \/ Run(t), ~AddSocket(t),
           NEW r \in Objects, NEW s, Registered(r)', s \in members'[r]
    PROVE  Registered(r) /\ s \in members[r]
  <1> USE TypeInvCalls, ObjectName
  <1>1. CASE GetRoomCreate(t)
    <2>1. PICK q \in Objects :
              /\ NameOf(q) = name[t] /\ name[t] \in Names
              /\ room' = [room EXCEPT ![t] = q]
              /\ \/ /\ rooms[name[t]] = Nil /\ NewRoom(t, q)
                 \/ rooms[name[t]] = q /\ UNCHANGED <<rooms, members, struck, queried>>
      BY <1>1, CreateStep
    <2>2. QED
      BY <2>1 DEF NewRoom, Registered, TypeInv, TypeOK
  <1>2. CASE RemoveSocket(t)
    BY <1>2 DEF RemoveSocket, Registered, TypeInv, TypeOK, CallOK
  <1>3. CASE RemoveRoom(t)
    <2>1. NameOf(room[t]) \in Names
      BY <1>3 DEF RemoveRoom, TypeInv, CallOK
    <2>2. QED
      BY <1>3, <2>1 DEF RemoveRoom, Registered, TypeInv, TypeOK
  <1>4. CASE ~Writes(t)
    BY <1>4, StepReads DEF Registered
  <1>5. QED
    BY <1>1, <1>2, <1>3, <1>4 DEF Writes

(* Every registered room that still holds the socket is one LeaveAllRooms    *)
(* has yet to visit or is about to remove the socket from.                   *)
LeaveAllTodo ==
    \A t \in Threads, r \in Objects :
        (/\ op[t] = "leaveAll" /\ pc[t] # "snapshot" /\ ~rejoined[t]
         /\ Registered(r) /\ sock[t] \in members[r])
        => r \in todo[t] \/ (pc[t] = "remove" /\ room[t] = r)

LEMMA LeaveAllTodoNext ==
    TypeInv /\ LeaveAllTodo /\ [Next]_vars => LeaveAllTodo'
  <1> SUFFICES ASSUME TypeInv, LeaveAllTodo, [Next]_vars
               PROVE  LeaveAllTodo'
    OBVIOUS
  <1> USE TypeInvCalls, ObjectName
  <1>1. CASE UNCHANGED vars
    BY <1>1 DEF vars, callVars, histVars, LeaveAllTodo, Registered
  <1>2. ASSUME NEW t \in Threads, Start(t) \/ Run(t), Remember PROVE LeaveAllTodo'
    <2> SUFFICES ASSUME NEW u \in Threads, NEW r \in Objects,
                        op'[u] = "leaveAll", pc'[u] # "snapshot", ~rejoined'[u],
                        Registered(r)', sock'[u] \in members'[r]
                 PROVE  r \in todo'[u] \/ (pc'[u] = "remove" /\ room'[u] = r)
      BY DEF LeaveAllTodo
    <2>0. Others(t)
      BY <1>2, StepOthers
    <2>1. ASSUME pc[u] \notin {"idle", "snapshot"}
          PROVE  /\ ~rejoined[u]
                 /\ \A v \in Threads : pc[v] = "add" /\ pc'[v] # "add" => sock[v] # sock[u]
      BY <1>2, <2>1, Zenon DEF Remember
    <2>2. AddSocket(t) => pc[t] = "add" /\ pc'[t] = "idle" /\ op'[t] = "none"
      BY DEF AddSocket, Return, Goto, TypeInv, TypeOK
    <2>3. CASE u # t
      <3>1. /\ op[u] = "leaveAll" /\ pc'[u] = pc[u] /\ room'[u] = room[u]
            /\ todo'[u] = todo[u] /\ sock'[u] = sock[u]
        BY <2>0, <2>3 DEF Others
      <3>2. pc[u] \notin {"idle", "snapshot"}
        BY <3>1 DEF TypeInv, CallOK
      <3>3. Registered(r) /\ sock[u] \in members[r]
        <4>1. CASE AddSocket(t)
          <5>1. sock[t] # sock[u]
            BY <2>1, <2>2, <3>2, <4>1
          <5>2. QED
            BY <3>1, <4>1, <5>1 DEF AddSocket, Registered, TypeInv, TypeOK, CallOK
        <4>2. CASE ~AddSocket(t)
          BY <1>2, <3>1, <4>2, MembersGrow
        <4>3. QED
          BY <4>1, <4>2
      <3>4. QED
        BY <2>1, <3>1, <3>2, <3>3 DEF LeaveAllTodo
    <2>4. CASE u = t
      <3>1. ~AddSocket(t)
        BY <2>2, <2>4
      <3>2. Registered(r) /\ sock'[t] \in members[r]
        BY <1>2, <2>4, <3>1, MembersGrow
      <3>3. CASE CopyRooms(t)
        BY <2>4, <3>2, <3>3 DEF CopyRooms, TypeInv, TypeOK
      <3>4. CASE ScanRoom(t)
        <4>1. pc[t] = "scan" /\ sock' = sock /\ op' = op
          BY <2>4, <3>4 DEF ScanRoom, Return, Goto, TypeInv, TypeOK
        <4>2. op[t] = "leaveAll" /\ r \in todo[t]
          BY <2>1, <2>4, <3>2, <4>1 DEF TypeInv, CallOK, LeaveAllTodo
        <4>3. PICK q \in todo[t] :
                /\ todo' = [todo EXCEPT ![t] = @ \ {q}]
                /\ IF sock[t] \in members[q]
                   THEN Goto(t, "remove") /\ room' = [room EXCEPT ![t] = q]
                   ELSE UNCHANGED <<pc, room>>
          BY <3>4, <4>2 DEF ScanRoom
        <4>4. QED
          BY <2>4, <3>2, <4>1, <4>2, <4>3 DEF Goto, TypeInv, TypeOK
      <3>5. CASE RemoveSocket(t)
        <4>1. /\ pc[t] = "remove" /\ op[t] = "leaveAll" /\ sock' = sock /\ todo' = todo
              /\ room[t] \in Objects
          BY <2>4, <3>5 DEF RemoveSocket, TypeInv, CallOK
        <4>2. r # room[t]
          BY <2>4, <3>5, <4>1 DEF RemoveSocket, TypeInv, TypeOK
        <4>3. QED
          BY <2>1, <2>4, <3>2, <4>1, <4>2 DEF LeaveAllTodo
      <3>6. CASE CountSockets(t) \/ RemoveRoom(t)
        <4>1. /\ pc[t] \in {"count", "drop"} /\ op[t] = "leaveAll"
              /\ sock' = sock /\ todo' = todo
          BY <2>4, <3>6
             DEF CountSockets, RemoveRoom, RoomLeft, Return, Goto, TypeInv, TypeOK, CallOK
        <4>2. QED
          BY <2>1, <2>4, <3>2, <4>1 DEF LeaveAllTodo
      <3>7. CASE Start(t)
        BY <2>4, <3>7 DEF Start, JoinRoom, LeaveRoom, In, BroadcastToRoom, LeaveAllRooms,
             Call, Goto, TypeInv, TypeOK
      <3>8. CASE GetRoomLookup(t) \/ GetRoomCreate(t) \/ FindRoom(t)
                 \/ CopySockets(t) \/ SendToSocket(t)
        <4>1. op[t] # "leaveAll"
          BY <3>8 DEF GetRoomLookup, GetRoomCreate, FindRoom, CopySockets, SendToSocket,
               TypeInv, CallOK
        <4>2. op' = op \/ op'[t] = "none"
          BY <3>8 DEF GetRoomLookup, GetRoomCreate, FindRoom, CopySockets, SendToSocket,
               Return, TypeInv, TypeOK
        <4>3. QED
          BY <2>4, <4>1, <4>2
      <3>9. QED
        BY <1>2, <3>1, <3>3, <3>4, <3>5, <3>6, <3>7, <3>8 DEF Run
    <2>5. QED
      BY <2>3, <2>4
  <1>3. QED
    BY <1>1, <1>2 DEF Next

(* A socket nobody adds to a room while LeaveAllRooms runs for it is in no   *)
(* registered room when it returns, although the rooms are copied first and  *)
(* visited one by one while others create, fill and remove rooms.            *)
THEOREM LeaveAllLeavesAll == Spec => LeaveAllComplete
  <1> DEFINE Step == \A t \in Threads : op[t] = "leaveAll" /\ op'[t] = "none" /\ ~rejoined[t] =>
                       \A r \in Objects : Registered(r) => sock[t] \notin members[r]
  <1>1. Init => LeaveAllTodo
    BY DEF Init, LeaveAllTodo
  <1>2. TypeInv /\ LeaveAllTodo /\ [Next]_vars => [Step]_vars
    <2> SUFFICES ASSUME TypeInv, LeaveAllTodo, NEW u \in Threads, Start(u) \/ Run(u),
                        NEW t \in Threads,
                        op[t] = "leaveAll", op'[t] = "none", ~rejoined[t]
                 PROVE  \A r \in Objects : Registered(r) => sock[t] \notin members[r]
      BY DEF Next
    <2>1. u = t
      BY TypeInvCalls, StepOthers DEF Others
    <2>2. pc[t] = "scan" /\ todo[t] = {}
      BY <2>1 DEF Run, Start, JoinRoom, LeaveRoom, In, BroadcastToRoom, LeaveAllRooms, Call,
           GetRoomLookup, GetRoomCreate, AddSocket, FindRoom, CopyRooms, ScanRoom,
           RemoveSocket, CountSockets, RemoveRoom, RoomLeft, CopySockets, SendToSocket,
           TypeInv, CallOK
    <2>3. QED
      BY <2>2 DEF LeaveAllTodo
  <1>3. QED
    BY <1>1, <1>2, TypeInvInit, TypeInvNext, LeaveAllTodoNext, PTL DEF Spec, LeaveAllComplete

------------------------------------------------------------------------------
(* BroadcastToRoom reaches the members that stay. *)

(* The stable members are visible all along, and once the goroutine has a    *)
(* room in hand it is the registered one, or no member is stable any more.   *)
BroadcastInv ==
    /\ \A t \in Threads : pc[t] = "send" => stable[t] \subseteq targets[t] \cup sent[t]
    /\ \A t \in Threads : op[t] = "broadcast" => stable[t] \subseteq Visible(name[t])
    /\ \A t \in Threads : op[t] = "broadcast" /\ pc[t] = "copy"
                             => rooms[name[t]] = room[t] \/ stable[t] = {}

LEMMA BroadcastInvNext == TypeInv /\ BroadcastInv /\ [Next]_vars => BroadcastInv'
  <1> SUFFICES ASSUME TypeInv, BroadcastInv, [Next]_vars PROVE BroadcastInv'
    OBVIOUS
  <1> USE TypeInvCalls, ObjectName
  <1>1. CASE UNCHANGED vars
    BY <1>1 DEF vars, callVars, histVars, BroadcastInv, Visible
  <1>2. ASSUME NEW t \in Threads, Start(t) \/ Run(t), Remember PROVE BroadcastInv'
    <2> SUFFICES ASSUME NEW u \in Threads
                 PROVE  /\ pc'[u] = "send" => stable'[u] \subseteq targets'[u] \cup sent'[u]
                        /\ op'[u] = "broadcast" => stable'[u] \subseteq Visible(name[u])'
                        /\ op'[u] = "broadcast" /\ pc'[u] = "copy"
                               => rooms'[name'[u]] = room'[u] \/ stable'[u] = {}
      BY DEF BroadcastInv
    <2>0. Others(t)
      BY <1>2, StepOthers
    <2>1. stable'[u] = IF op'[u] # "broadcast" THEN {}
                       ELSE IF pc[u] = "idle" THEN Visible(name'[u])
                       ELSE stable[u] \cap Visible(name[u])'
      BY <1>2 DEF Remember
    <2>3. CASE op'[u] # "broadcast"
      BY <2>1, <2>3
    <2>4. CASE op'[u] = "broadcast" /\ pc[u] = "idle"
      <3>1. Start(t) /\ u = t
        BY <1>2, <2>0, <2>4 DEF Others, TypeInv, CallOK, Run, GetRoomLookup, GetRoomCreate,
             AddSocket, FindRoom, CopyRooms, ScanRoom, RemoveSocket, CountSockets, RemoveRoom,
             CopySockets, SendToSocket
      <3>2. pc'[u] = "find" /\ UNCHANGED <<rooms, members>>
        BY <2>4, <3>1 DEF Start, JoinRoom, LeaveRoom, In, BroadcastToRoom, LeaveAllRooms,
             Call, Goto, TypeInv, TypeOK
      <3>3. QED
        BY <2>1, <2>4, <3>2 DEF Visible
    <2>5. CASE op'[u] = "broadcast" /\ pc[u] # "idle"
      <3>1. op[u] = "broadcast" /\ name'[u] = name[u] /\ name[u] \in Names
        <4>1. op[u] = "broadcast" /\ name'[u] = name[u]
          <5>1. CASE u # t
            BY <2>0, <2>5, <5>1 DEF Others
          <5>2. CASE u = t
            BY <1>2, <2>5, <5>2
               DEF Run, Start, JoinRoom, LeaveRoom, In, BroadcastToRoom, LeaveAllRooms, Call,
                   GetRoomLookup, GetRoomCreate, AddSocket, FindRoom, CopyRooms, ScanRoom,
                   RemoveSocket, CountSockets, RemoveRoom, RoomLeft, CopySockets,
                   SendToSocket, Return, TypeInv, TypeOK
          <5>3. QED
            BY <5>1, <5>2
        <4>2. QED
          BY <4>1 DEF TypeInv, CallOK
      <3>2. stable'[u] \subseteq stable[u] /\ stable'[u] \subseteq Visible(name[u])'
        BY <2>1, <2>5, <3>1 DEF Visible
      <3>3. ASSUME rooms[name[u]] = room[u] \/ stable[u] = {}
            PROVE  rooms'[name[u]] = room[u] \/ stable'[u] = {}
        <4>1. CASE GetRoomCreate(t)
          <5>1. rooms'[name[u]] = rooms[name[u]] \/ rooms[name[u]] = Nil
            BY <3>1, <4>1, CreateStep DEF NewRoom, TypeInv, TypeOK
          <5>2. rooms[name[u]] = Nil => stable[u] = {}
            BY <3>1 DEF BroadcastInv, Visible
          <5>3. QED
            BY <3>2, <3>3, <5>1, <5>2
        <4>2. CASE RemoveRoom(t)
          <5>1. rooms'[name[u]] = rooms[name[u]] \/ rooms'[name[u]] = Nil
            BY <3>1, <4>2 DEF RemoveRoom, TypeInv, TypeOK
          <5>2. rooms'[name[u]] = Nil => stable'[u] = {}
            BY <3>1, <3>2 DEF Visible
          <5>3. QED
            BY <3>2, <3>3, <5>1, <5>2
        <4>3. CASE ~GetRoomCreate(t) /\ ~RemoveRoom(t)
          <5>1. rooms' = rooms
            BY <1>2, <4>3, StepReads DEF Writes, AddSocket, RemoveSocket
          <5>2. QED
            BY <3>2, <3>3, <5>1
        <4>4. QED
          BY <4>1, <4>2, <4>3
      <3>4. CASE u # t
        BY <2>0, <3>1, <3>2, <3>3, <3>4 DEF Others, BroadcastInv
      <3>5. CASE u = t
        <4>1. FindRoom(t) \/ CopySockets(t) \/ SendToSocket(t)
          BY <1>2, <2>5, <3>1, <3>5
             DEF Run, Start, JoinRoom, LeaveRoom, In, BroadcastToRoom, LeaveAllRooms, Call,
                 GetRoomLookup, GetRoomCreate, AddSocket, CopyRooms, ScanRoom,
                 RemoveSocket, CountSockets, RemoveRoom, TypeInv, CallOK
        <4>2. UNCHANGED <<rooms, members>> /\ op'[t] # "none"
          BY <2>5, <3>5, <4>1 DEF FindRoom, CopySockets, SendToSocket
        <4>3. CASE FindRoom(t)
          BY <2>5, <3>1, <3>2, <3>5, <4>2, <4>3
             DEF FindRoom, Return, Goto, TypeInv, TypeOK, Visible
        <4>4. CASE CopySockets(t)
          <5>1. /\ pc[t] = "copy" /\ pc'[t] = "send" /\ room[t] \in Objects
                /\ targets'[t] = members[room[t]]
            BY <3>1, <3>5, <4>4 DEF CopySockets, Goto, TypeInv, TypeOK, CallOK
          <5>2. stable[t] \subseteq members[room[t]]
            BY <3>1, <3>5, <5>1 DEF BroadcastInv, Visible
          <5>3. QED
            BY <3>1, <3>2, <3>5, <5>1, <5>2
        <4>5. CASE SendToSocket(t)
          <5>1. /\ pc[t] = "send" /\ pc'[t] = "send"
                /\ targets'[t] \cup sent'[t] = targets[t] \cup sent[t]
            BY <3>5, <4>2, <4>5 DEF SendToSocket, Return, Goto, TypeInv, TypeOK
          <5>2. QED
            BY <3>1, <3>2, <3>5, <5>1 DEF BroadcastInv
        <4>6. QED
          BY <4>1, <4>3, <4>4, <4>5
      <3>6. QED
        BY <3>4, <3>5
    <2>6. QED
      BY <2>3, <2>4, <2>5
  <1>3. QED
    BY <1>1, <1>2 DEF Next

(* A socket that is a member from BroadcastToRoom's call to its return is    *)
(* sent the message, even though the room is looked up, copied and sent to   *)
(* under three different critical sections.                                  *)
THEOREM BroadcastReaches == Spec => BroadcastReachesMembers
  <1> DEFINE Step == \A t \in Threads : op[t] = "broadcast" /\ op'[t] = "none"
                                           => stable[t] \subseteq sent[t]
  <1>1. Init => BroadcastInv
    BY DEF Init, BroadcastInv
  <1>2. TypeInv /\ BroadcastInv /\ [Next]_vars => [Step]_vars
    <2> SUFFICES ASSUME TypeInv, BroadcastInv, NEW u \in Threads, Start(u) \/ Run(u),
                        NEW t \in Threads, op[t] = "broadcast", op'[t] = "none"
                 PROVE  stable[t] \subseteq sent[t]
      BY DEF Next
    <2>1. u = t
      BY TypeInvCalls, StepOthers DEF Others
    <2>2. \/ pc[t] = "find" /\ rooms[name[t]] = Nil
          \/ pc[t] = "send" /\ targets[t] = {}
      BY <2>1 DEF Run, Start, JoinRoom, LeaveRoom, In, BroadcastToRoom, LeaveAllRooms, Call,
           GetRoomLookup, GetRoomCreate, AddSocket, FindRoom, CopyRooms, ScanRoom,
           RemoveSocket, CountSockets, RemoveRoom, CopySockets, SendToSocket,
           TypeInv, TypeOK, CallOK
    <2>3. QED
      BY <2>2 DEF BroadcastInv, Visible
  <1>3. QED
    BY <1>1, <1>2, TypeInvInit, TypeInvNext, BroadcastInvNext, PTL
       DEF Spec, BroadcastReachesMembers
------------------------------------------------------------------------------
(* The registered rooms are a relation on which joins and leaves act at once. *)

(* A join or leave has the room of the name it was called with. *)
OwnRoom ==
    \A t \in Threads : op[t] \in {"join", "leave"} =>
        /\ name[t] \in Names /\ sock[t] \in Sockets
        /\ pc[t] \in {"add", "remove", "count", "drop"} => NameOf(room[t]) = name[t]

LEMMA OwnRoomNext == TypeInv /\ OwnRoom /\ [Next]_vars => OwnRoom'
  <1> SUFFICES ASSUME TypeInv, OwnRoom, [Next]_vars PROVE OwnRoom'
    OBVIOUS
  <1> USE TypeInvCalls, ObjectName
  <1>1. CASE UNCHANGED vars
    BY <1>1 DEF vars, callVars, OwnRoom
  <1>2. ASSUME NEW t \in Threads, Start(t) \/ Run(t) PROVE OwnRoom'
    <2> SUFFICES ASSUME op'[t] \in {"join", "leave"}
                 PROVE  /\ name'[t] \in Names /\ sock'[t] \in Sockets
                        /\ pc'[t] \in {"add", "remove", "count", "drop"}
                             => NameOf(room'[t]) = name'[t]
      BY <1>2, StepOthers DEF OwnRoom, Others
    <2> USE DEF TypeInv, TypeOK, Goto
    <2>0. ~Return(t)
      BY DEF Return
    <2>1. CASE Start(t)
      BY <2>1 DEF Start, JoinRoom, LeaveRoom, In, BroadcastToRoom, LeaveAllRooms, Call
    <2>2. CASE GetRoomLookup(t)
      BY <2>2 DEF GetRoomLookup, AfterGetRoom, OwnRoom, CallOK, RightName
    <2>3. CASE GetRoomCreate(t)
      <3>1. PICK q \in Objects : NameOf(q) = name[t] /\ room' = [room EXCEPT ![t] = q]
        BY <2>3, CreateStep
      <3>2. QED
        BY <2>3, <3>1 DEF GetRoomCreate, OwnRoom
    <2>4. CASE FindRoom(t)
      BY <2>0, <2>4 DEF FindRoom, OwnRoom, CallOK, RightName
    <2>5. CASE RemoveSocket(t)
      BY <2>5 DEF RemoveSocket, OwnRoom
    <2>6. CASE CountSockets(t) \/ RemoveRoom(t)
      <3>1. UNCHANGED <<op, name, sock>> /\ (room' = room \/ op[t] = "leaveAll")
        BY <2>0, <2>6 DEF CountSockets, RemoveRoom, RoomLeft
      <3>2. pc[t] \in {"count", "drop"}
        BY <2>6 DEF CountSockets, RemoveRoom
      <3>3. QED
        BY <3>1, <3>2 DEF OwnRoom
    <2>7. CASE AddSocket(t) \/ CopyRooms(t) \/ ScanRoom(t) \/ CopySockets(t) \/ SendToSocket(t)
      BY <2>0, <2>7 DEF AddSocket, CopyRooms, ScanRoom, CopySockets, SendToSocket, CallOK
    <2>8. QED
      BY <1>2, <2>1, <2>2, <2>3, <2>4, <2>5, <2>6, <2>7 DEF Run
  <1>3. QED
    BY <1>1, <1>2 DEF Next

(* The invariant the refinement needs. *)
RelationInv == TypeInv /\ OwnRoom

(* Who is in which room depends on the registered rooms alone ... *)
LEMMA MemberKept ==
    ASSUME \A n \in Names : Visible(n)' = Visible(n)
    PROVE  Member' = Member
  BY DEF Member

(* ... and how far another goroutine's call is, on whether its room is still *)
(* registered.                                                               *)
LEMMA PhaseKept ==
    ASSUME NEW t \in Threads, Others(t), NEW u \in Threads, u # t,
           pc[u] \in {"add", "remove"} => (Registered(room[u])' <=> Registered(room[u]))
    PROVE  Phase'[u] = Phase[u]
  BY DEF Others, Phase, Registered

LEMMA PhasesKept ==
    ASSUME NEW t \in Threads, Others(t), rooms' = rooms
    PROVE  Phase' = [Phase EXCEPT ![t] = Phase'[t]]
  <1>1. \A u \in Threads : u # t => Phase'[u] = Phase[u]
    BY PhaseKept DEF Others, Registered
  <1>2. Phase = [u \in Threads |-> Phase[u]] /\ Phase' = [u \in Threads |-> Phase'[u]]
    BY DEF Phase
  <1>3. QED
    BY <1>1, <1>2

(* A step inside of a call that no other call notices. *)
LEMMA SilentStep ==
    ASSUME NEW t \in Threads, Others(t), UNCHANGED <<op, name, sock>>,
           Member' = Member, Phase' = [Phase EXCEPT ![t] = Phase'[t]], Phase'[t] = Phase[t]
    PROVE  UNCHANGED Promise!vars
  <1>1. Phase = [u \in Threads |-> Phase[u]]
    BY DEF Phase
  <1>2. Phase' = Phase
    BY <1>1
  <1>3. QED
    BY <1>2 DEF Promise!vars

(* A call that returns without having changed a room in this step. *)
LEMMA ReturnStep ==
    ASSUME RelationInv, NEW t \in Threads, Others(t), Return(t), Member' = Member, rooms' = rooms,
           op[t] \in {"in", "leave", "leaveAll", "broadcast"},
           op[t] = "leave" => pc[t] \in {"count", "drop"} \/ rooms[name[t]] = Nil
    PROVE  Promise!Next
  <1>1. Phase' = [Phase EXCEPT ![t] = "called"]
    <2>1. Phase'[t] = "called"
      BY DEF Phase, Return, RelationInv, TypeInv, TypeOK
    <2>2. QED
      BY <2>1, PhasesKept
  <1>2. op[t] = "leave" => Phase[t] = "left" \/ \A p \in Member : p[2] # name[t]
    BY DEF Phase, Member, Visible
  <1>3. Promise!Return(t)
    BY <1>1, <1>2 DEF Promise!Return, Promise!Exit, Return
  <1>4. QED
    BY <1>3 DEF Promise!Next
(* A call is entered with its arguments. *)
LEMMA EnterStep ==
    ASSUME RelationInv, NEW t \in Threads, Others(t), Start(t)
    PROVE  Promise!Next
  <1>1. op[t] = "none" /\ UNCHANGED <<rooms, members>>
    BY DEF Start, JoinRoom, LeaveRoom, In, BroadcastToRoom, LeaveAllRooms, Call,
           RelationInv, TypeInv, CallOK
  <1>2. Member' = Member
    BY <1>1, MemberKept DEF Visible
  <1>3. Phase'[t] = "called" /\ Phase[t] = "called"
    BY <1>1 DEF Start, JoinRoom, LeaveRoom, In, BroadcastToRoom, LeaveAllRooms, Call, Goto,
                Phase, RelationInv, TypeInv, TypeOK
  <1>4. Phase' = Phase
    <2>1. Phase = [u \in Threads |-> Phase[u]]
      BY DEF Phase
    <2>2. QED
      BY <1>1, <1>3, <2>1, PhasesKept
  <1>5. Promise!Enter(t)
    BY <1>1, <1>2, <1>4
       DEF Start, JoinRoom, LeaveRoom, In, BroadcastToRoom, LeaveAllRooms, Call,
           Promise!Enter, Promise!Enters
  <1>6. QED
    BY <1>5 DEF Promise!Next

(* GetRoom changes nobody's membership: a new room is empty, and it takes    *)
(* the place of none.                                                        *)
LEMMA GetRoomStep ==
    ASSUME RelationInv, NEW t \in Threads, Others(t), GetRoomLookup(t) \/ GetRoomCreate(t)
    PROVE  UNCHANGED Promise!vars
  <1> USE ObjectName DEF RelationInv
  <1>1. UNCHANGED <<op, name, sock>> /\ Phase[t] = "called"
    BY DEF GetRoomLookup, GetRoomCreate, Phase
  <1>2. CASE GetRoomLookup(t)
    <2>1. UNCHANGED <<rooms, members>>
      BY <1>2 DEF GetRoomLookup
    <2>2. Phase'[t] = "called"
      BY <1>2, <2>1 DEF GetRoomLookup, AfterGetRoom, Goto, Phase, Registered, TypeInv, TypeOK,
           CallOK, RightName
    <2>3. Member' = Member
      BY <2>1, MemberKept DEF Visible
    <2>4. QED
      BY <1>1, <2>1, <2>2, <2>3, PhasesKept, SilentStep
  <1>3. CASE GetRoomCreate(t)
    <2>1. PICK q \in Objects :
              /\ NameOf(q) = name[t] /\ name[t] \in Names
              /\ room' = [room EXCEPT ![t] = q]
              /\ \/ /\ rooms[name[t]] = Nil /\ NewRoom(t, q)
                 \/ rooms[name[t]] = q /\ UNCHANGED <<rooms, members, struck, queried>>
      BY <1>3, CreateStep
    <2>2. Registered(q)' /\ room'[t] = q
      BY <2>1 DEF NewRoom, Registered, TypeInv, TypeOK
    <2>3. Phase'[t] = "called"
      BY <1>3, <2>2 DEF GetRoomCreate, AfterGetRoom, Goto, Phase, Registered, TypeInv, TypeOK
    <2>4. CASE UNCHANGED <<rooms, members>>
      <3>1. Member' = Member
        BY <2>4, MemberKept DEF Visible
      <3>2. QED
        BY <1>1, <2>3, <2>4, <3>1, PhasesKept, SilentStep
    <2>5. CASE rooms[name[t]] = Nil /\ NewRoom(t, q)
      <3>1. /\ rooms' = [rooms EXCEPT ![name[t]] = q]
            /\ members' = [members EXCEPT ![q] = {}]
            /\ \A n \in Names : rooms[n] # q
            /\ \A u \in Threads : room[u] # q
        BY <2>1, <2>5 DEF NewRoom, Referenced, Registered, TypeInv, TypeOK, RightName
      <3>2. \A n \in Names : Visible(n)' = Visible(n)
        BY <2>1, <2>5, <3>1 DEF Visible, TypeInv, TypeOK
      <3>3. ASSUME NEW u \in Threads, u # t PROVE Phase'[u] = Phase[u]
        <4>1. room'[u] = room[u] /\ room[u] # q
          BY <3>1, <3>3 DEF Others
        <4>2. pc[u] \in {"add", "remove"} => (Registered(room[u])' <=> Registered(room[u]))
          BY <2>1, <2>5, <3>1, <4>1 DEF Registered, TypeInv, TypeOK, CallOK
        <4>3. QED
          BY <3>3, <4>2, PhaseKept
      <3>4. Phase' = [Phase EXCEPT ![t] = Phase'[t]]
        <4>1. Phase = [u \in Threads |-> Phase[u]] /\ Phase' = [u \in Threads |-> Phase'[u]]
          BY DEF Phase
        <4>2. QED
          BY <3>3, <4>1
      <3>5. QED
        BY <1>1, <2>3, <3>2, <3>4, MemberKept, SilentStep
    <2>6. QED
      BY <2>1, <2>4, <2>5
  <1>4. QED
    BY <1>2, <1>3

(* A join acts where AddSocket does. *)
LEMMA JoinStep ==
    ASSUME RelationInv, NEW t \in Threads, Others(t), AddSocket(t)
    PROVE  Promise!Next
  <1> USE ObjectName DEF RelationInv
  <1>1. /\ op[t] = "join" /\ name[t] \in Names /\ sock[t] \in Sockets /\ pc[t] = "add"
        /\ room[t] \in Objects /\ NameOf(room[t]) = name[t]
        /\ rooms' = rooms /\ members' = [members EXCEPT ![room[t]] = @ \cup {sock[t]}]
    BY DEF AddSocket, TypeInv, CallOK, OwnRoom
  <1>0. PICK n \in Names : n = name[t]
    BY <1>1
  <1>2. Phase[t] = IF Registered(room[t]) THEN "called" ELSE "swept"
    BY <1>1 DEF Phase
  <1>3. \A m \in Names : m # n => Visible(m)' = Visible(m)
    BY <1>0, <1>1 DEF Visible, TypeInv, TypeOK, RightName
  <1>4. Phase' = [Phase EXCEPT ![t] = "called"]
    <2>1. Phase'[t] = "called"
      BY DEF AddSocket, Return, Phase, TypeInv, TypeOK
    <2>2. QED
      BY <1>1, <2>1, PhasesKept
  <1>5. Member' = IF Registered(room[t]) THEN Member \cup {<<sock[t], n>>} ELSE Member
    <2>1. CASE Registered(room[t])
      <3>1. Visible(n)' = Visible(n) \cup {sock[t]}
        BY <1>0, <1>1, <2>1 DEF Visible, Registered, TypeInv, TypeOK
      <3>2. Member' = Member \cup {<<sock[t], n>>}
        BY <1>1, <1>3, <3>1 DEF Member
      <3>3. QED
        BY <2>1, <3>2
    <2>2. CASE ~Registered(room[t])
      <3>1. Visible(n)' = Visible(n)
        BY <1>0, <1>1, <2>2 DEF Visible, Registered, TypeInv, TypeOK
      <3>2. QED
        BY <1>3, <2>2, <3>1, MemberKept
    <2>3. QED
      BY <2>1, <2>2
  <1>6. Promise!Join(t)
    <2>1. Member' = IF Phase[t] = "swept" THEN Member ELSE Member \cup {<<sock[t], name[t]>>}
      BY <1>0, <1>2, <1>5
    <2>2. QED
      BY <1>1, <1>4, <2>1 DEF Promise!Join, Promise!Exit, AddSocket, Return
  <1>7. QED
    BY <1>6 DEF Promise!Next

(* A leave acts where RemoveSocket does; LeaveAllRooms does so room by room. *)
LEMMA LeaveStep ==
    ASSUME RelationInv, NEW t \in Threads, Others(t), RemoveSocket(t)
    PROVE  [Promise!Next]_Promise!vars
  <1> USE ObjectName DEF RelationInv
  <1>0. PICK n \in Names : n = NameOf(room[t])
    BY DEF RemoveSocket, TypeInv, CallOK
  <1>1. /\ op[t] \in {"leave", "leaveAll"} /\ sock[t] \in Sockets /\ pc[t] = "remove"
        /\ room[t] \in Objects /\ (op[t] = "leave" => n = name[t])
        /\ rooms' = rooms /\ members' = [members EXCEPT ![room[t]] = @ \ {sock[t]}]
        /\ UNCHANGED <<op, name, sock>> /\ pc'[t] = "count"
    BY <1>0 DEF RemoveSocket, Goto, TypeInv, TypeOK, CallOK, OwnRoom
  <1>2. Member' = IF Registered(room[t]) THEN Member \ {<<sock[t], n>>} ELSE Member
    <2>1. \A m \in Names : m # n => Visible(m)' = Visible(m)
      BY <1>0, <1>1 DEF Visible, TypeInv, TypeOK, RightName
    <2>2. CASE Registered(room[t])
      <3>1. Visible(n)' = Visible(n) \ {sock[t]}
        BY <1>0, <1>1, <2>2 DEF Visible, Registered, TypeInv, TypeOK
      <3>2. Member' = Member \ {<<sock[t], n>>}
        BY <1>1, <2>1, <3>1 DEF Member
      <3>3. QED
        BY <2>2, <3>2
    <2>3. CASE ~Registered(room[t])
      <3>1. Visible(n)' = Visible(n)
        BY <1>0, <1>1, <2>3 DEF Visible, Registered, TypeInv, TypeOK
      <3>2. QED
        BY <2>1, <2>3, <3>1, MemberKept
    <2>4. QED
      BY <2>2, <2>3
  <1>3. Phase' = [Phase EXCEPT ![t] = Phase'[t]]
    BY <1>1, PhasesKept
  <1>4. CASE op[t] = "leave"
    <2>1. Phase[t] = (IF Registered(room[t]) THEN "called" ELSE "swept") /\ Phase'[t] = "left"
      BY <1>1, <1>4 DEF Phase
    <2>2. Promise!Leave(t)
      <3>1. Member' = IF Phase[t] = "swept" THEN Member ELSE Member \ {<<sock[t], name[t]>>}
        BY <1>1, <1>2, <1>4, <2>1
      <3>2. Phase' = [Phase EXCEPT ![t] = "left"] /\ Phase[t] # "left"
        BY <1>3, <2>1
      <3>3. QED
        BY <1>1, <1>4, <3>1, <3>2 DEF Promise!Leave
    <2>3. QED
      BY <2>2 DEF Promise!Next
  <1>5. CASE op[t] = "leaveAll"
    <2>1. Phase[t] = "called" /\ Phase'[t] = "called"
      BY <1>1, <1>5 DEF Phase
    <2>2. CASE Registered(room[t])
      <3>1. Phase' = Phase
        <4>1. Phase = [u \in Threads |-> Phase[u]]
          BY DEF Phase
        <4>2. QED
          BY <1>3, <2>1, <4>1
      <3>2. Promise!LeaveOne(t, n)
        BY <1>1, <1>2, <1>5, <2>2, <3>1 DEF Promise!LeaveOne
      <3>3. QED
        BY <3>2 DEF Promise!Next
    <2>3. CASE ~Registered(room[t])
      BY <1>1, <1>2, <1>3, <2>1, <2>3, SilentStep
    <2>4. QED
      BY <2>2, <2>3
  <1>6. QED
    BY <1>1, <1>4, <1>5

(* RemoveRoom takes the room from under its members and from under the calls *)
(* that have found it.                                                       *)
LEMMA SweepStep ==
    ASSUME RelationInv, NEW t \in Threads, Others(t), RemoveRoom(t)
    PROVE  Promise!Next
  <1> USE ObjectName DEF RelationInv
  <1>0. PICK n \in Names : n = NameOf(room[t])
    BY DEF RemoveRoom, TypeInv, CallOK
  <1> DEFINE from == {u \in Threads : Phase[u] = "called" /\ Phase'[u] = "swept"}
             phases == [u \in Threads |-> IF u \in from THEN "swept" ELSE Phase[u]]
  <1>1. /\ op[t] \in {"leave", "leaveAll"} /\ pc[t] = "drop"
        /\ op[t] = "leave" => n = name[t]
        /\ rooms' = [rooms EXCEPT ![n] = Nil] /\ members' = members
    BY <1>0 DEF RemoveRoom, TypeInv, CallOK, OwnRoom
  <1>2. Member' = {p \in Member : p[2] # n}
    <2>1. Visible(n)' = {} /\ \A m \in Names : m # n => Visible(m)' = Visible(m)
      BY <1>1 DEF Visible, TypeInv, TypeOK
    <2>2. QED
      BY <1>1, <2>1 DEF Member
  <1>3. /\ pc'[t] \in {"idle", "scan"} /\ Phase'[t] = "called"
        /\ Phase[t] = IF op[t] = "leave" THEN "left" ELSE "called"
    BY <1>1 DEF RemoveRoom, RoomLeft, Return, Goto, Phase, TypeInv, TypeOK
  <1>4. ASSUME NEW u \in Threads, u # t
        PROVE  \/ Phase'[u] = Phase[u]
               \/ /\ Phase[u] = "called" /\ Phase'[u] = "swept"
                  /\ op[u] \in {"join", "leave"} /\ name[u] = n
    <2>1. CASE op[u] \in {"join", "leave"} /\ pc[u] \in {"add", "remove"} /\ Registered(room[u])
                  /\ NameOf(room[u]) = n
      <3>1. room[u] \in Objects /\ name[u] = n
        BY <2>1 DEF TypeInv, CallOK, OwnRoom
      <3>2. ~Registered(room[u])'
        BY <1>1, <1>4, <2>1, <3>1 DEF Others, Registered, TypeInv, TypeOK
      <3>3. Phase[u] = "called" /\ Phase'[u] = "swept"
        BY <1>4, <2>1, <3>2 DEF Others, Phase, Registered
      <3>4. QED
        BY <2>1, <3>1, <3>3
    <2>2. CASE pc[u] \in {"add", "remove"} /\ (~Registered(room[u]) \/ NameOf(room[u]) # n)
      <3>1. room[u] \in Objects /\ room'[u] = room[u]
        BY <1>4, <2>2 DEF Others, TypeInv, CallOK
      <3>2. Registered(room[u])' <=> Registered(room[u])
        BY <1>1, <2>2, <3>1 DEF Registered, TypeInv, TypeOK
      <3>3. QED
        BY <1>4, <3>2, PhaseKept
    <2>3. CASE op[u] \notin {"join", "leave"} \/ pc[u] \notin {"add", "remove"}
      BY <1>4, <2>3 DEF Others, Phase
    <2>4. QED
      BY <2>1, <2>2, <2>3
  <1>5. \A u \in from : op[u] \in {"join", "leave"} /\ name[u] = n /\ Phase[u] = "called"
    BY <1>3, <1>4
  <1>6. Phase' = [phases EXCEPT ![t] = "called"]
    <2>1. Phase' = [u \in Threads |-> Phase'[u]]
      BY DEF Phase
    <2>2. ASSUME NEW u \in Threads, u # t PROVE Phase'[u] = phases[u]
      BY <1>4, <2>2
    <2>3. QED
      BY <1>3, <2>1, <2>2
  <1>7. op[t] = "leaveAll" => Phase' = phases
    <2>1. op[t] = "leaveAll" => phases[t] = "called"
      BY <1>3
    <2>2. QED
      BY <1>6, <2>1
  <1>8. Promise!Sweep(t, n, from)
    <2> HIDE DEF from
    <2>1. CASE op[t] = "leave"
      BY <1>1, <1>2, <1>3, <1>5, <1>6, <2>1
         DEF RemoveRoom, RoomLeft, Return, Promise!Sweep, Promise!Exit
    <2>2. CASE op[t] = "leaveAll"
      BY <1>1, <1>2, <1>5, <1>7, <2>2 DEF RemoveRoom, RoomLeft, Promise!Sweep
    <2>3. QED
      BY <1>1, <2>1, <2>2
  <1>9. QED
    BY <1>8 DEF Promise!Next

(* The other steps read, or return. *)
LEMMA ReadStep ==
    ASSUME RelationInv, NEW t \in Threads, Others(t),
           FindRoom(t) \/ CopyRooms(t) \/ ScanRoom(t) \/ CountSockets(t)
             \/ CopySockets(t) \/ SendToSocket(t)
    PROVE  [Promise!Next]_Promise!vars
  <1> USE ObjectName DEF RelationInv
  <1>1. UNCHANGED <<rooms, members>>
    BY DEF FindRoom, CopyRooms, ScanRoom, CountSockets, CopySockets, SendToSocket
  <1>2. Member' = Member
    BY <1>1, MemberKept DEF Visible
  <1>3. Phase' = [Phase EXCEPT ![t] = Phase'[t]]
    BY <1>1, PhasesKept
  <1>4. CASE Return(t)
    <2>1. /\ op[t] \in {"in", "leave", "leaveAll", "broadcast"}
          /\ op[t] = "leave" => pc[t] \in {"count", "drop"} \/ rooms[name[t]] = Nil
      <3>1. Goto(t, "idle")
        BY <1>4 DEF Return
      <3>2. pc'[t] = "idle"
        BY <3>1 DEF Goto, TypeInv, TypeOK
      <3>3. QED
        BY <3>2 DEF FindRoom, CopyRooms, ScanRoom, CountSockets, CopySockets, SendToSocket,
             Goto, TypeInv, TypeOK, CallOK
    <2>2. QED
      BY <1>1, <1>2, <1>4, <2>1, ReturnStep
  <1>5. CASE ~Return(t)
    <2>1. UNCHANGED <<op, name, sock>>
      BY <1>5 DEF FindRoom, CopyRooms, ScanRoom, CountSockets, RoomLeft, CopySockets, SendToSocket
    <2>2. Phase'[t] = Phase[t]
      <3>1. CASE FindRoom(t)
        BY <1>1, <1>5, <3>1 DEF FindRoom, Goto, Phase, Registered, TypeInv, TypeOK, CallOK,
             RightName
      <3>2. CASE CountSockets(t)
        BY <1>5, <3>2 DEF CountSockets, RoomLeft, Goto, Phase, TypeInv, TypeOK, CallOK
      <3>3. CASE CopyRooms(t) \/ ScanRoom(t) \/ CopySockets(t) \/ SendToSocket(t)
        <4>1. op[t] \notin {"join", "leave"}
          BY <3>3 DEF CopyRooms, ScanRoom, CopySockets, SendToSocket, TypeInv, CallOK
        <4>2. QED
          BY <2>1, <4>1 DEF Phase
      <3>4. QED
        BY <3>1, <3>2, <3>3
    <2>3. QED
      BY <1>2, <1>3, <2>1, <2>2, SilentStep
  <1>6. QED
    BY <1>4, <1>5

(* Critical sections of different goroutines, on two kinds of mutexes, add   *)
(* up to a relation between sockets and names: a join or leave acts on it    *)
(* once, in one moment of its call, and on no other name; nothing else but   *)
(* the removal of a room changes it.                                         *)
THEOREM RoomsAreARelation == Spec => MembershipSpec
  <1>1. Init => Promise!Init /\ OwnRoom
    BY DEF Init, OwnRoom, Promise!Init, Member, Visible, Phase
  <1>2. RelationInv /\ [Next]_vars => [Promise!Next]_Promise!vars
    <2> SUFFICES ASSUME RelationInv, [Next]_vars PROVE [Promise!Next]_Promise!vars
      OBVIOUS
    <2>1. CASE UNCHANGED vars
      BY <2>1 DEF vars, callVars, Promise!vars, Member, Visible, Phase, Registered
    <2>2. ASSUME NEW t \in Threads, Start(t) \/ Run(t) PROVE [Promise!Next]_Promise!vars
      <3>1. Others(t)
        BY <2>2, TypeInvCalls, StepOthers DEF RelationInv
      <3>2. QED
        BY <2>2, <3>1, EnterStep, GetRoomStep, JoinStep, LeaveStep, SweepStep, ReadStep DEF Run
    <2>3. QED
      BY <2>1, <2>2 DEF Next
  <1>3. QED
    BY <1>1, <1>2, TypeInvInit, TypeInvNext, OwnRoomNext, PTL
       DEF Spec, RelationInv, MembershipSpec, Promise!Spec
==============================================================================
