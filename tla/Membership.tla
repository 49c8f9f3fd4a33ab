------------------------------ MODULE Membership ------------------------------
(***************************************************************************)
(* What RoomManager promises: who is in which room is one relation, and a  *)
(* call of JoinRoom or LeaveRoom acts on it in one moment between its call *)
(* and its return.  The exception is a room that a leaver removes: it      *)
(* takes its members along, and a call on it that was under way has no     *)
(* other effect than that.                                                 *)
(***************************************************************************)
CONSTANTS Sockets, Names, Threads, Nil

VARIABLES
    member,  \* pairs of a socket and the name of a room it is in
    op,      \* the method a goroutine executes
    name,    \* its arguments
    sock,
    phase    \* "called", "swept" by the removal of its room, or has "left" it

vars == <<member, op, name, sock, phase>>

Init ==
    /\ member = {}
    /\ op = [t \in Threads |-> "none"]
    /\ name = [t \in Threads |-> Nil]
    /\ sock = [t \in Threads |-> Nil]
    /\ phase = [t \in Threads |-> "called"]

Enters(t, o, n, s) ==
    /\ op[t] = "none"
    /\ op' = [op EXCEPT ![t] = o]
    /\ name' = [name EXCEPT ![t] = n]
    /\ sock' = [sock EXCEPT ![t] = s]
    /\ UNCHANGED <<member, phase>>

Enter(t) ==
    \/ \E o \in {"join", "leave"}, n \in Names, s \in Sockets : Enters(t, o, n, s)
    \/ \E o \in {"in", "broadcast"}, n \in Names : Enters(t, o, n, Nil)
    \/ \E s \in Sockets : Enters(t, "leaveAll", Nil, s)

\* phases is what the step makes of the other calls.
Exit(t, phases) ==
    /\ op' = [op EXCEPT ![t] = "none"]
    /\ name' = [name EXCEPT ![t] = Nil]
    /\ sock' = [sock EXCEPT ![t] = Nil]
    /\ phase' = [phases EXCEPT ![t] = "called"]

Join(t) ==
    /\ op[t] = "join"
    /\ member' = IF phase[t] = "swept" THEN member ELSE member \cup {<<sock[t], name[t]>>}
    /\ Exit(t, phase)

Leave(t) ==
    /\ op[t] = "leave" /\ phase[t] # "left"
    /\ member' = IF phase[t] = "swept" THEN member ELSE member \ {<<sock[t], name[t]>>}
    /\ phase' = [phase EXCEPT ![t] = "left"]
    /\ UNCHANGED <<op, name, sock>>

\* LeaveAllRooms leaves one room after the other.
LeaveOne(t, n) ==
    /\ op[t] = "leaveAll"
    /\ member' = member \ {<<sock[t], n>>}
    /\ UNCHANGED <<op, name, sock, phase>>

\* A leaver removes the room, from under those in the set.
Sweep(t, n, from) ==
    LET phases == [u \in Threads |-> IF u \in from THEN "swept" ELSE phase[u]] IN
    /\ \A u \in from : op[u] \in {"join", "leave"} /\ name[u] = n /\ phase[u] = "called"
    /\ member' = {p \in member : p[2] # n}
    /\ \/ op[t] = "leave" /\ phase[t] = "left" /\ name[t] = n /\ Exit(t, phases)
       \/ op[t] = "leaveAll" /\ phase' = phases /\ UNCHANGED <<op, name, sock>>

\* A leave returns when it has acted, or finds that there is no such room.
Return(t) ==
    /\ op[t] \in {"in", "leave", "leaveAll", "broadcast"}
    /\ op[t] = "leave" => phase[t] = "left" \/ \A p \in member : p[2] # name[t]
    /\ UNCHANGED member
    /\ Exit(t, phase)

Next ==
    \E t \in Threads :
        \/ Enter(t) \/ Join(t) \/ Leave(t) \/ Return(t)
        \/ \E n \in Names : \/ LeaveOne(t, n)
                            \/ \E from \in SUBSET Threads : Sweep(t, n, from)

Spec == Init /\ [][Next]_vars
==============================================================================
