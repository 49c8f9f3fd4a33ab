------------------------------- MODULE Cluster --------------------------------
(***************************************************************************)
(* Cluster and LoadBalancedProcessGroup of socket/distributed/node.go.     *)
(*                                                                         *)
(* Cluster.RemoteNodes is filled by the application; the heartbeat's       *)
(* liveness check takes nodes out again.  Heartbeats, gossip, discovery    *)
(* and remote calls only log.  A group keeps a list of processes and picks *)
(* one of them for every message, all of it under the group's mutex.  Only *)
(* the weight of a process matters for the choice; what Node.Send or       *)
(* RemoteCall then answers for it is left open.                            *)
(***************************************************************************)
EXTENDS Integers, Sequences, SequencesExt, FiniteSetsExt

CONSTANTS
    Nodes,       \* names of other nodes
    Weights,     \* weights of AddProcess, any ints
    Strategies,  \* the strategies a group may be made with
    MaxLen,      \* bound on the length of processList
    Timeout      \* heartbeat intervals until a node counts as down

ASSUME ClusterAssumption ==
    /\ Weights \subseteq Int
    /\ Strategies \subseteq {"RoundRobin", "WeightedRoundRobin", "LeastConnections"}
    /\ MaxLen \in Nat /\ Timeout \in Nat

VARIABLES
    remoteNodes,  \* Cluster.RemoteNodes
    age,          \* heartbeat ticks since ClusterNode.LastSeen
    call,         \* BroadcastMessage: the goroutine of every node
    dropped,      \* history: nodes taken out since BroadcastMessage's copy
    strategy,     \* LoadBalancedProcessGroup.strategy
    list,         \* processList: the weight of every process
    nextIndex,    \* nextIndex, counted from 0
    result,       \* what the last Send did
    turns,        \* history: rotation sends per position, full rounds left out
    shrunk        \* history: a process was removed since nextIndex was set

clusterVars == <<remoteNodes, age, call, dropped>>
groupVars == <<strategy, list, nextIndex, result, turns, shrunk>>
vars == <<clusterVars, groupVars>>

NoTurns == [p \in 1..MaxLen |-> 0]

Init ==
    /\ remoteNodes = {} /\ dropped = {}
    /\ age = [n \in Nodes |-> 0]
    /\ call = [n \in Nodes |-> "none"]
    /\ strategy \in Strategies
    /\ list = <<>> /\ nextIndex = 0
    /\ result = "none"
    /\ turns = NoTurns /\ shrunk = FALSE

------------------------------------------------------------------------------
(* The cluster. *)

\* The application puts a node it has seen into the exported map.
AddNode(n) ==
    /\ remoteNodes' = remoteNodes \cup {n}
    /\ age' = [age EXCEPT ![n] = 0]
    /\ UNCHANGED <<call, dropped, groupVars>>

\* A tick of startHeartbeat: checkNodeLiveness forgets the nodes last seen
\* more than Timeout intervals ago.
CheckNodeLiveness ==
    LET down == {n \in remoteNodes : age[n] >= Timeout} IN
    /\ remoteNodes' = remoteNodes \ down
    /\ age' = [n \in Nodes |-> IF n \in remoteNodes \ down THEN age[n] + 1 ELSE 0]
    /\ dropped' = dropped \cup {n \in down : call[n] # "none"}
    /\ UNCHANGED <<call, groupVars>>

\* Mutant: the test for a known node is turned round.
RemoteCallFailsInverted(n) == n \in remoteNodes

\* RemoteCall: an error for a node that is not in the map, else nil.
RemoteCallFails(n) == n \notin remoteNodes

\* BroadcastMessage copies the nodes and starts a goroutine for each.
BroadcastMessage ==
    /\ \A n \in Nodes : call[n] = "none"
    /\ call' = [n \in Nodes |-> IF n \in remoteNodes THEN "call" ELSE "none"]
    /\ dropped' = {}
    /\ UNCHANGED <<remoteNodes, age, groupVars>>

BroadcastCall(n) ==
    /\ call[n] = "call"
    /\ call' = [call EXCEPT ![n] = IF RemoteCallFails(n) THEN "write" ELSE "done"]
    /\ UNCHANGED <<remoteNodes, age, dropped, groupVars>>

\* The goroutine has written its error to the shared map results.
BroadcastResult(n) ==
    /\ call[n] = "write"
    /\ call' = [call EXCEPT ![n] = "done"]
    /\ UNCHANGED <<remoteNodes, age, dropped, groupVars>>

\* wg.Wait is over.
BroadcastReturns ==
    /\ \E n \in Nodes : call[n] = "done"
    /\ \A n \in Nodes : call[n] \in {"none", "done"}
    /\ call' = [n \in Nodes |-> "none"]
    /\ dropped' = {}
    /\ UNCHANGED <<remoteNodes, age, groupVars>>

------------------------------------------------------------------------------
(* The load-balanced group. *)

AddProcess(weight) ==
    /\ Len(list) < MaxLen
    /\ list' = Append(list, weight)
    /\ turns' = NoTurns
    /\ UNCHANGED <<clusterVars, strategy, nextIndex, result, shrunk>>

\* The first entry of the process goes; nextIndex stays.
RemoveProcess(p) ==
    /\ p \in 1..Len(list)
    /\ list' = RemoveAt(list, p)
    /\ shrunk' = TRUE
    /\ turns' = NoTurns
    /\ UNCHANGED <<clusterVars, strategy, nextIndex, result>>

\* The sum of the first p weights, for every p.
Totals(weights) ==
    LET total[p \in 0..Len(weights)] ==
            IF p = 0 THEN 0 ELSE total[p - 1] + weights[p]
    IN total

TotalWeight == Totals(list)[Len(list)]

\* Whether the strategy takes the process at nextIndex.
Rotates ==
    \/ strategy = "RoundRobin"
    \/ strategy = "WeightedRoundRobin" /\ TotalWeight <= 0

\* runningTotal after p turns of the loop.
RunningTotal(p) == Totals(list)[p]

\* Mutant: the comparison is off by one.
WeightedPickInclusive(selection) ==
    LET hit == {p \in 1..Len(list) : selection <= RunningTotal(p)} IN
    IF hit = {} THEN 0 ELSE Min(hit)

\* The position that selection falls to; 0 for the zero target of the code.
WeightedPick(selection) ==
    LET hit == {p \in 1..Len(list) : selection < RunningTotal(p)} IN
    IF hit = {} THEN 0 ELSE Min(hit)

\* What Node.Send or RemoteCall may answer.
Answers == {"ok", "error"}

SendEmpty ==
    /\ list = <<>>
    /\ result' = "error"
    /\ UNCHANGED <<clusterVars, strategy, list, nextIndex, turns, shrunk>>

\* The index is out of range: Send panics, and its defer unlocks the group.
SendPanics ==
    /\ list # <<>> /\ Rotates
    /\ nextIndex >= Len(list)
    /\ result' = "panic"
    /\ UNCHANGED <<clusterVars, strategy, list, nextIndex, turns, shrunk>>

\* Mutant: the index is not taken modulo the length.
AdvancedUnbounded == nextIndex + 1

\* Mutant: the rotation leaves out the last process.
AdvancedShort == IF nextIndex + 2 < Len(list) THEN nextIndex + 1 ELSE 0

\* The next value of nextIndex.
Advanced == (nextIndex + 1) % Len(list)

\* One more turn for position p; a full round is forgotten.
Turn(p) ==
    LET t == [turns EXCEPT ![p] = @ + 1] IN
    IF \A q \in 1..Len(list) : t[q] > 0
    THEN [q \in 1..MaxLen |-> IF q <= Len(list) THEN t[q] - 1 ELSE 0] ELSE t

\* nextIndex moves on whatever the process answers.
SendRotates ==
    /\ list # <<>> /\ Rotates
    /\ nextIndex < Len(list)
    /\ nextIndex' = Advanced
    /\ result' \in Answers
    /\ turns' = Turn(nextIndex + 1)
    /\ shrunk' = FALSE
    /\ UNCHANGED <<clusterVars, strategy, list>>

\* rand.Intn selects a share of the total weight.
SendWeighted(selection) ==
    /\ strategy = "WeightedRoundRobin" /\ selection < TotalWeight
    /\ result' \in IF WeightedPick(selection) = 0 THEN {"error"} ELSE Answers
    /\ UNCHANGED <<clusterVars, strategy, list, nextIndex, turns, shrunk>>

\* LeastConnections takes the first process of the list.
SendFirst ==
    /\ strategy = "LeastConnections" /\ list # <<>>
    /\ result' \in Answers
    /\ UNCHANGED <<clusterVars, strategy, list, nextIndex, turns, shrunk>>

------------------------------------------------------------------------------
Next ==
    \/ \E n \in Nodes : AddNode(n) \/ BroadcastCall(n) \/ BroadcastResult(n)
    \/ CheckNodeLiveness \/ BroadcastMessage \/ BroadcastReturns
    \/ \E weight \in Weights : AddProcess(weight)
    \/ \E p \in 1..MaxLen : RemoveProcess(p)
    \/ SendEmpty \/ SendPanics \/ SendRotates \/ SendFirst
    \/ \E selection \in 0..TotalWeight - 1 : SendWeighted(selection)

Spec == Init /\ [][Next]_vars

------------------------------------------------------------------------------
(* Properties. *)

\* Fields and locals have the code's types and counters their bounds.
TypeOK ==
    /\ remoteNodes \subseteq Nodes /\ dropped \subseteq Nodes
    /\ age \in [Nodes -> 0..Timeout]
    /\ call \in [Nodes -> {"none", "call", "write", "done"}]
    /\ strategy \in Strategies
    /\ list \in Seq(Weights) /\ Len(list) <= MaxLen
    /\ nextIndex \in 0..MaxLen
    /\ result \in {"none", "ok", "error", "panic"}
    /\ turns \in [1..MaxLen -> Nat] /\ shrunk \in BOOLEAN

\* The goroutines of BroadcastMessage share the map results without a lock;
\* one writes to it only for a node that the liveness check dropped while the
\* call was running, so two write at once only if two nodes went down.
ResultOnlyForDropped ==
    \A n \in Nodes : call[n] = "write" => n \in dropped

\* As long as nobody is added or removed, the rotation serves everybody once
\* before it serves anybody again, whatever the processes answer.
FairRotation ==
    \A p \in 1..Len(list) : turns[p] <= 1

\* The index that makes Send panic is one that a RemoveProcess has left behind
\* since the last rotation; sends and additions never produce it.
PanicOnlyAfterRemove ==
    (list # <<>> /\ nextIndex >= Len(list)) => shrunk

\* The weighted choice always finds a process, also with negative weights, and
\* without them gives every process exactly its weight of the total.
WeightedShare ==
    LET total == TotalWeight IN
    total > 0 =>
      /\ \A s \in 0..total - 1 : WeightedPick(s) # 0
      /\ (\A p \in 1..Len(list) : list[p] >= 0)
           => \A p \in 1..Len(list) :
                Cardinality({s \in 0..total - 1 : WeightedPick(s) = p}) = list[p]
==============================================================================
