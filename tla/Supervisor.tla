----------------------------- MODULE Supervisor ------------------------------
(***************************************************************************)
(* Supervisor and the processes it restarts, of                            *)
(* socket/distributed/node.go.                                             *)
(*                                                                         *)
(* A process id is registered in node.processes with one Process object,   *)
(* whose goroutine takes messages out of its mailbox until its context is  *)
(* cancelled.  Kill, a restart and Stop cancel the context; the goroutine  *)
(* notices at its next select, after the message it is working on.  The    *)
(* supervisor looks for missing processes once per tick and restarts them  *)
(* one by one; node.mu is released between its steps.                      *)
(*                                                                         *)
(* Ids are numbered in the order of SupervisorSpec.Processes.  Time counts *)
(* ticks of the supervisor's ticker, and only ages up to RestartPeriod     *)
(* matter.  restartProcess reads the clock before it waits for node.mu, and *)
(* stamps its tracker with that reading; whoever else holds node.mu (module *)
(* NodeEvents) may keep it waiting for any number of ticks.                *)
(* Objects whose goroutine is gone are allocated again.  Only the          *)
(* supervisor spawns its ids; room subscriptions are not modelled here.    *)
(***************************************************************************)
EXTENDS Integers, Sequences, FiniteSets

CONSTANTS
    N,              \* number of supervised processes
    Objects,        \* Process objects per id, a bound on live goroutines
    Strategy,       \* SupervisorSpec.Strategy
    MaxRestarts,    \* SupervisorSpec.MaxRestarts; 0 means no limit
    RestartPeriod,  \* SupervisorSpec.RestartPeriod, in ticks
    MailboxSize,    \* capacity of a mailbox
    None            \* an id that is not registered

ASSUME SupervisorAssumption ==
    /\ N \in Nat \ {0}
    /\ Strategy \in {"OneForOne", "OneForAll", "RestForOne"}
    /\ MaxRestarts \in Nat /\ RestartPeriod \in Nat /\ MailboxSize \in Nat
    /\ None \notin Objects

Ids == 1..N
Incarnations == Ids \X Objects

VARIABLES
    processes,  \* node.processes: the object registered for an id
    loop,       \* the goroutine of every object
    cancelled,  \* objects whose context was cancelled by their own cancel
    alive,      \* Process.alive
    mailbox,    \* number of messages waiting in every object
    sending,    \* the object a call of Send has looked up
    nodeDone,   \* node.ctx is cancelled, and every context below it
    stopped,    \* Stop has emptied node.processes
    due,        \* a tick waits in the ticker's channel
    todo,       \* checkProcesses: ids still to restart
    dead,       \* history: the ids the last scan found missing
    locking,    \* restartProcess, for the next id of todo, waits for node.mu
    waited,     \* ticks since it read the clock, up to RestartPeriod + 1
    count,      \* restartTracker.count
    age,        \* ticks since restartTracker.lastTime, up to RestartPeriod + 1
    recent      \* history: ages of the restarts of the last RestartPeriod, newest first

procVars == <<processes, loop, cancelled, alive, mailbox>>
superVars == <<due, todo, dead, locking, waited, count, age, recent>>
vars == <<procVars, sending, superVars, nodeDone, stopped>>

\* The supervised processes as NewSupervisor has just started them.
Init ==
    \E k \in Objects :
      LET first == {<<i, k>> : i \in Ids} IN
      /\ processes = [i \in Ids |-> k]
      /\ loop = [o \in Incarnations |-> IF o \in first THEN "select" ELSE "ended"]
      /\ cancelled = {}
      /\ alive = first
      /\ mailbox = [o \in Incarnations |-> 0]
      /\ sending = None
      /\ nodeDone = FALSE /\ stopped = FALSE
      /\ due = FALSE /\ todo = {} /\ dead = {}
      /\ locking = FALSE /\ waited = 0
      /\ count = [i \in Ids |-> 0]
      /\ age = [i \in Ids |-> 0]
      /\ recent = [i \in Ids |-> <<>>]

------------------------------------------------------------------------------
(* Node.Send: the object is looked up under node.mu and used after it.      *)

SendLookup(i) ==
    /\ sending = None
    /\ processes[i] # None
    /\ sending' = <<i, processes[i]>>
    /\ UNCHANGED <<procVars, superVars, nodeDone, stopped>>

\* A killed process or a full mailbox refuses the message.
SendDeliver ==
    /\ sending # None
    /\ mailbox' = [mailbox EXCEPT ![sending] =
                     IF sending \in alive /\ @ < MailboxSize THEN @ + 1 ELSE @]
    /\ sending' = None
    /\ UNCHANGED <<processes, loop, cancelled, alive, superVars, nodeDone, stopped>>

------------------------------------------------------------------------------
(* The goroutine of a process. *)

TakeMessage(o) ==
    /\ loop[o] = "select" /\ mailbox[o] > 0
    /\ loop' = [loop EXCEPT ![o] = "handle"]
    /\ mailbox' = [mailbox EXCEPT ![o] = @ - 1]
    /\ UNCHANGED <<processes, cancelled, alive, sending, superVars, nodeDone, stopped>>

\* The function returns; an error is only logged.
MessageHandled(o) ==
    /\ loop[o] = "handle"
    /\ loop' = [loop EXCEPT ![o] = "select"]
    /\ UNCHANGED <<processes, cancelled, alive, mailbox, sending, superVars,
                   nodeDone, stopped>>

\* Mutant: the goroutine looks at its own context only, not the node's.
LoopEndsOwnContext(o) ==
    /\ loop[o] = "select"
    /\ o \in cancelled
    /\ loop' = [loop EXCEPT ![o] = "ended"]
    /\ UNCHANGED <<processes, cancelled, alive, mailbox, sending, superVars,
                   nodeDone, stopped>>

\* ctx.Done is ready: the goroutine may return, or take one more message.
LoopEnds(o) ==
    /\ loop[o] = "select"
    /\ o \in cancelled \/ nodeDone
    /\ loop' = [loop EXCEPT ![o] = "ended"]
    /\ UNCHANGED <<processes, cancelled, alive, mailbox, sending, superVars,
                   nodeDone, stopped>>

------------------------------------------------------------------------------
(* Node.Kill and Node.Stop. *)

Registered == {o \in Incarnations : processes[o[1]] = o[2]}

Kill(i) ==
    LET o == <<i, processes[i]>> IN
    /\ processes[i] # None
    /\ cancelled' = cancelled \cup {o}
    /\ alive' = alive \ {o}
    /\ processes' = [processes EXCEPT ![i] = None]
    /\ UNCHANGED <<loop, mailbox, sending, superVars, nodeDone, stopped>>

\* Stop cancels the node's context before it takes node.mu.
StopCancel ==
    /\ ~nodeDone
    /\ nodeDone' = TRUE
    /\ UNCHANGED <<procVars, sending, superVars, stopped>>

\* It leaves alive as it is.
StopDelete ==
    /\ nodeDone /\ ~stopped
    /\ stopped' = TRUE
    /\ cancelled' = cancelled \cup Registered
    /\ processes' = [i \in Ids |-> None]
    /\ UNCHANGED <<loop, alive, mailbox, sending, superVars, nodeDone>>

------------------------------------------------------------------------------
(* Supervisor.monitor and checkProcesses. *)

\* One tick later: the oldest restarts are forgotten.
Older(ages) ==
    [n \in 1..Cardinality({m \in DOMAIN ages : ages[m] < RestartPeriod}) |-> ages[n] + 1]

\* An age one tick later; beyond the period it matters no more.
Aged(ticks) == IF ticks > RestartPeriod THEN ticks ELSE ticks + 1

\* A tick that finds the ticker's channel full is dropped.
Tick ==
    /\ due' = TRUE
    /\ age' = [i \in Ids |-> Aged(age[i])]
    /\ waited' = IF locking THEN Aged(waited) ELSE 0
    /\ recent' = [i \in Ids |-> Older(recent[i])]
    /\ UNCHANGED <<procVars, sending, todo, dead, locking, count, nodeDone, stopped>>

\* The ids of the specification for which node.processes has no living process.
DeadProcesses == {i \in Ids : processes[i] = None \/ <<i, processes[i]>> \notin alive}

\* Mutant: rest_for_one restarts all, like one_for_all.
AffectedRestForAll(d) ==
    CASE Strategy = "OneForOne" -> d
      [] OTHER                  -> IF d = {} THEN {} ELSE Ids

\* The ids a strategy restarts when it finds the ids of d missing.
Affected(d) ==
    CASE Strategy = "OneForOne"  -> d
      [] Strategy = "OneForAll"  -> IF d = {} THEN {} ELSE Ids
      [] Strategy = "RestForOne" -> {i \in Ids : \E j \in d : j <= i}

\* The scan, under node.mu's read lock.  A cancelled context ends the monitor.
CheckProcesses ==
    /\ due /\ todo = {} /\ ~nodeDone
    /\ due' = FALSE
    /\ dead' = DeadProcesses
    /\ todo' = Affected(DeadProcesses)
    /\ UNCHANGED <<procVars, sending, locking, waited, count, age, recent, nodeDone,
                   stopped>>

\* restartTracker.count once restarts older than the period are forgotten.
CountNow(i) == IF age[i] > RestartPeriod THEN 0 ELSE count[i]

\* Mutant: off by one.
RefusedLate(i) == MaxRestarts > 0 /\ CountNow(i) > MaxRestarts

\* Mutant: the count is never reset.
RefusedForever(i) == MaxRestarts > 0 /\ count[i] >= MaxRestarts

\* The tracker refuses the restart.
Refused(i) == MaxRestarts > 0 /\ CountNow(i) >= MaxRestarts

\* The restarts are made in the order of the specification.
NextToRestart(i) == i \in todo /\ \A j \in todo : i <= j

RestartRefused(i) ==
    /\ NextToRestart(i) /\ ~locking
    /\ Refused(i)
    /\ todo' = todo \ {i}
    /\ UNCHANGED <<procVars, sending, due, dead, locking, waited, count, age, recent,
                   nodeDone, stopped>>

\* restartProcess up to node.mu.Lock: the clock is read, restarts older than the
\* period are forgotten and the limit is tested.
BeginRestart(i) ==
    /\ NextToRestart(i) /\ ~locking
    /\ ~Refused(i)
    /\ locking' = TRUE /\ waited' = 0
    /\ count' = [count EXCEPT ![i] = CountNow(i)]
    /\ age' = [age EXCEPT ![i] = IF @ > RestartPeriod THEN 0 ELSE @]
    /\ UNCHANGED <<procVars, sending, due, todo, dead, recent, nodeDone, stopped>>

\* An object that no goroutine, map entry or sender refers to.
Free(o) == loop[o] = "ended" /\ o \notin Registered /\ o # sending

\* The rest: the registered object, if any, is cancelled and replaced under
\* node.mu, whether or not its goroutine has returned.  The context of the
\* supervisor is not looked at again, and the tracker gets the clock reading of
\* BeginRestart.
RestartProcess(i, k) ==
    LET o == <<i, k>> IN
    /\ NextToRestart(i) /\ locking
    /\ Free(o)
    /\ processes' = [processes EXCEPT ![i] = k]
    /\ cancelled' = (cancelled \cup {r \in Registered : r[1] = i}) \ {o}
    /\ alive' = alive \cup {o}
    /\ loop' = [loop EXCEPT ![o] = "select"]
    /\ mailbox' = [mailbox EXCEPT ![o] = 0]
    /\ locking' = FALSE /\ waited' = 0
    /\ count' = [count EXCEPT ![i] = @ + 1]
    /\ age' = [age EXCEPT ![i] = waited]
    /\ recent' = [recent EXCEPT ![i] = <<0>> \o @]
    /\ todo' = todo \ {i}
    /\ UNCHANGED <<sending, due, dead, nodeDone, stopped>>

------------------------------------------------------------------------------
Next ==
    \/ \E i \in Ids : SendLookup(i) \/ Kill(i)
    \/ SendDeliver
    \/ \E o \in Incarnations : TakeMessage(o) \/ MessageHandled(o) \/ LoopEnds(o)
    \/ StopCancel
    \/ StopDelete
    \/ Tick
    \/ CheckProcesses
    \/ \E i \in Ids : RestartRefused(i) \/ BeginRestart(i)
    \/ \E i \in Ids, k \in Objects : RestartProcess(i, k)

Spec == Init /\ [][Next]_vars

\* The ticker ticks, the goroutines run, the functions return and a started
\* Stop finishes.  A select with two ready cases picks either at random, so a
\* cancelled goroutine that keeps receiving is bound to see ctx.Done.
Fairness ==
    /\ WF_vars(Tick) /\ WF_vars(CheckProcesses)
    /\ WF_vars(\E i \in Ids : RestartRefused(i) \/ BeginRestart(i))
    /\ WF_vars(\E i \in Ids, k \in Objects : RestartProcess(i, k))
    /\ WF_vars(StopDelete) /\ WF_vars(SendDeliver)
    /\ \A o \in Incarnations :
         WF_vars(TakeMessage(o)) /\ WF_vars(MessageHandled(o)) /\ SF_vars(LoopEnds(o))

FairSpec == Spec /\ Fairness

------------------------------------------------------------------------------
(* Properties. *)

\* Every object is in a state of the code and no mailbox exceeds its capacity.
TypeOK ==
    /\ processes \in [Ids -> Objects \cup {None}]
    /\ loop \in [Incarnations -> {"select", "handle", "ended"}]
    /\ cancelled \subseteq Incarnations /\ alive \subseteq Incarnations
    /\ mailbox \in [Incarnations -> 0..MailboxSize]
    /\ sending \in Incarnations \cup {None}
    /\ nodeDone \in BOOLEAN /\ stopped \in BOOLEAN /\ due \in BOOLEAN
    /\ todo \subseteq Ids /\ dead \subseteq Ids
    /\ locking \in BOOLEAN /\ waited \in 0..RestartPeriod + 1
    /\ count \in [Ids -> Nat] /\ age \in [Ids -> 0..RestartPeriod + 1]
    /\ recent \in [Ids -> Seq(0..RestartPeriod)]

\* However kills, ticks, restarts and waits for node.mu interleave, no process is
\* restarted more than MaxRestarts + 1 times within RestartPeriod, although
\* restartTracker keeps only a counter and one time.  Only the oldest of these
\* restarts can be one that waited so long that the tracker takes it for older
\* than the period.
RestartIntensity ==
    MaxRestarts > 0 => \A i \in Ids : Len(recent[i]) <= MaxRestarts + 1

\* Under one_for_one a running process is never replaced, and under
\* rest_for_one only when one listed before it was found missing by the scan
\* that ordered the restart: the restarts use a scan that may be stale.
NoCollateralRestart ==
    [][\A i \in Ids :
         (processes[i] # None /\ processes'[i] # None /\ processes'[i] # processes[i])
           => \/ Strategy = "OneForAll" /\ dead # {}
              \/ Strategy = "RestForOne" /\ \E j \in dead : j < i]_vars

\* A killed process comes back while the node runs, also when the supervisor
\* refused to restart it for a while: a refusal does not extend the period.
SelfHealing ==
    \A i \in Ids : (processes[i] = None) ~> (processes[i] # None \/ nodeDone)

\* After Stop every goroutine ends for good, even one that a restart starts
\* after Stop has emptied node.processes.
StopEnds ==
    nodeDone ~> [](\A o \in Incarnations : loop[o] = "ended")
==============================================================================
