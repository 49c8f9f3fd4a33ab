--------------------------- MODULE NodeEventsProofs ---------------------------
(***************************************************************************)
(* Proofs about NodeEvents, for any number of processes, objects, rooms,   *)
(* handlers and callers, and mailboxes of any size.                        *)
(***************************************************************************)
EXTENDS NodeEvents, TLAPS

\* Stop locks node.mu after it has cancelled the node's context.
StopOK == \A t \in Threads : pc[t] = "stop" => nodeDone

\* The registered and live objects of a set of ids.
Targets(ids) == {o \in Registered \cap alive : o[1] \in ids}

\* A handler in its range has written to all it has visited, and what is left
\* to visit is still to be told of the event.
DeliveryOK(h) ==
    /\ event[h] = None => got[h] = {} /\ todo[h] = {}
    /\ event[h] # None => /\ todo[h] \subseteq Interested(event[h])
                          /\ got[h] = Targets(Interested(event[h]) \ todo[h])

\* The inductive invariant.
NodeInv ==
    /\ TypeOK
    /\ StopOK
    /\ OrphanOnlyByLateSubscribe
    /\ LeakOnlyByRespawn
    /\ \A h \in Handlers : DeliveryOK(h)

------------------------------------------------------------------------------
(* Facts about the operators. *)

\* The registered object of an id is the one the map holds.
LEMMA CurrentIs ==
    ASSUME TypeOK, NEW i \in Ids
    PROVE  /\ processes[i] = None => Current(i) = {}
           /\ processes[i] # None => Current(i) = {<<i, processes[i]>>}
BY NodeAssumption DEF Current, Registered, Incarnations, TypeOK

\* Threads are callers or processes, and None is neither.
LEMMA ThreadFacts ==
    /\ Incarnations \subseteq Threads /\ Callers \subseteq Threads
    /\ None \notin Threads /\ Callers \cap Incarnations = {}
BY NodeAssumption DEF Threads, Incarnations

\* The handler's targets depend on the registry and the subscriptions only.
LEMMA DeliverySame ==
    ASSUME NEW h \in Handlers, DeliveryOK(h), UNCHANGED <<processes, subs, alive>>,
           event'[h] = event[h], todo'[h] = todo[h], got'[h] = got[h]
    PROVE  DeliveryOK(h)'
<1>1. \A e : Interested(e)' = Interested(e)
  BY DEF Interested
<1>2. \A ids : Targets(ids)' = Targets(ids)
  BY DEF Targets, Registered
<1>3. QED
  BY <1>1, <1>2 DEF DeliveryOK

------------------------------------------------------------------------------
(* The initial state and the types. *)

\* A new node has no process, subscription or event.
LEMMA InitInv == Init => NodeInv
<1> SUFFICES ASSUME Init PROVE NodeInv
  OBVIOUS
<1>1. TypeOK
  <2>1. processes \in [Ids -> Objects \cup {None}] /\ subs \in [Ids -> SUBSET Rooms]
    BY DEF Init
  <2>2. /\ mailbox \in [Incarnations -> 0..MailboxSize]
        /\ pc \in [Threads -> {"idle", "select", "handle", "ended", "rlock",
                               "enqueue", "lock", "stop", "restart"}]
        /\ found \in [Threads -> Incarnations \cup {None}]
    BY NodeAssumption DEF Init
  <2>3. /\ event \in [Handlers -> Rooms \cup {Disconnect, None}]
        /\ todo \in [Handlers -> SUBSET Ids]
        /\ got \in [Handlers -> SUBSET Incarnations]
    BY DEF Init
  <2>4. QED
    BY <2>1, <2>2, <2>3 DEF Init, TypeOK
<1>2. StopOK
  BY DEF Init, StopOK
<1>3. OrphanOnlyByLateSubscribe
  BY DEF Init, OrphanOnlyByLateSubscribe
<1>4. LeakOnlyByRespawn
  BY ThreadFacts DEF Init, LeakOnlyByRespawn
<1>5. \A h \in Handlers : DeliveryOK(h)
  BY DEF Init, DeliveryOK
<1>6. QED
  BY <1>1, <1>2, <1>3, <1>4, <1>5 DEF NodeInv

\* Every step keeps the types and the capacity of the mailboxes.
LEMMA TypeStep == TypeOK /\ [Next]_vars => TypeOK'
<1> SUFFICES ASSUME TypeOK, [Next]_vars
             PROVE  TypeOK'
  OBVIOUS
<1> USE NodeAssumption, ThreadFacts DEF regVars, eventVars, GoTo
<1>1. ASSUME NEW h \in Handlers, NEW e \in Rooms \cup {Disconnect}, HandleEvent(h, e) PROVE TypeOK'
  <2>1. Interested(e) \in SUBSET Ids
    BY DEF Interested
  <2>2. QED
    BY <2>1, <1>1 DEF HandleEvent, TypeOK
<1>2. ASSUME NEW h \in Handlers, NEW i \in Ids, Post(h, i) PROVE TypeOK'
  <2>1. processes[i] # None => <<i, processes[i]>> \in Incarnations
    BY DEF TypeOK, Incarnations
  <2>2. mailbox' \in [Incarnations -> 0..MailboxSize] /\ got' \in [Handlers -> SUBSET Incarnations]
    BY <2>1, <1>2 DEF Post, TypeOK
  <2>3. QED
    BY <2>1, <2>2, <1>2 DEF Post, TypeOK
<1>3. ASSUME NEW h \in Handlers, EventHandled(h) PROVE TypeOK'
  BY <1>3 DEF EventHandled, TypeOK
<1>4. ASSUME NEW o \in Incarnations, TakeMessage(o) PROVE TypeOK'
  <2>1. mailbox' \in [Incarnations -> 0..MailboxSize]
    BY <1>4 DEF TakeMessage, TypeOK
  <2>2. QED
    BY <2>1, <1>4 DEF TakeMessage, TypeOK
<1>5. ASSUME NEW o \in Incarnations, FunctionReturns(o) PROVE TypeOK'
  BY <1>5 DEF FunctionReturns, TypeOK
<1>6. ASSUME NEW o \in Incarnations, LoopEnds(o) PROVE TypeOK'
  BY <1>6 DEF LoopEnds, TypeOK
<1>7. ASSUME NEW t \in Threads, CallRead(t) PROVE TypeOK'
  BY <1>7 DEF CallRead, TypeOK
<1>8. ASSUME NEW t \in Threads, GetProcessStats(t) PROVE TypeOK'
  BY <1>8 DEF GetProcessStats, Base, TypeOK
<1>9. ASSUME NEW t \in Threads, NEW i \in Ids, SendLookup(t, i) PROVE TypeOK'
  <2>1. processes[i] # None => <<i, processes[i]>> \in Incarnations
    BY DEF TypeOK, Incarnations
  <2>2. QED
    BY <2>1, <1>9 DEF SendLookup, Base, TypeOK
<1>10. ASSUME NEW t \in Threads, Enqueue(t) PROVE TypeOK'
  <2>1. mailbox' \in [Incarnations -> 0..MailboxSize]
    <3>1. /\ mailbox \in [Incarnations -> 0..MailboxSize] /\ MailboxSize \in Nat
          /\ mailbox' = [mailbox EXCEPT ![found[t]] =
                           IF found[t] \in alive /\ mailbox[found[t]] < MailboxSize
                           THEN mailbox[found[t]] + 1 ELSE mailbox[found[t]]]
      BY <1>10 DEF Enqueue, TypeOK
    <3>2. CASE found[t] \in Incarnations
      BY <3>1, <3>2
    <3>3. CASE found[t] \notin Incarnations
      BY <3>1, <3>3
    <3>4. QED
      BY <3>2, <3>3
  <2>2. QED
    BY <2>1, <1>10 DEF Enqueue, Base, TypeOK
<1>11. ASSUME NEW t \in Threads, CallWrite(t) PROVE TypeOK'
  BY <1>11 DEF CallWrite, TypeOK
<1>12. ASSUME NEW t \in Threads, CallStop(t) PROVE TypeOK'
  BY <1>12 DEF CallStop, TypeOK
<1>13. ASSUME NEW t \in Threads, CallRestart(t) PROVE TypeOK'
  BY <1>13 DEF CallRestart, TypeOK
<1>14. ASSUME NEW t \in Threads, Announce(t) PROVE TypeOK'
  BY <1>14 DEF Announce, TypeOK
<1>15. ASSUME NEW t \in Threads, NEW o \in Incarnations, Spawn(t, o) PROVE TypeOK'
  <2>1. /\ processes' \in [Ids -> Objects \cup {None}]
        /\ mailbox' \in [Incarnations -> 0..MailboxSize]
    BY <1>15 DEF Spawn, Start, TypeOK, Incarnations
  <2>2. Current(o[1]) \subseteq Incarnations
    BY DEF Current, Registered
  <2>3. QED
    BY <2>1, <2>2, <1>15 DEF Spawn, Start, Writes, Base, TypeOK
<1>16. ASSUME NEW t \in Threads, NEW o \in Incarnations, RestartProcess(t, o) PROVE TypeOK'
  <2>1. /\ processes' \in [Ids -> Objects \cup {None}]
        /\ mailbox' \in [Incarnations -> 0..MailboxSize]
    BY <1>16 DEF RestartProcess, Start, TypeOK, Incarnations
  <2>2. Current(o[1]) \subseteq Incarnations
    BY DEF Current, Registered
  <2>3. QED
    BY <2>1, <2>2, <1>16 DEF RestartProcess, Start, Writes, Base, TypeOK
<1>17. ASSUME NEW t \in Threads, SpawnRefused(t) PROVE TypeOK'
  BY <1>17 DEF SpawnRefused, Writes, Base, TypeOK
<1>18. ASSUME NEW t \in Threads, NEW i \in Ids, Kill(t, i) PROVE TypeOK'
  <2>1. Current(i) \subseteq Incarnations
    BY DEF Current, Registered
  <2>2. subs' \in [Ids -> SUBSET Rooms] /\ late' \subseteq Ids
    BY <1>18 DEF Kill, TypeOK
  <2>3. QED
    BY <2>1, <2>2, <1>18 DEF Kill, Writes, Base, TypeOK
<1>19. ASSUME NEW t \in Threads, NEW i \in Ids, NEW r \in Rooms, Subscribe(t, i, r) PROVE TypeOK'
  BY <1>19 DEF Subscribe, Writes, Base, TypeOK
<1>20. ASSUME NEW t \in Threads, NEW i \in Ids, NEW r \in Rooms, Unsubscribe(t, i, r) PROVE TypeOK'
  BY <1>20 DEF Unsubscribe, Writes, Base, TypeOK
<1>21. ASSUME NEW t \in Threads, StopDelete(t) PROVE TypeOK'
  <2>1. Registered \subseteq Incarnations
    BY DEF Registered
  <2>2. QED
    BY <2>1, <1>21 DEF StopDelete, Writes, Base, TypeOK
<1>22. CASE UNCHANGED vars
  BY <1>22 DEF vars, TypeOK
<1>23. QED
  BY <1>1, <1>2, <1>3, <1>4, <1>5, <1>6, <1>7, <1>8, <1>9, <1>10, <1>11, <1>12,
     <1>13, <1>14, <1>15, <1>16, <1>17, <1>18, <1>19, <1>20, <1>21, <1>22
     DEF Next, Lookup, Write

------------------------------------------------------------------------------
(* Subscriptions and goroutines. *)

\* Steps that leave the registry alone and start no goroutine of a process.
LEMMA RegistrySame ==
    ASSUME OrphanOnlyByLateSubscribe, LeakOnlyByRespawn, UNCHANGED regVars,
           nodeDone => nodeDone',
           \A o \in Incarnations : pc'[o] # "ended" => pc[o] # "ended"
    PROVE  OrphanOnlyByLateSubscribe' /\ LeakOnlyByRespawn'
<1>1. Registered' = Registered
  BY DEF regVars, Registered
<1>2. QED
  BY <1>1 DEF regVars, OrphanOnlyByLateSubscribe, LeakOnlyByRespawn

\* A spawn or a restart: the object that the map held before is in gone.
LEMMA StartSteps ==
    ASSUME NodeInv, NEW t \in Threads, NEW o \in Incarnations, Start(t, o),
           pc[t] # "ended", UNCHANGED nodeDone,
           NEW gone, Current(o[1]) \subseteq gone,
           gone \subseteq cancelled' \cup replaced' \cup {o},
           cancelled \subseteq cancelled' \cup {o}, replaced \subseteq replaced' \cup {o}
    PROVE  OrphanOnlyByLateSubscribe' /\ LeakOnlyByRespawn'
<1> USE ThreadFacts, NodeAssumption
<1>0. /\ TypeOK /\ OrphanOnlyByLateSubscribe /\ LeakOnlyByRespawn
      /\ o[1] \in Ids /\ o[2] \in Objects /\ o = <<o[1], o[2]>>
  BY DEF NodeInv, Incarnations
<1>1. OrphanOnlyByLateSubscribe'
  BY <1>0 DEF Start, OrphanOnlyByLateSubscribe, TypeOK
<1>2. ASSUME NEW u \in Incarnations, pc'[u] # "ended", u \notin Registered'
      PROVE  u \in cancelled' \/ u \in replaced' \/ nodeDone'
  <2>1. u # o
    BY <1>0, <1>2 DEF Start, Registered, TypeOK
  <2>2. pc[u] # "ended"
    BY <1>0, <1>2, <2>1 DEF Start, TypeOK
  <2>3. CASE u \in Registered
    <3>1. u \in Current(o[1])
      BY <2>3, <1>0, <1>2 DEF Start, Registered, Current, TypeOK, Incarnations
    <3>2. QED
      BY <3>1, <2>1
  <2>4. CASE u \notin Registered
    BY <2>1, <2>2, <2>4, <1>0 DEF LeakOnlyByRespawn
  <2>5. QED
    BY <2>3, <2>4
<1>3. LeakOnlyByRespawn'
  BY <1>2 DEF LeakOnlyByRespawn
<1>4. QED
  BY <1>1, <1>3

\* What Spawn, Kill, Subscribe and Stop do to the maps.
LEMMA RegistryStep ==
    NodeInv /\ [Next]_vars => OrphanOnlyByLateSubscribe' /\ LeakOnlyByRespawn'
<1> SUFFICES ASSUME NodeInv, [Next]_vars
             PROVE  OrphanOnlyByLateSubscribe' /\ LeakOnlyByRespawn'
  OBVIOUS
<1> USE NodeAssumption, ThreadFacts DEF GoTo, Base
<1>0. TypeOK /\ StopOK /\ OrphanOnlyByLateSubscribe /\ LeakOnlyByRespawn
  BY DEF NodeInv
<1>1. ASSUME NEW t \in Threads, NEW o \in Incarnations, Spawn(t, o)
      PROVE  OrphanOnlyByLateSubscribe' /\ LeakOnlyByRespawn'
  <2>1. /\ Start(t, o) /\ pc[t] # "ended" /\ UNCHANGED nodeDone
        /\ cancelled \subseteq cancelled' \cup {o} /\ replaced \subseteq replaced' \cup {o}
        /\ Current(o[1]) \subseteq replaced' \cup {o}
    BY <1>1 DEF Spawn, Writes
  <2>2. QED
    BY <2>1, StartSteps
<1>2. ASSUME NEW t \in Threads, NEW o \in Incarnations, RestartProcess(t, o)
      PROVE  OrphanOnlyByLateSubscribe' /\ LeakOnlyByRespawn'
  <2>1. /\ Start(t, o) /\ pc[t] # "ended" /\ UNCHANGED nodeDone
        /\ cancelled \subseteq cancelled' \cup {o} /\ replaced \subseteq replaced' \cup {o}
        /\ Current(o[1]) \subseteq cancelled' \cup {o}
    BY <1>2 DEF RestartProcess, Writes
  <2>2. QED
    BY <2>1, StartSteps
<1>3. ASSUME NEW t \in Threads, NEW i \in Ids, Kill(t, i)
      PROVE  OrphanOnlyByLateSubscribe' /\ LeakOnlyByRespawn'
  <2>1. OrphanOnlyByLateSubscribe'
    <3>1. CASE processes[i] = None
      <4>1. Current(i) = {}
        BY <3>1, <1>0, CurrentIs
      <4>2. QED
        BY <3>1, <4>1, <1>0, <1>3 DEF Kill, Writes, OrphanOnlyByLateSubscribe, TypeOK
    <3>2. CASE processes[i] # None
      <4>1. Current(i) # {}
        BY <3>2, <1>0, CurrentIs
      <4>2. QED
        BY <4>1, <1>0, <1>3 DEF Kill, Writes, OrphanOnlyByLateSubscribe, TypeOK
    <3>3. QED
      BY <3>1, <3>2
  <2>2. \A u \in Incarnations : u \in Registered /\ u \notin Registered' => u \in Current(i)
    BY <1>0, <1>3 DEF Kill, Registered, Current, TypeOK, Incarnations
  <2>3. \A u \in Incarnations : pc'[u] # "ended" => pc[u] # "ended"
    BY <1>0, <1>3 DEF Kill, Writes, TypeOK
  <2>4. LeakOnlyByRespawn'
    BY <2>2, <2>3, <1>0, <1>3 DEF Kill, Writes, LeakOnlyByRespawn
  <2>5. QED
    BY <2>1, <2>4
<1>4. ASSUME NEW t \in Threads, NEW i \in Ids, NEW r \in Rooms,
             Subscribe(t, i, r) \/ Unsubscribe(t, i, r)
      PROVE  OrphanOnlyByLateSubscribe' /\ LeakOnlyByRespawn'
  <2>1. OrphanOnlyByLateSubscribe'
    BY <1>0, <1>4 DEF Subscribe, Unsubscribe, Writes, OrphanOnlyByLateSubscribe, TypeOK
  <2>2. \A u \in Incarnations : pc'[u] # "ended" => pc[u] # "ended"
    BY <1>0, <1>4 DEF Subscribe, Unsubscribe, Writes, TypeOK
  <2>3. LeakOnlyByRespawn'
    BY <2>2, <1>0, <1>4 DEF Subscribe, Unsubscribe, Writes, Registered, LeakOnlyByRespawn
  <2>4. QED
    BY <2>1, <2>3
<1>5. ASSUME NEW t \in Threads, StopDelete(t)
      PROVE  OrphanOnlyByLateSubscribe' /\ LeakOnlyByRespawn'
  <2>1. nodeDone'
    BY <1>0, <1>5 DEF StopDelete, Writes, StopOK
  <2>2. QED
    BY <2>1 DEF OrphanOnlyByLateSubscribe, LeakOnlyByRespawn
<1>6. ASSUME NEW t \in Threads, SpawnRefused(t)
      PROVE  OrphanOnlyByLateSubscribe' /\ LeakOnlyByRespawn'
  BY <1>0, <1>6, RegistrySame DEF SpawnRefused, Writes, TypeOK
<1>7. ASSUME NEW t \in Threads,
             CallRead(t) \/ CallWrite(t) \/ CallStop(t) \/ CallRestart(t) \/ Announce(t)
      PROVE  OrphanOnlyByLateSubscribe' /\ LeakOnlyByRespawn'
  <2>1. \A u \in Incarnations : pc'[u] # "ended" => pc[u] # "ended"
    BY <1>0, <1>7 DEF CallRead, CallWrite, CallStop, CallRestart, Announce, TypeOK
  <2>2. UNCHANGED regVars /\ (nodeDone => nodeDone')
    BY <1>7 DEF CallRead, CallWrite, CallStop, CallRestart, Announce
  <2>3. QED
    BY <2>1, <2>2, <1>0, RegistrySame
<1>8. ASSUME NEW t \in Threads,
             GetProcessStats(t) \/ Enqueue(t) \/ \E i \in Ids : SendLookup(t, i)
      PROVE  OrphanOnlyByLateSubscribe' /\ LeakOnlyByRespawn'
  <2>1. \A u \in Incarnations : pc'[u] # "ended" => pc[u] # "ended"
    BY <1>0, <1>8 DEF GetProcessStats, Enqueue, SendLookup, TypeOK
  <2>2. UNCHANGED regVars /\ (nodeDone => nodeDone')
    BY <1>8 DEF GetProcessStats, Enqueue, SendLookup
  <2>3. QED
    BY <2>1, <2>2, <1>0, RegistrySame
<1>9. ASSUME NEW o \in Incarnations, TakeMessage(o) \/ FunctionReturns(o) \/ LoopEnds(o)
      PROVE  OrphanOnlyByLateSubscribe' /\ LeakOnlyByRespawn'
  <2>1. \A u \in Incarnations : pc'[u] # "ended" => pc[u] # "ended"
    BY <1>0, <1>9 DEF TakeMessage, FunctionReturns, LoopEnds, TypeOK
  <2>2. UNCHANGED regVars /\ (nodeDone => nodeDone')
    BY <1>9 DEF TakeMessage, FunctionReturns, LoopEnds
  <2>3. QED
    BY <2>1, <2>2, <1>0, RegistrySame
<1>10. ASSUME UNCHANGED <<regVars, nodeDone, pc>>
       PROVE  OrphanOnlyByLateSubscribe' /\ LeakOnlyByRespawn'
  BY <1>0, <1>10, RegistrySame
<1>11. QED
  BY <1>1, <1>2, <1>3, <1>4, <1>5, <1>6, <1>7, <1>8, <1>9, <1>10
     DEF Next, Lookup, Write, HandleEvent, Post, EventHandled, vars

\* The node is done before Stop waits for node.mu.
LEMMA StopStep == NodeInv /\ [Next]_vars => StopOK'
<1> SUFFICES ASSUME NodeInv, [Next]_vars
             PROVE  StopOK'
  OBVIOUS
<1> USE ThreadFacts DEF GoTo, Base
<1>0. TypeOK /\ StopOK
  BY DEF NodeInv
<1>1. ASSUME NEW t \in Threads, CallStop(t) PROVE StopOK'
  BY <1>1 DEF CallStop, StopOK
<1>2. ASSUME nodeDone => nodeDone', NEW t \in Threads, NEW where, where # "stop",
             GoTo(t, where)
      PROVE  StopOK'
  BY <1>0, <1>2 DEF StopOK, TypeOK
<1>3. ASSUME UNCHANGED <<nodeDone, pc>> PROVE StopOK'
  BY <1>0, <1>3 DEF StopOK
<1>4. ASSUME NEW o \in Incarnations, TakeMessage(o) \/ FunctionReturns(o) \/ LoopEnds(o)
      PROVE  StopOK'
  BY <1>2, <1>4 DEF TakeMessage, FunctionReturns, LoopEnds
<1>5. ASSUME NEW t \in Threads,
             \/ CallRead(t) \/ CallWrite(t) \/ CallRestart(t) \/ Enqueue(t)
             \/ GetProcessStats(t) \/ \E i \in Ids : SendLookup(t, i)
      PROVE  StopOK'
  BY <1>2, <1>5 DEF CallRead, CallWrite, CallRestart, Enqueue, GetProcessStats, SendLookup
<1>6. ASSUME NEW t \in Threads, NEW o \in Incarnations, Spawn(t, o) \/ RestartProcess(t, o)
      PROVE  StopOK'
  BY <1>0, <1>6 DEF Spawn, RestartProcess, Start, Writes, StopOK, TypeOK
<1>7. ASSUME NEW t \in Threads,
             \/ SpawnRefused(t) \/ StopDelete(t)
             \/ \E i \in Ids : \/ Kill(t, i)
                               \/ \E r \in Rooms : Subscribe(t, i, r) \/ Unsubscribe(t, i, r)
      PROVE  StopOK'
  BY <1>2, <1>7 DEF SpawnRefused, StopDelete, Kill, Subscribe, Unsubscribe, Writes
<1>8. QED
  BY <1>1, <1>3, <1>4, <1>5, <1>6, <1>7
     DEF Next, Lookup, Write, HandleEvent, Post, EventHandled, Announce, vars

------------------------------------------------------------------------------
(* The events. *)

\* A writer of node.mu finds no handler in its range.
LEMMA WriterDelivers ==
    ASSUME \A h \in Handlers : DeliveryOK(h), Readers = {}, UNCHANGED eventVars
    PROVE  \A h \in Handlers : DeliveryOK(h)'
BY DEF DeliveryOK, Readers, eventVars

\* While a handler is in its range nobody changes what it ranges over.
LEMMA DeliveryStep == NodeInv /\ [Next]_vars => \A h \in Handlers : DeliveryOK(h)'
<1> SUFFICES ASSUME NodeInv, [Next]_vars
             PROVE  \A h \in Handlers : DeliveryOK(h)'
  OBVIOUS
<1> USE NodeAssumption DEF regVars
<1>0. TypeOK /\ \A h \in Handlers : DeliveryOK(h)
  BY DEF NodeInv
<1>1. ASSUME NEW h \in Handlers, DeliveryOK(h)', UNCHANGED <<processes, subs, alive>>,
             \A g \in Handlers \ {h} : /\ event'[g] = event[g] /\ todo'[g] = todo[g]
                                       /\ got'[g] = got[g]
      PROVE  \A g \in Handlers : DeliveryOK(g)'
  BY <1>0, <1>1, DeliverySame
<1>2. ASSUME NEW h \in Handlers, NEW e \in Rooms \cup {Disconnect}, HandleEvent(h, e)
      PROVE  \A g \in Handlers : DeliveryOK(g)'
  <2>1. /\ event'[h] = e /\ e # None /\ todo'[h] = Interested(e) /\ got'[h] = {}
        /\ Interested(e)' = Interested(e)
    BY <1>0, <1>2 DEF HandleEvent, DeliveryOK, Interested, TypeOK
  <2>2. Targets({})' = {}
    BY DEF Targets
  <2>3. DeliveryOK(h)'
    BY <2>1, <2>2 DEF DeliveryOK
  <2>4. QED
    BY <2>3, <1>0, <1>1, <1>2 DEF HandleEvent, TypeOK
<1>3. ASSUME NEW h \in Handlers, NEW i \in Ids, Post(h, i)
      PROVE  \A g \in Handlers : DeliveryOK(g)'
  <2> DEFINE e == event[h]
             o == <<i, processes[i]>>
  <2>1. /\ i \in todo[h] /\ todo'[h] = todo[h] \ {i} /\ event'[h] = e
        /\ got'[h] = IF processes[i] # None /\ o \in alive THEN got[h] \cup {o} ELSE got[h]
    BY <1>0, <1>3 DEF Post, TypeOK
  <2>2. Interested(e)' = Interested(e) /\ \A ids : Targets(ids)' = Targets(ids)
    BY <1>3 DEF Post, Interested, Targets, Registered
  <2>3. CASE e = None
    BY <2>1, <2>3, <1>0 DEF DeliveryOK
  <2>4. CASE e # None
    <3>1. /\ i \in Interested(e) /\ todo[h] \subseteq Interested(e)
          /\ got[h] = Targets(Interested(e) \ todo[h])
      BY <2>1, <2>4, <1>0 DEF DeliveryOK
    <3>2. Interested(e) \ todo'[h] = (Interested(e) \ todo[h]) \cup {i}
      BY <2>1, <3>1
    <3>3. Targets((Interested(e) \ todo[h]) \cup {i}) = got'[h]
      <4>1. Targets({i}) = Current(i) \cap alive
        BY DEF Targets, Current
      <4>2. Targets({i}) = IF processes[i] # None /\ o \in alive THEN {o} ELSE {}
        BY <4>1, <1>0, CurrentIs
      <4>3. \A ids : Targets(ids \cup {i}) = Targets(ids) \cup Targets({i})
        BY DEF Targets
      <4>4. QED
        BY <4>2, <4>3, <3>1, <2>1
    <3>4. DeliveryOK(h)'
      BY <2>1, <2>2, <2>4, <3>1, <3>2, <3>3 DEF DeliveryOK
    <3>5. QED
      BY <3>4, <1>0, <1>1, <1>3 DEF Post, TypeOK
  <2>5. QED
    BY <2>3, <2>4
<1>4. ASSUME NEW h \in Handlers, EventHandled(h)
      PROVE  \A g \in Handlers : DeliveryOK(g)'
  <2>1. event'[h] = None /\ got'[h] = {} /\ todo'[h] = {}
    BY <1>0, <1>4 DEF EventHandled, TypeOK
  <2>2. DeliveryOK(h)'
    BY <2>1 DEF DeliveryOK
  <2>3. QED
    BY <2>2, <1>0, <1>1, <1>4 DEF EventHandled, TypeOK
<1>5. ASSUME UNCHANGED <<processes, subs, alive, eventVars>>
      PROVE  \A g \in Handlers : DeliveryOK(g)'
  BY <1>0, <1>5, DeliverySame DEF eventVars
<1>6. ASSUME NEW t \in Threads, Write(t)
      PROVE  \A g \in Handlers : DeliveryOK(g)'
  BY <1>0, <1>6, WriterDelivers
     DEF Write, Spawn, RestartProcess, SpawnRefused, Kill, Subscribe, Unsubscribe, StopDelete,
         Writes
<1>7. ASSUME NEW o \in Incarnations, TakeMessage(o) \/ FunctionReturns(o) \/ LoopEnds(o)
      PROVE  \A g \in Handlers : DeliveryOK(g)'
  BY <1>5, <1>7 DEF TakeMessage, FunctionReturns, LoopEnds
<1>8. ASSUME NEW t \in Threads,
             \/ CallRead(t) \/ Lookup(t) \/ Enqueue(t) \/ CallWrite(t) \/ CallStop(t)
             \/ CallRestart(t) \/ Announce(t)
      PROVE  \A g \in Handlers : DeliveryOK(g)'
  BY <1>5, <1>8 DEF CallRead, Lookup, GetProcessStats, SendLookup, Enqueue, CallWrite,
                    CallStop, CallRestart, Announce
<1>9. CASE UNCHANGED vars
  BY <1>5, <1>9 DEF vars
<1>10. QED
  BY <1>2, <1>3, <1>4, <1>6, <1>7, <1>8, <1>9 DEF Next

\* Every step preserves the invariant.
LEMMA InvStep == NodeInv /\ [Next]_vars => NodeInv'
BY TypeStep, StopStep, RegistryStep, DeliveryStep DEF NodeInv

\* NodeInv is inductive.
LEMMA InvHolds == Spec => []NodeInv
BY InitInv, InvStep, PTL DEF Spec

------------------------------------------------------------------------------
(* The theorems. *)

\* The fields have their types and no mailbox exceeds its capacity, although
\* handlers and Send fill it independently.
THEOREM TypeCorrect == Spec => []TypeOK
<1>1. NodeInv => TypeOK
  BY DEF NodeInv
<1>2. QED
  BY <1>1, InvHolds, PTL

\* Subscriptions without a process come from a late Subscribe or from Stop.
THEOREM OrphansSubscribedLate == Spec => []OrphanOnlyByLateSubscribe
<1>1. NodeInv => OrphanOnlyByLateSubscribe
  BY DEF NodeInv
<1>2. QED
  BY <1>1, InvHolds, PTL

\* Only a second spawn of an id leaves a goroutine that nobody can end.
THEOREM OnlyRespawnLeaks == Spec => []LeakOnlyByRespawn
<1>1. NodeInv => LeakOnlyByRespawn
  BY DEF NodeInv
<1>2. QED
  BY <1>1, InvHolds, PTL

\* A handler that returns has written its event to exactly the processes that
\* are registered and subscribed at that moment.
THEOREM EventsReachExactly == Spec => EventsExact
<1> DEFINE Exact == \A h \in Handlers :
              (event[h] # None /\ event'[h] = None)
                => got[h] = {o \in Registered \cap alive : o[1] \in Interested(event[h])}
<1>1. NodeInv /\ [Next]_vars => Exact
  <2> SUFFICES ASSUME NodeInv, [Next]_vars, NEW h \in Handlers,
                      event[h] # None, event'[h] = None
               PROVE  got[h] = {o \in Registered \cap alive : o[1] \in Interested(event[h])}
    BY DEF Exact
  <2> USE NodeAssumption
  <2>0. TypeOK /\ DeliveryOK(h)
    BY DEF NodeInv
  <2>1. EventHandled(h)
    <3>1. event' # event
      OBVIOUS
    <3>2. \E g \in Handlers : \/ \E e \in Rooms \cup {Disconnect} : HandleEvent(g, e)
                              \/ EventHandled(g)
      BY <3>1, ZenonT(60) DEF Next, vars, eventVars, Post, TakeMessage, FunctionReturns, LoopEnds,
                  CallRead, Lookup, GetProcessStats, SendLookup, Enqueue, CallWrite, CallStop,
                  CallRestart, Announce, Write, Spawn, RestartProcess, SpawnRefused, Kill,
                  Subscribe, Unsubscribe, StopDelete, Writes
    <3>3. QED
      BY <3>2, <2>0 DEF HandleEvent, EventHandled, TypeOK
  <2>2. todo[h] = {}
    BY <2>1 DEF EventHandled
  <2>3. got[h] = Targets(Interested(event[h]))
    BY <2>0, <2>2 DEF DeliveryOK
  <2>4. QED
    BY <2>3 DEF Targets
<1>2. Spec => [][Exact]_vars
  BY <1>1, InvHolds, PTL DEF Spec
<1>3. QED
  BY <1>2, PTL DEF EventsExact
===============================================================================
