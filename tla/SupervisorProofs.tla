--------------------------- MODULE SupervisorProofs ---------------------------
(***************************************************************************)
(* Proofs about Supervisor, for any number of processes and objects, any   *)
(* strategy, restart limit, period and mailbox size.                       *)
(***************************************************************************)
EXTENDS Supervisor, FiniteSetTheorems, TLAPS

\* The newest restart comes first.
Sorted(ages) == \A m, n \in DOMAIN ages : m <= n => ages[m] <= ages[n]

\* What restartTracker knows about the restarts of one process.  The last one was
\* stamped before it was made, but after all others were: its stamp is younger
\* than these, though it may be older than the last restart itself.  So count
\* misses at most one restart.  While a restart waits for node.mu its clock
\* reading is younger than every restart, and there is room for it.
TrackerOK(i) ==
    /\ Sorted(recent[i])
    /\ \A n \in DOMAIN recent[i] : n > 1 => age[i] <= recent[i][n]
    /\ Len(recent[i]) <= count[i] + 1
    /\ MaxRestarts > 0 => count[i] <= MaxRestarts
    /\ locking /\ NextToRestart(i)
         => /\ \A n \in DOMAIN recent[i] : waited <= recent[i][n]
            /\ MaxRestarts > 0 => count[i] < MaxRestarts

\* An id waits for its restart because of the last scan, and one that the scan
\* found missing is missing until then.
ScanCurrent ==
    \A i \in todo : i \in Affected(dead) /\ (i \in dead => processes[i] = None)

\* A registered process is alive: Kill removes it from node.processes in the
\* critical section in which it clears alive.
RegisteredAlive ==
    \A i \in Ids : processes[i] # None => <<i, processes[i]>> \in alive

\* The inductive invariant.
SuperInv ==
    /\ TypeOK
    /\ \A i \in Ids : TrackerOK(i)
    /\ locking => todo # {}
    /\ ScanCurrent
    /\ RegisteredAlive

------------------------------------------------------------------------------
(* Facts about the operators. *)

\* Ageing a list of restarts forgets those at the end of the period, keeps
\* the type and the order and never lengthens the list.
LEMMA OlderShrinks ==
    ASSUME NEW ages \in Seq(0..RestartPeriod), Sorted(ages)
    PROVE  /\ Older(ages) \in Seq(0..RestartPeriod)
           /\ Sorted(Older(ages))
           /\ Len(Older(ages)) <= Len(ages)
           /\ \A n \in DOMAIN Older(ages) :
                n \in DOMAIN ages /\ Older(ages)[n] = ages[n] + 1
           /\ (\A m \in DOMAIN ages : ages[m] >= RestartPeriod) => Older(ages) = <<>>
<1> DEFINE young == {m \in DOMAIN ages : ages[m] < RestartPeriod}
           len == Cardinality(young)
<1>0. RestartPeriod \in Nat
  BY SupervisorAssumption
<1>1. /\ Len(ages) \in Nat /\ DOMAIN ages = 1..Len(ages)
      /\ \A m \in 1..Len(ages) : ages[m] \in 0..RestartPeriod
  BY <1>0
<1>2. /\ IsFiniteSet(1..Len(ages)) /\ Cardinality(1..Len(ages)) = Len(ages)
  BY <1>1, FS_Interval
<1>3. /\ IsFiniteSet(young) /\ len \in Nat /\ len <= Len(ages)
  <2>1. young \subseteq 1..Len(ages)
    BY <1>1
  <2>2. IsFiniteSet(young) /\ len <= Len(ages)
    BY <2>1, <1>2, FS_Subset
  <2>3. QED
    BY <2>2, FS_CardinalityType
<1>4. ASSUME NEW n \in 1..len
      PROVE  ages[n] < RestartPeriod
  <2> SUFFICES ASSUME ages[n] >= RestartPeriod
               PROVE  FALSE
    BY <1>0, <1>1, <1>3
  <2>1. n \in 1..Len(ages)
    BY <1>1, <1>3
  <2>2. young \subseteq 1..(n - 1)
    BY <2>1, <1>0, <1>1, SMTT(60) DEF Sorted
  <2>3. IsFiniteSet(1..(n - 1)) /\ Cardinality(1..(n - 1)) = n - 1
    <3>1. 1 \in Int /\ n - 1 \in Int /\ n >= 1
      BY <2>1, <1>1
    <3>2. /\ IsFiniteSet(1..(n - 1))
          /\ Cardinality(1..(n - 1)) = IF 1 > n - 1 THEN 0 ELSE (n - 1) - 1 + 1
      BY <3>1, FS_Interval, Zenon
    <3>3. (IF 1 > n - 1 THEN 0 ELSE (n - 1) - 1 + 1) = n - 1
      BY <3>1
    <3>4. QED
      BY <3>2, <3>3
  <2>4. len <= n - 1
    BY <2>2, <2>3, FS_Subset
  <2>5. QED
    BY <2>4, <2>1, <1>3
<1>5. Older(ages) = [n \in 1..len |-> ages[n] + 1]
  BY DEF Older
<1> HIDE DEF len
<1>6. /\ Older(ages) \in Seq(0..RestartPeriod) /\ Len(Older(ages)) = len
      /\ DOMAIN Older(ages) = 1..len
  <2>1. \A n \in 1..len : ages[n] + 1 \in 0..RestartPeriod
    BY <1>0, <1>1, <1>3, <1>4
  <2>2. QED
    BY <2>1, <1>3, <1>5
<1>7. \A n \in 1..len : n \in DOMAIN ages /\ Older(ages)[n] = ages[n] + 1
  BY <1>1, <1>3, <1>5
<1>8. Sorted(Older(ages))
  BY <1>0, <1>1, <1>3, <1>6, <1>7 DEF Sorted
<1>9. ASSUME \A m \in DOMAIN ages : ages[m] >= RestartPeriod
      PROVE  Older(ages) = <<>>
  <2>1. young = {}
    BY <1>9, <1>0, <1>1
  <2>2. len = 0
    BY <2>1, FS_EmptySet DEF len
  <2>3. QED
    BY <2>2, <1>6
<1>10. QED
  BY <1>3, <1>6, <1>7, <1>8, <1>9

\* A restart put in front of the list of restarts.
LEMMA RestartPrepends ==
    ASSUME NEW ages \in Seq(0..RestartPeriod), Sorted(ages)
    PROVE  /\ <<0>> \o ages \in Seq(0..RestartPeriod)
           /\ Sorted(<<0>> \o ages)
           /\ Len(<<0>> \o ages) = Len(ages) + 1
<1>0. RestartPeriod \in Nat
  BY SupervisorAssumption
<1>1. /\ Len(<<0>> \o ages) = Len(ages) + 1
      /\ DOMAIN (<<0>> \o ages) = 1..(Len(ages) + 1)
      /\ DOMAIN ages = 1..Len(ages) /\ Len(ages) \in Nat
      /\ (<<0>> \o ages)[1] = 0
      /\ \A n \in 2..(Len(ages) + 1) : (<<0>> \o ages)[n] = ages[n - 1]
      /\ <<0>> \o ages \in Seq(0..RestartPeriod)
  BY <1>0
<1>2. \A n \in 1..Len(ages) : ages[n] \in 0..RestartPeriod
  BY <1>0
<1>3. Sorted(<<0>> \o ages)
  BY <1>0, <1>1, <1>2, SMTT(60) DEF Sorted
<1>4. QED
  BY <1>1, <1>3
------------------------------------------------------------------------------
(* The invariant holds initially and every action preserves it. *)

LEMMA InitInv == Init => SuperInv
<1> SUFFICES ASSUME Init PROVE SuperInv
  OBVIOUS
<1> PICK k \in Objects :
      LET first == {<<i, k>> : i \in Ids} IN
      /\ processes = [i \in Ids |-> k]
      /\ loop = [o \in Incarnations |-> IF o \in first THEN "select" ELSE "ended"]
      /\ alive = first
  BY DEF Init
<1>1. TypeOK
  <2>1. alive \subseteq Incarnations
    BY DEF Incarnations
  <2>2. /\ count \in [Ids -> Nat] /\ age \in [Ids -> 0..RestartPeriod + 1]
        /\ recent \in [Ids -> Seq(0..RestartPeriod)]
        /\ mailbox \in [Incarnations -> 0..MailboxSize] /\ waited \in 0..RestartPeriod + 1
    BY SupervisorAssumption DEF Init
  <2>3. /\ processes \in [Ids -> Objects \cup {None}]
        /\ loop \in [Incarnations -> {"select", "handle", "ended"}]
    OBVIOUS
  <2>4. QED
    BY <2>1, <2>2, <2>3 DEF Init, TypeOK
<1>2. \A i \in Ids : TrackerOK(i)
  BY SupervisorAssumption DEF Init, TrackerOK, Sorted
<1>3. (locking => todo # {}) /\ ScanCurrent /\ RegisteredAlive
  BY DEF Init, ScanCurrent, RegisteredAlive
<1>4. QED
  BY <1>1, <1>2, <1>3 DEF SuperInv

\* Steps that leave the supervisor and node.processes alone.
LEMMA ProcessStep ==
    ASSUME SuperInv, UNCHANGED <<processes, alive, superVars>>, TypeOK'
    PROVE  SuperInv'
<1>1. \A i \in Ids : TrackerOK(i)'
  BY DEF SuperInv, superVars, TrackerOK, NextToRestart
<1>2. (locking => todo # {})' /\ ScanCurrent' /\ RegisteredAlive'
  BY DEF SuperInv, superVars, ScanCurrent, RegisteredAlive, Affected
<1>3. QED
  BY <1>1, <1>2 DEF SuperInv

LEMMA TypeStep == TypeOK /\ (\A i \in Ids : TrackerOK(i)) /\ [Next]_vars => TypeOK'
<1> SUFFICES ASSUME TypeOK, \A i \in Ids : TrackerOK(i), [Next]_vars
             PROVE  TypeOK'
  OBVIOUS
<1> USE SupervisorAssumption DEF procVars, superVars
<1>1. ASSUME NEW i \in Ids, SendLookup(i) PROVE TypeOK'
  BY <1>1 DEF SendLookup, TypeOK, Incarnations
<1>2. ASSUME NEW i \in Ids, Kill(i) PROVE TypeOK'
  BY <1>2 DEF Kill, TypeOK, Incarnations
<1>3. CASE SendDeliver
  <2>1. sending \in Incarnations
    BY <1>3 DEF SendDeliver, TypeOK
  <2>2. mailbox' \in [Incarnations -> 0..MailboxSize]
    BY <2>1, <1>3 DEF SendDeliver, TypeOK
  <2>3. QED
    BY <2>2, <1>3 DEF SendDeliver, TypeOK
<1>4. ASSUME NEW o \in Incarnations, TakeMessage(o) PROVE TypeOK'
  <2>1. mailbox' \in [Incarnations -> 0..MailboxSize]
    BY <1>4 DEF TakeMessage, TypeOK
  <2>2. QED
    BY <2>1, <1>4 DEF TakeMessage, TypeOK
<1>5. ASSUME NEW o \in Incarnations, MessageHandled(o) \/ LoopEnds(o) PROVE TypeOK'
  BY <1>5 DEF MessageHandled, LoopEnds, TypeOK
<1>6. CASE StopCancel \/ StopDelete
  BY <1>6 DEF StopCancel, StopDelete, TypeOK, Registered
<1>7. CASE Tick
  <2>1. recent' \in [Ids -> Seq(0..RestartPeriod)]
    <3>1. \A i \in Ids : Older(recent[i]) \in Seq(0..RestartPeriod)
      BY OlderShrinks DEF TypeOK, TrackerOK
    <3>2. QED
      BY <3>1, <1>7 DEF Tick
  <2>2. age' \in [Ids -> 0..RestartPeriod + 1] /\ waited' \in 0..RestartPeriod + 1
    BY <1>7 DEF Tick, TypeOK, Aged
  <2>3. QED
    BY <2>1, <2>2, <1>7 DEF Tick, TypeOK
<1>8. CASE CheckProcesses
  BY <1>8 DEF CheckProcesses, TypeOK, Affected, DeadProcesses
<1>9. ASSUME NEW i \in Ids, RestartRefused(i) PROVE TypeOK'
  BY <1>9 DEF RestartRefused, TypeOK
<1>10. ASSUME NEW i \in Ids, NEW k \in Objects, RestartProcess(i, k) PROVE TypeOK'
  <2>1. <<i, k>> \in Incarnations
    BY DEF Incarnations
  <2>2. recent' \in [Ids -> Seq(0..RestartPeriod)]
    <3>1. <<0>> \o recent[i] \in Seq(0..RestartPeriod)
      BY RestartPrepends DEF TypeOK, TrackerOK
    <3>2. QED
      BY <3>1, <1>10 DEF RestartProcess, TypeOK
  <2>3. count' \in [Ids -> Nat] /\ age' \in [Ids -> 0..RestartPeriod + 1]
    BY <1>10 DEF RestartProcess, TypeOK
  <2>4. mailbox' \in [Incarnations -> 0..MailboxSize]
    BY <2>1, <1>10 DEF RestartProcess, TypeOK
  <2>5. locking' \in BOOLEAN /\ waited' \in 0..RestartPeriod + 1
    <3>1. locking' \in BOOLEAN
      BY <1>10, Zenon DEF RestartProcess
    <3>2. waited' = 0
      BY <1>10, Zenon DEF RestartProcess
    <3>3. QED
      BY <3>1, <3>2
  <2>6. QED
    BY <2>1, <2>2, <2>3, <2>4, <2>5, <1>10 DEF RestartProcess, TypeOK, Registered
<1>11. ASSUME NEW i \in Ids, BeginRestart(i) PROVE TypeOK'
  BY <1>11 DEF BeginRestart, TypeOK, CountNow
<1>12. CASE UNCHANGED vars
  BY <1>12 DEF vars, TypeOK
<1>13. QED
  BY <1>1, <1>2, <1>3, <1>4, <1>5, <1>6, <1>7, <1>8, <1>9, <1>10, <1>11, <1>12
     DEF Next

\* Time passes for the tracker, for a restart that waits and for those made alike.
LEMMA TickTracker ==
    ASSUME SuperInv, Tick, NEW i \in Ids
    PROVE  TrackerOK(i)'
<1>0. RestartPeriod \in Nat /\ MaxRestarts \in Nat
  BY SupervisorAssumption
<1>1. /\ recent[i] \in Seq(0..RestartPeriod) /\ age[i] \in 0..RestartPeriod + 1
      /\ count[i] \in Nat /\ waited \in 0..RestartPeriod + 1
  BY DEF SuperInv, TypeOK
<1>2. TrackerOK(i)
  BY DEF SuperInv
<1>3. /\ recent'[i] = Older(recent[i]) /\ age'[i] = Aged(age[i])
      /\ count'[i] = count[i] /\ locking' = locking
      /\ waited' = IF locking THEN Aged(waited) ELSE 0
      /\ NextToRestart(i)' <=> NextToRestart(i)
  BY DEF Tick, NextToRestart
<1>4. /\ Older(recent[i]) \in Seq(0..RestartPeriod)
      /\ Sorted(Older(recent[i]))
      /\ Len(Older(recent[i])) <= Len(recent[i])
      /\ \A n \in DOMAIN Older(recent[i]) :
           n \in DOMAIN recent[i] /\ Older(recent[i])[n] = recent[i][n] + 1
  BY <1>1, <1>2, OlderShrinks DEF TrackerOK
<1>5. ASSUME NEW ticks \in 0..RestartPeriod + 1, NEW n \in DOMAIN Older(recent[i]),
             ticks <= recent[i][n]
      PROVE  Aged(ticks) <= Older(recent[i])[n]
  <2>1. recent[i][n] \in 0..RestartPeriod /\ Older(recent[i])[n] = recent[i][n] + 1
    <3>1. n \in DOMAIN recent[i] /\ Older(recent[i])[n] = recent[i][n] + 1
      BY <1>4
    <3>2. recent[i][n] \in 0..RestartPeriod
      <4>1. ASSUME NEW S, NEW r \in Seq(S), n \in DOMAIN r PROVE r[n] \in S
        BY <4>1
      <4>2. recent[i] \in Seq(0..RestartPeriod)
        BY <1>1
      <4>3. QED
        BY <3>1, <4>1, <4>2, Zenon
    <3>3. QED
      BY <3>1, <3>2
  <2>2. QED
    BY <2>1, <1>0, <1>5 DEF Aged
<1>6. \A n \in DOMAIN recent'[i] : n > 1 => age'[i] <= recent'[i][n]
  BY <1>1, <1>2, <1>3, <1>4, <1>5 DEF TrackerOK
<1>7. Len(recent'[i]) <= count'[i] + 1
  <2>1. Len(Older(recent[i])) \in Nat /\ Len(recent[i]) \in Nat
    BY <1>1, <1>4
  <2>2. Len(recent[i]) <= count[i] + 1
    BY <1>2 DEF TrackerOK
  <2>3. Len(Older(recent[i])) <= count[i] + 1
    BY <2>1, <2>2, <1>1, <1>4
  <2>4. QED
    BY <2>3, <1>3
<1>8. ASSUME locking', NextToRestart(i)'
      PROVE  /\ \A n \in DOMAIN recent'[i] : waited' <= recent'[i][n]
             /\ MaxRestarts > 0 => count'[i] < MaxRestarts
  BY <1>1, <1>2, <1>3, <1>4, <1>5, <1>8 DEF TrackerOK
<1>9. MaxRestarts > 0 => count'[i] <= MaxRestarts
  BY <1>2, <1>3 DEF TrackerOK
<1>10. Sorted(recent'[i])
  BY <1>3, <1>4
<1>11. QED
  BY <1>6, <1>7, <1>8, <1>9, <1>10 DEF TrackerOK

\* Only one id can be the next to be restarted.
LEMMA OneIsNext ==
    ASSUME TypeOK, NEW i \in Ids, NEW j \in Ids, NextToRestart(i), NextToRestart(j)
    PROVE  i = j
BY SupervisorAssumption DEF NextToRestart, Ids

\* A restart begins with a reset if the last stamp is older than the period: then
\* at most one restart is younger.
LEMMA BeginTracker ==
    ASSUME SuperInv, TypeOK', NEW i \in Ids, BeginRestart(i), NEW j \in Ids
    PROVE  TrackerOK(j)'
<1>0. RestartPeriod \in Nat /\ MaxRestarts \in Nat
  BY SupervisorAssumption
<1>1. /\ recent[j] \in Seq(0..RestartPeriod) /\ age[j] \in 0..RestartPeriod + 1
      /\ count[j] \in Nat /\ TrackerOK(j)
  BY DEF SuperInv, TypeOK
<1>2. recent' = recent /\ waited' = 0 /\ todo' = todo /\ ~locking
  BY DEF BeginRestart
<1>3. \A n \in DOMAIN recent[j] : recent[j][n] \in 0..RestartPeriod
  BY <1>0, <1>1
<1>4. CASE j # i
  <2>1. age'[j] = age[j] /\ count'[j] = count[j]
    BY <1>4 DEF BeginRestart, SuperInv, TypeOK
  <2>2. ~NextToRestart(j)'
    BY <1>2, <1>4, OneIsNext DEF NextToRestart, BeginRestart, SuperInv
  <2>3. QED
    BY <2>1, <2>2, <1>1, <1>2 DEF TrackerOK
<1>5. CASE j = i
  <2>1. /\ age'[i] = IF age[i] > RestartPeriod THEN 0 ELSE age[i]
        /\ count'[i] = IF age[i] > RestartPeriod THEN 0 ELSE count[i]
    BY DEF BeginRestart, SuperInv, TypeOK, CountNow
  <2>2. MaxRestarts > 0 => count'[i] < MaxRestarts
    BY <2>1, <1>0, <1>1, <1>5 DEF BeginRestart, Refused, CountNow
  <2>3. \A n \in DOMAIN recent[i] : n > 1 => age'[i] <= recent[i][n]
    BY <2>1, <1>0, <1>1, <1>3, <1>5 DEF TrackerOK
  <2>4. Len(recent[i]) <= count'[i] + 1
    <3>1. CASE age[i] > RestartPeriod
      <4>1. ASSUME Len(recent[i]) > 1 PROVE FALSE
        <5>1. 2 \in DOMAIN recent[i]
          BY <4>1, <1>1, <1>5
        <5>2. age[i] <= recent[i][2] /\ recent[i][2] \in 0..RestartPeriod
          BY <5>1, <1>1, <1>3, <1>5 DEF TrackerOK
        <5>3. QED
          BY <5>2, <3>1, <1>0, <1>1, <1>5
      <4>2. Len(recent[i]) \in Nat
        BY <1>1, <1>5
      <4>3. QED
        BY <4>1, <4>2, <3>1, <2>1
    <3>2. CASE ~(age[i] > RestartPeriod)
      BY <3>2, <2>1, <1>1, <1>5 DEF TrackerOK
    <3>3. QED
      BY <3>1, <3>2
  <2>5. \A n \in DOMAIN recent[i] : waited' <= recent[i][n]
    BY <1>0, <1>1, <1>2, <1>3, <1>5
  <2>6. MaxRestarts > 0 => count'[i] <= MaxRestarts
    BY <2>1, <2>2, <1>0, <1>1, <1>5
  <2>7. QED
    BY <2>2, <2>3, <2>4, <2>5, <2>6, <1>1, <1>2, <1>5 DEF TrackerOK
<1>6. QED
  BY <1>4, <1>5

\* A restart is counted and stamped with the clock reading it began with.
LEMMA RestartTracker ==
    ASSUME SuperInv, NEW i \in Ids, NEW k \in Objects, RestartProcess(i, k), NEW j \in Ids
    PROVE  TrackerOK(j)'
<1>0. RestartPeriod \in Nat /\ MaxRestarts \in Nat
  BY SupervisorAssumption
<1>1. /\ recent[i] \in Seq(0..RestartPeriod) /\ waited \in 0..RestartPeriod + 1
      /\ count[i] \in Nat
  BY DEF SuperInv, TypeOK
<1>2. ~locking' /\ locking /\ NextToRestart(i)
  <2>1. locking /\ NextToRestart(i)
    BY DEF RestartProcess
  <2>2. locking' = FALSE
    BY DEF RestartProcess
  <2>3. QED
    BY <2>1, <2>2
<1>3. CASE j # i
  <2>1. recent'[j] = recent[j] /\ age'[j] = age[j] /\ count'[j] = count[j]
    BY <1>3 DEF RestartProcess, SuperInv, TypeOK
  <2>2. QED
    BY <1>2, <2>1 DEF SuperInv, TrackerOK
<1>4. CASE j = i
  <2>1. /\ recent'[i] = <<0>> \o recent[i] /\ age'[i] = waited
        /\ count'[i] = count[i] + 1
    BY DEF RestartProcess, SuperInv, TypeOK
  <2>2. TrackerOK(i)
    BY DEF SuperInv
  <2>3. /\ <<0>> \o recent[i] \in Seq(0..RestartPeriod)
        /\ Sorted(<<0>> \o recent[i])
        /\ Len(<<0>> \o recent[i]) = Len(recent[i]) + 1
    BY <1>1, <2>2, RestartPrepends DEF TrackerOK
  <2>4. \A n \in DOMAIN recent'[i] : n > 1 => age'[i] <= recent'[i][n]
    <3> SUFFICES ASSUME NEW n \in DOMAIN recent'[i], n > 1
                 PROVE  waited <= recent'[i][n]
      BY <2>1
    <3>1. n - 1 \in DOMAIN recent[i] /\ recent'[i][n] = recent[i][n - 1]
      BY <1>1, <2>1, <2>3
    <3>2. QED
      BY <3>1, <2>2, <1>2 DEF TrackerOK
  <2>5. Len(recent[i]) \in Nat /\ Len(recent[i]) <= count[i] + 1
    BY <1>1, <2>2 DEF TrackerOK
  <2>6. MaxRestarts > 0 => count'[i] <= MaxRestarts
    BY <1>0, <1>1, <1>2, <2>1, <2>2 DEF TrackerOK
  <2>7. Len(recent'[i]) <= count'[i] + 1
    BY <2>1, <2>3, <2>5, <1>1
  <2>8. QED
    BY <1>2, <1>4, <2>1, <2>3, <2>4, <2>6, <2>7 DEF TrackerOK
<1>5. QED
  BY <1>3, <1>4

LEMMA NextInv == SuperInv /\ [Next]_vars => SuperInv'
<1> SUFFICES ASSUME SuperInv, [Next]_vars
             PROVE  SuperInv'
  OBVIOUS
<1>0. TypeOK /\ TypeOK'
  BY TypeStep DEF SuperInv
<1>1. ASSUME NEW i \in Ids, SendLookup(i) PROVE SuperInv'
  BY <1>0, <1>1, ProcessStep DEF SendLookup, procVars
<1>2. ASSUME NEW i \in Ids, Kill(i) PROVE SuperInv'
  <2>1. \A j \in Ids : TrackerOK(j)'
    BY <1>2 DEF Kill, superVars, SuperInv, TrackerOK, NextToRestart
  <2>2. (locking => todo # {})' /\ ScanCurrent'
    BY <1>0, <1>2 DEF Kill, superVars, SuperInv, ScanCurrent, TypeOK, Affected
  <2>3. RegisteredAlive'
    BY <1>0, <1>2 DEF Kill, SuperInv, RegisteredAlive, TypeOK
  <2>4. QED
    BY <1>0, <2>1, <2>2, <2>3 DEF SuperInv
<1>3. CASE SendDeliver
  BY <1>0, <1>3, ProcessStep DEF SendDeliver
<1>4. ASSUME NEW o \in Incarnations, TakeMessage(o) \/ MessageHandled(o) \/ LoopEnds(o)
      PROVE  SuperInv'
  BY <1>0, <1>4, ProcessStep DEF TakeMessage, MessageHandled, LoopEnds
<1>5. CASE StopCancel
  BY <1>0, <1>5, ProcessStep DEF StopCancel, procVars
<1>6. CASE StopDelete
  <2>1. \A j \in Ids : TrackerOK(j)'
    BY <1>6 DEF StopDelete, superVars, SuperInv, TrackerOK, NextToRestart
  <2>2. (locking => todo # {})' /\ ScanCurrent' /\ RegisteredAlive'
    BY <1>0, <1>6 DEF StopDelete, superVars, SuperInv, ScanCurrent, RegisteredAlive,
                      TypeOK, Affected
  <2>3. QED
    BY <1>0, <2>1, <2>2 DEF SuperInv
<1>7. CASE Tick
  <2>1. \A j \in Ids : TrackerOK(j)'
    BY <1>7, TickTracker
  <2>2. (locking => todo # {})' /\ ScanCurrent' /\ RegisteredAlive'
    BY <1>7 DEF Tick, procVars, SuperInv, ScanCurrent, RegisteredAlive, Affected
  <2>3. QED
    BY <1>0, <2>1, <2>2 DEF SuperInv
<1>8. CASE CheckProcesses
  <2>1. (\A j \in Ids : TrackerOK(j)') /\ (locking => todo # {})'
    BY <1>8 DEF CheckProcesses, SuperInv, TrackerOK
  <2>2. \A i \in DeadProcesses : processes[i] = None
    BY DEF DeadProcesses, SuperInv, RegisteredAlive
  <2>3. ScanCurrent'
    BY <1>8, <2>2 DEF CheckProcesses, procVars, ScanCurrent, Affected
  <2>4. RegisteredAlive'
    BY <1>8 DEF CheckProcesses, procVars, SuperInv, RegisteredAlive
  <2>5. QED
    BY <1>0, <2>1, <2>3, <2>4 DEF SuperInv
<1>9. ASSUME NEW i \in Ids, RestartRefused(i) PROVE SuperInv'
  <2>1. \A j \in Ids : TrackerOK(j)'
    BY <1>9 DEF RestartRefused, SuperInv, TrackerOK
  <2>2. (locking => todo # {})' /\ ScanCurrent' /\ RegisteredAlive'
    BY <1>9 DEF RestartRefused, procVars, SuperInv, ScanCurrent, RegisteredAlive, Affected
  <2>3. QED
    BY <1>0, <2>1, <2>2 DEF SuperInv
<1>10. ASSUME NEW i \in Ids, NEW k \in Objects, RestartProcess(i, k) PROVE SuperInv'
  <2>1. \A j \in Ids : TrackerOK(j)'
    BY <1>10, RestartTracker
  <2>2. (locking => todo # {})'
    BY <1>10 DEF RestartProcess
  <2>3. ScanCurrent'
    <3>1. ScanCurrent
      BY DEF SuperInv
    <3>2. todo' = todo \ {i} /\ dead' = dead
      BY <1>10 DEF RestartProcess
    <3>3. Affected(dead)' = Affected(dead)
      BY <3>2 DEF Affected
    <3>4. \A j \in todo' : processes'[j] = processes[j]
      BY <1>0, <1>10, <3>2 DEF RestartProcess, TypeOK
    <3>5. QED
      BY <3>1, <3>2, <3>3, <3>4 DEF ScanCurrent
  <2>4. RegisteredAlive'
    BY <1>0, <1>10 DEF RestartProcess, SuperInv, RegisteredAlive, TypeOK
  <2>5. QED
    BY <1>0, <2>1, <2>2, <2>3, <2>4 DEF SuperInv
<1>11. ASSUME NEW i \in Ids, BeginRestart(i) PROVE SuperInv'
  <2>1. \A j \in Ids : TrackerOK(j)'
    BY <1>0, <1>11, BeginTracker
  <2>2. (locking => todo # {})' /\ ScanCurrent' /\ RegisteredAlive'
    BY <1>11 DEF BeginRestart, procVars, SuperInv, NextToRestart, ScanCurrent,
                 RegisteredAlive, Affected
  <2>3. QED
    BY <1>0, <2>1, <2>2 DEF SuperInv
<1>12. CASE UNCHANGED vars
  BY <1>0, <1>12, ProcessStep DEF vars, procVars
<1>13. QED
  BY <1>1, <1>2, <1>3, <1>4, <1>5, <1>6, <1>7, <1>8, <1>9, <1>10, <1>11, <1>12
     DEF Next

\* The inductive invariant holds throughout.
LEMMA Invariance == Spec => []SuperInv
  BY InitInv, NextInv, PTL DEF Spec

------------------------------------------------------------------------------
(* The results. *)

\* The state of Node, Process and Supervisor stays within the code's types,
\* and no mailbox exceeds its capacity.
THEOREM TypeCorrect == Spec => []TypeOK
<1>1. SuperInv => TypeOK
  BY DEF SuperInv
<1>2. QED
  BY <1>1, Invariance, PTL

\* restartProcess never restarts a process more than MaxRestarts + 1 times within
\* RestartPeriod, however long its restarts wait for node.mu.
THEOREM RestartsBounded == Spec => []RestartIntensity
<1>1. SuperInv => RestartIntensity
  <2> SUFFICES ASSUME SuperInv, MaxRestarts > 0, NEW i \in Ids
               PROVE  Len(recent[i]) <= MaxRestarts + 1
    BY DEF RestartIntensity
  <2>1. /\ RestartPeriod \in Nat /\ MaxRestarts \in Nat
        /\ recent[i] \in Seq(0..RestartPeriod) /\ age[i] \in 0..RestartPeriod + 1
        /\ count[i] \in Nat /\ TrackerOK(i)
    BY SupervisorAssumption DEF SuperInv, TypeOK
  <2>2. Len(recent[i]) \in Nat
    BY <2>1
  <2>3. QED
    BY <2>1, <2>2 DEF TrackerOK
<1>2. QED
  BY <1>1, Invariance, PTL

\* checkProcesses replaces a running process only when its strategy says so
\* for what the scan found missing.
THEOREM NoCollateral == Spec => NoCollateralRestart
<1> DEFINE A == \A i \in Ids :
         (processes[i] # None /\ processes'[i] # None /\ processes'[i] # processes[i])
           => \/ Strategy = "OneForAll" /\ dead # {}
              \/ Strategy = "RestForOne" /\ \E j \in dead : j < i
<1>1. SuperInv /\ [Next]_vars => [A]_vars
  <2> SUFFICES ASSUME SuperInv, Next, NEW i \in Ids, processes[i] # None,
                      processes'[i] # None, processes'[i] # processes[i]
               PROVE  \/ Strategy = "OneForAll" /\ dead # {}
                      \/ Strategy = "RestForOne" /\ \E j \in dead : j < i
    OBVIOUS
  <2>1. \E k \in Objects : RestartProcess(i, k)
    <3>1. processes \in [Ids -> Objects \cup {None}]
      BY DEF SuperInv, TypeOK
    <3>2. ASSUME NEW j \in Ids, Kill(j) PROVE FALSE
      BY <3>1, <3>2 DEF Kill
    <3>3. ASSUME StopDelete PROVE FALSE
      BY <3>3 DEF StopDelete
    <3>4. ASSUME NEW j \in Ids, NEW k \in Objects, RestartProcess(j, k)
          PROVE  j = i
      BY <3>1, <3>4 DEF RestartProcess
    <3>5. ASSUME UNCHANGED processes PROVE FALSE
      BY <3>5
    <3>6. ASSUME NEW j \in Ids, SendLookup(j) \/ RestartRefused(j) \/ BeginRestart(j)
          PROVE  FALSE
      BY <3>5, <3>6 DEF SendLookup, RestartRefused, BeginRestart, procVars
    <3>7. ASSUME NEW o \in Incarnations,
                 TakeMessage(o) \/ MessageHandled(o) \/ LoopEnds(o)
          PROVE  FALSE
      BY <3>5, <3>7 DEF TakeMessage, MessageHandled, LoopEnds
    <3>8. ASSUME SendDeliver \/ StopCancel \/ Tick \/ CheckProcesses PROVE FALSE
      BY <3>5, <3>8 DEF SendDeliver, StopCancel, Tick, CheckProcesses, procVars
    <3>9. QED
      BY <3>2, <3>3, <3>4, <3>6, <3>7, <3>8 DEF Next
  <2>2. i \in Affected(dead) /\ i \notin dead /\ dead \subseteq Ids
    BY <2>1 DEF RestartProcess, NextToRestart, SuperInv, ScanCurrent, TypeOK
  <2>3. QED
    BY <2>2, SupervisorAssumption DEF Affected, Ids
<1>2. QED
  BY <1>1, Invariance, PTL DEF Spec, NoCollateralRestart
==============================================================================
