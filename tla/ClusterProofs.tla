---------------------------- MODULE ClusterProofs -----------------------------
(***************************************************************************)
(* Proofs about Cluster, for any set of nodes, any weights and strategies, *)
(* and lists of any length.                                                *)
(***************************************************************************)
EXTENDS Cluster, SequenceTheorems, FiniteSetTheorems, WellFoundedInduction, TLAPS

\* A call of the broadcast that will meet, or has met, an unknown node was
\* started for a node that the liveness check dropped since.
CallsOK ==
    \A n \in Nodes :
        call[n] = "write" \/ (call[n] = "call" /\ n \notin remoteNodes) => n \in dropped

\* Position q is one of the k that the rotation served last.
Served(q, k) ==
    /\ q <= Len(list)
    /\ \/ nextIndex - k < q /\ q <= nextIndex
       \/ nextIndex + Len(list) - k < q

\* The turns of the current round are those of the last k positions before
\* nextIndex, cyclically, and one of the list has not had its turn yet.
Round(k) ==
    /\ k = 0 \/ (k < Len(list) /\ nextIndex < Len(list))
    /\ \A q \in 1..MaxLen : turns[q] = IF Served(q, k) THEN 1 ELSE 0

RotationOK == \E k \in 0..MaxLen : Round(k)

\* nextIndex is a position of the list unless a process was removed.
IndexOK == shrunk \/ nextIndex = 0 \/ nextIndex < Len(list)

\* The inductive invariant.
ClusterInv == TypeOK /\ CallsOK /\ RotationOK /\ IndexOK

------------------------------------------------------------------------------
(* Facts about the operators. *)

\* The modulo of SendRotates without the modulo.
LEMMA AdvancedWraps ==
    ASSUME NEW len \in Nat, NEW i \in Nat, i < len
    PROVE  (i + 1) % len = IF i + 1 = len THEN 0 ELSE i + 1
<1>1. CASE i + 1 = len
  BY <1>1
<1>2. CASE i + 1 < len
  BY <1>2
<1>3. QED
  BY <1>1, <1>2

\* A process taken out of the list.
LEMMA RemoveAtShortens ==
    ASSUME NEW S, NEW s \in Seq(S), NEW p \in 1..Len(s)
    PROVE  RemoveAt(s, p) \in Seq(S) /\ Len(RemoveAt(s, p)) = Len(s) - 1
<1> DEFINE before == SubSeq(s, 1, p - 1)
           after == SubSeq(s, p + 1, Len(s))
<1>1. /\ Len(s) \in Nat /\ \A i \in 1..Len(s) : s[i] \in S
  OBVIOUS
<1>2. before \in Seq(S) /\ Len(before) = p - 1
  BY <1>1, SubSeqProperties
<1>3. after \in Seq(S) /\ Len(after) = Len(s) - p
  BY <1>1, SubSeqProperties
<1>4. RemoveAt(s, p) = before \o after
  BY DEF RemoveAt
<1> HIDE DEF before, after
<1>5. before \o after \in Seq(S) /\ Len(before \o after) = Len(before) + Len(after)
  BY <1>2, <1>3, ConcatProperties
<1>6. QED
  BY <1>1, <1>2, <1>3, <1>4, <1>5

\* A nonempty set of numbers has a least one, which Min chooses.
LEMMA LeastExists ==
    ASSUME NEW S \in SUBSET Nat, S # {}
    PROVE  Min(S) \in S /\ \A y \in S : Min(S) <= y
<1>1. PICK x \in S : \A y \in S : ~(<<y, x>> \in OpToRel(<, Nat))
  BY NatLessThanWellFounded, WFMin, Zenon
<1>2. \A y \in S : ~(y < x)
  <2>1. OpToRel(<, Nat) = {z \in Nat \X Nat : z[1] < z[2]}
    BY DEF OpToRel
  <2>2. QED
    BY <1>1, <2>1
<1>3. \A y \in S : x <= y
  BY <1>2
<1>4. QED
  BY <1>3, Zenon DEF Min

\* The sums of the loop exist: they are built one weight after the other, and
\* the first length for which that failed would be a step from one that did not.
LEMMA PartialTotals ==
    ASSUME NEW weights \in Seq(Int)
    PROVE  \A m \in 0..Len(weights) :
             \E g \in [0..m -> Int] :
               g[0] = 0 /\ \A p \in 1..m : g[p] = g[p - 1] + weights[p]
<1> DEFINE Good(m) == \E g \in [0..m -> Int] :
                        g[0] = 0 /\ \A p \in 1..m : g[p] = g[p - 1] + weights[p]
           bad == {m \in 0..Len(weights) : ~Good(m)}
           b == Min(bad)
<1> SUFFICES ASSUME bad # {} PROVE FALSE
  OBVIOUS
<1>1. Len(weights) \in Nat /\ \A p \in 1..Len(weights) : weights[p] \in Int
  OBVIOUS
<1>2. b \in bad /\ \A m \in bad : b <= m
  <2>1. bad \in SUBSET Nat
    BY <1>1
  <2> HIDE DEF bad
  <2>2. QED
    BY <2>1, LeastExists
<1>3. b \in 0..Len(weights) /\ ~Good(b)
  BY <1>2
<1>4. b # 0
  <2>1. Good(0)
    <3> DEFINE g == [p \in 0..0 |-> 0]
    <3>1. g \in [0..0 -> Int] /\ g[0] = 0
      OBVIOUS
    <3> HIDE DEF g
    <3>2. QED
      BY <3>1
  <2> HIDE DEF Good
  <2>2. QED
    BY <2>1, <1>3
<1>5. b \in Nat /\ b - 1 \in 0..Len(weights) /\ b \in 1..Len(weights)
  BY <1>1, <1>3, <1>4
<1>6. Good(b - 1)
  <2> HIDE DEF Good, b
  <2>1. CASE b - 1 \in bad
    BY <2>1, <1>2, <1>5
  <2>2. QED
    BY <2>1, <1>5
<1> HIDE DEF b, bad
<1>7. PICK g \in [0..(b - 1) -> Int] :
           g[0] = 0 /\ \A p \in 1..(b - 1) : g[p] = g[p - 1] + weights[p]
  BY <1>6
<1> DEFINE h == [p \in 0..b |-> IF p = b THEN g[b - 1] + weights[b] ELSE g[p]]
<1>8. h \in [0..b -> Int]
  BY <1>1, <1>5, <1>7
<1>9. h[0] = 0 /\ \A p \in 1..b : h[p] = h[p - 1] + weights[p]
  <2>1. h[0] = 0 /\ h[b - 1] = g[b - 1] /\ h[b] = g[b - 1] + weights[b]
    BY <1>4, <1>5, <1>7
  <2>2. \A p \in 1..(b - 1) : h[p] = g[p] /\ h[p - 1] = g[p - 1]
    BY <1>5
  <2> HIDE DEF h
  <2>3. ASSUME NEW p \in 1..b PROVE h[p] = h[p - 1] + weights[p]
    <3>1. CASE p = b
      BY <3>1, <2>1
    <3>2. CASE p # b
      <4>1. p \in 1..(b - 1)
        BY <3>2, <1>5
      <4>2. QED
        BY <4>1, <2>2, <1>7
    <3>3. QED
      BY <3>1, <3>2
  <2>4. QED
    BY <2>1, <2>3
<1> HIDE DEF h
<1>10. QED
  BY <1>3, <1>8, <1>9

\* What the two loops of Send add up.
LEMMA TotalsFacts ==
    ASSUME NEW weights \in Seq(Int)
    PROVE  /\ Totals(weights) \in [0..Len(weights) -> Int]
           /\ Totals(weights)[0] = 0
           /\ \A p \in 1..Len(weights) :
                Totals(weights)[p] = Totals(weights)[p - 1] + weights[p]
<1> DEFINE len == Len(weights)
           F(g) == [p \in 0..len |-> IF p = 0 THEN 0 ELSE g[p - 1] + weights[p]]
           total == CHOOSE g : g = F(g)
<1>1. len \in Nat /\ \A p \in 1..len : weights[p] \in Int
  OBVIOUS
<1>2. PICK g \in [0..len -> Int] :
           g[0] = 0 /\ \A p \in 1..len : g[p] = g[p - 1] + weights[p]
  BY <1>1, PartialTotals
<1>3. g = F(g)
  BY <1>1, <1>2
<1>4. total = F(total)
  <2> HIDE DEF F
  <2>1. QED
    BY <1>3, Zenon
<1>5. Totals(weights) = total
  BY Zenon DEF Totals
<1> HIDE DEF total
<1>6. total[0] = 0 /\ \A p \in 1..len : total[p] = total[p - 1] + weights[p]
  <2>1. total[0] = 0
    <3>1. 0 \in 0..len
      BY <1>1
    <3>2. QED
      BY <1>4, <3>1
  <2>2. ASSUME NEW p \in 1..len PROVE total[p] = total[p - 1] + weights[p]
    <3>1. p \in 0..len /\ p # 0
      BY <1>1
    <3>2. F(total)[p] = total[p - 1] + weights[p]
      BY <3>1
    <3>3. QED
      BY <1>4, <3>2
  <2>3. QED
    BY <2>1, <2>2
<1>7. total \in [0..len -> Int]
  <2> DEFINE bad == {p \in 0..len : total[p] \notin Int}
             b == Min(bad)
  <2>1. bad = {}
    <3> SUFFICES ASSUME bad # {} PROVE FALSE
      OBVIOUS
    <3>1. b \in bad /\ \A p \in bad : b <= p
      <4>1. bad \in SUBSET Nat
        BY <1>1
      <4> HIDE DEF bad
      <4>2. QED
        BY <4>1, LeastExists
    <3> HIDE DEF b
    <3>2. b \in 1..len /\ total[b] \notin Int
      BY <3>1, <1>6, <1>1
    <3>3. total[b - 1] \in Int
      BY <3>1, <3>2, <1>1
    <3>4. total[b] = total[b - 1] + weights[b] /\ weights[b] \in Int
      BY <3>2, <1>6, <1>1
    <3>5. QED
      BY <3>2, <3>3, <3>4
  <2>2. total = [p \in 0..len |-> total[p]]
    BY <1>4
  <2>3. QED
    BY <2>1, <2>2
<1>8. QED
  BY <1>5, <1>6, <1>7

\* Without negative weights the sums never fall.
LEMMA TotalsGrow ==
    ASSUME NEW weights \in Seq(Int), \A p \in 1..Len(weights) : weights[p] >= 0
    PROVE  \A p, q \in 0..Len(weights) : p <= q => Totals(weights)[p] <= Totals(weights)[q]
<1> DEFINE len == Len(weights)
           T == Totals(weights)
           bad == {q \in 0..len : \E p \in 0..q : T[p] > T[q]}
           b == Min(bad)
<1>1. len \in Nat /\ \A p \in 1..len : weights[p] \in Int /\ weights[p] >= 0
  OBVIOUS
<1>2. /\ \A p \in 0..len : T[p] \in Int
      /\ \A p \in 1..len : T[p] = T[p - 1] + weights[p]
  BY TotalsFacts
<1> HIDE DEF T
<1>3. bad = {}
  <2> SUFFICES ASSUME bad # {} PROVE FALSE
    OBVIOUS
  <2>1. b \in bad /\ \A m \in bad : b <= m
    <3>1. bad \in SUBSET Nat
      BY <1>1
    <3> HIDE DEF bad
    <3>2. QED
      BY <3>1, LeastExists
  <2> HIDE DEF b
  <2>2. PICK p \in 0..b : T[p] > T[b]
    BY <2>1
  <2>3. b \in 0..len /\ T[b] \in Int
    BY <2>1, <1>2
  <2>4. p # b
    BY <2>2, <2>3
  <2>5. b \in 1..len /\ b - 1 \in 0..len /\ p \in 0..(b - 1) /\ p \in 0..len
    BY <2>3, <2>4, <1>1
  <2>6. b - 1 \notin bad
    <3> HIDE DEF bad
    <3>1. CASE b - 1 \in bad
      BY <3>1, <2>1, <2>5, <1>1
    <3>2. QED
      BY <3>1
  <2>7. T[p] \in Int /\ T[b - 1] \in Int
    BY <2>5, <1>2
  <2>8. T[p] <= T[b - 1]
    <3>1. ~(T[p] > T[b - 1])
      BY <2>5, <2>6
    <3>2. QED
      BY <3>1, <2>7
  <2>9. T[b] = T[b - 1] + weights[b] /\ weights[b] \in Int /\ weights[b] >= 0
    BY <2>5, <1>1, <1>2
  <2>10. QED
    BY <2>2, <2>7, <2>8, <2>9
<1>4. ASSUME NEW p \in 0..len, NEW q \in 0..len, p <= q
      PROVE  T[p] <= T[q]
  <2>1. T[p] \in Int /\ T[q] \in Int /\ p \in 0..q
    <3>1. T[p] \in Int /\ T[q] \in Int
      BY <1>2
    <3>2. QED
      BY <3>1, <1>1, <1>4
  <2>2. ~(T[p] > T[q])
    BY <1>3, <2>1
  <2>3. QED
    BY <2>1, <2>2
<1>5. QED
  BY <1>4 DEF T

\* The weights of a list are ints.
LEMMA ListTyped == TypeOK => list \in Seq(Int)
<1> SUFFICES ASSUME TypeOK PROVE list \in Seq(Int)
  OBVIOUS
<1>1. Len(list) \in Nat /\ list \in [1..Len(list) -> Weights]
  BY DEF TypeOK
<1>2. list \in [1..Len(list) -> Int]
  BY <1>1, ClusterAssumption
<1>3. QED
  BY <1>1, <1>2

\* The weighted choice is the first process whose sum exceeds the selection.
LEMMA PickFacts ==
    ASSUME list \in Seq(Int), NEW selection \in Nat, selection < TotalWeight
    PROVE  /\ WeightedPick(selection) \in 1..Len(list)
           /\ selection < Totals(list)[WeightedPick(selection)]
           /\ \A p \in 1..Len(list) :
                p < WeightedPick(selection) => ~(selection < Totals(list)[p])
<1> DEFINE hit == {p \in 1..Len(list) : selection < RunningTotal(p)}
<1>1. /\ Len(list) \in Nat /\ Totals(list)[0] = 0
  BY TotalsFacts
<1>2. Len(list) \in hit
  <2>1. Len(list) # 0
    BY <1>1 DEF TotalWeight
  <2>2. QED
    BY <1>1, <2>1 DEF TotalWeight, RunningTotal
<1>3. Min(hit) \in hit /\ \A p \in hit : Min(hit) <= p
  <2>1. hit \in SUBSET Nat /\ hit # {}
    BY <1>1, <1>2
  <2> HIDE DEF hit
  <2>2. QED
    BY <2>1, LeastExists
<1>4. WeightedPick(selection) = Min(hit)
  BY <1>2 DEF WeightedPick
<1> DEFINE k == Min(hit)
<1>5. k \in 1..Len(list) /\ selection < Totals(list)[k]
  BY <1>3 DEF RunningTotal
<1>6. ASSUME NEW p \in 1..Len(list), p < k PROVE ~(selection < Totals(list)[p])
  <2> SUFFICES ASSUME selection < Totals(list)[p] PROVE FALSE
    OBVIOUS
  <2>1. p \in hit
    BY DEF RunningTotal
  <2> HIDE DEF k
  <2>2. k <= p
    BY <2>1, <1>3 DEF k
  <2>3. QED
    BY <2>2, <1>6, <1>5, <1>1
<1> HIDE DEF k
<1>7. QED
  BY <1>4, <1>5, <1>6 DEF k

------------------------------------------------------------------------------
(* The invariant holds initially and every action preserves it. *)

\* An empty cluster and an empty group.
LEMMA InitInv == Init => ClusterInv
<1> SUFFICES ASSUME Init PROVE ClusterInv
  OBVIOUS
<1> USE ClusterAssumption
<1>1. TypeOK
  <2>1. list \in Seq(Weights) /\ Len(list) <= MaxLen /\ nextIndex \in 0..MaxLen
    BY DEF Init
  <2>2. turns \in [1..MaxLen -> Nat] /\ age \in [Nodes -> 0..Timeout]
    BY DEF Init, NoTurns
  <2>3. QED
    BY <2>1, <2>2 DEF Init, TypeOK
<1>2. CallsOK /\ IndexOK
  BY DEF Init, CallsOK, IndexOK
<1>3. Round(0)
  BY DEF Init, NoTurns, Round, Served
<1>4. QED
  BY <1>1, <1>2, <1>3 DEF ClusterInv, RotationOK

\* Steps of the cluster leave the group alone.
LEMMA GroupSame ==
    ASSUME RotationOK, IndexOK, UNCHANGED <<list, nextIndex, turns, shrunk>>
    PROVE  RotationOK' /\ IndexOK'
BY DEF RotationOK, IndexOK, Round, Served

\* After a change of the list the round begins anew.
LEMMA NewRound ==
    ASSUME TypeOK, TypeOK', turns' = NoTurns, UNCHANGED nextIndex
    PROVE  RotationOK'
<1>1. Round(0)'
  BY ClusterAssumption DEF Round, Served, NoTurns, TypeOK
<1>2. QED
  BY <1>1, ClusterAssumption DEF RotationOK

\* What a step of the rotation does to the turns: the position served had none,
\* so either it has one now, or everybody has had one and the round is over.
LEMMA RotationStep ==
    ASSUME TypeOK, RotationOK, SendRotates
    PROVE  RotationOK' /\ turns' \in [1..MaxLen -> Nat] /\ nextIndex' \in 0..MaxLen
<1> DEFINE len == Len(list)
           p == nextIndex + 1
           t == [turns EXCEPT ![p] = @ + 1]
<1>1. /\ MaxLen \in Nat /\ len \in Nat /\ len <= MaxLen /\ nextIndex \in Nat
      /\ turns \in [1..MaxLen -> Nat] /\ nextIndex < len
      /\ Len(list') = len /\ list' = list
  BY ClusterAssumption DEF TypeOK, SendRotates
<1>2. nextIndex' = IF p = len THEN 0 ELSE p
  BY <1>1, AdvancedWraps DEF SendRotates, Advanced
<1>3. turns' = IF \A q \in 1..len : t[q] > 0
               THEN [q \in 1..MaxLen |-> IF q <= len THEN t[q] - 1 ELSE 0] ELSE t
  BY DEF SendRotates, Turn
<1>4. PICK k \in 0..MaxLen : Round(k)
  BY DEF RotationOK
<1>5. k < len
  BY <1>1, <1>4 DEF Round
<1>6. /\ p \in 1..MaxLen /\ turns[p] = 0
  BY <1>1, <1>4, <1>5 DEF Round, Served
<1>7. \A q \in 1..MaxLen : t[q] = IF q = p \/ Served(q, k) THEN 1 ELSE 0
  BY <1>1, <1>4, <1>6 DEF Round
<1> HIDE DEF t
<1>8. CASE k + 1 = len
  <2>1. \A q \in 1..len : t[q] = 1
    BY <1>8, <1>1, <1>4, <1>7 DEF Served
  <2>2. turns' = [q \in 1..MaxLen |-> IF q <= len THEN t[q] - 1 ELSE 0]
    BY <2>1, <1>3
  <2>3. turns' = [q \in 1..MaxLen |-> 0]
    BY <2>1, <2>2, <1>1
  <2>4. Round(0)'
    BY <2>3, <1>1, <1>2 DEF Round, Served
  <2>5. QED
    BY <2>3, <2>4, <1>1, <1>2 DEF RotationOK
<1>9. CASE k + 1 < len
  <2>1. \E q \in 1..len : t[q] = 0
    <3>1. CASE k <= nextIndex /\ p < len
      BY <3>1, <1>9, <1>1, <1>4, <1>7, SMTT(60) DEF Served
    <3>2. CASE k <= nextIndex /\ p = len
      <4>1. 1 \in 1..len /\ 1 # p /\ ~Served(1, k)
        BY <3>2, <1>9, <1>1 DEF Served
      <4>2. QED
        BY <4>1, <1>1, <1>7
    <3>3. CASE nextIndex < k
      BY <3>3, <1>9, <1>1, <1>4, <1>7, SMTT(60) DEF Served
    <3>4. QED
      BY <3>1, <3>2, <3>3, <1>1
  <2>2. turns' = t
    BY <2>1, <1>3, <1>1
  <2>3. Round(k + 1)'
    <3>1. \A q \in 1..MaxLen : Served(q, k + 1)' <=> q = p \/ Served(q, k)
      BY <1>9, <1>1, <1>2, <1>4, SMTT(60) DEF Served
    <3>2. QED
      BY <3>1, <2>2, <1>9, <1>1, <1>2, <1>7, SMTT(60) DEF Round
  <2>4. QED
    BY <2>2, <2>3, <1>9, <1>1, <1>2, <1>7, SMTT(60) DEF RotationOK, t
<1>10. QED
  BY <1>5, <1>8, <1>9, <1>1
\* Every step keeps the types; a node is dropped before its age passes the timeout.
LEMMA TypeStep == ClusterInv /\ [Next]_vars => TypeOK'
<1> SUFFICES ASSUME ClusterInv, [Next]_vars
             PROVE  TypeOK'
  OBVIOUS
<1> USE ClusterAssumption DEF clusterVars, groupVars
<1>0. TypeOK /\ RotationOK
  BY DEF ClusterInv
<1>1. ASSUME NEW n \in Nodes, AddNode(n) PROVE TypeOK'
  BY <1>0, <1>1 DEF AddNode, TypeOK
<1>2. ASSUME NEW n \in Nodes, BroadcastCall(n) PROVE TypeOK'
  BY <1>0, <1>2 DEF BroadcastCall, TypeOK
<1>3. ASSUME NEW n \in Nodes, BroadcastResult(n) PROVE TypeOK'
  BY <1>0, <1>3 DEF BroadcastResult, TypeOK
<1>4. CASE CheckNodeLiveness
  <2>1. age' \in [Nodes -> 0..Timeout]
    BY <1>0, <1>4 DEF CheckNodeLiveness, TypeOK
  <2>2. QED
    BY <2>1, <1>0, <1>4 DEF CheckNodeLiveness, TypeOK
<1>5. CASE BroadcastMessage
  BY <1>0, <1>5 DEF BroadcastMessage, TypeOK
<1>6. CASE BroadcastReturns
  BY <1>0, <1>6 DEF BroadcastReturns, TypeOK
<1>7. ASSUME NEW weight \in Weights, AddProcess(weight) PROVE TypeOK'
  <2>1. list' \in Seq(Weights) /\ Len(list') <= MaxLen
    BY <1>0, <1>7 DEF AddProcess, TypeOK
  <2>2. QED
    BY <2>1, <1>0, <1>7 DEF AddProcess, TypeOK, NoTurns
<1>8. ASSUME NEW p \in 1..MaxLen, RemoveProcess(p) PROVE TypeOK'
  <2>1. list' \in Seq(Weights) /\ Len(list') = Len(list) - 1 /\ Len(list) <= MaxLen
    BY <1>0, <1>8, RemoveAtShortens DEF RemoveProcess, TypeOK
  <2>2. QED
    BY <2>1, <1>0, <1>8 DEF RemoveProcess, TypeOK, NoTurns
<1>9. CASE SendEmpty
  BY <1>0, <1>9 DEF SendEmpty, TypeOK
<1>10. CASE SendPanics
  BY <1>0, <1>10 DEF SendPanics, TypeOK
<1>11. CASE SendRotates
  <2>1. turns' \in [1..MaxLen -> Nat] /\ nextIndex' \in 0..MaxLen
    BY <1>0, <1>11, RotationStep
  <2>2. QED
    BY <2>1, <1>0, <1>11 DEF SendRotates, Answers, TypeOK
<1>12. CASE SendFirst
  BY <1>0, <1>12 DEF SendFirst, Answers, TypeOK
<1>13. ASSUME NEW selection \in 0..TotalWeight - 1, SendWeighted(selection) PROVE TypeOK'
  <2>1. result' \in {"ok", "error"}
    BY <1>13 DEF SendWeighted, Answers
  <2>2. QED
    BY <2>1, <1>0, <1>13 DEF SendWeighted, TypeOK
<1>14. CASE UNCHANGED vars
  BY <1>0, <1>14 DEF vars, TypeOK
<1>15. QED
  BY <1>1, <1>2, <1>3, <1>4, <1>5, <1>6, <1>7, <1>8, <1>9, <1>10, <1>11, <1>12,
     <1>13, <1>14
     DEF Next

\* A call meets an unknown node only if the node was dropped after the copy.
LEMMA CallsStep == ClusterInv /\ [Next]_vars => CallsOK'
<1> SUFFICES ASSUME ClusterInv, [Next]_vars
             PROVE  CallsOK'
  OBVIOUS
<1> USE DEF clusterVars, groupVars
<1>0. /\ CallsOK /\ call \in [Nodes -> {"none", "call", "write", "done"}]
      /\ remoteNodes \subseteq Nodes
  BY DEF ClusterInv, TypeOK
<1>1. ASSUME NEW n \in Nodes, AddNode(n) PROVE CallsOK'
  BY <1>0, <1>1 DEF AddNode, CallsOK
<1>2. ASSUME NEW n \in Nodes, BroadcastCall(n) PROVE CallsOK'
  BY <1>0, <1>2 DEF BroadcastCall, RemoteCallFails, CallsOK
<1>3. ASSUME NEW n \in Nodes, BroadcastResult(n) PROVE CallsOK'
  BY <1>0, <1>3 DEF BroadcastResult, CallsOK
<1>4. CASE CheckNodeLiveness
  BY <1>0, <1>4 DEF CheckNodeLiveness, CallsOK
<1>5. CASE BroadcastMessage
  BY <1>0, <1>5 DEF BroadcastMessage, CallsOK
<1>6. CASE BroadcastReturns
  BY <1>0, <1>6 DEF BroadcastReturns, CallsOK
<1>7. ASSUME UNCHANGED clusterVars PROVE CallsOK'
  BY <1>0, <1>7 DEF CallsOK
<1>8. QED
  BY <1>1, <1>2, <1>3, <1>4, <1>5, <1>6, <1>7
     DEF Next, AddProcess, RemoveProcess, SendEmpty, SendPanics, SendRotates, SendFirst,
         SendWeighted, vars

\* SendRotates moves the round on by one, and a change of the list starts a new one.
LEMMA GroupStep == ClusterInv /\ [Next]_vars => RotationOK' /\ IndexOK'
<1> SUFFICES ASSUME ClusterInv, [Next]_vars
             PROVE  RotationOK' /\ IndexOK'
  OBVIOUS
<1> USE DEF clusterVars, groupVars
<1>0. TypeOK /\ RotationOK /\ IndexOK /\ TypeOK'
  BY TypeStep DEF ClusterInv
<1>1. ASSUME NEW weight \in Weights, AddProcess(weight) PROVE RotationOK' /\ IndexOK'
  <2>1. RotationOK'
    BY <1>0, <1>1, NewRound DEF AddProcess
  <2>2. IndexOK'
    BY <1>0, <1>1 DEF AddProcess, IndexOK, TypeOK
  <2>3. QED
    BY <2>1, <2>2
<1>2. ASSUME NEW p \in 1..MaxLen, RemoveProcess(p) PROVE RotationOK' /\ IndexOK'
  BY <1>0, <1>2, NewRound DEF RemoveProcess, IndexOK
<1>3. CASE SendRotates
  <2>1. RotationOK'
    BY <1>0, <1>3, RotationStep
  <2>2. IndexOK'
    <3>1. Len(list) \in Nat /\ nextIndex \in Nat /\ nextIndex < Len(list) /\ list' = list
      BY <1>0, <1>3, ClusterAssumption DEF SendRotates, TypeOK
    <3>2. nextIndex' = IF nextIndex + 1 = Len(list) THEN 0 ELSE nextIndex + 1
      BY <3>1, <1>3, AdvancedWraps DEF SendRotates, Advanced
    <3>3. QED
      BY <3>1, <3>2 DEF IndexOK
  <2>3. QED
    BY <2>1, <2>2
<1>4. ASSUME UNCHANGED <<list, nextIndex, turns, shrunk>> PROVE RotationOK' /\ IndexOK'
  BY <1>0, <1>4, GroupSame
<1>5. QED
  BY <1>1, <1>2, <1>3, <1>4
     DEF Next, AddNode, BroadcastCall, BroadcastResult, CheckNodeLiveness, BroadcastMessage,
         BroadcastReturns, SendEmpty, SendPanics, SendFirst, SendWeighted, vars

\* ClusterInv is inductive.
LEMMA InvHolds == Spec => []ClusterInv
<1>1. ClusterInv /\ [Next]_vars => ClusterInv'
  BY TypeStep, CallsStep, GroupStep DEF ClusterInv
<1>2. QED
  BY <1>1, InitInv, PTL DEF Spec

------------------------------------------------------------------------------
(* The theorems. *)

\* The fields have their types: the liveness check forgets a node before its
\* age exceeds the timeout, and nextIndex does not grow with the sends.
THEOREM TypeCorrect == Spec => []TypeOK
<1>1. ClusterInv => TypeOK
  BY DEF ClusterInv
<1>2. QED
  BY <1>1, InvHolds, PTL

\* BroadcastMessage writes an error only for a node dropped during the call.
THEOREM ResultsOfDropped == Spec => []ResultOnlyForDropped
<1>1. ClusterInv => ResultOnlyForDropped
  BY DEF ClusterInv, CallsOK, ResultOnlyForDropped
<1>2. QED
  BY <1>1, InvHolds, PTL

\* The rotation serves everybody once before anybody again, in lists of any length.
THEOREM RotationIsFair == Spec => []FairRotation
<1>1. ClusterInv => FairRotation
  <2> SUFFICES ASSUME ClusterInv, NEW p \in 1..Len(list)
               PROVE  turns[p] <= 1
    BY DEF FairRotation
  <2>1. p \in 1..MaxLen
    BY ClusterAssumption DEF ClusterInv, TypeOK
  <2>2. PICK k \in 0..MaxLen : Round(k)
    BY DEF ClusterInv, RotationOK
  <2>3. QED
    BY <2>1, <2>2 DEF Round
<1>2. QED
  BY <1>1, InvHolds, PTL

\* Only a removal leaves the index that makes Send panic.
THEOREM PanicsAfterRemove == Spec => []PanicOnlyAfterRemove
<1>1. ClusterInv => PanicOnlyAfterRemove
  <2> SUFFICES ASSUME ClusterInv, list # <<>>, nextIndex >= Len(list)
               PROVE  shrunk
    BY DEF PanicOnlyAfterRemove
  <2>1. Len(list) \in Nat \ {0} /\ nextIndex \in Nat /\ shrunk \in BOOLEAN
    BY ClusterAssumption DEF ClusterInv, TypeOK
  <2>2. QED
    BY <2>1 DEF ClusterInv, IndexOK
<1>2. QED
  BY <1>1, InvHolds, PTL

\* The weighted choice finds a process whatever the weights, negative ones
\* included: the code's zero target, an error without a cause, is never used.
THEOREM WeightedFindsProcess ==
    Spec => [](list # <<>> => \A selection \in Nat :
                 selection < TotalWeight => WeightedPick(selection) \in 1..Len(list))
<1>1. ClusterInv => (list # <<>> => \A selection \in Nat :
          selection < TotalWeight => WeightedPick(selection) \in 1..Len(list))
  <2> SUFFICES ASSUME ClusterInv, list # <<>>, NEW selection \in Nat,
                      selection < TotalWeight
               PROVE  WeightedPick(selection) \in 1..Len(list)
    OBVIOUS
  <2>1. list \in Seq(Int)
    BY ListTyped DEF ClusterInv
  <2>2. QED
    BY <2>1, PickFacts
<1>2. QED
  BY <1>1, InvHolds, PTL

\* ... and without negative weights every process gets exactly its weight of the
\* selections rand.Intn chooses from, whatever the list.
THEOREM WeightsAreShares == Spec => []WeightedShare
<1>1. ClusterInv => WeightedShare
  <2> SUFFICES ASSUME ClusterInv PROVE WeightedShare
    OBVIOUS
  <2> DEFINE len == Len(list)
             T == Totals(list)
             total == TotalWeight
             Share(p) == {s \in 0..total - 1 : WeightedPick(s) = p}
  <2>1. list \in Seq(Int) /\ len \in Nat
    <3>1. list \in Seq(Int)
      BY ListTyped DEF ClusterInv
    <3>2. QED
      BY <3>1
  <2>2. /\ \A p \in 0..len : T[p] \in Int
        /\ \A p \in 1..len : T[p] = T[p - 1] + list[p]
        /\ T[0] = 0 /\ total = T[len] /\ total \in Int
    <3>1. T \in [0..len -> Int] /\ len \in 0..len
      BY <2>1, TotalsFacts
    <3>2. QED
      BY <3>1, <2>1, TotalsFacts DEF TotalWeight
  <2>3. ASSUME NEW s \in 0..total - 1
        PROVE  /\ WeightedPick(s) \in 1..len /\ s < T[WeightedPick(s)]
               /\ \A p \in 1..len : p < WeightedPick(s) => ~(s < T[p])
    <3>1. s \in Nat /\ s < TotalWeight
      BY <2>2
    <3>2. QED
      BY <3>1, <2>1, PickFacts
  <2> HIDE DEF T, total, len
  <2>4. ASSUME NEW p \in 1..len, \A q \in 1..len : list[q] >= 0
        PROVE  Cardinality(Share(p)) = list[p]
    <3>1. \A q, r \in 0..len : q <= r => T[q] <= T[r]
      BY <2>1, <2>4, TotalsGrow DEF T, len
    <3>2. /\ p \in 0..len /\ p - 1 \in 0..len /\ 0 \in 0..len /\ len \in 0..len
          /\ 0 <= p - 1 /\ p <= len
      BY <2>1
    <3>3. /\ T[p - 1] \in Int /\ T[p] = T[p - 1] + list[p]
          /\ 0 <= T[p - 1] /\ T[p] <= total /\ T[p] \in Int
      BY <3>1, <3>2, <2>2
    <3>4. ASSUME NEW s \in Share(p) PROVE s \in T[p - 1]..(T[p] - 1)
      <4>1. s \in 0..total - 1 /\ WeightedPick(s) = p
        OBVIOUS
      <4>2. s \in Int /\ 0 <= s /\ s < T[p]
        BY <4>1, <2>3, <2>2
      <4>3. T[p - 1] <= s
        <5>1. CASE p = 1
          BY <5>1, <4>2, <2>2
        <5>2. CASE p # 1
          <6>1. p - 1 \in 1..len /\ p - 1 < p
            BY <5>2, <3>2
          <6>2. ~(s < T[p - 1])
            BY <6>1, <4>1, <2>3
          <6>3. QED
            BY <6>2, <4>2, <3>3
        <5>3. QED
          BY <5>1, <5>2
      <4>4. QED
        BY <4>2, <4>3, <3>3
    <3>5. ASSUME NEW s \in T[p - 1]..(T[p] - 1) PROVE s \in Share(p)
      <4>1. s \in 0..total - 1 /\ T[p - 1] <= s /\ s < T[p]
        BY <3>3, <2>2
      <4> DEFINE k == WeightedPick(s)
      <4>2. k \in 1..len /\ s < T[k] /\ \A q \in 1..len : q < k => ~(s < T[q])
        BY <4>1, <2>3
      <4> HIDE DEF k
      <4>3. ~(p < k)
        BY <4>1, <4>2
      <4>4. ~(k < p)
        <5> SUFFICES ASSUME k < p PROVE FALSE
          OBVIOUS
        <5>1. k \in 0..len /\ k <= p - 1
          BY <4>2, <2>1
        <5>2. T[k] <= T[p - 1] /\ T[k] \in Int
          BY <5>1, <3>1, <3>2, <2>2
        <5>3. QED
          BY <5>2, <4>1, <4>2, <3>3
      <4>5. k = p
        BY <4>2, <4>3, <4>4, <2>1
      <4>6. QED
        BY <4>1, <4>5 DEF k
    <3>6. Share(p) = T[p - 1]..(T[p] - 1)
      BY <3>4, <3>5
    <3> HIDE DEF Share
    <3>7. list[p] \in Int /\ list[p] >= 0
      BY <2>1, <2>4 DEF len
    <3>8. T[p] - 1 \in Int
      BY <3>3
    <3>9. Cardinality(T[p - 1]..(T[p] - 1))
            = IF T[p - 1] > T[p] - 1 THEN 0 ELSE (T[p] - 1) - T[p - 1] + 1
      BY <3>3, <3>8, FS_Interval
    <3>10. QED
      BY <3>3, <3>6, <3>7, <3>9
  <2>5. \A s \in 0..total - 1 : WeightedPick(s) # 0
    BY <2>3, <2>1
  <2>6. QED
    BY <2>4, <2>5 DEF WeightedShare, Share, total, len
<1>2. QED
  BY <1>1, InvHolds, PTL
===============================================================================
