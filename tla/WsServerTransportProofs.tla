----------------------- MODULE WsServerTransportProofs -----------------------
(***************************************************************************)
(* The shutdown protocol of WsServerTransport, for any number of callers,  *)
(* messages and any buffer size.                                           *)
(***************************************************************************)
EXTENDS WsServerTransport, SequenceTheorems, TLAPS

LEMMA ProcsDistinct ==
    /\ Pump \in Procs /\ Reader \in Procs /\ Pump # Reader
    /\ \A c \in Callers : c \in Procs /\ c # Pump /\ c # Reader
  BY ProcsAssumption DEF Procs, Pump, Reader

Held == {<<>>} \cup {<<m>> : m \in Messages}

LEMMA HeldSeq == \A s \in Held, q \in Seq(Messages) :
    q \o s \in Seq(Messages) /\ Len(q \o s) <= Len(q) + 1
  <1> TAKE s \in Held, q \in Seq(Messages)
  <1>1. s \in Seq(Messages) /\ Len(s) <= 1
    <2>1. CASE s = <<>>
      BY <2>1
    <2>2. ASSUME NEW m \in Messages, s = <<m>> PROVE s \in Seq(Messages) /\ Len(s) <= 1
      BY <2>2
    <2>3. QED
      BY <2>1, <2>2 DEF Held
  <1>2. q \o s \in Seq(Messages) /\ Len(q \o s) = Len(q) + Len(s)
    BY <1>1, ConcatProperties
  <1>3. Len(q) \in Nat /\ Len(s) \in Nat
    BY <1>1
  <1>4. QED
    BY <1>1, <1>2, <1>3

LEMMA TypeNext == TypeOK /\ [Next]_vars => TypeOK'
  <1> SUFFICES ASSUME TypeOK, [Next]_vars PROVE TypeOK'
    OBVIOUS
  <1> USE ProcsDistinct, CapAssumption DEF TypeOK, Labels, Goto, Hold, Held
  <1>1. CASE PumpSelect
    <2>1. CASE UNCHANGED <<sendCh, held>>
      BY <1>1, <2>1 DEF PumpSelect
    <2>2. CASE sendCh # <<>> /\ held' = [held EXCEPT ![Pump] = <<Head(sendCh)>>]
               /\ sendCh' = Tail(sendCh)
      <3>1. /\ Head(sendCh) \in Messages /\ Tail(sendCh) \in Seq(Messages)
            /\ Len(Tail(sendCh)) <= Cap
        BY <2>2
      <3>2. held' \in [Procs -> Held]
        BY <2>2, <3>1
      <3>3. QED
        BY <1>1, <2>2, <3>1, <3>2 DEF PumpSelect
    <2>3. QED
      BY <1>1, <2>1, <2>2 DEF PumpSelect
  <1>2. CASE PumpLock
    BY <1>2 DEF PumpLock
  <1>3. CASE PumpWrite
    <2>1. wire' \in Seq(Messages)
      <3>1. held[Pump] \in Held
        BY DEF Held
      <3>2. wire \o held[Pump] \in Seq(Messages)
        BY <3>1, HeldSeq
      <3>3. QED
        BY <1>3, <3>2 DEF PumpWrite
    <2>2. QED
      BY <1>3, <2>1 DEF PumpWrite
  <1>4. CASE ReadError
    BY <1>4 DEF ReadError
  <1>5. ASSUME NEW p \in Procs, CloseStep(p) PROVE TypeOK'
    BY <1>5 DEF CloseStep, Close, WaitForPump, CloseConn, AfterClose
  <1>6. ASSUME NEW c \in Callers, Enqueue(c) PROVE TypeOK'
    <2>1. /\ sendCh' \in Seq(Messages) /\ Len(sendCh') <= Cap
          /\ accepted' \in Seq(Messages)
      <3>1. held[c] \in Held
        BY DEF Held
      <3>2. /\ sendCh \o held[c] \in Seq(Messages) /\ accepted \o held[c] \in Seq(Messages)
            /\ Len(sendCh \o held[c]) <= Len(sendCh) + 1
        BY <3>1, HeldSeq
      <3>3. Len(sendCh) \in Nat /\ Len(sendCh \o held[c]) \in Nat
        BY <3>2
      <3>4. CASE Len(sendCh) < Cap
        <4>1. sendCh' = sendCh \o held[c] /\ accepted' = accepted \o held[c]
          BY <1>6, <3>4 DEF Enqueue
        <4>2. Len(sendCh \o held[c]) <= Cap
          BY <3>2, <3>3, <3>4
        <4>3. QED
          BY <3>2, <4>1, <4>2
      <3>5. CASE ~(Len(sendCh) < Cap)
        BY <1>6, <3>5 DEF Enqueue
      <3>6. QED
        BY <3>4, <3>5
    <2>2. QED
      BY <1>6, <2>1 DEF Enqueue
  <1>7. ASSUME NEW c \in Callers, CallClose(c) PROVE TypeOK'
    BY <1>7 DEF CallClose
  <1>8. ASSUME NEW c \in Callers, NEW m \in unsent, Write(c, m) PROVE TypeOK'
    BY <1>8 DEF Write
  <1>9. CASE UNCHANGED vars
    BY <1>9 DEF vars
  <1>10. QED
    BY <1>1, <1>2, <1>3, <1>4, <1>5, <1>6, <1>7, <1>8, <1>9 DEF Next, PumpStep

LEMMA TypeInit == Init => TypeOK
  <1> SUFFICES ASSUME Init PROVE TypeOK
    OBVIOUS
  <1>1. <<>> \in Seq(Messages) /\ Len(<<>>) <= Cap
    BY CapAssumption
  <1>2. pc \in [Procs -> Labels]
    BY DEF Init, Labels
  <1>3. held \in [Procs -> {<<>>} \cup {<<m>> : m \in Messages}]
    BY Zenon DEF Init
  <1>4. QED
    BY <1>1, <1>2, <1>3 DEF Init, TypeOK

(* The channel never holds more than Cap messages and every goroutine is at  *)
(* a step of its own protocol.                                               *)
THEOREM TypeCorrect == Spec => []TypeOK
  BY TypeInit, TypeNext, PTL DEF Spec

------------------------------------------------------------------------------
(* Only a goroutine that set t.closed is past the test, and the pump has     *)
(* returned before anybody reaches conn.Close.                               *)
CloseInv ==
    /\ SingleCloser
    /\ ConnClosedAfterPump
    /\ \A p \in Procs : Closing(p) => closed
    /\ connClosed => closed

LEMMA CloseInvNext == TypeOK /\ CloseInv /\ [Next]_vars => CloseInv'
  <1> SUFFICES ASSUME TypeOK, CloseInv, [Next]_vars PROVE CloseInv'
    OBVIOUS
  <1> USE ProcsDistinct
      DEF CloseInv, SingleCloser, ConnClosedAfterPump, Closing, TypeOK, Goto
  <1>1. CASE PumpStep
    BY <1>1 DEF PumpStep, PumpSelect, PumpLock, PumpWrite
  <1>2. CASE ReadError
    BY <1>2 DEF ReadError
  <1>3. ASSUME NEW p \in Procs, Close(p) PROVE CloseInv'
    BY <1>3 DEF Close, AfterClose
  <1>4. ASSUME NEW p \in Procs, WaitForPump(p) PROVE CloseInv'
    BY <1>4 DEF WaitForPump
  <1>5. ASSUME NEW p \in Procs, CloseConn(p) PROVE CloseInv'
    BY <1>5 DEF CloseConn, AfterClose
  <1>6. ASSUME NEW c \in Callers,
               Enqueue(c) \/ CallClose(c) \/ \E m \in unsent : Write(c, m)
        PROVE  CloseInv'
    <2>1. closed' = closed /\ connClosed' = connClosed
      BY <1>6 DEF Enqueue, CallClose, Write
    <2>2. \A p \in Procs : p # c => pc'[p] = pc[p]
      BY <1>6 DEF Enqueue, CallClose, Write
    <2>3. pc[c] \in {"idle", "enqueue"} /\ pc'[c] \in {"idle", "enqueue", "close"}
      BY <1>6 DEF Enqueue, CallClose, Write
    <2>4. QED
      BY <2>1, <2>2, <2>3
  <1>7. CASE UNCHANGED vars
    BY <1>7 DEF vars
  <1>8. QED
    BY <1>1, <1>2, <1>3, <1>4, <1>5, <1>6, <1>7 DEF Next, CloseStep

LEMMA CloseInvHolds == Spec => []CloseInv
  <1>1. Init => CloseInv
    BY ProcsDistinct DEF Init, CloseInv, SingleCloser, ConnClosedAfterPump, Closing
  <1>2. QED
    BY <1>1, TypeInit, TypeNext, CloseInvNext, PTL DEF Spec

(* However many goroutines close the transport at once, one of them closes   *)
(* closeCh, sends the close frame and closes the connection.                 *)
THEOREM OneCloser == Spec => []SingleCloser
  <1>1. CloseInv => SingleCloser
    BY DEF CloseInv
  <1>2. QED
    BY <1>1, CloseInvHolds, PTL

(* The connection is never closed under a running pump. *)
THEOREM PumpBeforeConn == Spec => []ConnClosedAfterPump
  <1>1. CloseInv => ConnClosedAfterPump
    BY DEF CloseInv
  <1>2. QED
    BY <1>1, CloseInvHolds, PTL

------------------------------------------------------------------------------
(* The transport is an ordered pipe. *)

(* While the pump is at work on an open transport, what was accepted is on   *)
(* the wire, in the pump's hand or in the channel, in that order.            *)
PumpAtWork == pc[Pump] \in {"select", "lock", "write"}

PipeInv ==
    /\ PumpAtWork /\ ~closed => accepted = wire \o (held[Pump] \o sendCh)
    /\ pc[Pump] = "select" => held[Pump] = <<>>
    /\ pc[Pump] \in {"lock", "write"} => \E m \in Messages : held[Pump] = <<m>>
    /\ pc[Pump] = "write" => ~closed
    /\ \A c \in Callers : pc[c] = "enqueue" => \E m \in Messages : held[c] = <<m>>

LEMMA SeqAssociative ==
    \A s, t, u \in Seq(Messages) : (s \o t) \o u = s \o (t \o u)
  BY ConcatAssociative

LEMMA SeqAppendLast ==
    \A w, h, s, x \in Seq(Messages) : (w \o (h \o s)) \o x = w \o (h \o (s \o x))
  <1> TAKE w, h, s, x \in Seq(Messages)
  <1>1. h \o s \in Seq(Messages)
    BY ConcatProperties
  <1>2. (w \o (h \o s)) \o x = w \o ((h \o s) \o x)
    BY <1>1, SeqAssociative, ZenonT(60)
  <1>3. (h \o s) \o x = h \o (s \o x)
    BY SeqAssociative
  <1>4. QED
    BY <1>2, <1>3

LEMMA SeqFacts ==
    /\ \A s \in Seq(Messages) : s \o <<>> = s /\ <<>> \o s = s
    /\ \A s \in Seq(Messages) : s # <<>> => s = <<Head(s)>> \o Tail(s)
    /\ \A s \in Seq(Messages), m \in Messages : Append(s, m) = s \o <<m>>
    /\ \A m \in Messages : <<m>> \in Seq(Messages)
    /\ Held \subseteq Seq(Messages)
  <1>1. \A s \in Seq(Messages) : s \o <<>> = s /\ <<>> \o s = s
    BY ConcatEmptySeq
  <1>2. \A s \in Seq(Messages) : s # <<>> => s = <<Head(s)>> \o Tail(s)
    OBVIOUS
  <1>3. \A s \in Seq(Messages), m \in Messages : Append(s, m) = s \o <<m>>
    OBVIOUS
  <1>4. \A m \in Messages : <<m>> \in Seq(Messages)
    OBVIOUS
  <1>5. Held \subseteq Seq(Messages)
    <2>1. <<>> \in Seq(Messages)
      OBVIOUS
    <2>2. QED
      BY <1>4, <2>1, Zenon DEF Held
  <1>6. QED
    BY <1>1, <1>2, <1>3, <1>4, <1>5

LEMMA PipeInvNext == TypeOK /\ PipeInv /\ [Next]_vars => PipeInv'
  <1> SUFFICES ASSUME TypeOK, PipeInv, [Next]_vars PROVE PipeInv'
    OBVIOUS
  <1> USE ProcsDistinct DEF PumpAtWork, Goto, Hold
  <1>0. /\ sendCh \in Seq(Messages) /\ wire \in Seq(Messages) /\ accepted \in Seq(Messages)
        /\ pc \in [Procs -> Labels] /\ DOMAIN held = Procs
        /\ held = [p \in Procs |-> held[p]]
    BY DEF TypeOK
  <1>1. CASE PumpSelect
    <2>1. CASE closed /\ pc' = [pc EXCEPT ![Pump] = "done"] /\ UNCHANGED <<sendCh, held>>
      <3>1. pc'[Pump] = "done" /\ \A p \in Procs : p # Pump => pc'[p] = pc[p]
        BY <1>0, <2>1
      <3>2. QED
        BY <2>1, <3>1 DEF PipeInv
    <2>2. CASE sendCh # <<>> /\ held' = [held EXCEPT ![Pump] = <<Head(sendCh)>>]
               /\ sendCh' = Tail(sendCh) /\ pc' = [pc EXCEPT ![Pump] = "lock"]
      <3>1. sendCh = <<Head(sendCh)>> \o Tail(sendCh) /\ Head(sendCh) \in Messages
        BY <1>0, <2>2, SeqFacts
      <3>2. held'[Pump] = <<Head(sendCh)>> /\ \A p \in Procs : p # Pump => held'[p] = held[p]
        BY <1>0, <2>2
      <3>3. ~closed => accepted = wire \o sendCh
        BY <1>0, <1>1, SeqFacts DEF PumpSelect, PipeInv
      <3>4. UNCHANGED <<closed, wire, accepted>>
        BY <1>1 DEF PumpSelect
      <3>5. QED
        BY <1>0, <2>2, <3>1, <3>2, <3>3, <3>4 DEF PipeInv
    <2>3. QED
      BY <1>1, <2>1, <2>2 DEF PumpSelect
  <1>2. CASE PumpLock
    BY <1>0, <1>2 DEF PumpLock, PipeInv
  <1>3. CASE PumpWrite
    <2>1. PICK m \in Messages : held[Pump] = <<m>>
      BY <1>3 DEF PumpWrite, PipeInv
    <2>2. held'[Pump] = <<>> /\ \A p \in Procs : p # Pump => held'[p] = held[p]
      BY <1>0, <1>3 DEF PumpWrite
    <2>3. UNCHANGED <<sendCh, closed, accepted>>
      BY <1>3 DEF PumpWrite
    <2>4. CASE wire' = wire \o held[Pump] /\ pc' = [pc EXCEPT ![Pump] = "select"]
      <3>1. ~closed => accepted = wire' \o sendCh
        <4>1. <<m>> \in Seq(Messages)
          BY SeqFacts
        <4>2. (wire \o <<m>>) \o sendCh = wire \o (<<m>> \o sendCh)
          BY <1>0, <4>1, SeqAssociative, ZenonT(60)
        <4>3. ~closed => accepted = wire \o (<<m>> \o sendCh)
          BY <1>3, <2>1 DEF PumpWrite, PipeInv
        <4>4. QED
          BY <2>1, <2>4, <4>2, <4>3
      <3>2. held'[Pump] \o sendCh = sendCh
        BY <1>0, <2>2, SeqFacts
      <3>3. pc'[Pump] = "select" /\ \A p \in Procs : p # Pump => pc'[p] = pc[p]
        BY <1>0, <2>4
      <3>4. QED
        BY <2>2, <2>3, <3>1, <3>2, <3>3 DEF PipeInv
    <2>5. CASE pc' = [pc EXCEPT ![Pump] = "close"]
      BY <1>0, <2>2, <2>3, <2>5 DEF PipeInv
    <2>6. QED
      BY <1>3, <2>4, <2>5 DEF PumpWrite
  <1>4. CASE ReadError
    BY <1>0, <1>4 DEF ReadError, PipeInv
  <1>5. ASSUME NEW p \in Procs, CloseStep(p) PROVE PipeInv'
    <2>1. UNCHANGED <<sendCh, held, wire, accepted>>
      BY <1>5 DEF CloseStep, Close, WaitForPump, CloseConn
    <2>2. /\ pc[p] \in {"close", "wait", "conn"} /\ pc'[p] \in {"wait", "conn", "done", "idle"}
          /\ \A q \in Procs : q # p => pc'[q] = pc[q]
      BY <1>0, <1>5 DEF CloseStep, Close, WaitForPump, CloseConn, AfterClose
    <2>3. closed => closed'
      BY <1>5 DEF CloseStep, Close, WaitForPump, CloseConn
    <2>4. pc[Pump] = "write" => closed' = closed
      BY <1>5 DEF CloseStep, Close, WaitForPump, CloseConn, MuFree
    <2>5. p = Pump => PipeInv'
      BY <2>1, <2>2 DEF PipeInv
    <2>6. p # Pump => PipeInv'
      <3>1. ASSUME p # Pump PROVE pc'[Pump] = pc[Pump]
        BY <2>2, <3>1
      <3>2. ASSUME p # Pump
            PROVE  /\ PumpAtWork' /\ ~closed' => accepted' = wire' \o (held'[Pump] \o sendCh')
                   /\ pc'[Pump] = "write" => ~closed'
        <4>1. accepted = wire \o (held[Pump] \o sendCh)
                => accepted' = wire' \o (held'[Pump] \o sendCh')
          BY <2>1
        <4>2. PumpAtWork' => PumpAtWork
          BY <3>1, <3>2
        <4>3. PumpAtWork /\ ~closed => accepted = wire \o (held[Pump] \o sendCh)
          BY Zenon DEF PipeInv
        <4>4. pc'[Pump] = "write" => ~closed'
          BY <2>4, <3>1, <3>2 DEF PipeInv
        <4>5. QED
          BY <2>3, <4>1, <4>2, <4>3, <4>4
      <3>3. ASSUME NEW c \in Callers, pc'[c] = "enqueue"
            PROVE  \E m \in Messages : held'[c] = <<m>>
        BY <2>1, <2>2, <3>3 DEF PipeInv
      <3>4. QED
        BY <2>1, <3>1, <3>2, <3>3 DEF PipeInv
    <2>7. QED
      BY <2>5, <2>6
  <1>6. ASSUME NEW c \in Callers, Enqueue(c) PROVE PipeInv'
    <2>1. PICK m \in Messages : held[c] = <<m>>
      BY <1>6 DEF Enqueue, PipeInv
    <2>2. held'[c] = <<>> /\ \A p \in Procs : p # c => held'[p] = held[p] /\ pc'[p] = pc[p]
      BY <1>0, <1>6 DEF Enqueue
    <2>3. UNCHANGED <<closed, wire>> /\ pc'[c] # "enqueue"
      BY <1>0, <1>6 DEF Enqueue
    <2>4. PumpAtWork /\ ~closed => accepted' = wire \o (held[Pump] \o sendCh')
      <3>1. CASE UNCHANGED <<sendCh, accepted>>
        BY <3>1 DEF PipeInv
      <3>2. CASE sendCh' = sendCh \o held[c] /\ accepted' = accepted \o held[c]
        <4>1. held[Pump] \in Seq(Messages) /\ held[c] \in Seq(Messages)
          BY <2>1, SeqFacts DEF TypeOK, Held
        <4>2. (wire \o (held[Pump] \o sendCh)) \o held[c]
                = wire \o (held[Pump] \o (sendCh \o held[c]))
          <5>1. \A h, x \in Seq(Messages) :
                  (wire \o (h \o sendCh)) \o x = wire \o (h \o (sendCh \o x))
            <6>1. wire \in Seq(Messages) /\ sendCh \in Seq(Messages)
              BY <1>0
            <6>2. QED
              BY <6>1, SeqAppendLast, ZenonT(60)
          <5>2. QED
            BY <4>1, <5>1, Zenon
        <4>3. QED
          BY <3>2, <4>2 DEF PipeInv
      <3>3. QED
        BY <1>6, <3>1, <3>2 DEF Enqueue
    <2>5. QED
      BY <2>2, <2>3, <2>4 DEF PipeInv
  <1>7. ASSUME NEW c \in Callers, CallClose(c) PROVE PipeInv'
    BY <1>0, <1>7 DEF CallClose, PipeInv
  <1>8. ASSUME NEW c \in Callers, NEW m \in unsent, Write(c, m) PROVE PipeInv'
    <2>1. m \in Messages
      BY DEF TypeOK
    <2>2. QED
      BY <1>0, <1>8, <2>1 DEF Write, PipeInv
  <1>9. CASE UNCHANGED vars
    BY <1>9 DEF vars, PipeInv
  <1>10. QED
    BY <1>1, <1>2, <1>3, <1>4, <1>5, <1>6, <1>7, <1>8, <1>9 DEF Next, PumpStep

(* Every step of the transport is a step of the pipe or leaves it alone. *)
LEMMA PipeStep == TypeOK /\ PipeInv /\ [Next]_vars => [Pipe!Next]_Pipe!vars
  <1> SUFFICES ASSUME TypeOK, PipeInv, [Next]_vars PROVE [Pipe!Next]_Pipe!vars
    OBVIOUS
  <1> USE ProcsDistinct
  <1>0. /\ sendCh \in Seq(Messages) /\ wire \in Seq(Messages) /\ accepted \in Seq(Messages)
        /\ closed \in BOOLEAN
    BY DEF TypeOK
  <1>1. CASE UNCHANGED <<accepted, wire, closed>>
    BY <1>1 DEF Pipe!vars
  <1>2. ASSUME PumpWrite, wire' = wire \o held[Pump] PROVE Pipe!Deliver
    <2>1. PICK m \in Messages : held[Pump] = <<m>>
      BY <1>2 DEF PumpWrite, PipeInv
    <2>2. accepted = wire \o (<<m>> \o sendCh) /\ ~closed
      BY <1>2, <2>1 DEF PumpWrite, PipeInv, PumpAtWork
    <2>3. <<m>> \o sendCh \in Seq(Messages) /\ Len(<<m>> \o sendCh) > 0 /\ (<<m>> \o sendCh)[1] = m
      BY <1>0, SeqFacts
    <2>4. Len(wire) < Len(accepted) /\ accepted[Len(wire) + 1] = m
      BY <1>0, <2>2, <2>3, ConcatProperties
    <2>5. wire' = Append(wire, m)
      BY <1>0, <1>2, <2>1, SeqFacts
    <2>6. QED
      BY <1>2, <2>2, <2>4, <2>5 DEF PumpWrite, Pipe!Deliver
  <1>3. ASSUME NEW p \in Procs, Close(p), ~closed PROVE Pipe!Close
    BY <1>3, Zenon DEF Close, Pipe!Close
  <1>4. ASSUME NEW c \in Callers, Enqueue(c), accepted' = accepted \o held[c]
        PROVE  \E m \in Messages : Pipe!Accept(m)
    <2>1. PICK m \in Messages : held[c] = <<m>>
      BY <1>4 DEF Enqueue, PipeInv
    <2>2. accepted' = Append(accepted, m)
      BY <1>0, <1>4, <2>1, SeqFacts
    <2>3. QED
      BY <1>4, <2>2 DEF Enqueue, Pipe!Accept
  <1>5. CASE ~UNCHANGED <<accepted, wire, closed>>
    <2>1. \/ PumpWrite /\ wire' = wire \o held[Pump]
          \/ \E p \in Procs : Close(p) /\ ~closed
          \/ \E c \in Callers : Enqueue(c) /\ accepted' = accepted \o held[c]
      BY <1>0, <1>5 DEF Next, PumpStep, PumpSelect, PumpLock, PumpWrite, ReadError, CloseStep,
           Close, WaitForPump, CloseConn, Enqueue, CallClose, Write, vars
    <2>2. QED
      BY <1>2, <1>3, <1>4, <2>1 DEF Pipe!Next
  <1>6. QED
    BY <1>1, <1>5

(* The safety part of PipeSpec: whatever callers write and close and however *)
(* the connection behaves, what goes out is what was accepted, in order,     *)
(* without gaps or repetitions, and nothing goes out once t.closed is set.   *)
THEOREM IsOrderedPipe == Spec => Pipe!Init /\ [][Pipe!Next]_Pipe!vars
  <1>1. Init => PipeInv
    BY ProcsDistinct, SeqFacts DEF Init, PipeInv, PumpAtWork
  <1>2. Init => Pipe!Init
    BY Zenon DEF Init, Pipe!Init
  <1>3. QED
    BY <1>1, <1>2, TypeInit, TypeNext, PipeInvNext, PipeStep, PTL DEF Spec
==============================================================================
