----------------------------- MODULE ClientProofs -----------------------------
(***************************************************************************)
(* Proofs about Client, for any number of callers, connects, reconnect     *)
(* attempts and messages, and for any buffer and batch size.               *)
(***************************************************************************)
EXTENDS Client, SequenceTheorems, FiniteSetTheorems, TLAPS

\* In a section under c.mu.
In == Midway \cup {"up", "send", "down", "unlock"}
Places == ThreadPlaces \cup LoopPlaces

\* A reconnect goroutine is never in a call of the application, and while it
\* is in Connect it has an attempt left.
ThreadsOK ==
    \A t \in Reconnects :
        /\ pc[t] \notin {"idle", "send", "cancel", "closing"}
        /\ pc[t] \in {"connect", "dial", "failed"} => attempts[t] < Attempts

\* A set of loops that was not started has not done anything.
LoopsOK ==
    \A k \in Sets : k > started =>
        pc[Writer(k)] = "off" /\ pc[Receiver(k)] = "off" /\ batch[k] = <<>>

\* As long as c.mu was taken from nobody halfway, one goroutine at most is
\* halfway, and what it has found of connected still holds.
MidwayOK ==
    ~torn => \A g \in Goroutines :
        /\ pc[g] \in Midway => mu = g
        /\ pc[g] \in {"dial", "dialled"} => ~connected
        /\ pc[g] = "dialled" => ~cancelled
        /\ pc[g] \in {"cancel", "acting"} => connected

Apart(s, t) == ToSet(s) \cap ToSet(t) = {}

\* Every accepted message is on the wire, in the buffer or with one loop, once.
Flow(written, waiting, held, last) ==
    /\ IsInjective(written) /\ IsInjective(waiting) /\ Apart(written, waiting)
    /\ \A k \in Sets :
          IsInjective(held[k]) /\ Apart(held[k], written) /\ Apart(held[k], waiting)
    /\ \A j, k \in Sets : j # k => Apart(held[j], held[k])
    /\ \A m \in ToSet(written) \cup ToSet(waiting) : m <= last
    /\ \A k \in Sets : \A m \in ToSet(held[k]) : m <= last

Ordered(s) == \A m, n \in DOMAIN s : m < n => s[m] < s[n]
Before(s, t) == \A m \in ToSet(s), n \in ToSet(t) : m < n

\* With one set of loops: the wire, then the loop's messages, then the buffer.
InLine(written, waiting, held) ==
    /\ Ordered(written) /\ Ordered(waiting) /\ Before(written, waiting)
    /\ \A k \in Sets :
          Ordered(held[k]) /\ Before(written, held[k]) /\ Before(held[k], waiting)

FlowOK == Flow(wire, buffer, batch, accepted)
LineOK == started <= 1 => InLine(wire, buffer, batch)

\* The inductive invariant.
ClientInv ==
    /\ TypeOK /\ ThreadsOK /\ LoopsOK
    /\ IsFiniteSet(Inside) /\ LockAccounted
    /\ MidwayOK /\ ClosedIsFinal /\ EndsAccounted
    /\ FlowOK /\ LineOK

------------------------------------------------------------------------------
(* Facts about sequences of messages. *)

\* A message put at the end.
LEMMA AppendElements ==
    ASSUME NEW S, NEW s \in Seq(S), NEW x \in S
    PROVE  ToSet(Append(s, x)) = ToSet(s) \cup {x}
<1>1. /\ Len(s) \in Nat /\ DOMAIN s = 1..Len(s)
      /\ DOMAIN Append(s, x) = 1..(Len(s) + 1)
      /\ Append(s, x)[Len(s) + 1] = x
      /\ \A n \in 1..Len(s) : Append(s, x)[n] = s[n]
  OBVIOUS
<1>2. QED
  BY <1>1 DEF ToSet

\* It keeps the others different and in order.
LEMMA AppendFacts ==
    ASSUME NEW S \in SUBSET Nat, NEW s \in Seq(S), NEW x \in S
    PROVE  /\ ToSet(Append(s, x)) = ToSet(s) \cup {x}
           /\ IsInjective(s) /\ x \notin ToSet(s) => IsInjective(Append(s, x))
           /\ Ordered(s) /\ (\A y \in ToSet(s) : y < x) => Ordered(Append(s, x))
<1>1. /\ Len(s) \in Nat /\ DOMAIN s = 1..Len(s)
      /\ DOMAIN Append(s, x) = 1..(Len(s) + 1)
      /\ Append(s, x)[Len(s) + 1] = x
      /\ \A n \in 1..Len(s) : Append(s, x)[n] = s[n]
  OBVIOUS
<1>2. ToSet(Append(s, x)) = ToSet(s) \cup {x}
  BY AppendElements
<1>3. IsInjective(s) /\ x \notin ToSet(s) => IsInjective(Append(s, x))
  BY <1>1 DEF IsInjective, ToSet
<1>4. Ordered(s) /\ (\A y \in ToSet(s) : y < x) => Ordered(Append(s, x))
  BY <1>1 DEF Ordered, ToSet
<1>5. QED
  BY <1>2, <1>3, <1>4

\* A message taken from the front.
LEMMA TailFacts ==
    ASSUME NEW S \in SUBSET Nat, NEW s \in Seq(S), s # <<>>
    PROVE  /\ Head(s) \in S /\ Tail(s) \in Seq(S) /\ Len(Tail(s)) < Len(s)
           /\ ToSet(s) = {Head(s)} \cup ToSet(Tail(s))
           /\ IsInjective(s) => IsInjective(Tail(s)) /\ Head(s) \notin ToSet(Tail(s))
           /\ Ordered(s) => Ordered(Tail(s)) /\ \A y \in ToSet(Tail(s)) : Head(s) < y
<1>1. /\ Len(s) \in Nat \ {0} /\ DOMAIN s = 1..Len(s) /\ Head(s) = s[1]
      /\ Head(s) \in S /\ Tail(s) \in Seq(S) /\ Len(Tail(s)) < Len(s)
      /\ DOMAIN Tail(s) = 1..(Len(s) - 1)
      /\ \A n \in 1..(Len(s) - 1) : Tail(s)[n] = s[n + 1]
  OBVIOUS
<1>2. ToSet(s) = {Head(s)} \cup ToSet(Tail(s))
  <2>1. ToSet(Tail(s)) = {s[n + 1] : n \in 1..(Len(s) - 1)}
    BY <1>1 DEF ToSet
  <2>2. ASSUME NEW n \in 1..Len(s) PROVE s[n] \in {s[1]} \cup ToSet(Tail(s))
    <3>1. CASE n = 1
      BY <3>1
    <3>2. CASE n # 1
      <4>1. n - 1 \in 1..(Len(s) - 1) /\ n = (n - 1) + 1
        BY <3>2, <1>1
      <4>2. QED
        BY <4>1, <2>1
    <3>3. QED
      BY <3>1, <3>2
  <2>3. QED
    BY <2>1, <2>2, <1>1 DEF ToSet
<1>3. IsInjective(s) => IsInjective(Tail(s)) /\ Head(s) \notin ToSet(Tail(s))
  BY <1>1 DEF IsInjective, ToSet
<1>4. Ordered(s) => Ordered(Tail(s)) /\ \A y \in ToSet(Tail(s)) : Head(s) < y
  BY <1>1 DEF Ordered, ToSet
<1>5. QED
  BY <1>1, <1>2, <1>3, <1>4

\* The first n messages of a batch.
LEMMA PrefixFacts ==
    ASSUME NEW S \in SUBSET Nat, NEW s \in Seq(S), NEW n \in 0..Len(s)
    PROVE  /\ SubSeq(s, 1, n) \in Seq(S) /\ ToSet(SubSeq(s, 1, n)) \subseteq ToSet(s)
           /\ IsInjective(s) => IsInjective(SubSeq(s, 1, n))
           /\ Ordered(s) => Ordered(SubSeq(s, 1, n))
<1>1. /\ Len(s) \in Nat /\ DOMAIN s = 1..Len(s)
      /\ SubSeq(s, 1, n) \in Seq(S) /\ DOMAIN SubSeq(s, 1, n) = 1..n
      /\ \A i \in 1..n : SubSeq(s, 1, n)[i] = s[i]
  OBVIOUS
<1>2. ToSet(SubSeq(s, 1, n)) \subseteq ToSet(s)
  BY <1>1 DEF ToSet
<1>3. IsInjective(s) => IsInjective(SubSeq(s, 1, n))
  BY <1>1 DEF IsInjective
<1>4. Ordered(s) => Ordered(SubSeq(s, 1, n))
  BY <1>1 DEF Ordered
<1>5. QED
  BY <1>1, <1>2, <1>3, <1>4

\* A batch written after what is on the wire.
LEMMA ConcatFacts ==
    ASSUME NEW S \in SUBSET Nat, NEW s \in Seq(S), NEW t \in Seq(S)
    PROVE  /\ s \o t \in Seq(S) /\ ToSet(s \o t) = ToSet(s) \cup ToSet(t)
           /\ IsInjective(s) /\ IsInjective(t) /\ Apart(t, s) => IsInjective(s \o t)
           /\ Ordered(s) /\ Ordered(t) /\ Before(s, t) => Ordered(s \o t)
<1> DEFINE c == s \o t
<1>1. /\ Len(s) \in Nat /\ Len(t) \in Nat /\ DOMAIN s = 1..Len(s) /\ DOMAIN t = 1..Len(t)
      /\ c \in Seq(S) /\ DOMAIN c = 1..(Len(s) + Len(t))
      /\ \A n \in 1..Len(s) : c[n] = s[n]
      /\ \A n \in 1..(Len(s) + Len(t)) : n > Len(s) => c[n] = t[n - Len(s)]
      /\ \A n \in 1..Len(t) : c[Len(s) + n] = t[n]
  OBVIOUS
<1> HIDE DEF c
<1>2. \A n \in DOMAIN c : \/ n \in DOMAIN s /\ c[n] = s[n] /\ c[n] \in ToSet(s)
                          \/ /\ n > Len(s) /\ n - Len(s) \in DOMAIN t
                             /\ c[n] = t[n - Len(s)] /\ c[n] \in ToSet(t)
  BY <1>1 DEF ToSet
<1>3. ToSet(c) = ToSet(s) \cup ToSet(t)
  <2>1. ToSet(c) \subseteq ToSet(s) \cup ToSet(t)
    BY <1>2 DEF ToSet
  <2>2. ToSet(s) \subseteq ToSet(c)
    BY <1>1 DEF ToSet
  <2>3. ASSUME NEW n \in DOMAIN t PROVE t[n] \in ToSet(c)
    <3>1. Len(s) + n \in DOMAIN c /\ c[Len(s) + n] = t[n]
      BY <1>1
    <3>2. QED
      BY <3>1 DEF ToSet
  <2>4. QED
    BY <2>1, <2>2, <2>3 DEF ToSet
<1>4. ASSUME IsInjective(s), IsInjective(t), Apart(t, s) PROVE IsInjective(c)
  <2> SUFFICES ASSUME NEW m \in DOMAIN c, NEW n \in DOMAIN c, c[m] = c[n] PROVE m = n
    BY DEF IsInjective
  <2>1. CASE m \in DOMAIN s /\ n \in DOMAIN s
    BY <1>1, <1>4, <2>1 DEF IsInjective
  <2>2. CASE m \notin DOMAIN s /\ n \notin DOMAIN s
    <3>1. /\ m - Len(s) \in DOMAIN t /\ n - Len(s) \in DOMAIN t
          /\ t[m - Len(s)] = t[n - Len(s)]
      BY <1>2, <2>2
    <3>2. m - Len(s) = n - Len(s)
      BY <1>4, <3>1 DEF IsInjective
    <3>3. QED
      BY <1>1, <3>2
  <2>3. CASE m \in DOMAIN s /\ n \notin DOMAIN s
    <3>1. c[m] \in ToSet(s) /\ c[n] \in ToSet(t)
      BY <1>1, <1>2, <2>3
    <3>2. QED
      BY <1>4, <3>1 DEF Apart
  <2>4. CASE m \notin DOMAIN s /\ n \in DOMAIN s
    <3>1. c[n] \in ToSet(s) /\ c[m] \in ToSet(t)
      BY <1>1, <1>2, <2>4
    <3>2. QED
      BY <1>4, <3>1 DEF Apart
  <2>5. QED
    BY <2>1, <2>2, <2>3, <2>4
<1>5. ASSUME Ordered(s), Ordered(t), Before(s, t) PROVE Ordered(c)
  <2> SUFFICES ASSUME NEW m \in DOMAIN c, NEW n \in DOMAIN c, m < n PROVE c[m] < c[n]
    BY DEF Ordered
  <2>1. CASE m \in DOMAIN s /\ n \in DOMAIN s
    BY <1>1, <1>5, <2>1 DEF Ordered
  <2>2. CASE m \notin DOMAIN s /\ n \notin DOMAIN s
    <3>1. /\ m - Len(s) \in DOMAIN t /\ n - Len(s) \in DOMAIN t
          /\ c[m] = t[m - Len(s)] /\ c[n] = t[n - Len(s)]
      BY <1>2, <2>2
    <3>2. m - Len(s) < n - Len(s)
      BY <1>1
    <3>3. QED
      BY <1>5, <3>1, <3>2 DEF Ordered
  <2>3. CASE m \in DOMAIN s /\ n \notin DOMAIN s
    <3>1. c[m] \in ToSet(s) /\ c[n] \in ToSet(t)
      BY <1>1, <1>2, <2>3
    <3>2. QED
      BY <1>5, <3>1 DEF Before
  <2>4. CASE m \notin DOMAIN s /\ n \in DOMAIN s
    BY <1>1, <2>4
  <2>5. QED
    BY <2>1, <2>2, <2>3, <2>4
<1>6. QED
  BY <1>1, <1>3, <1>4, <1>5 DEF c

\* A batch without its message at place i.
LEMMA RemoveFacts ==
    ASSUME NEW S \in SUBSET Nat, NEW s \in Seq(S), NEW i \in DOMAIN s
    PROVE  /\ RemoveAt(s, i) \in Seq(S) /\ ToSet(RemoveAt(s, i)) \subseteq ToSet(s)
           /\ IsInjective(s) => /\ IsInjective(RemoveAt(s, i))
                               /\ ToSet(RemoveAt(s, i)) = ToSet(s) \ {s[i]}
           /\ Ordered(s) => Ordered(RemoveAt(s, i))
<1> DEFINE r == RemoveAt(s, i)
           p == SubSeq(s, 1, i - 1)
           q == SubSeq(s, i + 1, Len(s))
<1>1. Len(s) \in Nat /\ DOMAIN s = 1..Len(s) /\ i \in 1..Len(s)
  OBVIOUS
<1>2. /\ p \in Seq(S) /\ Len(p) = i - 1 /\ \A j \in 1..(i - 1) : p[j] = s[j]
      /\ q \in Seq(S) /\ Len(q) = Len(s) - i
      /\ \A j \in 1..(Len(s) - i) : q[j] = s[i + j]
  <2>1. p \in Seq(S) /\ Len(p) = i - 1 /\ \A j \in 1..(i - 1) : p[j] = s[j]
    BY <1>1
  <2>2. q \in Seq(S) /\ Len(q) = Len(s) - i /\ \A j \in 1..(Len(s) - i) : q[j] = s[i + j]
    <3>1. i + 1 \in 1..(Len(s) + 1) /\ Len(s) \in (i + 1) - 1..Len(s)
      BY <1>1
    <3>2. /\ q \in Seq(S) /\ Len(q) = Len(s) - (i + 1) + 1
          /\ \A j \in 1..(Len(s) - (i + 1) + 1) : q[j] = s[(i + 1) + j - 1]
      BY <3>1, SubSeqProperties
    <3>3. Len(s) - (i + 1) + 1 = Len(s) - i
      BY <1>1
    <3>4. ASSUME NEW j \in 1..(Len(s) - i) PROVE q[j] = s[i + j]
      <4>1. (i + 1) + j - 1 = i + j
        BY <1>1
      <4>2. q[j] = s[(i + 1) + j - 1]
        BY <3>2, <3>3
      <4>3. QED
        BY <4>1, <4>2
    <3>5. QED
      BY <3>2, <3>3, <3>4
  <2>3. QED
    BY <2>1, <2>2
<1> HIDE DEF p, q
<1>3. /\ p \o q \in Seq(S) /\ Len(p \o q) = Len(p) + Len(q)
      /\ \A j \in 1..(Len(p) + Len(q)) : (p \o q)[j] = IF j <= Len(p) THEN p[j] ELSE q[j - Len(p)]
  BY <1>2, ConcatProperties
<1>4. r = p \o q
  BY DEF RemoveAt, p, q
\* Where its messages were.
<1> DEFINE f == [j \in 1..(Len(s) - 1) |-> IF j < i THEN j ELSE j + 1]
<1>5. /\ \A j \in 1..(Len(s) - 1) : f[j] \in 1..Len(s) /\ f[j] # i
      /\ \A j, k \in 1..(Len(s) - 1) : j < k => f[j] < f[k]
      /\ \A k \in 1..Len(s) : k # i => \E j \in 1..(Len(s) - 1) : f[j] = k
  <2>1. ASSUME NEW k \in 1..Len(s), k # i PROVE \E j \in 1..(Len(s) - 1) : f[j] = k
    <3>1. CASE k < i
      <4>1. k \in 1..(Len(s) - 1) /\ f[k] = k
        BY <1>1, <3>1
      <4>2. QED
        BY <4>1
    <3>2. CASE k > i
      <4>1. k - 1 \in 1..(Len(s) - 1) /\ f[k - 1] = k
        BY <1>1, <3>2
      <4>2. QED
        BY <4>1
    <3>3. QED
      BY <1>1, <2>1, <3>1, <3>2
  <2>2. QED
    BY <1>1, <2>1
<1>6. r \in Seq(S) /\ DOMAIN r = 1..(Len(s) - 1) /\ \A j \in 1..(Len(s) - 1) : r[j] = s[f[j]]
  <2>1. r \in Seq(S) /\ DOMAIN r = 1..(Len(s) - 1)
    <3>1. Len(p) + Len(q) = Len(s) - 1
      BY <1>1, <1>2
    <3>2. p \o q \in Seq(S) /\ Len(p \o q) = Len(s) - 1
      BY <1>3, <3>1
    <3>3. DOMAIN (p \o q) = 1..Len(p \o q)
      BY <3>2
    <3>4. QED
      BY <1>4, <3>2, <3>3
  <2>2. ASSUME NEW j \in 1..(Len(s) - 1) PROVE r[j] = s[f[j]]
    <3>1. CASE j < i
      BY <1>1, <1>2, <1>3, <1>4, <3>1
    <3>2. CASE j >= i
      <4>1. r[j] = q[j - (i - 1)] /\ j - (i - 1) \in 1..(Len(s) - i)
        <5>1. Len(p) = i - 1 /\ Len(q) = Len(s) - i
          BY <1>2
        <5>2. j \in 1..(Len(p) + Len(q)) /\ ~(j <= Len(p)) /\ j - (i - 1) \in 1..(Len(s) - i)
          BY <1>1, <3>2, <5>1
        <5>3. (p \o q)[j] = q[j - Len(p)]
          BY <1>3, <5>2
        <5>4. QED
          BY <1>4, <5>1, <5>2, <5>3
      <4>2. i + (j - (i - 1)) = j + 1 /\ f[j] = j + 1
        BY <1>1, <3>2
      <4>3. QED
        BY <1>2, <4>1, <4>2
    <3>3. QED
      BY <1>1, <3>1, <3>2
  <2>3. QED
    BY <2>1, <2>2
<1> HIDE DEF r, f
<1>7. ToSet(r) \subseteq ToSet(s)
  BY <1>1, <1>5, <1>6 DEF ToSet
<1>8. ASSUME IsInjective(s) PROVE IsInjective(r) /\ ToSet(r) = ToSet(s) \ {s[i]}
  <2>1. ASSUME NEW j \in 1..(Len(s) - 1), NEW k \in 1..(Len(s) - 1), r[j] = r[k] PROVE j = k
    <3>1. f[j] = f[k]
      BY <1>1, <1>5, <1>6, <1>8, <2>1 DEF IsInjective
    <3>2. ~(j < k) /\ ~(k < j)
      BY <1>1, <1>5, <3>1
    <3>3. QED
      BY <1>1, <3>2
  <2>2. ASSUME NEW j \in 1..(Len(s) - 1) PROVE r[j] # s[i]
    BY <1>1, <1>5, <1>6, <1>8 DEF IsInjective
  <2>3. ASSUME NEW k \in 1..Len(s), s[k] # s[i] PROVE s[k] \in ToSet(r)
    <3>1. PICK j \in 1..(Len(s) - 1) : f[j] = k
      BY <1>5, <2>3
    <3>2. r[j] = s[k] /\ j \in DOMAIN r
      BY <1>6, <3>1
    <3>3. QED
      BY <3>2 DEF ToSet
  <2>4. IsInjective(r)
    BY <1>6, <2>1 DEF IsInjective
  <2>5. ToSet(r) = {r[j] : j \in 1..(Len(s) - 1)} /\ ToSet(s) = {s[k] : k \in 1..Len(s)}
    BY <1>1, <1>6 DEF ToSet
  <2>6. QED
    BY <1>7, <2>2, <2>3, <2>4, <2>5
<1>9. ASSUME Ordered(s) PROVE Ordered(r)
  <2>1. ASSUME NEW j \in 1..(Len(s) - 1), NEW k \in 1..(Len(s) - 1), j < k PROVE r[j] < r[k]
    <3>1. f[j] \in DOMAIN s /\ f[k] \in DOMAIN s /\ f[j] < f[k]
      BY <1>1, <1>5, <2>1
    <3>2. QED
      BY <1>6, <1>9, <3>1 DEF Ordered
  <2>2. QED
    BY <1>6, <2>1 DEF Ordered
<1>10. QED
  BY <1>6, <1>7, <1>8, <1>9 DEF r

\* Nothing is in an empty sequence.
LEMMA EmptyFacts ==
    /\ ToSet(<<>>) = {} /\ IsInjective(<<>>) /\ Ordered(<<>>)
    /\ \A s : /\ Apart(<<>>, s) /\ Apart(s, <<>>)
              /\ Before(<<>>, s) /\ Before(s, <<>>)
  BY DEF ToSet, IsInjective, Ordered, Apart, Before

------------------------------------------------------------------------------
(* What a step does to the flow of messages, and to their order. *)

\* Send accepts one more.
LEMMA FlowAccept ==
    ASSUME NEW w \in Seq(1..MaxMessages), NEW b \in Seq(1..MaxMessages),
           NEW h \in [Sets -> Seq(1..MaxMessages)], NEW a \in Nat, a < MaxMessages
    PROVE  /\ Flow(w, b, h, a) => Flow(w, Append(b, a + 1), h, a + 1)
           /\ Flow(w, b, h, a) /\ InLine(w, b, h) => InLine(w, Append(b, a + 1), h)
<1> DEFINE S == 1..MaxMessages
           c == Append(b, a + 1)
<1>1. S \in SUBSET Nat /\ a + 1 \in S /\ a + 1 \in Nat /\ a < a + 1
  BY ClientAssumption
<1>2. /\ ToSet(w) \subseteq Nat /\ ToSet(b) \subseteq Nat
      /\ \A k \in Sets : ToSet(h[k]) \subseteq Nat
  <2>1. ASSUME NEW s \in Seq(S), NEW n \in DOMAIN s PROVE s[n] \in Nat
    <3> HIDE DEF S
    <3>1. s[n] \in S
      OBVIOUS
    <3>2. QED
      BY <1>1, <3>1
  <2>2. \A s \in Seq(S) : ToSet(s) \subseteq Nat
    BY <2>1 DEF ToSet
  <2>3. QED
    BY <2>2
<1>3. /\ ToSet(c) = ToSet(b) \cup {a + 1}
      /\ IsInjective(b) /\ a + 1 \notin ToSet(b) => IsInjective(c)
      /\ Ordered(b) /\ (\A y \in ToSet(b) : y < a + 1) => Ordered(c)
  BY <1>1, AppendFacts
<1> HIDE DEF S, c
<1>4. ASSUME Flow(w, b, h, a)
      PROVE  /\ \A m \in ToSet(w) \cup ToSet(b) : m < a + 1 /\ m \in Nat
             /\ \A k \in Sets : \A m \in ToSet(h[k]) : m < a + 1 /\ m \in Nat
  BY <1>2, <1>4 DEF Flow
<1>5. ASSUME Flow(w, b, h, a) PROVE Flow(w, c, h, a + 1)
  <2>1. IsInjective(c) /\ a + 1 \notin ToSet(w) /\ \A k \in Sets : a + 1 \notin ToSet(h[k])
    BY <1>1, <1>3, <1>4, <1>5 DEF Flow
  <2>2. Apart(w, c) /\ \A k \in Sets : Apart(h[k], c)
    BY <1>3, <1>5, <2>1 DEF Flow, Apart
  <2>3. QED
    BY <1>1, <1>3, <1>4, <1>5, <2>1, <2>2 DEF Flow
<1>6. ASSUME Flow(w, b, h, a), InLine(w, b, h) PROVE InLine(w, c, h)
  <2>1. Ordered(c)
    BY <1>3, <1>4, <1>6 DEF InLine
  <2>2. Before(w, c) /\ \A k \in Sets : Before(h[k], c)
    BY <1>3, <1>4, <1>6 DEF InLine, Before
  <2>3. QED
    BY <1>6, <2>1, <2>2 DEF InLine
<1>7. QED
  BY <1>5, <1>6 DEF c

\* A loop takes the first message of the buffer; for their order it must be the
\* only loop that has any.
LEMMA FlowTake ==
    ASSUME NEW w \in Seq(1..MaxMessages), NEW b \in Seq(1..MaxMessages), b # <<>>,
           NEW h \in [Sets -> Seq(1..MaxMessages)], NEW a, NEW i \in Sets,
           NEW g, g = [h EXCEPT ![i] = Append(h[i], Head(b))]
    PROVE  /\ Flow(w, b, h, a) => Flow(w, Tail(b), g, a)
           /\ InLine(w, b, h) /\ (\A k \in Sets : k # i => h[k] = <<>>)
                => InLine(w, Tail(b), g)
<1> DEFINE S == 1..MaxMessages
           x == Head(b)
           r == Tail(b)
<1>1. S \in SUBSET Nat
  BY ClientAssumption
<1>2. /\ x \in S /\ ToSet(b) = {x} \cup ToSet(r)
      /\ IsInjective(b) => IsInjective(r) /\ x \notin ToSet(r)
      /\ Ordered(b) => Ordered(r) /\ \A y \in ToSet(r) : x < y
  BY <1>1, TailFacts
<1>3. h[i] \in Seq(S) /\ g[i] = Append(h[i], x)
  OBVIOUS
<1>4. /\ ToSet(g[i]) = ToSet(h[i]) \cup {x}
      /\ IsInjective(h[i]) /\ x \notin ToSet(h[i]) => IsInjective(g[i])
      /\ Ordered(h[i]) /\ (\A y \in ToSet(h[i]) : y < x) => Ordered(g[i])
  BY <1>1, <1>2, <1>3, AppendFacts
<1>5. \A k \in Sets : k # i => g[k] = h[k]
  OBVIOUS
<1> HIDE DEF S, x, r
<1>6. ASSUME Flow(w, b, h, a) PROVE Flow(w, r, g, a)
  <2>1. x \in ToSet(b) /\ ToSet(r) \subseteq ToSet(b) /\ x \notin ToSet(r) /\ IsInjective(r)
    BY <1>2, <1>6 DEF Flow
  <2>2. x \notin ToSet(w) /\ \A k \in Sets : x \notin ToSet(h[k])
    BY <1>6, <2>1 DEF Flow, Apart
  <2>3. Apart(w, r)
    BY <1>6, <2>1 DEF Flow, Apart
  <2>4. ASSUME NEW k \in Sets
        PROVE  IsInjective(g[k]) /\ Apart(g[k], w) /\ Apart(g[k], r)
    <3>1. CASE k = i
      <4>1. IsInjective(g[i])
        BY <1>4, <1>6, <2>2 DEF Flow
      <4>2. Apart(g[i], w) /\ Apart(g[i], r)
        BY <1>4, <1>6, <2>1, <2>2 DEF Flow, Apart
      <4>3. QED
        BY <3>1, <4>1, <4>2
    <3>2. CASE k # i
      BY <1>5, <1>6, <2>1, <3>2 DEF Flow, Apart
    <3>3. QED
      BY <3>1, <3>2
  <2>5. ASSUME NEW j \in Sets, NEW k \in Sets, j # k PROVE Apart(g[j], g[k])
    <3>1. Apart(h[j], h[k]) /\ x \notin ToSet(h[j]) /\ x \notin ToSet(h[k])
      BY <1>6, <2>2, <2>5 DEF Flow
    <3>2. CASE j = i
      BY <1>4, <1>5, <2>5, <3>1, <3>2 DEF Apart
    <3>3. CASE k = i
      BY <1>4, <1>5, <2>5, <3>1, <3>3 DEF Apart
    <3>4. CASE j # i /\ k # i
      BY <1>5, <3>1, <3>4
    <3>5. QED
      BY <3>2, <3>3, <3>4
  <2>6. ASSUME NEW k \in Sets, NEW m \in ToSet(g[k]) PROVE m <= a
    <3>1. m \in ToSet(h[k]) \/ m = x
      BY <1>4, <1>5, <2>6
    <3>2. QED
      BY <1>6, <2>1, <3>1 DEF Flow
  <2>7. QED
    BY <1>6, <2>1, <2>3, <2>4, <2>5, <2>6 DEF Flow
<1>7. ASSUME InLine(w, b, h), \A k \in Sets : k # i => h[k] = <<>>
      PROVE  InLine(w, r, g)
  <2>1. /\ x \in ToSet(b) /\ ToSet(r) \subseteq ToSet(b)
        /\ Ordered(r) /\ \A y \in ToSet(r) : x < y
    BY <1>2, <1>7 DEF InLine
  <2>2. Ordered(g[i]) /\ Before(w, g[i]) /\ Before(g[i], r)
    <3>1. Ordered(g[i])
      BY <1>4, <1>7, <2>1 DEF InLine, Before
    <3>2. Before(w, g[i])
      BY <1>4, <1>7, <2>1 DEF InLine, Before
    <3>3. Before(g[i], r)
      BY <1>4, <1>7, <2>1 DEF InLine, Before
    <3>4. QED
      BY <3>1, <3>2, <3>3
  <2>3. ASSUME NEW k \in Sets, k # i
        PROVE  Ordered(g[k]) /\ Before(w, g[k]) /\ Before(g[k], r)
    BY <1>5, <1>7, <2>3, EmptyFacts
  <2>4. Before(w, r)
    BY <1>7, <2>1 DEF InLine, Before
  <2>5. QED
    BY <1>7, <2>1, <2>2, <2>3, <2>4 DEF InLine
<1>8. QED
  BY <1>6, <1>7 DEF x, r

\* A loop writes some of its messages and keeps none.
LEMMA FlowWrite ==
    ASSUME NEW w \in Seq(1..MaxMessages), NEW b \in Seq(1..MaxMessages),
           NEW h \in [Sets -> Seq(1..MaxMessages)], NEW a, NEW i \in Sets,
           NEW p \in Seq(1..MaxMessages), ToSet(p) \subseteq ToSet(h[i]),
           IsInjective(h[i]) => IsInjective(p), Ordered(h[i]) => Ordered(p),
           NEW g, g = [h EXCEPT ![i] = <<>>]
    PROVE  /\ Flow(w, b, h, a) => Flow(w \o p, b, g, a)
           /\ InLine(w, b, h) /\ (\A k \in Sets : k # i => h[k] = <<>>)
                => InLine(w \o p, b, g)
<1> DEFINE c == w \o p
<1>1. 1..MaxMessages \in SUBSET Nat
  BY ClientAssumption
<1>2. /\ ToSet(c) = ToSet(w) \cup ToSet(p)
      /\ IsInjective(w) /\ IsInjective(p) /\ Apart(p, w) => IsInjective(c)
      /\ Ordered(w) /\ Ordered(p) /\ Before(w, p) => Ordered(c)
  BY <1>1, ConcatFacts, ZenonT(60)
<1>3. g[i] = <<>> /\ \A k \in Sets : k # i => g[k] = h[k]
  OBVIOUS
<1> HIDE DEF c
<1>4. ASSUME Flow(w, b, h, a) PROVE Flow(c, b, g, a)
  <2>1. IsInjective(c)
    BY <1>2, <1>4 DEF Flow, Apart
  <2>2. Apart(c, b)
    BY <1>2, <1>4 DEF Flow, Apart
  <2>3. ASSUME NEW k \in Sets
        PROVE  IsInjective(g[k]) /\ Apart(g[k], c) /\ Apart(g[k], b)
    <3>1. CASE k = i
      BY <1>3, <3>1, EmptyFacts
    <3>2. CASE k # i
      <4>1. /\ g[k] = h[k] /\ IsInjective(h[k]) /\ Apart(h[k], b)
            /\ Apart(h[k], w) /\ Apart(h[k], h[i])
        BY <1>3, <1>4, <3>2 DEF Flow
      <4>2. Apart(h[k], c)
        BY <1>2, <4>1 DEF Apart
      <4>3. QED
        BY <4>1, <4>2
    <3>3. QED
      BY <3>1, <3>2
  <2>4. ASSUME NEW j \in Sets, NEW k \in Sets, j # k PROVE Apart(g[j], g[k])
    BY <1>3, <1>4, <2>4, EmptyFacts DEF Flow
  <2>5. \A m \in ToSet(c) : m <= a
    BY <1>2, <1>4 DEF Flow
  <2>6. \A k \in Sets : \A m \in ToSet(g[k]) : m <= a
    BY <1>3, <1>4, EmptyFacts DEF Flow
  <2>7. QED
    BY <1>4, <2>1, <2>2, <2>3, <2>4, <2>5, <2>6 DEF Flow
<1>5. ASSUME InLine(w, b, h), \A k \in Sets : k # i => h[k] = <<>>
      PROVE  InLine(c, b, g)
  <2>1. \A k \in Sets : g[k] = <<>>
    BY <1>3, <1>5
  <2>2. Ordered(c) /\ Before(c, b)
    BY <1>2, <1>5 DEF InLine, Before
  <2>3. QED
    BY <1>5, <2>1, <2>2, EmptyFacts DEF InLine
<1>6. QED
  BY <1>4, <1>5 DEF c


\* A loop drops some of its messages.
LEMMA FlowDrop ==
    ASSUME NEW w, NEW b, NEW h \in [Sets -> Seq(1..MaxMessages)], NEW a, NEW i \in Sets,
           NEW r, ToSet(r) \subseteq ToSet(h[i]),
           IsInjective(h[i]) => IsInjective(r), Ordered(h[i]) => Ordered(r),
           NEW g, g = [h EXCEPT ![i] = r]
    PROVE  /\ Flow(w, b, h, a) => Flow(w, b, g, a)
           /\ InLine(w, b, h) => InLine(w, b, g)
<1>1. g[i] = r /\ \A k \in Sets : k # i => g[k] = h[k]
  OBVIOUS
<1>2. /\ \A k \in Sets : ToSet(g[k]) \subseteq ToSet(h[k])
      /\ \A k \in Sets : IsInjective(h[k]) => IsInjective(g[k])
      /\ \A k \in Sets : Ordered(h[k]) => Ordered(g[k])
  BY <1>1
<1>3. ASSUME Flow(w, b, h, a) PROVE Flow(w, b, g, a)
  BY <1>2, <1>3 DEF Flow, Apart
<1>4. ASSUME InLine(w, b, h) PROVE InLine(w, b, g)
  BY <1>2, <1>4 DEF InLine, Before
<1>5. QED
  BY <1>3, <1>4

------------------------------------------------------------------------------
(* The control state: types, threads and loops. *)

\* Callers, reconnects and loops are different goroutines.
LEMMA Kinds ==
    /\ Sets \subseteq Nat \ {0} /\ None \notin Goroutines
    /\ Callers \subseteq Goroutines /\ Reconnects \subseteq Goroutines /\ Threads \subseteq Goroutines
    /\ Callers \cap Reconnects = {} /\ Threads = Callers \cup Reconnects
    /\ \A k \in Sets : Writer(k) \in Goroutines /\ Receiver(k) \in Goroutines
    /\ \A k \in Sets : Writer(k) \notin Threads /\ Receiver(k) \notin Threads
    /\ \A j, k \in Sets : /\ Writer(j) # Receiver(k)
                          /\ Writer(j) = Writer(k) => j = k
                          /\ Receiver(j) = Receiver(k) => j = k
  BY ClientAssumption DEF Sets, Goroutines, Threads, Loops, Writers, Receivers, Reconnects,
     Writer, Receiver, Reconnect

\* A section that is over leads to one of three places.
LEMMA BackPlaces ==
    /\ \A g \in Goroutines : Back(g) \in {"idle", "select", "ended"}
    /\ \A t \in Reconnects : Back(t) = "ended"
<1>1. \A t \in Reconnects : t \notin Callers /\ t \notin Writers
  BY ClientAssumption DEF Reconnects, Loops, Writers, Reconnect, Writer
<1>2. \A g \in Goroutines : Back(g) \in {"idle", "select", "ended"}
  BY DEF Back
<1>3. \A t \in Reconnects : Back(t) = "ended"
  BY <1>1 DEF Back
<1>4. QED
  BY <1>2, <1>3

\* The types of what decides where a goroutine goes.
LEMMA ControlTyped ==
    ASSUME TypeOK
    PROVE  /\ pc \in [Goroutines -> Places] /\ mu \in Goroutines \cup {None}
           /\ doubled \in Nat /\ attempts \in [Reconnects -> 0..Attempts]
           /\ connects \in Nat /\ reports \in Nat /\ started \in 0..Connects
           /\ {torn, connected, cancelled, open} \subseteq BOOLEAN
           /\ batch \in [Sets -> Seq(1..MaxMessages)] /\ Connects \in Nat /\ Attempts \in Nat
  BY ClientAssumption DEF TypeOK, Places

\* Send's select never puts a message into a full channel.
LEMMA AcceptTyped ==
    TypeOK /\ Accept =>
        /\ buffer' \in Seq(1..MaxMessages) /\ Len(buffer') <= BufferSize
        /\ accepted' \in 0..MaxMessages
<1> SUFFICES ASSUME TypeOK, Accept
             PROVE  /\ buffer' \in Seq(1..MaxMessages) /\ Len(buffer') <= BufferSize
                    /\ accepted' \in 0..MaxMessages
  OBVIOUS
<1>0. /\ buffer \in Seq(1..MaxMessages) /\ Len(buffer) <= BufferSize
      /\ accepted \in 0..MaxMessages /\ MaxMessages \in Nat /\ BufferSize \in Nat
  BY ClientAssumption DEF TypeOK
<1>1. CASE Accepts
  <2>1. /\ Len(buffer) < BufferSize /\ accepted < MaxMessages
        /\ buffer' = Append(buffer, accepted + 1) /\ accepted' = accepted + 1
    BY <1>1 DEF Accept, Accepts
  <2>2. accepted + 1 \in 1..MaxMessages
    BY <1>0, <2>1
  <2>3. QED
    BY <1>0, <2>1, <2>2
<1>2. CASE ~Accepts
  BY <1>0, <1>2 DEF Accept, sendVars
<1>3. QED
  BY <1>1, <1>2

\* A reconnect that a loop starts is one that has not been used.
LEMMA UnusedFacts ==
    ASSUME Unused # {}
    PROVE  /\ (CHOOSE r \in Unused : TRUE) \in Reconnects
           /\ pc[CHOOSE r \in Unused : TRUE] = "off"
<1>1. (CHOOSE r \in Unused : TRUE) \in Unused
  OBVIOUS
<1>2. QED
  BY <1>1 DEF Unused

\* Every goroutine is in one of its places after a step.
LEMMA PlacesStep == TypeOK /\ [Next]_vars => pc' \in [Goroutines -> Places]
<1> SUFFICES ASSUME TypeOK, [Next]_vars PROVE pc' \in [Goroutines -> Places]
  OBVIOUS
<1>0. /\ pc \in [Goroutines -> Places] /\ Callers \subseteq Goroutines
      /\ Reconnects \subseteq Goroutines
      /\ \A k \in Sets : Writer(k) \in Goroutines /\ Receiver(k) \in Goroutines
      /\ \A g \in Goroutines : Back(g) \in Places
      /\ {"idle", "off", "wait", "connect", "dial", "dialled", "up", "rejoin", "defer",
          "failed", "send", "cancel", "closing", "unlock", "ended", "select", "write", "call",
          "tested", "read", "report", "acting", "down", "trigger"} \subseteq Places
  BY ControlTyped, Kinds, BackPlaces DEF Places, ThreadPlaces, LoopPlaces
<1> USE DEF GoTo
<1>1. ASSUME NEW t \in Goroutines, Calling(t) PROVE pc' \in [Goroutines -> Places]
  BY <1>0, <1>1 DEF Calling, ConnectAgain, Connect, Send, OnOrOff, Close, JoinOrLeave
<1>2. ASSUME NEW t \in Goroutines, ConnectStarts(t) PROVE pc' \in [Goroutines -> Places]
  BY <1>0, <1>2 DEF ConnectStarts
<1>3. ASSUME NEW t \in Goroutines, Returning(t) PROVE pc' \in [Goroutines -> Places]
  BY <1>0, <1>2, <1>3 DEF Returning, ConnectDials, ConnectFails, ConnectSucceeds, Rejoin,
     ConnectReturns, JoinSends, CloseCancels, CloseCloses, Unlocks
<1>4. ASSUME NEW t \in Goroutines, Reconnecting(t) PROVE pc' \in [Goroutines -> Places]
  BY <1>0, <1>1, <1>3, <1>4 DEF Reconnecting, Calling, ReconnectTries, ReconnectEnds
<1>5. ASSUME NEW g \in Goroutines, Reporting(g) PROVE pc' \in [Goroutines -> Places]
  <2>1. CASE DisconnectTriggers(g)
    BY <1>0, <2>1 DEF DisconnectTriggers
  <2>2. CASE ~DisconnectTriggers(g)
    BY <1>0, <1>5, <2>2 DEF Reporting, HandleDisconnect, Disconnects, DisconnectUnlocks, Unlocks
  <2>3. QED
    BY <2>1, <2>2
<1>6. ASSUME NEW k \in Sets, Writing(k) PROVE pc' \in [Goroutines -> Places]
  BY <1>0, <1>5, <1>6 DEF Writing, WriterTakes, BatchTick, WriterWrites, WriterEnds,
     WriterDrops, WriterFails
<1>7. ASSUME NEW k \in Sets, Receiving(k) PROVE pc' \in [Goroutines -> Places]
  BY <1>0, <1>5, <1>7 DEF Receiving, ReceiveTest, ReceiveUnlocked, ReceiveMessage, ReceiveFails
<1>8. CASE UNCHANGED vars
  BY <1>0, <1>8 DEF vars
<1>9. QED
  BY <1>0, <1>1, <1>3, <1>4, <1>6, <1>7, <1>8 DEF Next

\* Every step keeps the types: no channel overflows, and no goroutine counts
\* more attempts than it has.
LEMMA TypeStep == TypeOK /\ ThreadsOK /\ [Next]_vars => TypeOK'
<1> SUFFICES ASSUME TypeOK, ThreadsOK, [Next]_vars PROVE TypeOK'
  OBVIOUS
<1>0. pc' \in [Goroutines -> ThreadPlaces \cup LoopPlaces]
  BY PlacesStep DEF Places
<1> USE Kinds, ClientAssumption DEF TypeOK
<1>1. ASSUME NEW g, Unlock(g)
      PROVE  crashed' \in {"no", "unlock", "nil"} /\ mu' \in Goroutines \cup {None} /\ torn' \in BOOLEAN
  BY <1>1 DEF Unlock
<1>2. ASSUME NEW g \in Goroutines, Lock(g) \/ RLock
      PROVE  /\ mu' \in Goroutines \cup {None} /\ UNCHANGED <<crashed, doubled, torn>>
  BY <1>2 DEF Lock, RLock, lockVars
<1> USE DEF stateVars, threadVars, sendVars, loopVars, connVars
<1>3. ASSUME NEW t \in Goroutines, t \in Threads, ConnectAgain(t) \/ Connect(t) PROVE TypeOK'
  <2>1. Lock(t) /\ rejoin' \subseteq Threads
    BY <1>3 DEF ConnectAgain, Connect
  <2>2. UNCHANGED <<stateVars, rooms, attempts, batchSize, sendVars, loopVars, connVars>>
    BY <1>3 DEF ConnectAgain, Connect
  <2>3. QED
    BY <1>0, <1>2, <2>1, <2>2
<1>4. ASSUME NEW t \in Callers, Send(t) PROVE TypeOK'
  <2>1. RLock /\ Accept /\ UNCHANGED <<stateVars, threadVars, batchSize, loopVars, connVars>>
    BY <1>4 DEF Send
  <2>2. QED
    BY <1>0, <1>2, <2>1, AcceptTyped
<1>5. ASSUME NEW t \in Callers, OnOrOff(t) \/ Close(t) \/ \E joined \in BOOLEAN : JoinOrLeave(t, joined)
      PROVE  TypeOK'
  <2>1. /\ Lock(t) /\ rooms' \in BOOLEAN
        /\ UNCHANGED <<stateVars, rejoin, attempts, batchSize, sendVars, loopVars, connVars>>
    BY <1>5 DEF OnOrOff, Close, JoinOrLeave
  <2>2. QED
    BY <1>0, <1>2, <2>1
<1>6. ASSUME NEW t \in Callers, Calling(t) PROVE TypeOK'
  <2>1. t \in Threads /\ t \in Goroutines
    BY DEF Threads
  <2>2. QED
    BY <1>3, <1>4, <1>5, <1>6, <2>1 DEF Calling
<1>7. ASSUME NEW t \in Threads, ConnectDials(t) PROVE TypeOK'
  <2>1. /\ open' \in BOOLEAN /\ readErr' \in BOOLEAN /\ writeErr' \in BOOLEAN
        /\ UNCHANGED <<lockVars, stateVars, threadVars, batchSize, sendVars, loopVars, wire>>
    BY <1>7 DEF ConnectDials
  <2>2. QED
    BY <1>0, <2>1 DEF lockVars
<1>8. ASSUME NEW t \in Threads, ConnectFails(t) PROVE TypeOK'
  <2>1. /\ Unlock(t) /\ rejoin' \subseteq Threads
        /\ UNCHANGED <<doubled, stateVars, rooms, attempts, batchSize, sendVars, loopVars, connVars>>
    BY <1>8 DEF ConnectFails
  <2>2. QED
    BY <1>0, <1>1, <2>1
<1>9. ASSUME NEW t \in Threads, ConnectSucceeds(t) PROVE TypeOK'
  <2>1. /\ connected' \in BOOLEAN /\ connects' \in 0..Connects
        /\ UNCHANGED <<lockVars, cancelled, reports, threadVars, batchSize, sendVars, loopVars, connVars>>
    BY <1>9 DEF ConnectSucceeds
  <2>2. QED
    BY <1>0, <2>1 DEF lockVars
<1>10. ASSUME NEW t \in Threads, ConnectStarts(t) PROVE TypeOK'
  <2>1. /\ Unlock(t) /\ started' \in 0..Connects
        /\ UNCHANGED <<doubled, stateVars, threadVars, batchSize, sendVars, batch, connVars>>
    BY <1>10 DEF ConnectStarts
  <2>2. QED
    BY <1>0, <1>1, <2>1
<1>11. ASSUME NEW t \in Threads, Rejoin(t) \/ JoinSends(t) PROVE TypeOK'
  <2>1. /\ RLock /\ Accept /\ rejoin' \subseteq Threads
        /\ UNCHANGED <<stateVars, rooms, attempts, batchSize, loopVars, connVars>>
    BY <1>11 DEF Rejoin, JoinSends
  <2>2. QED
    BY <1>0, <1>2, <2>1, AcceptTyped
<1>12. ASSUME NEW t \in Threads, ConnectReturns(t) PROVE TypeOK'
  <2>1. /\ Unlock(t) /\ doubled' \in Nat
        /\ UNCHANGED <<stateVars, rooms, rejoin, batchSize, sendVars, loopVars, connVars>>
    BY <1>12 DEF ConnectReturns
  <2>2. attempts' \in [Reconnects -> 0..Attempts]
    <3>1. CASE t \in Reconnects /\ pc[t] = "failed"
      <4>1. attempts[t] \in 0..Attempts /\ attempts[t] < Attempts
        BY <3>1 DEF ThreadsOK
      <4>2. attempts[t] + 1 \in 0..Attempts /\ attempts' = [attempts EXCEPT ![t] = attempts[t] + 1]
        BY <1>12, <3>1, <4>1 DEF ConnectReturns
      <4>3. QED
        BY <4>2
    <3>2. CASE ~(t \in Reconnects /\ pc[t] = "failed")
      BY <1>12, <3>2 DEF ConnectReturns
    <3>3. QED
      BY <3>1, <3>2
  <2>3. QED
    BY <1>0, <1>1, <2>1, <2>2
<1>13. ASSUME NEW t \in Threads, CloseCancels(t) \/ CloseCloses(t) PROVE TypeOK'
  <2>1. /\ connected' \in BOOLEAN /\ cancelled' \in BOOLEAN /\ open' \in BOOLEAN
        /\ UNCHANGED <<lockVars, connects, reports, threadVars, batchSize, sendVars, loopVars,
                       readErr, writeErr, wire>>
    BY <1>13 DEF CloseCancels, CloseCloses
  <2>2. QED
    BY <1>0, <2>1 DEF lockVars
<1>14. ASSUME NEW g \in Goroutines, Unlocks(g) \/ DisconnectUnlocks(g) PROVE TypeOK'
  <2>1. Unlock(g) /\ UNCHANGED <<doubled, stateVars, threadVars, batchSize, sendVars, loopVars, connVars>>
    BY <1>14 DEF Unlocks, DisconnectUnlocks
  <2>2. QED
    BY <1>0, <1>1, <2>1
<1>15. ASSUME NEW t \in Threads, Returning(t) PROVE TypeOK'
  BY <1>7, <1>8, <1>9, <1>10, <1>11, <1>12, <1>13, <1>14, <1>15 DEF Returning
<1>16. ASSUME NEW t \in Reconnects, Reconnecting(t) PROVE TypeOK'
  <2>1. CASE ReconnectTries(t) \/ ReconnectEnds(t)
    <3>1. UNCHANGED <<lockVars, stateVars, threadVars, batchSize, sendVars, loopVars, connVars>>
      BY <2>1 DEF ReconnectTries, ReconnectEnds
    <3>2. QED
      BY <1>0, <3>1 DEF lockVars
  <2>2. t \in Threads /\ t \in Goroutines
    BY DEF Threads
  <2>3. QED
    BY <1>3, <1>15, <1>16, <2>1, <2>2 DEF Reconnecting
<1>17. ASSUME NEW g \in Goroutines, Reporting(g) PROVE TypeOK'
  <2>1. CASE HandleDisconnect(g)
    BY <1>0, <1>2, <2>1 DEF HandleDisconnect
  <2>2. CASE Disconnects(g)
    <3>1. reports' = reports + 1 /\ reports \in 0..Connects /\ reports < Connects
      BY <2>2 DEF Disconnects
    <3>2. reports' \in 0..Connects
      BY <3>1
    <3>3. /\ connected' \in BOOLEAN
          /\ UNCHANGED <<lockVars, cancelled, connects, threadVars, batchSize, sendVars, loopVars, connVars>>
      BY <2>2 DEF Disconnects
    <3>4. QED
      BY <1>0, <3>2, <3>3 DEF lockVars
  <2>3. CASE DisconnectTriggers(g)
    BY <1>0, <1>2, <2>3 DEF DisconnectTriggers
  <2>4. QED
    BY <1>14, <1>17, <2>1, <2>2, <2>3 DEF Reporting
<1>18. ASSUME NEW k \in Sets, WriterTakes(k) PROVE TypeOK'
  <2>1. /\ Head(buffer) \in 1..MaxMessages /\ Tail(buffer) \in Seq(1..MaxMessages)
        /\ Len(Tail(buffer)) <= BufferSize
    <3>1. buffer # <<>>
      BY <1>18 DEF WriterTakes
    <3>2. ASSUME NEW S, NEW b \in Seq(S), b # <<>>
          PROVE  Head(b) \in S /\ Tail(b) \in Seq(S) /\ Len(Tail(b)) = Len(b) - 1 /\ Len(b) \in Nat
      BY <3>2
    <3>3. /\ Head(buffer) \in 1..MaxMessages /\ Tail(buffer) \in Seq(1..MaxMessages)
          /\ Len(Tail(buffer)) = Len(buffer) - 1 /\ Len(buffer) \in Nat
      BY <3>1, <3>2
    <3>4. QED
      BY <3>3
  <2>2. batch' \in [Sets -> Seq(1..MaxMessages)]
    <3>1. batch[k] \in Seq(1..MaxMessages)
      OBVIOUS
    <3>2. Append(batch[k], Head(buffer)) \in Seq(1..MaxMessages)
      BY <2>1, <3>1
    <3>3. QED
      BY <1>18, <3>2 DEF WriterTakes
  <2>3. /\ buffer' = Tail(buffer)
        /\ UNCHANGED <<lockVars, stateVars, threadVars, batchSize, accepted, started, connVars>>
    BY <1>18 DEF WriterTakes
  <2>4. QED
    BY <1>0, <2>1, <2>2, <2>3 DEF lockVars
<1>19. ASSUME NEW k \in Sets, NEW i \in 1..MaxMessages, WriterDrops(k, i) PROVE TypeOK'
  <2>1. RemoveAt(batch[k], i) \in Seq(1..MaxMessages)
    <3>1. batch[k] \in Seq(1..MaxMessages)
      OBVIOUS
    <3>2. 1..MaxMessages \in SUBSET Nat
      OBVIOUS
    <3>3. i \in DOMAIN batch[k]
      BY <1>19 DEF WriterDrops
    <3>4. QED
      BY <3>1, <3>2, <3>3, RemoveFacts
  <2>2. RLock /\ batch' = [batch EXCEPT ![k] = RemoveAt(batch[k], i)]
    BY <1>19 DEF WriterDrops
  <2>3. batch' \in [Sets -> Seq(1..MaxMessages)]
    BY <2>1, <2>2
  <2>4. UNCHANGED <<stateVars, threadVars, batchSize, sendVars, started, connVars>>
    BY <1>19 DEF WriterDrops
  <2>5. QED
    BY <1>0, <1>2, <2>2, <2>3, <2>4 DEF RLock, lockVars
<1>20. ASSUME NEW k \in Sets, BatchTick(k) \/ WriterWrites(k) \/ WriterEnds(k)
                              \/ \E n \in 0..MaxMessages : WriterFails(k, n)
       PROVE  TypeOK'
  <2>1. CASE BatchTick(k)
    BY <1>0, <2>1 DEF BatchTick, lockVars
  <2>2. CASE WriterWrites(k)
    BY <1>0, <2>2 DEF WriterWrites, lockVars
  <2>3. CASE WriterEnds(k)
    BY <1>0, <2>3 DEF WriterEnds, lockVars
  <2>4. ASSUME NEW n \in 0..MaxMessages, WriterFails(k, n) PROVE TypeOK'
    <3>1. /\ wire' = wire \o SubSeq(batch[k], 1, n) /\ n < Len(batch[k])
          /\ batch' = [batch EXCEPT ![k] = <<>>] /\ writeErr' \in BOOLEAN
      BY <2>4 DEF WriterFails
    <3>2. batch' \in [Sets -> Seq(1..MaxMessages)] /\ batch[k] \in Seq(1..MaxMessages)
      BY <3>1
    <3>3. wire' \in Seq(1..MaxMessages)
      <4>1. n \in 0..Len(batch[k]) /\ 1..MaxMessages \in SUBSET Nat
        <5>1. ASSUME NEW b \in Nat, n < b PROVE n \in 0..b
          BY <5>1
        <5>2. Len(batch[k]) \in Nat
          BY <3>2
        <5>3. n \in 0..Len(batch[k])
          BY <3>1, <5>1, <5>2, Zenon
        <5>4. QED
          BY <5>3
      <4>2. SubSeq(batch[k], 1, n) \in Seq(1..MaxMessages)
        BY <3>2, <4>1, PrefixFacts
      <4>3. QED
        BY <3>1, <4>2
    <3>4. UNCHANGED <<lockVars, stateVars, threadVars, batchSize, sendVars, started, open, readErr>>
      BY <2>4 DEF WriterFails
    <3>5. QED
      BY <1>0, <3>1, <3>2, <3>3, <3>4 DEF lockVars
  <2>5. QED
    BY <1>20, <2>1, <2>2, <2>3, <2>4
<1>21. ASSUME NEW k \in Sets, ReceiveTest(k) \/ ReceiveUnlocked(k) \/ ReceiveMessage(k)
                              \/ ReceiveFails(k)
       PROVE  TypeOK'
  <2>1. /\ crashed' \in {"no", "unlock", "nil"} /\ readErr' \in BOOLEAN
        /\ UNCHANGED <<mu, doubled, torn>>
    BY <1>21 DEF ReceiveTest, ReceiveUnlocked, ReceiveMessage, ReceiveFails, RLock, lockVars
  <2>2. UNCHANGED <<stateVars, threadVars, batchSize, sendVars, loopVars, open, writeErr, wire>>
    BY <1>21 DEF ReceiveTest, ReceiveUnlocked, ReceiveMessage, ReceiveFails
  <2>3. QED
    BY <1>0, <2>1, <2>2
<1>22. ASSUME NEW k \in Sets, Writing(k) \/ Receiving(k) PROVE TypeOK'
  BY <1>17, <1>18, <1>19, <1>20, <1>21, <1>22 DEF Writing, Receiving
<1>23. CASE UNCHANGED vars
  BY <1>23 DEF vars, lockVars
<1>24. QED
  <2>1. Callers \subseteq Threads
    BY DEF Threads
  <2>2. QED
    BY <1>6, <1>15, <1>16, <1>22, <1>23, <2>1 DEF Next

\* A reconnect goroutine gets to a next attempt only if it has one.
LEMMA ThreadsStep == TypeOK /\ ThreadsOK /\ LoopsOK /\ [Next]_vars => ThreadsOK'
<1> SUFFICES ASSUME TypeOK, ThreadsOK, LoopsOK, [Next]_vars PROVE ThreadsOK'
  OBVIOUS
<1>1. /\ pc \in [Goroutines -> Places] /\ attempts \in [Reconnects -> 0..Attempts]
      /\ Reconnects \subseteq Goroutines /\ Callers \cap Reconnects = {} /\ Attempts \in Nat
      /\ \A k \in Sets : Writer(k) \notin Reconnects /\ Receiver(k) \notin Reconnects
      /\ \A t \in Reconnects : Back(t) = "ended"
  BY ControlTyped, Kinds, BackPlaces
\* Nothing happens to one that does not move.
<1>2. ASSUME UNCHANGED attempts, \A t \in Reconnects : pc'[t] = pc[t] PROVE ThreadsOK'
  BY <1>2 DEF ThreadsOK
<1>3. ASSUME UNCHANGED attempts, NEW g, g \notin Reconnects, NEW w, GoTo(g, w) PROVE ThreadsOK'
  BY <1>1, <1>2, <1>3 DEF GoTo
<1>4. ASSUME UNCHANGED attempts, NEW t \in Reconnects, NEW w, GoTo(t, w),
             w \notin {"idle", "send", "cancel", "closing"},
             w \in {"connect", "dial", "failed"} => attempts[t] < Attempts
      PROVE  ThreadsOK'
  BY <1>1, <1>4 DEF GoTo, ThreadsOK
<1> USE DEF threadVars
<1>5. ASSUME NEW t \in Callers, Calling(t) PROVE ThreadsOK'
  BY <1>1, <1>2, <1>3, <1>5 DEF Calling, ConnectAgain, Connect, Send, OnOrOff, Close, JoinOrLeave
<1>6. ASSUME NEW t \in Threads, ConnectStarts(t) PROVE ThreadsOK'
  <2>1. \A r \in Reconnects : pc'[r] = pc[r] \/ pc'[r] \in {"rejoin", "defer"}
    <3>1. started + 1 \in Sets
      BY <1>6, ControlTyped DEF ConnectStarts, Sets
    <3>2. QED
      BY <1>1, <1>6, <3>1 DEF ConnectStarts
  <2>2. UNCHANGED attempts
    BY <1>6 DEF ConnectStarts
  <2>3. QED
    BY <2>1, <2>2 DEF ThreadsOK
<1>7. ASSUME NEW t \in Callers, Returning(t) PROVE ThreadsOK'
  <2>1. CASE ConnectStarts(t)
    BY <1>6, <2>1 DEF Threads
  <2>2. CASE ~ConnectStarts(t)
    BY <1>1, <1>3, <1>7, <2>2 DEF Returning, ConnectDials, ConnectFails, ConnectSucceeds, Rejoin,
       ConnectReturns, JoinSends, CloseCancels, CloseCloses, Unlocks
  <2>3. QED
    BY <2>1, <2>2
<1>8. ASSUME NEW t \in Reconnects, ConnectReturns(t) PROVE ThreadsOK'
  <2>1. \A r \in Reconnects : r # t => pc'[r] = pc[r] /\ attempts'[r] = attempts[r]
    BY <1>1, <1>8 DEF ConnectReturns, GoTo
  <2>2. pc'[t] \in {"wait", "ended"}
    BY <1>1, <1>8 DEF ConnectReturns, GoTo
  <2>3. QED
    BY <2>1, <2>2 DEF ThreadsOK
<1>9. ASSUME NEW t \in Reconnects, Returning(t) PROVE ThreadsOK'
  <2>0. pc[t] \notin {"idle", "send", "cancel", "closing"} /\ (pc[t] = "dial" => attempts[t] < Attempts)
    BY DEF ThreadsOK
  <2>1. CASE ConnectStarts(t)
    BY <1>6, <2>1 DEF Threads
  <2>2. CASE ConnectFails(t)
    BY <1>4, <2>0, <2>2 DEF ConnectFails
  <2>3. CASE ConnectDials(t) \/ ConnectSucceeds(t) \/ Rejoin(t) \/ Unlocks(t)
    BY <1>1, <1>4, <2>3 DEF ConnectDials, ConnectSucceeds, Rejoin, Unlocks
  <2>4. ~JoinSends(t) /\ ~CloseCancels(t) /\ ~CloseCloses(t)
    BY <2>0 DEF JoinSends, CloseCancels, CloseCloses
  <2>5. QED
    BY <1>8, <1>9, <2>1, <2>2, <2>3, <2>4 DEF Returning
<1>10. ASSUME NEW t \in Reconnects, Reconnecting(t) PROVE ThreadsOK'
  <2>0. pc[t] = "connect" => attempts[t] < Attempts
    BY DEF ThreadsOK
  <2>1. CASE ReconnectTries(t)
    BY <1>4, <2>1 DEF ReconnectTries
  <2>2. CASE ReconnectEnds(t) \/ ConnectAgain(t)
    BY <1>4, <2>2 DEF ReconnectEnds, ConnectAgain
  <2>3. CASE Connect(t)
    <3>1. pc[t] = "connect"
      BY <2>3 DEF Connect, ThreadsOK
    <3>2. QED
      BY <1>4, <2>0, <2>3, <3>1 DEF Connect
  <2>4. QED
    BY <1>9, <1>10, <2>1, <2>2, <2>3 DEF Reconnecting
<1>11. ASSUME NEW g \in Goroutines, g \notin Reconnects, Reporting(g) PROVE ThreadsOK'
  <2>1. CASE DisconnectTriggers(g)
    <3>1. UNCHANGED attempts /\ \A r \in Reconnects : pc'[r] = pc[r] \/ pc'[r] = "wait"
      BY <1>1, <1>11, <2>1 DEF DisconnectTriggers, GoTo
    <3>2. QED
      BY <3>1 DEF ThreadsOK
  <2>2. CASE ~DisconnectTriggers(g)
    BY <1>3, <1>11, <2>2 DEF Reporting, HandleDisconnect, Disconnects, DisconnectUnlocks, Unlocks
  <2>3. QED
    BY <2>1, <2>2
<1>12. ASSUME NEW k \in Sets, Writing(k) PROVE ThreadsOK'
  <2>1. Writer(k) \notin Reconnects /\ Writer(k) \in Goroutines
    BY <1>1, Kinds
  <2>2. CASE Reporting(Writer(k))
    BY <1>11, <2>1, <2>2
  <2>3. CASE ~Reporting(Writer(k))
    BY <1>3, <1>12, <2>1, <2>3 DEF Writing, WriterTakes, BatchTick, WriterWrites, WriterEnds,
       WriterDrops, WriterFails
  <2>4. QED
    BY <2>2, <2>3
<1>13. ASSUME NEW k \in Sets, Receiving(k) PROVE ThreadsOK'
  <2>1. Receiver(k) \notin Reconnects /\ Receiver(k) \in Goroutines
    BY <1>1, Kinds
  <2>2. CASE Reporting(Receiver(k))
    BY <1>11, <2>1, <2>2
  <2>3. CASE ~Reporting(Receiver(k))
    BY <1>3, <1>13, <2>1, <2>3 DEF Receiving, ReceiveTest, ReceiveUnlocked, ReceiveMessage, ReceiveFails
  <2>4. QED
    BY <2>2, <2>3
<1>14. CASE UNCHANGED vars
  BY <1>2, <1>14 DEF vars
<1>15. QED
  BY <1>5, <1>7, <1>10, <1>12, <1>13, <1>14 DEF Next

\* Only loops that were started do anything.
LEMMA LoopsStep == TypeOK /\ LoopsOK /\ [Next]_vars => LoopsOK'
<1> SUFFICES ASSUME TypeOK, LoopsOK, [Next]_vars PROVE LoopsOK'
  OBVIOUS
<1>1. /\ pc \in [Goroutines -> Places] /\ batch \in [Sets -> Seq(1..MaxMessages)]
      /\ started \in 0..Connects /\ Connects \in Nat /\ Sets \subseteq Nat \ {0}
      /\ \A k \in Sets : Writer(k) \in Goroutines /\ Receiver(k) \in Goroutines
      /\ \A k \in Sets : Writer(k) \notin Threads /\ Receiver(k) \notin Threads
      /\ Callers \subseteq Threads /\ Reconnects \subseteq Threads
  BY ControlTyped, Kinds
\* A step of a goroutine that is not off and leaves the others' batches alone.
<1>2. ASSUME UNCHANGED started, NEW g, pc[g] # "off", NEW w, GoTo(g, w),
             \A k \in Sets : pc[Writer(k)] = "off" /\ batch[k] = <<>> => batch'[k] = <<>>
      PROVE  LoopsOK'
  BY <1>1, <1>2 DEF GoTo, LoopsOK
<1>3. ASSUME UNCHANGED <<started, batch>>, \A k \in Sets : pc'[Writer(k)] = pc[Writer(k)]
                                              /\ pc'[Receiver(k)] = pc[Receiver(k)]
      PROVE  LoopsOK'
  BY <1>3 DEF LoopsOK
<1> USE DEF loopVars
<1>4. ASSUME NEW t \in Threads, Calling(t) PROVE LoopsOK'
  BY <1>1, <1>3, <1>4 DEF Calling, ConnectAgain, Connect, Send, OnOrOff, Close, JoinOrLeave, GoTo
<1>5. ASSUME NEW t \in Threads, ConnectStarts(t) PROVE LoopsOK'
  <2>1. /\ started' = started + 1 /\ batch' = batch /\ started + 1 \in Sets
        /\ pc' = [pc EXCEPT ![t] = IF t \in rejoin THEN "rejoin" ELSE "defer",
                            ![Writer(started + 1)] = "select", ![Receiver(started + 1)] = "call"]
    BY <1>1, <1>5 DEF ConnectStarts, Sets
  <2>2. \A k \in Sets : k # started + 1 =>
           pc'[Writer(k)] = pc[Writer(k)] /\ pc'[Receiver(k)] = pc[Receiver(k)]
    BY <1>1, <2>1, Kinds
  <2>3. QED
    BY <1>1, <2>1, <2>2 DEF LoopsOK
<1>6. ASSUME NEW t \in Threads, Returning(t) PROVE LoopsOK'
  BY <1>1, <1>3, <1>5, <1>6 DEF Returning, ConnectDials, ConnectFails, ConnectSucceeds, Rejoin,
     ConnectReturns, JoinSends, CloseCancels, CloseCloses, Unlocks, GoTo
<1>7. ASSUME NEW t \in Reconnects, Reconnecting(t) PROVE LoopsOK'
  BY <1>1, <1>3, <1>4, <1>6, <1>7 DEF Reconnecting, Calling, ReconnectTries, ReconnectEnds, GoTo
<1>8. ASSUME NEW g \in Goroutines, Reporting(g) PROVE LoopsOK'
  <2>1. CASE DisconnectTriggers(g) /\ Attempts # 0
    <3>1. PICK r \in Reconnects : pc' = [pc EXCEPT ![g] = Back(g), ![r] = "wait"]
      BY <2>1, UnusedFacts DEF DisconnectTriggers
    <3>2. pc[g] = "trigger" /\ UNCHANGED <<started, batch>>
      BY <2>1 DEF DisconnectTriggers
    <3>3. \A k \in Sets : /\ pc[Writer(k)] = "off" => pc'[Writer(k)] = "off"
                          /\ pc[Receiver(k)] = "off" => pc'[Receiver(k)] = "off"
      BY <1>1, <3>1, <3>2
    <3>4. QED
      BY <3>2, <3>3 DEF LoopsOK
  <2>2. CASE ~(DisconnectTriggers(g) /\ Attempts # 0)
    BY <1>2, <1>8, <2>2 DEF Reporting, HandleDisconnect, Disconnects, DisconnectUnlocks, Unlocks,
       DisconnectTriggers
  <2>3. QED
    BY <2>1, <2>2
<1>9. ASSUME NEW k \in Sets, Writing(k) PROVE LoopsOK'
  <2>1. CASE Reporting(Writer(k))
    BY <1>1, <1>8, <2>1
  <2>2. CASE ~Reporting(Writer(k))
    <3>1. /\ UNCHANGED started /\ pc[Writer(k)] # "off" /\ \E w : GoTo(Writer(k), w)
          /\ \A j \in Sets : j # k => batch'[j] = batch[j]
      BY <1>1, <1>9, <2>2 DEF Writing, WriterTakes, BatchTick, WriterWrites, WriterEnds,
         WriterDrops, WriterFails
    <3>2. QED
      BY <1>2, <3>1
  <2>3. QED
    BY <2>1, <2>2
<1>10. ASSUME NEW k \in Sets, Receiving(k) PROVE LoopsOK'
  <2>1. CASE Reporting(Receiver(k))
    BY <1>1, <1>8, <2>1
  <2>2. CASE ~Reporting(Receiver(k))
    BY <1>2, <1>10, <2>2 DEF Receiving, ReceiveTest, ReceiveUnlocked, ReceiveMessage, ReceiveFails
  <2>3. QED
    BY <2>1, <2>2
<1>11. CASE UNCHANGED vars
  BY <1>3, <1>11 DEF vars
<1>12. QED
  BY <1>1, <1>4, <1>6, <1>7, <1>9, <1>10, <1>11 DEF Next

------------------------------------------------------------------------------
(* The sections under c.mu. *)

\* No goroutine but those in Others enters or leaves a section.
Aside(Others) ==
    \A h \in Goroutines \ Others : pc'[h] = pc[h] \/ (pc[h] \notin In /\ pc'[h] \notin In)

sectionVars == <<mu, doubled, torn, stateVars, open>>

\* What a step may do with the sections: g enters one, leaves one, unlocks c.mu
\* a second time, goes on inside one, or nothing.
Enters(g) ==
    /\ Lock(g) /\ UNCHANGED <<stateVars, open>>
    /\ pc[g] \notin In /\ pc'[g] \in {"dial", "cancel", "acting", "send", "unlock"}
    /\ pc'[g] = "dial" => ~connected
    /\ pc'[g] \in {"cancel", "acting"} => connected
    /\ Aside({g})
Leaves(g) ==
    /\ Unlock(g) /\ UNCHANGED <<doubled, stateVars, open>>
    /\ pc[g] \in {"dial", "up", "down", "unlock"} /\ pc'[g] \notin In
    /\ Aside({g})
Doubles(g) ==
    /\ Unlock(g) /\ doubled' = doubled + (IF mu = None THEN 0 ELSE 1)
    /\ UNCHANGED <<stateVars, open>>
    /\ pc[g] \notin In /\ pc'[g] \notin In
    /\ Aside({g})
GoesOn(g) ==
    \/ ConnectDials(g) \/ ConnectSucceeds(g) \/ JoinSends(g) \/ CloseCloses(g) \/ Disconnects(g)
    \/ g \in Callers /\ CloseCancels(g)
Outside ==
    /\ UNCHANGED sectionVars /\ (crashed = "unlock" <=> crashed' = "unlock")
    /\ Aside({})
Sections ==
    \/ Outside
    \/ \E g \in Goroutines : Enters(g) \/ Leaves(g) \/ Doubles(g) \/ GoesOn(g)

\* Every step does one of these.
LEMMA StepSections ==
    TypeOK /\ ThreadsOK /\ LoopsOK /\ [Next]_vars => Sections
<1> SUFFICES ASSUME TypeOK, ThreadsOK, LoopsOK, [Next]_vars PROVE Sections
  OBVIOUS
<1>1. /\ pc \in [Goroutines -> Places] /\ Callers \subseteq Goroutines
      /\ Reconnects \subseteq Goroutines /\ Threads \subseteq Goroutines
      /\ Threads = Callers \cup Reconnects
      /\ \A k \in Sets : Writer(k) \in Goroutines /\ Receiver(k) \in Goroutines
      /\ \A g \in Goroutines : Back(g) \in {"idle", "select", "ended"}
  BY ControlTyped, Kinds, BackPlaces
<1>2. ASSUME NEW g \in Goroutines, NEW w, GoTo(g, w) PROVE pc'[g] = w /\ Aside({g})
  BY <1>1, <1>2 DEF GoTo, Aside
<1>3. \A w \in {"idle", "off", "wait", "connect", "rejoin", "defer", "failed", "select", "write",
                "call", "tested", "read", "report", "trigger", "ended"} : w \notin In
  BY DEF In, Midway
<1>4. ASSUME NEW g \in Goroutines, pc[g] \notin In, NEW w, w \notin In, GoTo(g, w),
             UNCHANGED sectionVars, crashed = "unlock" <=> crashed' = "unlock"
      PROVE  Sections
  BY <1>1, <1>2, <1>4 DEF Outside, Aside, Sections
<1> USE DEF stateVars, connVars, lockVars, sectionVars
<1>5. ASSUME NEW t \in Goroutines, ConnectAgain(t) \/ Connect(t) \/ OnOrOff(t) \/ Close(t)
                                   \/ \E joined \in BOOLEAN : JoinOrLeave(t, joined)
      PROVE  Sections
  <2>1. Lock(t) /\ UNCHANGED <<stateVars, open>> /\ pc[t] \notin In
    BY <1>3, <1>5 DEF ConnectAgain, Connect, OnOrOff, Close, JoinOrLeave
  <2>2. \E w \in {"dial", "cancel", "send", "unlock"} :
           GoTo(t, w) /\ (w = "dial" => ~connected) /\ (w = "cancel" => connected)
    BY <1>5 DEF ConnectAgain, Connect, OnOrOff, Close, JoinOrLeave
  <2>3. QED
    BY <1>2, <2>1, <2>2 DEF Enters, Sections
<1>6. ASSUME NEW t \in Callers, Send(t) PROVE Sections
  BY <1>6 DEF Send, RLock, Aside, Outside, Sections
<1>7. ASSUME NEW t \in Callers, Calling(t) PROVE Sections
  BY <1>1, <1>5, <1>6, <1>7 DEF Calling
<1>8. ASSUME NEW t \in Threads, ConnectStarts(t) PROVE Sections
  <2>1. started + 1 \in Sets
    BY <1>8, ControlTyped DEF ConnectStarts, Sets
  <2>2. /\ Writer(started + 1) \in Goroutines /\ Receiver(started + 1) \in Goroutines
        /\ pc[Writer(started + 1)] = "off" /\ pc[Receiver(started + 1)] = "off"
        /\ t # Writer(started + 1) /\ t # Receiver(started + 1)
    BY <2>1, Kinds, ControlTyped DEF LoopsOK
  <2>3. pc' = [pc EXCEPT ![t] = IF t \in rejoin THEN "rejoin" ELSE "defer",
                         ![Writer(started + 1)] = "select", ![Receiver(started + 1)] = "call"]
    BY <1>8 DEF ConnectStarts
  <2>4. pc'[t] \notin In /\ Aside({t})
    BY <1>1, <1>3, <2>2, <2>3 DEF Aside
  <2>5. Leaves(t)
    BY <1>8, <2>4 DEF ConnectStarts, Leaves
  <2>6. QED
    BY <1>1, <2>5 DEF Sections
<1>9. ASSUME NEW g \in Goroutines, ConnectFails(g) \/ Unlocks(g) \/ DisconnectUnlocks(g) PROVE Sections
  <2>1. /\ Unlock(g) /\ UNCHANGED <<doubled, stateVars, open>>
        /\ pc[g] \in {"dial", "up", "down", "unlock"}
    BY <1>9 DEF ConnectFails, Unlocks, DisconnectUnlocks
  <2>2. \E w : GoTo(g, w) /\ w \notin In
    BY <1>1, <1>3, <1>9 DEF ConnectFails, Unlocks, DisconnectUnlocks
  <2>3. QED
    BY <1>2, <2>1, <2>2 DEF Leaves, Sections
<1>10. ASSUME NEW t \in Threads, ConnectReturns(t) PROVE Sections
  <2>1. /\ Unlock(t) /\ doubled' = doubled + (IF mu = None THEN 0 ELSE 1)
        /\ UNCHANGED <<stateVars, open>> /\ pc[t] \notin In
    BY <1>3, <1>10 DEF ConnectReturns
  <2>2. \E w : GoTo(t, w) /\ w \notin In
    BY <1>1, <1>3, <1>10 DEF ConnectReturns
  <2>3. QED
    BY <1>1, <1>2, <2>1, <2>2 DEF Doubles, Sections
<1>11. ASSUME NEW t \in Threads, Rejoin(t) PROVE Sections
  BY <1>1, <1>3, <1>4, <1>11 DEF Rejoin, RLock
<1>12. ASSUME NEW t \in Threads, CloseCancels(t) PROVE Sections
  BY <1>1, <1>12 DEF CloseCancels, ThreadsOK, GoesOn, Sections
<1>13. ASSUME NEW t \in Threads, Returning(t) PROVE Sections
  BY <1>1, <1>8, <1>9, <1>10, <1>11, <1>12, <1>13 DEF Returning, GoesOn, Sections
<1>14. ASSUME NEW t \in Reconnects, Reconnecting(t) PROVE Sections
  <2>1. CASE ReconnectTries(t) \/ ReconnectEnds(t)
    BY <1>1, <1>3, <1>4, <2>1 DEF ReconnectTries, ReconnectEnds
  <2>2. QED
    BY <1>1, <1>5, <1>13, <1>14, <2>1 DEF Reconnecting
<1>15. ASSUME NEW g \in Goroutines, Reporting(g) PROVE Sections
  <2>1. CASE HandleDisconnect(g)
    <3>1. Lock(g) /\ UNCHANGED <<stateVars, open>> /\ pc[g] \notin In
      BY <1>3, <2>1 DEF HandleDisconnect
    <3>2. \E w \in {"acting", "unlock"} : GoTo(g, w) /\ (w = "acting" => connected)
      BY <2>1 DEF HandleDisconnect, Acts
    <3>3. QED
      BY <1>2, <3>1, <3>2 DEF Enters, Sections
  <2>2. CASE DisconnectTriggers(g)
    <3>1. Aside({})
      <4>1. CASE Attempts = 0
        BY <1>1, <1>2, <1>3, <2>2, <4>1 DEF DisconnectTriggers, Aside
      <4>2. CASE Attempts # 0
        <5>1. PICK r \in Reconnects : pc[r] = "off" /\ pc' = [pc EXCEPT ![g] = Back(g), ![r] = "wait"]
          BY <2>2, <4>2, UnusedFacts DEF DisconnectTriggers
        <5>2. pc[g] = "trigger"
          BY <2>2 DEF DisconnectTriggers
        <5>3. QED
          BY <1>1, <1>3, <5>1, <5>2 DEF Aside
      <4>3. QED
        BY <4>1, <4>2
    <3>2. QED
      BY <2>2, <3>1 DEF DisconnectTriggers, RLock, Outside, Sections
  <2>3. QED
    BY <1>9, <1>15, <2>1, <2>2 DEF Reporting, GoesOn, Sections
<1>16. ASSUME NEW k \in Sets, Writing(k) PROVE Sections
  <2>1. CASE Reporting(Writer(k))
    BY <1>1, <1>15, <2>1
  <2>2. CASE ~Reporting(Writer(k))
    <3>1. /\ UNCHANGED sectionVars /\ crashed' = crashed /\ pc[Writer(k)] \notin In
          /\ \E w : GoTo(Writer(k), w) /\ w \notin In
      BY <1>3, <1>16, <2>2 DEF Writing, WriterTakes, BatchTick, WriterWrites, WriterEnds,
         WriterDrops, WriterFails, RLock
    <3>2. QED
      BY <1>1, <1>4, <3>1
  <2>3. QED
    BY <2>1, <2>2
<1>17. ASSUME NEW k \in Sets, crashed = "no", Receiving(k) PROVE Sections
  <2>1. CASE Reporting(Receiver(k))
    BY <1>1, <1>15, <2>1
  <2>2. CASE ~Reporting(Receiver(k))
    <3>1. /\ UNCHANGED sectionVars /\ crashed' # "unlock" /\ pc[Receiver(k)] \notin In
          /\ \E w : GoTo(Receiver(k), w) /\ w \notin In
      BY <1>3, <1>17, <2>2 DEF Receiving, ReceiveTest, ReceiveUnlocked, ReceiveMessage,
         ReceiveFails, RLock
    <3>2. QED
      BY <1>1, <1>4, <1>17, <3>1
  <2>3. QED
    BY <2>1, <2>2
<1>18. CASE UNCHANGED vars
  BY <1>18 DEF vars, Outside, Aside, Sections
<1>19. QED
  BY <1>1, <1>7, <1>13, <1>14, <1>16, <1>17, <1>18 DEF Next

\* What a step that goes on inside a section does.
LEMMA GoesOnFacts ==
    ASSUME TypeOK, NEW g \in Goroutines, GoesOn(g)
    PROVE  /\ pc[g] \in In /\ pc'[g] \in In
           /\ UNCHANGED lockVars /\ \A h \in Goroutines : h # g => pc'[h] = pc[h]
           /\ \/ /\ pc[g] = "dial" /\ pc'[g] = "dialled" /\ (open \/ ~cancelled) /\ open'
                 /\ UNCHANGED stateVars
              \/ /\ pc[g] = "dialled" /\ pc'[g] = "up" /\ connected' /\ connects' = connects + 1
                 /\ UNCHANGED <<cancelled, reports, open>>
              \/ /\ pc[g] = "send" /\ pc'[g] = "unlock" /\ UNCHANGED <<stateVars, open>>
              \/ /\ g \in Callers /\ pc[g] = "cancel" /\ pc'[g] = "closing"
                 /\ cancelled' /\ ~connected' /\ UNCHANGED <<connects, reports, open>>
              \/ /\ pc[g] = "closing" /\ pc'[g] = "unlock" /\ ~open' /\ UNCHANGED stateVars
              \/ /\ pc[g] = "acting" /\ pc'[g] = "down" /\ ~connected' /\ reports' = reports + 1
                 /\ UNCHANGED <<cancelled, connects, open>>
<1>1. pc \in [Goroutines -> Places]
  BY ControlTyped
<1>2. \A w \in {"dial", "dialled", "up", "send", "unlock", "cancel", "closing", "acting", "down"} : w \in In
  BY DEF In, Midway
<1>3. QED
  BY <1>1, <1>2 DEF GoesOn, ConnectDials, ConnectSucceeds, JoinSends, CloseCancels, CloseCloses,
     Disconnects, Dials, GoTo, RLock, lockVars, stateVars, connVars

\* Who is in a section after a step.
LEMMA InsideStep ==
    ASSUME TypeOK, Sections
    PROVE  /\ Outside => Inside' = Inside
           /\ \A g \in Goroutines : /\ Enters(g) => g \notin Inside /\ Inside' = Inside \cup {g}
                                    /\ Leaves(g) => g \in Inside /\ Inside' = Inside \ {g}
                                    /\ Doubles(g) => Inside' = Inside
                                    /\ GoesOn(g) => Inside' = Inside
<1>1. Inside = {g \in Goroutines : pc[g] \in In} /\ Inside' = {g \in Goroutines : pc'[g] \in In}
  BY DEF Inside, In
<1>2. \A w \in {"dial", "cancel", "acting", "send", "up", "down", "unlock"} : w \in In
  BY DEF In, Midway
<1>3. Outside => Inside' = Inside
  BY <1>1 DEF Outside, Aside
<1>4. ASSUME NEW g \in Goroutines, Enters(g) PROVE g \notin Inside /\ Inside' = Inside \cup {g}
  BY <1>1, <1>2, <1>4 DEF Enters, Aside
<1>5. ASSUME NEW g \in Goroutines, Leaves(g) PROVE g \in Inside /\ Inside' = Inside \ {g}
  BY <1>1, <1>2, <1>5 DEF Leaves, Aside
<1>6. ASSUME NEW g \in Goroutines, Doubles(g) PROVE Inside' = Inside
  BY <1>1, <1>6 DEF Doubles, Aside
<1>7. ASSUME NEW g \in Goroutines, GoesOn(g) PROVE Inside' = Inside
  BY <1>1, <1>7, GoesOnFacts
<1>8. QED
  BY <1>3, <1>4, <1>5, <1>6, <1>7

\* An Unlock takes one from those in a section or adds one to the second
\* Unlocks, and with nobody in one it ends the program.
LEMMA LockStep ==
    TypeOK /\ IsFiniteSet(Inside) /\ LockAccounted /\ Sections =>
        IsFiniteSet(Inside)' /\ LockAccounted'
<1> SUFFICES ASSUME TypeOK, IsFiniteSet(Inside), LockAccounted, Sections
             PROVE  IsFiniteSet(Inside') /\ LockAccounted'
  OBVIOUS
<1>1. /\ mu \in Goroutines \cup {None} /\ None \notin Goroutines /\ doubled \in Nat
      /\ Cardinality(Inside) \in Nat
  BY ControlTyped, Kinds, FS_CardinalityType
<1>2. CASE Outside
  BY <1>2, InsideStep DEF Outside, sectionVars, LockAccounted
<1>3. ASSUME NEW g \in Goroutines, Enters(g) PROVE IsFiniteSet(Inside') /\ LockAccounted'
  <2>1. /\ mu = None /\ mu' = g /\ UNCHANGED <<crashed, doubled>>
        /\ g \notin Inside /\ Inside' = Inside \cup {g}
    BY <1>3, InsideStep DEF Enters, Lock
  <2>2. IsFiniteSet(Inside') /\ Cardinality(Inside') = Cardinality(Inside) + 1
    BY <2>1, FS_AddElement
  <2>3. QED
    BY <1>1, <2>1, <2>2 DEF LockAccounted
<1>4. ASSUME NEW g \in Goroutines, Leaves(g) PROVE IsFiniteSet(Inside') /\ LockAccounted'
  <2>1. /\ crashed' = (IF mu = None THEN "unlock" ELSE crashed) /\ mu' = None /\ doubled' = doubled
        /\ g \in Inside /\ Inside' = Inside \ {g}
    BY <1>4, InsideStep DEF Leaves, Unlock
  <2>2. IsFiniteSet(Inside') /\ Cardinality(Inside') = Cardinality(Inside) - 1
    BY <2>1, FS_RemoveElement
  <2>3. QED
    BY <1>1, <2>1, <2>2 DEF LockAccounted
<1>5. ASSUME NEW g \in Goroutines, Doubles(g) PROVE IsFiniteSet(Inside') /\ LockAccounted'
  <2>1. /\ crashed' = (IF mu = None THEN "unlock" ELSE crashed) /\ mu' = None
        /\ doubled' = doubled + (IF mu = None THEN 0 ELSE 1) /\ Inside' = Inside
    BY <1>5, InsideStep DEF Doubles, Unlock
  <2>2. QED
    BY <1>1, <2>1 DEF LockAccounted
<1>6. ASSUME NEW g \in Goroutines, GoesOn(g) PROVE IsFiniteSet(Inside') /\ LockAccounted'
  BY <1>6, GoesOnFacts, InsideStep DEF LockAccounted, lockVars
<1>7. QED
  BY <1>2, <1>3, <1>4, <1>5, <1>6 DEF Sections

\* What a goroutine that is halfway has found still holds, a closed client stays
\* closed, and every end is counted once: the three hold each other up.
EndsOK == MidwayOK /\ ClosedIsFinal /\ EndsAccounted

LEMMA EndsStep == TypeOK /\ LockAccounted /\ EndsOK /\ Sections => EndsOK'
<1> SUFFICES ASSUME TypeOK, LockAccounted, EndsOK, Sections PROVE EndsOK'
  OBVIOUS
<1>1. /\ connects \in Nat /\ reports \in Nat /\ {torn, connected, cancelled, open} \subseteq BOOLEAN
      /\ mu \in Goroutines \cup {None} /\ None \notin Goroutines /\ Callers \subseteq Goroutines
      /\ MidwayOK /\ ClosedIsFinal /\ EndsAccounted
  BY ControlTyped, Kinds DEF EndsOK
<1>2. /\ "closing" \in Midway /\ \A w \in Midway : w \in In
      /\ Midway = {"dial", "dialled", "cancel", "closing", "acting"}
  BY DEF In, Midway
<1> USE DEF stateVars
\* A step outside the sections, or that enters or leaves one.
<1>3. ASSUME UNCHANGED <<stateVars, open>>, torn => torn',
             ~torn' => \A h \in Goroutines : pc'[h] \in Midway =>
                \/ pc[h] = pc'[h] /\ mu' = mu
                \/ /\ pc[h] \notin Midway /\ mu' = h /\ pc'[h] \in {"dial", "cancel", "acting"}
                   /\ (pc'[h] = "dial" => ~connected)
                   /\ (pc'[h] \in {"cancel", "acting"} => connected),
             \A h \in Callers : pc[h] = "closing" => pc'[h] = "closing"
      PROVE  EndsOK'
  <2>1. MidwayOK'
    BY <1>1, <1>2, <1>3 DEF MidwayOK
  <2>2. ClosedIsFinal'
    BY <1>1, <1>3 DEF ClosedIsFinal
  <2>3. EndsAccounted'
    BY <1>1, <1>3 DEF EndsAccounted
  <2>4. QED
    BY <2>1, <2>2, <2>3 DEF EndsOK
<1>4. CASE Outside
  <2>1. UNCHANGED <<mu, torn, stateVars, open>>
    BY <1>4 DEF Outside, sectionVars
  <2>2. \A h \in Goroutines : pc'[h] = pc[h] \/ (pc[h] \notin Midway /\ pc'[h] \notin Midway)
    BY <1>2, <1>4 DEF Outside, Aside
  <2>3. \A h \in Callers : pc[h] = "closing" => pc'[h] = "closing"
    BY <1>1, <1>2, <2>2
  <2>4. \A h \in Goroutines : pc'[h] \in Midway => pc[h] = pc'[h] /\ mu' = mu
    BY <2>1, <2>2
  <2>5. QED
    BY <1>3, <2>1, <2>3, <2>4
<1>5. ASSUME NEW g \in Goroutines, Enters(g) PROVE EndsOK'
  <2>1. /\ mu = None /\ mu' = g /\ torn' = torn /\ UNCHANGED <<stateVars, open>>
        /\ pc[g] \notin In /\ pc'[g] \in {"dial", "cancel", "acting", "send", "unlock"}
        /\ pc'[g] = "dial" => ~connected
        /\ pc'[g] \in {"cancel", "acting"} => connected
        /\ Aside({g})
    BY <1>5 DEF Enters, Lock
  <2>2. ~torn => \A h \in Goroutines : pc[h] \notin Midway
    BY <1>1, <2>1 DEF MidwayOK
  <2>3. \A h \in Goroutines : h # g /\ pc'[h] \in Midway => pc[h] = pc'[h]
    BY <1>2, <2>1 DEF Aside
  <2>4. \A h \in Callers : pc[h] = "closing" => pc'[h] = "closing"
    BY <1>1, <1>2, <2>1 DEF Aside
  <2>5. QED
    BY <1>2, <1>3, <2>1, <2>2, <2>3, <2>4
\* An Unlock by somebody who is not halfway.
<1>6. ASSUME NEW g \in Goroutines, Unlock(g), UNCHANGED <<stateVars, open>>, pc'[g] \notin In,
             pc[g] # "closing", Aside({g})
      PROVE  EndsOK'
  <2>1. torn => torn'
    BY <1>6 DEF Unlock
  <2>2. \A h \in Goroutines : h # g /\ pc'[h] \in Midway => pc[h] = pc'[h]
    BY <1>2, <1>6 DEF Aside
  <2>3. ~torn' => \A h \in Goroutines : pc'[h] \notin Midway
    <3> SUFFICES ASSUME ~torn', NEW h \in Goroutines, pc'[h] \in Midway PROVE FALSE
      OBVIOUS
    <3>1. h # g /\ pc[h] \in Midway /\ ~torn
      BY <1>2, <1>6, <2>1, <2>2
    <3>2. mu = h
      BY <1>1, <3>1 DEF MidwayOK
    <3>3. QED
      BY <1>1, <1>6, <3>1, <3>2 DEF Unlock
  <2>4. \A h \in Callers : pc[h] = "closing" => pc'[h] = "closing"
    BY <1>1, <1>2, <1>6 DEF Aside
  <2>5. QED
    BY <1>3, <1>6, <2>1, <2>3, <2>4
<1>7. ASSUME NEW g \in Goroutines, Leaves(g) \/ Doubles(g) PROVE EndsOK'
  BY <1>2, <1>6, <1>7 DEF Leaves, Doubles
<1>8. ASSUME NEW g \in Goroutines, GoesOn(g) PROVE EndsOK'
  <2>1. /\ mu' = mu /\ torn' = torn /\ \A h \in Goroutines : h # g => pc'[h] = pc[h]
    BY <1>8, GoesOnFacts DEF lockVars
  <2>2. ~torn /\ pc[g] \in Midway => \A h \in Goroutines : h # g => pc[h] \notin Midway
    BY <1>1 DEF MidwayOK
  <2>3. CASE /\ pc[g] = "dial" /\ pc'[g] = "dialled" /\ (open \/ ~cancelled) /\ open'
             /\ UNCHANGED stateVars
    <3>1. ~torn => ~cancelled
      <4>1. ~torn => \A h \in Callers : pc[h] # "closing"
        BY <1>1, <1>2, <2>2, <2>3
      <4>2. QED
        BY <1>1, <2>3, <4>1 DEF ClosedIsFinal
    <3>2. MidwayOK'
      BY <1>1, <1>2, <2>1, <2>2, <2>3, <3>1 DEF MidwayOK
    <3>3. cancelled => open /\ \E h \in Callers : h # g /\ pc[h] = "closing"
      BY <1>1, <2>3 DEF ClosedIsFinal
    <3>4. ClosedIsFinal'
      BY <1>1, <2>1, <2>3, <3>3 DEF ClosedIsFinal
    <3>5. EndsAccounted'
      BY <1>1, <2>1, <2>3 DEF EndsAccounted
    <3>6. QED
      BY <3>2, <3>4, <3>5 DEF EndsOK
  <2>4. CASE /\ pc[g] = "dialled" /\ pc'[g] = "up" /\ connected' /\ connects' = connects + 1
             /\ UNCHANGED <<cancelled, reports, open>>
    <3>1. ~torn => ~cancelled /\ ~connected
      BY <1>1, <2>4 DEF MidwayOK
    <3>2. MidwayOK'
      BY <1>2, <2>1, <2>2, <2>4 DEF MidwayOK
    <3>3. ClosedIsFinal'
      <4>1. \A h \in Callers : pc[h] = "closing" => pc'[h] = "closing"
        BY <1>1, <2>1, <2>4
      <4>2. QED
        BY <1>1, <2>1, <2>4, <3>1, <4>1 DEF ClosedIsFinal
    <3>4. EndsAccounted'
      BY <1>1, <2>1, <2>4, <3>1 DEF EndsAccounted
    <3>5. QED
      BY <3>2, <3>3, <3>4 DEF EndsOK
  <2>5. CASE pc[g] = "send" /\ pc'[g] = "unlock" /\ UNCHANGED <<stateVars, open>>
    BY <1>1, <1>2, <1>3, <2>1, <2>5
  <2>6. CASE /\ g \in Callers /\ pc[g] = "cancel" /\ pc'[g] = "closing"
             /\ cancelled' /\ ~connected' /\ UNCHANGED <<connects, reports, open>>
    <3>1. ~torn => connected /\ ~cancelled
      BY <1>1, <2>6 DEF MidwayOK, ClosedIsFinal
    <3>2. MidwayOK'
      BY <1>1, <1>2, <2>1, <2>2, <2>6 DEF MidwayOK
    <3>3. ClosedIsFinal'
      BY <2>6 DEF ClosedIsFinal
    <3>4. EndsAccounted'
      BY <1>1, <2>1, <2>6, <3>1 DEF EndsAccounted
    <3>5. QED
      BY <3>2, <3>3, <3>4 DEF EndsOK
  <2>7. CASE pc[g] = "closing" /\ pc'[g] = "unlock" /\ ~open' /\ UNCHANGED stateVars
    <3>1. MidwayOK'
      BY <1>1, <1>2, <2>1, <2>2, <2>7 DEF MidwayOK
    <3>2. ClosedIsFinal' /\ EndsAccounted'
      BY <1>1, <2>1, <2>7 DEF ClosedIsFinal, EndsAccounted
    <3>3. QED
      BY <3>1, <3>2 DEF EndsOK
  <2>8. CASE /\ pc[g] = "acting" /\ pc'[g] = "down" /\ ~connected' /\ reports' = reports + 1
             /\ UNCHANGED <<cancelled, connects, open>>
    <3>1. ~torn => connected
      BY <1>1, <2>8 DEF MidwayOK
    <3>2. MidwayOK'
      BY <1>2, <2>1, <2>2, <2>8 DEF MidwayOK
    <3>3. ClosedIsFinal'
      <4>1. \A h \in Callers : pc[h] = "closing" => pc'[h] = "closing"
        BY <1>1, <2>1, <2>8
      <4>2. QED
        BY <1>1, <2>1, <2>8, <4>1 DEF ClosedIsFinal
    <3>4. EndsAccounted'
      BY <1>1, <2>1, <2>8, <3>1 DEF EndsAccounted
    <3>5. QED
      BY <3>2, <3>3, <3>4 DEF EndsOK
  <2>9. QED
    BY <1>8, <2>3, <2>4, <2>5, <2>6, <2>7, <2>8, GoesOnFacts
<1>9. QED
  BY <1>4, <1>5, <1>7, <1>8 DEF Sections


------------------------------------------------------------------------------
(* The flow of messages. *)

\* What a step may do with the messages: nothing, start a second place where
\* they are taken, accept one, hand one to a loop, drop one there, or empty a
\* loop, with the first of its messages written and the others lost.
flowVars == <<wire, buffer, accepted, batch, started>>
Stays == UNCHANGED flowVars
Starts == started' = started + 1 /\ UNCHANGED <<wire, buffer, accepted, batch>>
GoesIn ==
    /\ accepted < MaxMessages /\ accepted' = accepted + 1
    /\ buffer' = Append(buffer, accepted + 1)
    /\ UNCHANGED <<wire, batch, started>>
IsTaken(k) ==
    /\ pc[Writer(k)] # "off" /\ buffer # <<>> /\ buffer' = Tail(buffer)
    /\ batch' = [batch EXCEPT ![k] = Append(batch[k], Head(buffer))]
    /\ UNCHANGED <<wire, accepted, started>>
IsDropped(k, i) ==
    /\ batch' = [batch EXCEPT ![k] = RemoveAt(batch[k], i)]
    /\ UNCHANGED <<wire, buffer, accepted, started>>
GoOut(k, n) ==
    /\ pc[Writer(k)] # "off" /\ wire' = wire \o SubSeq(batch[k], 1, n)
    /\ batch' = [batch EXCEPT ![k] = <<>>]
    /\ UNCHANGED <<buffer, accepted, started>>
Moves ==
    \/ Stays \/ Starts \/ GoesIn
    \/ \E k \in Sets : \/ IsTaken(k)
                       \/ \E i \in DOMAIN batch[k] : IsDropped(k, i)
                       \/ \E n \in 0..Len(batch[k]) : GoOut(k, n)

\* The types the flow of messages rests on.
LEMMA FlowTyped ==
    ASSUME TypeOK
    PROVE  /\ batch \in [Sets -> Seq(1..MaxMessages)]
           /\ wire \in Seq(1..MaxMessages) /\ buffer \in Seq(1..MaxMessages)
           /\ accepted \in Nat /\ started \in Nat
           /\ Sets \subseteq Nat \ {0} /\ MaxMessages \in Nat /\ 1..MaxMessages \in SUBSET Nat
  BY ClientAssumption DEF TypeOK, Sets

\* With one set of loops, one loop at most has messages.
LEMMA OneLoopHolds ==
    ASSUME TypeOK, LoopsOK, NEW k \in Sets, pc[Writer(k)] # "off", started <= 1
    PROVE  \A j \in Sets : j # k => batch[j] = <<>>
<1>1. \A i \in Sets : i > started => pc[Writer(i)] = "off" /\ batch[i] = <<>>
  BY DEF LoopsOK
<1>2. started \in Nat /\ Sets \subseteq Nat \ {0}
  BY FlowTyped
<1>3. k <= started
  BY <1>1, <1>2
<1>4. ASSUME NEW j \in Sets, j # k PROVE j > started
  BY <1>2, <1>3, <1>4
<1>5. QED
  BY <1>1, <1>4

\* Every step moves the messages in one of these ways.
LEMMA StepMoves == TypeOK /\ [Next]_vars => Moves
<1> SUFFICES ASSUME TypeOK, [Next]_vars PROVE Moves
  OBVIOUS
<1> DEFINE Msgs == Seq(1..MaxMessages)
<1>1. batch \in [Sets -> Msgs] /\ wire \in Msgs /\ MaxMessages \in Nat
  BY FlowTyped
<1>2. CASE Stays
  BY <1>2 DEF Moves
<1> USE DEF sendVars, loopVars, connVars
<1>3. ASSUME NEW t, ConnectAgain(t) \/ Connect(t) \/ OnOrOff(t) \/ Close(t)
                    \/ \E joined \in BOOLEAN : JoinOrLeave(t, joined)
      PROVE  Stays
  BY <1>3 DEF ConnectAgain, Connect, OnOrOff, Close, JoinOrLeave, Stays, flowVars
<1>4. ASSUME Accept, UNCHANGED <<wire, batch, started>> PROVE Moves
  <2>1. CASE Accepts
    BY <1>4, <2>1 DEF Accept, Accepts, Moves, GoesIn
  <2>2. CASE ~Accepts
    BY <1>2, <1>4, <2>2 DEF Accept, Stays, flowVars
  <2>3. QED
    BY <2>1, <2>2
<1>5. ASSUME NEW t, Send(t) \/ JoinSends(t) \/ Rejoin(t) PROVE Moves
  BY <1>4, <1>5 DEF Send, JoinSends, Rejoin
<1>6. ASSUME NEW t, Unlocks(t) PROVE Stays
  BY <1>6 DEF Unlocks, Stays, flowVars
<1>7. ASSUME NEW t, ConnectStarts(t) PROVE Starts
  BY <1>7 DEF ConnectStarts, Starts
<1>8. ASSUME NEW t, Returning(t) PROVE Moves
  <2>1. CASE ConnectStarts(t) \/ Rejoin(t) \/ JoinSends(t) \/ Unlocks(t)
    BY <1>2, <1>5, <1>6, <1>7, <2>1 DEF Moves
  <2>2. CASE ~(ConnectStarts(t) \/ Rejoin(t) \/ JoinSends(t) \/ Unlocks(t))
    BY <1>2, <1>8, <2>2 DEF Returning, ConnectDials, ConnectFails, ConnectSucceeds,
       ConnectReturns, CloseCancels, CloseCloses, Stays, flowVars
  <2>3. QED
    BY <2>1, <2>2
<1>9. ASSUME NEW t, Reconnecting(t) PROVE Moves
  <2>1. CASE ReconnectTries(t) \/ ReconnectEnds(t)
    BY <1>2, <2>1 DEF ReconnectTries, ReconnectEnds, Stays, flowVars
  <2>2. QED
    BY <1>2, <1>3, <1>8, <1>9, <2>1 DEF Reconnecting
<1>10. ASSUME NEW t, Calling(t) PROVE Moves
  BY <1>2, <1>3, <1>5, <1>10 DEF Calling
<1>11. ASSUME NEW g, Reporting(g) PROVE Stays
  BY <1>6, <1>11 DEF Reporting, HandleDisconnect, Disconnects, DisconnectUnlocks,
     DisconnectTriggers, Stays, flowVars
<1>12. ASSUME NEW k \in Sets, WriterTakes(k) PROVE Moves
  <2>1. IsTaken(k)
    BY <1>12 DEF WriterTakes, IsTaken
  <2>2. QED
    BY <2>1 DEF Moves
<1>13. ASSUME NEW k \in Sets, BatchTick(k) PROVE Stays
  BY <1>13 DEF BatchTick, Stays, flowVars
<1>14. ASSUME NEW k \in Sets, NEW i, WriterDrops(k, i) PROVE Moves
  <2>1. i \in DOMAIN batch[k] /\ IsDropped(k, i)
    BY <1>14 DEF WriterDrops, IsDropped
  <2>2. QED
    BY <2>1 DEF Moves
<1>15. ASSUME NEW k \in Sets, WriterWrites(k) PROVE Moves
  <2>1. /\ pc[Writer(k)] = "write" /\ wire' = wire \o batch[k]
        /\ batch' = [batch EXCEPT ![k] = <<>>]
        /\ UNCHANGED <<buffer, accepted, started>>
    BY <1>15 DEF WriterWrites
  <2>2. batch[k] \in Msgs
    BY <1>1
  <2>3. Len(batch[k]) \in 0..Len(batch[k]) /\ batch[k] = SubSeq(batch[k], 1, Len(batch[k]))
    BY <2>2
  <2>4. GoOut(k, Len(batch[k]))
    BY <2>1, <2>3 DEF GoOut
  <2>5. QED
    BY <2>3, <2>4 DEF Moves
<1>16. ASSUME NEW k \in Sets, NEW n \in 0..MaxMessages, WriterFails(k, n) PROVE Moves
  <2>1. /\ pc[Writer(k)] = "write" /\ n < Len(batch[k])
        /\ wire' = wire \o SubSeq(batch[k], 1, n) /\ batch' = [batch EXCEPT ![k] = <<>>]
        /\ UNCHANGED <<buffer, accepted, started>>
    BY <1>16 DEF WriterFails
  <2>2. batch[k] \in Msgs /\ Len(batch[k]) \in Nat /\ n \in Nat
    BY <1>1
  <2>3. n \in 0..Len(batch[k])
    BY <2>1, <2>2
  <2>4. GoOut(k, n)
    BY <2>1 DEF GoOut
  <2>5. QED
    BY <2>3, <2>4 DEF Moves
<1>17. ASSUME NEW k \in Sets, WriterEnds(k) PROVE Moves
  <2>1. /\ pc[Writer(k)] = "select" /\ batch' = [batch EXCEPT ![k] = <<>>]
        /\ UNCHANGED <<wire, buffer, accepted, started>>
    BY <1>17 DEF WriterEnds
  <2>2. batch[k] \in Msgs
    BY <1>1
  <2>3. 0 \in 0..Len(batch[k]) /\ SubSeq(batch[k], 1, 0) = <<>>
    BY <2>2
  <2>4. wire = wire \o <<>>
    BY <1>1
  <2>5. GoOut(k, 0)
    BY <2>1, <2>3, <2>4 DEF GoOut
  <2>6. QED
    BY <2>3, <2>5 DEF Moves
<1>18. ASSUME NEW k \in Sets, Receiving(k) PROVE Stays
  BY <1>11, <1>18 DEF Receiving, ReceiveTest, ReceiveUnlocked, ReceiveMessage, ReceiveFails,
      Stays, flowVars
<1>19. CASE UNCHANGED vars
  BY <1>2, <1>19 DEF vars, Stays, flowVars
<1>20. QED
  BY <1>2, <1>8, <1>9, <1>10, <1>11, <1>12, <1>13, <1>14, <1>15, <1>16, <1>17, <1>18, <1>19
     DEF Next, Writing

\* A message goes from the buffer to one loop and from there to the wire or
\* nowhere.
LEMMA FlowStep == ClientInv /\ [Next]_vars => FlowOK' /\ LineOK'
<1> SUFFICES ASSUME ClientInv, [Next]_vars PROVE FlowOK' /\ LineOK'
  OBVIOUS
<1>0. TypeOK /\ LoopsOK /\ FlowOK /\ LineOK /\ Moves
  BY StepMoves DEF ClientInv
<1> DEFINE Msgs == Seq(1..MaxMessages)
<1>1. /\ wire \in Msgs /\ buffer \in Msgs /\ batch \in [Sets -> Msgs]
      /\ accepted \in Nat /\ started \in Nat /\ 1..MaxMessages \in SUBSET Nat
  BY <1>0, FlowTyped
<1>2. CASE Stays
  BY <1>0, <1>2 DEF FlowOK, LineOK, Stays, flowVars
<1>3. CASE Starts
  <2>1. started' <= 1 => started <= 1
    BY <1>1, <1>3 DEF Starts
  <2>2. QED
    BY <1>0, <1>3, <2>1 DEF FlowOK, LineOK, Starts
<1>4. CASE GoesIn
  <2>1. /\ Flow(wire, buffer', batch, accepted')
        /\ InLine(wire, buffer, batch) => InLine(wire, buffer', batch)
    BY <1>0, <1>1, <1>4, FlowAccept DEF FlowOK, GoesIn
  <2>2. QED
    BY <1>0, <1>4, <2>1 DEF FlowOK, LineOK, GoesIn
<1>5. ASSUME NEW k \in Sets, IsTaken(k) PROVE FlowOK' /\ LineOK'
  <2>1. /\ Flow(wire, Tail(buffer), batch', accepted)
        /\ InLine(wire, buffer, batch) /\ (\A j \in Sets : j # k => batch[j] = <<>>)
             => InLine(wire, Tail(buffer), batch')
    BY <1>0, <1>1, <1>5, FlowTake DEF FlowOK, IsTaken
  <2>2. started <= 1 => \A j \in Sets : j # k => batch[j] = <<>>
    BY <1>0, <1>5, OneLoopHolds DEF IsTaken
  <2>3. QED
    BY <1>0, <1>5, <2>1, <2>2 DEF FlowOK, LineOK, IsTaken
<1>6. ASSUME NEW k \in Sets, NEW i \in DOMAIN batch[k], IsDropped(k, i) PROVE FlowOK' /\ LineOK'
  <2> DEFINE r == RemoveAt(batch[k], i)
  <2>1. /\ ToSet(r) \subseteq ToSet(batch[k])
        /\ IsInjective(batch[k]) => IsInjective(r)
        /\ Ordered(batch[k]) => Ordered(r)
    <3>1. batch[k] \in Msgs
      BY <1>1
    <3>2. QED
      BY <1>1, <3>1, RemoveFacts
  <2>2. batch' = [batch EXCEPT ![k] = r]
    BY <1>6 DEF IsDropped
  <2> HIDE DEF r
  <2>3. /\ Flow(wire, buffer, batch', accepted)
        /\ InLine(wire, buffer, batch) => InLine(wire, buffer, batch')
    BY <1>0, <1>1, <2>1, <2>2, FlowDrop DEF FlowOK
  <2>4. QED
    BY <1>0, <1>6, <2>3 DEF FlowOK, LineOK, IsDropped
<1>7. ASSUME NEW k \in Sets, NEW n \in 0..Len(batch[k]), GoOut(k, n) PROVE FlowOK' /\ LineOK'
  <2> DEFINE q == SubSeq(batch[k], 1, n)
  <2>1. /\ q \in Msgs /\ ToSet(q) \subseteq ToSet(batch[k])
        /\ IsInjective(batch[k]) => IsInjective(q)
        /\ Ordered(batch[k]) => Ordered(q)
    BY <1>1, PrefixFacts
  <2>2. wire' = wire \o q /\ batch' = [batch EXCEPT ![k] = <<>>]
    BY <1>7 DEF GoOut
  <2> HIDE DEF q
  <2>3. /\ Flow(wire \o q, buffer, batch', accepted)
        /\ InLine(wire, buffer, batch) /\ (\A j \in Sets : j # k => batch[j] = <<>>)
             => InLine(wire \o q, buffer, batch')
    BY <1>0, <1>1, <2>1, <2>2, FlowWrite DEF FlowOK
  <2>4. started <= 1 => \A j \in Sets : j # k => batch[j] = <<>>
    BY <1>0, <1>7, OneLoopHolds DEF GoOut
  <2>5. QED
    BY <1>0, <1>7, <2>2, <2>3, <2>4 DEF FlowOK, LineOK, GoOut
<1>8. QED
  BY <1>0, <1>2, <1>3, <1>4, <1>5, <1>6, <1>7 DEF Moves

------------------------------------------------------------------------------
(* The theorems. *)

\* A new client has no message, and nobody is in a section.
LEMMA InitInv == Init => ClientInv
<1> SUFFICES ASSUME Init PROVE ClientInv
  OBVIOUS
<1>1. <<>> \in Seq(1..MaxMessages) /\ Len(<<>>) = 0
  OBVIOUS
<1>2. pc \in [Goroutines -> ThreadPlaces \cup LoopPlaces] /\ attempts \in [Reconnects -> 0..Attempts]
  BY ClientAssumption DEF Init, ThreadPlaces, LoopPlaces
<1>3. batch \in [Sets -> Seq(1..MaxMessages)]
  BY <1>1 DEF Init
<1>4. /\ {connects, reports, started} \subseteq 0..Connects /\ accepted \in 0..MaxMessages
      /\ Len(buffer) <= BufferSize
  BY <1>1, ClientAssumption DEF Init
<1>5. TypeOK
  BY <1>1, <1>2, <1>3, <1>4 DEF Init, TypeOK
<1>6. ThreadsOK
  <2>1. \A t \in Reconnects : t \in Goroutines /\ t \notin Callers
    BY Kinds
  <2>2. QED
    BY <2>1 DEF Init, ThreadsOK
<1>7. LoopsOK
  <2>1. \A k \in Sets : /\ Writer(k) \in Goroutines /\ Receiver(k) \in Goroutines
                        /\ Writer(k) \notin Callers /\ Receiver(k) \notin Callers
    BY Kinds
  <2>2. QED
    BY <2>1 DEF Init, LoopsOK
<1>8. \A g \in Goroutines : pc[g] \in {"idle", "off"}
  BY DEF Init
<1>9. IsFiniteSet(Inside) /\ LockAccounted
  <2>1. Inside = {}
    BY <1>8 DEF Inside, Midway
  <2>2. QED
    BY <2>1, FS_EmptySet DEF Init, LockAccounted
<1>10. MidwayOK /\ ClosedIsFinal /\ EndsAccounted
  BY <1>8 DEF Init, MidwayOK, Midway, ClosedIsFinal, EndsAccounted
<1>11. FlowOK /\ LineOK
  BY EmptyFacts DEF Init, FlowOK, LineOK, Flow, InLine
<1>12. QED
  BY <1>5, <1>6, <1>7, <1>9, <1>10, <1>11 DEF ClientInv

\* ClientInv is inductive.
LEMMA Invariance == Spec => []ClientInv
<1>1. ClientInv /\ [Next]_vars => ClientInv'
  <2> SUFFICES ASSUME ClientInv, [Next]_vars PROVE ClientInv'
    OBVIOUS
  <2>1. TypeOK /\ ThreadsOK /\ LoopsOK /\ IsFiniteSet(Inside) /\ LockAccounted /\ EndsOK /\ Sections
    BY StepSections DEF ClientInv, EndsOK
  <2>2. TypeOK' /\ ThreadsOK' /\ LoopsOK'
    BY <2>1, TypeStep, ThreadsStep, LoopsStep
  <2>3. IsFiniteSet(Inside)' /\ LockAccounted'
    BY <2>1, LockStep
  <2>4. EndsOK'
    BY <2>1, EndsStep
  <2>5. FlowOK' /\ LineOK'
    BY FlowStep
  <2>6. QED
    BY <2>2, <2>3, <2>4, <2>5 DEF ClientInv, EndsOK
<1>2. QED
  BY InitInv, <1>1, PTL DEF Spec

\* Fields, locals and channels keep the code's types: no channel overflows, and
\* no reconnect goroutine makes more than reconnectAttempts attempts.
THEOREM TypeCorrect == Spec => []TypeOK
<1>1. ClientInv => TypeOK
  BY DEF ClientInv
<1>2. QED
  BY <1>1, Invariance, PTL

\* c.mu is never left locked by a goroutine that has gone on, and only a second
\* Unlock of a Connect lets another goroutine into a section that is in use:
\* one for each of them, however the goroutines interleave.
THEOREM LockIsAccounted == Spec => []LockAccounted
<1>1. ClientInv => LockAccounted
  BY DEF ClientInv
<1>2. QED
  BY <1>1, Invariance, PTL

\* Every Connect that got through is ended by one report of handleDisconnect or
\* by Close, never by both, unless a second Unlock has taken c.mu from one of
\* them between its test of connected and its change.
THEOREM EveryEndCounts == Spec => []EndsAccounted
<1>1. ClientInv => EndsAccounted
  BY DEF ClientInv
<1>2. QED
  BY <1>1, Invariance, PTL

\* No Connect and no reconnect opens a connection of a client after its Close,
\* or sets connected unless c.mu was taken from it halfway.
THEOREM CloseIsForGood == Spec => []ClosedIsFinal
<1>1. ClientInv => ClosedIsFinal
  BY DEF ClientInv
<1>2. QED
  BY <1>1, Invariance, PTL

\* No message is written twice, whatever sets of loops compete for the buffer
\* and whatever writes fail halfway, and one set of loops writes in the order
\* of Send.
THEOREM WritesInOrder == Spec => []WrittenInOrder
<1>1. ClientInv => WrittenInOrder
  BY DEF ClientInv, FlowOK, LineOK, Flow, InLine, Ordered, WrittenInOrder
<1>2. QED
  BY <1>1, Invariance, PTL

------------------------------------------------------------------------------
(* The client implements a lossy pipe. *)

\* The messages between Send and the connection.
Transit == ToSet(buffer) \cup UNION {ToSet(batch[k]) : k \in Sets}

\* There are no more different messages than were accepted.
LEMMA NoMoreThan ==
    ASSUME NEW m \in Nat, NEW n \in Nat, NEW s \in Seq(1..m), IsInjective(s),
           \A x \in ToSet(s) : x <= n
    PROVE  Len(s) <= n
<1>1. Len(s) \in Nat /\ s \in [1..Len(s) -> 1..m]
  OBVIOUS
<1>2. \A i \in 1..Len(s) : s[i] \in 1..n
  BY <1>1 DEF ToSet
<1>3. s \in Injection(1..Len(s), 1..n)
  BY <1>1, <1>2 DEF Injection
<1>4. \A i \in Nat : IsFiniteSet(1..i) /\ Cardinality(1..i) = i
  <2> SUFFICES ASSUME NEW i \in Nat PROVE IsFiniteSet(1..i) /\ Cardinality(1..i) = i
    OBVIOUS
  <2>1. IsFiniteSet(1..i) /\ Cardinality(1..i) = IF 1 > i THEN 0 ELSE i - 1 + 1
    BY FS_Interval
  <2>2. QED
    BY <2>1
<1>5. Cardinality(1..Len(s)) <= Cardinality(1..n)
  BY <1>3, <1>4, FS_Injection
<1>6. QED
  BY <1>1, <1>4, <1>5

\* A message that Send accepts enters the pipe.
LEMMA PipeAccepts ==
    ASSUME TypeOK, GoesIn
    PROVE  Pipe!Next
<1> DEFINE S == 1..MaxMessages
<1>1. buffer \in Seq(S) /\ S \in SUBSET Nat /\ accepted + 1 \in S
  BY FlowTyped, ClientAssumption DEF GoesIn
<1> HIDE DEF S
<1>2. ToSet(Append(buffer, accepted + 1)) = ToSet(buffer) \cup {accepted + 1}
  BY <1>1, AppendElements
<1>3. Transit' = Transit \cup {accepted + 1}
  BY <1>2 DEF GoesIn, Transit
<1>4. QED
  BY <1>3 DEF GoesIn, Transit, Pipe!Next, Pipe!Accept

\* A loop that takes a message keeps it on its way.
LEMMA PipeKeeps ==
    ASSUME TypeOK, NEW k \in Sets, IsTaken(k)
    PROVE  UNCHANGED Pipe!vars
<1> DEFINE S == 1..MaxMessages
<1>1. /\ buffer \in Seq(S) /\ S \in SUBSET Nat
      /\ batch \in [Sets -> Seq(S)] /\ buffer # <<>>
  BY FlowTyped DEF IsTaken
<1> HIDE DEF S
<1>2. Head(buffer) \in S /\ ToSet(buffer) = {Head(buffer)} \cup ToSet(Tail(buffer))
  BY <1>1, TailFacts
<1>3. ToSet(Append(batch[k], Head(buffer))) = ToSet(batch[k]) \cup {Head(buffer)}
  <2>1. batch[k] \in Seq(S)
    BY <1>1
  <2>2. QED
    BY <1>2, <2>1, AppendElements
<1>4. /\ batch'[k] = Append(batch[k], Head(buffer)) /\ buffer' = Tail(buffer)
      /\ \A j \in Sets : j # k => batch'[j] = batch[j]
  BY <1>1 DEF IsTaken
<1>5. Transit' = Transit
  <2>1. ASSUME NEW x \in Transit' PROVE x \in Transit
    BY <1>2, <1>3, <1>4, <2>1 DEF Transit
  <2>2. ASSUME NEW x \in Transit PROVE x \in Transit'
    <3>1. CASE x \in ToSet(buffer)
      BY <1>2, <1>3, <1>4, <3>1 DEF Transit
    <3>2. ASSUME NEW j \in Sets, x \in ToSet(batch[j]) PROVE x \in ToSet(batch'[j])
      BY <1>3, <1>4, <3>2
    <3>3. QED
      BY <2>2, <3>1, <3>2 DEF Transit
  <2>3. QED
    BY <2>1, <2>2
<1>6. QED
  BY <1>5 DEF IsTaken, Transit, Pipe!vars

\* A message that a loop drops leaves the pipe for nowhere.
LEMMA PipeDrops ==
    ASSUME ClientInv, NEW k \in Sets, NEW i \in DOMAIN batch[k], IsDropped(k, i)
    PROVE  Pipe!Next
<1> DEFINE x == batch[k][i]
<1>0. TypeOK /\ Flow(wire, buffer, batch, accepted)
  BY DEF ClientInv, FlowOK
<1>1. /\ batch \in [Sets -> Seq(1..MaxMessages)] /\ 1..MaxMessages \in SUBSET Nat
      /\ accepted \in Nat /\ wire \in Seq(1..MaxMessages)
  BY <1>0, FlowTyped
<1>2. /\ batch'[k] = RemoveAt(batch[k], i) /\ \A j \in Sets : j # k => batch'[j] = batch[j]
      /\ UNCHANGED <<wire, buffer, accepted, started>>
  BY <1>1 DEF IsDropped
<1>3. ToSet(batch'[k]) = ToSet(batch[k]) \ {x}
  <2> DEFINE S == 1..MaxMessages
             s == batch[k]
  <2>1. S \in SUBSET Nat /\ s \in Seq(S) /\ IsInjective(s)
    BY <1>0, <1>1 DEF Flow
  <2> HIDE DEF S, s
  <2>2. ToSet(RemoveAt(s, i)) = ToSet(s) \ {s[i]}
    <3>1. i \in DOMAIN s
      BY DEF s
    <3>2. QED
      BY <2>1, <3>1, RemoveFacts
  <2>3. QED
    BY <1>2, <2>2 DEF s
<1>4. x \in ToSet(batch[k])
  BY DEF ToSet
<1> HIDE DEF x
<1>5. x \in Transit /\ Transit' = Transit \ {x}
  <2>1. x \notin ToSet(buffer) /\ \A j \in Sets : j # k => x \notin ToSet(batch[j])
    BY <1>0, <1>4 DEF Flow, Apart
  <2>2. ASSUME NEW y \in Transit' PROVE y \in Transit \ {x}
    BY <1>2, <1>3, <2>1, <2>2 DEF Transit
  <2>3. ASSUME NEW y \in Transit \ {x} PROVE y \in Transit'
    BY <1>2, <1>3, <2>3 DEF Transit
  <2>4. QED
    BY <1>4, <2>2, <2>3 DEF Transit
<1>6. wire \o <<>> = wire
  BY <1>1
<1>7. Pipe!Leave({x}, <<>>)
  BY <1>2, <1>5, <1>6 DEF Pipe!Leave, Transit
<1>8. <<>> \in [1..0 -> {x}] /\ 0 \in 0..accepted /\ {x} \in SUBSET Transit
  BY <1>1, <1>5
<1>9. QED
  BY <1>7, <1>8 DEF Pipe!Next, Transit

\* What a loop writes is in no other place, and with one set of loops everything
\* else was accepted later.
LEMMA PipeLeaves ==
    ASSUME ClientInv, NEW k \in Sets, NEW n \in 0..Len(batch[k]), GoOut(k, n)
    PROVE  Pipe!Next
<1> DEFINE gone == ToSet(batch[k])
           out == SubSeq(batch[k], 1, n)
<1>0. TypeOK /\ LoopsOK /\ Flow(wire, buffer, batch, accepted) /\ LineOK
  BY DEF ClientInv, FlowOK
<1>1. /\ batch \in [Sets -> Seq(1..MaxMessages)] /\ MaxMessages \in Nat
      /\ 1..MaxMessages \in SUBSET Nat /\ accepted \in Nat
  BY <1>0, FlowTyped
<1>2. /\ out \in Seq(1..MaxMessages) /\ ToSet(out) \subseteq gone
      /\ IsInjective(batch[k]) => IsInjective(out)
      /\ Ordered(batch[k]) => Ordered(out)
  BY <1>1, PrefixFacts
<1>3. /\ wire' = wire \o out /\ UNCHANGED <<buffer, accepted, started>>
      /\ batch'[k] = <<>> /\ \A j \in Sets : j # k => batch'[j] = batch[j]
  BY <1>1 DEF GoOut
<1> HIDE DEF out
<1>4. gone \subseteq Transit /\ Transit' = Transit \ gone
  <2>1. gone \cap ToSet(buffer) = {} /\ \A j \in Sets : j # k => gone \cap ToSet(batch[j]) = {}
    BY <1>0 DEF Flow, Apart
  <2>2. ToSet(batch'[k]) = {}
    BY <1>3, EmptyFacts
  <2>3. ASSUME NEW x \in Transit' PROVE x \in Transit \ gone
    BY <1>3, <2>1, <2>2, <2>3 DEF Transit
  <2>4. ASSUME NEW x \in Transit \ gone PROVE x \in Transit'
    BY <1>3, <2>4 DEF Transit
  <2>5. QED
    BY <2>3, <2>4 DEF Transit
<1>5. IsInjective(out)
  BY <1>0, <1>2 DEF Flow
<1>6. Len(out) \in 0..accepted /\ out \in [1..Len(out) -> gone]
  <2>1. \A x \in ToSet(out) : x <= accepted
    BY <1>0, <1>2 DEF Flow
  <2>2. Len(out) \in Nat /\ DOMAIN out = 1..Len(out)
    BY <1>2
  <2>3. Len(out) <= accepted
    BY <1>1, <1>2, <1>5, <2>1, NoMoreThan
  <2>4. out = [i \in 1..Len(out) |-> out[i]]
    BY <1>2
  <2>5. \A i \in 1..Len(out) : out[i] \in gone
    BY <1>2, <2>2 DEF ToSet
  <2>6. QED
    BY <1>1, <2>2, <2>3, <2>4, <2>5
<1>7. ASSUME started <= 1
      PROVE  /\ \A i, j \in DOMAIN out : i < j => out[i] < out[j]
             /\ \A i \in DOMAIN out, m \in Transit \ gone : out[i] < m
  <2>1. InLine(wire, buffer, batch)
    BY <1>0, <1>7 DEF LineOK
  <2>2. \A j \in Sets : j # k => batch[j] = <<>>
    BY <1>0, <1>7, OneLoopHolds DEF GoOut
  <2>3. Transit \ gone \subseteq ToSet(buffer)
    BY <2>2, EmptyFacts DEF Transit
  <2>4. \A i \in DOMAIN out : out[i] \in gone
    BY <1>2 DEF ToSet
  <2>5. QED
    BY <1>2, <2>1, <2>3, <2>4 DEF InLine, Ordered, Before
<1>8. Pipe!Leave(gone, out)
  BY <1>3, <1>4, <1>5, <1>7 DEF Pipe!Leave, Transit, IsInjective
<1>9. QED
  BY <1>4, <1>6, <1>8 DEF Pipe!Next, Transit

\* Every step of the client is a step of the pipe, or none.
LEMMA PipeStep == ClientInv /\ [Next]_vars => [Pipe!Next]_Pipe!vars
<1> SUFFICES ASSUME ClientInv, [Next]_vars PROVE [Pipe!Next]_Pipe!vars
  OBVIOUS
<1>0. TypeOK /\ Moves
  BY StepMoves DEF ClientInv
<1>1. CASE Stays
  BY <1>1 DEF Stays, flowVars, Pipe!vars
<1>2. CASE Starts
  <2>1. started \in Nat
    BY <1>0, FlowTyped
  <2>2. CASE started = 0
    BY <1>2, <2>2 DEF Starts, Pipe!vars
  <2>3. CASE started # 0
    <3>1. (started' <= 1) = FALSE
      BY <1>2, <2>1, <2>3 DEF Starts
    <3>2. Pipe!Disorder
      BY <1>2, <3>1 DEF Starts, Pipe!Disorder
    <3>3. QED
      BY <3>2 DEF Pipe!Next
  <2>4. QED
    BY <2>2, <2>3
<1>3. CASE GoesIn
  BY <1>0, <1>3, PipeAccepts
<1>4. ASSUME NEW k \in Sets, IsTaken(k) PROVE UNCHANGED Pipe!vars
  BY <1>0, <1>4, PipeKeeps
<1>5. ASSUME NEW k \in Sets, NEW n \in 0..Len(batch[k]), GoOut(k, n) PROVE Pipe!Next
  BY <1>5, PipeLeaves
<1>6. ASSUME NEW k \in Sets, NEW i \in DOMAIN batch[k], IsDropped(k, i) PROVE Pipe!Next
  BY <1>6, PipeDrops
<1>7. QED
  BY <1>0, <1>1, <1>2, <1>3, <1>4, <1>5, <1>6 DEF Moves

\* From Send to the connection the client may lose messages and never repeats
\* one, whatever sets of loops compete for the buffer and whatever writes fail;
\* until a second set is started it does not reorder them either.
THEOREM IsLossyPipe == Spec => PipeSpec
<1>1. Init => Pipe!Init
  <2> SUFFICES ASSUME Init PROVE Pipe!Init
    OBVIOUS
  <2>1. \A k \in Sets : ToSet(batch[k]) = {}
    BY EmptyFacts DEF Init
  <2>2. Transit = {}
    BY <2>1, EmptyFacts DEF Init, Transit
  <2>3. QED
    BY <2>2, SMTT(60) DEF Init, Pipe!Init, Transit
<1>2. QED
  BY <1>1, PipeStep, Invariance, PTL DEF Spec, PipeSpec, Pipe!Spec
===============================================================================
