-------------------------- MODULE LongPollingProofs ---------------------------
(***************************************************************************)
(* Proofs about LongPolling, for any number of messages in either          *)
(* direction, queues of any size and any number of abandoned polls.        *)
(***************************************************************************)
EXTENDS LongPolling, SequenceTheorems, TLAPS

\* The poll goroutine has one request at a time, a reply only while it waits
\* for it, and nothing in its hand unless it is pushing.
PollOK ==
    /\ conn \in {"idle", "connecting", "failed"} => poll = "none"
    /\ poll # "wait" => request = "none"
    /\ request # "answered" => reply = <<>>
    /\ poll # "push" => hand = <<>>

Ascending(texts) ==
    \A m, n \in DOMAIN texts : m < n => Body(texts[m]) < Body(texts[n])

Before(s, t) == \A x \in Bodies(s), y \in Bodies(t) : x < y

\* A message is in one of five places on its way to Receive.  They are in the
\* order of Write, each of them and one after the other.
InLine(done, queued, held, replied, waiting) ==
    /\ Ascending(done) /\ Ascending(queued) /\ Ascending(held)
    /\ Ascending(replied) /\ Ascending(waiting)
    /\ Before(done, queued) /\ Before(done, held) /\ Before(done, replied)
    /\ Before(done, waiting) /\ Before(queued, held) /\ Before(queued, replied)
    /\ Before(queued, waiting) /\ Before(held, replied) /\ Before(held, waiting)
    /\ Before(replied, waiting)

DownOK ==
    /\ InLine(received, queue, hand, reply, Encode(pending))
    /\ \A x \in Bodies(received) \cup Bodies(queue) \cup Bodies(hand) \cup Bodies(reply)
                \cup Bodies(Encode(pending)) : x < nextDown

\* The values of a sequence.
Elements(s) == {s[n] : n \in DOMAIN s}
Distinct(s) == \A m, n \in DOMAIN s : s[m] = s[n] => m = n

\* A message has arrived, once, iff its request was accepted.
UpOK ==
    /\ Distinct(read) /\ Distinct(incoming) /\ Elements(read) \cap Elements(incoming) = {}
    /\ \A m \in Up : up[m] = "accepted" <=> m \in Elements(read) \cup Elements(incoming)
    /\ \A m \in Up : m >= nextUp => up[m] = "unsent"
    /\ \A m \in acked : up[m] = "accepted"

\* The inductive invariant.
LinkInv == TypeOK /\ PollOK /\ DownOK /\ UpOK

\* The three parts of TypeOK, one for each direction and one for the link.
LinkTyped ==
    /\ load \in Loads
    /\ conn \in {"idle", "connecting", "open", "closed", "failed"}
    /\ cancelled \in BOOLEAN /\ sclosed \in BOOLEAN
    /\ closing \in {"no", "busy", "done"} /\ disconnect \in {"none", "sent", "handled"}
    /\ session \in {"none", "registered", "removed"}

DownTyped ==
    /\ pending \in Seq(Down) /\ nextDown \in 1..load[1] + 1
    /\ poll \in {"none", "sleep", "wait", "push", "ended"}
    /\ request \in {"none", "sent", "answered", "refused"}
    /\ reply \in Seq(Texts) /\ hand \in Seq(Texts) /\ stale \in 0..MaxStale
    /\ queue \in Seq(Texts) /\ Len(queue) <= QueueCap
    /\ receiver \in {"none", "check", "select", "ended"} /\ received \in Seq(Texts)
    /\ lost \subseteq Down

UpTyped ==
    /\ sending \in 0..load[2] /\ nextUp \in 1..load[2] + 1
    /\ up \in [Up -> {"unsent", "sent", "reading", "accepted", "refused"}]
    /\ acked \subseteq Up
    /\ incoming \in Seq(Up) /\ Len(incoming) <= InCap /\ read \in Seq(Up)

------------------------------------------------------------------------------
(* Facts about the operators. *)

\* What Encode makes of a sequence of messages.
LEMMA EncodeFacts ==
    ASSUME NEW S, NEW s \in Seq(S)
    PROVE  /\ Encode(s) \in Seq({Base64String(m) : m \in S})
           /\ Len(Encode(s)) = Len(s)
           /\ \A n \in 1..Len(s) : Encode(s)[n] = Base64String(s[n])
           /\ Bodies(Encode(s)) = Elements(s)
<1>1. Len(s) \in Nat /\ DOMAIN s = 1..Len(s) /\ \A n \in 1..Len(s) : s[n] \in S
  OBVIOUS
<1>2. Encode(s) = [n \in 1..Len(s) |-> Base64String(s[n])]
  BY <1>1 DEF Encode
<1>3. /\ DOMAIN Encode(s) = 1..Len(s)
      /\ \A n \in 1..Len(s) : Encode(s)[n] = Base64String(s[n])
  BY <1>2
<1>4. Encode(s) \in Seq({Base64String(m) : m \in S})
  <2> DEFINE T == {Base64String(m) : m \in S}
  <2>1. \A n \in 1..Len(s) : Base64String(s[n]) \in T
    BY <1>1
  <2> HIDE DEF T
  <2>2. Encode(s) \in [1..Len(s) -> T]
    BY <1>2, <2>1
  <2>3. Encode(s) \in Seq(T)
    BY <1>1, <2>2
  <2>4. QED
    BY <2>3 DEF T
<1>5. \A m : Body(Base64String(m)) = m
  BY DEF Body, Base64String
<1>6. Bodies(Encode(s)) = Elements(s)
  BY <1>1, <1>3, <1>5 DEF Bodies, Elements
<1>7. Len(Encode(s)) = Len(s)
  BY <1>1, <1>3, <1>4
<1>8. QED
  BY <1>3, <1>4, <1>6, <1>7

\* A message put at the end.
LEMMA AppendLast ==
    ASSUME NEW S, NEW s \in Seq(S), NEW x \in S
    PROVE  /\ Bodies(Append(s, x)) = Bodies(s) \cup {Body(x)}
           /\ Ascending(s) /\ (\A y \in Bodies(s) : y < Body(x)) => Ascending(Append(s, x))
<1>1. /\ Len(s) \in Nat /\ DOMAIN s = 1..Len(s)
      /\ DOMAIN Append(s, x) = 1..(Len(s) + 1)
      /\ Append(s, x)[Len(s) + 1] = x
      /\ \A n \in 1..Len(s) : Append(s, x)[n] = s[n]
  OBVIOUS
<1>2. Bodies(Append(s, x)) = Bodies(s) \cup {Body(x)}
  BY <1>1 DEF Bodies
<1>3. ASSUME Ascending(s), \A y \in Bodies(s) : y < Body(x)
      PROVE  Ascending(Append(s, x))
  <2> SUFFICES ASSUME NEW m \in 1..(Len(s) + 1), NEW n \in 1..(Len(s) + 1), m < n
               PROVE  Body(Append(s, x)[m]) < Body(Append(s, x)[n])
    BY <1>1 DEF Ascending
  <2>1. CASE n = Len(s) + 1
    <3>1. m \in DOMAIN s /\ Append(s, x)[m] = s[m]
      BY <2>1, <1>1
    <3>2. Body(s[m]) \in Bodies(s)
      BY <3>1 DEF Bodies
    <3>3. QED
      BY <3>1, <3>2, <2>1, <1>1, <1>3
  <2>2. CASE n # Len(s) + 1
    BY <2>2, <1>1, <1>3 DEF Ascending
  <2>3. QED
    BY <2>1, <2>2
<1>4. QED
  BY <1>2, <1>3

\* A message taken from the front.
LEMMA TakeFirst ==
    ASSUME NEW S, NEW s \in Seq(S), s # <<>>
    PROVE  /\ Tail(s) \in Seq(S) /\ Head(s) \in S
           /\ Bodies(s) = {Body(Head(s))} \cup Bodies(Tail(s))
           /\ Ascending(s) => /\ Ascending(Tail(s))
                              /\ \A y \in Bodies(Tail(s)) : Body(Head(s)) < y
<1>1. /\ Len(s) \in Nat \ {0} /\ DOMAIN s = 1..Len(s)
      /\ Tail(s) \in Seq(S) /\ Head(s) \in S /\ Head(s) = s[1]
      /\ DOMAIN Tail(s) = 1..(Len(s) - 1)
      /\ \A n \in 1..(Len(s) - 1) : Tail(s)[n] = s[n + 1]
  OBVIOUS
<1>2. Bodies(s) = {Body(Head(s))} \cup Bodies(Tail(s))
  <2>1. Bodies(Tail(s)) = {Body(s[n + 1]) : n \in 1..(Len(s) - 1)}
    BY <1>1 DEF Bodies
  <2>2. Bodies(s) = {Body(s[n]) : n \in 1..Len(s)}
    BY <1>1 DEF Bodies
  <2>3. ASSUME NEW n \in 1..Len(s) PROVE Body(s[n]) \in {Body(s[1])} \cup Bodies(Tail(s))
    <3>1. CASE n = 1
      BY <3>1
    <3>2. CASE n # 1
      <4>1. n - 1 \in 1..(Len(s) - 1) /\ n = (n - 1) + 1
        BY <3>2, <1>1
      <4>2. QED
        BY <4>1, <2>1
    <3>3. QED
      BY <3>1, <3>2
  <2>4. QED
    BY <2>1, <2>2, <2>3, <1>1
<1>3. Ascending(s) => Ascending(Tail(s))
  BY <1>1 DEF Ascending
<1>4. Ascending(s) => \A y \in Bodies(Tail(s)) : Body(Head(s)) < y
  BY <1>1 DEF Ascending, Bodies
<1>5. QED
  BY <1>1, <1>2, <1>3, <1>4

\* Texts carry messages of the server.
LEMMA BodiesTyped == \A s \in Seq(Texts) : Bodies(s) \subseteq Down
<1> SUFFICES ASSUME NEW s \in Seq(Texts), NEW n \in DOMAIN s PROVE Body(s[n]) \in Down
  BY DEF Bodies
<1>1. s[n] \in Texts
  OBVIOUS
<1>2. QED
  BY <1>1 DEF Texts, Body, Base64String

\* The load of a connection never changes, nor what can be in transit.
LEMMA LoadStep ==
    TypeOK /\ [Next]_vars =>
        /\ load' = load /\ load[1] \in Nat /\ load[2] \in Nat
        /\ Down' = Down /\ Up' = Up /\ Texts' = Texts
<1> SUFFICES ASSUME TypeOK, [Next]_vars
             PROVE  /\ load' = load /\ load[1] \in Nat /\ load[2] \in Nat
                    /\ Down' = Down /\ Up' = Up /\ Texts' = Texts
  OBVIOUS
<1>1. load[1] \in Nat /\ load[2] \in Nat
  BY LongPollingAssumption DEF TypeOK
<1>2. load' = load
  <2>1. ASSUME NEW m \in Up, HandleSendCheck(m) \/ HandleSendEnqueue(m) PROVE load' = load
    BY <2>1 DEF HandleSendCheck, HandleSendEnqueue, linkVars
  <2>2. CASE Connect \/ HandleConnect \/ ConnectReply \/ ConnectError \/ Cancel \/ CloseBegin
             \/ CloseEnd \/ HandleDisconnect \/ ServerClose \/ CollectSession
    BY <2>2 DEF Connect, HandleConnect, ConnectReply, ConnectError, Cancel, CloseBegin, CloseEnd,
                HandleDisconnect, ServerClose, CollectSession
  <2>3. CASE Write \/ PollDone \/ PollRequest \/ HandlePoll \/ HandleStalePoll \/ PollReply
             \/ PollAbandoned \/ Push \/ ReceiveCheck \/ ReceiveMessage \/ ReceiveDone
    BY <2>3 DEF Write, PollDone, PollRequest, HandlePoll, HandleStalePoll, PollReply,
                PollAbandoned, Push, ReceiveCheck, ReceiveMessage, ReceiveDone, linkVars
  <2>4. CASE Send \/ SendReply \/ SendAbandoned \/ ServerRead
    BY <2>4 DEF Send, SendReply, SendAbandoned, ServerRead, linkVars
  <2>5. CASE UNCHANGED vars
    BY <2>5 DEF vars, linkVars
  <2>6. QED
    BY <2>1, <2>2, <2>3, <2>4, <2>5 DEF Next
<1>3. QED
  BY <1>1, <1>2 DEF Down, Up, Texts

\* Every step keeps the types of the link.
LEMMA LinkStep == LinkTyped /\ [Next]_vars => LinkTyped'
<1> SUFFICES ASSUME LinkTyped, [Next]_vars PROVE LinkTyped'
  OBVIOUS
<1>1. CASE UNCHANGED linkVars
  BY <1>1 DEF linkVars, LinkTyped
<1>2. CASE Connect \/ HandleConnect \/ ConnectReply \/ ConnectError \/ Cancel
  BY <1>2 DEF LinkTyped, Connect, HandleConnect, ConnectReply, ConnectError, Cancel
<1>3. CASE CloseBegin \/ CloseEnd \/ HandleDisconnect \/ ServerClose \/ CollectSession
  BY <1>3 DEF LinkTyped, CloseBegin, CloseEnd, HandleDisconnect, ServerClose, CollectSession
<1>4. ASSUME NEW m \in Up, HandleSendCheck(m) \/ HandleSendEnqueue(m) PROVE LinkTyped'
  BY <1>1, <1>4 DEF HandleSendCheck, HandleSendEnqueue
<1>5. QED
  BY <1>1, <1>2, <1>3, <1>4
     DEF Next, vars, Write, PollDone, PollRequest, HandlePoll, HandleStalePoll, PollReply,
         PollAbandoned, Push, ReceiveCheck, ReceiveMessage, ReceiveDone, Send, SendReply,
         SendAbandoned, ServerRead

\* Every step keeps the types of what is on its way to the client, and
\* incomingQueue within its capacity.
LEMMA DownTypeStep == TypeOK /\ [Next]_vars => DownTyped'
<1> SUFFICES ASSUME TypeOK, [Next]_vars PROVE DownTyped'
  OBVIOUS
<1>0. /\ load' = load /\ load[1] \in Nat /\ Down' = Down /\ Texts' = Texts
      /\ MaxStale \in Nat /\ QueueCap \in Nat
  BY LoadStep, LongPollingAssumption
<1>1. DownTyped
  BY DEF TypeOK, DownTyped
<1>2. <<>> \in Seq(Down) /\ <<>> \in Seq(Texts)
  OBVIOUS
<1> USE DEF pollVars, recvVars
<1>3. CASE UNCHANGED downVars
  BY <1>0, <1>1, <1>3 DEF downVars, DownTyped
<1>4. CASE ConnectReply
  BY <1>0, <1>1, <1>4 DEF ConnectReply, DownTyped
<1>5. CASE Write
  <2>1. /\ nextDown \in Down /\ nextDown' = nextDown + 1
        /\ pending' = pending \/ pending' = Append(pending, nextDown)
        /\ UNCHANGED <<pollVars, recvVars, lost>>
    BY <1>5 DEF Write
  <2>2. pending' \in Seq(Down)
    <3>1. pending \in Seq(Down)
      BY <1>1 DEF DownTyped
    <3>2. QED
      BY <3>1, <2>1
  <2>3. nextDown' \in 1..load[1] + 1
    BY <1>0, <2>1 DEF Down
  <2>4. QED
    BY <1>0, <1>1, <2>1, <2>2, <2>3 DEF DownTyped
<1>6. CASE PollDone
  BY <1>0, <1>1, <1>6 DEF PollDone, DownTyped
<1>7. CASE PollRequest
  BY <1>0, <1>1, <1>7 DEF PollRequest, DownTyped
<1>8. CASE HandlePoll
  <2>1. /\ (reply' = Encode(pending) /\ pending' = <<>>) \/ UNCHANGED <<reply, pending>>
        /\ request' \in {"answered", "refused"}
        /\ UNCHANGED <<nextDown, poll, stale, hand, recvVars, lost>>
    BY <1>8 DEF HandlePoll
  <2>2. Encode(pending) \in Seq(Texts)
    BY <1>1, EncodeFacts DEF DownTyped, Texts
  <2>3. reply' \in Seq(Texts) /\ pending' \in Seq(Down)
    BY <1>1, <1>2, <2>1, <2>2 DEF DownTyped
  <2>4. QED
    BY <1>0, <1>1, <2>1, <2>3 DEF DownTyped
<1>9. CASE HandleStalePoll
  <2>1. /\ stale > 0 /\ stale' = stale - 1
        /\ \/ lost' = lost \cup {pending[n] : n \in DOMAIN pending} /\ pending' = <<>>
           \/ UNCHANGED <<lost, pending>>
        /\ UNCHANGED <<nextDown, poll, request, reply, hand, recvVars>>
    BY <1>9 DEF HandleStalePoll
  <2>2. {pending[n] : n \in DOMAIN pending} \subseteq Down
    BY <1>1 DEF DownTyped
  <2>3. pending' \in Seq(Down) /\ lost' \subseteq Down
    BY <1>1, <1>2, <2>1, <2>2 DEF DownTyped
  <2>4. stale' \in 0..MaxStale
    BY <1>0, <1>1, <2>1 DEF DownTyped
  <2>5. QED
    BY <1>0, <1>1, <2>1, <2>3, <2>4 DEF DownTyped
<1>10. CASE PollReply
  <2>1. /\ request' = "none" /\ hand' = reply /\ reply' = <<>> /\ poll' \in {"push", "sleep"}
        /\ UNCHANGED <<pending, nextDown, stale, recvVars, lost>>
    BY <1>10 DEF PollReply
  <2>2. QED
    BY <1>0, <1>1, <1>2, <2>1 DEF DownTyped
<1>11. CASE PollAbandoned
  <2>1. /\ poll' = "sleep" /\ request' = "none" /\ reply' = <<>> /\ lost' = lost \cup Bodies(reply)
        /\ stale' = stale \/ (stale < MaxStale /\ stale' = stale + 1)
        /\ UNCHANGED <<pending, nextDown, hand, recvVars>>
    BY <1>11 DEF PollAbandoned
  <2>2. lost' \subseteq Down
    BY <1>1, <2>1, BodiesTyped DEF DownTyped
  <2>3. stale' \in 0..MaxStale
    BY <1>0, <1>1, <2>1 DEF DownTyped
  <2>4. QED
    BY <1>0, <1>1, <1>2, <2>1, <2>2, <2>3 DEF DownTyped
<1>12. CASE Push /\ hand = <<>>
  BY <1>0, <1>1, <1>12 DEF Push, DownTyped
<1>13. CASE Push /\ hand # <<>>
  <2>1. /\ hand' = Tail(hand)
        /\ \/ Len(queue) < QueueCap /\ queue' = Append(queue, Head(hand)) /\ lost' = lost
           \/ lost' = lost \cup {Body(Head(hand))} /\ queue' = queue
        /\ UNCHANGED <<pending, nextDown, poll, request, reply, stale, receiver, received>>
    BY <1>13 DEF Push
  <2>2. Head(hand) \in Texts /\ Tail(hand) \in Seq(Texts)
    BY <1>1, <1>13 DEF DownTyped
  <2>3. Body(Head(hand)) \in Down
    BY <2>2 DEF Texts, Body, Base64String
  <2>4. queue' \in Seq(Texts) /\ Len(queue') <= QueueCap
    <3>1. queue \in Seq(Texts) /\ Len(queue) <= QueueCap
      BY <1>1 DEF DownTyped
    <3>2. CASE Len(queue) < QueueCap /\ queue' = Append(queue, Head(hand))
      BY <1>0, <2>2, <3>1, <3>2
    <3>3. QED
      BY <2>1, <3>1, <3>2
  <2>5. lost' \subseteq Down
    BY <1>1, <2>1, <2>3 DEF DownTyped
  <2>6. hand' \in Seq(Texts)
    BY <2>1, <2>2
  <2>7. UNCHANGED <<pending, nextDown, poll, request, reply, stale, receiver, received>>
    BY <2>1
  <2>8. QED
    BY <1>0, <1>1, <2>4, <2>5, <2>6, <2>7 DEF DownTyped
<1>14. CASE ReceiveCheck \/ ReceiveDone
  BY <1>0, <1>1, <1>14 DEF ReceiveCheck, ReceiveDone, DownTyped
<1>15. CASE ReceiveMessage
  <2>1. /\ queue # <<>> /\ receiver' = "check" /\ received' = Append(received, Head(queue))
        /\ queue' = Tail(queue) /\ UNCHANGED <<pending, nextDown, pollVars, lost>>
    BY <1>15 DEF ReceiveMessage
  <2>2. queue \in Seq(Texts) /\ received \in Seq(Texts) /\ Len(queue) <= QueueCap
    BY <1>1 DEF DownTyped
  <2>3. queue' \in Seq(Texts) /\ Len(queue') <= QueueCap /\ received' \in Seq(Texts)
    BY <1>0, <2>1, <2>2
  <2>4. receiver' = "check" /\ UNCHANGED <<pending, nextDown, pollVars, lost>>
    BY <2>1
  <2>5. QED
    BY <1>0, <1>1, <2>3, <2>4 DEF DownTyped
<1>16. ASSUME NEW m \in Up, HandleSendCheck(m) \/ HandleSendEnqueue(m) PROVE DownTyped'
  BY <1>3, <1>16 DEF HandleSendCheck, HandleSendEnqueue
<1>17. CASE Connect \/ HandleConnect \/ ConnectError \/ Cancel \/ CloseBegin \/ CloseEnd
            \/ HandleDisconnect \/ ServerClose \/ CollectSession
  BY <1>3, <1>17 DEF Connect, HandleConnect, ConnectError, Cancel, CloseBegin, CloseEnd,
      HandleDisconnect, ServerClose, CollectSession
<1>18. CASE Send \/ SendReply \/ SendAbandoned \/ ServerRead
  BY <1>3, <1>18 DEF Send, SendReply, SendAbandoned, ServerRead
<1>19. CASE UNCHANGED vars
  BY <1>3, <1>19 DEF vars
<1>20. QED
  BY <1>4, <1>5, <1>6, <1>7, <1>8, <1>9, <1>10, <1>11, <1>12, <1>13, <1>14, <1>15, <1>16,
     <1>17, <1>18, <1>19 DEF Next

\* Every step keeps the types of what is on its way to the server, and
\* incomingMessages within its capacity.
LEMMA UpTypeStep == TypeOK /\ [Next]_vars => UpTyped'
<1> SUFFICES ASSUME TypeOK, [Next]_vars PROVE UpTyped'
  OBVIOUS
<1>0. load' = load /\ load[2] \in Nat /\ Up' = Up /\ InCap \in Nat
  BY LoadStep, LongPollingAssumption
<1>1. UpTyped
  BY DEF TypeOK, UpTyped
<1>2. CASE UNCHANGED upVars
  BY <1>0, <1>1, <1>2 DEF upVars, UpTyped
<1>3. CASE Send
  <2>1. sending' \in 0..load[2] /\ nextUp' \in 1..load[2] + 1
    BY <1>0, <1>3 DEF Send, Up
  <2>2. /\ up' \in [Up -> {"unsent", "sent", "reading", "accepted", "refused"}]
        /\ UNCHANGED <<acked, incoming, read>>
    BY <1>1, <1>3 DEF Send, UpTyped
  <2>3. QED
    BY <1>0, <1>1, <2>1, <2>2 DEF UpTyped
<1>4. ASSUME NEW m \in Up, HandleSendCheck(m) PROVE UpTyped'
  <2>1. /\ up' \in [Up -> {"unsent", "sent", "reading", "accepted", "refused"}]
        /\ UNCHANGED <<sending, nextUp, acked, incoming, read>>
    BY <1>1, <1>4 DEF HandleSendCheck, UpTyped
  <2>2. QED
    BY <1>0, <1>1, <2>1 DEF UpTyped
<1>5. ASSUME NEW m \in Up, HandleSendEnqueue(m) PROVE UpTyped'
  <2>1. /\ up' \in [Up -> {"unsent", "sent", "reading", "accepted", "refused"}]
        /\ UNCHANGED <<sending, nextUp, acked, read>>
    BY <1>1, <1>5 DEF HandleSendEnqueue, UpTyped
  <2>2. incoming' \in Seq(Up) /\ Len(incoming') <= InCap
    <3>1. incoming \in Seq(Up) /\ Len(incoming) <= InCap
      BY <1>1 DEF UpTyped
    <3>2. CASE Len(incoming) < InCap /\ incoming' = Append(incoming, m)
      BY <1>0, <3>1, <3>2
    <3>3. QED
      BY <1>5, <3>1, <3>2 DEF HandleSendEnqueue
  <2>3. QED
    BY <1>0, <1>1, <2>1, <2>2 DEF UpTyped
<1>6. CASE SendReply
  <2>1. sending \in Up /\ 0 \in 0..load[2]
    BY <1>0, <1>1, <1>6 DEF SendReply, UpTyped, Up
  <2>2. acked' \subseteq Up /\ sending' \in 0..load[2] /\ UNCHANGED <<nextUp, up, incoming, read>>
    BY <1>1, <1>6, <2>1 DEF SendReply, UpTyped
  <2>3. QED
    BY <1>0, <1>1, <2>2 DEF UpTyped
<1>7. CASE SendAbandoned
  BY <1>0, <1>1, <1>7 DEF SendAbandoned, UpTyped
<1>8. CASE ServerRead
  <2>1. /\ incoming # <<>> /\ read' = Append(read, Head(incoming)) /\ incoming' = Tail(incoming)
        /\ UNCHANGED <<sending, nextUp, up, acked>>
    BY <1>8 DEF ServerRead
  <2>2. incoming \in Seq(Up) /\ read \in Seq(Up) /\ Len(incoming) <= InCap
    BY <1>1 DEF UpTyped
  <2>3. incoming' \in Seq(Up) /\ Len(incoming') <= InCap /\ read' \in Seq(Up)
    BY <1>0, <2>1, <2>2
  <2>4. UNCHANGED <<sending, nextUp, up, acked>>
    BY <2>1
  <2>5. QED
    BY <1>0, <1>1, <2>3, <2>4 DEF UpTyped
<1>9. CASE Connect \/ HandleConnect \/ ConnectReply \/ ConnectError \/ Cancel \/ CloseBegin
           \/ CloseEnd \/ HandleDisconnect \/ ServerClose \/ CollectSession
  BY <1>2, <1>9 DEF Connect, HandleConnect, ConnectReply, ConnectError, Cancel, CloseBegin,
      CloseEnd, HandleDisconnect, ServerClose, CollectSession
<1>10. CASE Write \/ PollDone \/ PollRequest \/ HandlePoll \/ HandleStalePoll \/ PollReply
            \/ PollAbandoned \/ Push \/ ReceiveCheck \/ ReceiveMessage \/ ReceiveDone
  BY <1>2, <1>10 DEF Write, PollDone, PollRequest, HandlePoll, HandleStalePoll, PollReply,
      PollAbandoned, Push, ReceiveCheck, ReceiveMessage, ReceiveDone
<1>11. CASE UNCHANGED vars
  BY <1>2, <1>11 DEF vars
<1>12. QED
  BY <1>3, <1>4, <1>5, <1>6, <1>7, <1>8, <1>9, <1>10, <1>11 DEF Next

\* Every step keeps the types; the queues stay within their capacity.
LEMMA TypeStep == TypeOK /\ [Next]_vars => TypeOK'
<1>1. TypeOK => LinkTyped
  BY DEF TypeOK, LinkTyped
<1>2. (LinkTyped /\ DownTyped /\ UpTyped => TypeOK)'
  BY DEF TypeOK, LinkTyped, DownTyped, UpTyped
<1>3. QED
  BY <1>1, <1>2, LinkStep, DownTypeStep, UpTypeStep

\* Requests, replies and the hand of the poll goroutine stay in step with it.
LEMMA PollStep == PollOK /\ [Next]_vars => PollOK'
<1> SUFFICES ASSUME PollOK, [Next]_vars PROVE PollOK'
  OBVIOUS
<1> USE DEF PollOK, linkVars, downVars, pollVars, recvVars, upVars
<1>1. CASE Connect
  BY <1>1 DEF Connect
<1>2. CASE HandleConnect
  BY <1>2 DEF HandleConnect
<1>3. CASE ConnectReply
  BY <1>3 DEF ConnectReply
<1>4. CASE ConnectError
  BY <1>4 DEF ConnectError
<1>5. CASE Cancel
  BY <1>5 DEF Cancel
<1>6. CASE CloseBegin
  BY <1>6 DEF CloseBegin
<1>7. CASE CloseEnd
  BY <1>7 DEF CloseEnd
<1>8. CASE HandleDisconnect
  BY <1>8 DEF HandleDisconnect
<1>9. CASE ServerClose
  BY <1>9 DEF ServerClose
<1>10. CASE CollectSession
  BY <1>10 DEF CollectSession
<1>11. CASE Write
  BY <1>11 DEF Write
<1>12. CASE PollDone
  BY <1>12 DEF PollDone
<1>13. CASE PollRequest
  BY <1>13 DEF PollRequest
<1>14. CASE HandlePoll
  BY <1>14 DEF HandlePoll
<1>15. CASE HandleStalePoll
  BY <1>15 DEF HandleStalePoll
<1>16. CASE PollReply
  BY <1>16 DEF PollReply
<1>17. CASE PollAbandoned
  BY <1>17 DEF PollAbandoned
<1>18. CASE Push
  BY <1>18 DEF Push
<1>19. CASE ReceiveCheck
  BY <1>19 DEF ReceiveCheck
<1>20. CASE ReceiveMessage
  BY <1>20 DEF ReceiveMessage
<1>21. CASE ReceiveDone
  BY <1>21 DEF ReceiveDone
<1>22. CASE Send
  BY <1>22 DEF Send
<1>23. CASE SendReply
  BY <1>23 DEF SendReply
<1>24. CASE SendAbandoned
  BY <1>24 DEF SendAbandoned
<1>25. CASE ServerRead
  BY <1>25 DEF ServerRead
<1>26. ASSUME NEW m \in Up, HandleSendCheck(m) \/ HandleSendEnqueue(m) PROVE PollOK'
  BY <1>26 DEF HandleSendCheck, HandleSendEnqueue
<1>27. CASE UNCHANGED vars
  BY <1>27 DEF vars
<1>28. QED
  BY <1>1, <1>2, <1>3, <1>4, <1>5, <1>6, <1>7, <1>8, <1>9, <1>10, <1>11, <1>12, <1>13, <1>14, <1>15, <1>16, <1>17, <1>18, <1>19, <1>20, <1>21, <1>22, <1>23, <1>24, <1>25, <1>26, <1>27 DEF Next

------------------------------------------------------------------------------
(* From the server to the client. *)

\* Nothing is in an empty part.
LEMMA EmptyPart ==
    /\ Encode(<<>>) = <<>> /\ Bodies(<<>>) = {} /\ Ascending(<<>>)
    /\ \A s : Before(<<>>, s) /\ Before(s, <<>>)
  BY DEF Encode, Bodies, Ascending, Before

\* A written message is the last one that waits.
LEMMA EncodeAppend ==
    ASSUME NEW S, NEW s \in Seq(S), NEW x \in S
    PROVE  Encode(Append(s, x)) = Append(Encode(s), Base64String(x))
<1> DEFINE T == {Base64String(m) : m \in S}
           a == Encode(Append(s, x))
           b == Append(Encode(s), Base64String(x))
<1>1. /\ Len(s) \in Nat /\ Append(s, x) \in Seq(S) /\ Len(Append(s, x)) = Len(s) + 1
      /\ Append(s, x)[Len(s) + 1] = x
      /\ \A n \in 1..Len(s) : Append(s, x)[n] = s[n]
  OBVIOUS
<1>2. /\ a \in Seq(T) /\ Len(a) = Len(s) + 1
      /\ \A n \in 1..(Len(s) + 1) : a[n] = Base64String(Append(s, x)[n])
  BY <1>1, EncodeFacts
<1>3. /\ Encode(s) \in Seq(T) /\ Len(Encode(s)) = Len(s)
      /\ \A n \in 1..Len(s) : Encode(s)[n] = Base64String(s[n])
  BY EncodeFacts
<1>4. Base64String(x) \in T
  OBVIOUS
<1> HIDE DEF T
<1>5. /\ b \in Seq(T) /\ Len(b) = Len(s) + 1
      /\ \A n \in 1..Len(s) : b[n] = Encode(s)[n]
      /\ b[Len(s) + 1] = Base64String(x)
  BY <1>1, <1>3, <1>4
<1> HIDE DEF a, b
<1>6. \A n \in 1..Len(a) : a[n] = b[n]
  BY <1>1, <1>2, <1>3, <1>5
<1>7. a = b
  BY <1>2, <1>5, <1>6
<1>8. QED
  BY <1>7 DEF a, b

\* What moves on to the next part, or is dropped, leaves the rest in order.
LEMMA DownStep == LinkInv /\ [Next]_vars => DownOK'
<1> SUFFICES ASSUME LinkInv, [Next]_vars PROVE DownOK'
  OBVIOUS
<1> DEFINE waiting == Encode(pending)
<1>0. DownOK /\ PollOK /\ TypeOK
  BY DEF LinkInv
<1>1. /\ pending \in Seq(Down) /\ waiting \in Seq(Texts) /\ nextDown \in Nat
      /\ reply \in Seq(Texts) /\ hand \in Seq(Texts) /\ queue \in Seq(Texts)
      /\ received \in Seq(Texts)
  <2>1. pending \in Seq(Down) /\ nextDown \in Nat
    BY <1>0, LongPollingAssumption DEF TypeOK
  <2>2. waiting \in Seq(Texts)
    BY <2>1, EncodeFacts DEF Texts
  <2>3. QED
    BY <1>0, <2>1, <2>2 DEF TypeOK
<1>2. InLine(received, queue, hand, reply, waiting)
  BY <1>0 DEF DownOK
<1>3. \A x \in Bodies(received) \cup Bodies(queue) \cup Bodies(hand) \cup Bodies(reply)
              \cup Bodies(waiting) : x < nextDown /\ x \in Nat
  <2>1. \A s \in Seq(Texts) : Bodies(s) \subseteq Nat
    BY BodiesTyped DEF Down
  <2>2. QED
    BY <1>0, <1>1, <2>1 DEF DownOK
<1>4. CASE UNCHANGED <<pending, nextDown, reply, hand, queue, received>>
  BY <1>0, <1>4 DEF DownOK
<1>5. CASE Write
  <2>1. CASE sclosed
    BY <1>2, <1>3, <1>1, <1>5, <2>1 DEF Write, DownOK, pollVars, recvVars
  <2>2. CASE ~sclosed
    <3>1. /\ nextDown \in Down /\ pending' = Append(pending, nextDown)
          /\ nextDown' = nextDown + 1 /\ UNCHANGED <<reply, hand, queue, received>>
      BY <1>5, <2>2 DEF Write, pollVars, recvVars
    <3>2. waiting' = Append(waiting, Base64String(nextDown))
      BY <3>1, <1>1, EncodeAppend
    <3>3. Base64String(nextDown) \in Texts /\ Body(Base64String(nextDown)) = nextDown
      BY <3>1 DEF Texts, Base64String, Body
    <3>4. Bodies(waiting') = Bodies(waiting) \cup {nextDown}
      BY <3>2, <3>3, <1>1, AppendLast
    <3>5. Ascending(waiting')
      BY <3>2, <3>3, <1>1, <1>2, <1>3, AppendLast DEF InLine
    <3> HIDE DEF waiting
    <3>6. InLine(received, queue, hand, reply, waiting')
      BY <1>2, <1>3, <3>4, <3>5 DEF InLine, Before
    <3>7. \A x \in Bodies(received) \cup Bodies(queue) \cup Bodies(hand) \cup Bodies(reply)
                  \cup Bodies(waiting') : x < nextDown + 1
      BY <1>1, <1>3, <3>4
    <3>8. QED
      BY <3>1, <3>6, <3>7 DEF DownOK, waiting
  <2>3. QED
    BY <2>1, <2>2
<1>6. CASE HandlePoll
  <2>1. reply = <<>>
    BY <1>0, <1>6 DEF HandlePoll, PollOK
  <2>2. /\ \/ reply' = waiting /\ pending' = <<>>
           \/ UNCHANGED <<reply, pending>>
        /\ UNCHANGED <<nextDown, hand, queue, received>>
    BY <1>6 DEF HandlePoll, recvVars
  <2>3. CASE reply' = waiting /\ pending' = <<>>
    <3>1. waiting' = <<>>
      BY <2>3, EmptyPart
    <3> HIDE DEF waiting
    <3>2. InLine(received, queue, hand, waiting, <<>>)
      BY <1>2, <2>1, EmptyPart DEF InLine
    <3>3. QED
      BY <1>3, <2>2, <2>3, <3>1, <3>2, EmptyPart DEF DownOK, waiting
  <2>4. QED
    BY <1>4, <2>2, <2>3
<1>7. CASE HandleStalePoll
  <2>1. /\ pending' = <<>> \/ pending' = pending
        /\ UNCHANGED <<nextDown, reply, hand, queue, received>>
    BY <1>7 DEF HandleStalePoll, recvVars
  <2>2. CASE pending' = <<>>
    <3>1. waiting' = <<>>
      BY <2>2, EmptyPart
    <3> HIDE DEF waiting
    <3>2. InLine(received, queue, hand, reply, <<>>)
      BY <1>2, EmptyPart DEF InLine
    <3>3. QED
      BY <1>3, <2>1, <3>1, <3>2, EmptyPart DEF DownOK, waiting
  <2>3. QED
    BY <1>4, <2>1, <2>2
<1>8. CASE PollReply
  <2>1. /\ hand = <<>> /\ hand' = reply /\ reply' = <<>>
        /\ UNCHANGED <<pending, nextDown, queue, received>>
    BY <1>0, <1>8 DEF PollReply, PollOK, recvVars
  <2>2. waiting' = waiting
    BY <2>1
  <2> HIDE DEF waiting
  <2>3. InLine(received, queue, reply, <<>>, waiting)
    BY <1>2, <2>1, EmptyPart DEF InLine
  <2>4. QED
    BY <1>3, <2>1, <2>2, <2>3, EmptyPart DEF DownOK, waiting
<1>9. CASE PollAbandoned
  <2>1. reply' = <<>> /\ UNCHANGED <<pending, nextDown, hand, queue, received>>
    BY <1>9 DEF PollAbandoned, recvVars
  <2>2. waiting' = waiting
    BY <2>1
  <2> HIDE DEF waiting
  <2>3. InLine(received, queue, hand, <<>>, waiting)
    BY <1>2, EmptyPart DEF InLine
  <2>4. QED
    BY <1>3, <2>1, <2>2, <2>3, EmptyPart DEF DownOK, waiting
<1>10. CASE Push /\ hand # <<>>
  <2>1. /\ hand' = Tail(hand) /\ (queue' = Append(queue, Head(hand)) \/ queue' = queue)
        /\ UNCHANGED <<pending, nextDown, reply, received>>
    BY <1>10 DEF Push
  <2>2. waiting' = waiting
    BY <2>1
  <2>3. /\ Head(hand) \in Texts
        /\ Bodies(hand) = {Body(Head(hand))} \cup Bodies(Tail(hand))
        /\ Ascending(Tail(hand)) /\ \A y \in Bodies(Tail(hand)) : Body(Head(hand)) < y
    BY <1>1, <1>2, <1>10, TakeFirst DEF InLine
  <2> DEFINE longer == Append(queue, Head(hand))
             rest == Tail(hand)
             first == Body(Head(hand))
  <2>4. Bodies(longer) = Bodies(queue) \cup {first}
    BY <1>1, <2>3, AppendLast
  <2>5. Ascending(longer)
    <3>1. Ascending(queue) /\ \A y \in Bodies(queue) : y < first
      BY <1>2, <2>3 DEF InLine, Before
    <3>2. QED
      BY <1>1, <2>3, <3>1, AppendLast
  <2> HIDE DEF waiting, longer, rest, first
  <2>6. Bodies(hand) = {first} \cup Bodies(rest) /\ Ascending(rest)
        /\ \A y \in Bodies(rest) : first < y
    BY <2>3 DEF rest, first
  <2>7. InLine(received, longer, rest, reply, waiting)
    BY <1>2, <2>4, <2>5, <2>6 DEF InLine, Before
  <2>8. InLine(received, queue, rest, reply, waiting)
    BY <1>2, <2>6 DEF InLine, Before
  <2>9. QED
    <3>1. hand' = rest /\ (queue' = longer \/ queue' = queue)
      BY <2>1 DEF rest, longer
    <3>2. InLine(received', queue', hand', reply', waiting')
      BY <3>1, <2>1, <2>2, <2>7, <2>8
    <3>3. Bodies(queue') \cup Bodies(hand') \subseteq Bodies(queue) \cup Bodies(hand)
      BY <3>1, <2>4, <2>6
    <3>4. QED
      BY <1>3, <2>1, <2>2, <3>2, <3>3 DEF DownOK, waiting
<1>11. CASE ReceiveMessage
  <2>1. /\ queue # <<>> /\ queue' = Tail(queue) /\ received' = Append(received, Head(queue))
        /\ UNCHANGED <<pending, nextDown, reply, hand>>
    BY <1>11 DEF ReceiveMessage, pollVars
  <2>2. waiting' = waiting
    BY <2>1
  <2> DEFINE longer == Append(received, Head(queue))
             rest == Tail(queue)
             first == Body(Head(queue))
  <2>3. /\ Head(queue) \in Texts /\ Bodies(queue) = {first} \cup Bodies(rest)
        /\ Ascending(rest) /\ \A y \in Bodies(rest) : first < y
    BY <1>1, <1>2, <2>1, TakeFirst DEF InLine
  <2>4. Bodies(longer) = Bodies(received) \cup {first}
    BY <1>1, <2>3, AppendLast
  <2>5. Ascending(longer)
    <3>1. Ascending(received) /\ \A y \in Bodies(received) : y < first
      BY <1>2, <2>3 DEF InLine, Before
    <3>2. QED
      BY <1>1, <2>3, <3>1, AppendLast
  <2>6. queue' = rest /\ received' = longer
    BY <2>1
  <2> HIDE DEF waiting, longer, rest, first
  <2>7. InLine(longer, rest, hand, reply, waiting)
    BY <1>2, <2>3, <2>4, <2>5 DEF InLine, Before
  <2>8. QED
    BY <1>3, <2>1, <2>2, <2>3, <2>4, <2>6, <2>7 DEF DownOK, waiting
<1>12. CASE Push /\ hand = <<>>
  BY <1>4, <1>12 DEF Push
<1>13. ASSUME NEW m \in Up, HandleSendCheck(m) \/ HandleSendEnqueue(m) PROVE DownOK'
  BY <1>4, <1>13 DEF HandleSendCheck, HandleSendEnqueue, downVars, pollVars, recvVars
<1>14. CASE Connect \/ HandleConnect \/ ConnectReply \/ ConnectError \/ Cancel \/ CloseBegin
            \/ CloseEnd \/ HandleDisconnect \/ ServerClose \/ CollectSession
  BY <1>4, <1>14 DEF Connect, HandleConnect, ConnectReply, ConnectError, Cancel, CloseBegin,
      CloseEnd, HandleDisconnect, ServerClose, CollectSession, downVars, pollVars, recvVars
<1>15. CASE PollDone \/ PollRequest \/ ReceiveCheck \/ ReceiveDone
  BY <1>4, <1>15 DEF PollDone, PollRequest, ReceiveCheck, ReceiveDone, pollVars, recvVars
<1>16. CASE Send \/ SendReply \/ SendAbandoned \/ ServerRead
  BY <1>4, <1>16 DEF Send, SendReply, SendAbandoned, ServerRead, downVars, pollVars, recvVars
<1>17. CASE UNCHANGED vars
  BY <1>4, <1>17 DEF vars, downVars, pollVars, recvVars
<1>18. QED
  BY <1>5, <1>6, <1>7, <1>8, <1>9, <1>10, <1>11, <1>12, <1>13, <1>14, <1>15, <1>16, <1>17
     DEF Next

------------------------------------------------------------------------------
(* From the client to the server. *)

\* A value put at the end of a sequence that does not have it.
LEMMA ArrivesLast ==
    ASSUME NEW S, NEW s \in Seq(S), NEW x \in S
    PROVE  /\ Elements(Append(s, x)) = Elements(s) \cup {x}
           /\ Distinct(s) /\ x \notin Elements(s) => Distinct(Append(s, x))
<1>1. /\ Len(s) \in Nat /\ DOMAIN s = 1..Len(s)
      /\ DOMAIN Append(s, x) = 1..(Len(s) + 1)
      /\ Append(s, x)[Len(s) + 1] = x
      /\ \A n \in 1..Len(s) : Append(s, x)[n] = s[n]
  OBVIOUS
<1>2. Elements(Append(s, x)) = Elements(s) \cup {x}
  BY <1>1 DEF Elements
<1>3. Distinct(s) /\ x \notin Elements(s) => Distinct(Append(s, x))
  BY <1>1 DEF Distinct, Elements
<1>4. QED
  BY <1>2, <1>3

\* The first value of a sequence of distinct ones.
LEMMA FirstLeaves ==
    ASSUME NEW S, NEW s \in Seq(S), s # <<>>
    PROVE  /\ Elements(s) = {Head(s)} \cup Elements(Tail(s))
           /\ Distinct(s) => Distinct(Tail(s)) /\ Head(s) \notin Elements(Tail(s))
<1>1. /\ Len(s) \in Nat \ {0} /\ DOMAIN s = 1..Len(s) /\ Head(s) = s[1]
      /\ DOMAIN Tail(s) = 1..(Len(s) - 1)
      /\ \A n \in 1..(Len(s) - 1) : Tail(s)[n] = s[n + 1]
  OBVIOUS
<1>2. Elements(s) = {Head(s)} \cup Elements(Tail(s))
  <2>1. Elements(Tail(s)) = {s[n + 1] : n \in 1..(Len(s) - 1)}
    BY <1>1 DEF Elements
  <2>2. ASSUME NEW n \in 1..Len(s) PROVE s[n] \in {s[1]} \cup Elements(Tail(s))
    <3>1. CASE n = 1
      BY <3>1
    <3>2. CASE n # 1
      <4>1. n - 1 \in 1..(Len(s) - 1) /\ n = (n - 1) + 1
        BY <3>2, <1>1
      <4>2. QED
        BY <4>1, <2>1
    <3>3. QED
      BY <3>1, <3>2
  <2>3. QED
    BY <2>1, <2>2, <1>1 DEF Elements
<1>3. Distinct(s) => Distinct(Tail(s)) /\ Head(s) \notin Elements(Tail(s))
  BY <1>1 DEF Distinct, Elements
<1>4. QED
  BY <1>2, <1>3

\* Only the request of a message that has not arrived can enqueue it, and every
\* message has one request in its life.
LEMMA UpStep == LinkInv /\ [Next]_vars => UpOK'
<1> SUFFICES ASSUME LinkInv, [Next]_vars PROVE UpOK'
  OBVIOUS
<1>0. UpOK /\ TypeOK /\ Up' = Up
  BY LoadStep DEF LinkInv
<1>1. /\ up \in [Up -> {"unsent", "sent", "reading", "accepted", "refused"}]
      /\ incoming \in Seq(Up) /\ read \in Seq(Up) /\ acked \subseteq Up
      /\ nextUp \in Nat /\ Up \subseteq Nat
  <2>1. load[2] \in Nat /\ nextUp \in 1..load[2] + 1
    BY <1>0, LongPollingAssumption DEF TypeOK
  <2>2. nextUp \in Nat /\ Up \subseteq Nat
    BY <2>1 DEF Up
  <2>3. QED
    BY <1>0, <2>2 DEF TypeOK
<1>2. CASE UNCHANGED <<nextUp, up, acked, incoming, read>>
  BY <1>0, <1>2 DEF UpOK
<1>3. CASE Send
  <2>1. /\ nextUp \in Up /\ nextUp' = nextUp + 1 /\ up' = [up EXCEPT ![nextUp] = "sent"]
        /\ UNCHANGED <<acked, incoming, read>>
    BY <1>3 DEF Send
  <2>2. up[nextUp] = "unsent"
    BY <1>0, <1>1, <2>1 DEF UpOK
  <2>3. \A m \in Up : up'[m] = "accepted" <=> up[m] = "accepted"
    BY <1>1, <2>1, <2>2
  <2>4. \A m \in Up : m >= nextUp' => up'[m] = "unsent"
    BY <1>0, <1>1, <2>1 DEF UpOK
  <2>5. QED
    BY <1>0, <1>1, <2>1, <2>3, <2>4 DEF UpOK
<1>4. ASSUME NEW m \in Up, HandleSendCheck(m) PROVE UpOK'
  <2>1. /\ up[m] = "sent" /\ UNCHANGED <<nextUp, acked, incoming, read>>
        /\ up' = [up EXCEPT ![m] = "reading"] \/ up' = [up EXCEPT ![m] = "refused"]
    BY <1>4 DEF HandleSendCheck
  <2>2. \A n \in Up : /\ up'[n] = "accepted" <=> up[n] = "accepted"
                      /\ up[n] = "unsent" => up'[n] = "unsent"
    BY <1>1, <2>1
  <2>3. QED
    BY <1>0, <1>1, <2>1, <2>2 DEF UpOK
<1>5. ASSUME NEW m \in Up, HandleSendEnqueue(m) PROVE UpOK'
  <2>1. up[m] = "reading" /\ UNCHANGED <<nextUp, acked, read>>
    BY <1>5 DEF HandleSendEnqueue
  <2>2. CASE up' = [up EXCEPT ![m] = "refused"] /\ UNCHANGED incoming
    <3>1. \A n \in Up : /\ up'[n] = "accepted" <=> up[n] = "accepted"
                        /\ up[n] = "unsent" => up'[n] = "unsent"
      BY <1>1, <2>1, <2>2
    <3>2. QED
      BY <1>0, <1>1, <2>1, <2>2, <3>1 DEF UpOK
  <2>3. CASE incoming' = Append(incoming, m) /\ up' = [up EXCEPT ![m] = "accepted"]
    <3>1. m \notin Elements(read) \cup Elements(incoming)
      BY <1>0, <2>1 DEF UpOK
    <3>2. Elements(incoming') = Elements(incoming) \cup {m} /\ Distinct(incoming')
      BY <1>0, <1>1, <2>3, <3>1, ArrivesLast DEF UpOK
    <3>3. \A n \in Up : /\ up'[n] = "accepted" <=> up[n] = "accepted" \/ n = m
                        /\ up[n] = "unsent" => up'[n] = "unsent"
      BY <1>1, <2>1, <2>3
    <3>4. QED
      BY <1>0, <1>1, <2>1, <3>1, <3>2, <3>3 DEF UpOK
  <2>4. QED
    BY <1>5, <2>2, <2>3 DEF HandleSendEnqueue
<1>6. CASE SendReply
  <2>1. /\ UNCHANGED <<nextUp, up, incoming, read>>
        /\ acked' = acked \/ (up[sending] = "accepted" /\ acked' = acked \cup {sending})
    BY <1>6 DEF SendReply
  <2>2. QED
    BY <1>0, <2>1 DEF UpOK
<1>7. CASE ServerRead
  <2>1. /\ incoming # <<>> /\ read' = Append(read, Head(incoming))
        /\ incoming' = Tail(incoming) /\ UNCHANGED <<nextUp, up, acked>>
    BY <1>7 DEF ServerRead
  <2>2. /\ Head(incoming) \in Up
        /\ Elements(incoming) = {Head(incoming)} \cup Elements(incoming')
        /\ Distinct(incoming') /\ Head(incoming) \notin Elements(incoming')
    BY <1>0, <1>1, <2>1, FirstLeaves DEF UpOK
  <2>3. Head(incoming) \notin Elements(read)
    BY <1>0, <2>2 DEF UpOK
  <2>4. Elements(read') = Elements(read) \cup {Head(incoming)} /\ Distinct(read')
    BY <1>0, <1>1, <2>1, <2>2, <2>3, ArrivesLast DEF UpOK
  <2> DEFINE first == Head(incoming)
  <2> HIDE DEF first
  <2>5. /\ Elements(incoming) = {first} \cup Elements(incoming') /\ first \notin Elements(incoming')
        /\ Elements(read') = Elements(read) \cup {first}
    BY <2>2, <2>4 DEF first
  <2>6. /\ Elements(read') \cap Elements(incoming') = {}
        /\ Elements(read') \cup Elements(incoming') = Elements(read) \cup Elements(incoming)
    BY <1>0, <2>5 DEF UpOK
  <2>7. QED
    BY <1>0, <2>1, <2>2, <2>4, <2>6 DEF UpOK
<1>8. CASE SendAbandoned
  BY <1>2, <1>8 DEF SendAbandoned
<1>9. CASE Connect \/ HandleConnect \/ ConnectReply \/ ConnectError \/ Cancel \/ CloseBegin
           \/ CloseEnd \/ HandleDisconnect \/ ServerClose \/ CollectSession
  BY <1>2, <1>9 DEF Connect, HandleConnect, ConnectReply, ConnectError, Cancel, CloseBegin,
      CloseEnd, HandleDisconnect, ServerClose, CollectSession, upVars
<1>10. CASE Write \/ PollDone \/ PollRequest \/ HandlePoll \/ HandleStalePoll \/ PollReply
            \/ PollAbandoned \/ Push \/ ReceiveCheck \/ ReceiveMessage \/ ReceiveDone
  BY <1>2, <1>10 DEF Write, PollDone, PollRequest, HandlePoll, HandleStalePoll, PollReply,
      PollAbandoned, Push, ReceiveCheck, ReceiveMessage, ReceiveDone, upVars
<1>11. CASE UNCHANGED vars
  BY <1>2, <1>11 DEF vars, upVars
<1>12. QED
  BY <1>3, <1>4, <1>5, <1>6, <1>7, <1>8, <1>9, <1>10, <1>11 DEF Next

------------------------------------------------------------------------------
(* The theorems. *)

\* A new connection has nothing on its way.
LEMMA InitInv == Init => LinkInv
<1> SUFFICES ASSUME Init PROVE LinkInv
  OBVIOUS
<1>1. load[1] \in Nat /\ load[2] \in Nat
  BY LongPollingAssumption DEF Init
<1>2. \A S : <<>> \in Seq(S) /\ Len(<<>>) = 0
  OBVIOUS
<1>3. LinkTyped /\ DownTyped
  <2>1. LinkTyped
    BY DEF Init, LinkTyped
  <2>2. nextDown \in 1..load[1] + 1 /\ stale \in 0..MaxStale /\ Len(queue) <= QueueCap
    BY <1>1, <1>2, LongPollingAssumption DEF Init
  <2>3. DownTyped
    BY <1>2, <2>2 DEF Init, DownTyped
  <2>4. QED
    BY <2>1, <2>3
<1>4. UpTyped
  BY <1>1, <1>2, LongPollingAssumption DEF Init, UpTyped
<1>5. TypeOK
  BY <1>3, <1>4 DEF TypeOK, LinkTyped, DownTyped, UpTyped
<1>6. PollOK
  BY DEF Init, PollOK
<1>7. DownOK
  BY EmptyPart DEF Init, DownOK, InLine
<1>8. UpOK
  <2>1. Elements(<<>>) = {} /\ Distinct(<<>>)
    BY DEF Elements, Distinct
  <2>2. \A m \in Up : up[m] = "unsent"
    BY DEF Init
  <2>3. QED
    BY <2>1, <2>2 DEF Init, UpOK
<1>9. QED
  BY <1>5, <1>6, <1>7, <1>8 DEF LinkInv

\* LinkInv is inductive.
LEMMA Invariance == Spec => []LinkInv
<1>1. LinkInv /\ [Next]_vars => LinkInv'
  BY TypeStep, PollStep, DownStep, UpStep DEF LinkInv
<1>2. QED
  BY InitInv, <1>1, PTL DEF Spec

\* Both transports' fields keep the code's types, and incomingQueue and
\* incomingMessages stay within their capacities.
THEOREM TypeCorrect == Spec => []TypeOK
<1>1. LinkInv => TypeOK
  BY DEF LinkInv
<1>2. QED
  BY <1>1, Invariance, PTL

\* Whatever polls are lost, abandoned or handled too late, Receive returns the
\* messages in the order of Write and none of them twice.
THEOREM ReceivedInOrder == Spec => []InOrderOnce
<1>1. LinkInv => InOrderOnce
  BY DEF LinkInv, DownOK, InLine, Ascending, InOrderOnce
<1>2. QED
  BY <1>1, Invariance, PTL

\* A message for which Send returned nil is in the server's queue or has been
\* read, and no message is there twice: an abandoned request is never handled
\* a second time.
THEOREM AckedArrives == Spec => []AckedOnce
<1>1. LinkInv => AckedOnce
  <2> SUFFICES ASSUME LinkInv PROVE AckedOnce
    OBVIOUS
  <2> DEFINE arrived == read \o incoming
  <2>1. /\ read \in Seq(Up) /\ incoming \in Seq(Up) /\ acked \subseteq Up
        /\ Distinct(read) /\ Distinct(incoming)
        /\ Elements(read) \cap Elements(incoming) = {}
        /\ \A m \in acked : m \in Elements(read) \cup Elements(incoming)
    BY DEF LinkInv, TypeOK, UpOK
  <2>2. /\ Len(read) \in Nat /\ Len(incoming) \in Nat
        /\ DOMAIN read = 1..Len(read) /\ DOMAIN incoming = 1..Len(incoming)
        /\ DOMAIN arrived = 1..(Len(read) + Len(incoming))
        /\ \A n \in 1..Len(read) : arrived[n] = read[n]
        /\ \A n \in 1..(Len(read) + Len(incoming)) :
               n > Len(read) => arrived[n] = incoming[n - Len(read)]
        /\ \A n \in 1..Len(incoming) : arrived[Len(read) + n] = incoming[n]
    BY <2>1
  <2> HIDE DEF arrived
  <2>3. ASSUME NEW m \in DOMAIN arrived, NEW n \in DOMAIN arrived, arrived[m] = arrived[n]
        PROVE  m = n
    <3>1. \A j \in DOMAIN arrived :
             \/ j \in DOMAIN read /\ arrived[j] = read[j]
             \/ j - Len(read) \in DOMAIN incoming /\ arrived[j] = incoming[j - Len(read)]
      BY <2>2
    <3>2. CASE m \in DOMAIN read /\ n \in DOMAIN read
      BY <2>1, <2>2, <2>3, <3>2 DEF Distinct
    <3>3. CASE m \notin DOMAIN read /\ n \notin DOMAIN read
      <4>1. /\ m - Len(read) \in DOMAIN incoming /\ n - Len(read) \in DOMAIN incoming
            /\ incoming[m - Len(read)] = incoming[n - Len(read)]
        BY <2>3, <3>1, <3>3
      <4>2. m - Len(read) = n - Len(read)
        BY <2>1, <4>1 DEF Distinct
      <4>3. QED
        BY <2>2, <4>2
    <3>4. CASE m \in DOMAIN read /\ n \notin DOMAIN read
      <4>1. arrived[m] \in Elements(read) /\ arrived[n] \in Elements(incoming)
        BY <2>2, <3>1, <3>4 DEF Elements
      <4>2. QED
        BY <2>1, <2>3, <4>1
    <3>5. CASE m \notin DOMAIN read /\ n \in DOMAIN read
      <4>1. arrived[n] \in Elements(read) /\ arrived[m] \in Elements(incoming)
        BY <2>2, <3>1, <3>5 DEF Elements
      <4>2. QED
        BY <2>1, <2>3, <4>1
    <3>6. QED
      BY <3>2, <3>3, <3>4, <3>5
  <2>4. ASSUME NEW m \in acked PROVE \E n \in DOMAIN arrived : arrived[n] = m
    <3>1. CASE m \in Elements(read)
      <4>1. PICK n \in DOMAIN read : read[n] = m
        BY <3>1 DEF Elements
      <4>2. QED
        BY <2>2, <4>1
    <3>2. CASE m \in Elements(incoming)
      <4>1. PICK n \in DOMAIN incoming : incoming[n] = m
        BY <3>2 DEF Elements
      <4>2. Len(read) + n \in DOMAIN arrived /\ arrived[Len(read) + n] = m
        BY <2>2, <4>1
      <4>3. QED
        BY <4>2
    <3>3. QED
      BY <2>1, <3>1, <3>2
  <2>5. QED
    BY <2>3, <2>4 DEF AckedOnce, arrived
<1>2. QED
  BY <1>1, Invariance, PTL

------------------------------------------------------------------------------
(* Both directions implement LossyPipe. *)

\* The substitutions of DownPipe and UpPipe.
DownTransit == Bodies(queue) \cup Bodies(hand) \cup Bodies(reply) \cup Elements(pending)
DownDelivered == [n \in DOMAIN received |-> Body(received[n])]
UpTransit == {m \in Up : up[m] \in {"sent", "reading"}} \cup Elements(incoming)

\* Nothing, and one message, at the end of what was delivered.
LEMMA SeqEnds ==
    ASSUME NEW S, NEW s \in Seq(S), NEW x \in S
    PROVE  /\ s \o <<>> = s /\ s \o <<x>> = Append(s, x)
           /\ \A G : <<>> \in [1..0 -> G] /\ DOMAIN <<>> = {}
           /\ \A G : x \in G => <<x>> \in [1..1 -> G]
           /\ DOMAIN <<x>> = {1} /\ <<x>>[1] = x
<1>1. s \o <<>> = s
  BY ConcatEmptySeq
<1>2. s \o <<x>> = Append(s, x)
  OBVIOUS
<1>3. \A G : <<>> \in [1..0 -> G] /\ DOMAIN <<>> = {}
  OBVIOUS
<1>4. \A G : x \in G => <<x>> \in [1..1 -> G]
  OBVIOUS
<1>5. DOMAIN <<x>> = {1} /\ <<x>>[1] = x
  OBVIOUS
<1>6. QED
  BY <1>1, <1>2, <1>3, <1>4, <1>5

\* A message that goes in.
LEMMA DownAccepts ==
    ASSUME nextDown \in Nat, nextDown' = nextDown + 1, DownDelivered' = DownDelivered,
           DownTransit' = DownTransit \/ DownTransit' = DownTransit \cup {nextDown}
    PROVE  DownPipe!Next
<1>1. nextDown' - 1 = (nextDown - 1) + 1 /\ (nextDown - 1) + 1 = nextDown
  OBVIOUS
<1>2. DownPipe!Accept
  BY <1>1 DEF DownPipe!Accept, DownTransit, DownDelivered, Elements
<1>3. QED
  BY <1>2 DEF DownPipe!Next

\* Messages that get lost, or only move.
LEMMA DownLoses ==
    ASSUME nextDown \in Nat \ {0}, UNCHANGED nextDown, DownDelivered' = DownDelivered,
           DownDelivered \in Seq(Nat), DownTransit' \subseteq DownTransit
    PROVE  DownPipe!Next
<1> DEFINE gone == DownTransit \ DownTransit'
<1>1. gone \in SUBSET DownTransit /\ DownTransit' = DownTransit \ gone
  OBVIOUS
<1>2. /\ DownDelivered' = DownDelivered \o <<>> /\ <<>> \in [1..0 -> gone]
      /\ DOMAIN <<>> = {}
  <2>1. 0 \in Nat
    OBVIOUS
  <2>2. QED
    BY <2>1, SeqEnds
<1>3. 0 \in 0..(nextDown - 1)
  OBVIOUS
<1> HIDE DEF gone
<1>4. DownPipe!Leave(gone, <<>>)
  BY <1>1, <1>2 DEF DownPipe!Leave, DownTransit, DownDelivered, Elements
<1>5. QED
  BY <1>1, <1>2, <1>3, <1>4 DEF DownPipe!Next, DownTransit, Elements

\* The first message on its way, delivered.
LEMMA DownDelivers ==
    ASSUME nextDown \in Nat, UNCHANGED nextDown, NEW m \in DownTransit, m \in Nat,
           1 < nextDown, \A k \in DownTransit \ {m} : m < k,
           DownTransit' = DownTransit \ {m}, DownDelivered \in Seq(Nat),
           DownDelivered' = Append(DownDelivered, m)
    PROVE  DownPipe!Next
<1>1. /\ DownDelivered' = DownDelivered \o <<m>> /\ <<m>> \in [1..1 -> {m}]
      /\ DOMAIN <<m>> = {1} /\ <<m>>[1] = m
  BY SeqEnds
<1>2. 1 \in 0..(nextDown - 1) /\ {m} \in SUBSET DownTransit
  OBVIOUS
<1> DEFINE out == <<m>>
<1>3. /\ DOMAIN out = {1} /\ out[1] = m /\ out \in [1..1 -> {m}]
      /\ DownDelivered' = DownDelivered \o out
  BY <1>1
<1> HIDE DEF out
<1>4. /\ \A i, j \in DOMAIN out : out[i] = out[j] => i = j
      /\ \A i, j \in DOMAIN out : i < j => out[i] < out[j]
      /\ \A i \in DOMAIN out, k \in DownTransit \ {m} : out[i] < k
  BY <1>3
<1>5. DownPipe!Leave({m}, out)
  BY <1>3, <1>4 DEF DownPipe!Leave, DownTransit, DownDelivered, Elements
<1>6. QED
  BY <1>2, <1>3, <1>5 DEF DownPipe!Next, DownTransit, Elements

\* What a message may do on its way down: go in, move, get lost, or be the first
\* one to come out.
LEMMA DownPipeStep == LinkInv /\ [Next]_vars => [DownPipe!Next]_DownPipe!vars
<1> SUFFICES ASSUME LinkInv, [Next]_vars PROVE DownPipe!Next
  OBVIOUS
<1>0. DownOK /\ PollOK /\ TypeOK
  BY DEF LinkInv
<1>1. /\ pending \in Seq(Down) /\ nextDown \in Nat \ {0} /\ Down \subseteq Nat
      /\ reply \in Seq(Texts) /\ hand \in Seq(Texts) /\ queue \in Seq(Texts)
      /\ received \in Seq(Texts)
  <2>1. nextDown \in 1..load[1] + 1 /\ load[1] \in Nat
    BY <1>0, LongPollingAssumption DEF TypeOK
  <2>2. nextDown \in Nat \ {0} /\ Down \subseteq Nat
    BY <2>1 DEF Down
  <2>3. QED
    BY <1>0, <2>2 DEF TypeOK
<1>2. Bodies(Encode(pending)) = Elements(pending)
  BY <1>1, EncodeFacts
<1>3. \A x \in DownTransit : x < nextDown /\ x \in Nat
  <2>1. \A s \in Seq(Texts) : Bodies(s) \subseteq Nat
    BY <1>1, BodiesTyped
  <2>2. Elements(pending) \subseteq Nat
    <3>1. \A n \in DOMAIN pending : pending[n] \in Down
      BY <1>1
    <3>2. QED
      BY <1>1, <3>1 DEF Elements
  <2>3. QED
    BY <1>0, <1>1, <1>2, <2>1, <2>2 DEF DownOK, DownTransit
<1>4. DownDelivered \in Seq(Nat)
  <2>1. Len(received) \in Nat /\ DOMAIN received = 1..Len(received)
    BY <1>1
  <2>2. \A n \in 1..Len(received) : Body(received[n]) \in Nat
    <3>1. Bodies(received) \subseteq Nat
      BY <1>1, BodiesTyped
    <3>2. QED
      BY <2>1, <3>1 DEF Bodies
  <2>3. DownDelivered \in [1..Len(received) -> Nat]
    BY <2>1, <2>2 DEF DownDelivered
  <2>4. QED
    BY <2>1, <2>3
<1>5. Bodies(<<>>) = {} /\ Elements(<<>>) = {}
  BY DEF Bodies, Elements
<1>6. ASSUME UNCHANGED <<nextDown, received>>, DownTransit' \subseteq DownTransit
      PROVE  DownPipe!Next
  <2>1. DownDelivered' = DownDelivered
    BY <1>6 DEF DownDelivered
  <2>2. QED
    BY <2>1, <1>1, <1>4, <1>6, DownLoses
<1>7. CASE UNCHANGED <<pending, nextDown, reply, hand, queue, received>>
  BY <1>6, <1>7 DEF DownTransit, Elements, Bodies
<1>8. CASE Write
  <2>1. /\ nextDown \in Down /\ nextDown' = nextDown + 1
        /\ pending' = pending \/ pending' = Append(pending, nextDown)
        /\ UNCHANGED <<reply, hand, queue, received>>
    BY <1>8 DEF Write, pollVars, recvVars
  <2>2. Elements(Append(pending, nextDown)) = Elements(pending) \cup {nextDown}
    BY <1>1, <2>1, ArrivesLast
  <2>3. DownTransit' = DownTransit \/ DownTransit' = DownTransit \cup {nextDown}
    BY <2>1, <2>2 DEF DownTransit
  <2>4. DownDelivered' = DownDelivered
    BY <2>1 DEF DownDelivered
  <2>5. QED
    BY <1>1, <2>1, <2>3, <2>4, DownAccepts
<1>9. CASE HandlePoll
  <2>1. CASE reply' = Encode(pending) /\ pending' = <<>>
    BY <1>2, <1>5, <1>6, <1>9, <2>1 DEF HandlePoll, DownTransit, recvVars
  <2>2. CASE UNCHANGED <<reply, pending>>
    BY <1>6, <1>9, <2>2 DEF HandlePoll, DownTransit, recvVars
  <2>3. QED
    BY <1>9, <2>1, <2>2 DEF HandlePoll
<1>10. CASE HandleStalePoll
  <2>1. /\ pending' = pending \/ pending' = <<>>
        /\ UNCHANGED <<nextDown, reply, hand, queue, received>>
    BY <1>10 DEF HandleStalePoll, recvVars
  <2>2. QED
    BY <1>5, <1>6, <2>1 DEF DownTransit
<1>11. CASE PollReply \/ PollAbandoned
  <2>1. /\ reply' = <<>> /\ (hand' = reply \/ hand' = hand)
        /\ UNCHANGED <<nextDown, pending, queue, received>>
    BY <1>11 DEF PollReply, PollAbandoned, recvVars
  <2>2. QED
    BY <1>5, <1>6, <2>1 DEF DownTransit
<1>12. CASE Push /\ hand # <<>>
  <2>1. /\ hand' = Tail(hand) /\ (queue' = Append(queue, Head(hand)) \/ queue' = queue)
        /\ UNCHANGED <<pending, nextDown, reply, received>>
    BY <1>12 DEF Push
  <2>2. Head(hand) \in Texts /\ Bodies(hand) = {Body(Head(hand))} \cup Bodies(Tail(hand))
    BY <1>1, <1>12, TakeFirst
  <2>3. Bodies(Append(queue, Head(hand))) = Bodies(queue) \cup {Body(Head(hand))}
    BY <1>1, <2>2, AppendLast
  <2>4. QED
    BY <1>6, <2>1, <2>2, <2>3 DEF DownTransit
<1>13. CASE ReceiveMessage
  <2> DEFINE m == Body(Head(queue))
             rest == Bodies(Tail(queue)) \cup Bodies(hand) \cup Bodies(reply)
                       \cup Elements(pending)
  <2>1. /\ queue # <<>> /\ queue' = Tail(queue) /\ received' = Append(received, Head(queue))
        /\ UNCHANGED <<pending, nextDown, reply, hand>>
    BY <1>13 DEF ReceiveMessage, pollVars
  <2>2. InLine(received, queue, hand, reply, Encode(pending))
    BY <1>0 DEF DownOK
  <2>3. /\ Head(queue) \in Texts /\ Bodies(queue) = {m} \cup Bodies(Tail(queue))
        /\ \A y \in Bodies(Tail(queue)) : m < y
    BY <1>1, <2>1, <2>2, TakeFirst DEF InLine
  <2>4. DownTransit = {m} \cup rest /\ DownTransit' = rest
    BY <2>1, <2>3 DEF DownTransit
  <2>5. \A k \in rest : m < k
    BY <1>2, <2>2, <2>3 DEF InLine, Before
  <2>6. DownDelivered' = Append(DownDelivered, m)
    <3>1. /\ Len(received) \in Nat /\ DOMAIN received = 1..Len(received)
          /\ DOMAIN received' = 1..(Len(received) + 1)
          /\ received'[Len(received) + 1] = Head(queue)
          /\ \A n \in 1..Len(received) : received'[n] = received[n]
      BY <1>1, <2>1, <2>3
    <3>2. DownDelivered' = [n \in 1..(Len(received) + 1) |-> Body(received'[n])]
      BY <3>1 DEF DownDelivered
    <3>3. DownDelivered = [n \in 1..Len(received) |-> Body(received[n])]
      BY <3>1 DEF DownDelivered
    <3>4. Len(DownDelivered) = Len(received)
      BY <1>4, <3>1, <3>3
    <3> DEFINE longer == Append(DownDelivered, m)
    <3>5. /\ longer = [n \in 1..(Len(received) + 1) |-> longer[n]]
          /\ longer[Len(received) + 1] = m
          /\ \A n \in 1..Len(received) : longer[n] = DownDelivered[n]
      <4>1. m \in Nat
        BY <1>3, <2>4
      <4>2. longer \in Seq(Nat) /\ Len(longer) = Len(received) + 1
        BY <1>4, <3>4, <4>1
      <4>3. longer = [n \in 1..(Len(received) + 1) |-> longer[n]]
        <5> HIDE DEF longer
        <5>1. longer \in [1..(Len(received) + 1) -> Nat]
          BY <4>2
        <5>2. QED
          BY <5>1
      <4>4. /\ longer[Len(received) + 1] = m
            /\ \A n \in 1..Len(received) : longer[n] = DownDelivered[n]
        BY <1>4, <3>4, <4>1
      <4>5. QED
        BY <4>3, <4>4
    <3> HIDE DEF longer
    <3>6. ASSUME NEW n \in 1..(Len(received) + 1) PROVE longer[n] = Body(received'[n])
      <4>1. CASE n = Len(received) + 1
        BY <3>1, <3>5, <4>1
      <4>2. CASE n # Len(received) + 1
        <5>1. n \in 1..Len(received)
          BY <3>1, <4>2
        <5>2. longer[n] = DownDelivered[n] /\ DownDelivered[n] = Body(received[n])
          BY <3>3, <3>5, <5>1
        <5>3. QED
          BY <3>1, <5>1, <5>2
      <4>3. QED
        BY <4>1, <4>2
    <3>7. QED
      BY <3>2, <3>5, <3>6 DEF longer
  <2> HIDE DEF m, rest
  <2>7. m \in DownTransit /\ m \in Nat /\ 1 < nextDown
    <3>1. m \in DownTransit /\ m \in Nat /\ m < nextDown
      BY <1>3, <2>4
    <3>2. m \in Down
      BY <1>1, <2>3, BodiesTyped
    <3>3. QED
      BY <1>1, <3>1, <3>2 DEF Down
  <2>8. DownTransit' = DownTransit \ {m} /\ \A k \in DownTransit \ {m} : m < k
    <3>1. m \notin rest
      BY <2>5, <2>7
    <3>2. QED
      BY <2>4, <2>5, <3>1
  <2>9. QED
    BY <1>1, <1>4, <2>1, <2>6, <2>7, <2>8, DownDelivers
<1>14. ASSUME NEW m \in Up, HandleSendCheck(m) \/ HandleSendEnqueue(m) PROVE DownPipe!Next
  BY <1>7, <1>14 DEF HandleSendCheck, HandleSendEnqueue, downVars, pollVars, recvVars
<1>15. CASE Connect \/ HandleConnect \/ ConnectReply \/ ConnectError \/ Cancel \/ CloseBegin
            \/ CloseEnd \/ HandleDisconnect \/ ServerClose \/ CollectSession
  BY <1>7, <1>15 DEF Connect, HandleConnect, ConnectReply, ConnectError, Cancel, CloseBegin,
      CloseEnd, HandleDisconnect, ServerClose, CollectSession, downVars, pollVars, recvVars
<1>16. CASE PollDone \/ PollRequest \/ ReceiveCheck \/ ReceiveDone \/ (Push /\ hand = <<>>)
  BY <1>7, <1>16 DEF PollDone, PollRequest, ReceiveCheck, ReceiveDone, Push, pollVars, recvVars
<1>17. CASE Send \/ SendReply \/ SendAbandoned \/ ServerRead
  BY <1>7, <1>17 DEF Send, SendReply, SendAbandoned, ServerRead, downVars, pollVars, recvVars
<1>18. CASE UNCHANGED vars
  BY <1>7, <1>18 DEF vars, downVars, pollVars, recvVars
<1>19. QED
  BY <1>8, <1>9, <1>10, <1>11, <1>12, <1>13, <1>14, <1>15, <1>16, <1>17, <1>18 DEF Next

\* The same three kinds of steps on the way up, where the order does not matter.
LEMMA UpAccepts ==
    ASSUME nextUp \in Nat, nextUp' = nextUp + 1, UNCHANGED read,
           UpTransit' = UpTransit \cup {nextUp}
    PROVE  UpPipe!Next
<1>1. nextUp' - 1 = (nextUp - 1) + 1 /\ (nextUp - 1) + 1 = nextUp
  OBVIOUS
<1>2. UpPipe!Accept
  BY <1>1 DEF UpPipe!Accept, UpTransit, Elements
<1>3. QED
  BY <1>2 DEF UpPipe!Next

\* Messages that are refused, or only move.
LEMMA UpLoses ==
    ASSUME nextUp \in Nat \ {0}, UNCHANGED nextUp, UNCHANGED read, read \in Seq(Nat),
           UpTransit' \subseteq UpTransit
    PROVE  UpPipe!Next
<1> DEFINE gone == UpTransit \ UpTransit'
<1>1. gone \in SUBSET UpTransit /\ UpTransit' = UpTransit \ gone
  OBVIOUS
<1>2. read' = read \o <<>> /\ <<>> \in [1..0 -> gone] /\ DOMAIN <<>> = {}
  <2>1. 0 \in Nat
    OBVIOUS
  <2>2. QED
    BY <2>1, SeqEnds
<1>3. 0 \in 0..(nextUp - 1)
  OBVIOUS
<1> HIDE DEF gone
<1>4. UpPipe!Leave(gone, <<>>)
  BY <1>1, <1>2 DEF UpPipe!Leave, UpTransit, Elements
<1>5. QED
  BY <1>1, <1>2, <1>3, <1>4 DEF UpPipe!Next, UpTransit, Elements

\* A message that the server reads.
LEMMA UpDelivers ==
    ASSUME nextUp \in Nat, UNCHANGED nextUp, NEW m \in UpTransit, m \in Nat, 1 < nextUp,
           UpTransit' = UpTransit \ {m}, read \in Seq(Nat), read' = Append(read, m)
    PROVE  UpPipe!Next
<1>1. /\ read' = read \o <<m>> /\ <<m>> \in [1..1 -> {m}]
      /\ DOMAIN <<m>> = {1} /\ <<m>>[1] = m
  BY SeqEnds
<1>2. 1 \in 0..(nextUp - 1) /\ {m} \in SUBSET UpTransit
  OBVIOUS
<1> DEFINE out == <<m>>
<1>3. DOMAIN out = {1} /\ out \in [1..1 -> {m}] /\ read' = read \o out
  BY <1>1
<1> HIDE DEF out
<1>4. \A i, j \in DOMAIN out : out[i] = out[j] => i = j
  BY <1>3
<1>5. UpPipe!Leave({m}, out)
  BY <1>3, <1>4 DEF UpPipe!Leave, UpTransit, Elements
<1>6. QED
  BY <1>2, <1>3, <1>5 DEF UpPipe!Next, UpTransit, Elements

\* A message is sent once, is with its request or in the server's queue until it
\* is refused, and is read once.
LEMMA UpPipeStep == LinkInv /\ [Next]_vars => [UpPipe!Next]_UpPipe!vars
<1> SUFFICES ASSUME LinkInv, [Next]_vars PROVE UpPipe!Next
  OBVIOUS
<1>0. UpOK /\ TypeOK /\ Up' = Up
  BY LoadStep DEF LinkInv
<1>1. /\ up \in [Up -> {"unsent", "sent", "reading", "accepted", "refused"}]
      /\ incoming \in Seq(Up) /\ read \in Seq(Nat)
      /\ nextUp \in Nat \ {0} /\ Up \subseteq Nat \ {0}
  <2>1. load[2] \in Nat /\ nextUp \in 1..load[2] + 1
    BY <1>0, LongPollingAssumption DEF TypeOK
  <2>2. nextUp \in Nat \ {0} /\ Up \subseteq Nat \ {0}
    BY <2>1 DEF Up
  <2>3. read \in Seq(Nat)
    <3>1. Len(read) \in Nat /\ read \in [1..Len(read) -> Up]
      BY <1>0 DEF TypeOK
    <3>2. read \in [1..Len(read) -> Nat]
      BY <2>2, <3>1
    <3>3. QED
      BY <3>1, <3>2
  <2>4. QED
    BY <1>0, <2>2, <2>3 DEF TypeOK
<1> DEFINE Flying == {m \in Up : up[m] \in {"sent", "reading"}}
<1>2. UpTransit = Flying \cup Elements(incoming)
  BY DEF UpTransit
<1>3. ASSUME UNCHANGED <<nextUp, read>>, UpTransit' \subseteq UpTransit PROVE UpPipe!Next
  BY <1>1, <1>3, UpLoses
<1>4. CASE UNCHANGED <<nextUp, up, incoming, read>>
  <2>1. UpTransit' = UpTransit
    BY <1>0, <1>4 DEF UpTransit, Elements
  <2>2. QED
    BY <1>3, <1>4, <2>1
<1>5. CASE Send
  <2>1. /\ nextUp \in Up /\ nextUp' = nextUp + 1 /\ up' = [up EXCEPT ![nextUp] = "sent"]
        /\ UNCHANGED <<incoming, read>>
    BY <1>5 DEF Send
  <2>2. Flying' = Flying \cup {nextUp}
    BY <1>0, <1>1, <2>1
  <2>3. UpTransit' = UpTransit \cup {nextUp}
    BY <1>2, <2>1, <2>2 DEF UpTransit
  <2>4. QED
    BY <1>1, <2>1, <2>3, UpAccepts
<1>6. ASSUME NEW m \in Up, HandleSendCheck(m) PROVE UpPipe!Next
  <2>1. /\ up[m] = "sent" /\ UNCHANGED <<nextUp, incoming, read>>
        /\ up' = [up EXCEPT ![m] = "reading"] \/ up' = [up EXCEPT ![m] = "refused"]
    BY <1>6 DEF HandleSendCheck
  <2>2. Flying' \subseteq Flying
    BY <1>0, <1>1, <2>1
  <2>3. QED
    BY <1>2, <1>3, <2>1, <2>2 DEF UpTransit
<1>7. ASSUME NEW m \in Up, HandleSendEnqueue(m) PROVE UpPipe!Next
  <2>1. /\ up[m] = "reading" /\ UNCHANGED <<nextUp, read>>
        /\ up' = [up EXCEPT ![m] = "accepted"] \/ up' = [up EXCEPT ![m] = "refused"]
        /\ incoming' = incoming \/ incoming' = Append(incoming, m)
    BY <1>7 DEF HandleSendEnqueue
  <2>2. Flying' \subseteq Flying /\ m \in Flying
    BY <1>0, <1>1, <2>1
  <2>3. Elements(incoming') \subseteq Elements(incoming) \cup {m}
    <3>1. Elements(Append(incoming, m)) = Elements(incoming) \cup {m}
      BY <1>1, ArrivesLast
    <3>2. QED
      BY <2>1, <3>1
  <2>4. QED
    BY <1>2, <1>3, <2>1, <2>2, <2>3 DEF UpTransit
<1>8. CASE ServerRead
  <2> DEFINE m == Head(incoming)
  <2>1. /\ incoming # <<>> /\ read' = Append(read, m)
        /\ incoming' = Tail(incoming) /\ UNCHANGED <<nextUp, up>>
    BY <1>8 DEF ServerRead
  <2>2. /\ m \in Up /\ Elements(incoming) = {m} \cup Elements(incoming')
        /\ m \notin Elements(incoming')
    BY <1>0, <1>1, <2>1, FirstLeaves DEF UpOK
  <2>3. up[m] = "accepted"
    BY <1>0, <2>2 DEF UpOK
  <2> HIDE DEF m
  <2>4. m \notin Flying /\ Flying' = Flying
    BY <1>0, <2>1, <2>3
  <2>5. UpTransit' = UpTransit \ {m} /\ m \in UpTransit
    BY <1>2, <2>2, <2>4 DEF UpTransit
  <2>6. m \in Nat /\ 1 < nextUp
    <3>1. m < nextUp
      BY <1>0, <1>1, <2>2, <2>3 DEF UpOK
    <3>2. QED
      BY <1>1, <2>2, <3>1
  <2>7. QED
    BY <1>1, <2>1, <2>5, <2>6, UpDelivers
<1>9. CASE SendReply \/ SendAbandoned
  BY <1>4, <1>9 DEF SendReply, SendAbandoned
<1>10. CASE Connect \/ HandleConnect \/ ConnectReply \/ ConnectError \/ Cancel \/ CloseBegin
            \/ CloseEnd \/ HandleDisconnect \/ ServerClose \/ CollectSession
  BY <1>4, <1>10 DEF Connect, HandleConnect, ConnectReply, ConnectError, Cancel, CloseBegin,
      CloseEnd, HandleDisconnect, ServerClose, CollectSession, upVars
<1>11. CASE Write \/ PollDone \/ PollRequest \/ HandlePoll \/ HandleStalePoll \/ PollReply
            \/ PollAbandoned \/ Push \/ ReceiveCheck \/ ReceiveMessage \/ ReceiveDone
  BY <1>4, <1>11 DEF Write, PollDone, PollRequest, HandlePoll, HandleStalePoll, PollReply,
      PollAbandoned, Push, ReceiveCheck, ReceiveMessage, ReceiveDone, upVars
<1>12. CASE UNCHANGED vars
  BY <1>4, <1>12 DEF vars, upVars
<1>13. QED
  BY <1>5, <1>6, <1>7, <1>8, <1>9, <1>10, <1>11, <1>12 DEF Next

\* A long-polling connection implements two lossy pipes.  Polls and sends that
\* are abandoned, answered late or refused lose messages and do nothing else: no
\* message is delivered twice, none comes back, and on the way from Write to
\* Receive none overtakes another.
THEOREM IsTwoLossyPipes == Spec => PipesSpec
<1>1. Init => DownPipe!Init
  <2> SUFFICES ASSUME Init PROVE DownPipe!Init
    OBVIOUS
  <2>1. Bodies(<<>>) = {} /\ DOMAIN <<>> = {}
    BY DEF Bodies
  <2>2. [n \in DOMAIN <<>> |-> Body(<<>>[n])] = <<>>
    OBVIOUS
  <2>3. QED
    BY <2>1, <2>2 DEF Init, DownPipe!Init
<1>2. Init => UpPipe!Init
  BY DEF Init, UpPipe!Init
<1>3. QED
  BY <1>1, <1>2, DownPipeStep, UpPipeStep, Invariance, PTL
     DEF Spec, PipesSpec, DownPipe!Spec, UpPipe!Spec
===============================================================================
