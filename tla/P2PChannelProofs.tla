-------------------------- MODULE P2PChannelProofs --------------------------
(***************************************************************************)
(* Type correctness of P2PChannel; for a run that does not call            *)
(* DeliverP2PMessages, the order in which a party is given its messages;   *)
(* which relayed message ReceiveFrom may destroy unread; and that none is, *)
(* where receivers call ReceiveAll only or a link carries one message.     *)
(***************************************************************************)
EXTENDS P2PChannel, SequenceTheorems, FiniteSetTheorems, WellFoundedInduction, TLAPS

(* What TypeOK needs to be inductive: a call that is about to hand a       *)
(* message on has one, and DeliverP2PMessages, which holds the mutex while *)
(* it has slots to empty, has only full ones.                              *)
HandsFull == \A t \in Parties : op[t].pc \in {"delete", "requeue"} => op[t].n # 0

FlushFull ==
  /\ flush # {} => locked
  /\ \A t, s \in Parties : <<t, s>> \in flush => P2PMsgs[t][s] # 0

TypeInv == TypeOK /\ HandsFull /\ FlushFull

LEMMA HeadTail ==
  ASSUME NEW S, NEW q \in Seq(S), q # <<>>
  PROVE  Head(q) \in S /\ Tail(q) \in Seq(S)
BY HeadTailProperties

LEMMA AppendType ==
  ASSUME NEW S, NEW q \in Seq(S), NEW x \in S
  PROVE  Append(q, x) \in Seq(S)
BY AppendProperties

LEMMA IdleCall == \A t \in Parties : Idle(t) \in Call /\ Idle(t).pc = "idle"
BY DEF Idle, Call

LEMMA TypeInit == Init => TypeInv
<1> SUFFICES ASSUME Init PROVE TypeInv
  OBVIOUS
<1>1. NoMessages \in [Parties -> Nat]
  BY DEF NoMessages
<1>2. <<>> \in Seq(Message) /\ <<>> \in Seq(Packet) /\ <<>> \in Seq(Number)
  BY EmptySeq
<1>3. TypeOK
  BY <1>1, <1>2, IdleCall DEF Init, TypeOK
<1>4. HandsFull
  BY IdleCall DEF Init, HandsFull
<1>5. FlushFull
  BY DEF Init, FlushFull
<1> QED
  BY <1>3, <1>4, <1>5 DEF TypeInv

LEMMA NextNumber == \A n \in Nat : n + 1 \in Nat \ {0}
OBVIOUS

LEMMA TypeStep == TypeInv /\ [Next]_vars => TypeInv'
<1> SUFFICES ASSUME TypeInv, [Next]_vars PROVE TypeInv'
  OBVIOUS
<1> USE DEF TypeInv, TypeOK, HandsFull, FlushFull
<1>1. ASSUME NEW p \in Parties, AddP2PChannel(p) PROVE TypeInv'
  BY <1>1 DEF AddP2PChannel
<1>2. ASSUME NEW s \in Parties, NEW t \in Parties, SendTo(s, t) PROVE TypeInv'
  <2>4. sent[s][t] + 1 \in Nat \ {0}
    <3>1. sent[s] \in [Parties -> Nat]
      OBVIOUS
    <3>2. sent[s][t] \in Nat
      BY <3>1
    <3> QED
      BY <3>2, NextNumber
  <2>1. [to |-> t, n |-> sent[s][t] + 1] \in Message /\ sent[s][t] + 1 \in Nat
    BY <2>4 DEF Message, Number
  <2>2. SendChannel' \in [Parties -> Seq(Message)]
    BY <1>2, <2>1, AppendType DEF SendTo
  <2>3. sent' \in [Parties -> [Parties -> Nat]]
    BY <1>2, <2>1 DEF SendTo
  <2> QED
    BY <1>2, <2>2, <2>3 DEF SendTo
<1>3. ASSUME NEW s \in Parties, Relay(s) PROVE TypeInv'
  <2> DEFINE m == Head(SendChannel[s])
  <2>1. m \in Message /\ Tail(SendChannel[s]) \in Seq(Message)
    BY <1>3, HeadTail DEF Relay
  <2>2. m.to \in Parties /\ m.n \in Nat \ {0}
    BY <2>1 DEF Message, Number
  <2>3. SendChannel' \in [Parties -> Seq(Message)]
    BY <1>3, <2>1 DEF Relay
  <2>4. P2PMsgs' \in [Parties -> [Parties -> Nat]]
    BY <1>3, <2>2 DEF Relay
  <2>5. flush = {}
    BY <1>3 DEF Relay
  <2> QED
    BY <1>3, <2>3, <2>4, <2>5 DEF Relay
<1>4. ASSUME NEW t \in Parties, NEW s \in Parties, Lookup(t, s) PROVE TypeInv'
  <2> DEFINE c == IF P2PMsgs[t][s] # 0 THEN [pc |-> "delete", from |-> s, n |-> P2PMsgs[t][s]]
                  ELSE [pc |-> "poll", from |-> s, n |-> 0]
  <2>1. P2PMsgs[t][s] \in Nat
    OBVIOUS
  <2>2. c \in Call /\ (c.pc \in {"delete", "requeue"} => c.n # 0)
    BY <2>1 DEF Call
  <2>3. op' = [op EXCEPT ![t] = c]
    BY <1>4 DEF Lookup
  <2> HIDE DEF c
  <2>4. op' \in [Parties -> Call] /\ HandsFull'
    BY <2>2, <2>3
  <2> QED
    BY <1>4, <2>4 DEF Lookup
<1>5. ASSUME NEW t \in Parties, Delete(t) PROVE TypeInv'
  <2>1. op[t].from \in Parties /\ op[t].n \in Number
    BY <1>5 DEF Delete, Call, Number
  <2>2. Append(returned[t][op[t].from], op[t].n) \in Seq(Number)
    BY <2>1, AppendType
  <2>3. returned' \in [Parties -> [Parties -> Seq(Number)]]
    BY <1>5, <2>1, <2>2 DEF Delete, Return
  <2>4. P2PMsgs' \in [Parties -> [Parties -> Nat]]
    BY <1>5, <2>1 DEF Delete
  <2>5. op' \in [Parties -> Call] /\ HandsFull'
    BY <1>5 DEF Delete, Return, Idle, Call
  <2>6. flush = {}
    BY <1>5 DEF Delete
  <2> QED
    BY <1>5, <2>3, <2>4, <2>5, <2>6 DEF Delete
<1>6. ASSUME NEW t \in Parties, Poll(t) PROVE TypeInv'
  <2>1. CASE ReceiveChannel[t] = <<>>
    <3>1. op' = [op EXCEPT ![t] = Idle(t)]
      BY <1>6, <2>1 DEF Poll
    <3>2. op' \in [Parties -> Call] /\ HandsFull'
      BY <3>1, IdleCall
    <3> QED
      BY <1>6, <2>1, <3>2 DEF Poll
  <2>2. CASE ReceiveChannel[t] # <<>>
    <3> DEFINE m == Head(ReceiveChannel[t])
    <3>1. m \in Packet /\ Tail(ReceiveChannel[t]) \in Seq(Packet)
      BY <2>2, HeadTail
    <3>2. m.from \in Parties /\ m.n \in Number /\ m.n # 0 /\ m.n \in Nat
      BY <3>1 DEF Packet, Number
    <3>3. ReceiveChannel' \in [Parties -> Seq(Packet)]
      BY <1>6, <2>2, <3>1 DEF Poll
    <3>4. CASE m.from = op[t].from
      <4>1. Append(returned[t][m.from], m.n) \in Seq(Number)
        <5> HIDE DEF m
        <5>1. returned[t][m.from] \in Seq(Number)
          BY <3>2
        <5> QED
          BY <3>2, <5>1, AppendType
      <4>2. returned' \in [Parties -> [Parties -> Seq(Number)]]
        <5>1. returned' = [returned EXCEPT ![t][m.from] = Append(@, m.n)]
          BY <1>6, <2>2, <3>4 DEF Poll, Return
        <5> HIDE DEF m
        <5> QED
          BY <5>1, <3>2, <4>1
      <4>3. op' \in [Parties -> Call] /\ HandsFull'
        <5>1. op' = [op EXCEPT ![t] = Idle(t)]
          BY <1>6, <2>2, <3>4 DEF Poll, Return
        <5> QED
          BY <5>1, IdleCall
      <4> QED
        BY <1>6, <3>3, <4>2, <4>3 DEF Poll
    <3>5. CASE m.from # op[t].from
      <4> DEFINE c == [pc |-> "requeue", from |-> m.from, n |-> m.n]
      <4>2. op' = [op EXCEPT ![t] = c] /\ returned' = returned
        BY <1>6, <2>2, <3>5 DEF Poll
      <4>3. c \in Call /\ c.n # 0
        BY <3>2 DEF Call
      <4> HIDE DEF c
      <4>1. op' \in [Parties -> Call] /\ HandsFull' /\ returned' = returned
        BY <4>2, <4>3
      <4> QED
        BY <1>6, <3>3, <4>1 DEF Poll
    <3> QED
      BY <3>4, <3>5
  <2> QED
    BY <2>1, <2>2
<1>7. ASSUME NEW t \in Parties, Requeue(t) PROVE TypeInv'
  <2>1. [from |-> op[t].from, n |-> op[t].n] \in Packet
    BY <1>7 DEF Requeue, Call, Packet, Number
  <2>2. ReceiveChannel' \in [Parties -> Seq(Packet)]
    BY <1>7, <2>1, AppendType DEF Requeue, Put
  <2>3. op' \in [Parties -> Call] /\ HandsFull'
    BY <1>7 DEF Requeue, Idle, Call
  <2> QED
    BY <1>7, <2>2, <2>3 DEF Requeue
<1>8. ASSUME NEW t \in Parties, Take(t) PROVE TypeInv'
  <2>1. flush = {}
    BY <1>8 DEF Take
  <2> QED
    BY <1>8, <2>1 DEF Take, NoMessages, Call
<1>9. ASSUME NEW t \in Parties, Drain(t) PROVE TypeInv'
  <2> DEFINE m == Head(ReceiveChannel[t])
  <2>1. m \in Packet /\ Tail(ReceiveChannel[t]) \in Seq(Packet)
    BY <1>9, HeadTail DEF Drain
  <2>2. m.from \in Parties /\ m.n \in Nat
    BY <2>1 DEF Packet, Number
  <2>3. result' \in [Parties -> [Parties -> Nat]]
    BY <1>9, <2>2 DEF Drain
  <2>4. ReceiveChannel' \in [Parties -> Seq(Packet)]
    BY <1>9, <2>1 DEF Drain
  <2> QED
    BY <1>9, <2>3, <2>4 DEF Drain
<1>10. ASSUME NEW t \in Parties, ReturnAll(t) PROVE TypeInv'
  <2>1. ASSUME NEW s \in Parties
        PROVE  (IF result[t][s] = 0 THEN returned[t][s]
                ELSE Append(returned[t][s], result[t][s])) \in Seq(Number)
    BY AppendType DEF Number
  <2>2. returned' \in [Parties -> [Parties -> Seq(Number)]]
    BY <1>10, <2>1 DEF ReturnAll
  <2> QED
    BY <1>10, <2>2 DEF ReturnAll, NoMessages, Idle, Call
<1>11. CASE DeliverBegin
  BY <1>11 DEF DeliverBegin
<1>12. ASSUME NEW t \in Parties, NEW s \in Parties, DeliverPush(t, s) PROVE TypeInv'
  <2>1. [from |-> s, n |-> P2PMsgs[t][s]] \in Packet
    BY <1>12 DEF DeliverPush, Packet, Number
  <2>2. ReceiveChannel' \in [Parties -> Seq(Packet)]
    BY <1>12, <2>1, AppendType DEF DeliverPush, Put
  <2>3. P2PMsgs' \in [Parties -> [Parties -> Nat]]
    BY <1>12 DEF DeliverPush
  <2>4. FlushFull'
    BY <1>12 DEF DeliverPush
  <2> QED
    BY <1>12, <2>2, <2>3, <2>4 DEF DeliverPush
<1>13. CASE DeliverEnd
  BY <1>13 DEF DeliverEnd
<1>14. CASE UNCHANGED vars
  BY <1>14 DEF vars
<1> QED
  BY <1>1, <1>2, <1>3, <1>4, <1>5, <1>6, <1>7, <1>8, <1>9, <1>10, <1>11,
     <1>12, <1>13, <1>14 DEF Next, Party

(* TypeInv holds throughout: types, no empty hand, no empty slot to flush. *)
THEOREM TypeInvariant == Spec => []TypeInv
BY TypeInit, TypeStep, PTL DEF Spec

(* The types, and no call hands on a message that is not there.            *)
THEOREM TypeCorrect == Spec => []TypeOK
<1>1. TypeInv => TypeOK
  BY DEF TypeInv
<1> QED
  BY <1>1, TypeInvariant, PTL

-----------------------------------------------------------------------------
(* Order without DeliverP2PMessages: the ReceiveChannels stay empty, and   *)
(* on each link what was returned comes before what the receiver has in    *)
(* hand, that before what the slot holds (a ReceiveFrom between its two    *)
(* locks may have in hand what the slot still holds), and all of it before *)
(* what the relay has still to move.                                       *)
NoDelivery ==
  /\ ~locked /\ flush = {}
  /\ \A t \in Parties : ReceiveChannel[t] = <<>> /\ op[t].pc # "requeue"
  /\ \A t \in Parties : op[t].pc # "drain" => result[t] = NoMessages

Hand(t, s) == IF op[t].pc = "delete" /\ op[t].from = s THEN op[t].n ELSE result[t][s]

\* n was sent to t, and before all that the queue of s holds for t.
Before(n, t, s) ==
  /\ n <= sent[s][t]
  /\ \A j \in 1..Len(SendChannel[s]) :
       SendChannel[s][j].to = t => n < SendChannel[s][j].n

QueueOrder(t, s) ==
  \A j \in 1..Len(SendChannel[s]) : SendChannel[s][j].to = t =>
    /\ SendChannel[s][j].n <= sent[s][t]
    /\ \A i \in 1..Len(SendChannel[s]) :
         i < j /\ SendChannel[s][i].to = t => SendChannel[s][i].n < SendChannel[s][j].n

SlotOrder(t, s) == P2PMsgs[t][s] # 0 => Before(P2PMsgs[t][s], t, s)

HandOrder(t, s) ==
  Hand(t, s) # 0 =>
    /\ Before(Hand(t, s), t, s)
    /\ P2PMsgs[t][s] # 0 => /\ Hand(t, s) <= P2PMsgs[t][s]
                            /\ op[t].pc = "drain" => Hand(t, s) # P2PMsgs[t][s]

ReturnedOrder(t, s) ==
  /\ Increasing(returned[t][s])
  /\ \A i \in 1..Len(returned[t][s]) :
       /\ Before(returned[t][s][i], t, s)
       /\ Hand(t, s) # 0 => returned[t][s][i] < Hand(t, s)
       /\ P2PMsgs[t][s] # 0 => returned[t][s][i] < P2PMsgs[t][s]

LinkOrder(t, s) ==
  QueueOrder(t, s) /\ SlotOrder(t, s) /\ HandOrder(t, s) /\ ReturnedOrder(t, s)

OrderInv == NoDelivery /\ \A t, s \in Parties : LinkOrder(t, s)

LEMMA OrderInit == Init => OrderInv
<1> SUFFICES ASSUME Init PROVE OrderInv
  OBVIOUS
<1>1. NoDelivery
  BY IdleCall DEF Init, NoDelivery
<1>2. ASSUME NEW t \in Parties, NEW s \in Parties PROVE LinkOrder(t, s)
  <2>1. Hand(t, s) = 0 /\ P2PMsgs[t][s] = 0
    BY IdleCall DEF Init, Hand, NoMessages
  <2>2. SendChannel[s] = <<>> /\ returned[t][s] = <<>>
    BY DEF Init
  <2> QED
    BY <2>1, <2>2 DEF LinkOrder, QueueOrder, SlotOrder, HandOrder, ReturnedOrder,
       Increasing
<1> QED
  BY <1>1, <1>2 DEF OrderInv

LEMMA NoDeliveryStep ==
  ASSUME "Deliver" \notin Calls, TypeInv, NoDelivery, [Next]_vars
  PROVE  NoDelivery'
<1> USE DEF NoDelivery
<1>1. ASSUME NEW p \in Parties, AddP2PChannel(p) PROVE NoDelivery'
  BY <1>1 DEF AddP2PChannel
<1>2. ASSUME NEW s \in Parties, NEW t \in Parties, SendTo(s, t) PROVE NoDelivery'
  BY <1>2 DEF SendTo
<1>3. ASSUME NEW s \in Parties, Relay(s) PROVE NoDelivery'
  BY <1>3 DEF Relay
<1>4. ASSUME NEW t \in Parties, NEW s \in Parties, Lookup(t, s) PROVE NoDelivery'
  BY <1>4 DEF Lookup, TypeInv, TypeOK
<1>5. ASSUME NEW t \in Parties, Delete(t) PROVE NoDelivery'
  BY <1>5 DEF Delete, Return, Idle, TypeInv, TypeOK
<1>6. ASSUME NEW t \in Parties, Poll(t) PROVE NoDelivery'
  <2>1. op' = [op EXCEPT ![t] = Idle(t)] /\ op[t].pc = "poll"
    BY <1>6 DEF Poll
  <2>2. UNCHANGED <<locked, flush, ReceiveChannel, result>>
    BY <1>6 DEF Poll
  <2> QED
    BY <2>1, <2>2, IdleCall DEF TypeInv, TypeOK
<1>7. ASSUME NEW t \in Parties, Take(t) PROVE NoDelivery'
  BY <1>7 DEF Take, TypeInv, TypeOK
<1>8. ASSUME NEW t \in Parties, ReturnAll(t) PROVE NoDelivery'
  BY <1>8 DEF ReturnAll, Idle, NoMessages, TypeInv, TypeOK
<1>9. ASSUME NEW t \in Parties PROVE ~Requeue(t) /\ ~Drain(t)
  BY DEF Requeue, Drain
<1>10. ~DeliverBegin /\ ~DeliverEnd /\ \A t, s \in Parties : ~DeliverPush(t, s)
  BY DEF DeliverBegin, DeliverEnd, DeliverPush
<1>11. CASE UNCHANGED vars
  BY <1>11 DEF vars
<1> QED
  BY <1>1, <1>2, <1>3, <1>4, <1>5, <1>6, <1>7, <1>8, <1>9, <1>10, <1>11
     DEF Next, Party

LEMMA Elements ==
  ASSUME NEW S, NEW q \in Seq(S)
  PROVE  Len(q) \in Nat /\ \A i \in 1..Len(q) : q[i] \in S
OBVIOUS

(* The types of what an order compares.                                    *)
LEMMA LinkTypes ==
  ASSUME TypeInv, NEW t \in Parties, NEW s \in Parties
  PROVE  /\ sent[s][t] \in Nat /\ P2PMsgs[t][s] \in Nat /\ Hand(t, s) \in Nat
         /\ SendChannel[s] \in Seq(Message) /\ returned[t][s] \in Seq(Number)
         /\ Len(SendChannel[s]) \in Nat /\ Len(returned[t][s]) \in Nat
         /\ \A j \in 1..Len(SendChannel[s]) : SendChannel[s][j].n \in Nat
         /\ \A i \in 1..Len(returned[t][s]) : returned[t][s][i] \in Nat
<1> USE DEF TypeInv, TypeOK
<1>1. sent[s][t] \in Nat /\ P2PMsgs[t][s] \in Nat /\ result[t][s] \in Nat
  OBVIOUS
<1>2. op[t] \in Call
  OBVIOUS
<1>3. Hand(t, s) \in Nat
  BY <1>1, <1>2 DEF Hand, Call
<1>4. SendChannel[s] \in Seq(Message) /\ returned[t][s] \in Seq(Number)
  OBVIOUS
<1>5. Len(SendChannel[s]) \in Nat
      /\ \A j \in 1..Len(SendChannel[s]) : SendChannel[s][j] \in Message
  BY <1>4, Elements
<1>6. Len(returned[t][s]) \in Nat
      /\ \A i \in 1..Len(returned[t][s]) : returned[t][s][i] \in Number
  BY <1>4, Elements
<1>7. \A m \in Message : m.n \in Nat
  BY DEF Message, Number
<1>8. \A n \in Number : n \in Nat
  BY DEF Number
<1> HIDE DEF TypeInv, TypeOK
<1> QED
  BY <1>1, <1>3, <1>4, <1>5, <1>6, <1>7, <1>8

(* A step that only moves the queue.                                       *)
LEMMA QueueMoves ==
  ASSUME NEW t \in Parties, NEW s \in Parties, TypeInv, LinkOrder(t, s),
         UNCHANGED <<P2PMsgs, op, result, returned>>, QueueOrder(t, s)',
         \A n \in Nat : Before(n, t, s) => Before(n, t, s)'
  PROVE  LinkOrder(t, s)'
<1>1. Hand(t, s)' = Hand(t, s)
  BY DEF Hand
<1>2. SlotOrder(t, s)'
  BY LinkTypes DEF LinkOrder, SlotOrder
<1>3. HandOrder(t, s)'
  BY <1>1, LinkTypes DEF LinkOrder, HandOrder
<1>4. ReturnedOrder(t, s)'
  BY <1>1, LinkTypes DEF LinkOrder, ReturnedOrder
<1> QED
  BY <1>2, <1>3, <1>4 DEF LinkOrder

(* A step that does not move it.                                           *)
LEMMA QueueStays ==
  ASSUME NEW t \in Parties, NEW s \in Parties, LinkOrder(t, s),
         UNCHANGED <<sent, SendChannel>>
  PROVE  QueueOrder(t, s)' /\ \A n : Before(n, t, s)' <=> Before(n, t, s)
BY DEF LinkOrder, QueueOrder, Before

(* Appending a number greater than those of a sequence keeps it increasing. *)
LEMMA IncreasingAppend ==
  ASSUME NEW q \in Seq(Number), Increasing(q), NEW n \in Number,
         \A i \in 1..Len(q) : q[i] < n
  PROVE  /\ Append(q, n) \in Seq(Number) /\ Increasing(Append(q, n))
         /\ \A i \in 1..Len(Append(q, n)) :
              \/ Append(q, n)[i] = n
              \/ i \in 1..Len(q) /\ Append(q, n)[i] = q[i]
<1>1. Len(Append(q, n)) = Len(q) + 1 /\ Len(q) \in Nat
  OBVIOUS
<1>2. \A i \in 1..Len(q) : Append(q, n)[i] = q[i]
  OBVIOUS
<1>3. Append(q, n)[Len(q) + 1] = n
  OBVIOUS
<1>4. \A i \in 1..Len(Append(q, n)) : i \in 1..Len(q) \/ i = Len(q) + 1
  BY <1>1
<1>5. Increasing(Append(q, n))
  BY <1>1, <1>2, <1>3, <1>4 DEF Increasing
<1> QED
  BY <1>2, <1>3, <1>4, <1>5, AppendType

(* SendTo numbers a message above all of the link.                         *)
LEMMA SendOrder ==
  ASSUME TypeInv, NEW a \in Parties, NEW b \in Parties, SendTo(a, b),
         NEW t \in Parties, NEW s \in Parties, LinkOrder(t, s)
  PROVE  LinkOrder(t, s)'
<1>1. sent' = [sent EXCEPT ![a][b] = @ + 1] /\ UNCHANGED <<P2PMsgs, op, result, returned>>
      /\ SendChannel' = [SendChannel EXCEPT ![a] = Append(@, [to |-> b, n |-> sent[a][b] + 1])]
  BY DEF SendTo
<1>2. sent[s][t] \in Nat /\ SendChannel[s] \in Seq(Message) /\ Len(SendChannel[s]) \in Nat
      /\ \A j \in 1..Len(SendChannel[s]) : SendChannel[s][j].n \in Nat
  BY LinkTypes
<1>3. SendChannel'[s] = IF s = a THEN Append(SendChannel[s], [to |-> b, n |-> sent[a][b] + 1])
                        ELSE SendChannel[s]
  BY <1>1 DEF TypeInv, TypeOK
<1>4. sent'[s][t] = IF s = a /\ t = b THEN sent[s][t] + 1 ELSE sent[s][t]
  BY <1>1 DEF TypeInv, TypeOK
<1>5. QueueOrder(t, s)' /\ \A n \in Nat : Before(n, t, s) => Before(n, t, s)'
  <2>1. CASE s # a
    BY <1>2, <1>3, <1>4, <2>1 DEF LinkOrder, QueueOrder, Before
  <2>2. CASE s = a
    <3> DEFINE q  == SendChannel[s]
               q2 == SendChannel'[s]
               k  == Len(SendChannel[s]) + 1
    <3>1. Len(q2) = k
      BY <1>2, <1>3, <2>2
    <3>2. \A j \in 1..Len(q) : q2[j] = q[j]
      BY <1>2, <1>3, <2>2
    <3>3. q2[k].to = b /\ q2[k].n = sent[s][b] + 1
      BY <1>2, <1>3, <2>2
    <3>4. \A j \in 1..k : j \in 1..Len(q) \/ j = k
      BY <1>2
    <3>5. \A i, j \in 1..k : i < j => i \in 1..Len(q)
      BY <1>2
    <3>6. \A j \in 1..Len(q) : q[j].to = t => q[j].n <= sent[s][t]
      BY DEF LinkOrder, QueueOrder
    <3>7. sent[s][t] <= sent'[s][t] /\ (t = b => sent'[s][t] = sent[s][b] + 1)
      BY <1>2, <1>4, <2>2
    <3>8. \A n \in Nat : n <= sent[s][t] => n <= sent'[s][t] /\ (t = b => n < sent[s][b] + 1)
      BY <1>2, <1>4, <2>2
    <3>9. QueueOrder(t, s)'
      <4>1. ASSUME NEW j \in 1..k, q2[j].to = t
            PROVE  q2[j].n <= sent'[s][t]
        <5>1. CASE j \in 1..Len(q)
          BY <5>1, <4>1, <3>2, <3>6, <3>8, <1>2
        <5>2. CASE j = k
          BY <5>2, <4>1, <3>3, <3>7, <1>2
        <5> QED
          BY <5>1, <5>2, <3>4
      <4>2. ASSUME NEW j \in 1..k, q2[j].to = t, NEW i \in 1..k, i < j, q2[i].to = t
            PROVE  q2[i].n < q2[j].n
        <5>1. i \in 1..Len(q) /\ q2[i] = q[i] /\ q[i].n \in Nat /\ q[i].n <= sent[s][t]
          BY <4>2, <3>2, <3>5, <3>6, <1>2
        <5>2. CASE j \in 1..Len(q)
          BY <5>1, <5>2, <4>2, <3>2 DEF LinkOrder, QueueOrder
        <5>3. CASE j = k
          BY <5>1, <5>3, <4>2, <3>3, <3>8
        <5> QED
          BY <5>2, <5>3, <3>4
      <4> QED
        BY <4>1, <4>2, <3>1 DEF QueueOrder
    <3>10. ASSUME NEW n \in Nat, Before(n, t, s) PROVE Before(n, t, s)'
      <4>1. n <= sent'[s][t]
        BY <3>10, <3>8 DEF Before
      <4>2. ASSUME NEW j \in 1..k, q2[j].to = t PROVE n < q2[j].n
        <5>1. CASE j \in 1..Len(q)
          BY <5>1, <4>2, <3>2, <3>10 DEF Before
        <5>2. CASE j = k
          BY <5>2, <4>2, <3>3, <3>8, <3>10 DEF Before
        <5> QED
          BY <5>1, <5>2, <3>4
      <4> QED
        BY <4>1, <4>2, <3>1 DEF Before
    <3> QED
      BY <3>9, <3>10
  <2> QED
    BY <2>1, <2>2
<1> QED
  BY <1>1, <1>5, QueueMoves

(* Relay moves the message that comes before all that stay in the queue.   *)
LEMMA RelayOrder ==
  ASSUME TypeInv, NEW a \in Parties, Relay(a),
         NEW t \in Parties, NEW s \in Parties, LinkOrder(t, s)
  PROVE  LinkOrder(t, s)'
<1> DEFINE q == SendChannel[a]
           m == Head(SendChannel[a])
<1>1. q \in Seq(Message) /\ q # <<>> /\ m \in Message /\ m = q[1] /\ Len(q) \in Nat /\ Len(q) >= 1
  <2>1. q \in Seq(Message) /\ q # <<>>
    BY DEF Relay, TypeInv, TypeOK
  <2>2. m \in Message /\ m = q[1]
    BY <2>1, HeadTail
  <2>3. Len(q) \in Nat /\ Len(q) >= 1
    BY <2>1
  <2> QED
    BY <2>1, <2>2, <2>3
<1>2. m.to \in Parties /\ m.n \in Nat /\ m.n # 0
  BY <1>1 DEF Message, Number
<1>3. UNCHANGED <<sent, op, result, returned>> /\ SendChannel' = [SendChannel EXCEPT ![a] = Tail(q)]
      /\ P2PMsgs' = [P2PMsgs EXCEPT ![m.to][a] = m.n]
  BY DEF Relay
<1>4. SendChannel'[s] = IF s = a THEN Tail(q) ELSE SendChannel[s]
  BY <1>3 DEF TypeInv, TypeOK
<1>5. Len(Tail(q)) = Len(q) - 1 /\ \A j \in 1..Len(q) - 1 : Tail(q)[j] = q[j + 1]
  BY <1>1
<1>6. \A j \in 1..Len(q) - 1 : j + 1 \in 1..Len(q) /\ 1 < j + 1
  BY <1>1
<1>7. QueueOrder(t, s)' /\ \A n \in Nat : Before(n, t, s) => Before(n, t, s)'
  <2>1. CASE s # a
    BY <1>3, <1>4, <2>1 DEF LinkOrder, QueueOrder, Before
  <2>2. CASE s = a
    <3>1. QueueOrder(t, s)'
      BY <1>3, <1>4, <1>5, <1>6, <2>2 DEF LinkOrder, QueueOrder
    <3>2. \A n \in Nat : Before(n, t, s) => Before(n, t, s)'
      BY <1>3, <1>4, <1>5, <1>6, <2>2 DEF Before
    <3> QED
      BY <3>1, <3>2
  <2> QED
    BY <2>1, <2>2
<1>8. P2PMsgs'[t][s] = IF s = a /\ t = m.to THEN m.n ELSE P2PMsgs[t][s]
  BY <1>2, <1>3 DEF TypeInv, TypeOK
<1>9. CASE ~(s = a /\ t = m.to)
  <2>1. P2PMsgs'[t][s] = P2PMsgs[t][s]
    BY <1>8, <1>9
  <2>2. Hand(t, s)' = Hand(t, s)
    BY <1>3 DEF Hand
  <2>3. SlotOrder(t, s)'
    BY <1>7, <2>1, LinkTypes DEF LinkOrder, SlotOrder
  <2>4. HandOrder(t, s)'
    BY <1>3, <1>7, <2>1, <2>2, LinkTypes DEF LinkOrder, HandOrder
  <2>5. ReturnedOrder(t, s)'
    BY <1>3, <1>7, <2>1, <2>2, LinkTypes DEF LinkOrder, ReturnedOrder
  <2> QED
    BY <1>7, <2>3, <2>4, <2>5 DEF LinkOrder
<1>10. CASE s = a /\ t = m.to
  <2>1. PICK k \in Nat : k = m.n /\ k # 0
    BY <1>2
  <2>2. 1 \in 1..Len(q)
    BY <1>1
  <2>3. Before(k, t, s)'
    <3>1. k <= sent'[s][t]
      BY <1>1, <1>3, <1>10, <2>1, <2>2 DEF LinkOrder, QueueOrder
    <3>2. ASSUME NEW j \in 1..Len(q) - 1, q[j + 1].to = t PROVE k < q[j + 1].n
      BY <1>1, <1>6, <1>10, <2>1, <2>2, <3>2 DEF LinkOrder, QueueOrder
    <3>3. SendChannel'[s] = Tail(q)
      BY <1>4, <1>10
    <3> QED
      BY <1>5, <3>1, <3>2, <3>3 DEF Before
  <2>4. \A n : Before(n, t, s) => n < k
    BY <1>1, <1>10, <2>1, <2>2 DEF Before
  <2>5. Hand(t, s)' = Hand(t, s) /\ P2PMsgs'[t][s] = k
    BY <1>3, <1>8, <1>10, <2>1 DEF Hand
  <2>6. SlotOrder(t, s)'
    BY <2>3, <2>5 DEF SlotOrder
  <2>7. HandOrder(t, s)'
    <3>1. Hand(t, s) # 0 => Hand(t, s) < k
      BY <2>4 DEF LinkOrder, HandOrder
    <3>2. Hand(t, s) \in Nat
      BY LinkTypes
    <3>3. PICK h \in Nat : h = Hand(t, s) /\ h = Hand(t, s)'
      BY <2>5, <3>2
    <3>6. h # 0 => h <= k /\ h # k
      BY <2>1, <3>1, <3>3
    <3>4. h # 0 => Before(h, t, s)
      BY <3>3 DEF LinkOrder, HandOrder
    <3>5. h # 0 => Before(h, t, s)'
      BY <1>7, <3>4
    <3> QED
      BY <2>5, <3>3, <3>5, <3>6 DEF HandOrder
  <2>8. ReturnedOrder(t, s)'
    BY <1>3, <1>7, <2>4, <2>5, LinkTypes DEF LinkOrder, ReturnedOrder
  <2> QED
    BY <1>7, <2>6, <2>7, <2>8 DEF LinkOrder
<1> QED
  BY <1>9, <1>10

(* Lookup takes into the hand what the slot holds, and leaves it there.    *)
LEMMA LookupOrder ==
  ASSUME TypeInv, NoDelivery, NEW a \in Parties, NEW b \in Parties, Lookup(a, b),
         NEW t \in Parties, NEW s \in Parties, LinkOrder(t, s)
  PROVE  LinkOrder(t, s)'
<1>1. UNCHANGED <<sent, SendChannel, P2PMsgs, result, returned>>
  BY DEF Lookup
<1>2. QueueOrder(t, s)' /\ \A n : Before(n, t, s)' <=> Before(n, t, s)
  BY <1>1, QueueStays
<1>3. Hand(t, s)' = Hand(t, s) \/ (Hand(t, s)' = P2PMsgs[t][s] /\ P2PMsgs[t][s] # 0)
  BY DEF Lookup, Hand, TypeInv, TypeOK
<1>4. P2PMsgs[t][s] \in Nat
  BY LinkTypes
<1>5. SlotOrder(t, s)'
  BY <1>1, <1>2 DEF LinkOrder, SlotOrder
<1>6. HandOrder(t, s)'
  <2>1. op'[t].pc = "drain" => op[t].pc = "drain" /\ Hand(t, s)' = Hand(t, s)
    BY DEF Lookup, Hand, TypeInv, TypeOK
  <2> QED
    BY <1>1, <1>2, <1>3, <1>4, <2>1 DEF LinkOrder, HandOrder, SlotOrder
<1>7. ReturnedOrder(t, s)'
  BY <1>1, <1>2, <1>3, <1>4 DEF LinkOrder, ReturnedOrder
<1> QED
  BY <1>2, <1>5, <1>6, <1>7 DEF LinkOrder

(* A call that hands on what it has in hand, and leaves nothing there.     *)
LEMMA HandedOn ==
  ASSUME TypeInv, NEW t \in Parties, NEW s \in Parties, LinkOrder(t, s),
         UNCHANGED <<sent, SendChannel>>, Hand(t, s)' = 0,
         P2PMsgs'[t][s] \in {0, P2PMsgs[t][s]},
         Hand(t, s) # 0,
         returned'[t][s] = Append(returned[t][s], Hand(t, s)),
         P2PMsgs'[t][s] = 0 \/ Hand(t, s) # P2PMsgs[t][s]
  PROVE  LinkOrder(t, s)'
<1>1. QueueOrder(t, s)' /\ \A n : Before(n, t, s)' <=> Before(n, t, s)
  BY QueueStays
<1>2. PICK h \in Number : h = Hand(t, s)
  BY LinkTypes DEF Number
<1>3. h \in Nat /\ P2PMsgs[t][s] \in Nat /\ returned[t][s] \in Seq(Number)
  BY <1>2, LinkTypes DEF Number
<1>4. Before(h, t, s) /\ (P2PMsgs'[t][s] # 0 => h < P2PMsgs'[t][s])
  BY <1>2, <1>3 DEF LinkOrder, HandOrder
<1>5. Increasing(returned[t][s]) /\ \A i \in 1..Len(returned[t][s]) : returned[t][s][i] < h
  BY <1>2 DEF LinkOrder, ReturnedOrder
<1>6. /\ Increasing(returned'[t][s])
      /\ \A i \in 1..Len(returned'[t][s]) :
           \/ returned'[t][s][i] = h
           \/ i \in 1..Len(returned[t][s]) /\ returned'[t][s][i] = returned[t][s][i]
  BY <1>2, <1>3, <1>5, IncreasingAppend
<1>7. SlotOrder(t, s)'
  BY <1>1 DEF LinkOrder, SlotOrder
<1>8. HandOrder(t, s)'
  BY DEF HandOrder
<1>9. ReturnedOrder(t, s)'
  <2>1. ASSUME NEW i \in 1..Len(returned'[t][s])
        PROVE  /\ Before(returned'[t][s][i], t, s)
               /\ P2PMsgs'[t][s] # 0 => returned'[t][s][i] < P2PMsgs'[t][s]
    BY <1>4, <1>6 DEF LinkOrder, ReturnedOrder
  <2> QED
    BY <1>1, <1>6, <2>1 DEF ReturnedOrder
<1> QED
  BY <1>1, <1>7, <1>8, <1>9 DEF LinkOrder

(* A step that does not touch the link.                                    *)
LEMMA LinkIdle ==
  ASSUME NEW t \in Parties, NEW s \in Parties, LinkOrder(t, s),
         UNCHANGED <<sent, SendChannel>>, Hand(t, s)' = Hand(t, s),
         UNCHANGED <<P2PMsgs[t][s], returned[t][s]>>,
         op'[t].pc = "drain" => op[t].pc = "drain"
  PROVE  LinkOrder(t, s)'
<1>1. QueueOrder(t, s)' /\ \A n : Before(n, t, s)' <=> Before(n, t, s)
  BY QueueStays
<1>2. SlotOrder(t, s)'
  BY <1>1 DEF LinkOrder, SlotOrder
<1>3. HandOrder(t, s)'
  BY <1>1 DEF LinkOrder, HandOrder
<1>4. ReturnedOrder(t, s)'
  BY <1>1 DEF LinkOrder, ReturnedOrder
<1> QED
  BY <1>1, <1>2, <1>3, <1>4 DEF LinkOrder

LEMMA DeleteOrder ==
  ASSUME TypeInv, NoDelivery, NEW a \in Parties, Delete(a),
         NEW t \in Parties, NEW s \in Parties, LinkOrder(t, s)
  PROVE  LinkOrder(t, s)'
<1>1. UNCHANGED <<sent, SendChannel, result>>
  BY DEF Delete
<1>2. op' = [op EXCEPT ![a] = Idle(a)] /\ op[a].pc = "delete"
      /\ P2PMsgs' = [P2PMsgs EXCEPT ![a][op[a].from] = 0]
      /\ returned' = [returned EXCEPT ![a][op[a].from] = Append(@, op[a].n)]
  BY DEF Delete, Return
<1>3. op[a].from \in Parties /\ op[a].n # 0 /\ result[a] = NoMessages
  BY <1>2 DEF TypeInv, TypeOK, HandsFull, NoDelivery, Call
<1>4. op'[t] = IF t = a THEN Idle(a) ELSE op[t]
  BY <1>2 DEF TypeInv, TypeOK
<1>5. CASE t = a /\ s = op[a].from
  <2>1. Hand(t, s) = op[a].n /\ Hand(t, s)' = 0
    BY <1>1, <1>2, <1>3, <1>4, <1>5, IdleCall DEF Hand, NoMessages
  <2>2. P2PMsgs'[t][s] = 0 /\ returned'[t][s] = Append(returned[t][s], op[a].n)
    BY <1>2, <1>5 DEF TypeInv, TypeOK
  <2> QED
    BY <1>1, <1>3, <2>1, <2>2, HandedOn
<1>6. CASE ~(t = a /\ s = op[a].from)
  <2>1. UNCHANGED <<P2PMsgs[t][s], returned[t][s]>>
    BY <1>2, <1>3, <1>6 DEF TypeInv, TypeOK
  <2>2. Hand(t, s)' = Hand(t, s) /\ (op'[t].pc = "drain" => op[t].pc = "drain")
    BY <1>1, <1>4, <1>6, IdleCall DEF Hand
  <2> QED
    BY <1>1, <2>1, <2>2, LinkIdle
<1> QED
  BY <1>5, <1>6

LEMMA TakeOrder ==
  ASSUME TypeInv, NoDelivery, NEW a \in Parties, Take(a),
         NEW t \in Parties, NEW s \in Parties, LinkOrder(t, s)
  PROVE  LinkOrder(t, s)'
<1>1. UNCHANGED <<sent, SendChannel, returned>>
  BY DEF Take
<1>2. CASE t # a
  <2>1. op'[t] = op[t] /\ result'[t] = result[t] /\ P2PMsgs'[t] = P2PMsgs[t]
    BY <1>2 DEF Take, TypeInv, TypeOK
  <2>2. Hand(t, s)' = Hand(t, s)
    BY <2>1 DEF Hand
  <2> QED
    BY <1>1, <2>1, <2>2, LinkIdle
<1>3. CASE t = a
  <2>1. op'[t].pc = "drain" /\ result'[t] = P2PMsgs[t] /\ P2PMsgs'[t] = NoMessages
    BY <1>3 DEF Take, TypeInv, TypeOK
  <2>2. Hand(t, s)' = P2PMsgs[t][s] /\ P2PMsgs'[t][s] = 0
    BY <2>1 DEF Hand, NoMessages
  <2>3. QueueOrder(t, s)' /\ \A n : Before(n, t, s)' <=> Before(n, t, s)
    BY <1>1, QueueStays
  <2>4. SlotOrder(t, s)'
    BY <2>2 DEF SlotOrder
  <2>5. HandOrder(t, s)'
    BY <2>2, <2>3 DEF LinkOrder, SlotOrder, HandOrder
  <2>6. ReturnedOrder(t, s)'
    BY <1>1, <2>2, <2>3 DEF LinkOrder, ReturnedOrder
  <2> QED
    BY <2>3, <2>4, <2>5, <2>6 DEF LinkOrder
<1> QED
  BY <1>2, <1>3

LEMMA ReturnAllOrder ==
  ASSUME TypeInv, NEW a \in Parties, ReturnAll(a),
         NEW t \in Parties, NEW s \in Parties, LinkOrder(t, s)
  PROVE  LinkOrder(t, s)'
<1>1. UNCHANGED <<sent, SendChannel, P2PMsgs>> /\ op[a].pc = "drain"
  BY DEF ReturnAll
<1>2. CASE t # a
  <2>1. op'[t] = op[t] /\ result'[t] = result[t] /\ returned'[t] = returned[t]
    BY <1>2 DEF ReturnAll, TypeInv, TypeOK
  <2>2. Hand(t, s)' = Hand(t, s)
    BY <2>1 DEF Hand
  <2> QED
    BY <1>1, <2>1, <2>2, LinkIdle
<1>3. CASE t = a
  <2>1. op'[t] = Idle(t) /\ result'[t] = NoMessages
        /\ returned'[t][s] = IF result[t][s] = 0 THEN returned[t][s]
                             ELSE Append(returned[t][s], result[t][s])
    BY <1>3 DEF ReturnAll, TypeInv, TypeOK
  <2>2. Hand(t, s) = result[t][s] /\ Hand(t, s)' = 0
    BY <1>1, <1>3, <2>1, IdleCall DEF Hand, NoMessages
  <2>3. CASE result[t][s] = 0
    <3>1. op'[t].pc # "drain"
      BY <2>1, IdleCall
    <3> QED
      BY <1>1, <2>1, <2>2, <2>3, <3>1, LinkIdle
  <2>4. CASE result[t][s] # 0
    <3>1. P2PMsgs'[t][s] = 0 \/ Hand(t, s) # P2PMsgs[t][s]
      BY <1>1, <1>3, <2>2, <2>4 DEF LinkOrder, HandOrder
    <3> QED
      BY <1>1, <2>1, <2>2, <2>4, <3>1, HandedOn
  <2> QED
    BY <2>3, <2>4
<1> QED
  BY <1>2, <1>3

LEMMA OrderStep ==
  ASSUME "Deliver" \notin Calls, TypeInv, OrderInv, [Next]_vars
  PROVE  OrderInv'
<1>1. NoDelivery /\ NoDelivery'
  BY NoDeliveryStep DEF OrderInv
<1>2. ASSUME NEW t \in Parties, NEW s \in Parties PROVE LinkOrder(t, s)'
  <2>0. LinkOrder(t, s)
    BY DEF OrderInv
  <2>1. ASSUME NEW a \in Parties, NEW b \in Parties, SendTo(a, b) PROVE LinkOrder(t, s)'
    BY <2>0, <2>1, SendOrder
  <2>2. ASSUME NEW a \in Parties, Relay(a) PROVE LinkOrder(t, s)'
    BY <2>0, <2>2, RelayOrder
  <2>3. ASSUME NEW a \in Parties, NEW b \in Parties, Lookup(a, b) PROVE LinkOrder(t, s)'
    BY <1>1, <2>0, <2>3, LookupOrder
  <2>4. ASSUME NEW a \in Parties, Delete(a) PROVE LinkOrder(t, s)'
    BY <1>1, <2>0, <2>4, DeleteOrder
  <2>5. ASSUME NEW a \in Parties, Take(a) PROVE LinkOrder(t, s)'
    BY <1>1, <2>0, <2>5, TakeOrder
  <2>6. ASSUME NEW a \in Parties, ReturnAll(a) PROVE LinkOrder(t, s)'
    BY <2>0, <2>6, ReturnAllOrder
  <2>7. ASSUME NEW a \in Parties, Poll(a) PROVE LinkOrder(t, s)'
    <3>1. op' = [op EXCEPT ![a] = Idle(a)] /\ op[a].pc = "poll"
      BY <1>1, <2>7 DEF Poll, NoDelivery
    <3>2. UNCHANGED <<sent, SendChannel, P2PMsgs, result, returned>>
      BY <1>1, <2>7 DEF Poll, NoDelivery
    <3>3. Hand(t, s)' = Hand(t, s) /\ (op'[t].pc = "drain" => op[t].pc = "drain")
      BY <3>1, <3>2, IdleCall DEF Hand, TypeInv, TypeOK
    <3> QED
      BY <2>0, <3>2, <3>3, LinkIdle
  <2>8. ASSUME UNCHANGED <<sent, SendChannel, P2PMsgs, op, result, returned>>
        PROVE  LinkOrder(t, s)'
    <3>1. Hand(t, s)' = Hand(t, s)
      BY <2>8 DEF Hand
    <3> QED
      BY <2>0, <2>8, <3>1, LinkIdle
  <2>9. ASSUME NEW a \in Parties PROVE ~Requeue(a) /\ ~Drain(a)
    BY <1>1 DEF Requeue, Drain, NoDelivery
  <2>10. ~DeliverBegin /\ ~DeliverEnd /\ \A a, b \in Parties : ~DeliverPush(a, b)
    BY <1>1 DEF DeliverBegin, DeliverEnd, DeliverPush, NoDelivery
  <2>11. ASSUME NEW a \in Parties, AddP2PChannel(a) PROVE LinkOrder(t, s)'
    BY <2>8, <2>11 DEF AddP2PChannel
  <2>12. CASE UNCHANGED vars
    BY <2>8, <2>12 DEF vars
  <2> QED
    BY <2>1, <2>2, <2>3, <2>4, <2>5, <2>6, <2>7, <2>9, <2>10, <2>11, <2>12
       DEF Next, Party
<1> QED
  BY <1>1, <1>2 DEF OrderInv

(* Without DeliverP2PMessages a party is given the messages of a sender in *)
(* the order they were sent in and none twice, by any mix of ReceiveFrom   *)
(* and ReceiveAll, on any links, at any capacities.                        *)
THEOREM OrderCorrect == "Deliver" \notin Calls => (Spec => []InOrder)
<1> SUFFICES ASSUME "Deliver" \notin Calls PROVE Spec => []InOrder
  OBVIOUS
<1>1. TypeInv /\ OrderInv /\ [Next]_vars => OrderInv'
  BY OrderStep
<1>2. OrderInv => InOrder
  BY DEF OrderInv, LinkOrder, ReturnedOrder, InOrder
<1> QED
  BY <1>1, <1>2, OrderInit, TypeInvariant, PTL DEF Spec
-----------------------------------------------------------------------------
(* Survival of the newest relayed message: what the run's CHOOSE picks.    *)

LEMMA Least == ASSUME NEW T \in SUBSET Nat, T # {} PROVE \E x \in T : \A y \in T : x <= y
<1> DEFINE R == OpToRel(<, Nat)
<1>1. IsWellFoundedOn(R, Nat)
  BY NatLessThanWellFounded
<1>2. \A x, y \in Nat : <<x, y>> \in R <=> x < y
  BY DEF OpToRel
<1> HIDE DEF R
<1>3. PICK x \in T : \A y \in T : ~(<<y, x>> \in R)
  BY <1>1, WFMin
<1>4. \A y \in T : ~(y < x) /\ x \in Nat /\ y \in Nat
  BY <1>2, <1>3
<1> QED
  BY <1>4

\* The places in a queue of what is for t, and the number before the first of them.
For(q, t) == {i \in 1..Len(q) : q[i].to = t}

Newest(q, t, last) ==
  IF For(q, t) = {} THEN last
  ELSE q[CHOOSE i \in For(q, t) : \A j \in For(q, t) : i <= j].n - 1

\* The numbers in a queue for t follow each other, and last is the last of them.
Dense(q, t, last) ==
  /\ \A i \in For(q, t) : (\A j \in For(q, t) : j <= i) => q[i].n = last
  /\ \A i, j \in For(q, t) :
       i < j /\ (\A k \in For(q, t) : k <= i \/ j <= k) => q[j].n = q[i].n + 1

LEMMA NewestIs ==
  ASSUME NEW q \in Seq(Message), NEW t, NEW last
  PROVE  /\ For(q, t) = {} => Newest(q, t, last) = last
         /\ For(q, t) # {} =>
              \E i \in For(q, t) : /\ \A j \in For(q, t) : i <= j
                                   /\ Newest(q, t, last) = q[i].n - 1
         /\ \A i \in For(q, t) : (\A j \in For(q, t) : i <= j) => Newest(q, t, last) = q[i].n - 1
<1>1. CASE For(q, t) = {}
  BY <1>1 DEF Newest
<1>2. CASE For(q, t) # {}
  <2>1. For(q, t) \in SUBSET Nat
    BY DEF For
  <2>2. \E i \in For(q, t) : \A j \in For(q, t) : i <= j
    BY <1>2, <2>1, Least
  <2> DEFINE c == CHOOSE i \in For(q, t) : \A j \in For(q, t) : i <= j
  <2>3. c \in For(q, t) /\ \A j \in For(q, t) : c <= j
    BY <2>2
  <2>4. Newest(q, t, last) = q[c].n - 1
    BY <1>2 DEF Newest
  <2> HIDE DEF c
  <2>5. ASSUME NEW i \in For(q, t), \A j \in For(q, t) : i <= j PROVE i = c
    <3>1. i <= c /\ c <= i /\ i \in Nat /\ c \in Nat
      BY <2>1, <2>3, <2>5
    <3> QED
      BY <3>1
  <2> QED
    BY <1>2, <2>3, <2>4, <2>5
<1> QED
  BY <1>1, <1>2

LEMMA NewestAppend ==
  ASSUME NEW q \in Seq(Message), NEW m \in Message, NEW t, NEW last \in Nat, Dense(q, t, last),
         m.to = t => m.n = last + 1
  PROVE  LET more == IF m.to = t THEN last + 1 ELSE last
         IN  Dense(Append(q, m), t, more) /\ Newest(Append(q, m), t, more) = Newest(q, t, last)
<1> DEFINE more == IF m.to = t THEN last + 1 ELSE last
           r    == Append(q, m)
           k    == Len(q) + 1
<1>1. r \in Seq(Message) /\ Len(q) \in Nat /\ Len(r) = k /\ r[k] = m /\ \A i \in 1..Len(q) : r[i] = q[i]
  BY AppendProperties, LenProperties
<1>2. For(r, t) = IF m.to = t THEN For(q, t) \cup {k} ELSE For(q, t)
  BY <1>1 DEF For
<1>3. \A i \in For(q, t) : i \in Nat /\ i < k /\ r[i] = q[i]
  BY <1>1 DEF For
<1> HIDE DEF r, k
<1>4. CASE m.to # t
  <2>1. For(r, t) = For(q, t) /\ more = last
    BY <1>2, <1>4
  <2>2. Dense(r, t, more)
    BY <1>3, <2>1 DEF Dense
  <2>3. Newest(r, t, last) = Newest(q, t, last)
    BY <1>1, <1>3, <2>1, NewestIs
  <2> QED
    BY <2>1, <2>2, <2>3 DEF r
<1>5. CASE m.to = t
  <2>1. For(r, t) = For(q, t) \cup {k} /\ more = last + 1 /\ r[k].n = last + 1 /\ k \in Nat
    BY <1>1, <1>2, <1>5 DEF k
  <2>2. Dense(r, t, more)
    <3>1. ASSUME NEW i \in For(r, t), \A j \in For(r, t) : j <= i PROVE r[i].n = more
      <4>1. k <= i
        BY <2>1, <3>1
      <4>2. i = k
        BY <1>3, <2>1, <4>1
      <4> QED
        BY <2>1, <4>2
    <3>2. ASSUME NEW i \in For(r, t), NEW j \in For(r, t), i < j,
                 \A h \in For(r, t) : h <= i \/ j <= h
          PROVE  r[j].n = r[i].n + 1
      <4>1. i \in For(q, t) /\ i \in Nat /\ j \in Nat
        BY <1>3, <2>1, <3>2
      <4>2. CASE j = k
        <5>1. \A h \in For(q, t) : h <= i
          BY <1>3, <2>1, <3>2, <4>2
        <5>2. r[i].n = last
          BY <1>3, <4>1, <5>1 DEF Dense
        <5> QED
          BY <2>1, <4>2, <5>2
      <4>3. CASE j \in For(q, t)
        <5>1. \A h \in For(q, t) : h <= i \/ j <= h
          BY <2>1, <3>2
        <5>2. r[i] = q[i] /\ r[j] = q[j]
          BY <1>3, <4>1, <4>3
        <5> QED
          BY <3>2, <4>1, <4>3, <5>1, <5>2 DEF Dense
      <4> QED
        BY <2>1, <3>2, <4>2, <4>3
    <3> QED
      BY <3>1, <3>2 DEF Dense
  <2>3. CASE For(q, t) = {}
    <3>1. k \in For(r, t) /\ \A j \in For(r, t) : k <= j
      BY <2>1, <2>3
    <3>2. Newest(r, t, more) = r[k].n - 1
      BY <1>1, <3>1, NewestIs
    <3>3. Newest(q, t, last) = last
      BY <2>3, NewestIs
    <3> QED
      BY <2>1, <2>2, <3>2, <3>3 DEF r
  <2>4. CASE For(q, t) # {}
    <3>1. PICK i \in For(q, t) : (\A j \in For(q, t) : i <= j) /\ Newest(q, t, last) = q[i].n - 1
      BY <2>4, NewestIs
    <3>2. \A j \in For(r, t) : i <= j
      BY <1>3, <2>1, <3>1
    <3>3. Newest(r, t, more) = r[i].n - 1
      BY <1>1, <2>1, <3>2, NewestIs
    <3> QED
      BY <1>3, <2>2, <3>1, <3>3 DEF r
  <2> QED
    BY <2>3, <2>4
<1> QED
  BY <1>4, <1>5 DEF r

LEMMA NewestTail ==
  ASSUME NEW q \in Seq(Message), q # <<>>, NEW t, NEW last \in Nat, Dense(q, t, last)
  PROVE  /\ Dense(Tail(q), t, last)
         /\ Newest(Tail(q), t, last) = IF Head(q).to = t THEN Head(q).n ELSE Newest(q, t, last)
<1> DEFINE r == Tail(q)
<1>1. r \in Seq(Message) /\ Len(q) \in Nat /\ Len(q) >= 1 /\ Len(r) = Len(q) - 1
      /\ (\A i \in 1..Len(r) : r[i] = q[i + 1]) /\ Head(q) = q[1]
  BY HeadTailProperties, LenProperties
<1>2. \A i \in Nat : i \in For(r, t) <=> i # 0 /\ i + 1 \in For(q, t)
  BY <1>1 DEF For
<1>3. \A i \in For(r, t) : i \in Nat /\ i # 0 /\ r[i] = q[i + 1] /\ i + 1 \in For(q, t)
  BY <1>1, <1>2 DEF For
<1>4. \A j \in For(q, t) : j \in Nat /\ (j = 1 \/ (j - 1 \in For(r, t) /\ j - 1 \in Nat /\ (j - 1) + 1 = j))
  BY <1>1, <1>2 DEF For
<1>5. 1 \in For(q, t) <=> Head(q).to = t
  BY <1>1 DEF For
<1>6. \A m \in Message : m.n \in Nat
  BY DEF Message, Number
<1>7. Head(q).n \in Nat /\ \A i \in For(q, t) : q[i].n \in Nat
  BY <1>1, <1>6, ElementOfSeq DEF For
<1> HIDE DEF r
<1>8. Dense(r, t, last)
  <2>1. ASSUME NEW i \in For(r, t), \A j \in For(r, t) : j <= i PROVE r[i].n = last
    <3>1. \A j \in For(q, t) : j <= i + 1
      BY <1>3, <1>4, <2>1
    <3> QED
      BY <1>3, <3>1 DEF Dense
  <2>2. ASSUME NEW i \in For(r, t), NEW j \in For(r, t), i < j, \A h \in For(r, t) : h <= i \/ j <= h
        PROVE  r[j].n = r[i].n + 1
    <3>1. ASSUME NEW h \in For(q, t) PROVE h <= i + 1 \/ j + 1 <= h
      <4>1. i \in Nat /\ j \in Nat /\ h \in Nat
        BY <1>3, <1>4
      <4>2. CASE h = 1
        BY <4>1, <4>2
      <4>3. CASE h - 1 \in For(r, t)
        <5>1. h - 1 <= i \/ j <= h - 1
          BY <2>2, <4>3
        <5> QED
          BY <4>1, <5>1
      <4> QED
        BY <1>4, <4>2, <4>3
    <3>2. i + 1 < j + 1 /\ i + 1 \in For(q, t) /\ j + 1 \in For(q, t)
      BY <1>3, <2>2
    <3> QED
      BY <1>3, <3>1, <3>2 DEF Dense
  <2> QED
    BY <2>1, <2>2 DEF Dense
<1>9. CASE Head(q).to = t
  <2>1. CASE For(r, t) = {}
    <3>1. \A j \in For(q, t) : j <= 1
      BY <1>4, <2>1
    <3>2. q[1].n = last
      BY <1>5, <1>9, <3>1 DEF Dense
    <3> QED
      BY <1>1, <1>8, <1>9, <2>1, <3>2, NewestIs DEF r
  <2>2. CASE For(r, t) # {}
    <3>1. PICK i \in For(r, t) : (\A j \in For(r, t) : i <= j) /\ Newest(r, t, last) = r[i].n - 1
      BY <1>1, <2>2, NewestIs
    <3>2. \A h \in For(q, t) : h <= 1 \/ i + 1 <= h
      BY <1>3, <1>4, <3>1
    <3>3. 1 < i + 1 /\ i + 1 \in For(q, t) /\ 1 \in For(q, t)
      BY <1>3, <1>5, <1>9
    <3>4. q[i + 1].n = q[1].n + 1
      BY <3>2, <3>3 DEF Dense
    <3>5. q[1].n \in Nat /\ Newest(r, t, last) = (q[1].n + 1) - 1
      BY <1>3, <1>7, <3>1, <3>3, <3>4
    <3>6. Newest(r, t, last) = Head(q).n
      BY <1>1, <3>5
    <3> QED
      BY <1>8, <1>9, <3>6 DEF r
  <2> QED
    BY <2>1, <2>2
<1>10. CASE Head(q).to # t
  <2>1. 1 \notin For(q, t)
    BY <1>5, <1>10
  <2>2. CASE For(r, t) = {}
    <3>1. For(q, t) = {}
      BY <1>4, <2>1, <2>2
    <3>2. Newest(q, t, last) = last /\ Newest(r, t, last) = last
      BY <1>1, <2>2, <3>1, NewestIs
    <3> QED
      BY <1>8, <1>10, <3>2 DEF r
  <2>3. CASE For(r, t) # {}
    <3>1. PICK i \in For(r, t) : (\A j \in For(r, t) : i <= j) /\ Newest(r, t, last) = r[i].n - 1
      BY <1>1, <2>3, NewestIs
    <3>2. \A j \in For(q, t) : i + 1 <= j
      BY <1>3, <1>4, <2>1, <3>1
    <3>3. Newest(q, t, last) = q[i + 1].n - 1
      BY <1>3, <3>2, NewestIs
    <3> QED
      BY <1>3, <1>8, <1>10, <3>1, <3>3 DEF r
  <2> QED
    BY <2>2, <2>3
<1> QED
  BY <1>9, <1>10

LinkDense(t, s)  == Dense(SendChannel[s], t, sent[s][t])
LinkNewest(t, s) == Newest(SendChannel[s], t, sent[s][t])

\* What SendTo appends is not yet relayed.
LEMMA SendNewest ==
  ASSUME TypeInv, NEW a \in Parties, NEW b \in Parties, SendTo(a, b),
         NEW t \in Parties, NEW s \in Parties, LinkDense(t, s)
  PROVE  LinkDense(t, s)' /\ LinkNewest(t, s)' = LinkNewest(t, s)
<1> DEFINE m == [to |-> b, n |-> sent[a][b] + 1]
<1>1. /\ sent'[s][t] = IF s = a /\ t = b THEN sent[s][t] + 1 ELSE sent[s][t]
      /\ SendChannel'[s] = IF s = a THEN Append(SendChannel[s], m) ELSE SendChannel[s]
  BY DEF SendTo, TypeInv, TypeOK
<1>2. m \in Message /\ m.to = b /\ (m.to = t /\ s = a => m.n = sent[s][t] + 1)
  <2>1. sent[a][b] \in Nat
    BY LinkTypes
  <2>2. sent[a][b] + 1 \in Number
    BY <2>1 DEF Number
  <2> QED
    BY <2>2 DEF Message
<1> HIDE DEF m
<1>3. sent[s][t] \in Nat /\ SendChannel[s] \in Seq(Message)
  BY LinkTypes
<1>4. CASE s = a
  BY <1>1, <1>2, <1>3, <1>4, NewestAppend DEF LinkDense, LinkNewest
<1>5. CASE s # a
  BY <1>1, <1>5 DEF LinkDense, LinkNewest
<1> QED
  BY <1>4, <1>5

\* What the relay moves is in the slot, and the newest of its link.
LEMMA RelayNewest ==
  ASSUME TypeInv, NEW a \in Parties, Relay(a),
         NEW t \in Parties, NEW s \in Parties, LinkDense(t, s)
  PROVE  /\ LinkDense(t, s)'
         /\ \/ LinkNewest(t, s)' = P2PMsgs'[t][s]
            \/ LinkNewest(t, s)' = LinkNewest(t, s) /\ P2PMsgs'[t][s] = P2PMsgs[t][s]
<1>1. SendChannel[a] \in Seq(Message) /\ SendChannel[a] # <<>>
  BY DEF Relay, TypeInv, TypeOK
<1>2. PICK m \in Message : m = Head(SendChannel[a])
  BY <1>1, HeadTail
<1>3. /\ SendChannel'[s] = IF s = a THEN Tail(SendChannel[a]) ELSE SendChannel[s]
      /\ sent' = sent
      /\ P2PMsgs' = [P2PMsgs EXCEPT ![m.to][a] = m.n] /\ m.to \in Parties
  BY <1>2 DEF Relay, Message, TypeInv, TypeOK
<1>4. P2PMsgs'[t][s] = IF s = a /\ m.to = t THEN m.n ELSE P2PMsgs[t][s]
  BY <1>3 DEF TypeInv, TypeOK
<1>5. sent[s][t] \in Nat
  BY LinkTypes
<1>6. CASE s = a
  <2>1. /\ LinkDense(t, s)'
        /\ LinkNewest(t, s)' = IF m.to = t THEN m.n ELSE LinkNewest(t, s)
    BY <1>1, <1>2, <1>3, <1>5, <1>6, NewestTail DEF LinkDense, LinkNewest
  <2> QED
    BY <1>4, <1>6, <2>1
<1>7. CASE s # a
  BY <1>3, <1>4, <1>7 DEF LinkDense, LinkNewest
<1> QED
  BY <1>6, <1>7

-----------------------------------------------------------------------------
(* The link s to t when parties call ReceiveAll only: numbers in the queue *)
(* are dense, and the newest that has left it is in the slot, in the map   *)
(* of a ReceiveAll, or returned.                                           *)
AllOnly == Calls \cap {"ReceiveFrom", "Deliver"} = {}

Kept(t, s, n) ==
  \/ n = P2PMsgs[t][s] \/ n = result[t][s]
  \/ \E i \in 1..Len(returned[t][s]) : returned[t][s][i] = n

LinkKept(t, s) ==
  LinkDense(t, s) /\ (LinkNewest(t, s) # 0 => Kept(t, s, LinkNewest(t, s)))

KeptInv ==
  /\ NoDelivery
  /\ \A t \in Parties : op[t].pc \in {"idle", "drain"}
  /\ \A t, s \in Parties : LinkKept(t, s)

LEMMA KeptInit == Init => KeptInv
<1> SUFFICES ASSUME Init PROVE KeptInv
  OBVIOUS
<1>1. NoDelivery /\ \A t \in Parties : op[t].pc \in {"idle", "drain"}
  BY OrderInit, IdleCall DEF Init, OrderInv
<1>2. ASSUME NEW t \in Parties, NEW s \in Parties PROVE LinkKept(t, s)
  <2>1. SendChannel[s] = <<>> /\ sent[s][t] = 0
    BY DEF Init, NoMessages
  <2>2. For(SendChannel[s], t) = {}
    BY <2>1 DEF For
  <2> QED
    BY <2>1, <2>2 DEF LinkKept, LinkDense, LinkNewest, Dense, Newest
<1> QED
  BY <1>1, <1>2 DEF KeptInv

LEMMA KeptStep ==
  ASSUME AllOnly, TypeInv, KeptInv, [Next]_vars
  PROVE  KeptInv'
<1>1. NoDelivery /\ NoDelivery' /\ \A t \in Parties : op[t].pc \in {"idle", "drain"}
  BY NoDeliveryStep DEF AllOnly, KeptInv
<1>2. \A t \in Parties : op'[t].pc \in {"idle", "drain"}
  <2>1. ASSUME NEW a \in Parties, Take(a) \/ ReturnAll(a) PROVE \A t \in Parties : op'[t].pc \in {"idle", "drain"}
    <3>1. op'[a].pc \in {"idle", "drain"} /\ \A t \in Parties \ {a} : op'[t] = op[t]
      BY <2>1, IdleCall DEF Take, ReturnAll, TypeInv, TypeOK
    <3> QED
      BY <1>1, <3>1
  <2>2. ASSUME NEW a \in Parties, NEW b \in Parties PROVE ~Lookup(a, b) /\ ~DeliverPush(a, b) /\ (SendTo(a, b) => op' = op)
    BY <1>1 DEF AllOnly, Lookup, DeliverPush, NoDelivery, SendTo
  <2>3. ASSUME NEW a \in Parties
        PROVE  /\ ~Delete(a) /\ ~Poll(a) /\ ~Requeue(a)
               /\ Relay(a) \/ AddP2PChannel(a) \/ Drain(a) => op' = op
    BY <1>1 DEF Delete, Poll, Requeue, Relay, AddP2PChannel, Drain
  <2>4. DeliverBegin \/ DeliverEnd \/ UNCHANGED vars => op' = op
    BY DEF DeliverBegin, DeliverEnd, vars
  <2> QED
    BY <1>1, <2>1, <2>2, <2>3, <2>4 DEF Next, Party
<1>3. ASSUME NEW t \in Parties, NEW s \in Parties PROVE LinkKept(t, s)'
  <2>0. LinkKept(t, s) /\ sent[s][t] \in Nat /\ SendChannel[s] \in Seq(Message)
    BY LinkTypes DEF KeptInv
  <2>1. ASSUME UNCHANGED <<sent, SendChannel>>, \A n : n # 0 /\ Kept(t, s, n) => Kept(t, s, n)'
        PROVE  LinkKept(t, s)'
    BY <2>0, <2>1 DEF LinkKept, LinkDense, LinkNewest
  <2>2. ASSUME NEW a \in Parties, NEW b \in Parties, SendTo(a, b) PROVE LinkKept(t, s)'
    <3>1. LinkDense(t, s)' /\ LinkNewest(t, s)' = LinkNewest(t, s)
      BY <2>0, <2>2, SendNewest DEF LinkKept
    <3>2. \A n : Kept(t, s, n)' <=> Kept(t, s, n)
      BY <2>2 DEF SendTo, Kept
    <3> QED
      BY <2>0, <3>1, <3>2 DEF LinkKept
  <2>3. ASSUME NEW a \in Parties, Relay(a) PROVE LinkKept(t, s)'
    <3>1. /\ LinkDense(t, s)'
          /\ \/ LinkNewest(t, s)' = P2PMsgs'[t][s]
             \/ LinkNewest(t, s)' = LinkNewest(t, s) /\ P2PMsgs'[t][s] = P2PMsgs[t][s]
      BY <2>0, <2>3, RelayNewest DEF LinkKept
    <3>2. UNCHANGED <<result, returned>>
      BY <2>3 DEF Relay
    <3> QED
      BY <2>0, <3>1, <3>2 DEF LinkKept, Kept
  <2>4. ASSUME NEW a \in Parties, Take(a) PROVE LinkKept(t, s)'
    <3>1. /\ UNCHANGED <<sent, SendChannel, returned>>
          /\ t = a => result[t] = NoMessages /\ result'[t] = P2PMsgs[t]
          /\ t # a => result'[t] = result[t] /\ P2PMsgs'[t] = P2PMsgs[t]
      BY <1>1, <2>4 DEF Take, NoDelivery, TypeInv, TypeOK
    <3>2. \A n : n # 0 /\ Kept(t, s, n) => Kept(t, s, n)'
      BY <3>1 DEF Kept, NoMessages
    <3> QED
      BY <2>1, <3>1, <3>2
  <2>5. ASSUME NEW a \in Parties, ReturnAll(a) PROVE LinkKept(t, s)'
    <3>1. /\ UNCHANGED <<sent, SendChannel, P2PMsgs>>
          /\ t # a => result'[t] = result[t] /\ returned'[t] = returned[t]
          /\ t = a => returned'[t][s] = IF result[t][s] = 0 THEN returned[t][s]
                                        ELSE Append(returned[t][s], result[t][s])
      BY <2>5 DEF ReturnAll, TypeInv, TypeOK
    <3>2. returned[t][s] \in Seq(Number) /\ Len(returned[t][s]) \in Nat /\ result[t][s] \in Nat
      BY LinkTypes DEF TypeInv, TypeOK
    <3>3. result[t][s] # 0 => result[t][s] \in Number
      BY <3>2 DEF Number
    <3>4. \A n : n # 0 /\ Kept(t, s, n) => Kept(t, s, n)'
      <4>1. CASE t # a
        BY <3>1, <4>1 DEF Kept
      <4>2. CASE t = a /\ result[t][s] = 0
        BY <3>1, <4>2 DEF Kept
      <4>3. CASE t = a /\ result[t][s] # 0
        <5>1. /\ Len(returned'[t][s]) = Len(returned[t][s]) + 1
              /\ returned'[t][s][Len(returned[t][s]) + 1] = result[t][s]
              /\ \A i \in 1..Len(returned[t][s]) : returned'[t][s][i] = returned[t][s][i]
          BY <3>1, <3>2, <3>3, <4>3, AppendProperties
        <5>2. \A i \in 1..Len(returned[t][s]) : i \in 1..Len(returned'[t][s])
          BY <3>2, <5>1
        <5>3. Len(returned[t][s]) + 1 \in 1..Len(returned'[t][s])
          BY <3>2, <5>1
        <5>4. ASSUME NEW n, n # 0, Kept(t, s, n) PROVE Kept(t, s, n)'
          <6>1. CASE n = P2PMsgs[t][s]
            BY <3>1, <6>1 DEF Kept
          <6>2. CASE n = result[t][s]
            BY <5>1, <5>3, <6>2 DEF Kept
          <6>3. CASE \E i \in 1..Len(returned[t][s]) : returned[t][s][i] = n
            BY <5>1, <5>2, <6>3 DEF Kept
          <6> QED
            BY <5>4, <6>1, <6>2, <6>3 DEF Kept
        <5> QED
          BY <5>4
      <4> QED
        BY <4>1, <4>2, <4>3
    <3> QED
      BY <2>1, <3>1, <3>4
  <2>6. ASSUME UNCHANGED <<sent, SendChannel, P2PMsgs, result, returned>> PROVE LinkKept(t, s)'
    <3>1. \A n : Kept(t, s, n) => Kept(t, s, n)'
      BY <2>6 DEF Kept
    <3> QED
      BY <2>1, <2>6, <3>1
  <2>7. ASSUME NEW a \in Parties
        PROVE  ~Delete(a) /\ ~Poll(a) /\ ~Requeue(a) /\ ~Drain(a) /\ \A b \in Parties : ~Lookup(a, b) /\ ~DeliverPush(a, b)
    BY <1>1 DEF AllOnly, NoDelivery, Delete, Poll, Requeue, Drain, Lookup, DeliverPush
  <2>8. ~DeliverBegin /\ ~DeliverEnd
    BY <1>1 DEF AllOnly, NoDelivery, DeliverBegin, DeliverEnd
  <2>9. ASSUME NEW a \in Parties, AddP2PChannel(a) PROVE LinkKept(t, s)'
    BY <2>6, <2>9 DEF AddP2PChannel
  <2>10. CASE UNCHANGED vars
    BY <2>6, <2>10 DEF vars
  <2> QED
    BY <2>2, <2>3, <2>4, <2>5, <2>7, <2>8, <2>9, <2>10 DEF Next, Party
<1> QED
  BY <1>1, <1>2, <1>3 DEF KeptInv

LEMMA KeptSurvives ==
  ASSUME TypeInv, NEW t \in Parties, NEW s \in Parties
  PROVE  NewestRelayed(t, s) = LinkNewest(t, s)
BY DEF NewestRelayed, LinkNewest, Newest, For

(* With ReceiveAll for all receive calls, which takes the slots in one     *)
(* critical section, no relayed message is destroyed unread: the newest of *)
(* each link is in its slot, in a call's map, or returned, on any links    *)
(* and at any capacities.                                                  *)
THEOREM SurvivesAll == AllOnly => (Spec => []NewestRelayedSurvives)
<1> SUFFICES ASSUME AllOnly PROVE Spec => []NewestRelayedSurvives
  OBVIOUS
<1>1. TypeInv /\ KeptInv /\ [Next]_vars => KeptInv'
  BY KeptStep
<1>2. TypeInv /\ KeptInv => NewestRelayedSurvives
  BY KeptSurvives DEF KeptInv, LinkKept, Kept, NewestRelayedSurvives, Survives, HasReached
<1> QED
  BY <1>1, <1>2, KeptInit, TypeInvariant, PTL DEF Spec

-----------------------------------------------------------------------------
(* What a ReceiveFrom may lose.                                            *)

\* Only a ReceiveFrom that has read its slot has a message in hand.
HandsEmpty == \A t \in Parties : op[t].pc # "delete" => op[t].n = 0

LossInv == OrderInv /\ HandsEmpty /\ \A t, s \in Parties : LinkDense(t, s)

LEMMA LossInit == Init => LossInv
<1> SUFFICES ASSUME Init PROVE LossInv
  OBVIOUS
<1>1. \A t, s \in Parties : LinkDense(t, s)
  BY KeptInit DEF KeptInv, LinkKept
<1>2. HandsEmpty
  BY DEF Init, HandsEmpty, Idle
<1> QED
  BY <1>1, <1>2, OrderInit DEF LossInv

LEMMA HandsEmptyStep ==
  ASSUME TypeInv, NoDelivery, HandsEmpty, [Next]_vars
  PROVE  HandsEmpty'
<1> USE DEF HandsEmpty
<1>0. op \in [Parties -> Call] /\ \A t \in Parties : Idle(t).n = 0
  BY DEF TypeInv, TypeOK, Idle
<1>1. ASSUME NEW a \in Parties, op' = [op EXCEPT ![a] = Idle(a)] PROVE HandsEmpty'
  BY <1>0, <1>1
<1>2. ASSUME op' = op PROVE HandsEmpty'
  BY <1>2
<1>3. ASSUME NEW a \in Parties, NEW b \in Parties, Lookup(a, b) PROVE HandsEmpty'
  <2>1. \/ op' = [op EXCEPT ![a] = [pc |-> "delete", from |-> b, n |-> P2PMsgs[a][b]]]
        \/ op' = [op EXCEPT ![a] = [pc |-> "poll", from |-> b, n |-> 0]]
    BY <1>3 DEF Lookup
  <2> QED
    BY <1>0, <2>1
<1>4. ASSUME NEW a \in Parties, Take(a) PROVE HandsEmpty'
  BY <1>0, <1>4 DEF Take
<1>5. ASSUME NEW a \in Parties, Delete(a) \/ Poll(a) \/ ReturnAll(a) PROVE HandsEmpty'
  BY <1>1, <1>5 DEF Delete, Return, Poll, ReturnAll, NoDelivery
<1>6. ASSUME NEW a \in Parties PROVE ~Requeue(a)
  BY DEF Requeue, NoDelivery
<1>7. ASSUME NEW a \in Parties, AddP2PChannel(a) \/ Relay(a) \/ Drain(a) PROVE HandsEmpty'
  BY <1>2, <1>7 DEF AddP2PChannel, Relay, Drain
<1>8. ASSUME NEW a \in Parties, NEW b \in Parties, SendTo(a, b) \/ DeliverPush(a, b) PROVE HandsEmpty'
  BY <1>2, <1>8 DEF SendTo, DeliverPush
<1>9. CASE DeliverBegin \/ DeliverEnd \/ UNCHANGED vars
  BY <1>2, <1>9 DEF DeliverBegin, DeliverEnd, vars
<1> QED
  BY <1>3, <1>4, <1>5, <1>6, <1>7, <1>8, <1>9 DEF Next, Party

\* The steps of the queue: no other changes what is sent and not relayed.
QueueStep == \E a, b \in Parties : SendTo(a, b) \/ Relay(a)

LEMMA QueueUntouched ==
  ASSUME [Next]_vars, ~QueueStep
  PROVE  UNCHANGED <<sent, SendChannel>>
<1>1. ASSUME NEW a \in Parties, NEW b \in Parties PROVE ~SendTo(a, b) /\ ~Relay(a)
  BY DEF QueueStep
<1>2. ASSUME NEW a \in Parties, AddP2PChannel(a) \/ Delete(a) \/ Poll(a) \/ Requeue(a)
                                  \/ Take(a) \/ Drain(a) \/ ReturnAll(a)
      PROVE  UNCHANGED <<sent, SendChannel>>
  BY <1>2 DEF AddP2PChannel, Delete, Poll, Requeue, Take, Drain, ReturnAll
<1>3. ASSUME NEW a \in Parties, NEW b \in Parties, Lookup(a, b) \/ DeliverPush(a, b)
      PROVE  UNCHANGED <<sent, SendChannel>>
  BY <1>3 DEF Lookup, DeliverPush
<1>4. CASE DeliverBegin \/ DeliverEnd \/ UNCHANGED vars
  BY <1>4 DEF DeliverBegin, DeliverEnd, vars
<1> QED
  BY <1>1, <1>2, <1>3, <1>4 DEF Next, Party

LEMMA LossStep ==
  ASSUME "Deliver" \notin Calls, TypeInv, LossInv, [Next]_vars
  PROVE  LossInv'
<1>1. OrderInv' /\ HandsEmpty'
  BY OrderStep, HandsEmptyStep DEF LossInv, OrderInv
<1>2. ASSUME NEW t \in Parties, NEW s \in Parties PROVE LinkDense(t, s)'
  <2>0. LinkDense(t, s)
    BY DEF LossInv
  <2>1. CASE QueueStep
    BY <2>0, <2>1, SendNewest, RelayNewest DEF QueueStep
  <2>2. CASE ~QueueStep
    BY <2>0, <2>2, QueueUntouched DEF LinkDense
  <2> QED
    BY <2>1, <2>2
<1> QED
  BY <1>1, <1>2 DEF LossInv

\* With no message in a ReceiveChannel or outside a link's hand.
Reached(t, s, n) == Kept(t, s, n) \/ (op[t].from = s /\ op[t].n = n)

LEMMA ReachedIs ==
  ASSUME NoDelivery, NEW t \in Parties, NEW s, NEW n
  PROVE  HasReached(t, s, n) <=> Reached(t, s, n)
BY DEF NoDelivery, HasReached, Reached, Kept

\* What a call hands to its caller is among the returned.
LEMMA ReturnedIn ==
  ASSUME NEW q \in Seq(Number), NEW n \in Number
  PROVE  /\ \E i \in 1..Len(Append(q, n)) : Append(q, n)[i] = n
         /\ \A m : (\E i \in 1..Len(q) : q[i] = m) => \E i \in 1..Len(Append(q, n)) : Append(q, n)[i] = m
<1>1. /\ Len(q) \in Nat /\ Len(Append(q, n)) = Len(q) + 1 /\ Append(q, n)[Len(q) + 1] = n
      /\ \A i \in 1..Len(q) : Append(q, n)[i] = q[i]
  BY AppendProperties, LenProperties
<1>2. Len(q) + 1 \in 1..Len(Append(q, n)) /\ \A i \in 1..Len(q) : i \in 1..Len(Append(q, n))
  BY <1>1
<1> QED
  BY <1>1, <1>2

\* A write lock that finds in its slot what the read lock found loses nothing.
LEMMA DeleteLoses ==
  ASSUME TypeInv, LossInv, NEW a \in Parties, Delete(a),
         NEW t \in Parties, NEW s \in Parties, NEW n, n # 0, Reached(t, s, n), ~Reached(t, s, n)'
  PROVE  /\ t = a /\ op[t].pc = "delete" /\ op[t].from = s
         /\ P2PMsgs[t][s] = n /\ op[t].n < P2PMsgs[t][s]
         /\ P2PMsgs'[t][s] = 0 /\ returned'[t][s] = Append(returned[t][s], op[t].n)
<1>1. /\ op' = [op EXCEPT ![a] = Idle(a)] /\ op[a].pc = "delete"
      /\ P2PMsgs' = [P2PMsgs EXCEPT ![a][op[a].from] = 0]
      /\ returned' = [returned EXCEPT ![a][op[a].from] = Append(@, op[a].n)]
      /\ result' = result
  BY DEF Delete, Return
<1>2. /\ op[a].from \in Parties /\ op[a].n \in Number /\ result[a] = NoMessages
      /\ returned[t][s] \in Seq(Number)
  BY <1>1 DEF TypeInv, TypeOK, HandsFull, LossInv, OrderInv, NoDelivery, Call, Number
<1>3. CASE t = a /\ s = op[a].from
  <2>1. /\ P2PMsgs'[t][s] = 0 /\ returned'[t][s] = Append(returned[t][s], op[t].n)
    BY <1>1, <1>3 DEF TypeInv, TypeOK
  <2>2. n # op[t].n /\ ~(\E i \in 1..Len(returned[t][s]) : returned[t][s][i] = n)
    <3>0. PICK q \in Seq(Number), h \in Number : q = returned[t][s] /\ h = op[t].n
      BY <1>2, <1>3
    <3>1. /\ \E i \in 1..Len(returned'[t][s]) : returned'[t][s][i] = op[t].n
          /\ \A m : (\E i \in 1..Len(returned[t][s]) : returned[t][s][i] = m)
                   => \E i \in 1..Len(returned'[t][s]) : returned'[t][s][i] = m
      <4>1. returned'[t][s] = Append(q, h)
        BY <2>1, <3>0
      <4> DEFINE p == Append(q, h)
      <4>2. /\ \E i \in 1..Len(p) : p[i] = h
            /\ \A m : (\E i \in 1..Len(q) : q[i] = m) => \E i \in 1..Len(p) : p[i] = m
        BY ReturnedIn
      <4> HIDE DEF p
      <4>3. returned'[t][s] = p
        BY <4>1 DEF p
      <4> QED
        BY <3>0, <4>2, <4>3
    <3>2. ~(\E i \in 1..Len(returned'[t][s]) : returned'[t][s][i] = n)
      BY DEF Reached, Kept
    <3> QED
      BY <3>1, <3>2
  <2>3. result[t][s] = 0 /\ P2PMsgs[t][s] \in Nat
    BY <1>2, <1>3 DEF NoMessages, TypeInv, TypeOK
  <2>4. P2PMsgs[t][s] = n
    BY <2>2, <2>3 DEF Reached, Kept
  <2>5. Hand(t, s) = op[t].n /\ Hand(t, s) # 0
    BY <1>1, <1>2, <1>3 DEF Hand, Number
  <2>6. op[t].n <= n
    BY <2>3, <2>4, <2>5 DEF LossInv, OrderInv, LinkOrder, HandOrder
  <2>7. op[t].n < n
    BY <1>2, <1>3, <2>2, <2>3, <2>4, <2>6 DEF Number
  <2> QED
    BY <1>1, <1>3, <2>1, <2>4, <2>7
<1>4. CASE ~(t = a /\ s = op[a].from)
  <2>1. P2PMsgs'[t][s] = P2PMsgs[t][s] /\ returned'[t][s] = returned[t][s]
    BY <1>1, <1>2, <1>4 DEF TypeInv, TypeOK
  <2>2. op[t].from = s => op'[t] = op[t]
    BY <1>1, <1>4 DEF TypeInv, TypeOK
  <2> QED
    BY <1>1, <2>1, <2>2 DEF Reached, Kept
<1> QED
  BY <1>3, <1>4

\* No other step of the receivers loses a message.
LEMMA OthersKeep ==
  ASSUME TypeInv, LossInv, [Next]_vars, ~QueueStep, \A a \in Parties : ~Delete(a),
         NEW t \in Parties, NEW s \in Parties, NEW n, n # 0, Reached(t, s, n)
  PROVE  Reached(t, s, n)'
<1>0. NoDelivery /\ (op[t].pc # "delete" => op[t].n # n)
  BY DEF LossInv, OrderInv, HandsEmpty
<1>1. ASSUME UNCHANGED <<P2PMsgs, result, returned>>, op'[t] = op[t] \/ op[t].pc # "delete"
      PROVE  Reached(t, s, n)'
  BY <1>0, <1>1 DEF Reached, Kept
<1>2. ASSUME NEW a \in Parties, NEW b \in Parties, Lookup(a, b) PROVE Reached(t, s, n)'
  <2>1. op'[t] = op[t] \/ op[t].pc # "delete"
    BY <1>2 DEF Lookup, TypeInv, TypeOK
  <2> QED
    BY <1>1, <1>2, <2>1 DEF Lookup
<1>3. ASSUME NEW a \in Parties, Poll(a) PROVE Reached(t, s, n)'
  <2>1. op' = [op EXCEPT ![a] = Idle(a)] /\ op[a].pc = "poll" /\ UNCHANGED <<P2PMsgs, result, returned>>
    BY <1>0, <1>3 DEF Poll, NoDelivery
  <2>2. op'[t] = op[t] \/ op[t].pc # "delete"
    BY <2>1 DEF TypeInv, TypeOK
  <2> QED
    BY <1>1, <2>1, <2>2
<1>4. ASSUME NEW a \in Parties, Take(a) PROVE Reached(t, s, n)'
  <2>1. /\ returned' = returned
        /\ t = a => result[t] = NoMessages /\ result'[t] = P2PMsgs[t] /\ op[t].pc # "delete"
        /\ t # a => result'[t] = result[t] /\ P2PMsgs'[t] = P2PMsgs[t] /\ op'[t] = op[t]
    BY <1>0, <1>4 DEF Take, NoDelivery, TypeInv, TypeOK
  <2>2. CASE t = a
    <3>1. result[t][s] = 0
      BY <2>1, <2>2 DEF NoMessages
    <3>2. Kept(t, s, n)
      BY <1>0, <2>1, <2>2 DEF Reached
    <3> QED
      BY <2>1, <2>2, <3>1, <3>2 DEF Reached, Kept
  <2>3. CASE t # a
    BY <2>1, <2>3 DEF Reached, Kept
  <2> QED
    BY <2>2, <2>3
<1>5. ASSUME NEW a \in Parties, ReturnAll(a) PROVE Reached(t, s, n)'
  <2>1. /\ P2PMsgs' = P2PMsgs
        /\ t # a => result'[t] = result[t] /\ returned'[t] = returned[t] /\ op'[t] = op[t]
        /\ t = a => /\ op[t].pc # "delete"
                    /\ returned'[t][s] = IF result[t][s] = 0 THEN returned[t][s]
                                         ELSE Append(returned[t][s], result[t][s])
    BY <1>5 DEF ReturnAll, TypeInv, TypeOK
  <2>2. returned[t][s] \in Seq(Number) /\ (result[t][s] # 0 => result[t][s] \in Number)
    BY DEF TypeInv, TypeOK, Number
  <2>3. CASE t # a
    BY <2>1, <2>3 DEF Reached, Kept
  <2>4. CASE t = a
    <3>1. Kept(t, s, n)
      BY <1>0, <2>1, <2>4 DEF Reached
    <3>2. CASE result[t][s] = 0
      BY <2>1, <2>4, <3>1, <3>2 DEF Reached, Kept
    <3>3. CASE result[t][s] # 0
      <4>1. PICK q \in Seq(Number), h \in Number : q = returned[t][s] /\ h = result[t][s]
        BY <2>2, <3>3
      <4>2. returned'[t][s] = Append(q, h)
        BY <2>1, <2>4, <3>3, <4>1
      <4>3. n = P2PMsgs[t][s] \/ n = h \/ \E i \in 1..Len(q) : q[i] = n
        BY <3>1, <4>1 DEF Kept
      <4>4. n = P2PMsgs[t][s] \/ \E i \in 1..Len(Append(q, h)) : Append(q, h)[i] = n
        BY <4>3, ReturnedIn
      <4> QED
        BY <2>1, <4>2, <4>4 DEF Reached, Kept
    <3> QED
      BY <3>2, <3>3
  <2> QED
    BY <2>3, <2>4
<1>6. ASSUME NEW a \in Parties PROVE ~Requeue(a) /\ ~Drain(a) /\ \A b \in Parties : ~DeliverPush(a, b)
  BY <1>0 DEF NoDelivery, Requeue, Drain, DeliverPush
<1>7. ASSUME UNCHANGED <<P2PMsgs, result, returned, op>> PROVE Reached(t, s, n)'
  BY <1>1, <1>7
<1>8. ASSUME NEW a \in Parties, AddP2PChannel(a) PROVE Reached(t, s, n)'
  BY <1>7, <1>8 DEF AddP2PChannel
<1>9. CASE DeliverBegin \/ DeliverEnd \/ UNCHANGED vars
  BY <1>7, <1>9 DEF DeliverBegin, DeliverEnd, vars
<1> QED
  BY <1>2, <1>3, <1>4, <1>5, <1>6, <1>8, <1>9 DEF Next, Party, QueueStep

LEMMA LossIsOvertaking ==
  ASSUME "Deliver" \notin Calls, TypeInv, LossInv, [Next]_vars,
         NEW t \in Parties, NEW s \in Parties, Survives(t, s), ~Survives(t, s)'
  PROVE  /\ op[t].pc = "delete" /\ op[t].from = s
         /\ P2PMsgs[t][s] = NewestRelayed(t, s) /\ op[t].n < P2PMsgs[t][s]
         /\ P2PMsgs'[t][s] = 0
         /\ returned'[t][s] = Append(returned[t][s], op[t].n)
<1>1. PICK n : n = LinkNewest(t, s)
  OBVIOUS
<1>2. /\ NewestRelayed(t, s) = n /\ NewestRelayed(t, s)' = LinkNewest(t, s)'
      /\ LinkDense(t, s) /\ NoDelivery
  BY <1>1 DEF NewestRelayed, LinkNewest, Newest, For, LossInv, OrderInv
<1>3. n # 0 => Reached(t, s, n)
  BY <1>2, ReachedIs DEF Survives
<1>4. LinkNewest(t, s)' # 0 /\ ~Reached(t, s, LinkNewest(t, s))'
  BY <1>2 DEF Survives, HasReached, Reached, Kept
<1>5. LinkNewest(t, s)' = n => n # 0 /\ Reached(t, s, n) /\ ~Reached(t, s, n)'
  BY <1>3, <1>4 DEF Reached, Kept
<1>6. ~QueueStep
  <2>1. ASSUME NEW a \in Parties, NEW b \in Parties, SendTo(a, b) PROVE FALSE
    <3>1. LinkNewest(t, s)' = n
      BY <1>1, <1>2, <2>1, SendNewest
    <3>2. UNCHANGED <<P2PMsgs, result, returned, op>>
      BY <2>1 DEF SendTo
    <3> QED
      BY <1>5, <3>1, <3>2 DEF Reached, Kept
  <2>2. ASSUME NEW a \in Parties, Relay(a) PROVE FALSE
    <3>1. UNCHANGED <<result, returned, op>>
      BY <2>2 DEF Relay
    <3>2. \/ LinkNewest(t, s)' = P2PMsgs'[t][s]
          \/ LinkNewest(t, s)' = n /\ P2PMsgs'[t][s] = P2PMsgs[t][s]
      BY <1>1, <1>2, <2>2, RelayNewest
    <3>3. LinkNewest(t, s)' # P2PMsgs'[t][s]
      BY <1>4 DEF Reached, Kept
    <3> QED
      BY <1>5, <3>1, <3>2, <3>3 DEF Reached, Kept
  <2> QED
    BY <2>1, <2>2 DEF QueueStep
<1>7. n # 0 /\ Reached(t, s, n) /\ ~Reached(t, s, n)'
  <2>1. LinkNewest(t, s)' = n
    BY <1>1, <1>6, QueueUntouched DEF LinkNewest
  <2> QED
    BY <1>5, <2>1
<1>8. PICK a \in Parties : Delete(a)
  BY <1>6, <1>7, OthersKeep
<1> QED
  BY <1>2, <1>7, <1>8, DeleteLoses

(* However ReceiveFrom and ReceiveAll are mixed, on any links and at any   *)
(* capacities, the newest relayed message of a link is only lost to a      *)
(* ReceiveFrom that holds an older one between its two locks, and in the   *)
(* step that returns that one.                                             *)
THEOREM LossNeedsOvertaking == "Deliver" \notin Calls => (Spec => OnlyOvertakenLost)
<1> SUFFICES ASSUME "Deliver" \notin Calls PROVE Spec => OnlyOvertakenLost
  OBVIOUS
<1>1. TypeInv /\ LossInv /\ [Next]_vars => LossInv'
  BY LossStep
<1>2. TypeInv /\ LossInv /\ [Next]_vars =>
        [\A t, s \in Parties :
           Survives(t, s) /\ ~Survives(t, s)' =>
             /\ op[t].pc = "delete" /\ op[t].from = s
             /\ P2PMsgs[t][s] = NewestRelayed(t, s) /\ op[t].n < P2PMsgs[t][s]
             /\ P2PMsgs'[t][s] = 0
             /\ returned'[t][s] = Append(returned[t][s], op[t].n)]_vars
  BY LossIsOvertaking
<1> QED
  BY <1>1, <1>2, LossInit, TypeInvariant, PTL DEF Spec, OnlyOvertakenLost

-----------------------------------------------------------------------------
(* One message for each link, by any mix of the calls: where it may be.    *)

Senders(t) == {s \in Parties : <<s, t>> \in Links}

\* A ReceiveChannel has room for a message of every sender.
RoomForAll == \A t \in Parties : IsFiniteSet(Senders(t)) /\ Cardinality(Senders(t)) <= RecvCap

\* The places in a ReceiveChannel of what is from s.
Froms(q, s) == {i \in 1..Len(q) : q[i].from = s}

AtMostOne(S) == \A i, j \in S : i = j

Sending(t, s) ==
  /\ sent[s][t] \in {0, 1} /\ (sent[s][t] = 1 => <<s, t>> \in Links)
  /\ sent[s][t] = 0 => For(SendChannel[s], t) = {}
  /\ AtMostOne(For(SendChannel[s], t))
  /\ \A i \in For(SendChannel[s], t) : SendChannel[s][i].n = 1

\* The relay has moved the message.
Gone(t, s) == sent[s][t] = 1 /\ For(SendChannel[s], t) = {}

Requeuing(t, s) == op[t].pc = "requeue" /\ op[t].from = s

Got(t, s) ==
  \/ P2PMsgs[t][s] = 1 \/ result[t][s] = 1
  \/ op[t].from = s /\ op[t].n = 1
  \/ Froms(ReceiveChannel[t], s) # {}
  \/ \E i \in 1..Len(returned[t][s]) : returned[t][s][i] = 1

\* It is in one of the slot, the ReceiveChannel and the hand that requeues.
Holding(t, s) ==
  /\ P2PMsgs[t][s] \in {0, 1} /\ result[t][s] \in {0, 1}
  /\ AtMostOne(Froms(ReceiveChannel[t], s))
  /\ \A i \in Froms(ReceiveChannel[t], s) : ReceiveChannel[t][i].n = 1
  /\ P2PMsgs[t][s] = 1 => Froms(ReceiveChannel[t], s) = {} /\ ~Requeuing(t, s)
  /\ Requeuing(t, s) => Froms(ReceiveChannel[t], s) = {}
  /\ P2PMsgs[t][s] = 1 \/ Froms(ReceiveChannel[t], s) # {} \/ Requeuing(t, s) => Gone(t, s)
  /\ Gone(t, s) => Got(t, s)

HandOnce(t) ==
  /\ op[t].n # 0 => op[t].n = 1 /\ op[t].pc \in {"delete", "requeue"}
  /\ op[t].pc # "drain" => result[t] = NoMessages

OnceInv ==
  /\ \A t \in Parties : HandOnce(t)
  /\ \A t, s \in Parties : Sending(t, s) /\ Holding(t, s)

LEMMA OnceInit == Init => OnceInv
<1> SUFFICES ASSUME Init PROVE OnceInv
  OBVIOUS
<1>1. \A t \in Parties : HandOnce(t)
  BY DEF Init, HandOnce, Idle
<1>2. ASSUME NEW t \in Parties, NEW s \in Parties PROVE Sending(t, s) /\ Holding(t, s)
  <2>1. /\ sent[s][t] = 0 /\ SendChannel[s] = <<>> /\ P2PMsgs[t][s] = 0 /\ result[t][s] = 0
        /\ ReceiveChannel[t] = <<>> /\ op[t].pc = "idle"
    BY DEF Init, NoMessages, Idle
  <2>2. For(SendChannel[s], t) = {} /\ Froms(ReceiveChannel[t], s) = {} /\ ~Requeuing(t, s)
    BY <2>1 DEF For, Froms, Requeuing
  <2> QED
    BY <2>1, <2>2 DEF Sending, Holding, AtMostOne, Gone
<1> QED
  BY <1>1, <1>2 DEF OnceInv

(* What an Append and a Tail do to the places of a message.                *)
LEMMA Pushed ==
  ASSUME NEW q \in Seq(Packet), NEW m \in Packet, m.n = 1, Froms(q, m.from) = {},
         NEW s, AtMostOne(Froms(q, s)), \A i \in Froms(q, s) : q[i].n = 1
  PROVE  /\ AtMostOne(Froms(Append(q, m), s)) /\ \A i \in Froms(Append(q, m), s) : Append(q, m)[i].n = 1
         /\ m.from = s => Froms(Append(q, m), s) # {}
         /\ m.from # s => (Froms(Append(q, m), s) = {} <=> Froms(q, s) = {})
<1>1. /\ Len(q) \in Nat /\ Len(Append(q, m)) = Len(q) + 1 /\ Append(q, m)[Len(q) + 1] = m
      /\ \A i \in 1..Len(q) : Append(q, m)[i] = q[i]
  BY AppendProperties, LenProperties
<1>2. m.from = s => Froms(Append(q, m), s) = {Len(q) + 1}
  BY <1>1 DEF Froms
<1>3. m.from # s => Froms(Append(q, m), s) = Froms(q, s)
  BY <1>1 DEF Froms
<1>4. \A i \in Froms(q, s) : Append(q, m)[i] = q[i]
  BY <1>1 DEF Froms
<1> QED
  BY <1>1, <1>2, <1>3, <1>4 DEF AtMostOne

LEMMA FromsTail ==
  ASSUME NEW q \in Seq(Packet), q # <<>>, NEW s
  PROVE  /\ \A i \in Froms(Tail(q), s) : i + 1 \in Froms(q, s) /\ i \in Nat \ {0} /\ Tail(q)[i] = q[i + 1]
         /\ Head(q).from = s => 1 \in Froms(q, s) /\ Head(q) = q[1]
         /\ Head(q).from # s /\ Froms(q, s) # {} => Froms(Tail(q), s) # {}
<1>1. /\ Len(q) \in Nat /\ Len(q) >= 1 /\ Len(Tail(q)) = Len(q) - 1 /\ Head(q) = q[1]
      /\ \A i \in 1..Len(Tail(q)) : Tail(q)[i] = q[i + 1]
  BY HeadTailProperties, LenProperties
<1>2. Head(q).from # s => \A i \in Froms(q, s) : i - 1 \in Froms(Tail(q), s)
  <2> SUFFICES ASSUME Head(q).from # s, NEW i \in Froms(q, s) PROVE i - 1 \in Froms(Tail(q), s)
    OBVIOUS
  <2>1. i \in 1..Len(q) /\ i # 1 /\ q[i].from = s
    BY <1>1 DEF Froms
  <2>2. i - 1 \in 1..Len(Tail(q)) /\ (i - 1) + 1 = i
    BY <1>1, <2>1
  <2> QED
    BY <1>1, <2>1, <2>2 DEF Froms
<1>3. \A i \in Froms(Tail(q), s) : i + 1 \in Froms(q, s) /\ i \in Nat \ {0} /\ Tail(q)[i] = q[i + 1]
  BY <1>1 DEF Froms
<1>4. Head(q).from = s => 1 \in Froms(q, s) /\ Head(q) = q[1]
  BY <1>1 DEF Froms
<1> QED
  BY <1>2, <1>3, <1>4

LEMMA Popped ==
  ASSUME NEW q \in Seq(Packet), q # <<>>, NEW s, AtMostOne(Froms(q, s)),
         \A i \in Froms(q, s) : q[i].n = 1
  PROVE  /\ AtMostOne(Froms(Tail(q), s)) /\ \A i \in Froms(Tail(q), s) : Tail(q)[i].n = 1
         /\ Head(q).from = s => Froms(Tail(q), s) = {} /\ Head(q).n = 1 /\ Froms(q, s) # {}
         /\ Head(q).from # s => (Froms(Tail(q), s) = {} <=> Froms(q, s) = {})
<1>1. /\ \A i \in Froms(Tail(q), s) : i + 1 \in Froms(q, s) /\ i \in Nat \ {0} /\ Tail(q)[i] = q[i + 1]
      /\ Head(q).from = s => 1 \in Froms(q, s) /\ Head(q) = q[1]
      /\ Head(q).from # s /\ Froms(q, s) # {} => Froms(Tail(q), s) # {}
  BY FromsTail
<1>2. AtMostOne(Froms(Tail(q), s))
  <2>1. ASSUME NEW i \in Froms(Tail(q), s), NEW j \in Froms(Tail(q), s) PROVE i = j
    <3>1. i + 1 = j + 1 /\ i \in Nat /\ j \in Nat
      BY <1>1 DEF AtMostOne
    <3> QED
      BY <3>1
  <2> QED
    BY <2>1 DEF AtMostOne
<1>3. Head(q).from = s => Froms(Tail(q), s) = {}
  <2>1. ASSUME Head(q).from = s, NEW i \in Froms(Tail(q), s) PROVE FALSE
    <3>1. i + 1 = 1 /\ i \in Nat \ {0}
      BY <1>1, <2>1 DEF AtMostOne
    <3> QED
      BY <3>1
  <2> QED
    BY <2>1
<1> QED
  BY <1>1, <1>2, <1>3

(* A channel that holds at most one message of each sender but s has room. *)
LEMMA HasRoom ==
  ASSUME RoomForAll, NEW t \in Parties, NEW q \in Seq(Packet), NEW s \in Senders(t),
         Froms(q, s) = {}, \A r \in Parties : AtMostOne(Froms(q, r)),
         \A r \in Parties : Froms(q, r) # {} => r \in Senders(t)
  PROVE  Len(q) < RecvCap
<1> DEFINE S == Senders(t) \ {s}
           f == [i \in 1..Len(q) |-> q[i].from]
<1>1. Len(q) \in Nat /\ \A i \in 1..Len(q) : q[i] \in Packet
  BY LenProperties, ElementOfSeq
<1>2. \A i \in 1..Len(q) : q[i].from \in Parties /\ i \in Froms(q, q[i].from)
  BY <1>1 DEF Packet, Froms
<1>3. \A i \in 1..Len(q) : q[i].from \in S
  BY <1>2 DEF Froms
<1>4. \A i, j \in 1..Len(q) : q[i].from = q[j].from => i = j
  BY <1>2 DEF AtMostOne
<1>5. f \in Injection(1..Len(q), S)
  BY <1>3, <1>4 DEF Injection, IsInjective
<1>6. IsFiniteSet(Senders(t)) /\ Cardinality(Senders(t)) <= RecvCap /\ Cardinality(Senders(t)) \in Nat
  BY FS_CardinalityType DEF RoomForAll
<1>7. IsFiniteSet(S) /\ Cardinality(S) = Cardinality(Senders(t)) - 1
  BY <1>6, FS_RemoveElement
<1>8. Cardinality(1..Len(q)) <= Cardinality(S)
  BY <1>5, <1>7, FS_Injection
<1>9. Cardinality(1..Len(q)) = Len(q)
  <2>1. Cardinality(1..Len(q)) = IF 1 > Len(q) THEN 0 ELSE Len(q) - 1 + 1
    BY <1>1, FS_Interval
  <2> QED
    BY <1>1, <2>1
<1> QED
  BY <1>1, <1>6, <1>7, <1>8, <1>9, BoundAssumption

(* The steps of a sender and of its relay.                                 *)
LEMMA OnceSend ==
  ASSUME MaxSends = 1, TypeInv, OnceInv, NEW a \in Parties, NEW b \in Parties, SendTo(a, b),
         NEW t \in Parties, NEW s \in Parties
  PROVE  Sending(t, s)' /\ Holding(t, s)'
<1> DEFINE m == [to |-> b, n |-> sent[a][b] + 1]
<1>0. Sending(t, s) /\ Holding(t, s) /\ Sending(b, a)
  BY DEF OnceInv
<1>1. /\ sent'[s][t] = IF s = a /\ t = b THEN sent[s][t] + 1 ELSE sent[s][t]
      /\ SendChannel'[s] = IF s = a THEN Append(SendChannel[s], m) ELSE SendChannel[s]
      /\ UNCHANGED <<P2PMsgs, result, returned, op, ReceiveChannel>> /\ <<a, b>> \in Links
  BY DEF SendTo, TypeInv, TypeOK
<1>2. sent[a][b] = 0
  BY <1>0 DEF SendTo, Sending
<1>3. m.to = b /\ m.n = 1 /\ m \in Message
  BY <1>2 DEF Message, Number
<1> HIDE DEF m
<1>4. SendChannel[s] \in Seq(Message)
  BY LinkTypes
<1>5. \A q \in Seq(Message) :
        /\ Len(q) \in Nat /\ Len(Append(q, m)) = Len(q) + 1 /\ Append(q, m)[Len(q) + 1] = m
        /\ \A i \in 1..Len(q) : Append(q, m)[i] = q[i]
  BY <1>3, AppendProperties, LenProperties
<1>6. /\ s = a => For(SendChannel'[s], t) = IF t = b THEN For(SendChannel[s], t) \cup {Len(SendChannel[s]) + 1}
                                            ELSE For(SendChannel[s], t)
      /\ s # a => For(SendChannel'[s], t) = For(SendChannel[s], t)
      /\ \A i \in For(SendChannel[s], t) : SendChannel'[s][i] = SendChannel[s][i]
  BY <1>1, <1>3, <1>4, <1>5 DEF For
<1>7. CASE s = a /\ t = b
  <2>1. For(SendChannel[s], t) = {} /\ For(SendChannel'[s], t) = {Len(SendChannel[s]) + 1}
    BY <1>0, <1>2, <1>6, <1>7 DEF Sending
  <2>2. SendChannel'[s][Len(SendChannel[s]) + 1].n = 1 /\ sent'[s][t] = 1
    BY <1>1, <1>2, <1>3, <1>4, <1>5, <1>7
  <2>3. ~Gone(t, s) /\ ~Gone(t, s)'
    BY <1>2, <1>7, <2>1 DEF Gone
  <2>4. Sending(t, s)'
    BY <1>1, <1>7, <2>1, <2>2 DEF Sending, AtMostOne
  <2>5. Holding(t, s)'
    BY <1>0, <1>1, <2>3 DEF Holding, Requeuing
  <2> QED
    BY <2>4, <2>5
<1>8. CASE ~(s = a /\ t = b)
  <2>1. For(SendChannel'[s], t) = For(SendChannel[s], t) /\ sent'[s][t] = sent[s][t]
    BY <1>1, <1>6, <1>8
  <2>2. Sending(t, s)' /\ Gone(t, s)' = Gone(t, s)
    BY <1>0, <1>6, <2>1 DEF Sending, Gone
  <2>3. Holding(t, s)'
    BY <1>0, <1>1, <2>2 DEF Holding, Requeuing, Got
  <2> QED
    BY <2>2, <2>3
<1> QED
  BY <1>7, <1>8

LEMMA OnceRelay ==
  ASSUME TypeInv, OnceInv, NEW a \in Parties, Relay(a), NEW t \in Parties, NEW s \in Parties
  PROVE  Sending(t, s)' /\ Holding(t, s)'
<1>0. Sending(t, s) /\ Holding(t, s)
  BY DEF OnceInv
<1>1. SendChannel[a] \in Seq(Message) /\ SendChannel[a] # <<>>
  BY DEF Relay, TypeInv, TypeOK
<1>2. PICK m \in Message : m = Head(SendChannel[a])
  BY <1>1, HeadTail
<1>3. /\ SendChannel'[s] = IF s = a THEN Tail(SendChannel[a]) ELSE SendChannel[s]
      /\ UNCHANGED <<sent, result, returned, op, ReceiveChannel>>
      /\ P2PMsgs' = [P2PMsgs EXCEPT ![m.to][a] = m.n] /\ m.to \in Parties
  BY <1>2 DEF Relay, Message, TypeInv, TypeOK
<1>4. P2PMsgs'[t][s] = IF s = a /\ m.to = t THEN m.n ELSE P2PMsgs[t][s]
  BY <1>3 DEF TypeInv, TypeOK
<1>5. CASE s # a
  <2>1. UNCHANGED <<SendChannel[s], P2PMsgs[t][s]>>
    BY <1>3, <1>4, <1>5
  <2>2. Sending(t, s)' /\ Gone(t, s)' = Gone(t, s)
    BY <1>0, <1>3, <2>1 DEF Sending, Gone
  <2>3. Holding(t, s)'
    BY <1>0, <1>3, <2>1, <2>2 DEF Holding, Requeuing, Got
  <2> QED
    BY <2>2, <2>3
<1>6. CASE s = a
  <2> DEFINE q == SendChannel[s]
             r == SendChannel'[s]
  <2>1. /\ Len(q) \in Nat /\ Len(q) >= 1 /\ Len(r) = Len(q) - 1 /\ m = q[1]
        /\ \A i \in 1..Len(r) : r[i] = q[i + 1]
    BY <1>1, <1>2, <1>3, <1>6, HeadTailProperties, LenProperties
  <2>2. \A i \in For(r, t) : i \in Nat \ {0} /\ i + 1 \in For(q, t) /\ r[i] = q[i + 1]
    BY <2>1 DEF For
  <2>3. m.to = t <=> 1 \in For(q, t)
    BY <2>1 DEF For
  <2>4. m.to # t => \A i \in For(q, t) : i - 1 \in For(r, t)
    <3> SUFFICES ASSUME m.to # t, NEW i \in For(q, t) PROVE i - 1 \in For(r, t)
      OBVIOUS
    <3>1. i \in 1..Len(q) /\ i # 1 /\ q[i].to = t
      BY <2>1 DEF For
    <3>2. i - 1 \in 1..Len(r) /\ (i - 1) + 1 = i
      BY <2>1, <3>1
    <3> QED
      BY <2>1, <3>1, <3>2 DEF For
  <2> HIDE DEF q, r
  <2>5. AtMostOne(For(r, t)) /\ \A i \in For(r, t) : r[i].n = 1
    <3>1. ASSUME NEW i \in For(r, t), NEW j \in For(r, t) PROVE i = j
      <4>1. i + 1 = j + 1 /\ i \in Nat /\ j \in Nat
        BY <1>0, <2>2 DEF Sending, AtMostOne, q
      <4> QED
        BY <4>1
    <3> QED
      BY <1>0, <2>2, <3>1 DEF Sending, AtMostOne, q
  <2>6. For(q, t) = {} => For(r, t) = {}
    BY <2>2
  <2>7. Sending(t, s)'
    BY <1>0, <1>3, <2>5, <2>6 DEF Sending, q, r
  <2>8. CASE m.to = t
    <3>1. For(r, t) = {} /\ m.n = 1
      <4>1. ASSUME NEW i \in For(r, t) PROVE FALSE
        <5>1. i + 1 = 1 /\ i \in Nat \ {0}
          BY <1>0, <2>2, <2>3, <2>8 DEF Sending, AtMostOne, q
        <5> QED
          BY <5>1
      <4> QED
        BY <1>0, <2>1, <2>3, <2>8, <4>1 DEF Sending, q
    <3>2. ~Gone(t, s) /\ Gone(t, s)' /\ P2PMsgs'[t][s] = 1
      BY <1>0, <1>3, <1>4, <1>6, <2>3, <2>8, <3>1 DEF Gone, Sending, q, r
    <3> QED
      BY <1>0, <1>3, <2>7, <3>2 DEF Holding, Requeuing, Got
  <2>9. CASE m.to # t
    <3>1. Gone(t, s)' = Gone(t, s) /\ P2PMsgs'[t][s] = P2PMsgs[t][s]
      BY <1>3, <1>4, <2>4, <2>6, <2>9 DEF Gone, q, r
    <3> QED
      BY <1>0, <1>3, <2>7, <3>1 DEF Holding, Requeuing, Got
  <2> QED
    BY <2>8, <2>9
<1> QED
  BY <1>5, <1>6

(* A step of the receiving side leaves the sending side alone.             *)
LEMMA SendingIdle ==
  ASSUME NEW t \in Parties, NEW s \in Parties, Sending(t, s), UNCHANGED <<sent, SendChannel>>
  PROVE  Sending(t, s)' /\ Gone(t, s)' = Gone(t, s)
BY DEF Sending, Gone

LEMMA HoldingIdle ==
  ASSUME NEW t \in Parties, NEW s \in Parties, Holding(t, s), UNCHANGED <<sent, SendChannel>>,
         UNCHANGED <<P2PMsgs[t][s], result[t][s], returned[t][s], ReceiveChannel[t], op[t]>>
  PROVE  Holding(t, s)'
BY DEF Holding, Requeuing, Gone, Got

(* The steps of the receivers and of DeliverP2PMessages.                   *)
LEMMA OnceLookup ==
  ASSUME TypeInv, OnceInv, NEW a \in Parties, NEW b \in Parties, Lookup(a, b),
         NEW t \in Parties, NEW s \in Parties
  PROVE  HandOnce(t)' /\ Holding(t, s)'
<1>0. HandOnce(t) /\ Holding(t, s) /\ Holding(a, b) /\ HandOnce(a)
  BY DEF OnceInv
<1>1. UNCHANGED <<sent, SendChannel, P2PMsgs, result, returned, ReceiveChannel>> /\ op[a].pc = "idle"
  BY DEF Lookup
<1>2. CASE t # a
  <2>1. op'[t] = op[t]
    BY <1>2 DEF Lookup, TypeInv, TypeOK
  <2> QED
    BY <1>0, <1>1, <2>1, HoldingIdle DEF HandOnce
<1>3. CASE t = a
  <2>1. op'[t] = IF P2PMsgs[t][b] # 0 THEN [pc |-> "delete", from |-> b, n |-> P2PMsgs[t][b]]
                 ELSE [pc |-> "poll", from |-> b, n |-> 0]
    BY <1>3 DEF Lookup, TypeInv, TypeOK
  <2>2. op[t].n = 0 /\ P2PMsgs[t][b] \in {0, 1}
    BY <1>0, <1>1, <1>3 DEF HandOnce, Holding
  <2>3. HandOnce(t)'
    BY <1>0, <1>1, <1>3, <2>1, <2>2 DEF HandOnce
  <2>4. ~Requeuing(t, s) /\ ~Requeuing(t, s)'
    BY <1>1, <1>3, <2>1 DEF Requeuing
  <2>5. Holding(t, s)'
    BY <1>0, <1>1, <2>2, <2>4 DEF Holding, Gone, Got
  <2> QED
    BY <2>3, <2>5
<1> QED
  BY <1>2, <1>3

\* Appending 1 to what was returned keeps what was, and has 1.
LEMMA ReturnedMore ==
  ASSUME NEW q \in Seq(Number), NEW n \in Number
  PROVE  /\ \E i \in 1..Len(Append(q, n)) : Append(q, n)[i] = n
         /\ (\E i \in 1..Len(q) : q[i] = 1) => \E i \in 1..Len(Append(q, n)) : Append(q, n)[i] = 1
<1>1. /\ Len(q) \in Nat /\ Len(Append(q, n)) = Len(q) + 1 /\ Append(q, n)[Len(q) + 1] = n
      /\ \A i \in 1..Len(q) : Append(q, n)[i] = q[i]
  BY AppendProperties, LenProperties
<1>2. Len(q) + 1 \in 1..Len(Append(q, n)) /\ \A i \in 1..Len(q) : i \in 1..Len(Append(q, n))
  BY <1>1
<1> QED
  BY <1>1, <1>2

LEMMA OnceDelete ==
  ASSUME TypeInv, OnceInv, NEW a \in Parties, Delete(a), NEW t \in Parties, NEW s \in Parties
  PROVE  HandOnce(t)' /\ Holding(t, s)'
<1>0. HandOnce(t) /\ Holding(t, s)
  BY DEF OnceInv
<1>1. /\ UNCHANGED <<sent, SendChannel, result, ReceiveChannel>> /\ op[a].pc = "delete"
      /\ op' = [op EXCEPT ![a] = Idle(a)]
      /\ P2PMsgs' = [P2PMsgs EXCEPT ![a][op[a].from] = 0]
      /\ returned' = [returned EXCEPT ![a][op[a].from] = Append(@, op[a].n)]
  BY DEF Delete, Return
<1>2. op[a].from \in Parties /\ op[a].n # 0 /\ op[a].n \in Number
  BY <1>1 DEF TypeInv, TypeOK, HandsFull, Call, Number
<1>3. op'[t] = IF t = a THEN Idle(a) ELSE op[t]
  BY <1>1 DEF TypeInv, TypeOK
<1>4. CASE t # a
  <2>1. UNCHANGED <<P2PMsgs[t], returned[t], op[t]>>
    BY <1>1, <1>2, <1>3, <1>4 DEF TypeInv, TypeOK
  <2> QED
    BY <1>0, <1>1, <2>1, HoldingIdle DEF HandOnce
<1>5. CASE t = a
  <2>1. HandOnce(t)' /\ ~Requeuing(t, s) /\ ~Requeuing(t, s)' /\ op'[t].n = 0 /\ op[t].n = 1
    BY <1>0, <1>1, <1>2, <1>3, <1>5 DEF HandOnce, Requeuing, Idle
  <2>2. CASE s # op[a].from
    <3>1. UNCHANGED <<P2PMsgs[t][s], returned[t][s]>>
      BY <1>1, <1>2, <1>5, <2>2 DEF TypeInv, TypeOK
    <3>2. Got(t, s) => Got(t, s)'
      BY <1>1, <1>5, <2>2, <3>1 DEF Got
    <3> QED
      BY <1>0, <1>1, <2>1, <3>1, <3>2 DEF Holding, Gone
  <2>3. CASE s = op[a].from
    <3>1. P2PMsgs'[t][s] = 0 /\ returned'[t][s] = Append(returned[t][s], 1) /\ 1 \in Number
          /\ returned[t][s] \in Seq(Number)
      BY <1>1, <1>2, <1>5, <2>1, <2>3 DEF TypeInv, TypeOK
    <3>3. \E i \in 1..Len(returned'[t][s]) : returned'[t][s][i] = 1
      BY <3>1, ReturnedMore
    <3>2. Got(t, s)'
      BY <3>3 DEF Got
    <3> QED
      BY <1>0, <1>1, <2>1, <3>1, <3>2 DEF Holding, Gone
  <2> QED
    BY <2>1, <2>2, <2>3
<1> QED
  BY <1>4, <1>5

LEMMA OncePoll ==
  ASSUME TypeInv, OnceInv, NEW a \in Parties, Poll(a), NEW t \in Parties, NEW s \in Parties
  PROVE  HandOnce(t)' /\ Holding(t, s)'
<1>0. HandOnce(t) /\ Holding(t, s)
  BY DEF OnceInv
<1>1. UNCHANGED <<sent, SendChannel, P2PMsgs, result>> /\ op[a].pc = "poll"
  BY DEF Poll
<1>2. CASE ReceiveChannel[a] = <<>>
  <2>1. UNCHANGED <<ReceiveChannel, returned>> /\ op'[t] = IF t = a THEN Idle(a) ELSE op[t]
    BY <1>2 DEF Poll, TypeInv, TypeOK
  <2>2. HandOnce(t)'
    BY <1>0, <1>1, <2>1 DEF HandOnce, Idle
  <2>3. CASE t = a
    <3>1. op[t].n = 0 /\ ~Requeuing(t, s) /\ ~Requeuing(t, s)'
      BY <1>0, <1>1, <2>1, <2>3 DEF HandOnce, Requeuing, Idle
    <3> QED
      BY <1>0, <1>1, <2>1, <2>2, <3>1 DEF Holding, Gone, Got
  <2>4. CASE t # a
    BY <1>0, <1>1, <2>1, <2>2, <2>4, HoldingIdle
  <2> QED
    BY <2>3, <2>4
<1>3. CASE ReceiveChannel[a] # <<>>
  <2>0. ReceiveChannel[a] \in Seq(Packet)
    BY DEF TypeInv, TypeOK
  <2>1. PICK m \in Packet : m = Head(ReceiveChannel[a])
    BY <1>3, <2>0, HeadTail
  <2>2. m.from \in Parties /\ m.n \in Number
    BY DEF Packet
  <2>3. /\ ReceiveChannel' = [ReceiveChannel EXCEPT ![a] = Tail(@)]
        /\ IF m.from = op[a].from THEN Return(a, m.from, m.n)
           ELSE /\ op' = [op EXCEPT ![a] = [pc |-> "requeue", from |-> m.from, n |-> m.n]]
                /\ UNCHANGED returned
    BY <1>3, <2>1 DEF Poll
  <2>4. CASE t # a
    <3>1. UNCHANGED <<ReceiveChannel[t], returned[t], op[t]>>
      BY <2>2, <2>3, <2>4 DEF Return, TypeInv, TypeOK
    <3> QED
      BY <1>0, <1>1, <3>1, HoldingIdle DEF HandOnce
  <2>5. CASE t = a
    <3>0. ReceiveChannel'[t] = Tail(ReceiveChannel[t]) /\ op[t].n = 0 /\ ~Requeuing(t, s)
          /\ result[t] = NoMessages
      BY <1>0, <1>1, <2>3, <2>5 DEF TypeInv, TypeOK, HandOnce, Requeuing
    <3>1. /\ AtMostOne(Froms(ReceiveChannel'[t], s))
          /\ \A i \in Froms(ReceiveChannel'[t], s) : ReceiveChannel'[t][i].n = 1
          /\ m.from = s => Froms(ReceiveChannel'[t], s) = {} /\ m.n = 1 /\ Froms(ReceiveChannel[t], s) # {}
          /\ m.from # s => (Froms(ReceiveChannel'[t], s) = {} <=> Froms(ReceiveChannel[t], s) = {})
      <4>1. AtMostOne(Froms(ReceiveChannel[t], s)) /\ \A i \in Froms(ReceiveChannel[t], s) : ReceiveChannel[t][i].n = 1
        BY <1>0 DEF Holding
      <4>2. ReceiveChannel[t] \in Seq(Packet) /\ ReceiveChannel[t] # <<>> /\ m = Head(ReceiveChannel[t])
        BY <1>3, <2>0, <2>1, <2>5
      <4>3. PICK q \in Seq(Packet) : q = ReceiveChannel[t]
        BY <4>2
      <4>4. AtMostOne(Froms(q, s)) /\ (\A i \in Froms(q, s) : q[i].n = 1) /\ q # <<>>
        BY <4>1, <4>2, <4>3
      <4>5. /\ AtMostOne(Froms(Tail(q), s)) /\ \A i \in Froms(Tail(q), s) : Tail(q)[i].n = 1
            /\ Head(q).from = s => Froms(Tail(q), s) = {} /\ Head(q).n = 1 /\ Froms(q, s) # {}
            /\ Head(q).from # s => (Froms(Tail(q), s) = {} <=> Froms(q, s) = {})
        BY <4>4, Popped
      <4> QED
        BY <3>0, <4>2, <4>3, <4>5
    <3>2. Holding(t, m.from) /\ m.n = 1
      <4>1. Holding(t, m.from)
        BY <2>2 DEF OnceInv
      <4> QED
        BY <1>3, <2>0, <2>1, <2>5, <4>1, Popped DEF Holding
    <3>3. CASE m.from = op[a].from
      <4>1. op'[t] = Idle(t) /\ returned' = [returned EXCEPT ![t][m.from] = Append(@, 1)]
        BY <2>3, <2>5, <3>2, <3>3 DEF Return, TypeInv, TypeOK
      <4>2. HandOnce(t)' /\ ~Requeuing(t, s)' /\ op'[t].n = 0
        BY <1>1, <3>0, <4>1 DEF HandOnce, Requeuing, Idle
      <4>3. returned[t][s] \in Seq(Number) /\ 1 \in Number
        BY <2>2, <3>2 DEF TypeInv, TypeOK
      <4>4. CASE m.from = s
        <5>1. returned'[t][s] = Append(returned[t][s], 1)
          BY <2>2, <4>1, <4>4 DEF TypeInv, TypeOK
        <5>3. \E i \in 1..Len(returned'[t][s]) : returned'[t][s][i] = 1
          BY <4>3, <5>1, ReturnedMore
        <5>2. Got(t, s)'
          BY <5>3 DEF Got
        <5> QED
          BY <1>0, <1>1, <3>1, <4>2, <4>4, <5>2 DEF Holding, Gone
      <4>5. CASE m.from # s
        <5>1. returned'[t][s] = returned[t][s]
          BY <2>2, <4>1, <4>5 DEF TypeInv, TypeOK
        <5>2. Got(t, s) => Got(t, s)'
          BY <1>1, <3>0, <3>1, <4>5, <5>1 DEF Got
        <5> QED
          BY <1>0, <1>1, <3>0, <3>1, <4>2, <4>5, <5>2 DEF Holding, Gone
      <4> QED
        BY <4>4, <4>5
    <3>4. CASE m.from # op[a].from
      <4>1. op'[t] = [pc |-> "requeue", from |-> m.from, n |-> 1] /\ returned' = returned
        BY <2>3, <2>5, <3>2, <3>4 DEF TypeInv, TypeOK
      <4>2. HandOnce(t)' /\ (Requeuing(t, s)' <=> m.from = s)
        BY <1>1, <3>0, <4>1 DEF HandOnce, Requeuing
      <4>3. CASE m.from = s
        <5>1. Got(t, s)' /\ P2PMsgs[t][s] # 1
          BY <1>0, <3>1, <4>1, <4>3 DEF Got, Holding
        <5> QED
          BY <1>0, <1>1, <3>1, <4>2, <4>3, <5>1 DEF Holding, Gone
      <4>4. CASE m.from # s
        <5>1. Got(t, s) => Got(t, s)'
          BY <1>1, <3>0, <3>1, <4>1, <4>4 DEF Got
        <5> QED
          BY <1>0, <1>1, <3>0, <3>1, <4>2, <4>4, <5>1 DEF Holding, Gone
      <4> QED
        BY <4>3, <4>4
    <3> QED
      BY <3>3, <3>4
  <2> QED
    BY <2>4, <2>5
<1> QED
  BY <1>2, <1>3

\* A message of s that is put into the ReceiveChannel of t, which has none of s.
LEMMA OncePut ==
  ASSUME RoomForAll, TypeInv, OnceInv, NEW a \in Parties, NEW b \in Parties,
         Gone(a, b), Froms(ReceiveChannel[a], b) = {}, Put(a, [from |-> b, n |-> 1]),
         NEW t \in Parties, NEW s \in Parties
  PROVE  /\ t # a => ReceiveChannel'[t] = ReceiveChannel[t]
         /\ AtMostOne(Froms(ReceiveChannel'[t], s))
         /\ \A i \in Froms(ReceiveChannel'[t], s) : ReceiveChannel'[t][i].n = 1
         /\ t = a /\ s = b => Froms(ReceiveChannel'[t], s) # {}
         /\ ~(t = a /\ s = b) => (Froms(ReceiveChannel'[t], s) = {} <=> Froms(ReceiveChannel[t], s) = {})
<1> DEFINE q == ReceiveChannel[a]
           m == [from |-> b, n |-> 1]
<1>1. q \in Seq(Packet) /\ m \in Packet
  <2>1. ReceiveChannel \in [Parties -> Seq(Packet)]
    BY DEF TypeInv, TypeOK
  <2>2. m \in Packet
    BY DEF Packet, Number
  <2> QED
    BY <2>1, <2>2
<1>2. Len(q) < RecvCap
  <2>1. b \in Senders(a)
    BY DEF Gone, OnceInv, Sending, Senders
  <2>2. ASSUME NEW r \in Parties PROVE AtMostOne(Froms(q, r)) /\ (Froms(q, r) # {} => r \in Senders(a))
    <3>1. Holding(a, r) /\ Sending(a, r)
      BY DEF OnceInv
    <3> QED
      BY <3>1 DEF Holding, Sending, Gone, Senders
  <2> QED
    BY <1>1, <2>1, <2>2, HasRoom
<1>3. ReceiveChannel' = [ReceiveChannel EXCEPT ![a] = Append(@, m)]
  BY <1>2 DEF Put
<1>4. AtMostOne(Froms(ReceiveChannel[t], s)) /\ \A i \in Froms(ReceiveChannel[t], s) : ReceiveChannel[t][i].n = 1
  BY DEF OnceInv, Holding
<1>5. CASE t # a
  <2>1. ReceiveChannel'[t] = ReceiveChannel[t]
    BY <1>3, <1>5 DEF TypeInv, TypeOK
  <2> QED
    BY <1>4, <1>5, <2>1
<1>6. CASE t = a
  <2>1. ReceiveChannel'[t] = Append(q, m) /\ m.from = b /\ m.n = 1
    BY <1>3, <1>6 DEF TypeInv, TypeOK
  <2> HIDE DEF q, m
  <2>2. Froms(q, m.from) = {} /\ AtMostOne(Froms(q, s)) /\ \A i \in Froms(q, s) : q[i].n = 1
    BY <1>4, <1>6, <2>1 DEF q
  <2>3. /\ AtMostOne(Froms(Append(q, m), s)) /\ \A i \in Froms(Append(q, m), s) : Append(q, m)[i].n = 1
        /\ m.from = s => Froms(Append(q, m), s) # {}
        /\ m.from # s => (Froms(Append(q, m), s) = {} <=> Froms(q, s) = {})
    BY <1>1, <2>1, <2>2, Pushed
  <2> QED
    BY <1>6, <2>1, <2>3 DEF q
<1> QED
  BY <1>5, <1>6

LEMMA OnceRequeue ==
  ASSUME RoomForAll, TypeInv, OnceInv, NEW a \in Parties, Requeue(a), NEW t \in Parties, NEW s \in Parties
  PROVE  HandOnce(t)' /\ Holding(t, s)'
<1> DEFINE b == op[a].from
<1>0. HandOnce(t) /\ Holding(t, s) /\ HandOnce(a)
  BY DEF OnceInv
<1>1. /\ UNCHANGED <<sent, SendChannel, P2PMsgs, result, returned>> /\ op[a].pc = "requeue"
      /\ op'[t] = IF t = a THEN Idle(a) ELSE op[t]
  BY DEF Requeue, TypeInv, TypeOK
<1>2. b \in Parties /\ op[a].n = 1 /\ Put(a, [from |-> b, n |-> 1])
  BY <1>0, <1>1 DEF Requeue, TypeInv, TypeOK, HandsFull, HandOnce, Call
<1>3. Requeuing(a, b) /\ Holding(a, b)
  BY <1>1, <1>2 DEF Requeuing, OnceInv
<1> HIDE DEF b
<1>4. Gone(a, b) /\ Froms(ReceiveChannel[a], b) = {} /\ P2PMsgs[a][b] # 1
  BY <1>3 DEF Holding
<1>5. /\ t # a => ReceiveChannel'[t] = ReceiveChannel[t]
      /\ AtMostOne(Froms(ReceiveChannel'[t], s))
      /\ \A i \in Froms(ReceiveChannel'[t], s) : ReceiveChannel'[t][i].n = 1
      /\ t = a /\ s = b => Froms(ReceiveChannel'[t], s) # {}
      /\ ~(t = a /\ s = b) => (Froms(ReceiveChannel'[t], s) = {} <=> Froms(ReceiveChannel[t], s) = {})
  BY <1>2, <1>4, OncePut
<1>6. CASE t # a
  BY <1>0, <1>1, <1>5, <1>6, HoldingIdle DEF HandOnce
<1>7. CASE t = a
  <2>1. HandOnce(t)' /\ ~Requeuing(t, s)' /\ (Requeuing(t, s) <=> s = b)
    BY <1>0, <1>1, <1>7 DEF HandOnce, Requeuing, Idle, b
  <2>2. CASE s = b
    <3>1. Got(t, s)' /\ P2PMsgs'[t][s] # 1 /\ Gone(t, s)'
      BY <1>1, <1>4, <1>5, <1>7, <2>2 DEF Got, Gone
    <3> QED
      BY <1>0, <1>1, <1>5, <2>1, <3>1 DEF Holding
  <2>3. CASE s # b
    <3>1. Got(t, s) => Got(t, s)'
      BY <1>1, <1>5, <1>7, <2>3 DEF Got, b
    <3> QED
      BY <1>0, <1>1, <1>5, <1>7, <2>1, <2>3, <3>1 DEF Holding, Gone
  <2> QED
    BY <2>2, <2>3
<1> QED
  BY <1>6, <1>7

LEMMA OncePush ==
  ASSUME RoomForAll, TypeInv, OnceInv, NEW a \in Parties, NEW b \in Parties, DeliverPush(a, b),
         NEW t \in Parties, NEW s \in Parties
  PROVE  HandOnce(t)' /\ Holding(t, s)'
<1>0. HandOnce(t) /\ Holding(t, s) /\ Holding(a, b)
  BY DEF OnceInv
<1>1. /\ UNCHANGED <<sent, SendChannel, op, result, returned>>
      /\ P2PMsgs'[t][s] = IF t = a /\ s = b THEN 0 ELSE P2PMsgs[t][s]
  BY DEF DeliverPush, TypeInv, TypeOK
<1>2. P2PMsgs[a][b] = 1 /\ Put(a, [from |-> b, n |-> 1])
  BY <1>0 DEF DeliverPush, TypeInv, FlushFull, Holding
<1>3. Gone(a, b) /\ Froms(ReceiveChannel[a], b) = {} /\ ~Requeuing(a, b)
  BY <1>0, <1>2 DEF Holding
<1>4. /\ t # a => ReceiveChannel'[t] = ReceiveChannel[t]
      /\ AtMostOne(Froms(ReceiveChannel'[t], s))
      /\ \A i \in Froms(ReceiveChannel'[t], s) : ReceiveChannel'[t][i].n = 1
      /\ t = a /\ s = b => Froms(ReceiveChannel'[t], s) # {}
      /\ ~(t = a /\ s = b) => (Froms(ReceiveChannel'[t], s) = {} <=> Froms(ReceiveChannel[t], s) = {})
  BY <1>2, <1>3, OncePut
<1>5. HandOnce(t)' /\ (Requeuing(t, s)' <=> Requeuing(t, s)) /\ (Gone(t, s)' <=> Gone(t, s))
  BY <1>0, <1>1 DEF HandOnce, Requeuing, Gone
<1>6. CASE t = a /\ s = b
  <2>1. Got(t, s)' /\ P2PMsgs'[t][s] = 0
    BY <1>1, <1>4, <1>6 DEF Got
  <2> QED
    BY <1>0, <1>1, <1>3, <1>4, <1>5, <1>6, <2>1 DEF Holding
<1>7. CASE ~(t = a /\ s = b)
  <2>1. Got(t, s) => Got(t, s)'
    BY <1>1, <1>4, <1>7 DEF Got
  <2> QED
    BY <1>0, <1>1, <1>4, <1>5, <1>7, <2>1 DEF Holding
<1> QED
  BY <1>6, <1>7

LEMMA OnceTake ==
  ASSUME TypeInv, OnceInv, NEW a \in Parties, Take(a), NEW t \in Parties, NEW s \in Parties
  PROVE  HandOnce(t)' /\ Holding(t, s)'
<1>0. HandOnce(t) /\ Holding(t, s)
  BY DEF OnceInv
<1>1. UNCHANGED <<sent, SendChannel, returned, ReceiveChannel>> /\ op[a].pc = "idle"
  BY DEF Take
<1>2. CASE t # a
  <2>1. UNCHANGED <<P2PMsgs[t], result[t], op[t]>>
    BY <1>2 DEF Take, TypeInv, TypeOK
  <2> QED
    BY <1>0, <1>1, <2>1, HoldingIdle DEF HandOnce
<1>3. CASE t = a
  <2>1. /\ op'[t] = [pc |-> "drain", from |-> t, n |-> 0]
        /\ result'[t] = P2PMsgs[t] /\ P2PMsgs'[t] = NoMessages
    BY <1>3 DEF Take, TypeInv, TypeOK
  <2>2. op[t].n = 0 /\ result[t][s] = 0 /\ P2PMsgs'[t][s] = 0
    BY <1>0, <1>1, <1>3, <2>1 DEF HandOnce, NoMessages
  <2>3. HandOnce(t)' /\ ~Requeuing(t, s) /\ ~Requeuing(t, s)'
    BY <1>1, <1>3, <2>1 DEF HandOnce, Requeuing
  <2>4. Got(t, s) => Got(t, s)'
    BY <1>1, <2>1, <2>2 DEF Got
  <2> QED
    BY <1>0, <1>1, <2>1, <2>2, <2>3, <2>4 DEF Holding, Gone
<1> QED
  BY <1>2, <1>3

LEMMA OnceDrain ==
  ASSUME TypeInv, OnceInv, NEW a \in Parties, Drain(a), NEW t \in Parties, NEW s \in Parties
  PROVE  HandOnce(t)' /\ Holding(t, s)'
<1>0. HandOnce(t) /\ Holding(t, s)
  BY DEF OnceInv
<1>1. UNCHANGED <<sent, SendChannel, P2PMsgs, op, returned>> /\ op[a].pc = "drain" /\ ReceiveChannel[a] # <<>>
  BY DEF Drain
<1>2. ReceiveChannel[a] \in Seq(Packet)
  BY DEF TypeInv, TypeOK
<1>3. PICK m \in Packet : m = Head(ReceiveChannel[a])
  BY <1>1, <1>2, HeadTail
<1>4. /\ result'[t] = IF t = a THEN [result[t] EXCEPT ![m.from] = m.n] ELSE result[t]
      /\ ReceiveChannel'[t] = IF t = a THEN Tail(ReceiveChannel[t]) ELSE ReceiveChannel[t]
  BY <1>3 DEF Drain, TypeInv, TypeOK
<1>5. CASE t # a
  BY <1>0, <1>1, <1>4, <1>5, HoldingIdle DEF HandOnce
<1>6. CASE t = a
  <2>0. AtMostOne(Froms(ReceiveChannel[t], s)) /\ \A i \in Froms(ReceiveChannel[t], s) : ReceiveChannel[t][i].n = 1
    BY <1>0 DEF Holding
  <2>1. /\ AtMostOne(Froms(ReceiveChannel'[t], s))
        /\ \A i \in Froms(ReceiveChannel'[t], s) : ReceiveChannel'[t][i].n = 1
        /\ m.from = s => Froms(ReceiveChannel'[t], s) = {} /\ m.n = 1 /\ Froms(ReceiveChannel[t], s) # {}
        /\ m.from # s => (Froms(ReceiveChannel'[t], s) = {} <=> Froms(ReceiveChannel[t], s) = {})
    <3>1. ReceiveChannel'[t] = Tail(ReceiveChannel[t]) /\ m = Head(ReceiveChannel[t])
          /\ ReceiveChannel[t] \in Seq(Packet) /\ ReceiveChannel[t] # <<>>
      BY <1>1, <1>2, <1>3, <1>4, <1>6
    <3>3. PICK q \in Seq(Packet) : q = ReceiveChannel[t]
      BY <3>1
    <3>4. AtMostOne(Froms(q, s)) /\ (\A i \in Froms(q, s) : q[i].n = 1) /\ q # <<>>
      BY <2>0, <3>1, <3>3
    <3>5. /\ AtMostOne(Froms(Tail(q), s)) /\ \A i \in Froms(Tail(q), s) : Tail(q)[i].n = 1
          /\ Head(q).from = s => Froms(Tail(q), s) = {} /\ Head(q).n = 1 /\ Froms(q, s) # {}
          /\ Head(q).from # s => (Froms(Tail(q), s) = {} <=> Froms(q, s) = {})
      BY <3>4, Popped
    <3> QED
      BY <3>1, <3>3, <3>5
  <2>2. HandOnce(t)' /\ ~Requeuing(t, s) /\ ~Requeuing(t, s)' /\ (Gone(t, s)' <=> Gone(t, s))
    BY <1>0, <1>1, <1>6 DEF HandOnce, Requeuing, Gone
  <2>3. result'[t][s] = IF m.from = s THEN 1 ELSE result[t][s]
    BY <1>4, <1>6, <2>1 DEF TypeInv, TypeOK
  <2>4. Got(t, s) => Got(t, s)'
    BY <1>1, <2>1, <2>3 DEF Got
  <2> QED
    BY <1>0, <1>1, <2>1, <2>2, <2>3, <2>4 DEF Holding
<1> QED
  BY <1>5, <1>6

LEMMA OnceReturnAll ==
  ASSUME TypeInv, OnceInv, NEW a \in Parties, ReturnAll(a), NEW t \in Parties, NEW s \in Parties
  PROVE  HandOnce(t)' /\ Holding(t, s)'
<1>0. HandOnce(t) /\ Holding(t, s)
  BY DEF OnceInv
<1>1. UNCHANGED <<sent, SendChannel, P2PMsgs, ReceiveChannel>> /\ op[a].pc = "drain"
  BY DEF ReturnAll
<1>2. CASE t # a
  <2>1. UNCHANGED <<returned[t], result[t], op[t]>>
    BY <1>2 DEF ReturnAll, TypeInv, TypeOK
  <2> QED
    BY <1>0, <1>1, <2>1, HoldingIdle DEF HandOnce
<1>3. CASE t = a
  <2>1. /\ op'[t] = Idle(t) /\ result'[t] = NoMessages
        /\ returned'[t][s] = IF result[t][s] = 0 THEN returned[t][s]
                             ELSE Append(returned[t][s], result[t][s])
    BY <1>3 DEF ReturnAll, TypeInv, TypeOK
  <2>2. HandOnce(t)' /\ ~Requeuing(t, s) /\ ~Requeuing(t, s)' /\ op[t].n = 0 /\ (Gone(t, s)' <=> Gone(t, s))
    BY <1>0, <1>1, <1>3, <2>1 DEF HandOnce, Requeuing, Idle, Gone
  <2>3. returned[t][s] \in Seq(Number) /\ 1 \in Number /\ result[t][s] \in {0, 1}
    BY <1>0 DEF TypeInv, TypeOK, Number, Holding
  <2>4. Got(t, s) => Got(t, s)'
    <3>1. CASE result[t][s] = 0
      BY <1>1, <2>1, <2>2, <3>1 DEF Got
    <3>2. CASE result[t][s] = 1
      <4>1. \E i \in 1..Len(returned'[t][s]) : returned'[t][s][i] = 1
        BY <2>1, <2>3, <3>2, ReturnedMore
      <4> QED
        BY <4>1 DEF Got
    <3> QED
      BY <2>3, <3>1, <3>2
  <2>5. result'[t][s] = 0
    BY <2>1 DEF NoMessages
  <2> QED
    BY <1>0, <1>1, <2>2, <2>4, <2>5 DEF Holding
<1> QED
  BY <1>2, <1>3

LEMMA OnceStep ==
  ASSUME MaxSends = 1, RoomForAll, TypeInv, OnceInv, [Next]_vars
  PROVE  OnceInv'
<1> SUFFICES ASSUME NEW t \in Parties, NEW s \in Parties
             PROVE  HandOnce(t)' /\ Sending(t, s)' /\ Holding(t, s)'
  BY DEF OnceInv
<1>0. HandOnce(t) /\ Sending(t, s) /\ Holding(t, s)
  BY DEF OnceInv
<1>1. ASSUME NEW a \in Parties, NEW b \in Parties, SendTo(a, b)
      PROVE  HandOnce(t)' /\ Sending(t, s)' /\ Holding(t, s)'
  BY <1>0, <1>1, OnceSend DEF SendTo, HandOnce
<1>2. ASSUME NEW a \in Parties, Relay(a) PROVE HandOnce(t)' /\ Sending(t, s)' /\ Holding(t, s)'
  BY <1>0, <1>2, OnceRelay DEF Relay, HandOnce
<1>3. ASSUME NEW a \in Parties, Delete(a) \/ Poll(a) \/ Requeue(a) \/ Take(a) \/ Drain(a) \/ ReturnAll(a)
      PROVE  HandOnce(t)' /\ Sending(t, s)' /\ Holding(t, s)'
  <2>1. UNCHANGED <<sent, SendChannel>>
    BY <1>3 DEF Delete, Poll, Requeue, Take, Drain, ReturnAll
  <2> QED
    BY <1>0, <1>3, <2>1, SendingIdle, OnceDelete, OncePoll, OnceRequeue, OnceTake, OnceDrain, OnceReturnAll
<1>4. ASSUME NEW a \in Parties, NEW b \in Parties, Lookup(a, b) \/ DeliverPush(a, b)
      PROVE  HandOnce(t)' /\ Sending(t, s)' /\ Holding(t, s)'
  <2>1. UNCHANGED <<sent, SendChannel>>
    BY <1>4 DEF Lookup, DeliverPush
  <2> QED
    BY <1>0, <1>4, <2>1, SendingIdle, OnceLookup, OncePush
<1>5. ASSUME UNCHANGED <<sent, SendChannel, P2PMsgs, ReceiveChannel, op, result, returned>>
      PROVE  HandOnce(t)' /\ Sending(t, s)' /\ Holding(t, s)'
  BY <1>0, <1>5, SendingIdle, HoldingIdle DEF HandOnce
<1>6. ASSUME NEW a \in Parties, AddP2PChannel(a)
      PROVE  UNCHANGED <<sent, SendChannel, P2PMsgs, ReceiveChannel, op, result, returned>>
  BY <1>6 DEF AddP2PChannel
<1>7. DeliverBegin \/ DeliverEnd \/ UNCHANGED vars
      => UNCHANGED <<sent, SendChannel, P2PMsgs, ReceiveChannel, op, result, returned>>
  BY DEF DeliverBegin, DeliverEnd, vars
<1> QED
  BY <1>1, <1>2, <1>3, <1>4, <1>5, <1>6, <1>7 DEF Next, Party

LEMMA OnceSurvives == TypeInv /\ OnceInv => NewestRelayedSurvives
<1> SUFFICES ASSUME TypeInv, OnceInv, NEW t \in Parties, NEW s \in Parties, NewestRelayed(t, s) # 0
             PROVE  HasReached(t, s, NewestRelayed(t, s))
  BY DEF NewestRelayedSurvives, Survives
<1>0. Sending(t, s) /\ Holding(t, s) /\ SendChannel[s] \in Seq(Message)
  BY LinkTypes DEF OnceInv
<1>1. NewestRelayed(t, s) = Newest(SendChannel[s], t, sent[s][t])
  BY KeptSurvives DEF LinkNewest
<1>2. For(SendChannel[s], t) = {}
  <2>1. ASSUME NEW i \in For(SendChannel[s], t) PROVE FALSE
    <3>1. (\A j \in For(SendChannel[s], t) : i <= j) /\ SendChannel[s][i].n = 1
      BY <1>0, <2>1 DEF Sending, AtMostOne, For
    <3>2. Newest(SendChannel[s], t, sent[s][t]) = 1 - 1
      BY <1>0, <3>1, NewestIs
    <3> QED
      BY <1>1, <3>2
  <2> QED
    BY <2>1
<1>3. NewestRelayed(t, s) = 1 /\ Gone(t, s)
  BY <1>0, <1>1, <1>2 DEF Newest, Sending, Gone
<1>4. Got(t, s)
  BY <1>0, <1>3 DEF Holding
<1>5. ASSUME NEW i \in Froms(ReceiveChannel[t], s)
      PROVE  i \in 1..Len(ReceiveChannel[t]) /\ ReceiveChannel[t][i] = [from |-> s, n |-> 1]
  <2>1. i \in 1..Len(ReceiveChannel[t]) /\ ReceiveChannel[t][i] \in Packet
    BY ElementOfSeq DEF Froms, TypeInv, TypeOK
  <2>2. ReceiveChannel[t][i].from = s /\ ReceiveChannel[t][i].n = 1
    BY <1>0 DEF Froms, Holding
  <2> QED
    BY <2>1, <2>2 DEF Packet
<1> QED
  BY <1>3, <1>4, <1>5 DEF Got, HasReached

(* A message for each link, as the protocols' rounds use the channels,     *)
(* survives any mix of ReceiveFrom, ReceiveAll and DeliverP2PMessages as   *)
(* long as the ReceiveChannels have room for one of every sender.          *)
THEOREM SurvivesSingle == MaxSends = 1 /\ RoomForAll => (Spec => []NewestRelayedSurvives)
<1> SUFFICES ASSUME MaxSends = 1, RoomForAll PROVE Spec => []NewestRelayedSurvives
  OBVIOUS
<1>1. TypeInv /\ OnceInv /\ [Next]_vars => OnceInv'
  BY OnceStep
<1> QED
  BY <1>1, OnceSurvives, OnceInit, TypeInvariant, PTL DEF Spec
=============================================================================
