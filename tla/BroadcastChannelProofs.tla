------------------------ MODULE BroadcastChannelProofs ------------------------
(***************************************************************************)
(* Types and promptness of BroadcastChannel, and that its channels, with   *)
(* collecting goroutines and one push at a time, implement the one         *)
(* sequence of rounds of AtomicRounds.                                     *)
(***************************************************************************)
EXTENDS BroadcastChannel, SequenceTheorems, FiniteSetTheorems, TLAPS

CastType == [msgs : Numbers, to : SUBSET Parties]

LEMMA Sizes ==
  /\ MaxSends \in Nat /\ IsFiniteSet(Parties) /\ Parties \subseteq Nat
  /\ Cardinality(Parties) \in Nat /\ NoRound \notin Numbers
BY PartyAssumption, BoundAssumption, NoRoundAssumption, FS_CardinalityType DEF Numbers

LEMMA ZeroNumbers == None \in Numbers
BY Sizes DEF None, Numbers

LEMMA ChangedNumber ==
  ASSUME NEW x \in Numbers, NEW p \in Parties, NEW v \in 0..MaxSends
  PROVE  [x EXCEPT ![p] = v] \in Numbers
BY DEF Numbers

LEMMA NumberAt == \A x \in Numbers, p \in Parties : x[p] \in 0..MaxSends
BY DEF Numbers

LEMMA RoundType == RoundMsgs \in Numbers => RoundMessages \in Numbers
BY Sizes DEF RoundMessages, Numbers

LEMMA TypeInit == Init => TypeOK
<1> SUFFICES ASSUME Init PROVE TypeOK
  OBVIOUS
<1>1. <<>> \in Seq(CastType) /\ <<>> \in Seq(Numbers)
  BY EmptySeq
<1> QED
  BY <1>1, ZeroNumbers DEF Init, TypeOK, CastType

(* Every step keeps the types, and no goroutine is left running.           *)
LEMMA TypeStep == TypeOK /\ [Next]_vars => TypeOK'
<1> SUFFICES ASSUME TypeOK, [Next]_vars PROVE TypeOK'
  OBVIOUS
<1> USE Sizes, ZeroNumbers DEF TypeOK
<1>1. CASE ReceiveMessages
  BY <1>1 DEF ReceiveMessages
<1>2. CASE Collected
  BY <1>2 DEF Collected
<1>3. CASE Pushed
  BY <1>3 DEF Pushed
<1>4. CASE PutBack
  <2>1. held.n \in 0..MaxSends
    BY DEF Nothing
  <2>2. SendChannel' \in Numbers
    BY <1>4, <2>1 DEF PutBack, Numbers
  <2> QED
    BY <1>4, <2>2 DEF PutBack
<1>5. ASSUME NEW to \in SUBSET Parties, Broadcast(to) PROVE TypeOK'
  <2>1. [msgs |-> RoundMessages, to |-> to] \in CastType
    BY RoundType DEF CastType
  <2>2. casts' \in Seq(CastType)
    BY <1>5, <2>1, AppendProperties DEF Broadcast, CastType
  <2> QED
    BY <1>5, <2>2 DEF Broadcast, CastType
<1>6. ASSUME NEW p \in Parties, Send(p) PROVE TypeOK'
  <2>1. sent[p] + 1 \in 0..MaxSends
    BY <1>6, NumberAt DEF Send
  <2>2. sent' \in Numbers /\ SendChannel' \in Numbers
    BY <1>6, <2>1, ChangedNumber DEF Send
  <2> QED
    BY <1>6, <2>2 DEF Send
<1>7. ASSUME NEW p \in Parties, ReceiveRound(p) PROVE TypeOK'
  <2>1. ReceiveChannel[p] \in Numbers
    BY <1>7 DEF ReceiveRound
  <2>2. Append(log[p], ReceiveChannel[p]) \in Seq(Numbers)
    BY <2>1, AppendProperties
  <2> QED
    BY <1>7, <2>2 DEF ReceiveRound
<1>8. ASSUME NEW p \in Parties, FirstLook(p) \/ LateMessage(p) \/ Timeout(p) PROVE TypeOK'
  <2>1. orch = "collect"
    BY <1>8 DEF FirstLook, LateMessage, Timeout
  <2>2. agg' \in Numbers /\ SendChannel' \in Numbers
    <3>1. SendChannel[p] \in 0..MaxSends /\ 0 \in 0..MaxSends
      BY NumberAt
    <3>2. [agg EXCEPT ![p] = SendChannel[p]] \in Numbers /\ [SendChannel EXCEPT ![p] = 0] \in Numbers
      BY <3>1, ChangedNumber
    <3> QED
      BY <1>8, <3>2 DEF FirstLook, LateMessage, Timeout, Pick
  <2>3. collector' \in [Parties -> {"off", "start", "wait", "done"}]
    BY <1>8 DEF FirstLook, LateMessage, Timeout, Pick
  <2> QED
    BY <1>8, <2>1, <2>2, <2>3 DEF FirstLook, LateMessage, Timeout
<1>9. ASSUME NEW p \in Parties, Push(p) PROVE TypeOK'
  BY <1>9, RoundType DEF Push
<1>10. ASSUME NEW p \in Parties, WaitMessageChannel(p) PROVE TypeOK'
  <2>1. SendChannel[p] \in 1..MaxSends /\ SendChannel' \in Numbers
    <3>1. SendChannel[p] \in 0..MaxSends /\ SendChannel[p] # 0 /\ 0 \in 0..MaxSends
      BY <1>10, NumberAt DEF WaitMessageChannel
    <3>2. [SendChannel EXCEPT ![p] = 0] \in Numbers /\ SendChannel[p] \in 1..MaxSends
      BY <3>1, ChangedNumber
    <3> QED
      BY <1>10, <3>2 DEF WaitMessageChannel
  <2>2. held' \in [from : Parties, n : 1..MaxSends]
    BY <1>10, <2>1 DEF WaitMessageChannel
  <2> QED
    BY <1>10, <2>1, <2>2 DEF WaitMessageChannel
<1>11. CASE UNCHANGED vars
  BY <1>11 DEF vars
<1> QED
  BY <1>1, <1>2, <1>3, <1>4, <1>5, <1>6, <1>7, <1>8, <1>9, <1>10, <1>11 DEF Next, Collector

(* The channels keep their types, and when ReceiveMessages has returned    *)
(* none of its goroutines is left to send on the closed channel agg.       *)
THEOREM TypeCorrect == Spec => []TypeOK
BY TypeInit, TypeStep, PTL DEF Spec

-----------------------------------------------------------------------------
(* A message that lay in its channel when ReceiveMessages was called is    *)
(* there until its goroutine looks for the first time.                     *)
PromptInv ==
  /\ PromptMessages
  /\ orch = "collect" => \A p \in Parties :
       /\ collector[p] \in {"start", "wait"} => agg[p] = 0
       /\ due[p] # 0 => \/ collector[p] = "start" /\ SendChannel[p] = due[p]
                        \/ collector[p] = "done" /\ agg[p] = due[p]

LEMMA PromptInit == Init => PromptInv
BY DEF Init, PromptInv, PromptMessages

LEMMA PromptStep == TypeOK /\ PromptInv /\ [Next]_vars => PromptInv'
<1> SUFFICES ASSUME TypeOK, PromptInv, [Next]_vars PROVE PromptInv'
  OBVIOUS
<1> USE DEF PromptInv, PromptMessages
<1>1. CASE ReceiveMessages
  BY <1>1 DEF ReceiveMessages, None
<1>2. CASE Collected
  BY <1>2 DEF Collected
<1>3. CASE Pushed \/ PutBack
  BY <1>3 DEF Pushed, PutBack
<1>4. ASSUME NEW to \in SUBSET Parties, Broadcast(to) PROVE PromptInv'
  BY <1>4 DEF Broadcast
<1>5. ASSUME NEW p \in Parties, Send(p) PROVE PromptInv'
  <2>1. \A q \in Parties : SendChannel[q] # 0 => SendChannel'[q] = SendChannel[q]
    BY <1>5 DEF Send, TypeOK, Numbers
  <2> QED
    BY <1>5, <2>1 DEF Send
<1>6. ASSUME NEW p \in Parties, FirstLook(p) \/ LateMessage(p) \/ Timeout(p) PROVE PromptInv'
  <2>1. orch = "collect" /\ orch' = "collect" /\ due' = due
    BY <1>6 DEF FirstLook, LateMessage, Timeout, TypeOK
  <2>2. \A q \in Parties \ {p} : /\ agg'[q] = agg[q] /\ SendChannel'[q] = SendChannel[q]
                                 /\ collector'[q] = collector[q]
    BY <1>6 DEF FirstLook, LateMessage, Timeout, Pick, TypeOK, Numbers
  <2>3. \/ collector[p] = "start" /\ collector'[p] = "wait" /\ SendChannel[p] = 0
           /\ agg'[p] = agg[p] /\ SendChannel'[p] = SendChannel[p]
        \/ collector[p] \in {"start", "wait"} /\ collector'[p] = "done" /\ agg'[p] = SendChannel[p]
        \/ collector[p] = "wait" /\ collector'[p] = "done" /\ agg'[p] = agg[p]
    BY <1>6 DEF FirstLook, LateMessage, Timeout, Pick, TypeOK, Numbers
  <2> QED
    BY <2>1, <2>2, <2>3
<1>7. ASSUME NEW p \in Parties, ReceiveRound(p) \/ Push(p) \/ WaitMessageChannel(p)
      PROVE  PromptInv'
  BY <1>7 DEF ReceiveRound, Push, WaitMessageChannel
<1>8. CASE UNCHANGED vars
  BY <1>8 DEF vars
<1> QED
  BY <1>1, <1>2, <1>3, <1>4, <1>5, <1>6, <1>7, <1>8 DEF Next, Collector

(* A message that is in its channel when ReceiveMessages is called is in   *)
(* the round it collects, in every interleaving of the goroutines with the *)
(* parties and with each other, and for any number of parties.             *)
THEOREM PromptCorrect == Spec => []PromptMessages
<1>1. PromptInv => PromptMessages
  BY DEF PromptInv
<1> QED
  BY <1>1, PromptInit, PromptStep, TypeCorrect, PTL DEF Spec

-----------------------------------------------------------------------------
(* The sequence of rounds.  The messages of p that no round has carried    *)
(* yet are the next ones: first the one in the round being made, then the  *)
(* one WaitMessageChannel holds, then the one in the channel.  The rounds  *)
(* for p that p has not received are the last ones: one in its channel,    *)
(* then the one that is being pushed.                                      *)

Consecutive == \A p \in Parties : p < Cardinality(Parties)

Count(b) == IF b THEN 1 ELSE 0

Carrying(s, p) == {i \in 1..Len(s) : s[i].msgs[p] # 0}
Meant(s, p, n) == {j \in 1..n : p \in s[j].to}

Carried(p)  == Cardinality(Carrying(casts, p))
MeantFor(p) == Cardinality(Meant(casts, p, Len(casts)))

InRound(p) == IF orch = "collect" THEN agg[p] ELSE IF orch = "ready" THEN RoundMsgs[p] ELSE 0
InHand(p)  == IF orch = "hold" /\ held.from = p THEN held.n ELSE 0

Numbering(p, c) ==
  /\ InRound(p) # 0 => InRound(p) = c + 1
  /\ InHand(p) # 0 => InHand(p) = c + Count(InRound(p) # 0) + 1
  /\ SendChannel[p] # 0 =>
       SendChannel[p] = c + Count(InRound(p) # 0) + Count(InHand(p) # 0) + 1
  /\ sent[p] = c + Count(InRound(p) # 0) + Count(InHand(p) # 0) + Count(SendChannel[p] # 0)

\* Round i is the next one that p is to receive.
IsNext(i, p) ==
  /\ i \in 1..Len(casts) /\ p \in casts[i].to
  /\ Cardinality(Meant(casts, p, i)) = Len(log[p]) + 1

Reading(p) ==
  /\ MeantFor(p) = Len(log[p]) + Count(ReceiveChannel[p] # NoRound) + Count(p \in todo)
  /\ ReceiveChannel[p] # NoRound =>
       \E i \in 1..Len(casts) : IsNext(i, p) /\ casts[i].msgs = ReceiveChannel[p]

Pushing ==
  /\ todo # {} => orch = "push"
  /\ orch = "push" => /\ Len(casts) # 0 /\ casts[Len(casts)].msgs = RoundMessages
                      /\ todo \subseteq casts[Len(casts)].to
  /\ orch = "hold" => held # Nothing

RoundsInv ==
  /\ TypeOK /\ PromptInv /\ Pushing
  /\ \A p \in Parties : Numbering(p, Carried(p)) /\ Reading(p)

LEMMA CastTypes ==
  ASSUME TypeOK
  PROVE  /\ casts \in Seq(CastType) /\ Len(casts) \in Nat
         /\ \A i \in 1..Len(casts) : casts[i] \in CastType
<1>1. casts \in Seq(CastType)
  BY DEF TypeOK, CastType
<1> QED
  BY <1>1, LenProperties, ElementOfSeq

LEMMA Counted ==
  ASSUME TypeOK, NEW p \in Parties
  PROVE  /\ Carried(p) \in Nat
         /\ \A n \in Nat : IsFiniteSet(Meant(casts, p, n)) /\ Cardinality(Meant(casts, p, n)) \in Nat
         /\ MeantFor(p) \in Nat /\ Len(log[p]) \in Nat
<1>1. Len(casts) \in Nat
  BY CastTypes
<1>2. \A n \in Nat : IsFiniteSet(1..n)
  BY FS_Interval
<1>3. Carrying(casts, p) \in SUBSET (1..Len(casts)) /\ \A n \in Nat : Meant(casts, p, n) \in SUBSET (1..n)
  BY DEF Carrying, Meant
<1>4. IsFiniteSet(Carrying(casts, p)) /\ \A n \in Nat : IsFiniteSet(Meant(casts, p, n))
  BY <1>1, <1>2, <1>3, FS_Subset
<1>5. log[p] \in Seq(Numbers)
  BY DEF TypeOK
<1> QED
  BY <1>1, <1>4, <1>5, FS_CardinalityType DEF Carried, MeantFor

(* What one more round changes.                                            *)
LEMMA OneMore ==
  ASSUME TypeOK, NEW p \in Parties, NEW r \in CastType, casts' = Append(casts, r)
  PROVE  /\ Len(casts') = Len(casts) + 1 /\ casts'[Len(casts) + 1] = r
         /\ \A i \in 1..Len(casts) : casts'[i] = casts[i]
         /\ Carried(p)' = Carried(p) + Count(r.msgs[p] # 0)
         /\ \A n \in 0..Len(casts) : Meant(casts', p, n) = Meant(casts, p, n)
         /\ MeantFor(p)' = MeantFor(p) + Count(p \in r.to)
<1> DEFINE n == Len(casts)
<1>1. casts \in Seq(CastType) /\ n \in Nat
  BY CastTypes
<1>2. /\ Len(casts') = n + 1 /\ casts'[n + 1] = r
      /\ \A i \in 1..n : casts'[i] = casts[i]
  BY <1>1, AppendProperties
<1>3. \A m \in 0..n : Meant(casts', p, m) = Meant(casts, p, m)
  BY <1>1, <1>2 DEF Meant
<1>4. IsFiniteSet(Carrying(casts, p)) /\ IsFiniteSet(Meant(casts, p, n))
  <2>1. Carrying(casts, p) \in SUBSET (1..n) /\ IsFiniteSet(1..n)
    BY <1>1, FS_Interval DEF Carrying
  <2> QED
    BY <1>1, <2>1, FS_Subset, Counted
<1>5. n + 1 \notin Carrying(casts, p) /\ n + 1 \notin Meant(casts, p, n)
  BY <1>1 DEF Carrying, Meant
<1>6. Carrying(casts', p) = IF r.msgs[p] # 0 THEN Carrying(casts, p) \cup {n + 1} ELSE Carrying(casts, p)
  BY <1>1, <1>2 DEF Carrying
<1>7. Meant(casts', p, n + 1) = IF p \in r.to THEN Meant(casts, p, n) \cup {n + 1} ELSE Meant(casts, p, n)
  BY <1>1, <1>2 DEF Meant
<1>8. Carried(p)' = Carried(p) + Count(r.msgs[p] # 0)
  <2>1. Cardinality(Carrying(casts, p) \cup {n + 1}) = Carried(p) + 1
    BY <1>4, <1>5, FS_AddElement DEF Carried
  <2>2. Carried(p)' = Cardinality(Carrying(casts', p)) /\ Carried(p) \in Nat
    BY Counted DEF Carried
  <2>3. Carrying(casts', p) = Carrying(casts, p) => Carried(p)' = Carried(p)
    BY <2>2 DEF Carried
  <2> QED
    BY <1>6, <2>1, <2>2, <2>3 DEF Count
<1>9. MeantFor(p)' = MeantFor(p) + Count(p \in r.to)
  <2>1. Cardinality(Meant(casts, p, n) \cup {n + 1}) = MeantFor(p) + 1
    BY <1>4, <1>5, FS_AddElement DEF MeantFor
  <2>2. MeantFor(p)' = Cardinality(Meant(casts', p, n + 1))
    BY <1>2 DEF MeantFor
  <2>3. Meant(casts', p, n + 1) = Meant(casts, p, n) => MeantFor(p)' = MeantFor(p)
    BY <2>2 DEF MeantFor
  <2>4. MeantFor(p) \in Nat
    BY Counted
  <2> QED
    BY <1>7, <2>1, <2>2, <2>3, <2>4 DEF Count
<1> QED
  BY <1>2, <1>3, <1>8, <1>9

LEMMA RoundsInit == Init => RoundsInv
<1> SUFFICES ASSUME Init PROVE RoundsInv
  OBVIOUS
<1>1. TypeOK /\ PromptInv
  BY TypeInit, PromptInit
<1>2. \A p \in Parties : Carried(p) = 0 /\ MeantFor(p) = 0
  <2>1. \A p \in Parties : Carrying(casts, p) = {} /\ Meant(casts, p, Len(casts)) = {}
    BY DEF Init, Carrying, Meant
  <2> QED
    BY <2>1, FS_EmptySet DEF Carried, MeantFor
<1>3. Pushing
  BY DEF Init, Pushing
<1>4. ASSUME NEW p \in Parties PROVE Numbering(p, Carried(p)) /\ Reading(p)
  BY <1>2 DEF Init, None, Numbering, InRound, InHand, Count, Reading
<1> QED
  BY <1>1, <1>3, <1>4 DEF RoundsInv

\* What the two lemmas below need of a step that adds no round.
LEMMA SameRounds ==
  ASSUME NEW p \in Parties, casts' = casts
  PROVE  Carried(p)' = Carried(p) /\ MeantFor(p)' = MeantFor(p)
BY DEF Carried, MeantFor, Carrying, Meant

LEMMA NumberTypes ==
  ASSUME TypeOK, NEW p \in Parties
  PROVE  /\ sent[p] \in Nat /\ SendChannel[p] \in Nat /\ agg[p] \in Nat /\ RoundMsgs[p] \in Nat
         /\ held.n \in Nat /\ InRound(p) \in Nat /\ InHand(p) \in Nat /\ Carried(p) \in Nat
<1>1. \A x \in Numbers : x[p] \in Nat
  BY Sizes DEF Numbers
<1>2. held.n \in Nat
  BY Sizes DEF TypeOK, Nothing
<1> QED
  BY <1>1, <1>2, Counted DEF TypeOK, InRound, InHand

LEMMA NumberingStep ==
  ASSUME Consecutive, RoundsInv, [Next]_vars, NEW q \in Parties
  PROVE  Numbering(q, Carried(q))'
<1>0. TypeOK /\ PromptInv /\ Pushing /\ Numbering(q, Carried(q))
  BY DEF RoundsInv
<1> USE <1>0, NumberTypes
<1>1. CASE ReceiveMessages
  BY <1>1, SameRounds DEF ReceiveMessages, None, Numbering, InRound, InHand, Count
<1>2. CASE Collected
  BY <1>2, SameRounds DEF Collected, Numbering, InRound, InHand, Count
<1>3. CASE Pushed
  BY <1>3, SameRounds DEF Pushed, Numbering, InRound, InHand, Count
<1>4. CASE PutBack
  <2>1. held.from \in Parties /\ held.n \in 1..MaxSends
    BY <1>4 DEF PutBack, Pushing, TypeOK
  <2>2. /\ orch = "hold" /\ orch' = "idle" /\ sent' = sent /\ casts' = casts
        /\ SendChannel[held.from] = 0
        /\ SendChannel'[q] = IF q = held.from THEN held.n ELSE SendChannel[q]
    BY <1>4, <2>1 DEF PutBack, TypeOK, Numbers
  <2> QED
    BY <2>1, <2>2, Sizes, SameRounds DEF Numbering, InRound, InHand, Count
<1>5. ASSUME NEW to \in SUBSET Parties, Broadcast(to) PROVE Numbering(q, Carried(q))'
  <2>1. RoundMessages[q] = RoundMsgs[q]
    BY DEF Consecutive, RoundMessages
  <2>2. [msgs |-> RoundMessages, to |-> to] \in CastType
    BY RoundType DEF CastType, TypeOK
  <2>3. Carried(q)' = Carried(q) + Count(RoundMsgs[q] # 0)
    BY <1>5, <2>1, <2>2, OneMore DEF Broadcast
  <2>4. /\ orch = "ready" /\ orch' = "push" /\ UNCHANGED <<sent, SendChannel, held>>
    BY <1>5 DEF Broadcast
  <2> QED
    BY <2>3, <2>4 DEF Numbering, InRound, InHand, Count
<1>6. ASSUME NEW p \in Parties, Send(p) PROVE Numbering(q, Carried(q))'
  <2>1. /\ sent'[q] = IF q = p THEN sent[p] + 1 ELSE sent[q]
        /\ SendChannel'[q] = IF q = p THEN sent[p] + 1 ELSE SendChannel[q]
        /\ SendChannel[p] = 0
    BY <1>6 DEF Send, TypeOK, Numbers
  <2>2. Carried(q)' = Carried(q) /\ InRound(q)' = InRound(q) /\ InHand(q)' = InHand(q)
    BY <1>6, SameRounds DEF Send, InRound, InHand
  <2> QED
    BY <2>1, <2>2 DEF Numbering, Count
<1>7. ASSUME NEW p \in Parties, FirstLook(p) \/ LateMessage(p) \/ Timeout(p)
      PROVE  Numbering(q, Carried(q))'
  <2>1. /\ orch = "collect" /\ orch' = "collect" /\ UNCHANGED <<sent, held, casts>>
        /\ collector[p] \in {"start", "wait"}
    BY <1>7 DEF FirstLook, LateMessage, Timeout, TypeOK
  <2>2. Carried(q)' = Carried(q) /\ InHand(q)' = 0 /\ InHand(q) = 0 /\ sent'[q] = sent[q]
        /\ InRound(q) = agg[q] /\ InRound(q)' = agg'[q]
    BY <2>1, SameRounds DEF InRound, InHand
  <2>3. CASE UNCHANGED <<agg, SendChannel>>
    BY <2>2, <2>3 DEF Numbering, Count
  <2>4. CASE Pick(p)
    <3>1. agg[p] = 0 /\ SendChannel[p] # 0
      BY <2>1, <2>4 DEF Pick, PromptInv
    <3>2. /\ agg'[q] = IF q = p THEN SendChannel[p] ELSE agg[q]
          /\ SendChannel'[q] = IF q = p THEN 0 ELSE SendChannel[q]
      BY <2>4 DEF Pick, TypeOK, Numbers
    <3> QED
      BY <2>2, <3>1, <3>2 DEF Numbering, Count
  <2> QED
    BY <1>7, <2>3, <2>4 DEF FirstLook, LateMessage, Timeout
<1>8. ASSUME NEW p \in Parties, WaitMessageChannel(p) PROVE Numbering(q, Carried(q))'
  <2>1. /\ orch = "idle" /\ orch' = "hold" /\ UNCHANGED <<sent, casts>>
        /\ held'.from = p /\ held'.n = SendChannel[p] /\ SendChannel[p] # 0
        /\ SendChannel'[q] = IF q = p THEN 0 ELSE SendChannel[q]
    BY <1>8 DEF WaitMessageChannel, TypeOK, Numbers
  <2>2. Carried(q)' = Carried(q)
    BY <2>1, SameRounds
  <2> QED
    BY <2>1, <2>2 DEF Numbering, InRound, InHand, Count
<1>9. ASSUME NEW p \in Parties, ReceiveRound(p) \/ Push(p) PROVE Numbering(q, Carried(q))'
  BY <1>9, SameRounds DEF ReceiveRound, Push, Numbering, InRound, InHand, Count
<1>10. CASE UNCHANGED vars
  BY <1>10, SameRounds DEF vars, Numbering, InRound, InHand, Count
<1> QED
  BY <1>1, <1>2, <1>3, <1>4, <1>5, <1>6, <1>7, <1>8, <1>9, <1>10 DEF Next, Collector

LEMMA PushingStep == RoundsInv /\ [Next]_vars => Pushing'
<1> SUFFICES ASSUME RoundsInv, [Next]_vars PROVE Pushing'
  OBVIOUS
<1> USE DEF RoundsInv, Pushing
<1>1. CASE ReceiveMessages \/ Collected \/ Pushed \/ PutBack
  BY <1>1 DEF ReceiveMessages, Collected, Pushed, PutBack
<1>2. ASSUME NEW to \in SUBSET Parties, Broadcast(to) PROVE Pushing'
  <2>1. [msgs |-> RoundMessages, to |-> to] \in CastType /\ Len(casts) \in Nat
    BY RoundType, CastTypes DEF CastType, TypeOK
  <2>2. casts \in Seq(CastType)
    BY CastTypes
  <2>3. /\ Len(casts') = Len(casts) + 1
        /\ casts'[Len(casts) + 1] = [msgs |-> RoundMessages, to |-> to]
    BY <1>2, <2>1, <2>2, AppendProperties DEF Broadcast
  <2>4. RoundMessages' = RoundMessages /\ todo' = to /\ orch' = "push"
    BY <1>2 DEF Broadcast, RoundMessages
  <2> QED
    BY <2>1, <2>3, <2>4
<1>3. ASSUME NEW p \in Parties, Send(p) \/ ReceiveRound(p) \/ Push(p) PROVE Pushing'
  BY <1>3 DEF Send, ReceiveRound, Push, RoundMessages
<1>4. ASSUME NEW p \in Parties, FirstLook(p) \/ LateMessage(p) \/ Timeout(p) PROVE Pushing'
  BY <1>4 DEF FirstLook, LateMessage, Timeout, RoundMessages
<1>5. ASSUME NEW p \in Parties, WaitMessageChannel(p) PROVE Pushing'
  <2>1. held' # Nothing
    BY <1>5 DEF WaitMessageChannel, Nothing
  <2> QED
    BY <1>5, <2>1 DEF WaitMessageChannel
<1>6. CASE UNCHANGED vars
  BY <1>6 DEF vars, RoundMessages
<1> QED
  BY <1>1, <1>2, <1>3, <1>4, <1>5, <1>6 DEF Next, Collector

LEMMA ReadingIdle ==
  ASSUME NEW q \in Parties, Reading(q), UNCHANGED <<casts, log[q], ReceiveChannel[q]>>,
         q \in todo' <=> q \in todo
  PROVE  Reading(q)'
<1>1. MeantFor(q)' = MeantFor(q)
  BY SameRounds
<1>2. \A i : IsNext(i, q)' <=> IsNext(i, q)
  BY DEF IsNext, Meant
<1> QED
  BY <1>1, <1>2 DEF Reading, Count

LEMMA ReadingStep ==
  ASSUME RoundsInv, [Next]_vars, NEW q \in Parties
  PROVE  Reading(q)'
<1>0. TypeOK /\ Pushing /\ Reading(q) /\ casts \in Seq(CastType) /\ Len(casts) \in Nat
  BY CastTypes DEF RoundsInv
<1>1. CASE ReceiveMessages \/ Collected \/ Pushed \/ PutBack
  BY <1>0, <1>1, ReadingIdle DEF ReceiveMessages, Collected, Pushed, PutBack
<1>2. ASSUME NEW to \in SUBSET Parties, Broadcast(to) PROVE Reading(q)'
  <2>1. [msgs |-> RoundMessages, to |-> to] \in CastType
    BY <1>0, RoundType DEF CastType, TypeOK
  <2>2. /\ Len(casts') = Len(casts) + 1
        /\ \A i \in 1..Len(casts) : casts'[i] = casts[i]
        /\ \A n \in 0..Len(casts) : Meant(casts', q, n) = Meant(casts, q, n)
        /\ MeantFor(q)' = MeantFor(q) + Count(q \in to)
    BY <1>0, <1>2, <2>1, OneMore DEF Broadcast
  <2>3. todo = {} /\ todo' = to /\ UNCHANGED <<log, ReceiveChannel>>
    BY <1>0, <1>2 DEF Broadcast, Pushing
  <2>4. \A i \in 1..Len(casts) : IsNext(i, q) => IsNext(i, q)' /\ i \in 1..Len(casts') /\ casts'[i] = casts[i]
    BY <1>0, <2>2, <2>3 DEF IsNext
  <2>5. MeantFor(q)' = (Len(log[q]) + Count(ReceiveChannel[q] # NoRound) + Count(q \in todo))'
    BY <1>0, <2>2, <2>3, Counted DEF Reading, Count
  <2>6. (ReceiveChannel[q] # NoRound)' =>
          (\E i \in 1..Len(casts) : IsNext(i, q) /\ casts[i].msgs = ReceiveChannel[q])'
    <3> SUFFICES ASSUME ReceiveChannel'[q] # NoRound
                 PROVE  \E i \in 1..Len(casts') : IsNext(i, q)' /\ casts'[i].msgs = ReceiveChannel'[q]
      OBVIOUS
    <3>1. PICK i \in 1..Len(casts) : IsNext(i, q) /\ casts[i].msgs = ReceiveChannel[q]
      BY <1>0, <2>3 DEF Reading
    <3> QED
      BY <2>3, <2>4, <3>1
  <2> QED
    BY <2>5, <2>6 DEF Reading
<1>3. ASSUME NEW p \in Parties, ReceiveRound(p) PROVE Reading(q)'
  <2>1. CASE q # p
    BY <1>0, <1>3, <2>1, ReadingIdle DEF ReceiveRound, TypeOK
  <2>2. CASE q = p
    <3>1. log[p] \in Seq(Numbers) /\ ReceiveChannel[p] \in Numbers
      BY <1>0, <1>3 DEF ReceiveRound, TypeOK
    <3>2. log'[q] = Append(log[q], ReceiveChannel[q]) /\ ReceiveChannel'[q] = NoRound
          /\ ReceiveChannel[q] # NoRound /\ todo' = todo /\ casts' = casts
      BY <1>0, <1>3, <2>2 DEF ReceiveRound, TypeOK
    <3>3. Len(log'[q]) = Len(log[q]) + 1
      BY <2>2, <3>1, <3>2, AppendProperties
    <3>4. MeantFor(q)' = MeantFor(q) /\ MeantFor(q) \in Nat /\ Len(log[q]) \in Nat
      BY <1>0, <3>2, SameRounds, Counted
    <3>5. ~(ReceiveChannel[q] # NoRound)' /\ ((q \in todo)' <=> q \in todo)
      BY <3>2
    <3>6. MeantFor(q)' = (Len(log[q]) + Count(ReceiveChannel[q] # NoRound) + Count(q \in todo))'
      BY <1>0, <3>2, <3>3, <3>4, <3>5 DEF Reading, Count
    <3> QED
      BY <3>5, <3>6 DEF Reading
  <2> QED
    BY <2>1, <2>2
<1>4. ASSUME NEW p \in Parties, Push(p) PROVE Reading(q)'
  <2>1. CASE q # p
    BY <1>0, <1>4, <2>1, ReadingIdle DEF Push, TypeOK
  <2>2. CASE q = p
    <3>1. ReceiveChannel[q] = NoRound /\ ReceiveChannel'[q] = RoundMessages /\ RoundMessages # NoRound
          /\ q \in todo /\ q \notin todo' /\ log' = log /\ casts' = casts
      BY <1>0, <1>4, <2>2, RoundType, Sizes DEF Push, TypeOK
    <3>2. casts[Len(casts)].msgs = RoundMessages /\ q \in casts[Len(casts)].to /\ Len(casts) \in 1..Len(casts)
      BY <1>0, <1>4, <3>1 DEF Push, Pushing
    <3>3. Cardinality(Meant(casts, q, Len(casts))) = Len(log[q]) + 1
      BY <1>0, <3>1, Counted DEF Reading, Count, MeantFor
    <3>4. IsNext(Len(casts), q)'
      BY <3>1, <3>2, <3>3 DEF IsNext
    <3>5. MeantFor(q)' = MeantFor(q) /\ MeantFor(q) \in Nat /\ Len(log[q]) \in Nat
      BY <1>0, <3>1, SameRounds, Counted
    <3>6. MeantFor(q)' = (Len(log[q]) + Count(ReceiveChannel[q] # NoRound) + Count(q \in todo))'
      <4>1. MeantFor(q) = Len(log[q]) + 0 + 1
        BY <1>0, <3>1 DEF Reading, Count
      <4>2. Count(ReceiveChannel'[q] # NoRound) = 1 /\ Count(q \in todo') = 0 /\ Len(log'[q]) = Len(log[q])
        BY <3>1 DEF Count
      <4> QED
        BY <3>5, <4>1, <4>2
    <3> QED
      BY <3>1, <3>2, <3>4, <3>6 DEF Reading
  <2> QED
    BY <2>1, <2>2
<1>5. ASSUME NEW p \in Parties, Send(p) \/ WaitMessageChannel(p) PROVE Reading(q)'
  BY <1>0, <1>5, ReadingIdle DEF Send, WaitMessageChannel
<1>6. ASSUME NEW p \in Parties, FirstLook(p) \/ LateMessage(p) \/ Timeout(p) PROVE Reading(q)'
  BY <1>0, <1>6, ReadingIdle DEF FirstLook, LateMessage, Timeout
<1>7. CASE UNCHANGED vars
  BY <1>0, <1>7, ReadingIdle DEF vars
<1> QED
  BY <1>1, <1>2, <1>3, <1>4, <1>5, <1>6, <1>7 DEF Next, Collector

LEMMA RoundsStep == Consecutive /\ RoundsInv /\ [Next]_vars => RoundsInv'
BY TypeStep, PromptStep, PushingStep, NumberingStep, ReadingStep DEF RoundsInv

-----------------------------------------------------------------------------
(* The refinement.                                                         *)

LEMMA SequenceInit == Init => Rounds!Init
BY DEF Init, None, Rounds!Init

\* The module of the rounds has a copy of its own of Cardinality.
LEMMA SameCardinality == ASSUME NEW S PROVE Rounds!Cardinality(S) = Cardinality(S)
BY DEF Rounds!Cardinality, Cardinality

LEMMA SequenceStep ==
  Consecutive /\ RoundsInv /\ [Next]_vars => [Rounds!Next]_(Rounds!vars)
<1> SUFFICES ASSUME Consecutive, RoundsInv, [Next]_vars PROVE [Rounds!Next]_(Rounds!vars)
  OBVIOUS
<1>0. TypeOK /\ \A p \in Parties : Numbering(p, Carried(p)) /\ Reading(p)
  BY DEF RoundsInv
<1>1. ASSUME NEW p \in Parties, Send(p) PROVE Rounds!Post(p)
  BY <1>1 DEF Send, Rounds!Post
<1>2. ASSUME NEW p \in Parties, ReceiveRound(p) PROVE Rounds!Get(p)
  <2>1. PICK i \in 1..Len(casts) : IsNext(i, p) /\ casts[i].msgs = ReceiveChannel[p]
    BY <1>0, <1>2 DEF ReceiveRound, Reading
  <2>2. p \in casts[i].to /\ Rounds!RoundsFor(p, i) = Len(log[p]) + 1
    <3>1. {j \in 1..i : p \in casts[j].to} = Meant(casts, p, i)
      BY DEF Meant
    <3> QED
      BY <2>1, <3>1, SameCardinality DEF IsNext, Rounds!RoundsFor
  <2>3. log' = [log EXCEPT ![p] = Append(@, casts[i].msgs)] /\ UNCHANGED <<sent, casts>>
    BY <1>2, <2>1 DEF ReceiveRound
  <2> QED
    BY <2>2, <2>3 DEF Rounds!Get
<1>3. ASSUME NEW to \in SUBSET Parties, Broadcast(to) PROVE \E from \in SUBSET Parties : Rounds!Round(from, to)
  <2> DEFINE from == {p \in Parties : RoundMsgs[p] # 0}
  <2>1. \A p \in Parties : Rounds!Carried(p) = Carried(p)
    <3> SUFFICES ASSUME NEW p \in Parties PROVE Rounds!Carried(p) = Carried(p)
      OBVIOUS
    <3>1. {i \in 1..Len(casts) : casts[i].msgs[p] # 0} = Carrying(casts, p)
      BY DEF Carrying
    <3> QED
      BY <3>1, SameCardinality DEF Rounds!Carried, Carried
  <2>2. \A p \in Parties : InRound(p) = RoundMsgs[p] /\ RoundMessages[p] = RoundMsgs[p]
    BY <1>3 DEF Broadcast, InRound, Consecutive, RoundMessages
  <2>3. \A p \in from : Rounds!Carried(p) < sent[p]
    BY <1>0, <2>1, <2>2, NumberTypes DEF Numbering, Count
  <2>4. RoundMessages = [p \in Parties |-> IF p \in from THEN Rounds!Carried(p) + 1 ELSE 0]
    <3>1. \A p \in Parties : RoundMessages[p] = IF p \in from THEN Rounds!Carried(p) + 1 ELSE 0
      BY <1>0, <2>1, <2>2 DEF Numbering
    <3> QED
      BY <3>1 DEF RoundMessages
  <2>5. UNCHANGED <<sent, log>> /\ casts' = Append(casts, [msgs |-> RoundMessages, to |-> to])
    BY <1>3 DEF Broadcast
  <2>6. Rounds!Round(from, to)
    BY <2>3, <2>4, <2>5 DEF Rounds!Round
  <2> QED
    BY <2>6
<1>4. CASE UNCHANGED <<sent, casts, log>>
  BY <1>4 DEF Rounds!vars
<1>5. ASSUME NEW p \in Parties, FirstLook(p) \/ LateMessage(p) \/ Timeout(p) \/ Push(p) \/ WaitMessageChannel(p)
      PROVE  UNCHANGED <<sent, casts, log>>
  BY <1>5 DEF FirstLook, LateMessage, Timeout, Push, WaitMessageChannel
<1>6. ReceiveMessages \/ Collected \/ Pushed \/ PutBack \/ UNCHANGED vars
        => UNCHANGED <<sent, casts, log>>
  BY DEF ReceiveMessages, Collected, Pushed, PutBack, vars
<1> QED
  BY <1>1, <1>2, <1>3, <1>4, <1>5, <1>6 DEF Next, Collector, Rounds!Next

(* For parties numbered from 0, as collectRoundMessages has them, every    *)
(* run of the channels is a run of AtomicRounds: no message is lost,       *)
(* repeated or out of order and every party receives the rounds that are   *)
(* for it, once, in one order, whatever the number of parties, the mix of  *)
(* calls and the interleaving.                                             *)
THEOREM ImplementsRounds == Consecutive => (Spec => OneSequence)
<1> SUFFICES ASSUME Consecutive PROVE Spec => OneSequence
  OBVIOUS
<1>1. RoundsInv /\ [Next]_vars => RoundsInv'
  BY RoundsStep
<1>2. RoundsInv /\ [Next]_vars => [Rounds!Next]_(Rounds!vars)
  BY SequenceStep
<1> QED
  BY <1>1, <1>2, RoundsInit, SequenceInit, PTL DEF Spec, OneSequence, Rounds!Spec
=============================================================================
