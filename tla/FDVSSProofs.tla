---------------------------- MODULE FDVSSProofs ----------------------------
(***************************************************************************)
(* Type correctness of FDVSS and the properties of its outcome.  While     *)
(* every Com3 member speaks once and for itself, the Com3 verdict decides  *)
(* the fate of a dealing, an honest dealer's committee is given no share   *)
(* but its own, the shares of a dealer whom the Com2 round binds are on    *)
(* one polynomial, and the whole is a sharing of VSS.  With prompt relays  *)
(* and an honest dealer and Com1 the secret is recovered.                  *)
(***************************************************************************)
EXTENDS FDVSS, FiniteSetTheorems, TLAPS

LEMMA Sizes ==
  /\ N \in Nat /\ D \in Nat /\ Threshold \in Nat /\ D < Threshold /\ 0 < Threshold
  /\ N - D >= Threshold
  /\ \A s \in Senders : QueueLength(s) \in Nat
<1>1. N \in Nat /\ D \in Nat /\ D >= 1 /\ N >= 3 * D + 1
  BY SizeAssumption
<1>2. N * N \in Nat
  BY <1>1
<1>3. \A s \in Senders : QueueLength(s) \in Nat
  <2> DEFINE square == N * N
  <2>1. square \in Nat
    BY <1>2
  <2>2. \A s \in Senders : QueueLength(s) = IF s = 0 THEN 2 * N ELSE square + 2 * N
    BY DEF QueueLength
  <2> HIDE DEF square
  <2> QED
    BY <1>1, <2>1, <2>2
<1> QED
  BY <1>1, <1>3 DEF Threshold

LEMMA MemberFinite ==
  IsFiniteSet(Member) /\ Cardinality(Member) = N /\ Member \subseteq Senders
BY Sizes, FS_Interval DEF Member, Senders

LEMMA FaultyFinite ==
  \A X \in {FaultyCom1, FaultyCom2, FaultyCom3, FaultyCom4} :
    IsFiniteSet(X) /\ X \subseteq Member /\ Cardinality(X) <= D
BY FaultAssumption, MemberFinite, FS_Subset

LEMMA LatestIn ==
  /\ \A S : Latest(S) \in S \cup {0}
  /\ \A i \in Nat : Latest({i}) = i
<1>1. ASSUME NEW S PROVE Latest(S) \in S \cup {0}
  BY DEF Latest
<1>2. ASSUME NEW i \in Nat PROVE Latest({i}) = i
  <2>1. {s \in {i} : \A t \in {i} : t <= s} = {i}
    OBVIOUS
  <2> QED
    BY <2>1 DEF Latest
<1> QED
  BY <1>1, <1>2

-----------------------------------------------------------------------------
(* Type correctness.                                                       *)

LEMMA SendType ==
  ASSUME TypeOK, NEW s \in Senders, Send(s)
  PROVE  /\ sent' \subseteq Senders /\ relayed' \in [Senders -> Nat]
         /\ \A x \in Senders : relayed'[x] <= IF x \in sent' THEN QueueLength(x) ELSE 0
<1>1. sent' = sent \cup {s}
  BY DEF Send
<1>2. relayed' = relayed \/ relayed' = [relayed EXCEPT ![s] = QueueLength(s)]
  BY DEF Send
<1>3. \A x \in Senders : relayed[x] <= QueueLength(x)
  BY Sizes DEF TypeOK
<1> QED
  BY <1>1, <1>2, <1>3, Sizes DEF TypeOK

LEMMA ReplyType == \A j \in Member : \A claim : Com3Reply(j, claim) \in Com3Item
<1> SUFFICES ASSUME NEW j \in Member, NEW claim PROVE Com3Reply(j, claim) \in Com3Item
  OBVIOUS
<1> DEFINE crosses == {c \in CrossReceived(j, claim) : c[1] \in Member \ Unhappy /\ c[2] \in Unhappy}
           columns == IF DealerToCom3(j) <= taken[j][0] /\ future # None THEN Unhappy ELSE {}
           opened  == {<<c[1], c[2], j>> : c \in crosses}
           dq      == IF Disqualified THEN {1} ELSE {}
<1>1. Unhappy \subseteq Member /\ columns \subseteq Member
  BY DEF Unhappy
<1>2. dq \in SUBSET Repeat /\ 1 \in Repeat
  BY Sizes DEF Repeat
<1>3. j \in Numbers
  BY FaultAssumption
<1>4. opened \in SUBSET (Member \X Member \X Numbers)
  <2> HIDE DEF crosses
  <2>1. \A c \in crosses : c[1] \in Member /\ c[2] \in Member
    BY <1>1 DEF crosses
  <2> QED
    BY <1>3, <2>1
<1>5. Com3Reply(j, claim) = [dq |-> dq, unhappy |-> Unhappy \X {1}, shares |-> columns \X {j}, cross |-> opened]
  BY DEF Com3Reply
<1> HIDE DEF dq, columns, opened, crosses
<1> QED
  BY <1>1, <1>2, <1>3, <1>4, <1>5 DEF Com3Item

LEMMA FaultyItemType ==
  \A j \in Member : \A m \in FaultyCom3Item(j) :
    /\ m \in Com3Item
    /\ "Votes" \notin Forged => m.dq \subseteq {1} /\ m.unhappy \subseteq Member \X {1}
    /\ "Com3Seq" \notin Forged => \A o, p, n : <<o, p, n>> \in m.cross => n = j
<1> SUFFICES ASSUME NEW j \in Member, NEW m \in FaultyCom3Item(j)
             PROVE  /\ m \in Com3Item
                    /\ "Votes" \notin Forged => m.dq \subseteq {1} /\ m.unhappy \subseteq Member \X {1}
                    /\ "Com3Seq" \notin Forged => \A o, p, n : <<o, p, n>> \in m.cross => n = j
  OBVIOUS
<1>2. \A x \in FaultyVotes : x \subseteq Repeat /\ ("Votes" \notin Forged => x \subseteq {1})
  BY Sizes DEF Repeat, FaultyVotes
<1>3. \A x \in FaultyNumbers(j) : x \subseteq Numbers /\ ("Com3Seq" \notin Forged => x \subseteq {j})
  BY FaultAssumption DEF FaultyNumbers
<1>1. PICK b \in FaultyVotes, U \in SUBSET Member, v \in FaultyVotes, s \in FaultyNumbers(j), c \in FaultyNumbers(j) :
        /\ m.dq = b /\ m.unhappy = U \X v
        /\ m.shares = Member \X s /\ m.cross = Member \X Member \X c
        /\ m = [dq |-> b, unhappy |-> U \X v, shares |-> Member \X s, cross |-> Member \X Member \X c]
  BY DEF FaultyCom3Item
<1>4. b \subseteq Repeat /\ v \subseteq Repeat /\ s \subseteq Numbers /\ c \subseteq Numbers
  BY <1>2, <1>3
<1>5. /\ U \X v \in SUBSET (Member \X Repeat) /\ Member \X s \in SUBSET (Member \X Numbers)
      /\ Member \X Member \X c \in SUBSET (Member \X Member \X Numbers)
  BY <1>4
<1>6. m \in Com3Item
  BY <1>1, <1>4, <1>5 DEF Com3Item
<1>7. "Votes" \notin Forged => m.dq \subseteq {1} /\ m.unhappy \subseteq Member \X {1}
  BY <1>1, <1>2
<1>8. "Com3Seq" \notin Forged => \A o, p, n : <<o, p, n>> \in m.cross => n = j
  BY <1>1, <1>3
<1> QED
  BY <1>6, <1>7, <1>8

(* An honest Com1 member that was relayed has an entry to speak of.        *)
SentInv ==
  /\ phase = "deal" => sent = {} /\ served = {}
  /\ \A s \in sent \cap HonestCom1 : entry[s] # None

LEMMA HeardType ==
  ASSUME TypeOK, SentInv, NEW k \in Member, NEW claim \in Claimed,
         \A s \in DOMAIN Com2Heard(k, claim) : ~(Com2Heard(k, claim)[s] <= 0)
  PROVE  Com2Heard(k, claim) \in Com2Item
<1> DEFINE S == {s \in Member : Arrived(s, Com1ToCom2(k))}
           names == Member \cup {c \in Claims : c > 0}
<1>1. Com2Heard(k, claim) = [s \in S |-> Com1ID(s, claim)]
  BY DEF Com2Heard
<1>2. ASSUME NEW s \in S PROVE Com1ID(s, claim) \in names
  <2>1. ~(Com1ID(s, claim) <= 0) /\ s \in Member
    BY <1>1
  <2>2. CASE s \in FaultyCom1
    <3>1. claim[s] \in Claims \cup Member
      <4>1. CASE "Com1ID" \in Forged
        BY <2>2, <4>1 DEF Claimed
      <4>2. CASE "Com1ID" \notin Forged
        BY <2>1, <2>2, <4>2 DEF Claimed
      <4> QED
        BY <4>1, <4>2
    <3>2. Com1ID(s, claim) = claim[s]
      BY <2>2 DEF Com1ID
    <3>3. claim[s] \in Int
      <4>1. Claims \subseteq Int /\ Member \subseteq Int
        BY FaultAssumption, Sizes DEF Member
      <4> QED
        BY <3>1, <4>1
    <3> QED
      BY <2>1, <3>1, <3>2, <3>3
  <2>3. CASE s \notin FaultyCom1
    <3>1. s \in sent /\ s \in Senders
      <4>1. k <= relayed[s] /\ s \in Senders /\ k >= 1
        BY <2>1, MemberFinite, Sizes DEF Arrived, Com1ToCom2, Member
      <4> QED
        BY <4>1, Sizes DEF TypeOK, Member
    <3>2. entry[s] \in Entry
      BY <2>1, <2>3, <3>1 DEF SentInv, HonestCom1, TypeOK
    <3> QED
      BY <2>3, <3>2 DEF Com1ID, Entry
  <2> QED
    BY <2>2, <2>3
<1>3. [s \in S |-> Com1ID(s, claim)] \in [S -> names] /\ S \in SUBSET Member
  BY <1>2
<1> HIDE DEF S, names
<1>4. [S -> names] \subseteq Com2Item
  BY <1>3 DEF Com2Item, Hearing, names
<1> QED
  BY <1>1, <1>3, <1>4

LEMMA NothingType == <<>> \in Com2Item /\ DOMAIN <<>> = {}
<1> DEFINE names == Member \cup {c \in Claims : c > 0}
<1>1. <<>> \in [{} -> names]
  OBVIOUS
<1>2. {} \in SUBSET Member
  OBVIOUS
<1>3. [{} -> names] \subseteq Com2Item
  BY <1>2 DEF Com2Item, Hearing
<1> QED
  BY <1>1, <1>3

(* The runs of Com4 in the order of its results.                           *)
LEMMA Com4Cases ==
  ASSUME NEW k \in Member, Com4Answer(k)
  PROVE  \/ Com4Error(k)
         \/ ~WorksetFails(UnhappySet) /\ ZeroShare(UnhappySet) /\ Com4Share(k, Zero, {k})
         \/ /\ ~WorksetFails(UnhappySet) /\ ~ZeroShare(UnhappySet)
            /\ \E claim \in Claimed, lie \in [Untied -> Version \cup {None}] :
                 LET points == RecipientPoints(UnhappySet, k, claim, lie) IN
                 /\ ~PointMissing(points)
                 /\ \/ \E w \in Decoded(points) : Com4Share(k, w, {k})
                    \/ Decoded(points) = {} /\ Com4Share(k, Junk, {k})
<1> DEFINE u == UnhappySet
<1>1. \/ Com4Error(k)
      \/ ~WorksetFails(u) /\ ZeroShare(u) /\ Com4Share(k, Zero, {k})
      \/ /\ ~WorksetFails(u) /\ ~ZeroShare(u)
         /\ \E claim \in Claimed, lie \in [Untied -> Version \cup {None}] :
              Com4Decode(k, RecipientPoints(u, k, claim, lie))
  BY DEF Com4Answer
<1> HIDE DEF u
<1> QED
  BY <1>1 DEF Com4Decode, u

TypeInv == TypeOK /\ SentInv

LEMMA TypeInit == Init => TypeInv
<1> SUFFICES ASSUME Init PROVE TypeInv
  OBVIOUS
<1>1. relayed \in [Senders -> Nat] /\ sent = {} /\ \A s \in Senders : relayed[s] = 0
  BY DEF Init
<1>2. \A s \in Senders : relayed[s] <= IF s \in sent THEN QueueLength(s) ELSE 0
  BY <1>1
<1>3. /\ taken \in [Member -> [Senders -> Nat] \cup {None}]
      /\ com2Msg \in [Member -> Com2Item \cup {None}]
      /\ com3Msg \in [Member -> Com3Item \cup {None}]
      /\ entry \in [Member -> Entry \cup {None}]
      /\ com4Result \in [Member -> Version \cup {Zero, None}]
      /\ com4Index \in [Member -> SUBSET Numbers]
      /\ verdict \in Verdicts \cup {None} /\ future \in Version \cup {None}
      /\ happy \subseteq Member /\ meet \subseteq Senders \X Senders
  BY DEF Init
<1>4. TypeOK
  BY <1>1, <1>2, <1>3 DEF Init, TypeOK
<1> QED
  BY <1>1, <1>4 DEF Init, SentInv, TypeInv

LEMMA HappyType == \A E : Supporters(E) \subseteq Member
BY DEF Supporters, FindCliqueIDs, HighDegreeVertices

LEMMA RecoveredType == Recovered \subseteq Poly \cup {Zero}
BY DEF Recovered

LEMMA ShareType ==
  ASSUME TypeOK, NEW k \in Member, NEW v \in Version \cup {Zero, None},
         NEW X \in SUBSET Numbers, Com4Share(k, v, X)
  PROVE  /\ com4Result' \in [Member -> Version \cup {Zero, None}]
         /\ com4Index' \in [Member -> SUBSET Numbers]
         /\ served' = served \cup {k} /\ phase' = phase /\ erred' = erred
BY DEF Com4Share, Serve, TypeOK

LEMMA ErrorType ==
  ASSUME TypeOK, NEW k \in Member, Com4Error(k), phase = "com4"
  PROVE  /\ UNCHANGED <<com4Result, com4Index>>
         /\ served' = served \cup {k} /\ phase' \in {"com4", "failed"} /\ erred' = TRUE
BY DEF Com4Error, Fail, com4

(* Com4 answers for the member that runs and for nobody else.              *)
LEMMA Com4Type ==
  ASSUME TypeOK, NEW k \in Member, Com4(k)
  PROVE  /\ com4Result' \in [Member -> Version \cup {Zero, None}]
         /\ com4Index' \in [Member -> SUBSET Numbers]
         /\ phase = "com4" /\ phase' \in {"com4", "failed"}
         /\ served' = served \cup {k} /\ erred' \in BOOLEAN
<1>0. phase = "com4" /\ erred \in BOOLEAN
  BY DEF Com4, MayRun, TypeOK
<1> DEFINE Goal == /\ com4Result' \in [Member -> Version \cup {Zero, None}]
                   /\ com4Index' \in [Member -> SUBSET Numbers]
                   /\ phase' \in {"com4", "failed"}
                   /\ served' = served \cup {k} /\ erred' \in BOOLEAN
<1>1. ASSUME NEW v \in Version \cup {Zero, None}, NEW X \in SUBSET Numbers, Com4Share(k, v, X)
      PROVE  Goal
  BY <1>0, <1>1, ShareType
<1>2. ASSUME Com4Error(k) PROVE Goal
  BY <1>0, <1>2, ErrorType DEF TypeOK
<1> HIDE DEF Goal
<1> SUFFICES Goal
  BY <1>0 DEF Goal
<1>3. k \in Numbers /\ {k} \in SUBSET Numbers
  BY FaultAssumption
<1>4. ASSUME \/ Com4Share(k, None, {})
             \/ \E v \in Version \cup {Zero}, X \in FaultyIndices(k) : Com4Share(k, v, X)
      PROVE  Goal
  <2>1. \A X \in FaultyIndices(k) : X \in SUBSET Numbers
    BY <1>3 DEF FaultyIndices
  <2> QED
    BY <1>1, <1>4, <2>1
<1>5. ASSUME Com4Answer(k) PROVE Goal
  <2>1. ASSUME Com4Share(k, Zero, {k}) PROVE Goal
    BY <1>1, <1>3, <2>1
  <2>2. ASSUME NEW points, NEW w \in Decoded(points), Com4Share(k, w, {k}) PROVE Goal
    <3>1. w \in Version
      BY DEF Decoded, Version
    <3> QED
      BY <1>1, <1>3, <2>2, <3>1
  <2>3. ASSUME Com4Share(k, Junk, {k}) PROVE Goal
    <3>1. Junk \in Version
      BY DEF Version
    <3> QED
      BY <1>1, <1>3, <2>3, <3>1
  <2> QED
    BY <1>2, <1>5, <2>1, <2>2, <2>3, Com4Cases
<1> QED
  BY <1>2, <1>4, <1>5 DEF Com4

LEMMA TypeStep == TypeInv /\ [Next]_vars => TypeInv'
<1> SUFFICES ASSUME TypeOK, SentInv, [Next]_vars PROVE TypeOK' /\ SentInv'
  BY DEF TypeInv
<1>a. ASSUME UNCHANGED <<sent, entry>>, phase' = "deal" => phase = "deal" /\ served' = served
      PROVE  SentInv'
  BY <1>a DEF SentInv
<1> USE DEF TypeOK
<1>1. CASE Deal
  <2>1. Send(0) /\ 0 \in Senders
    BY <1>1, Sizes DEF Deal, Senders
  <2>2. /\ sent' \subseteq Senders /\ relayed' \in [Senders -> Nat]
        /\ \A x \in Senders : relayed'[x] <= IF x \in sent' THEN QueueLength(x) ELSE 0
    BY <2>1, SendType
  <2>3. HonestDealing \in [Member -> Entry \cup {None}]
    BY ValueAssumption DEF HonestDealing, Entry
  <2>4. entry' \in [Member -> Entry \cup {None}] /\ future' \in Version \cup {None}
    BY <1>1, <2>3, ValueAssumption, DealingAssumption DEF Deal, Version
  <2>5. meet' \subseteq Senders \X Senders
    BY <1>1, MeetAssumption DEF Deal
  <2>6. sent' = {0} /\ 0 \notin HonestCom1
    BY <1>1, Sizes DEF Deal, Send, SentInv, HonestCom1, Member
  <2>7. SentInv'
    BY <1>1, <2>6 DEF Deal, SentInv
  <2> QED
    BY <1>1, <2>2, <2>4, <2>5, <2>7 DEF Deal, com2, com3, com4
<1>2. ASSUME NEW i \in Member, Com1(i) PROVE TypeOK' /\ SentInv'
  <2>1. /\ sent' \subseteq Senders /\ relayed' \in [Senders -> Nat]
        /\ \A x \in Senders : relayed'[x] <= IF x \in sent' THEN QueueLength(x) ELSE 0
    <3>1. CASE Send(i)
      BY <3>1, SendType, MemberFinite
    <3>2. CASE UNCHANGED network
      BY <3>2 DEF network
    <3> QED
      BY <1>2, <3>1, <3>2 DEF Com1
  <2>2. /\ phase = "com1" /\ phase' = "com1" /\ UNCHANGED entry
        /\ sent' \subseteq sent \cup {i} /\ (i \in FaultyCom1 \/ entry[i] # None)
    BY <1>2 DEF Com1, MayRun, Serve, Send, network, deal
  <2>3. SentInv'
    BY <2>2 DEF SentInv, HonestCom1
  <2> QED
    BY <1>2, <2>1, <2>3 DEF Com1, MayRun, Serve, deal, com2, com3, com4
<1>3. ASSUME NEW i \in Member, Com1Refuses(i) \/ Com1Timeout(i) PROVE TypeOK' /\ SentInv'
  <2>1. /\ phase = "com1" /\ Fail(i) /\ UNCHANGED <<network, deal, com2, com3, taken, com4, full, secret>>
    BY <1>3 DEF Com1Refuses, Com1Timeout, MayRun
  <2> QED
    BY <1>a, <2>1 DEF Fail, network, deal, com2, com3, com4
<1>4. CASE Com1Done
  BY <1>a, <1>4 DEF Com1Done, Advance, network, deal, com2, com3, com4
<1>5. ASSUME NEW k \in Member, Com2(k) PROVE TypeOK' /\ SentInv'
  <2>1. /\ phase = "com2" /\ phase' \in {"com2", "failed"} /\ served' = served \cup {k}
        /\ erred' \in BOOLEAN
        /\ UNCHANGED <<network, deal, happy, com3, taken, com4, full, secret>>
    BY <1>5 DEF Com2, MayRun, Fail, Broadcast2, Serve
  <2>2. com2Msg' \in [Member -> Com2Item \cup {None}]
    <3>1. ASSUME NEW m \in Com2Item \cup {None}, Broadcast2(k, m)
          PROVE  com2Msg' \in [Member -> Com2Item \cup {None}]
      BY <3>1 DEF Broadcast2
    <3>2. CASE k \in FaultyCom2
      <4>1. Lie \in Com2Item /\ <<>> \in Com2Item
        <5>1. Lie \in Com2Item
          BY DEF Com2Item
        <5> QED
          BY <5>1, NothingType
      <4>2. PICK m \in {Lie, <<>>} \cup (IF Silence THEN {None} ELSE {}) : Broadcast2(k, m)
        BY <1>5, <3>2 DEF Com2
      <4>3. m \in {Lie, <<>>, None}
        OBVIOUS
      <4> QED
        BY <3>1, <4>1, <4>2, <4>3
    <3>3. CASE k \notin FaultyCom2
      <4>1. PICK claim \in Claimed :
              LET heard == Com2Heard(k, claim) IN
              IF \E s \in DOMAIN heard : heard[s] <= 0 THEN Fail(k) /\ UNCHANGED com2Msg
              ELSE Broadcast2(k, heard)
        BY <1>5, <3>3 DEF Com2
      <4>2. CASE UNCHANGED com2Msg
        BY <4>2
      <4>3. CASE /\ Broadcast2(k, Com2Heard(k, claim))
                 /\ \A s \in DOMAIN Com2Heard(k, claim) : ~(Com2Heard(k, claim)[s] <= 0)
        BY <3>1, <4>3, HeardType
      <4> QED
        BY <4>1, <4>2, <4>3
    <3> QED
      BY <3>2, <3>3
  <2> QED
    BY <1>a, <2>1, <2>2 DEF network, deal, com3, com4
<1>6. CASE Com2Done
  <2>1. happy' \subseteq Member
    BY <1>6, HappyType DEF Com2Done
  <2> QED
    BY <1>a, <1>6, <2>1 DEF Com2Done, Advance, DeliverRound, network, deal, com3, com4
<1>7. ASSUME NEW j \in Member, Com3Receive(j) PROVE TypeOK' /\ SentInv'
  <2>1. taken' \in [Member -> [Senders -> Nat] \cup {None}]
    BY <1>7 DEF Com3Receive
  <2>2. served' \subseteq Member /\ erred' \in BOOLEAN /\ full' \subseteq Party
        /\ phase' \in {"com3", "failed"}
    BY <1>7 DEF Com3Receive, MayRun, Fail
  <2> QED
    BY <1>a, <1>7, <2>1, <2>2 DEF Com3Receive, network, deal, com2, com3, com4
<1>8. ASSUME NEW j \in Member, Com3Perform(j) PROVE TypeOK' /\ SentInv'
  <2>1. PICK m \in Com3Item \cup {None} : com3Msg' = [com3Msg EXCEPT ![j] = m]
    <3>1. CASE j \in FaultyCom3
      <4>1. PICK m \in FaultyCom3Item(j) \cup (IF Silence THEN {None} ELSE {}) :
              com3Msg' = [com3Msg EXCEPT ![j] = m]
        BY <1>8, <3>1 DEF Com3Perform
      <4>2. m \in Com3Item \cup {None}
        BY FaultyItemType
      <4> QED
        BY <4>1, <4>2
    <3>2. CASE j \notin FaultyCom3
      <4>1. PICK m \in {Com3Reply(j, claim) : claim \in Claimed} :
              com3Msg' = [com3Msg EXCEPT ![j] = m]
        BY <1>8, <3>2 DEF Com3Perform
      <4>2. m \in Com3Item
        BY ReplyType
      <4> QED
        BY <4>1, <4>2
    <3> QED
      BY <3>1, <3>2
  <2> QED
    BY <1>a, <1>8, <2>1 DEF Com3Perform, MayRun, Serve, network, deal, com2, com4
<1>9. CASE Com3Done
  <2>1. verdict' \in Verdicts \cup {None}
    BY <1>9 DEF Com3Done
  <2> QED
    BY <1>a, <1>9, <2>1 DEF Com3Done, Advance, DeliverRound, network, deal, com2, com4
<1>10. ASSUME NEW k \in Member, Com4(k) PROVE TypeOK' /\ SentInv'
  <2>1. /\ full' \subseteq full /\ UNCHANGED <<network, deal, com2, com3, taken, secret>>
    BY <1>10 DEF Com4
  <2>2. /\ com4Result' \in [Member -> Version \cup {Zero, None}]
        /\ com4Index' \in [Member -> SUBSET Numbers]
        /\ phase = "com4" /\ phase' \in {"com4", "failed"}
        /\ served' = served \cup {k} /\ erred' \in BOOLEAN
    BY <1>10, Com4Type
  <2> QED
    BY <1>a, <2>1, <2>2 DEF network, deal, com2, com3
<1>11. CASE Com4Done
  BY <1>a, <1>11 DEF Com4Done, Advance, DeliverRound, network, deal, com2, com3, com4
<1>12. CASE Reconstruct
  <2>1. secret' \in Version \cup {Zero, None} /\ phase' \in {"failed", "done"}
    BY <1>12, RecoveredType DEF Reconstruct, Version
  <2> QED
    BY <1>a, <1>12, <2>1 DEF Reconstruct, network, deal, com2, com3, com4
<1>13. CASE Abort
  BY <1>a, <1>13 DEF Abort, network, deal, com2, com3, com4
<1>14. ASSUME NEW s \in Senders, Relay(s) PROVE TypeOK' /\ SentInv'
  <2>1. PICK count \in Nat : /\ count <= QueueLength(s)
                             /\ relayed' = [relayed EXCEPT ![s] = count]
    BY <1>14, Sizes, FaultAssumption DEF Relay
  <2>2. s \in sent /\ sent' = sent
    BY <1>14 DEF Relay
  <2> QED
    BY <1>a, <1>14, <2>1, <2>2 DEF Relay, deal, com2, com3, com4
<1>15. CASE UNCHANGED vars
  BY <1>a, <1>15 DEF vars
<1> QED
  BY <1>1, <1>2, <1>3, <1>4, <1>5, <1>6, <1>7, <1>8, <1>9, <1>10, <1>11, <1>12,
     <1>13, <1>14, <1>15 DEF Next, Step, Terminated

(* Every variable stays in its type, and no relay moves what was not sent. *)
THEOREM TypeCorrect == Spec => []TypeOK
<1>1. TypeInv => TypeOK
  BY DEF TypeInv
<1> QED
  BY <1>1, TypeInit, TypeStep, PTL DEF Spec

-----------------------------------------------------------------------------
(* The steps that the rest is about.  The others leave the dealing and all *)
(* broadcasts as they are.                                                 *)

Early == phase \in {"deal", "com1", "com2"}

Idle ==
  /\ UNCHANGED <<entry, meet, com2Msg, happy, com3Msg, taken, com4Result, com4Index, secret>>
  /\ \/ phase' = phase /\ (phase # "com1" => served' = served)
     \/ phase = "com1" /\ phase' = "com2"
     \/ phase = "com3" /\ phase' = "com4"
     \/ phase = "com4" /\ phase' = "recon"
     \/ phase \notin {"deal", "done"} /\ phase' = "failed"

LEMMA Steps ==
  ASSUME [Next]_vars
  PROVE  \/ Deal \/ Com2Done \/ Reconstruct \/ Idle
         \/ \E i \in Member : Com2(i) \/ Com3Receive(i) \/ Com3Perform(i) \/ Com4(i)
<1>1. ASSUME NEW i \in Member, Com1(i) PROVE Idle
  BY <1>1 DEF Com1, MayRun, Serve, Idle, deal, com2, com3, com4
<1>2. ASSUME NEW i \in Member, Com1Refuses(i) \/ Com1Timeout(i) PROVE Idle
  BY <1>2 DEF Com1Refuses, Com1Timeout, MayRun, Fail, Idle, deal, com2, com3, com4
<1>3. CASE Com1Done
  BY <1>3 DEF Com1Done, Advance, Idle, deal, com2, com3, com4
<1>4. CASE Com3Done
  BY <1>4 DEF Com3Done, Advance, Idle, deal, com2, com3, com4
<1>5. CASE Com4Done
  BY <1>5 DEF Com4Done, Advance, Idle, deal, com2, com3, com4
<1>6. CASE Abort
  BY <1>6 DEF Abort, Idle, deal, com2, com3, com4
<1>7. ASSUME NEW s \in Senders, Relay(s) PROVE Idle
  BY <1>7 DEF Relay, Idle, deal, com2, com3, com4
<1>8. CASE UNCHANGED vars
  BY <1>8 DEF vars, Idle, deal, com2, com3, com4
<1> QED
  BY <1>1, <1>2, <1>3, <1>4, <1>5, <1>6, <1>7, <1>8 DEF Next, Step, Terminated

LEMMA Com2Effect ==
  ASSUME NEW k \in Member, Com2(k)
  PROVE  /\ phase = "com2" /\ phase' \in {"com2", "failed"}
         /\ UNCHANGED <<entry, meet, happy, com3Msg, taken, com4Result, com4Index, secret>>
BY DEF Com2, MayRun, Broadcast2, Serve, Fail, deal, com3, com4

LEMMA Com2DoneEffect ==
  ASSUME Com2Done
  PROVE  /\ phase = "com2" /\ phase' = "com3"
         /\ UNCHANGED <<entry, meet, com2Msg, com3Msg, taken, com4Result, com4Index, secret>>
         /\ (\A k \in Member : com2Msg[k] # None) => happy' \in {Supporters(E) : E \in Agreements}
BY DEF Com2Done, Advance, deal, com3, com4

LEMMA Com3ReceiveEffect ==
  ASSUME NEW j \in Member, Com3Receive(j)
  PROVE  /\ phase = "com3" /\ phase' \in {"com3", "failed"}
         /\ UNCHANGED <<entry, meet, com2Msg, happy, com3Msg, com4Result, com4Index, secret>>
         /\ taken' = taken \/ \A k \in Member : com2Msg[k] # None
BY DEF Com3Receive, MayRun, Fail, deal, com2, com3, com4

LEMMA Com3PerformEffect ==
  ASSUME TypeOK, NEW j \in Member, Com3Perform(j)
  PROVE  /\ phase = "com3" /\ phase' = "com3"
         /\ UNCHANGED <<entry, meet, com2Msg, happy, com4Result, com4Index, secret>>
         /\ taken[j] # None /\ \A x \in Member \ {j} : com3Msg'[x] = com3Msg[x]
         /\ IF j \in FaultyCom3 THEN com3Msg'[j] \in FaultyCom3Item(j) \cup {None}
            ELSE com3Msg'[j] \in {Com3Reply(j, claim) : claim \in Claimed}
<1> DEFINE items == IF j \in FaultyCom3
                    THEN FaultyCom3Item(j) \cup (IF Silence THEN {None} ELSE {})
                    ELSE {Com3Reply(j, claim) : claim \in Claimed}
<1>1. PICK m \in items : com3Msg' = [com3Msg EXCEPT ![j] = m]
  BY DEF Com3Perform
<1>2. com3Msg'[j] = m /\ \A x \in Member \ {j} : com3Msg'[x] = com3Msg[x]
  BY <1>1 DEF TypeOK
<1>3. IF j \in FaultyCom3 THEN m \in FaultyCom3Item(j) \cup {None}
      ELSE m \in {Com3Reply(j, claim) : claim \in Claimed}
  BY <1>1
<1> HIDE DEF items
<1> QED
  BY <1>2, <1>3 DEF Com3Perform, MayRun, Serve, deal, com2, com4

LEMMA Com4Effect ==
  ASSUME TypeOK, NEW k \in Member, Com4(k)
  PROVE  /\ phase = "com4" /\ phase' \in {"com4", "failed"}
         /\ k \notin served /\ served' = served \cup {k}
         /\ UNCHANGED <<entry, meet, com2Msg, happy, com3Msg, taken, secret>>
         /\ \A x \in Member \ {k} : com4Result'[x] = com4Result[x] /\ com4Index'[x] = com4Index[x]
<1> DEFINE Goal == \A x \in Member \ {k} : com4Result'[x] = com4Result[x] /\ com4Index'[x] = com4Index[x]
<1>1. ASSUME NEW v, NEW X, Com4Share(k, v, X) PROVE Goal
  BY <1>1 DEF Com4Share, TypeOK
<1>2. ASSUME Com4Error(k) PROVE Goal
  BY <1>2 DEF Com4Error, com4
<1> HIDE DEF Goal
<1>3. ASSUME Com4Answer(k) PROVE Goal
  BY <1>1, <1>2, <1>3, Com4Cases
<1>4. Goal
  BY <1>1, <1>2, <1>3 DEF Com4
<1>5. phase = "com4" /\ k \notin served
  BY DEF Com4, MayRun
<1>6. UNCHANGED <<entry, meet, com2Msg, happy, com3Msg, taken, secret>>
  BY DEF Com4, deal, com2, com3
<1> QED
  BY <1>4, <1>5, <1>6, Com4Type DEF Goal

(* What an honest Com4 member gives out, if it gives out anything.         *)
Computed(k, v) ==
  LET u == UnhappySet IN
  /\ ~WorksetFails(u)
  /\ \/ ZeroShare(u) /\ v = Zero
     \/ /\ ~ZeroShare(u)
        /\ \E claim \in Claimed, lie \in [Untied -> Version \cup {None}] :
             LET points == RecipientPoints(u, k, claim, lie) IN
             /\ ~PointMissing(points)
             /\ v \in Decoded(points) \/ (Decoded(points) = {} /\ v = Junk)

LEMMA Com4Honest ==
  ASSUME TypeOK, NEW k \in HonestCom4, Com4(k)
  PROVE  \/ com4Result'[k] = com4Result[k] /\ com4Index'[k] = com4Index[k]
         \/ /\ \A j \in Member : com3Msg[j] # None
            /\ com4Index'[k] = {k} /\ Computed(k, com4Result'[k])
<1>1. k \in Member /\ (Com4Error(k) \/ (Com4Answer(k) /\ \A j \in Member : com3Msg[j] # None))
  BY DEF Com4, HonestCom4
<1>2. ASSUME NEW v, Com4Share(k, v, {k})
      PROVE  com4Result'[k] = v /\ com4Index'[k] = {k}
  BY <1>1, <1>2 DEF Com4Share, TypeOK
<1>3. CASE Com4Error(k)
  BY <1>3 DEF Com4Error, com4
<1>4. CASE Com4Answer(k) /\ ~Com4Error(k) /\ \A j \in Member : com3Msg[j] # None
  <2> DEFINE u == UnhappySet
  <2>1. CASE ~WorksetFails(u) /\ ZeroShare(u) /\ Com4Share(k, Zero, {k})
    BY <1>2, <1>4, <2>1 DEF Computed
  <2>2. ASSUME NEW claim \in Claimed, NEW lie \in [Untied -> Version \cup {None}], NEW v,
               ~WorksetFails(u) /\ ~ZeroShare(u), Com4Share(k, v, {k}),
               ~PointMissing(RecipientPoints(u, k, claim, lie)),
               \/ v \in Decoded(RecipientPoints(u, k, claim, lie))
               \/ Decoded(RecipientPoints(u, k, claim, lie)) = {} /\ v = Junk
        PROVE  com4Index'[k] = {k} /\ Computed(k, com4Result'[k])
    <3>1. com4Result'[k] = v /\ com4Index'[k] = {k}
      BY <1>2, <2>2
    <3> QED
      BY <2>2, <3>1 DEF Computed
  <2> HIDE DEF u
  <2> QED
    BY <1>1, <1>4, <2>1, <2>2, Com4Cases DEF u
<1> QED
  BY <1>1, <1>3, <1>4
-----------------------------------------------------------------------------
(* The order of things, and the verdict of Com3 on what Com2 showed.       *)

(* Nobody speaks out of turn.                                              *)
Order ==
  /\ phase # "deal" =>
       meet \in Meets /\ entry \in IF DealerHonest THEN {HonestDealing} ELSE Dealings
  /\ Early => \A j \in Member : com3Msg[j] = None /\ taken[j] = None
  /\ Early \/ phase = "com3" => \A k \in Member : com4Result[k] = None
  /\ phase = "com4" => \A k \in Member \ served : com4Result[k] = None
  /\ (\E j \in Member : com3Msg[j] # None \/ taken[j] # None) =>
       \A k \in Member : com2Msg[k] # None
  /\ phase # "done" => secret = None

(* The supporters are a clique that the Com2 round allows.                 *)
Shown ==
  /\ phase \in {"com3", "com4", "recon", "done"} \/ \E j \in Member : com3Msg[j] # None
  /\ \A k \in Member : com2Msg[k] # None
  => happy \in {Supporters(E) : E \in Agreements}

(* Honest Com3 members repeat the verdict and keep to themselves the cross *)
(* shares of whom it calls unhappy; of faulty ones the number of votes and *)
(* the Com3Seq are as Forged says.                                         *)
SpokenBy(j, m) ==
  /\ m \in Com3Item
  /\ j \in HonestCom3 =>
       /\ m.dq = IF Disqualified THEN {1} ELSE {}
       /\ m.unhappy = Unhappy \X {1}
       /\ \A o, p, n : <<o, p, n>> \in m.cross => o \notin Unhappy
  /\ j \in FaultyCom3 => m \in FaultyCom3Item(j)

Spoken == \A j \in Member : com3Msg[j] # None => SpokenBy(j, com3Msg[j])

CourseInv == Order /\ Shown /\ Spoken

LEMMA SameVerdict ==
  ASSUME UNCHANGED <<com2Msg, happy>>
  PROVE  /\ (Mentioned' <=> Mentioned) /\ (Disqualified' <=> Disqualified)
         /\ Unhappy' = Unhappy
BY DEF Mentioned, Disqualified, Unhappy

LEMMA SameAgreements ==
  ASSUME UNCHANGED <<entry, meet, com2Msg>>
  PROVE  Agreements' = Agreements /\ (Bindable' <=> Bindable) /\ Common' = Common
<1>1. Liars' = Liars /\ \A k, i : Source(k, i)' = Source(k, i)
  BY DEF Liars, Source
<1>2. \A e, s, t : Via(e, s, t)' = Via(e, s, t)
  BY <1>1 DEF Via
<1>3. \A e : Points(e)' = Points(e)
  BY <1>1 DEF Points
<1>4. \A a, b, e : Same(a, b, e)' <=> Same(a, b, e)
  BY DEF Same
<1>5. \A e, s, t : Cross(e, s, t)' <=> Cross(e, s, t)
  BY DEF Cross, Same
<1>6. \A e, s, t : Clear(e, s, t)' <=> Clear(e, s, t)
  BY <1>1, <1>2, <1>3 DEF Clear
<1>7. \A e : TooFew(e)' <=> TooFew(e)
  BY <1>1, <1>3 DEF TooFew
<1>8. \A e : (PairDiffers(e)' <=> PairDiffers(e)) /\ (PairAgrees(e)' <=> PairAgrees(e))
  BY <1>1, <1>2, <1>3, <1>5, <1>6, <1>7 DEF PairDiffers, PairAgrees
<1>9. Agreements' = Agreements
  BY <1>8 DEF Agreements
<1>10. Bindable' <=> Bindable
  BY <1>6 DEF Bindable, Same
<1>11. Common' = Common
  BY DEF Common, Same
<1> QED
  BY <1>9, <1>10, <1>11

LEMMA CourseInit == Init => CourseInv
<1> SUFFICES ASSUME Init PROVE CourseInv
  OBVIOUS
<1>1. /\ phase = "deal" /\ secret = None
      /\ \A j \in Member : com3Msg[j] = None /\ taken[j] = None /\ com4Result[j] = None
  BY DEF Init
<1> QED
  BY <1>1 DEF CourseInv, Order, Shown, Spoken

LEMMA OrderStep == TypeInv /\ Order /\ [Next]_vars => Order'
<1> SUFFICES ASSUME TypeOK, SentInv, Order, [Next]_vars PROVE Order'
  BY DEF TypeInv
<1>1. CASE Deal
  <2>1. /\ phase = "deal" /\ phase' = "com1"
        /\ UNCHANGED <<com2Msg, com3Msg, taken, com4Result, secret>>
        /\ meet' \in Meets /\ entry' \in IF DealerHonest THEN {HonestDealing} ELSE Dealings
    BY <1>1 DEF Deal, com2, com3, com4
  <2> QED
    BY <2>1 DEF Order, Early
<1>2. ASSUME NEW k \in Member, Com2(k) PROVE Order'
  <2>1. /\ phase = "com2" /\ phase' \in {"com2", "failed"}
        /\ UNCHANGED <<entry, meet, com3Msg, taken, com4Result, secret>>
    BY <1>2, Com2Effect
  <2> QED
    BY <2>1 DEF Order, Early
<1>3. CASE Com2Done
  <2>1. /\ phase = "com2" /\ phase' = "com3"
        /\ UNCHANGED <<entry, meet, com2Msg, com3Msg, taken, com4Result, secret>>
    BY <1>3, Com2DoneEffect
  <2> QED
    BY <2>1 DEF Order, Early
<1>4. ASSUME NEW j \in Member, Com3Receive(j) PROVE Order'
  <2>1. /\ phase = "com3" /\ phase' \in {"com3", "failed"}
        /\ UNCHANGED <<entry, meet, com2Msg, com3Msg, com4Result, secret>>
        /\ taken' = taken \/ \A k \in Member : com2Msg[k] # None
    BY <1>4, Com3ReceiveEffect
  <2> QED
    BY <2>1 DEF Order, Early
<1>5. ASSUME NEW j \in Member, Com3Perform(j) PROVE Order'
  <2>1. /\ phase = "com3" /\ phase' = "com3" /\ taken[j] # None
        /\ UNCHANGED <<entry, meet, com2Msg, com4Result, secret>>
    BY <1>5, Com3PerformEffect
  <2> QED
    BY <2>1 DEF Order, Early
<1>6. ASSUME NEW k \in Member, Com4(k) PROVE Order'
  <2>1. /\ phase = "com4" /\ phase' \in {"com4", "failed"} /\ served' = served \cup {k}
        /\ UNCHANGED <<entry, meet, com2Msg, com3Msg, taken, secret>>
        /\ \A x \in Member \ {k} : com4Result'[x] = com4Result[x]
    BY <1>6, Com4Effect
  <2> QED
    BY <2>1 DEF Order, Early
<1>7. CASE Reconstruct
  <2>1. /\ phase = "recon" /\ phase' \in {"done", "failed"}
        /\ UNCHANGED <<entry, meet, com2Msg, com3Msg, taken, com4Result>>
        /\ (phase' = "failed" => secret' = secret)
    BY <1>7 DEF Reconstruct, deal, com2, com3, com4
  <2> QED
    BY <2>1 DEF Order, Early
<1>8. CASE Idle
  <2>1. UNCHANGED <<entry, meet, com2Msg, com3Msg, taken, com4Result, secret>>
    BY <1>8 DEF Idle
  <2>2. CASE phase' = phase /\ (phase # "com1" => served' = served)
    BY <2>1, <2>2 DEF Order, Early
  <2>3. CASE \/ phase = "com1" /\ phase' = "com2"
             \/ phase = "com3" /\ phase' = "com4"
             \/ phase = "com4" /\ phase' = "recon"
             \/ phase \notin {"deal", "done"} /\ phase' = "failed"
    <3>2. CASE phase = "com1" /\ phase' = "com2"
      BY <2>1, <3>2 DEF Order, Early
    <3>3. CASE phase = "com3" /\ phase' = "com4"
      BY <2>1, <3>3 DEF Order, Early
    <3>4. CASE phase = "com4" /\ phase' = "recon"
      BY <2>1, <3>4 DEF Order, Early
    <3>5. CASE phase \notin {"deal", "done"} /\ phase' = "failed"
      BY <2>1, <3>5 DEF Order, Early
    <3> QED
      BY <2>3, <3>2, <3>3, <3>4, <3>5
  <2> QED
    BY <1>8, <2>2, <2>3 DEF Idle
<1> QED
  BY <1>1, <1>2, <1>3, <1>4, <1>5, <1>6, <1>7, <1>8, Steps

(* A step that shows Com3 nothing new.                                     *)
LEMMA ShownIdle ==
  ASSUME Shown, UNCHANGED <<entry, meet, com2Msg, happy>>,
         /\ phase' \in {"com3", "com4", "recon", "done"} \/ \E j \in Member : com3Msg'[j] # None
         => phase \in {"com3", "com4", "recon", "done"} \/ \E j \in Member : com3Msg[j] # None
  PROVE  Shown'
<1> DEFINE all == {Supporters(E) : E \in Agreements}
<1>1. all' = all
  BY SameAgreements
<1>2. Shown = (/\ phase \in {"com3", "com4", "recon", "done"} \/ \E j \in Member : com3Msg[j] # None
               /\ \A k \in Member : com2Msg[k] # None
               => happy \in all)
  BY DEF Shown
<1>3. Shown' = (/\ phase' \in {"com3", "com4", "recon", "done"} \/ \E j \in Member : com3Msg'[j] # None
                /\ \A k \in Member : com2Msg'[k] # None
                => happy' \in all')
  BY DEF Shown
<1> HIDE DEF all
<1> QED
  BY <1>1, <1>2, <1>3

LEMMA ShownStep == TypeInv /\ Order /\ Shown /\ [Next]_vars => Shown'
<1> SUFFICES ASSUME TypeOK, Order, Shown, [Next]_vars PROVE Shown'
  BY DEF TypeInv
<1>1. ASSUME Early, phase' \in {"deal", "com1", "com2", "failed"}, com3Msg' = com3Msg
      PROVE  Shown'
  <2>1. \A j \in Member : com3Msg'[j] = None
    BY <1>1 DEF Order
  <2> QED
    BY <1>1, <2>1 DEF Shown
<1>2. CASE Deal
  BY <1>1, <1>2 DEF Deal, com3, Early
<1>3. ASSUME NEW k \in Member, Com2(k) PROVE Shown'
  BY <1>1, <1>3, Com2Effect DEF Early
<1>4. CASE Com2Done
  <2>1. UNCHANGED <<entry, meet, com2Msg>>
    BY <1>4, Com2DoneEffect
  <2>2. (\A k \in Member : com2Msg[k] # None) => happy' \in {Supporters(E) : E \in Agreements}
    BY <1>4, Com2DoneEffect
  <2> DEFINE all == {Supporters(E) : E \in Agreements}
  <2>3. all' = all
    BY <2>1, SameAgreements
  <2>4. (\A k \in Member : com2Msg'[k] # None) => happy' \in all'
    BY <2>1, <2>2, <2>3
  <2> QED
    BY <2>4 DEF Shown
<1>5. ASSUME NEW j \in Member, Com3Receive(j) PROVE Shown'
  BY <1>5, Com3ReceiveEffect, ShownIdle
<1>6. ASSUME NEW j \in Member, Com3Perform(j) PROVE Shown'
  <2>1. phase = "com3" /\ UNCHANGED <<entry, meet, com2Msg, happy>>
    BY <1>6, Com3PerformEffect
  <2> QED
    BY <2>1, ShownIdle
<1>7. ASSUME NEW k \in Member, Com4(k) PROVE Shown'
  <2>1. phase = "com4" /\ UNCHANGED <<entry, meet, com2Msg, happy>>
    BY <1>7, Com4Effect
  <2> QED
    BY <2>1, ShownIdle
<1>8. CASE Reconstruct
  BY <1>8, ShownIdle DEF Reconstruct, deal, com2
<1>9. CASE Idle
  <2>1. CASE Early
    BY <1>1, <1>9, <2>1 DEF Idle, Early
  <2>2. CASE phase = "failed"
    BY <1>9, <2>2, ShownIdle DEF Idle
  <2>3. CASE phase \in {"com3", "com4", "recon", "done"}
    BY <1>9, <2>3, ShownIdle DEF Idle
  <2> QED
    BY <2>1, <2>2, <2>3 DEF TypeOK, Early
<1> QED
  BY <1>2, <1>3, <1>4, <1>5, <1>6, <1>7, <1>8, <1>9, Steps

LEMMA SpokenStep == TypeInv /\ Order /\ Spoken /\ [Next]_vars => Spoken'
<1> SUFFICES ASSUME TypeOK, Order, Spoken, [Next]_vars PROVE Spoken'
  BY DEF TypeInv
<1>1. ASSUME Early, com3Msg' = com3Msg PROVE Spoken'
  BY <1>1 DEF Order, Spoken
<1>2. ASSUME UNCHANGED <<com2Msg, happy>>, NEW j \in Member, com3Msg'[j] = com3Msg[j],
             com3Msg'[j] # None
      PROVE  SpokenBy(j, com3Msg[j])'
  <2> DEFINE m == com3Msg[j]
  <2>1. SpokenBy(j, m) /\ m' = m
    BY <1>2 DEF Spoken
  <2>2. SpokenBy(j, m)' <=> SpokenBy(j, m)
    BY <1>2, SameVerdict DEF SpokenBy
  <2> QED
    BY <2>1, <2>2
<1>3. ASSUME UNCHANGED <<com2Msg, happy, com3Msg>> PROVE Spoken'
  BY <1>2, <1>3 DEF Spoken
<1>4. CASE Deal
  BY <1>1, <1>4 DEF Deal, com3, Early
<1>5. ASSUME NEW k \in Member, Com2(k) PROVE Spoken'
  BY <1>1, <1>5, Com2Effect DEF Early
<1>6. CASE Com2Done
  BY <1>1, <1>6, Com2DoneEffect DEF Early
<1>7. ASSUME NEW j \in Member, Com3Receive(j) PROVE Spoken'
  BY <1>3, <1>7, Com3ReceiveEffect
<1>8. ASSUME NEW j \in Member, Com3Perform(j) PROVE Spoken'
  <2>1. /\ UNCHANGED <<com2Msg, happy>>
        /\ \A x \in Member \ {j} : com3Msg'[x] = com3Msg[x]
        /\ IF j \in FaultyCom3 THEN com3Msg'[j] \in FaultyCom3Item(j) \cup {None}
           ELSE com3Msg'[j] \in {Com3Reply(j, claim) : claim \in Claimed}
    BY <1>8, Com3PerformEffect
  <2>2. CASE j \in FaultyCom3 /\ com3Msg'[j] # None
    <3>1. com3Msg'[j] \in FaultyCom3Item(j)
      BY <2>1, <2>2
    <3>2. com3Msg'[j] \in Com3Item /\ j \notin HonestCom3
      BY <2>2, <3>1, FaultyItemType DEF HonestCom3
    <3>3. SpokenBy(j, com3Msg[j])'
      BY <3>1, <3>2 DEF SpokenBy
    <3> QED
      BY <1>2, <2>1, <3>3 DEF Spoken
  <2>3. CASE j \notin FaultyCom3
    <3>1. PICK claim \in Claimed : com3Msg'[j] = Com3Reply(j, claim)
      BY <2>1, <2>3
    <3> DEFINE m == Com3Reply(j, claim)
    <3>2. m \in Com3Item /\ m.dq = (IF Disqualified THEN {1} ELSE {}) /\ m.unhappy = Unhappy \X {1}
      BY ReplyType DEF Com3Reply
    <3>3. \A o, p, n : <<o, p, n>> \in m.cross => o \notin Unhappy
      BY DEF Com3Reply
    <3> HIDE DEF m
    <3>4. SpokenBy(j, com3Msg[j])'
      BY <2>1, <2>3, <3>1, <3>2, <3>3, SameVerdict DEF SpokenBy, m
    <3> QED
      BY <1>2, <2>1, <3>4 DEF Spoken
  <2>4. CASE com3Msg'[j] = None
    BY <1>2, <2>1, <2>4 DEF Spoken
  <2> QED
    BY <2>2, <2>3, <2>4
<1>9. ASSUME NEW k \in Member, Com4(k) PROVE Spoken'
  BY <1>3, <1>9, Com4Effect
<1>10. CASE Reconstruct
  BY <1>3, <1>10 DEF Reconstruct, com2, com3
<1>11. CASE Idle
  BY <1>3, <1>11 DEF Idle
<1> QED
  BY <1>4, <1>5, <1>6, <1>7, <1>8, <1>9, <1>10, <1>11, Steps

LEMMA CourseHolds == Spec => [](TypeInv /\ CourseInv)
<1>1. TypeInv /\ CourseInv /\ [Next]_vars => CourseInv'
  BY OrderStep, ShownStep, SpokenStep DEF CourseInv
<1> QED
  BY <1>1, TypeInit, TypeStep, CourseInit, PTL DEF Spec
-----------------------------------------------------------------------------
(* Votes.                                                                  *)

(* A set that holds all honest members of a committee reaches the          *)
(* threshold, a set of faulty members does not.                            *)
LEMMA HonestReach ==
  ASSUME NEW X \in {FaultyCom1, FaultyCom2, FaultyCom3, FaultyCom4},
         NEW S \in SUBSET Member, Member \ X \subseteq S
  PROVE  Cardinality(S) >= Threshold
<1>1. IsFiniteSet(X) /\ X \subseteq Member /\ Cardinality(X) <= D
  BY FaultyFinite
<1>2. IsFiniteSet(Member \ X) /\ Cardinality(Member \ X) = N - Cardinality(X)
  BY <1>1, MemberFinite, FS_Difference, Member \cap X = X
<1>3. IsFiniteSet(S) /\ Cardinality(Member \ X) <= Cardinality(S)
  BY MemberFinite, FS_Subset
<1>4. Cardinality(X) \in Nat /\ Cardinality(S) \in Nat
  BY <1>1, <1>3, FS_CardinalityType
<1> QED
  BY <1>1, <1>2, <1>3, <1>4, Sizes

LEMMA FaultyMiss ==
  ASSUME NEW X \in {FaultyCom1, FaultyCom2, FaultyCom3, FaultyCom4},
         NEW S, S \subseteq X
  PROVE  ~(Cardinality(S) >= Threshold)
<1>1. IsFiniteSet(X) /\ Cardinality(X) <= D
  BY FaultyFinite
<1>2. Cardinality(S) <= Cardinality(X) /\ Cardinality(S) \in Nat /\ Cardinality(X) \in Nat
  BY <1>1, FS_Subset, FS_CardinalityType
<1> QED
  BY <1>1, <1>2, Sizes

LEMMA HonestMember ==
  ASSUME NEW X \in {FaultyCom1, FaultyCom2, FaultyCom3, FaultyCom4}
  PROVE  \E j \in Member : j \notin X
<1> SUFFICES ASSUME Member \subseteq X PROVE FALSE
  OBVIOUS
<1>1. Cardinality({}) >= Threshold
  BY HonestReach
<1> QED
  BY <1>1, FS_EmptySet, Sizes


LEMMA VoteCount ==
  ASSUME NEW V \in SUBSET (Member \X Repeat)
  PROVE  /\ HonestCom3 \X {1} \subseteq V => Cardinality(V) >= Threshold
         /\ V \subseteq FaultyCom3 \X {1} => ~(Cardinality(V) >= Threshold)
<1>1. IsFiniteSet(V)
  <2>1. IsFiniteSet(Repeat)
    BY Sizes, FS_Interval DEF Repeat
  <2>2. IsFiniteSet(Member \X Repeat)
    BY <2>1, MemberFinite, FS_Product
  <2> QED
    BY <2>2, FS_Subset
<1>2. Cardinality({1}) = 1 /\ IsFiniteSet({1})
  BY FS_Singleton
<1>3. ASSUME NEW S \in SUBSET Member
      PROVE  IsFiniteSet(S \X {1}) /\ Cardinality(S \X {1}) = Cardinality(S)
  <2>1. IsFiniteSet(S) /\ Cardinality(S) \in Nat
    BY MemberFinite, FS_Subset, FS_CardinalityType
  <2>2. IsFiniteSet(S \X {1}) /\ Cardinality(S \X {1}) = Cardinality(S) * Cardinality({1})
    BY <1>2, <2>1, FS_Product
  <2> QED
    BY <1>2, <2>1, <2>2
<1>4. ASSUME HonestCom3 \X {1} \subseteq V PROVE Cardinality(V) >= Threshold
  <2>1. HonestCom3 \in SUBSET Member /\ Cardinality(HonestCom3) >= Threshold
    BY HonestReach DEF HonestCom3
  <2>2. Cardinality(HonestCom3 \X {1}) = Cardinality(HonestCom3)
    BY <1>3, <2>1
  <2>3. Cardinality(HonestCom3 \X {1}) <= Cardinality(V)
    BY <1>1, <1>4, FS_Subset
  <2>4. Cardinality(V) \in Nat /\ Cardinality(HonestCom3) \in Nat
    BY <1>1, <2>1, MemberFinite, FS_Subset, FS_CardinalityType
  <2> QED
    BY <2>1, <2>2, <2>3, <2>4, Sizes
<1>5. ASSUME V \subseteq FaultyCom3 \X {1} PROVE ~(Cardinality(V) >= Threshold)
  <2>1. FaultyCom3 \in SUBSET Member /\ ~(Cardinality(FaultyCom3) >= Threshold)
    BY FaultyMiss, FaultyFinite
  <2>2. IsFiniteSet(FaultyCom3 \X {1}) /\ Cardinality(FaultyCom3 \X {1}) = Cardinality(FaultyCom3)
    BY <1>3, <2>1
  <2>3. Cardinality(V) <= Cardinality(FaultyCom3 \X {1})
    BY <1>5, <2>2, FS_Subset
  <2>4. Cardinality(V) \in Nat /\ Cardinality(FaultyCom3) \in Nat
    BY <1>1, FaultyFinite, FS_CardinalityType
  <2> QED
    BY <2>1, <2>2, <2>3, <2>4, Sizes
<1> QED
  BY <1>4, <1>5

(* Members that name nothing twice are counted as members: Com4 finds the  *)
(* verdict of the honest Com3 members.                                     *)
LEMMA Votes ==
  ASSUME Spoken, "Votes" \notin Forged, \A j \in Member : com3Msg[j] # None
  PROVE  UnhappySet = Unhappy /\ (Cardinality(DqVotes) >= Threshold <=> Disqualified)
<1>1. \A j \in Member : SpokenBy(j, com3Msg[j])
  BY DEF Spoken
<1>2. \A j \in HonestCom3 : /\ com3Msg[j].dq = IF Disqualified THEN {1} ELSE {}
                            /\ com3Msg[j].unhappy = Unhappy \X {1}
  BY <1>1 DEF SpokenBy, HonestCom3
<1>3. \A j \in Member : com3Msg[j].dq \subseteq {1} /\ com3Msg[j].unhappy \subseteq Member \X {1}
  <2>1. ASSUME NEW j \in FaultyCom3
        PROVE  com3Msg[j].dq \subseteq {1} /\ com3Msg[j].unhappy \subseteq Member \X {1}
    <3>1. j \in Member /\ com3Msg[j] \in FaultyCom3Item(j)
      BY <1>1, FaultyFinite DEF SpokenBy
    <3> QED
      BY <3>1, FaultyItemType
  <2>2. Unhappy \subseteq Member
    BY DEF Unhappy
  <2> QED
    BY <1>2, <2>1, <2>2 DEF HonestCom3
<1>4. 1 \in Repeat
  BY Sizes DEF Repeat
<1>5. Cardinality(DqVotes) >= Threshold <=> Disqualified
  <2>1. DqVotes \in SUBSET (Member \X Repeat)
    BY DEF DqVotes
  <2>2. Disqualified => HonestCom3 \X {1} \subseteq DqVotes
    BY <1>2, <1>4 DEF DqVotes, HonestCom3
  <2>3. ~Disqualified => DqVotes \subseteq FaultyCom3 \X {1}
    <3> SUFFICES ASSUME ~Disqualified, NEW v \in DqVotes PROVE v \in FaultyCom3 \X {1}
      OBVIOUS
    <3>1. v \in Member \X Repeat /\ v[2] \in com3Msg[v[1]].dq
      BY DEF DqVotes
    <3>2. v[2] = 1 /\ v[1] \notin HonestCom3
      BY <1>2, <1>3, <3>1
    <3> QED
      BY <3>1, <3>2 DEF HonestCom3
  <2> QED
    BY <2>1, <2>2, <2>3, VoteCount
<1>6. ASSUME NEW i \in Member PROVE Cardinality(UnhappyVotes(i)) >= Threshold <=> i \in Unhappy
  <2>1. UnhappyVotes(i) \in SUBSET (Member \X Repeat)
    BY DEF UnhappyVotes
  <2>2. i \in Unhappy => HonestCom3 \X {1} \subseteq UnhappyVotes(i)
    BY <1>2, <1>4 DEF UnhappyVotes, HonestCom3
  <2>3. i \notin Unhappy => UnhappyVotes(i) \subseteq FaultyCom3 \X {1}
    <3> SUFFICES ASSUME i \notin Unhappy, NEW v \in UnhappyVotes(i) PROVE v \in FaultyCom3 \X {1}
      OBVIOUS
    <3>1. v \in Member \X Repeat /\ <<i, v[2]>> \in com3Msg[v[1]].unhappy
      BY DEF UnhappyVotes
    <3>2. v[2] = 1 /\ v[1] \notin HonestCom3
      BY <1>2, <1>3, <3>1
    <3> QED
      BY <3>1, <3>2 DEF HonestCom3
  <2> QED
    BY <2>1, <2>2, <2>3, VoteCount
<1>7. UnhappySet = Unhappy
  BY <1>6 DEF UnhappySet, Unhappy
<1> QED
  BY <1>5, <1>7

(* Of an owner that honest Com3 members call unhappy they open no cross    *)
(* shares, and D others do not fill a bucket: the dealer is disqualified.  *)
LEMMA UnhappyZero ==
  ASSUME Spoken, OneVoice, \A j \in Member : com3Msg[j] # None,
         Unhappy # {}, ~WorksetFails(Unhappy)
  PROVE  ZeroShare(Unhappy)
<1> SUFFICES ASSUME ~DisqualifiedByVote(Unhappy) PROVE AdditionalDQ(Unhappy)
  BY DEF ZeroShare
<1>1. PICK o \in Unhappy : TRUE
  OBVIOUS
<1>2. ASSUME NEW p \in Member \ Unhappy PROVE CrossShares(o, p) = {}
  <2>1. CrossShares(o, p) \subseteq FaultyCom3
    <3> SUFFICES ASSUME NEW n \in CrossShares(o, p) PROVE n \in FaultyCom3
      OBVIOUS
    <3>1. PICK j \in Member : <<o, p, n>> \in com3Msg[j].cross
      BY DEF CrossShares
    <3>2. SpokenBy(j, com3Msg[j])
      BY DEF Spoken
    <3>3. j \in FaultyCom3
      BY <3>1, <3>2 DEF SpokenBy, HonestCom3
    <3>4. com3Msg[j] \in FaultyCom3Item(j) /\ "Com3Seq" \notin Forged
      BY <3>2, <3>3 DEF SpokenBy, OneVoice
    <3>5. n = j
      BY <3>1, <3>4, FaultyItemType
    <3> QED
      BY <3>3, <3>5
  <2>2. Cardinality(CrossShares(o, p)) <= D
    <3>1. IsFiniteSet(FaultyCom3) /\ Cardinality(FaultyCom3) <= D
      BY FaultyFinite
    <3>2. /\ Cardinality(CrossShares(o, p)) <= Cardinality(FaultyCom3)
          /\ Cardinality(CrossShares(o, p)) \in Nat /\ Cardinality(FaultyCom3) \in Nat
      BY <2>1, <3>1, FS_Subset, FS_CardinalityType
    <3> QED
      BY <3>1, <3>2, Sizes
  <2>3. ~BucketFails(CrossShares(o, p))
    BY <1>2 DEF WorksetFails
  <2> QED
    BY <2>2, <2>3 DEF BucketFails
<1>3. {p \in Member \ Unhappy : CrossConsistent(o, p)} = {}
  BY <1>2 DEF CrossConsistent
<1>4. ~(Cardinality({}) >= Threshold) /\ Cardinality({}) = 0
  BY FS_EmptySet, Sizes
<1>5. Cardinality({p \in Member \ Unhappy : CrossConsistent(o, p)}) < Threshold
  BY <1>3, <1>4, Sizes
<1> QED
  BY <1>1, <1>5 DEF AdditionalDQ

(* Zero or not, as the verdict has it.                                     *)
LEMMA ComputedZero ==
  ASSUME Spoken, "Votes" \notin Forged, \A j \in Member : com3Msg[j] # None,
         NEW k \in Member, NEW v, Computed(k, v)
  PROVE  /\ Disqualified \/ (OneVoice /\ Unhappy # {}) => v = Zero
         /\ ~Disqualified /\ Unhappy = {} => v \in Version /\ v # Zero
<1>1. UnhappySet = Unhappy /\ (Cardinality(DqVotes) >= Threshold <=> Disqualified)
  BY Votes
<1>2. ~WorksetFails(Unhappy) /\ (ZeroShare(Unhappy) => v = Zero)
  BY <1>1 DEF Computed
<1>3. Disqualified => ZeroShare(Unhappy)
  BY <1>1 DEF ZeroShare, DisqualifiedByVote
<1>4. OneVoice /\ Unhappy # {} => ZeroShare(Unhappy)
  BY <1>2, UnhappyZero
<1>5. ASSUME ~Disqualified, Unhappy = {} PROVE v \in Version /\ v # Zero
  <2>1. ~(Cardinality({}) > D)
    BY FS_EmptySet, Sizes
  <2>2. ~ZeroShare(Unhappy)
    BY <1>1, <1>5, <2>1 DEF ZeroShare, DisqualifiedByVote, AdditionalDQ
  <2>3. \A points : Decoded(points) \subseteq Version
    BY DEF Decoded, Version
  <2>4. v \in Version
    BY <1>1, <2>2, <2>3 DEF Computed, Version
  <2> QED
    BY <2>4, ValueAssumption
<1> QED
  BY <1>2, <1>3, <1>4, <1>5
-----------------------------------------------------------------------------
(* What an honest Com4 member decodes.                                     *)

(* Versions that agree at more than D points of a line agree on all of it. *)
LEMMA LineFull ==
  ASSUME meet \in Meets, NEW l \in Line, NEW I, NEW f \in Injection(I, l \cap meet),
         IsFiniteSet(I), Cardinality(I) > D
  PROVE  l \subseteq meet
<1>1. IsFiniteSet(l)
  <2>1. IsFiniteSet(Senders)
    BY Sizes, FS_Interval DEF Senders
  <2>2. ASSUME NEW x \in Senders
        PROVE  IsFiniteSet({x} \X Senders) /\ IsFiniteSet(Senders \X {x})
    <3>1. IsFiniteSet({x})
      BY FS_Singleton
    <3> QED
      BY <2>1, <3>1, FS_Product
  <2> QED
    BY <2>2 DEF Line
<1>2. IsFiniteSet(l \cap meet)
  BY <1>1, FS_Intersection
<1>3. Cardinality(I) <= Cardinality(l \cap meet)
  BY <1>2, FS_Injection
<1>4. Cardinality(I) \in Nat /\ Cardinality(l \cap meet) \in Nat
  BY <1>2, FS_CardinalityType
<1>5. ~(Cardinality(l \cap meet) <= D)
  BY <1>3, <1>4, Sizes
<1> QED
  BY <1>5, MeetAssumption

LEMMA ColumnFull ==
  ASSUME meet \in Meets, NEW h \in Senders, NEW I \in SUBSET Member,
         Cardinality(I) > D, \A i \in I : <<i, h>> \in meet
  PROVE  <<0, h>> \in meet
<1> DEFINE l == Senders \X {h}
           f == [i \in I |-> <<i, h>>]
<1>1. l \in Line /\ <<0, h>> \in l
  BY Sizes DEF Line, Senders
<1>2. f \in Injection(I, l \cap meet)
  BY MemberFinite DEF Injection, IsInjective
<1>3. IsFiniteSet(I)
  BY MemberFinite, FS_Subset
<1> HIDE DEF f, l
<1> QED
  BY <1>1, <1>2, <1>3, LineFull

LEMMA ShareLineFull ==
  ASSUME meet \in Meets, NEW I \in SUBSET Member,
         Cardinality(I) > D, \A i \in I : <<0, i>> \in meet
  PROVE  \A y \in Senders : <<0, y>> \in meet
<1> DEFINE l == {0} \X Senders
           f == [i \in I |-> <<0, i>>]
<1>1. l \in Line /\ \A y \in Senders : <<0, y>> \in l
  BY Sizes DEF Line, Senders
<1>2. f \in Injection(I, l \cap meet)
  BY MemberFinite DEF Injection, IsInjective
<1>3. IsFiniteSet(I)
  BY MemberFinite, FS_Subset
<1> HIDE DEF f, l
<1> QED
  BY <1>1, <1>2, <1>3, LineFull

(* What is left of the honest Com1 members without a few of them.          *)
LEMMA HonestLeft ==
  ASSUME NEW S \in SUBSET HonestCom1, NEW c \in Nat, Cardinality(S) <= c
  PROVE  Cardinality(HonestCom1 \ S) \in Nat /\ Cardinality(HonestCom1 \ S) >= N - D - c
<1>1. IsFiniteSet(FaultyCom1) /\ FaultyCom1 \subseteq Member /\ Cardinality(FaultyCom1) <= D
  BY FaultyFinite
<1>2. /\ IsFiniteSet(HonestCom1)
      /\ Cardinality(HonestCom1) = N - Cardinality(FaultyCom1)
  BY <1>1, MemberFinite, FS_Difference, Member \cap FaultyCom1 = FaultyCom1 DEF HonestCom1
<1>3. IsFiniteSet(S) /\ HonestCom1 \cap S = S
  BY <1>2, FS_Subset
<1>4. /\ IsFiniteSet(HonestCom1 \ S)
      /\ Cardinality(HonestCom1 \ S) = Cardinality(HonestCom1) - Cardinality(S)
  <2>1. /\ IsFiniteSet(HonestCom1 \ S)
        /\ Cardinality(HonestCom1 \ S) = Cardinality(HonestCom1) - Cardinality(HonestCom1 \cap S)
    BY <1>2, FS_Difference
  <2> QED
    BY <1>3, <2>1
<1>5. /\ Cardinality(FaultyCom1) \in Nat /\ Cardinality(S) \in Nat
      /\ Cardinality(HonestCom1 \ S) \in Nat
  BY <1>1, <1>3, <1>4, FS_CardinalityType
<1> QED
  BY <1>1, <1>2, <1>4, <1>5, Sizes

(* A dealing whose honest Com1 members speak for themselves to Com4.       *)
Proper == \A i \in HonestCom1 : entry[i].id = i /\ ~entry[i].raw

(* When nobody is unhappy all but D points of the decode are the columns   *)
(* of honest Com1 members: a faulty one speaks for one member at a time.   *)
LEMMA HonestPoints ==
  ASSUME Proper, NEW k \in Member, NEW claim \in Claimed, NEW lie,
         ~PointMissing(RecipientPoints({}, k, claim, lie))
  PROVE  \E B \in SUBSET Member :
           /\ Cardinality(B) <= D
           /\ \A i \in Member \ B :
                i \in HonestCom1 /\ RecipientPoints({}, k, claim, lie)[i] = entry[i].col
<1> DEFINE points == RecipientPoints({}, k, claim, lie)
           from(i) == {s \in Member : Arrived(s, Com1ToCom4(k)) /\ Com1ID(s, claim) = i}
           S(i) == Latest(from(i))
           right(i) == i \in HonestCom1 /\ points[i] = entry[i].col
           B == {i \in Member : ~right(i)}
           f == [i \in B |-> S(i)]
<1>1. ASSUME NEW i \in Member
      PROVE  /\ S(i) \in from(i)
             /\ points[i] = IF S(i) \in Untied THEN lie[S(i)] ELSE entry[S(i)].col
  <2>1. points[i] = IF S(i) = 0 THEN None
                    ELSE IF S(i) \in Untied THEN lie[S(i)] ELSE entry[S(i)].col
    BY DEF RecipientPoints, RecipientPoint
  <2>2. points[i] # None
    BY DEF PointMissing
  <2>3. S(i) # 0
    BY <2>1, <2>2
  <2>4. S(i) \in from(i)
    BY <2>3, LatestIn
  <2> QED
    BY <2>1, <2>3, <2>4
<1>2. ASSUME NEW i \in Member, S(i) \notin FaultyCom1 PROVE right(i)
  <2>1. S(i) \in HonestCom1 /\ Com1ID(S(i), claim) = i
    BY <1>1, <1>2 DEF HonestCom1
  <2>2. S(i) = i
    BY <2>1 DEF Proper, Com1ID, HonestCom1
  <2>3. S(i) \notin Untied
    BY <2>1 DEF Untied, Proper, HonestCom1
  <2> HIDE DEF S, points
  <2> QED
    BY <1>1, <2>1, <2>2, <2>3
<1>3. f \in Injection(B, FaultyCom1)
  <2>1. \A i \in B : S(i) \in FaultyCom1
    BY <1>2
  <2>2. \A i \in B : claim[S(i)] = i
    <3> SUFFICES ASSUME NEW i \in B PROVE claim[S(i)] = i
      OBVIOUS
    <3>1. S(i) \in FaultyCom1 /\ S(i) \in from(i)
      BY <1>1, <2>1
    <3> QED
      BY <3>1 DEF Com1ID
  <2> HIDE DEF S, B
  <2> QED
    BY <2>1, <2>2 DEF Injection, IsInjective
<1>4. Cardinality(B) <= D
  <2>1. IsFiniteSet(FaultyCom1) /\ Cardinality(FaultyCom1) <= D
    BY FaultyFinite
  <2> HIDE DEF f, B
  <2>2. IsFiniteSet(B) /\ Cardinality(B) <= Cardinality(FaultyCom1)
    <3>1. Cardinality(B) <= Cardinality(FaultyCom1)
      BY <1>3, <2>1, FS_Injection
    <3>2. IsFiniteSet(B)
      BY MemberFinite, FS_Subset DEF B
    <3> QED
      BY <3>1, <3>2
  <2>3. Cardinality(B) \in Nat /\ Cardinality(FaultyCom1) \in Nat
    BY <2>1, <2>2, FS_CardinalityType
  <2> QED
    BY <2>1, <2>2, <2>3, Sizes
<1>5. \A i \in Member \ B : right(i)
  OBVIOUS
<1> HIDE DEF B
<1>6. B \in SUBSET Member
  BY DEF B
<1> QED
  BY <1>4, <1>5, <1>6

(* Every polynomial of Common is decoded, and nothing else: what is        *)
(* decoded agrees with it at more than D points of the share line.         *)
LEMMA DecodedCommon ==
  ASSUME meet \in Meets, NEW c \in Common, NEW points, NEW B \in SUBSET Member,
         Cardinality(B) <= D,
         \A i \in Member \ B : i \in HonestCom1 /\ points[i] = entry[i].col
  PROVE  c \in Decoded(points) /\ Decoded(points) \subseteq Common
<1>1. IsFiniteSet(B) /\ Cardinality(B) \in Nat
  BY MemberFinite, FS_Subset, FS_CardinalityType
<1>2. c \in Poly /\ \A i \in HonestCom1 : Same(entry[i].col, c, <<0, i>>)
  BY DEF Common
<1>3. Errors(N) \in Nat /\ D <= Errors(N) /\ N - Errors(N) - D > D
  BY SizeAssumption DEF Errors
<1>4. c \in Decoded(points)
  <2> DEFINE wrong == {i \in Member : ~Same(points[i], c, <<0, i>>)}
  <2>1. wrong \subseteq B
    BY <1>2 DEF Same
  <2> HIDE DEF wrong
  <2>2. Cardinality(wrong) <= Cardinality(B) /\ IsFiniteSet(wrong)
    BY <1>1, <2>1, FS_Subset
  <2>3. Cardinality(wrong) \in Nat
    BY <2>2, FS_CardinalityType
  <2>4. Cardinality(wrong) <= Errors(N)
    BY <1>1, <1>3, <2>2, <2>3, Sizes
  <2> QED
    BY <1>2, <2>4 DEF Decoded, wrong
<1>5. ASSUME NEW w \in Decoded(points) PROVE w \in Common
  <2> DEFINE wrong == {i \in Member : ~Same(points[i], w, <<0, i>>)}
             good == Member \ (wrong \cup B)
  <2>1. w \in Poly /\ Cardinality(wrong) <= Errors(N)
    BY DEF Decoded
  <2>2. wrong \subseteq Member /\ IsFiniteSet(wrong) /\ Cardinality(wrong) \in Nat
    BY MemberFinite, FS_Subset, FS_CardinalityType
  <2>3. CASE w = c
    BY <2>3
  <2>4. CASE w # c
    <3>1. \A i \in good : <<0, i>> \in meet
      <4> SUFFICES ASSUME NEW i \in good PROVE <<0, i>> \in meet
        OBVIOUS
      <4>1. i \in HonestCom1 /\ points[i] = entry[i].col /\ Same(points[i], w, <<0, i>>)
        OBVIOUS
      <4> QED
        BY <1>2, <2>4, <4>1 DEF Same
    <3>2. Cardinality(good) > D
      <4> HIDE DEF wrong, good
      <4>1. IsFiniteSet(wrong \cup B) /\ Cardinality(wrong \cup B) \in Nat
        BY <1>1, <2>2, FS_Union, FS_CardinalityType
      <4>2. Cardinality(wrong \cup B) <= Cardinality(wrong) + Cardinality(B)
        <5>1. Cardinality(wrong \cup B) = Cardinality(wrong) + Cardinality(B) - Cardinality(wrong \cap B)
          BY <1>1, <2>2, FS_Union
        <5>2. Cardinality(wrong \cap B) \in Nat
          BY <2>2, FS_Intersection, FS_CardinalityType
        <5> QED
          BY <1>1, <2>2, <5>1, <5>2
      <4>3. Cardinality(good) = N - Cardinality(wrong \cup B)
        <5>1. Member \cap (wrong \cup B) = wrong \cup B
          BY <2>2
        <5>2. Cardinality(Member \ (wrong \cup B)) = Cardinality(Member) - Cardinality(Member \cap (wrong \cup B))
          BY MemberFinite, FS_Difference
        <5> QED
          BY <5>1, <5>2, MemberFinite DEF good
      <4> QED
        BY <1>1, <1>3, <2>1, <2>2, <4>1, <4>2, <4>3, Sizes
    <3>3. good \in SUBSET Member
      OBVIOUS
    <3> HIDE DEF good
    <3>4. \A y \in Senders : <<0, y>> \in meet
      BY <3>1, <3>2, <3>3, ShareLineFull
    <3>5. \A i \in HonestCom1 : Same(entry[i].col, w, <<0, i>>)
      <4>1. HonestCom1 \subseteq Senders /\ w # Junk
        BY <2>1, MemberFinite, ValueAssumption DEF HonestCom1
      <4> QED
        BY <1>2, <3>4, <4>1 DEF Same
    <3> QED
      BY <2>1, <3>5 DEF Common
  <2> QED
    BY <2>3, <2>4
<1> QED
  BY <1>4, <1>5

LEMMA ComputedCommon ==
  ASSUME Spoken, "Votes" \notin Forged, \A j \in Member : com3Msg[j] # None,
         meet \in Meets, Proper, NEW c \in Common, Unhappy = {},
         NEW k \in Member, NEW v \in Version, Computed(k, v)
  PROVE  v \in Common
<1>1. UnhappySet = {}
  BY Votes
<1>2. v # Zero
  BY ValueAssumption
<1>3. PICK claim \in Claimed, lie \in [Untied -> Version \cup {None}] :
        LET points == RecipientPoints({}, k, claim, lie) IN
        /\ ~PointMissing(points)
        /\ v \in Decoded(points) \/ (Decoded(points) = {} /\ v = Junk)
  BY <1>1, <1>2 DEF Computed
<1> DEFINE points == RecipientPoints({}, k, claim, lie)
<1>4. /\ ~PointMissing(points)
      /\ v \in Decoded(points) \/ (Decoded(points) = {} /\ v = Junk)
  BY <1>3
<1>5. PICK B \in SUBSET Member :
        /\ Cardinality(B) <= D
        /\ \A i \in Member \ B : i \in HonestCom1 /\ points[i] = entry[i].col
  BY <1>4, HonestPoints
<1> HIDE DEF points
<1>6. c \in Decoded(points) /\ Decoded(points) \subseteq Common
  BY <1>5, DecodedCommon
<1> QED
  BY <1>4, <1>6

-----------------------------------------------------------------------------
(* The answers of the honest Com4 members.                                 *)

Answered ==
  \A k \in HonestCom4 : com4Result[k] # None =>
    /\ \A j \in Member : com3Msg[j] # None
    /\ com4Index[k] = {k}
    /\ "Votes" \notin Forged =>
         /\ Disqualified \/ (OneVoice /\ Unhappy # {}) => com4Result[k] = Zero
         /\ ~Disqualified /\ Unhappy = {} => com4Result[k] \in Version /\ com4Result[k] # Zero
         /\ Proper /\ Common # {} /\ Unhappy = {} /\ com4Result[k] \in Version =>
              com4Result[k] \in Common

LEMMA AnsweredIdle ==
  ASSUME Answered,
         UNCHANGED <<entry, meet, com2Msg, happy, com3Msg, com4Result, com4Index>>
  PROVE  Answered'
BY SameVerdict, SameAgreements DEF Answered, Proper

LEMMA AnsweredStep == TypeInv /\ CourseInv /\ Answered /\ [Next]_vars => Answered'
<1> SUFFICES ASSUME TypeOK, Order, Spoken, Answered, [Next]_vars PROVE Answered'
  BY DEF TypeInv, CourseInv
<1>1. ASSUME Early \/ phase = "com3", com4Result' = com4Result PROVE Answered'
  BY <1>1 DEF Order, Answered, HonestCom4
<1>2. CASE Deal
  BY <1>1, <1>2 DEF Deal, com4, Early
<1>3. ASSUME NEW k \in Member, Com2(k) PROVE Answered'
  BY <1>1, <1>3, Com2Effect DEF Early
<1>4. CASE Com2Done
  BY <1>1, <1>4, Com2DoneEffect DEF Early
<1>5. ASSUME NEW j \in Member, Com3Receive(j) PROVE Answered'
  BY <1>1, <1>5, Com3ReceiveEffect
<1>6. ASSUME NEW j \in Member, Com3Perform(j) PROVE Answered'
  BY <1>1, <1>6, Com3PerformEffect
<1>7. ASSUME NEW k \in Member, Com4(k) PROVE Answered'
  <2>1. /\ phase = "com4" /\ UNCHANGED <<entry, meet, com2Msg, happy, com3Msg>>
        /\ \A x \in Member \ {k} : com4Result'[x] = com4Result[x] /\ com4Index'[x] = com4Index[x]
    BY <1>7, Com4Effect
  <2> DEFINE Fine(x, w, X) ==
               /\ \A j \in Member : com3Msg[j] # None
               /\ X = {x}
               /\ "Votes" \notin Forged =>
                    /\ Disqualified \/ (OneVoice /\ Unhappy # {}) => w = Zero
                    /\ ~Disqualified /\ Unhappy = {} => w \in Version /\ w # Zero
                    /\ Proper /\ Common # {} /\ Unhappy = {} /\ w \in Version => w \in Common
  <2>2. \A x \in HonestCom4 : com4Result[x] # None => Fine(x, com4Result[x], com4Index[x])
    BY DEF Answered
  <2>3. (\A x \in HonestCom4 : com4Result'[x] # None => Fine(x, com4Result'[x], com4Index'[x]))
        => Answered'
    <3>1. /\ (Disqualified' <=> Disqualified) /\ Unhappy' = Unhappy /\ Common' = Common
          /\ (Proper' <=> Proper)
      BY <2>1, SameVerdict, SameAgreements DEF Proper
    <3> QED
      BY <2>1, <3>1 DEF Answered
  <2>4. ASSUME k \in HonestCom4, com4Result'[k] # None PROVE Fine(k, com4Result'[k], com4Index'[k])
    <3>1. CASE com4Result'[k] = com4Result[k] /\ com4Index'[k] = com4Index[k]
      BY <2>2, <2>4, <3>1
    <3>2. CASE /\ \A j \in Member : com3Msg[j] # None
               /\ com4Index'[k] = {k} /\ Computed(k, com4Result'[k])
      <4>1. PICK v : v = com4Result'[k]
        OBVIOUS
      <4>2. "Votes" \notin Forged =>
              /\ Disqualified \/ (OneVoice /\ Unhappy # {}) => v = Zero
              /\ ~Disqualified /\ Unhappy = {} => v \in Version /\ v # Zero
        BY <3>2, <4>1, ComputedZero
      <4>3. meet \in Meets
        BY <2>1 DEF Order
      <4>4. "Votes" \notin Forged /\ Proper /\ Common # {} /\ Unhappy = {} /\ v \in Version => v \in Common
        BY <3>2, <4>1, <4>3, ComputedCommon
      <4> QED
        BY <3>2, <4>1, <4>2, <4>4
    <3> QED
      BY <1>7, <2>4, <3>1, <3>2, Com4Honest
  <2>5. \A x \in HonestCom4 : com4Result'[x] # None => Fine(x, com4Result'[x], com4Index'[x])
    <3> HIDE DEF Fine
    <3> QED
      BY <2>1, <2>2, <2>4 DEF HonestCom4
  <2> HIDE DEF Fine
  <2> QED
    BY <2>3, <2>5
<1>8. CASE Reconstruct
  BY <1>8, AnsweredIdle DEF Reconstruct, deal, com2, com3, com4
<1>9. CASE Idle
  BY <1>9, AnsweredIdle DEF Idle
<1> QED
  BY <1>2, <1>3, <1>4, <1>5, <1>6, <1>7, <1>8, <1>9, Steps

Inv == TypeInv /\ CourseInv /\ Answered

LEMMA InvHolds == Spec => []Inv
<1>1. Init => Answered
  <2> SUFFICES ASSUME Init PROVE Answered
    OBVIOUS
  <2>1. \A k \in Member : com4Result[k] = None
    BY DEF Init
  <2> QED
    BY <2>1 DEF Answered, HonestCom4
<1> QED
  BY <1>1, CourseHolds, AnsweredStep, PTL DEF Spec, Inv
(* The Com3 verdict decides: for every committee size, degree and dealer,  *)
(* and for at most D faulty members of each committee, those of Com3       *)
(* speaking once and for themselves, an honest Com4 share is zero exactly  *)
(* when an honest Com3 member complains.                                   *)
THEOREM ComplaintsDecideHolds == Spec => []ComplaintsDecide
<1>1. ASSUME Inv PROVE ComplaintsDecide
  <2> SUFFICES ASSUME NEW k \in HonestCom4, OneVoice, com4Result[k] # None
               PROVE  com4Result[k] = Zero <=> \E j \in HonestCom3 : Complains(com3Msg[j])
    BY DEF ComplaintsDecide
  <2>1. \A j \in Member : com3Msg[j] # None
    BY <1>1 DEF Inv, Answered
  <2>2. com4Result[k] = Zero <=> (Disqualified \/ Unhappy # {})
    BY <1>1 DEF Inv, Answered, OneVoice
  <2>3. \A j \in HonestCom3 : Complains(com3Msg[j]) <=> (Disqualified \/ Unhappy # {})
    <3> SUFFICES ASSUME NEW j \in HonestCom3
                 PROVE  Complains(com3Msg[j]) <=> (Disqualified \/ Unhappy # {})
      OBVIOUS
    <3>1. SpokenBy(j, com3Msg[j])
      BY <1>1, <2>1 DEF Inv, CourseInv, Spoken, HonestCom3
    <3>2. /\ com3Msg[j].dq = IF Disqualified THEN {1} ELSE {}
          /\ com3Msg[j].unhappy = Unhappy \X {1}
      BY <3>1 DEF SpokenBy
    <3>3. Unhappy \X {1} # {} <=> Unhappy # {}
      <4>1. \A x \in Unhappy : <<x, 1>> \in Unhappy \X {1}
        OBVIOUS
      <4>2. \A y \in Unhappy \X {1} : y[1] \in Unhappy
        OBVIOUS
      <4> QED
        BY <4>1, <4>2
    <3> QED
      BY <3>2, <3>3 DEF Complains
  <2>4. \E j \in HonestCom3 : TRUE
    BY HonestMember DEF HonestCom3
  <2> QED
    BY <2>2, <2>3, <2>4
<1> QED
  BY <1>1, InvHolds, PTL

-----------------------------------------------------------------------------
(* The shares of an honest dealer.                                         *)

LEMMA HonestMany == HonestCom1 \in SUBSET Member /\ Cardinality(HonestCom1) > D
<1>1. HonestCom1 \in SUBSET Member /\ Cardinality(HonestCom1) >= Threshold
  BY HonestReach DEF HonestCom1
<1>2. Cardinality(HonestCom1) \in Nat
  BY <1>1, MemberFinite, FS_Subset, FS_CardinalityType
<1> QED
  BY <1>1, <1>2, Sizes

(* Polynomials that all honest columns agree with have one share line.     *)
LEMMA OneCommon ==
  ASSUME meet \in Meets, NEW v \in Common, NEW w \in Common
  PROVE  SameShare(v, w)
<1>1. v \in Poly /\ w \in Poly
  BY DEF Common
<1>2. CASE v # w
  <2>1. \A i \in HonestCom1 : <<0, i>> \in meet
    BY <1>2 DEF Common, Same
  <2>2. <<0, 0>> \in meet
    BY <2>1, HonestMany, ShareLineFull, Sizes DEF Senders
  <2> QED
    BY <1>1, <2>2 DEF SameShare
<1> QED
  BY <1>2 DEF SameShare

LEMMA DealtCommon ==
  ASSUME DealerHonest, entry = HonestDealing
  PROVE  Proper /\ F \in Common
<1>1. ASSUME NEW i \in HonestCom1 PROVE entry[i].id = i /\ ~entry[i].raw /\ entry[i].col = F
  <2>1. entry[i] = [id |-> i, row |-> F, col |-> F, raw |-> FALSE]
    BY DEF HonestDealing, HonestCom1
  <2> QED
    BY <2>1
<1> QED
  BY <1>1, ValueAssumption DEF Proper, Common, Same

(* An honest dealer's committee is never given another share: whatever at  *)
(* most D faulty members of each committee do and however late the relays  *)
(* run, an honest Com4 member answers nothing, zero, or the dealt share,   *)
(* while every Com3 member speaks once and for itself.                     *)
THEOREM HonestDealerSharesHold == Spec => []HonestDealerShares
<1>1. ASSUME Inv PROVE HonestDealerShares
  <2> SUFFICES ASSUME OneVoice, DealerHonest, NEW k \in HonestCom4,
                      com4Result[k] # None, com4Result[k] # Zero
               PROVE  SameShare(com4Result[k], F)
    BY DEF HonestDealerShares
  <2>1. k \in Member /\ com4Result[k] \in Version
    BY <1>1 DEF Inv, TypeInv, TypeOK, HonestCom4
  <2>2. phase # "deal"
    BY <1>1, <2>1 DEF Inv, CourseInv, Order, Early
  <2>3. meet \in Meets /\ entry = HonestDealing
    BY <1>1, <2>2 DEF Inv, CourseInv, Order
  <2>4. Proper /\ F \in Common
    BY <2>3, DealtCommon
  <2>5. com4Result[k] \in Common
    BY <1>1, <2>1, <2>4 DEF Inv, Answered, OneVoice
  <2> QED
    BY <2>3, <2>4, <2>5, OneCommon
<1> QED
  BY <1>1, InvHolds, PTL

-----------------------------------------------------------------------------
(* Commitment.                                                             *)

(* The argument of the bivariate sharing, in versions.  Suppose the column *)
(* v of h is on no common share line with another version.  Only D rows    *)
(* can meet v at another version's points, so more than D rows are of      *)
(* version v, and a column of another version meets them all, hence v      *)
(* everywhere: v is a polynomial that all columns agree with.              *)
LEMMA CrossingCommon ==
  ASSUME meet \in Meets, \A i \in HonestCom1 : entry[i] \in Entry,
         \A i, h \in HonestCom1 : Same(entry[i].row, entry[h].col, <<i, h>>)
  PROVE  Common # {}
<1>1. \A i \in HonestCom1 : entry[i].col \in Poly /\ entry[i].col # Junk
  BY ValueAssumption DEF Entry
<1>2. HonestCom1 \subseteq Member /\ Member \subseteq Senders
  BY MemberFinite DEF HonestCom1
<1>3. CASE \A h \in HonestCom1 : <<0, h>> \in meet
  <2>1. PICK x \in HonestCom1 : TRUE
    BY HonestMember DEF HonestCom1
  <2>2. entry[x].col \in Common
    BY <1>1, <1>3, <2>1 DEF Common, Same
  <2> QED
    BY <2>2
<1>4. ASSUME NEW h \in HonestCom1, <<0, h>> \notin meet PROVE Common # {}
  <2> DEFINE v     == entry[h].col
             meets == {i \in HonestCom1 : <<i, h>> \in meet}
             rows  == HonestCom1 \ meets
  <2>1. Cardinality(meets) <= D
    <3>1. meets \in SUBSET Member
      BY <1>2
    <3>2. ~(Cardinality(meets) > D)
      BY <1>2, <1>4, <3>1, ColumnFull
    <3>3. IsFiniteSet(meets) /\ Cardinality(meets) \in Nat
      BY <3>1, MemberFinite, FS_Subset, FS_CardinalityType
    <3> HIDE DEF meets
    <3> QED
      BY <3>2, <3>3, Sizes
  <2>2. rows \in SUBSET Member /\ Cardinality(rows) > D
    <3>1. meets \in SUBSET HonestCom1
      OBVIOUS
    <3>2. Cardinality(rows) \in Nat /\ Cardinality(rows) >= N - D - D
      <4> HIDE DEF meets
      <4> QED
        BY <2>1, <3>1, HonestLeft, Sizes
    <3> HIDE DEF rows
    <3>3. Cardinality(rows) > D
      BY <3>2, SizeAssumption
    <3> QED
      BY <1>2, <3>3 DEF rows
  <2>3. \A i \in rows : entry[i].row = v
    BY DEF Same
  <2>4. ASSUME NEW x \in HonestCom1, entry[x].col # v PROVE <<0, x>> \in meet
    <3>1. \A i \in rows : <<i, x>> \in meet
      BY <2>3, <2>4 DEF Same
    <3> HIDE DEF rows
    <3> QED
      BY <1>2, <2>2, <3>1, ColumnFull
  <2> HIDE DEF rows
  <2>5. v \in Common
    BY <1>1, <2>4 DEF Common, Same
  <2> QED
    BY <2>5
<1> QED
  BY <1>3, <1>4

(* Everybody is a supporter only if every pair came out zero.              *)
LEMMA AllSupport ==
  ASSUME NEW E \in Agreements, Supporters(E) = Member
  PROVE  \A e \in Pairs : ~PairDiffers(e)
<1> DEFINE G == E \cup {<<e[2], e[1]>> : e \in E}
<1>1. E \subseteq Pairs /\ \A e \in E : ~PairDiffers(e)
  BY DEF Agreements
<1>2. Member # {}
  BY HonestMember
<1>3. IsClique(G, Member)
  <2>1. FindCliqueIDs(Member, G, Threshold) = Member
    BY DEF Supporters
  <2> HIDE DEF G
  <2> QED
    BY <1>2, <2>1 DEF FindCliqueIDs
<1>4. ASSUME NEW e \in Pairs PROVE e \in E
  <2>1. e[1] \in Member /\ e[2] \in Member /\ e = <<e[1], e[2]>> /\ e[1] < e[2]
    BY DEF Pairs
  <2>2. e[1] \in Nat /\ e[2] \in Nat
    BY <2>1, Sizes DEF Member
  <2>3. <<e[1], e[2]>> \in G
    BY <1>3, <2>1, <2>2 DEF IsClique
  <2>4. ASSUME NEW d \in E, e = <<d[2], d[1]>> PROVE FALSE
    <3>1. d[1] \in Member /\ d[2] \in Member /\ d[1] < d[2] /\ e[1] = d[2] /\ e[2] = d[1]
      BY <1>1, <2>4 DEF Pairs
    <3> QED
      BY <2>1, <2>2, <3>1
  <2> QED
    BY <2>1, <2>3, <2>4
<1> QED
  BY <1>1, <1>4

(* What a bindable dealing that Com3 lets pass is: one whose honest rows   *)
(* and columns all cross.                                                  *)
LEMMA BindableCommon ==
  ASSUME Inv, Bindable, \A j \in Member : com3Msg[j] # None,
         ~Disqualified, Unhappy = {}
  PROVE  Proper /\ Common # {} /\ meet \in Meets
<1>1. \A k \in Member : com2Msg[k] # None
  <2>1. \E j \in Member : com3Msg[j] # None
    BY HonestMember
  <2> QED
    BY <2>1 DEF Inv, CourseInv, Order
<1>2. PICK E \in Agreements : happy = Supporters(E)
  <2>1. \E j \in Member : com3Msg[j] # None
    BY HonestMember
  <2> QED
    BY <1>1, <2>1 DEF Inv, CourseInv, Shown
<1>3. Mentioned
  <2>1. PICK i \in HonestCom1, p \in HonestCom1 : i < p
    <3>1. PICK x \in HonestCom1 : TRUE
      BY HonestMember DEF HonestCom1
    <3>2. Cardinality({x}) = 1 /\ {x} \in SUBSET HonestCom1
      BY FS_Singleton
    <3>3. Cardinality(HonestCom1 \ {x}) \in Nat /\ Cardinality(HonestCom1 \ {x}) >= N - D - 1
      BY <3>2, HonestLeft
    <3>4. HonestCom1 \ {x} # {}
      <4>1. N - D - 1 > 0
        BY SizeAssumption
      <4>2. Cardinality(HonestCom1 \ {x}) # 0
        BY <3>3, <4>1, Sizes
      <4> QED
        BY <4>2, FS_EmptySet
    <3>5. PICK y \in HonestCom1 : y # x
      BY <3>4
    <3>6. x \in Nat /\ y \in Nat
      BY <3>5, Sizes DEF HonestCom1, Member
    <3>7. x < y \/ y < x
      BY <3>5, <3>6
    <3> QED
      BY <3>7
  <2> DEFINE via == Via(<<i, p>>, i, p)
             rest == Liars \cup (Points(<<i, p>>) \ via)
  <2>2. Cardinality(via) >= D + Cardinality(rest)
    BY <2>1 DEF Bindable, Clear
  <2>3. via # {}
    <3>1. IsFiniteSet(rest)
      <4>1. rest \subseteq Member
        BY DEF Liars, Points
      <4> QED
        BY <4>1, MemberFinite, FS_Subset
    <3>2. Cardinality(rest) \in Nat /\ D >= 1
      BY <3>1, FS_CardinalityType, SizeAssumption
    <3> HIDE DEF via, rest
    <3>3. Cardinality(via) # 0
      <4> SUFFICES ASSUME Cardinality(via) = 0 PROVE FALSE
        OBVIOUS
      <4> QED
        BY <2>2, <3>2, Sizes
    <3> QED
      BY <3>3, FS_EmptySet
  <2>4. PICK k \in via : TRUE
    BY <2>3
  <2>5. k \in Member /\ Source(k, i) = i
    BY <2>4 DEF Via
  <2>6. i # 0
    BY <2>1, Sizes DEF HonestCom1, Member
  <2>7. DOMAIN com2Msg[k] # {}
    <3>1. Latest({s \in DOMAIN com2Msg[k] : com2Msg[k][s] = i})
            \in {s \in DOMAIN com2Msg[k] : com2Msg[k][s] = i} \cup {0}
      BY LatestIn
    <3> QED
      BY <2>5, <2>6, <3>1 DEF Source
  <2> QED
    BY <2>5, <2>7 DEF Mentioned
<1>4. happy = Member
  <2>1. happy \subseteq Member
    BY DEF Inv, TypeInv, TypeOK
  <2> QED
    BY <1>3, <2>1 DEF Unhappy
<1>5. \A e \in Pairs : ~PairDiffers(e)
  BY <1>2, <1>4, AllSupport
<1>6. \A i, p \in HonestCom1 : i < p => Cross(<<i, p>>, i, p)
  <2> SUFFICES ASSUME NEW i \in HonestCom1, NEW p \in HonestCom1, i < p PROVE Cross(<<i, p>>, i, p)
    OBVIOUS
  <2>1. <<i, p>> \in Pairs /\ Clear(<<i, p>>, i, p)
    BY DEF Pairs, HonestCom1, Bindable
  <2> QED
    BY <1>5, <2>1 DEF PairDiffers
<1>7. \A i, h \in HonestCom1 : Same(entry[i].row, entry[h].col, <<i, h>>)
  <2> SUFFICES ASSUME NEW i \in HonestCom1, NEW h \in HonestCom1
               PROVE  Same(entry[i].row, entry[h].col, <<i, h>>)
    OBVIOUS
  <2>1. i \in Nat /\ h \in Nat
    BY Sizes DEF HonestCom1, Member
  <2>2. CASE i = h
    BY <2>2 DEF Bindable
  <2>3. CASE i < h
    BY <1>6, <2>3 DEF Cross
  <2>4. CASE h < i
    BY <1>6, <2>4 DEF Cross
  <2> QED
    BY <2>1, <2>2, <2>3, <2>4
<1>8. \A i \in HonestCom1 : entry[i] \in Entry
  BY DEF Inv, TypeInv, TypeOK, Bindable, HonestCom1
<1>9. meet \in Meets
  <2>1. phase # "deal"
    BY HonestMember DEF Inv, CourseInv, Order, Early
  <2> QED
    BY <2>1 DEF Inv, CourseInv, Order
<1>10. Common # {}
  BY <1>7, <1>8, <1>9, CrossingCommon
<1> QED
  BY <1>9, <1>10 DEF Bindable, Proper

(* Whatever a faulty dealer deals, the shares of the honest Com4 members   *)
(* are on a polynomial that all honest Com1 members' columns agree with,   *)
(* if the Com2 round binds it and Com3 members speak for themselves.       *)
THEOREM CommitmentHolds == Spec => []Commitment
<1>1. ASSUME Inv PROVE Commitment
  <2> SUFFICES ASSUME NEW k \in HonestCom4, OneVoice, com4Result[k] \in Version, Bindable
               PROVE  \A i \in HonestCom1 : Same(entry[i].col, com4Result[k], <<0, i>>)
    BY DEF Commitment
  <2>1. com4Result[k] # None /\ com4Result[k] # Zero
    BY ValueAssumption
  <2>2. ~Disqualified /\ Unhappy = {} /\ \A j \in Member : com3Msg[j] # None
    BY <1>1, <2>1 DEF Inv, Answered, OneVoice
  <2>3. Proper /\ Common # {}
    BY <1>1, <2>2, BindableCommon
  <2>4. com4Result[k] \in Common
    BY <1>1, <2>1, <2>2, <2>3 DEF Inv, Answered, OneVoice
  <2> QED
    BY <2>4 DEF Common
<1> QED
  BY <1>1, InvHolds, PTL
-----------------------------------------------------------------------------
(* The results that the dealer is sent back.                               *)

Indexed ==
  "Index" \notin Forged => \A k \in Member : com4Result[k] # None => com4Index[k] = {k}

LEMMA IndexedStep == TypeInv /\ Indexed /\ [Next]_vars => Indexed'
<1> SUFFICES ASSUME TypeOK, Indexed, [Next]_vars, "Index" \notin Forged PROVE Indexed'
  BY DEF TypeInv, Indexed
<1>1. ASSUME UNCHANGED <<com4Result, com4Index>> PROVE Indexed'
  BY <1>1 DEF Indexed
<1>2. ASSUME NEW k \in Member, Com4(k) PROVE Indexed'
  <2>1. \A x \in Member \ {k} : com4Result'[x] = com4Result[x] /\ com4Index'[x] = com4Index[x]
    BY <1>2, Com4Effect
  <2>2. com4Result'[k] # None => com4Index'[k] = {k} \/ (com4Result'[k] = com4Result[k] /\ com4Index'[k] = com4Index[k])
    <3>1. ASSUME NEW v, NEW X, Com4Share(k, v, X)
          PROVE  com4Result'[k] = v /\ com4Index'[k] = X
      BY <3>1 DEF Com4Share, TypeOK
    <3>2. CASE k \in HonestCom4
      BY <1>2, <3>2, Com4Honest
    <3>3. CASE Com4Share(k, None, {})
      BY <3>1, <3>3
    <3>4. CASE \E v \in Version \cup {Zero}, X \in FaultyIndices(k) : Com4Share(k, v, X)
      <4>1. PICK v \in Version \cup {Zero}, X \in FaultyIndices(k) : Com4Share(k, v, X)
        BY <3>4
      <4>2. X = {k}
        BY DEF FaultyIndices
      <4> QED
        BY <3>1, <4>1, <4>2
    <3> QED
      BY <1>2, <3>2, <3>3, <3>4 DEF Com4, HonestCom4
  <2> QED
    BY <2>1, <2>2 DEF Indexed
<1> QED
  BY <1>1, <1>2, Steps, Com2Effect, Com2DoneEffect, Com3ReceiveEffect, Com3PerformEffect
  DEF Deal, Reconstruct, Idle, com4

(* One result of each member under its own index.                          *)
LEMMA ResultsMany ==
  ASSUME Indexed, "Index" \notin Forged, \A k \in Member : com4Result[k] # None
  PROVE  /\ Results = {<<k, k>> : k \in Member}
         /\ IsFiniteSet(Results) /\ Cardinality(Results) = N /\ ~ResultsRefused
<1>1. \A k \in Member : com4Index[k] = {k} /\ k \in Numbers
  BY FaultAssumption DEF Indexed
<1>2. Results = {<<k, k>> : k \in Member}
  BY <1>1 DEF Results
<1>3. [k \in Member |-> <<k, k>>] \in Bijection(Member, Results)
  BY <1>2 DEF Bijection, Injection, Surjection, IsInjective
<1>4. IsFiniteSet(Results) /\ Cardinality(Results) = N
  <2>1. ExistsBijection(Member, Results)
    BY <1>3 DEF ExistsBijection
  <2> QED
    BY <2>1, MemberFinite, FS_Bijection
<1>5. ~ResultsRefused
  BY <1>2, <1>4, SizeAssumption DEF ResultsRefused
<1> QED
  BY <1>2, <1>4, <1>5

(* The shares that the secret is recovered from include an honest one.     *)
LEMMA RecoveredHonest ==
  ASSUME Indexed, "Index" \notin Forged, \A k \in Member : com4Result[k] # None,
         NEW w \in Recovered
  PROVE  \E k \in HonestCom4 : com4Result[k] # Junk /\ SameShare(com4Result[k], w)
<1> SUFFICES ASSUME \A k \in HonestCom4 : com4Result[k] = Junk \/ ~SameShare(com4Result[k], w)
             PROVE  FALSE
  OBVIOUS
<1>1. /\ Results = {<<k, k>> : k \in Member}
      /\ IsFiniteSet(Results) /\ Cardinality(Results) = N
  BY ResultsMany
<1>2. IsFiniteSet(Misses(w)) /\ Cardinality(Misses(w)) \in Nat /\ Cardinality(Misses(w)) <= Errors(N)
  <2>1. Misses(w) \subseteq Results
    BY DEF Misses
  <2> QED
    BY <1>1, <2>1, FS_Subset, FS_CardinalityType DEF Recovered
<1>3. [k \in HonestCom4 |-> <<k, k>>] \in Injection(HonestCom4, Misses(w))
  <2>1. \A k \in HonestCom4 : <<k, k>> \in Misses(w)
    BY <1>1 DEF Misses, HonestCom4
  <2> QED
    BY <2>1 DEF Injection, IsInjective
<1>4. Cardinality(HonestCom4) <= Cardinality(Misses(w))
  BY <1>2, <1>3, FS_Injection
<1>5. Cardinality(HonestCom4) \in Nat /\ Cardinality(HonestCom4) >= N - D
  <2>1. IsFiniteSet(FaultyCom4) /\ FaultyCom4 \subseteq Member /\ Cardinality(FaultyCom4) <= D
    BY FaultyFinite
  <2>2. Member \cap FaultyCom4 = FaultyCom4 /\ HonestCom4 = Member \ FaultyCom4
    BY <2>1 DEF HonestCom4
  <2>3. /\ IsFiniteSet(Member \ FaultyCom4)
        /\ Cardinality(Member \ FaultyCom4) = Cardinality(Member) - Cardinality(Member \cap FaultyCom4)
    BY MemberFinite, FS_Difference
  <2>4. Cardinality(FaultyCom4) \in Nat /\ Cardinality(HonestCom4) \in Nat
    BY <2>1, <2>2, <2>3, FS_CardinalityType
  <2> QED
    BY <2>1, <2>2, <2>3, <2>4, MemberFinite, Sizes
<1>6. Errors(N) \in Int /\ Errors(N) < N - D
  BY SizeAssumption DEF Errors
<1> QED
  BY <1>2, <1>4, <1>5, <1>6, Sizes

LEMMA AllRecover ==
  ASSUME Indexed, "Index" \notin Forged, \A k \in Member : com4Result[k] # None,
         NEW w \in Poly \cup {Zero},
         \A k \in HonestCom4 : com4Result[k] # Junk /\ SameShare(com4Result[k], w)
  PROVE  w \in Recovered
<1>1. /\ Results = {<<k, k>> : k \in Member}
      /\ IsFiniteSet(Results) /\ Cardinality(Results) = N
  BY ResultsMany
<1>2. IsFiniteSet(Misses(w)) /\ Cardinality(Misses(w)) \in Nat
  <2>1. Misses(w) \subseteq Results
    BY DEF Misses
  <2> QED
    BY <1>1, <2>1, FS_Subset, FS_CardinalityType
<1>3. [r \in Misses(w) |-> r[1]] \in Injection(Misses(w), FaultyCom4)
  <2>1. \A r \in Misses(w) : r[1] \in FaultyCom4 /\ r = <<r[1], r[1]>>
    BY <1>1 DEF Misses, HonestCom4
  <2> QED
    BY <2>1 DEF Injection, IsInjective
<1>4. IsFiniteSet(FaultyCom4) /\ Cardinality(FaultyCom4) <= D
  BY FaultyFinite
<1>5. Cardinality(Misses(w)) <= Cardinality(FaultyCom4) /\ Cardinality(FaultyCom4) \in Nat
  BY <1>3, <1>4, FS_Injection, FS_CardinalityType
<1>6. Errors(N) \in Int /\ D <= Errors(N)
  BY SizeAssumption DEF Errors
<1>7. Cardinality(Misses(w)) <= Errors(N)
  BY <1>2, <1>4, <1>5, <1>6, Sizes
<1> QED
  BY <1>1, <1>7 DEF Recovered

-----------------------------------------------------------------------------
(* FDVSS implements VSS: a run of FDVSS is a run of VSS under the mapping  *)
(* Sharing.                                                                *)

(* The value the dealer is bound to.                                       *)
LEMMA ValueType ==
  /\ \A v \in Poly : Value(v) \in Poly
  /\ Value(Zero) = Zero /\ Value(None) = None /\ Value(Junk) = Junk
BY ValueAssumption DEF Value, Version

BoundTyped ==
  Bound \in {None, Zero} \cup IF DealerHonest THEN {F} ELSE Poly \cup {Junk}

LEMMA BoundType == BoundTyped
<1>1. Common # {} => (CHOOSE w \in Common : TRUE) \in Poly
  BY DEF Common
<1>2. Common # {} => Value(CHOOSE w \in Common : TRUE) \in Poly
  BY <1>1, ValueType
<1> QED
  BY <1>2 DEF Bound, BoundTyped

(* It is fixed once the Com2 round is over.                                *)
LEMMA BoundFixed ==
  ASSUME ~Early, ~Early', UNCHANGED <<com2Msg, happy, entry, meet>>
  PROVE  Bound' = Bound
<1>1. Common' = Common /\ (Bindable' <=> Bindable) /\ (Mentioned' <=> Mentioned)
  BY SameAgreements, SameVerdict
<1> DEFINE chosen == CHOOSE w \in Common : TRUE
<1>2. Value(chosen)' = Value(chosen)
  <2>1. chosen' = chosen
    BY <1>1
  <2> HIDE DEF chosen
  <2> QED
    BY <2>1 DEF Value, SameShare
<1>3. Bound = IF \E k \in Member : com2Msg[k] = None THEN None
              ELSE IF Mentioned /\ happy # Member THEN Zero
              ELSE IF DealerHonest THEN F
              ELSE IF Bindable /\ Common # {} THEN Value(chosen) ELSE Junk
  BY DEF Bound, Early
<1>4. Bound' = IF \E k \in Member : com2Msg'[k] = None THEN None
               ELSE IF Mentioned' /\ happy' # Member THEN Zero
               ELSE IF DealerHonest THEN F
               ELSE IF Bindable' /\ Common' # {} THEN Value(chosen)' ELSE Junk
  BY DEF Bound, Early
<1> HIDE DEF chosen
<1> QED
  BY <1>1, <1>2, <1>3, <1>4

LEMMA BoundStep == TypeOK /\ [Next]_vars => Bound = None \/ Bound' = Bound
<1> SUFFICES ASSUME TypeOK, [Next]_vars, ~Early PROVE Bound' = Bound
  BY DEF Bound, Early
<1>1. ASSUME NEW j \in Member, Com3Receive(j) PROVE Bound' = Bound
  BY <1>1, Com3ReceiveEffect, BoundFixed DEF Early
<1>2. ASSUME NEW j \in Member, Com3Perform(j) PROVE Bound' = Bound
  BY <1>2, Com3PerformEffect, BoundFixed DEF Early
<1>3. ASSUME NEW k \in Member, Com4(k) PROVE Bound' = Bound
  BY <1>3, Com4Effect, BoundFixed DEF Early
<1>4. CASE Reconstruct
  BY <1>4, BoundFixed DEF Reconstruct, deal, com2, Early
<1>5. CASE Idle
  BY <1>5, BoundFixed DEF Idle, Early
<1> QED
  BY <1>1, <1>2, <1>3, <1>4, <1>5, Steps, Com2Effect, Com2DoneEffect DEF Deal, Early

(* What an honest Com4 member outputs is what the dealer is bound to.      *)
Held ==
  \A k \in HonestCom4 : com4Result[k] # None => Bound \in {Value(com4Result[k]), Junk}

LEMMA HeldKnown == OneVoice /\ Inv => Held
<1> SUFFICES ASSUME OneVoice, Inv, NEW k \in HonestCom4, com4Result[k] # None
             PROVE  Bound \in {Value(com4Result[k]), Junk}
  BY DEF Held
<1>1. k \in Member /\ com4Result[k] \in Version \cup {Zero}
  BY DEF Inv, TypeInv, TypeOK, HonestCom4
<1>2. /\ \A j \in Member : com3Msg[j] # None
      /\ Disqualified \/ Unhappy # {} => com4Result[k] = Zero
      /\ ~Disqualified /\ Unhappy = {} => com4Result[k] \in Version /\ com4Result[k] # Zero
      /\ Proper /\ Common # {} /\ Unhappy = {} /\ com4Result[k] \in Version =>
           com4Result[k] \in Common
  BY DEF Inv, Answered, OneVoice
<1>3. \A x \in Member : com2Msg[x] # None
  <2>1. \E j \in Member : com3Msg[j] # None
    BY <1>1, <1>2
  <2> QED
    BY <2>1 DEF Inv, CourseInv, Order
<1>4. ~Early /\ meet \in Meets /\ (DealerHonest => entry = HonestDealing)
  BY <1>1 DEF Inv, CourseInv, Order, Early
<1>5. CASE Disqualified \/ Unhappy # {}
  <2>1. Mentioned /\ happy # Member
    <3>1. Unhappy # {} => happy # Member
      BY DEF Unhappy
    <3>2. N \in Nat /\ ~(N < Threshold)
      BY Sizes
    <3>3. Disqualified => happy # Member
      BY <3>2, MemberFinite DEF Disqualified
    <3>4. Mentioned
      BY <1>5 DEF Disqualified, Unhappy
    <3> QED
      BY <1>5, <3>1, <3>3, <3>4
  <2>2. Bound = Zero
    BY <1>3, <1>4, <2>1 DEF Bound, Early
  <2> QED
    BY <1>2, <1>5, <2>2, ValueType
<1>6. CASE ~Disqualified /\ Unhappy = {}
  <2>1. com4Result[k] \in Version
    BY <1>2, <1>6
  <2>2. ~(Mentioned /\ happy # Member)
    <3>1. happy \subseteq Member
      BY DEF Inv, TypeInv, TypeOK
    <3> QED
      BY <1>6, <3>1 DEF Unhappy
  <2>3. Bound = IF DealerHonest THEN F
                ELSE IF Bindable /\ Common # {} THEN Value(CHOOSE w \in Common : TRUE) ELSE Junk
    BY <1>3, <1>4, <2>2 DEF Bound, Early
  <2>4. CASE DealerHonest
    <3>1. Proper /\ F \in Common
      BY <1>4, <2>4, DealtCommon
    <3>2. com4Result[k] \in Common
      BY <1>2, <1>6, <2>1, <3>1
    <3>3. SameShare(com4Result[k], F) /\ com4Result[k] \in Poly
      BY <1>4, <3>1, <3>2, OneCommon DEF Common
    <3> QED
      BY <2>3, <2>4, <3>3 DEF Value
  <2>5. CASE ~DealerHonest /\ Bindable /\ Common # {}
    <3>1. Proper
      BY <2>5 DEF Bindable, Proper
    <3>2. com4Result[k] \in Common
      BY <1>2, <1>6, <2>1, <2>5, <3>1
    <3>3. PICK c \in Common : c = CHOOSE w \in Common : TRUE
      BY <2>5
    <3>4. SameShare(c, com4Result[k]) /\ c \in Poly /\ com4Result[k] \in Poly
      BY <1>4, <3>2, OneCommon DEF Common
    <3>5. Value(c) = Value(com4Result[k])
      BY <3>4, ValueAssumption DEF Value, SameShare
    <3> QED
      BY <2>3, <2>5, <3>3, <3>5
  <2> QED
    BY <2>3, <2>4, <2>5
<1> QED
  BY <1>5, <1>6

-----------------------------------------------------------------------------
(* The steps of the mapping.                                               *)

Outputs == [k \in HonestCom4 |-> Value(com4Result[k])]

LEMMA SharingInit == Init => Sharing!Init
<1> SUFFICES ASSUME Init PROVE Sharing!Init
  OBVIOUS
<1>1. Bound = None /\ secret = None /\ \A k \in HonestCom4 : com4Result[k] = None
  BY DEF Init, Bound, HonestCom4
<1> QED
  BY <1>1, ValueType DEF Sharing!Init

(* A step that outputs nothing binds the dealer or is none.                *)
LEMMA SharingIdle ==
  ASSUME Bound = None \/ Bound' = Bound,
         Bound' \in {None, Zero} \cup IF DealerHonest THEN {F} ELSE Poly \cup {Junk},
         Outputs' = Outputs, Value(secret)' = Value(secret)
  PROVE  [Sharing!Next]_Sharing!vars
<1>1. CASE Bound' = Bound
  BY <1>1 DEF Sharing!vars, Outputs
<1>2. CASE Bound = None /\ Bound' # None
  <2>1. Sharing!Bind
    BY <1>2 DEF Sharing!Bind, Outputs
  <2> QED
    BY <2>1 DEF Sharing!Next
<1> QED
  BY <1>1, <1>2

(* What the dealer recovers is what it is bound to.                        *)
LEMMA RecoveredBound ==
  ASSUME Inv, Held, Indexed, "Index" \notin Forged,
         \A k \in Member : com4Result[k] # None, Bound # Junk
  PROVE  Recovered # {} /\ \A w \in Recovered : Value(w) = Bound
<1>1. \A k \in HonestCom4 : /\ Value(com4Result[k]) = Bound
                            /\ com4Result[k] \in Poly \cup {Zero}
  <2> SUFFICES ASSUME NEW k \in HonestCom4
               PROVE  Value(com4Result[k]) = Bound /\ com4Result[k] \in Poly \cup {Zero}
    OBVIOUS
  <2>1. k \in Member /\ com4Result[k] # None /\ com4Result[k] \in Version \cup {Zero, None}
    BY DEF Inv, TypeInv, TypeOK, HonestCom4
  <2>2. Value(com4Result[k]) = Bound
    BY <2>1 DEF Held
  <2> QED
    BY <2>1, <2>2, ValueType DEF Version
<1>2. ASSUME NEW w \in Recovered PROVE Value(w) = Bound
  <2>1. PICK k \in HonestCom4 : com4Result[k] # Junk /\ SameShare(com4Result[k], w)
    BY RecoveredHonest
  <2>2. Value(w) = Value(com4Result[k])
    BY <2>1, ValueAssumption DEF Value, SameShare
  <2> QED
    BY <1>1, <2>1, <2>2
<1>3. Recovered # {}
  <2>1. PICK k \in HonestCom4 : TRUE
    BY HonestMember DEF HonestCom4
  <2>2. PICK w \in Poly \cup {Zero} : w = com4Result[k]
    BY <1>1, <2>1
  <2>3. ASSUME NEW x \in HonestCom4 PROVE com4Result[x] # Junk /\ SameShare(com4Result[x], w)
    <3>1. Value(com4Result[x]) = Value(w) /\ com4Result[x] \in Poly \cup {Zero}
      BY <1>1, <2>1, <2>2
    <3>2. SameShare(com4Result[x], w)
      BY <3>1, ValueAssumption DEF Value, SameShare, Version
    <3> QED
      BY <3>1, <3>2, ValueAssumption DEF Version
  <2>4. w \in Recovered
    BY <2>3, AllRecover
  <2> QED
    BY <2>4
<1> QED
  BY <1>2, <1>3

LEMMA SharingStep ==
  /\ OneVoice /\ "Index" \notin Forged
  /\ Inv /\ Indexed /\ Held /\ (Inv /\ Held /\ BoundTyped)' /\ [Next]_vars
  => [Sharing!Next]_Sharing!vars
<1> SUFFICES ASSUME "Index" \notin Forged, Inv, Indexed, Held, Inv', Held', BoundTyped', [Next]_vars
             PROVE  [Sharing!Next]_Sharing!vars
  OBVIOUS
<1>0. TypeOK /\ Order /\ TypeOK'
  BY DEF Inv, TypeInv, CourseInv
<1>1. /\ Bound = None \/ Bound' = Bound
      /\ Bound' \in {None, Zero} \cup IF DealerHonest THEN {F} ELSE Poly \cup {Junk}
  <2>1. Bound = None \/ Bound' = Bound
    BY <1>0, BoundStep
  <2>2. Bound' \in {None, Zero} \cup IF DealerHonest THEN {F} ELSE Poly \cup {Junk}
    BY DEF BoundTyped
  <2> QED
    BY <2>1, <2>2
<1>2. ASSUME UNCHANGED <<meet, com4Result, secret>> PROVE [Sharing!Next]_Sharing!vars
  BY <1>1, <1>2, SharingIdle DEF Outputs, Value, SameShare
<1>3. CASE Deal
  <2>1. \A k \in HonestCom4 : com4Result[k] = None /\ com4Result'[k] = None
    BY <1>0, <1>3 DEF Deal, Order, Early, com4, HonestCom4
  <2>2. secret = None /\ secret' = None
    BY <1>0, <1>3 DEF Deal, Order
  <2>3. Outputs' = Outputs /\ Value(secret)' = Value(secret)
    BY <2>1, <2>2, ValueAssumption DEF Outputs, Value, Version
  <2> QED
    BY <1>1, <2>3, SharingIdle
<1>4. ASSUME NEW k \in Member, Com4(k) PROVE [Sharing!Next]_Sharing!vars
  <2>1. /\ phase = "com4" /\ phase' \in {"com4", "failed"} /\ k \notin served
        /\ UNCHANGED <<entry, meet, com2Msg, happy, secret>>
        /\ \A x \in HonestCom4 : x # k => com4Result'[x] = com4Result[x]
    BY <1>0, <1>4, Com4Effect DEF HonestCom4
  <2>2. com4Result[k] = None /\ secret = None
    BY <1>0, <2>1 DEF Order
  <2>3. CASE k \notin HonestCom4 \/ com4Result'[k] = None
    <3>1. \A x \in HonestCom4 : com4Result'[x] = com4Result[x]
      BY <2>1, <2>2, <2>3
    <3>2. Outputs' = Outputs /\ Value(secret)' = Value(secret)
      BY <2>1, <3>1 DEF Outputs, Value, SameShare
    <3> QED
      BY <1>1, <3>2, SharingIdle
  <2>4. CASE k \in HonestCom4 /\ com4Result'[k] # None
    <3> DEFINE w == com4Result'[k]
               v == Value(com4Result[k])'
    <3>1. v = Value(w)
      BY <2>1 DEF Value, SameShare
    <3>2. w \in Version \cup {Zero} /\ Bound' \in {v, Junk}
      BY <1>0, <2>4 DEF Held, TypeOK
    <3>3. v \in Poly \cup {Zero, Junk}
      BY <3>1, <3>2, ValueType DEF Version
    <3>4. Bound' = Bound
      BY <2>1, BoundFixed DEF Early
    <3>5. Outputs' = [Outputs EXCEPT ![k] = v]
      BY <2>1, <2>4 DEF Outputs, Value, SameShare
    <3>6. Outputs[k] = None /\ Value(secret) = None
      BY <2>2, <2>4, ValueType DEF Outputs
    <3>7. Value(secret)' = Value(secret)
      BY <2>1 DEF Value, SameShare
    <3> HIDE DEF v, w
    <3>8. Sharing!Output(k)
      BY <3>2, <3>3, <3>4, <3>5, <3>6, <3>7 DEF Sharing!Output, Sharing!Holds, Outputs
    <3> QED
      BY <2>4, <3>8 DEF Sharing!Next
  <2> QED
    BY <2>3, <2>4
<1>5. CASE Reconstruct
  <2>1. /\ phase = "recon" /\ phase' \in {"done", "failed"}
        /\ UNCHANGED <<meet, entry, com2Msg, happy, com4Result>>
    BY <1>5 DEF Reconstruct, deal, com2, com4
  <2>2. Bound' = Bound
    BY <2>1, BoundFixed DEF Early
  <2>3. CASE secret' = secret
    BY <1>2, <2>1, <2>3
  <2>4. CASE /\ \A k \in Member : com4Result[k] # None
             /\ secret' \in Recovered \/ (Recovered = {} /\ secret' = Junk)
    <3>1. secret' \in Poly \cup {Zero, Junk}
      BY <2>4, RecoveredType
    <3>2. Value(secret)' = Value(secret')
      BY <2>1 DEF Value, SameShare
    <3>3. Value(secret') \in Poly \cup {Zero, Junk}
      BY <3>1, ValueType
    <3>4. Bound \in {Value(secret'), Junk}
      <4>1. CASE Bound # Junk
        <5>1. Recovered # {} /\ \A w \in Recovered : Value(w) = Bound
          BY <2>4, <4>1, RecoveredBound
        <5> QED
          BY <2>4, <5>1
      <4> QED
        BY <4>1
    <3>5. Value(secret) = None
      BY <1>0, <2>1, ValueType DEF Order
    <3>6. Outputs' = Outputs
      BY <2>1 DEF Outputs, Value, SameShare
    <3>7. \A x \in HonestCom4 : Outputs[x] # None
      BY <2>4, ValueAssumption DEF Outputs, Value, HonestCom4, Version
    <3>8. Sharing!Reconstruct
      BY <2>2, <3>2, <3>3, <3>4, <3>5, <3>6, <3>7
      DEF Sharing!Reconstruct, Sharing!Holds, Outputs
    <3> QED
      BY <3>8 DEF Sharing!Next
  <2> QED
    BY <1>5, <2>3, <2>4 DEF Reconstruct
<1> QED
  BY <1>2, <1>3, <1>4, <1>5, Steps, Com2Effect, Com2DoneEffect, Com3ReceiveEffect,
     Com3PerformEffect, <1>0 DEF Idle

(* While Com3 members speak for themselves and Com4 members give one       *)
(* result under their own index, every run of FDVSS is one of VSS.         *)
THEOREM ImplementsVSS == OneVoice /\ "Index" \notin Forged => (Spec => Verifiable)
<1> SUFFICES ASSUME OneVoice, "Index" \notin Forged PROVE Spec => Verifiable
  OBVIOUS
<1>1. Init => Indexed
  BY DEF Init, Indexed
<1>2. Inv => TypeInv /\ Held
  BY HeldKnown DEF Inv
<1>3. Inv /\ Indexed /\ Held /\ (Inv /\ Held /\ BoundTyped)' /\ [Next]_vars
      => [Sharing!Next]_Sharing!vars
  BY SharingStep
<1> QED
  BY <1>1, <1>2, <1>3, InvHolds, IndexedStep, BoundType, SharingInit, PTL
  DEF Spec, Verifiable, Sharing!Spec
-----------------------------------------------------------------------------
(* A run with prompt relays, an honest dealer and honest Com1 members ends *)
(* with the dealer's secret.                                               *)

Prompt == DealerHonest /\ FaultyCom1 = {} /\ ~Silence /\ Lagging = {}

HonestItem == [s \in Member |-> s]

(* Where the run is, and what was sent by then.                            *)
Carried ==
  /\ ~erred /\ phase # "failed"
  /\ \A s \in sent : relayed[s] = QueueLength(s)
  /\ phase # "deal" => 0 \in sent
  /\ phase = "com1" => served \subseteq sent
  /\ phase \notin {"deal", "com1"} => Senders \subseteq sent

(* What was broadcast by then.                                             *)
Uttered ==
  /\ phase = "com2" => \A k \in served : com2Msg[k] # None
  /\ ~Early => \A k \in Member : com2Msg[k] # None
  /\ \A k \in Member : com2Msg[k] # None =>
       IF k \in FaultyCom2 THEN com2Msg[k] \in {Lie, <<>>} ELSE com2Msg[k] = HonestItem
  /\ phase = "com3" => \A j \in served : com3Msg[j] # None
  /\ phase \in {"com4", "recon", "done"} => \A j \in Member : com3Msg[j] # None
  /\ phase = "com4" => \A k \in served : com4Result[k] # None
  /\ phase \in {"recon", "done"} => \A k \in Member : com4Result[k] # None
  /\ phase = "done" => SameShare(secret, F)

Smooth == Carried /\ Uttered

(* All positions of a queue have arrived once its sender has sent.         *)
LEMMA AllArrived ==
  ASSUME Carried, NEW k \in Member
  PROVE  /\ phase # "deal" => Arrived(0, DealerToCom1(k))
         /\ phase \notin {"deal", "com1"} =>
              \A i \in Member : Arrived(i, Com1ToCom2(k)) /\ Arrived(i, Com1ToCom4(k))
<1> DEFINE square == N * N
<1>1. N \in Nat /\ square \in Nat /\ k \in 1..N
  BY Sizes DEF Member
<1>2. QueueLength(0) = 2 * N /\ \A i \in Member : QueueLength(i) = square + 2 * N
  <2>1. \A i \in Member : i # 0
    BY Sizes DEF Member
  <2> QED
    BY <2>1 DEF QueueLength
<1>3. Com1ToCom2(k) = k /\ Com1ToCom4(k) = N + square + k /\ DealerToCom1(k) = k
  BY DEF Com1ToCom2, Com1ToCom4, DealerToCom1
<1> HIDE DEF square
<1>4. k <= 2 * N /\ k <= square + 2 * N /\ N + square + k <= square + 2 * N
  BY <1>1
<1>5. phase # "deal" => Arrived(0, DealerToCom1(k))
  BY <1>2, <1>3, <1>4 DEF Carried, Arrived
<1>6. ASSUME phase \notin {"deal", "com1"}, NEW i \in Member
      PROVE  Arrived(i, Com1ToCom2(k)) /\ Arrived(i, Com1ToCom4(k))
  <2>1. relayed[i] = square + 2 * N
    BY <1>2, <1>6, MemberFinite DEF Carried
  <2> QED
    BY <1>3, <1>4, <2>1 DEF Arrived
<1> QED
  BY <1>5, <1>6

(* Every pair comes out zero, and everybody is a supporter.                *)
LEMMA AllPairsAgree ==
  ASSUME "Vectors" \notin Forged, entry = HonestDealing,
         \A k \in Member : IF k \in FaultyCom2 THEN com2Msg[k] \in {Lie, <<>>}
                           ELSE com2Msg[k] = HonestItem,
         HonestCom1 = Member, NEW e \in Pairs
  PROVE  PairAgrees(e)
<1> DEFINE H == Member \ FaultyCom2
<1>1. e[1] \in Member /\ e[2] \in Member
  BY DEF Pairs
<1>2. ASSUME NEW k \in H, NEW i \in Member PROVE Source(k, i) = i
  <2>1. com2Msg[k] = HonestItem
    OBVIOUS
  <2>2. {s \in DOMAIN HonestItem : HonestItem[s] = i} = {i}
    BY DEF HonestItem
  <2>3. i \in Nat
    BY Sizes DEF Member
  <2> QED
    BY <2>1, <2>2, <2>3, LatestIn DEF Source
<1>3. ASSUME NEW k \in H PROVE k \notin Liars
  <2>1. com2Msg[k] = HonestItem
    OBVIOUS
  <2>2. HonestItem # Lie
    <3>1. HonestItem \in [Member -> Member \cup {c \in Claims : c > 0}]
      BY DEF HonestItem
    <3>2. HonestItem \in Hearing
      BY <3>1 DEF Hearing
    <3> QED
      BY <3>2, MessageAssumption
  <2> QED
    BY <2>1, <2>2 DEF Liars
<1>4. ASSUME NEW k \in (Member \ Liars) \ H, NEW i \in Member PROVE Source(k, i) = 0
  <2>1. com2Msg[k] = <<>>
    BY DEF Liars
  <2>2. {s \in DOMAIN com2Msg[k] : com2Msg[k][s] = i} = {}
    BY <2>1, NothingType
  <2> QED
    BY <2>2, LatestIn DEF Source
<1>5. Points(e) = H
  <2>1. \A k \in H : Source(k, e[1]) # 0 /\ Source(k, e[2]) # 0
    BY <1>1, <1>2, Sizes DEF Member
  <2> HIDE DEF H
  <2> QED
    BY <1>1, <1>3, <1>4, <2>1 DEF Points, H
<1>6. Via(e, e[1], e[2]) = H
  <2>1. \A k \in H : Source(k, e[1]) = e[1] /\ Source(k, e[2]) = e[2]
    BY <1>1, <1>2
  <2>2. \A i \in Member : i # 0
    BY Sizes DEF Member
  <2> HIDE DEF H
  <2> QED
    BY <1>1, <1>3, <1>4, <2>1, <2>2 DEF Via, H
<1>7. Cardinality(Points(e)) >= Threshold
  <2>1. H \in SUBSET Member
    OBVIOUS
  <2>2. Cardinality(H) >= Threshold
    BY <2>1, HonestReach
  <2> QED
    BY <1>5, <2>2
<1>8. Cross(e, e[1], e[2])
  <2>1. /\ entry[e[1]] = [id |-> e[1], row |-> F, col |-> F, raw |-> FALSE]
        /\ entry[e[2]] = [id |-> e[2], row |-> F, col |-> F, raw |-> FALSE]
    BY <1>1 DEF HonestDealing
  <2>2. /\ entry[e[1]].row = F /\ entry[e[1]].col = F
        /\ entry[e[2]].row = F /\ entry[e[2]].col = F
    BY <2>1
  <2> QED
    BY <2>2, ValueAssumption DEF Cross, Same
<1> QED
  BY <1>1, <1>5, <1>6, <1>7, <1>8 DEF PairAgrees

LEMMA AllSupporters ==
  ASSUME NEW E \in Agreements, \A e \in Pairs : PairAgrees(e)
  PROVE  Supporters(E) = Member
<1> DEFINE G == E \cup {<<e[2], e[1]>> : e \in E}
<1>1. Pairs \subseteq E
  BY DEF Agreements
<1>2. \A i, p \in Member : i # p => <<i, p>> \in G
  <2> SUFFICES ASSUME NEW i \in Member, NEW p \in Member, i # p PROVE <<i, p>> \in G
    OBVIOUS
  <2>1. i < p \/ p < i
    BY Sizes DEF Member
  <2>2. CASE i < p
    BY <1>1, <2>2 DEF Pairs
  <2>3. CASE p < i
    <3>1. <<p, i>> \in E
      BY <1>1, <2>3 DEF Pairs
    <3>2. <<(<<p, i>>)[2], (<<p, i>>)[1]>> \in G
      BY <3>1
    <3> QED
      BY <3>2
  <2> QED
    BY <2>1, <2>2, <2>3
<1> HIDE DEF G
<1>3. \A i \in Member : Cardinality(Peers(Member, G, i)) = N - 1
  <2> SUFFICES ASSUME NEW i \in Member PROVE Cardinality(Peers(Member, G, i)) = N - 1
    OBVIOUS
  <2>1. Peers(Member, G, i) = Member \ {i}
    BY <1>2 DEF Peers
  <2> QED
    BY <2>1, MemberFinite, FS_RemoveElement
<1>4. HighDegreeVertices(Member, G, Threshold) = Member
  <2>1. N - 1 >= Threshold - 1
    BY SizeAssumption DEF Threshold
  <2> QED
    BY <1>3, <2>1 DEF HighDegreeVertices
<1>5. N >= Threshold
  BY SizeAssumption DEF Threshold
<1> QED
  BY <1>2, <1>4, <1>5, MemberFinite DEF Supporters, FindCliqueIDs, IsClique, G

(* In such a run Com3 has nothing to say against anybody.                  *)
LEMMA PromptVerdict ==
  ASSUME Prompt, PlainLists, Inv, Smooth, phase \in {"com3", "com4", "recon"}
  PROVE  /\ ~Disqualified /\ Unhappy = {} /\ entry = HonestDealing /\ meet \in Meets
<1>1. entry = HonestDealing /\ meet \in Meets
  BY DEF Inv, CourseInv, Order, Prompt
<1>2. \A k \in Member : com2Msg[k] # None
  BY DEF Smooth, Uttered, Early
<1>3. \A k \in Member : IF k \in FaultyCom2 THEN com2Msg[k] \in {Lie, <<>>}
                        ELSE com2Msg[k] = HonestItem
  BY <1>2 DEF Smooth, Uttered
<1>4. \A e \in Pairs : PairAgrees(e)
  <2>1. HonestCom1 = Member /\ "Vectors" \notin Forged
    BY DEF HonestCom1, Prompt, PlainLists
  <2> QED
    BY <1>1, <1>3, <2>1, AllPairsAgree
<1>5. PICK E \in Agreements : happy = Supporters(E)
  BY <1>2 DEF Inv, CourseInv, Shown
<1>6. happy = Member
  BY <1>4, <1>5, AllSupporters
<1>7. ~(N < Threshold)
  BY Sizes
<1> QED
  BY <1>1, <1>6, <1>7, MemberFinite DEF Disqualified, Unhappy

(* An honest Com4 member finds enough columns and gives out a share.       *)
LEMMA PromptAnswer ==
  ASSUME Prompt, PlainLists, Inv, Smooth, phase = "com4", NEW k \in Member, Com4Answer(k)
  PROVE  Serve(k) /\ \E w \in Poly : com4Result' = [com4Result EXCEPT ![k] = w]
<1>1. /\ ~Disqualified /\ Unhappy = {} /\ entry = HonestDealing /\ meet \in Meets
      /\ \A j \in Member : com3Msg[j] # None
  BY PromptVerdict DEF Smooth, Uttered
<1>2. UnhappySet = {} /\ ~(Cardinality(DqVotes) >= Threshold)
  BY <1>1, Votes DEF Inv, CourseInv, PlainLists
<1>3. ~WorksetFails({}) /\ ~ZeroShare({})
  <2>1. ~(Cardinality({}) > D)
    BY FS_EmptySet, Sizes
  <2> QED
    BY <1>2, <2>1 DEF WorksetFails, ZeroShare, DisqualifiedByVote, AdditionalDQ
<1>4. PICK claim \in Claimed, lie \in [Untied -> Version \cup {None}] :
        Com4Decode(k, RecipientPoints({}, k, claim, lie))
  BY <1>2, <1>3 DEF Com4Answer
<1> DEFINE points == RecipientPoints({}, k, claim, lie)
<1>5. \A i \in Member : points[i] = F
  <2> SUFFICES ASSUME NEW i \in Member PROVE points[i] = F
    OBVIOUS
  <2>1. \A s \in Member : Arrived(s, Com1ToCom4(k))
    BY AllArrived DEF Smooth
  <2>2. \A s \in Member : entry[s] = [id |-> s, row |-> F, col |-> F, raw |-> FALSE]
    BY <1>1 DEF HonestDealing
  <2>3. \A s \in Member : Com1ID(s, claim) = s /\ s \notin Untied /\ entry[s].col = F
    <3> SUFFICES ASSUME NEW s \in Member
                 PROVE  Com1ID(s, claim) = s /\ s \notin Untied /\ entry[s].col = F
      OBVIOUS
    <3>1. entry[s] = [id |-> s, row |-> F, col |-> F, raw |-> FALSE]
      BY <2>2
    <3>2. entry[s].id = s /\ ~entry[s].raw /\ entry[s].col = F
      BY <3>1
    <3> QED
      BY <3>2 DEF Com1ID, Untied, Prompt
  <2>4. {s \in Member : Arrived(s, Com1ToCom4(k)) /\ Com1ID(s, claim) = i} = {i}
    BY <2>1, <2>3
  <2>5. i \in Nat /\ i # 0
    BY Sizes DEF Member
  <2>6. RecipientPoint({}, k, claim, lie, i) = F
    BY <2>3, <2>4, <2>5, LatestIn DEF RecipientPoint
  <2> QED
    BY <2>6 DEF RecipientPoints
<1> HIDE DEF points
<1>6. ~PointMissing(points)
  BY <1>5, ValueAssumption DEF PointMissing, Version
<1>7. F \in Decoded(points) /\ Decoded(points) \subseteq Poly
  <2>1. F \in Common
    BY <1>1, DealtCommon DEF Prompt
  <2>2. Cardinality({}) <= D /\ {} \in SUBSET Member
    BY FS_EmptySet, Sizes
  <2>3. \A i \in Member \ {} : i \in HonestCom1 /\ points[i] = entry[i].col
    <3> SUFFICES ASSUME NEW i \in Member PROVE i \in HonestCom1 /\ points[i] = entry[i].col
      OBVIOUS
    <3>1. entry[i] = [id |-> i, row |-> F, col |-> F, raw |-> FALSE]
      BY <1>1 DEF HonestDealing
    <3> QED
      BY <1>5, <3>1 DEF HonestCom1, Prompt
  <2>4. F \in Decoded(points)
    BY <1>1, <2>1, <2>2, <2>3, DecodedCommon
  <2> QED
    BY <2>4 DEF Decoded
<1>8. PICK w \in Decoded(points) : Com4Share(k, w, {k})
  BY <1>4, <1>6, <1>7 DEF Com4Decode, points
<1> QED
  BY <1>7, <1>8 DEF Com4Share

LEMMA SmoothInit == Init => Smooth
<1> SUFFICES ASSUME Init PROVE Smooth
  OBVIOUS
<1>1. phase = "deal" /\ ~erred /\ sent = {} /\ \A k \in Member : com2Msg[k] = None
  BY DEF Init
<1> QED
  BY <1>1 DEF Smooth, Carried, Uttered, Early

(* A step of the driver that leaves the broadcasts alone.                  *)
LEMMA UtteredIdle ==
  ASSUME Uttered, UNCHANGED <<com2Msg, com3Msg, com4Result>>, phase' # "done",
         phase' = "com2" => served' = {} \/ (phase = "com2" /\ served' = served),
         phase' = "com3" => served' = {} \/ (phase = "com3" /\ served' = served),
         phase' = "com4" => served' = {} \/ (phase = "com4" /\ served' = served),
         Early => Early' \/ \A k \in Member : com2Msg[k] # None,
         phase' \in {"com4", "recon"} => \A j \in Member : com3Msg[j] # None,
         phase' = "recon" => \A k \in Member : com4Result[k] # None
  PROVE  Uttered'
BY DEF Uttered, Early

(* The dealer recovers its secret.                                         *)
LEMMA PromptRecover ==
  ASSUME Prompt, PlainLists, Inv, Indexed, Smooth, phase = "recon"
  PROVE  /\ ~ResultsRefused /\ Recovered # {}
         /\ \A w \in Recovered : SameShare(w, F)
<1>1. "Index" \notin Forged /\ "Votes" \notin Forged
  BY DEF PlainLists
<1>2. \A k \in Member : com4Result[k] # None
  BY DEF Smooth, Uttered
<1>3. ~Disqualified /\ Unhappy = {} /\ entry = HonestDealing /\ meet \in Meets
  BY PromptVerdict
<1>4. Proper /\ F \in Common
  BY <1>3, DealtCommon DEF Prompt
<1>5. \A k \in HonestCom4 : com4Result[k] \in Common
  <2> SUFFICES ASSUME NEW k \in HonestCom4 PROVE com4Result[k] \in Common
    OBVIOUS
  <2>1. com4Result[k] # None
    BY <1>2 DEF HonestCom4
  <2>2. com4Result[k] \in Version
    BY <1>1, <1>3, <2>1 DEF Inv, Answered
  <2> QED
    BY <1>1, <1>3, <1>4, <2>1, <2>2 DEF Inv, Answered
<1>6. \A k \in HonestCom4 : com4Result[k] # Junk /\ SameShare(com4Result[k], F)
  <2> SUFFICES ASSUME NEW k \in HonestCom4
               PROVE  com4Result[k] # Junk /\ SameShare(com4Result[k], F)
    OBVIOUS
  <2>1. PICK v \in Common : v = com4Result[k]
    BY <1>5
  <2>2. SameShare(v, F)
    BY <1>3, <1>4, OneCommon
  <2>3. v \in Poly
    BY DEF Common
  <2> QED
    BY <2>1, <2>2, <2>3, ValueAssumption
<1>7. F \in Recovered
  <2>1. F \in Poly \cup {Zero}
    BY ValueAssumption
  <2> QED
    BY <1>1, <1>2, <1>6, <2>1, AllRecover
<1>8. ASSUME NEW w \in Recovered PROVE SameShare(w, F)
  <2>1. PICK k \in HonestCom4 : SameShare(com4Result[k], w)
    BY <1>1, <1>2, <1>8, RecoveredHonest
  <2> QED
    BY <1>6, <2>1 DEF SameShare
<1> QED
  BY <1>1, <1>2, <1>7, <1>8, ResultsMany

LEMMA SmoothStep ==
  Prompt /\ PlainLists /\ Inv /\ Indexed /\ Smooth /\ [Next]_vars => Smooth'
<1> SUFFICES ASSUME Prompt, PlainLists, Inv, Indexed, Smooth, [Next]_vars PROVE Smooth'
  OBVIOUS
<1>0. Carried /\ Uttered /\ TypeOK
  BY DEF Smooth, Inv, TypeInv
<1>a. ASSUME NEW s \in Senders, Send(s)
      PROVE  /\ sent' = sent \cup {s} /\ relayed'[s] = QueueLength(s)
             /\ \A x \in sent' : relayed'[x] = QueueLength(x)
  <2>1. relayed' = [relayed EXCEPT ![s] = QueueLength(s)] /\ sent' = sent \cup {s}
    BY <1>a DEF Send, Prompt
  <2>2. sent \subseteq Senders /\ relayed \in [Senders -> Nat]
    BY <1>0 DEF TypeOK
  <2> QED
    BY <1>0, <2>1, <2>2 DEF Carried
<1>b. phase \notin {"deal", "done"} => entry = HonestDealing
  BY DEF Inv, CourseInv, Order, Prompt
<1>1. CASE Deal
  <2>1. phase = "deal" /\ phase' = "com1" /\ UNCHANGED <<served, erred, com2Msg, com3Msg, com4Result>>
    BY <1>1 DEF Deal, com2, com3, com4
  <2>2. served = {} /\ 0 \in Senders
    <3>1. served = {}
      BY <2>1 DEF Inv, TypeInv, SentInv
    <3> QED
      BY <3>1, Sizes DEF Senders
  <2>3. Carried'
    <3>1. Send(0)
      BY <1>1 DEF Deal
    <3>2. 0 \in sent' /\ \A x \in sent' : relayed'[x] = QueueLength(x)
      BY <1>a, <2>2, <3>1
    <3> QED
      BY <1>0, <2>1, <2>2, <3>2 DEF Carried
  <2>4. Uttered'
    BY <1>0, <2>1, UtteredIdle DEF Early
  <2> QED
    BY <2>3, <2>4 DEF Smooth
<1>2. ASSUME NEW i \in Member, Com1(i) PROVE Smooth'
  <2>1. /\ phase = "com1" /\ UNCHANGED <<phase, erred, com2Msg, com3Msg, com4Result>>
        /\ served' = served \cup {i} /\ Send(i)
    BY <1>2 DEF Com1, MayRun, Serve, Prompt, com2, com3, com4
  <2>2. Carried'
    BY <1>0, <1>a, <2>1, MemberFinite DEF Carried
  <2>3. Uttered'
    BY <1>0, <2>1, UtteredIdle DEF Early
  <2> QED
    BY <2>2, <2>3 DEF Smooth
<1>3. ASSUME NEW i \in Member, Com1Timeout(i) PROVE FALSE
  BY <1>0, <1>3, AllArrived DEF Com1Timeout, MayRun
<1>3a. ASSUME NEW i \in Member, Com1Refuses(i) PROVE FALSE
  <2>1. phase = "com1" /\ entry[i] = None
    BY <1>3a DEF Com1Refuses, MayRun
  <2>2. entry[i] = [id |-> i, row |-> F, col |-> F, raw |-> FALSE]
    BY <1>b, <2>1 DEF HonestDealing
  <2>3. entry[i] \in Entry
    BY <2>2, ValueAssumption DEF Entry
  <2> QED
    BY <2>1, <2>3, ValueAssumption
<1>4. CASE Com1Done
  <2>1. /\ phase = "com1" /\ phase' = "com2" /\ served = Member /\ served' = {} /\ erred' = erred
        /\ UNCHANGED <<sent, relayed, com2Msg, com3Msg, com4Result>>
    BY <1>4 DEF Com1Done, Advance, network, com2, com3, com4
  <2>2. Senders \subseteq sent
    <3>1. Senders = Member \cup {0}
      BY Sizes DEF Senders, Member
    <3> QED
      BY <1>0, <2>1, <3>1 DEF Carried
  <2>3. Carried'
    BY <1>0, <2>1, <2>2 DEF Carried
  <2>4. Uttered'
    BY <1>0, <2>1, UtteredIdle DEF Early
  <2> QED
    BY <2>3, <2>4 DEF Smooth
<1>5. ASSUME NEW k \in Member, Com2(k) PROVE Smooth'
  <2>1. /\ phase = "com2" /\ UNCHANGED <<sent, relayed, com3Msg, com4Result, secret>>
    BY <1>5 DEF Com2, MayRun, network, com3, com4
  <2>2. \E m : /\ Broadcast2(k, m) /\ m # None
               /\ IF k \in FaultyCom2 THEN m \in {Lie, <<>>} ELSE m = HonestItem
    <3>1. CASE k \in FaultyCom2
      <4>1. PICK m \in {Lie, <<>>} : Broadcast2(k, m)
        BY <1>5, <3>1 DEF Com2, Prompt
      <4>2. Lie # None /\ <<>> # None
        BY NothingType, MessageAssumption DEF Com2Item
      <4> QED
        BY <3>1, <4>1, <4>2
    <3>2. CASE k \notin FaultyCom2
      <4>1. PICK claim \in Claimed :
              IF \E s \in DOMAIN Com2Heard(k, claim) : Com2Heard(k, claim)[s] <= 0
              THEN Fail(k) /\ UNCHANGED com2Msg ELSE Broadcast2(k, Com2Heard(k, claim))
        BY <1>5, <3>2 DEF Com2
      <4>2. Com2Heard(k, claim) = HonestItem
        <5>1. {s \in Member : Arrived(s, Com1ToCom2(k))} = Member
          BY <1>0, <2>1, AllArrived
        <5>2. \A s \in Member : Com1ID(s, claim) = s
          <6> SUFFICES ASSUME NEW s \in Member PROVE Com1ID(s, claim) = s
            OBVIOUS
          <6>1. entry[s] = [id |-> s, row |-> F, col |-> F, raw |-> FALSE]
            BY <1>b, <2>1 DEF HonestDealing
          <6>2. entry[s].id = s
            BY <6>1
          <6> QED
            BY <6>2 DEF Com1ID, Prompt
        <5> QED
          BY <5>1, <5>2 DEF Com2Heard, HonestItem
      <4>3. ~(\E s \in DOMAIN HonestItem : HonestItem[s] <= 0)
        BY Sizes DEF HonestItem, Member
      <4>4. Broadcast2(k, HonestItem)
        BY <4>1, <4>2, <4>3
      <4>5. HonestItem # None
        <5>1. HonestItem \in [Member -> Member \cup {c \in Claims : c > 0}]
          BY DEF HonestItem
        <5>2. HonestItem \in Com2Item
          BY <5>1 DEF Com2Item, Hearing
        <5> QED
          BY <5>2, MessageAssumption
      <4> QED
        BY <3>2, <4>4, <4>5
    <3> QED
      BY <3>1, <3>2
  <2>3. PICK m : /\ Broadcast2(k, m) /\ m # None
                 /\ IF k \in FaultyCom2 THEN m \in {Lie, <<>>} ELSE m = HonestItem
    BY <2>2
  <2>4. /\ UNCHANGED <<phase, erred>> /\ served' = served \cup {k}
        /\ com2Msg'[k] = m /\ \A x \in Member \ {k} : com2Msg'[x] = com2Msg[x]
    BY <1>0, <2>3 DEF Broadcast2, Serve, TypeOK
  <2>5. Carried'
    BY <1>0, <2>1, <2>4 DEF Carried
  <2>6. Uttered'
    <3>1. \A x \in served' : com2Msg'[x] # None
      <4>1. served \subseteq Member
        BY <1>0 DEF TypeOK
      <4> QED
        BY <1>0, <2>1, <2>3, <2>4, <4>1 DEF Uttered
    <3>2. \A x \in Member : com2Msg'[x] # None =>
            IF x \in FaultyCom2 THEN com2Msg'[x] \in {Lie, <<>>} ELSE com2Msg'[x] = HonestItem
      BY <1>0, <2>3, <2>4 DEF Uttered
    <3> QED
      BY <1>0, <2>1, <2>4, <3>1, <3>2 DEF Uttered, Early
  <2> QED
    BY <2>5, <2>6 DEF Smooth
<1>6. CASE Com2Done
  <2>1. /\ phase = "com2" /\ phase' = "com3" /\ served = Member /\ served' = {} /\ erred' = erred
        /\ UNCHANGED <<sent, relayed, com2Msg, com3Msg, com4Result>>
    BY <1>6 DEF Com2Done, Advance, network, com3, com4
  <2>2. Carried'
    BY <1>0, <2>1 DEF Carried
  <2>3. Uttered'
    <3>1. \A k \in Member : com2Msg[k] # None
      BY <1>0, <2>1 DEF Uttered
    <3> QED
      BY <1>0, <2>1, <3>1, UtteredIdle DEF Early
  <2> QED
    BY <2>2, <2>3 DEF Smooth
<1>7. ASSUME NEW j \in Member, Com3Receive(j) PROVE Smooth'
  <2>1. phase = "com3" /\ \A k \in Member : com2Msg[k] # None
    BY <1>0, <1>7 DEF Com3Receive, MayRun, Uttered, Early
  <2>2. UNCHANGED <<phase, served, erred, sent, relayed, com2Msg, com3Msg, com4Result>>
    BY <1>7, <2>1 DEF Com3Receive, network, com2, com3, com4
  <2>3. Carried'
    BY <1>0, <2>2 DEF Carried
  <2>4. Uttered'
    BY <1>0, <2>1, <2>2, UtteredIdle DEF Early
  <2> QED
    BY <2>3, <2>4 DEF Smooth
<1>8. ASSUME NEW j \in Member, Com3Perform(j) PROVE Smooth'
  <2>1. /\ phase = "com3" /\ UNCHANGED <<phase, erred, sent, relayed, com2Msg, com4Result, secret>>
        /\ served' = served \cup {j}
    BY <1>8 DEF Com3Perform, MayRun, Serve, network, com2, com4
  <2>2. PICK m \in IF j \in FaultyCom3 THEN FaultyCom3Item(j)
                   ELSE {Com3Reply(j, claim) : claim \in Claimed} :
           com3Msg' = [com3Msg EXCEPT ![j] = m]
    BY <1>8 DEF Com3Perform, Prompt
  <2>3. m # None
    <3>1. \A claim : Com3Reply(j, claim) \in Com3Item
      BY ReplyType
    <3>2. FaultyCom3Item(j) \subseteq Com3Item
      BY FaultyItemType
    <3> QED
      BY <2>2, <3>1, <3>2, MessageAssumption
  <2>4. com3Msg'[j] = m /\ \A x \in Member \ {j} : com3Msg'[x] = com3Msg[x]
    BY <1>0, <2>2 DEF TypeOK
  <2>5. Carried'
    BY <1>0, <2>1 DEF Carried
  <2>6. \A x \in served' : com3Msg'[x] # None
    <3>1. served \subseteq Member
      BY <1>0 DEF TypeOK
    <3> QED
      BY <1>0, <2>1, <2>3, <2>4, <3>1 DEF Uttered
  <2>7. Uttered'
    BY <1>0, <2>1, <2>6 DEF Uttered, Early
  <2> QED
    BY <2>5, <2>7 DEF Smooth
<1>9. CASE Com3Done
  <2>1. /\ phase = "com3" /\ phase' = "com4" /\ served = Member /\ served' = {} /\ erred' = erred
        /\ UNCHANGED <<sent, relayed, com2Msg, com3Msg, com4Result>>
    BY <1>9 DEF Com3Done, Advance, network, com2, com4
  <2>2. Carried'
    BY <1>0, <2>1 DEF Carried
  <2>3. Uttered'
    <3>1. \A j \in Member : com3Msg[j] # None
      BY <1>0, <2>1 DEF Uttered
    <3> QED
      BY <1>0, <2>1, <3>1, UtteredIdle DEF Early
  <2> QED
    BY <2>2, <2>3 DEF Smooth
<1>10. ASSUME NEW k \in Member, Com4(k) PROVE Smooth'
  <2>1. /\ phase = "com4" /\ UNCHANGED <<sent, relayed, com2Msg, com3Msg, secret>>
        /\ \A j \in Member : com3Msg[j] # None
    BY <1>0, <1>10 DEF Com4, MayRun, network, Uttered, com2, com3
  <2>2. \E v : com4Result' = [com4Result EXCEPT ![k] = v] /\ Serve(k) /\ v # None
    <3>1. ASSUME k \in FaultyCom4, NEW v \in Version \cup {Zero},
                 NEW X \in FaultyIndices(k), Com4Share(k, v, X)
          PROVE  com4Result' = [com4Result EXCEPT ![k] = v] /\ Serve(k) /\ v # None
      BY <3>1, ValueAssumption DEF Com4Share
    <3>2. CASE k \notin FaultyCom4 /\ Com4Answer(k)
      <4>1. Serve(k) /\ \E w \in Poly : com4Result' = [com4Result EXCEPT ![k] = w]
        BY <2>1, <3>2, PromptAnswer
      <4>2. \A w \in Poly : w # None
        BY ValueAssumption DEF Version
      <4> QED
        BY <4>1, <4>2
    <3>3. CASE k \in FaultyCom4
      <4>1. PICK v \in Version \cup {Zero} : \E X \in FaultyIndices(k) : Com4Share(k, v, X)
        BY <1>10, <3>3 DEF Com4, Prompt
      <4> QED
        BY <3>1, <3>3, <4>1
    <3>4. k \notin FaultyCom4 => Com4Answer(k)
      BY <1>10, <2>1 DEF Com4
    <3> QED
      BY <3>2, <3>3, <3>4
  <2>3. PICK v : com4Result' = [com4Result EXCEPT ![k] = v] /\ Serve(k) /\ v # None
    BY <2>2
  <2>4. UNCHANGED <<phase, erred>> /\ served' = served \cup {k}
    BY <2>3 DEF Serve
  <2>5. com4Result'[k] = v /\ \A x \in Member \ {k} : com4Result'[x] = com4Result[x]
    BY <1>0, <2>3 DEF TypeOK
  <2>6. Carried'
    BY <1>0, <2>1, <2>4 DEF Carried
  <2>7. \A x \in served' : com4Result'[x] # None
    <3>1. served \subseteq Member
      BY <1>0 DEF TypeOK
    <3> QED
      BY <1>0, <2>1, <2>3, <2>4, <2>5, <3>1 DEF Uttered
  <2>8. Uttered'
    BY <1>0, <2>1, <2>4, <2>7 DEF Uttered, Early
  <2> QED
    BY <2>6, <2>8 DEF Smooth
<1>11. CASE Com4Done
  <2>1. /\ phase = "com4" /\ phase' = "recon" /\ served = Member /\ served' = {} /\ erred' = erred
        /\ UNCHANGED <<sent, relayed, com2Msg, com3Msg, com4Result>>
    BY <1>11 DEF Com4Done, Advance, network, com2, com3, com4
  <2>2. Carried'
    BY <1>0, <2>1 DEF Carried
  <2>3. Uttered'
    <3>1. (\A j \in Member : com3Msg[j] # None) /\ \A k \in Member : com4Result[k] # None
      BY <1>0, <2>1 DEF Uttered
    <3> QED
      BY <1>0, <2>1, <3>1, UtteredIdle DEF Early
  <2> QED
    BY <2>2, <2>3 DEF Smooth
<1>12. CASE Reconstruct
  <2>1. /\ phase = "recon" /\ UNCHANGED <<served, erred, sent, relayed, com2Msg, com3Msg, com4Result, meet>>
        /\ \A k \in Member : com4Result[k] # None
    BY <1>0, <1>12 DEF Reconstruct, network, Uttered, deal, com2, com3, com4
  <2>2. ~ResultsRefused /\ Recovered # {} /\ \A w \in Recovered : SameShare(w, F)
    BY <2>1, PromptRecover
  <2>3. phase' = "done" /\ secret' \in Recovered
    BY <1>12, <2>1, <2>2 DEF Reconstruct
  <2>4. SameShare(secret', F)
    BY <2>2, <2>3
  <2>5. SameShare(secret, F)'
    BY <2>1, <2>4 DEF SameShare
  <2>6. Carried'
    BY <1>0, <2>1, <2>3 DEF Carried
  <2>7. Uttered'
    BY <1>0, <2>1, <2>3, <2>5 DEF Uttered, Early
  <2> QED
    BY <2>6, <2>7 DEF Smooth
<1>13. ASSUME Abort PROVE FALSE
  BY <1>0, <1>13 DEF Abort, Carried
<1>14. ASSUME NEW s \in Senders, Relay(s) PROVE FALSE
  <2>1. s \in sent /\ relayed[s] = QueueLength(s)
    BY <1>0, <1>14 DEF Relay, Carried
  <2>2. PICK count \in Pauses \cup {QueueLength(s)} : relayed[s] < count /\ count <= QueueLength(s)
    BY <1>14 DEF Relay
  <2>3. count \in Nat /\ QueueLength(s) \in Nat
    BY FaultAssumption, Sizes
  <2> QED
    BY <2>1, <2>2, <2>3
<1>15. CASE UNCHANGED vars
  <2>1. UNCHANGED <<phase, served, erred, sent, relayed, meet, com2Msg, com3Msg, com4Result, secret>>
    BY <1>15 DEF vars
  <2> QED
    BY <2>1 DEF Smooth, Carried, Uttered, Early, SameShare
<1> QED
  BY <1>1, <1>2, <1>3, <1>3a, <1>4, <1>5, <1>6, <1>7, <1>8, <1>9, <1>10, <1>11, <1>12,
     <1>13, <1>14, <1>15 DEF Next, Step, Terminated

(* The assertions of firstparty_vss_test.go hold in every run whose relays *)
(* are prompt, whose dealer and Com1 members follow the code, and in which *)
(* up to D members of each of Com2, Com3 and Com4 broadcast what they like *)
(* in plain lists.                                                         *)
THEOREM PromptRunRecovers == Prompt => (Spec => []TestAssertion)
<1>1. Smooth => TestAssertion
  BY DEF Smooth, Carried, Uttered, TestAssertion
<1>2. CASE ~PlainLists
  <2>1. TestAssertion
    BY <1>2 DEF TestAssertion
  <2> QED
    BY <2>1, PTL
<1>3. ASSUME Prompt, PlainLists PROVE Spec => []TestAssertion
  <2>1. Init => Indexed
    BY DEF Init, Indexed
  <2>2. Inv => TypeInv
    BY DEF Inv
  <2>3. Inv /\ Indexed /\ Smooth /\ [Next]_vars => Smooth'
    BY <1>3, SmoothStep
  <2> QED
    BY <1>1, <2>1, <2>2, <2>3, InvHolds, IndexedStep, SmoothInit, PTL DEF Spec
<1> QED
  BY <1>2, <1>3
=============================================================================
