-------------------------------- MODULE FDVSS --------------------------------
(***************************************************************************)
(* One sharing of one dealer, from PrepareDealerOutputs to                 *)
(* ReconstructSecret, as firstparty_vss_test.go drives it: the dealer, the *)
(* four committees Com1..Com4 of N members, the point-to-point relays and  *)
(* the broadcast rounds of communication/fake.                             *)
(*                                                                         *)
(* A trivariate polynomial is a member of Poly and a projection of it is   *)
(* that member: the N evaluations (i, y) of a row, (x, i) of a column, are *)
(* what a version of Poly takes there.  The row and the column of a member *)
(* may be of different versions.  Two versions agree at the points of the  *)
(* set meet, which a dealer chooses from Meets, and at no other, for every *)
(* Z or for none.  Junk is a value on no version.                          *)
(*                                                                         *)
(* What a faulty party sends is any value.  Where the code takes a         *)
(* sequence number, an index or the number of entries from a message       *)
(* unchecked, Forged says whether faulty parties make use of it.           *)
(***************************************************************************)
EXTENDS Integers, FiniteSets, ConsistencyGraph

CONSTANTS
  N, D,           \* committee size and polynomial degree
  Poly, F,        \* the polynomials in play, and the one an honest dealer draws
  Meets,          \* the sets of points two of them may agree at
  Dealings,       \* the entries a faulty dealer may give out
  Junk, Zero, None,
  Lie,            \* a Com2 broadcast that lists some vectors or other
  DealerHonest,   \* whether the dealer follows dealer.go
  FaultyCom1, FaultyCom2, FaultyCom3, FaultyCom4,
  Forged,         \* the fields that faulty members fill in as nobody should
  Claims,         \* the Com1IDs they write then
  Numbers,        \* the Com3Seqs and the indices
  Verdicts,       \* what may come of opened shares that forged ones decide
  Silence,        \* whether a faulty member may also send nothing
  Lagging,        \* the senders whose relay goroutine may run late
  Pauses          \* how many messages it may have moved when somebody looks

Member    == 1..N
Senders   == 0..N      \* the dealer is 0, member i of Com1 is i
Party     == 0..(4 * N)
Threshold == 2 * D + 1
Version   == Poly \cup {Junk}

\* Com1Entry; raw: some of its words are P or more.
Entry == [id : Member, row : Poly, col : Poly, raw : BOOLEAN]

Com3ID(j) == 2 * N + j
Com4ID(k) == 3 * N + k

(***************************************************************************)
(* Two versions that agree at more than D points of a line agree on it.    *)
(***************************************************************************)
Line == {{x} \X Senders : x \in Senders} \cup {Senders \X {y} : y \in Senders}

(***************************************************************************)
(* Com1ID: of a Com1 member's messages.  Vectors: the length of a Com2     *)
(* vector, and how often a pair is listed.  Votes: how often a Com3        *)
(* broadcast names its verdict or an unhappy member.  Com3Seq: of the      *)
(* shares it opens.  Index: of the results of a Com4 member.               *)
(***************************************************************************)
Field == {"Com1ID", "Vectors", "Votes", "Com3Seq", "Index"}

ASSUME SizeAssumption == D \in Nat \ {0} /\ N \in Nat /\ N >= 3 * D + 1
ASSUME ValueAssumption ==
  /\ F \in Poly
  /\ Junk \notin Poly /\ Zero \notin Version
  /\ None \notin Version \cup {Zero} \cup Entry
ASSUME MeetAssumption ==
  \A m \in Meets :
    /\ m \subseteq Senders \X Senders
    /\ \A l \in Line : l \subseteq m \/ Cardinality(l \cap m) <= D
\* An entry None is one that com_1.go refuses: of another size, of no Com1ID.
ASSUME DealingAssumption == Dealings \subseteq [Member -> Entry \cup {None}]
ASSUME FaultAssumption ==
  /\ DealerHonest \in BOOLEAN /\ Silence \in BOOLEAN
  /\ \A X \in {FaultyCom1, FaultyCom2, FaultyCom3, FaultyCom4} :
       X \subseteq Member /\ Cardinality(X) <= D
  /\ Forged \subseteq Field
  /\ Claims \subseteq Int
  /\ Member \subseteq Numbers /\ Numbers \subseteq Nat \ {0}
  /\ Verdicts \subseteq [column : [Member -> Version \cup {None}],
                         match : SUBSET (Member \X Member), decodes : BOOLEAN]
  /\ Lagging \subseteq Senders /\ Pauses \subseteq Nat

VARIABLES
  phase,      \* where continueFDVSSFromCom1 is
  served,     \* the committee members it has run in this phase
  erred,      \* runOthersParallel's retErr
  sent,       \* the senders that have queued all their point-to-point messages
  relayed,    \* how many of them its relay goroutine has moved to P2PMsgs
  entry,      \* what the dealer gives each Com1 member
  future,     \* the version behind the column shares it sends to Com3, if any
  meet,
  com2Msg,    \* the broadcasts of Com2
  happy,      \* what findCliqueIDs returns for them
  com3Msg,    \* the broadcasts of Com3
  taken,      \* what a Com3 member's first ReceiveAll had to take, while it runs
  verdict,    \* what the decoders make of forged shares among those opened
  com4Result, com4Index,   \* the value and the indices of each Com4 broadcast
  full,       \* the parties whose ReceiveChannel holds an unread round
  secret

vars == <<phase, served, erred, sent, relayed, entry, future, meet, com2Msg,
          happy, com3Msg, taken, verdict, com4Result, com4Index, full, secret>>
network == <<sent, relayed>>
deal    == <<entry, future, meet>>
com2    == <<com2Msg, happy>>
com3    == <<com3Msg, verdict>>
com4    == <<com4Result, com4Index>>

\* Of an honest Com2 member: the Com1 members heard, with the Com1ID each gave.
Hearing  == UNION {[S -> Member \cup {c \in Claims : c > 0}] : S \in SUBSET Member}
Com2Item == Hearing \cup {Lie}

\* The entries of a list are numbered; more than Threshold make no difference.
Repeat   == 1..Threshold
Com3Item == [dq : SUBSET Repeat, unhappy : SUBSET (Member \X Repeat),
             shares : SUBSET (Member \X Numbers),
             cross : SUBSET (Member \X Member \X Numbers)]

ASSUME MessageAssumption ==
  Lie \notin Hearing /\ None \notin Com2Item /\ None \notin Com3Item

-----------------------------------------------------------------------------
(* Messages.  A sender's SendChannel is a queue with one relay goroutine,  *)
(* so what has arrived is a prefix of what was sent, in this order.        *)

DealerToCom1(i)   == i
DealerToCom3(j)   == N + j
Com1ToCom2(k)     == k
Com1ToCom3(j, p)  == N + (j - 1) * N + p
Com1ToCom4(k)     == N + N * N + k
QueueLength(s)    == IF s = 0 THEN 2 * N ELSE N * N + 2 * N

Arrived(s, position) == position <= relayed[s]

Send(s) ==
  /\ sent' = sent \cup {s}
  /\ relayed' = IF s \in Lagging THEN relayed
                ELSE [relayed EXCEPT ![s] = QueueLength(s)]

\* Mutant: a relay that does not wait for the send.
MutantRelay(s) ==
  /\ \E count \in Pauses \cup {QueueLength(s)} :
       /\ relayed[s] < count /\ count <= QueueLength(s)
       /\ relayed' = [relayed EXCEPT ![s] = count]
  /\ UNCHANGED <<phase, served, erred, sent, deal, com2, com3, taken, com4, full, secret>>

Relay(s) ==
  /\ s \in sent
  /\ \E count \in Pauses \cup {QueueLength(s)} :
       /\ relayed[s] < count /\ count <= QueueLength(s)
       /\ relayed' = [relayed EXCEPT ![s] = count]
  /\ UNCHANGED <<phase, served, erred, sent, deal, com2, com3, taken, com4, full, secret>>

(* The driver: member 1 alone, then the others in parallel.                *)
MayRun(p, i) == phase = p /\ i \notin served /\ (i = 1 \/ 1 \in served)

Serve(i) == served' = served \cup {i} /\ UNCHANGED <<phase, erred>>

Fail(i) ==
  /\ served' = served \cup {i}
  /\ erred' = TRUE
  /\ phase' = IF i = 1 THEN "failed" ELSE phase

Advance(from, to) ==
  /\ phase = from /\ served = Member /\ ~erred
  /\ phase' = to
  /\ served' = {}
  /\ UNCHANGED erred

(* deliverBroadcastRound, after the driver's drain of the ReceiveChannels  *)
(* of every party but those in keep: Broadcast blocks on a full one.       *)
DeliverRound(pending) ==
  /\ pending = {}
  /\ full' = Party

\* Mutant: the driver drains nothing.
MutantDrained(keep) == full

Drained(keep) == full \cap keep

-----------------------------------------------------------------------------
(* Who a message of Com1 is from.  The sender is not kept: Com2, Com3 and  *)
(* Com4 file a message under the Com1ID in it, a later one over an earlier.*)

HonestCom1 == Member \ FaultyCom1
HonestCom3 == Member \ FaultyCom3
HonestCom4 == Member \ FaultyCom4

\* What the faulty members write as their Com1ID, to one receiver.
Claimed ==
  IF "Com1ID" \in Forged THEN [FaultyCom1 -> Claims] ELSE {[s \in FaultyCom1 |-> s]}

\* An honest member repeats what the dealer wrote.
Com1ID(s, claim) == IF s \in FaultyCom1 THEN claim[s] ELSE entry[s].id

Latest(S) ==
  LET last == {s \in S : \A t \in S : t <= s}
  IN  IF last = {} THEN 0 ELSE CHOOSE s \in last : TRUE

(* What the decoder sees.                                                  *)

Same(a, b, point) == a # Junk /\ b # Junk /\ (a = b \/ point \in meet)

(* (n - degree - 1) / 2 of reedSolomonDecodeImpl.                          *)
Errors(n) == (n - D - 1) \div 2

-----------------------------------------------------------------------------
(* Com3: the pairs that the Com2 round shows to agree.                     *)

Pairs == {e \in Member \X Member : e[1] < e[2]}
Liars == {k \in Member : com2Msg[k] = Lie}

\* The Com1 member whose shares Com2 member k took for those of i.
Source(k, i) == Latest({s \in DOMAIN com2Msg[k] : com2Msg[k][s] = i})

Via(e, s, t) ==
  {k \in Member \ Liars : Source(k, e[1]) = s /\ Source(k, e[2]) = t}
Points(e)  == {k \in Member \ Liars : Source(k, e[1]) # 0 /\ Source(k, e[2]) # 0}

\* The row of each of s and t and the column of the other, where they cross.
MutantCross(e, s, t) == Same(entry[s].row, entry[t].col, e)

Cross(e, s, t) ==
  /\ Same(entry[s].row, entry[t].col, e)
  /\ Same(entry[t].row, entry[s].col, <<e[2], e[1]>>)

(* Points of s and t that so many others cannot make another codeword of.  *)
Clear(e, s, t) ==
  Cardinality(Via(e, s, t)) >= D + Cardinality(Liars \cup (Points(e) \ Via(e, s, t)))

(* len(shares) is below the threshold, which a member that lists the pair  *)
(* again and again gets past, or no decode has enough points.              *)
TooFew(e) ==
  IF "Vectors" \in Forged /\ Liars # {}
  THEN Points(e) # {} /\ Cardinality(Points(e) \cup Liars) <= D
  ELSE Cardinality(Points(e) \cup Liars) < Threshold

PairDiffers(e) ==
  TooFew(e) \/ \E s, t \in HonestCom1 : Clear(e, s, t) /\ ~Cross(e, s, t)

(* Wrong values of the liars are corrected, vectors of another length part *)
(* any pair.                                                               *)
PairAgrees(e) ==
  /\ Cardinality(Points(e)) >= Threshold
  /\ Liars = {} \/ "Vectors" \notin Forged
  /\ \E s, t \in HonestCom1 : Via(e, s, t) = Points(e) /\ Cross(e, s, t)

(* The pairs that come out zero, in every Com3 member alike: of the others *)
(* the broadcasts may make anything.  Not among the outcomes is the scalar *)
(* of com_3.go:272 that hides a difference, which DealerStatus counts.     *)
Agreements ==
  LET agree  == {e \in Pairs : PairAgrees(e)}
      differ == {e \in Pairs : PairDiffers(e)}
  IN  {E \in SUBSET (Pairs \ differ) : agree \subseteq E}

Supporters(E) == FindCliqueIDs(Member, E \cup {<<e[2], e[1]>> : e \in E}, Threshold)

(* A dealer no Com2 broadcast mentions gets no status at all.              *)
Mentioned    == \E k \in Member : com2Msg[k] = Lie \/ DOMAIN com2Msg[k] # {}
Disqualified == Mentioned /\ Cardinality(happy) < Threshold
Unhappy      == IF Mentioned /\ ~Disqualified THEN Member \ happy ELSE {}

(* Of the N messages a Com1 member sends to a Com3 member P2PMsgs keeps    *)
(* the last; the first ReceiveAll of runCom3 discards what it finds.       *)
CrossReceived(j, claim) ==
  {<<Com1ID(c[1], claim), c[2]>> : c \in
     {c \in Member \X Member :
        /\ taken[j][c[1]] < Com1ToCom3(j, c[2])
        /\ Arrived(c[1], Com1ToCom3(j, c[2]))
        /\ c[2] = N \/ ~Arrived(c[1], Com1ToCom3(j, c[2] + 1))}}

Com3Reply(j, claim) ==
  LET unhappy == Unhappy
      columns == IF DealerToCom3(j) <= taken[j][0] /\ future # None THEN unhappy ELSE {}
      crosses == {c \in CrossReceived(j, claim) : c[1] \in Member \ unhappy /\ c[2] \in unhappy}
  IN  [dq      |-> IF Disqualified THEN {1} ELSE {},
       unhappy |-> unhappy \X {1},
       shares  |-> columns \X {j},
       cross   |-> {<<c[1], c[2], j>> : c \in crosses}]

-----------------------------------------------------------------------------
(* Com4: the votes of the Com3 round, entry by entry, and the columns it   *)
(* opens, by the Com3Seq in each share, a later broadcast over an earlier. *)

DqVotes         == {v \in Member \X Repeat : v[2] \in com3Msg[v[1]].dq}
UnhappyVotes(i) == {v \in Member \X Repeat : <<i, v[2]>> \in com3Msg[v[1]].unhappy}

UnhappySet == {i \in Member : Cardinality(UnhappyVotes(i)) >= Threshold}

\* In what follows u is the UnhappySet of the workset.
DisqualifiedByVote(u) == Cardinality(DqVotes) >= Threshold \/ Cardinality(u) > D

ColumnShares(i)   == {n \in Numbers : \E j \in Member : <<i, n>> \in com3Msg[j].shares}
CrossShares(o, p) == {n \in Numbers : \E j \in Member : <<o, p, n>> \in com3Msg[j].cross}

ForgedShares(i) ==
  {n \in ColumnShares(i) :
     Latest({j \in Member : <<i, n>> \in com3Msg[j].shares}) \in FaultyCom3}

(* The dealer's own shares decide what is decoded when they are of one     *)
(* column and few are forged; a forged one may still be of a wrong size.   *)
Column(i) ==
  IF /\ future \in Poly
     /\ Cardinality(ForgedShares(i)) <= Errors(Cardinality(ColumnShares(i)))
     /\ ForgedShares(i) = {} \/ verdict.column[i] # None
  THEN future ELSE verdict.column[i]

BucketFails(S) == S # {} /\ Cardinality(S) <= D

WorksetFails(u) ==
  /\ ~DisqualifiedByVote(u)
  /\ \/ \E i \in u : BucketFails(ColumnShares(i)) \/ (ColumnShares(i) # {} /\ Column(i) = None)
     \/ \E o \in u, p \in Member \ u :
          BucketFails(CrossShares(o, p)) \/ (CrossShares(o, p) # {} /\ ~verdict.decodes)

(* The column opened for owner is taken at X = peer, the cross share is    *)
(* the row of owner taken at Y = peer, of an owner that no honest Com3     *)
(* member calls unhappy: whether they match is the faulty members' choice. *)
CrossConsistent(o, p) ==
  ColumnShares(o) # {} /\ CrossShares(o, p) # {} /\ <<o, p>> \in verdict.match

\* Mutant: the cross check is left out for a column that was opened.
MutantAdditionalDQ(u) ==
  \E o \in u :
    /\ ColumnShares(o) = {}
    /\ Cardinality({p \in Member \ u : CrossConsistent(o, p)}) < Threshold

AdditionalDQ(u) ==
  \E o \in u : Cardinality({p \in Member \ u : CrossConsistent(o, p)}) < Threshold

ZeroShare(u) == DisqualifiedByVote(u) \/ AdditionalDQ(u)

(* Com1 members whose coefficients for Com4 are not those Com2 compared:   *)
(* sharing.go reduces a word that projection_eval.go multiplies as it is.  *)
Untied == FaultyCom1 \cup {i \in HonestCom1 : entry[i].raw}

(* The point of Com1 member i in member k's decode, None if there is none; *)
(* lie is what the untied members' messages come to.                       *)
RecipientPoint(u, k, claim, lie, i) ==
  LET s == Latest({s \in Member : Arrived(s, Com1ToCom4(k)) /\ Com1ID(s, claim) = i})
  IN  IF i \in u THEN IF ColumnShares(i) = {} THEN None ELSE Column(i)
      ELSE IF s = 0 THEN None
      ELSE IF s \in Untied THEN lie[s] ELSE entry[s].col

\* Mutant: interpolation of the first D + 1 points, none corrected.
MutantDecoded(points) == {w \in Poly : \A i \in 1..(D + 1) : Same(points[i], w, <<0, i>>)}

(* What reedSolomonDecode returns for N points: at most one value.         *)
Decoded(points) ==
  {w \in Poly : Cardinality({i \in Member : ~Same(points[i], w, <<0, i>>)}) <= Errors(N)}

RecipientPoints(u, k, claim, lie) == [i \in Member |-> RecipientPoint(u, k, claim, lie, i)]

PointMissing(points) == \E i \in Member : points[i] = None

(* ReconstructSecret: results under one index twice are refused.           *)
SameShare(a, b) == a = b \/ (a \in Poly /\ b \in Poly /\ <<0, 0>> \in meet)

Results == {r \in Member \X Numbers : r[2] \in com4Index[r[1]]}

ResultsRefused ==
  \/ \E r, q \in Results : r # q /\ r[2] = q[2]
  \/ Cardinality(Results) <= D

Misses(w) ==
  {r \in Results : r[1] # r[2] \/ com4Result[r[1]] = Junk \/ ~SameShare(com4Result[r[1]], w)}

\* Mutant: no wrong share is tolerated.
MutantRecovered == {w \in Poly \cup {Zero} : Misses(w) = {}}

Recovered ==
  {w \in Poly \cup {Zero} : Cardinality(Misses(w)) <= Errors(Cardinality(Results))}

-----------------------------------------------------------------------------
Init ==
  /\ phase = "deal" /\ served = {} /\ erred = FALSE
  /\ sent = {} /\ relayed = [s \in Senders |-> 0]
  /\ entry = [i \in Member |-> None] /\ future = None /\ meet = {}
  /\ com2Msg = [k \in Member |-> None] /\ happy = {}
  /\ com3Msg = [j \in Member |-> None] /\ verdict = None
  /\ taken = [j \in Member |-> None]
  /\ com4Result = [k \in Member |-> None] /\ com4Index = [k \in Member |-> {}]
  /\ full = {} /\ secret = None

(* PrepareDealerOutputs and the two sends of the test.                     *)
HonestDealing == [i \in Member |-> [id |-> i, row |-> F, col |-> F, raw |-> FALSE]]

Deal ==
  /\ phase = "deal"
  /\ entry' \in IF DealerHonest THEN {HonestDealing} ELSE Dealings
  /\ future' \in IF DealerHonest THEN {F} ELSE Version \cup {None}
  /\ meet' \in Meets
  /\ Send(0)
  /\ phase' = "com1"
  /\ UNCHANGED <<served, erred, com2, com3, taken, com4, full, secret>>

Com1(i) ==
  /\ MayRun("com1", i)
  /\ Arrived(0, DealerToCom1(i))
  /\ i \in FaultyCom1 \/ entry[i] # None
  /\ \/ Send(i)
     \/ i \in FaultyCom1 /\ Silence /\ UNCHANGED network
  /\ Serve(i)
  /\ UNCHANGED <<deal, com2, com3, taken, com4, full, secret>>

(* runCom1 sends nothing before all its messages are prepared.             *)
Com1Refuses(i) ==
  /\ MayRun("com1", i)
  /\ Arrived(0, DealerToCom1(i))
  /\ i \in HonestCom1 /\ entry[i] = None
  /\ Fail(i)
  /\ UNCHANGED <<network, deal, com2, com3, taken, com4, full, secret>>

(* ReceiveDealerFromCom1Reliable gives up after 500 ms.                    *)
Com1Timeout(i) ==
  /\ MayRun("com1", i)
  /\ ~Arrived(0, DealerToCom1(i))
  /\ Fail(i)
  /\ UNCHANGED <<network, deal, com2, com3, taken, com4, full, secret>>

Com1Done ==
  /\ Advance("com1", "com2")
  /\ UNCHANGED <<network, deal, com2, com3, taken, com4, full, secret>>

Com2Heard(k, claim) ==
  [s \in {s \in Member : Arrived(s, Com1ToCom2(k))} |-> Com1ID(s, claim)]

Broadcast2(k, m) == Serve(k) /\ com2Msg' = [com2Msg EXCEPT ![k] = m]

(* A Com1ID that is not positive makes a member give up.                   *)
Com2(k) ==
  /\ MayRun("com2", k)
  /\ \/ /\ k \in FaultyCom2
        /\ \E m \in {Lie, <<>>} \cup (IF Silence THEN {None} ELSE {}) : Broadcast2(k, m)
     \/ /\ k \notin FaultyCom2
        /\ \E claim \in Claimed :
             LET heard == Com2Heard(k, claim) IN
             IF \E s \in DOMAIN heard : heard[s] <= 0 THEN Fail(k) /\ UNCHANGED com2Msg
             ELSE Broadcast2(k, heard)
  /\ UNCHANGED <<network, deal, happy, com3, taken, com4, full, secret>>

Com2Done ==
  /\ Advance("com2", "com3")
  /\ DeliverRound(full)
  /\ IF \E k \in Member : com2Msg[k] = None THEN UNCHANGED happy
     ELSE happy' \in {Supporters(E) : E \in Agreements}
  /\ UNCHANGED <<network, deal, com2Msg, com3, taken, com4, secret>>

(* runCom3 up to its first ReceiveAll: the Com2 round, all of it or none.  *)
Com3Receive(j) ==
  /\ MayRun("com3", j)
  /\ taken[j] = None
  /\ Com3ID(j) \in full
  /\ full' = full \ {Com3ID(j)}
  /\ IF \E k \in Member : com2Msg[k] = None
     THEN Fail(j) /\ UNCHANGED taken
     ELSE /\ taken' = [taken EXCEPT ![j] = relayed]
          /\ UNCHANGED <<phase, served, erred>>
  /\ UNCHANGED <<network, deal, com2, com3, com4, secret>>

(* What a faulty Com3 member broadcasts: any votes, all of its shares or   *)
(* none, or shares for every number.                                       *)
FaultyVotes      == {{}, {1}} \cup (IF "Votes" \in Forged THEN {Repeat} ELSE {})
FaultyNumbers(j) == {{}, {j}} \cup (IF "Com3Seq" \in Forged THEN {Numbers} ELSE {})

FaultyCom3Item(j) ==
  [dq : FaultyVotes, unhappy : {U \X v : U \in SUBSET Member, v \in FaultyVotes},
   shares : {Member \X s : s \in FaultyNumbers(j)},
   cross : {Member \X Member \X s : s \in FaultyNumbers(j)}]

Com3Perform(j) ==
  /\ MayRun("com3", j)
  /\ taken[j] # None
  /\ \E m \in IF j \in FaultyCom3
              THEN FaultyCom3Item(j) \cup (IF Silence THEN {None} ELSE {})
              ELSE {Com3Reply(j, claim) : claim \in Claimed} :
       com3Msg' = [com3Msg EXCEPT ![j] = m]
  /\ taken' = [taken EXCEPT ![j] = None]
  /\ Serve(j)
  /\ UNCHANGED <<network, deal, com2, verdict, com4, full, secret>>

Com3Done ==
  /\ Advance("com3", "com4")
  /\ DeliverRound(Drained({Com3ID(j) : j \in Member}))
  /\ IF (\E j \in Member : com3Msg[j] = None) \/ UnhappySet = {} THEN UNCHANGED verdict
     ELSE verdict' \in Verdicts
  /\ UNCHANGED <<network, deal, com2, com3Msg, taken, com4, secret>>

Com4Error(k) == Fail(k) /\ UNCHANGED com4

Com4Share(k, v, indices) ==
  /\ Serve(k)
  /\ com4Result' = [com4Result EXCEPT ![k] = v]
  /\ com4Index' = [com4Index EXCEPT ![k] = indices]

(* Points that are on no version, but for a few, the decoder refuses or    *)
(* takes for a polynomial nobody meant.                                    *)
Com4Decode(k, points) ==
  IF PointMissing(points) THEN Com4Error(k)
  ELSE \/ \E w \in Decoded(points) : Com4Share(k, w, {k})
       \/ Decoded(points) = {} /\ (Com4Error(k) \/ Com4Share(k, Junk, {k}))

Com4Answer(k) ==
  LET u == UnhappySet IN
  IF WorksetFails(u) THEN Com4Error(k)
  ELSE IF ZeroShare(u) THEN Com4Share(k, Zero, {k})
  ELSE \E claim \in Claimed, lie \in [Untied -> Version \cup {None}] :
         Com4Decode(k, RecipientPoints(u, k, claim, lie))

\* One result under its own index; with Index another one besides, or none.
FaultyIndices(k) ==
  IF "Index" \in Forged THEN {{}} \cup {{k, n} : n \in Numbers} ELSE {{k}}

Com4(k) ==
  /\ MayRun("com4", k)
  /\ Com4ID(k) \in full
  /\ full' = full \ {Com4ID(k)}
  /\ \/ /\ k \in FaultyCom4
        /\ \/ Silence /\ Com4Share(k, None, {})
           \/ \E v \in Version \cup {Zero}, X \in FaultyIndices(k) : Com4Share(k, v, X)
     \/ /\ k \notin FaultyCom4
        /\ IF \E j \in Member : com3Msg[j] = None THEN Com4Error(k)
           ELSE Com4Answer(k)
  /\ UNCHANGED <<network, deal, com2, com3, taken, secret>>

Com4Done ==
  /\ Advance("com4", "recon")
  /\ DeliverRound(Drained({Com4ID(k) : k \in Member}))
  /\ UNCHANGED <<network, deal, com2, com3, taken, com4, secret>>

(* ReceiveCom4Results and ReconstructSecret, both at the dealer.           *)
Reconstruct ==
  /\ phase = "recon"
  /\ 0 \in full
  /\ full' = full \ {0}
  /\ IF (\E k \in Member : com4Result[k] = None) \/ ResultsRefused
     THEN phase' = "failed" /\ UNCHANGED secret
     ELSE \/ phase' = "done" /\ secret' \in Recovered
          \/ Recovered = {} /\ phase' = "failed" /\ UNCHANGED secret
          \/ Recovered = {} /\ phase' = "done" /\ secret' = Junk
  /\ UNCHANGED <<served, erred, network, deal, com2, com3, taken, com4>>

(* runOthersParallel returns an error only after its last member.          *)
Abort ==
  /\ phase \in {"com1", "com2", "com3", "com4"} /\ served = Member /\ erred
  /\ phase' = "failed"
  /\ UNCHANGED <<served, erred, network, deal, com2, com3, taken, com4, full, secret>>

Terminated == phase \in {"done", "failed"} /\ UNCHANGED vars

Step ==
  \/ Deal \/ Com1Done \/ Com2Done \/ Com3Done \/ Com4Done \/ Reconstruct \/ Abort
  \/ \E i \in Member :
       \/ Com1(i) \/ Com1Refuses(i) \/ Com1Timeout(i) \/ Com2(i)
       \/ Com3Receive(i) \/ Com3Perform(i) \/ Com4(i)

Next == Step \/ (\E s \in Senders : Relay(s)) \/ Terminated

Spec == Init /\ [][Next]_vars

(* The driver's own steps never wait for a relay: no fairness of Relay.    *)
FairSpec == Spec /\ WF_vars(Step)

-----------------------------------------------------------------------------
(* Properties.                                                             *)

TypeOK ==
  /\ phase \in {"deal", "com1", "com2", "com3", "com4", "recon", "done", "failed"}
  /\ served \subseteq Member /\ erred \in BOOLEAN
  /\ sent \subseteq Senders
  /\ relayed \in [Senders -> Nat]
  /\ \A s \in Senders : relayed[s] <= IF s \in sent THEN QueueLength(s) ELSE 0
  /\ entry \in [Member -> Entry \cup {None}]
  /\ future \in Version \cup {None}
  /\ meet \subseteq Senders \X Senders
  /\ com2Msg \in [Member -> Com2Item \cup {None}]
  /\ happy \subseteq Member
  /\ com3Msg \in [Member -> Com3Item \cup {None}]
  /\ taken \in [Member -> [Senders -> Nat] \cup {None}]
  /\ verdict \in Verdicts \cup {None}
  /\ com4Result \in [Member -> Version \cup {Zero, None}]
  /\ com4Index \in [Member -> SUBSET Numbers]
  /\ full \subseteq Party
  /\ secret \in Version \cup {Zero, None}

(* Every Com3 member speaks once and for itself, true or not: nothing in   *)
(* com_4.go or future_reconstruct.go sees to it.                           *)
OneVoice == Forged \cap {"Votes", "Com3Seq"} = {}

(* A dealing that the Com2 round binds the dealer to: each honest Com1     *)
(* member was given its own number, reduced words and a row and a column   *)
(* that cross, which com_2.go, taking the pairs i < j, compares with no    *)
(* other's; and enough of Com2 took each two of them for themselves.       *)
Bindable ==
  /\ \A i \in HonestCom1 :
       /\ entry[i] # None /\ entry[i].id = i /\ ~entry[i].raw
       /\ Same(entry[i].row, entry[i].col, <<i, i>>)
  /\ \A i, p \in HonestCom1 : i < p => Clear(<<i, p>>, i, p)

(* Commitment: a share that an honest Com4 member outputs, other than the  *)
(* zero of a disqualified dealer, lies on a polynomial that every honest   *)
(* Com1 member's column agrees with, whatever polynomials the dealer dealt *)
(* and whatever Com1ID the faulty members wrote to Com4.                   *)
Commitment ==
  \A k \in HonestCom4 : OneVoice /\ com4Result[k] \in Version /\ Bindable =>
    \A i \in HonestCom1 : Same(entry[i].col, com4Result[k], <<0, i>>)

(* An honest dealer may lose its dealing, but while every Com3 member      *)
(* speaks once and for itself no honest Com4 member outputs a share of     *)
(* anything else, however late the relays run, whatever the faulty Com1    *)
(* members send under whatever Com1ID.                                     *)
HonestDealerShares ==
  OneVoice /\ DealerHonest => \A k \in HonestCom4 :
    com4Result[k] \in {None, Zero} \/ SameShare(com4Result[k], F)

(* Com3Reply of an honest member that objects to the dealer, or to someone *)
(* the dealer served.                                                      *)
Complains(m) == m.dq # {} \/ m.unhappy # {}

(* The fate of a dealing is what any honest Com3 member says of it: one    *)
(* unhappy Com1 member is enough for zero, because isDealerCrossConsistent *)
(* finds no match among the cross shares that the filters of Com3 and of   *)
(* Com4 leave, and D faulty Com3 members that speak once and for           *)
(* themselves can neither cause nor stop it.                               *)
ComplaintsDecide ==
  \A k \in HonestCom4 : OneVoice /\ com4Result[k] # None =>
    (com4Result[k] = Zero <=> \E j \in HonestCom3 : Complains(com3Msg[j]))

(* No vector too long, no vote twice, no index but the member's own: one   *)
(* faulty member of Com2, Com3 or Com4 that does otherwise gets the dealer *)
(* disqualified, zeroed or the last decode refused.                        *)
PlainLists == Forged \cap {"Vectors", "Votes", "Index"} = {}

(* firstparty_vss_test.go:84 and :95: the run ends without an error and    *)
(* the dealer recovers what it shared, also with D members of Com2, Com3   *)
(* and Com4 faulty, as long as their lists are plain.                      *)
TestAssertion ==
  PlainLists =>
    /\ phase # "failed"
    /\ phase = "done" => SameShare(secret, F)

(* The sharing as VSS has it.  The dealer is bound when the Com2 round is  *)
(* over: to zero if it shows some pair of Com1 members to differ, and else *)
(* to the polynomial that the honest members' columns are on.              *)
(* Polynomials that agree on the share line are one value.                 *)
Value(v) == IF v \in Poly /\ SameShare(v, F) THEN F ELSE v

Common == {w \in Poly : \A i \in HonestCom1 : Same(entry[i].col, w, <<0, i>>)}

Bound ==
  IF phase \in {"deal", "com1", "com2"} \/ \E k \in Member : com2Msg[k] = None THEN None
  ELSE IF Mentioned /\ happy # Member THEN Zero
  ELSE IF DealerHonest THEN F
  ELSE IF Bindable /\ Common # {}
       THEN Value(CHOOSE w \in Common : TRUE)
       ELSE Junk

Sharing ==
  INSTANCE VSS WITH
    Values    <- Poly,
    Receivers <- HonestCom4,
    Loose     <- Junk,
    bound     <- Bound,
    output    <- [k \in HonestCom4 |-> Value(com4Result[k])],
    secret    <- Value(secret)

(* The sharing is one of VSS: all honest Com4 members and the recovered    *)
(* secret go back to one polynomial, the honest dealer's own if it is one, *)
(* fixed before any column is opened and any share is output.  It is so    *)
(* with OneVoice and with results under their own index.                   *)
Verifiable == Sharing!Spec

(* The driver comes to its end or to an error: no Broadcast stays blocked  *)
(* on an unread round and no member waits for one that never comes.        *)
Termination == <>(phase \in {"done", "failed"})
=============================================================================
