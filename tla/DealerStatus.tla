----------------------------- MODULE DealerStatus -----------------------------
(***************************************************************************)
(* How Com3 comes to the edges of CliqueSearch: Com1 shares the row and    *)
(* the column of each member to Com2 (com_1.go), Com2 broadcasts their     *)
(* differences at the crossing points (com_2.go), and Com3 decodes them    *)
(* (reconstructPairZero of com_3.go), in real field arithmetic.            *)
(*                                                                         *)
(* The pair loop and the search are those of CliqueSearch; what was free   *)
(* there, whether a pair comes out zero, is computed here.                 *)
(***************************************************************************)
EXTENDS TriPoly, CliqueSearch

CONSTANTS
  Dealings,      \* the rows and columns a dealer may give out, of any words
  Masks,         \* the random coefficients of Com1's sharing
  FaultyCom2,
  LieValues,     \* the field elements a faulty Com2 member puts into vectors
  LieShapes,     \* how many vectors for a pair, and how long
  Hearings       \* which Com1 members each Com2 member may have heard

ASSUME StatusAssumption ==
  /\ Size = N /\ Threshold = 2 * D + 1 /\ P >= 3
  /\ FaultyCom2 \subseteq Member /\ Cardinality(FaultyCom2) <= D
  /\ LieValues \subseteq Elem /\ LieShapes \subseteq [count : Nat, len : Nat]
  /\ Hearings \subseteq [Member -> SUBSET Member]

Matrix     == [Deg -> [Deg -> Elem]]
WordMatrix == [Deg -> [Deg -> Uint]]

\* com_1.go asks for the size of a matrix and no more.
ASSUME DealingAssumption ==
  /\ Dealings \subseteq [row : [Member -> WordMatrix], col : [Member -> WordMatrix]]
  /\ Masks \in [Deg -> [Deg -> [1..D -> Elem]]]

VARIABLES
  deal, heard, shape,
  diffs   \* the differences at each pair: [pair][side][receiver]

statusVars == <<vars, deal, heard, shape, diffs>>

HonestCom2 == Member \ FaultyCom2
Side == {"left", "right"}

-----------------------------------------------------------------------------
(* Com1 and Com2.  Receiver 0 is the secret itself, which nobody is sent.  *)

Row(i) == deal.row[i]
Col(i) == deal.col[i]

RowShare(i, k) == ShareMatrix(Row(i), Masks, k)
ColShare(i, k) == ShareMatrix(Col(i), Masks, k)

LeftDiff(i, p, k) ==
  DiffSlice(SpecializeCoefficients(RowShare(i, k), p),
            SpecializeCoefficients(ColShare(p, k), i))

\* Mutant: the peer's row is taken at the peer's own point.
MutantRightDiff(i, p, k) ==
  DiffSlice(SpecializeCoefficients(ColShare(i, k), p),
            SpecializeCoefficients(RowShare(p, k), p))

RightDiff(i, p, k) ==
  DiffSlice(SpecializeCoefficients(ColShare(i, k), p),
            SpecializeCoefficients(RowShare(p, k), i))

\* PerformCom2 of every member, for the pairs it heard both members of.
Com2 ==
  /\ diffs = <<>>
  /\ diffs' = [q \in Pairs |-> [s \in Side |-> [k \in 0..N |->
                IF s = "left" THEN LeftDiff(q[1], q[2], k) ELSE RightDiff(q[1], q[2], k)]]]
  /\ UNCHANGED <<vars, deal, heard, shape>>

\* A vector of a broadcast, with the exponents of Z from 0.
Vectors(len) == [0..(len - 1) -> LieValues]

(* What the members may broadcast on one side of a pair, a list of vectors *)
(* each: a faulty member's last vector is any, those before it are right.  *)
Broadcasts(q, s) ==
  LET right == diffs[q][s]
      Lie(k, v) == [c \in 1..shape.count |-> IF c < shape.count THEN right[k] ELSE v]
  IN  {[k \in Member |-> IF k \in FaultyCom2 THEN Lie(k, lies[k])
                         ELSE IF {q[1], q[2]} \subseteq heard[k] THEN <<right[k]>> ELSE <<>>] :
         lies \in [FaultyCom2 -> Vectors(shape.len)]}

-----------------------------------------------------------------------------
(* Com3.                                                                   *)

\* Every decode of points with x in a set of Com2 members.
DecodeTable ==
  Tabulated([S \in {S \in SUBSET Member : Cardinality(S) > D} |->
    LET xs == Ascending(S) IN
    Tabulated([y \in [S -> Elem] |->
                 Decode([k \in DOMAIN xs |-> <<xs[k], y[xs[k]]>>], D, TRUE)])])

DecodesToZero(y) ==
  Cardinality(DOMAIN y) > D /\ DecodeTable[DOMAIN y][Tabulated(y)] = {0}

\* Mutant: the scalar's power does not grow.
MutantCombine(v, r) == Evaluate(v, 1)

(* The random linear combination of the coefficients of one vector.        *)
Combine(v, r) == Evaluate(v, r)

Long(v) == Cardinality(DOMAIN v)

(* reconstructCoeffVectorZero: vectors of full length are combined, with   *)
(* others about each coefficient is decoded by itself.                     *)
CoeffVectorZero(lists, r) ==
  LET seqs      == {k \in Member : lists[k] # <<>>}
      coeffSize == Max({0} \cup UNION {{Long(lists[k][c]) : c \in DOMAIN lists[k]} :
                                        k \in seqs})
      Latest(k) == lists[k][Len(lists[k])]
      With(k, z) == {c \in DOMAIN lists[k] : z < Long(lists[k][c])}
  IN  IF \A k \in seqs : Long(Latest(k)) >= coeffSize
      THEN coeffSize = 0 \/ DecodesToZero([k \in seqs |->
             Combine([z \in 0..(coeffSize - 1) |-> Latest(k)[z]], r)])
      ELSE \A z \in 0..(coeffSize - 1) :
             DecodesToZero([k \in {k \in seqs : With(k, z) # {}} |->
                              lists[k][Max(With(k, z))][z]])

Nought == [z \in Deg |-> 0]

\* The scalars that take a difference which is not zero to zero.
Hiding(q, s) ==
  LET secret == diffs[q][s][0] IN
  IF secret = Nought THEN {} ELSE {r \in Scalar : Combine(secret, r) = 0}

(* Whether one side comes out zero, for the lies and scalars there may be. *)
(* Scalars that hide a difference are left out: FewScalarsHide bounds how  *)
(* few they are.                                                           *)
SideOutcomes(q, s) ==
  LET scalars == Scalar \ Hiding(q, s) IN
  {CoeffVectorZero(lists, r) : lists \in Broadcasts(q, s), r \in scalars}

HeardBy(q) == {k \in HonestCom2 : {q[1], q[2]} \subseteq heard[k]}

\* All vectors of the pair count, also those of one member twice.
VectorCount(q) == Cardinality(HeardBy(q)) + shape.count * Cardinality(FaultyCom2)

\* Mutant: only the left differences are decoded.
MutantPairOutcomes(q) ==
  IF VectorCount(q) < Threshold THEN {FALSE} ELSE SideOutcomes(q, "left")

PairOutcomes(q) ==
  IF VectorCount(q) < Threshold THEN {FALSE}
  ELSE {l /\ r : l \in SideOutcomes(q, "left"), r \in SideOutcomes(q, "right")}

-----------------------------------------------------------------------------
StatusInit ==
  /\ Init
  /\ deal \in Dealings
  /\ heard \in Hearings
  /\ shape \in LieShapes
  /\ diffs = <<>>

StatusPair ==
  /\ diffs # <<>> /\ left # {}
  /\ \E zero \in PairOutcomes(First) : Pair(zero)
  /\ UNCHANGED <<deal, heard, shape, diffs>>

StatusSearch == Search /\ UNCHANGED <<deal, heard, shape, diffs>>

StatusDone == searched /\ UNCHANGED statusVars

StatusNext == Com2 \/ StatusPair \/ StatusSearch \/ StatusDone

StatusSpec == StatusInit /\ [][StatusNext]_statusVars

-----------------------------------------------------------------------------
\* The matrix that the words of M stand for.
Canonical(M) == [e \in Deg |-> [z \in Deg |-> M[e][z] % P]]

Agree(q) == \A s \in Side : diffs[q][s][0] = Nought

(* The honest Com2 members that heard a pair decide how it is decoded: more *)
(* than D of them, and D more than the faulty ones.  The threshold on the  *)
(* number of vectors does not ensure the second once D exceeds 1.          *)
HeardEnough(q) ==
  /\ Cardinality(HeardBy(q)) > D
  /\ Cardinality(HeardBy(q)) >= D + Cardinality(FaultyCom2)

(* An edge of the graph of com_3.go means agreement at both crossing       *)
(* points, whatever D faulty Com2 members broadcast in whatever shape, as  *)
(* long as enough honest ones heard both members.                          *)
EdgesAgree == \A e \in edges : e \in Pairs /\ HeardEnough(e) => Agree(e)

(* Any two happy members agree at both crossing points, of the pairs that  *)
(* enough honest Com2 members heard: also in a graph in which each of them *)
(* has neighbours enough and that lacks the edge between the two.          *)
HappyAgree ==
  searched => \A q \in Pairs :
    {q[1], q[2]} \subseteq clique /\ HeardEnough(q) => Agree(q)

(* Two members that agree are joined when every honest Com2 member heard   *)
(* them and no vector is too long, however wrong or short or repeated the  *)
(* vectors of the faulty ones are.                                         *)
HonestSupported ==
  \A q \in Pairs \ left :
    HeardBy(q) = HonestCom2 /\ Agree(q) /\ shape.len <= D + 1
      => q \in edges

(* The random combination of com_3.go hides a difference under at most D   *)
(* of its P - 1 scalars.                                                   *)
FewScalarsHide ==
  diffs # <<>> /\ left = Pairs =>
    \A q \in Pairs, s \in Side : Cardinality(Hiding(q, s)) <= D

\* The row of i takes at p what the column of p takes at i, as a polynomial in Z.
Crossing(i, p) ==
  SpecializeCoefficients(Canonical(Row(i)), p) = SpecializeCoefficients(Canonical(Col(p)), i)

(* The points that a member of Com4 is sent by the accepted members, their *)
(* columns at Z = k and X = 0, are on one polynomial of degree D, given of *)
(* each of these members what neither Com1 nor Com2 looks at: that its row *)
(* and its column agree on the diagonal and that the column's words are    *)
(* less than P.  Of others Com2 is sent shares modulo P, while Com4 is     *)
(* sent products that wrapped.                                             *)
HappyColumnsFit ==
  (/\ searched /\ clique # {}
   /\ \A i \in clique : Crossing(i, i) /\ Col(i) \in Matrix
   /\ \A i, p \in clique : HeardEnough(<<i, p>>))
  => \A k \in Member : \E q \in [Deg -> Elem] :
       \A i \in clique : Evaluate(q, i) = SpecializeColumnCoefficients(Col(i), k)[0]

(* A dealer who gave every two members rows and columns that cross has all *)
(* of them happy, whatever D faulty members of Com2 broadcast, when the    *)
(* honest ones heard everybody and no vector is too long.                  *)
HonestDealerAccepted ==
  (/\ searched /\ shape.len <= D + 1
   /\ \A k \in HonestCom2 : heard[k] = Member
   /\ \A i, p \in Member : i # p => Crossing(i, p))
  => clique = Member
=============================================================================
