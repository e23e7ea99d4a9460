-------------------------- MODULE DealerStatusProofs --------------------------
(***************************************************************************)
(* What the search of com_3.go returns for every graph, that the graphs    *)
(* which Com3 decodes are among them, and what an edge of these means: the *)
(* two members agree, members that agree are joined, and the columns of the *)
(* accepted members fit one polynomial.                                    *)
(***************************************************************************)
EXTENDS DealerStatus, DecoderProofs

(* A member of a clique has the rest of the clique for peers, so a clique  *)
(* that reaches the threshold consists of high-degree vertices.            *)
LEMMA CliqueHasHighDegree ==
  ASSUME NEW V, IsFiniteSet(V), NEW E, NEW threshold \in Nat,
         NEW C \in SUBSET V, IsClique(E, C), Cardinality(C) >= threshold
  PROVE  C \subseteq HighDegreeVertices(V, E, threshold)
<1>1. IsFiniteSet(C)
  BY FS_Subset
<1> SUFFICES ASSUME NEW i \in C
             PROVE  Cardinality(Peers(V, E, i)) >= threshold - 1
  BY DEF HighDegreeVertices
<1>2. C \ {i} \subseteq Peers(V, E, i)
  BY DEF IsClique, Peers
<1>3. Cardinality(C \ {i}) = Cardinality(C) - 1 /\ IsFiniteSet(C \ {i})
  BY <1>1, FS_RemoveElement
<1>4. IsFiniteSet(Peers(V, E, i))
  BY FS_Subset DEF Peers
<1>5. Cardinality(C \ {i}) <= Cardinality(Peers(V, E, i))
  BY <1>2, <1>4, FS_Subset
<1>6. /\ Cardinality(C) \in Nat /\ Cardinality(C \ {i}) \in Nat
      /\ Cardinality(Peers(V, E, i)) \in Nat
  BY <1>1, <1>3, <1>4, FS_CardinalityType
<1> QED
  BY <1>3, <1>5, <1>6

(* The set that is returned holds every clique of at least threshold       *)
(* vertices, unless it is empty.                                           *)
LEMMA ResultHoldsEveryClique ==
  ASSUME NEW V, IsFiniteSet(V), NEW E, NEW threshold \in Nat,
         FindCliqueIDs(V, E, threshold) # {},
         NEW C \in SUBSET V, IsClique(E, C), Cardinality(C) >= threshold
  PROVE  C \subseteq FindCliqueIDs(V, E, threshold)
BY CliqueHasHighDegree DEF FindCliqueIDs

(* A clique of at least threshold vertices is returned when no vertex      *)
(* outside it has a high degree.                                           *)
LEMMA ClearCliqueFound ==
  ASSUME NEW V, IsFiniteSet(V), NEW E, NEW threshold \in Nat,
         NEW C \in SUBSET V, IsClique(E, C), Cardinality(C) >= threshold,
         \A i \in V \ C : Cardinality(Peers(V, E, i)) < threshold - 1
  PROVE  FindCliqueIDs(V, E, threshold) = C
<1>1. \A i \in V \ C : i \notin HighDegreeVertices(V, E, threshold)
  <2> SUFFICES ASSUME NEW i \in V \ C
               PROVE  ~(Cardinality(Peers(V, E, i)) >= threshold - 1)
    BY DEF HighDegreeVertices
  <2>1. Cardinality(Peers(V, E, i)) \in Nat
    BY FS_Subset, FS_CardinalityType DEF Peers
  <2> QED
    BY <2>1
<1>2. HighDegreeVertices(V, E, threshold) = C
  BY <1>1, CliqueHasHighDegree DEF HighDegreeVertices
<1> QED
  BY <1>2 DEF FindCliqueIDs

-----------------------------------------------------------------------------
(* What the search has stored is what findCliqueIDs returns for the graph, *)
(* which no longer changes.                                                *)
Stored ==
  /\ searched \in BOOLEAN
  /\ searched => left = {} /\ clique = FindCliqueIDs(Vertex, edges, Threshold)

(* The search of com_3.go runs once and its result stands.                 *)
THEOREM StoredInvariant == Spec => []Stored
<1>1. Init => Stored
  BY DEF Init, Stored
<1>2. Stored /\ [Next]_vars => Stored'
  <2> SUFFICES ASSUME Stored, [Next]_vars PROVE Stored'
    OBVIOUS
  <2>1. ASSUME NEW zero \in BOOLEAN, Pair(zero) PROVE Stored'
    BY <2>1 DEF Stored, Pair
  <2>2. CASE Search
    BY <2>2 DEF Stored, Search
  <2>3. CASE UNCHANGED vars
    BY <2>3 DEF Stored, vars
  <2> QED
    BY <2>1, <2>2, <2>3 DEF Next
<1> QED
  BY <1>1, <1>2, PTL DEF Spec

LEMMA VertexFinite == IsFiniteSet(Vertex)
BY SizeAssumption, FS_Interval DEF Vertex

LEMMA StoredSupports == Stored /\ searched /\ clique # {} => Supports(clique)
BY DEF Stored, Supports, FindCliqueIDs

(* Happy members include every group that could have been accepted.        *)
THEOREM NobodyLeftOutHolds == Spec => []NobodyLeftOut
<1>1. Stored => NobodyLeftOut
  BY ResultHoldsEveryClique, VertexFinite, SizeAssumption
     DEF Stored, NobodyLeftOut, Supports
<1> QED
  BY <1>1, StoredInvariant, PTL

(* A group whose outsiders have low degrees is found.                      *)
THEOREM ClearSupportFoundHolds == Spec => []ClearSupportFound
<1>1. Stored => ClearSupportFound
  <2> SUFFICES ASSUME Stored, searched, NEW C \in SUBSET Vertex, Supports(C),
                      \A i \in Vertex \ C :
                        Cardinality(Peers(Vertex, edges, i)) < Threshold - 1
               PROVE  clique = C
    BY DEF ClearSupportFound
  <2> QED
    BY ClearCliqueFound, VertexFinite, SizeAssumption DEF Stored, Supports
<1> QED
  BY <1>1, StoredInvariant, PTL

-----------------------------------------------------------------------------
(* The pair loop of com_3.go with the decoding of each pair is the pair    *)
(* loop of CliqueSearch.                                                   *)
THEOREM StatusImplementsSearch == StatusSpec => Spec
<1>1. StatusInit => Init
  BY DEF StatusInit
<1>2. [StatusNext]_statusVars => [Next]_vars
  <2> SUFFICES ASSUME [StatusNext]_statusVars PROVE [Next]_vars
    OBVIOUS
  <2>1. CASE Com2
    BY <2>1 DEF Com2
  <2>2. CASE StatusPair
    <3>1. PICK zero \in PairOutcomes(First) : Pair(zero)
      BY <2>2 DEF StatusPair
    <3>2. CASE zero
      <4>1. Pair(TRUE)
        BY <3>1, <3>2 DEF Pair
      <4> QED
        BY <4>1 DEF Next
    <3>3. CASE ~zero
      <4>1. Pair(FALSE)
        BY <3>1, <3>3 DEF Pair
      <4> QED
        BY <4>1 DEF Next
    <3> QED
      BY <3>2, <3>3
  <2>3. CASE StatusSearch
    BY <2>3 DEF StatusSearch, Next
  <2>4. CASE UNCHANGED statusVars
    BY <2>4 DEF statusVars
  <2> QED
    BY <2>1, <2>2, <2>3, <2>4 DEF StatusNext, StatusDone
<1> QED
  BY <1>1, <1>2, PTL DEF StatusSpec, Spec

(* The happy members of a dealer, in every field and for every committee,  *)
(* dealing and set of lies: they hold every group of supporters, and one   *)
(* that stands clear is found.                                             *)
THEOREM HappyMembers == StatusSpec => [](NobodyLeftOut /\ ClearSupportFound)
BY StatusImplementsSearch, NobodyLeftOutHolds, ClearSupportFoundHolds, PTL

-----------------------------------------------------------------------------
(* The differences that Com2 broadcasts are points of polynomials in the   *)
(* receiver, whose value at 0 is the difference of the row and the column. *)

LEMMA Degrees == D \in Nat /\ Deg = 0..D /\ N \in Nat /\ 0..N \subseteq Elem /\ Member \subseteq Elem
                 /\ IsFiniteSet(Member) /\ Cardinality(Member) = N
<1>1. D \in Nat /\ N \in Nat /\ N < P
  BY CommitteeAssumption
<1>2. 0..N \subseteq Elem /\ 1..N \subseteq Elem
  BY <1>1, Modulus DEF Elem
<1>3. IsFiniteSet(1..N) /\ Cardinality(1..N) = N
  BY <1>1, FS_Interval
<1> QED
  BY <1>1, <1>2, <1>3 DEF Deg, Member

LEMMA ShareIsPoly ==
  ASSUME NEW M \in Matrix, NEW s \in Elem, NEW z \in Deg
  PROVE  /\ IsPoly([k \in Elem |-> SpecializeCoefficients(ShareMatrix(M, Masks, k), s)[z]], D)
         /\ SpecializeCoefficients(ShareMatrix(M, Masks, 0), s)[z] = SpecializeCoefficients(M, s)[z]
<1> DEFINE c(e) == [i \in Deg |-> IF i = 0 THEN M[e][z] ELSE Masks[e][z][i]]
           m == [e \in Deg |-> [k \in Elem |-> Evaluate(c(e), k)]]
           h == [k \in Elem |-> SpecializeCoefficients(ShareMatrix(M, Masks, k), s)[z]]
<1>1. D \in Nat /\ Deg = 0..D /\ 0 \in Elem
  BY Degrees, Units
<1>2. ASSUME NEW e \in Deg PROVE c(e) \in Poly(D) /\ c(e)[0] = M[e][z]
  <2>1. M[e][z] \in Elem
    BY DEF Matrix
  <2>2. \A i \in Deg : i # 0 => Masks[e][z][i] \in Elem
    <3>1. \A i \in Deg : i # 0 => i \in 1..D
      BY <1>1
    <3>2. Masks[e][z] \in [1..D -> Elem]
      BY DealingAssumption
    <3> QED
      BY <3>1, <3>2
  <2>3. 0 \in Deg
    BY <1>1
  <2> QED
    BY <1>1, <2>1, <2>2, <2>3 DEF Poly
<1> HIDE DEF c
<1>3. ASSUME NEW e \in 0..D PROVE IsPoly(m[e], D)
  <2>1. e \in Deg /\ c(e) \in Poly(D)
    BY <1>1, <1>2
  <2>2. \A x \in Elem : m[e][x] = Evaluate(c(e), x)
    BY <2>1
  <2> HIDE DEF m
  <2> QED
    BY <2>1, <2>2 DEF IsPoly
<1>4. ASSUME NEW k \in Elem, NEW e \in Deg PROVE ShareMatrix(M, Masks, k)[e][z] = Evaluate(c(e), k)
  <2>1. M[e][z] % P = M[e][z]
    BY ModSmall DEF Matrix
  <2> QED
    BY <2>1 DEF ShareMatrix, ShareValue, c
<1>5. \A x \in Elem : h[x] = Evaluate([e \in 0..D |-> m[e][x]], s)
  <2>1. ASSUME NEW x \in Elem PROVE h[x] = Evaluate([e \in 0..D |-> m[e][x]], s)
    <3>1. [e \in Deg |-> ShareMatrix(M, Masks, x)[e][z]] = [e \in 0..D |-> m[e][x]]
      BY <1>1, <1>4
    <3>2. h[x] = Evaluate([e \in Deg |-> ShareMatrix(M, Masks, x)[e][z]], s)
      BY DEF SpecializeCoefficients
    <3> HIDE DEF h, m
    <3> QED
      BY <3>1, <3>2
  <2> QED
    BY <2>1
<1>6. IsPoly(h, D)
  <2> HIDE DEF h, m
  <2> QED
    BY <1>1, <1>3, <1>5, IsPolyFamily
<1>7. SpecializeCoefficients(ShareMatrix(M, Masks, 0), s)[z] = SpecializeCoefficients(M, s)[z]
  <2>1. \A e \in Deg : ShareMatrix(M, Masks, 0)[e][z] = M[e][z]
    <3>1. ASSUME NEW e \in Deg PROVE ShareMatrix(M, Masks, 0)[e][z] = M[e][z]
      <4>1. Evaluate(c(e), 0) = c(e)[0]
        BY <1>1, <1>2, EvaluateAtZero
      <4> QED
        BY <1>1, <1>2, <1>4, <4>1
    <3> QED
      BY <3>1
  <2>2. [e \in Deg |-> ShareMatrix(M, Masks, 0)[e][z]] = [e \in Deg |-> M[e][z]]
    BY <2>1
  <2> QED
    BY <2>2 DEF SpecializeCoefficients
<1> QED
  BY <1>6, <1>7

LEMMA SpecializedType ==
  ASSUME NEW M \in Matrix, NEW s \in Elem
  PROVE  SpecializeCoefficients(M, s) \in [Deg -> Elem]
<1>1. ASSUME NEW z \in Deg PROVE Evaluate([e \in Deg |-> M[e][z]], s) \in Elem
  <2>1. [e \in Deg |-> M[e][z]] \in Poly(D) /\ D \in Nat
    BY Degrees DEF Matrix, Poly
  <2> QED
    BY <2>1, EvaluateIsSum
<1> QED
  BY <1>1 DEF SpecializeCoefficients

LEMMA CanonicalSame == ASSUME NEW M \in Matrix PROVE Canonical(M) = M
<1>1. \A e, z \in Deg : M[e][z] % P = M[e][z]
  BY ModSmall DEF Matrix
<1>2. M = [e \in Deg |-> [z \in Deg |-> M[e][z]]]
  BY DEF Matrix
<1> QED
  BY <1>1, <1>2 DEF Canonical

(* The shares of words are those of what they are modulo P.                *)
LEMMA ReducedShares ==
  ASSUME NEW M \in WordMatrix
  PROVE  /\ Canonical(M) \in Matrix
         /\ \A k : ShareMatrix(M, Masks, k) = ShareMatrix(Canonical(M), Masks, k)
         /\ M \in Matrix => Canonical(M) = M
<1>1. ASSUME NEW e \in Deg, NEW z \in Deg
      PROVE  /\ M[e][z] % P \in Elem /\ (M[e][z] % P) % P = M[e][z] % P
             /\ Canonical(M)[e][z] = M[e][z] % P
  <2>1. M[e][z] \in Int
    BY Modulus DEF WordMatrix, Uint
  <2>2. M[e][z] % P \in Elem
    BY <2>1, ModQuotient
  <2> QED
    BY <2>2, ModSmall DEF Canonical
<1>2. Canonical(M) \in Matrix
  BY <1>1 DEF Canonical, Matrix
<1>3. ASSUME NEW k PROVE ShareMatrix(M, Masks, k) = ShareMatrix(Canonical(M), Masks, k)
  <2>1. \A e, z \in Deg : ShareValue(M[e][z], Masks[e][z], k)
                          = ShareValue(Canonical(M)[e][z], Masks[e][z], k)
    BY <1>1 DEF ShareValue
  <2> QED
    BY <2>1 DEF ShareMatrix
<1> QED
  BY <1>2, <1>3, CanonicalSame

\* The difference of two matrices at crossing points, on their shares for receiver k.
ShareDiff(A, a, B, b, k) ==
  DiffSlice(SpecializeCoefficients(ShareMatrix(A, Masks, k), a),
            SpecializeCoefficients(ShareMatrix(B, Masks, k), b))

LEMMA ShareDiffIsPoly ==
  ASSUME NEW A \in Matrix, NEW a \in Elem, NEW B \in Matrix, NEW b \in Elem
  PROVE  /\ \A z \in Deg : IsPoly([k \in Elem |-> ShareDiff(A, a, B, b, k)[z]], D)
         /\ \A k \in Elem : ShareDiff(A, a, B, b, k) \in [Deg -> Elem]
         /\ \A z \in Deg : ShareDiff(A, a, B, b, 0)[z] = 0
              => SpecializeCoefficients(A, a)[z] = SpecializeCoefficients(B, b)[z]
<1> DEFINE f(z) == [k \in Elem |-> SpecializeCoefficients(ShareMatrix(A, Masks, k), a)[z]]
           g(z) == [k \in Elem |-> SpecializeCoefficients(ShareMatrix(B, Masks, k), b)[z]]
           h(z) == [k \in Elem |-> ShareDiff(A, a, B, b, k)[z]]
<1>1. D \in Nat /\ 0 \in Elem
  BY Degrees, Units
<1>2. \A z \in Deg : IsPoly(f(z), D) /\ IsPoly(g(z), D)
  BY ShareIsPoly
<1>3. \A z \in Deg, k \in Elem : f(z)[k] \in Elem /\ g(z)[k] \in Elem
  <2> HIDE DEF f, g
  <2> QED
    BY <1>1, <1>2, EvaluateIsSum DEF IsPoly
<1>4. \A k \in Elem : ShareDiff(A, a, B, b, k) = [z \in Deg |-> ModSubCanon(f(z)[k], g(z)[k])]
  <2>1. \A M, s : DOMAIN SpecializeCoefficients(M, s) = Deg
    BY DEF SpecializeCoefficients
  <2> QED
    BY <2>1 DEF ShareDiff, DiffSlice
<1>5. ASSUME NEW z \in Deg PROVE \A k \in Elem : h(z)[k] = ModSub(f(z)[k], g(z)[k])
  <2>1. \A k \in Elem : h(z)[k] = ModSubCanon(f(z)[k], g(z)[k])
    <3> HIDE DEF f, g
    <3> QED
      BY <1>4
  <2> HIDE DEF f, g, h
  <2> QED
    BY <1>3, <2>1, Ops
<1>6. ASSUME NEW z \in Deg PROVE IsPoly(h(z), D)
  <2> HIDE DEF f, g, h
  <2> QED
    BY <1>1, <1>2, <1>5, IsPolySubtracted
<1>7. ASSUME NEW k \in Elem PROVE ShareDiff(A, a, B, b, k) \in [Deg -> Elem]
  <2> HIDE DEF f, g
  <2>1. ASSUME NEW z \in Deg PROVE ModSubCanon(f(z)[k], g(z)[k]) \in Elem
    BY <1>3, Ops
  <2> QED
    BY <1>4, <2>1
<1>8. ASSUME NEW z \in Deg, ShareDiff(A, a, B, b, 0)[z] = 0
      PROVE  SpecializeCoefficients(A, a)[z] = SpecializeCoefficients(B, b)[z]
  <2>1. f(z)[0] = SpecializeCoefficients(A, a)[z] /\ g(z)[0] = SpecializeCoefficients(B, b)[z]
    BY <1>1, ShareIsPoly
  <2>2. h(z)[0] = 0
    BY <1>1, <1>8
  <2> HIDE DEF f, g, h
  <2>3. f(z)[0] = g(z)[0]
    BY <1>1, <1>3, <1>5, <2>2, DifferenceZero
  <2> QED
    BY <2>1, <2>3
<1> QED
  BY <1>6, <1>7, <1>8

-----------------------------------------------------------------------------
(* The differences once Com2 is over.                                      *)

Differences ==
  [q \in Pairs |-> [s \in Side |-> [k \in 0..N |->
     IF s = "left" THEN LeftDiff(q[1], q[2], k) ELSE RightDiff(q[1], q[2], k)]]]

StatusType ==
  /\ deal \in [row : [Member -> WordMatrix], col : [Member -> WordMatrix]]
  /\ heard \in [Member -> SUBSET Member]
  /\ shape \in [count : Nat, len : Nat]
  /\ diffs # <<>> => diffs = Differences

(* The types; diffs is what PerformCom2 makes of the dealing, for every    *)
(* honest member and for the secret itself.                                *)
THEOREM StatusTypeCorrect == StatusSpec => []StatusType
<1>1. StatusInit => StatusType
  BY StatusAssumption, DealingAssumption DEF StatusInit, StatusType
<1>2. StatusType /\ [StatusNext]_statusVars => StatusType'
  <2> SUFFICES ASSUME StatusType, [StatusNext]_statusVars PROVE StatusType'
    OBVIOUS
  <2>1. UNCHANGED <<deal, heard, shape>>
    BY DEF StatusNext, Com2, StatusPair, StatusSearch, StatusDone, statusVars
  <2>2. diffs' # <<>> => diffs' = Differences
    <3>1. CASE Com2
      BY <3>1 DEF Com2, Differences
    <3>2. CASE UNCHANGED diffs
      BY <3>2 DEF StatusType
    <3> QED
      BY <3>1, <3>2 DEF StatusNext, StatusPair, StatusSearch, StatusDone, statusVars
  <2>3. Differences' = Differences
    BY <2>1 DEF Differences, LeftDiff, RightDiff, RowShare, ColShare, Row, Col
  <2> QED
    BY <2>1, <2>2, <2>3 DEF StatusType
<1> QED
  BY <1>1, <1>2, PTL DEF StatusSpec

LEMMA PairMembers ==
  ASSUME NEW q \in Pairs
  PROVE  q[1] \in Member /\ q[2] \in Member /\ q[1] # q[2] /\ q[1] < q[2] /\ q = <<q[1], q[2]>>
<1>1. Vertex = Member
  BY StatusAssumption DEF Vertex, Member
<1>2. q[1] < q[2] /\ q[1] \in 1..N /\ q[2] \in 1..N /\ q = <<q[1], q[2]>>
  BY <1>1 DEF Pairs, Member
<1> QED
  BY <1>2, Degrees DEF Member

\* The matrices that a member's words stand for.
RowOf(i) == Canonical(Row(i))
ColOf(i) == Canonical(Col(i))

LEMMA DealType ==
  ASSUME StatusType, NEW i \in Member
  PROVE  /\ RowOf(i) \in Matrix /\ ColOf(i) \in Matrix
         /\ \A k : RowShare(i, k) = ShareMatrix(RowOf(i), Masks, k)
         /\ \A k : ColShare(i, k) = ShareMatrix(ColOf(i), Masks, k)
         /\ Col(i) \in Matrix => ColOf(i) = Col(i)
<1>1. Row(i) \in WordMatrix /\ Col(i) \in WordMatrix
  BY DEF StatusType, Row, Col
<1> QED
  BY <1>1, ReducedShares DEF RowShare, ColShare, RowOf, ColOf

LEMMA DifferenceAt ==
  ASSUME StatusType, diffs # <<>>, NEW q \in Pairs, NEW k \in 0..N
  PROVE  /\ diffs[q]["left"][k] = ShareDiff(RowOf(q[1]), q[2], ColOf(q[2]), q[1], k)
         /\ diffs[q]["right"][k] = ShareDiff(ColOf(q[1]), q[2], RowOf(q[2]), q[1], k)
<1>1. diffs = Differences
  BY DEF StatusType
<1>2. "left" \in Side /\ "right" \in Side
  BY DEF Side
<1>3. /\ Differences[q]["left"][k] = LeftDiff(q[1], q[2], k)
      /\ Differences[q]["right"][k] = RightDiff(q[1], q[2], k)
  BY <1>2 DEF Differences
<1>4. q[1] \in Member /\ q[2] \in Member
  BY PairMembers
<1> QED
  BY <1>1, <1>3, <1>4, DealType DEF LeftDiff, RightDiff, ShareDiff

(* One side of a pair, coefficient by coefficient.                         *)
LEMMA SideIsPoly ==
  ASSUME StatusType, diffs # <<>>, NEW q \in Pairs, NEW s \in Side
  PROVE  /\ \A k \in 0..N : diffs[q][s][k] \in [Deg -> Elem]
         /\ \A z \in Deg : \E g \in Poly(D) : \A k \in 0..N : diffs[q][s][k][z] = Evaluate(g, k)
<1>1. /\ q[1] \in Member /\ q[2] \in Member /\ q[1] \in Elem /\ q[2] \in Elem
      /\ 0..N \subseteq Elem
  BY PairMembers, Degrees
<1>2. /\ RowOf(q[1]) \in Matrix /\ ColOf(q[1]) \in Matrix
      /\ RowOf(q[2]) \in Matrix /\ ColOf(q[2]) \in Matrix
  BY <1>1, DealType
<1>3. ASSUME NEW A \in Matrix, NEW a \in Elem, NEW B \in Matrix, NEW b \in Elem,
             \A k \in 0..N : diffs[q][s][k] = ShareDiff(A, a, B, b, k)
      PROVE  /\ \A k \in 0..N : diffs[q][s][k] \in [Deg -> Elem]
             /\ \A z \in Deg : \E g \in Poly(D) : \A k \in 0..N : diffs[q][s][k][z] = Evaluate(g, k)
  <2>1. \A k \in 0..N : k \in Elem
    BY <1>1
  <2>2. \A k \in 0..N : diffs[q][s][k] \in [Deg -> Elem]
    <3>1. \A k \in Elem : ShareDiff(A, a, B, b, k) \in [Deg -> Elem]
      BY ShareDiffIsPoly
    <3> QED
      BY <1>3, <2>1, <3>1
  <2>3. ASSUME NEW z \in Deg
        PROVE  \E g \in Poly(D) : \A k \in 0..N : diffs[q][s][k][z] = Evaluate(g, k)
    <3> DEFINE h == [k \in Elem |-> ShareDiff(A, a, B, b, k)[z]]
    <3>1. IsPoly(h, D)
      BY ShareDiffIsPoly
    <3>2. \A k \in 0..N : h[k] = diffs[q][s][k][z]
      BY <1>3, <2>1
    <3> HIDE DEF h
    <3>3. PICK g \in Poly(D) : \A k \in Elem : h[k] = Evaluate(g, k)
      BY <3>1 DEF IsPoly
    <3> QED
      BY <2>1, <3>2, <3>3
  <2> QED
    BY <2>2, <2>3
<1>4. CASE s = "left"
  <2>1. \A k \in 0..N : diffs[q][s][k] = ShareDiff(RowOf(q[1]), q[2], ColOf(q[2]), q[1], k)
    BY <1>4, DifferenceAt
  <2> QED
    BY <1>1, <1>2, <1>3, <2>1
<1>5. CASE s = "right"
  <2>1. \A k \in 0..N : diffs[q][s][k] = ShareDiff(ColOf(q[1]), q[2], RowOf(q[2]), q[1], k)
    BY <1>5, DifferenceAt
  <2> QED
    BY <1>1, <1>2, <1>3, <2>1
<1> QED
  BY <1>4, <1>5 DEF Side

(* A difference that is not zero has at most D roots.                      *)
LEMMA FewHide ==
  ASSUME StatusType, diffs # <<>>, NEW q \in Pairs, NEW s \in Side
  PROVE  Cardinality(Hiding(q, s)) <= D
<1> DEFINE secret == diffs[q][s][0]
           R == {r \in Scalar : Combine(secret, r) = 0}
<1>1. secret \in Poly(D) /\ D \in Nat
  <2>1. 0 \in 0..N
    BY Degrees
  <2> QED
    BY <2>1, SideIsPoly, Degrees DEF Poly
<1>2. Hiding(q, s) = IF secret = Nought THEN {} ELSE R
  BY DEF Hiding
<1>3. CASE secret = Nought
  BY <1>1, <1>2, <1>3, FS_EmptySet
<1>4. CASE secret # Nought
  <2>1. R \in SUBSET Elem
    BY Modulus DEF Scalar, Elem
  <2>2. IsFiniteSet(R) /\ Cardinality(R) \in Nat
    BY <2>1, ElemFinite
  <2>3. \A r \in R : Evaluate(secret, r) = 0
    BY DEF Combine
  <2> HIDE DEF R, secret
  <2>4. CASE Cardinality(R) > D
    <3>1. \A i \in 0..D : secret[i] = 0
      BY <1>1, <2>1, <2>2, <2>3, <2>4, FewRoots
    <3>2. secret = Nought
      BY <1>1, <3>1, Degrees DEF Poly, Nought
    <3> QED
      BY <1>4, <3>2
  <2> QED
    BY <1>1, <1>2, <1>4, <2>2, <2>4
<1> QED
  BY <1>3, <1>4

(* The random combination of com_3.go hides a difference under at most D   *)
(* of its scalars, in every field and for every degree.                    *)
THEOREM FewScalarsHideHolds == StatusSpec => []FewScalarsHide
<1>1. StatusType => FewScalarsHide
  BY FewHide DEF FewScalarsHide
<1> QED
  BY <1>1, StatusTypeCorrect, PTL

-----------------------------------------------------------------------------
(* What Com3 decodes.                                                      *)

(* The points that the table of DealerStatus decodes for values at a set   *)
(* of members.                                                             *)
PointsOver(T, y) ==
  [k \in 1..Cardinality(T) |-> <<Ascending(T)[k], y[Ascending(T)[k]]>>]

LEMMA TableEntry ==
  ASSUME NEW T \in SUBSET Member, NEW y \in [T -> Elem]
  PROVE  /\ Cardinality(T) \in Nat
         /\ DecodesToZero(y)
              <=> Cardinality(T) > D /\ Decode(PointsOver(T, y), D, TRUE) = {0}
<1> DEFINE xs == Ascending(T)
<1>1. IsFiniteSet(T) /\ T \in SUBSET Int
  BY Degrees, FS_Subset, Units
<1>2. Cardinality(T) \in Nat /\ DOMAIN xs = 1..Cardinality(T)
  BY <1>1, AscendingExact
<1>3. DecodesToZero(y) <=> Cardinality(T) > D /\ DecodeTable[T][y] = {0}
  BY DEF DecodesToZero, Tabulated
<1>4. ASSUME Cardinality(T) > D PROVE DecodeTable[T][y] = Decode(PointsOver(T, y), D, TRUE)
  <2> DEFINE row(S) == [z \in [S -> Elem] |->
                          Decode([k \in DOMAIN Ascending(S) |-> <<Ascending(S)[k], z[Ascending(S)[k]]>>],
                                 D, TRUE)]
             tab == [S \in {S \in SUBSET Member : Cardinality(S) > D} |-> Tabulated(row(S))]
  <2>1. DecodeTable = tab
    BY DEF DecodeTable, Tabulated
  <2>2. DecodeTable[T] = row(T)
    BY <1>4, <2>1 DEF Tabulated
  <2>3. row(T)[y] = Decode([k \in DOMAIN xs |-> <<xs[k], y[xs[k]]>>], D, TRUE)
    OBVIOUS
  <2> HIDE DEF row
  <2>4. PointsOver(T, y) = [k \in DOMAIN xs |-> <<xs[k], y[xs[k]]>>]
    BY <1>2 DEF PointsOver
  <2> HIDE DEF xs
  <2> QED
    BY <2>2, <2>3, <2>4
<1> QED
  BY <1>2, <1>3, <1>4

LEMMA PointsOverType ==
  ASSUME NEW T \in SUBSET Member, NEW y \in [T -> Elem]
  PROVE  /\ PointsOver(T, y) \in Points(Cardinality(T))
         /\ Len(PointsOver(T, y)) = Cardinality(T)
         /\ ~Misplaced(PointsOver(T, y), TRUE)
<1> DEFINE n == Cardinality(T)
           xs == Ascending(T)
           points == PointsOver(T, y)
           below(k) == {x \in T : x < xs[k]}
<1>1. IsFiniteSet(T) /\ T \in SUBSET Elem /\ T \in SUBSET Int
  BY Degrees, FS_Subset, Units
<1>2. /\ n \in Nat /\ \A k \in 1..n : xs[k] \in T /\ Cardinality(below(k)) = k - 1
      /\ \A j, k \in 1..n : j # k => xs[j] # xs[k]
  BY <1>1, AscendingExact
<1>3. points = [k \in 1..n |-> <<xs[k], y[xs[k]]>>]
  BY DEF PointsOver
<1> HIDE DEF xs, points, n
<1>4. points \in Points(n)
  <2>1. \A k \in 1..n : xs[k] \in Elem /\ y[xs[k]] \in Elem
    BY <1>1, <1>2
  <2> QED
    BY <1>2, <1>3, <2>1 DEF Points
<1>5. Len(points) = n
  BY <1>2, <1>4 DEF Points
<1>6. ASSUME NEW k \in 2..n, points[k][1] <= points[k - 1][1] PROVE FALSE
  <2>1. k \in 1..n /\ k - 1 \in 1..n /\ k \in Nat
    BY <1>2
  <2>2. xs[k] <= xs[k - 1] /\ xs[k] \in Int /\ xs[k - 1] \in Int
    BY <1>1, <1>2, <1>3, <1>6, <2>1
  <2>3. below(k) \subseteq below(k - 1) /\ IsFiniteSet(below(k - 1))
    <3>1. \A x \in T : x < xs[k] => x < xs[k - 1]
      BY <1>1, <2>2
    <3>2. below(k - 1) \subseteq T
      OBVIOUS
    <3> QED
      BY <1>1, <3>1, <3>2, FS_Subset
  <2>4. Cardinality(below(k)) <= Cardinality(below(k - 1))
    <3> HIDE DEF below
    <3> QED
      BY <2>3, FS_Subset
  <2> HIDE DEF below
  <2>5. Cardinality(below(k)) = k - 1 /\ Cardinality(below(k - 1)) = (k - 1) - 1
    BY <1>2, <2>1
  <2> QED
    BY <2>1, <2>4, <2>5
<1>7. ~Misplaced(points, TRUE)
  BY <1>5, <1>6 DEF Misplaced
<1> QED
  BY <1>4, <1>5, <1>7 DEF points, n

(* Values that are right at the members of H agree with the polynomial at  *)
(* as many points.                                                         *)
LEMMA VotesCount ==
  ASSUME NEW T \in SUBSET Member, NEW y \in [T -> Elem],
         NEW H \in SUBSET T, NEW c \in Poly(D), \A k \in H : y[k] = Evaluate(c, k)
  PROVE  /\ Cardinality(H) \in Nat /\ Cardinality(T \ H) \in Nat
         /\ Cardinality(T) = Cardinality(H) + Cardinality(T \ H)
         /\ Cardinality(Agreeing(PointsOver(T, y), c)) \in Nat
         /\ Cardinality(Agreeing(PointsOver(T, y), c)) >= Cardinality(H)
<1> DEFINE n == Cardinality(T)
           xs == Ascending(T)
           points == PointsOver(T, y)
           K == {k \in 1..n : xs[k] \in H}
           A == Agreeing(points, c)
<1>1. IsFiniteSet(T) /\ T \in SUBSET Int
  BY Degrees, FS_Subset, Units
<1>2. /\ n \in Nat /\ \A k \in 1..n : xs[k] \in T
      /\ \A j, k \in 1..n : j # k => xs[j] # xs[k]
  BY <1>1, AscendingExact
<1>3. DOMAIN points = 1..n /\ \A k \in 1..n : points[k][1] = xs[k] /\ points[k][2] = y[xs[k]]
  BY DEF PointsOver
<1> HIDE DEF xs, points
<1>4. K \in SUBSET A /\ A \in SUBSET (1..n)
  BY <1>3 DEF Agreeing
<1>5. {xs[k] : k \in K} = H
  <2>1. \A x \in H : \E k \in 1..n : xs[k] = x
    BY <1>1, AscendingOnto DEF xs
  <2> QED
    BY <2>1
<1>6. IsFiniteSet(K) /\ IsFiniteSet(A)
  <2>1. IsFiniteSet(1..n)
    BY <1>2, FS_Interval
  <2>2. IsFiniteSet(A)
    BY <1>4, <2>1, FS_Subset
  <2> HIDE DEF K, A
  <2> QED
    BY <1>4, <2>2, FS_Subset
<1>7. Cardinality(K) = Cardinality(H)
  <2>1. \A j, k \in K : j # k => xs[j] # xs[k]
    BY <1>2
  <2> HIDE DEF K
  <2> QED
    BY <1>5, <1>6, <2>1, DistinctCount
<1>8. Cardinality(K) <= Cardinality(A) /\ Cardinality(A) \in Nat
  <2> HIDE DEF K, A
  <2> QED
    BY <1>4, <1>6, FS_Subset, FS_CardinalityType
<1>9. n = Cardinality(H) + Cardinality(T \ H) /\ Cardinality(H) \in Nat /\ Cardinality(T \ H) \in Nat
  <2>1. IsFiniteSet(H) /\ IsFiniteSet(T \ H)
    BY <1>1, FS_Subset
  <2> DEFINE U == T \ H
  <2>2. H \cup U = T /\ H \cap U = {}
    OBVIOUS
  <2> HIDE DEF U
  <2>3. Cardinality(H \cup U) = Cardinality(H) + Cardinality(U) - Cardinality(H \cap U)
    BY <2>1, FS_Union DEF U
  <2>4. Cardinality(H) \in Nat /\ Cardinality(U) \in Nat
    BY <2>1, FS_CardinalityType DEF U
  <2>5. Cardinality(H \cap U) = 0
    BY <2>2, FS_EmptySet
  <2>6. Cardinality(H) + Cardinality(U) - 0 = Cardinality(H) + Cardinality(U)
    BY <2>4
  <2>7. Cardinality(T) = Cardinality(H) + Cardinality(U) - Cardinality(H \cap U)
    BY <2>2, <2>3
  <2>8. n = Cardinality(H) + Cardinality(U)
    BY <2>5, <2>6, <2>7
  <2> QED
    BY <2>4, <2>8 DEF U
<1> QED
  BY <1>7, <1>8, <1>9 DEF points

(* A decode to zero is right if the right votes are more than D and D more *)
(* than the others.                                                        *)
LEMMA DecodesRight ==
  ASSUME NEW T \in SUBSET Member, NEW y \in [T -> Elem], DecodesToZero(y),
         NEW H \in SUBSET T, NEW c \in Poly(D), \A k \in H : y[k] = Evaluate(c, k),
         Cardinality(H) > D, Cardinality(H) >= D + Cardinality(T \ H)
  PROVE  c[0] = 0
<1> DEFINE n == Cardinality(T)
           points == PointsOver(T, y)
           a == Cardinality(Agreeing(points, c))
           h == Cardinality(H)
           f == Cardinality(T \ H)
           strict == TRUE
<1>1. D \in Nat /\ n \in Nat /\ Decode(points, D, strict) = {0}
  BY Degrees, TableEntry
<1>2. a \in Nat /\ h \in Nat /\ f \in Nat /\ a >= h /\ n = h + f
  BY VotesCount
<1>3. points \in Points(n)
  BY PointsOverType
<1>4. strict \in BOOLEAN
  OBVIOUS
<1>5. h > D /\ h >= D + f
  OBVIOUS
<1> HIDE DEF points, n, h, f, strict
<1>6. 2 * a >= n + D
  <2> HIDE DEF a
  <2> QED
    BY <1>1, <1>2, <1>5
<1>7. \A v \in Decode(points, D, strict) : v = c[0]
  BY <1>1, <1>3, <1>4, <1>6, DecodeSound
<1> QED
  BY <1>1, <1>7

(* Values are decoded to zero if the right polynomial is zero there and    *)
(* the right votes are D more than the wrong ones, and one.                *)
LEMMA DecodesWhenFew ==
  ASSUME NEW T \in SUBSET Member, NEW y \in [T -> Elem],
         NEW H \in SUBSET T, NEW c \in Poly(D), \A k \in H : y[k] = Evaluate(c, k),
         Cardinality(H) > D + Cardinality(T \ H), c[0] = 0
  PROVE  DecodesToZero(y)
<1> DEFINE n == Cardinality(T)
           points == PointsOver(T, y)
           a == Cardinality(Agreeing(points, c))
           w == Cardinality(Wrong(points, c))
           h == Cardinality(H)
           f == Cardinality(T \ H)
           strict == TRUE
<1>1. D \in Nat /\ n \in Nat /\ (n > D /\ Decode(points, D, strict) = {0} => DecodesToZero(y))
  BY Degrees, TableEntry
<1>2. a \in Nat /\ h \in Nat /\ f \in Nat /\ a >= h /\ n = h + f
  BY VotesCount
<1>3. points \in Points(n) /\ ~Misplaced(points, strict)
  BY PointsOverType
<1>4. strict \in BOOLEAN
  OBVIOUS
<1>5. h > D + f
  OBVIOUS
<1> HIDE DEF points, n, h, f, strict
<1>6. w = n - a
  BY <1>1, <1>3, WrongCount
<1>7. 2 * w + D < n /\ n > D
  <2> HIDE DEF a, w
  <2> QED
    BY <1>1, <1>2, <1>5, <1>6
<1>8. Decode(points, D, strict) = {c[0]}
  BY <1>1, <1>3, <1>4, <1>7, DecodeExact
<1> QED
  BY <1>1, <1>7, <1>8

-----------------------------------------------------------------------------
(* A pair whose vectors decode to zero, whatever the faulty members sent.  *)

\* What reconstructPairZero was given when it found no difference.
Found(q, s) ==
  \E lists \in Broadcasts(q, s), r \in Scalar \ Hiding(q, s) : CoeffVectorZero(lists, r)

Vector(len) == [0..(len - 1) -> Elem]

LEMMA ListsType ==
  ASSUME StatusType, diffs # <<>>, NEW q \in Pairs, NEW s \in Side, NEW lists \in Broadcasts(q, s)
  PROVE  /\ HeardBy(q) \in SUBSET (Member \ FaultyCom2)
         /\ \A k \in HeardBy(q) : lists[k] = <<diffs[q][s][k]>>
         /\ \A k \in Member : lists[k] # <<>> => k \in HeardBy(q) \cup FaultyCom2
         /\ \A k \in Member : /\ Len(lists[k]) \in Nat /\ DOMAIN lists[k] = 1..Len(lists[k])
                              /\ lists[k] # <<>> => Len(lists[k]) # 0
                              /\ \A c \in DOMAIN lists[k] :
                                   lists[k][c] \in Vector(D + 1) \cup Vector(shape.len)
<1> DEFINE right == diffs[q][s]
           Lie(k, v) == [c \in 1..shape.count |-> IF c < shape.count THEN right[k] ELSE v]
           Vec == Vector(D + 1) \cup Vector(shape.len)
<1>1. shape.count \in Nat /\ shape.len \in Nat
  BY DEF StatusType
<1>2. PICK lies \in [FaultyCom2 -> Vectors(shape.len)] :
        lists = [k \in Member |-> IF k \in FaultyCom2 THEN Lie(k, lies[k])
                         ELSE IF {q[1], q[2]} \subseteq heard[k] THEN <<right[k]>> ELSE <<>>]
  BY DEF Broadcasts
<1>3. HeardBy(q) = {k \in Member \ FaultyCom2 : {q[1], q[2]} \subseteq heard[k]}
  BY DEF HeardBy, HonestCom2
<1>4. \A k \in Member : right[k] \in Vec
  <2>1. \A k \in Member : k \in 0..N
    BY Degrees DEF Member
  <2>2. \A k \in Member : right[k] \in [Deg -> Elem]
    BY <2>1, SideIsPoly
  <2>3. Vector(D + 1) = [Deg -> Elem]
    <3>1. Deg = 0..((D + 1) - 1)
      BY Degrees
    <3> QED
      BY <3>1 DEF Vector
  <2> HIDE DEF right
  <2> QED
    BY <2>2, <2>3
<1>5. \A k \in FaultyCom2 : lies[k] \in Vec
  <2>1. Vectors(shape.len) \subseteq Vector(shape.len)
    BY StatusAssumption DEF Vectors, Vector
  <2> QED
    BY <1>1, <2>1
<1> HIDE DEF right, Vec
<1>6. ASSUME NEW k \in Member
      PROVE  /\ Len(lists[k]) \in Nat /\ DOMAIN lists[k] = 1..Len(lists[k])
             /\ lists[k] # <<>> => Len(lists[k]) # 0
             /\ \A c \in DOMAIN lists[k] : lists[k][c] \in Vec
             /\ lists[k] # <<>> => k \in HeardBy(q) \cup FaultyCom2
  <2>1. CASE k \in FaultyCom2
    <3> DEFINE l == Lie(k, lies[k])
    <3>1. lists[k] = l
      BY <1>2, <2>1
    <3>2. l \in [1..shape.count -> Vec]
      BY <1>4, <1>5, <2>1
    <3>3. Len(l) = shape.count /\ DOMAIN l = 1..shape.count /\ (l # <<>> => shape.count # 0)
      <4> HIDE DEF l
      <4> QED
        BY <1>1, <3>2
    <3> HIDE DEF l
    <3> QED
      BY <1>1, <2>1, <3>1, <3>2, <3>3
  <2>2. CASE k \notin FaultyCom2 /\ {q[1], q[2]} \subseteq heard[k]
    <3>1. lists[k] = <<right[k]>> /\ k \in HeardBy(q)
      BY <1>2, <1>3, <2>2
    <3> QED
      BY <1>4, <3>1
  <2>3. CASE k \notin FaultyCom2 /\ ~({q[1], q[2]} \subseteq heard[k])
    <3>1. lists[k] = <<>>
      BY <1>2, <2>3
    <3> QED
      BY <3>1
  <2> QED
    BY <2>1, <2>2, <2>3
<1>7. \A k \in HeardBy(q) : lists[k] = <<right[k]>>
  BY <1>2, <1>3
<1>8. HeardBy(q) \in SUBSET (Member \ FaultyCom2)
  BY <1>3
<1> QED
  BY <1>6, <1>7, <1>8 DEF right, Vec

(* The honest vectors that a member has for a pair, their polynomials, and *)
(* the votes that decide a decode.                                         *)
LEMMA HonestVotes ==
  ASSUME StatusType, diffs # <<>>, NEW q \in Pairs, NEW s \in Side, HeardEnough(q),
         NEW T \in SUBSET Member, HeardBy(q) \subseteq T, T \subseteq HeardBy(q) \cup FaultyCom2,
         NEW y \in [T -> Elem], DecodesToZero(y),
         NEW c \in Poly(D), \A k \in HeardBy(q) : y[k] = Evaluate(c, k)
  PROVE  c[0] = 0
<1> DEFINE H == HeardBy(q)
           L == T \ H
<1>1. IsFiniteSet(H) /\ IsFiniteSet(FaultyCom2) /\ IsFiniteSet(L) /\ L \subseteq FaultyCom2
  <2>1. IsFiniteSet(T) /\ IsFiniteSet(FaultyCom2)
    BY Degrees, StatusAssumption, FS_Subset
  <2>2. L \in SUBSET T /\ H \in SUBSET T /\ L \subseteq FaultyCom2
    OBVIOUS
  <2> HIDE DEF L, H
  <2> QED
    BY <2>1, <2>2, FS_Subset
<1>2. Cardinality(H) > D /\ Cardinality(H) >= D + Cardinality(FaultyCom2)
  BY DEF HeardEnough
<1>3. Cardinality(L) <= Cardinality(FaultyCom2)
  <2> HIDE DEF L
  <2> QED
    BY <1>1, FS_Subset
<1>4. Cardinality(H) \in Nat /\ Cardinality(L) \in Nat /\ Cardinality(FaultyCom2) \in Nat
  <2> HIDE DEF H, L
  <2> QED
    BY <1>1, FS_CardinalityType
<1>5. Cardinality(H) >= D + Cardinality(L)
  <2> HIDE DEF H, L
  <2> QED
    BY <1>2, <1>3, <1>4, Degrees
<1>6. H \in SUBSET T
  OBVIOUS
<1> HIDE DEF H
<1> QED
  BY <1>2, <1>5, <1>6, DecodesRight DEF H

LEMMA LongIs == ASSUME NEW len \in Nat, NEW v \in Vector(len) PROVE Long(v) = len
<1>1. DOMAIN v = 0..(len - 1)
  BY DEF Vector
<1>2. Cardinality(0..(len - 1)) = len
  <2>1. 0 \in Int /\ len - 1 \in Int
    OBVIOUS
  <2>2. Cardinality(0..(len - 1)) = IF 0 > len - 1 THEN 0 ELSE (len - 1) - 0 + 1
    BY <2>1, FS_Interval
  <2> QED
    BY <2>2
<1> QED
  BY <1>1, <1>2 DEF Long

(* The parts of reconstructCoeffVectorZero by name.                        *)
Seqs(lists) == {k \in Member : lists[k] # <<>>}
CoeffSize(lists) ==
  Max({0} \cup UNION {{Long(lists[k][c]) : c \in DOMAIN lists[k]} : k \in Seqs(lists)})
Latest(lists, k) == lists[k][Len(lists[k])]
With(lists, k, z) == {c \in DOMAIN lists[k] : z < Long(lists[k][c])}
Shortened(lists, k) == [z \in 0..(CoeffSize(lists) - 1) |-> Latest(lists, k)[z]]
Combined(lists, r) == [k \in Seqs(lists) |-> Combine(Shortened(lists, k), r)]
Holders(lists, z) == {k \in Seqs(lists) : With(lists, k, z) # {}}
AtCoefficient(lists, z) == [k \in Holders(lists, z) |-> lists[k][Max(With(lists, k, z))][z]]

LEMMA CoeffVectorParts ==
  ASSUME NEW lists, NEW r
  PROVE  IF \A k \in Seqs(lists) : Long(Latest(lists, k)) >= CoeffSize(lists)
         THEN CoeffVectorZero(lists, r) = (CoeffSize(lists) = 0 \/ DecodesToZero(Combined(lists, r)))
         ELSE CoeffVectorZero(lists, r)
                = \A z \in 0..(CoeffSize(lists) - 1) : DecodesToZero(AtCoefficient(lists, z))
BY DEF CoeffVectorZero, Seqs, CoeffSize, Latest, With, Shortened, Combined, Holders, AtCoefficient

(* The lengths that are met.                                               *)
LEMMA CoeffSizes ==
  ASSUME StatusType, diffs # <<>>, NEW q \in Pairs, NEW s \in Side, NEW lists \in Broadcasts(q, s),
         HeardBy(q) # {}
  PROVE  /\ CoeffSize(lists) \in Nat /\ CoeffSize(lists) >= D + 1
         /\ HeardBy(q) \subseteq Seqs(lists)
         /\ Seqs(lists) \subseteq HeardBy(q) \cup FaultyCom2
         /\ Seqs(lists) \in SUBSET Member
         /\ \A k \in HeardBy(q) : /\ Latest(lists, k) = diffs[q][s][k]
                                  /\ Long(diffs[q][s][k]) = D + 1
                                  /\ diffs[q][s][k] \in [Deg -> Elem]
         /\ \A k \in Seqs(lists) : \A c \in DOMAIN lists[k] :
              \E len \in Nat : len <= CoeffSize(lists) /\ lists[k][c] \in Vector(len)
<1> DEFINE lens == {0} \cup UNION {{Long(lists[k][c]) : c \in DOMAIN lists[k]} : k \in Seqs(lists)}
           top == D + 1 + shape.len
<1>1. D \in Nat /\ D + 1 \in Nat /\ shape.len \in Nat /\ Deg = 0..D
  BY Degrees DEF StatusType
<1>2. /\ HeardBy(q) \in SUBSET Member
      /\ \A k \in HeardBy(q) : lists[k] = <<diffs[q][s][k]>>
      /\ \A k \in Member : lists[k] # <<>> => k \in HeardBy(q) \cup FaultyCom2
      /\ \A k \in Member : \A c \in DOMAIN lists[k] :
           lists[k][c] \in Vector(D + 1) \cup Vector(shape.len)
  <2>1. HeardBy(q) \in SUBSET (Member \ FaultyCom2)
    BY ListsType
  <2>2. \A k \in HeardBy(q) : lists[k] = <<diffs[q][s][k]>>
    BY ListsType
  <2>3. \A k \in Member : lists[k] # <<>> => k \in HeardBy(q) \cup FaultyCom2
    BY ListsType
  <2>4. \A k \in Member : \A c \in DOMAIN lists[k] :
           lists[k][c] \in Vector(D + 1) \cup Vector(shape.len)
    BY ListsType
  <2> QED
    BY <2>1, <2>2, <2>3, <2>4
<1>3. /\ HeardBy(q) \subseteq Seqs(lists) /\ Seqs(lists) \in SUBSET Member
      /\ Seqs(lists) \subseteq HeardBy(q) \cup FaultyCom2
  <2>1. \A k \in HeardBy(q) : lists[k] # <<>>
    BY <1>2
  <2> QED
    BY <1>2, <2>1 DEF Seqs
<1>4. ASSUME NEW k \in Seqs(lists), NEW c \in DOMAIN lists[k]
      PROVE  \E len \in Nat : len = Long(lists[k][c]) /\ len <= top /\ lists[k][c] \in Vector(len)
  <2>1. lists[k][c] \in Vector(D + 1) \/ lists[k][c] \in Vector(shape.len)
    BY <1>2, <1>3
  <2>2. CASE lists[k][c] \in Vector(D + 1)
    <3>1. Long(lists[k][c]) = D + 1
      BY <1>1, <2>2, LongIs
    <3> QED
      BY <1>1, <2>2, <3>1
  <2>3. CASE lists[k][c] \in Vector(shape.len)
    <3>1. Long(lists[k][c]) = shape.len
      BY <1>1, <2>3, LongIs
    <3> QED
      BY <1>1, <2>3, <3>1
  <2> QED
    BY <2>1, <2>2, <2>3
<1>5. \A n \in lens : n \in Nat /\ n <= top
  BY <1>1, <1>4
<1>6. Max(lens) \in lens /\ \A n \in lens : Max(lens) >= n
  <2>1. lens # {} /\ top \in Int /\ \A n \in lens : n \in Int /\ n <= top
    BY <1>1, <1>5
  <2> HIDE DEF lens, top
  <2> QED
    BY <2>1, MaxExists
<1>7. CoeffSize(lists) = Max(lens)
  BY DEF CoeffSize
<1>8. ASSUME NEW k \in HeardBy(q)
      PROVE  /\ Latest(lists, k) = diffs[q][s][k] /\ Long(diffs[q][s][k]) = D + 1
             /\ diffs[q][s][k] \in [Deg -> Elem] /\ D + 1 \in lens
  <2>1. k \in 0..N
    BY <1>2, Degrees DEF Member
  <2>2. diffs[q][s][k] \in [Deg -> Elem]
    BY <2>1, SideIsPoly
  <2>3. Long(diffs[q][s][k]) = D + 1
    <3>1. Deg = 0..((D + 1) - 1)
      BY <1>1
    <3>2. diffs[q][s][k] \in Vector(D + 1)
      BY <2>2, <3>1 DEF Vector
    <3> QED
      BY <1>1, <3>2, LongIs
  <2>4. lists[k] = <<diffs[q][s][k]>>
    BY <1>2
  <2>5. Len(lists[k]) = 1 /\ DOMAIN lists[k] = {1} /\ lists[k][1] = diffs[q][s][k]
    BY <2>4
  <2>6. D + 1 \in lens
    BY <1>3, <2>3, <2>5
  <2> QED
    BY <2>2, <2>3, <2>5, <2>6 DEF Latest
<1>9. PICK w \in HeardBy(q) : TRUE
  OBVIOUS
<1>10. D + 1 \in lens
  BY <1>8
<1>11. \A k \in Seqs(lists) : \A c \in DOMAIN lists[k] : Long(lists[k][c]) \in lens
  OBVIOUS
<1> HIDE DEF lens
<1>12. CoeffSize(lists) \in Nat /\ CoeffSize(lists) >= D + 1
  BY <1>5, <1>6, <1>7, <1>10
<1>13. ASSUME NEW j \in Seqs(lists), NEW c \in DOMAIN lists[j]
       PROVE  \E len \in Nat : len <= CoeffSize(lists) /\ lists[j][c] \in Vector(len)
  <2>1. PICK len \in Nat : len = Long(lists[j][c]) /\ lists[j][c] \in Vector(len)
    BY <1>4
  <2>2. len \in lens
    BY <1>11, <2>1
  <2>3. Max(lens) >= len /\ Max(lens) \in Nat
    BY <1>5, <1>6, <2>2
  <2> QED
    BY <1>7, <2>1, <2>3
<1> QED
  BY <1>3, <1>8, <1>12, <1>13

(* With vectors of full length the honest ones give points of the          *)
(* polynomial that takes the random combination of the difference at 0.    *)
LEMMA CombinedVotes ==
  ASSUME StatusType, diffs # <<>>, NEW q \in Pairs, NEW s \in Side, NEW lists \in Broadcasts(q, s),
         HeardBy(q) # {}, NEW r \in Elem,
         \A k \in Seqs(lists) : Long(Latest(lists, k)) >= CoeffSize(lists)
  PROVE  /\ CoeffSize(lists) = D + 1 /\ Combined(lists, r) \in [Seqs(lists) -> Elem]
         /\ \E c \in Poly(D) : /\ c[0] = Combine(diffs[q][s][0], r)
                               /\ \A k \in HeardBy(q) : Combined(lists, r)[k] = Evaluate(c, k)
<1> DEFINE right == diffs[q][s]
           H == HeardBy(q)
           T == Seqs(lists)
           y == Combined(lists, r)
           G == [z \in Deg |-> CHOOSE g \in Poly(D) : \A k \in 0..N : right[k][z] = Evaluate(g, k)]
           m == [z \in Deg |-> [k \in Elem |-> Evaluate(G[z], k)]]
           h == [k \in Elem |-> Evaluate([z \in 0..D |-> m[z][k]], r)]
<1>1. /\ D \in Nat /\ Deg = 0..D /\ 0..N \subseteq Elem /\ Member \subseteq 0..N /\ 0 \in 0..N
      /\ Member \subseteq Elem
  BY Degrees DEF Member
<1>2. H \subseteq Member
  BY DEF HeardBy, HonestCom2
<1>3. /\ CoeffSize(lists) \in Nat /\ CoeffSize(lists) >= D + 1
      /\ H \subseteq T /\ T \in SUBSET Member
      /\ \A k \in H : Latest(lists, k) = right[k] /\ Long(right[k]) = D + 1 /\ right[k] \in [Deg -> Elem]
      /\ \A k \in T : \A c \in DOMAIN lists[k] :
           \E len \in Nat : len <= CoeffSize(lists) /\ lists[k][c] \in Vector(len)
  BY CoeffSizes
<1>4. \A z \in Deg : G[z] \in Poly(D) /\ \A k \in 0..N : right[k][z] = Evaluate(G[z], k)
  <2>1. \A z \in Deg : \E g \in Poly(D) : \A k \in 0..N : right[k][z] = Evaluate(g, k)
    BY SideIsPoly
  <2> HIDE DEF right
  <2> QED
    BY <2>1
<1>5. right[0] \in [Deg -> Elem]
  BY <1>1, SideIsPoly
<1> HIDE DEF right, H, G, m, h
<1>6. CoeffSize(lists) = D + 1
  <2>1. \E k \in H : k \in T
    BY <1>3 DEF H
  <2> QED
    BY <1>1, <1>3, <2>1
<1>7. 0..(CoeffSize(lists) - 1) = Deg
  BY <1>1, <1>6
<1>8. ASSUME NEW k \in T PROVE Shortened(lists, k) \in [Deg -> Elem]
  <2>1. k \in Member /\ lists[k] # <<>> /\ Len(lists[k]) \in Nat /\ DOMAIN lists[k] = 1..Len(lists[k])
    BY <1>3, ListsType DEF Seqs
  <2>2. Len(lists[k]) \in DOMAIN lists[k]
    <3>1. Len(lists[k]) # 0
      BY <2>1, ListsType
    <3> QED
      BY <2>1, <3>1
  <2>3. PICK len \in Nat : len <= CoeffSize(lists) /\ Latest(lists, k) \in Vector(len)
    BY <1>3, <2>2 DEF Latest
  <2>4. len >= D + 1
    BY <1>6, <2>3, LongIs
  <2>5. \A z \in Deg : Latest(lists, k)[z] \in Elem
    BY <1>1, <2>3, <2>4 DEF Vector
  <2> QED
    BY <1>7, <2>5 DEF Shortened
<1>9. y \in [T -> Elem]
  <2>1. ASSUME NEW k \in T PROVE Combine(Shortened(lists, k), r) \in Elem
    <3>1. Shortened(lists, k) \in Poly(D)
      BY <1>1, <1>8 DEF Poly
    <3> QED
      BY <1>1, <3>1, EvaluateIsSum DEF Combine
  <2> QED
    BY <2>1 DEF Combined
<1>10. IsPoly(h, D)
  <2>1. ASSUME NEW z \in 0..D PROVE IsPoly(m[z], D)
    <3>1. G[z] \in Poly(D) /\ \A k \in Elem : m[z][k] = Evaluate(G[z], k)
      BY <1>1, <1>4 DEF m
    <3> QED
      BY <3>1 DEF IsPoly
  <2>2. \A k \in Elem : h[k] = Evaluate([z \in 0..D |-> m[z][k]], r)
    BY DEF h
  <2> QED
    BY <1>1, <2>1, <2>2, IsPolyFamily
<1>11. ASSUME NEW k \in 0..N, right[k] \in [Deg -> Elem] PROVE h[k] = Evaluate(right[k], r)
  <2>1. [z \in 0..D |-> m[z][k]] = right[k]
    BY <1>1, <1>4, <1>11 DEF m
  <2> QED
    BY <1>1, <2>1 DEF h
<1>12. PICK c \in Poly(D) : \A k \in Elem : h[k] = Evaluate(c, k)
  BY <1>10 DEF IsPoly
<1>13. ASSUME NEW k \in H PROVE y[k] = Evaluate(c, k)
  <2>1. k \in Seqs(lists) /\ k \in 0..N /\ k \in Elem /\ right[k] \in [Deg -> Elem]
        /\ Latest(lists, k) = right[k]
    BY <1>1, <1>2, <1>3
  <2>2. Shortened(lists, k) = right[k]
    BY <1>7, <2>1 DEF Shortened
  <2>3. y[k] = Evaluate(right[k], r)
    BY <2>1, <2>2 DEF Combined, Combine
  <2> QED
    BY <1>11, <1>12, <2>1, <2>3
<1>14. c[0] = Combine(right[0], r)
  BY <1>1, <1>5, <1>11, <1>12, EvaluateAtZero DEF Combine
<1> HIDE DEF y
<1>15. c[0] = Combine(right[0], r) /\ \A k \in H : y[k] = Evaluate(c, k)
  BY <1>13, <1>14
<1> QED
  BY <1>6, <1>9, <1>15 DEF y, right, H

(* One coefficient by itself: the honest vectors give points of the        *)
(* polynomial that takes the coefficient of the difference at 0.           *)
LEMMA CoefficientVotes ==
  ASSUME StatusType, diffs # <<>>, NEW q \in Pairs, NEW s \in Side, NEW lists \in Broadcasts(q, s),
         HeardBy(q) # {}, NEW z \in Deg
  PROVE  /\ Holders(lists, z) \in SUBSET Member /\ HeardBy(q) \subseteq Holders(lists, z)
         /\ Holders(lists, z) \subseteq HeardBy(q) \cup FaultyCom2
         /\ AtCoefficient(lists, z) \in [Holders(lists, z) -> Elem]
         /\ \E c \in Poly(D) : /\ c[0] = diffs[q][s][0][z]
                               /\ \A k \in HeardBy(q) : AtCoefficient(lists, z)[k] = Evaluate(c, k)
<1> DEFINE right == diffs[q][s]
           H == HeardBy(q)
           y == AtCoefficient(lists, z)
           T == Holders(lists, z)
<1>1. /\ D \in Nat /\ Deg = 0..D /\ 0..N \subseteq Elem /\ Member \subseteq 0..N /\ 0 \in 0..N
  BY Degrees DEF Member
<1>2. H \subseteq Member
  BY DEF HeardBy, HonestCom2
<1>3. /\ CoeffSize(lists) \in Nat /\ CoeffSize(lists) >= D + 1
      /\ H \subseteq Seqs(lists) /\ Seqs(lists) \subseteq H \cup FaultyCom2
      /\ Seqs(lists) \in SUBSET Member
      /\ \A k \in H : Latest(lists, k) = right[k] /\ Long(right[k]) = D + 1 /\ right[k] \in [Deg -> Elem]
      /\ \A k \in Seqs(lists) : \A c \in DOMAIN lists[k] :
           \E len \in Nat : len <= CoeffSize(lists) /\ lists[k][c] \in Vector(len)
  BY CoeffSizes
<1>4. PICK c \in Poly(D) : \A k \in 0..N : right[k][z] = Evaluate(c, k)
  BY SideIsPoly
<1> HIDE DEF right, H
<1>5. z \in 0..(CoeffSize(lists) - 1) /\ z \in Nat /\ z < D + 1
  BY <1>1, <1>3
<1>6. T \in SUBSET Member /\ T \subseteq H \cup FaultyCom2
  BY <1>3 DEF Holders
<1>7. ASSUME NEW k \in H
      PROVE  With(lists, k, z) = {1} /\ k \in T /\ y[k] = right[k][z]
  <2>1. lists[k] = <<right[k]>>
    BY ListsType DEF H, right
  <2>2. DOMAIN lists[k] = {1} /\ lists[k][1] = right[k] /\ Long(lists[k][1]) = D + 1
    BY <1>3, <2>1
  <2>3. With(lists, k, z) = {1}
    BY <1>5, <2>2 DEF With
  <2>4. k \in T
    BY <1>3, <2>3 DEF Holders
  <2>5. Max({1}) = 1
    <3> DEFINE S == {1}
    <3>1. S # {} /\ 1 \in Int /\ \A i \in S : i \in Int /\ i <= 1
      OBVIOUS
    <3> HIDE DEF S
    <3>2. Max(S) \in S
      BY <3>1, MaxExists
    <3> QED
      BY <3>2 DEF S
  <2> QED
    BY <2>2, <2>3, <2>4, <2>5 DEF AtCoefficient
<1>8. y \in [T -> Elem]
  <2>1. ASSUME NEW k \in T PROVE lists[k][Max(With(lists, k, z))][z] \in Elem
    <3>1. k \in Seqs(lists) /\ k \in Member /\ With(lists, k, z) # {}
          /\ Len(lists[k]) \in Nat /\ DOMAIN lists[k] = 1..Len(lists[k])
      BY <1>3, ListsType DEF Holders
    <3>2. \A i \in With(lists, k, z) : i \in Int /\ i <= Len(lists[k])
      BY <3>1 DEF With
    <3>3. Max(With(lists, k, z)) \in With(lists, k, z)
      <4> DEFINE S == With(lists, k, z)
      <4>1. S # {} /\ Len(lists[k]) \in Int /\ \A i \in S : i \in Int /\ i <= Len(lists[k])
        BY <3>1, <3>2
      <4> HIDE DEF S
      <4>2. Max(S) \in S
        BY <4>1, MaxExists
      <4> QED
        BY <4>2 DEF S
    <3> DEFINE v == lists[k][Max(With(lists, k, z))]
    <3>4. z < Long(v) /\ Max(With(lists, k, z)) \in DOMAIN lists[k]
      BY <3>3 DEF With
    <3>5. PICK len \in Nat : v \in Vector(len)
      BY <1>3, <3>1, <3>4
    <3> HIDE DEF v
    <3>6. z < len
      BY <3>4, <3>5, LongIs
    <3>7. v[z] \in Elem
      BY <1>5, <3>5, <3>6 DEF Vector
    <3> QED
      BY <3>7 DEF v
  <2> QED
    BY <2>1 DEF AtCoefficient
<1>9. \A k \in H : y[k] = Evaluate(c, k)
  BY <1>1, <1>2, <1>4, <1>7
<1>10. H \subseteq T
  BY <1>7
<1>11. c[0] = right[0][z]
  BY <1>1, <1>4, EvaluateAtZero
<1> HIDE DEF y, T
<1> QED
  BY <1>6, <1>8, <1>9, <1>10, <1>11 DEF y, T, right, H

(* A side that comes out zero is zero.                                     *)
LEMMA VectorDecides ==
  ASSUME StatusType, diffs # <<>>, NEW q \in Pairs, NEW s \in Side, HeardEnough(q), Found(q, s)
  PROVE  diffs[q][s][0] = Nought
<1> DEFINE right == diffs[q][s]
           H == HeardBy(q)
<1>1. PICK lists \in Broadcasts(q, s), r \in Scalar \ Hiding(q, s) : CoeffVectorZero(lists, r)
  BY DEF Found
<1>2. D \in Nat /\ Deg = 0..D /\ 0 \in 0..N /\ r \in Elem /\ r \in Scalar
  <2>1. r \in Elem
    BY Modulus DEF Scalar, Elem
  <2> QED
    BY <2>1, Degrees
<1>3. H # {}
  <2>1. Cardinality(H) > D
    BY DEF HeardEnough
  <2>2. Cardinality({}) = 0
    BY FS_EmptySet
  <2> HIDE DEF H
  <2> SUFFICES ASSUME H = {} PROVE FALSE
    OBVIOUS
  <2>3. Cardinality(H) = 0
    BY <2>2
  <2> QED
    BY <1>2, <2>1, <2>3
<1>4. /\ CoeffSize(lists) \in Nat /\ CoeffSize(lists) >= D + 1
      /\ H \subseteq Seqs(lists) /\ Seqs(lists) \subseteq H \cup FaultyCom2
      /\ Seqs(lists) \in SUBSET Member
  BY <1>3, CoeffSizes
<1>5. right[0] \in [Deg -> Elem]
  BY <1>2, SideIsPoly
<1>6. CASE \A k \in Seqs(lists) : Long(Latest(lists, k)) >= CoeffSize(lists)
  <2>1. /\ CoeffSize(lists) = D + 1 /\ Combined(lists, r) \in [Seqs(lists) -> Elem]
        /\ \E c \in Poly(D) : /\ c[0] = Combine(diffs[q][s][0], r)
                              /\ \A k \in HeardBy(q) : Combined(lists, r)[k] = Evaluate(c, k)
    BY <1>2, <1>3, <1>6, CombinedVotes
  <2>2. DecodesToZero(Combined(lists, r))
    <3>1. CoeffVectorZero(lists, r) = (CoeffSize(lists) = 0 \/ DecodesToZero(Combined(lists, r)))
      BY <1>6, CoeffVectorParts
    <3>2. CoeffSize(lists) # 0
      BY <1>2, <2>1
    <3> QED
      BY <1>1, <3>1, <3>2
  <2>3. Combine(diffs[q][s][0], r) = 0
    BY <1>4, <2>1, <2>2, HonestVotes
  <2>4. r \notin Hiding(q, s)
    OBVIOUS
  <2> QED
    BY <1>2, <2>3, <2>4 DEF Hiding
<1>7. CASE ~(\A k \in Seqs(lists) : Long(Latest(lists, k)) >= CoeffSize(lists))
  <2>1. ASSUME NEW z \in Deg PROVE diffs[q][s][0][z] = 0
    <3>1. z \in 0..(CoeffSize(lists) - 1)
      BY <1>2, <1>4
    <3>2. DecodesToZero(AtCoefficient(lists, z))
      BY <1>1, <1>7, <3>1, CoeffVectorParts
    <3>3. /\ Holders(lists, z) \in SUBSET Member /\ HeardBy(q) \subseteq Holders(lists, z)
          /\ Holders(lists, z) \subseteq HeardBy(q) \cup FaultyCom2
          /\ AtCoefficient(lists, z) \in [Holders(lists, z) -> Elem]
          /\ \E c \in Poly(D) : /\ c[0] = diffs[q][s][0][z]
                                /\ \A k \in HeardBy(q) : AtCoefficient(lists, z)[k] = Evaluate(c, k)
      BY <1>3, CoefficientVotes
    <3> QED
      BY <3>2, <3>3, HonestVotes
  <2> QED
    BY <1>5, <2>1 DEF Nought
<1> QED
  BY <1>6, <1>7

-----------------------------------------------------------------------------
(* An edge was decoded from what honest members and liars broadcast.       *)
EdgesFound ==
  /\ left \subseteq Pairs
  /\ edges # {} => diffs # <<>>
  /\ \A e \in edges : e \in Pairs => \A s \in Side : Found(e, s)

(* The pair loop takes a pair that is left.                                *)
LEMMA FirstLeft == ASSUME left \subseteq Pairs, left # {} PROVE First \in left
<1> DEFINE A == {p[1] : p \in left}
<1>1. \A p \in left : p[1] \in Nat /\ p[2] \in Nat
  <2>1. \A p \in left : p \in Pairs
    OBVIOUS
  <2>2. Member \subseteq Nat
    BY Degrees DEF Member
  <2> QED
    BY <2>1, <2>2, PairMembers
<1>2. A \in SUBSET Nat /\ A # {}
  BY <1>1
<1>3. PICK a \in A : \A b \in A : a <= b
  <2> HIDE DEF A
  <2> QED
    BY <1>2, Least
<1> DEFINE B == {p[2] : p \in {p \in left : p[1] = a}}
<1>4. B \in SUBSET Nat /\ B # {}
  BY <1>1, <1>3
<1>5. PICK b \in B : \A c \in B : b <= c
  <2> HIDE DEF B
  <2> QED
    BY <1>4, Least
<1>6. PICK p \in left : p[1] = a /\ p[2] = b
  BY <1>5
<1>7. ASSUME NEW q \in left PROVE p[1] < q[1] \/ (p[1] = q[1] /\ p[2] <= q[2])
  <2>1. a <= q[1] /\ q[1] \in Nat /\ a \in Nat
    BY <1>1, <1>2, <1>3
  <2>2. CASE q[1] = a
    BY <1>5, <1>6, <2>2
  <2> QED
    BY <1>6, <2>1, <2>2
<1> QED
  BY <1>6, <1>7 DEF First

(* Every edge was found by reconstructPairZero, with some lies and scalars. *)
THEOREM EdgesFoundHolds == StatusSpec => []EdgesFound
<1>1. StatusInit => EdgesFound
  BY DEF StatusInit, Init, EdgesFound
<1>2. EdgesFound /\ [StatusNext]_statusVars => EdgesFound'
  <2> SUFFICES ASSUME EdgesFound, [StatusNext]_statusVars PROVE EdgesFound'
    OBVIOUS
  <2>1. CASE Com2
    <3>1. diffs = <<>> /\ edges = {}
      BY <2>1 DEF Com2, EdgesFound
    <3>2. UNCHANGED <<left, edges>>
      BY <2>1 DEF Com2, vars
    <3> QED
      BY <3>1, <3>2 DEF EdgesFound
  <2>2. ASSUME UNCHANGED <<heard, shape, diffs>>, NEW e, NEW s, Found(e, s) PROVE Found(e, s)'
    BY <2>2 DEF Found, Broadcasts, Hiding
  <2>3. CASE StatusPair
    <3>1. PICK zero \in PairOutcomes(First) : Pair(zero)
      BY <2>3 DEF StatusPair
    <3>2. UNCHANGED <<heard, shape, diffs>> /\ diffs # <<>> /\ left # {}
      BY <2>3 DEF StatusPair
    <3>3. First \in left /\ First \in Pairs
      BY <3>2, FirstLeft DEF EdgesFound
    <3>4. left' \subseteq Pairs
      BY <3>1 DEF Pair, EdgesFound
    <3>5. CASE ~zero
      <4>1. edges' = edges
        BY <3>1, <3>5 DEF Pair
      <4> QED
        BY <2>2, <3>2, <3>4, <4>1 DEF EdgesFound
    <3>6. CASE zero
      <4>1. edges' = edges \cup {First, <<First[2], First[1]>>}
        BY <3>1, <3>6 DEF Pair
      <4>2. <<First[2], First[1]>> \notin Pairs
        <5>1. First[1] < First[2] /\ First[1] \in Int /\ First[2] \in Int
          BY <3>3, PairMembers, Degrees DEF Member
        <5> QED
          BY <5>1 DEF Pairs
      <4>3. \A s \in Side : Found(First, s)
        <5>1. zero # FALSE
          BY <3>6
        <5>2. zero \in {l /\ r : l \in SideOutcomes(First, "left"), r \in SideOutcomes(First, "right")}
          <6>1. CASE VectorCount(First) < Threshold
            <7>1. PairOutcomes(First) = {FALSE}
              BY <6>1 DEF PairOutcomes
            <7> QED
              BY <3>1, <5>1, <7>1
          <6>2. CASE ~(VectorCount(First) < Threshold)
            <7> DEFINE Z == {l /\ r : l \in SideOutcomes(First, "left"), r \in SideOutcomes(First, "right")}
            <7>1. PairOutcomes(First) = IF VectorCount(First) < Threshold THEN {FALSE} ELSE Z
              BY DEF PairOutcomes
            <7> HIDE DEF Z
            <7>2. zero \in Z
              BY <3>1, <6>2, <7>1
            <7> QED
              BY <7>2 DEF Z
          <6> QED
            BY <6>1, <6>2
        <5>3. PICK l \in SideOutcomes(First, "left"), r \in SideOutcomes(First, "right") : zero = (l /\ r)
          BY <5>2
        <5>4. l /\ r
          BY <3>6, <5>3
        <5>5. ASSUME NEW s, NEW o \in SideOutcomes(First, s), o PROVE Found(First, s)
          <6>1. PICK lists \in Broadcasts(First, s), t \in Scalar \ Hiding(First, s) :
                  o = CoeffVectorZero(lists, t)
            BY DEF SideOutcomes
          <6>2. CoeffVectorZero(lists, t)
            BY <5>5, <6>1
          <6> QED
            BY <6>1, <6>2 DEF Found
        <5> QED
          BY <5>4, <5>5 DEF Side
      <4> QED
        BY <2>2, <3>2, <3>4, <4>1, <4>2, <4>3 DEF EdgesFound
    <3> QED
      BY <3>5, <3>6
  <2>4. CASE StatusSearch
    <3>1. UNCHANGED <<left, edges, heard, shape, diffs>>
      BY <2>4 DEF StatusSearch, Search
    <3> QED
      BY <2>2, <3>1 DEF EdgesFound
  <2>5. CASE UNCHANGED statusVars
    <3>1. UNCHANGED <<left, edges, heard, shape, diffs>>
      BY <2>5 DEF statusVars, vars
    <3> QED
      BY <2>2, <3>1 DEF EdgesFound
  <2> QED
    BY <2>1, <2>3, <2>4, <2>5 DEF StatusNext, StatusDone
<1> QED
  BY <1>1, <1>2, PTL DEF StatusSpec

(* An edge of the graph of com_3.go means agreement, for every committee,  *)
(* field, dealing, and whatever the faulty members of Com2 broadcast.      *)
THEOREM EdgesAgreeHolds == StatusSpec => []EdgesAgree
<1>1. StatusType /\ EdgesFound => EdgesAgree
  <2> SUFFICES ASSUME StatusType, EdgesFound, NEW e \in edges, e \in Pairs, HeardEnough(e), NEW s \in Side
               PROVE  diffs[e][s][0] = Nought
    BY DEF EdgesAgree, Agree
  <2>1. diffs # <<>> /\ Found(e, s)
    BY DEF EdgesFound
  <2> QED
    BY <2>1, VectorDecides
<1> QED
  BY <1>1, StatusTypeCorrect, EdgesFoundHolds, PTL

(* Any two happy members that enough honest Com2 members heard agree, in   *)
(* every committee and field, whatever the dealer and D of Com2 do.        *)
THEOREM HappyAgreeHolds == StatusSpec => []HappyAgree
<1>1. EdgesAgree /\ Stored => HappyAgree
  <2> SUFFICES ASSUME EdgesAgree, Stored, searched, NEW q \in Pairs,
                      {q[1], q[2]} \subseteq clique, HeardEnough(q)
               PROVE  Agree(q)
    BY DEF HappyAgree
  <2>1. q[1] # q[2] /\ q = <<q[1], q[2]>>
    BY PairMembers
  <2>2. q \in edges
    BY <2>1, StoredSupports DEF Supports, IsClique
  <2> QED
    BY <2>2 DEF EdgesAgree
<1>2. StatusSpec => []Stored
  BY StatusImplementsSearch, StoredInvariant, PTL
<1> QED
  BY <1>1, <1>2, EdgesAgreeHolds, PTL

-----------------------------------------------------------------------------
(* The columns of the happy members.                                       *)

LEMMA SubsetOfSize ==
  ASSUME NEW C \in SUBSET Int, IsFiniteSet(C), NEW n \in Nat, n <= Cardinality(C)
  PROVE  \E S \in SUBSET C : Cardinality(S) = n
<1> DEFINE xs == Ascending(C)
           I == 1..n
           S == {xs[k] : k \in I}
<1>1. /\ Cardinality(C) \in Nat
      /\ \A k \in 1..Cardinality(C) : xs[k] \in C
      /\ \A j, k \in 1..Cardinality(C) : j # k => xs[j] # xs[k]
  BY AscendingExact
<1>2. IsFiniteSet(I) /\ Cardinality(I) = n
  BY FS_Interval
<1>3. \A k \in I : k \in 1..Cardinality(C)
  BY <1>1
<1>4. (\A j, k \in I : j # k => xs[j] # xs[k]) /\ S \in SUBSET C
  BY <1>1, <1>3
<1> HIDE DEF I, xs
<1>5. Cardinality(S) = n
  BY <1>2, <1>4, DistinctCount
<1> QED
  BY <1>4, <1>5

(* Two members that agree cross in both ways.                              *)
LEMMA AgreementCrosses ==
  ASSUME StatusType, diffs # <<>>, NEW q \in Pairs, Agree(q)
  PROVE  Crossing(q[1], q[2]) /\ Crossing(q[2], q[1])
<1> DEFINE i == q[1]
           p == q[2]
<1>1. i \in Member /\ p \in Member /\ i \in Elem /\ p \in Elem /\ 0 \in 0..N
  BY PairMembers, Degrees
<1>2. RowOf(i) \in Matrix /\ ColOf(i) \in Matrix /\ RowOf(p) \in Matrix /\ ColOf(p) \in Matrix
  BY <1>1, DealType
<1>3. diffs[q]["left"][0] = Nought /\ diffs[q]["right"][0] = Nought
  BY DEF Agree, Side
<1>4. /\ ShareDiff(RowOf(i), p, ColOf(p), i, 0) = Nought
      /\ ShareDiff(ColOf(i), p, RowOf(p), i, 0) = Nought
  BY <1>1, <1>3, DifferenceAt
<1> HIDE DEF i, p
<1>5. \A z \in Deg : Nought[z] = 0
  BY DEF Nought
<1>6. ASSUME NEW A \in Matrix, NEW a \in Elem, NEW B \in Matrix, NEW b \in Elem,
             ShareDiff(A, a, B, b, 0) = Nought
      PROVE  SpecializeCoefficients(A, a) = SpecializeCoefficients(B, b)
  <2>1. \A z \in Deg : SpecializeCoefficients(A, a)[z] = SpecializeCoefficients(B, b)[z]
    <3>1. \A z \in Deg : ShareDiff(A, a, B, b, 0)[z] = 0
      BY <1>5, <1>6
    <3> QED
      BY <3>1, ShareDiffIsPoly
  <2>2. /\ SpecializeCoefficients(A, a) \in [Deg -> Elem]
        /\ SpecializeCoefficients(B, b) \in [Deg -> Elem]
    BY SpecializedType
  <2> QED
    BY <2>1, <2>2
<1>7. SpecializeCoefficients(RowOf(i), p) = SpecializeCoefficients(ColOf(p), i)
  BY <1>1, <1>2, <1>4, <1>6
<1>8. SpecializeCoefficients(ColOf(i), p) = SpecializeCoefficients(RowOf(p), i)
  BY <1>1, <1>2, <1>4, <1>6
<1> QED
  BY <1>7, <1>8 DEF Crossing, RowOf, ColOf, i, p

(* Rows and columns that cross give columns on a polynomial, at every Z.   *)
LEMMA ColumnsFit ==
  ASSUME StatusType, NEW C \in SUBSET Member, Cardinality(C) > D,
         \A i, p \in C : Crossing(i, p), NEW k \in Elem
  PROVE  \E q \in [Deg -> Elem] :
           \A i \in C : Evaluate(q, i) = SpecializeColumnCoefficients(ColOf(i), k)[0]
<1>1. /\ D \in Nat /\ D + 1 \in Nat /\ Deg = 0..D /\ 0 \in Deg /\ C \subseteq Elem
      /\ IsFiniteSet(C) /\ C \in SUBSET Int
  <2>1. IsFiniteSet(C)
    BY Degrees, FS_Subset
  <2> QED
    BY <2>1, Degrees, Units
<1>2. PICK S \in SUBSET C : Cardinality(S) = D + 1
  <2>1. Cardinality(C) \in Nat
    BY <1>1, FS_CardinalityType
  <2>2. D + 1 <= Cardinality(C)
    BY <1>1, <2>1
  <2> QED
    BY <1>1, <2>2, SubsetOfSize
<1>3. IsFiniteSet(S) /\ S \in SUBSET Elem
  BY <1>1, FS_Subset
<1>4. PICK w \in [S -> Elem] :
        \A c \in Poly(D) : c[0] = FieldSum([p \in S |-> ModMul(Evaluate(c, p), w[p])], S)
  BY <1>1, <1>2, <1>3, WeightsAtZero
<1> DEFINE rowAt(p, z) == [e \in Deg |-> RowOf(p)[e][z]]
           colAt(i, z) == [e \in Deg |-> ColOf(i)[e][z]]
           g(z) == [p \in S |-> [x \in Elem |-> ModMul(w[p], Evaluate(rowAt(p, z), x))]]
           m == [z \in Deg |-> [x \in Elem |-> FieldSum([p \in S |-> g(z)[p][x]], S)]]
           u == [x \in Elem |-> Evaluate([z \in 0..D |-> m[z][x]], k)]
<1>5. ASSUME NEW i \in C, NEW z \in Deg PROVE rowAt(i, z) \in Poly(D) /\ colAt(i, z) \in Poly(D)
  <2>1. RowOf(i) \in Matrix /\ ColOf(i) \in Matrix
    BY DealType
  <2> QED
    BY <1>1, <2>1 DEF Matrix, Poly
<1>6. ASSUME NEW i \in C, NEW p \in C, NEW z \in Deg
      PROVE  Evaluate(rowAt(i, z), p) = Evaluate(colAt(p, z), i)
  <2>1. /\ SpecializeCoefficients(RowOf(i), p)[z] = Evaluate(rowAt(i, z), p)
        /\ SpecializeCoefficients(ColOf(p), i)[z] = Evaluate(colAt(p, z), i)
    BY DEF SpecializeCoefficients
  <2> QED
    BY <2>1 DEF Crossing, RowOf, ColOf
<1>7. \A i \in C, z \in Deg : colAt(i, z)[0] = ColOf(i)[0][z]
  BY <1>1
<1> HIDE DEF rowAt, colAt
<1>8. ASSUME NEW z \in Deg PROVE IsPoly(m[z], D)
  <2>1. ASSUME NEW p \in S PROVE IsPoly(g(z)[p], D)
    <3> DEFINE a == [x \in Elem |-> Evaluate(rowAt(p, z), x)]
    <3>1. IsPoly(a, D)
      <4>1. rowAt(p, z) \in Poly(D) /\ \A x \in Elem : a[x] = Evaluate(rowAt(p, z), x)
        BY <1>5
      <4> HIDE DEF a
      <4> QED
        BY <4>1 DEF IsPoly
    <3>2. \A x \in Elem : g(z)[p][x] = ModMul(w[p], a[x])
      OBVIOUS
    <3>3. w[p] \in Elem
      BY <1>4
    <3> HIDE DEF a, g
    <3> QED
      BY <1>1, <3>1, <3>2, <3>3, IsPolyScaled
  <2>2. \A x \in Elem : m[z][x] = FieldSum([p \in S |-> g(z)[p][x]], S)
    OBVIOUS
  <2> DEFINE gz == g(z)
             mz == m[z]
  <2>3. (\A p \in S : IsPoly(gz[p], D)) /\ \A x \in Elem : mz[x] = FieldSum([p \in S |-> gz[p][x]], S)
    BY <2>1, <2>2
  <2> HIDE DEF gz, mz
  <2>4. IsPoly(mz, D)
    BY <1>1, <1>3, <2>3, IsPolySum
  <2> QED
    BY <2>4 DEF mz
<1>9. ASSUME NEW i \in C, NEW z \in Deg PROVE m[z][i] = ColOf(i)[0][z]
  <2> DEFINE c == colAt(i, z)
             f == [p \in S |-> ModMul(Evaluate(c, p), w[p])]
             h == [p \in S |-> g(z)[p][i]]
  <2>0. i \in Elem /\ S \subseteq C
    BY <1>1
  <2>1. c \in Poly(D)
    BY <1>5
  <2>2. c[0] = FieldSum(f, S)
    BY <1>4, <2>1
  <2>3. ASSUME NEW p \in S PROVE f[p] \in Elem /\ h[p] = f[p]
    <3>1. h[p] = ModMul(w[p], Evaluate(rowAt(p, z), i))
      BY <2>0
    <3>2. Evaluate(rowAt(p, z), i) = Evaluate(c, p)
      BY <1>6, <2>0
    <3>3. Evaluate(c, p) \in Elem /\ w[p] \in Elem
      BY <1>1, <1>3, <1>4, <2>1, EvaluateIsSum
    <3>4. f[p] = ModMul(Evaluate(c, p), w[p])
      OBVIOUS
    <3> HIDE DEF f, h, c
    <3>5. ModMul(Evaluate(c, p), w[p]) \in Elem
          /\ ModMul(Evaluate(c, p), w[p]) = ModMul(w[p], Evaluate(c, p))
      BY <3>3, Ops, Commutes
    <3> QED
      BY <3>1, <3>2, <3>4, <3>5
  <2>4. m[z][i] = FieldSum(h, S)
    BY <2>0
  <2> HIDE DEF f, h, m
  <2>5. FieldSum(h, S) = FieldSum(f, S)
    BY <1>3, <2>3, SumEqual
  <2> QED
    BY <1>7, <2>2, <2>4, <2>5
<1> HIDE DEF m
<1>10. PICK q \in Poly(D) : \A x \in Elem : u[x] = Evaluate(q, x)
  <2>1. \A z \in 0..D : IsPoly(m[z], D)
    BY <1>1, <1>8
  <2>2. \A x \in Elem : u[x] = Evaluate([z \in 0..D |-> m[z][x]], k)
    OBVIOUS
  <2> HIDE DEF u
  <2>3. IsPoly(u, D)
    BY <1>1, <2>1, <2>2, IsPolyFamily
  <2> QED
    BY <2>3 DEF IsPoly
<1>11. ASSUME NEW i \in C PROVE Evaluate(q, i) = SpecializeColumnCoefficients(ColOf(i), k)[0]
  <2>1. i \in Elem /\ ColOf(i) \in Matrix
    BY <1>1, DealType
  <2>2. [z \in 0..D |-> m[z][i]] = [z \in Deg |-> ColOf(i)[0][z]]
    BY <1>1, <1>9
  <2>3. [z \in Deg |-> ColOf(i)[0][z]] = ColOf(i)[0]
    BY <1>1, <2>1 DEF Matrix
  <2>4. u[i] = Evaluate(ColOf(i)[0], k)
    BY <2>1, <2>2, <2>3
  <2>5. SpecializeColumnCoefficients(ColOf(i), k)[0] = Evaluate(ColOf(i)[0], k)
    BY <1>1 DEF SpecializeColumnCoefficients
  <2> QED
    BY <1>10, <2>1, <2>4, <2>5
<1>12. q \in [Deg -> Elem]
  BY <1>1 DEF Poly
<1> QED
  BY <1>11, <1>12

(* The points that the happy members send to a member of Com4 are on one   *)
(* polynomial, for every committee, field and dealing.                     *)
THEOREM HappyColumnsFitHolds == StatusSpec => []HappyColumnsFit
<1>1. StatusType /\ EdgesFound /\ EdgesAgree /\ Stored => HappyColumnsFit
  <2> SUFFICES ASSUME StatusType, EdgesFound, EdgesAgree, Stored, searched, clique # {},
                      \A i \in clique : Crossing(i, i) /\ Col(i) \in Matrix,
                      \A i, p \in clique : HeardEnough(<<i, p>>),
                      NEW k \in Member
               PROVE  \E q \in [Deg -> Elem] :
                        \A i \in clique : Evaluate(q, i) = SpecializeColumnCoefficients(Col(i), k)[0]
    BY DEF HappyColumnsFit
  <2>1. Supports(clique) /\ D \in Nat /\ k \in Elem /\ Threshold = 2 * D + 1
    BY Degrees, StatusAssumption, StoredSupports
  <2>2. clique \in SUBSET Member
    <3>1. clique \subseteq Vertex
      BY DEF Stored, FindCliqueIDs, HighDegreeVertices
    <3> QED
      BY <3>1, StatusAssumption DEF Vertex, Member
  <2>3. Cardinality(clique) > D
    <3>1. Cardinality(clique) \in Nat
      BY <2>2, Degrees, FS_Subset, FS_CardinalityType
    <3> QED
      BY <2>1, <3>1 DEF Supports
  <2>4. ASSUME NEW i \in clique, NEW p \in clique, i < p
        PROVE  Crossing(i, p) /\ Crossing(p, i)
    <3> DEFINE e == <<i, p>>
    <3>1. i # p
      BY <2>2, <2>4, Degrees DEF Member
    <3>2. e \in edges
      BY <2>1, <3>1 DEF Supports, IsClique
    <3>3. e \in Pairs
      <4>1. Vertex = Member
        BY StatusAssumption DEF Vertex, Member
      <4> QED
        BY <2>2, <2>4, <4>1 DEF Pairs
    <3>4. HeardEnough(e)
      OBVIOUS
    <3>5. Agree(e) /\ diffs # <<>>
      BY <3>2, <3>3, <3>4 DEF EdgesAgree, EdgesFound
    <3>6. Crossing(e[1], e[2]) /\ Crossing(e[2], e[1])
      BY <3>3, <3>5, AgreementCrosses
    <3> QED
      BY <3>6
  <2>5. ASSUME NEW i \in clique, NEW p \in clique PROVE Crossing(i, p)
    <3>1. i \in Int /\ p \in Int
      BY <2>2 DEF Member
    <3>2. CASE i = p
      BY <3>2
    <3>3. CASE i # p
      BY <2>4, <3>1, <3>3
    <3> QED
      BY <3>2, <3>3
  <2> QED
    <3>1. PICK q \in [Deg -> Elem] :
            \A i \in clique : Evaluate(q, i) = SpecializeColumnCoefficients(ColOf(i), k)[0]
      BY <2>1, <2>2, <2>3, <2>5, ColumnsFit
    <3>2. \A i \in clique : ColOf(i) = Col(i)
      BY <2>2, DealType
    <3> QED
      BY <3>1, <3>2
<1>2. StatusSpec => []Stored
  BY StatusImplementsSearch, StoredInvariant, PTL
<1> QED
  BY <1>1, <1>2, StatusTypeCorrect, EdgesFoundHolds, EdgesAgreeHolds, PTL
-----------------------------------------------------------------------------
(* Members that agree, heard by everyone honest, are joined.               *)

LEMMA HonestCount ==
  /\ Cardinality(FaultyCom2) \in Nat /\ Cardinality(HonestCom2) \in Nat
  /\ Cardinality(HonestCom2) >= Threshold
  /\ Cardinality(HonestCom2) > D + Cardinality(FaultyCom2)
<1>1. IsFiniteSet(Member) /\ Cardinality(Member) = N /\ D \in Nat /\ N \in Nat
  BY Degrees
<1>2. IsFiniteSet(FaultyCom2) /\ FaultyCom2 \cap Member = FaultyCom2
  BY <1>1, StatusAssumption, FS_Subset
<1>3. Cardinality(HonestCom2) = Cardinality(Member) - Cardinality(Member \cap FaultyCom2)
      /\ IsFiniteSet(HonestCom2)
  <2>1. IsFiniteSet(HonestCom2)
    BY <1>1, FS_Subset DEF HonestCom2
  <2>2. Cardinality(Member \ FaultyCom2) = Cardinality(Member) - Cardinality(Member \cap FaultyCom2)
    BY <1>1, <1>2, FS_Difference
  <2> QED
    BY <2>1, <2>2 DEF HonestCom2
<1>4. Member \cap FaultyCom2 = FaultyCom2
  BY <1>2
<1>5. Cardinality(FaultyCom2) \in Nat /\ Cardinality(HonestCom2) \in Nat
  BY <1>2, <1>3, FS_CardinalityType
<1>6. Cardinality(HonestCom2) = N - Cardinality(FaultyCom2)
  BY <1>1, <1>3, <1>4
<1>7. N >= 3 * D + 1 /\ Cardinality(FaultyCom2) <= D /\ Threshold = 2 * D + 1
  BY CommitteeAssumption, StatusAssumption
<1> QED
  BY <1>1, <1>5, <1>6, <1>7

(* With every honest member heard a decode is zero if the polynomial is.   *)
LEMMA EveryVote ==
  ASSUME NEW q \in Pairs, HeardBy(q) = HonestCom2,
         NEW T \in SUBSET Member, HeardBy(q) \subseteq T, T \subseteq HeardBy(q) \cup FaultyCom2,
         NEW y \in [T -> Elem], NEW c \in Poly(D), c[0] = 0,
         \A k \in HeardBy(q) : y[k] = Evaluate(c, k)
  PROVE  DecodesToZero(y)
<1> DEFINE L == T \ HonestCom2
<1>1. HonestCom2 \in SUBSET T /\ L \subseteq FaultyCom2
  OBVIOUS
<1>2. IsFiniteSet(FaultyCom2) /\ IsFiniteSet(L)
  <2>1. IsFiniteSet(FaultyCom2)
    BY Degrees, StatusAssumption, FS_Subset
  <2> HIDE DEF L
  <2> QED
    BY <1>1, <2>1, FS_Subset
<1>3. Cardinality(L) \in Nat /\ Cardinality(L) <= Cardinality(FaultyCom2)
  <2> HIDE DEF L
  <2> QED
    BY <1>1, <1>2, FS_Subset, FS_CardinalityType
<1>4. Cardinality(HonestCom2) > D + Cardinality(L)
  <2> HIDE DEF L
  <2> QED
    BY <1>3, HonestCount, Degrees
<1> QED
  BY <1>1, <1>4, DecodesWhenFew

(* The lists are no longer than the vectors may be.                        *)
LEMMA CoeffSizeLimit ==
  ASSUME StatusType, diffs # <<>>, NEW q \in Pairs, NEW s \in Side, NEW lists \in Broadcasts(q, s),
         shape.len <= D + 1
  PROVE  CoeffSize(lists) <= D + 1
<1> DEFINE lens == {0} \cup UNION {{Long(lists[k][c]) : c \in DOMAIN lists[k]} : k \in Seqs(lists)}
<1>1. D \in Nat /\ D + 1 \in Nat /\ shape.len \in Nat
  BY Degrees DEF StatusType
<1>2. ASSUME NEW k \in Seqs(lists), NEW c \in DOMAIN lists[k]
      PROVE  Long(lists[k][c]) \in Int /\ Long(lists[k][c]) <= D + 1
  <2>1. lists[k][c] \in Vector(D + 1) \/ lists[k][c] \in Vector(shape.len)
    BY ListsType DEF Seqs
  <2>2. CASE lists[k][c] \in Vector(D + 1)
    <3>1. Long(lists[k][c]) = D + 1
      BY <1>1, <2>2, LongIs
    <3> QED
      BY <1>1, <3>1
  <2>3. CASE lists[k][c] \in Vector(shape.len)
    <3>1. Long(lists[k][c]) = shape.len
      BY <1>1, <2>3, LongIs
    <3> QED
      BY <1>1, <3>1
  <2> QED
    BY <2>1, <2>2, <2>3
<1>3. lens # {} /\ D + 1 \in Int /\ \A n \in lens : n \in Int /\ n <= D + 1
  BY <1>1, <1>2
<1>4. CoeffSize(lists) = Max(lens)
  BY DEF CoeffSize
<1> HIDE DEF lens
<1>5. Max(lens) \in lens
  BY <1>3, MaxExists
<1> QED
  BY <1>3, <1>4, <1>5

(* A side that is zero comes out zero, for every lie and every scalar.     *)
LEMMA VectorComesOutZero ==
  ASSUME StatusType, diffs # <<>>, NEW q \in Pairs, NEW s \in Side,
         HeardBy(q) = HonestCom2, diffs[q][s][0] = Nought, shape.len <= D + 1,
         NEW lists \in Broadcasts(q, s), NEW r \in Scalar
  PROVE  CoeffVectorZero(lists, r)
<1>1. D \in Nat /\ Deg = 0..D /\ r \in Elem
  <2>1. r \in Elem
    BY Modulus DEF Scalar, Elem
  <2> QED
    BY <2>1, Degrees
<1>2. HeardBy(q) # {}
  <2> SUFFICES ASSUME HonestCom2 = {} PROVE FALSE
    OBVIOUS
  <2>1. Cardinality(HonestCom2) = 0
    BY FS_EmptySet
  <2> QED
    BY <1>1, <2>1, HonestCount
<1>3. /\ CoeffSize(lists) = D + 1
      /\ HeardBy(q) \subseteq Seqs(lists) /\ Seqs(lists) \subseteq HeardBy(q) \cup FaultyCom2
      /\ Seqs(lists) \in SUBSET Member
  <2>1. /\ CoeffSize(lists) \in Nat /\ CoeffSize(lists) >= D + 1
        /\ HeardBy(q) \subseteq Seqs(lists) /\ Seqs(lists) \subseteq HeardBy(q) \cup FaultyCom2
        /\ Seqs(lists) \in SUBSET Member
    BY <1>2, CoeffSizes
  <2>2. CoeffSize(lists) <= D + 1
    BY CoeffSizeLimit
  <2> QED
    BY <1>1, <2>1, <2>2
<1>4. \A z \in Deg : diffs[q][s][0][z] = 0
  BY DEF Nought
<1>5. CASE \A k \in Seqs(lists) : Long(Latest(lists, k)) >= CoeffSize(lists)
  <2>1. /\ Combined(lists, r) \in [Seqs(lists) -> Elem]
        /\ \E c \in Poly(D) : /\ c[0] = Combine(diffs[q][s][0], r)
                              /\ \A k \in HeardBy(q) : Combined(lists, r)[k] = Evaluate(c, k)
    BY <1>1, <1>2, <1>5, CombinedVotes
  <2>2. Combine(Nought, r) = 0
    <3>1. Nought \in Poly(D) /\ \A i \in 0..D : Nought[i] = 0
      BY <1>1, Units DEF Nought, Poly
    <3> QED
      BY <1>1, <3>1, EvaluateZero DEF Combine
  <2>3. DecodesToZero(Combined(lists, r))
    BY <1>3, <2>1, <2>2, EveryVote
  <2>4. CoeffVectorZero(lists, r) = (CoeffSize(lists) = 0 \/ DecodesToZero(Combined(lists, r)))
    BY <1>5, CoeffVectorParts
  <2> QED
    BY <2>3, <2>4
<1>6. CASE ~(\A k \in Seqs(lists) : Long(Latest(lists, k)) >= CoeffSize(lists))
  <2>1. ASSUME NEW z \in 0..(CoeffSize(lists) - 1) PROVE DecodesToZero(AtCoefficient(lists, z))
    <3>1. z \in Deg
      BY <1>1, <1>3
    <3>2. /\ Holders(lists, z) \in SUBSET Member /\ HeardBy(q) \subseteq Holders(lists, z)
          /\ Holders(lists, z) \subseteq HeardBy(q) \cup FaultyCom2
          /\ AtCoefficient(lists, z) \in [Holders(lists, z) -> Elem]
          /\ \E c \in Poly(D) : /\ c[0] = diffs[q][s][0][z]
                                /\ \A k \in HeardBy(q) : AtCoefficient(lists, z)[k] = Evaluate(c, k)
      BY <1>2, <3>1, CoefficientVotes
    <3> QED
      BY <1>4, <3>1, <3>2, EveryVote
  <2>2. CoeffVectorZero(lists, r)
          = \A z \in 0..(CoeffSize(lists) - 1) : DecodesToZero(AtCoefficient(lists, z))
    BY <1>6, CoeffVectorParts
  <2> QED
    BY <2>1, <2>2
<1> QED
  BY <1>5, <1>6

(* So a pair that agrees comes out zero.                                   *)
LEMMA PairComesOutZero ==
  ASSUME StatusType, diffs # <<>>, NEW q \in Pairs,
         HeardBy(q) = HonestCom2, Agree(q), shape.len <= D + 1,
         NEW zero \in PairOutcomes(q)
  PROVE  zero
<1>1. ~(VectorCount(q) < Threshold)
  <2>1. shape.count * Cardinality(FaultyCom2) \in Nat
    BY HonestCount DEF StatusType
  <2>2. Threshold \in Nat
    BY SizeAssumption
  <2> QED
    BY <2>1, <2>2, HonestCount DEF VectorCount
<1> DEFINE Z == {l /\ r : l \in SideOutcomes(q, "left"), r \in SideOutcomes(q, "right")}
<1>2. zero \in Z
  <2>1. PairOutcomes(q) = IF VectorCount(q) < Threshold THEN {FALSE} ELSE Z
    BY DEF PairOutcomes
  <2> HIDE DEF Z
  <2> QED
    BY <1>1, <2>1
<1>3. PICK l \in SideOutcomes(q, "left"), r \in SideOutcomes(q, "right") : zero = (l /\ r)
  BY <1>2
<1>4. ASSUME NEW s \in Side, NEW o \in SideOutcomes(q, s) PROVE o
  <2>1. PICK lists \in Broadcasts(q, s), t \in Scalar \ Hiding(q, s) : o = CoeffVectorZero(lists, t)
    BY DEF SideOutcomes
  <2>2. diffs[q][s][0] = Nought
    BY DEF Agree
  <2>3. CoeffVectorZero(lists, t)
    BY <2>2, VectorComesOutZero
  <2> QED
    BY <2>1, <2>3
<1>5. l /\ r
  BY <1>4 DEF Side
<1> QED
  BY <1>3, <1>5

(* No pair is decoded before the differences are broadcast.                *)
PairsAfterCom2 == left \subseteq Pairs /\ (diffs = <<>> => left = Pairs)

(* Two members that agree are joined whatever faulty members of Com2       *)
(* broadcast, for every committee, field and dealing, when every honest    *)
(* member of Com2 heard them and no vector is too long.                    *)
THEOREM HonestSupportedHolds == StatusSpec => []HonestSupported
<1>1. StatusInit => PairsAfterCom2 /\ HonestSupported
  BY DEF StatusInit, Init, PairsAfterCom2, HonestSupported
<1>2. StatusType /\ PairsAfterCom2 /\ HonestSupported /\ [StatusNext]_statusVars
        => PairsAfterCom2' /\ HonestSupported'
  <2> SUFFICES ASSUME StatusType, PairsAfterCom2, HonestSupported, [StatusNext]_statusVars
               PROVE  PairsAfterCom2' /\ HonestSupported'
    OBVIOUS
  <2>1. CASE Com2
    <3>1. left = Pairs /\ left' = left
      BY <2>1 DEF Com2, PairsAfterCom2, vars
    <3> QED
      BY <3>1 DEF PairsAfterCom2, HonestSupported
  <2>2. ASSUME UNCHANGED <<heard, shape, diffs>>, NEW q, HeardBy(q)' = HonestCom2, Agree(q)', shape'.len <= D + 1
        PROVE  HeardBy(q) = HonestCom2 /\ Agree(q) /\ shape.len <= D + 1
    BY <2>2 DEF HeardBy, Agree
  <2>3. CASE StatusPair
    <3>1. PICK zero \in PairOutcomes(First) : Pair(zero)
      BY <2>3 DEF StatusPair
    <3>2. UNCHANGED <<heard, shape, diffs>> /\ diffs # <<>> /\ left # {}
      BY <2>3 DEF StatusPair
    <3>3. First \in left /\ First \in Pairs
      BY <3>2, FirstLeft DEF PairsAfterCom2
    <3>4. left' = left \ {First} /\ edges \subseteq edges' /\ (zero => First \in edges')
      BY <3>1 DEF Pair
    <3>5. ASSUME NEW q \in Pairs \ left', HeardBy(q)' = HonestCom2, Agree(q)', shape'.len <= D + 1
          PROVE  q \in edges'
      <4>1. HeardBy(q) = HonestCom2 /\ Agree(q) /\ shape.len <= D + 1
        BY <2>2, <3>2, <3>5
      <4>2. CASE q = First
        <5>1. zero
          BY <3>1, <3>2, <3>3, <4>1, <4>2, PairComesOutZero
        <5> QED
          BY <3>4, <4>2, <5>1
      <4>3. CASE q # First
        BY <3>4, <3>5, <4>1, <4>3 DEF HonestSupported
      <4> QED
        BY <4>2, <4>3
    <3>6. PairsAfterCom2'
      BY <3>2, <3>4 DEF PairsAfterCom2
    <3> QED
      BY <3>5, <3>6 DEF HonestSupported
  <2>4. CASE UNCHANGED <<left, edges, heard, shape, diffs>>
    BY <2>2, <2>4 DEF PairsAfterCom2, HonestSupported
  <2> QED
    BY <2>1, <2>3, <2>4 DEF StatusNext, StatusSearch, Search, StatusDone, statusVars, vars
<1> QED
  BY <1>1, <1>2, StatusTypeCorrect, PTL DEF StatusSpec

-----------------------------------------------------------------------------
(* A dealer whose rows and columns cross.                                  *)

LEMMA SameHasNoDifference ==
  ASSUME NEW A \in Matrix, NEW a \in Elem, NEW B \in Matrix, NEW b \in Elem,
         SpecializeCoefficients(A, a) = SpecializeCoefficients(B, b)
  PROVE  ShareDiff(A, a, B, b, 0) = Nought
<1> DEFINE x == SpecializeCoefficients(ShareMatrix(A, Masks, 0), a)
           y == SpecializeCoefficients(ShareMatrix(B, Masks, 0), b)
<1>1. DOMAIN x = Deg
  BY DEF SpecializeCoefficients
<1>2. ASSUME NEW z \in Deg PROVE x[z] = y[z] /\ x[z] \in Elem
  <2>1. x[z] = SpecializeCoefficients(A, a)[z] /\ y[z] = SpecializeCoefficients(B, b)[z]
    BY ShareIsPoly
  <2>2. SpecializeCoefficients(A, a) \in [Deg -> Elem]
    BY SpecializedType
  <2> QED
    BY <2>1, <2>2
<1> HIDE DEF x, y
<1>3. DiffSlice(x, y) = [z \in Deg |-> ModSubCanon(x[z], y[z])]
  BY <1>1 DEF DiffSlice
<1>4. ASSUME NEW z \in Deg PROVE ModSubCanon(x[z], y[z]) = 0
  BY <1>2, Ops, AddZero
<1>5. [z \in Deg |-> ModSubCanon(x[z], y[z])] = [z \in Deg |-> 0]
  BY <1>4
<1> QED
  BY <1>3, <1>5 DEF ShareDiff, Nought, x, y

LEMMA CrossingAgrees ==
  ASSUME StatusType, diffs # <<>>, NEW q \in Pairs, Crossing(q[1], q[2]), Crossing(q[2], q[1])
  PROVE  Agree(q)
<1>1. q[1] \in Member /\ q[2] \in Member /\ q[1] \in Elem /\ q[2] \in Elem /\ 0 \in 0..N
  BY PairMembers, Degrees
<1>2. RowOf(q[1]) \in Matrix /\ ColOf(q[1]) \in Matrix /\ RowOf(q[2]) \in Matrix /\ ColOf(q[2]) \in Matrix
  BY <1>1, DealType
<1>3. /\ ShareDiff(RowOf(q[1]), q[2], ColOf(q[2]), q[1], 0) = Nought
      /\ ShareDiff(ColOf(q[1]), q[2], RowOf(q[2]), q[1], 0) = Nought
  BY <1>1, <1>2, SameHasNoDifference DEF Crossing, RowOf, ColOf
<1>4. diffs[q]["left"][0] = Nought /\ diffs[q]["right"][0] = Nought
  BY <1>1, <1>3, DifferenceAt
<1> QED
  BY <1>4 DEF Agree, Side

\* setEdge writes both directions; the pairs are looked at once Com2 is over.
BothWays ==
  /\ \A i, p : <<i, p>> \in edges => <<p, i>> \in edges
  /\ left \subseteq Pairs
  /\ diffs = <<>> => left = Pairs
  /\ searched => left = {}

LEMMA BothWaysHolds == StatusSpec => []BothWays
<1>1. StatusInit => BothWays
  BY DEF StatusInit, Init, BothWays
<1>2. BothWays /\ [StatusNext]_statusVars => BothWays'
  <2> SUFFICES ASSUME BothWays, [StatusNext]_statusVars PROVE BothWays'
    OBVIOUS
  <2>1. CASE Com2
    BY <2>1 DEF Com2, BothWays, vars
  <2>2. CASE StatusPair
    <3>1. PICK zero \in PairOutcomes(First) : Pair(zero)
      BY <2>2 DEF StatusPair
    <3>2. UNCHANGED diffs /\ diffs # <<>> /\ left # {} /\ left' \subseteq left /\ searched' = searched
      BY <2>2, <3>1 DEF StatusPair, Pair
    <3>3. edges' = edges \/ edges' = edges \cup {First, <<First[2], First[1]>>}
      BY <3>1 DEF Pair
    <3>4. First = <<First[1], First[2]>>
      <4>1. First \in Pairs
        BY <3>2, FirstLeft DEF BothWays
      <4> QED
        BY <4>1, PairMembers
    <3> DEFINE a == First[1]
               b == First[2]
    <3>5. edges' = edges \/ edges' = edges \cup {<<a, b>>, <<b, a>>}
      BY <3>3, <3>4
    <3> HIDE DEF a, b
    <3>6. \A i, p : <<i, p>> \in edges' => <<p, i>> \in edges'
      <4>1. ASSUME NEW i, NEW p, <<i, p>> \in edges' PROVE <<p, i>> \in edges'
        <5>1. CASE <<i, p>> \in edges
          BY <3>5, <5>1 DEF BothWays
        <5>2. CASE <<i, p>> \notin edges
          BY <3>5, <4>1, <5>2
        <5> QED
          BY <5>1, <5>2
      <4> QED
        BY <4>1
    <3> QED
      BY <3>2, <3>6 DEF BothWays
  <2>3. CASE StatusSearch
    BY <2>3 DEF StatusSearch, Search, BothWays
  <2>4. CASE UNCHANGED statusVars
    BY <2>4 DEF statusVars, vars, BothWays
  <2> QED
    BY <2>1, <2>2, <2>3, <2>4 DEF StatusNext, StatusDone
<1> QED
  BY <1>1, <1>2, PTL DEF StatusSpec

(* Every member is happy with a dealer whose rows and columns cross, for   *)
(* every committee, field and set of lies.                                 *)
THEOREM HonestDealerAcceptedHolds == StatusSpec => []HonestDealerAccepted
<1>1. StatusType /\ BothWays /\ HonestSupported /\ Stored => HonestDealerAccepted
  <2> SUFFICES ASSUME StatusType, BothWays, HonestSupported, Stored,
                      searched, shape.len <= D + 1,
                      \A k \in HonestCom2 : heard[k] = Member,
                      \A i, p \in Member : i # p => Crossing(i, p)
               PROVE  clique = Member
    BY DEF HonestDealerAccepted
  <2>1. Vertex = Member /\ Threshold = 2 * D + 1 /\ N >= 2 * D + 1 /\ D \in Nat /\ N \in Nat
    BY StatusAssumption, CommitteeAssumption DEF Vertex, Member
  <2>2. left = {}
    BY DEF BothWays
  <2>3. ASSUME NEW q \in Pairs PROVE <<q[1], q[2]>> \in edges /\ <<q[2], q[1]>> \in edges
    <3>1. q[1] \in Member /\ q[2] \in Member /\ q[1] # q[2] /\ q = <<q[1], q[2]>>
      BY PairMembers
    <3>2. diffs # <<>>
      BY <2>2 DEF BothWays
    <3>3. Agree(q)
      BY <3>1, <3>2, CrossingAgrees
    <3>4. HeardBy(q) = HonestCom2
      BY <3>1 DEF HeardBy
    <3>5. q \in edges
      BY <2>2, <3>3, <3>4 DEF HonestSupported
    <3>6. <<q[1], q[2]>> \in edges
      BY <3>1, <3>5
    <3> QED
      BY <3>6 DEF BothWays
  <2>4. ASSUME NEW i \in Vertex, NEW p \in Vertex, i # p PROVE <<i, p>> \in edges
    <3>1. i \in Int /\ p \in Int
      BY <2>1 DEF Member
    <3>2. CASE i < p
      <4> DEFINE q == <<i, p>>
      <4>1. q \in Pairs /\ q[1] = i /\ q[2] = p
        BY <3>2 DEF Pairs
      <4> HIDE DEF q
      <4> QED
        BY <2>3, <4>1
    <3>3. CASE p < i
      <4> DEFINE q == <<p, i>>
      <4>1. q \in Pairs /\ q[1] = p /\ q[2] = i
        BY <3>3 DEF Pairs
      <4> HIDE DEF q
      <4> QED
        BY <2>3, <4>1
    <3> QED
      BY <2>4, <3>1, <3>2, <3>3
  <2>5. IsClique(edges, Vertex)
    BY <2>4 DEF IsClique
  <2>6. IsFiniteSet(Vertex) /\ Cardinality(Vertex) = N /\ Cardinality(Vertex) >= Threshold
    BY <2>1, Degrees
  <2>7. \A i \in Vertex \ Vertex : Cardinality(Peers(Vertex, edges, i)) < Threshold - 1
    OBVIOUS
  <2>8. FindCliqueIDs(Vertex, edges, Threshold) = Vertex
    <3>1. Threshold \in Nat /\ Vertex \in SUBSET Vertex
      BY <2>1
    <3> QED
      BY <2>5, <2>6, <2>7, <3>1, ClearCliqueFound
  <2> QED
    BY <2>1, <2>8 DEF Stored
<1>2. StatusSpec => []Stored
  BY StatusImplementsSearch, StoredInvariant, PTL
<1> QED
  BY <1>1, <1>2, StatusTypeCorrect, BothWaysHolds, HonestSupportedHolds, PTL

\* The rows and columns that dealer.go projects from one polynomial.
Projected(G) ==
  deal = [row |-> [i \in Member |-> ProjectFixX(G, i)], col |-> [i \in Member |-> ProjectFixY(G, i)]]

(* An honest dealer, who projects one trivariate polynomial whatever its   *)
(* coefficients, is accepted with all members happy.                       *)
THEOREM ProjectingDealerAccepted ==
  StatusSpec => [](\A G \in Trivariate :
                     (/\ searched /\ Projected(G) /\ shape.len <= D + 1
                      /\ \A k \in HonestCom2 : heard[k] = Member)
                     => clique = Member)
<1>1. ASSUME HonestDealerAccepted, NEW G \in Trivariate, searched, Projected(G), shape.len <= D + 1,
             \A k \in HonestCom2 : heard[k] = Member
      PROVE  clique = Member
  <2>1. ASSUME NEW i \in Member, NEW p \in Member PROVE Crossing(i, p)
    <3>1. i \in Elem /\ p \in Elem
      BY Degrees
    <3>2. Row(i) = ProjectFixX(G, i) /\ Col(p) = ProjectFixY(G, p)
      BY <1>1 DEF Projected, Row, Col
    <3>3. SpecializeCoefficients(ProjectFixX(G, i), p) = SpecializeCoefficients(ProjectFixY(G, p), i)
      BY <3>1, ProjectionsCross DEF Crossed
    <3>4. /\ Canonical(ProjectFixX(G, i)) = ProjectFixX(G, i)
          /\ Canonical(ProjectFixY(G, p)) = ProjectFixY(G, p)
      BY <3>1, ProjectionType, CanonicalSame DEF Matrix
    <3> QED
      BY <3>2, <3>3, <3>4 DEF Crossing
  <2> QED
    BY <1>1, <2>1 DEF HonestDealerAccepted
<1>2. HonestDealerAccepted
        => \A G \in Trivariate :
             (/\ searched /\ Projected(G) /\ shape.len <= D + 1
              /\ \A k \in HonestCom2 : heard[k] = Member)
             => clique = Member
  BY <1>1
<1> QED
  BY <1>2, HonestDealerAcceptedHolds, PTL
=============================================================================
