------------------------- MODULE RedistributionProofs -------------------------
(***************************************************************************)
(* What the committees of Redistribution hold, for every field, committee  *)
(* and number of epochs.                                                   *)
(*                                                                         *)
(* The random shares are points of polynomials, their values at 0 the      *)
(* generated values.  A receiver's masked values are then points of a      *)
(* polynomial as well, whose value at 0 is a share of the same secret on   *)
(* the polynomial with the generated values for coefficients: the decoder  *)
(* finds it whatever D senders send (DecodeSound of DecoderProofs).        *)
(***************************************************************************)
EXTENDS Redistribution, DecoderProofs

LEMMA Committee == D \in Nat /\ Deg = 0..D /\ N \in Nat /\ N >= 3 * D + 1 /\ 0..N \subseteq Elem
                   /\ Member \subseteq Elem /\ Member = 1..N
                   /\ IsFiniteSet(Member) /\ Cardinality(Member) = N
                   /\ RandomIndex = 1..(N - D) /\ 1..D \subseteq RandomIndex
                   /\ Poly(D) = [Deg -> Elem]
<1>1. D \in Nat /\ N \in Nat /\ N < P /\ N >= 3 * D + 1
  BY CommitteeAssumption
<1>2. 0..N \subseteq Elem /\ 1..N \subseteq Elem
  BY <1>1, Modulus DEF Elem
<1>3. IsFiniteSet(1..N) /\ Cardinality(1..N) = N
  BY <1>1, FS_Interval
<1>4. 1..D \subseteq 1..(N - D)
  BY <1>1
<1> QED
  BY <1>1, <1>2, <1>3, <1>4 DEF Deg, Member, RandomIndex, Poly

-----------------------------------------------------------------------------
(* vandermonde.go: the random shares.                                      *)

\* A combination of the dealers' values, for the random value with index l.
Combination(v, l) == FieldSum([d \in Member |-> ModMul(Pow(d, l - 1), v[d])], Member)

\* What the dealers generate: the combinations of what they have shared.
Common(polys, l) == Combination([d \in Member |-> polys[d][0]], l)

LEMMA CombinationType ==
  ASSUME NEW v, \A d \in Member : v[d] \in Elem, NEW l \in RandomIndex
  PROVE  /\ Combination(v, l) \in Elem
         /\ \A d \in Member : Pow(d, l - 1) \in Elem /\ ModMul(Pow(d, l - 1), v[d]) \in Elem
<1> DEFINE f == [d \in Member |-> ModMul(Pow(d, l - 1), v[d])]
<1>1. l - 1 \in Nat /\ IsFiniteSet(Member) /\ Member \subseteq Elem
  BY Committee
<1>2. \A d \in Member : Pow(d, l - 1) \in Elem
  BY <1>1, PowUnfolds
<1>3. \A d \in Member : ModMul(Pow(d, l - 1), v[d]) \in Elem
  BY <1>2, Ops
<1>4. \A d \in Member : f[d] \in Elem
  BY <1>3
<1> HIDE DEF f
<1>5. FieldSum(f, Member) \in Elem
  BY <1>1, <1>4, SumUnfolds
<1> QED
  BY <1>2, <1>3, <1>5 DEF Combination, f

LEMMA RandomShareIs ==
  ASSUME NEW polys, NEW k, NEW l \in RandomIndex
  PROVE  RandomShares(polys, k)[l] = Combination([d \in Member |-> Evaluate(polys[d], k)], l)
<1> DEFINE betas == [i \in Member |-> i]
           M == BuildVandermondeMatrixFromIndices
           T == MatrixTranspose(M)
           v == [d \in Member |-> Evaluate(polys[d], k)]
<1>1. \A i \in Member : M[i] = [j \in RandomIndex |-> Pow(i, j - 1)]
  <2>1. \A i \in Member : i % P = i
    BY Committee, ModSmall
  <2> QED
    BY <2>1 DEF BuildVandermondeMatrixFromIndices, BuildVandermondeMatrix
<1>2. \A i \in Member : T[l][i] = Pow(i, l - 1)
  BY <1>1 DEF MatrixTranspose
<1>3. DOMAIN T = RandomIndex
  BY DEF MatrixTranspose
<1>4. RandomShares(polys, k)[l] = FieldSum([j \in DOMAIN v |-> ModMul(T[l][j], v[j])], DOMAIN v)
  BY <1>3 DEF RandomShares, MatrixVectorMultiply
<1>5. DOMAIN v = Member
  OBVIOUS
<1> HIDE DEF T, v
<1>6. [j \in Member |-> ModMul(T[l][j], v[j])] = [d \in Member |-> ModMul(Pow(d, l - 1), v[d])]
  BY <1>2
<1>7. RandomShares(polys, k)[l] = FieldSum([d \in Member |-> ModMul(Pow(d, l - 1), v[d])], Member)
  BY <1>4, <1>5, <1>6
<1> QED
  BY <1>7 DEF Combination, v

(* A member's random shares are points of polynomials of degree D, one for *)
(* each index, whose value at 0 is the dealers' common value.              *)
LEMMA RandomSharesFit ==
  ASSUME NEW polys \in [Member -> [Deg -> Elem]], NEW l \in RandomIndex
  PROVE  /\ IsPoly([k \in Elem |-> RandomShares(polys, k)[l]], D)
         /\ RandomShares(polys, 0)[l] = Common(polys, l)
         /\ Common(polys, l) \in Elem
<1> DEFINE at(k) == [d \in Member |-> Evaluate(polys[d], k)]
           g == [d \in Member |-> [k \in Elem |-> ModMul(Pow(d, l - 1), Evaluate(polys[d], k))]]
           h == [k \in Elem |-> RandomShares(polys, k)[l]]
<1>1. D \in Nat /\ IsFiniteSet(Member) /\ 0 \in Elem /\ \A d \in Member : polys[d] \in Poly(D)
  BY Committee, Units
<1>2. ASSUME NEW d \in Member PROVE IsPoly(g[d], D)
  <2> DEFINE a == [k \in Elem |-> Evaluate(polys[d], k)]
             b == g[d]
  <2>1. IsPoly(a, D)
    <3>1. \A k \in Elem : a[k] = Evaluate(polys[d], k)
      OBVIOUS
    <3> HIDE DEF a
    <3> QED
      BY <1>1, <3>1 DEF IsPoly
  <2>2. \A k \in Elem : b[k] = ModMul(Pow(d, l - 1), a[k])
    OBVIOUS
  <2>3. Pow(d, l - 1) \in Elem
    <3>1. l - 1 \in Nat /\ d \in Elem
      BY Committee
    <3> QED
      BY <3>1, PowUnfolds
  <2> HIDE DEF a, b
  <2>4. IsPoly(b, D)
    BY <1>1, <2>1, <2>2, <2>3, IsPolyScaled
  <2> QED
    BY <2>4 DEF b
<1>3. ASSUME NEW k \in Elem PROVE h[k] = FieldSum([d \in Member |-> g[d][k]], Member)
  <2>1. [d \in Member |-> g[d][k]] = [d \in Member |-> ModMul(Pow(d, l - 1), at(k)[d])]
    OBVIOUS
  <2>2. h[k] = Combination(at(k), l)
    BY RandomShareIs
  <2> HIDE DEF g, at
  <2> QED
    BY <2>1, <2>2 DEF Combination
<1>4. IsPoly(h, D)
  <2> HIDE DEF g, h
  <2> QED
    BY <1>1, <1>2, <1>3, IsPolySum
<1>5. at(0) = [d \in Member |-> polys[d][0]]
  BY <1>1, EvaluateAtZero
<1>6. RandomShares(polys, 0)[l] = Common(polys, l)
  <2>1. RandomShares(polys, 0)[l] = Combination(at(0), l)
    BY RandomShareIs
  <2> QED
    BY <1>5, <2>1 DEF Common
<1>7. Common(polys, l) \in Elem
  <2> DEFINE v == [d \in Member |-> polys[d][0]]
  <2>1. \A d \in Member : v[d] \in Elem
    BY <1>1, EvaluateAtZero
  <2> HIDE DEF v
  <2>2. Combination(v, l) \in Elem
    BY <2>1, CombinationType
  <2> QED
    BY <2>2 DEF Common, v
<1> QED
  BY <1>4, <1>6, <1>7

-----------------------------------------------------------------------------
(* redistribution.go: the masked values.                                   *)

\* The polynomial that the members of the next committee get shares of.
Fresh(s, polys) == [e \in Deg |-> IF e = 0 THEN s ELSE Common(polys, e)]

LEMMA FreshType ==
  ASSUME NEW s \in Elem, NEW polys \in [Member -> [Deg -> Elem]]
  PROVE  Fresh(s, polys) \in Poly(D) /\ Fresh(s, polys)[0] = s
<1>1. \A e \in Deg : e # 0 => e \in RandomIndex
  BY Committee
<1>2. \A e \in Deg : e # 0 => Common(polys, e) \in Elem
  BY <1>1, RandomSharesFit
<1> QED
  BY <1>2, Committee DEF Fresh

LEMMA IsPolyAdded ==
  ASSUME NEW d \in Nat, NEW f, IsPoly(f, d), NEW g, IsPoly(g, d),
         NEW h, \A x \in Elem : h[x] = ModAdd(f[x], g[x])
  PROVE  IsPoly(h, d)
<1>1. PICK c \in Poly(d) : \A x \in Elem : f[x] = Evaluate(c, x)
  BY DEF IsPoly
<1>2. PICK b \in Poly(d) : \A x \in Elem : g[x] = Evaluate(b, x)
  BY DEF IsPoly
<1> DEFINE a == [i \in 0..d |-> ModAdd(c[i], b[i])]
<1>3. a \in Poly(d) /\ \A x \in Elem : Evaluate(a, x) = ModAdd(Evaluate(c, x), Evaluate(b, x))
  BY EvaluateAdds
<1> HIDE DEF a
<1> QED
  BY <1>1, <1>2, <1>3 DEF IsPoly

\* The masks of member i's value for receiver j, added up.
Mask(polys, i, j) == FieldSum([l \in 1..D |-> ModMul(RandomShares(polys, i)[l], Pow(j, l))], 1..D)

LEMMA MaskedIs ==
  ASSUME NEW polys, NEW i, NEW j, NEW v
  PROVE  RdMaskedOutgoing(v, j, PrefixRGSharesForRD(RandomShares(polys, i))) = ModAdd(v, Mask(polys, i, j))
<1> DEFINE r == PrefixRGSharesForRD(RandomShares(polys, i))
<1>1. DOMAIN r = 1..D /\ \A l \in 1..D : r[l] = RandomShares(polys, i)[l]
  BY DEF PrefixRGSharesForRD
<1> HIDE DEF r
<1>2. [l \in DOMAIN r |-> ModMul(r[l], Pow(j, l))]
        = [l \in 1..D |-> ModMul(RandomShares(polys, i)[l], Pow(j, l))]
  BY <1>1
<1>3. RdMaskedOutgoing(v, j, r) = ModAdd(v, Mask(polys, i, j))
  BY <1>1, <1>2 DEF RdMaskedOutgoing, Mask
<1> QED
  BY <1>3 DEF r

(* What receiver j is sent is on a polynomial of degree D, whose value at  *)
(* 0 is that of the fresh polynomial at j.                                 *)
LEMMA MaskedFits ==
  ASSUME NEW c \in Poly(D), NEW polys \in [Member -> [Deg -> Elem]], NEW j \in Member
  PROVE  /\ IsPoly([i \in Elem |-> ModAdd(Evaluate(c, i), Mask(polys, i, j))], D)
         /\ ModAdd(Evaluate(c, 0), Mask(polys, 0, j)) = Evaluate(Fresh(c[0], polys), j)
<1> DEFINE g == [l \in 1..D |-> [i \in Elem |-> ModMul(Pow(j, l), RandomShares(polys, i)[l])]]
           mask == [i \in Elem |-> Mask(polys, i, j)]
           value == [i \in Elem |-> Evaluate(c, i)]
           h == [i \in Elem |-> ModAdd(Evaluate(c, i), Mask(polys, i, j))]
<1>1. /\ D \in Nat /\ IsFiniteSet(1..D) /\ j \in Elem /\ 0 \in Elem
      /\ \A l \in 1..D : l \in RandomIndex /\ l \in Nat
  <2>1. IsFiniteSet(1..D)
    BY Committee, FS_Interval
  <2> QED
    BY <2>1, Committee, Units
<1>2. \A l \in 1..D : Pow(j, l) \in Elem
  BY <1>1, PowUnfolds
<1>3. ASSUME NEW l \in 1..D, NEW i \in Elem PROVE RandomShares(polys, i)[l] \in Elem
  <2> DEFINE a == [k \in Elem |-> RandomShares(polys, k)[l]]
  <2>1. IsPoly(a, D)
    BY <1>1, RandomSharesFit
  <2>2. a[i] = RandomShares(polys, i)[l]
    OBVIOUS
  <2> HIDE DEF a
  <2>3. a[i] \in Elem
    BY <1>1, <2>1, EvaluateIsSum DEF IsPoly
  <2> QED
    BY <2>2, <2>3
<1>4. ASSUME NEW l \in 1..D PROVE IsPoly(g[l], D)
  <2> DEFINE a == [k \in Elem |-> RandomShares(polys, k)[l]]
             b == g[l]
  <2>1. IsPoly(a, D)
    BY <1>1, RandomSharesFit
  <2>2. \A i \in Elem : b[i] = ModMul(Pow(j, l), a[i])
    OBVIOUS
  <2> HIDE DEF a, b
  <2>3. IsPoly(b, D)
    BY <1>1, <1>2, <2>1, <2>2, IsPolyScaled
  <2> QED
    BY <2>3 DEF b
<1>5. ASSUME NEW i \in Elem PROVE mask[i] = FieldSum([l \in 1..D |-> g[l][i]], 1..D)
  <2>1. \A l \in 1..D : g[l][i] = ModMul(RandomShares(polys, i)[l], Pow(j, l))
    <3>1. ASSUME NEW l \in 1..D
          PROVE  ModMul(Pow(j, l), RandomShares(polys, i)[l]) = ModMul(RandomShares(polys, i)[l], Pow(j, l))
      BY <1>2, <1>3, Commutes
    <3> QED
      BY <3>1
  <2>2. [l \in 1..D |-> g[l][i]] = [l \in 1..D |-> ModMul(RandomShares(polys, i)[l], Pow(j, l))]
    BY <2>1
  <2> HIDE DEF g
  <2> QED
    BY <2>2 DEF Mask
<1>6. IsPoly(mask, D)
  <2> HIDE DEF g, mask
  <2> QED
    BY <1>1, <1>4, <1>5, IsPolySum
<1>7. IsPoly(value, D)
  <2>1. \A x \in Elem : value[x] = Evaluate(c, x)
    OBVIOUS
  <2> HIDE DEF value
  <2> QED
    BY <2>1 DEF IsPoly
<1>8. IsPoly(h, D)
  <2>1. \A x \in Elem : h[x] = ModAdd(value[x], mask[x])
    OBVIOUS
  <2> HIDE DEF h, value, mask
  <2> QED
    BY <1>1, <1>6, <1>7, <2>1, IsPolyAdded
<1>9. ModAdd(Evaluate(c, 0), Mask(polys, 0, j)) = Evaluate(Fresh(c[0], polys), j)
  <2> DEFINE f == Fresh(c[0], polys)
             t == Terms(f, j)
             m == [l \in 1..D |-> ModMul(RandomShares(polys, 0)[l], Pow(j, l))]
  <2>1. Evaluate(c, 0) = c[0] /\ c[0] \in Elem
    BY <1>1, EvaluateAtZero
  <2>2. f \in Poly(D) /\ f[0] = c[0] /\ \A l \in 1..D : f[l] = Common(polys, l)
    <3>1. \A l \in 1..D : l \in Deg /\ l # 0
      BY Committee
    <3> QED
      BY <2>1, <3>1, FreshType DEF Fresh
  <2>3. IsFiniteSet(0..D) /\ 0 \in 0..D /\ (0..D) \ {0} = 1..D
    <3>1. IsFiniteSet(0..D)
      BY <1>1, FS_Interval
    <3>2. 0 \in 0..D /\ (0..D) \ {0} = 1..D
      BY <1>1
    <3> QED
      BY <3>1, <3>2
  <2> HIDE DEF f
  <2>4. /\ \A e \in 0..D : t[e] \in Elem /\ t[e] = ModMul(f[e], Pow(j, e))
        /\ Evaluate(f, j) = FieldSum(t, 0..D)
    BY <1>1, <2>2, TermsType, EvaluateIsSum
  <2>5. \A l \in 1..D : m[l] \in Elem /\ t[l] = m[l] /\ t[l] \in Elem
    <3>1. \A l \in 1..D : RandomShares(polys, 0)[l] = Common(polys, l)
      BY <1>1, RandomSharesFit
    <3>2. \A l \in 1..D : l \in 0..D
      OBVIOUS
    <3> HIDE DEF t
    <3> QED
      BY <2>2, <2>4, <3>1, <3>2
  <2> HIDE DEF t, m
  <2>6. FieldSum(t, 0..D) = ModAdd(t[0], FieldSum(t, 1..D))
    <3> DEFINE U == 0..D
    <3>1. IsFiniteSet(U) /\ 0 \in U /\ \A e \in U : t[e] \in Elem
      BY <2>3, <2>4
    <3> HIDE DEF U
    <3>2. FieldSum(t, U) = ModAdd(t[0], FieldSum(t, U \ {0}))
      BY <3>1, SumStep
    <3> QED
      BY <2>3, <3>2 DEF U
  <2>7. FieldSum(m, 1..D) = FieldSum(t, 1..D)
    BY <1>1, <2>5, SumEqual
  <2>8. t[0] = c[0]
    <3>1. Pow(j, 0) = 1
      BY <1>1, PowUnfolds
    <3>2. t[0] = ModMul(c[0], 1)
      BY <2>2, <2>3, <2>4, <3>1
    <3> QED
      BY <2>1, <3>2, MulOne
  <2>9. Mask(polys, 0, j) = FieldSum(m, 1..D)
    BY DEF Mask, m
  <2> QED
    BY <2>1, <2>4, <2>6, <2>7, <2>8, <2>9 DEF f
<1> QED
  BY <1>8, <1>9

-----------------------------------------------------------------------------
(* What a receiver reconstructs.                                           *)

Sends(m) == [i \in Member |-> <<i, m[i]>>]

LEMMA ReconstructIs ==
  ASSUME NEW m \in [Member -> Elem]
  PROVE  /\ ReceiverReconstructShare[m] = Decode(Sends(m), D, FALSE)
         /\ Sends(m) \in Points(N) /\ Len(Sends(m)) = N
         /\ \A c : Agreeing(Sends(m), c) = {i \in Member : m[i] = Evaluate(c, i)}
<1> DEFINE p == Sends(m)
<1>1. p \in [1..N -> Elem \X Elem] /\ DOMAIN p = 1..N
      /\ \A i \in Member : p[i][1] = i /\ p[i][2] = m[i] /\ i \in Elem /\ m[i] \in Elem
  BY Committee DEF Sends
<1>2. p \in Points(N)
  BY <1>1, Committee DEF Points
<1>3. Len(p) = N
  <2> HIDE DEF p
  <2> QED
    BY <1>1, Committee
<1>4. [k \in DOMAIN p |-> <<p[k][1] % P, p[k][2] % P>>] = p
  <2>1. \A k \in Member : p[k][1] % P = k /\ p[k][2] % P = m[k]
    BY <1>1, ModSmall
  <2>2. DOMAIN p = Member
    BY DEF Sends
  <2>3. [k \in DOMAIN p |-> <<p[k][1] % P, p[k][2] % P>>] = [k \in Member |-> <<k, m[k]>>]
    BY <2>1, <2>2
  <2> QED
    BY <2>3 DEF Sends
<1>5. ReceiverReconstructShare[m] = ReconstructPolynomialValueAtZero(p, D)
  BY DEF ReceiverReconstructShare, Tabulated, Sends
<1>6. ~(N <= D)
  BY Committee
<1>7. ReceiverReconstructShare[m] = Decode(p, D, FALSE)
  <2> HIDE DEF p
  <2> QED
    BY <1>3, <1>4, <1>5, <1>6 DEF ReconstructPolynomialValueAtZero
<1>8. \A c : Agreeing(p, c) = {i \in Member : m[i] = Evaluate(c, i)}
  BY <1>1, Committee DEF Agreeing
<1> QED
  BY <1>2, <1>3, <1>7, <1>8

(* The value of the polynomial that N - D of the senders have sent a point *)
(* of, whatever the others have sent.                                      *)
LEMMA ReconstructSound ==
  ASSUME NEW m \in [Member -> Elem], NEW c \in Poly(D), NEW liars \in SUBSET Member,
         Cardinality(liars) <= D, \A i \in Member \ liars : m[i] = Evaluate(c, i),
         NEW v \in ReceiverReconstructShare[m]
  PROVE  v = c[0]
<1> DEFINE p == Sends(m)
           A == Agreeing(p, c)
           H == Member \ liars
<1>1. D \in Nat /\ N \in Nat /\ N >= 3 * D + 1 /\ IsFiniteSet(Member) /\ Cardinality(Member) = N
  BY Committee
<1>2. v \in Decode(p, D, FALSE) /\ p \in Points(N) /\ A = {i \in Member : m[i] = Evaluate(c, i)}
  BY ReconstructIs
<1>3. H \in SUBSET A /\ A \in SUBSET Member
  BY <1>2
<1>4. IsFiniteSet(A) /\ IsFiniteSet(H) /\ IsFiniteSet(liars)
  <2>1. H \in SUBSET Member
    OBVIOUS
  <2> HIDE DEF A, H
  <2> QED
    BY <1>1, <1>3, <2>1, FS_Subset
<1>5. Cardinality(H) = N - Cardinality(liars) /\ Cardinality(liars) \in Nat
  <2>1. Member \cap liars = liars
    OBVIOUS
  <2>2. Cardinality(H) = Cardinality(Member) - Cardinality(Member \cap liars)
    BY <1>1, FS_Difference
  <2> QED
    BY <1>1, <1>4, <2>1, <2>2, FS_CardinalityType
<1>6. Cardinality(H) <= Cardinality(A) /\ Cardinality(A) \in Nat /\ Cardinality(H) \in Nat
  <2> HIDE DEF A, H
  <2> QED
    BY <1>3, <1>4, FS_Subset, FS_CardinalityType
<1> HIDE DEF A, H, p
<1>7. Cardinality(A) > D /\ 2 * Cardinality(A) >= N + D
  BY <1>1, <1>5, <1>6
<1>8. FALSE \in BOOLEAN
  OBVIOUS
<1> QED
  BY <1>1, <1>2, <1>7, <1>8, DecodeSound DEF A

-----------------------------------------------------------------------------
(* The invariant: the shares are on a polynomial, and what this epoch has  *)
(* made so far follows from it and from what the dealers have shared.      *)
Holds(c) == c \in Poly(D) /\ c[0] = secret /\ share = [i \in Member |-> Evaluate(c, i)]

EpochInv ==
  /\ \E c \in Poly(D) : Holds(c)
  /\ rg # <<>> => /\ dealt \in [Member -> [Deg -> Elem]]
                  /\ rg = [k \in Member |-> RandomShares(dealt, k)]
  /\ out # <<>> => /\ rg # <<>>
                   /\ out = [i \in Member |-> [j \in Member |->
                              RdMaskedOutgoing(share[i], j, PrefixRGSharesForRD(rg[i]))]]
  /\ DOMAIN next \subseteq Member
  /\ DOMAIN next # {} => out # <<>>
  /\ \A j \in DOMAIN next : next[j] = Evaluate(Fresh(secret, dealt), j)
  /\ \E S : next = [j \in S |-> next[j]]

\* What a receiver gets and makes of it.
LEMMA ReceivedIsFresh ==
  ASSUME EpochInv, out # <<>>, NEW j \in Member, NEW m \in Sent(j), NEW v \in ReceiverReconstructShare[m]
  PROVE  v = Evaluate(Fresh(secret, dealt), j)
<1>1. PICK liars \in SUBSET Member, lie \in LieValues :
        Cardinality(liars) <= D /\ m = [i \in Member |-> IF i \in liars THEN lie ELSE out[i][j]]
  BY DEF Sent
<1>2. PICK c \in Poly(D) : Holds(c)
  BY DEF EpochInv
<1>3. /\ rg # <<>> /\ dealt \in [Member -> [Deg -> Elem]]
      /\ rg = [k \in Member |-> RandomShares(dealt, k)]
      /\ out = [i \in Member |-> [l \in Member |->
                  RdMaskedOutgoing(share[i], l, PrefixRGSharesForRD(rg[i]))]]
  BY DEF EpochInv
<1> DEFINE h == [i \in Elem |-> ModAdd(Evaluate(c, i), Mask(dealt, i, j))]
<1>4. IsPoly(h, D) /\ h[0] = Evaluate(Fresh(secret, dealt), j)
  <2>1. 0 \in Elem /\ c[0] = secret
    BY <1>2, Units DEF Holds
  <2> QED
    BY <1>3, <2>1, MaskedFits
<1>5. ASSUME NEW i \in Member PROVE out[i][j] = h[i] /\ h[i] \in Elem
  <2>1. i \in Elem /\ share[i] = Evaluate(c, i) /\ rg[i] = RandomShares(dealt, i)
    BY <1>2, <1>3, Committee DEF Holds
  <2>2. out[i][j] = RdMaskedOutgoing(Evaluate(c, i), j, PrefixRGSharesForRD(RandomShares(dealt, i)))
    BY <1>3, <2>1
  <2>3. out[i][j] = h[i]
    BY <2>1, <2>2, MaskedIs
  <2> HIDE DEF h
  <2>4. h[i] \in Elem
    BY <1>4, <2>1, Committee, EvaluateIsSum DEF IsPoly
  <2> QED
    BY <2>3, <2>4
<1> HIDE DEF h
<1>6. PICK b \in Poly(D) : \A x \in Elem : h[x] = Evaluate(b, x)
  BY <1>4 DEF IsPoly
<1>7. m \in [Member -> Elem]
  BY <1>1, <1>5, DealerAssumption
<1>8. \A i \in Member \ liars : m[i] = Evaluate(b, i)
  BY <1>1, <1>5, <1>6, Committee
<1>9. v = b[0]
  BY <1>1, <1>7, <1>8, ReconstructSound
<1>10. h[0] = b[0]
  BY <1>6, Committee, Units, EvaluateAtZero
<1> QED
  BY <1>4, <1>9, <1>10

(* EpochInv holds throughout any number of epochs of fdpss.                *)
THEOREM EpochInvariant == Spec => []EpochInv
<1>1. Init => EpochInv
  <2> SUFFICES ASSUME Init PROVE EpochInv
    OBVIOUS
  <2>1. PICK c \in [Deg -> Elem] : secret = c[0] /\ share = [i \in Member |-> Evaluate(c, i)]
    BY DEF Init
  <2>2. Holds(c)
    BY <2>1, Committee DEF Holds
  <2>3. c \in Poly(D)
    BY Committee
  <2>4. DOMAIN next = {} /\ next = [j \in {} |-> next[j]]
    BY DEF Init
  <2> QED
    BY <2>2, <2>3, <2>4 DEF Init, EpochInv
<1>2. EpochInv /\ [Next]_vars => EpochInv'
  <2> SUFFICES ASSUME EpochInv, [Next]_vars PROVE EpochInv'
    OBVIOUS
  <2>1. CASE Generate
    <3>1. UNCHANGED <<secret, share, out, next>> /\ rg = <<>>
      BY <2>1 DEF Generate
    <3>2. out = <<>> /\ DOMAIN next = {}
      BY <3>1 DEF EpochInv
    <3>3. dealt' \in [Member -> [Deg -> Elem]] /\ rg' = [k \in Member |-> RandomShares(dealt', k)]
      BY <2>1, DealerAssumption DEF Generate
    <3> QED
      BY <3>1, <3>2, <3>3 DEF EpochInv, Holds
  <2>2. CASE ComputeMaskedOutgoingsToAllReceivers
    <3>1. UNCHANGED <<secret, share, dealt, rg, next>> /\ rg # <<>> /\ out = <<>>
          /\ out' = [i \in Member |-> [j \in Member |->
                       RdMaskedOutgoing(share[i], j, PrefixRGSharesForRD(rg[i]))]]
      BY <2>2 DEF ComputeMaskedOutgoingsToAllReceivers
    <3>2. DOMAIN next = {}
      BY <3>1 DEF EpochInv
    <3> QED
      BY <3>1, <3>2 DEF EpochInv, Holds
  <2>3. ASSUME NEW j \in Member, Receive(j) PROVE EpochInv'
    <3>1. UNCHANGED <<secret, share, dealt, rg, out>> /\ out # <<>> /\ j \notin DOMAIN next
      BY <2>3 DEF Receive
    <3>2. PICK m \in Sent(j) : \E v \in ReceiverReconstructShare[m] :
            next' = [i \in DOMAIN next \cup {j} |-> IF i = j THEN v ELSE next[i]]
      BY <2>3 DEF Receive
    <3>3. PICK v \in ReceiverReconstructShare[m] :
            next' = [i \in DOMAIN next \cup {j} |-> IF i = j THEN v ELSE next[i]]
      BY <3>2
    <3>4. v = Evaluate(Fresh(secret, dealt), j)
      BY <3>1, ReceivedIsFresh
    <3>5. DOMAIN next' = DOMAIN next \cup {j} /\ DOMAIN next \subseteq Member
      BY <3>3 DEF EpochInv
    <3>6. \A i \in DOMAIN next' : next'[i] = Evaluate(Fresh(secret, dealt), i)
      BY <3>3, <3>4 DEF EpochInv
    <3>7. next' = [i \in DOMAIN next' |-> next'[i]]
      BY <3>3
    <3>8. Fresh(secret', dealt') = Fresh(secret, dealt)
      BY <3>1
    <3>9. (\E c \in Poly(D) : Holds(c))' /\ \E S : next' = [i \in S |-> next'[i]]
      <4>1. PICK c \in Poly(D) : Holds(c)
        BY DEF EpochInv
      <4>2. Holds(c)'
        BY <3>1, <4>1 DEF Holds
      <4> QED
        BY <3>7, <4>2
    <3>10. DOMAIN next' \subseteq Member /\ \A i \in DOMAIN next' : next'[i] = Evaluate(Fresh(secret', dealt'), i)
      BY <3>5, <3>6, <3>8
    <3> QED
      BY <3>1, <3>9, <3>10 DEF EpochInv
  <2>4. CASE HandOver
    <3>1. DOMAIN next = Member /\ share' = next /\ secret' = secret
          /\ rg' = <<>> /\ out' = <<>> /\ next' = <<>>
      BY <2>4 DEF HandOver
    <3>2. out # <<>> /\ rg # <<>> /\ dealt \in [Member -> [Deg -> Elem]]
      <4>1. 1 \in Member
        <5>1. 1 \in 1..N
          BY CommitteeAssumption
        <5> QED
          BY <5>1 DEF Member
      <4> QED
        BY <3>1, <4>1 DEF EpochInv
    <3> DEFINE c == Fresh(secret, dealt)
    <3>3. c \in Poly(D) /\ c[0] = secret
      <4>1. PICK b \in Poly(D) : Holds(b)
        BY DEF EpochInv
      <4>2. secret \in Elem
        BY <4>1, Committee, EvaluateAtZero DEF Holds
      <4> QED
        BY <3>2, <4>2, FreshType
    <3>4. share' = [i \in Member |-> Evaluate(c, i)]
      <4>1. \A i \in Member : next[i] = Evaluate(c, i)
        BY <3>1 DEF EpochInv
      <4>2. next = [i \in Member |-> next[i]]
        BY <3>1 DEF EpochInv
      <4> HIDE DEF c
      <4> QED
        BY <3>1, <4>1, <4>2
    <3> HIDE DEF c
    <3>5. \E b \in Poly(D) : b \in Poly(D) /\ b[0] = secret' /\ share' = [i \in Member |-> Evaluate(b, i)]
      BY <3>1, <3>3, <3>4
    <3>6. DOMAIN next' = {} /\ next' = [j \in {} |-> next'[j]]
      BY <3>1
    <3> QED
      BY <3>1, <3>5, <3>6 DEF EpochInv, Holds
  <2>5. CASE UNCHANGED vars
    BY <2>5 DEF vars, EpochInv, Holds, Fresh, Common
  <2> QED
    BY <2>1, <2>2, <2>3, <2>4, <2>5 DEF Next
<1> QED
  BY <1>1, <1>2, PTL DEF Spec

(* Every committee of every epoch holds shares of the first secret,        *)
(* whatever D senders of each have sent, in every field.                   *)
THEOREM SecretKeptHolds == Spec => []SecretKept
<1>1. EpochInv => SecretKept
  <2> SUFFICES ASSUME EpochInv PROVE SecretKept
    OBVIOUS
  <2>1. PICK c \in Poly(D) : Holds(c)
    BY DEF EpochInv
  <2>2. c \in [Deg -> Elem] /\ c[0] = secret /\ OnPolynomial(c, share)
    BY <2>1, Committee DEF Holds, OnPolynomial
  <2> QED
    BY <2>2 DEF SecretKept
<1> QED
  BY <1>1, EpochInvariant, PTL

-----------------------------------------------------------------------------
(* The generated values are what the shares reconstruct.                   *)

LEMMA GeneratedIs ==
  ASSUME EpochInv, rg # <<>>, NEW l \in RandomIndex
  PROVE  Generated(l) = Common(dealt, l) /\ Common(dealt, l) \in Elem
<1> DEFINE m == [k \in Member |-> rg[k][l]]
           h == [k \in Elem |-> RandomShares(dealt, k)[l]]
<1>1. dealt \in [Member -> [Deg -> Elem]] /\ rg = [k \in Member |-> RandomShares(dealt, k)]
  BY DEF EpochInv
<1>2. /\ D \in Nat /\ N \in Nat /\ D < N /\ 0 \in Elem
      /\ Member \subseteq Elem /\ Member = 1..N
  BY Committee, Units
<1>3. IsPoly(h, D) /\ h[0] = Common(dealt, l) /\ Common(dealt, l) \in Elem
  BY <1>1, <1>2, RandomSharesFit
<1>4. \A k \in Member : m[k] = h[k]
  BY <1>1, <1>2
<1> HIDE DEF h
<1>5. PICK c \in Poly(D) : \A x \in Elem : h[x] = Evaluate(c, x)
  BY <1>3 DEF IsPoly
<1>6. m \in [Member -> Elem]
  <2>1. \A k \in Member : Evaluate(c, k) \in Elem
    BY <1>2, EvaluateIsSum
  <2> QED
    BY <1>2, <1>4, <1>5, <2>1
<1>7. \A k \in Member : m[k] = Evaluate(c, k)
  BY <1>2, <1>4, <1>5
<1> HIDE DEF m
<1>8. Sends(m) \in Points(N) /\ \A k \in 1..N : Sends(m)[k][2] = Evaluate(c, Sends(m)[k][1])
  <2>1. Sends(m) \in Points(N)
    BY <1>6, ReconstructIs
  <2>2. \A k \in Member : Sends(m)[k] = <<k, m[k]>>
    BY DEF Sends
  <2> QED
    BY <1>2, <1>7, <2>1, <2>2
<1>9. Decode(Sends(m), D, FALSE) = {c[0]}
  <2> DEFINE p == Sends(m)
             n == N
             e == D
             strict == FALSE
  <2>0. strict \in BOOLEAN /\ ~strict
    OBVIOUS
  <2>1. n \in Nat /\ e \in Nat /\ e < n /\ c \in Poly(e) /\ p \in Points(n)
    BY <1>2, <1>8
  <2>2. \A k \in 1..n : p[k][2] = Evaluate(c, p[k][1])
    BY <1>8
  <2> HIDE DEF p, n, e, strict
  <2>3. Decode(p, e, strict) = {c[0]}
    BY <2>1, <2>2, <2>0, DecodeCodeword
  <2> QED
    BY <2>3 DEF p, e, strict
<1>10. ReceiverReconstructShare[m] = {c[0]}
  BY <1>6, <1>9, ReconstructIs
<1>11. h[0] = c[0]
  BY <1>2, <1>5, EvaluateAtZero
<1>12. Generated(l) = CHOOSE v \in Elem : v \in {c[0]}
  BY <1>10 DEF Generated, m
<1> QED
  BY <1>3, <1>11, <1>12

(* The new shares are on the polynomial whose coefficients are the old     *)
(* secret and the generated values.                                        *)
THEOREM RefreshedHolds == Spec => []Refreshed
<1>1. EpochInv => Refreshed
  <2> SUFFICES ASSUME EpochInv, rg # <<>>
               PROVE  OnPolynomial([e \in Deg |-> IF e = 0 THEN secret ELSE Generated(e)], next)
    BY DEF Refreshed
  <2>1. \A e \in Deg : e # 0 => e \in RandomIndex
    BY Committee
  <2>2. \A e \in Deg : e # 0 => Generated(e) = Common(dealt, e)
    BY <2>1, GeneratedIs
  <2>3. [e \in Deg |-> IF e = 0 THEN secret ELSE Generated(e)] = Fresh(secret, dealt)
    BY <2>2 DEF Fresh
  <2>4. \A j \in DOMAIN next : next[j] = Evaluate(Fresh(secret, dealt), j)
    BY DEF EpochInv
  <2> QED
    BY <2>3, <2>4 DEF OnPolynomial
<1> QED
  BY <1>1, EpochInvariant, PTL

-----------------------------------------------------------------------------
(* Combinations of the values are combinations of the random values: when  *)
(* the first k + 1 of these are zero, so is what any polynomial of degree  *)
(* k makes of the values.                                                  *)
LEMMA CombinationsSpan ==
  ASSUME NEW v, \A d \in Member : v[d] \in Elem, NEW k \in Nat,
         \A l \in 1..(k + 1) : Combination(v, l) = 0, NEW f \in Poly(k)
  PROVE  FieldSum([d \in Member |-> ModMul(v[d], Evaluate(f, d))], Member) = 0
<1> DEFINE part(i) == [d \in Member |-> ModMul(v[d], FieldSum(Terms(f, d), 0..i))]
           one(i) == [d \in Member |-> ModMul(Pow(d, i), v[d])]
           term(i) == [d \in Member |-> ModMul(f[i], one(i)[d])]
           V == {i \in 0..k : FieldSum(part(i), Member) = 0}
<1>1. IsFiniteSet(Member) /\ Member \subseteq Elem /\ 0 \in Elem
  BY Committee, Units
<1>2. ASSUME NEW i \in 0..k, NEW d \in Member
      PROVE  /\ f[i] \in Elem /\ Pow(d, i) \in Elem /\ v[d] \in Elem /\ i \in Nat
             /\ one(i)[d] \in Elem /\ term(i)[d] \in Elem
             /\ Terms(f, d)[i] = ModMul(f[i], Pow(d, i)) /\ Terms(f, d)[i] \in Elem
             /\ ModMul(v[d], Terms(f, d)[i]) = term(i)[d]
  <2>1. d \in Elem
    BY <1>1
  <2>2. /\ i \in Nat /\ f[i] \in Elem /\ Pow(d, i) \in Elem
        /\ Terms(f, d)[i] = ModMul(f[i], Pow(d, i)) /\ Terms(f, d)[i] \in Elem
    BY <2>1, TermsType
  <2>3. v[d] \in Elem
    OBVIOUS
  <2>4. one(i)[d] \in Elem /\ term(i)[d] \in Elem
    BY <2>2, <2>3, Ops
  <2>5. ModMul(v[d], ModMul(f[i], Pow(d, i))) = ModMul(f[i], ModMul(Pow(d, i), v[d]))
    <3> DEFINE a == v[d]
               b == f[i]
               p == Pow(d, i)
    <3>1. a \in Elem /\ b \in Elem /\ p \in Elem
      BY <2>2, <2>3
    <3> HIDE DEF a, b, p
    <3>2. ModMul(b, p) \in Elem
      BY <3>1, Ops
    <3>3. ModMul(a, ModMul(b, p)) = ModMul(ModMul(b, p), a)
      BY <3>1, <3>2, Commutes
    <3>4. ModMul(ModMul(b, p), a) = ModMul(b, ModMul(p, a))
      BY <3>1, MulAssociates
    <3> QED
      BY <3>3, <3>4 DEF a, b, p
  <2> QED
    BY <2>2, <2>3, <2>4, <2>5
<1>3. ASSUME NEW i \in 0..k PROVE FieldSum(term(i), Member) = 0
  <2>1. Combination(v, i + 1) = 0 /\ (i + 1) - 1 = i
    BY <1>2
  <2>2. FieldSum(one(i), Member) = 0
    BY <2>1 DEF Combination
  <2>3. f[i] \in Elem /\ \A d \in Member : one(i)[d] \in Elem /\ term(i)[d] = ModMul(f[i], one(i)[d])
    BY <1>2, TermsType, <1>1
  <2> DEFINE o == one(i)
             t == term(i)
  <2>4. f[i] \in Elem /\ FieldSum(o, Member) = 0
        /\ \A d \in Member : o[d] \in Elem /\ t[d] = ModMul(f[i], o[d])
    BY <2>2, <2>3
  <2> HIDE DEF o, t
  <2>5. FieldSum(t, Member) = ModMul(f[i], FieldSum(o, Member))
    BY <1>1, <2>4, SumScales
  <2>6. FieldSum(t, Member) = 0
    BY <2>4, <2>5, MulOne
  <2> QED
    BY <2>6 DEF t
<1>4. ASSUME NEW d \in Member
      PROVE  /\ FieldSum(Terms(f, d), 0..0) = Terms(f, d)[0]
             /\ \A i \in 0..k : FieldSum(Terms(f, d), 0..i) \in Elem
             /\ \A i \in 0..(k - 1) : FieldSum(Terms(f, d), 0..(i + 1))
                  = ModAdd(Terms(f, d)[i + 1], FieldSum(Terms(f, d), 0..i))
  <2> DEFINE t == Terms(f, d)
  <2>1. d \in Elem /\ \A i \in 0..k : t[i] \in Elem /\ t[i] = ModMul(f[i], Pow(d, i))
    BY <1>1, <1>2
  <2>2. \A i \in 0..k : FieldSum(t, 0..i) \in Elem
    <3>1. ASSUME NEW i \in 0..k PROVE FieldSum(t, 0..i) \in Elem
      <4>1. IsFiniteSet(0..i)
        BY FS_Interval
      <4>2. \A e \in 0..i : e \in 0..k
        OBVIOUS
      <4> HIDE DEF t
      <4> QED
        BY <2>1, <4>1, <4>2, SumUnfolds
    <3> QED
      BY <3>1
  <2>3. FieldSum(t, 0..0) = t[0]
    <3> DEFINE U == 0..0
    <3>1. IsFiniteSet(U) /\ 0 \in U /\ U \ {0} = {} /\ IsFiniteSet({})
      BY UpTo
    <3>2. \A e \in U : t[e] \in Elem
      BY <2>1
    <3>3. t[0] \in Elem
      BY <2>1
    <3> HIDE DEF t, U
    <3>4. FieldSum(t, U) = ModAdd(t[0], FieldSum(t, U \ {0}))
      BY <3>1, <3>2, SumStep
    <3>5. FieldSum(t, {}) = 0
      BY <3>1, SumUnfolds
    <3>6. FieldSum(t, U) = t[0]
      BY <3>1, <3>3, <3>4, <3>5, AddZero
    <3> QED
      BY <3>6 DEF U
  <2>4. ASSUME NEW i \in 0..(k - 1)
        PROVE  FieldSum(t, 0..(i + 1)) = ModAdd(t[i + 1], FieldSum(t, 0..i))
    <3>1. i \in Nat /\ i + 1 <= k /\ i + 1 \in 0..k
      OBVIOUS
    <3>2. FieldSum(t, 0..(i + 1)) = ModAdd(ModMul(f[i + 1], Pow(d, i + 1)), FieldSum(t, 0..i))
      BY <2>1, <3>1, SumTop
    <3> QED
      BY <2>1, <3>1, <3>2
  <2> QED
    BY <2>2, <2>3, <2>4
<1>5. 0 \in V
  <2>1. 0 \in 0..k
    OBVIOUS
  <2>2. part(0) = term(0)
    BY <1>2, <1>4, <2>1
  <2> QED
    BY <1>3, <2>1, <2>2
<1>6. ASSUME NEW i \in 0..(k - 1), i \in V PROVE i + 1 \in V
  <2>1. i \in 0..k /\ i + 1 \in 0..k
    OBVIOUS
  <2>2. ASSUME NEW d \in Member
        PROVE  /\ part(i)[d] \in Elem /\ term(i + 1)[d] \in Elem
               /\ part(i + 1)[d] = ModAdd(term(i + 1)[d], part(i)[d])
    <3> DEFINE s == FieldSum(Terms(f, d), 0..i)
               t == Terms(f, d)[i + 1]
    <3>1. s \in Elem /\ t \in Elem /\ v[d] \in Elem /\ ModMul(v[d], t) = term(i + 1)[d]
          /\ term(i + 1)[d] \in Elem
      BY <1>2, <1>4, <2>1
    <3> DEFINE w == v[d]
               u == term(i + 1)[d]
               a == part(i)[d]
               b == part(i + 1)[d]
    <3>2. b = ModMul(w, ModAdd(t, s)) /\ a = ModMul(w, s)
      BY <1>4
    <3>3. w \in Elem /\ u = ModMul(w, t) /\ u \in Elem
      BY <3>1
    <3> HIDE DEF s, t, w, u, a, b
    <3>4. ModMul(w, s) \in Elem /\ ModMul(w, ModAdd(t, s)) = ModAdd(ModMul(w, t), ModMul(w, s))
      BY <3>1, <3>3, Distributes, Ops
    <3>5. a \in Elem /\ u \in Elem /\ b = ModAdd(u, a)
      BY <3>2, <3>3, <3>4
    <3> QED
      BY <3>5 DEF u, a, b
  <2> DEFINE a == part(i)
             b == term(i + 1)
             c == part(i + 1)
  <2>3. FieldSum(a, Member) = 0 /\ FieldSum(b, Member) = 0
    BY <1>3, <1>6, <2>1
  <2>4. \A d \in Member : a[d] \in Elem /\ b[d] \in Elem /\ c[d] = ModAdd(b[d], a[d])
    BY <2>2
  <2> HIDE DEF a, b, c
  <2>5. FieldSum(c, Member) = ModAdd(FieldSum(b, Member), FieldSum(a, Member))
    BY <1>1, <2>4, SumAdds
  <2>6. FieldSum(c, Member) = 0
    BY <1>1, <2>3, <2>5, AddZero
  <2> QED
    BY <2>1, <2>6 DEF c
<1>7. k \in V
  <2>1. k \in 0..k
    OBVIOUS
  <2> HIDE DEF V
  <2> QED
    BY <1>5, <1>6, <2>1, InductTo
<1>8. \A d \in Member : FieldSum(Terms(f, d), 0..k) = Evaluate(f, d)
  BY <1>1, EvaluateIsSum
<1>9. part(k) = [d \in Member |-> ModMul(v[d], Evaluate(f, d))]
  BY <1>8
<1> QED
  BY <1>7, <1>9
-----------------------------------------------------------------------------
(* At most N - D values that are not all zero have a combination that is   *)
(* not: a product of factors that vanishes at all but one of their dealers *)
(* would leave that dealer's value alone in a sum that is zero.            *)
LEMMA NotAllZero ==
  ASSUME NEW v, \A d \in Member : v[d] \in Elem, NEW S, S = {d \in Member : v[d] # 0},
         Cardinality(S) \in 1..(N - D)
  PROVE  \E l \in RandomIndex : Combination(v, l) # 0
<1> SUFFICES ASSUME \A l \in RandomIndex : Combination(v, l) = 0 PROVE FALSE
  OBVIOUS
<1>1. /\ IsFiniteSet(Member) /\ Member \subseteq Elem /\ 0 \in Elem /\ D \in Nat /\ N \in Nat
      /\ RandomIndex = 1..(N - D)
  BY Committee, Units
<1>2. S \subseteq Member /\ IsFiniteSet(S) /\ Cardinality(S) \in Nat
  BY <1>1, FS_Subset, FS_CardinalityType
<1>3. PICK d0 \in S : TRUE
  BY <1>2, FS_EmptySet
<1> DEFINE R == S \ {d0}
           k == Cardinality(R)
           xs == [j \in Member |-> j]
           h == [z \in Elem |-> FieldProduct(Factors(Member, xs, z), R)]
<1>4. IsFiniteSet(R) /\ k = Cardinality(S) - 1
  BY <1>2, <1>3, FS_RemoveElement
<1>5. k \in Nat /\ 1..(k + 1) \subseteq RandomIndex
  <2> DEFINE s == Cardinality(S)
             r == N - D
  <2>1. s \in 1..r /\ k = s - 1 /\ RandomIndex = 1..r /\ r \in Int /\ s \in Nat
    BY <1>1, <1>2, <1>4
  <2> HIDE DEF s, r, k
  <2>2. k \in Nat /\ k + 1 = s /\ s <= r
    BY <2>1
  <2>3. 1..s \subseteq 1..r
    BY <2>1, <2>2
  <2> QED
    BY <2>1, <2>2, <2>3
<1>6. IsPoly(h, k)
  <2>1. R \in SUBSET Member /\ \A j \in Member : xs[j] \in Elem
    BY <1>1, <1>2
  <2>2. \A z \in Elem : h[z] = FieldProduct(Factors(Member, xs, z), R)
    OBVIOUS
  <2> HIDE DEF h, xs, R
  <2> QED
    BY <1>4, <2>1, <2>2, IsPolyProduct
<1>7. PICK f \in Poly(k) : \A x \in Elem : h[x] = Evaluate(f, x)
  BY <1>6 DEF IsPoly
<1> DEFINE g == [d \in Member |-> ModMul(v[d], Evaluate(f, d))]
<1>8. FieldSum(g, Member) = 0
  <2>1. \A l \in 1..(k + 1) : Combination(v, l) = 0
    BY <1>5
  <2> HIDE DEF k
  <2> QED
    BY <1>5, <2>1, CombinationsSpan
<1>9. ASSUME NEW d \in Member
      PROVE  /\ d \in Elem /\ h[d] = Evaluate(f, d)
             /\ \A j \in R : Factors(Member, xs, d)[j] = ModSub(j, d) /\ ModSub(j, d) \in Elem
  <2>1. d \in Elem
    BY <1>1
  <2>2. \A j \in R : Factors(Member, xs, d)[j] = ModSub(j, d) /\ j \in Elem
    BY <1>1, <1>2 DEF Factors
  <2> HIDE DEF h, xs, R
  <2> QED
    BY <1>7, <2>1, <2>2, Ops
<1>10. ASSUME NEW d \in Member, d # d0 PROVE g[d] = 0
  <2>1. g[d] = ModMul(v[d], Evaluate(f, d)) /\ v[d] \in Elem
    OBVIOUS
  <2>2. CASE d \in R
    <3> DEFINE q == Factors(Member, xs, d)
    <3>1. ModSub(d, d) = 0
      <4>1. d \in Elem /\ d \in Int /\ d - d = 0 /\ 0 \in Elem
        <5>1. d \in Elem
          BY <1>9
        <5>2. d \in Int /\ 0 \in Elem
          BY <5>1, Units
        <5> QED
          BY <5>1, <5>2
      <4> QED
        BY <4>1, Ops, ModSmall
    <3>2. q[d] = 0 /\ \A j \in R : q[j] \in Elem
      BY <1>9, <2>2, <3>1
    <3>3. h[d] = FieldProduct(q, R)
      BY <1>9
    <3> HIDE DEF q, R, h
    <3>4. h[d] = 0
      BY <1>4, <2>2, <3>2, <3>3, ProductZero
    <3> HIDE DEF g
    <3> QED
      BY <1>9, <2>1, <3>4, MulOne
  <2>3. CASE d \notin R
    <3>1. v[d] = 0
      BY <1>10, <2>3
    <3>2. Evaluate(f, d) \in Elem
      BY <1>5, <1>9, EvaluateIsSum
    <3> HIDE DEF g
    <3> QED
      BY <2>1, <3>1, <3>2, MulOne
  <2> QED
    BY <2>2, <2>3
<1>11. d0 \in Member /\ v[d0] \in Elem /\ v[d0] # 0
  BY <1>3
<1>12. h[d0] \in Elem \ {0}
  <2> DEFINE q == Factors(Member, xs, d0)
  <2>1. ASSUME NEW j \in R PROVE q[j] \in Elem \ {0}
    <3>1. j \in Elem /\ d0 \in Elem /\ j # d0
      BY <1>1, <1>2, <1>11
    <3>2. q[j] = ModSub(j, d0) /\ q[j] \in Elem
      BY <1>9, <1>11
    <3> HIDE DEF q
    <3> QED
      BY <3>1, <3>2, DifferenceZero
  <2>2. h[d0] = FieldProduct(q, R)
    BY <1>9, <1>11
  <2> HIDE DEF q, R, h
  <2> QED
    BY <1>4, <2>1, <2>2, ProductNotZero
<1>13. g[d0] = ModMul(v[d0], h[d0]) /\ g[d0] \in Elem
  <2>1. g[d0] = ModMul(v[d0], Evaluate(f, d0))
    BY <1>11
  <2> HIDE DEF g, h
  <2> QED
    BY <1>9, <1>11, <1>12, <2>1, Ops
<1>14. FieldSum(g, Member) = g[d0]
  <2> HIDE DEF g, h
  <2> QED
    BY <1>1, <1>10, <1>11, <1>13, SumOne
<1>15. ModMul(v[d0], h[d0]) = 0
  BY <1>8, <1>13, <1>14
<1> HIDE DEF h
<1> QED
  BY <1>11, <1>12, <1>15, NoZeroDivisors

(* The random values are not all zero when at most N - D dealers shared    *)
(* values other than zero, and some dealer did: D faulty dealers cannot    *)
(* cancel what the honest ones have put in.                                *)
THEOREM ExtractedHolds == Spec => []Extracted
<1>1. EpochInv => Extracted
  <2> SUFFICES ASSUME EpochInv, rg # <<>>,
                      Cardinality({d \in Member : dealt[d][0] # 0}) \in 1..(N - D)
               PROVE  \E l \in RandomIndex : Generated(l) # 0
    BY DEF Extracted
  <2> DEFINE v == [d \in Member |-> dealt[d][0]]
             S == {d \in Member : v[d] # 0}
  <2>1. \A d \in Member : v[d] \in Elem
    BY Committee, Units DEF EpochInv
  <2>2. S = {d \in Member : dealt[d][0] # 0}
    OBVIOUS
  <2>3. Cardinality(S) \in 1..(N - D)
    BY <2>2
  <2>4. \A l \in RandomIndex : Common(dealt, l) = Combination(v, l)
    BY DEF Common
  <2>5. \E l \in RandomIndex : Combination(v, l) # 0
    <3>1. S = {d \in Member : v[d] # 0}
      OBVIOUS
    <3> HIDE DEF S, v
    <3> QED
      BY <2>1, <2>3, <3>1, NotAllZero
  <2> QED
    BY <2>4, <2>5, GeneratedIs
<1> QED
  BY <1>1, EpochInvariant, PTL
=============================================================================
