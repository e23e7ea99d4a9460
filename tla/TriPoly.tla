------------------------------- MODULE TriPoly -------------------------------
(***************************************************************************)
(* Polynomials in X, Y and Z of degree D in each, and what is made of them *)
(* before anything is sent: Tripoly.go, projection_eval.go, sharing.go.    *)
(* Coefficients are functions of the exponents.  Random coefficients are   *)
(* parameters: where the code draws them, a specification chooses.         *)
(***************************************************************************)
EXTENDS ReedSolomon

CONSTANTS N, D

\* PublicInput.Validate: a committee of N, points 1..N distinct and not zero.
ASSUME CommitteeAssumption ==
  /\ N \in Nat \ {0} /\ D \in Nat
  /\ N >= 3 * D + 1 /\ N < P

Member == 1..N
Deg    == 0..D
Scalar == 1..(P - 1)      \* what RandomNonZeroMod returns

Evaluate(coeffs, x) ==
  FieldSum([e \in DOMAIN coeffs |-> ModMulCanon(coeffs[e], Pow(x, e))], DOMAIN coeffs)

(* A projection is a matrix: [y][z] of a row F(x, Y, Z), [x][z] of a       *)
(* column F(X, y, Z).                                                      *)
ProjectFixX(F, x) ==
  [b \in Deg |-> [c \in Deg |-> Evaluate([a \in Deg |-> F[a][b][c]], x)]]

ProjectFixY(F, y) ==
  [a \in Deg |-> [c \in Deg |-> Evaluate([b \in Deg |-> F[a][b][c]], y)]]

(* The polynomial in Z that a projection takes where its variable is s:    *)
(* also the cross coefficients of precomputeCrossCoeffsByPeerSeq.          *)
SpecializeCoefficients(M, s) == [z \in Deg |-> Evaluate([e \in Deg |-> M[e][z]], s)]

(* The polynomial in X that a column takes at Z = k, which Com4 member k   *)
(* is sent; only its value at X = 0 is used.  The column's words are       *)
(* multiplied as they came.                                                *)
SpecializeColumnCoefficients(M, k) == [x \in Deg |-> Evaluate(M[x], k)]

DiffSlice(a, b) == [c \in DOMAIN a |-> ModSubCanon(a[c], b[c])]

(* Shamir shares of a secret for receiver seq, the coefficients of the     *)
(* powers 1..D given, and of a matrix, entry by entry.  The secret is any  *)
(* word and is reduced here.                                               *)
ShareValue(secret, random, seq) ==
  Evaluate([e \in Deg |-> IF e = 0 THEN secret % P ELSE random[e]], seq)

ShareMatrix(M, random, seq) ==
  [x \in Deg |-> [z \in Deg |-> ShareValue(M[x][z], random[x][z], seq)]]
=============================================================================
