----------------------------- MODULE ReedSolomon -----------------------------
(***************************************************************************)
(* protocols/fdvss/interpolate.go: interpolation, and the decoder with its *)
(* fast path and Berlekamp-Welch.                                          *)
(*                                                                         *)
(* A point is a pair <<x, y>>, a list of points a sequence.  A polynomial  *)
(* is a function from its exponents 0..d, leading zeros allowed where the  *)
(* code trims them.  A result is {v}, an error {}.  The table of inverses  *)
(* of divided-difference denominators is a pure cache and left out.        *)
(***************************************************************************)
EXTENDS Field, Sequences, FiniteSets, Functions, FiniteSetsExt, SequencesExt

\* f itself, as a table: TLC computes its values once and looks them up.
Tabulated(f) == CHOOSE g \in {f} : g = f

InverseOf == Tabulated([a \in Elem \ {0} |-> CHOOSE v \in Elem : v \in ModInv(a)])

FieldSum(g, S)     == FoldFunctionOnSet(ModAdd, 0, g, S)
FieldProduct(g, S) == FoldFunctionOnSet(ModMul, 1, g, S)

-----------------------------------------------------------------------------
(* Polynomials.                                                            *)

PolyDegree(a) == Max({-1} \cup {i \in DOMAIN a : a[i] # 0})

PolyEvalAt(a, x) == FieldSum([i \in DOMAIN a |-> ModMul(a[i], Pow(x, i))], DOMAIN a)

\* p * (X - xk)
PolyMulXMinus(p, xk) ==
  LET L == Cardinality(DOMAIN p) IN
  [i \in 0..L |-> ModSub(IF i = 0 THEN 0 ELSE p[i - 1],
                         IF i = L THEN 0 ELSE ModMul(xk, p[i]))]

(* The long division of a by b, one quotient coefficient at a time from    *)
(* the highest: the quotient and what is left of a.                        *)
PolyDivMod(a, b) ==
  LET da == PolyDegree(a)
      db == PolyDegree(b)
      division[shift \in 0..(da - db + 1)] ==
        IF shift = da - db + 1 THEN <<[i \in 0..(da - db) |-> 0], a>>
        ELSE LET q    == division[shift + 1][1]
                 rem  == division[shift + 1][2]
                 coef == ModMul(rem[shift + db], InverseOf[b[db]])
             IN  <<[q EXCEPT ![shift] = coef],
                   [i \in DOMAIN a |->
                      IF i \in shift..(shift + db)
                      THEN ModSub(rem[i], ModMul(coef, b[i - shift])) ELSE rem[i]]>>
  IN  IF da < db THEN <<[i \in {0} |-> 0], a>> ELSE division[0]

-----------------------------------------------------------------------------
(* Interpolation of as many points as are given.                           *)

InterpolateAtZero(points) ==
  LET I == DOMAIN points
      factor(i) ==
        LET others == I \ {i}
            numer  == FieldProduct([j \in I |-> points[j][1]], others)
            denom  == FieldProduct([j \in I |-> ModSub(points[j][1], points[i][1])], others)
        IN  ModMul(numer, InverseOf[denom])
  IN  IF \E i, j \in I : i # j /\ points[i][1] = points[j][1] THEN {}
      ELSE {FieldSum([i \in I |-> ModMul(points[i][2], factor(i))], I)}

(* Newton: the columns of divided differences, then Horner's scheme on the *)
(* first of each.                                                          *)
NewtonInterpolate(points) ==
  LET n == Len(points)
      column[j \in 0..(n - 1)] ==
        [i \in 1..(n - j) |->
           IF j = 0 THEN points[i][2]
           ELSE ModMul(ModSub(column[j - 1][i + 1], column[j - 1][i]),
                       InverseOf[ModSub(points[i + j][1], points[i][1])])]
      dd(j) == column[j][1]
      horner[j \in 0..(n - 1)] ==
        IF j = n - 1 THEN [i \in {0} |-> dd(n - 1)]
        ELSE LET p == PolyMulXMinus(horner[j + 1], points[j + 1][1])
             IN  [p EXCEPT ![0] = ModAdd(@, dd(j))]
  IN  horner[0]

-----------------------------------------------------------------------------
(* Linear systems: rows 1..m of coefficients 0..w-1 and a right side w.    *)
(* The code clears a column below its pivot on the way down and above it   *)
(* on the way back; here both at once, to the same reduced echelon form.   *)
GaussianSolve(aug) ==
  LET m == Len(aug)
      w == Cardinality(DOMAIN aug[1]) - 1
      Reduce(rows, row, piv, col) ==
        LET swapped == [rows EXCEPT ![row] = rows[piv], ![piv] = rows[row]]
            inv     == InverseOf[swapped[row][col]]
            unit    == [c \in 0..w |-> ModMul(swapped[row][c], inv)]
        IN  [r \in 1..m |->
               IF r = row THEN unit
               ELSE [c \in 0..w |->
                       ModSub(swapped[r][c], ModMul(swapped[r][col], unit[c]))]]
      echelon[col \in 0..w] ==
        IF col = 0 THEN [rows |-> aug, pivots |-> <<>>]
        ELSE LET before == echelon[col - 1]
                 row    == Len(before.pivots) + 1
                 with   == {r \in row..m : before.rows[r][col - 1] # 0}
             IN  IF with = {} THEN before
                 ELSE [rows   |-> Reduce(before.rows, row, Min(with), col - 1),
                       pivots |-> Append(before.pivots, col - 1)]
      final == echelon[w]
  IN  IF \E r \in (Len(final.pivots) + 1)..m : final.rows[r][w] # 0 THEN {}
      ELSE {[c \in 0..(w - 1) |->
               IF \E r \in DOMAIN final.pivots : final.pivots[r] = c
               THEN final.rows[CHOOSE r \in DOMAIN final.pivots : final.pivots[r] = c][w]
               ELSE 0]}

-----------------------------------------------------------------------------
(* The decoder.                                                            *)

Disagreements(points, q) ==
  {k \in DOMAIN points : PolyEvalAt(q, points[k][1]) # points[k][2]}

(* The polynomial through the first degree + 1 points, if all others agree.*)
FastPath(points, degree) ==
  LET q == NewtonInterpolate(SubSeq(points, 1, degree + 1))
  IN  IF Disagreements(points, q) = {} THEN {q[0]} ELSE {}

(* The key equations N(x) = y E(x) with E monic of degree e.               *)
KeyEquations(points, degree, e) ==
  LET numN == degree + e + 1 IN
  [k \in DOMAIN points |->
     LET x == points[k][1]
         y == points[k][2]
     IN  [j \in 0..(numN + e) |->
            IF j < numN THEN Pow(x, j)
            ELSE IF j < numN + e THEN ModSub(0, ModMul(y, Pow(x, j - numN)))
            ELSE ModMul(y, Pow(x, e))]]

BerlekampWelch(points, degree, e) ==
  LET numN == degree + e + 1
      Answer(sol) ==
        LET nCoeffs == [i \in 0..(numN - 1) |-> sol[i]]
            eCoeffs == [i \in 0..e |-> IF i = e THEN 1 ELSE sol[numN + i]]
            q       == PolyDivMod(nCoeffs, eCoeffs)[1]
            rem     == PolyDivMod(nCoeffs, eCoeffs)[2]
        IN  IF /\ PolyDegree(rem) = -1
               /\ PolyDegree(q) <= degree
               /\ Cardinality(Disagreements(points, q)) <= e
            THEN {PolyEvalAt(q, 0)} ELSE {}
  IN  UNION {Answer(sol) : sol \in GaussianSolve(KeyEquations(points, degree, e))}

\* Mutant: one error too few is looked for.
MutantErrorBound(n, degree) == (n - degree) \div 2 - 1

ErrorBound(n, degree) == (n - degree - 1) \div 2

\* The elements of a set of integers in order: before the k-th there are k - 1.
Ascending(S) ==
  [k \in 1..Cardinality(S) |-> CHOOSE x \in S : Cardinality({y \in S : y < x}) = k - 1]

(* Points with different x in the order of x.                              *)
SortedByX(points) ==
  LET xs == Ascending({points[i][1] : i \in DOMAIN points}) IN
  [k \in DOMAIN points |-> points[CHOOSE i \in DOMAIN points : points[i][1] = xs[k]]]

(* reedSolomonDecodeImpl: strict means that the caller has sorted.         *)
Decode(points, degree, strict) ==
  LET n == Len(points)
      e == ErrorBound(n, degree)
      sorted == IF strict THEN points ELSE SortedByX(points)
      misplaced ==
        IF strict THEN \E k \in 2..n : points[k][1] <= points[k - 1][1]
        ELSE \E j, k \in 1..n : j # k /\ points[j][1] = points[k][1]
      fast == FastPath(sorted, degree)
  IN  IF n <= degree \/ misplaced THEN {}
      ELSE IF n = degree + 1 THEN InterpolateAtZero(points)
      ELSE IF fast # {} THEN fast
      ELSE BerlekampWelch(sorted, degree, e)

(* ReconstructPolynomialValueAtZero of shamir_reconstruct_export.go.       *)
ReconstructPolynomialValueAtZero(points, degree) ==
  IF Len(points) <= degree THEN {}
  ELSE Decode([k \in DOMAIN points |-> <<points[k][1] % P, points[k][2] % P>>],
              degree, FALSE)
=============================================================================
