----------------------------- MODULE DecoderProofs -----------------------------
(***************************************************************************)
(* The decoder of interpolate.go: the tables that its loops fill, Newton   *)
(* interpolation, division of polynomials, elimination, the equations of   *)
(* Berlekamp and Welch, and from these what the decoder returns for any    *)
(* points: the value at zero of the one polynomial within its radius.      *)
(***************************************************************************)
EXTENDS PolynomialProofs

(* Induction over 0..n, up and down.                                       *)
LEMMA InductTo ==
  ASSUME NEW n \in Nat, NEW G, 0 \in G, \A k \in 0..(n - 1) : k \in G => k + 1 \in G
  PROVE  \A k \in 0..n : k \in G
<1> DEFINE V == {k \in Nat : k \in 0..n => k \in G}
<1>1. 0 \in V
  OBVIOUS
<1>2. ASSUME NEW k \in V PROVE k + 1 \in V
  <2>1. CASE k + 1 \in 0..n
    <3>1. k \in 0..(n - 1) /\ k \in 0..n
      BY <2>1
    <3> QED
      BY <3>1
  <2>2. CASE k + 1 \notin 0..n
    BY <2>2
  <2> QED
    BY <2>1, <2>2
<1>3. V = Nat
  <2>1. V \in SUBSET Nat
    OBVIOUS
  <2> HIDE DEF V
  <2> QED
    BY <1>1, <1>2, <2>1, Induct
<1> QED
  BY <1>3

LEMMA InductDown ==
  ASSUME NEW n \in Nat, NEW G, n \in G, \A k \in 0..(n - 1) : k + 1 \in G => k \in G
  PROVE  \A k \in 0..n : k \in G
<1> DEFINE H == {k \in 0..n : n - k \in G}
<1>1. 0 \in H
  OBVIOUS
<1>2. ASSUME NEW k \in 0..(n - 1), k \in H PROVE k + 1 \in H
  <2>1. n - k \in G /\ n - (k + 1) \in 0..(n - 1) /\ (n - (k + 1)) + 1 = n - k
    BY <1>2
  <2>2. n - (k + 1) \in G
    BY <2>1
  <2> QED
    BY <2>2
<1>3. \A k \in 0..n : k \in H
  <2> HIDE DEF H
  <2> QED
    BY <1>1, <1>2, InductTo
<1>4. ASSUME NEW k \in 0..n PROVE k \in G
  <2>1. n - k \in 0..n /\ n - (n - k) = k
    OBVIOUS
  <2>2. n - k \in H
    BY <1>3, <2>1
  <2> QED
    BY <2>1, <2>2
<1> QED
  BY <1>4

(* polyMulXMinus: the product with X - xk, with the same leading coefficient. *)
LEMMA TimesXMinus ==
  ASSUME NEW d \in Nat, NEW p \in Poly(d), NEW xk \in Elem
  PROVE  /\ PolyMulXMinus(p, xk) \in Poly(d + 1)
         /\ PolyMulXMinus(p, xk)[d + 1] = p[d]
         /\ \A x \in Elem : Evaluate(PolyMulXMinus(p, xk), x)
                              = ModMul(ModSub(x, xk), Evaluate(p, x))
<1> DEFINE s == WithLow(0, p)
           a == [i \in 0..(d + 1) |-> IF i = d + 1 THEN 0 ELSE p[i]]
           t == [i \in 0..(d + 1) |-> ModMul(xk, a[i])]
           r == [i \in 0..(d + 1) |-> ModSub(s[i], t[i])]
<1>1. DOMAIN p = 0..d /\ Cardinality(0..d) = d + 1 /\ \A i \in 0..d : p[i] \in Elem
  BY FS_Interval DEF Poly
<1>2. s \in Poly(d + 1) /\ s[0] = 0 /\ \A i \in 0..d : s[i + 1] = p[i]
  BY Units, WithLowType
<1>3. a \in Poly(d + 1)
  BY <1>1, Units DEF Poly
<1>4. t \in Poly(d + 1) /\ \A x \in Elem : Evaluate(t, x) = ModMul(xk, Evaluate(a, x))
  <2> HIDE DEF a
  <2> QED
    BY <1>3, EvaluateScales
<1>5. r \in Poly(d + 1) /\ \A x \in Elem : Evaluate(r, x) = ModSub(Evaluate(s, x), Evaluate(t, x))
  <2> HIDE DEF s, t
  <2> QED
    BY <1>2, <1>4, EvaluateSubtracts
<1>6. PolyMulXMinus(p, xk) = r
  <2>1. ASSUME NEW i \in 0..(d + 1)
        PROVE  r[i] = ModSub(IF i = 0 THEN 0 ELSE p[i - 1], IF i = d + 1 THEN 0 ELSE ModMul(xk, p[i]))
    <3>1. s[i] = IF i = 0 THEN 0 ELSE p[i - 1]
      <4>1. i # 0 => i - 1 \in 0..d /\ (i - 1) + 1 = i
        OBVIOUS
      <4> HIDE DEF s
      <4> QED
        BY <1>2, <4>1
    <3>2. t[i] = IF i = d + 1 THEN 0 ELSE ModMul(xk, p[i])
      <4>1. i = d + 1 => ModMul(xk, a[i]) = 0
        BY MulOne
      <4> QED
        BY <4>1
    <3> HIDE DEF s, t
    <3> QED
      BY <3>1, <3>2
  <2> HIDE DEF r
  <2>2. DOMAIN r = 0..(d + 1)
    BY <1>5 DEF Poly
  <2>3. PolyMulXMinus(p, xk)
          = [i \in 0..(d + 1) |-> ModSub(IF i = 0 THEN 0 ELSE p[i - 1],
                                         IF i = d + 1 THEN 0 ELSE ModMul(xk, p[i]))]
    BY <1>1 DEF PolyMulXMinus
  <2>4. r = [i \in 0..(d + 1) |-> r[i]]
    BY <1>5 DEF Poly
  <2> QED
    BY <2>1, <2>3, <2>4
<1>7. r[d + 1] = p[d]
  <2>1. s[d + 1] = p[d] /\ t[d + 1] = 0 /\ p[d] \in Elem
    <3>1. d \in 0..d /\ t[d + 1] = ModMul(xk, 0)
      OBVIOUS
    <3> HIDE DEF s, t
    <3> QED
      BY <1>1, <1>2, <3>1, MulOne
  <2>2. r[d + 1] = ModSub(s[d + 1], t[d + 1])
    OBVIOUS
  <2> HIDE DEF r, s, t
  <2> QED
    BY <2>1, <2>2, AddZero
<1>8. ASSUME NEW x \in Elem PROVE Evaluate(r, x) = ModMul(ModSub(x, xk), Evaluate(p, x))
  <2> DEFINE e == Evaluate(p, x)
  <2>1. e \in Elem
    BY EvaluateIsSum
  <2>2. Evaluate(a, x) = e
    <3>1. a[d + 1] = 0 /\ \A i \in 0..d : a[i] = p[i]
      OBVIOUS
    <3> HIDE DEF a
    <3> QED
      BY <1>3, <3>1, EvaluatePads
  <2>3. Evaluate(s, x) = ModAdd(0, ModMul(x, e))
    BY Units, EvaluateWithLow
  <2> HIDE DEF e, r, s, t, a
  <2>4. Evaluate(r, x) = ModSub(ModMul(x, e), ModMul(xk, e))
    BY <1>4, <1>5, <2>1, <2>2, <2>3, AddZero, Ops
  <2>5. ModSub(ModMul(x, e), ModMul(xk, e)) = ModAdd(ModMul(x, e), ModMul(Neg(xk), e))
    BY <2>1, Ops, Negation
  <2>6. ModAdd(ModMul(x, e), ModMul(Neg(xk), e)) = ModMul(ModAdd(x, Neg(xk)), e)
    BY <2>1, Negation, Distributes
  <2>7. ModAdd(x, Neg(xk)) = ModSub(x, xk)
    BY Negation
  <2> QED
    BY <2>4, <2>5, <2>6, <2>7 DEF e
<1> HIDE DEF r
<1> QED
  BY <1>5, <1>6, <1>7, <1>8

-----------------------------------------------------------------------------
(* newtonInterpolate: its two tables.                                      *)

\* n points with different x.
Points(n) ==
  {s \in [1..n -> Elem \X Elem] : \A i, j \in 1..n : i # j => s[i][1] # s[j][1]}

Quotients(points, f, j) ==
  [i \in 1..(Len(points) - j) |->
     IF j = 0 THEN points[i][2]
     ELSE ModMul(ModSub(f[j - 1][i + 1], f[j - 1][i]),
                 InverseOf[ModSub(points[i + j][1], points[i][1])])]

Columns(points) ==
  CHOOSE f : f = [j \in 0..(Len(points) - 1) |-> Quotients(points, f, j)]

HornerStep(points, f, j) ==
  IF j = Len(points) - 1 THEN [i \in {0} |-> Columns(points)[Len(points) - 1][1]]
  ELSE LET p == PolyMulXMinus(f[j + 1], points[j + 1][1])
       IN  [p EXCEPT ![0] = ModAdd(@, Columns(points)[j][1])]

Horners(points) ==
  CHOOSE f : f = [j \in 0..(Len(points) - 1) |-> HornerStep(points, f, j)]

LEMMA NewtonTables ==
  ASSUME NEW d \in Nat, NEW points \in Points(d + 1)
  PROVE  /\ Len(points) = d + 1
         /\ NewtonInterpolate(points) = Horners(points)[0]
         /\ \A j \in 0..d : Columns(points)[j] = Quotients(points, Columns(points), j)
         /\ \A j \in 0..d : Horners(points)[j] = HornerStep(points, Horners(points), j)
<1>1. Len(points) = d + 1
  <2>1. points \in [1..(d + 1) -> Elem \X Elem]
    BY DEF Points
  <2> QED
    BY <2>1
<1>2. NewtonInterpolate(points) = Horners(points)[0]
  BY DEF NewtonInterpolate, Horners, HornerStep, Columns, Quotients
<1>3. ASSUME NEW f, NEW g, NEW j \in 0..d, j # 0 => f[j - 1] = g[j - 1]
      PROVE  Quotients(points, f, j) = Quotients(points, g, j)
  <2>1. CASE j = 0
    BY <2>1 DEF Quotients
  <2>2. CASE j # 0
    BY <1>3, <2>2 DEF Quotients
  <2> QED
    BY <2>1, <2>2
<1>4. \E f : f = [j \in 0..d |-> Quotients(points, f, j)]
  <2> DEFINE V == {k \in 0..d : \E f : f = [j \in 0..k |-> Quotients(points, f, j)]}
  <2>1. 0 \in V
    <3> DEFINE f == [j \in 0..0 |-> Quotients(points, points, j)]
    <3>1. f = [j \in 0..0 |-> Quotients(points, f, j)]
      <4>1. \A j \in 0..0 : j = 0 /\ j \in 0..d
        OBVIOUS
      <4> HIDE DEF f
      <4>2. \A j \in 0..0 : Quotients(points, points, j) = Quotients(points, f, j)
        BY <1>3, <4>1
      <4> QED
        BY <4>2 DEF f
    <3> HIDE DEF f
    <3> QED
      BY <3>1
  <2>2. ASSUME NEW k \in 0..(d - 1), k \in V PROVE k + 1 \in V
    <3>1. PICK f : f = [j \in 0..k |-> Quotients(points, f, j)]
      BY <2>2
    <3> DEFINE g == [j \in 0..(k + 1) |-> IF j = k + 1 THEN Quotients(points, f, k + 1) ELSE f[j]]
    <3>2. ASSUME NEW j \in 0..(k + 1) PROVE g[j] = Quotients(points, g, j)
      <4>1. j # 0 => f[j - 1] = g[j - 1]
        OBVIOUS
      <4>2. j \in 0..d
        OBVIOUS
      <4>3. g[j] = Quotients(points, f, j)
        <5>1. CASE j = k + 1
          BY <5>1
        <5>2. CASE j # k + 1
          <6>1. j \in 0..k
            BY <5>2
          <6> QED
            BY <3>1, <6>1
        <5> QED
          BY <5>1, <5>2
      <4> HIDE DEF g
      <4> QED
        BY <1>3, <4>1, <4>2, <4>3
    <3>3. g = [j \in 0..(k + 1) |-> g[j]]
      OBVIOUS
    <3>4. k + 1 \in 0..d
      OBVIOUS
    <3> HIDE DEF g
    <3> QED
      BY <3>2, <3>3, <3>4
  <2>3. d \in V
    <3> HIDE DEF V
    <3> QED
      BY <2>1, <2>2, InductTo
  <2> QED
    BY <2>3
<1>5. Columns(points) = [j \in 0..d |-> Quotients(points, Columns(points), j)]
  <2>1. Columns(points) = CHOOSE f : f = [j \in 0..d |-> Quotients(points, f, j)]
    BY <1>1 DEF Columns
  <2> QED
    BY <1>4, <2>1
<1>6. ASSUME NEW f, NEW g, NEW j \in 0..d, j # d => f[j + 1] = g[j + 1]
      PROVE  HornerStep(points, f, j) = HornerStep(points, g, j)
  BY <1>1, <1>6 DEF HornerStep
<1>7. \E f : f = [j \in 0..d |-> HornerStep(points, f, j)]
  <2> DEFINE V == {k \in 0..d : \E f : f = [j \in k..d |-> HornerStep(points, f, j)]}
  <2>1. d \in V
    <3> DEFINE f == [j \in d..d |-> HornerStep(points, points, j)]
    <3>1. f = [j \in d..d |-> HornerStep(points, f, j)]
      <4>1. \A j \in d..d : j = d /\ j \in 0..d
        OBVIOUS
      <4> HIDE DEF f
      <4>2. \A j \in d..d : HornerStep(points, points, j) = HornerStep(points, f, j)
        BY <1>6, <4>1
      <4> QED
        BY <4>2 DEF f
    <3> HIDE DEF f
    <3> QED
      BY <3>1
  <2>2. ASSUME NEW k \in 0..(d - 1), k + 1 \in V PROVE k \in V
    <3>1. PICK f : f = [j \in (k + 1)..d |-> HornerStep(points, f, j)]
      BY <2>2
    <3> DEFINE g == [j \in k..d |-> IF j = k THEN HornerStep(points, f, k) ELSE f[j]]
    <3>2. ASSUME NEW j \in k..d PROVE g[j] = HornerStep(points, g, j)
      <4>1. j # d => f[j + 1] = g[j + 1]
        OBVIOUS
      <4>2. j \in 0..d
        OBVIOUS
      <4>3. g[j] = HornerStep(points, f, j)
        <5>1. CASE j = k
          BY <5>1
        <5>2. CASE j # k
          <6>1. j \in (k + 1)..d
            BY <5>2
          <6> QED
            BY <3>1, <6>1
        <5> QED
          BY <5>1, <5>2
      <4> HIDE DEF g
      <4> QED
        BY <1>6, <4>1, <4>2, <4>3
    <3>3. g = [j \in k..d |-> g[j]]
      OBVIOUS
    <3>4. k \in 0..d
      OBVIOUS
    <3> HIDE DEF g
    <3> QED
      BY <3>2, <3>3, <3>4
  <2>3. 0 \in V
    <3> HIDE DEF V
    <3> QED
      BY <2>1, <2>2, InductDown
  <2> QED
    BY <2>3
<1>8. Horners(points) = [j \in 0..d |-> HornerStep(points, Horners(points), j)]
  <2>1. Horners(points) = CHOOSE f : f = [j \in 0..d |-> HornerStep(points, f, j)]
    BY <1>1 DEF Horners
  <2> QED
    BY <1>7, <2>1
<1> QED
  BY <1>1, <1>2, <1>5, <1>8

(* The divided differences are elements, and Horner's scheme raises the    *)
(* degree by one at each step.                                             *)
LEMMA NewtonType ==
  ASSUME NEW d \in Nat, NEW points \in Points(d + 1)
  PROVE  /\ \A j \in 0..d : \A i \in 1..(d + 1 - j) : Columns(points)[j][i] \in Elem
         /\ \A j \in 0..d : Horners(points)[j] \in Poly(d - j)
         /\ NewtonInterpolate(points) \in Poly(d)
<1> DEFINE C == Columns(points)
           H == Horners(points)
<1>1. /\ Len(points) = d + 1 /\ NewtonInterpolate(points) = H[0]
      /\ \A j \in 0..d : C[j] = Quotients(points, C, j)
      /\ \A j \in 0..d : H[j] = HornerStep(points, H, j)
  BY NewtonTables
<1>2. \A i \in 1..(d + 1) : points[i][1] \in Elem /\ points[i][2] \in Elem
  <2>1. \A i \in 1..(d + 1) : points[i] \in Elem \X Elem
    BY DEF Points
  <2> QED
    BY <2>1
<1>3. \A i, j \in 1..(d + 1) : i # j => points[i][1] # points[j][1]
  BY DEF Points
<1> DEFINE G == {j \in 0..d : \A i \in 1..(d + 1 - j) : C[j][i] \in Elem}
           K == {j \in 0..d : H[j] \in Poly(d - j)}
<1> HIDE DEF C, H
<1>4. 0 \in G
  <2>1. Quotients(points, C, 0) = [i \in 1..(d + 1) |-> points[i][2]]
    BY <1>1 DEF Quotients
  <2>2. C[0] = [i \in 1..(d + 1) |-> points[i][2]]
    BY <1>1, <2>1
  <2> QED
    BY <1>2, <2>2
<1>5. ASSUME NEW k \in 0..(d - 1), k \in G PROVE k + 1 \in G
  <2>1. ASSUME NEW i \in 1..(d + 1 - (k + 1)) PROVE C[k + 1][i] \in Elem
    <3>1. /\ i \in 1..(d + 1 - k) /\ i + 1 \in 1..(d + 1 - k) /\ k + 1 \in 0..d
          /\ i \in 1..(d + 1) /\ i + (k + 1) \in 1..(d + 1) /\ i + (k + 1) # i
          /\ k + 1 # 0 /\ (k + 1) - 1 = k
      OBVIOUS
    <3>2. C[k][i] \in Elem /\ C[k][i + 1] \in Elem
      BY <1>5, <3>1
    <3> DEFINE u == ModSub(points[i + (k + 1)][1], points[i][1])
    <3>3. u \in Elem \ {0}
      BY <1>2, <1>3, <3>1, Ops, DifferenceZero
    <3>4. C[k + 1][i] = ModMul(ModSub(C[k][i + 1], C[k][i]), InverseOf[u])
      <4>1. Quotients(points, C, k + 1)
              = [m \in 1..(d + 1 - (k + 1)) |->
                   ModMul(ModSub(C[k][m + 1], C[k][m]),
                          InverseOf[ModSub(points[m + (k + 1)][1], points[m][1])])]
        BY <1>1, <3>1 DEF Quotients
      <4>2. C[k + 1] = Quotients(points, C, k + 1)
        BY <1>1, <3>1
      <4> QED
        BY <4>1, <4>2
    <3> HIDE DEF u
    <3> QED
      BY <3>2, <3>3, <3>4, InverseExact, Ops
  <2> QED
    BY <2>1
<1>6. \A j \in 0..d : j \in G
  <2> HIDE DEF G
  <2> QED
    BY <1>4, <1>5, InductTo
<1>7. \A j \in 0..d : C[j][1] \in Elem
  <2>1. \A j \in 0..d : 1 \in 1..(d + 1 - j)
    OBVIOUS
  <2> QED
    BY <1>6, <2>1
<1>8. d \in K
  <2>0. HornerStep(points, H, d) = [i \in {0} |-> C[d][1]]
    <3>1. Len(points) - 1 = d
      BY <1>1
    <3> QED
      BY <3>1 DEF HornerStep, C
  <2>1. H[d] = [i \in {0} |-> C[d][1]]
    BY <1>1, <2>0
  <2>2. H[d] \in Poly(0)
    BY <1>7, <2>1, UpTo DEF Poly
  <2> QED
    BY <2>2
<1>9. ASSUME NEW k \in 0..(d - 1), k + 1 \in K PROVE k \in K
  <2> DEFINE p == PolyMulXMinus(H[k + 1], points[k + 1][1])
             e == d - (k + 1)
  <2>1. /\ e \in Nat /\ k \in 0..d /\ k + 1 \in 1..(d + 1) /\ k # (d + 1) - 1
        /\ d - k = e + 1 /\ H[k + 1] \in Poly(e)
    BY <1>9
  <2>2. p \in Poly(e + 1)
    <3> HIDE DEF e
    <3> QED
      BY <1>2, <2>1, TimesXMinus
  <2>3. H[k] = [p EXCEPT ![0] = ModAdd(p[0], C[k][1])]
    BY <1>1, <2>1 DEF HornerStep, C
  <2> HIDE DEF p, e
  <2>4. ModAdd(p[0], C[k][1]) \in Elem
    <3>1. p[0] \in Elem
      BY <2>1, <2>2 DEF Poly
    <3> QED
      BY <1>7, <2>1, <3>1, Ops
  <2>5. H[k] \in Poly(e + 1)
    BY <2>2, <2>3, <2>4 DEF Poly
  <2> QED
    BY <2>1, <2>5
<1>10. \A j \in 0..d : j \in K
  <2> HIDE DEF K
  <2> QED
    BY <1>8, <1>9, InductDown
<1>11. H[0] \in Poly(d)
  <2>1. 0 \in 0..d /\ d - 0 = d
    OBVIOUS
  <2> QED
    BY <1>10, <2>1
<1> QED
  BY <1>1, <1>6, <1>10, <1>11 DEF C, H

-----------------------------------------------------------------------------
(* Polynomials that differ in their leading zeros only.                    *)

\* The coefficient of the power i.
Coef(c, i) == IF i \in DOMAIN c THEN c[i] ELSE 0

LEMMA SumPads ==
  ASSUME NEW g, NEW S, IsFiniteSet(S), \A i \in S : g[i] \in Elem,
         NEW T \in SUBSET S, \A i \in S \ T : g[i] = 0
  PROVE  FieldSum(g, S) = FieldSum(g, T)
<1> DEFINE G == {U \in SUBSET S : FieldSum(g, U) = FieldSum(g, U \cap T)}
<1>1. ASSUME NEW U \in SUBSET S, \A x \in U : U \ {x} \in G PROVE U \in G
  <2>1. /\ IsFiniteSet(U) /\ IsFiniteSet(U \cap T) /\ IsFiniteSet(U \ {Some(U)})
        /\ IsFiniteSet((U \ {Some(U)}) \cap T)
    BY FS_Subset
  <2>2. CASE U = {}
    BY <2>2
  <2>3. CASE U # {}
    <3> DEFINE x == Some(U)
               V == U \ {x}
    <3>1. x \in U
      BY <2>3 DEF Some
    <3>2. FieldSum(g, V) = FieldSum(g, V \cap T)
      BY <1>1, <3>1
    <3>3. FieldSum(g, U) = ModAdd(g[x], FieldSum(g, V))
      <4>1. \A i \in U : g[i] \in Elem
        OBVIOUS
      <4> HIDE DEF x
      <4> QED
        BY <2>1, <3>1, <4>1, SumStep
    <3>4. CASE x \in T
      <4>1. x \in U \cap T /\ (U \cap T) \ {x} = V \cap T /\ \A i \in U \cap T : g[i] \in Elem
        BY <3>1, <3>4
      <4> HIDE DEF x, V
      <4>2. FieldSum(g, U \cap T) = ModAdd(g[x], FieldSum(g, (U \cap T) \ {x}))
        BY <2>1, <4>1, SumStep
      <4> QED
        BY <3>2, <3>3, <4>1, <4>2
    <3>5. CASE x \notin T
      <4>1. g[x] = 0 /\ V \cap T = U \cap T /\ \A i \in V : g[i] \in Elem
        BY <3>1, <3>5
      <4>2. FieldSum(g, V) \in Elem
        <5>1. IsFiniteSet(V)
          BY <2>1
        <5> HIDE DEF V
        <5> QED
          BY <4>1, <5>1, SumUnfolds
      <4> HIDE DEF x, V
      <4> QED
        BY <3>2, <3>3, <4>1, <4>2, AddZero
    <3> QED
      BY <3>4, <3>5
  <2> QED
    BY <2>2, <2>3
<1>2. S \in G
  <2> HIDE DEF G
  <2> QED
    BY <1>1, SetInduct
<1>3. S \cap T = T
  OBVIOUS
<1> QED
  BY <1>2, <1>3

LEMMA EvaluateExtended ==
  ASSUME NEW d \in Nat, NEW c \in Poly(d), NEW k \in Nat, d <= k, NEW x \in Elem
  PROVE  Evaluate(c, x) = FieldSum([i \in 0..k |-> ModMul(Coef(c, i), Pow(x, i))], 0..k)
<1> DEFINE g == [i \in 0..k |-> ModMul(Coef(c, i), Pow(x, i))]
<1>1. \A i \in 0..k : Pow(x, i) \in Elem /\ Coef(c, i) \in Elem
  <2>1. \A i \in 0..k : Pow(x, i) \in Elem
    BY PowUnfolds
  <2>2. DOMAIN c = 0..d /\ \A i \in 0..d : c[i] \in Elem
    BY TermsType
  <2> QED
    BY <2>1, <2>2, Units DEF Coef
<1>2. \A i \in 0..k : g[i] \in Elem
  BY <1>1, Ops
<1>3. \A i \in (0..k) \ (0..d) : g[i] = 0
  <2>1. ASSUME NEW i \in (0..k) \ (0..d) PROVE ModMul(Coef(c, i), Pow(x, i)) = 0
    <3>1. Coef(c, i) = 0
      BY TermsType DEF Coef
    <3> QED
      BY <1>1, <3>1, MulOne
  <2> QED
    BY <2>1
<1>4. \A i \in 0..d : Terms(c, x)[i] \in Elem /\ g[i] = Terms(c, x)[i]
  <2>1. \A i \in 0..d : i \in 0..k /\ Coef(c, i) = c[i]
    BY TermsType DEF Coef
  <2> QED
    BY <2>1, TermsType
<1>5. IsFiniteSet(0..k) /\ IsFiniteSet(0..d) /\ 0..d \in SUBSET (0..k)
  BY UpTo
<1> HIDE DEF g
<1>6. FieldSum(g, 0..k) = FieldSum(g, 0..d)
  BY <1>2, <1>3, <1>5, SumPads
<1>7. FieldSum(g, 0..d) = FieldSum(Terms(c, x), 0..d)
  BY <1>4, <1>5, SumEqual
<1> QED
  BY <1>6, <1>7, EvaluateIsSum DEF g

LEMMA SameValues ==
  ASSUME NEW d \in Nat, NEW c \in Poly(d), NEW e \in Nat, NEW b \in Poly(e),
         \A i \in Nat : Coef(c, i) = Coef(b, i), NEW x \in Elem
  PROVE  Evaluate(c, x) = Evaluate(b, x)
<1> DEFINE k == d + e
<1>1. k \in Nat /\ d <= k /\ e <= k
  OBVIOUS
<1>2. [i \in 0..k |-> ModMul(Coef(c, i), Pow(x, i))] = [i \in 0..k |-> ModMul(Coef(b, i), Pow(x, i))]
  OBVIOUS
<1> HIDE DEF k
<1>3. Evaluate(c, x) = FieldSum([i \in 0..k |-> ModMul(Coef(c, i), Pow(x, i))], 0..k)
  BY <1>1, EvaluateExtended
<1>4. Evaluate(b, x) = FieldSum([i \in 0..k |-> ModMul(Coef(b, i), Pow(x, i))], 0..k)
  BY <1>1, EvaluateExtended
<1> QED
  BY <1>2, <1>3, <1>4

LEMMA MaxExists ==
  ASSUME NEW d \in Int, NEW S, S # {}, \A s \in S : s \in Int /\ s <= d
  PROVE  Max(S) \in S /\ \A y \in S : Max(S) >= y
<1> DEFINE T == {k \in Nat : d - k \in S}
<1>1. T # {} /\ T \in SUBSET Nat
  <2>1. PICK s \in S : TRUE
    OBVIOUS
  <2>2. d - s \in Nat /\ d - (d - s) = s
    BY <2>1
  <2> QED
    BY <2>1, <2>2
<1>2. PICK k \in T : \A j \in T : k <= j
  <2> HIDE DEF T
  <2> QED
    BY <1>1, Least
<1>3. d - k \in S
  OBVIOUS
<1>4. ASSUME NEW y \in S PROVE d - k >= y
  <2>1. d - y \in Nat /\ d - (d - y) = y
    OBVIOUS
  <2>2. d - y \in T
    BY <2>1
  <2>3. k <= d - y
    BY <1>2, <2>2
  <2> QED
    BY <2>3
<1>5. \E x \in S : \A y \in S : x >= y
  BY <1>3, <1>4
<1> QED
  BY <1>5 DEF Max

(* polyDegree.                                                             *)
LEMMA DegreeExact ==
  ASSUME NEW d \in Nat, NEW c \in Poly(d)
  PROVE  /\ PolyDegree(c) \in (-1)..d
         /\ \A i \in Nat : i > PolyDegree(c) => Coef(c, i) = 0
         /\ PolyDegree(c) # -1 => c[PolyDegree(c)] # 0
<1> DEFINE S == {-1} \cup {i \in DOMAIN c : c[i] # 0}
<1>1. DOMAIN c = 0..d
  BY DEF Poly
<1>2. S # {} /\ \A s \in S : s \in Int /\ s <= d /\ s >= -1
  BY <1>1
<1>3. Max(S) \in S /\ \A y \in S : Max(S) >= y
  <2>1. d \in Int
    OBVIOUS
  <2> HIDE DEF S
  <2> QED
    BY <1>2, <2>1, MaxExists
<1>4. PolyDegree(c) = Max(S)
  BY DEF PolyDegree
<1> DEFINE M == PolyDegree(c)
<1>5. M \in S /\ \A y \in S : M >= y
  BY <1>3, <1>4
<1> HIDE DEF M
<1>6. M \in (-1)..d
  BY <1>2, <1>5
<1>7. M # -1 => c[M] # 0
  BY <1>5
<1>8. ASSUME NEW i \in Nat, i > M PROVE Coef(c, i) = 0
  <2>1. i \in DOMAIN c => c[i] = 0
    BY <1>1, <1>5, <1>6, <1>8
  <2> QED
    BY <2>1 DEF Coef
<1> QED
  BY <1>6, <1>7, <1>8 DEF M

\* A polynomial with at most the powers 0..d.
Trim(c, d) == [i \in 0..d |-> Coef(c, i)]

LEMMA Trimmed ==
  ASSUME NEW m \in Nat, NEW c \in Poly(m), NEW d \in Nat, PolyDegree(c) <= d
  PROVE  Trim(c, d) \in Poly(d) /\ \A x \in Elem : Evaluate(Trim(c, d), x) = Evaluate(c, x)
<1>1. Trim(c, d) \in Poly(d)
  BY Units DEF Trim, Poly, Coef
<1>2. ASSUME NEW i \in Nat PROVE Coef(Trim(c, d), i) = Coef(c, i)
  <2>1. CASE i \in 0..d
    BY <2>1 DEF Trim, Coef
  <2>2. CASE i \notin 0..d
    <3>1. PolyDegree(c) \in Int /\ i > d
      BY <2>2, DegreeExact
    <3>2. i > PolyDegree(c)
      BY <3>1
    <3>3. Coef(c, i) = 0
      BY <3>2, DegreeExact
    <3> QED
      BY <2>2, <3>3 DEF Trim, Coef
  <2> QED
    BY <2>1, <2>2
<1> HIDE DEF Trim
<1> QED
  BY <1>1, <1>2, SameValues

-----------------------------------------------------------------------------
(* polyDivMod: its table, one row for each quotient coefficient.           *)

DivisionStep(a, b, f, shift) ==
  LET da == PolyDegree(a)
      db == PolyDegree(b)
  IN  IF shift = da - db + 1 THEN <<[i \in 0..(da - db) |-> 0], a>>
      ELSE LET q    == f[shift + 1][1]
               rem  == f[shift + 1][2]
               coef == ModMul(rem[shift + db], InverseOf[b[db]])
           IN  <<[q EXCEPT ![shift] = coef],
                 [i \in DOMAIN a |->
                    IF i \in shift..(shift + db)
                    THEN ModSub(rem[i], ModMul(coef, b[i - shift])) ELSE rem[i]]>>

Divisions(a, b) ==
  CHOOSE f : f = [shift \in 0..(PolyDegree(a) - PolyDegree(b) + 1) |-> DivisionStep(a, b, f, shift)]

LEMMA DivisionTable ==
  ASSUME NEW a, NEW b, PolyDegree(a) \in Int, PolyDegree(b) \in Int,
         PolyDegree(a) >= PolyDegree(b)
  PROVE  /\ PolyDivMod(a, b) = Divisions(a, b)[0]
         /\ \A s \in 0..(PolyDegree(a) - PolyDegree(b) + 1) :
              Divisions(a, b)[s] = DivisionStep(a, b, Divisions(a, b), s)
<1> DEFINE d == PolyDegree(a) - PolyDegree(b) + 1
<1>1. d \in Nat
  OBVIOUS
<1>2. PolyDivMod(a, b) = Divisions(a, b)[0]
  <2>1. ~ (PolyDegree(a) < PolyDegree(b))
    OBVIOUS
  <2> QED
    BY <2>1 DEF PolyDivMod, Divisions, DivisionStep
<1>3. Divisions(a, b) = CHOOSE f : f = [s \in 0..d |-> DivisionStep(a, b, f, s)]
  BY DEF Divisions
<1>4. ASSUME NEW f, NEW g, NEW j \in 0..d, j # d => f[j + 1] = g[j + 1]
      PROVE  DivisionStep(a, b, f, j) = DivisionStep(a, b, g, j)
  BY <1>4 DEF DivisionStep
<1> HIDE DEF d
<1>5. \E f : f = [j \in 0..d |-> DivisionStep(a, b, f, j)]
  <2> DEFINE V == {k \in 0..d : \E f : f = [j \in k..d |-> DivisionStep(a, b, f, j)]}
  <2>1. d \in V
    <3> DEFINE f == [j \in d..d |-> DivisionStep(a, b, a, j)]
    <3>1. f = [j \in d..d |-> DivisionStep(a, b, f, j)]
      <4>1. \A j \in d..d : j = d /\ j \in 0..d
        BY <1>1
      <4> HIDE DEF f
      <4>2. \A j \in d..d : DivisionStep(a, b, a, j) = DivisionStep(a, b, f, j)
        BY <1>4, <4>1
      <4> QED
        BY <4>2 DEF f
    <3> HIDE DEF f
    <3> QED
      BY <1>1, <3>1
  <2>2. ASSUME NEW k \in 0..(d - 1), k + 1 \in V PROVE k \in V
    <3>1. PICK f : f = [j \in (k + 1)..d |-> DivisionStep(a, b, f, j)]
      BY <2>2
    <3> DEFINE g == [j \in k..d |-> IF j = k THEN DivisionStep(a, b, f, k) ELSE f[j]]
    <3>2. ASSUME NEW j \in k..d PROVE g[j] = DivisionStep(a, b, g, j)
      <4>1. j # d => f[j + 1] = g[j + 1]
        BY <1>1
      <4>2. j \in 0..d
        BY <1>1
      <4>3. g[j] = DivisionStep(a, b, f, j)
        <5>1. CASE j = k
          BY <5>1
        <5>2. CASE j # k
          <6>1. j \in (k + 1)..d
            BY <1>1, <5>2
          <6> QED
            BY <3>1, <6>1
        <5> QED
          BY <5>1, <5>2
      <4> HIDE DEF g
      <4> QED
        BY <1>4, <4>1, <4>2, <4>3
    <3>3. g = [j \in k..d |-> g[j]]
      OBVIOUS
    <3>4. k \in 0..d
      BY <1>1
    <3> HIDE DEF g
    <3> QED
      BY <3>2, <3>3, <3>4
  <2>3. 0 \in V
    <3> HIDE DEF V
    <3>1. \A k \in 0..d : k \in V
      BY <1>1, <2>1, <2>2, InductDown
    <3> QED
      BY <1>1, <3>1
  <2> QED
    BY <2>3
<1>6. Divisions(a, b) = [s \in 0..d |-> DivisionStep(a, b, Divisions(a, b), s)]
  BY <1>3, <1>5
<1>7. \A s \in 0..d : Divisions(a, b)[s] = DivisionStep(a, b, Divisions(a, b), s)
  BY <1>6
<1> QED
  BY <1>2, <1>7 DEF d

LEMMA DivisionType ==
  ASSUME NEW d \in Nat, NEW a \in Poly(d), NEW e \in Nat, NEW b \in Poly(e), PolyDegree(b) # -1
  PROVE  /\ PolyDivMod(a, b)[2] \in Poly(d)
         /\ PolyDegree(a) < PolyDegree(b) => PolyDivMod(a, b)[1] \in Poly(0)
         /\ PolyDegree(a) >= PolyDegree(b)
              => PolyDivMod(a, b)[1] \in Poly(PolyDegree(a) - PolyDegree(b))
<1> DEFINE da == PolyDegree(a)
           db == PolyDegree(b)
           T  == Divisions(a, b)
<1>1. da \in (-1)..d /\ db \in 0..e /\ b[db] \in Elem \ {0} /\ DOMAIN a = 0..d
  <2>1. da \in (-1)..d /\ db \in (-1)..e /\ db # -1 /\ b[db] # 0
    BY DegreeExact
  <2> HIDE DEF da, db
  <2> QED
    BY <2>1 DEF Poly
<1>2. CASE da < db
  <2>1. PolyDivMod(a, b) = <<[i \in {0} |-> 0], a>>
    BY <1>2 DEF PolyDivMod
  <2>2. [i \in {0} |-> 0] \in Poly(0)
    BY Units, UpTo DEF Poly
  <2> QED
    BY <1>1, <1>2, <2>1, <2>2
<1>3. CASE da >= db
  <2> DEFINE m == da - db
             K == {s \in 0..(m + 1) : T[s][1] \in Poly(m) /\ T[s][2] \in Poly(d)}
  <2>1. m \in Nat /\ m + db \in 0..d
    BY <1>1, <1>3
  <2>2. PolyDivMod(a, b) = T[0] /\ \A s \in 0..(m + 1) : T[s] = DivisionStep(a, b, T, s)
    BY <1>1, <1>3, DivisionTable
  <2>3. InverseOf[b[db]] \in Elem
    BY <1>1, InverseExact
  <2>4. m + 1 \in K
    <3>1. T[m + 1] = <<[i \in 0..m |-> 0], a>>
      <4>1. m + 1 \in 0..(m + 1)
        BY <2>1
      <4>2. T[m + 1] = DivisionStep(a, b, T, m + 1)
        BY <2>2, <4>1
      <4> HIDE DEF T
      <4> QED
        BY <4>2 DEF DivisionStep
    <3>2. [i \in 0..m |-> 0] \in Poly(m)
      BY Units DEF Poly
    <3> HIDE DEF T
    <3> QED
      BY <2>1, <3>1, <3>2
  <2>5. ASSUME NEW s \in 0..m, s + 1 \in K PROVE s \in K
    <3> DEFINE q == T[s + 1][1]
               rem == T[s + 1][2]
               coef == ModMul(rem[s + db], InverseOf[b[db]])
               rem1 == [i \in 0..d |-> IF i \in s..(s + db)
                                       THEN ModSub(rem[i], ModMul(coef, b[i - s])) ELSE rem[i]]
    <3>1. T[s] = <<[q EXCEPT ![s] = coef], rem1>>
      <4>1. s \in 0..(m + 1) /\ s # da - db + 1
        BY <2>1
      <4>2. T[s] = DivisionStep(a, b, T, s)
        BY <2>2, <4>1
      <4> HIDE DEF T
      <4> QED
        BY <1>1, <4>1, <4>2 DEF DivisionStep
    <3>2. q \in Poly(m) /\ rem \in Poly(d)
      BY <2>5
    <3>3. s + db \in 0..d /\ \A i \in s..(s + db) : i - s \in 0..e /\ i \in 0..d
      BY <1>1, <2>1
    <3> HIDE DEF T, q, rem, da, db, m
    <3>4. coef \in Elem
      <4>1. rem[s + db] \in Elem
        BY <3>2, <3>3 DEF Poly
      <4> QED
        BY <2>3, <4>1, Ops
    <3> HIDE DEF coef
    <3>5. [q EXCEPT ![s] = coef] \in Poly(m)
      BY <3>2, <3>4 DEF Poly
    <3>6. ASSUME NEW i \in 0..d PROVE rem1[i] \in Elem
      <4>1. rem[i] \in Elem
        BY <3>2 DEF Poly
      <4>2. CASE i \in s..(s + db)
        <5>1. b[i - s] \in Elem
          BY <3>3, <4>2 DEF Poly
        <5>2. ModSub(rem[i], ModMul(coef, b[i - s])) \in Elem
          BY <3>4, <4>1, <5>1, Ops
        <5> QED
          BY <4>2, <5>2
      <4> QED
        BY <4>1, <4>2
    <3>7. rem1 \in Poly(d)
      BY <3>6 DEF Poly
    <3> HIDE DEF rem1
    <3>8. T[s][1] \in Poly(m) /\ T[s][2] \in Poly(d)
      BY <3>1, <3>5, <3>7
    <3> QED
      BY <2>1, <3>8
  <2>6. 0 \in K
    <3> HIDE DEF K, m
    <3>1. m + 1 \in Nat /\ \A s \in 0..((m + 1) - 1) : s \in 0..m
      BY <2>1
    <3>2. \A s \in 0..((m + 1) - 1) : s + 1 \in K => s \in K
      BY <2>5, <3>1
    <3>3. \A s \in 0..(m + 1) : s \in K
      BY <2>4, <3>1, <3>2, InductDown
    <3> QED
      BY <3>1, <3>3
  <2> HIDE DEF T
  <2> QED
    BY <1>1, <1>3, <2>2, <2>6
<1> QED
  BY <1>1, <1>2, <1>3

-----------------------------------------------------------------------------
(* gaussianSolve: the systems after each column.                           *)

Width(aug) == Cardinality(DOMAIN aug[1]) - 1

Reduction(aug, rows, row, piv, col) ==
  LET swapped == [rows EXCEPT ![row] = rows[piv], ![piv] = rows[row]]
      inv     == InverseOf[swapped[row][col]]
      unit    == [c \in 0..Width(aug) |-> ModMul(swapped[row][c], inv)]
  IN  [r \in 1..Len(aug) |->
         IF r = row THEN unit
         ELSE [c \in 0..Width(aug) |->
                 ModSub(swapped[r][c], ModMul(swapped[r][col], unit[c]))]]

\* The rows at or below a row with an entry in a column.
Entries(aug, rows, row, col) == {r \in row..Len(aug) : rows[r][col] # 0}

EchelonStep(aug, f, col) ==
  IF col = 0 THEN [rows |-> aug, pivots |-> <<>>]
  ELSE LET before == f[col - 1]
           row    == Len(before.pivots) + 1
           with   == Entries(aug, before.rows, row, col - 1)
       IN  IF with = {} THEN before
           ELSE [rows   |-> Reduction(aug, before.rows, row, Min(with), col - 1),
                 pivots |-> Append(before.pivots, col - 1)]

Echelons(aug) == CHOOSE f : f = [col \in 0..Width(aug) |-> EchelonStep(aug, f, col)]

Solution(aug) ==
  LET final == Echelons(aug)[Width(aug)] IN
  [c \in 0..(Width(aug) - 1) |->
     IF \E r \in DOMAIN final.pivots : final.pivots[r] = c
     THEN final.rows[CHOOSE r \in DOMAIN final.pivots : final.pivots[r] = c][Width(aug)]
     ELSE 0]

Inconsistent(aug) ==
  LET final == Echelons(aug)[Width(aug)] IN
  \E r \in (Len(final.pivots) + 1)..Len(aug) : final.rows[r][Width(aug)] # 0

\* Systems of m equations for w unknowns.
Systems(m, w) == [1..m -> [0..w -> Elem]]

LEMMA EchelonTable ==
  ASSUME NEW m \in Nat \ {0}, NEW w \in Nat, NEW aug \in Systems(m, w)
  PROVE  /\ Len(aug) = m /\ Width(aug) = w
         /\ GaussianSolve(aug) = IF Inconsistent(aug) THEN {} ELSE {Solution(aug)}
         /\ \A c \in 0..w : Echelons(aug)[c] = EchelonStep(aug, Echelons(aug), c)
<1>1. aug \in [1..m -> [0..w -> Elem]] /\ 1 \in 1..m
  BY DEF Systems
<1>2. Len(aug) = m
  BY <1>1
<1>3. DOMAIN aug[1] = 0..w /\ Cardinality(0..w) = w + 1
  BY <1>1, FS_Interval
<1>4. Width(aug) = w
  BY <1>3 DEF Width
<1>5. GaussianSolve(aug) = IF Inconsistent(aug) THEN {} ELSE {Solution(aug)}
  BY DEF GaussianSolve, Inconsistent, Solution, Echelons, EchelonStep, Entries, Reduction, Width
<1>6. ASSUME NEW f, NEW g, NEW j \in 0..w, j # 0 => f[j - 1] = g[j - 1]
      PROVE  EchelonStep(aug, f, j) = EchelonStep(aug, g, j)
  <2>1. CASE j = 0
    BY <2>1 DEF EchelonStep
  <2>2. CASE j # 0
    BY <1>6, <2>2 DEF EchelonStep
  <2> QED
    BY <2>1, <2>2
<1>7. \E f : f = [j \in 0..w |-> EchelonStep(aug, f, j)]
  <2> DEFINE V == {k \in 0..w : \E f : f = [j \in 0..k |-> EchelonStep(aug, f, j)]}
  <2>1. 0 \in V
    <3> DEFINE f == [j \in 0..0 |-> EchelonStep(aug, aug, j)]
    <3>1. f = [j \in 0..0 |-> EchelonStep(aug, f, j)]
      <4>1. \A j \in 0..0 : j = 0 /\ j \in 0..w
        OBVIOUS
      <4> HIDE DEF f
      <4>2. \A j \in 0..0 : EchelonStep(aug, aug, j) = EchelonStep(aug, f, j)
        BY <1>6, <4>1
      <4> QED
        BY <4>2 DEF f
    <3> HIDE DEF f
    <3> QED
      BY <3>1
  <2>2. ASSUME NEW k \in 0..(w - 1), k \in V PROVE k + 1 \in V
    <3>1. PICK f : f = [j \in 0..k |-> EchelonStep(aug, f, j)]
      BY <2>2
    <3> DEFINE g == [j \in 0..(k + 1) |-> IF j = k + 1 THEN EchelonStep(aug, f, k + 1) ELSE f[j]]
    <3>2. ASSUME NEW j \in 0..(k + 1) PROVE g[j] = EchelonStep(aug, g, j)
      <4>1. j # 0 => f[j - 1] = g[j - 1]
        OBVIOUS
      <4>2. j \in 0..w
        OBVIOUS
      <4>3. g[j] = EchelonStep(aug, f, j)
        <5>1. CASE j = k + 1
          BY <5>1
        <5>2. CASE j # k + 1
          <6>1. j \in 0..k
            BY <5>2
          <6> QED
            BY <3>1, <6>1
        <5> QED
          BY <5>1, <5>2
      <4> HIDE DEF g
      <4> QED
        BY <1>6, <4>1, <4>2, <4>3
    <3>3. g = [j \in 0..(k + 1) |-> g[j]]
      OBVIOUS
    <3>4. k + 1 \in 0..w
      OBVIOUS
    <3> HIDE DEF g
    <3> QED
      BY <3>2, <3>3, <3>4
  <2>3. w \in V
    <3> HIDE DEF V
    <3> QED
      BY <2>1, <2>2, InductTo
  <2> QED
    BY <2>3
<1>8. Echelons(aug) = [j \in 0..w |-> EchelonStep(aug, Echelons(aug), j)]
  <2>1. Echelons(aug) = CHOOSE f : f = [j \in 0..w |-> EchelonStep(aug, f, j)]
    BY <1>4 DEF Echelons
  <2> QED
    BY <1>7, <2>1
<1> QED
  BY <1>2, <1>4, <1>5, <1>8

\* A step of the elimination: rows of the same shape, pivots among the columns.
EchelonOK(m, w, x) ==
  /\ x.rows \in Systems(m, w)
  /\ x.pivots \in Seq(0..(w - 1)) /\ Len(x.pivots) <= m

LEMMA MinExists ==
  ASSUME NEW S \in SUBSET Nat, S # {}
  PROVE  Min(S) \in S /\ \A y \in S : Min(S) <= y
<1>1. \E x \in S : \A y \in S : x =< y
  BY Least
<1> QED
  BY <1>1 DEF Min

LEMMA ReductionType ==
  ASSUME NEW m \in Nat \ {0}, NEW w \in Nat, NEW aug \in Systems(m, w),
         NEW rows \in Systems(m, w), NEW row \in 1..m, NEW piv \in 1..m, NEW col \in 0..w,
         rows[piv][col] # 0
  PROVE  Reduction(aug, rows, row, piv, col) \in Systems(m, w)
<1> DEFINE swapped == [rows EXCEPT ![row] = rows[piv], ![piv] = rows[row]]
           inv     == InverseOf[swapped[row][col]]
           unit    == [c \in 0..w |-> ModMul(swapped[row][c], inv)]
           res     == [r \in 1..m |-> IF r = row THEN unit
                         ELSE [c \in 0..w |->
                                 ModSub(swapped[r][c], ModMul(swapped[r][col], unit[c]))]]
<1>1. Len(aug) = m /\ Width(aug) = w
  BY EchelonTable
<1>2. Reduction(aug, rows, row, piv, col) = res
  BY <1>1 DEF Reduction
<1>3. \A r \in 1..m, c \in 0..w : rows[r][c] \in Elem
  BY DEF Systems
<1>4. /\ \A r \in 1..m, c \in 0..w : swapped[r][c] \in Elem
      /\ swapped[row] = rows[piv]
  <2>1. \A r \in 1..m : swapped[r] \in {rows[k] : k \in 1..m}
    BY DEF Systems
  <2>2. swapped[row] = rows[piv]
    BY DEF Systems
  <2> HIDE DEF swapped
  <2> QED
    BY <1>3, <2>1, <2>2
<1> HIDE DEF swapped
<1>5. inv \in Elem
  <2>1. swapped[row][col] \in Elem \ {0}
    BY <1>3, <1>4
  <2> QED
    BY <2>1, InverseExact
<1> HIDE DEF inv
<1>6. unit \in [0..w -> Elem]
  BY <1>4, <1>5, Ops
<1> HIDE DEF unit
<1>7. ASSUME NEW r \in 1..m
      PROVE  [c \in 0..w |-> ModSub(swapped[r][c], ModMul(swapped[r][col], unit[c]))] \in [0..w -> Elem]
  <2>1. ASSUME NEW c \in 0..w
        PROVE  ModSub(swapped[r][c], ModMul(swapped[r][col], unit[c])) \in Elem
    <3>1. swapped[r][c] \in Elem /\ swapped[r][col] \in Elem /\ unit[c] \in Elem
      BY <1>4, <1>6
    <3> QED
      BY <3>1, Ops
  <2> QED
    BY <2>1
<1>8. res \in [1..m -> [0..w -> Elem]]
  BY <1>6, <1>7
<1> HIDE DEF res
<1> QED
  BY <1>2, <1>8 DEF Systems

LEMMA EchelonType ==
  ASSUME NEW m \in Nat \ {0}, NEW w \in Nat, NEW aug \in Systems(m, w)
  PROVE  \A c \in 0..w : EchelonOK(m, w, Echelons(aug)[c])
<1> DEFINE T == Echelons(aug)
           V == {c \in 0..w : EchelonOK(m, w, T[c])}
<1>1. Len(aug) = m /\ \A c \in 0..w : T[c] = EchelonStep(aug, T, c)
  BY EchelonTable
<1> HIDE DEF T
<1>2. 0 \in V
  <2>1. 0 \in 0..w /\ T[0] = EchelonStep(aug, T, 0)
    BY <1>1
  <2>2. T[0] = [rows |-> aug, pivots |-> <<>>]
    BY <2>1 DEF EchelonStep
  <2>3. <<>> \in Seq(0..(w - 1)) /\ Len(<<>>) <= m
    OBVIOUS
  <2>4. T[0].rows = aug /\ T[0].pivots = <<>>
    BY <2>2
  <2>5. EchelonOK(m, w, T[0])
    BY <2>3, <2>4 DEF EchelonOK
  <2> QED
    BY <2>1, <2>5
<1>3. ASSUME NEW k \in 0..(w - 1), k \in V PROVE k + 1 \in V
  <2> DEFINE rows == T[k].rows
             pivots == T[k].pivots
             row == Len(pivots) + 1
             with == Entries(aug, rows, row, k)
  <2>1. rows \in Systems(m, w) /\ pivots \in Seq(0..(w - 1)) /\ Len(pivots) <= m
    BY <1>3 DEF EchelonOK
  <2>2. k \in 0..w /\ k + 1 \in 0..w /\ k \in 0..(w - 1) /\ (k + 1) - 1 = k /\ k + 1 # 0
    OBVIOUS
  <2>3. T[k + 1] = IF with = {} THEN T[k]
                   ELSE [rows |-> Reduction(aug, rows, row, Min(with), k),
                         pivots |-> Append(pivots, k)]
    <3>1. T[k + 1] = EchelonStep(aug, T, k + 1)
      BY <1>1, <2>2
    <3> QED
      BY <2>2, <3>1 DEF EchelonStep
  <2>4. CASE with = {}
    BY <1>3, <2>2, <2>3, <2>4
  <2>5. CASE with # {}
    <3>0. Len(pivots) \in Nat
      BY <2>1
    <3>1. with \in SUBSET Nat /\ \A r \in with : r \in row..m /\ rows[r][k] # 0
      BY <1>1, <3>0 DEF Entries
    <3> DEFINE piv == Min(with)
    <3>2. piv \in row..m /\ rows[piv][k] # 0
      <4> HIDE DEF with
      <4> QED
        BY <2>5, <3>1, MinExists
    <3>3. row \in 1..m /\ piv \in 1..m
      BY <3>0, <3>2
    <3> DEFINE new == Reduction(aug, rows, row, piv, k)
               list == Append(pivots, k)
    <3>4. T[k + 1] = [rows |-> new, pivots |-> list]
      BY <2>3, <2>5
    <3>5. new \in Systems(m, w)
      <4> HIDE DEF piv, row, rows
      <4> QED
        BY <2>1, <2>2, <3>2, <3>3, ReductionType
    <3>6. list \in Seq(0..(w - 1)) /\ Len(list) <= m
      <4>1. Len(list) = row
        BY <2>1
      <4>2. list \in Seq(0..(w - 1))
        <5> HIDE DEF pivots
        <5> QED
          BY <2>1, <2>2
      <4> HIDE DEF row, list
      <4> QED
        BY <3>3, <4>1, <4>2
    <3> HIDE DEF new, list
    <3>7. EchelonOK(m, w, T[k + 1])
      BY <3>4, <3>5, <3>6 DEF EchelonOK
    <3> QED
      BY <2>2, <3>7
  <2> QED
    BY <2>4, <2>5
<1>4. \A c \in 0..w : c \in V
  <2> HIDE DEF V
  <2> QED
    BY <1>2, <1>3, InductTo
<1> QED
  BY <1>4 DEF T

(* A solution that is returned gives each unknown an element.              *)
LEMMA SolutionType ==
  ASSUME NEW m \in Nat \ {0}, NEW w \in Nat, NEW aug \in Systems(m, w),
         NEW sol \in GaussianSolve(aug)
  PROVE  sol \in [0..(w - 1) -> Elem]
<1> DEFINE final == Echelons(aug)[w]
           At(c) == CHOOSE r \in DOMAIN final.pivots : final.pivots[r] = c
<1>1. Width(aug) = w /\ sol = Solution(aug)
  BY EchelonTable
<1>2. w \in 0..w
  OBVIOUS
<1>3. EchelonOK(m, w, final)
  BY <1>2, EchelonType
<1>4. sol = [c \in 0..(w - 1) |->
               IF \E r \in DOMAIN final.pivots : final.pivots[r] = c
               THEN final.rows[At(c)][w] ELSE 0]
  BY <1>1 DEF Solution
<1> HIDE DEF final
<1>5. ASSUME NEW c, \E r \in DOMAIN final.pivots : final.pivots[r] = c
      PROVE  final.rows[At(c)][w] \in Elem
  <2> DEFINE r == At(c)
  <2>1. r \in DOMAIN final.pivots
    BY <1>5
  <2>2. DOMAIN final.pivots = 1..Len(final.pivots) /\ Len(final.pivots) \in Nat
    BY <1>3 DEF EchelonOK
  <2> HIDE DEF r
  <2>3. r \in 1..m
    BY <1>3, <2>1, <2>2 DEF EchelonOK
  <2>4. final.rows[r][w] \in Elem
    BY <1>2, <1>3, <2>3 DEF EchelonOK, Systems
  <2> QED
    BY <2>4 DEF r
<1> HIDE DEF At
<1> QED
  BY <1>4, <1>5, Units

-----------------------------------------------------------------------------
(* The order of the points.                                                *)

LEMMA AscendingExact ==
  ASSUME NEW S \in SUBSET Int, IsFiniteSet(S)
  PROVE  /\ Cardinality(S) \in Nat /\ DOMAIN Ascending(S) = 1..Cardinality(S)
         /\ \A k \in 1..Cardinality(S) :
              /\ Ascending(S)[k] \in S
              /\ Cardinality({y \in S : y < Ascending(S)[k]}) = k - 1
         /\ \A j, k \in 1..Cardinality(S) : j # k => Ascending(S)[j] # Ascending(S)[k]
<1> DEFINE n == Cardinality(S)
           rank == [x \in S |-> Cardinality({y \in S : y < x})]
           ranks == {rank[x] : x \in S}
<1>1. n \in Nat
  BY FS_CardinalityType
<1>2. \A x \in S : IsFiniteSet({y \in S : y < x}) /\ rank[x] \in Nat /\ rank[x] <= n - 1
  <2>1. ASSUME NEW x \in S
        PROVE  IsFiniteSet({y \in S : y < x}) /\ rank[x] \in Nat /\ rank[x] <= n - 1
    <3> DEFINE B == {y \in S : y < x}
    <3>1. B \in SUBSET (S \ {x})
      OBVIOUS
    <3>2. IsFiniteSet(S \ {x}) /\ Cardinality(S \ {x}) = n - 1
      BY FS_RemoveElement
    <3>3. rank[x] = Cardinality(B)
      OBVIOUS
    <3> HIDE DEF B, rank
    <3>4. IsFiniteSet(B) /\ Cardinality(B) <= Cardinality(S \ {x})
      BY <3>1, <3>2, FS_Subset
    <3>5. Cardinality(B) \in Nat
      BY <3>4, FS_CardinalityType
    <3> QED
      BY <3>2, <3>3, <3>4, <3>5 DEF B
  <2> QED
    BY <2>1
<1>3. ASSUME NEW x \in S, NEW z \in S, x < z PROVE rank[x] < rank[z]
  <2> DEFINE B == {y \in S : y < x}
             C == {y \in S : y < z}
  <2>1. B \in SUBSET C /\ x \in C /\ x \notin B
    <3>1. \A y \in S : y \in Int
      OBVIOUS
    <3>2. \A y \in S : y < x => y < z
      BY <1>3, <3>1
    <3> HIDE DEF rank
    <3>3. B \in SUBSET C
      BY <3>2
    <3>4. x \in C
      BY <1>3
    <3>5. x \notin B
      BY <3>1
    <3> QED
      BY <3>3, <3>4, <3>5
  <2>2. rank[x] = Cardinality(B) /\ rank[z] = Cardinality(C) /\ IsFiniteSet(C)
    BY <1>2
  <2>3. rank[x] \in Nat /\ rank[z] \in Nat
    BY <1>2
  <2> HIDE DEF B, C, rank
  <2>4. Cardinality(B) <= Cardinality(C) /\ (Cardinality(C) = Cardinality(B) => C = B)
    BY <2>1, <2>2, FS_Subset
  <2>5. B # C
    BY <2>1
  <2> QED
    BY <2>2, <2>3, <2>4, <2>5
<1>4. \A x, z \in S : x # z => rank[x] # rank[z]
  <2>1. ASSUME NEW x \in S, NEW z \in S, x # z PROVE rank[x] # rank[z]
    <3>1. rank[x] \in Nat /\ rank[z] \in Nat /\ x \in Int /\ z \in Int
      BY <1>2
    <3> HIDE DEF rank
    <3>2. x < z \/ z < x
      BY <2>1, <3>1
    <3> QED
      BY <1>3, <3>1, <3>2
  <2> QED
    BY <2>1
<1> HIDE DEF rank
<1>5. IsFiniteSet(ranks) /\ Cardinality(ranks) = n
  BY <1>4, DistinctCount
<1>6. ranks = 0..(n - 1)
  <2>0. ASSUME NEW x \in S PROVE rank[x] \in 0..(n - 1)
    <3>1. rank[x] \in Nat /\ rank[x] <= n - 1
      BY <1>2
    <3> HIDE DEF n
    <3> QED
      BY <1>1, <3>1
  <2>1. ranks \in SUBSET (0..(n - 1))
    BY <2>0
  <2>2. IsFiniteSet(0..(n - 1)) /\ Cardinality(0..(n - 1)) = n
    <3> HIDE DEF n
    <3>1. n \in Nat /\ 0 \in Int /\ n - 1 \in Int
      BY <1>1
    <3> DEFINE m == n - 1
    <3>2. m \in Int /\ m - 0 + 1 = n /\ (0 > m => n = 0)
      BY <3>1
    <3> HIDE DEF m
    <3>3. IsFiniteSet(0..m) /\ Cardinality(0..m) = IF 0 > m THEN 0 ELSE m - 0 + 1
      BY <3>2, FS_Interval
    <3> QED
      BY <3>2, <3>3 DEF m
  <2> HIDE DEF ranks
  <2> QED
    BY <1>5, <2>1, <2>2, FS_Subset
<1>7. ASSUME NEW k \in 1..n PROVE Ascending(S)[k] \in S /\ rank[Ascending(S)[k]] = k - 1
  <2>1. k - 1 \in 0..(n - 1)
    BY <1>1
  <2>2. \E x \in S : rank[x] = k - 1
    BY <1>6, <2>1
  <2>3. \E x \in S : Cardinality({y \in S : y < x}) = k - 1
    BY <2>2 DEF rank
  <2>4. Ascending(S)[k] = CHOOSE x \in S : Cardinality({y \in S : y < x}) = k - 1
    BY DEF Ascending
  <2>5. Ascending(S)[k] \in S /\ Cardinality({y \in S : y < Ascending(S)[k]}) = k - 1
    BY <2>3, <2>4
  <2> QED
    BY <2>5 DEF rank
<1>8. DOMAIN Ascending(S) = 1..n
  BY DEF Ascending
<1>9. ASSUME NEW j \in 1..n, NEW k \in 1..n, j # k PROVE Ascending(S)[j] # Ascending(S)[k]
  BY <1>1, <1>7, <1>9
<1>10. \A k \in 1..n : Cardinality({y \in S : y < Ascending(S)[k]}) = k - 1
  BY <1>7 DEF rank
<1> QED
  BY <1>1, <1>7, <1>8, <1>9, <1>10

LEMMA AscendingOnto ==
  ASSUME NEW S \in SUBSET Int, IsFiniteSet(S), NEW x \in S
  PROVE  \E k \in 1..Cardinality(S) : Ascending(S)[k] = x
<1> DEFINE n == Cardinality(S)
           xs == Ascending(S)
           R == {xs[k] : k \in 1..n}
<1>1. /\ n \in Nat /\ \A k \in 1..n : xs[k] \in S
      /\ \A j, k \in 1..n : j # k => xs[j] # xs[k]
  BY AscendingExact
<1> HIDE DEF xs
<1>2. IsFiniteSet(1..n) /\ Cardinality(1..n) = n
  BY <1>1, FS_Interval
<1>3. Cardinality(R) = n
  <2> HIDE DEF n
  <2>1. Cardinality(R) = Cardinality(1..n)
    BY <1>1, <1>2, DistinctCount
  <2> QED
    BY <1>2, <2>1
<1>4. R \in SUBSET S
  BY <1>1
<1>5. R = S
  <2> HIDE DEF R
  <2> QED
    BY <1>3, <1>4, FS_Subset
<1> QED
  BY <1>5 DEF xs

\* A list of n points in another order.
Reordered(points, sorted, n, pi) ==
  /\ pi \in [1..n -> 1..n]
  /\ \A j, k \in 1..n : j # k => pi[j] # pi[k]
  /\ sorted = [k \in 1..n |-> points[pi[k]]]

LEMMA SortReorders ==
  ASSUME NEW n \in Nat, NEW points \in Points(n)
  PROVE  \E pi : Reordered(points, SortedByX(points), n, pi)
<1> DEFINE S == {points[i][1] : i \in 1..n}
           xs == Ascending(S)
           x == [i \in 1..n |-> points[i][1]]
           At(k) == CHOOSE i \in 1..n : points[i][1] = xs[k]
           pi == [k \in 1..n |-> At(k)]
<1>1. DOMAIN points = 1..n /\ \A i \in 1..n : points[i][1] \in Elem
  <2>1. points \in [1..n -> Elem \X Elem]
    BY DEF Points
  <2> QED
    BY <2>1
<1>2. IsFiniteSet(1..n) /\ Cardinality(1..n) = n
  BY FS_Interval
<1>3. IsFiniteSet(S) /\ Cardinality(S) = n
  <2>1. \A i, j \in 1..n : i # j => x[i] # x[j]
    BY DEF Points
  <2>2. S = {x[i] : i \in 1..n}
    OBVIOUS
  <2> HIDE DEF x
  <2>3. IsFiniteSet({x[i] : i \in 1..n}) /\ Cardinality({x[i] : i \in 1..n}) = Cardinality(1..n)
    BY <1>2, <2>1, DistinctCount
  <2> QED
    BY <1>2, <2>2, <2>3
<1>4. S \in SUBSET Int
  BY <1>1, Units
<1>5. (\A k \in 1..n : xs[k] \in S) /\ \A j, k \in 1..n : j # k => xs[j] # xs[k]
  <2> HIDE DEF S
  <2> QED
    BY <1>3, <1>4, AscendingExact
<1>6. \A k \in 1..n : At(k) \in 1..n /\ points[At(k)][1] = xs[k]
  <2>1. \A k \in 1..n : \E i \in 1..n : points[i][1] = xs[k]
    BY <1>5
  <2> HIDE DEF xs
  <2> QED
    BY <2>1
<1>7. SortedByX(points) = [k \in 1..n |-> points[pi[k]]]
  <2>1. SortedByX(points) = [k \in 1..n |-> points[At(k)]]
    BY <1>1 DEF SortedByX
  <2> HIDE DEF At
  <2> QED
    BY <2>1
<1> HIDE DEF At, xs
<1>8. pi \in [1..n -> 1..n]
  BY <1>6
<1>9. \A j, k \in 1..n : j # k => pi[j] # pi[k]
  BY <1>5, <1>6
<1> HIDE DEF pi
<1> QED
  BY <1>7, <1>8, <1>9 DEF Reordered

\* The points of a list that are on a polynomial.
Agreeing(points, c) == {k \in DOMAIN points : points[k][2] = Evaluate(c, points[k][1])}

LEMMA ReorderedSame ==
  ASSUME NEW n \in Nat, NEW points \in Points(n), NEW sorted, NEW pi,
         Reordered(points, sorted, n, pi), NEW c
  PROVE  /\ sorted \in Points(n)
         /\ Cardinality(Agreeing(sorted, c)) = Cardinality(Agreeing(points, c))
<1>1. points \in [1..n -> Elem \X Elem] /\ \A i, j \in 1..n : i # j => points[i][1] # points[j][1]
  BY DEF Points
<1>2. /\ pi \in [1..n -> 1..n] /\ \A j, k \in 1..n : j # k => pi[j] # pi[k]
      /\ sorted = [k \in 1..n |-> points[pi[k]]]
  BY DEF Reordered
<1>3. \A k \in 1..n : pi[k] \in 1..n
  BY <1>2
<1>4. sorted \in Points(n)
  BY <1>1, <1>2, <1>3 DEF Points
<1> DEFINE A == Agreeing(sorted, c)
           B == Agreeing(points, c)
<1>5. \A k \in 1..n : k \in A <=> pi[k] \in B
  BY <1>1, <1>2, <1>3 DEF Agreeing
<1>6. A \in SUBSET (1..n) /\ B \in SUBSET (1..n)
  BY <1>1, <1>2 DEF Agreeing
<1> HIDE DEF A, B
<1>7. IsFiniteSet(1..n) /\ IsFiniteSet(A)
  <2>1. IsFiniteSet(1..n)
    BY FS_Interval
  <2> QED
    BY <1>6, <2>1, FS_Subset
<1> DEFINE I == {pi[k] : k \in A}
<1>8. Cardinality(I) = Cardinality(A)
  <2>1. \A j, k \in A : j # k => pi[j] # pi[k]
    BY <1>2, <1>6
  <2> QED
    BY <1>7, <2>1, DistinctCount
<1>9. I = B
  <2>1. I \in SUBSET B
    BY <1>5, <1>6
  <2>2. ASSUME NEW i \in B PROVE i \in I
    <3> DEFINE J == {pi[k] : k \in 1..n}
    <3>1. Cardinality(J) = Cardinality(1..n)
      <4>1. \A j, k \in 1..n : j # k => pi[j] # pi[k]
        BY <1>2
      <4> QED
        BY <1>7, <4>1, DistinctCount
    <3>2. J \in SUBSET (1..n)
      BY <1>3
    <3>3. J = 1..n
      <4> HIDE DEF J
      <4> QED
        BY <1>7, <3>1, <3>2, FS_Subset
    <3>4. PICK k \in 1..n : pi[k] = i
      BY <1>6, <3>3
    <3> QED
      BY <1>5, <3>4
  <2> QED
    BY <2>1, <2>2
<1> QED
  BY <1>4, <1>8, <1>9 DEF A, B

-----------------------------------------------------------------------------
(* The decoder returns the value of a polynomial that enough points are on. *)

\* The polynomial that a result is the value at zero of.
LEMMA AgreementDecides ==
  ASSUME NEW n \in Nat, NEW points \in Points(n), NEW d \in Nat, NEW c \in Poly(d), NEW b \in Poly(d),
         NEW R \in SUBSET (1..n), Cardinality(R) > d,
         \A k \in R : points[k][2] = Evaluate(c, points[k][1])
                      /\ points[k][2] = Evaluate(b, points[k][1])
  PROVE  b = c
<1> DEFINE x == [k \in 1..n |-> points[k][1]]
           X == {x[k] : k \in R}
<1>1. points \in [1..n -> Elem \X Elem] /\ \A i, j \in 1..n : i # j => points[i][1] # points[j][1]
  BY DEF Points
<1>2. \A k \in R : k \in 1..n /\ x[k] = points[k][1] /\ x[k] \in Elem
  <2>1. \A k \in 1..n : points[k] \in Elem \X Elem
    BY <1>1
  <2> QED
    BY <2>1
<1>3. \A j, k \in R : j # k => x[j] # x[k]
  BY <1>1, <1>2
<1>4. IsFiniteSet(R)
  <2>1. IsFiniteSet(1..n)
    BY FS_Interval
  <2> QED
    BY <2>1, FS_Subset
<1>5. \A z \in X : Evaluate(c, z) = Evaluate(b, z)
  BY <1>2
<1>6. X \in SUBSET Elem
  BY <1>2
<1> HIDE DEF x
<1>7. IsFiniteSet(X) /\ Cardinality(X) = Cardinality(R)
  BY <1>3, <1>4, DistinctCount
<1>8. Cardinality(X) > d
  BY <1>7
<1> HIDE DEF X
<1> QED
  BY <1>5, <1>6, <1>7, <1>8, OnePolynomial

\* The indices at which a list of points differs from a polynomial.
Wrong(points, c) == DOMAIN points \ Agreeing(points, c)

LEMMA WrongCount ==
  ASSUME NEW n \in Nat, NEW points \in Points(n), NEW c
  PROVE  /\ DOMAIN points = 1..n
         /\ Agreeing(points, c) \in SUBSET (1..n) /\ IsFiniteSet(Agreeing(points, c))
         /\ Cardinality(Agreeing(points, c)) \in Nat
         /\ Cardinality(Wrong(points, c)) = n - Cardinality(Agreeing(points, c))
<1> DEFINE A == Agreeing(points, c)
           B == Wrong(points, c)
           U == 1..n
<1>1. DOMAIN points = U
  BY DEF Points
<1>2. A \in SUBSET U /\ B = U \ A
  BY <1>1 DEF Agreeing, Wrong
<1>3. IsFiniteSet(U) /\ Cardinality(U) = n
  <2>1. 1 \in Int /\ n \in Int
    OBVIOUS
  <2> QED
    BY <2>1, FS_Interval
<1> HIDE DEF A, B, U
<1>4. IsFiniteSet(A) /\ IsFiniteSet(B)
  <2>1. B \in SUBSET U
    BY <1>2
  <2> QED
    BY <1>2, <1>3, <2>1, FS_Subset
<1>5. Cardinality(A) \in Nat /\ Cardinality(B) \in Nat
  BY <1>4, FS_CardinalityType
<1>6. A \cup B = U /\ A \cap B = {}
  BY <1>2
<1>7. Cardinality(A \cup B) = Cardinality(A) + Cardinality(B) - Cardinality(A \cap B)
  BY <1>4, FS_Union
<1>8. Cardinality({}) = 0
  BY FS_EmptySet
<1>9. Cardinality(B) = n - Cardinality(A)
  BY <1>3, <1>5, <1>6, <1>7, <1>8
<1> QED
  BY <1>1, <1>2, <1>4, <1>5, <1>9 DEF A, B, U

LEMMA FastPathAnswer ==
  ASSUME NEW n \in Nat, NEW points \in Points(n), NEW d \in Nat, d < n, NEW v \in FastPath(points, d)
  PROVE  \E q \in Poly(d) : v = q[0] /\ Wrong(points, q) = {}
<1> DEFINE first == SubSeq(points, 1, d + 1)
           q == NewtonInterpolate(first)
<1>1. points \in [1..n -> Elem \X Elem] /\ \A i, j \in 1..n : i # j => points[i][1] # points[j][1]
  BY DEF Points
<1>2. first \in Points(d + 1)
  <2>1. points \in Seq(Elem \X Elem) /\ Len(points) = n
    BY <1>1
  <2>2. first = [i \in 1..(d + 1) |-> points[i]]
    BY <2>1
  <2>3. \A i \in 1..(d + 1) : i \in 1..n
    OBVIOUS
  <2> HIDE DEF first
  <2> QED
    BY <1>1, <2>2, <2>3 DEF Points
<1>3. q \in Poly(d)
  <2> HIDE DEF first
  <2> QED
    BY <1>2, NewtonType
<1>4. FastPath(points, d) = IF Disagreements(points, q) = {} THEN {q[0]} ELSE {}
  BY DEF FastPath
<1> HIDE DEF q
<1>5. v = q[0] /\ Disagreements(points, q) = {}
  BY <1>4
<1>6. ASSUME NEW k \in 1..n PROVE points[k][2] = Evaluate(q, points[k][1])
  <2>1. PolyEvalAt(q, points[k][1]) = points[k][2]
    BY <1>1, <1>5 DEF Disagreements
  <2>2. points[k] \in Elem \X Elem
    BY <1>1
  <2>3. points[k][1] \in Elem
    BY <2>2
  <2> QED
    BY <1>3, <2>1, <2>3, EvaluateIsSum
<1>7. Wrong(points, q) = {}
  BY <1>1, <1>6 DEF Wrong, Agreeing
<1> QED
  BY <1>3, <1>5, <1>7

LEMMA KeySystem ==
  ASSUME NEW n \in Nat, NEW points \in Points(n), NEW d \in Nat, NEW e \in Nat
  PROVE  KeyEquations(points, d, e) \in Systems(n, d + e + 1 + e)
<1> DEFINE numN == d + e + 1
           w == d + e + 1 + e
           row(k) == [j \in 0..(numN + e) |->
                        IF j < numN THEN Pow(points[k][1], j)
                        ELSE IF j < numN + e
                        THEN ModSub(0, ModMul(points[k][2], Pow(points[k][1], j - numN)))
                        ELSE ModMul(points[k][2], Pow(points[k][1], e))]
<1>1. points \in [1..n -> Elem \X Elem]
  BY DEF Points
<1>2. KeyEquations(points, d, e) = [k \in 1..n |-> row(k)]
  BY <1>1 DEF KeyEquations
<1>3. ASSUME NEW k \in 1..n PROVE row(k) \in [0..w -> Elem]
  <2> DEFINE x == points[k][1]
             y == points[k][2]
  <2>1. x \in Elem /\ y \in Elem
    <3>1. points[k] \in Elem \X Elem
      BY <1>1
    <3> QED
      BY <3>1
  <2> HIDE DEF x, y
  <2>2. \A j \in Nat : Pow(x, j) \in Elem
    BY <2>1, PowUnfolds
  <2>3. \A j \in Nat : ModMul(y, Pow(x, j)) \in Elem /\ ModSub(0, ModMul(y, Pow(x, j))) \in Elem
    BY <2>1, <2>2, Ops, Units
  <2>4. \A j \in 0..w : j \in Nat /\ (~ (j < numN) => j - numN \in Nat)
    OBVIOUS
  <2>5. ASSUME NEW j \in 0..w
        PROVE  (IF j < numN THEN Pow(x, j)
                ELSE IF j < numN + e THEN ModSub(0, ModMul(y, Pow(x, j - numN)))
                ELSE ModMul(y, Pow(x, e))) \in Elem
    BY <2>2, <2>3, <2>4
  <2>6. row(k) = [j \in 0..w |-> IF j < numN THEN Pow(x, j)
                ELSE IF j < numN + e THEN ModSub(0, ModMul(y, Pow(x, j - numN)))
                ELSE ModMul(y, Pow(x, e))]
    BY DEF x, y
  <2> HIDE DEF row, numN
  <2> QED
    BY <2>5, <2>6
<1> HIDE DEF row
<1> QED
  BY <1>2, <1>3 DEF Systems

LEMMA BerlekampWelchAnswer ==
  ASSUME NEW n \in Nat, NEW points \in Points(n), NEW d \in Nat, NEW e \in Nat, d < n,
         NEW v \in BerlekampWelch(points, d, e)
  PROVE  \E q \in Poly(d) : v = q[0] /\ Cardinality(Wrong(points, q)) <= e
<1> DEFINE numN == d + e + 1
           aug == KeyEquations(points, d, e)
           nCoeffs(sol) == [i \in 0..(numN - 1) |-> sol[i]]
           eCoeffs(sol) == [i \in 0..e |-> IF i = e THEN 1 ELSE sol[numN + i]]
           quotient(sol) == PolyDivMod(nCoeffs(sol), eCoeffs(sol))[1]
           rest(sol) == PolyDivMod(nCoeffs(sol), eCoeffs(sol))[2]
<1>1. points \in [1..n -> Elem \X Elem] /\ \A i, j \in 1..n : i # j => points[i][1] # points[j][1]
  BY DEF Points
<1>2. PICK sol \in GaussianSolve(aug) :
        /\ PolyDegree(quotient(sol)) <= d
        /\ Cardinality(Disagreements(points, quotient(sol))) <= e
        /\ v = PolyEvalAt(quotient(sol), 0)
  <2>1. BerlekampWelch(points, d, e)
          = UNION {IF /\ PolyDegree(rest(sol)) = -1
                      /\ PolyDegree(quotient(sol)) <= d
                      /\ Cardinality(Disagreements(points, quotient(sol))) <= e
                   THEN {PolyEvalAt(quotient(sol), 0)} ELSE {} : sol \in GaussianSolve(aug)}
    BY DEF BerlekampWelch
  <2> HIDE DEF aug, quotient, rest
  <2> QED
    BY <2>1
<1> DEFINE a == nCoeffs(sol)
           b == eCoeffs(sol)
           q == quotient(sol)
<1>3. sol \in [0..(numN + e - 1) -> Elem]
  <2> DEFINE w == numN + e
  <2>1. aug \in Systems(n, w)
    BY KeySystem
  <2>2. n \in Nat \ {0} /\ w \in Nat
    OBVIOUS
  <2>3. sol \in GaussianSolve(aug)
    BY <1>2
  <2> HIDE DEF aug, w
  <2>4. sol \in [0..(w - 1) -> Elem]
    BY <2>1, <2>2, <2>3, SolutionType
  <2> QED
    BY <2>4 DEF w
<1>4. a \in Poly(d + e)
  BY <1>3 DEF Poly
<1>5. b \in Poly(e) /\ b[e] = 1
  BY <1>3, Units DEF Poly
<1>6. q = PolyDivMod(a, b)[1]
  OBVIOUS
<1>7. PolyDegree(q) <= d /\ Cardinality(Disagreements(points, q)) <= e /\ v = PolyEvalAt(q, 0)
  BY <1>2
<1> HIDE DEF a, b, q
<1>8. PolyDegree(b) # -1
  <2>1. Coef(b, e) = 1 /\ e > -1
    BY <1>5 DEF Coef, Poly
  <2> QED
    BY <1>5, <2>1, DegreeExact
<1>9. PICK m \in Nat : q \in Poly(m)
  <2>1. d + e \in Nat
    OBVIOUS
  <2>2. PolyDegree(a) \in Int /\ PolyDegree(b) \in Int
    BY <1>4, <1>5, <2>1, DegreeExact
  <2>3. /\ PolyDegree(a) < PolyDegree(b) => q \in Poly(0)
        /\ PolyDegree(a) >= PolyDegree(b) => q \in Poly(PolyDegree(a) - PolyDegree(b))
    BY <1>4, <1>5, <1>6, <1>8, <2>1, DivisionType
  <2>4. PolyDegree(a) >= PolyDegree(b) => PolyDegree(a) - PolyDegree(b) \in Nat
    BY <2>2
  <2> QED
    BY <2>2, <2>3, <2>4
<1> DEFINE t == Trim(q, d)
<1>10. t \in Poly(d) /\ \A x \in Elem : Evaluate(t, x) = PolyEvalAt(q, x)
  BY <1>7, <1>9, Trimmed, EvaluateIsSum
<1> HIDE DEF t
<1>11. Disagreements(points, q) = Wrong(points, t)
  <2>1. ASSUME NEW k \in 1..n PROVE PolyEvalAt(q, points[k][1]) = Evaluate(t, points[k][1])
    <3>1. points[k] \in Elem \X Elem
      BY <1>1
    <3>2. points[k][1] \in Elem
      BY <3>1
    <3> QED
      BY <1>10, <3>2
  <2>2. DOMAIN points = 1..n
    BY <1>1
  <2> QED
    BY <2>1, <2>2 DEF Disagreements, Wrong, Agreeing
<1>12. v = t[0]
  <2>1. v = Evaluate(t, 0)
    BY <1>7, <1>10, Units
  <2> QED
    BY <1>10, <2>1, EvaluateAtZero
<1> QED
  BY <1>7, <1>10, <1>11, <1>12

-----------------------------------------------------------------------------
(* newtonInterpolate finds the polynomial that its points are on.          *)

LEMMA SubtractScaled ==
  ASSUME NEW u \in Elem, NEW w \in Elem, NEW y \in Elem
  PROVE  ModSub(ModMul(u, y), ModMul(w, y)) = ModMul(ModSub(u, w), y)
<1>0. u \in Int /\ w \in Int /\ y \in Int /\ u * y \in Int /\ w * y \in Int /\ u - w \in Int
  BY Units
<1>1. ModSub(ModMul(u, y), ModMul(w, y)) = (((u * y) % P) - ((w * y) % P)) % P
  BY Ops
<1>2. (((u * y) % P) - ((w * y) % P)) % P = (u * y - w * y) % P
  <2>1. (((u * y) % P) - ((w * y) % P)) % P = (u * y - ((w * y) % P)) % P
    <3>1. (w * y) % P \in Int
      BY <1>0, Reduced, Units
    <3> QED
      BY <1>0, <3>1, ModInner
  <2>2. (u * y - ((w * y) % P)) % P = (u * y - w * y) % P
    BY <1>0, ModInner
  <2> QED
    BY <2>1, <2>2
<1>3. ModMul(ModSub(u, w), y) = (((u - w) % P) * y) % P
  BY Ops
<1>4. (((u - w) % P) * y) % P = ((u - w) * y) % P
  BY <1>0, ModInner
<1>5. (u - w) * y = u * y - w * y
  BY <1>0
<1> QED
  BY <1>1, <1>2, <1>3, <1>4, <1>5

LEMMA SubtractCancels ==
  ASSUME NEW x \in Elem, NEW a \in Elem, NEW b \in Elem
  PROVE  ModSub(ModSub(x, a), ModSub(x, b)) = ModSub(b, a)
<1>0. x - a \in Int /\ x - b \in Int /\ (x - b) % P \in Int
  <2>1. x - a \in Int /\ x - b \in Int
    BY Units
  <2> QED
    BY <2>1, Reduced, Units
<1>1. ModSub(ModSub(x, a), ModSub(x, b)) = (((x - a) % P) - ((x - b) % P)) % P
  BY Ops
<1>2. (((x - a) % P) - ((x - b) % P)) % P = ((x - a) - ((x - b) % P)) % P
  BY <1>0, ModInner
<1>3. ((x - a) - ((x - b) % P)) % P = ((x - a) - (x - b)) % P
  BY <1>0, ModInner
<1>4. (x - a) - (x - b) = b - a
  BY Units
<1> QED
  BY <1>1, <1>2, <1>3, <1>4, Ops

\* Two interpolants that share all but one point at each end, combined.
LEMMA NevilleStep ==
  ASSUME NEW x \in Elem, NEW a \in Elem, NEW b \in Elem, NEW y \in Elem, NEW v \in Elem,
         ModMul(v, ModSub(b, a)) = 1
  PROVE  ModMul(v, ModSub(ModMul(ModSub(x, a), y), ModMul(ModSub(x, b), y))) = y
<1>1. ModSub(x, a) \in Elem /\ ModSub(x, b) \in Elem /\ ModSub(b, a) \in Elem
  BY Ops
<1>2. ModSub(ModMul(ModSub(x, a), y), ModMul(ModSub(x, b), y)) = ModMul(ModSub(b, a), y)
  BY <1>1, SubtractScaled, SubtractCancels
<1>3. ModMul(v, ModMul(ModSub(b, a), y)) = ModMul(ModMul(v, ModSub(b, a)), y)
  BY <1>1, MulAssociates
<1> QED
  BY <1>2, <1>3, MulOne

(* A divided difference is the leading coefficient of the polynomial       *)
(* through the points it is made of.                                       *)
Through(points, i, j, L) ==
  /\ L \in Poly(j) /\ L[j] = Columns(points)[j][i]
  /\ \A s \in i..(i + j) : Evaluate(L, points[s][1]) = points[s][2]

LEMMA Neville ==
  ASSUME NEW d \in Nat, NEW points \in Points(d + 1)
  PROVE  \A j \in 0..d : \A i \in 1..(d + 1 - j) : \E L : Through(points, i, j, L)
<1> DEFINE C == Columns(points)
           x == [i \in 1..(d + 1) |-> points[i][1]]
           y == [i \in 1..(d + 1) |-> points[i][2]]
           V == {j \in 0..d : \A i \in 1..(d + 1 - j) : \E L : Through(points, i, j, L)}
<1>1. /\ Len(points) = d + 1
      /\ \A j \in 0..d : C[j] = Quotients(points, C, j)
      /\ \A j \in 0..d : \A i \in 1..(d + 1 - j) : C[j][i] \in Elem
  BY NewtonTables, NewtonType
<1>2. /\ \A i \in 1..(d + 1) : x[i] \in Elem /\ y[i] \in Elem
      /\ \A i, j \in 1..(d + 1) : i # j => x[i] # x[j]
  <2>1. \A i \in 1..(d + 1) : points[i] \in Elem \X Elem
    BY DEF Points
  <2> QED
    BY <2>1 DEF Points
<1>3. \A i \in 1..(d + 1) : points[i][1] = x[i] /\ points[i][2] = y[i]
  OBVIOUS
<1> HIDE DEF C, x, y
<1>4. 0 \in V
  <2>1. ASSUME NEW i \in 1..(d + 1 - 0) PROVE \E L : Through(points, i, 0, L)
    <3> DEFINE L == [e \in 0..0 |-> y[i]]
    <3>1. i \in 1..(d + 1) /\ y[i] \in Elem
      BY <1>2
    <3>2. L \in Poly(0) /\ L[0] = y[i]
      BY <3>1 DEF Poly
    <3>3. C[0][i] = y[i]
      <4>1. Quotients(points, C, 0) = [m \in 1..(d + 1) |-> points[m][2]]
        BY <1>1 DEF Quotients
      <4>2. C[0] = [m \in 1..(d + 1) |-> points[m][2]]
        BY <1>1, <4>1
      <4> QED
        BY <1>3, <3>1, <4>2
    <3> HIDE DEF L
    <3>4. \A s \in i..(i + 0) : Evaluate(L, points[s][1]) = points[s][2]
      <4>1. \A s \in i..(i + 0) : s = i
        BY <3>1
      <4>2. Evaluate(L, x[i]) = y[i]
        BY <1>2, <3>1, <3>2, EvaluateConstant
      <4> QED
        BY <1>3, <3>1, <4>1, <4>2
    <3> QED
      BY <3>2, <3>3, <3>4 DEF Through, C
  <2> QED
    BY <2>1
<1>5. ASSUME NEW k \in 0..(d - 1), k \in V PROVE k + 1 \in V
  <2>1. ASSUME NEW i \in 1..(d + 1 - (k + 1)) PROVE \E L : Through(points, i, k + 1, L)
    <3>1. /\ i \in 1..(d + 1 - k) /\ i + 1 \in 1..(d + 1 - k) /\ k + 1 \in 0..d
          /\ i \in 1..(d + 1) /\ i + (k + 1) \in 1..(d + 1) /\ i + (k + 1) # i
          /\ k + 1 # 0 /\ (k + 1) - 1 = k /\ k \in Nat
      OBVIOUS
    <3>2. PICK A : Through(points, i + 1, k, A)
      BY <1>5, <3>1
    <3>3. PICK B : Through(points, i, k, B)
      BY <1>5, <3>1
    <3> DEFINE a == x[i]
               b == x[i + (k + 1)]
               u == ModSub(b, a)
               v == InverseOf[u]
               p == PolyMulXMinus(A, a)
               r == PolyMulXMinus(B, b)
               t == [e \in 0..(k + 1) |-> ModSub(p[e], r[e])]
               L == [e \in 0..(k + 1) |-> ModMul(v, t[e])]
    <3>4. a \in Elem /\ b \in Elem /\ a # b
      BY <1>2, <3>1
    <3>5. u \in Elem \ {0}
      BY <3>4, Ops, DifferenceZero
    <3>6. v \in Elem /\ ModMul(v, u) = 1
      <4> HIDE DEF u
      <4> QED
        BY <3>5, InverseExact
    <3>7. A \in Poly(k) /\ B \in Poly(k) /\ A[k] = C[k][i + 1] /\ B[k] = C[k][i]
      BY <3>2, <3>3 DEF Through, C
    <3>8. C[k + 1][i] = ModMul(ModSub(C[k][i + 1], C[k][i]), v)
      <4>1. Quotients(points, C, k + 1)
              = [m \in 1..(d + 1 - (k + 1)) |->
                   ModMul(ModSub(C[k][m + 1], C[k][m]),
                          InverseOf[ModSub(points[m + (k + 1)][1], points[m][1])])]
        BY <1>1, <3>1 DEF Quotients
      <4>2. C[k + 1] = Quotients(points, C, k + 1)
        BY <1>1, <3>1
      <4> QED
        BY <1>3, <3>1, <4>1, <4>2
    <3> HIDE DEF a, b, u, v
    <3>9. /\ p \in Poly(k + 1) /\ p[k + 1] = A[k]
          /\ \A z \in Elem : Evaluate(p, z) = ModMul(ModSub(z, a), Evaluate(A, z))
      BY <3>1, <3>4, <3>7, TimesXMinus
    <3>10. /\ r \in Poly(k + 1) /\ r[k + 1] = B[k]
           /\ \A z \in Elem : Evaluate(r, z) = ModMul(ModSub(z, b), Evaluate(B, z))
      BY <3>1, <3>4, <3>7, TimesXMinus
    <3> HIDE DEF p, r
    <3>11. /\ t \in Poly(k + 1) /\ t[k + 1] = ModSub(A[k], B[k])
           /\ \A z \in Elem : Evaluate(t, z) = ModSub(Evaluate(p, z), Evaluate(r, z))
      <4>1. k + 1 \in Nat /\ k + 1 \in 0..(k + 1)
        BY <3>1
      <4> QED
        BY <3>9, <3>10, <4>1, EvaluateSubtracts
    <3> HIDE DEF t
    <3>12. /\ L \in Poly(k + 1) /\ L[k + 1] = ModMul(v, ModSub(A[k], B[k]))
           /\ \A z \in Elem : Evaluate(L, z) = ModMul(v, Evaluate(t, z))
      <4>1. k + 1 \in Nat /\ k + 1 \in 0..(k + 1)
        BY <3>1
      <4> QED
        BY <3>6, <3>11, <4>1, EvaluateScales
    <3> HIDE DEF L
    <3>13. L[k + 1] = C[k + 1][i]
      <4>1. A[k] \in Elem /\ B[k] \in Elem
        <5>1. A \in Poly(k) /\ B \in Poly(k)
          BY <3>7
        <5>2. \A q \in Poly(k) : q[k] \in Elem
          BY <3>1 DEF Poly
        <5> QED
          BY <5>1, <5>2
      <4>2. ModSub(A[k], B[k]) \in Elem
        BY <4>1, Ops
      <4> QED
        BY <3>6, <3>7, <3>8, <3>12, <4>2, Commutes
    <3>14. ASSUME NEW s \in i..(i + (k + 1)) PROVE Evaluate(L, points[s][1]) = points[s][2]
      <4> DEFINE z == x[s]
                 w == y[s]
      <4>1. s \in 1..(d + 1) /\ z \in Elem /\ w \in Elem /\ points[s][1] = z /\ points[s][2] = w
        BY <1>2, <1>3, <3>1
      <4>2. Evaluate(A, z) \in Elem /\ Evaluate(B, z) \in Elem
        BY <3>1, <3>7, <4>1, EvaluateIsSum
      <4>3. Evaluate(p, z) = ModMul(ModSub(z, a), w)
        <5>1. CASE s = i
          <6>1. ModSub(z, a) = 0
            BY <4>1, <5>1, AddZero DEF a
          <6> QED
            BY <3>9, <4>1, <4>2, <6>1, MulOne
        <5>2. CASE s # i
          <6>1. s \in (i + 1)..(i + 1 + k)
            BY <3>1, <5>2
          <6>2. Evaluate(A, z) = w
            BY <3>2, <4>1, <6>1 DEF Through
          <6> QED
            BY <3>9, <4>1, <6>2
        <5> QED
          BY <5>1, <5>2
      <4>4. Evaluate(r, z) = ModMul(ModSub(z, b), w)
        <5>1. CASE s = i + (k + 1)
          <6>1. ModSub(z, b) = 0
            BY <4>1, <5>1, AddZero DEF b
          <6> QED
            BY <3>10, <4>1, <4>2, <6>1, MulOne
        <5>2. CASE s # i + (k + 1)
          <6>1. s \in i..(i + k)
            BY <3>1, <5>2
          <6>2. Evaluate(B, z) = w
            BY <3>3, <4>1, <6>1 DEF Through
          <6> QED
            BY <3>10, <4>1, <6>2
        <5> QED
          BY <5>1, <5>2
      <4> HIDE DEF z, w
      <4>5. Evaluate(L, z) = ModMul(v, ModSub(ModMul(ModSub(z, a), w), ModMul(ModSub(z, b), w)))
        BY <3>11, <3>12, <4>1, <4>3, <4>4
      <4>6. Evaluate(L, z) = w
        BY <3>4, <3>6, <4>1, <4>5, NevilleStep DEF u
      <4> QED
        BY <4>1, <4>6
    <3> QED
      BY <3>12, <3>13, <3>14 DEF Through, C
  <2> QED
    BY <2>1
<1>6. \A j \in 0..d : j \in V
  <2> HIDE DEF V
  <2> QED
    BY <1>4, <1>5, InductTo
<1> QED
  BY <1>6

LEMMA EvaluateZero ==
  ASSUME NEW d \in Nat, NEW c \in Poly(d), \A i \in 0..d : c[i] = 0, NEW x \in Elem
  PROVE  Evaluate(c, x) = 0
<1> DEFINE t == Terms(c, x)
           U == 0..d
<1>1. IsFiniteSet(U) /\ Evaluate(c, x) = FieldSum(t, U)
  BY EvaluateIsSum, FS_Interval
<1>2. \A e \in U : t[e] = 0 /\ t[e] \in Elem
  <2>1. \A e \in U : t[e] = ModMul(c[e], Pow(x, e)) /\ t[e] \in Elem /\ Pow(x, e) \in Elem
    BY TermsType
  <2> HIDE DEF t
  <2> QED
    BY <2>1, MulOne
<1> HIDE DEF t, U
<1>3. FieldSum(t, U) = FieldSum(t, {})
  <2>1. {} \in SUBSET U
    OBVIOUS
  <2> QED
    BY <1>1, <1>2, <2>1, SumPads
<1>4. FieldSum(t, {}) = 0
  BY SumUnfolds, FS_EmptySet
<1> QED
  BY <1>1, <1>3, <1>4

\* A polynomial whose constant coefficient is raised.
LEMMA EvaluateRaised ==
  ASSUME NEW d \in Nat, NEW p \in Poly(d + 1), NEW v \in Elem, NEW x \in Elem
  PROVE  Evaluate([p EXCEPT ![0] = ModAdd(p[0], v)], x) = ModAdd(v, Evaluate(p, x))
<1> DEFINE q == [p EXCEPT ![0] = ModAdd(p[0], v)]
           s == Shift(p)
<1>1. p[0] \in Elem /\ 0 \in 0..(d + 1) /\ ModAdd(p[0], v) \in Elem
  BY Ops DEF Poly
<1>2. q \in Poly(d + 1) /\ q[0] = ModAdd(p[0], v) /\ \A i \in 0..d : q[i + 1] = p[i + 1]
  BY <1>1 DEF Poly
<1> HIDE DEF q
<1>3. Shift(q) = s
  <2>1. Shift(q) = [i \in 0..d |-> q[i + 1]] /\ s = [i \in 0..d |-> p[i + 1]]
    BY <1>2, ShiftType
  <2> QED
    BY <1>2, <2>1
<1>4. Evaluate(q, x) = ModAdd(q[0], ModMul(x, Evaluate(s, x)))
  BY <1>2, <1>3, Horner
<1>5. Evaluate(p, x) = ModAdd(p[0], ModMul(x, Evaluate(s, x)))
  BY Horner
<1>6. ModMul(x, Evaluate(s, x)) \in Elem
  BY ShiftType, EvaluateIsSum, Ops
<1>7. ModAdd(ModAdd(p[0], v), ModMul(x, Evaluate(s, x)))
        = ModAdd(v, ModAdd(p[0], ModMul(x, Evaluate(s, x))))
  <2>1. ModAdd(p[0], v) = ModAdd(v, p[0])
    BY <1>1, Commutes
  <2> QED
    BY <1>1, <1>6, <2>1, AddAssociates
<1> QED
  BY <1>2, <1>4, <1>5, <1>7 DEF q

\* A polynomial with leading coefficient 1 and the first j points for roots.
Vanishes(points, j, M) ==
  M \in Poly(j) /\ M[j] = 1 /\ \A s \in 1..j : Evaluate(M, points[s][1]) = 0

LEMMA VanishesNext ==
  ASSUME NEW d \in Nat, NEW points \in Points(d + 1), NEW j \in 0..d, NEW M, Vanishes(points, j, M)
  PROVE  /\ Vanishes(points, j + 1, PolyMulXMinus(M, points[j + 1][1]))
         /\ \A x \in Elem : Evaluate(PolyMulXMinus(M, points[j + 1][1]), x)
                              = ModMul(ModSub(x, points[j + 1][1]), Evaluate(M, x))
<1> DEFINE xk == points[j + 1][1]
           p == PolyMulXMinus(M, xk)
<1>1. M \in Poly(j) /\ M[j] = 1 /\ \A s \in 1..j : Evaluate(M, points[s][1]) = 0
  BY DEF Vanishes
<1>2. \A s \in 1..(j + 1) : points[s][1] \in Elem
  <2>1. \A s \in 1..(j + 1) : points[s] \in Elem \X Elem
    BY DEF Points
  <2> QED
    BY <2>1
<1>3. xk \in Elem /\ j \in Nat
  BY <1>2
<1> HIDE DEF xk
<1>4. /\ p \in Poly(j + 1) /\ p[j + 1] = 1
      /\ \A x \in Elem : Evaluate(p, x) = ModMul(ModSub(x, xk), Evaluate(M, x))
  BY <1>1, <1>3, TimesXMinus
<1> HIDE DEF p
<1>5. ASSUME NEW s \in 1..(j + 1) PROVE Evaluate(p, points[s][1]) = 0
  <2>0. points[s][1] \in Elem /\ ModSub(points[s][1], xk) \in Elem
        /\ Evaluate(M, points[s][1]) \in Elem
    BY <1>1, <1>2, <1>3, Ops, EvaluateIsSum
  <2>1. CASE s = j + 1
    <3>1. ModSub(points[s][1], xk) = 0
      BY <1>3, <2>1, AddZero DEF xk
    <3> QED
      BY <1>4, <2>0, <3>1, MulOne
  <2>2. CASE s # j + 1
    <3>1. Evaluate(M, points[s][1]) = 0
      BY <1>1, <2>2
    <3> QED
      BY <1>4, <2>0, <3>1, MulOne
  <2> QED
    BY <2>1, <2>2
<1>6. Vanishes(points, j + 1, p)
  BY <1>4, <1>5 DEF Vanishes
<1> QED
  BY <1>4, <1>6 DEF p, xk

\* The number of different x among the first j points.
LEMMA FirstPoints ==
  ASSUME NEW n \in Nat, NEW points \in Points(n), NEW j \in 0..n
  PROVE  LET R == {points[s][1] : s \in 1..j}
         IN  R \in SUBSET Elem /\ IsFiniteSet(R) /\ Cardinality(R) = j
<1> DEFINE I == 1..j
           x == [s \in I |-> points[s][1]]
           R == {points[s][1] : s \in I}
<1>1. IsFiniteSet(I) /\ Cardinality(I) = j
  BY FS_Interval
<1>2. (\A s \in I : x[s] = points[s][1] /\ x[s] \in Elem) /\ \A s, t \in I : s # t => x[s] # x[t]
  <2>1. \A s \in I : points[s] \in Elem \X Elem
    BY DEF Points
  <2>2. \A s, t \in I : s # t => points[s][1] # points[t][1]
    BY DEF Points
  <2> QED
    BY <2>1, <2>2
<1>3. R = {x[s] : s \in I}
  BY <1>2
<1> HIDE DEF I, x
<1>4. IsFiniteSet({x[s] : s \in I}) /\ Cardinality({x[s] : s \in I}) = Cardinality(I)
  BY <1>1, <1>2, DistinctCount
<1>5. R \in SUBSET Elem
  BY <1>2
<1>6. IsFiniteSet(R) /\ Cardinality(R) = j
  BY <1>1, <1>3, <1>4
<1> QED
  BY <1>5, <1>6 DEF I

\* One more point adds a multiple of the polynomial that vanishes before it.
LEMMA OneMorePoint ==
  ASSUME NEW d \in Nat, NEW points \in Points(d + 1), NEW j \in 1..d,
         NEW L, Through(points, 1, j, L), NEW K, Through(points, 1, j - 1, K),
         NEW M, Vanishes(points, j, M), NEW x \in Elem
  PROVE  Evaluate(L, x) = ModAdd(Evaluate(K, x), ModMul(Columns(points)[j][1], Evaluate(M, x)))
<1> DEFINE k == j - 1
           v == Columns(points)[j][1]
           a == [t \in 0..(k + 1) |-> IF t = k + 1 THEN 0 ELSE K[t]]
           g == [t \in 0..(k + 1) |-> ModSub(L[t], a[t])]
           m == [t \in 0..(k + 1) |-> ModMul(v, M[t])]
           f == [t \in 0..(k + 1) |-> ModSub(g[t], m[t])]
           h == [t \in 0..k |-> f[t]]
           R == {points[s][1] : s \in 1..j}
<1>1. k \in Nat /\ k + 1 = j /\ k + 1 \in Nat
  OBVIOUS
<1>2. L \in Poly(k + 1) /\ L[k + 1] = v /\ \A s \in 1..j : Evaluate(L, points[s][1]) = points[s][2]
  BY <1>1 DEF Through
<1>3. K \in Poly(k) /\ \A s \in 1..j : Evaluate(K, points[s][1]) = points[s][2]
  <2>1. \A s \in 1..j : s \in 1..(1 + k)
    BY <1>1
  <2> QED
    BY <2>1 DEF Through
<1>4. M \in Poly(k + 1) /\ M[k + 1] = 1 /\ \A s \in 1..j : Evaluate(M, points[s][1]) = 0
  BY <1>1 DEF Vanishes
<1>5. v \in Elem
  <2>1. 1 \in 1..(d + 1 - j) /\ j \in 0..d
    OBVIOUS
  <2> QED
    BY <2>1, NewtonType
<1>6. a \in Poly(k + 1) /\ a[k + 1] = 0 /\ \A i \in 0..k : a[i] = K[i]
  BY <1>1, <1>3, Units DEF Poly
<1>7. R \in SUBSET Elem /\ IsFiniteSet(R) /\ Cardinality(R) = j
  BY FirstPoints
<1> HIDE DEF k, v, a, R
<1>8. \A z \in Elem : Evaluate(a, z) = Evaluate(K, z)
  BY <1>1, <1>3, <1>6, EvaluatePads
<1>9. g \in Poly(k + 1) /\ \A z \in Elem : Evaluate(g, z) = ModSub(Evaluate(L, z), Evaluate(a, z))
  BY <1>1, <1>2, <1>6, EvaluateSubtracts
<1>10. m \in Poly(k + 1) /\ \A z \in Elem : Evaluate(m, z) = ModMul(v, Evaluate(M, z))
  BY <1>1, <1>4, <1>5, EvaluateScales
<1>11. g[k + 1] = v /\ m[k + 1] = v
  <2>1. k + 1 \in 0..(k + 1)
    BY <1>1
  <2>2. g[k + 1] = ModSub(v, 0) /\ m[k + 1] = ModMul(v, 1)
    BY <1>2, <1>4, <1>6, <2>1
  <2> QED
    BY <1>5, <2>2, AddZero, MulOne
<1> HIDE DEF g, m
<1>12. f \in Poly(k + 1) /\ \A z \in Elem : Evaluate(f, z) = ModSub(Evaluate(g, z), Evaluate(m, z))
  BY <1>1, <1>9, <1>10, EvaluateSubtracts
<1>13. f[k + 1] = 0
  <2>1. k + 1 \in 0..(k + 1)
    BY <1>1
  <2>2. f[k + 1] = ModSub(v, v)
    BY <1>11, <2>1
  <2> QED
    BY <1>5, <2>2, AddZero
<1> HIDE DEF f
<1>14. h \in Poly(k) /\ \A i \in 0..k : f[i] = h[i]
  <2>1. \A i \in 0..k : i \in 0..(k + 1)
    BY <1>1
  <2> QED
    BY <1>12, <2>1 DEF Poly
<1> HIDE DEF h
<1>15. \A z \in Elem : Evaluate(f, z) = Evaluate(h, z)
  BY <1>1, <1>12, <1>13, <1>14, EvaluatePads
<1>16. ASSUME NEW z \in Elem
       PROVE  /\ Evaluate(L, z) \in Elem /\ Evaluate(K, z) \in Elem
              /\ Evaluate(M, z) \in Elem /\ ModMul(v, Evaluate(M, z)) \in Elem
              /\ Evaluate(h, z) = ModSub(ModSub(Evaluate(L, z), Evaluate(K, z)),
                                         ModMul(v, Evaluate(M, z)))
  <2>1. Evaluate(L, z) \in Elem /\ Evaluate(K, z) \in Elem /\ Evaluate(M, z) \in Elem
    BY <1>1, <1>2, <1>3, <1>4, EvaluateIsSum
  <2> QED
    BY <1>5, <1>8, <1>9, <1>10, <1>12, <1>15, <2>1, Ops
<1>17. \A z \in R : Evaluate(h, z) = 0
  <2>1. ASSUME NEW s \in 1..j PROVE Evaluate(h, points[s][1]) = 0
    <3> DEFINE z == points[s][1]
               w == points[s][2]
    <3>1. z \in Elem /\ w \in Elem
      <4>1. points[s] \in Elem \X Elem
        BY DEF Points
      <4> QED
        BY <4>1
    <3>2. Evaluate(L, z) = w /\ Evaluate(K, z) = w /\ Evaluate(M, z) = 0
      BY <1>2, <1>3, <1>4
    <3> HIDE DEF z, w
    <3>3. Evaluate(h, z) = ModSub(ModSub(w, w), ModMul(v, 0))
      BY <1>16, <3>1, <3>2
    <3>4. Evaluate(h, z) = 0
      BY <1>5, <3>1, <3>3, AddZero, MulOne, Units
    <3> QED
      BY <3>4 DEF z
  <2> QED
    BY <2>1 DEF R
<1>18. \A i \in 0..k : h[i] = 0
  <2>1. Cardinality(R) > k
    BY <1>1, <1>7
  <2> QED
    BY <1>1, <1>7, <1>14, <1>17, <2>1, FewRoots
<1>19. Evaluate(h, x) = 0
  BY <1>1, <1>14, <1>18, EvaluateZero
<1> DEFINE l == Evaluate(L, x)
           q == Evaluate(K, x)
           r == ModMul(v, Evaluate(M, x))
<1>20. l \in Elem /\ q \in Elem /\ r \in Elem /\ ModSub(ModSub(l, q), r) = 0
  BY <1>16, <1>19
<1> HIDE DEF l, q, r
<1>21. ModSub(l, q) = r
  BY <1>20, Ops, DifferenceZero
<1>22. l = ModAdd(q, r)
  BY <1>20, <1>21, SubtractThenAdd, Commutes
<1> QED
  BY <1>22 DEF l, q, r, v

(* newtonInterpolate returns the polynomial of degree d that its d + 1     *)
(* points are on.                                                          *)
THEOREM NewtonExact ==
  ASSUME NEW d \in Nat, NEW points \in Points(d + 1), NEW c \in Poly(d),
         \A s \in 1..(d + 1) : points[s][2] = Evaluate(c, points[s][1])
  PROVE  NewtonInterpolate(points) = c
<1> DEFINE C == Columns(points)
           H == Horners(points)
           L == [j \in 0..d |-> CHOOSE l : Through(points, 1, j, l)]
           R == {points[s][1] : s \in 1..(d + 1)}
           before(j, x) == IF j = 0 THEN 0 ELSE Evaluate(L[j - 1], x)
           V == {j \in 0..d : \A M : Vanishes(points, j, M) =>
                   \A x \in Elem : Evaluate(c, x)
                     = ModAdd(before(j, x), ModMul(Evaluate(M, x), Evaluate(H[j], x)))}
<1>1. /\ Len(points) = d + 1 /\ NewtonInterpolate(points) = H[0]
      /\ \A j \in 0..d : H[j] = HornerStep(points, H, j)
      /\ \A j \in 0..d : H[j] \in Poly(d - j)
      /\ \A j \in 0..d : C[j][1] \in Elem
  <2>1. \A j \in 0..d : 1 \in 1..(d + 1 - j)
    OBVIOUS
  <2> QED
    BY <2>1, NewtonTables, NewtonType
<1>2. ASSUME NEW j \in 0..d PROVE Through(points, 1, j, L[j])
  <2>1. 1 \in 1..(d + 1 - j)
    OBVIOUS
  <2>2. \E l : Through(points, 1, j, l)
    BY <2>1, Neville
  <2> QED
    BY <2>2
<1>3. \A s \in 1..(d + 1) : points[s][1] \in Elem
  <2>1. \A s \in 1..(d + 1) : points[s] \in Elem \X Elem
    BY DEF Points
  <2> QED
    BY <2>1
<1>4. R \in SUBSET Elem /\ IsFiniteSet(R) /\ Cardinality(R) > d
  <2>1. d + 1 \in 0..(d + 1) /\ d + 1 \in Nat
    OBVIOUS
  <2>2. IsFiniteSet(R) /\ R \in SUBSET Elem /\ Cardinality(R) = d + 1
    BY <2>1, FirstPoints
  <2> HIDE DEF R
  <2> QED
    BY <2>2
<1> HIDE DEF C, H, L, R
<1>5. \A j \in 0..d : L[j] \in Poly(j)
  BY <1>2 DEF Through
<1>6. L[d] = c
  <2>1. d \in 0..d
    OBVIOUS
  <2>2. \A s \in 1..(d + 1) : Evaluate(L[d], points[s][1]) = points[s][2]
    <3>1. \A s \in 1..(d + 1) : s \in 1..(1 + d)
      OBVIOUS
    <3> QED
      BY <1>2, <2>1, <3>1 DEF Through
  <2>3. \A x \in R : Evaluate(L[d], x) = Evaluate(c, x)
    BY <2>2 DEF R
  <2> QED
    BY <1>4, <1>5, <2>1, <2>3, OnePolynomial
<1>7. ASSUME NEW j \in 0..d, NEW x \in Elem PROVE before(j, x) \in Elem
  <2>1. CASE j = 0
    BY <2>1, Units
  <2>2. CASE j # 0
    <3>1. j - 1 \in 0..d /\ j - 1 \in Nat
      BY <2>2
    <3> QED
      BY <1>5, <2>2, <3>1, EvaluateIsSum
  <2> QED
    BY <2>1, <2>2
<1>8. ASSUME NEW j \in 0..d, NEW M, Vanishes(points, j, M), NEW x \in Elem
      PROVE  Evaluate(L[j], x) = ModAdd(before(j, x), ModMul(C[j][1], Evaluate(M, x)))
  <2>1. CASE j = 0
    <3>1. L[0] \in Poly(0) /\ L[0][0] = C[0][1] /\ M \in Poly(0) /\ M[0] = 1
      BY <1>2, <1>8, <2>1 DEF Through, Vanishes, C
    <3>2. Evaluate(L[0], x) = C[0][1] /\ Evaluate(M, x) = 1
      BY <3>1, EvaluateConstant
    <3>3. C[0][1] \in Elem
      BY <1>1
    <3>4. ModAdd(0, ModMul(C[0][1], 1)) = C[0][1]
      BY <3>3, MulOne, AddZero
    <3> QED
      BY <2>1, <3>2, <3>4
  <2>2. CASE j # 0
    <3>1. j \in 1..d /\ j - 1 \in 0..d
      BY <2>2
    <3>2. Through(points, 1, j, L[j]) /\ Through(points, 1, j - 1, L[j - 1])
      BY <1>2, <3>1
    <3>3. Evaluate(L[j], x) = ModAdd(Evaluate(L[j - 1], x), ModMul(Columns(points)[j][1], Evaluate(M, x)))
      BY <1>8, <3>1, <3>2, OneMorePoint
    <3> QED
      BY <2>2, <3>3 DEF C
  <2> QED
    BY <2>1, <2>2
<1> HIDE DEF before
<1>9. d \in V
  <2>0. d \in 0..d
    OBVIOUS
  <2>1. ASSUME NEW M, Vanishes(points, d, M), NEW x \in Elem
        PROVE  Evaluate(c, x) = ModAdd(before(d, x), ModMul(Evaluate(M, x), Evaluate(H[d], x)))
    <3>1. H[d] = [i \in {0} |-> C[d][1]]
      <4>1. Len(points) - 1 = d
        BY <1>1
      <4>2. HornerStep(points, H, d) = [i \in {0} |-> C[d][1]]
        BY <4>1 DEF HornerStep, C
      <4> QED
        BY <1>1, <2>0, <4>2
    <3>2. H[d] \in Poly(0) /\ H[d][0] = C[d][1]
      <4>1. C[d][1] \in Elem
        BY <1>1, <2>0
      <4>2. 0..0 = {0}
        OBVIOUS
      <4> QED
        BY <3>1, <4>1, <4>2 DEF Poly
    <3>3. Evaluate(H[d], x) = C[d][1]
      BY <3>2, EvaluateConstant
    <3>4. Evaluate(M, x) \in Elem /\ C[d][1] \in Elem
      BY <1>1, <2>0, <2>1, EvaluateIsSum DEF Vanishes
    <3> QED
      BY <1>6, <1>8, <2>0, <2>1, <3>3, <3>4, Commutes
  <2> QED
    BY <2>0, <2>1
<1>10. ASSUME NEW k \in 0..(d - 1), k + 1 \in V PROVE k \in V
  <2> DEFINE xk == points[k + 1][1]
             p == PolyMulXMinus(H[k + 1], xk)
             e == d - (k + 1)
  <2>1. /\ e \in Nat /\ k \in 0..d /\ k + 1 \in 1..(d + 1) /\ k # (d + 1) - 1 /\ k + 1 \in 0..d
        /\ d - k = e + 1 /\ H[k + 1] \in Poly(e) /\ xk \in Elem /\ k + 1 # 0 /\ (k + 1) - 1 = k
    <3>1. /\ e \in Nat /\ k \in 0..d /\ k + 1 \in 1..(d + 1) /\ k # (d + 1) - 1 /\ k + 1 \in 0..d
          /\ d - k = e + 1 /\ k + 1 # 0 /\ (k + 1) - 1 = k
      OBVIOUS
    <3>2. H[k + 1] \in Poly(e)
      BY <1>1, <3>1
    <3>3. xk \in Elem
      BY <1>3, <3>1
    <3> QED
      BY <3>1, <3>2, <3>3
  <2>2. ASSUME NEW M, Vanishes(points, k, M), NEW x \in Elem
        PROVE  Evaluate(c, x) = ModAdd(before(k, x), ModMul(Evaluate(M, x), Evaluate(H[k], x)))
    <3> DEFINE m1 == PolyMulXMinus(M, xk)
               mx == Evaluate(M, x)
               hx == Evaluate(H[k + 1], x)
               u == ModSub(x, xk)
               v == C[k][1]
               b == before(k, x)
    <3>1. Vanishes(points, k + 1, m1) /\ Evaluate(m1, x) = ModMul(u, mx)
      BY <2>1, <2>2, VanishesNext
    <3>2. p \in Poly(e + 1) /\ Evaluate(p, x) = ModMul(u, hx)
      <4> HIDE DEF e, xk
      <4> QED
        BY <2>1, TimesXMinus
    <3>3. v \in Elem /\ u \in Elem /\ mx \in Elem /\ hx \in Elem /\ b \in Elem
      <4>1. v \in Elem /\ b \in Elem
        BY <1>1, <1>7, <2>1
      <4>2. u \in Elem
        BY <2>1, Ops
      <4>3. mx \in Elem
        <5>1. M \in Poly(k) /\ k \in Nat
          BY <2>2 DEF Vanishes
        <5> QED
          BY <5>1, EvaluateIsSum
      <4>4. hx \in Elem
        BY <2>1, EvaluateIsSum
      <4> QED
        BY <4>1, <4>2, <4>3, <4>4
    <3>4. Evaluate(H[k], x) = ModAdd(v, ModMul(u, hx))
      <4>1. H[k] = [p EXCEPT ![0] = ModAdd(p[0], v)]
        BY <1>1, <2>1 DEF HornerStep, C
      <4> HIDE DEF p, v, e
      <4>2. Evaluate(H[k], x) = ModAdd(v, Evaluate(p, x))
        BY <2>1, <3>2, <3>3, <4>1, EvaluateRaised
      <4> QED
        BY <3>2, <4>2
    <3>5. Evaluate(c, x) = ModAdd(before(k + 1, x), ModMul(ModMul(u, mx), hx))
      <4>1. Evaluate(c, x) = ModAdd(before(k + 1, x), ModMul(Evaluate(m1, x), Evaluate(H[k + 1], x)))
        BY <1>10, <3>1
      <4> QED
        BY <3>1, <4>1
    <3>6. before(k + 1, x) = ModAdd(b, ModMul(v, mx))
      <4>1. before(k + 1, x) = Evaluate(L[k], x)
        BY <2>1 DEF before
      <4> QED
        BY <1>8, <2>1, <2>2, <4>1
    <3> HIDE DEF m1, mx, hx, u, v, b
    <3>7. ModAdd(ModAdd(b, ModMul(v, mx)), ModMul(ModMul(u, mx), hx))
            = ModAdd(b, ModMul(mx, ModAdd(v, ModMul(u, hx))))
      <4>1. ModMul(u, hx) \in Elem /\ ModMul(v, mx) \in Elem /\ ModMul(mx, ModMul(u, hx)) \in Elem
        BY <3>3, Ops
      <4>2. ModMul(ModMul(u, mx), hx) = ModMul(mx, ModMul(u, hx))
        BY <3>3, MulAssociates, Commutes
      <4>3. ModMul(v, mx) = ModMul(mx, v)
        BY <3>3, Commutes
      <4>4. ModMul(mx, ModAdd(v, ModMul(u, hx))) = ModAdd(ModMul(mx, v), ModMul(mx, ModMul(u, hx)))
        BY <3>3, <4>1, Distributes
      <4>5. ModAdd(ModAdd(b, ModMul(v, mx)), ModMul(mx, ModMul(u, hx)))
              = ModAdd(b, ModAdd(ModMul(v, mx), ModMul(mx, ModMul(u, hx))))
        BY <3>3, <4>1, AddAssociates
      <4> QED
        BY <4>2, <4>3, <4>4, <4>5
    <3>8. Evaluate(c, x) = ModAdd(b, ModMul(mx, Evaluate(H[k], x)))
      BY <3>4, <3>5, <3>6, <3>7
    <3> QED
      BY <3>8 DEF b, mx
  <2> QED
    BY <2>1, <2>2
<1>11. 0 \in V
  <2>1. 0 \in 0..d
    OBVIOUS
  <2> HIDE DEF V
  <2> QED
    BY <1>9, <1>10, <2>1, InductDown
<1>12. \A x \in Elem : Evaluate(c, x) = Evaluate(H[0], x)
  <2> DEFINE M == [t \in 0..0 |-> 1]
  <2>1. M \in Poly(0) /\ M[0] = 1
    BY Units DEF Poly
  <2> HIDE DEF M
  <2>2. Vanishes(points, 0, M)
    BY <2>1 DEF Vanishes
  <2>3. ASSUME NEW x \in Elem PROVE Evaluate(c, x) = Evaluate(H[0], x)
    <3>1. Evaluate(c, x) = ModAdd(before(0, x), ModMul(Evaluate(M, x), Evaluate(H[0], x)))
      BY <1>11, <2>2
    <3>2. before(0, x) = 0 /\ Evaluate(M, x) = 1
      BY <2>1, EvaluateConstant DEF before
    <3>3. Evaluate(H[0], x) \in Elem
      <4>1. H[0] \in Poly(d)
        <5>1. 0 \in 0..d /\ d - 0 = d
          OBVIOUS
        <5> QED
          BY <1>1, <5>1
      <4> QED
        BY <4>1, EvaluateIsSum
    <3> QED
      BY <3>1, <3>2, <3>3, MulOne, AddZero
  <2> QED
    BY <2>3
<1>13. H[0] \in Poly(d)
  <2>1. 0 \in 0..d /\ d - 0 = d
    OBVIOUS
  <2> QED
    BY <1>1, <2>1
<1>14. H[0] = c
  BY <1>4, <1>12, <1>13, OnePolynomial
<1> QED
  BY <1>1, <1>14
-----------------------------------------------------------------------------
(* polyDivMod divides a product without a remainder.                       *)

LEMMA SamePoly ==
  ASSUME NEW m \in Nat, m < P, NEW a \in Poly(m), NEW b \in Poly(m),
         \A x \in Elem : Evaluate(a, x) = Evaluate(b, x)
  PROVE  a = b
<1>1. IsFiniteSet(Elem) /\ Cardinality(Elem) = P
  <2>1. 0 \in Int /\ P - 1 \in Int /\ P \in Nat /\ P >= 2
    BY Modulus
  <2>2. Cardinality(0..(P - 1)) = P
    BY <2>1, FS_Interval
  <2> QED
    BY <2>2, ElemFinite DEF Elem
<1>2. Elem \in SUBSET Elem /\ Cardinality(Elem) > m
  BY <1>1, Modulus
<1> QED
  BY <1>1, <1>2, OnePolynomial

LEMMA Raised ==
  ASSUME NEW m \in Nat, NEW c \in Poly(m), NEW d \in Nat, m <= d
  PROVE  /\ Trim(c, d) \in Poly(d)
         /\ \A i \in 0..m : Trim(c, d)[i] = c[i]
         /\ \A i \in 0..d : i > m => Trim(c, d)[i] = 0
         /\ \A x \in Elem : Evaluate(Trim(c, d), x) = Evaluate(c, x)
<1>1. PolyDegree(c) \in (-1)..m
  BY DegreeExact
<1>2. PolyDegree(c) <= d
  BY <1>1
<1>3. DOMAIN c = 0..m
  BY DEF Poly
<1>4. \A i \in 0..m : Trim(c, d)[i] = c[i]
  BY <1>3 DEF Trim, Coef
<1>5. \A i \in 0..d : i > m => Trim(c, d)[i] = 0
  BY <1>3 DEF Trim, Coef
<1> QED
  BY <1>2, <1>4, <1>5, Trimmed

LEMMA DegreeZero ==
  ASSUME NEW d \in Nat, NEW c \in Poly(d)
  PROVE  /\ (\A i \in 0..d : c[i] = 0) => PolyDegree(c) = -1
         /\ PolyDegree(c) = -1 => \A i \in 0..d : c[i] = 0
<1>1. /\ PolyDegree(c) \in (-1)..d
      /\ \A i \in Nat : i > PolyDegree(c) => Coef(c, i) = 0
      /\ PolyDegree(c) # -1 => c[PolyDegree(c)] # 0
  BY DegreeExact
<1>2. ASSUME \A i \in 0..d : c[i] = 0 PROVE PolyDegree(c) = -1
  BY <1>1, <1>2
<1>3. ASSUME PolyDegree(c) = -1, NEW i \in 0..d PROVE c[i] = 0
  <2>1. i \in Nat /\ i > PolyDegree(c)
    BY <1>3
  <2>2. Coef(c, i) = 0 /\ i \in DOMAIN c
    BY <1>1, <2>1 DEF Poly
  <2> QED
    BY <2>2 DEF Coef
<1> QED
  BY <1>2, <1>3

\* The product of two polynomials.
ProductOf(p, a, m, b, k) ==
  /\ p \in Poly(m + k) /\ p[m + k] = ModMul(a[m], b[k])
  /\ \A x \in Elem : Evaluate(p, x) = ModMul(Evaluate(a, x), Evaluate(b, x))

LEMMA ProductExists ==
  ASSUME NEW k \in Nat, NEW b \in Poly(k), NEW m \in Nat, NEW a \in Poly(m)
  PROVE  \E p : ProductOf(p, a, m, b, k)
<1> DEFINE V == {n \in Nat : \A f \in Poly(n) : \E p : ProductOf(p, f, n, b, k)}
<1>1. 0 \in V
  <2> SUFFICES ASSUME NEW f \in Poly(0) PROVE \E p : ProductOf(p, f, 0, b, k)
    OBVIOUS
  <2> DEFINE p == [i \in 0..k |-> ModMul(f[0], b[i])]
  <2>1. f[0] \in Elem /\ \A x \in Elem : Evaluate(f, x) = f[0]
    BY EvaluateConstant, UpTo DEF Poly
  <2>2. p \in Poly(k) /\ \A x \in Elem : Evaluate(p, x) = ModMul(f[0], Evaluate(b, x))
    BY <2>1, EvaluateScales
  <2>3. p[k] = ModMul(f[0], b[k]) /\ 0 + k = k
    OBVIOUS
  <2> HIDE DEF p
  <2>4. ProductOf(p, f, 0, b, k)
    BY <2>1, <2>2, <2>3 DEF ProductOf
  <2> QED
    BY <2>4
<1>2. ASSUME NEW n \in V PROVE n + 1 \in V
  <2>0. n \in Nat /\ \A f \in Poly(n) : \E p : ProductOf(p, f, n, b, k)
    OBVIOUS
  <2>1. ASSUME NEW f \in Poly(n + 1) PROVE \E p : ProductOf(p, f, n + 1, b, k)
    <3> DEFINE s == Shift(f)
               M == (n + 1) + k
               r == [i \in 0..k |-> ModMul(f[0], b[i])]
               u == Trim(r, M)
    <3>1. s \in Poly(n) /\ s[n] = f[n + 1]
      <4>1. s = [i \in 0..n |-> f[i + 1]] /\ s \in Poly(n)
        BY <2>0, ShiftType
      <4> QED
        BY <2>0, <4>1
    <3>2. PICK p : ProductOf(p, s, n, b, k)
      <4> HIDE DEF s
      <4> QED
        BY <2>0, <3>1
    <3>3. f[0] \in Elem
      BY <2>0 DEF Poly
    <3>4. r \in Poly(k) /\ \A x \in Elem : Evaluate(r, x) = ModMul(f[0], Evaluate(b, x))
      BY <3>3, EvaluateScales
    <3>5. M \in Nat /\ k <= M /\ M > k /\ M \in 0..M /\ M = (n + k) + 1 /\ n + k \in Nat
      BY <2>0
    <3> DEFINE t == WithLow(0, p)
               q == [i \in 0..M |-> ModAdd(u[i], t[i])]
    <3> HIDE DEF r, s
    <3>6. u \in Poly(M) /\ u[M] = 0 /\ \A x \in Elem : Evaluate(u, x) = Evaluate(r, x)
      <4> HIDE DEF M
      <4> QED
        BY <3>4, <3>5, Raised
    <3>7. /\ p \in Poly(n + k) /\ p[n + k] = ModMul(s[n], b[k])
          /\ \A x \in Elem : Evaluate(p, x) = ModMul(Evaluate(s, x), Evaluate(b, x))
      BY <3>2 DEF ProductOf
    <3>8. /\ t \in Poly(M) /\ t[M] = p[n + k]
          /\ \A x \in Elem : Evaluate(t, x) = ModAdd(0, ModMul(x, Evaluate(p, x)))
      <4> DEFINE j == n + k
      <4>1. j \in Nat /\ p \in Poly(j) /\ M = j + 1 /\ j \in 0..j
        BY <3>5, <3>7
      <4> HIDE DEF M, j
      <4>2. WithLow(0, p) \in Poly(j + 1) /\ WithLow(0, p)[j + 1] = p[j]
        BY <4>1, WithLowType, Units
      <4>3. \A x \in Elem : Evaluate(WithLow(0, p), x) = ModAdd(0, ModMul(x, Evaluate(p, x)))
        BY <4>1, EvaluateWithLow, Units
      <4> QED
        BY <4>1, <4>2, <4>3 DEF j
    <3> HIDE DEF u, t
    <3>9. q \in Poly(M) /\ \A x \in Elem : Evaluate(q, x) = ModAdd(Evaluate(u, x), Evaluate(t, x))
      <4> HIDE DEF M
      <4> QED
        BY <3>5, <3>6, <3>8, EvaluateAdds
    <3>10. q[M] = ModMul(f[n + 1], b[k])
      <4>1. q[M] = ModAdd(u[M], t[M])
        BY <3>5
      <4>2. t[M] \in Elem
        BY <3>5, <3>8 DEF Poly
      <4> HIDE DEF q, M
      <4> QED
        BY <3>1, <3>6, <3>7, <3>8, <4>1, <4>2, AddZero
    <3> HIDE DEF q
    <3>11. ASSUME NEW x \in Elem PROVE Evaluate(q, x) = ModMul(Evaluate(f, x), Evaluate(b, x))
      <4> DEFINE w == f[0]
                 y == Evaluate(s, x)
                 z == Evaluate(b, x)
      <4>1. w \in Elem /\ y \in Elem /\ z \in Elem
        BY <2>0, <3>1, <3>3, EvaluateIsSum
      <4>2. Evaluate(f, x) = ModAdd(w, ModMul(x, y))
        BY <2>0, Horner DEF s
      <4>3. Evaluate(q, x) = ModAdd(ModMul(w, z), ModAdd(0, ModMul(x, ModMul(y, z))))
        BY <3>4, <3>6, <3>7, <3>8, <3>9
      <4> HIDE DEF w, y, z
      <4>4. /\ ModMul(y, z) \in Elem /\ ModMul(x, y) \in Elem
            /\ ModMul(x, ModMul(y, z)) \in Elem
        BY <4>1, Ops
      <4>5. ModAdd(0, ModMul(x, ModMul(y, z))) = ModMul(ModMul(x, y), z)
        BY <4>1, <4>4, AddZero, MulAssociates
      <4>6. ModMul(ModAdd(w, ModMul(x, y)), z) = ModAdd(ModMul(w, z), ModMul(ModMul(x, y), z))
        BY <4>1, <4>4, Distributes
      <4> QED
        BY <4>2, <4>3, <4>5, <4>6 DEF z
    <3>12. ProductOf(q, f, n + 1, b, k)
      BY <3>9, <3>10, <3>11 DEF ProductOf
    <3> QED
      BY <3>12
  <2> QED
    BY <2>0, <2>1
<1>3. V = Nat
  <2>1. V \in SUBSET Nat
    OBVIOUS
  <2> HIDE DEF V
  <2> QED
    BY <1>1, <1>2, <2>1, Induct
<1>4. m \in V
  BY <1>3
<1> QED
  BY <1>4

\* X^s times a polynomial.
LEMMA TimesPower ==
  ASSUME NEW e \in Nat, NEW b \in Poly(e), NEW s \in Nat
  PROVE  \E r \in Poly(s + e) :
           /\ \A i \in 0..(s + e) : r[i] = IF i < s THEN 0 ELSE b[i - s]
           /\ \A x \in Elem : Evaluate(r, x) = ModMul(Pow(x, s), Evaluate(b, x))
<1> DEFINE Times(r, n) ==
             /\ r \in Poly(n + e)
             /\ \A i \in 0..(n + e) : i < n => r[i] = 0
             /\ \A i \in 0..e : r[i + n] = b[i]
             /\ \A x \in Elem : Evaluate(r, x) = ModMul(Pow(x, n), Evaluate(b, x))
           V == {n \in Nat : \E r : Times(r, n)}
<1>1. 0 \in V
  <2>1. \A x \in Elem : Evaluate(b, x) = ModMul(Pow(x, 0), Evaluate(b, x))
    BY PowUnfolds, EvaluateIsSum, MulOne
  <2>2. Times(b, 0)
    BY <2>1
  <2> HIDE DEF Times
  <2> QED
    BY <2>2
<1>2. ASSUME NEW n \in V PROVE n + 1 \in V
  <2>1. n \in Nat /\ \E r : Times(r, n)
    OBVIOUS
  <2>2. PICK r : Times(r, n)
    BY <2>1
  <2> DEFINE j == n + e
             t == WithLow(0, r)
  <2>3. j \in Nat /\ j + 1 = (n + 1) + e
    BY <2>1
  <2>4. r \in Poly(j)
    BY <2>2
  <2>5. t \in Poly(j + 1) /\ t[0] = 0 /\ \A i \in 0..j : t[i + 1] = r[i]
    <3> HIDE DEF j
    <3> QED
      BY <2>3, <2>4, WithLowType, Units
  <2>6. \A x \in Elem : Evaluate(t, x) = ModAdd(0, ModMul(x, Evaluate(r, x)))
    <3> HIDE DEF j
    <3> QED
      BY <2>3, <2>4, EvaluateWithLow, Units
  <2> HIDE DEF t
  <2>7. ASSUME NEW x \in Elem PROVE Evaluate(t, x) = ModMul(Pow(x, n + 1), Evaluate(b, x))
    <3> DEFINE y == Evaluate(b, x)
               p == Pow(x, n)
    <3>1. Pow(x, n + 1) = ModMul(p, x)
      BY <2>1, PowUnfolds
    <3>2. y \in Elem /\ p \in Elem
      BY <2>1, PowUnfolds, EvaluateIsSum
    <3>3. Evaluate(t, x) = ModAdd(0, ModMul(x, ModMul(p, y)))
      BY <2>2, <2>6
    <3> HIDE DEF y, p
    <3>4. ModMul(p, y) \in Elem /\ ModMul(x, ModMul(p, y)) \in Elem
      BY <3>2, Ops
    <3>5. Evaluate(t, x) = ModMul(ModMul(x, p), y)
      BY <3>2, <3>3, <3>4, AddZero, MulAssociates
    <3>6. ModMul(x, p) = ModMul(p, x)
      BY <3>2, Commutes
    <3> QED
      BY <3>1, <3>5, <3>6 DEF y
  <2>8. ASSUME NEW i \in 0..((n + 1) + e), i < n + 1 PROVE t[i] = 0
    <3>1. CASE i = 0
      BY <2>5, <3>1
    <3>2. CASE i # 0
      <4>1. i - 1 \in 0..j /\ i - 1 < n /\ (i - 1) + 1 = i /\ i - 1 \in 0..(n + e)
        BY <2>1, <2>8, <3>2
      <4>2. r[i - 1] = 0
        BY <2>2, <4>1
      <4> QED
        BY <2>5, <4>1, <4>2
    <3> QED
      BY <3>1, <3>2
  <2>9. ASSUME NEW i \in 0..e PROVE t[i + (n + 1)] = b[i]
    <3>1. i + n \in 0..j /\ (i + n) + 1 = i + (n + 1)
      BY <2>1
    <3>2. t[(i + n) + 1] = r[i + n]
      BY <2>5, <3>1
    <3> QED
      BY <2>2, <3>1, <3>2
  <2>10. Times(t, n + 1)
    BY <2>3, <2>5, <2>7, <2>8, <2>9
  <2> HIDE DEF Times
  <2> QED
    BY <2>1, <2>10
<1>3. V = Nat
  <2>1. V \in SUBSET Nat
    OBVIOUS
  <2> HIDE DEF V
  <2> QED
    BY <1>1, <1>2, <2>1, Induct
<1>4. PICK r : Times(r, s)
  <2>1. s \in V
    BY <1>3
  <2> QED
    BY <2>1
<1>5. ASSUME NEW i \in 0..(s + e) PROVE r[i] = IF i < s THEN 0 ELSE b[i - s]
  <2>1. CASE i < s
    BY <1>4, <2>1
  <2>2. CASE ~ (i < s)
    <3>1. i - s \in 0..e /\ (i - s) + s = i
      BY <2>2
    <3> QED
      BY <1>4, <2>2, <3>1
  <2> QED
    BY <2>1, <2>2
<1> QED
  BY <1>4, <1>5

\* A polynomial less its term with the power s.
LEMMA TermRemoved ==
  ASSUME NEW d \in Nat, NEW c \in Poly(d), NEW s \in 0..d, NEW b \in Poly(d),
         b[s] = 0, \A i \in 0..d : i # s => b[i] = c[i], NEW x \in Elem
  PROVE  Evaluate(b, x) = ModSub(Evaluate(c, x), ModMul(c[s], Pow(x, s)))
<1> DEFINE u == [i \in 0..d |-> IF i = s THEN c[s] ELSE 0]
           t == Terms(u, x)
           U == 0..d
<1>1. \A i \in 0..d : c[i] \in Elem
  BY DEF Poly
<1>2. u \in Poly(d) /\ u[s] = c[s] /\ \A i \in 0..d : i # s => u[i] = 0
  BY <1>1, Units DEF Poly
<1> HIDE DEF u
<1>3. b = [i \in 0..d |-> ModSub(c[i], u[i])]
  <2>1. ASSUME NEW i \in 0..d PROVE b[i] = ModSub(c[i], u[i])
    <3>1. CASE i = s
      BY <1>1, <1>2, <3>1, AddZero
    <3>2. CASE i # s
      BY <1>1, <1>2, <3>2, AddZero
    <3> QED
      BY <3>1, <3>2
  <2> QED
    BY <2>1 DEF Poly
<1>4. Evaluate(b, x) = ModSub(Evaluate(c, x), Evaluate(u, x))
  BY <1>2, <1>3, EvaluateSubtracts
<1>5. IsFiniteSet(U) /\ s \in U /\ \A i \in U : t[i] = ModMul(u[i], Pow(x, i)) /\ Pow(x, i) \in Elem
  BY <1>2, TermsType
<1>6. t[s] = ModMul(c[s], Pow(x, s)) /\ t[s] \in Elem /\ \A i \in U : i # s => t[i] = 0
  <2>1. t[s] = ModMul(c[s], Pow(x, s))
    BY <1>2, <1>5
  <2>2. ModMul(c[s], Pow(x, s)) \in Elem
    BY <1>1, <1>5, Ops
  <2> HIDE DEF t
  <2>3. \A i \in U : i # s => t[i] = 0
    BY <1>2, <1>5, MulOne
  <2> QED
    BY <2>1, <2>2, <2>3
<1>7. Evaluate(u, x) = FieldSum(t, U)
  BY <1>2, EvaluateIsSum
<1> HIDE DEF t, U
<1>8. FieldSum(t, U) = t[s]
  BY <1>5, <1>6, SumOne
<1> QED
  BY <1>4, <1>6, <1>7, <1>8

\* The powers of a polynomial below s.
Below(c, d, s) == [i \in 0..d |-> IF i < s THEN c[i] ELSE 0]

\* What is left of the dividend is the product of the divisor b with the powers of c below s.
Rest(c, d, b, e, m, s, rem) ==
  /\ rem \in Poly(m + e)
  /\ \A x \in Elem : Evaluate(rem, x) = ModMul(Evaluate(Below(c, d, s), x), Evaluate(b, x))

\* What is left after the quotient coefficient of the power s.
Less(c, b, e, m, s, rem) ==
  [i \in 0..(m + e) |-> IF i \in s..(s + e)
                        THEN ModSub(rem[i], ModMul(c[s], b[i - s])) ELSE rem[i]]

LEMMA DivideStep ==
  ASSUME NEW d \in Nat, NEW e \in Nat, NEW c \in Poly(d), NEW b \in Poly(e), b[e] = 1,
         NEW s \in 0..d, NEW m \in Nat, m >= d, m + e < P,
         NEW rem, Rest(c, d, b, e, m, s + 1, rem)
  PROVE  rem[s + e] = c[s] /\ Rest(c, d, b, e, m, s, Less(c, b, e, m, s, rem))
<1> DEFINE new == Less(c, b, e, m, s, rem)
           M == m + e
           high == Below(c, d, s + 1)
           low == Below(c, d, s)
           h == [i \in 0..s |-> c[i]]
<1>0. s \in Nat /\ M \in Nat /\ M < P /\ s + e \in Nat /\ s + e <= M /\ s + e \in 0..M /\ s \in 0..s
  OBVIOUS
<1>a. /\ rem \in Poly(m + e)
       /\ \A x \in Elem : Evaluate(rem, x) = ModMul(Evaluate(Below(c, d, s + 1), x), Evaluate(b, x))
  BY DEF Rest
<1>b. new = [i \in 0..(m + e) |-> IF i \in s..(s + e)
                 THEN ModSub(rem[i], ModMul(c[s], b[i - s])) ELSE rem[i]]
  BY DEF Less
<1> HIDE DEF new
<1>1. \A i \in 0..d : c[i] \in Elem
  BY DEF Poly
<1>2. c[s] \in Elem
  BY <1>1
<1>3. high \in Poly(d) /\ low \in Poly(d)
  BY <1>1, Units DEF Below, Poly
<1>4. h \in Poly(s) /\ h[s] = c[s]
  BY <1>1 DEF Poly
<1>5. \A x \in Elem : Evaluate(h, x) = Evaluate(high, x)
  <2>1. ASSUME NEW i \in Nat PROVE Coef(h, i) = Coef(high, i)
    BY DEF Coef, Below
  <2> HIDE DEF h, high
  <2> QED
    BY <1>0, <1>3, <1>4, <2>1, SameValues
<1> HIDE DEF h
<1>6. PICK p : ProductOf(p, h, s, b, e)
  BY <1>0, <1>4, ProductExists
<1>7. p \in Poly(s + e) /\ p[s + e] = c[s]
      /\ \A x \in Elem : Evaluate(p, x) = ModMul(Evaluate(h, x), Evaluate(b, x))
  <2>1. p \in Poly(s + e) /\ p[s + e] = ModMul(h[s], b[e])
        /\ \A x \in Elem : Evaluate(p, x) = ModMul(Evaluate(h, x), Evaluate(b, x))
    BY <1>6 DEF ProductOf
  <2> QED
    BY <1>2, <1>4, <2>1, MulOne
<1>8. rem = Trim(p, M) /\ Trim(p, M)[s + e] = p[s + e]
  <2> DEFINE k == s + e
             r == Trim(p, M)
  <2>1. k \in Nat /\ k <= M /\ p \in Poly(k) /\ k \in 0..k /\ M \in Nat /\ M < P /\ rem \in Poly(M)
    BY <1>0, <1>a, <1>7
  <2>2. \A x \in Elem : Evaluate(p, x) = Evaluate(rem, x)
    BY <1>a, <1>5, <1>7
  <2> HIDE DEF k, M
  <2>3. r \in Poly(M) /\ r[k] = p[k] /\ \A x \in Elem : Evaluate(r, x) = Evaluate(p, x)
    BY <2>1, Raised
  <2> HIDE DEF r
  <2>4. \A x \in Elem : Evaluate(rem, x) = Evaluate(r, x)
    BY <2>2, <2>3
  <2>5. rem = r
    BY <2>1, <2>3, <2>4, SamePoly
  <2> QED
    BY <2>3, <2>5 DEF k, r
<1>9. rem[s + e] = c[s]
  BY <1>7, <1>8
<1>10. PICK r \in Poly(s + e) :
         /\ \A i \in 0..(s + e) : r[i] = IF i < s THEN 0 ELSE b[i - s]
         /\ \A x \in Elem : Evaluate(r, x) = ModMul(Pow(x, s), Evaluate(b, x))
  BY <1>0, TimesPower
<1> DEFINE g == Trim(r, M)
           f == [i \in 0..M |-> ModMul(c[s], g[i])]
<1>11. /\ g \in Poly(M)
       /\ \A i \in 0..M : g[i] = IF i \in s..(s + e) THEN b[i - s] ELSE 0
       /\ \A x \in Elem : Evaluate(g, x) = ModMul(Pow(x, s), Evaluate(b, x))
  <2> DEFINE k == s + e
  <2>1. k \in Nat /\ k <= M /\ M \in Nat /\ r \in Poly(k)
    BY <1>0
  <2>2. \A i \in 0..k : i \in 0..M /\ r[i] = IF i < s THEN 0 ELSE b[i - s]
    BY <1>0, <1>10
  <2>3. \A i \in 0..M : i \in s..k <=> i \in 0..k /\ ~ (i < s)
    BY <1>0
  <2>4. \A i \in 0..M : i \in 0..k \/ i > k
    BY <1>0
  <2> HIDE DEF k, M
  <2>5. /\ g \in Poly(M) /\ \A i \in 0..k : g[i] = r[i]
        /\ \A i \in 0..M : i > k => g[i] = 0
        /\ \A x \in Elem : Evaluate(g, x) = Evaluate(r, x)
    BY <2>1, Raised
  <2> HIDE DEF g
  <2>6. \A i \in 0..M : i > k => ~ (i \in 0..k)
    BY <2>1 DEF M
  <2>7. \A i \in 0..M : g[i] = IF i \in s..k THEN b[i - s] ELSE 0
    BY <2>2, <2>3, <2>4, <2>5, <2>6
  <2> QED
    BY <1>10, <2>5, <2>7 DEF k
<1> HIDE DEF g
<1>12. f \in Poly(M) /\ \A x \in Elem : Evaluate(f, x) = ModMul(c[s], Evaluate(g, x))
  <2> HIDE DEF M
  <2> QED
    BY <1>0, <1>2, <1>11, EvaluateScales
<1>13. new = [i \in 0..M |-> ModSub(rem[i], f[i])]
  <2>1. ASSUME NEW i \in 0..M PROVE new[i] = ModSub(rem[i], f[i])
    <3>1. rem[i] \in Elem /\ f[i] = ModMul(c[s], g[i])
      BY <1>a DEF Poly
    <3>2. CASE i \in s..(s + e)
      BY <1>b, <1>11, <3>1, <3>2
    <3>3. CASE i \notin s..(s + e)
      <4>1. g[i] = 0
        BY <1>11, <3>3
      <4>2. f[i] = 0
        BY <1>2, <3>1, <4>1, MulOne
      <4>3. new[i] = rem[i]
        BY <1>b, <3>3
      <4> HIDE DEF f
      <4> QED
        BY <3>1, <4>2, <4>3, AddZero
    <3> QED
      BY <3>2, <3>3
  <2>2. new = [i \in 0..M |-> new[i]]
    BY <1>b
  <2> HIDE DEF f
  <2> QED
    BY <2>1, <2>2
<1> HIDE DEF f
<1>14. new \in Poly(M) /\ \A x \in Elem : Evaluate(new, x) = ModSub(Evaluate(rem, x), Evaluate(f, x))
  <2> DEFINE a == [i \in 0..M |-> ModSub(rem[i], f[i])]
  <2>1. rem \in Poly(M)
    BY <1>a
  <2>2. new = a
    BY <1>13
  <2>3. a \in Poly(M) /\ \A x \in Elem : Evaluate(a, x) = ModSub(Evaluate(rem, x), Evaluate(f, x))
    <3> HIDE DEF M
    <3> QED
      BY <1>0, <1>12, <2>1, EvaluateSubtracts
  <2> HIDE DEF a
  <2> QED
    BY <2>2, <2>3
<1>15. ASSUME NEW x \in Elem PROVE Evaluate(low, x) = ModSub(Evaluate(high, x), ModMul(c[s], Pow(x, s)))
  <2>1. low[s] = 0 /\ high[s] = c[s] /\ \A i \in 0..d : i # s => low[i] = high[i]
    BY DEF Below
  <2> HIDE DEF low, high
  <2>2. Evaluate(low, x) = ModSub(Evaluate(high, x), ModMul(high[s], Pow(x, s)))
    BY <1>3, <2>1, TermRemoved
  <2> QED
    BY <2>1, <2>2
<1>16. ASSUME NEW x \in Elem PROVE Evaluate(new, x) = ModMul(Evaluate(low, x), Evaluate(b, x))
  <2> DEFINE u == Evaluate(high, x)
             y == Evaluate(b, x)
             q == Pow(x, s)
             v == c[s]
  <2>1. u \in Elem /\ y \in Elem /\ q \in Elem /\ v \in Elem
    BY <1>0, <1>2, <1>3, EvaluateIsSum, PowUnfolds
  <2>2. Evaluate(new, x) = ModSub(ModMul(u, y), ModMul(v, ModMul(q, y)))
    BY <1>a, <1>11, <1>12, <1>14
  <2>3. Evaluate(low, x) = ModSub(u, ModMul(v, q))
    BY <1>15
  <2> HIDE DEF u, y, q, v
  <2>4. ModMul(v, q) \in Elem /\ ModMul(v, ModMul(q, y)) = ModMul(ModMul(v, q), y)
    BY <2>1, Ops, MulAssociates
  <2>5. ModSub(ModMul(u, y), ModMul(ModMul(v, q), y)) = ModMul(ModSub(u, ModMul(v, q)), y)
    BY <2>1, <2>4, SubtractScaled
  <2> QED
    BY <2>2, <2>3, <2>4, <2>5 DEF y
<1>17. Rest(c, d, b, e, m, s, new)
  BY <1>14, <1>16 DEF Rest
<1> QED
  BY <1>9, <1>17 DEF new

LEMMA MonicDegree ==
  ASSUME NEW e \in Nat, NEW b \in Poly(e), b[e] = 1
  PROVE  PolyDegree(b) = e
<1>1. PolyDegree(b) \in (-1)..e /\ \A i \in Nat : i > PolyDegree(b) => Coef(b, i) = 0
  BY DegreeExact
<1>2. Coef(b, e) = 1
  BY DEF Coef, Poly
<1> QED
  BY <1>1, <1>2

LEMMA DivideZero ==
  ASSUME NEW k \in Nat, NEW a \in Poly(k), \A i \in 0..k : a[i] = 0,
         NEW e \in Nat, NEW b \in Poly(e), b[e] = 1, NEW d \in Nat
  PROVE  /\ PolyDegree(PolyDivMod(a, b)[2]) = -1
         /\ PolyDegree(PolyDivMod(a, b)[1]) <= d
         /\ \A x \in Elem : PolyEvalAt(PolyDivMod(a, b)[1], x) = 0
<1> DEFINE z == [i \in {0} |-> 0]
<1>1. PolyDegree(a) = -1 /\ PolyDegree(b) = e
  BY DegreeZero, MonicDegree
<1>2. PolyDivMod(a, b) = <<z, a>>
  <2>1. PolyDegree(a) < PolyDegree(b)
    BY <1>1
  <2> QED
    BY <2>1 DEF PolyDivMod
<1>3. z \in Poly(0) /\ \A i \in 0..0 : z[i] = 0
  BY Units, UpTo DEF Poly
<1> HIDE DEF z
<1>4. PolyDegree(z) = -1 /\ \A x \in Elem : PolyEvalAt(z, x) = 0
  BY <1>3, DegreeZero, EvaluateZero, EvaluateIsSum
<1> QED
  BY <1>1, <1>2, <1>4

(* The division of a product c b whose factor c has the degree k.          *)
LEMMA DivideProduct ==
  ASSUME NEW k \in Nat, NEW e \in Nat, NEW m \in Nat, m >= k, m + e < P,
         NEW c \in Poly(k), c[k] # 0, NEW b \in Poly(e), b[e] = 1, NEW a \in Poly(m + e),
         \A x \in Elem : Evaluate(a, x) = ModMul(Evaluate(c, x), Evaluate(b, x))
  PROVE  PolyDegree(PolyDivMod(a, b)[2]) = -1 /\ PolyDivMod(a, b)[1] = c
<1> DEFINE T == Divisions(a, b)
           M == m + e
           Above(s) == [i \in 0..k |-> IF i < s THEN 0 ELSE c[i]]
           K == {s \in 0..(k + 1) : T[s][1] = Above(s) /\ Rest(c, k, b, e, m, s, T[s][2])}
<1>0. M \in Nat /\ M < P /\ k + e \in Nat /\ k + e <= M /\ k \in 0..k /\ e \in 0..e
  OBVIOUS
<1>1. (\A i \in 0..k : c[i] \in Elem) /\ DOMAIN c = 0..k
  BY DEF Poly
<1>2. PolyDegree(b) = e
  BY MonicDegree
<1>3. PolyDegree(a) = k + e
  <2>1. PICK p : ProductOf(p, c, k, b, e)
    BY ProductExists
  <2>2. p \in Poly(k + e) /\ p[k + e] = c[k]
        /\ \A x \in Elem : Evaluate(p, x) = ModMul(Evaluate(c, x), Evaluate(b, x))
    <3>1. p \in Poly(k + e) /\ p[k + e] = ModMul(c[k], b[e])
          /\ \A x \in Elem : Evaluate(p, x) = ModMul(Evaluate(c, x), Evaluate(b, x))
      BY <2>1 DEF ProductOf
    <3> QED
      BY <1>0, <1>1, <3>1, MulOne
  <2> DEFINE n == k + e
             r == Trim(p, M)
  <2>3. n \in Nat /\ n <= M /\ p \in Poly(n) /\ n \in 0..n /\ a \in Poly(M) /\ n \in 0..M
    BY <1>0, <2>2
  <2>4. \A x \in Elem : Evaluate(p, x) = Evaluate(a, x)
    BY <2>2
  <2>5. p[n] # 0
    BY <2>2
  <2> HIDE DEF n, M
  <2>6. /\ r \in Poly(M) /\ r[n] = p[n] /\ \A i \in 0..M : i > n => r[i] = 0
        /\ \A x \in Elem : Evaluate(r, x) = Evaluate(p, x)
    BY <1>0, <2>3, Raised
  <2> HIDE DEF r
  <2>7. a = r
    <3>1. \A x \in Elem : Evaluate(a, x) = Evaluate(r, x)
      BY <2>4, <2>6
    <3> QED
      BY <1>0, <2>3, <2>6, <3>1, SamePoly
  <2>8. a[n] # 0 /\ \A i \in 0..M : i > n => a[i] = 0
    BY <2>5, <2>6, <2>7
  <2>9. /\ PolyDegree(a) \in (-1)..M
        /\ \A i \in Nat : i > PolyDegree(a) => Coef(a, i) = 0
        /\ PolyDegree(a) # -1 => a[PolyDegree(a)] # 0
    BY <1>0, <2>3, DegreeExact
  <2>10. Coef(a, n) # 0
    BY <2>3, <2>8 DEF Coef, Poly
  <2>11. PolyDegree(a) >= n
    BY <2>3, <2>9, <2>10
  <2>12. PolyDegree(a) \in 0..M
    BY <2>3, <2>9, <2>11
  <2>13. ~ (PolyDegree(a) > n)
    BY <2>3, <2>8, <2>9, <2>12
  <2>14. PolyDegree(a) = n
    BY <2>3, <2>11, <2>12, <2>13
  <2> QED
    BY <2>14 DEF n
<1>4. /\ PolyDivMod(a, b) = T[0]
      /\ \A s \in 0..(k + 1) : T[s] = DivisionStep(a, b, T, s)
  <2>1. PolyDegree(a) \in Int /\ PolyDegree(b) \in Int /\ PolyDegree(a) >= PolyDegree(b)
        /\ PolyDegree(a) - PolyDegree(b) + 1 = k + 1
    BY <1>2, <1>3
  <2> QED
    BY <2>1, DivisionTable
<1>5. DOMAIN a = 0..(m + e)
  BY DEF Poly
<1>6. InverseOf[b[e]] = 1
  <2>1. 1 \in Elem \ {0}
    BY Units
  <2>2. InverseOf[1] \in Elem /\ ModMul(InverseOf[1], 1) = 1
    BY <2>1, InverseExact
  <2>3. InverseOf[1] = 1
    BY <2>2, MulOne
  <2> QED
    BY <2>3
<1> HIDE DEF T
<1>7. k + 1 \in K
  <2>1. T[k + 1] = DivisionStep(a, b, T, k + 1)
    BY <1>4
  <2>2. T[k + 1] = <<[i \in 0..k |-> 0], a>>
    BY <1>2, <1>3, <2>1 DEF DivisionStep
  <2>3. Above(k + 1) = [i \in 0..k |-> 0]
    OBVIOUS
  <2>4. Below(c, k, k + 1) = c
    <3>1. Below(c, k, k + 1) = [i \in 0..k |-> c[i]]
      BY DEF Below
    <3> QED
      BY <3>1 DEF Poly
  <2>5. Rest(c, k, b, e, m, k + 1, a)
    BY <2>4 DEF Rest
  <2> QED
    BY <2>2, <2>3, <2>5
<1>8. ASSUME NEW s \in 0..k, s + 1 \in K PROVE s \in K
  <2> DEFINE q == T[s + 1][1]
             rem == T[s + 1][2]
             coef == ModMul(rem[s + e], InverseOf[b[e]])
             new == Less(c, b, e, m, s, rem)
  <2>1. q = Above(s + 1) /\ Rest(c, k, b, e, m, s + 1, rem)
    BY <1>8
  <2>2. T[s] = <<[q EXCEPT ![s] = coef],
                 [i \in 0..(m + e) |-> IF i \in s..(s + e)
                     THEN ModSub(rem[i], ModMul(coef, b[i - s])) ELSE rem[i]]>>
    <3>1. s \in 0..(k + 1) /\ s # k + 1 /\ PolyDegree(a) - PolyDegree(b) + 1 = k + 1
      BY <1>2, <1>3
    <3>2. T[s] = DivisionStep(a, b, T, s)
      BY <1>4, <3>1
    <3> QED
      BY <1>2, <1>5, <3>1, <3>2 DEF DivisionStep
  <2> HIDE DEF q, rem
  <2>3. rem[s + e] = c[s] /\ Rest(c, k, b, e, m, s, new)
    <3> HIDE DEF K, M, Above
    <3> QED
      BY <2>1, DivideStep
  <2>4. coef = c[s]
    BY <1>1, <1>6, <2>3, MulOne
  <2>5. [q EXCEPT ![s] = coef] = Above(s)
    BY <2>1, <2>4
  <2>6. T[s] = <<Above(s), new>>
    BY <2>2, <2>4, <2>5 DEF Less
  <2> HIDE DEF Above, new
  <2> QED
    BY <2>3, <2>6
<1>9. 0 \in K
  <2> DEFINE n == k + 1
  <2>1. n \in Nat /\ n \in K /\ \A s \in 0..(n - 1) : s \in 0..k
    BY <1>7
  <2>2. \A s \in 0..(n - 1) : s + 1 \in K => s \in K
    BY <1>8, <2>1
  <2> HIDE DEF K, n
  <2>3. \A s \in 0..n : s \in K
    BY <2>1, <2>2, InductDown
  <2> QED
    BY <2>1, <2>3
<1>10. PolyDivMod(a, b)[1] = c
  <2>1. Above(0) = [i \in 0..k |-> c[i]]
    OBVIOUS
  <2>2. Above(0) = c
    BY <2>1 DEF Poly
  <2> HIDE DEF Above
  <2> QED
    BY <1>4, <1>9, <2>2
<1>11. PolyDegree(PolyDivMod(a, b)[2]) = -1
  <2> DEFINE r == T[0][2]
             l == Below(c, k, 0)
             z == [i \in 0..M |-> 0]
  <2>1. r \in Poly(M) /\ \A x \in Elem : Evaluate(r, x) = ModMul(Evaluate(l, x), Evaluate(b, x))
    <3>1. Rest(c, k, b, e, m, 0, T[0][2])
      BY <1>9
    <3> QED
      BY <3>1 DEF Rest
  <2>2. l \in Poly(k) /\ \A i \in 0..k : l[i] = 0
    BY Units DEF Below, Poly
  <2>3. z \in Poly(M) /\ \A i \in 0..M : z[i] = 0
    BY Units DEF Poly
  <2> HIDE DEF r, l, z, M
  <2>4. ASSUME NEW x \in Elem PROVE Evaluate(r, x) = Evaluate(z, x)
    <3>1. Evaluate(l, x) = 0 /\ Evaluate(b, x) \in Elem /\ Evaluate(z, x) = 0
      BY <1>0, <2>2, <2>3, EvaluateZero, EvaluateIsSum
    <3> QED
      BY <2>1, <3>1, MulOne
  <2>5. r = z
    BY <1>0, <2>1, <2>3, <2>4, SamePoly
  <2>6. PolyDegree(r) = -1
    BY <1>0, <2>1, <2>3, <2>5, DegreeZero
  <2> QED
    BY <1>4, <2>6 DEF r
<1> QED
  BY <1>10, <1>11

(* polyDivMod of a product by a divisor with leading coefficient 1.        *)
LEMMA DivideExact ==
  ASSUME NEW d \in Nat, NEW e \in Nat, d + e < P, NEW c \in Poly(d),
         NEW b \in Poly(e), b[e] = 1, NEW a \in Poly(d + e),
         \A x \in Elem : Evaluate(a, x) = ModMul(Evaluate(c, x), Evaluate(b, x))
  PROVE  /\ PolyDegree(PolyDivMod(a, b)[2]) = -1
         /\ PolyDegree(PolyDivMod(a, b)[1]) <= d
         /\ \A x \in Elem : PolyEvalAt(PolyDivMod(a, b)[1], x) = Evaluate(c, x)
<1> DEFINE k == PolyDegree(c)
           M == d + e
           t == Trim(c, k)
<1>1. k \in (-1)..d /\ (k # -1 => c[k] # 0) /\ DOMAIN c = 0..d /\ M \in Nat /\ M < P /\ a \in Poly(M)
  <2>1. k \in (-1)..d /\ (k # -1 => c[k] # 0)
    BY DegreeExact
  <2> HIDE DEF k
  <2> QED
    BY <2>1 DEF Poly
<1>2. CASE k = -1
  <2> DEFINE z == [i \in 0..M |-> 0]
  <2>1. z \in Poly(M) /\ \A i \in 0..M : z[i] = 0
    BY Units DEF Poly
  <2>2. \A i \in 0..d : c[i] = 0
    BY <1>2, DegreeZero
  <2> HIDE DEF z, M
  <2>3. ASSUME NEW x \in Elem PROVE Evaluate(c, x) = 0 /\ Evaluate(a, x) = Evaluate(z, x)
    <3>1. Evaluate(c, x) = 0 /\ Evaluate(b, x) \in Elem /\ Evaluate(z, x) = 0
      BY <1>1, <2>1, <2>2, EvaluateZero, EvaluateIsSum
    <3> QED
      BY <3>1, MulOne
  <2>4. a = z
    BY <1>1, <2>1, <2>3, SamePoly
  <2> HIDE DEF k
  <2>5. /\ PolyDegree(PolyDivMod(a, b)[2]) = -1
        /\ PolyDegree(PolyDivMod(a, b)[1]) <= d
        /\ \A x \in Elem : PolyEvalAt(PolyDivMod(a, b)[1], x) = 0
    BY <1>1, <2>1, <2>4, DivideZero
  <2> QED
    BY <2>3, <2>5
<1>3. CASE k # -1
  <2>1. k \in Nat /\ k <= d /\ k \in 0..d /\ k \in 0..k
    BY <1>1, <1>3
  <2>2. t \in Poly(k) /\ \A x \in Elem : Evaluate(t, x) = Evaluate(c, x)
    BY <2>1, Trimmed
  <2>3. t[k] # 0
    <3> HIDE DEF k
    <3>1. Trim(c, k)[k] = c[k]
      BY <1>1, <2>1 DEF Trim, Coef
    <3> QED
      BY <1>1, <1>3, <3>1
  <2> HIDE DEF k, t
  <2>4. PolyDegree(PolyDivMod(a, b)[2]) = -1 /\ PolyDivMod(a, b)[1] = t
    <3>1. d >= k /\ \A x \in Elem : Evaluate(a, x) = ModMul(Evaluate(t, x), Evaluate(b, x))
      BY <2>1, <2>2
    <3> QED
      BY <2>1, <2>2, <2>3, <3>1, DivideProduct
  <2>5. PolyDegree(t) \in (-1)..k
    BY <2>1, <2>2, DegreeExact
  <2>6. \A x \in Elem : PolyEvalAt(t, x) = Evaluate(c, x)
    BY <2>1, <2>2, EvaluateIsSum
  <2> QED
    BY <2>1, <2>4, <2>5, <2>6
<1> QED
  BY <1>2, <1>3
-----------------------------------------------------------------------------
(* Gaussian elimination keeps the solutions of a system, and solves it.    *)

SystemRow(w)    == [0..w -> Elem]
Assignment(w) == [0..(w - 1) -> Elem]

\* What the coefficients of a row give at x, and the equation it stands for.
Dot(w, row, x)    == FieldSum([c \in 0..(w - 1) |-> ModMul(row[c], x[c])], 0..(w - 1))
Solves(w, row, x) == Dot(w, row, x) = row[w]

LEMMA DotType ==
  ASSUME NEW w \in Nat, NEW row \in SystemRow(w), NEW x \in Assignment(w)
  PROVE  /\ IsFiniteSet(0..(w - 1)) /\ row[w] \in Elem /\ Dot(w, row, x) \in Elem
         /\ \A c \in 0..(w - 1) : /\ row[c] \in Elem /\ x[c] \in Elem
                                  /\ ModMul(row[c], x[c]) \in Elem
<1>1. IsFiniteSet(0..(w - 1))
  <2>1. 0 \in Int /\ w - 1 \in Int
    OBVIOUS
  <2> QED
    BY <2>1, FS_Interval
<1>2. row[w] \in Elem
  BY DEF SystemRow
<1>3. \A c \in 0..(w - 1) : row[c] \in Elem /\ x[c] \in Elem
  BY DEF SystemRow, Assignment
<1>4. \A c \in 0..(w - 1) : ModMul(row[c], x[c]) \in Elem
  BY <1>3, Ops
<1> DEFINE S == 0..(w - 1)
           g == [c \in S |-> ModMul(row[c], x[c])]
<1>5. \A c \in S : g[c] \in Elem
  BY <1>4
<1>6. Dot(w, row, x) = FieldSum(g, S)
  BY DEF Dot
<1>7. IsFiniteSet(S)
  BY <1>1
<1> HIDE DEF g, S
<1>8. FieldSum(g, S) \in Elem
  BY <1>5, <1>7, SumUnfolds
<1> QED
  BY <1>1, <1>2, <1>3, <1>4, <1>6, <1>8

\* A row times a factor, and a row less a multiple of another.
Scaled(w, row, v)     == [c \in 0..w |-> ModMul(row[c], v)]
Lessened(w, row, k, unit) == [c \in 0..w |-> ModSub(row[c], ModMul(k, unit[c]))]

LEMMA DotScaled ==
  ASSUME NEW w \in Nat, NEW row \in SystemRow(w), NEW x \in Assignment(w), NEW v \in Elem
  PROVE  Scaled(w, row, v) \in SystemRow(w) /\ Dot(w, Scaled(w, row, v), x) = ModMul(v, Dot(w, row, x))
<1> DEFINE S == 0..(w - 1)
           g == [c \in S |-> ModMul(row[c], x[c])]
           h == [c \in S |-> ModMul(Scaled(w, row, v)[c], x[c])]
<1>1. IsFiniteSet(S) /\ \A c \in S : row[c] \in Elem /\ x[c] \in Elem /\ c \in 0..w
  BY DotType
<1>2. Scaled(w, row, v) \in SystemRow(w)
  <2>1. \A c \in 0..w : row[c] \in Elem
    BY DEF SystemRow
  <2>2. \A c \in 0..w : ModMul(row[c], v) \in Elem
    BY <2>1, Ops
  <2> QED
    BY <2>2 DEF Scaled, SystemRow
<1>3. ASSUME NEW c \in S PROVE g[c] \in Elem /\ h[c] = ModMul(v, g[c])
  <2>1. g[c] = ModMul(row[c], x[c]) /\ h[c] = ModMul(ModMul(row[c], v), x[c])
    BY <1>1 DEF Scaled
  <2>2. row[c] \in Elem /\ x[c] \in Elem
    BY <1>1
  <2>3. ModMul(row[c], v) = ModMul(v, row[c]) /\ ModMul(row[c], x[c]) \in Elem
    BY <2>2, Commutes, Ops
  <2>4. ModMul(ModMul(v, row[c]), x[c]) = ModMul(v, ModMul(row[c], x[c]))
    BY <2>2, MulAssociates
  <2> QED
    BY <2>1, <2>3, <2>4
<1>4. Dot(w, row, x) = FieldSum(g, S) /\ Dot(w, Scaled(w, row, v), x) = FieldSum(h, S)
  BY DEF Dot
<1> HIDE DEF S, g, h
<1>5. FieldSum(h, S) = ModMul(v, FieldSum(g, S))
  BY <1>1, <1>3, SumScales
<1> QED
  BY <1>2, <1>4, <1>5

LEMMA DotLessened ==
  ASSUME NEW w \in Nat, NEW row \in SystemRow(w), NEW x \in Assignment(w), NEW k \in Elem, NEW unit \in SystemRow(w)
  PROVE  /\ Lessened(w, row, k, unit) \in SystemRow(w)
         /\ Dot(w, Lessened(w, row, k, unit), x)
              = ModSub(Dot(w, row, x), ModMul(k, Dot(w, unit, x)))
<1> DEFINE S == 0..(w - 1)
           f == [c \in S |-> ModMul(row[c], x[c])]
           u == [c \in S |-> ModMul(unit[c], x[c])]
           g == [c \in S |-> ModMul(Neg(k), u[c])]
           h == [c \in S |-> ModMul(Lessened(w, row, k, unit)[c], x[c])]
<1>1. /\ IsFiniteSet(S)
      /\ \A c \in S : row[c] \in Elem /\ unit[c] \in Elem /\ x[c] \in Elem /\ c \in 0..w
  BY DotType
<1>2. Lessened(w, row, k, unit) \in SystemRow(w)
  <2>1. \A c \in 0..w : row[c] \in Elem /\ unit[c] \in Elem
    BY DEF SystemRow
  <2>2. \A c \in 0..w : ModSub(row[c], ModMul(k, unit[c])) \in Elem
    BY <2>1, Ops
  <2> QED
    BY <2>2 DEF Lessened, SystemRow
<1>3. Neg(k) \in Elem
  BY Negation
<1>4. ASSUME NEW c \in S
      PROVE  /\ f[c] \in Elem /\ u[c] \in Elem /\ g[c] \in Elem
             /\ g[c] = ModMul(Neg(k), u[c]) /\ h[c] = ModAdd(f[c], g[c])
  <2> DEFINE r == row[c]
             t == unit[c]
             y == x[c]
  <2>1. r \in Elem /\ t \in Elem /\ y \in Elem /\ c \in 0..w
    BY <1>1
  <2>2. /\ f[c] = ModMul(r, y) /\ u[c] = ModMul(t, y) /\ g[c] = ModMul(Neg(k), ModMul(t, y))
        /\ h[c] = ModMul(ModSub(r, ModMul(k, t)), y)
    BY <2>1 DEF Lessened
  <2> HIDE DEF r, t, y
  <2>3. ModMul(k, t) \in Elem /\ ModMul(t, y) \in Elem /\ ModMul(r, y) \in Elem
    BY <2>1, Ops
  <2>4. ModMul(Neg(k), ModMul(t, y)) \in Elem
    BY <1>3, <2>3, Ops
  <2>5. ModSub(r, ModMul(k, t)) = ModAdd(r, ModMul(Neg(k), t))
    <3>1. ModSub(r, ModMul(k, t)) = ModAdd(r, Neg(ModMul(k, t)))
      BY <2>1, <2>3, Negation
    <3>2. ModMul(Neg(k), t) = Neg(ModMul(k, t))
      <4>1. ModMul(Neg(k), t) = Neg(ModMul(k, t))
        BY <2>1, Negation
      <4> QED
        BY <4>1
    <3> QED
      BY <3>1, <3>2
  <2>6. ModMul(Neg(k), t) \in Elem
    BY <1>3, <2>1, Ops
  <2>7. ModMul(ModAdd(r, ModMul(Neg(k), t)), y) = ModAdd(ModMul(r, y), ModMul(ModMul(Neg(k), t), y))
    BY <2>1, <2>6, Distributes
  <2>8. ModMul(ModMul(Neg(k), t), y) = ModMul(Neg(k), ModMul(t, y))
    BY <1>3, <2>1, MulAssociates
  <2> QED
    BY <2>2, <2>3, <2>4, <2>5, <2>7, <2>8
<1>5. /\ Dot(w, row, x) = FieldSum(f, S) /\ Dot(w, unit, x) = FieldSum(u, S)
      /\ Dot(w, Lessened(w, row, k, unit), x) = FieldSum(h, S)
  BY DEF Dot
<1> HIDE DEF S, f, g, h, u
<1>6. FieldSum(h, S) = ModAdd(FieldSum(f, S), FieldSum(g, S))
  BY <1>1, <1>4, SumAdds
<1>7. FieldSum(g, S) = ModMul(Neg(k), FieldSum(u, S))
  BY <1>1, <1>3, <1>4, SumScales
<1>8. FieldSum(f, S) \in Elem /\ FieldSum(u, S) \in Elem
  BY <1>5, DotType
<1>9. ModMul(Neg(k), FieldSum(u, S)) = Neg(ModMul(k, FieldSum(u, S)))
  BY <1>8, Negation
<1>10. ModMul(k, FieldSum(u, S)) \in Elem
  BY <1>8, Ops
<1>11. ModSub(FieldSum(f, S), ModMul(k, FieldSum(u, S)))
         = ModAdd(FieldSum(f, S), Neg(ModMul(k, FieldSum(u, S))))
  BY <1>8, <1>10, Negation
<1> QED
  BY <1>2, <1>5, <1>6, <1>7, <1>9, <1>11

LEMMA ScaleCancels ==
  ASSUME NEW a \in Elem \ {0}, NEW u \in Elem, NEW t \in Elem,
         ModMul(InverseOf[a], u) = ModMul(InverseOf[a], t)
  PROVE  u = t
<1> DEFINE v == InverseOf[a]
<1>1. v \in Elem /\ a \in Elem /\ ModMul(a, v) = 1
  BY InverseExact
<1>2. ModMul(v, u) = ModMul(v, t)
  OBVIOUS
<1> HIDE DEF v
<1>3. ModMul(ModMul(a, v), u) = ModMul(a, ModMul(v, u))
  BY <1>1, MulAssociates
<1>4. ModMul(ModMul(a, v), t) = ModMul(a, ModMul(v, t))
  BY <1>1, MulAssociates
<1>5. ModMul(1, u) = u /\ ModMul(1, t) = t
  BY MulOne
<1> QED
  BY <1>1, <1>2, <1>3, <1>4, <1>5

LEMMA ScaledSolves ==
  ASSUME NEW w \in Nat, NEW row \in SystemRow(w), NEW x \in Assignment(w), NEW a \in Elem \ {0}
  PROVE  Solves(w, Scaled(w, row, InverseOf[a]), x) <=> Solves(w, row, x)
<1> DEFINE v == InverseOf[a]
           Dim == Dot(w, row, x)
<1>1. v \in Elem
  BY InverseExact
<1>2. row[w] \in Elem /\ Dim \in Elem
  BY DotType
<1>3. Scaled(w, row, v)[w] = ModMul(v, row[w])
  <2>1. Scaled(w, row, v)[w] = ModMul(row[w], v)
    BY DEF Scaled
  <2> HIDE DEF v
  <2> QED
    BY <1>1, <1>2, <2>1, Commutes
<1>4. Dot(w, Scaled(w, row, v), x) = ModMul(v, Dim)
  <2> HIDE DEF v
  <2> QED
    BY <1>1, DotScaled
<1>5. ModMul(v, Dim) = ModMul(v, row[w]) => Dim = row[w]
  <2> HIDE DEF Dim
  <2> QED
    BY <1>2, ScaleCancels
<1> QED
  BY <1>3, <1>4, <1>5 DEF Solves

LEMMA LessenedSolves ==
  ASSUME NEW w \in Nat, NEW row \in SystemRow(w), NEW x \in Assignment(w), NEW k \in Elem,
         NEW unit \in SystemRow(w), Solves(w, unit, x)
  PROVE  Solves(w, Lessened(w, row, k, unit), x) <=> Solves(w, row, x)
<1> DEFINE Dim == Dot(w, row, x)
           y == unit[w]
           z == row[w]
           q == ModMul(k, y)
<1>1. z \in Elem /\ Dim \in Elem /\ y \in Elem
  BY DotType
<1>2. Lessened(w, row, k, unit)[w] = ModSub(z, q)
  BY DEF Lessened
<1>3. Dot(w, Lessened(w, row, k, unit), x) = ModSub(Dim, q)
  BY DotLessened DEF Solves
<1>4. q \in Elem
  <2> HIDE DEF y
  <2> QED
    BY <1>1, Ops
<1>5. ModSub(Dim, q) = ModSub(z, q) => Dim = z
  <2> HIDE DEF Dim, z, q
  <2>1. ModAdd(ModSub(Dim, q), q) = Dim /\ ModAdd(ModSub(z, q), q) = z
    BY <1>1, <1>4, SubtractThenAdd
  <2> QED
    BY <2>1
<1> QED
  BY <1>2, <1>3, <1>5 DEF Solves

Solved(m, w, rows, x) == \A r \in 1..m : Solves(w, rows[r], x)

\* The rows with two of them exchanged.
Swapped(rows, row, piv) == [rows EXCEPT ![row] = rows[piv], ![piv] = rows[row]]

LEMMA SwappedRows ==
  ASSUME NEW m \in Nat, NEW w \in Nat, NEW rows \in Systems(m, w), NEW row \in 1..m, NEW piv \in 1..m
  PROVE  /\ Swapped(rows, row, piv)[row] = rows[piv] /\ Swapped(rows, row, piv)[piv] = rows[row]
         /\ \A r \in 1..m : r # row /\ r # piv => Swapped(rows, row, piv)[r] = rows[r]
         /\ \A r \in 1..m : rows[r] \in SystemRow(w) /\ Swapped(rows, row, piv)[r] \in SystemRow(w)
<1>1. DOMAIN rows = 1..m /\ \A r \in 1..m : rows[r] \in SystemRow(w)
  BY DEF Systems, SystemRow
<1>2. /\ Swapped(rows, row, piv)[row] = rows[piv] /\ Swapped(rows, row, piv)[piv] = rows[row]
      /\ \A r \in 1..m : r # row /\ r # piv => Swapped(rows, row, piv)[r] = rows[r]
  BY <1>1 DEF Swapped
<1> QED
  BY <1>1, <1>2

\* The row of the pivot, scaled to 1 in its column.
UnitRow(w, rows, piv, col) == Scaled(w, rows[piv], InverseOf[rows[piv][col]])

ReducedRows(m, w, aug, rows, row, piv, col) ==
  LET new  == Reduction(aug, rows, row, piv, col)
      s    == Swapped(rows, row, piv)
      unit == UnitRow(w, rows, piv, col)
  IN  new[row] = unit /\ \A r \in 1..m : r # row => new[r] = Lessened(w, s[r], s[r][col], unit)

LEMMA ReductionRows ==
  ASSUME NEW m \in Nat \ {0}, NEW w \in Nat, NEW aug \in Systems(m, w),
         NEW rows \in Systems(m, w), NEW row \in 1..m, NEW piv \in 1..m, NEW col \in 0..w
  PROVE  ReducedRows(m, w, aug, rows, row, piv, col)
<1> DEFINE s == Swapped(rows, row, piv)
           inv == InverseOf[s[row][col]]
           unit == [c \in 0..w |-> ModMul(s[row][c], inv)]
           res == [r \in 1..m |-> IF r = row THEN unit
                     ELSE [c \in 0..w |-> ModSub(s[r][c], ModMul(s[r][col], unit[c]))]]
<1>1. Len(aug) = m /\ Width(aug) = w
  BY EchelonTable
<1>2. s[row] = rows[piv]
  BY SwappedRows
<1>3. Reduction(aug, rows, row, piv, col) = res
  BY <1>1 DEF Reduction, Swapped
<1> HIDE DEF s
<1>4. unit = UnitRow(w, rows, piv, col)
  BY <1>2 DEF UnitRow, Scaled
<1> HIDE DEF unit
<1>5. \A r \in 1..m : res[r] = IF r = row THEN unit ELSE Lessened(w, s[r], s[r][col], unit)
  BY DEF Lessened
<1> HIDE DEF res
<1> QED
  BY <1>3, <1>4, <1>5 DEF s, ReducedRows

LEMMA ReductionSolves ==
  ASSUME NEW m \in Nat \ {0}, NEW w \in Nat, NEW aug \in Systems(m, w),
         NEW rows \in Systems(m, w), NEW row \in 1..m, NEW piv \in 1..m, NEW col \in 0..(w - 1),
         rows[piv][col] # 0, NEW x \in Assignment(w)
  PROVE  Solved(m, w, Reduction(aug, rows, row, piv, col), x) <=> Solved(m, w, rows, x)
<1> DEFINE s == Swapped(rows, row, piv)
           a == rows[piv][col]
           unit == UnitRow(w, rows, piv, col)
           new  == Reduction(aug, rows, row, piv, col)
<1>1. /\ s[row] = rows[piv] /\ s[piv] = rows[row]
      /\ \A r \in 1..m : r # row /\ r # piv => s[r] = rows[r]
      /\ \A r \in 1..m : rows[r] \in SystemRow(w) /\ s[r] \in SystemRow(w)
  BY SwappedRows
<1>2. col \in 0..w
  OBVIOUS
<1>3. new[row] = unit /\ \A r \in 1..m : r # row => new[r] = Lessened(w, s[r], s[r][col], unit)
  <2> HIDE DEF a
  <2>1. ReducedRows(m, w, aug, rows, row, piv, col)
    <3> HIDE DEF s, unit, new
    <3> QED
      BY <1>2, ReductionRows
  <2> QED
    BY <2>1 DEF ReducedRows
<1>4. a \in Elem \ {0}
  BY <1>1, <1>2 DEF SystemRow
<1>9. unit = Scaled(w, s[row], InverseOf[a])
  BY <1>1 DEF UnitRow
<1> HIDE DEF s, a, new, unit
<1>5. unit \in SystemRow(w) /\ (Solves(w, unit, x) <=> Solves(w, s[row], x))
  <2>1. InverseOf[a] \in Elem /\ s[row] \in SystemRow(w)
    BY <1>1, <1>4, InverseExact
  <2> QED
    BY <1>4, <1>9, <2>1, DotScaled, ScaledSolves
<1>6. ASSUME NEW r \in 1..m, r # row, Solves(w, unit, x)
      PROVE  Solves(w, new[r], x) <=> Solves(w, s[r], x)
  <2>1. s[r] \in SystemRow(w) /\ s[r][col] \in Elem
    BY <1>1, <1>2 DEF SystemRow
  <2> QED
    BY <1>3, <1>5, <1>6, <2>1, LessenedSolves
<1>7. Solved(m, w, new, x) <=> Solved(m, w, s, x)
  <2>1. ASSUME Solved(m, w, new, x) PROVE Solved(m, w, s, x)
    <3>1. Solves(w, unit, x)
      BY <1>3, <2>1 DEF Solved
    <3> QED
      BY <1>5, <1>6, <2>1, <3>1 DEF Solved
  <2>2. ASSUME Solved(m, w, s, x) PROVE Solved(m, w, new, x)
    <3>1. Solves(w, unit, x)
      BY <1>5, <2>2 DEF Solved
    <3> QED
      BY <1>3, <1>6, <2>2, <3>1 DEF Solved
  <2> QED
    BY <2>1, <2>2
<1>8. Solved(m, w, s, x) <=> Solved(m, w, rows, x)
  BY <1>1 DEF Solved
<1> QED
  BY <1>7, <1>8 DEF new

LEMMA ReductionPivot ==
  ASSUME NEW m \in Nat \ {0}, NEW w \in Nat, NEW aug \in Systems(m, w),
         NEW rows \in Systems(m, w), NEW row \in 1..m, NEW piv \in 1..m, NEW col \in 0..w,
         rows[piv][col] # 0
  PROVE  /\ Reduction(aug, rows, row, piv, col)[row][col] = 1
         /\ \A t \in 1..m : t # row => Reduction(aug, rows, row, piv, col)[t][col] = 0
<1> DEFINE s == Swapped(rows, row, piv)
           a == rows[piv][col]
           unit == UnitRow(w, rows, piv, col)
           new  == Reduction(aug, rows, row, piv, col)
<1>1. \A r \in 1..m : rows[r] \in SystemRow(w) /\ s[r] \in SystemRow(w)
  BY SwappedRows
<1>0. ReducedRows(m, w, aug, rows, row, piv, col)
  BY ReductionRows
<1>2. new[row] = unit
  BY <1>0 DEF ReducedRows
<1>3. ASSUME NEW r \in 1..m, r # row PROVE new[r] = Lessened(w, s[r], s[r][col], unit)
  BY <1>0, <1>3 DEF ReducedRows
<1>4. a \in Elem \ {0}
  BY <1>1 DEF SystemRow
<1>5. unit[col] = ModMul(a, InverseOf[a])
  BY DEF UnitRow, Scaled
<1>6. unit[col] = 1
  <2> HIDE DEF a
  <2> QED
    BY <1>4, <1>5, InverseExact
<1> HIDE DEF s, a, new, unit
<1>7. ASSUME NEW t \in 1..m, t # row PROVE new[t][col] = 0
  <2>1. s[t][col] \in Elem
    BY <1>1 DEF SystemRow
  <2>2. new[t][col] = ModSub(s[t][col], ModMul(s[t][col], unit[col]))
    BY <1>3, <1>7 DEF Lessened
  <2>3. ModMul(s[t][col], 1) = s[t][col] /\ ModSub(s[t][col], s[t][col]) = 0
    BY <2>1, MulOne, AddZero
  <2> QED
    BY <1>6, <2>2, <2>3
<1> QED
  BY <1>2, <1>6, <1>7 DEF new

\* From a row on there are zeros in the column.
ZeroFrom(m, rows, row, c) == \A t \in row..m : rows[t][c] = 0

LEMMA ReductionKeeps ==
  ASSUME NEW m \in Nat \ {0}, NEW w \in Nat, NEW aug \in Systems(m, w),
         NEW rows \in Systems(m, w), NEW row \in 1..m, NEW piv \in row..m, NEW col \in 0..w,
         rows[piv][col] # 0, NEW c \in 0..w, ZeroFrom(m, rows, row, c)
  PROVE  /\ ZeroFrom(m, Reduction(aug, rows, row, piv, col), row, c)
         /\ \A t \in 1..m : t < row => Reduction(aug, rows, row, piv, col)[t][c] = rows[t][c]
<1> DEFINE s == Swapped(rows, row, piv)
           a == rows[piv][col]
           unit == UnitRow(w, rows, piv, col)
           new  == Reduction(aug, rows, row, piv, col)
<1>0. piv \in 1..m /\ row \in row..m
  OBVIOUS
<1>1. /\ s[row] = rows[piv] /\ s[piv] = rows[row]
      /\ \A r \in 1..m : r # row /\ r # piv => s[r] = rows[r]
      /\ \A r \in 1..m : rows[r] \in SystemRow(w) /\ s[r] \in SystemRow(w)
  BY <1>0, SwappedRows
<1>12. ReducedRows(m, w, aug, rows, row, piv, col)
  <2> HIDE DEF s, a, unit, new
  <2>1. piv \in 1..m
    BY <1>0
  <2> QED
    BY <2>1, ReductionRows
<1>2. new[row] = unit
  BY <1>12 DEF ReducedRows
<1>3. ASSUME NEW r \in 1..m, r # row PROVE new[r] = Lessened(w, s[r], s[r][col], unit)
  BY <1>3, <1>12 DEF ReducedRows
<1>4. a \in Elem \ {0}
  BY <1>0, <1>1 DEF SystemRow
<1>5. InverseOf[a] \in Elem
  <2> HIDE DEF a
  <2> QED
    BY <1>4, InverseExact
<1>6. unit[c] = 0
  <2>1. unit[c] = ModMul(rows[piv][c], InverseOf[a])
    BY DEF UnitRow, Scaled
  <2>2. rows[piv][c] = 0
    BY DEF ZeroFrom
  <2> HIDE DEF a, unit
  <2> QED
    BY <1>5, <2>1, <2>2, MulOne
<1>7. ASSUME NEW t \in 1..m PROVE s[t][c] = IF t < row THEN rows[t][c] ELSE 0
  <2>1. CASE t < row
    BY <1>1, <2>1
  <2>2. CASE t >= row
    <3>1. t \in row..m
      BY <2>2
    <3> HIDE DEF s
    <3> QED
      BY <1>0, <1>1, <2>2, <3>1 DEF ZeroFrom
  <2> QED
    BY <2>1, <2>2
<1> HIDE DEF s, a, new, unit
<1>8. ASSUME NEW t \in 1..m, t # row PROVE new[t][c] = s[t][c]
  <2>1. s[t][c] \in Elem /\ s[t][col] \in Elem
    BY <1>1 DEF SystemRow
  <2>2. new[t][c] = ModSub(s[t][c], ModMul(s[t][col], unit[c]))
    BY <1>3, <1>8 DEF Lessened
  <2>3. ModMul(s[t][col], 0) = 0 /\ ModSub(s[t][c], 0) = s[t][c]
    BY <2>1, MulOne, AddZero
  <2> QED
    BY <1>6, <2>2, <2>3
<1>9. \A t \in 1..m : new[t][c] = IF t < row THEN rows[t][c] ELSE 0
  BY <1>2, <1>6, <1>7, <1>8
<1>10. \A t \in row..m : t \in 1..m /\ ~(t < row)
  OBVIOUS
<1>11. ZeroFrom(m, new, row, c)
  BY <1>9, <1>10 DEF ZeroFrom
<1> QED
  BY <1>9, <1>11 DEF new

\* One column of the elimination.
LEMMA EchelonNext ==
  ASSUME NEW m \in Nat \ {0}, NEW w \in Nat, NEW aug \in Systems(m, w), NEW k \in 0..(w - 1)
  PROVE  LET x   == Echelons(aug)[k]
             y   == Echelons(aug)[k + 1]
             row == Len(x.pivots) + 1
         IN  \/ y = x /\ \A t \in row..m : x.rows[t][k] = 0
             \/ \E piv \in row..m :
                  /\ row \in 1..m /\ x.rows[piv][k] # 0
                  /\ y.rows = Reduction(aug, x.rows, row, piv, k)
                  /\ y.pivots = Append(x.pivots, k)
<1> DEFINE T == Echelons(aug)
           rows == T[k].rows
           pivots == T[k].pivots
           row == Len(pivots) + 1
           with == Entries(aug, rows, row, k)
           piv == Min(with)
<1>1. Len(aug) = m /\ \A c \in 0..w : T[c] = EchelonStep(aug, T, c)
  BY EchelonTable
<1>2. k \in 0..w /\ k + 1 \in 0..w /\ (k + 1) - 1 = k /\ k + 1 # 0
  OBVIOUS
<1>3. EchelonOK(m, w, T[k])
  BY <1>2, EchelonType
<1> HIDE DEF T
<1>4. rows \in Systems(m, w) /\ pivots \in Seq(0..(w - 1)) /\ Len(pivots) <= m
  BY <1>3 DEF EchelonOK
<1>5. T[k + 1] = IF with = {} THEN T[k]
                 ELSE [rows |-> Reduction(aug, rows, row, Min(with), k),
                       pivots |-> Append(pivots, k)]
  <2>1. T[k + 1] = EchelonStep(aug, T, k + 1)
    BY <1>1, <1>2
  <2> QED
    BY <1>2, <2>1 DEF EchelonStep
<1>6. Len(pivots) \in Nat
  BY <1>4
<1>7. with \in SUBSET Nat /\ with = {r \in row..m : rows[r][k] # 0}
  BY <1>1, <1>6 DEF Entries
<1>8. CASE with = {}
  <2>1. T[k + 1] = T[k]
    BY <1>5, <1>8
  <2>2. \A t \in row..m : rows[t][k] = 0
    BY <1>7, <1>8
  <2> QED
    BY <2>1, <2>2 DEF T
<1>9. CASE with # {}
  <2>1. piv \in with
    <3> HIDE DEF with
    <3> QED
      BY <1>7, <1>9, MinExists
  <2>2. piv \in row..m /\ rows[piv][k] # 0
    <3> HIDE DEF piv, with
    <3> QED
      BY <1>7, <2>1
  <2>3. row \in 1..m
    <3> HIDE DEF piv, rows
    <3> QED
      BY <1>6, <2>2
  <2> DEFINE new == Reduction(aug, rows, row, piv, k)
             list == Append(pivots, k)
  <2>4. T[k + 1] = [rows |-> new, pivots |-> list]
    BY <1>5, <1>9
  <2>5. T[k + 1].rows = new /\ T[k + 1].pivots = list
    <3> HIDE DEF new, list
    <3> QED
      BY <2>4
  <2> HIDE DEF piv, with
  <2> QED
    BY <2>2, <2>3, <2>5 DEF T
<1> QED
  BY <1>8, <1>9

Shape(m, x, col) ==
  /\ \A r \in 1..Len(x.pivots) : x.pivots[r] \in 0..(col - 1) /\ x.rows[r][x.pivots[r]] = 1
  /\ \A r \in 1..Len(x.pivots), t \in 1..m : t # r => x.rows[t][x.pivots[r]] = 0
  /\ \A t \in 1..m, c \in 0..(col - 1) : t > Len(x.pivots) => x.rows[t][c] = 0

LEMMA EchelonShape ==
  ASSUME NEW m \in Nat \ {0}, NEW w \in Nat, NEW aug \in Systems(m, w)
  PROVE  \A c \in 0..w : Shape(m, Echelons(aug)[c], c)
<1> DEFINE T == Echelons(aug)
           V == {c \in 0..w : Shape(m, T[c], c)}
<1>1. 0 \in V
  <2>1. 0 \in 0..w /\ T[0] = EchelonStep(aug, T, 0)
    BY EchelonTable
  <2> HIDE DEF T
  <2>2. T[0] = [rows |-> aug, pivots |-> <<>>]
    BY <2>1 DEF EchelonStep
  <2>3. T[0].pivots = <<>> /\ Len(<<>>) = 0 /\ 1..0 = {} /\ 0..(0 - 1) = {}
    BY <2>2
  <2>4. Shape(m, T[0], 0)
    BY <2>3 DEF Shape
  <2> QED
    BY <2>1, <2>4
<1>2. ASSUME NEW k \in 0..(w - 1), k \in V PROVE k + 1 \in V
  <2> DEFINE x == T[k]
             y == T[k + 1]
             L == Len(x.pivots)
             row == L + 1
  <2>1. k \in 0..w /\ k + 1 \in 0..w /\ EchelonOK(m, w, x)
    BY EchelonType
  <2>2. \/ y = x /\ \A t \in row..m : x.rows[t][k] = 0
        \/ \E piv \in row..m :
             /\ row \in 1..m /\ x.rows[piv][k] # 0
             /\ y.rows = Reduction(aug, x.rows, row, piv, k)
             /\ y.pivots = Append(x.pivots, k)
    BY EchelonNext
  <2>3. Shape(m, x, k)
    BY <1>2
  <2> HIDE DEF T
  <2>4. x.rows \in Systems(m, w) /\ x.pivots \in Seq(0..(w - 1)) /\ L \in Nat
    BY <2>1 DEF EchelonOK
  <2>5. CASE y = x /\ \A t \in row..m : x.rows[t][k] = 0
    <3>1. \A r \in 1..L : x.pivots[r] \in 0..((k + 1) - 1) /\ x.rows[r][x.pivots[r]] = 1
      BY <2>3 DEF Shape
    <3>2. ASSUME NEW t \in 1..m, NEW c \in 0..((k + 1) - 1), t > L PROVE x.rows[t][c] = 0
      <4>1. c \in 0..(k - 1) \/ c = k
        OBVIOUS
      <4>2. t \in row..m
        BY <2>4, <3>2
      <4> QED
        BY <2>3, <2>5, <3>2, <4>1, <4>2 DEF Shape
    <3>3. Shape(m, y, k + 1)
      BY <2>3, <2>5, <3>1, <3>2 DEF Shape
    <3> QED
      BY <2>1, <3>3
  <2>6. ASSUME NEW piv \in row..m, row \in 1..m, x.rows[piv][k] # 0,
               y.rows = Reduction(aug, x.rows, row, piv, k), y.pivots = Append(x.pivots, k)
        PROVE  k + 1 \in V
    <3> DEFINE rows == x.rows
               new == y.rows
               list == y.pivots
    <3>1. piv \in 1..m /\ rows \in Systems(m, w) /\ rows[piv][k] # 0 /\ k \in 0..w
      BY <2>1, <2>4, <2>6
    <3>2. Len(list) = row /\ list[row] = k /\ \A r \in 1..L : list[r] = x.pivots[r]
      BY <2>4, <2>6
    <3>3. new = Reduction(aug, rows, row, piv, k)
      BY <2>6
    <3> HIDE DEF rows, new, row
    <3>4. new[row][k] = 1 /\ \A t \in 1..m : t # row => new[t][k] = 0
      BY <2>6, <3>1, <3>3, ReductionPivot
    <3>5. ASSUME NEW c \in 0..w, ZeroFrom(m, rows, row, c)
          PROVE  /\ ZeroFrom(m, new, row, c)
                 /\ \A t \in 1..m : t < row => new[t][c] = rows[t][c]
      BY <2>6, <3>1, <3>3, <3>5, ReductionKeeps
    <3>6. ASSUME NEW r \in 1..L
          PROVE  /\ x.pivots[r] \in 0..(k - 1) /\ rows[r][x.pivots[r]] = 1
                 /\ \A t \in 1..m : t # r => rows[t][x.pivots[r]] = 0
      BY <2>3 DEF Shape, rows
    <3>7. ASSUME NEW r \in 1..L
          PROVE  /\ list[r] \in 0..k /\ new[r][list[r]] = 1
                 /\ \A t \in 1..m : t # r => new[t][list[r]] = 0
      <4> DEFINE c == x.pivots[r]
      <4>1. c \in 0..w /\ c \in 0..k /\ list[r] = c
        <5>1. c \in 0..(k - 1)
          BY <3>6
        <5>2. list[r] = c
          BY <3>2
        <5> HIDE DEF c, list
        <5> QED
          BY <5>1, <5>2
      <4>2. r < row /\ r \in 1..m /\ \A t \in row..m : t # r /\ t \in 1..m
        BY <2>4, <2>6 DEF row
      <4>3. ZeroFrom(m, rows, row, c)
        BY <3>6, <4>2 DEF ZeroFrom
      <4>4. rows[r][c] = 1 /\ \A t \in 1..m : t # r => rows[t][c] = 0
        BY <3>6
      <4> HIDE DEF c
      <4>5. /\ \A t \in row..m : new[t][c] = 0
            /\ \A t \in 1..m : t < row => new[t][c] = rows[t][c]
        BY <3>5, <4>1, <4>3 DEF ZeroFrom
      <4>6. \A t \in 1..m : t < row \/ t \in row..m
        BY <2>6 DEF row
      <4> QED
        BY <4>1, <4>2, <4>4, <4>5, <4>6
    <3>8. ASSUME NEW t \in 1..m, NEW c \in 0..k, t > row PROVE new[t][c] = 0
      <4>1. CASE c = k
        BY <2>4, <3>4, <3>8, <4>1 DEF row
      <4>2. CASE c \in 0..(k - 1)
        <5>1. c \in 0..w
          BY <4>2
        <5>2. ZeroFrom(m, rows, row, c)
          <6>1. \A s \in row..m : s \in 1..m /\ s > L
            BY <2>4 DEF row
          <6> QED
            BY <2>3, <4>2, <6>1 DEF Shape, rows, ZeroFrom
        <5>3. t \in row..m
          BY <2>4, <3>8 DEF row
        <5> QED
          BY <3>5, <5>1, <5>2, <5>3 DEF ZeroFrom
      <4> QED
        BY <4>1, <4>2
    <3>9. \A r \in 1..row : r = row \/ r \in 1..L
      BY <2>4 DEF row
    <3> HIDE DEF list
    <3>10. \A r \in 1..row : list[r] \in 0..k /\ new[r][list[r]] = 1
      BY <3>2, <3>4, <3>7, <3>9
    <3>11. \A r \in 1..row, t \in 1..m : t # r => new[t][list[r]] = 0
      BY <3>2, <3>4, <3>7, <3>9
    <3>12. Shape(m, y, k + 1)
      <4>1. (k + 1) - 1 = k
        OBVIOUS
      <4> QED
        BY <3>2, <3>8, <3>10, <3>11, <4>1 DEF Shape, new, list
    <3> QED
      BY <2>1, <3>12
  <2> QED
    BY <2>2, <2>5, <2>6
<1> HIDE DEF V
<1>3. \A k \in 0..w : k \in V
  BY <1>1, <1>2, InductTo
<1> QED
  BY <1>3 DEF V

LEMMA EchelonSolves ==
  ASSUME NEW m \in Nat \ {0}, NEW w \in Nat, NEW aug \in Systems(m, w), NEW x \in Assignment(w)
  PROVE  \A c \in 0..w : Solved(m, w, Echelons(aug)[c].rows, x) <=> Solved(m, w, aug, x)
<1> DEFINE T == Echelons(aug)
           V == {c \in 0..w : Solved(m, w, T[c].rows, x) <=> Solved(m, w, aug, x)}
<1>1. 0 \in V
  <2>1. 0 \in 0..w /\ T[0] = EchelonStep(aug, T, 0)
    BY EchelonTable
  <2> HIDE DEF T
  <2>2. T[0] = [rows |-> aug, pivots |-> <<>>]
    BY <2>1 DEF EchelonStep
  <2>3. T[0].rows = aug
    BY <2>2
  <2> QED
    BY <2>1, <2>3
<1>2. ASSUME NEW k \in 0..(w - 1), k \in V PROVE k + 1 \in V
  <2> DEFINE b == T[k]
             y == T[k + 1]
             row == Len(b.pivots) + 1
  <2>1. k \in 0..w /\ k + 1 \in 0..w /\ EchelonOK(m, w, b)
    BY EchelonType
  <2>2. \/ y = b /\ \A t \in row..m : b.rows[t][k] = 0
        \/ \E piv \in row..m :
             /\ row \in 1..m /\ b.rows[piv][k] # 0
             /\ y.rows = Reduction(aug, b.rows, row, piv, k)
             /\ y.pivots = Append(b.pivots, k)
    BY EchelonNext
  <2>3. Solved(m, w, b.rows, x) <=> Solved(m, w, aug, x)
    BY <1>2
  <2> HIDE DEF T
  <2>4. CASE y = b
    BY <2>1, <2>3, <2>4
  <2>5. ASSUME NEW piv \in row..m, row \in 1..m, b.rows[piv][k] # 0,
               y.rows = Reduction(aug, b.rows, row, piv, k)
        PROVE  k + 1 \in V
    <3> DEFINE rows == b.rows
    <3>1. rows \in Systems(m, w) /\ piv \in 1..m /\ rows[piv][k] # 0
      BY <2>1, <2>5 DEF EchelonOK
    <3>2. y.rows = Reduction(aug, rows, row, piv, k)
      BY <2>5
    <3> HIDE DEF rows, row
    <3>3. Solved(m, w, Reduction(aug, rows, row, piv, k), x) <=> Solved(m, w, rows, x)
      BY <2>5, <3>1, ReductionSolves
    <3>4. Solved(m, w, y.rows, x) <=> Solved(m, w, aug, x)
      BY <2>3, <3>2, <3>3 DEF rows
    <3> QED
      BY <2>1, <3>4
  <2> QED
    BY <2>2, <2>4, <2>5
<1> HIDE DEF V
<1>3. \A k \in 0..w : k \in V
  BY <1>1, <1>2, InductTo
<1> QED
  BY <1>3 DEF V

LEMMA EliminationFinds ==
  ASSUME NEW m \in Nat \ {0}, NEW w \in Nat \ {0}, NEW aug \in Systems(m, w),
         NEW x \in Assignment(w), Solved(m, w, aug, x)
  PROVE  GaussianSolve(aug) # {}
<1> DEFINE F == Echelons(aug)[w]
           L == Len(F.pivots)
<1>1. /\ Len(aug) = m /\ Width(aug) = w
      /\ GaussianSolve(aug) = IF Inconsistent(aug) THEN {} ELSE {Solution(aug)}
  BY EchelonTable
<1>2. w \in 0..w /\ Shape(m, F, w) /\ EchelonOK(m, w, F)
  BY EchelonShape, EchelonType
<1>3. Solved(m, w, F.rows, x)
  BY <1>2, EchelonSolves
<1> HIDE DEF F
<1>4. F.rows \in Systems(m, w) /\ L \in Nat
  BY <1>2 DEF EchelonOK
<1>5. ASSUME NEW r \in (L + 1)..m PROVE F.rows[r][w] = 0
  <2> DEFINE row == F.rows[r]
             S == 0..(w - 1)
             g == [c \in S |-> ModMul(row[c], x[c])]
  <2>1. r \in 1..m /\ r > L
    BY <1>4
  <2>2. row \in SystemRow(w) /\ Solves(w, row, x)
    BY <1>3, <1>4, <2>1 DEF Systems, SystemRow, Solved
  <2>3. \A c \in S : row[c] = 0
    BY <1>2, <2>1 DEF Shape
  <2> HIDE DEF row
  <2>4. IsFiniteSet(S) /\ \A c \in S : x[c] \in Elem
    BY <2>2, DotType
  <2>5. \A c \in S : g[c] = 0
    BY <2>3, <2>4, MulOne
  <2>6. 0 \in S
    OBVIOUS
  <2>7. Dot(w, row, x) = FieldSum(g, S)
    BY DEF Dot
  <2> HIDE DEF S, g
  <2>8. FieldSum(g, S) = g[0]
    <3>1. g[0] \in Elem /\ \A i \in S : i # 0 => g[i] = 0
      BY <2>5, <2>6, Units
    <3> QED
      BY <2>4, <2>6, <3>1, SumOne
  <2> QED
    BY <2>2, <2>5, <2>6, <2>7, <2>8 DEF Solves, row
<1>6. ~Inconsistent(aug)
  BY <1>1, <1>5 DEF Inconsistent, F
<1> QED
  BY <1>1, <1>6

LEMMA EliminationSolves ==
  ASSUME NEW m \in Nat \ {0}, NEW w \in Nat \ {0}, NEW aug \in Systems(m, w),
         NEW sol \in GaussianSolve(aug)
  PROVE  sol \in Assignment(w) /\ Solved(m, w, aug, sol)
<1> DEFINE F == Echelons(aug)[w]
           rows == F.rows
           pivots == F.pivots
           L == Len(pivots)
<1>1. /\ Len(aug) = m /\ Width(aug) = w
      /\ GaussianSolve(aug) = IF Inconsistent(aug) THEN {} ELSE {Solution(aug)}
  BY EchelonTable
<1>2. w \in 0..w /\ Shape(m, F, w) /\ EchelonOK(m, w, F)
  BY EchelonShape, EchelonType
<1>3. ~Inconsistent(aug) /\ sol = Solution(aug)
  BY <1>1
<1>4. rows \in Systems(m, w) /\ pivots \in Seq(0..(w - 1)) /\ L \in Nat /\ L <= m /\ DOMAIN pivots = 1..L
  BY <1>2 DEF EchelonOK
<1>5. \A r \in (L + 1)..m : rows[r][w] = 0
  BY <1>1, <1>3 DEF Inconsistent
<1>6. sol = [c \in 0..(w - 1) |->
               IF \E r \in 1..L : pivots[r] = c
               THEN rows[CHOOSE r \in 1..L : pivots[r] = c][w] ELSE 0]
  BY <1>1, <1>3, <1>4 DEF Solution
<1>7. sol \in Assignment(w)
  BY SolutionType DEF Assignment
<1>8. Solved(m, w, rows, sol) <=> Solved(m, w, aug, sol)
  BY <1>2, <1>7, EchelonSolves
<1>9. /\ \A r \in 1..L : pivots[r] \in 0..(w - 1) /\ rows[r][pivots[r]] = 1
      /\ \A r \in 1..L : \A t \in 1..m : t # r => rows[t][pivots[r]] = 0
      /\ \A t \in 1..m : \A c \in 0..(w - 1) : t > L => rows[t][c] = 0
  BY <1>2 DEF Shape
<1> HIDE DEF F, rows, pivots, L
<1>10. ASSUME NEW r \in 1..L PROVE sol[pivots[r]] = rows[r][w]
  <2> DEFINE c == pivots[r]
             t == CHOOSE s \in 1..L : pivots[s] = c
  <2>1. t \in 1..L /\ pivots[t] = c
    OBVIOUS
  <2>2. c \in 0..(w - 1)
    BY <1>9
  <2>3. sol[c] = rows[t][w]
    <3> HIDE DEF c
    <3> QED
      BY <1>6, <2>1, <2>2
  <2> HIDE DEF t
  <2>4. t = r
    <3>1. ASSUME t # r PROVE FALSE
      <4>1. t \in 1..m
        BY <1>4, <2>1
      <4>2. rows[t][pivots[r]] = 0 /\ rows[t][pivots[t]] = 1
        BY <1>9, <2>1, <3>1, <4>1
      <4> QED
        BY <2>1, <4>2
    <3> QED
      BY <3>1
  <2> QED
    BY <2>3, <2>4
<1>11. \A c \in 0..(w - 1) : (\A r \in 1..L : pivots[r] # c) => sol[c] = 0
  BY <1>6
<1>12. ASSUME NEW t \in 1..m PROVE Solves(w, rows[t], sol)
  <2> DEFINE row == rows[t]
             S == 0..(w - 1)
             g == [c \in S |-> ModMul(row[c], sol[c])]
  <2>1. row \in SystemRow(w)
    BY <1>4 DEF Systems, SystemRow
  <2>2. /\ IsFiniteSet(S) /\ row[w] \in Elem
        /\ \A c \in S : row[c] \in Elem /\ sol[c] \in Elem
    BY <1>7, <2>1, DotType
  <2>3. Dot(w, row, sol) = FieldSum(g, S)
    BY DEF Dot
  <2>4. \A c \in S : (row[c] = 0 \/ sol[c] = 0) => g[c] = 0
    BY <2>2, MulOne
  <2>5. \A c \in S : row[c] = 1 => g[c] = sol[c]
    BY <2>2, MulOne
  <2>6. CASE t > L
    <3>1. \A c \in S : g[c] = 0
      BY <1>9, <2>4, <2>6
    <3>2. 0 \in S
      OBVIOUS
    <3> HIDE DEF S, g
    <3>3. FieldSum(g, S) = g[0]
      <4>1. g[0] \in Elem /\ \A i \in S : i # 0 => g[i] = 0
        BY <3>1, <3>2, Units
      <4> QED
        BY <2>2, <3>2, <4>1, SumOne
    <3>4. row[w] = 0
      BY <1>4, <1>5, <2>6
    <3> QED
      BY <2>3, <3>1, <3>2, <3>3, <3>4 DEF Solves
  <2>7. CASE t <= L
    <3>1. t \in 1..L
      BY <1>4, <2>7
    <3> DEFINE k == pivots[t]
    <3>2. k \in S /\ row[k] = 1 /\ sol[k] = row[w]
      BY <1>9, <1>10, <3>1
    <3>3. g[k] = row[w]
      <4> HIDE DEF k, g, row, S
      <4> QED
        BY <2>5, <3>2
    <3>4. ASSUME NEW c \in S, c # k PROVE g[c] = 0
      <4>1. CASE \A r \in 1..L : pivots[r] # c
        <5>1. sol[c] = 0
          BY <1>11, <4>1
        <5> QED
          BY <2>4, <5>1
      <4>2. ASSUME NEW r \in 1..L, pivots[r] = c PROVE g[c] = 0
        <5>1. r # t
          BY <3>4, <4>2
        <5>2. row[c] = 0
          BY <1>9, <4>2, <5>1
        <5> QED
          BY <2>4, <5>2
      <4> QED
        BY <4>1, <4>2
    <3> HIDE DEF S, g, k
    <3>5. FieldSum(g, S) = g[k]
      BY <2>2, <3>2, <3>3, <3>4, SumOne
    <3> QED
      BY <2>3, <3>3, <3>5 DEF Solves
  <2> QED
    BY <1>4, <2>6, <2>7
<1>13. Solved(m, w, rows, sol)
  BY <1>12 DEF Solved
<1> QED
  BY <1>7, <1>8, <1>13 DEF rows, F

-----------------------------------------------------------------------------
(* The key equations: a solution is a pair of polynomials Num and E, with  *)
(* E monic and Num(x) = y E(x) at each point.                              *)

KeyRow(x, y, d, e) ==
  [j \in 0..(d + e + 1 + e) |->
     IF j < d + e + 1 THEN Pow(x, j)
     ELSE IF j < d + e + 1 + e THEN ModSub(0, ModMul(y, Pow(x, j - (d + e + 1))))
     ELSE ModMul(y, Pow(x, e))]

Unknowns(d, e, sol, Num, E) ==
  /\ sol \in Assignment(d + e + 1 + e)
  /\ Num \in Poly(d + e) /\ \A i \in 0..(d + e) : sol[i] = Num[i]
  /\ E \in Poly(e) /\ E[e] = 1 /\ \A i \in 0..(e - 1) : sol[d + e + 1 + i] = E[i]

LEMMA KeyRowType ==
  ASSUME NEW d \in Nat, NEW e \in Nat, NEW x \in Elem, NEW y \in Elem
  PROVE  /\ KeyRow(x, y, d, e) \in SystemRow(d + e + 1 + e)
         /\ KeyRow(x, y, d, e)[d + e + 1 + e] = ModMul(y, Pow(x, e))
         /\ \A j \in 0..(d + e) : KeyRow(x, y, d, e)[j] = Pow(x, j)
         /\ \A i \in 0..(e - 1) : KeyRow(x, y, d, e)[d + e + 1 + i] = ModSub(0, ModMul(y, Pow(x, i)))
<1>1. \A i \in Nat : Pow(x, i) \in Elem
  BY PowUnfolds
<1>2. \A i \in Nat : ModMul(y, Pow(x, i)) \in Elem
  BY <1>1, Ops
<1>3. \A i \in Nat : ModSub(0, ModMul(y, Pow(x, i))) \in Elem
  BY <1>2, Units, Ops
<1>4. ASSUME NEW j \in 0..(d + e + 1 + e) PROVE KeyRow(x, y, d, e)[j] \in Elem
  <2>1. CASE j < d + e + 1
    <3>1. KeyRow(x, y, d, e)[j] = Pow(x, j) /\ j \in Nat
      BY <2>1 DEF KeyRow
    <3> QED
      BY <1>1, <3>1
  <2>2. CASE j >= d + e + 1 /\ j < d + e + 1 + e
    <3> DEFINE i == j - (d + e + 1)
    <3>1. KeyRow(x, y, d, e)[j] = ModSub(0, ModMul(y, Pow(x, i))) /\ i \in Nat
      BY <2>2 DEF KeyRow
    <3> HIDE DEF i
    <3> QED
      BY <1>3, <3>1
  <2>3. CASE j >= d + e + 1 + e
    <3>1. KeyRow(x, y, d, e)[j] = ModMul(y, Pow(x, e))
      BY <2>3 DEF KeyRow
    <3> QED
      BY <1>2, <3>1
  <2> QED
    BY <2>1, <2>2, <2>3
<1>5. KeyRow(x, y, d, e) \in SystemRow(d + e + 1 + e)
  BY <1>4 DEF KeyRow, SystemRow
<1>6. KeyRow(x, y, d, e)[d + e + 1 + e] = ModMul(y, Pow(x, e))
  BY DEF KeyRow
<1>7. \A j \in 0..(d + e) : KeyRow(x, y, d, e)[j] = Pow(x, j)
  BY DEF KeyRow
<1>8. ASSUME NEW i \in 0..(e - 1)
      PROVE  KeyRow(x, y, d, e)[d + e + 1 + i] = ModSub(0, ModMul(y, Pow(x, i)))
  <2> DEFINE j == d + e + 1 + i
  <2>1. j \in 0..(d + e + 1 + e) /\ ~(j < d + e + 1) /\ j < d + e + 1 + e /\ j - (d + e + 1) = i
    OBVIOUS
  <2> HIDE DEF j
  <2>2. KeyRow(x, y, d, e)[j] = ModSub(0, ModMul(y, Pow(x, i)))
    BY <2>1 DEF KeyRow
  <2> QED
    BY <2>2 DEF j
<1> QED
  BY <1>5, <1>6, <1>7, <1>8

LEMMA KeyEquation ==
  ASSUME NEW d \in Nat, NEW e \in Nat, NEW x \in Elem, NEW y \in Elem,
         NEW sol, NEW Num, NEW E, Unknowns(d, e, sol, Num, E)
  PROVE  Solves(d + e + 1 + e, KeyRow(x, y, d, e), sol)
           <=> Evaluate(Num, x) = ModMul(y, Evaluate(E, x))
<1> DEFINE row == KeyRow(x, y, d, e)
           w == d + e + 1 + e
           S == 0..(w - 1)
           g == [j \in S |-> ModMul(row[j], sol[j])]
           Lower(k) == FieldSum(Terms(E, x), 0..(k - 1))
           A == Evaluate(Num, x)
           V == {k \in 0..e : FieldSum(g, 0..(d + e + k)) = ModSub(A, ModMul(y, Lower(k)))}
<1>1. /\ row \in SystemRow(w) /\ row[w] = ModMul(y, Pow(x, e))
      /\ \A j \in 0..(d + e) : row[j] = Pow(x, j)
      /\ \A i \in 0..(e - 1) : row[d + e + 1 + i] = ModSub(0, ModMul(y, Pow(x, i)))
  <2>1. row \in SystemRow(w)
    BY KeyRowType
  <2>2. row[w] = ModMul(y, Pow(x, e))
    BY KeyRowType
  <2>3. \A j \in 0..(d + e) : row[j] = Pow(x, j)
    BY KeyRowType
  <2>4. \A i \in 0..(e - 1) : row[d + e + 1 + i] = ModSub(0, ModMul(y, Pow(x, i)))
    BY KeyRowType
  <2> HIDE DEF row, w
  <2> QED
    BY <2>1, <2>2, <2>3, <2>4
<1>2. /\ sol \in Assignment(w)
      /\ Num \in Poly(d + e) /\ \A i \in 0..(d + e) : sol[i] = Num[i]
      /\ E \in Poly(e) /\ E[e] = 1 /\ \A i \in 0..(e - 1) : sol[d + e + 1 + i] = E[i]
  BY DEF Unknowns
<1>3. w \in Nat /\ d + e \in Nat
  OBVIOUS
<1> HIDE DEF row
<1>4. /\ IsFiniteSet(S)
      /\ \A j \in S : row[j] \in Elem /\ sol[j] \in Elem /\ g[j] \in Elem
  <2> HIDE DEF w
  <2>1. /\ IsFiniteSet(0..(w - 1))
        /\ \A c \in 0..(w - 1) : row[c] \in Elem /\ sol[c] \in Elem /\ ModMul(row[c], sol[c]) \in Elem
    BY <1>1, <1>2, <1>3, DotType
  <2> QED
    BY <2>1
<1>5. \A i \in 0..e : /\ i \in Nat /\ E[i] \in Elem /\ Pow(x, i) \in Elem
                      /\ Terms(E, x)[i] = ModMul(E[i], Pow(x, i)) /\ Terms(E, x)[i] \in Elem
  BY <1>2, TermsType
<1>6. A \in Elem /\ A = FieldSum(Terms(Num, x), 0..(d + e))
  BY <1>2, <1>3, EvaluateIsSum
<1>7. \A k \in 0..e : Lower(k) \in Elem
  <2> SUFFICES ASSUME NEW k \in 0..e PROVE Lower(k) \in Elem
    OBVIOUS
  <2> DEFINE U == 0..(k - 1)
             t == Terms(E, x)
  <2>1. IsFiniteSet(U)
    <3>1. 0 \in Int /\ k - 1 \in Int
      OBVIOUS
    <3> QED
      BY <3>1, FS_Interval
  <2>2. \A i \in U : t[i] \in Elem
    BY <1>5
  <2> HIDE DEF U, t
  <2>3. FieldSum(t, U) \in Elem
    BY <2>1, <2>2, SumUnfolds
  <2> QED
    BY <2>3 DEF U, t
<1>8. 0 \in V
  <2> DEFINE U == 0..(d + e)
  <2>1. Lower(0) = 0
    <3>1. 0..(0 - 1) = {}
      OBVIOUS
    <3> DEFINE t == Terms(E, x)
    <3>2. FieldSum(t, {}) = 0
      <4> HIDE DEF t
      <4> QED
        BY UpTo, SumUnfolds
    <3> QED
      BY <3>1, <3>2
  <2>2. ASSUME NEW i \in U PROVE Terms(Num, x)[i] \in Elem /\ g[i] = Terms(Num, x)[i]
    <3>1. /\ Num[i] \in Elem /\ Pow(x, i) \in Elem
          /\ Terms(Num, x)[i] = ModMul(Num[i], Pow(x, i)) /\ Terms(Num, x)[i] \in Elem
      BY <1>2, <1>3, TermsType
    <3>2. g[i] = ModMul(row[i], sol[i]) /\ row[i] = Pow(x, i) /\ sol[i] = Num[i]
      BY <1>1, <1>2
    <3>3. ModMul(Pow(x, i), Num[i]) = ModMul(Num[i], Pow(x, i))
      BY <3>1, Commutes
    <3> HIDE DEF g
    <3> QED
      BY <3>1, <3>2, <3>3
  <2>3. IsFiniteSet(U)
    BY <1>3, UpTo
  <2> DEFINE t == Terms(Num, x)
  <2>4. FieldSum(g, U) = FieldSum(t, U)
    <3> HIDE DEF U, g, t
    <3>1. \A i \in U : t[i] \in Elem /\ g[i] = t[i]
      BY <2>2 DEF t
    <3> QED
      BY <2>3, <3>1, SumEqual
  <2>5. ModMul(y, 0) = 0 /\ ModSub(A, 0) = A
    BY <1>6, MulOne, AddZero
  <2>6. d + e + 0 = d + e /\ 0 \in 0..e
    OBVIOUS
  <2> HIDE DEF g, A
  <2> QED
    BY <1>6, <2>1, <2>4, <2>5, <2>6
<1>9. ASSUME NEW k \in 0..(e - 1), k \in V PROVE k + 1 \in V
  <2> DEFINE j == d + e + 1 + k
             U == 0..j
             R == 0..k
             t == Terms(E, x)
             s == t[k]
             B == Lower(k)
             q == ModMul(y, B)
             p == ModMul(y, s)
  <2>1. /\ j \in S /\ j \in U /\ U \ {j} = 0..(d + e + k) /\ U \subseteq S /\ k \in Nat /\ j \in Nat
        /\ d + e + (k + 1) = j /\ k + 1 \in 0..e /\ k \in 0..e
    BY <1>9
  <2>2. k \in R /\ R \ {k} = 0..(k - 1) /\ (k + 1) - 1 = k
    BY <1>9
  <2>3. B \in Elem /\ s \in Elem
    BY <1>5, <1>7, <2>1
  <2>4. FieldSum(g, U) = ModAdd(g[j], FieldSum(g, 0..(d + e + k)))
    <3>1. IsFiniteSet(U) /\ \A i \in U : g[i] \in Elem
      BY <1>4, <2>1, UpTo
    <3> HIDE DEF U, g, j
    <3> QED
      BY <2>1, <3>1, SumStep
  <2>5. Lower(k + 1) = ModAdd(s, B)
    <3>1. IsFiniteSet(R) /\ \A i \in R : t[i] \in Elem
      <4>1. \A i \in R : i \in 0..e
        BY <2>1
      <4> QED
        BY <1>5, <2>1, <4>1, UpTo
    <3> HIDE DEF R, t
    <3>2. FieldSum(t, R) = ModAdd(t[k], FieldSum(t, R \ {k}))
      BY <2>2, <3>1, SumStep
    <3> QED
      BY <2>2, <3>2 DEF R, t
  <2>6. g[j] = Neg(p)
    <3> DEFINE u == Pow(x, k)
               v == E[k]
    <3>1. u \in Elem /\ v \in Elem /\ s = ModMul(v, u)
      BY <1>5, <2>1
    <3>2. g[j] = ModMul(ModSub(0, ModMul(y, u)), v)
      <4>1. g[j] = ModMul(row[j], sol[j])
        BY <2>1
      <4>2. row[j] = ModSub(0, ModMul(y, u)) /\ sol[j] = v
        BY <1>1, <1>2
      <4> HIDE DEF g, j, u, v
      <4> QED
        BY <4>1, <4>2
    <3> HIDE DEF u, v, s, g
    <3>3. ModMul(y, u) \in Elem
      BY <3>1, Ops
    <3>4. ModMul(Neg(ModMul(y, u)), v) = Neg(ModMul(ModMul(y, u), v))
      BY <3>1, <3>3, Negation
    <3>6. ModMul(ModMul(y, u), v) = ModMul(y, ModMul(u, v)) /\ ModMul(u, v) = ModMul(v, u)
      BY <3>1, MulAssociates, Commutes
    <3> QED
      BY <3>1, <3>2, <3>4, <3>6 DEF Neg
  <2>7. FieldSum(g, 0..(d + e + k)) = ModSub(A, q)
    BY <1>9
  <2> HIDE DEF s, B, A, g, j, U
  <2>8. q \in Elem /\ p \in Elem
    BY <2>3, Ops
  <2>9. ModMul(y, ModAdd(s, B)) = ModAdd(p, q)
    BY <2>3, Distributes
  <2> HIDE DEF p, q
  <2>10. ModAdd(Neg(p), ModSub(A, q)) = ModSub(A, ModAdd(p, q))
    <3>1. A \in Elem /\ Neg(p) \in Elem /\ Neg(p) = (0 - p) % P
      BY <1>6, <2>8, Units, Ops, Negation DEF Neg
    <3>2. ModSub(A, q) = (A - q) % P /\ ModSub(A, q) \in Elem
      BY <2>8, <3>1, Ops
    <3>3. ModAdd(p, q) = (p + q) % P /\ ModAdd(p, q) \in Elem
      BY <2>8, Ops
    <3>4. ModAdd(Neg(p), ModSub(A, q)) = (Neg(p) + ModSub(A, q)) % P
      BY <3>1, <3>2, Ops
    <3>5. ModSub(A, ModAdd(p, q)) = (A - ModAdd(p, q)) % P
      BY <3>1, <3>3, Ops
    <3>6. p \in Int /\ q \in Int /\ A \in Int /\ Neg(p) \in Int /\ 0 - p \in Int /\ A - q \in Int /\ p + q \in Int
      <4>1. p \in Int /\ q \in Int /\ A \in Int /\ Neg(p) \in Int
        BY <2>8, <3>1, Units
      <4> QED
        BY <4>1
    <3>7. (((0 - p) % P) + ((A - q) % P)) % P = ((0 - p) + ((A - q) % P)) % P
      <4>1. (A - q) % P \in Int
        BY <3>2, Units
      <4> QED
        BY <3>6, <4>1, ModInner
    <3>8. ((0 - p) + ((A - q) % P)) % P = ((0 - p) + (A - q)) % P
      BY <3>6, ModInner
    <3>9. (A - ((p + q) % P)) % P = (A - (p + q)) % P
      BY <3>6, ModInner
    <3>10. (0 - p) + (A - q) = A - (p + q)
      BY <3>6
    <3> QED
      BY <3>1, <3>2, <3>3, <3>4, <3>5, <3>7, <3>8, <3>9, <3>10
  <2>11. FieldSum(g, U) = ModSub(A, ModMul(y, Lower(k + 1)))
    <3> HIDE DEF Lower
    <3> QED
      BY <2>4, <2>5, <2>6, <2>7, <2>9, <2>10
  <2>12. U = 0..(d + e + (k + 1))
    BY <2>1 DEF U
  <2> HIDE DEF Lower
  <2> QED
    BY <2>1, <2>11, <2>12
<1> HIDE DEF V
<1>10. \A k \in 0..e : k \in V
  BY <1>8, <1>9, InductTo
<1> DEFINE B == Lower(e)
           z == Pow(x, e)
           Dim == Dot(w, row, sol)
<1>11. Dim = ModSub(A, ModMul(y, B))
  <2>1. e \in V
    BY <1>10
  <2>2. d + e + e = w - 1
    OBVIOUS
  <2>3. FieldSum(g, S) = ModSub(A, ModMul(y, B))
    BY <2>1, <2>2 DEF V
  <2> QED
    BY <2>3 DEF Dot
<1>12. Evaluate(E, x) = ModAdd(z, B)
  <2> DEFINE U == 0..e
             t == Terms(E, x)
  <2>1. Evaluate(E, x) = FieldSum(t, U)
    BY <1>2, EvaluateIsSum
  <2>2. IsFiniteSet(U) /\ e \in U /\ U \ {e} = 0..(e - 1) /\ \A i \in U : t[i] \in Elem
    <3>1. IsFiniteSet(U)
      BY UpTo
    <3>2. e \in U /\ U \ {e} = 0..(e - 1)
      OBVIOUS
    <3>3. \A i \in U : t[i] \in Elem
      BY <1>5
    <3> QED
      BY <3>1, <3>2, <3>3
  <2>3. t[e] = z
    <3>1. e \in 0..e
      OBVIOUS
    <3> QED
      BY <1>2, <1>5, <3>1, MulOne
  <2> HIDE DEF U, t
  <2>4. FieldSum(t, U) = ModAdd(t[e], FieldSum(t, U \ {e}))
    BY <2>2, SumStep
  <2> QED
    BY <2>1, <2>2, <2>3, <2>4 DEF t
<1>13. B \in Elem /\ z \in Elem
  BY <1>5, <1>7
<1> HIDE DEF A, B, z, Dim
<1> DEFINE p == ModMul(y, z)
           q == ModMul(y, B)
<1>14. p \in Elem /\ q \in Elem /\ ModMul(y, ModAdd(z, B)) = ModAdd(p, q)
  BY <1>13, Ops, Distributes
<1>15. Solves(w, row, sol) <=> Dim = p
  BY <1>1 DEF Solves, Dim, z
<1>16. Dim = ModSub(A, q)
  BY <1>11
<1> HIDE DEF p, q
<1>17. ModAdd(ModSub(A, q), q) = A /\ ModSub(ModAdd(p, q), q) = p
  BY <1>6, <1>14, SubtractThenAdd, AddThenSubtract
<1>18. ModSub(A, q) = p <=> A = ModAdd(p, q)
  BY <1>17
<1> QED
  BY <1>12, <1>14, <1>15, <1>16, <1>18 DEF A, row

LEMMA KeyEquationsRows ==
  ASSUME NEW n \in Nat, NEW points \in Points(n), NEW d \in Nat, NEW e \in Nat, NEW k \in 1..n
  PROVE  /\ points[k][1] \in Elem /\ points[k][2] \in Elem
         /\ KeyEquations(points, d, e)[k] = KeyRow(points[k][1], points[k][2], d, e)
<1>1. points \in [1..n -> Elem \X Elem] /\ DOMAIN points = 1..n
  BY DEF Points
<1>2. points[k] \in Elem \X Elem
  BY <1>1
<1>3. KeyEquations(points, d, e)[k] = KeyRow(points[k][1], points[k][2], d, e)
  BY <1>1 DEF KeyEquations, KeyRow
<1> QED
  BY <1>2, <1>3

\* A monic polynomial that vanishes on a set.
Locates(E, e, T) == E \in Poly(e) /\ E[e] = 1 /\ \A x \in T : Evaluate(E, x) = 0

LEMMA LocatorExists ==
  ASSUME NEW e \in Nat, NEW T \in SUBSET Elem, Cardinality(T) <= e
  PROVE  \E E : Locates(E, e, T)
<1> DEFINE V == {n \in Nat : \A U \in SUBSET Elem : Cardinality(U) <= n => \E E : Locates(E, n, U)}
<1>1. 0 \in V
  <2> SUFFICES ASSUME NEW U \in SUBSET Elem, Cardinality(U) <= 0 PROVE \E E : Locates(E, 0, U)
    OBVIOUS
  <2>1. U = {}
    <3>1. IsFiniteSet(U) /\ Cardinality(U) \in Nat
      BY ElemFinite
    <3>2. Cardinality(U) = 0
      BY <3>1
    <3> QED
      BY <3>1, <3>2, FS_EmptySet
  <2> DEFINE E == [i \in 0..0 |-> 1]
  <2>2. E \in Poly(0) /\ E[0] = 1
    BY Units DEF Poly
  <2> HIDE DEF E
  <2>3. Locates(E, 0, U)
    BY <2>1, <2>2 DEF Locates
  <2> QED
    BY <2>3
<1>2. ASSUME NEW n \in V PROVE n + 1 \in V
  <2>0. n \in Nat /\ \A U \in SUBSET Elem : Cardinality(U) <= n => \E E : Locates(E, n, U)
    OBVIOUS
  <2>1. ASSUME NEW U \in SUBSET Elem, Cardinality(U) <= n + 1 PROVE \E E : Locates(E, n + 1, U)
    <3>1. PICK t \in Elem : Cardinality(U \ {t}) <= n
      <4>1. IsFiniteSet(U) /\ Cardinality(U) \in Nat /\ Cardinality({}) = 0
        BY ElemFinite, FS_EmptySet
      <4>2. CASE U = {}
        <5>1. U \ {0} = {} /\ 0 \in Elem
          BY <4>2, Units
        <5> QED
          BY <2>0, <4>1, <5>1
      <4>3. ASSUME NEW x \in U PROVE x \in Elem /\ Cardinality(U \ {x}) <= n
        <5>1. Cardinality(U \ {x}) = Cardinality(U) - 1
          BY <4>1, FS_RemoveElement
        <5> QED
          BY <2>0, <2>1, <4>1, <5>1
      <4> QED
        BY <4>2, <4>3
    <3> DEFINE W == U \ {t}
    <3>2. W \in SUBSET Elem /\ Cardinality(W) <= n /\ \A x \in U : x \in W \/ x = t
      BY <3>1
    <3> HIDE DEF W
    <3>3. PICK E : Locates(E, n, W)
      BY <2>0, <3>2
    <3> DEFINE F == PolyMulXMinus(E, t)
    <3>4. /\ F \in Poly(n + 1) /\ F[n + 1] = E[n]
          /\ \A x \in Elem : Evaluate(F, x) = ModMul(ModSub(x, t), Evaluate(E, x))
      <4>1. E \in Poly(n)
        BY <3>3 DEF Locates
      <4> QED
        BY <2>0, <4>1, TimesXMinus
    <3> HIDE DEF F
    <3>5. ASSUME NEW x \in U PROVE Evaluate(F, x) = 0
      <4>1. x \in Elem /\ E \in Poly(n)
        BY <3>3 DEF Locates
      <4>2. Evaluate(E, x) \in Elem /\ ModSub(x, t) \in Elem
        BY <2>0, <4>1, EvaluateIsSum, Ops
      <4>3. Evaluate(F, x) = ModMul(ModSub(x, t), Evaluate(E, x))
        BY <3>4, <4>1
      <4>4. CASE x = t
        <5>1. ModSub(x, t) = 0
          BY <4>1, <4>4, AddZero
        <5> QED
          BY <4>2, <4>3, <5>1, MulOne
      <4>5. CASE x \in W
        <5>1. Evaluate(E, x) = 0
          BY <3>3, <4>5 DEF Locates
        <5> QED
          BY <4>2, <4>3, <5>1, MulOne
      <4> QED
        BY <3>2, <4>4, <4>5
    <3>6. Locates(F, n + 1, U)
      BY <3>3, <3>4, <3>5 DEF Locates
    <3> QED
      BY <3>6
  <2> QED
    BY <2>0, <2>1
<1> HIDE DEF V
<1>3. V = Nat
  <2>1. V \in SUBSET Nat
    BY DEF V
  <2> QED
    BY <1>1, <1>2, <2>1, Induct
<1>4. e \in V
  BY <1>3
<1> QED
  BY <1>4 DEF V

LEMMA KeyEquationsConsistent ==
  ASSUME NEW n \in Nat, NEW points \in Points(n), NEW d \in Nat, NEW e \in Nat,
         NEW c \in Poly(d), Cardinality(Wrong(points, c)) <= e
  PROVE  \E x \in Assignment(d + e + 1 + e) : Solved(n, d + e + 1 + e, KeyEquations(points, d, e), x)
<1> DEFINE w == d + e + 1 + e
           B == Wrong(points, c)
           T == {points[k][1] : k \in B}
<1>1. DOMAIN points = 1..n /\ B \in SUBSET (1..n) /\ IsFiniteSet(B)
  <2>1. DOMAIN points = 1..n
    BY DEF Points
  <2>2. B \in SUBSET (1..n)
    BY <2>1 DEF Wrong
  <2>3. IsFiniteSet(1..n)
    BY FS_Interval
  <2> HIDE DEF B
  <2> QED
    BY <2>1, <2>2, <2>3, FS_Subset
<1>2. T \in SUBSET Elem
  BY <1>1, KeyEquationsRows
<1>3. Cardinality(T) <= e
  <2>1. \A i, j \in 1..n : i # j => points[i][1] # points[j][1]
    BY DEF Points
  <2> DEFINE f == [k \in B |-> points[k][1]]
             U == {f[k] : k \in B}
  <2>2. \A i, j \in B : i # j => f[i] # f[j]
    BY <1>1, <2>1
  <2>3. U = T
    OBVIOUS
  <2>4. Cardinality(B) <= e
    OBVIOUS
  <2> HIDE DEF B, f, T
  <2>5. Cardinality(U) = Cardinality(B)
    BY <1>1, <2>2, DistinctCount
  <2> QED
    BY <2>3, <2>4, <2>5
<1> HIDE DEF T
<1>4. PICK E : Locates(E, e, T)
  BY <1>2, <1>3, LocatorExists
<1>5. E \in Poly(e) /\ E[e] = 1 /\ \A x \in T : Evaluate(E, x) = 0
  BY <1>4 DEF Locates
<1>6. PICK Num : ProductOf(Num, c, d, E, e)
  BY <1>5, ProductExists
<1>7. Num \in Poly(d + e) /\ \A x \in Elem : Evaluate(Num, x) = ModMul(Evaluate(c, x), Evaluate(E, x))
  BY <1>6 DEF ProductOf
<1> DEFINE sol == [j \in 0..(w - 1) |-> IF j < d + e + 1 THEN Num[j] ELSE E[j - (d + e + 1)]]
<1>8. Unknowns(d, e, sol, Num, E)
  <2>1. \A i \in 0..(d + e) : Num[i] \in Elem
    BY <1>7 DEF Poly
  <2>2. \A i \in 0..e : E[i] \in Elem
    BY <1>5 DEF Poly
  <2>3. ASSUME NEW j \in 0..(w - 1) PROVE sol[j] \in Elem
    <3>1. CASE j < d + e + 1
      BY <2>1, <3>1
    <3>2. CASE j >= d + e + 1
      <4> DEFINE i == j - (d + e + 1)
      <4>1. sol[j] = E[i] /\ i \in 0..e
        BY <3>2
      <4> HIDE DEF i, sol
      <4> QED
        BY <2>2, <4>1
    <3> QED
      BY <3>1, <3>2
  <2>4. sol \in Assignment(w)
    BY <2>3 DEF Assignment
  <2>5. \A i \in 0..(d + e) : sol[i] = Num[i]
    OBVIOUS
  <2>6. \A i \in 0..(e - 1) : sol[d + e + 1 + i] = E[i]
    <3> SUFFICES ASSUME NEW i \in 0..(e - 1) PROVE sol[d + e + 1 + i] = E[i]
      OBVIOUS
    <3> DEFINE j == d + e + 1 + i
    <3>1. j \in 0..(w - 1) /\ ~(j < d + e + 1) /\ j - (d + e + 1) = i
      OBVIOUS
    <3> HIDE DEF j
    <3>2. sol[j] = E[i]
      BY <3>1
    <3> QED
      BY <3>2 DEF j
  <2> HIDE DEF sol
  <2> QED
    BY <1>5, <1>7, <2>4, <2>5, <2>6 DEF Unknowns
<1> HIDE DEF sol
<1>9. ASSUME NEW k \in 1..n PROVE Solves(w, KeyEquations(points, d, e)[k], sol)
  <2> DEFINE x == points[k][1]
             y == points[k][2]
  <2>1. x \in Elem /\ y \in Elem /\ KeyEquations(points, d, e)[k] = KeyRow(x, y, d, e)
    BY KeyEquationsRows
  <2>2. Evaluate(Num, x) = ModMul(Evaluate(c, x), Evaluate(E, x))
    BY <1>7, <2>1
  <2>3. Evaluate(c, x) \in Elem
    BY <2>1, EvaluateIsSum
  <2>4. CASE k \in B
    <3>1. x \in T
      BY <2>4 DEF T
    <3>2. Evaluate(E, x) = 0
      BY <1>5, <3>1
    <3> HIDE DEF x, y
    <3>3. Evaluate(Num, x) = ModMul(y, Evaluate(E, x))
      BY <2>1, <2>2, <2>3, <3>2, MulOne
    <3> QED
      BY <1>8, <2>1, <3>3, KeyEquation
  <2>5. CASE k \notin B
    <3>1. y = Evaluate(c, x)
      BY <1>1, <2>5 DEF Wrong, Agreeing
    <3> HIDE DEF x, y
    <3>2. Evaluate(Num, x) = ModMul(y, Evaluate(E, x))
      BY <2>2, <3>1
    <3> QED
      BY <1>8, <2>1, <3>2, KeyEquation
  <2> QED
    BY <2>4, <2>5
<1>10. sol \in Assignment(w) /\ Solved(n, w, KeyEquations(points, d, e), sol)
  BY <1>8, <1>9 DEF Unknowns, Solved
<1> QED
  BY <1>10

\* Num = c E, when few points are wrong.
LEMMA KeySolution ==
  ASSUME NEW n \in Nat, NEW points \in Points(n), NEW d \in Nat, NEW e \in Nat,
         NEW c \in Poly(d), Cardinality(Agreeing(points, c)) > d + e,
         NEW sol, NEW Num, NEW E, Unknowns(d, e, sol, Num, E),
         Solved(n, d + e + 1 + e, KeyEquations(points, d, e), sol)
  PROVE  /\ d + e < P
         /\ \A x \in Elem : Evaluate(Num, x) = ModMul(Evaluate(c, x), Evaluate(E, x))
<1> DEFINE w == d + e + 1 + e
           A == Agreeing(points, c)
           R == {points[k][1] : k \in A}
<1>1. A \in SUBSET (1..n) /\ IsFiniteSet(A) /\ DOMAIN points = 1..n
  BY WrongCount
<1>2. E \in Poly(e) /\ Num \in Poly(d + e) /\ d + e \in Nat
  BY DEF Unknowns
<1>3. PICK M : ProductOf(M, c, d, E, e)
  BY <1>2, ProductExists
<1>4. M \in Poly(d + e) /\ \A x \in Elem : Evaluate(M, x) = ModMul(Evaluate(c, x), Evaluate(E, x))
  BY <1>3 DEF ProductOf
<1>5. ASSUME NEW k \in A
      PROVE  points[k][1] \in Elem /\ Evaluate(Num, points[k][1]) = Evaluate(M, points[k][1])
  <2> DEFINE x == points[k][1]
             y == points[k][2]
  <2>1. k \in 1..n
    BY <1>1
  <2>2. x \in Elem /\ y \in Elem /\ KeyEquations(points, d, e)[k] = KeyRow(x, y, d, e)
    BY <2>1, KeyEquationsRows
  <2>3. Solves(w, KeyRow(x, y, d, e), sol)
    BY <2>1, <2>2 DEF Solved
  <2>4. y = Evaluate(c, x)
    BY DEF Agreeing
  <2> HIDE DEF x, y
  <2>5. Evaluate(Num, x) = ModMul(y, Evaluate(E, x))
    BY <2>2, <2>3, KeyEquation
  <2>6. Evaluate(Num, x) = Evaluate(M, x)
    BY <1>4, <2>2, <2>4, <2>5
  <2> QED
    BY <2>2, <2>6 DEF x
<1>6. R \in SUBSET Elem /\ \A x \in R : Evaluate(Num, x) = Evaluate(M, x)
  BY <1>5
<1>7. Cardinality(R) = Cardinality(A)
  <2>1. \A i, j \in 1..n : i # j => points[i][1] # points[j][1]
    BY DEF Points
  <2> DEFINE f == [k \in A |-> points[k][1]]
             U == {f[k] : k \in A}
  <2>2. \A i, j \in A : i # j => f[i] # f[j]
    BY <1>1, <2>1
  <2>3. U = R
    OBVIOUS
  <2> HIDE DEF A, f, R
  <2>4. Cardinality(U) = Cardinality(A)
    BY <1>1, <2>2, DistinctCount
  <2> QED
    BY <2>3, <2>4
<1>8. Cardinality(A) > d + e
  OBVIOUS
<1> HIDE DEF A, R
<1> DEFINE Dim == d + e
<1>9. IsFiniteSet(R) /\ Cardinality(R) > Dim /\ Cardinality(R) \in Nat /\ Dim \in Nat
  BY <1>2, <1>6, <1>7, <1>8, ElemFinite
<1>10. Num \in Poly(Dim) /\ M \in Poly(Dim)
  BY <1>2, <1>4
<1>11. Dim < P
  <2>1. Cardinality(Elem) = P
    <3>1. 0 \in Int /\ P - 1 \in Int /\ P \in Nat /\ P >= 2
      BY Modulus
    <3>2. Cardinality(0..(P - 1)) = P
      BY <3>1, FS_Interval
    <3> QED
      BY <3>2 DEF Elem
  <2>2. IsFiniteSet(Elem) /\ P \in Nat
    BY ElemFinite, Modulus
  <2>3. Cardinality(R) <= Cardinality(Elem)
    BY <1>6, <2>2, FS_Subset
  <2> HIDE DEF Dim
  <2> QED
    BY <1>9, <2>1, <2>2, <2>3
<1> HIDE DEF Dim
<1>12. Num = M
  BY <1>6, <1>9, <1>10, OnePolynomial
<1> QED
  BY <1>4, <1>11, <1>12 DEF Dim

\* Berlekamp-Welch finds the polynomial that all but e points are on.
LEMMA BerlekampWelchExact ==
  ASSUME NEW n \in Nat, NEW points \in Points(n), NEW d \in Nat, NEW e \in Nat,
         NEW c \in Poly(d), d + e + e < n, Cardinality(Wrong(points, c)) <= e
  PROVE  BerlekampWelch(points, d, e) = {c[0]}
<1> DEFINE numN == d + e + 1
           w == d + e + 1 + e
           aug == KeyEquations(points, d, e)
           nCoeffs(s) == [i \in 0..(numN - 1) |-> s[i]]
           eCoeffs(s) == [i \in 0..e |-> IF i = e THEN 1 ELSE s[numN + i]]
           quotient(s) == PolyDivMod(nCoeffs(s), eCoeffs(s))[1]
           rest(s) == PolyDivMod(nCoeffs(s), eCoeffs(s))[2]
           answer(s) == IF /\ PolyDegree(rest(s)) = -1
                           /\ PolyDegree(quotient(s)) <= d
                           /\ Cardinality(Disagreements(points, quotient(s))) <= e
                        THEN {PolyEvalAt(quotient(s), 0)} ELSE {}
<1>1. BerlekampWelch(points, d, e) = UNION {answer(s) : s \in GaussianSolve(aug)}
  BY DEF BerlekampWelch
<1>2. n \in Nat \ {0} /\ w \in Nat \ {0} /\ numN + e = w /\ numN - 1 = d + e
  OBVIOUS
<1>3. aug \in Systems(n, w)
  BY KeySystem
<1>4. \E x \in Assignment(w) : Solved(n, w, aug, x)
  BY KeyEquationsConsistent
<1> HIDE DEF aug
<1>5. GaussianSolve(aug) # {}
  <2> HIDE DEF w
  <2> QED
    BY <1>2, <1>3, <1>4, EliminationFinds
<1>6. ASSUME NEW s \in GaussianSolve(aug) PROVE answer(s) = {c[0]}
  <2> DEFINE Num == nCoeffs(s)
             E == eCoeffs(s)
             q == quotient(s)
             r == rest(s)
  <2>1. s \in Assignment(w) /\ Solved(n, w, aug, s)
    <3> HIDE DEF w
    <3> QED
      BY <1>2, <1>3, EliminationSolves
  <2>2. \A j \in 0..(w - 1) : s[j] \in Elem
    BY <2>1 DEF Assignment
  <2>3. Num \in Poly(d + e) /\ \A i \in 0..(d + e) : s[i] = Num[i]
    BY <2>2 DEF Poly
  <2>4. E \in Poly(e) /\ E[e] = 1 /\ \A i \in 0..(e - 1) : s[numN + i] = E[i]
    BY <2>2, Units DEF Poly
  <2>5. q = PolyDivMod(Num, E)[1] /\ r = PolyDivMod(Num, E)[2]
    OBVIOUS
  <2>6. answer(s) = IF /\ PolyDegree(r) = -1 /\ PolyDegree(q) <= d
                       /\ Cardinality(Disagreements(points, q)) <= e
                    THEN {PolyEvalAt(q, 0)} ELSE {}
    OBVIOUS
  <2> HIDE DEF Num, E, q, r, answer
  <2>7. Unknowns(d, e, s, Num, E)
    BY <2>1, <2>3, <2>4 DEF Unknowns
  <2>8. Cardinality(Agreeing(points, c)) > d + e
    <3> DEFINE A == Cardinality(Agreeing(points, c))
               B == Cardinality(Wrong(points, c))
    <3>1. A \in Nat /\ B = n - A
      BY WrongCount
    <3>2. B <= e
      OBVIOUS
    <3> HIDE DEF A, B
    <3>3. A > d + e
      BY <3>1, <3>2
    <3> QED
      BY <3>3 DEF A
  <2>9. /\ d + e < P
        /\ \A x \in Elem : Evaluate(Num, x) = ModMul(Evaluate(c, x), Evaluate(E, x))
    BY <2>1, <2>7, <2>8, KeySolution DEF aug
  <2>10. /\ PolyDegree(PolyDivMod(Num, E)[2]) = -1
         /\ PolyDegree(PolyDivMod(Num, E)[1]) <= d
         /\ \A x \in Elem : PolyEvalAt(PolyDivMod(Num, E)[1], x) = Evaluate(c, x)
    BY <2>3, <2>4, <2>9, DivideExact
  <2>11. Disagreements(points, q) = Wrong(points, c)
    <3>1. DOMAIN points = 1..n
      BY WrongCount
    <3>2. ASSUME NEW k \in 1..n PROVE PolyEvalAt(q, points[k][1]) = Evaluate(c, points[k][1])
      <4>1. points[k][1] \in Elem
        BY KeyEquationsRows
      <4> QED
        BY <2>5, <2>10, <4>1
    <3> QED
      BY <3>1, <3>2 DEF Disagreements, Wrong, Agreeing
  <2>12. PolyEvalAt(q, 0) = c[0]
    <3>1. Evaluate(c, 0) = c[0]
      BY EvaluateAtZero
    <3> QED
      BY <2>5, <2>10, <3>1, Units
  <2> QED
    BY <2>5, <2>6, <2>10, <2>11, <2>12
<1> HIDE DEF answer
<1>7. \A s \in GaussianSolve(aug) : answer(s) = {c[0]}
  BY <1>6
<1> QED
  BY <1>1, <1>5, <1>7

-----------------------------------------------------------------------------
(* The decoder as a whole.                                                 *)

\* What the decoder puts in order, or takes as it is.
InOrder(points, strict) == IF strict THEN points ELSE SortedByX(points)

LEMMA InOrderSame ==
  ASSUME NEW n \in Nat, NEW points \in Points(n), NEW strict \in BOOLEAN, NEW c
  PROVE  /\ InOrder(points, strict) \in Points(n)
         /\ Cardinality(Agreeing(InOrder(points, strict), c)) = Cardinality(Agreeing(points, c))
         /\ Cardinality(Wrong(InOrder(points, strict), c)) = Cardinality(Wrong(points, c))
<1>1. PICK pi : Reordered(points, SortedByX(points), n, pi)
  BY SortReorders
<1>2. /\ SortedByX(points) \in Points(n)
      /\ Cardinality(Agreeing(SortedByX(points), c)) = Cardinality(Agreeing(points, c))
  BY <1>1, ReorderedSame
<1>3. /\ InOrder(points, strict) \in Points(n)
      /\ Cardinality(Agreeing(InOrder(points, strict), c)) = Cardinality(Agreeing(points, c))
  BY <1>2 DEF InOrder
<1> DEFINE s == InOrder(points, strict)
<1>4. s \in Points(n)
  BY <1>3
<1> HIDE DEF s
<1>5. Cardinality(Wrong(s, c)) = n - Cardinality(Agreeing(s, c))
  BY <1>4, WrongCount
<1>6. Cardinality(Wrong(points, c)) = n - Cardinality(Agreeing(points, c))
  BY WrongCount
<1> QED
  BY <1>3, <1>5, <1>6 DEF s

\* The duplicate and the order check of the decoder.
Misplaced(points, strict) ==
  IF strict THEN \E k \in 2..Len(points) : points[k][1] <= points[k - 1][1]
  ELSE \E j, k \in 1..Len(points) : j # k /\ points[j][1] = points[k][1]

LEMMA DecodeCases ==
  ASSUME NEW points, NEW d, NEW strict
  PROVE  Decode(points, d, strict)
           = IF Len(points) <= d \/ Misplaced(points, strict) THEN {}
             ELSE IF Len(points) = d + 1 THEN InterpolateAtZero(points)
             ELSE IF FastPath(InOrder(points, strict), d) # {}
             THEN FastPath(InOrder(points, strict), d)
             ELSE BerlekampWelch(InOrder(points, strict), d, ErrorBound(Len(points), d))
BY DEF Decode, Misplaced, InOrder

LEMMA ErrorBoundExact ==
  ASSUME NEW n \in Nat, NEW d \in Nat, d < n
  PROVE  /\ ErrorBound(n, d) \in Nat
         /\ 2 * ErrorBound(n, d) + d < n /\ n <= 2 * ErrorBound(n, d) + d + 2
<1> DEFINE e == ErrorBound(n, d)
<1>1. n - d - 1 \in Nat /\ e = (n - d - 1) \div 2
  BY DEF ErrorBound
<1> HIDE DEF e
<1>2. e \in Nat /\ 2 * e <= n - d - 1 /\ n - d - 1 <= 2 * e + 1
  BY <1>1
<1>3. 2 * e + d < n /\ n <= 2 * e + d + 2
  BY <1>2
<1> QED
  BY <1>2, <1>3 DEF e

LEMMA AllThrough ==
  ASSUME NEW d \in Nat, NEW points \in Points(d + 1)
  PROVE  \E q \in Poly(d) : Wrong(points, q) = {} /\ InterpolateAtZero(points) = {q[0]}
<1>1. DOMAIN points = 1..(d + 1) /\ points \in [1..(d + 1) -> Elem \X Elem]
  BY DEF Points
<1>2. PICK q : Through(points, 1, d, q)
  <2>1. d \in 0..d /\ 1 \in 1..(d + 1 - d)
    OBVIOUS
  <2> QED
    BY <2>1, Neville
<1>3. q \in Poly(d) /\ \A k \in 1..(d + 1) : points[k][2] = Evaluate(q, points[k][1])
  <2>1. 1 + d = d + 1
    OBVIOUS
  <2> QED
    BY <1>2, <2>1 DEF Through
<1>4. Wrong(points, q) = {}
  BY <1>1, <1>3 DEF Wrong, Agreeing
<1>5. PointsOf(points, q) /\ Cardinality(DOMAIN points) = d + 1
  <2>1. IsFiniteSet(1..(d + 1)) /\ Cardinality(1..(d + 1)) = d + 1
    BY FS_Interval
  <2>2. \A k \in 1..(d + 1) : points[k] \in Elem \X Elem
    BY <1>1
  <2>3. \A k \in 1..(d + 1) : points[k][1] \in Elem
    BY <2>2
  <2>4. \A i, j \in 1..(d + 1) : i # j => points[i][1] # points[j][1]
    BY DEF Points
  <2> QED
    BY <1>1, <1>3, <2>1, <2>3, <2>4 DEF PointsOf
<1>6. InterpolateAtZero(points) = {q[0]}
  BY <1>3, <1>5, LagrangeExact
<1> QED
  BY <1>3, <1>4, <1>6

\* Every answer is the value at zero of a polynomial that few points miss.
LEMMA DecodeAnswer ==
  ASSUME NEW n \in Nat, NEW points \in Points(n), NEW d \in Nat,
         NEW strict \in BOOLEAN, NEW v \in Decode(points, d, strict)
  PROVE  \E q \in Poly(d) : v = q[0] /\ 2 * Cardinality(Wrong(points, q)) + d < n
<1> DEFINE sorted == InOrder(points, strict)
           e == ErrorBound(n, d)
<1>1. Len(points) = n
  BY DEF Points
<1>2. /\ d < n
      /\ n = d + 1 => v \in InterpolateAtZero(points)
      /\ n # d + 1 => v \in FastPath(sorted, d) \/ v \in BerlekampWelch(sorted, d, e)
  BY <1>1, DecodeCases
<1>3. sorted \in Points(n) /\ \A c : Cardinality(Wrong(sorted, c)) = Cardinality(Wrong(points, c))
  BY InOrderSame
<1>4. e \in Nat /\ 2 * e + d < n
  BY <1>2, ErrorBoundExact
<1>5. Cardinality({}) = 0 /\ 2 * 0 + d < n
  BY <1>2, FS_EmptySet
<1> HIDE DEF sorted, e
<1>6. CASE n = d + 1
  <2>1. PICK q \in Poly(d) : Wrong(points, q) = {} /\ InterpolateAtZero(points) = {q[0]}
    BY <1>6, AllThrough
  <2> QED
    BY <1>2, <1>5, <1>6, <2>1
<1>7. CASE v \in FastPath(sorted, d)
  <2>1. PICK q \in Poly(d) : v = q[0] /\ Wrong(sorted, q) = {}
    BY <1>2, <1>3, <1>7, FastPathAnswer
  <2>2. Cardinality(Wrong(points, q)) = 0
    BY <1>3, <1>5, <2>1
  <2> QED
    BY <1>5, <2>1, <2>2
<1>8. CASE v \in BerlekampWelch(sorted, d, e)
  <2>1. PICK q \in Poly(d) : v = q[0] /\ Cardinality(Wrong(sorted, q)) <= e
    BY <1>2, <1>3, <1>4, <1>8, BerlekampWelchAnswer
  <2> DEFINE W == Cardinality(Wrong(points, q))
  <2>2. W <= e
    BY <1>3, <2>1
  <2>3. W \in Int
    <3>1. W = n - Cardinality(Agreeing(points, q)) /\ Cardinality(Agreeing(points, q)) \in Nat
      BY WrongCount
    <3> HIDE DEF W
    <3> QED
      BY <3>1
  <2> HIDE DEF W
  <2>4. 2 * W + d < n
    BY <1>4, <2>2, <2>3
  <2> QED
    BY <2>1, <2>4 DEF W
<1> QED
  BY <1>2, <1>6, <1>7, <1>8

(* reedSolomonDecodeImpl: whatever it returns, for points in any order, is *)
(* the value at zero of the polynomial c that h of the n points are on, if *)
(* h exceeds the degree d and the other points by at least d.              *)
THEOREM DecodeSound ==
  ASSUME NEW n \in Nat, NEW points \in Points(n), NEW d \in Nat, NEW c \in Poly(d),
         2 * Cardinality(Agreeing(points, c)) >= n + d,
         NEW strict \in BOOLEAN, NEW v \in Decode(points, d, strict)
  PROVE  v = c[0]
<1>1. PICK q \in Poly(d) : v = q[0] /\ 2 * Cardinality(Wrong(points, q)) + d < n
  BY DecodeAnswer
<1> DEFINE U == 1..n
           A == Agreeing(points, c)
           B == Agreeing(points, q)
           R == A \cap B
<1>2. A \in SUBSET U /\ B \in SUBSET U
  BY WrongCount
<1>3. \A k \in R : points[k][2] = Evaluate(c, points[k][1]) /\ points[k][2] = Evaluate(q, points[k][1])
  BY DEF Agreeing
<1>4. /\ 2 * Cardinality(A) >= n + d /\ 2 * (n - Cardinality(B)) + d < n
      /\ IsFiniteSet(U) /\ Cardinality(U) = n
  <2>1. Cardinality(Wrong(points, q)) = n - Cardinality(B)
    BY WrongCount
  <2>2. IsFiniteSet(U) /\ Cardinality(U) = n
    BY FS_Interval
  <2> QED
    BY <1>1, <2>1, <2>2
<1> HIDE DEF U, A, B
<1>5. IsFiniteSet(A) /\ IsFiniteSet(B) /\ A \cup B \in SUBSET U
  BY <1>2, <1>4, FS_Subset
<1>6. Cardinality(A \cup B) = Cardinality(A) + Cardinality(B) - Cardinality(R)
  BY <1>5, FS_Union
<1>7. Cardinality(A \cup B) <= n /\ IsFiniteSet(A \cup B) /\ IsFiniteSet(R)
  BY <1>4, <1>5, FS_Subset, FS_Intersection
<1>8. /\ Cardinality(A) \in Nat /\ Cardinality(B) \in Nat /\ Cardinality(R) \in Nat
      /\ Cardinality(A \cup B) \in Nat
  BY <1>5, <1>7, FS_CardinalityType
<1>9. Cardinality(R) > d
  <2> DEFINE a == Cardinality(A)
             b == Cardinality(B)
             r == Cardinality(R)
             u == Cardinality(A \cup B)
  <2>1. /\ a \in Nat /\ b \in Nat /\ r \in Nat /\ u \in Nat
        /\ u = a + b - r /\ u <= n /\ 2 * a >= n + d /\ 2 * (n - b) + d < n
    BY <1>4, <1>6, <1>7, <1>8
  <2> HIDE DEF a, b, r, u
  <2>2. r > d
    BY <2>1
  <2> QED
    BY <2>2 DEF r
<1>10. R \in SUBSET (1..n)
  BY <1>2 DEF U
<1> HIDE DEF R
<1>11. q = c
  BY <1>3, <1>9, <1>10, AgreementDecides
<1> QED
  BY <1>1, <1>11

(* The decoder corrects as many errors as the distance of the code allows: *)
(* with fewer than half of n - d points wrong it returns the value at zero *)
(* of the polynomial that the others are on.                               *)
THEOREM DecodeExact ==
  ASSUME NEW n \in Nat, NEW points \in Points(n), NEW d \in Nat, NEW c \in Poly(d),
         2 * Cardinality(Wrong(points, c)) + d < n,
         NEW strict \in BOOLEAN, ~Misplaced(points, strict)
  PROVE  Decode(points, d, strict) = {c[0]}
<1> DEFINE sorted == InOrder(points, strict)
           e == ErrorBound(n, d)
           h == Cardinality(Agreeing(points, c))
           W == Cardinality(Wrong(points, c))
<1>1. Len(points) = n
  BY DEF Points
<1>2. h \in Nat /\ W = n - h /\ h <= n /\ 2 * W + d < n
  <2>1. h \in Nat /\ W = n - h
    BY WrongCount
  <2>2. Agreeing(points, c) \in SUBSET (1..n) /\ IsFiniteSet(1..n) /\ Cardinality(1..n) = n
    <3>1. Agreeing(points, c) \in SUBSET (1..n)
      BY WrongCount
    <3>2. IsFiniteSet(1..n) /\ Cardinality(1..n) = n
      BY FS_Interval
    <3> QED
      BY <3>1, <3>2
  <2>3. h <= n
    BY <2>2, FS_Subset
  <2> QED
    BY <2>1, <2>3
<1>3. W \in Nat /\ d < n /\ 2 * h >= n + d
  <2> HIDE DEF h, W
  <2> QED
    BY <1>2
<1>4. \A v \in Decode(points, d, strict) : v = c[0]
  BY <1>3, DecodeSound
<1>5. sorted \in Points(n) /\ Cardinality(Wrong(sorted, c)) = W
  BY InOrderSame
<1>6. e \in Nat /\ 2 * e + d < n /\ n <= 2 * e + d + 2
  BY <1>3, ErrorBoundExact
<1>7. Decode(points, d, strict) # {}
  <2>1. Decode(points, d, strict)
          = IF n = d + 1 THEN InterpolateAtZero(points)
            ELSE IF FastPath(sorted, d) # {} THEN FastPath(sorted, d)
            ELSE BerlekampWelch(sorted, d, e)
    <3>1. ~ (Len(points) <= d)
      BY <1>1, <1>3
    <3> QED
      BY <1>1, <3>1, DecodeCases
  <2>2. CASE n = d + 1
    <3>1. PICK q \in Poly(d) : InterpolateAtZero(points) = {q[0]}
      BY <2>2, AllThrough
    <3> QED
      BY <2>1, <2>2, <3>1
  <2>3. CASE n # d + 1
    <3> HIDE DEF sorted, e, W
    <3>1. W <= e /\ d + e + e < n
      BY <1>2, <1>3, <1>6
    <3>2. Cardinality(Wrong(sorted, c)) <= e
      BY <1>5, <3>1
    <3>3. BerlekampWelch(sorted, d, e) = {c[0]}
      BY <1>5, <1>6, <3>1, <3>2, BerlekampWelchExact
    <3> QED
      BY <2>1, <2>3, <3>3
  <2> QED
    BY <2>2, <2>3
<1> QED
  BY <1>4, <1>7

\* Points in increasing order are different.
LEMMA IncreasingDistinct ==
  ASSUME NEW n \in Nat, NEW points \in [1..n -> Elem \X Elem], ~Misplaced(points, TRUE)
  PROVE  points \in Points(n)
<1> DEFINE x == [k \in 1..n |-> points[k][1]]
           V == {k \in 0..n : \A i, j \in 1..k : i < j => x[i] < x[j]}
<1>1. \A k \in 1..n : x[k] \in Int
  <2>1. \A k \in 1..n : points[k] \in Elem \X Elem
    OBVIOUS
  <2>2. \A k \in 1..n : points[k][1] \in Elem
    BY <2>1
  <2> QED
    BY <2>2, Units
<1>2. \A k \in 2..n : x[k - 1] < x[k]
  <2>1. Len(points) = n
    OBVIOUS
  <2>2. \A k \in 2..n : ~ (points[k][1] <= points[k - 1][1]) /\ k \in 1..n /\ k - 1 \in 1..n
    BY <2>1 DEF Misplaced
  <2>3. \A k \in 2..n : ~ (x[k] <= x[k - 1]) /\ x[k] \in Int /\ x[k - 1] \in Int
    BY <1>1, <2>2
  <2> HIDE DEF x
  <2> QED
    BY <2>3
<1> HIDE DEF x
<1>3. 0 \in V
  OBVIOUS
<1>4. ASSUME NEW k \in 0..(n - 1), k \in V PROVE k + 1 \in V
  <2>1. \A i, j \in 1..k : i < j => x[i] < x[j]
    BY <1>4
  <2>2. ASSUME NEW i \in 1..(k + 1), NEW j \in 1..(k + 1), i < j PROVE x[i] < x[j]
    <3>1. CASE j <= k
      BY <2>1, <2>2, <3>1
    <3>2. CASE j = k + 1
      <4>1. i \in 1..k /\ k \in 1..k /\ k + 1 \in 2..n /\ (k + 1) - 1 = k /\ i \in 1..n /\ k \in 1..n /\ j \in 1..n
        BY <2>2, <3>2
      <4>2. x[k] < x[j]
        BY <1>2, <3>2, <4>1
      <4>3. i = k \/ x[i] < x[k]
        BY <2>1, <4>1
      <4> QED
        BY <1>1, <4>1, <4>2, <4>3
    <3> QED
      BY <3>1, <3>2
  <2> QED
    BY <2>2
<1> HIDE DEF V
<1>5. n \in V
  <2>1. \A k \in 0..n : k \in V
    BY <1>3, <1>4, InductTo
  <2> QED
    BY <2>1
<1>6. \A i, j \in 1..n : i < j => x[i] < x[j]
  BY <1>5 DEF V
<1>7. \A i, j \in 1..n : i # j => x[i] # x[j]
  <2>1. ASSUME NEW i \in 1..n, NEW j \in 1..n, i # j PROVE x[i] # x[j]
    <3>1. i < j \/ j < i
      BY <2>1
    <3> QED
      BY <1>1, <1>6, <3>1
  <2> QED
    BY <2>1
<1> QED
  BY <1>7 DEF Points, x

(* The polynomials within the unique decoding radius of the points.        *)
Nearby(points, d) == {c \in Poly(d) : 2 * Cardinality(Wrong(points, c)) + d < Len(points)}

(* What the decoder of interpolate.go means, for any points of the field,  *)
(* any degree, and both variants: nothing for misplaced points, and else   *)
(* the values at zero of the polynomials within the decoding radius, which *)
(* is one value or none.                                                   *)
THEOREM DecodeMeans ==
  ASSUME NEW n \in Nat, NEW points \in [1..n -> Elem \X Elem], NEW d \in Nat, NEW strict \in BOOLEAN
  PROVE  /\ Decode(points, d, strict)
              = IF Misplaced(points, strict) THEN {} ELSE {c[0] : c \in Nearby(points, d)}
         /\ \A u, v \in Decode(points, d, strict) : u = v
<1> DEFINE X == Decode(points, d, strict)
           Y == {c[0] : c \in Nearby(points, d)}
<1>1. Len(points) = n
  OBVIOUS
<1>2. CASE Misplaced(points, strict)
  <2>1. X = {}
    BY <1>2, DecodeCases
  <2> QED
    BY <1>2, <2>1
<1>3. CASE ~Misplaced(points, strict)
  <2>1. points \in Points(n)
    <3>1. CASE strict
      BY <1>3, <3>1, IncreasingDistinct
    <3>2. CASE ~strict
      <4>1. \A i, j \in 1..n : i # j => points[i][1] # points[j][1]
        BY <1>1, <1>3, <3>2 DEF Misplaced
      <4> QED
        BY <4>1 DEF Points
    <3> QED
      BY <3>1, <3>2
  <2>2. ASSUME NEW c \in Nearby(points, d) PROVE X = {c[0]}
    <3>1. c \in Poly(d) /\ 2 * Cardinality(Wrong(points, c)) + d < n
      BY <1>1 DEF Nearby
    <3> QED
      BY <1>3, <2>1, <3>1, DecodeExact
  <2>3. ASSUME NEW v \in X PROVE \E c \in Nearby(points, d) : v = c[0]
    <3>1. PICK q \in Poly(d) : v = q[0] /\ 2 * Cardinality(Wrong(points, q)) + d < n
      BY <2>1, DecodeAnswer
    <3>2. q \in Nearby(points, d)
      BY <1>1, <3>1 DEF Nearby
    <3> QED
      BY <3>1, <3>2
  <2> HIDE DEF X
  <2>4. X = Y
    BY <2>2, <2>3
  <2>5. \A u, v \in X : u = v
    BY <2>2, <2>3
  <2> QED
    BY <1>3, <2>4, <2>5 DEF X
<1> QED
  BY <1>2, <1>3

(* Without errors every redundant point only confirms the value.           *)
THEOREM DecodeCodeword ==
  ASSUME NEW n \in Nat, NEW d \in Nat, d < n, NEW points \in Points(n), NEW c \in Poly(d),
         \A k \in 1..n : points[k][2] = Evaluate(c, points[k][1]),
         NEW strict \in BOOLEAN, ~strict
  PROVE  Decode(points, d, strict) = {c[0]}
<1>1. points \in [1..n -> Elem \X Elem] /\ \A i, j \in 1..n : i # j => points[i][1] # points[j][1]
  BY DEF Points
<1>2. DOMAIN points = 1..n /\ Len(points) = n
  BY <1>1
<1>3. Wrong(points, c) = {}
  BY <1>2 DEF Wrong, Agreeing
<1>4. 2 * Cardinality(Wrong(points, c)) + d < n
  BY <1>3, FS_EmptySet
<1>5. ~Misplaced(points, strict)
  BY <1>1, <1>2 DEF Misplaced
<1> QED
  BY <1>4, <1>5, DecodeExact
=============================================================================
