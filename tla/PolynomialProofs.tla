--------------------------- MODULE PolynomialProofs ---------------------------
(***************************************************************************)
(* The field and the polynomials over it.  The operations of Field never   *)
(* wrap, for every prime and every width that validateFieldLayout accepts, *)
(* and ModInv finds the inverse of every element but zero; then sums and   *)
(* products, the values of a polynomial, how many roots it has, and what   *)
(* interpolation at zero returns.                                          *)
(***************************************************************************)
EXTENDS TriPoly, FiniteSetTheorems, WellFoundedInduction, TLAPS

LEMMA Modulus == P \in Nat /\ P >= 2 /\ Word \in Nat /\ (P - 1) * (P - 1) < Word
BY FieldAssumption, WordAssumption DEF FieldValid

(* 2P - 2 < Word: for P <= 2 since Word >= 4, else 2m <= m * m.            *)
LEMMA SumsFit == 2 * P - 2 < Word
<1>1. CASE P = 2
  BY <1>1, WordAssumption
<1>2. CASE P >= 3
  <2> DEFINE m == P - 1
  <2>1. m \in Nat /\ m >= 2
    BY <1>2, Modulus
  <2>2. 2 * m <= m * m
    BY <2>1, SMT
  <2> QED
    BY <2>1, <2>2, Modulus
<1> QED
  BY <1>1, <1>2, Modulus

LEMMA ProductsFit ==
  ASSUME NEW a \in Elem, NEW b \in Elem
  PROVE  a * b \in 0..(Word - 1)
<1> DEFINE m == P - 1
<1>1. a \in 0..m /\ b \in 0..m /\ m \in Nat
  BY Modulus DEF Elem
<1>2. a * b >= 0
  BY <1>1, SMT
<1>3. a * b <= m * b
  BY <1>1, SMT
<1>4. m * b <= m * m
  BY <1>1, SMT
<1>5. m * m < Word
  BY Modulus
<1>6. a * b \in Int /\ m * b \in Int /\ m * m \in Int /\ Word \in Int
  BY <1>1, Modulus
<1> HIDE DEF m
<1> QED
  BY <1>2, <1>3, <1>4, <1>5, <1>6

LEMMA Reduced == ASSUME NEW v \in Int PROVE v % P \in Elem
BY Modulus DEF Elem

(* The sum of two field elements, computed in machine words with one       *)
(* comparison and one subtraction, is the sum modulo P.                    *)
THEOREM AddExact ==
  ASSUME NEW a \in Elem, NEW b \in Elem
  PROVE  ModAddCanon(a, b) \in Elem /\ ModAddCanon(a, b) = (a + b) % P
<1>1. a \in 0..(P - 1) /\ b \in 0..(P - 1) /\ a + b \in 0..(2 * P - 2) /\ P \in Nat /\ P >= 2 /\ Word \in Nat
  BY Modulus DEF Elem
<1>2. (a + b) % Word = a + b
  BY <1>1, SumsFit
<1>3. CASE a + b >= P
  <2> DEFINE c == a + b - P
  <2>0. c \in 0..(P - 1) /\ a + b = c + 1 * P
    BY <1>1, <1>3
  <2>1. (c + 1 * P) % P = c
    <3> HIDE DEF c
    <3> QED BY <2>0, <1>1
  <2> QED
    BY <1>1, <1>2, <1>3, <2>0, <2>1 DEF ModAddCanon, Elem
<1>4. CASE a + b < P
  <2>1. (a + b) % P = a + b
    BY <1>1, <1>4
  <2> QED
    BY <1>1, <1>2, <1>4, <2>1 DEF ModAddCanon, Elem
<1> QED
  BY <1>1, <1>3, <1>4

(* The difference, where the code adds P first only when it must.          *)
THEOREM SubExact ==
  ASSUME NEW a \in Elem, NEW b \in Elem
  PROVE  ModSubCanon(a, b) \in Elem /\ ModSubCanon(a, b) = (a - b) % P
<1>1. a \in 0..(P - 1) /\ b \in 0..(P - 1) /\ P \in Nat /\ P >= 2 /\ Word \in Nat
  BY Modulus DEF Elem
<1>2. CASE a >= b
  <2>1. (a - b) % P = a - b
    BY <1>1, <1>2
  <2> QED
    BY <1>1, <1>2, <2>1 DEF ModSubCanon, Elem
<1>3. CASE a < b
  <2>1. P + a \in 0..(Word - 1)
    BY <1>1, <1>3, SumsFit
  <2>2. (P + a) % Word = P + a
    BY <2>1, <1>1
  <2>3. P + a - b \in 0..(P - 1) /\ P + a - b \in 0..(Word - 1)
    BY <1>1, <1>3, <2>1
  <2>4. ((P + a) - b) % Word = P + a - b
    BY <2>3, <1>1
  <2>5. (a - b) % P = P + a - b
    BY <1>1, <1>3
  <2> QED
    BY <1>1, <1>3, <2>2, <2>3, <2>4, <2>5 DEF ModSubCanon, Elem
<1> QED
  BY <1>1, <1>2, <1>3

(* The product: the layout check on P is what makes it fit a word.         *)
THEOREM MulExact ==
  ASSUME NEW a \in Elem, NEW b \in Elem
  PROVE  ModMulCanon(a, b) \in Elem /\ ModMulCanon(a, b) = (a * b) % P
<1>1. a * b \in 0..(Word - 1) /\ Word \in Nat
  BY ProductsFit, Modulus
<1> DEFINE c == a * b
<1>2. c \in 0..(Word - 1)
  BY <1>1
<1> HIDE DEF c
<1>3. c % Word = c /\ c \in Int
  BY <1>1, <1>2
<1>4. c % P \in Elem
  BY <1>3, Reduced
<1> QED
  BY <1>3, <1>4 DEF c, ModMulCanon

-----------------------------------------------------------------------------
(* Induction, from the least element of a set of naturals.                 *)

LEMMA Least == ASSUME NEW T \in SUBSET Nat, T # {} PROVE \E x \in T : \A y \in T : x <= y
<1> DEFINE R == OpToRel(<, Nat)
<1>1. IsWellFoundedOn(R, Nat)
  BY NatLessThanWellFounded
<1>2. \A x, y \in Nat : <<x, y>> \in R <=> x < y
  BY DEF OpToRel
<1> HIDE DEF R
<1>3. PICK x \in T : \A y \in T : ~(<<y, x>> \in R)
  BY <1>1, WFMin
<1>4. \A y \in T : ~(y < x) /\ x \in Nat /\ y \in Nat
  BY <1>2, <1>3
<1> QED
  BY <1>4

LEMMA Induct ==
  ASSUME NEW S \in SUBSET Nat, 0 \in S, \A n \in S : n + 1 \in S
  PROVE  S = Nat
<1> SUFFICES ASSUME Nat \ S # {} PROVE FALSE
  OBVIOUS
<1>1. Nat \ S \in SUBSET Nat
  OBVIOUS
<1>2. PICK x \in Nat \ S : \A y \in Nat \ S : x <= y
  BY <1>1, Least
<1>3. x # 0 /\ x - 1 \in Nat /\ ~(x <= x - 1) /\ (x - 1) + 1 = x
  BY <1>2
<1>4. x - 1 \in S
  BY <1>2, <1>3
<1> QED
  BY <1>3, <1>4

(* A sequence of values each made from the one before, which exists.       *)
Iterates(S, s0, step) ==
  CHOOSE f : f \in [Nat -> S] /\ f[0] = s0 /\ \A n \in Nat : f[n + 1] = step[f[n]]

LEMMA Iterate ==
  ASSUME NEW S, NEW s0, s0 \in S, NEW step, \A s \in S : step[s] \in S
  PROVE  /\ Iterates(S, s0, step) \in [Nat -> S]
         /\ \A n \in Nat : Iterates(S, s0, step)[n + 1] = step[Iterates(S, s0, step)[n]]
<1> DEFINE Good(n, f) == f[0] = s0 /\ \A k \in Nat : k < n => f[k + 1] = step[f[k]]
           G == {n \in Nat : \E f \in [0..n -> S] : Good(n, f)}
<1>1. 0 \in G
  <2>1. [i \in 0..0 |-> s0] \in [0..0 -> S] /\ Good(0, [i \in 0..0 |-> s0])
    OBVIOUS
  <2> QED
    BY <2>1
<1>2. ASSUME NEW n \in G PROVE n + 1 \in G
  <2>0. n \in Nat /\ \E f \in [0..n -> S] : Good(n, f)
    BY <1>2
  <2>1. PICK f \in [0..n -> S] : Good(n, f)
    BY <2>0
  <2> DEFINE g == [i \in 0..(n + 1) |-> IF i = n + 1 THEN step[f[n]] ELSE f[i]]
  <2>2. n \in Nat /\ n \in 0..n
    BY <2>0
  <2>3. f[n] \in S /\ step[f[n]] \in S
    BY <2>2
  <2>4. g \in [0..(n + 1) -> S]
    BY <2>2, <2>3
  <2>5. g[0] = s0
    BY <2>1, <2>2
  <2>6. ASSUME NEW k \in Nat, k < n + 1 PROVE g[k + 1] = step[g[k]]
    <3>1. CASE k = n
      BY <2>2, <3>1
    <3>2. CASE k # n
      <4>1. k < n /\ k \in 0..(n + 1) /\ k + 1 \in 0..(n + 1) /\ k # n + 1 /\ k + 1 # n + 1
        BY <2>2, <2>6, <3>2
      <4>2. f[k + 1] = step[f[k]]
        BY <2>1, <4>1
      <4> QED
        BY <4>1, <4>2
    <3> QED
      BY <3>1, <3>2
  <2>7. Good(n + 1, g)
    BY <2>5, <2>6
  <2> HIDE DEF g, Good
  <2> QED
    BY <2>2, <2>4, <2>7
<1>3. G = Nat
  <2>1. G \in SUBSET Nat
    OBVIOUS
  <2> HIDE DEF G
  <2> QED
    BY <1>1, <1>2, <2>1, Induct
<1> DEFINE F(n) == CHOOSE f \in [0..n -> S] : Good(n, f)
<1>4. ASSUME NEW n \in Nat PROVE F(n) \in [0..n -> S] /\ Good(n, F(n))
  <2>1. n \in G
    BY <1>3
  <2>2. \E f \in [0..n -> S] : Good(n, f)
    BY <2>1
  <2> HIDE DEF Good
  <2> QED
    BY <2>2
<1> HIDE DEF F, G
<1>5. ASSUME NEW n \in Nat, NEW m \in Nat, n <= m PROVE F(m)[n] = F(n)[n]
  <2> DEFINE V == {i \in Nat : i <= n => F(m)[i] = F(n)[i]}
  <2>1. 0 \in V
    BY <1>4
  <2>2. ASSUME NEW i \in V PROVE i + 1 \in V
    <3> SUFFICES ASSUME i + 1 <= n PROVE F(m)[i + 1] = F(n)[i + 1]
      OBVIOUS
    <3>1. i \in Nat /\ i < n /\ i < m /\ i <= n
      BY <1>5
    <3>2. F(m)[i + 1] = step[F(m)[i]]
      BY <1>4, <3>1
    <3>3. F(n)[i + 1] = step[F(n)[i]]
      BY <1>4, <3>1
    <3> QED
      BY <3>1, <3>2, <3>3
  <2>3. V = Nat
    <3>1. V \in SUBSET Nat
      OBVIOUS
    <3> HIDE DEF V
    <3> QED
      BY <2>1, <2>2, <3>1, Induct
  <2>4. n \in V
    BY <2>3
  <2> QED
    BY <2>4
<1> DEFINE f == [n \in Nat |-> F(n)[n]]
<1>6. f \in [Nat -> S] /\ f[0] = s0
  <2>1. ASSUME NEW n \in Nat PROVE F(n)[n] \in S
    <3>1. n \in 0..n
      OBVIOUS
    <3> HIDE DEF Good
    <3> QED
      BY <1>4, <3>1
  <2>2. F(0)[0] = s0
    BY <1>4
  <2> QED
    BY <2>1, <2>2
<1>7. ASSUME NEW n \in Nat PROVE f[n + 1] = step[f[n]]
  <2>1. n + 1 \in Nat /\ n <= n + 1 /\ n < n + 1
    OBVIOUS
  <2>2. F(n + 1)[n + 1] = step[F(n + 1)[n]]
    BY <1>4, <2>1
  <2>3. F(n + 1)[n] = F(n)[n]
    BY <1>5, <2>1
  <2> QED
    BY <2>1, <2>2, <2>3
<1> HIDE DEF f
<1> QED
  BY <1>6, <1>7 DEF Iterates

(* The body of a recursive function looks only at values of smaller        *)
(* measure; such a function exists.                                        *)
Contracts(Dom, Rng, body, m) ==
  /\ m \in [Dom -> Nat] /\ Rng # {}
  /\ \A f \in [Dom -> Rng] : body[f] \in [Dom -> Rng]
  /\ \A f, g \in [Dom -> Rng], x \in Dom :
       (\A y \in Dom : m[y] < m[x] => f[y] = g[y]) => body[f][x] = body[g][x]

LEMMA Recursion ==
  ASSUME NEW Dom, NEW Rng, NEW body, NEW m, Contracts(Dom, Rng, body, m)
  PROVE  \E f \in [Dom -> Rng] : f = body[f]
<1> USE DEF Contracts
<1> DEFINE Fun == [Dom -> Rng]
<1>1. \E f0 \in Fun : TRUE
  <2>1. PICK v \in Rng : TRUE
    OBVIOUS
  <2>2. [x \in Dom |-> v] \in Fun
    OBVIOUS
  <2> QED
    BY <2>2
<1>2. \A f \in Fun : body[f] \in Fun
  OBVIOUS
<1>3. PICK f0 : f0 \in Fun
  BY <1>1
<1> DEFINE F == Iterates(Fun, f0, body)
<1>4. F \in [Nat -> Fun] /\ \A n \in Nat : F[n + 1] = body[F[n]]
  <2> HIDE DEF Fun
  <2> QED
    BY <1>2, <1>3, Iterate
<1> HIDE DEF F
<1>5. ASSUME NEW n \in Nat, NEW k \in Nat, n <= k, NEW x \in Dom, m[x] < n
      PROVE  F[k][x] = F[n][x]
  <2> DEFINE V == {i \in Nat : \A j \in Nat, y \in Dom : i <= j /\ m[y] < i => F[j][y] = F[i][y]}
  <2>1. 0 \in V
    OBVIOUS
  <2>2. ASSUME NEW i \in V PROVE i + 1 \in V
    <3>0. i \in Nat
      OBVIOUS
    <3> SUFFICES ASSUME NEW j \in Nat, NEW y \in Dom, i + 1 <= j, m[y] < i + 1
                 PROVE  F[j][y] = F[i + 1][y]
      BY <3>0
    <3>1. i \in Nat /\ j - 1 \in Nat /\ i <= j - 1 /\ j = (j - 1) + 1
      OBVIOUS
    <3>2. \A z \in Dom : m[z] < m[y] => m[z] < i
      BY <3>1
    <3>3. \A z \in Dom : m[z] < m[y] => F[j - 1][z] = F[i][z]
      BY <3>1, <3>2
    <3>4. F[j - 1] \in [Dom -> Rng] /\ F[i] \in [Dom -> Rng]
      BY <1>4, <3>1
    <3>5. body[F[j - 1]][y] = body[F[i]][y]
      BY <3>3, <3>4
    <3>6. F[j] = body[F[j - 1]]
      BY <1>4, <3>1
    <3>7. F[i + 1] = body[F[i]]
      BY <1>4, <3>1
    <3> QED
      BY <3>5, <3>6, <3>7
  <2>3. V = Nat
    <3>1. V \in SUBSET Nat
      OBVIOUS
    <3> HIDE DEF V
    <3> QED
      BY <2>1, <2>2, <3>1, Induct
  <2>4. n \in V
    BY <2>3
  <2> QED
    BY <1>5, <2>4
<1> DEFINE g == [x \in Dom |-> F[m[x] + 1][x]]
<1>6. g \in [Dom -> Rng]
  <2>1. ASSUME NEW x \in Dom PROVE F[m[x] + 1][x] \in Rng
    <3>1. F[m[x] + 1] \in [Dom -> Rng]
      BY <1>4
    <3> QED
      BY <3>1
  <2> QED
    BY <2>1
<1>7. body[g] \in [Dom -> Rng]
  BY <1>6
<1>8. ASSUME NEW x \in Dom PROVE body[g][x] = g[x]
  <2>1. m[x] \in Nat /\ F[m[x]] \in [Dom -> Rng]
    BY <1>4
  <2>2. ASSUME NEW y \in Dom, m[y] < m[x] PROVE F[m[x]][y] = g[y]
    <3>1. m[y] \in Nat /\ m[y] + 1 \in Nat /\ m[y] + 1 <= m[x] /\ m[y] < m[y] + 1
      BY <2>1, <2>2
    <3> QED
      BY <1>5, <2>1, <3>1
  <2> HIDE DEF g
  <2>3. body[F[m[x]]][x] = body[g][x]
    BY <1>6, <2>1, <2>2
  <2>4. F[m[x] + 1] = body[F[m[x]]]
    BY <1>4, <2>1
  <2> QED
    BY <2>3, <2>4 DEF g
<1> HIDE DEF g
<1>9. g = body[g]
  BY <1>6, <1>7, <1>8
<1> QED
  BY <1>6, <1>9

-----------------------------------------------------------------------------
(* Arithmetic modulo P, and the operations as a commutative ring.          *)

LEMMA ModUnique ==
  ASSUME NEW k \in Int, NEW r \in Elem
  PROVE  (r + k * P) % P = r
<1>1. P \in Nat /\ P > 0 /\ r \in Int /\ 0 <= r /\ r < P
  BY Modulus DEF Elem
<1> QED
  BY <1>1

LEMMA ModQuotient ==
  ASSUME NEW v \in Int
  PROVE  v % P \in Elem /\ v \div P \in Int /\ v = (v % P) + (v \div P) * P
<1>1. P \in Nat /\ P > 0
  BY Modulus
<1>2. v = P * (v \div P) + (v % P) /\ v \div P \in Int /\ v % P \in 0..(P - 1)
  BY <1>1
<1> QED
  BY <1>1, <1>2 DEF Elem

LEMMA ModSame ==
  ASSUME NEW u \in Int, NEW v \in Int, NEW k \in Int, u = v + k * P
  PROVE  u % P = v % P
<1> DEFINE r == v % P
           q == v \div P
<1>1. r \in Elem /\ q \in Int /\ v = r + q * P
  BY ModQuotient
<1> HIDE DEF r, q
<1>2. P \in Int /\ r \in Int
  BY <1>1, Modulus DEF Elem
<1>3. u = r + (q + k) * P /\ q + k \in Int
  BY <1>1, <1>2
<1>4. u % P = r
  BY <1>1, <1>3, ModUnique
<1> QED
  BY <1>4 DEF r

LEMMA ModSmall == ASSUME NEW a \in Elem PROVE a % P = a
<1>1. P \in Nat /\ P > 0 /\ a \in Int /\ 0 <= a /\ a < P
  BY Modulus DEF Elem
<1> QED
  BY <1>1

LEMMA ModInner ==
  ASSUME NEW u \in Int, NEW v \in Int
  PROVE  /\ ((u % P) + v) % P = (u + v) % P
         /\ (v + (u % P)) % P = (v + u) % P
         /\ ((u % P) - v) % P = (u - v) % P
         /\ (v - (u % P)) % P = (v - u) % P
         /\ ((u % P) * v) % P = (u * v) % P
         /\ (v * (u % P)) % P = (v * u) % P
<1> DEFINE r == u % P
           q == u \div P
<1>1. r \in Elem /\ q \in Int /\ u = r + q * P
  BY ModQuotient
<1> HIDE DEF r, q
<1>2. P \in Int /\ r \in Int
  BY <1>1, Modulus DEF Elem
<1>3. (r + v) % P = (u + v) % P /\ (v + r) % P = (v + u) % P
  <2>1. u + v = (r + v) + q * P /\ v + u = (v + r) + q * P
    BY <1>1, <1>2
  <2>2. u + v \in Int /\ r + v \in Int /\ v + u \in Int /\ v + r \in Int
    BY <1>2
  <2> QED
    BY <1>1, <2>1, <2>2, ModSame
<1>4. (r - v) % P = (u - v) % P
  <2>1. u - v = (r - v) + q * P
    BY <1>1, <1>2
  <2>2. u - v \in Int /\ r - v \in Int
    BY <1>2
  <2> QED
    BY <1>1, <2>1, <2>2, ModSame
<1>5. (v - r) % P = (v - u) % P
  <2>1. v - u = (v - r) + (-q) * P /\ -q \in Int
    BY <1>1, <1>2
  <2>2. v - u \in Int /\ v - r \in Int
    BY <1>2
  <2> QED
    BY <1>1, <2>1, <2>2, ModSame
<1>6. (r * v) % P = (u * v) % P /\ (v * r) % P = (v * u) % P
  <2>1. u * v = (r * v) + (q * v) * P /\ v * u = (v * r) + (q * v) * P /\ q * v \in Int
    BY <1>1, <1>2
  <2>2. u * v \in Int /\ r * v \in Int /\ v * u \in Int /\ v * r \in Int
    BY <1>2
  <2> QED
    BY <1>1, <2>1, <2>2, ModSame
<1> QED
  BY <1>3, <1>4, <1>5, <1>6 DEF r

LEMMA Ops ==
  ASSUME NEW a \in Elem, NEW b \in Elem
  PROVE  /\ ModAdd(a, b) = (a + b) % P /\ ModAdd(a, b) \in Elem
         /\ ModSub(a, b) = (a - b) % P /\ ModSub(a, b) \in Elem
         /\ ModMul(a, b) = (a * b) % P /\ ModMul(a, b) \in Elem
         /\ ModAddCanon(a, b) = ModAdd(a, b)
         /\ ModSubCanon(a, b) = ModSub(a, b)
         /\ ModMulCanon(a, b) = ModMul(a, b)
<1>1. a % P = a /\ b % P = b
  BY ModSmall
<1> QED
  BY <1>1, AddExact, SubExact, MulExact DEF ModAdd, ModSub, ModMul

LEMMA Units == 0 \in Elem /\ 1 \in Elem /\ Elem \subseteq Int
BY Modulus DEF Elem

LEMMA AddZero ==
  ASSUME NEW a \in Elem
  PROVE  ModAdd(a, 0) = a /\ ModAdd(0, a) = a /\ ModSub(a, 0) = a /\ ModSub(a, a) = 0
<1>1. a + 0 = a /\ 0 + a = a /\ a - 0 = a /\ a - a = 0
  BY Units
<1> QED
  BY <1>1, Ops, Units, ModSmall

LEMMA MulOne ==
  ASSUME NEW a \in Elem
  PROVE  ModMul(a, 1) = a /\ ModMul(1, a) = a /\ ModMul(a, 0) = 0 /\ ModMul(0, a) = 0
<1>1. a * 1 = a /\ 1 * a = a /\ a * 0 = 0 /\ 0 * a = 0
  BY Units
<1> QED
  BY <1>1, Ops, Units, ModSmall

LEMMA Commutes ==
  ASSUME NEW a \in Elem, NEW b \in Elem
  PROVE  ModAdd(a, b) = ModAdd(b, a) /\ ModMul(a, b) = ModMul(b, a)
<1>1. a + b = b + a /\ a * b = b * a
  BY Units
<1> QED
  BY <1>1, Ops

LEMMA AddAssociates ==
  ASSUME NEW a \in Elem, NEW b \in Elem, NEW c \in Elem
  PROVE  ModAdd(ModAdd(a, b), c) = ModAdd(a, ModAdd(b, c))
<1>1. a \in Int /\ b \in Int /\ c \in Int /\ a + b \in Int /\ b + c \in Int
  BY Units
<1>2. ModAdd(ModAdd(a, b), c) = (((a + b) % P) + c) % P
  BY Ops
<1>3. ModAdd(a, ModAdd(b, c)) = (a + ((b + c) % P)) % P
  BY Ops
<1>4. (((a + b) % P) + c) % P = ((a + b) + c) % P
  BY <1>1, ModInner
<1>5. (a + ((b + c) % P)) % P = (a + (b + c)) % P
  BY <1>1, ModInner
<1>6. (a + b) + c = a + (b + c)
  BY <1>1
<1> QED
  BY <1>2, <1>3, <1>4, <1>5, <1>6

LEMMA MulAssociates ==
  ASSUME NEW a \in Elem, NEW b \in Elem, NEW c \in Elem
  PROVE  ModMul(ModMul(a, b), c) = ModMul(a, ModMul(b, c))
<1>1. a \in Int /\ b \in Int /\ c \in Int /\ a * b \in Int /\ b * c \in Int
  BY Units
<1>2. ModMul(ModMul(a, b), c) = (((a * b) % P) * c) % P
  BY Ops
<1>3. ModMul(a, ModMul(b, c)) = (a * ((b * c) % P)) % P
  BY Ops
<1>4. (((a * b) % P) * c) % P = ((a * b) * c) % P
  BY <1>1, ModInner
<1>5. (a * ((b * c) % P)) % P = (a * (b * c)) % P
  BY <1>1, ModInner
<1>6. (a * b) * c = a * (b * c)
  BY <1>1
<1> QED
  BY <1>2, <1>3, <1>4, <1>5, <1>6

LEMMA Distributes ==
  ASSUME NEW a \in Elem, NEW b \in Elem, NEW c \in Elem
  PROVE  /\ ModMul(a, ModAdd(b, c)) = ModAdd(ModMul(a, b), ModMul(a, c))
         /\ ModMul(ModAdd(b, c), a) = ModAdd(ModMul(b, a), ModMul(c, a))
<1>1. a \in Int /\ b \in Int /\ c \in Int /\ b + c \in Int /\ a * b \in Int /\ a * c \in Int
  BY Units
<1>2. ModMul(a, ModAdd(b, c)) = (a * ((b + c) % P)) % P
  BY Ops
<1>3. (a * ((b + c) % P)) % P = (a * (b + c)) % P
  BY <1>1, ModInner
<1>4. ModAdd(ModMul(a, b), ModMul(a, c)) = (((a * b) % P) + ((a * c) % P)) % P
  BY Ops
<1>5. (((a * b) % P) + ((a * c) % P)) % P = ((a * b) + (a * c)) % P
  <2>1. (a * c) % P \in Int
    BY <1>1, Reduced, Units
  <2>2. (((a * b) % P) + ((a * c) % P)) % P = ((a * b) + ((a * c) % P)) % P
    BY <1>1, <2>1, ModInner
  <2> QED
    BY <1>1, <2>2, ModInner
<1>6. a * (b + c) = a * b + a * c
  BY <1>1
<1>7. ModMul(a, ModAdd(b, c)) = ModAdd(ModMul(a, b), ModMul(a, c))
  BY <1>2, <1>3, <1>4, <1>5, <1>6
<1>8. ModMul(ModAdd(b, c), a) = ModMul(a, ModAdd(b, c)) /\ ModMul(b, a) = ModMul(a, b) /\ ModMul(c, a) = ModMul(a, c)
  BY Commutes, Ops
<1> QED
  BY <1>7, <1>8

(* A difference is the sum with the negation.                              *)
Neg(a) == ModSub(0, a)

LEMMA Negation ==
  ASSUME NEW a \in Elem, NEW b \in Elem
  PROVE  /\ Neg(b) \in Elem
         /\ ModSub(a, b) = ModAdd(a, Neg(b))
         /\ ModAdd(b, Neg(b)) = 0
         /\ ModMul(a, Neg(b)) = Neg(ModMul(a, b))
         /\ ModMul(Neg(b), a) = Neg(ModMul(b, a))
<1>1. a \in Int /\ b \in Int /\ 0 - b \in Int /\ a * b \in Int /\ b * a \in Int
  BY Units
<1>2. Neg(b) = (0 - b) % P /\ Neg(b) \in Elem
  BY Ops, Units DEF Neg
<1>3. ModAdd(a, Neg(b)) = (a + (0 - b)) % P
  <2>1. ModAdd(a, Neg(b)) = (a + ((0 - b) % P)) % P
    BY <1>2, Ops
  <2> QED
    BY <1>1, <2>1, ModInner
<1>4. ModAdd(b, Neg(b)) = (b + (0 - b)) % P
  <2>1. ModAdd(b, Neg(b)) = (b + ((0 - b) % P)) % P
    BY <1>2, Ops
  <2> QED
    BY <1>1, <2>1, ModInner
<1>5. a + (0 - b) = a - b /\ b + (0 - b) = 0
  BY <1>1
<1>6. ModMul(a, Neg(b)) = Neg(ModMul(a, b))
  <2>1. ModMul(a, Neg(b)) = (a * ((0 - b) % P)) % P
    BY <1>2, Ops
  <2>2. (a * ((0 - b) % P)) % P = (a * (0 - b)) % P
    BY <1>1, ModInner
  <2>3. Neg(ModMul(a, b)) = (0 - ((a * b) % P)) % P
    <3> DEFINE m == ModMul(a, b)
    <3>1. m \in Elem /\ m = (a * b) % P
      BY Ops
    <3> HIDE DEF m
    <3>2. ModSub(0, m) = (0 - m) % P
      BY <3>1, Ops, Units
    <3> QED
      BY <3>1, <3>2 DEF Neg, m
  <2>4. (0 - ((a * b) % P)) % P = (0 - a * b) % P
    BY <1>1, ModInner
  <2>5. a * (0 - b) = 0 - a * b
    BY <1>1
  <2> QED
    BY <2>1, <2>2, <2>3, <2>4, <2>5
<1>7. ModMul(Neg(b), a) = ModMul(a, Neg(b)) /\ ModMul(b, a) = ModMul(a, b)
  BY <1>2, Commutes
<1> QED
  BY <1>2, <1>3, <1>4, <1>5, <1>6, <1>7, Ops, ModSmall, Units

LEMMA DifferenceZero ==
  ASSUME NEW a \in Elem, NEW b \in Elem, ModSub(a, b) = 0
  PROVE  a = b
<1>1. ModAdd(ModAdd(a, Neg(b)), b) = ModAdd(a, ModAdd(Neg(b), b))
  BY AddAssociates, Negation
<1>2. ModAdd(Neg(b), b) = 0
  BY Negation, Commutes
<1>3. ModAdd(0, b) = ModAdd(a, 0)
  BY <1>1, <1>2, Negation
<1> QED
  BY <1>3, AddZero

LEMMA Cancel ==
  ASSUME NEW a \in Elem, NEW b \in Elem, NEW c \in Elem, ModAdd(a, c) = ModAdd(b, c)
  PROVE  a = b
<1>1. ModAdd(ModAdd(a, c), Neg(c)) = ModAdd(a, 0)
  BY AddAssociates, Negation
<1>2. ModAdd(ModAdd(b, c), Neg(c)) = ModAdd(b, 0)
  BY AddAssociates, Negation
<1> QED
  BY <1>1, <1>2, AddZero

(* Four terms in the order in which sums of products meet them.            *)
LEMMA AddExchange ==
  ASSUME NEW a \in Elem, NEW b \in Elem, NEW c \in Elem, NEW d \in Elem
  PROVE  ModAdd(ModAdd(a, b), ModAdd(c, d)) = ModAdd(ModAdd(a, c), ModAdd(b, d))
<1>1. ModAdd(ModAdd(a, b), ModAdd(c, d)) = ModAdd(a, ModAdd(b, ModAdd(c, d)))
  BY AddAssociates, Ops
<1>2. ModAdd(b, ModAdd(c, d)) = ModAdd(c, ModAdd(b, d))
  <2>1. ModAdd(b, ModAdd(c, d)) = ModAdd(ModAdd(b, c), d)
    BY AddAssociates
  <2>2. ModAdd(c, ModAdd(b, d)) = ModAdd(ModAdd(c, b), d)
    BY AddAssociates
  <2> QED
    BY <2>1, <2>2, Commutes
<1>3. ModAdd(ModAdd(a, c), ModAdd(b, d)) = ModAdd(a, ModAdd(c, ModAdd(b, d)))
  BY AddAssociates, Ops
<1> QED
  BY <1>1, <1>2, <1>3

-----------------------------------------------------------------------------
(* Inverses, by Euclid's algorithm as ModInv runs it.                      *)

Divides(d, a) == \E k \in Int : a = k * d

Coprime(a, b) == \A d \in Nat : Divides(d, a) /\ Divides(d, b) => d = 1

LEMMA DividesPart ==
  ASSUME NEW d \in Int, NEW r \in Int, NEW q \in Int, NEW s \in Int,
         Divides(d, r), Divides(d, s - q * r)
  PROVE  Divides(d, s)
<1>1. PICK k \in Int : r = k * d
  BY DEF Divides
<1>2. PICK j \in Int : s - q * r = j * d
  BY DEF Divides
<1>3. s = (j + q * k) * d /\ j + q * k \in Int
  BY <1>1, <1>2
<1> QED
  BY <1>3 DEF Divides

(* The state after one round of the loop.                                  *)
EuclidStep(x) ==
  <<x[2], x[1] - (x[1] \div x[2]) * x[2], x[4],
    ModSub(x[3], ModMul(x[1] \div x[2], x[4]))>>

LEMMA EuclidStepSmaller ==
  ASSUME NEW x \in EuclidState, x[2] # 0
  PROVE  EuclidStep(x) \in EuclidState /\ EuclidStep(x)[2] < x[2]
<1> DEFINE a == x[1]
           b == x[2]
           q == a \div b
<1>1. a \in 0..P /\ b \in 1..P /\ x[3] \in Elem /\ x[4] \in Elem /\ P \in Nat
  BY Modulus DEF EuclidState
<1>2. q \in Nat /\ a - q * b \in 0..(b - 1)
  <2>1. a \in Nat /\ b \in Nat /\ b > 0
    BY <1>1
  <2> HIDE DEF a, b
  <2>2. a \div b \in Int /\ a = b * (a \div b) + (a % b) /\ a % b \in 0..(b - 1)
    BY <2>1
  <2>3. a \div b >= 0
    BY <2>1, <2>2
  <2> QED
    BY <2>1, <2>2, <2>3
<1>3. ModMul(q, x[4]) \in Elem
  <2> HIDE DEF a, b, q
  <2>1. q % P \in Elem
    BY <1>2, Reduced
  <2>2. x[4] % P \in Elem
    BY <1>1, ModSmall
  <2> QED
    BY <2>1, <2>2, MulExact DEF ModMul
<1>4. ModSub(x[3], ModMul(q, x[4])) \in Elem
  BY <1>1, <1>3, Ops
<1> HIDE DEF a, b, q
<1>5. b \in 0..P /\ a - q * b \in 0..P /\ a - q * b < b
  BY <1>1, <1>2
<1> QED
  BY <1>1, <1>4, <1>5 DEF a, b, q, EuclidStep, EuclidState

LEMMA EuclidUnfolds ==
  ASSUME NEW x \in EuclidState
  PROVE  /\ x[2] = 0 => Euclid[x] = IF x[1] = 1 THEN {x[3]} ELSE {}
         /\ x[2] # 0 => Euclid[x] = Euclid[EuclidStep(x)]
<1> DEFINE Rng == SUBSET Elem
           value(f, y) == IF y[2] = 0 THEN (IF y[1] = 1 THEN {y[3]} ELSE {}) ELSE f[EuclidStep(y)]
           body == [f \in [EuclidState -> Rng] |-> [y \in EuclidState |-> value(f, y)]]
           m == [y \in EuclidState |-> y[2]]
<1>1. m \in [EuclidState -> Nat]
  BY DEF EuclidState
<1>2. Rng # {}
  OBVIOUS
<1>3. ASSUME NEW f \in [EuclidState -> Rng], NEW y \in EuclidState
      PROVE  value(f, y) \in Rng
  <2>1. y[3] \in Elem
    BY DEF EuclidState
  <2>2. y[2] # 0 => EuclidStep(y) \in EuclidState
    BY EuclidStepSmaller
  <2> QED
    BY <2>1, <2>2
<1>4. \A f \in [EuclidState -> Rng] : body[f] \in [EuclidState -> Rng]
  BY <1>3
<1>5. ASSUME NEW f \in [EuclidState -> Rng], NEW g \in [EuclidState -> Rng], NEW y \in EuclidState,
             \A z \in EuclidState : m[z] < m[y] => f[z] = g[z]
      PROVE  body[f][y] = body[g][y]
  <2>1. CASE y[2] = 0
    BY <2>1
  <2>2. CASE y[2] # 0
    <3>1. EuclidStep(y) \in EuclidState /\ m[EuclidStep(y)] < m[y]
      BY <2>2, EuclidStepSmaller
    <3>2. f[EuclidStep(y)] = g[EuclidStep(y)]
      BY <1>5, <3>1
    <3> QED
      BY <2>2, <3>2
  <2> QED
    BY <2>1, <2>2
<1>6. \E f \in [EuclidState -> Rng] : f = body[f]
  <2> HIDE DEF body, m, Rng
  <2>1. Contracts(EuclidState, Rng, body, m)
    BY <1>1, <1>2, <1>4, <1>5 DEF Contracts
  <2> QED
    BY <2>1, Recursion
<1>7. \E f : f = [y \in EuclidState |-> value(f, y)]
  BY <1>6
<1>8. Euclid = CHOOSE f : f = [y \in EuclidState |-> value(f, y)]
  BY DEF Euclid, EuclidStep
<1>9. Euclid = [y \in EuclidState |-> value(Euclid, y)]
  BY <1>7, <1>8
<1> QED
  BY <1>9

(* The invariant of the loop that inverts a.                               *)
Inverting(a, x) ==
  /\ x[1] \in 1..P /\ Coprime(x[1], x[2])
  /\ x[1] % P = ModMul(x[3], a)
  /\ x[2] % P = ModMul(x[4], a)

LEMMA EuclidStepInverts ==
  ASSUME NEW a \in Elem, NEW x \in EuclidState, x[2] # 0, Inverting(a, x)
  PROVE  Inverting(a, EuclidStep(x))
<1> DEFINE r0 == x[1]
           r1 == x[2]
           s0 == x[3]
           s1 == x[4]
           q == r0 \div r1
<1>1. r0 \in 0..P /\ r1 \in 1..P /\ s0 \in Elem /\ s1 \in Elem /\ P \in Nat /\ a \in Int
  BY Modulus, Units DEF EuclidState
<1>2. q \in Int
  BY <1>1
<1>3. Coprime(r0, r1) /\ r0 % P = ModMul(s0, a) /\ r1 % P = ModMul(s1, a)
  BY DEF Inverting
<1>4. EuclidStep(x) = <<r1, r0 - q * r1, s1, ModSub(s0, ModMul(q, s1))>>
  BY DEF EuclidStep
<1> HIDE DEF r0, r1, s0, s1, q
<1>5. r0 \in Int /\ r1 \in Int /\ s0 \in Int /\ s1 \in Int /\ q * r1 \in Int /\ q * s1 \in Int
  BY <1>1, <1>2, Units
<1>6. Coprime(r1, r0 - q * r1)
  <2> SUFFICES ASSUME NEW d \in Nat, Divides(d, r1), Divides(d, r0 - q * r1) PROVE d = 1
    BY DEF Coprime
  <2>1. Divides(d, r0)
    <3>1. d \in Int
      OBVIOUS
    <3> QED
      BY <1>2, <1>5, <3>1, DividesPart
  <2> QED
    BY <1>3, <2>1 DEF Coprime
<1>7. ModMul(ModSub(s0, ModMul(q, s1)), a) = ((s0 - q * s1) * a) % P
  <2>1. ModMul(q, s1) = (q * s1) % P /\ ModMul(q, s1) \in Elem
    <3>1. q % P \in Elem /\ q % P \in Int /\ s1 % P = s1
      BY <1>1, <1>2, Reduced, ModSmall, Units
    <3>2. ModMul(q, s1) = ((q % P) * s1) % P /\ ModMul(q, s1) \in Elem
      BY <1>1, <3>1, MulExact DEF ModMul
    <3> QED
      BY <1>2, <1>5, <3>2, ModInner
  <2> DEFINE t == ModMul(q, s1)
             u == ModSub(s0, t)
  <2>2. t \in Elem
    BY <2>1
  <2>3. u = (s0 - t) % P /\ u \in Elem
    <3> HIDE DEF t
    <3> QED
      BY <1>1, <2>2, Ops
  <2>4. (s0 - t) % P = (s0 - q * s1) % P
    BY <1>5, <2>1, ModInner
  <2>5. ModMul(u, a) = (u * a) % P
    <3> HIDE DEF u
    <3> QED
      BY <2>3, Ops
  <2>6. (((s0 - q * s1) % P) * a) % P = ((s0 - q * s1) * a) % P
    <3>1. s0 - q * s1 \in Int
      BY <1>5
    <3> QED
      BY <1>1, <3>1, ModInner
  <2> QED
    BY <2>3, <2>4, <2>5, <2>6
<1>8. (r0 - q * r1) % P = (s0 * a - q * (s1 * a)) % P
  <2>1. r0 % P = (s0 * a) % P /\ r1 % P = (s1 * a) % P
    BY <1>1, <1>3, Ops
  <2>2. s0 * a \in Int /\ s1 * a \in Int /\ q * (s1 * a) \in Int
    BY <1>1, <1>2, <1>5
  <2>3. (r0 - q * r1) % P = ((r0 % P) - q * r1) % P
    BY <1>5, ModInner
  <2>4. (((s0 * a) % P) - q * r1) % P = (s0 * a - q * r1) % P
    BY <1>5, <2>2, ModInner
  <2>5. (s0 * a - q * r1) % P = (s0 * a - ((q * r1) % P)) % P
    BY <1>5, <2>2, ModInner
  <2>6. (q * r1) % P = (q * (r1 % P)) % P
    BY <1>2, <1>5, ModInner
  <2>7. (q * ((s1 * a) % P)) % P = (q * (s1 * a)) % P
    BY <1>2, <2>2, ModInner
  <2>8. (s0 * a - ((q * (s1 * a)) % P)) % P = (s0 * a - q * (s1 * a)) % P
    BY <2>2, ModInner
  <2> QED
    BY <2>1, <2>3, <2>4, <2>5, <2>6, <2>7, <2>8
<1>9. (s0 - q * s1) * a = s0 * a - q * (s1 * a)
  BY <1>1, <1>2, <1>5
<1> QED
  BY <1>1, <1>3, <1>4, <1>6, <1>7, <1>8, <1>9 DEF Inverting

LEMMA EuclidInverts ==
  ASSUME NEW a \in Elem, NEW x \in EuclidState, Inverting(a, x)
  PROVE  \E v \in Elem : Euclid[x] = {v} /\ ModMul(v, a) = 1
<1> DEFINE Good(y) == \E v \in Elem : Euclid[y] = {v} /\ ModMul(v, a) = 1
           V == {n \in Nat : \A y \in EuclidState : y[2] < n /\ Inverting(a, y) => Good(y)}
<1>1. 0 \in V
  BY DEF EuclidState
<1>2. ASSUME NEW n \in V PROVE n + 1 \in V
  <2>0. n \in Nat /\ \A y \in EuclidState : y[2] < n /\ Inverting(a, y) => Good(y)
    OBVIOUS
  <2> HIDE DEF Good
  <2> SUFFICES ASSUME NEW y \in EuclidState, y[2] < n + 1, Inverting(a, y) PROVE Good(y)
    BY <2>0
  <2>1. CASE y[2] = 0
    <3>1. y[1] \in Nat /\ y[3] \in Elem /\ y[1] % P = ModMul(y[3], a) /\ Coprime(y[1], 0)
      BY <2>1 DEF EuclidState, Inverting
    <3>2. Divides(y[1], y[1]) /\ Divides(y[1], 0)
      <4>1. y[1] = 1 * y[1] /\ 0 = 0 * y[1] /\ 1 \in Int /\ 0 \in Int
        BY <3>1
      <4> QED
        BY <4>1 DEF Divides
    <3>3. y[1] = 1
      BY <3>1, <3>2 DEF Coprime
    <3>4. 1 % P = 1
      BY ModSmall, Units
    <3> QED
      <4>1. Euclid[y] = {y[3]}
        BY <2>1, <3>3, EuclidUnfolds
      <4>2. y[3] \in Elem /\ y[3] \in Int
        BY Units DEF EuclidState
      <4> QED
        BY <2>1, <3>1, <3>3, <3>4, <4>1, <4>2 DEF Good
  <2>2. CASE y[2] # 0
    <3>1. EuclidStep(y) \in EuclidState /\ EuclidStep(y)[2] < y[2]
      BY <2>2, EuclidStepSmaller
    <3>2. EuclidStep(y)[2] < n
      <4>1. EuclidStep(y)[2] \in Int /\ y[2] \in Int
        BY <3>1, Modulus DEF EuclidState
      <4> QED
        BY <2>0, <3>1, <4>1
    <3>3. Good(EuclidStep(y))
      BY <2>0, <2>2, <3>1, <3>2, EuclidStepInverts
    <3>4. Euclid[y] = Euclid[EuclidStep(y)]
      BY <2>2, EuclidUnfolds
    <3> QED
      BY <3>3, <3>4 DEF Good
  <2> QED
    BY <2>1, <2>2
<1>3. V = Nat
  <2>1. V \in SUBSET Nat
    OBVIOUS
  <2> HIDE DEF V
  <2> QED
    BY <1>1, <1>2, <2>1, Induct
<1>4. x[2] + 1 \in Nat /\ x[2] < x[2] + 1
  BY Modulus DEF EuclidState
<1>5. x[2] + 1 \in V
  BY <1>3, <1>4
<1> QED
  BY <1>4, <1>5

(* ModInv finds the inverse of every element but zero: P is prime, so the  *)
(* error of a common divisor is never returned.                            *)
THEOREM InvExact ==
  ASSUME NEW a \in Elem \ {0}
  PROVE  \E v \in Elem : ModInv(a) = {v} /\ ModMul(v, a) = 1
<1> DEFINE x == <<a, P, 1, 0>>
<1>1. a \in 1..(P - 1) /\ P \in Nat /\ P >= 2 /\ a % P = a
  BY Modulus, ModSmall DEF Elem
<1>2. x \in EuclidState
  BY <1>1, Units DEF EuclidState
<1>3. Coprime(a, P)
  <2> SUFFICES ASSUME NEW d \in Nat, Divides(d, a), Divides(d, P) PROVE d = 1
    BY DEF Coprime
  <2>1. PICK k \in Int : a = k * d
    BY DEF Divides
  <2>2. d # 0
    BY <1>1, <2>1
  <2>3. d <= a
    <3>1. k >= 1
      BY <1>1, <2>1
    <3> QED
      BY <1>1, <2>1, <3>1
  <2>4. PICK j \in Int : P = j * d
    BY DEF Divides
  <2>5. P % d = 0
    <3>1. d \in Nat /\ d > 0
      BY <2>2
    <3> QED
      BY <2>4, <3>1
  <2>6. d \notin 2..(P - 1)
    BY <2>5, FieldAssumption DEF FieldValid, Prime
  <2> QED
    BY <1>1, <2>2, <2>3, <2>6
<1>4. P % P = 0
  BY <1>1
<1>5. ModMul(1, a) = a /\ ModMul(0, a) = 0
  BY MulOne
<1>6. Inverting(a, x)
  BY <1>1, <1>3, <1>4, <1>5 DEF Inverting
<1>7. ModInv(a) = Euclid[x]
  BY <1>1 DEF ModInv
<1> HIDE DEF x
<1> QED
  BY <1>2, <1>6, <1>7, EuclidInverts

LEMMA NoZeroDivisors ==
  ASSUME NEW a \in Elem, NEW b \in Elem, ModMul(a, b) = 0, a # 0
  PROVE  b = 0
<1>1. PICK v \in Elem : ModMul(v, a) = 1
  BY InvExact
<1>2. ModMul(ModMul(v, a), b) = ModMul(v, ModMul(a, b))
  BY MulAssociates
<1> QED
  BY <1>1, <1>2, MulOne

LEMMA SubtractThenAdd ==
  ASSUME NEW a \in Elem, NEW b \in Elem
  PROVE  ModAdd(ModSub(a, b), b) = a
<1>1. ModAdd(ModAdd(a, Neg(b)), b) = ModAdd(a, ModAdd(Neg(b), b))
  BY AddAssociates, Negation
<1>2. ModAdd(Neg(b), b) = 0
  BY Negation, Commutes
<1> QED
  BY <1>1, <1>2, Negation, AddZero

LEMMA AddThenSubtract ==
  ASSUME NEW a \in Elem, NEW b \in Elem
  PROVE  ModSub(ModAdd(a, b), b) = a
<1>1. ModAdd(a, b) \in Elem
  BY Ops
<1>2. ModSub(ModAdd(a, b), b) = ModAdd(ModAdd(a, b), Neg(b))
  BY <1>1, Negation
<1>3. ModAdd(ModAdd(a, b), Neg(b)) = ModAdd(a, ModAdd(b, Neg(b)))
  BY AddAssociates, Negation
<1> QED
  BY <1>2, <1>3, Negation, AddZero

-----------------------------------------------------------------------------

(* Induction over the subsets of a finite set.                             *)
LEMMA SetInduct ==
  ASSUME NEW S, IsFiniteSet(S), NEW G,
         \A T \in SUBSET S : (\A x \in T : T \ {x} \in G) => T \in G
  PROVE  S \in G
<1> DEFINE V == {n \in Nat : \A T \in SUBSET S : Cardinality(T) = n => T \in G}
<1>1. \A T \in SUBSET S : IsFiniteSet(T) /\ Cardinality(T) \in Nat
  BY FS_Subset, FS_CardinalityType
<1>2. 0 \in V
  <2>1. ASSUME NEW T \in SUBSET S, Cardinality(T) = 0 PROVE T \in G
    <3>1. T = {}
      BY <1>1, <2>1, FS_EmptySet
    <3> QED
      BY <3>1
  <2> QED
    BY <2>1
<1>3. ASSUME NEW n \in V PROVE n + 1 \in V
  <2>0. n \in Nat /\ \A T \in SUBSET S : Cardinality(T) = n => T \in G
    OBVIOUS
  <2> HIDE DEF V
  <2>1. ASSUME NEW T \in SUBSET S, Cardinality(T) = n + 1 PROVE T \in G
    <3>1. ASSUME NEW x \in T PROVE T \ {x} \in G
      <4>1. Cardinality(T \ {x}) = Cardinality(T) - 1
        BY <1>1, FS_RemoveElement
      <4> QED
        BY <2>0, <2>1, <4>1
    <3> QED
      BY <3>1
  <2> QED
    BY <2>0, <2>1 DEF V
<1>4. V = Nat
  <2>1. V \in SUBSET Nat
    OBVIOUS
  <2> HIDE DEF V
  <2> QED
    BY <1>2, <1>3, <2>1, Induct
<1>5. Cardinality(S) \in V /\ S \in SUBSET S
  BY <1>1, <1>4
<1> QED
  BY <1>5

-----------------------------------------------------------------------------
(* Sums and products, in any order.                                        *)

\* The element that a fold takes first.
Some(S) == CHOOSE x \in S : TRUE

LEMMA SumUnfolds ==
  ASSUME NEW g, NEW S, IsFiniteSet(S), \A i \in S : g[i] \in Elem
  PROVE  /\ S = {} => FieldSum(g, S) = 0
         /\ S # {} => FieldSum(g, S) = ModAdd(g[Some(S)], FieldSum(g, S \ {Some(S)}))
         /\ FieldSum(g, S) \in Elem
<1> DEFINE value(f, s) == IF s = {} THEN 0 ELSE ModAdd(g[Some(s)], f[s \ {Some(s)}])
           IsTable(f, U) == f = [s \in SUBSET U |-> value(f, s)]
           table(U) == CHOOSE f : IsTable(f, U)
<1>1. ASSUME NEW U PROVE FieldSum(g, U) = table(U)[U]
  BY DEF FieldSum, FoldFunctionOnSet, MapThenFoldSet, Some
<1>2. ASSUME NEW U \in SUBSET S
      PROVE  /\ DOMAIN table(U) = SUBSET U
             /\ \A s \in SUBSET U : table(U)[s] = value(table(U), s)
             /\ \A s \in SUBSET U : table(U)[s] \in Elem
  <2> DEFINE Sets == SUBSET U
             body == [f \in [Sets -> Elem] |-> [s \in Sets |-> value(f, s)]]
             m == [s \in Sets |-> Cardinality(s)]
  <2>1. IsFiniteSet(U) /\ \A s \in Sets : IsFiniteSet(s)
    BY FS_Subset
  <2>2. m \in [Sets -> Nat] /\ Elem # {}
    BY <2>1, FS_CardinalityType, Units
  <2>3. ASSUME NEW f, NEW s \in Sets, s # {} => f[s \ {Some(s)}] \in Elem
        PROVE  value(f, s) \in Elem
    <3>1. CASE s = {}
      BY <3>1, Units
    <3>2. CASE s # {}
      <4>1. Some(s) \in s
        BY <3>2 DEF Some
      <4>2. g[Some(s)] \in Elem /\ f[s \ {Some(s)}] \in Elem
        BY <2>3, <3>2, <4>1
      <4> QED
        BY <3>2, <4>2, Ops
    <3> QED
      BY <3>1, <3>2
  <2>4. \A f \in [Sets -> Elem] : body[f] \in [Sets -> Elem]
    <3>1. \A f \in [Sets -> Elem], s \in Sets : f[s \ {Some(s)}] \in Elem
      OBVIOUS
    <3> QED
      BY <2>3, <3>1
  <2>5. ASSUME NEW f \in [Sets -> Elem], NEW h \in [Sets -> Elem], NEW s \in Sets,
               \A t \in Sets : m[t] < m[s] => f[t] = h[t]
        PROVE  body[f][s] = body[h][s]
    <3>1. CASE s = {}
      BY <3>1
    <3>2. CASE s # {}
      <4>1. Some(s) \in s
        BY <3>2 DEF Some
      <4>2. Cardinality(s \ {Some(s)}) = Cardinality(s) - 1 /\ Cardinality(s) \in Nat
        BY <2>1, <4>1, FS_RemoveElement, FS_CardinalityType
      <4>3. m[s \ {Some(s)}] < m[s]
        BY <4>2
      <4>4. f[s \ {Some(s)}] = h[s \ {Some(s)}]
        BY <2>5, <4>3
      <4> QED
        BY <3>2, <4>4
    <3> QED
      BY <3>1, <3>2
  <2>6. \E f \in [Sets -> Elem] : f = body[f]
    <3> HIDE DEF body, m, Sets
    <3>1. Contracts(Sets, Elem, body, m)
      BY <2>2, <2>4, <2>5 DEF Contracts
    <3> QED
      BY <3>1, Recursion
  <2>7. \E f : IsTable(f, U)
    BY <2>6
  <2>8. IsTable(table(U), U)
    <3> HIDE DEF IsTable
    <3> QED
      BY <2>7
  <2> DEFINE f == table(U)
             G == {s \in Sets : f[s] \in Elem}
  <2> HIDE DEF table, body, m
  <2>9. DOMAIN f = SUBSET U /\ \A s \in SUBSET U : f[s] = value(f, s)
    BY <2>8
  <2> HIDE DEF f
  <2>10. ASSUME NEW s \in Sets, \A x \in s : s \ {x} \in G PROVE s \in G
    <3>1. s # {} => Some(s) \in s
      BY DEF Some
    <3>2. s # {} => f[s \ {Some(s)}] \in Elem
      BY <2>10, <3>1
    <3>3. value(f, s) \in Elem
      BY <2>3, <3>2
    <3> QED
      BY <2>9, <3>3
  <2>11. \A s \in Sets : s \in G
    <3>1. ASSUME NEW s \in Sets PROVE s \in G
      <4>1. \A t \in SUBSET s : (\A x \in t : t \ {x} \in G) => t \in G
        BY <2>10
      <4> HIDE DEF G
      <4> QED
        BY <2>1, <3>1, <4>1, SetInduct
    <3> QED
      BY <3>1
  <2> QED
    BY <2>9, <2>11 DEF f
<1> HIDE DEF table
<1>3. ASSUME NEW U \in SUBSET S PROVE table(U)[U] = table(S)[U]
  <2> DEFINE G == {s \in SUBSET U : table(U)[s] = table(S)[s]}
  <2>1. ASSUME NEW t \in SUBSET U, \A x \in t : t \ {x} \in G PROVE t \in G
    <3>1. t \in SUBSET S /\ S \in SUBSET S
      OBVIOUS
    <3>2. table(U)[t] = value(table(U), t) /\ table(S)[t] = value(table(S), t)
      BY <1>2, <3>1
    <3>3. t # {} => Some(t) \in t
      BY DEF Some
    <3>4. t # {} => table(U)[t \ {Some(t)}] = table(S)[t \ {Some(t)}]
      BY <2>1, <3>3
    <3> QED
      BY <3>2, <3>4
  <2>2. IsFiniteSet(U)
    BY FS_Subset
  <2>3. U \in G
    <3> HIDE DEF G
    <3> QED
      BY <2>1, <2>2, SetInduct
  <2> QED
    BY <2>3
<1>4. \A U \in SUBSET S : FieldSum(g, U) = table(S)[U]
  BY <1>1, <1>3
<1>5. S \in SUBSET S /\ S \ {Some(S)} \in SUBSET S
  OBVIOUS
<1>6. table(S)[S] = value(table(S), S) /\ table(S)[S] \in Elem
  BY <1>2, <1>5
<1> QED
  BY <1>4, <1>5, <1>6

(* Any element may be taken out first.                                     *)
LEMMA SumStep ==
  ASSUME NEW g, NEW S, IsFiniteSet(S), \A i \in S : g[i] \in Elem, NEW x \in S
  PROVE  FieldSum(g, S) = ModAdd(g[x], FieldSum(g, S \ {x}))
<1> DEFINE G == {T \in SUBSET S : \A y \in T : FieldSum(g, T) = ModAdd(g[y], FieldSum(g, T \ {y}))}
<1>1. \A T \in SUBSET S : IsFiniteSet(T) /\ \A i \in T : g[i] \in Elem
  BY FS_Subset
<1>2. ASSUME NEW T \in SUBSET S, \A u \in T : T \ {u} \in G PROVE T \in G
  <2> SUFFICES ASSUME NEW y \in T
               PROVE  FieldSum(g, T) = ModAdd(g[y], FieldSum(g, T \ {y}))
    OBVIOUS
  <2> DEFINE z == Some(T)
  <2>1. z \in T
    BY DEF Some
  <2>2. FieldSum(g, T) = ModAdd(g[z], FieldSum(g, T \ {z}))
    BY <1>1, SumUnfolds
  <2> HIDE DEF z
  <2>3. CASE y = z
    BY <2>2, <2>3
  <2>4. CASE y # z
    <3>2. y \in T \ {z} /\ z \in T \ {y} /\ T \ {y} \in G /\ T \ {z} \in G
      BY <1>2, <2>1, <2>4
    <3> DEFINE R == (T \ {y}) \ {z}
    <3>3. (T \ {z}) \ {y} = R /\ R \in SUBSET S
      OBVIOUS
    <3>4. FieldSum(g, T \ {z}) = ModAdd(g[y], FieldSum(g, R))
      BY <3>2, <3>3
    <3>5. FieldSum(g, T \ {y}) = ModAdd(g[z], FieldSum(g, R))
      BY <3>2
    <3>6. g[y] \in Elem /\ g[z] \in Elem /\ FieldSum(g, R) \in Elem
      BY <1>1, <2>1, <3>3, SumUnfolds
    <3> HIDE DEF R
    <3> DEFINE r == FieldSum(g, R)
    <3>7. ModAdd(g[z], ModAdd(g[y], r)) = ModAdd(ModAdd(g[z], g[y]), r)
      BY <3>6, AddAssociates
    <3>8. ModAdd(g[y], ModAdd(g[z], r)) = ModAdd(ModAdd(g[y], g[z]), r)
      BY <3>6, AddAssociates
    <3>9. ModAdd(g[z], g[y]) = ModAdd(g[y], g[z])
      BY <3>6, Commutes
    <3> QED
      BY <2>2, <3>4, <3>5, <3>7, <3>8, <3>9
  <2> QED
    BY <2>3, <2>4
<1>3. S \in G
  <2> HIDE DEF G
  <2> QED
    BY <1>2, SetInduct
<1> QED
  BY <1>3

LEMMA ProductUnfolds ==
  ASSUME NEW g, NEW S, IsFiniteSet(S), \A i \in S : g[i] \in Elem
  PROVE  /\ S = {} => FieldProduct(g, S) = 1
         /\ S # {} => FieldProduct(g, S) = ModMul(g[Some(S)], FieldProduct(g, S \ {Some(S)}))
         /\ FieldProduct(g, S) \in Elem
<1> DEFINE value(f, s) == IF s = {} THEN 1 ELSE ModMul(g[Some(s)], f[s \ {Some(s)}])
           IsTable(f, U) == f = [s \in SUBSET U |-> value(f, s)]
           table(U) == CHOOSE f : IsTable(f, U)
<1>1. ASSUME NEW U PROVE FieldProduct(g, U) = table(U)[U]
  BY DEF FieldProduct, FoldFunctionOnSet, MapThenFoldSet, Some
<1>2. ASSUME NEW U \in SUBSET S
      PROVE  /\ DOMAIN table(U) = SUBSET U
             /\ \A s \in SUBSET U : table(U)[s] = value(table(U), s)
             /\ \A s \in SUBSET U : table(U)[s] \in Elem
  <2> DEFINE Sets == SUBSET U
             body == [f \in [Sets -> Elem] |-> [s \in Sets |-> value(f, s)]]
             m == [s \in Sets |-> Cardinality(s)]
  <2>1. IsFiniteSet(U) /\ \A s \in Sets : IsFiniteSet(s)
    BY FS_Subset
  <2>2. m \in [Sets -> Nat] /\ Elem # {}
    BY <2>1, FS_CardinalityType, Units
  <2>3. ASSUME NEW f, NEW s \in Sets, s # {} => f[s \ {Some(s)}] \in Elem
        PROVE  value(f, s) \in Elem
    <3>1. CASE s = {}
      BY <3>1, Units
    <3>2. CASE s # {}
      <4>1. Some(s) \in s
        BY <3>2 DEF Some
      <4>2. g[Some(s)] \in Elem /\ f[s \ {Some(s)}] \in Elem
        BY <2>3, <3>2, <4>1
      <4> QED
        BY <3>2, <4>2, Ops
    <3> QED
      BY <3>1, <3>2
  <2>4. \A f \in [Sets -> Elem] : body[f] \in [Sets -> Elem]
    <3>1. \A f \in [Sets -> Elem], s \in Sets : f[s \ {Some(s)}] \in Elem
      OBVIOUS
    <3> QED
      BY <2>3, <3>1
  <2>5. ASSUME NEW f \in [Sets -> Elem], NEW h \in [Sets -> Elem], NEW s \in Sets,
               \A t \in Sets : m[t] < m[s] => f[t] = h[t]
        PROVE  body[f][s] = body[h][s]
    <3>1. CASE s = {}
      BY <3>1
    <3>2. CASE s # {}
      <4>1. Some(s) \in s
        BY <3>2 DEF Some
      <4>2. Cardinality(s \ {Some(s)}) = Cardinality(s) - 1 /\ Cardinality(s) \in Nat
        BY <2>1, <4>1, FS_RemoveElement, FS_CardinalityType
      <4>3. m[s \ {Some(s)}] < m[s]
        BY <4>2
      <4>4. f[s \ {Some(s)}] = h[s \ {Some(s)}]
        BY <2>5, <4>3
      <4> QED
        BY <3>2, <4>4
    <3> QED
      BY <3>1, <3>2
  <2>6. \E f \in [Sets -> Elem] : f = body[f]
    <3> HIDE DEF body, m, Sets
    <3>1. Contracts(Sets, Elem, body, m)
      BY <2>2, <2>4, <2>5 DEF Contracts
    <3> QED
      BY <3>1, Recursion
  <2>7. \E f : IsTable(f, U)
    BY <2>6
  <2>8. IsTable(table(U), U)
    <3> HIDE DEF IsTable
    <3> QED
      BY <2>7
  <2> DEFINE f == table(U)
             G == {s \in Sets : f[s] \in Elem}
  <2> HIDE DEF table, body, m
  <2>9. DOMAIN f = SUBSET U /\ \A s \in SUBSET U : f[s] = value(f, s)
    BY <2>8
  <2> HIDE DEF f
  <2>10. ASSUME NEW s \in Sets, \A x \in s : s \ {x} \in G PROVE s \in G
    <3>1. s # {} => Some(s) \in s
      BY DEF Some
    <3>2. s # {} => f[s \ {Some(s)}] \in Elem
      BY <2>10, <3>1
    <3>3. value(f, s) \in Elem
      BY <2>3, <3>2
    <3> QED
      BY <2>9, <3>3
  <2>11. \A s \in Sets : s \in G
    <3>1. ASSUME NEW s \in Sets PROVE s \in G
      <4>1. \A t \in SUBSET s : (\A x \in t : t \ {x} \in G) => t \in G
        BY <2>10
      <4> HIDE DEF G
      <4> QED
        BY <2>1, <3>1, <4>1, SetInduct
    <3> QED
      BY <3>1
  <2> QED
    BY <2>9, <2>11 DEF f
<1> HIDE DEF table
<1>3. ASSUME NEW U \in SUBSET S PROVE table(U)[U] = table(S)[U]
  <2> DEFINE G == {s \in SUBSET U : table(U)[s] = table(S)[s]}
  <2>1. ASSUME NEW t \in SUBSET U, \A x \in t : t \ {x} \in G PROVE t \in G
    <3>1. t \in SUBSET S /\ S \in SUBSET S
      OBVIOUS
    <3>2. table(U)[t] = value(table(U), t) /\ table(S)[t] = value(table(S), t)
      BY <1>2, <3>1
    <3>3. t # {} => Some(t) \in t
      BY DEF Some
    <3>4. t # {} => table(U)[t \ {Some(t)}] = table(S)[t \ {Some(t)}]
      BY <2>1, <3>3
    <3> QED
      BY <3>2, <3>4
  <2>2. IsFiniteSet(U)
    BY FS_Subset
  <2>3. U \in G
    <3> HIDE DEF G
    <3> QED
      BY <2>1, <2>2, SetInduct
  <2> QED
    BY <2>3
<1>4. \A U \in SUBSET S : FieldProduct(g, U) = table(S)[U]
  BY <1>1, <1>3
<1>5. S \in SUBSET S /\ S \ {Some(S)} \in SUBSET S
  OBVIOUS
<1>6. table(S)[S] = value(table(S), S) /\ table(S)[S] \in Elem
  BY <1>2, <1>5
<1> QED
  BY <1>4, <1>5, <1>6

(* Any element may be taken out first.                                     *)
LEMMA ProductStep ==
  ASSUME NEW g, NEW S, IsFiniteSet(S), \A i \in S : g[i] \in Elem, NEW x \in S
  PROVE  FieldProduct(g, S) = ModMul(g[x], FieldProduct(g, S \ {x}))
<1> DEFINE G == {T \in SUBSET S : \A y \in T : FieldProduct(g, T) = ModMul(g[y], FieldProduct(g, T \ {y}))}
<1>1. \A T \in SUBSET S : IsFiniteSet(T) /\ \A i \in T : g[i] \in Elem
  BY FS_Subset
<1>2. ASSUME NEW T \in SUBSET S, \A u \in T : T \ {u} \in G PROVE T \in G
  <2> SUFFICES ASSUME NEW y \in T
               PROVE  FieldProduct(g, T) = ModMul(g[y], FieldProduct(g, T \ {y}))
    OBVIOUS
  <2> DEFINE z == Some(T)
  <2>1. z \in T
    BY DEF Some
  <2>2. FieldProduct(g, T) = ModMul(g[z], FieldProduct(g, T \ {z}))
    BY <1>1, ProductUnfolds
  <2> HIDE DEF z
  <2>3. CASE y = z
    BY <2>2, <2>3
  <2>4. CASE y # z
    <3>2. y \in T \ {z} /\ z \in T \ {y} /\ T \ {y} \in G /\ T \ {z} \in G
      BY <1>2, <2>1, <2>4
    <3> DEFINE R == (T \ {y}) \ {z}
    <3>3. (T \ {z}) \ {y} = R /\ R \in SUBSET S
      OBVIOUS
    <3>4. FieldProduct(g, T \ {z}) = ModMul(g[y], FieldProduct(g, R))
      BY <3>2, <3>3
    <3>5. FieldProduct(g, T \ {y}) = ModMul(g[z], FieldProduct(g, R))
      BY <3>2
    <3>6. g[y] \in Elem /\ g[z] \in Elem /\ FieldProduct(g, R) \in Elem
      BY <1>1, <2>1, <3>3, ProductUnfolds
    <3> HIDE DEF R
    <3> DEFINE r == FieldProduct(g, R)
    <3>7. ModMul(g[z], ModMul(g[y], r)) = ModMul(ModMul(g[z], g[y]), r)
      BY <3>6, MulAssociates
    <3>8. ModMul(g[y], ModMul(g[z], r)) = ModMul(ModMul(g[y], g[z]), r)
      BY <3>6, MulAssociates
    <3>9. ModMul(g[z], g[y]) = ModMul(g[y], g[z])
      BY <3>6, Commutes
    <3> QED
      BY <2>2, <3>4, <3>5, <3>7, <3>8, <3>9
  <2> QED
    BY <2>3, <2>4
<1>3. S \in G
  <2> HIDE DEF G
  <2> QED
    BY <1>2, SetInduct
<1> QED
  BY <1>3

LEMMA SumEqual ==
  ASSUME NEW g, NEW h, NEW S, IsFiniteSet(S), \A i \in S : g[i] \in Elem /\ h[i] = g[i]
  PROVE  FieldSum(h, S) = FieldSum(g, S)
<1> DEFINE G == {T \in SUBSET S : FieldSum(h, T) = FieldSum(g, T)}
<1>1. ASSUME NEW T \in SUBSET S, \A x \in T : T \ {x} \in G PROVE T \in G
  <2>1. IsFiniteSet(T) /\ \A i \in T : g[i] \in Elem /\ h[i] \in Elem
    BY FS_Subset
  <2>2. T # {} => Some(T) \in T
    BY DEF Some
  <2>3. T # {} => FieldSum(h, T \ {Some(T)}) = FieldSum(g, T \ {Some(T)}) /\ h[Some(T)] = g[Some(T)]
    BY <1>1, <2>2
  <2>4. /\ T = {} => FieldSum(h, T) = 0
        /\ T # {} => FieldSum(h, T) = ModAdd(h[Some(T)], FieldSum(h, T \ {Some(T)}))
    BY <2>1, SumUnfolds
  <2>5. /\ T = {} => FieldSum(g, T) = 0
        /\ T # {} => FieldSum(g, T) = ModAdd(g[Some(T)], FieldSum(g, T \ {Some(T)}))
    BY <2>1, SumUnfolds
  <2> QED
    BY <2>3, <2>4, <2>5
<1>2. S \in G
  <2> HIDE DEF G
  <2> QED
    BY <1>1, SetInduct
<1> QED
  BY <1>2

LEMMA SumAdds ==
  ASSUME NEW f, NEW g, NEW h, NEW S, IsFiniteSet(S),
         \A i \in S : f[i] \in Elem /\ g[i] \in Elem /\ h[i] = ModAdd(f[i], g[i])
  PROVE  FieldSum(h, S) = ModAdd(FieldSum(f, S), FieldSum(g, S))
<1> DEFINE G == {T \in SUBSET S : FieldSum(h, T) = ModAdd(FieldSum(f, T), FieldSum(g, T))}
<1>1. ASSUME NEW T \in SUBSET S, \A x \in T : T \ {x} \in G PROVE T \in G
  <2>0. \A i \in S : h[i] \in Elem
    BY Ops
  <2>1. IsFiniteSet(T) /\ \A i \in T : f[i] \in Elem /\ g[i] \in Elem /\ h[i] \in Elem
    BY <2>0, FS_Subset
  <2>2. CASE T = {}
    <3>1. FieldSum(f, T) = 0 /\ FieldSum(g, T) = 0 /\ FieldSum(h, T) = 0
      BY <2>1, <2>2, SumUnfolds
    <3> QED
      BY <3>1, AddZero, Units
  <2>3. CASE T # {}
    <3>1. PICK x \in T : TRUE
      BY <2>3
    <3> DEFINE R == T \ {x}
    <3>2. IsFiniteSet(R) /\ R \in SUBSET S /\ R \in G /\ \A i \in R : f[i] \in Elem /\ g[i] \in Elem
      BY <1>1, <2>1, <3>1, FS_Subset
    <3>3. FieldSum(h, T) = ModAdd(h[x], FieldSum(h, R))
      BY <2>1, <3>1, SumStep
    <3>4. FieldSum(f, T) = ModAdd(f[x], FieldSum(f, R))
      BY <2>1, <3>1, SumStep
    <3>5. FieldSum(g, T) = ModAdd(g[x], FieldSum(g, R))
      BY <2>1, <3>1, SumStep
    <3>6. FieldSum(f, R) \in Elem /\ FieldSum(g, R) \in Elem
      BY <3>2, SumUnfolds
    <3>7. f[x] \in Elem /\ g[x] \in Elem /\ h[x] = ModAdd(f[x], g[x])
      BY <3>1
    <3>8. FieldSum(h, R) = ModAdd(FieldSum(f, R), FieldSum(g, R))
      BY <3>2
    <3> HIDE DEF R
    <3> QED
      BY <3>3, <3>4, <3>5, <3>6, <3>7, <3>8, AddExchange
  <2> QED
    BY <2>2, <2>3
<1>2. S \in G
  <2> HIDE DEF G
  <2> QED
    BY <1>1, SetInduct
<1> QED
  BY <1>2

LEMMA SumScales ==
  ASSUME NEW a \in Elem, NEW g, NEW h, NEW S, IsFiniteSet(S),
         \A i \in S : g[i] \in Elem /\ h[i] = ModMul(a, g[i])
  PROVE  FieldSum(h, S) = ModMul(a, FieldSum(g, S))
<1> DEFINE G == {T \in SUBSET S : FieldSum(h, T) = ModMul(a, FieldSum(g, T))}
<1>1. ASSUME NEW T \in SUBSET S, \A x \in T : T \ {x} \in G PROVE T \in G
  <2>0. \A i \in S : h[i] \in Elem
    BY Ops
  <2>1. IsFiniteSet(T) /\ \A i \in T : g[i] \in Elem /\ h[i] \in Elem
    BY <2>0, FS_Subset
  <2>2. CASE T = {}
    <3>1. FieldSum(g, T) = 0 /\ FieldSum(h, T) = 0
      BY <2>1, <2>2, SumUnfolds
    <3> QED
      BY <3>1, MulOne
  <2>3. CASE T # {}
    <3>1. PICK x \in T : TRUE
      BY <2>3
    <3> DEFINE R == T \ {x}
    <3>2. IsFiniteSet(R) /\ R \in SUBSET S /\ R \in G /\ \A i \in R : g[i] \in Elem
      BY <1>1, <2>1, <3>1, FS_Subset
    <3>3. FieldSum(h, T) = ModAdd(h[x], FieldSum(h, R))
      BY <2>1, <3>1, SumStep
    <3>5. FieldSum(g, T) = ModAdd(g[x], FieldSum(g, R))
      BY <2>1, <3>1, SumStep
    <3>6. FieldSum(g, R) \in Elem
      BY <3>2, SumUnfolds
    <3>7. g[x] \in Elem /\ h[x] = ModMul(a, g[x])
      BY <3>1
    <3>8. FieldSum(h, R) = ModMul(a, FieldSum(g, R))
      BY <3>2
    <3> HIDE DEF R
    <3> QED
      BY <3>3, <3>5, <3>6, <3>7, <3>8, Distributes
  <2> QED
    BY <2>2, <2>3
<1>2. S \in G
  <2> HIDE DEF G
  <2> QED
    BY <1>1, SetInduct
<1> QED
  BY <1>2

LEMMA ProductZero ==
  ASSUME NEW g, NEW S, IsFiniteSet(S), \A i \in S : g[i] \in Elem, NEW x \in S, g[x] = 0
  PROVE  FieldProduct(g, S) = 0
<1>1. FieldProduct(g, S) = ModMul(g[x], FieldProduct(g, S \ {x}))
  BY ProductStep
<1>2. IsFiniteSet(S \ {x}) /\ \A i \in S \ {x} : g[i] \in Elem
  BY FS_Subset
<1>3. FieldProduct(g, S \ {x}) \in Elem
  BY <1>2, ProductUnfolds
<1> QED
  BY <1>1, <1>3, MulOne

LEMMA ProductNotZero ==
  ASSUME NEW g, NEW S, IsFiniteSet(S), \A i \in S : g[i] \in Elem \ {0}
  PROVE  FieldProduct(g, S) \in Elem \ {0}
<1> DEFINE G == {T \in SUBSET S : FieldProduct(g, T) \in Elem \ {0}}
<1>1. ASSUME NEW T \in SUBSET S, \A x \in T : T \ {x} \in G PROVE T \in G
  <2>1. IsFiniteSet(T) /\ \A i \in T : g[i] \in Elem
    BY FS_Subset
  <2>2. T # {} => Some(T) \in T
    BY DEF Some
  <2>3. T # {} => FieldProduct(g, T \ {Some(T)}) \in Elem \ {0} /\ g[Some(T)] \in Elem \ {0}
    BY <1>1, <2>2
  <2>4. /\ T = {} => FieldProduct(g, T) = 1
        /\ T # {} => FieldProduct(g, T) = ModMul(g[Some(T)], FieldProduct(g, T \ {Some(T)}))
        /\ FieldProduct(g, T) \in Elem
    BY <2>1, ProductUnfolds
  <2> QED
    BY <2>3, <2>4, NoZeroDivisors
<1>2. S \in G
  <2> HIDE DEF G
  <2> QED
    BY <1>1, SetInduct
<1> QED
  BY <1>2

-----------------------------------------------------------------------------
(* Powers and the values of polynomials.                                   *)

LEMMA PowUnfolds ==
  ASSUME NEW x \in Elem
  PROVE  /\ Pow(x, 0) = 1
         /\ \A i \in Nat : Pow(x, i) \in Elem /\ Pow(x, i + 1) = ModMul(Pow(x, i), x)
<1> DEFINE value(f, i) == IF i = 0 THEN 1 ELSE ModMulCanon(f[i - 1], x % P)
           pows == CHOOSE f : f = [i \in Nat |-> value(f, i)]
           body == [f \in [Nat -> Elem] |-> [i \in Nat |-> value(f, i)]]
           m == [i \in Nat |-> i]
<1>1. \A i : Pow(x, i) = pows[i]
  BY DEF Pow
<1>2. x % P = x
  BY ModSmall
<1>3. ASSUME NEW f \in [Nat -> Elem], NEW i \in Nat PROVE value(f, i) \in Elem
  <2>1. CASE i = 0
    BY <2>1, Units
  <2>2. CASE i # 0
    <3>1. f[i - 1] \in Elem
      BY <2>2
    <3> QED
      BY <1>2, <2>2, <3>1, Ops
  <2> QED
    BY <2>1, <2>2
<1>4. \A f \in [Nat -> Elem] : body[f] \in [Nat -> Elem]
  BY <1>3
<1>5. ASSUME NEW f \in [Nat -> Elem], NEW g \in [Nat -> Elem], NEW i \in Nat,
             \A j \in Nat : m[j] < m[i] => f[j] = g[j]
      PROVE  body[f][i] = body[g][i]
  <2>1. i # 0 => i - 1 \in Nat /\ i - 1 < i
    OBVIOUS
  <2>2. i # 0 => f[i - 1] = g[i - 1]
    BY <1>5, <2>1
  <2> QED
    BY <2>2
<1>6. m \in [Nat -> Nat] /\ Elem # {}
  BY Units
<1>7. \E f \in [Nat -> Elem] : f = body[f]
  <2> HIDE DEF body, m
  <2>1. Contracts(Nat, Elem, body, m)
    BY <1>4, <1>5, <1>6 DEF Contracts
  <2> QED
    BY <2>1, Recursion
<1>8. \E f : f = [i \in Nat |-> value(f, i)]
  BY <1>7
<1>9. pows = [i \in Nat |-> value(pows, i)]
  BY <1>8
<1> HIDE DEF pows, body, m
<1>10. pows[0] = 1 /\ \A i \in Nat : pows[i + 1] = ModMulCanon(pows[i], x)
  <2>1. \A i \in Nat : pows[i] = value(pows, i)
    BY <1>9
  <2>2. ASSUME NEW i \in Nat PROVE pows[i + 1] = ModMulCanon(pows[i], x)
    <3>1. i + 1 \in Nat /\ i + 1 # 0 /\ (i + 1) - 1 = i
      OBVIOUS
    <3>2. pows[i + 1] = value(pows, i + 1)
      BY <2>1, <3>1
    <3> QED
      BY <1>2, <3>1, <3>2
  <2> QED
    BY <2>1, <2>2
<1> DEFINE V == {i \in Nat : pows[i] \in Elem}
<1>11. 0 \in V /\ \A i \in V : i + 1 \in V
  <2>1. 0 \in V
    BY <1>10, Units
  <2>2. ASSUME NEW i \in V PROVE i + 1 \in V
    <3>1. i \in Nat /\ pows[i] \in Elem
      OBVIOUS
    <3>2. ModMulCanon(pows[i], x) \in Elem
      BY <3>1, Ops
    <3> QED
      BY <1>10, <3>1, <3>2
  <2> QED
    BY <2>1, <2>2
<1>12. V = Nat
  <2>1. V \in SUBSET Nat
    OBVIOUS
  <2> HIDE DEF V
  <2> QED
    BY <1>11, <2>1, Induct
<1>13. \A i \in Nat : pows[i] \in Elem
  BY <1>12
<1> QED
  BY <1>1, <1>10, <1>13, Ops

Poly(d) == [0..d -> Elem]

Terms(c, x) == [e \in DOMAIN c |-> ModMulCanon(c[e], Pow(x, e))]

LEMMA TermsType ==
  ASSUME NEW d \in Nat, NEW c \in Poly(d), NEW x \in Elem
  PROVE  /\ DOMAIN c = 0..d /\ IsFiniteSet(0..d) /\ d \in 0..d /\ 0 \in 0..d
         /\ \A e \in 0..d : /\ e \in Nat /\ c[e] \in Elem /\ Pow(x, e) \in Elem
                            /\ Terms(c, x)[e] = ModMul(c[e], Pow(x, e))
                            /\ Terms(c, x)[e] \in Elem
<1>1. DOMAIN c = 0..d /\ \A e \in 0..d : e \in Nat /\ c[e] \in Elem
  BY DEF Poly
<1>2. \A e \in 0..d : Pow(x, e) \in Elem
  BY <1>1, PowUnfolds
<1>3. IsFiniteSet(0..d)
  BY FS_Interval
<1>4. d \in 0..d /\ 0 \in 0..d
  OBVIOUS
<1>5. \A e \in 0..d : ModMulCanon(c[e], Pow(x, e)) = ModMul(c[e], Pow(x, e)) /\ ModMul(c[e], Pow(x, e)) \in Elem
  BY <1>1, <1>2, Ops
<1> QED
  BY <1>1, <1>2, <1>3, <1>4, <1>5 DEF Terms

LEMMA EvaluateIsSum ==
  ASSUME NEW d \in Nat, NEW c \in Poly(d), NEW x \in Elem
  PROVE  /\ Evaluate(c, x) = FieldSum(Terms(c, x), 0..d)
         /\ Evaluate(c, x) \in Elem
         /\ PolyEvalAt(c, x) = Evaluate(c, x)
<1>1. DOMAIN c = 0..d /\ IsFiniteSet(0..d) /\ \A e \in 0..d : Terms(c, x)[e] \in Elem
  BY TermsType
<1>2. Evaluate(c, x) = FieldSum(Terms(c, x), 0..d)
  BY <1>1 DEF Evaluate, Terms
<1>3. FieldSum(Terms(c, x), 0..d) \in Elem
  BY <1>1, SumUnfolds
<1> DEFINE h == [i \in DOMAIN c |-> ModMul(c[i], Pow(x, i))]
<1>4. \A i \in 0..d : h[i] = Terms(c, x)[i]
  BY <1>1, TermsType
<1>5. PolyEvalAt(c, x) = FieldSum(h, 0..d)
  BY <1>1 DEF PolyEvalAt
<1> HIDE DEF h
<1>6. FieldSum(h, 0..d) = FieldSum(Terms(c, x), 0..d)
  BY <1>1, <1>4, SumEqual
<1> QED
  BY <1>2, <1>3, <1>5, <1>6

LEMMA UpTo ==
  ASSUME NEW k \in Nat
  PROVE  /\ IsFiniteSet(0..k) /\ IsFiniteSet({}) /\ 0..0 = {0} /\ (0..0) \ {0} = {}
         /\ (0..(k + 1)) \ {k + 1} = 0..k /\ k + 1 \in 0..(k + 1) /\ IsFiniteSet(0..(k + 1))
         /\ 0..k \subseteq 0..(k + 1)
<1>1. IsFiniteSet(0..k)
  BY FS_Interval
<1>2. 0 \in Int /\ k + 1 \in Int
  OBVIOUS
<1>3. IsFiniteSet(0..(k + 1))
  BY <1>2, FS_Interval
<1>4. (0..(k + 1)) \ {k + 1} = 0..k
  OBVIOUS
<1>5. 0..0 = {0} /\ (0..0) \ {0} = {}
  OBVIOUS
<1> QED
  BY <1>1, <1>3, <1>4, <1>5, FS_EmptySet

(* Horner's rule: the constant term and x times the rest.                  *)
Shift(c) == [i \in 0..(Cardinality(DOMAIN c) - 2) |-> c[i + 1]]

LEMMA ShiftType ==
  ASSUME NEW d \in Nat, NEW c \in Poly(d + 1)
  PROVE  Shift(c) = [i \in 0..d |-> c[i + 1]] /\ Shift(c) \in Poly(d)
<1>1. DOMAIN c = 0..(d + 1) /\ \A i \in 0..(d + 1) : c[i] \in Elem
  BY DEF Poly
<1>2. Cardinality(0..(d + 1)) = d + 2
  BY FS_Interval
<1>3. Cardinality(DOMAIN c) - 2 = d
  BY <1>1, <1>2
<1>4. Shift(c) = [i \in 0..d |-> c[i + 1]]
  BY <1>3 DEF Shift
<1>5. \A i \in 0..d : i + 1 \in 0..(d + 1)
  OBVIOUS
<1>6. [i \in 0..d |-> c[i + 1]] \in Poly(d)
  BY <1>1, <1>5 DEF Poly
<1> QED
  BY <1>4, <1>6

LEMMA EvaluateConstant ==
  ASSUME NEW c \in Poly(0), NEW x \in Elem
  PROVE  Evaluate(c, x) = c[0]
<1>1. IsFiniteSet(0..0) /\ 0 \in 0..0 /\ c[0] \in Elem /\ \A e \in 0..0 : Terms(c, x)[e] \in Elem
  BY TermsType
<1>2. Terms(c, x)[0] = ModMul(c[0], Pow(x, 0))
  BY TermsType
<1>3. FieldSum(Terms(c, x), 0..0) = ModAdd(Terms(c, x)[0], FieldSum(Terms(c, x), (0..0) \ {0}))
  BY <1>1, SumStep
<1>4. (0..0) \ {0} = {} /\ IsFiniteSet({})
  BY UpTo
<1>5. FieldSum(Terms(c, x), {}) = 0
  BY <1>4, SumUnfolds
<1>6. Pow(x, 0) = 1
  BY PowUnfolds
<1>7. Evaluate(c, x) = FieldSum(Terms(c, x), 0..0)
  BY EvaluateIsSum
<1> QED
  BY <1>1, <1>2, <1>3, <1>4, <1>5, <1>6, <1>7, AddZero, MulOne

(* A term more on top of a polynomial.                                     *)
LEMMA SumTop ==
  ASSUME NEW d \in Nat, NEW c \in Poly(d), NEW x \in Elem, NEW k \in Nat, k + 1 <= d
  PROVE  /\ FieldSum(Terms(c, x), 0..(k + 1))
              = ModAdd(ModMul(c[k + 1], Pow(x, k + 1)), FieldSum(Terms(c, x), 0..k))
         /\ FieldSum(Terms(c, x), 0..k) \in Elem
<1>1. \A e \in 0..(k + 1) : e \in 0..d
  OBVIOUS
<1>2. IsFiniteSet(0..(k + 1)) /\ IsFiniteSet(0..k) /\ (0..(k + 1)) \ {k + 1} = 0..k
      /\ k + 1 \in 0..(k + 1) /\ 0..k \subseteq 0..(k + 1)
  BY UpTo
<1>3. \A e \in 0..(k + 1) : Terms(c, x)[e] \in Elem /\ Terms(c, x)[e] = ModMul(c[e], Pow(x, e))
  BY <1>1, TermsType
<1>4. FieldSum(Terms(c, x), 0..(k + 1)) = ModAdd(Terms(c, x)[k + 1], FieldSum(Terms(c, x), 0..k))
  BY <1>2, <1>3, SumStep
<1>5. FieldSum(Terms(c, x), 0..k) \in Elem
  BY <1>2, <1>3, SumUnfolds
<1> QED
  BY <1>2, <1>3, <1>4, <1>5

LEMMA Horner ==
  ASSUME NEW d \in Nat, NEW c \in Poly(d + 1), NEW x \in Elem
  PROVE  Evaluate(c, x) = ModAdd(c[0], ModMul(x, Evaluate(Shift(c), x)))
<1> DEFINE s == Shift(c)
           A(k) == FieldSum(Terms(c, x), 0..k)
           B(k) == FieldSum(Terms(s, x), 0..k)
           V == {k \in Nat : k <= d => A(k + 1) = ModAdd(c[0], ModMul(x, B(k)))}
<1>1. s \in Poly(d) /\ \A i \in 0..d : s[i] = c[i + 1]
  BY ShiftType
<1> HIDE DEF s
<1>2. d + 1 \in Nat /\ \A e \in 0..(d + 1) : e \in Nat /\ c[e] \in Elem /\ Pow(x, e) \in Elem
  BY TermsType
<1>3. Pow(x, 0) = 1 /\ \A i \in Nat : Pow(x, i) \in Elem /\ Pow(x, i + 1) = ModMul(Pow(x, i), x)
  BY PowUnfolds
<1>4. 0 \in V
  <2>1. A(0) = c[0]
    <3>1. 0 \in 0..0 /\ (0..0) \ {0} = {} /\ IsFiniteSet(0..0) /\ IsFiniteSet({})
      BY UpTo
    <3>2. \A e \in 0..0 : Terms(c, x)[e] = c[0] /\ c[0] \in Elem
      <4>1. 0 \in 0..(d + 1)
        OBVIOUS
      <4>2. Terms(c, x)[0] = ModMul(c[0], Pow(x, 0)) /\ c[0] \in Elem
        BY <1>2, <4>1, TermsType
      <4> QED
        BY <1>3, <4>2, MulOne
    <3>3. A(0) = ModAdd(Terms(c, x)[0], FieldSum(Terms(c, x), {}))
      BY <3>1, <3>2, SumStep
    <3>4. FieldSum(Terms(c, x), {}) = 0
      BY <3>1, SumUnfolds
    <3> QED
      BY <3>1, <3>2, <3>3, <3>4, AddZero
  <2>2. B(0) = c[1]
    <3>1. 0 \in 0..0 /\ (0..0) \ {0} = {} /\ IsFiniteSet(0..0) /\ IsFiniteSet({})
      BY UpTo
    <3>2. \A e \in 0..0 : Terms(s, x)[e] = c[1] /\ c[1] \in Elem
      <4>1. 0 \in 0..d /\ s[0] = c[1] /\ c[1] \in Elem
        BY <1>1, <1>2
      <4>2. Terms(s, x)[0] = ModMul(s[0], Pow(x, 0))
        BY <1>1, <4>1, TermsType
      <4> QED
        BY <1>3, <4>1, <4>2, MulOne
    <3>3. B(0) = ModAdd(Terms(s, x)[0], FieldSum(Terms(s, x), {}))
      BY <3>1, <3>2, SumStep
    <3>4. FieldSum(Terms(s, x), {}) = 0
      BY <3>1, SumUnfolds
    <3> QED
      BY <3>1, <3>2, <3>3, <3>4, AddZero
  <2>3. A(1) = ModAdd(ModMul(c[1], Pow(x, 1)), A(0))
    <3>1. 0 \in Nat /\ 0 + 1 <= d + 1 /\ 0 + 1 = 1
      OBVIOUS
    <3>2. FieldSum(Terms(c, x), 0..(0 + 1))
            = ModAdd(ModMul(c[0 + 1], Pow(x, 0 + 1)), FieldSum(Terms(c, x), 0..0))
      BY <1>2, <3>1, SumTop
    <3> QED
      BY <3>1, <3>2
  <2>4. Pow(x, 1) = x
    <3>1. Pow(x, 0 + 1) = ModMul(Pow(x, 0), x)
      BY <1>3
    <3> QED
      BY <1>3, <3>1, MulOne
  <2>5. c[0] \in Elem /\ c[1] \in Elem
    BY <1>2
  <2>6. A(1) = ModAdd(c[0], ModMul(x, B(0)))
    <3> HIDE DEF A, B
    <3>1. ModMul(c[1], x) = ModMul(x, c[1]) /\ ModMul(x, c[1]) \in Elem
      BY <2>5, Commutes, Ops
    <3>2. ModAdd(ModMul(x, c[1]), c[0]) = ModAdd(c[0], ModMul(x, c[1]))
      BY <2>5, <3>1, Commutes
    <3> QED
      BY <2>1, <2>2, <2>3, <2>4, <3>1, <3>2
  <2> QED
    BY <2>6
<1>5. ASSUME NEW k \in V PROVE k + 1 \in V
  <2>0. k \in Nat
    OBVIOUS
  <2> SUFFICES ASSUME k + 1 <= d PROVE A((k + 1) + 1) = ModAdd(c[0], ModMul(x, B(k + 1)))
    BY <2>0
  <2>1. A(k + 1) = ModAdd(c[0], ModMul(x, B(k)))
    BY <2>0
  <2> DEFINE u == c[(k + 1) + 1]
             p == Pow(x, k + 1)
  <2>2. /\ A((k + 1) + 1) = ModAdd(ModMul(u, Pow(x, (k + 1) + 1)), A(k + 1))
    <3>1. k + 1 \in Nat /\ (k + 1) + 1 <= d + 1
      BY <2>0
    <3> QED
      BY <1>2, <3>1, SumTop
  <2>3. B(k + 1) = ModAdd(ModMul(u, p), B(k)) /\ B(k) \in Elem
    <3>1. s[k + 1] = c[(k + 1) + 1]
      BY <1>1, <2>0
    <3> QED
      BY <1>1, <2>0, <3>1, SumTop
  <2>4. u \in Elem /\ c[0] \in Elem /\ p \in Elem /\ Pow(x, (k + 1) + 1) = ModMul(p, x)
    <3>1. (k + 1) + 1 \in 0..(d + 1) /\ 0 \in 0..(d + 1) /\ k + 1 \in Nat
      BY <2>0
    <3> QED
      BY <1>2, <1>3, <3>1
  <2> HIDE DEF A, B, u, p
  <2> DEFINE b == B(k)
             t == ModMul(u, p)
  <2>5. t \in Elem /\ b \in Elem /\ ModMul(x, t) \in Elem /\ ModMul(x, b) \in Elem
    BY <2>3, <2>4, Ops
  <2>6. ModMul(u, ModMul(p, x)) = ModMul(x, t)
    BY <2>4, <2>5, MulAssociates, Commutes
  <2>7. ModMul(x, ModAdd(t, b)) = ModAdd(ModMul(x, t), ModMul(x, b))
    BY <2>5, Distributes
  <2> HIDE DEF b, t
  <2>8. ModAdd(ModMul(x, t), ModAdd(c[0], ModMul(x, b))) = ModAdd(c[0], ModAdd(ModMul(x, t), ModMul(x, b)))
    <3>1. ModAdd(ModMul(x, t), ModAdd(c[0], ModMul(x, b))) = ModAdd(ModAdd(ModMul(x, t), c[0]), ModMul(x, b))
      BY <2>4, <2>5, AddAssociates
    <3>2. ModAdd(c[0], ModAdd(ModMul(x, t), ModMul(x, b))) = ModAdd(ModAdd(c[0], ModMul(x, t)), ModMul(x, b))
      BY <2>4, <2>5, AddAssociates
    <3>3. ModAdd(ModMul(x, t), c[0]) = ModAdd(c[0], ModMul(x, t))
      BY <2>4, <2>5, Commutes
    <3> QED
      BY <3>1, <3>2, <3>3
  <2> QED
    BY <2>1, <2>2, <2>3, <2>4, <2>6, <2>7, <2>8 DEF b, t
<1>6. V = Nat
  <2>1. V \in SUBSET Nat
    OBVIOUS
  <2> HIDE DEF V
  <2> QED
    BY <1>4, <1>5, <2>1, Induct
<1>7. A(d + 1) = ModAdd(c[0], ModMul(x, B(d)))
  <2>1. d \in V
    BY <1>6
  <2> QED
    BY <2>1
<1>8. Evaluate(c, x) = A(d + 1) /\ Evaluate(s, x) = B(d)
  BY <1>1, <1>2, EvaluateIsSum
<1> QED
  BY <1>7, <1>8 DEF s

-----------------------------------------------------------------------------
(* Polynomials made of others.                                             *)

WithLow(s, c) == [i \in 0..Cardinality(DOMAIN c) |-> IF i = 0 THEN s ELSE c[i - 1]]

LEMMA WithLowType ==
  ASSUME NEW d \in Nat, NEW c \in Poly(d), NEW s \in Elem
  PROVE  /\ WithLow(s, c) \in Poly(d + 1)
         /\ WithLow(s, c)[0] = s
         /\ \A i \in 0..d : WithLow(s, c)[i + 1] = c[i]
<1>1. DOMAIN c = 0..d /\ \A i \in 0..d : c[i] \in Elem
  BY DEF Poly
<1>2. Cardinality(0..d) = d + 1
  BY FS_Interval
<1>3. WithLow(s, c) = [i \in 0..(d + 1) |-> IF i = 0 THEN s ELSE c[i - 1]]
  BY <1>1, <1>2 DEF WithLow
<1>4. \A i \in 0..(d + 1) : i # 0 => i - 1 \in 0..d
  OBVIOUS
<1>5. WithLow(s, c) \in Poly(d + 1)
  BY <1>1, <1>3, <1>4 DEF Poly
<1>6. \A i \in 0..d : i + 1 \in 0..(d + 1) /\ i + 1 # 0 /\ (i + 1) - 1 = i
  OBVIOUS
<1> QED
  BY <1>3, <1>5, <1>6

LEMMA EvaluateWithLow ==
  ASSUME NEW d \in Nat, NEW c \in Poly(d), NEW s \in Elem, NEW x \in Elem
  PROVE  Evaluate(WithLow(s, c), x) = ModAdd(s, ModMul(x, Evaluate(c, x)))
<1> DEFINE b == WithLow(s, c)
<1>1. b \in Poly(d + 1) /\ b[0] = s /\ \A i \in 0..d : b[i + 1] = c[i]
  BY WithLowType
<1> HIDE DEF b
<1>2. Shift(b) = [i \in 0..d |-> b[i + 1]]
  BY <1>1, ShiftType
<1>3. Shift(b) = c
  BY <1>1, <1>2 DEF Poly
<1>4. Evaluate(b, x) = ModAdd(b[0], ModMul(x, Evaluate(Shift(b), x)))
  BY <1>1, Horner
<1> QED
  BY <1>1, <1>3, <1>4 DEF b

LEMMA EvaluateAdds ==
  ASSUME NEW d \in Nat, NEW c \in Poly(d), NEW b \in Poly(d)
  PROVE  LET a == [i \in 0..d |-> ModAdd(c[i], b[i])]
         IN  a \in Poly(d) /\ \A x \in Elem : Evaluate(a, x) = ModAdd(Evaluate(c, x), Evaluate(b, x))
<1> DEFINE a == [i \in 0..d |-> ModAdd(c[i], b[i])]
<1>1. \A i \in 0..d : c[i] \in Elem /\ b[i] \in Elem
  BY DEF Poly
<1>2. a \in Poly(d) /\ \A i \in 0..d : a[i] = ModAdd(c[i], b[i])
  BY <1>1, Ops DEF Poly
<1> HIDE DEF a
<1>3. ASSUME NEW x \in Elem PROVE Evaluate(a, x) = ModAdd(Evaluate(c, x), Evaluate(b, x))
  <2>1. \A e \in 0..d : /\ Terms(c, x)[e] = ModMul(c[e], Pow(x, e)) /\ Terms(c, x)[e] \in Elem
                        /\ Pow(x, e) \in Elem /\ c[e] \in Elem
    BY TermsType
  <2>2. \A e \in 0..d : /\ Terms(b, x)[e] = ModMul(b[e], Pow(x, e)) /\ Terms(b, x)[e] \in Elem
                        /\ b[e] \in Elem
    BY TermsType
  <2>3. \A e \in 0..d : Terms(a, x)[e] = ModMul(a[e], Pow(x, e))
    BY <1>2, TermsType
  <2>4. \A e \in 0..d : Terms(a, x)[e] = ModAdd(Terms(c, x)[e], Terms(b, x)[e])
    BY <1>2, <2>1, <2>2, <2>3, Distributes
  <2>5. IsFiniteSet(0..d)
    BY UpTo
  <2>6. FieldSum(Terms(a, x), 0..d) = ModAdd(FieldSum(Terms(c, x), 0..d), FieldSum(Terms(b, x), 0..d))
    BY <2>1, <2>2, <2>4, <2>5, SumAdds
  <2> QED
    BY <1>2, <2>6, EvaluateIsSum
<1> QED
  BY <1>2, <1>3 DEF a

LEMMA EvaluateScales ==
  ASSUME NEW d \in Nat, NEW c \in Poly(d), NEW v \in Elem
  PROVE  LET a == [i \in 0..d |-> ModMul(v, c[i])]
         IN  a \in Poly(d) /\ \A x \in Elem : Evaluate(a, x) = ModMul(v, Evaluate(c, x))
<1> DEFINE a == [i \in 0..d |-> ModMul(v, c[i])]
<1>1. \A i \in 0..d : c[i] \in Elem
  BY DEF Poly
<1>2. a \in Poly(d) /\ \A i \in 0..d : a[i] = ModMul(v, c[i])
  BY <1>1, Ops DEF Poly
<1> HIDE DEF a
<1>3. ASSUME NEW x \in Elem PROVE Evaluate(a, x) = ModMul(v, Evaluate(c, x))
  <2>1. \A e \in 0..d : /\ Terms(c, x)[e] = ModMul(c[e], Pow(x, e)) /\ Terms(c, x)[e] \in Elem
                        /\ Pow(x, e) \in Elem /\ c[e] \in Elem
    BY TermsType
  <2>2. \A e \in 0..d : Terms(a, x)[e] = ModMul(a[e], Pow(x, e))
    BY <1>2, TermsType
  <2>3. \A e \in 0..d : Terms(a, x)[e] = ModMul(v, Terms(c, x)[e])
    BY <1>2, <2>1, <2>2, MulAssociates
  <2>4. IsFiniteSet(0..d)
    BY UpTo
  <2>5. FieldSum(Terms(a, x), 0..d) = ModMul(v, FieldSum(Terms(c, x), 0..d))
    BY <2>1, <2>3, <2>4, SumScales
  <2> QED
    BY <1>2, <2>5, EvaluateIsSum
<1> QED
  BY <1>2, <1>3 DEF a

LEMMA EvaluateSubtracts ==
  ASSUME NEW d \in Nat, NEW c \in Poly(d), NEW b \in Poly(d)
  PROVE  LET a == [i \in 0..d |-> ModSub(c[i], b[i])]
         IN  a \in Poly(d) /\ \A x \in Elem : Evaluate(a, x) = ModSub(Evaluate(c, x), Evaluate(b, x))
<1> DEFINE a == [i \in 0..d |-> ModSub(c[i], b[i])]
<1>1. \A i \in 0..d : c[i] \in Elem /\ b[i] \in Elem
  BY DEF Poly
<1>2. a \in Poly(d) /\ \A i \in 0..d : a[i] = ModSub(c[i], b[i])
  BY <1>1, Ops DEF Poly
<1>3. \A i \in 0..d : ModAdd(a[i], b[i]) = c[i]
  BY <1>1, <1>2, SubtractThenAdd
<1> HIDE DEF a
<1>4. [i \in 0..d |-> ModAdd(a[i], b[i])] = c
  BY <1>1, <1>3 DEF Poly
<1>5. ASSUME NEW x \in Elem PROVE Evaluate(a, x) = ModSub(Evaluate(c, x), Evaluate(b, x))
  <2>1. Evaluate(c, x) = ModAdd(Evaluate(a, x), Evaluate(b, x))
    BY <1>2, <1>4, EvaluateAdds
  <2>2. Evaluate(a, x) \in Elem /\ Evaluate(b, x) \in Elem
    BY <1>2, EvaluateIsSum
  <2> QED
    BY <2>1, <2>2, AddThenSubtract
<1> QED
  BY <1>2, <1>5 DEF a

(* A leading coefficient of zero changes no value.                         *)
LEMMA EvaluatePads ==
  ASSUME NEW d \in Nat, NEW c \in Poly(d), NEW a \in Poly(d + 1),
         a[d + 1] = 0, \A i \in 0..d : a[i] = c[i], NEW x \in Elem
  PROVE  Evaluate(a, x) = Evaluate(c, x)
<1>1. d + 1 \in Nat /\ d + 1 <= d + 1
  OBVIOUS
<1>2. /\ FieldSum(Terms(a, x), 0..(d + 1))
            = ModAdd(ModMul(a[d + 1], Pow(x, d + 1)), FieldSum(Terms(a, x), 0..d))
      /\ FieldSum(Terms(a, x), 0..d) \in Elem
  BY <1>1, SumTop
<1>3. Pow(x, d + 1) \in Elem
  BY <1>1, PowUnfolds
<1>4. FieldSum(Terms(a, x), 0..(d + 1)) = FieldSum(Terms(a, x), 0..d)
  BY <1>2, <1>3, AddZero, MulOne
<1>5. \A e \in 0..d : Terms(c, x)[e] \in Elem /\ Terms(c, x)[e] = ModMul(c[e], Pow(x, e))
  BY TermsType
<1>6. \A e \in 0..d : Terms(a, x)[e] = ModMul(a[e], Pow(x, e))
  <2>1. \A e \in 0..d : e \in 0..(d + 1)
    OBVIOUS
  <2> QED
    BY <1>1, <2>1, TermsType
<1>7. IsFiniteSet(0..d) /\ \A e \in 0..d : Terms(a, x)[e] = Terms(c, x)[e]
  BY <1>5, <1>6, UpTo
<1>8. FieldSum(Terms(a, x), 0..d) = FieldSum(Terms(c, x), 0..d)
  BY <1>5, <1>7, SumEqual
<1> QED
  BY <1>1, <1>4, <1>8, EvaluateIsSum

-----------------------------------------------------------------------------
(* A root takes a factor out of a polynomial.                              *)

LEMMA Factor ==
  ASSUME NEW d \in Nat, NEW a \in Elem, NEW c \in Poly(d + 1)
  PROVE  \E b \in Poly(d) :
           /\ b[d] = c[d + 1]
           /\ \A x \in Elem : Evaluate(c, x)
                = ModAdd(Evaluate(c, a), ModMul(ModSub(x, a), Evaluate(b, x)))
<1> DEFINE Divided(e, p, b) ==
             /\ b[e] = p[e + 1]
             /\ \A x \in Elem : Evaluate(p, x)
                  = ModAdd(Evaluate(p, a), ModMul(ModSub(x, a), Evaluate(b, x)))
           V == {e \in Nat : \A p \in Poly(e + 1) : \E b \in Poly(e) : Divided(e, p, b)}
<1>0. ASSUME NEW s \in Elem, NEW u \in Elem, NEW x \in Elem
      PROVE  ModAdd(s, ModMul(x, u)) = ModAdd(ModAdd(s, ModMul(a, u)), ModMul(ModSub(x, a), u))
  <2> DEFINE w == ModSub(x, a)
  <2>1. w \in Elem /\ ModAdd(w, a) = x
    BY Ops, SubtractThenAdd
  <2> HIDE DEF w
  <2>2. ModMul(a, u) \in Elem /\ ModMul(w, u) \in Elem
    BY <2>1, Ops
  <2>3. ModAdd(ModAdd(s, ModMul(a, u)), ModMul(w, u)) = ModAdd(s, ModAdd(ModMul(a, u), ModMul(w, u)))
    BY <2>2, AddAssociates
  <2>4. ModAdd(ModMul(a, u), ModMul(w, u)) = ModMul(ModAdd(a, w), u)
    BY <2>1, Distributes
  <2>5. ModAdd(a, w) = x
    BY <2>1, Commutes
  <2> QED
    BY <2>3, <2>4, <2>5 DEF w
<1>1. 0 \in V
  <2>1. ASSUME NEW p \in Poly(0 + 1) PROVE \E b \in Poly(0) : Divided(0, p, b)
    <3> DEFINE b == Shift(p)
    <3>1. b = [i \in 0..0 |-> p[i + 1]] /\ b \in Poly(0)
      BY ShiftType
    <3> HIDE DEF b
    <3>2. b[0] = p[0 + 1] /\ b[0] \in Elem
      BY <3>1 DEF Poly
    <3>3. p[0] \in Elem
      BY DEF Poly
    <3>4. \A x \in Elem : Evaluate(b, x) = b[0]
      BY <3>1, EvaluateConstant
    <3>5. \A x \in Elem : Evaluate(p, x) = ModAdd(p[0], ModMul(x, b[0]))
      BY <3>4, Horner DEF b
    <3>6. ASSUME NEW x \in Elem
          PROVE  Evaluate(p, x) = ModAdd(Evaluate(p, a), ModMul(ModSub(x, a), Evaluate(b, x)))
      BY <1>0, <3>2, <3>3, <3>4, <3>5
    <3>7. Divided(0, p, b)
      BY <3>2, <3>6
    <3> HIDE DEF Divided
    <3> QED
      BY <3>1, <3>7
  <2> QED
    BY <2>1
<1>2. ASSUME NEW e \in V PROVE e + 1 \in V
  <2>0. e \in Nat /\ \A p \in Poly(e + 1) : \E b \in Poly(e) : Divided(e, p, b)
    OBVIOUS
  <2>1. ASSUME NEW p \in Poly((e + 1) + 1) PROVE \E b \in Poly(e + 1) : Divided(e + 1, p, b)
    <3> DEFINE s == Shift(p)
    <3>1. e + 1 \in Nat
      BY <2>0
    <3>2. s = [i \in 0..(e + 1) |-> p[i + 1]] /\ s \in Poly(e + 1)
      BY <3>1, ShiftType
    <3>3. \A x \in Elem : Evaluate(p, x) = ModAdd(p[0], ModMul(x, Evaluate(s, x)))
      BY <3>1, Horner
    <3> HIDE DEF s
    <3>4. PICK t \in Poly(e) : Divided(e, s, t)
      BY <2>0, <3>2
    <3> DEFINE S == Evaluate(s, a)
               b == WithLow(S, t)
    <3>5. S \in Elem
      BY <3>1, <3>2, EvaluateIsSum
    <3> HIDE DEF S
    <3>6. /\ b \in Poly(e + 1)
          /\ \A i \in 0..e : b[i + 1] = t[i]
          /\ \A x \in Elem : Evaluate(b, x) = ModAdd(S, ModMul(x, Evaluate(t, x)))
      BY <2>0, <3>5, WithLowType, EvaluateWithLow
    <3> HIDE DEF b
    <3>7. b[e + 1] = p[(e + 1) + 1]
      <4>1. e \in 0..e /\ e + 1 \in 0..(e + 1)
        BY <2>0
      <4> QED
        BY <3>2, <3>4, <3>6, <4>1
    <3>8. ASSUME NEW x \in Elem
          PROVE  Evaluate(p, x) = ModAdd(Evaluate(p, a), ModMul(ModSub(x, a), Evaluate(b, x)))
      <4> DEFINE w == ModSub(x, a)
                 r == Evaluate(t, x)
                 c0 == p[0]
      <4>1. w \in Elem /\ r \in Elem /\ c0 \in Elem
        <5>1. 0 \in 0..((e + 1) + 1)
          BY <2>0
        <5> QED
          BY <2>0, <5>1, Ops, EvaluateIsSum DEF Poly
      <4>2. Evaluate(s, x) = ModAdd(S, ModMul(w, r))
        BY <3>4 DEF S
      <4>3. Evaluate(p, x) = ModAdd(c0, ModMul(x, ModAdd(S, ModMul(w, r))))
        BY <3>3, <4>2
      <4>4. Evaluate(p, a) = ModAdd(c0, ModMul(a, S))
        BY <3>3 DEF S
      <4>5. Evaluate(b, x) = ModAdd(S, ModMul(x, r))
        BY <3>6
      <4>6. ModAdd(c0, ModMul(x, S)) = ModAdd(ModAdd(c0, ModMul(a, S)), ModMul(w, S))
        BY <1>0, <3>5, <4>1
      <4> HIDE DEF w, r, c0
      <4> DEFINE q == ModMul(x, ModMul(w, r))
      <4>7. q = ModMul(w, ModMul(x, r)) /\ q \in Elem
        <5>1. ModMul(x, ModMul(w, r)) = ModMul(ModMul(x, w), r)
          BY <4>1, MulAssociates
        <5>2. ModMul(w, ModMul(x, r)) = ModMul(ModMul(w, x), r)
          BY <4>1, MulAssociates
        <5> QED
          BY <4>1, <5>1, <5>2, Commutes, Ops
      <4>8. ModMul(x, ModAdd(S, ModMul(w, r))) = ModAdd(ModMul(x, S), q)
        BY <3>5, <4>1, Distributes, Ops
      <4>9. ModMul(w, ModAdd(S, ModMul(x, r))) = ModAdd(ModMul(w, S), q)
        BY <3>5, <4>1, <4>7, Distributes, Ops
      <4> HIDE DEF q
      <4>10. /\ ModMul(x, S) \in Elem /\ ModMul(w, S) \in Elem
             /\ ModAdd(c0, ModMul(a, S)) \in Elem
        BY <3>5, <4>1, Ops
      <4>11. ModAdd(c0, ModAdd(ModMul(x, S), q)) = ModAdd(ModAdd(c0, ModMul(x, S)), q)
        BY <4>1, <4>7, <4>10, AddAssociates
      <4>12. ModAdd(ModAdd(c0, ModMul(a, S)), ModAdd(ModMul(w, S), q))
               = ModAdd(ModAdd(ModAdd(c0, ModMul(a, S)), ModMul(w, S)), q)
        BY <4>7, <4>10, AddAssociates
      <4> QED
        BY <4>3, <4>4, <4>5, <4>6, <4>8, <4>9, <4>11, <4>12 DEF w
    <3>9. Divided(e + 1, p, b)
      BY <3>7, <3>8
    <3> HIDE DEF Divided
    <3> QED
      BY <3>6, <3>9
  <2> HIDE DEF Divided
  <2> QED
    BY <2>0, <2>1
<1>3. V = Nat
  <2>1. V \in SUBSET Nat
    OBVIOUS
  <2> HIDE DEF V
  <2> QED
    BY <1>1, <1>2, <2>1, Induct
<1>4. d \in V
  BY <1>3
<1> QED
  BY <1>4

(* A polynomial of degree d with more than d roots is zero.                *)
THEOREM FewRoots ==
  ASSUME NEW d \in Nat, NEW c \in Poly(d), NEW R \in SUBSET Elem, IsFiniteSet(R),
         Cardinality(R) > d, \A x \in R : Evaluate(c, x) = 0
  PROVE  \A i \in 0..d : c[i] = 0
<1> DEFINE Many(e, p, S) == IsFiniteSet(S) /\ Cardinality(S) > e /\ \A x \in S : Evaluate(p, x) = 0
           V == {e \in Nat : \A p \in Poly(e), S \in SUBSET Elem :
                               Many(e, p, S) => \A i \in 0..e : p[i] = 0}
<1>1. 0 \in V
  <2>1. ASSUME NEW p \in Poly(0), NEW S \in SUBSET Elem, Many(0, p, S), NEW i \in 0..0
        PROVE  p[i] = 0
    <3>1. S # {}
      BY <2>1, FS_EmptySet
    <3>2. PICK x \in S : TRUE
      BY <3>1
    <3>3. Evaluate(p, x) = 0 /\ x \in Elem
      BY <2>1, <3>2
    <3>4. Evaluate(p, x) = p[0]
      BY <3>3, EvaluateConstant
    <3> QED
      BY <3>3, <3>4
  <2> HIDE DEF Many
  <2> QED
    BY <2>1
<1>2. ASSUME NEW e \in V PROVE e + 1 \in V
  <2>0. e \in Nat /\ \A p \in Poly(e), S \in SUBSET Elem : Many(e, p, S) => \A i \in 0..e : p[i] = 0
    OBVIOUS
  <2>1. ASSUME NEW p \in Poly(e + 1), NEW S \in SUBSET Elem, Many(e + 1, p, S), NEW i \in 0..(e + 1)
        PROVE  p[i] = 0
    <3>1. S # {} /\ Cardinality(S) \in Nat
      BY <2>0, <2>1, FS_EmptySet, FS_CardinalityType
    <3>2. PICK a \in S : TRUE
      BY <3>1
    <3>3. a \in Elem /\ Evaluate(p, a) = 0
      BY <2>1
    <3>4. PICK b \in Poly(e) :
            /\ b[e] = p[e + 1]
            /\ \A x \in Elem : Evaluate(p, x)
                 = ModAdd(Evaluate(p, a), ModMul(ModSub(x, a), Evaluate(b, x)))
      BY <2>0, <3>3, Factor
    <3> DEFINE T == S \ {a}
    <3>5. IsFiniteSet(T) /\ Cardinality(T) = Cardinality(S) - 1 /\ T \in SUBSET Elem
      BY <2>1, FS_RemoveElement
    <3>6. ASSUME NEW x \in T PROVE Evaluate(b, x) = 0
      <4>1. x \in Elem /\ x # a /\ Evaluate(p, x) = 0
        BY <2>1
      <4>2. Evaluate(b, x) \in Elem /\ ModSub(x, a) \in Elem
        BY <2>0, <3>3, <4>1, EvaluateIsSum, Ops
      <4>3. 0 = ModAdd(0, ModMul(ModSub(x, a), Evaluate(b, x)))
        BY <3>3, <3>4, <4>1
      <4>4. ModMul(ModSub(x, a), Evaluate(b, x)) = 0
        BY <4>2, <4>3, AddZero, Ops
      <4>5. ModSub(x, a) # 0
        BY <3>3, <4>1, DifferenceZero
      <4> QED
        BY <4>2, <4>4, <4>5, NoZeroDivisors
    <3>7. Many(e, b, T)
      <4>1. Cardinality(T) > e
        BY <2>0, <2>1, <3>1, <3>5
      <4> QED
        BY <3>5, <3>6, <4>1
    <3>8. b[e] = 0
      <4>1. e \in 0..e
        BY <2>0
      <4> HIDE DEF Many
      <4> QED
        BY <2>0, <3>5, <3>7, <4>1
    <3>9. p[e + 1] = 0
      BY <3>4, <3>8
    <3> DEFINE q == [j \in 0..e |-> p[j]]
    <3>10. q \in Poly(e) /\ \A j \in 0..e : p[j] = q[j]
      <4>1. \A j \in 0..e : j \in 0..(e + 1)
        BY <2>0
      <4> QED
        BY <4>1 DEF Poly
    <3> HIDE DEF q
    <3>11. \A x \in Elem : Evaluate(q, x) = Evaluate(p, x)
      BY <2>0, <3>9, <3>10, EvaluatePads
    <3>12. Many(e, q, S)
      <4>1. Cardinality(S) > e
        BY <2>0, <2>1, <3>1
      <4> QED
        BY <2>1, <3>11, <4>1
    <3>13. \A j \in 0..e : p[j] = 0
      <4> HIDE DEF Many
      <4> QED
        BY <2>0, <3>10, <3>12
    <3> QED
      BY <2>0, <3>9, <3>13
  <2> HIDE DEF Many
  <2> QED
    BY <2>0, <2>1
<1>3. V = Nat
  <2>1. V \in SUBSET Nat
    OBVIOUS
  <2> HIDE DEF V
  <2> QED
    BY <1>1, <1>2, <2>1, Induct
<1>4. d \in V
  BY <1>3
<1> QED
  BY <1>4

(* Two polynomials of degree d that agree at more than d points are one.   *)
THEOREM OnePolynomial ==
  ASSUME NEW d \in Nat, NEW c \in Poly(d), NEW b \in Poly(d), NEW R \in SUBSET Elem,
         IsFiniteSet(R), Cardinality(R) > d, \A x \in R : Evaluate(c, x) = Evaluate(b, x)
  PROVE  c = b
<1> DEFINE a == [i \in 0..d |-> ModSub(c[i], b[i])]
<1>1. a \in Poly(d) /\ \A x \in Elem : Evaluate(a, x) = ModSub(Evaluate(c, x), Evaluate(b, x))
  BY EvaluateSubtracts
<1>2. \A i \in 0..d : a[i] = ModSub(c[i], b[i])
  OBVIOUS
<1> HIDE DEF a
<1>3. ASSUME NEW x \in R PROVE Evaluate(a, x) = 0
  <2>1. Evaluate(a, x) = ModSub(Evaluate(c, x), Evaluate(c, x)) /\ Evaluate(c, x) \in Elem
    BY <1>1, EvaluateIsSum
  <2> QED
    BY <2>1, AddZero
<1>4. \A i \in 0..d : a[i] = 0
  BY <1>1, <1>3, FewRoots
<1>5. \A i \in 0..d : c[i] \in Elem /\ b[i] \in Elem
  BY DEF Poly
<1>6. \A i \in 0..d : c[i] = b[i]
  BY <1>2, <1>4, <1>5, DifferenceZero
<1> QED
  BY <1>6 DEF Poly

LEMMA ElemFinite == IsFiniteSet(Elem) /\ \A S \in SUBSET Elem : IsFiniteSet(S) /\ Cardinality(S) \in Nat
<1>1. 0 \in Int /\ P - 1 \in Int
  BY Modulus
<1>2. IsFiniteSet(Elem)
  BY <1>1, FS_Interval DEF Elem
<1> QED
  BY <1>2, FS_Subset, FS_CardinalityType

LEMMA EvaluateAtZero ==
  ASSUME NEW d \in Nat, NEW c \in Poly(d)
  PROVE  Evaluate(c, 0) = c[0] /\ c[0] \in Elem
<1>0. c[0] \in Elem
  BY DEF Poly
<1>1. CASE d = 0
  BY <1>0, <1>1, EvaluateConstant, Units
<1>2. CASE d # 0
  <2>1. d - 1 \in Nat /\ d = (d - 1) + 1
    BY <1>2
  <2>2. c \in Poly((d - 1) + 1)
    BY <2>1
  <2>3. Evaluate(c, 0) = ModAdd(c[0], ModMul(0, Evaluate(Shift(c), 0)))
    BY <2>1, <2>2, Horner, Units
  <2>4. Evaluate(Shift(c), 0) \in Elem
    BY <2>1, <2>2, ShiftType, EvaluateIsSum, Units
  <2> QED
    BY <1>0, <2>3, <2>4, AddZero, MulOne
<1> QED
  BY <1>1, <1>2

-----------------------------------------------------------------------------
(* Functions that are polynomials of a degree, closed under sums.          *)

IsPoly(h, d) == \E c \in Poly(d) : \A x \in Elem : h[x] = Evaluate(c, x)

LEMMA IsPolyConstant ==
  ASSUME NEW d \in Nat, NEW v \in Elem, NEW h, \A x \in Elem : h[x] = v
  PROVE  IsPoly(h, d)
<1> DEFINE Const(e) == [i \in 0..e |-> IF i = 0 THEN v ELSE 0]
           V == {e \in Nat : \A x \in Elem : Evaluate(Const(e), x) = v}
<1>0. ASSUME NEW e \in Nat PROVE Const(e) \in Poly(e)
  BY Units DEF Poly
<1>1. 0 \in V
  <2>1. Const(0) \in Poly(0)
    <3>1. 0 \in Nat
      OBVIOUS
    <3> HIDE DEF Const
    <3> QED
      BY <1>0, <3>1
  <2>2. Const(0)[0] = v
    OBVIOUS
  <2> HIDE DEF Const
  <2> QED
    BY <2>1, <2>2, EvaluateConstant
<1>2. ASSUME NEW e \in V PROVE e + 1 \in V
  <2>0. e \in Nat /\ \A x \in Elem : Evaluate(Const(e), x) = v
    OBVIOUS
  <2>1. Const(e) \in Poly(e) /\ Const(e + 1) \in Poly(e + 1)
    BY <1>0, <2>0
  <2>2. Const(e + 1)[e + 1] = 0 /\ \A i \in 0..e : Const(e + 1)[i] = Const(e)[i]
    BY <2>0
  <2> HIDE DEF Const
  <2>3. \A x \in Elem : Evaluate(Const(e + 1), x) = Evaluate(Const(e), x)
    BY <2>0, <2>1, <2>2, EvaluatePads
  <2> QED
    BY <2>0, <2>3
<1>3. V = Nat
  <2>1. V \in SUBSET Nat
    OBVIOUS
  <2> HIDE DEF V
  <2> QED
    BY <1>1, <1>2, <2>1, Induct
<1>4. Const(d) \in Poly(d) /\ d \in V
  BY <1>0, <1>3
<1>5. \A x \in Elem : h[x] = Evaluate(Const(d), x)
  BY <1>4
<1> HIDE DEF Const
<1> QED
  BY <1>4, <1>5 DEF IsPoly

LEMMA IsPolySum ==
  ASSUME NEW d \in Nat, NEW S, IsFiniteSet(S), NEW g, \A i \in S : IsPoly(g[i], d),
         NEW h, \A x \in Elem : h[x] = FieldSum([i \in S |-> g[i][x]], S)
  PROVE  IsPoly(h, d)
<1> DEFINE part(T) == [x \in Elem |-> FieldSum([i \in S |-> g[i][x]], T)]
           G == {T \in SUBSET S : IsPoly(part(T), d)}
<1>0. \A i \in S, x \in Elem : g[i][x] \in Elem
  BY EvaluateIsSum DEF IsPoly
<1>1. ASSUME NEW T \in SUBSET S, \A i \in T : T \ {i} \in G PROVE T \in G
  <2>1. IsFiniteSet(T)
    BY FS_Subset
  <2>2. CASE T = {}
    <3>1. \A x \in Elem : part(T)[x] = 0
      BY <2>1, <2>2, SumUnfolds
    <3> HIDE DEF part
    <3>2. IsPoly(part(T), d)
      BY <3>1, IsPolyConstant, Units
    <3> QED
      BY <3>2
  <2>3. CASE T # {}
    <3>1. PICK i \in T : TRUE
      BY <2>3
    <3> DEFINE R == T \ {i}
    <3>2. IsPoly(part(R), d)
      BY <1>1, <3>1
    <3>3. ASSUME NEW x \in Elem PROVE part(T)[x] = ModAdd(g[i][x], part(R)[x])
      <4> DEFINE k == [j \in S |-> g[j][x]]
      <4>1. \A j \in T : k[j] \in Elem
        BY <1>0
      <4>2. k[i] = g[i][x]
        OBVIOUS
      <4>3. part(T)[x] = FieldSum(k, T) /\ part(R)[x] = FieldSum(k, R)
        OBVIOUS
      <4> HIDE DEF k, part
      <4>4. FieldSum(k, T) = ModAdd(k[i], FieldSum(k, R))
        BY <2>1, <3>1, <4>1, SumStep
      <4> QED
        BY <4>2, <4>3, <4>4
    <3> HIDE DEF part, R
    <3>4. PICK c \in Poly(d) : \A x \in Elem : g[i][x] = Evaluate(c, x)
      <4>1. IsPoly(g[i], d)
        OBVIOUS
      <4> QED
        BY <4>1 DEF IsPoly
    <3>5. PICK b \in Poly(d) : \A x \in Elem : part(R)[x] = Evaluate(b, x)
      BY <3>2 DEF IsPoly
    <3> DEFINE a == [j \in 0..d |-> ModAdd(c[j], b[j])]
    <3>6. a \in Poly(d) /\ \A x \in Elem : Evaluate(a, x) = ModAdd(Evaluate(c, x), Evaluate(b, x))
      BY EvaluateAdds
    <3> HIDE DEF a
    <3>7. \A x \in Elem : part(T)[x] = Evaluate(a, x)
      BY <3>3, <3>4, <3>5, <3>6
    <3>8. IsPoly(part(T), d)
      BY <3>6, <3>7 DEF IsPoly
    <3> QED
      BY <3>8
  <2> QED
    BY <2>2, <2>3
<1>2. S \in G
  <2> HIDE DEF G
  <2> QED
    BY <1>1, SetInduct
<1>3. PICK c \in Poly(d) : \A x \in Elem : part(S)[x] = Evaluate(c, x)
  <2>1. IsPoly(part(S), d)
    BY <1>2
  <2> HIDE DEF part
  <2> QED
    BY <2>1 DEF IsPoly
<1>4. \A x \in Elem : h[x] = Evaluate(c, x)
  BY <1>3
<1> QED
  BY <1>4 DEF IsPoly

LEMMA IsPolyScaled ==
  ASSUME NEW d \in Nat, NEW v \in Elem, NEW g, IsPoly(g, d), NEW h, \A x \in Elem : h[x] = ModMul(v, g[x])
  PROVE  IsPoly(h, d)
<1>1. PICK c \in Poly(d) : \A x \in Elem : g[x] = Evaluate(c, x)
  BY DEF IsPoly
<1> DEFINE a == [i \in 0..d |-> ModMul(v, c[i])]
<1>2. a \in Poly(d) /\ \A x \in Elem : Evaluate(a, x) = ModMul(v, Evaluate(c, x))
  BY EvaluateScales
<1> HIDE DEF a
<1> QED
  BY <1>1, <1>2 DEF IsPoly

(* (v - x) times a polynomial, one degree more.                            *)
LEMMA IsPolyTimes ==
  ASSUME NEW d \in Nat, NEW v \in Elem, NEW g, IsPoly(g, d),
         NEW h, \A x \in Elem : h[x] = ModMul(ModSub(v, x), g[x])
  PROVE  IsPoly(h, d + 1)
<1>1. PICK c \in Poly(d) : \A x \in Elem : g[x] = Evaluate(c, x)
  BY DEF IsPoly
<1> DEFINE u == [i \in 0..(d + 1) |-> IF i = d + 1 THEN 0 ELSE c[i]]
           s == [i \in 0..(d + 1) |-> ModMul(v, u[i])]
           t == WithLow(0, c)
           a == [i \in 0..(d + 1) |-> ModSub(s[i], t[i])]
<1>2. d + 1 \in Nat /\ u \in Poly(d + 1) /\ u[d + 1] = 0 /\ \A i \in 0..d : u[i] = c[i]
  <2>1. \A i \in 0..(d + 1) : i # d + 1 => i \in 0..d
    OBVIOUS
  <2>2. \A i \in 0..d : i \in 0..(d + 1) /\ i # d + 1
    OBVIOUS
  <2> QED
    BY <2>1, <2>2, Units DEF Poly
<1> HIDE DEF u
<1>3. s \in Poly(d + 1) /\ \A x \in Elem : Evaluate(s, x) = ModMul(v, Evaluate(u, x))
  BY <1>2, EvaluateScales
<1> HIDE DEF s
<1>4. t \in Poly(d + 1) /\ \A x \in Elem : Evaluate(t, x) = ModAdd(0, ModMul(x, Evaluate(c, x)))
  BY WithLowType, EvaluateWithLow, Units
<1> HIDE DEF t
<1>5. a \in Poly(d + 1) /\ \A x \in Elem : Evaluate(a, x) = ModSub(Evaluate(s, x), Evaluate(t, x))
  BY <1>2, <1>3, <1>4, EvaluateSubtracts
<1> HIDE DEF a
<1>6. ASSUME NEW x \in Elem PROVE h[x] = Evaluate(a, x)
  <2> DEFINE r == Evaluate(c, x)
  <2>1. r \in Elem /\ Evaluate(u, x) = r
    BY <1>2, EvaluatePads, EvaluateIsSum
  <2>2. h[x] = ModMul(ModSub(v, x), r)
    BY <1>1
  <2>3. Evaluate(a, x) = ModSub(ModMul(v, r), ModAdd(0, ModMul(x, r)))
    BY <1>3, <1>4, <1>5, <2>1
  <2> HIDE DEF r
  <2>4. ModAdd(0, ModMul(x, r)) = ModMul(x, r) /\ ModMul(x, r) \in Elem /\ ModMul(v, r) \in Elem
    BY <2>1, Ops, AddZero
  <2>5. ModMul(ModSub(v, x), r) = ModMul(ModAdd(v, Neg(x)), r)
    BY Negation
  <2>6. ModMul(ModAdd(v, Neg(x)), r) = ModAdd(ModMul(v, r), ModMul(Neg(x), r))
    BY <2>1, Negation, Distributes
  <2>7. ModMul(Neg(x), r) = Neg(ModMul(x, r))
    BY <2>1, Negation
  <2>8. ModSub(ModMul(v, r), ModMul(x, r)) = ModAdd(ModMul(v, r), Neg(ModMul(x, r)))
    BY <2>4, Negation
  <2> QED
    BY <2>2, <2>3, <2>4, <2>5, <2>6, <2>7, <2>8
<1> QED
  BY <1>5, <1>6 DEF IsPoly

-----------------------------------------------------------------------------
(* Lagrange interpolation.                                                 *)

LEMMA InverseExact ==
  ASSUME NEW a \in Elem \ {0}
  PROVE  InverseOf[a] \in Elem /\ ModMul(InverseOf[a], a) = 1 /\ ModMul(a, InverseOf[a]) = 1
<1> DEFINE f == [b \in Elem \ {0} |-> CHOOSE v \in Elem : v \in ModInv(b)]
<1>1. InverseOf = f
  BY DEF InverseOf, Tabulated
<1>2. PICK v \in Elem : ModInv(a) = {v} /\ ModMul(v, a) = 1
  BY InvExact
<1>3. f[a] = v
  BY <1>2
<1> QED
  BY <1>1, <1>2, <1>3, Commutes

LEMMA SumOne ==
  ASSUME NEW g, NEW S, IsFiniteSet(S), NEW k \in S, g[k] \in Elem, \A i \in S : i # k => g[i] = 0
  PROVE  FieldSum(g, S) = g[k]
<1> DEFINE G == {T \in SUBSET (S \ {k}) : FieldSum(g, T) = 0}
<1>0. \A i \in S : g[i] \in Elem
  BY Units
<1>1. ASSUME NEW T \in SUBSET (S \ {k}), \A x \in T : T \ {x} \in G PROVE T \in G
  <2>1. IsFiniteSet(T) /\ \A i \in T : g[i] \in Elem
    BY <1>0, FS_Subset
  <2>2. T # {} => Some(T) \in T
    BY DEF Some
  <2>3. T # {} => g[Some(T)] = 0 /\ FieldSum(g, T \ {Some(T)}) = 0
    BY <1>1, <2>2
  <2>4. /\ T = {} => FieldSum(g, T) = 0
        /\ T # {} => FieldSum(g, T) = ModAdd(g[Some(T)], FieldSum(g, T \ {Some(T)}))
    BY <2>1, SumUnfolds
  <2> QED
    BY <2>3, <2>4, AddZero, Units
<1>2. IsFiniteSet(S \ {k})
  BY FS_Subset
<1>3. S \ {k} \in G
  <2> HIDE DEF G
  <2> QED
    BY <1>1, <1>2, SetInduct
<1>4. FieldSum(g, S) = ModAdd(g[k], FieldSum(g, S \ {k}))
  BY <1>0, SumStep
<1> QED
  BY <1>3, <1>4, AddZero

LEMMA DistinctCount ==
  ASSUME NEW S, IsFiniteSet(S), NEW f, \A i, j \in S : i # j => f[i] # f[j]
  PROVE  IsFiniteSet({f[i] : i \in S}) /\ Cardinality({f[i] : i \in S}) = Cardinality(S)
<1> DEFINE R == {f[i] : i \in S}
           h == [i \in S |-> f[i]]
<1>1. h \in Bijection(S, R)
  BY DEF Bijection, Injection, Surjection, IsInjective
<1>2. ExistsBijection(S, R)
  BY <1>1 DEF ExistsBijection
<1> HIDE DEF R
<1>3. IsFiniteSet(R) /\ Cardinality(R) = Cardinality(S)
  BY <1>2, FS_Bijection
<1> QED
  BY <1>3 DEF R

\* The factors x[j] - X.
Factors(I, xs, z) == [j \in I |-> ModSub(xs[j], z)]

(* A product of d factors x[j] - X.                                        *)
LEMMA IsPolyProduct ==
  ASSUME NEW I, NEW xs, \A j \in I : xs[j] \in Elem, NEW S \in SUBSET I, IsFiniteSet(S),
         NEW h, \A z \in Elem : h[z] = FieldProduct(Factors(I, xs, z), S)
  PROVE  IsPoly(h, Cardinality(S))
<1> USE DEF Factors
<1> DEFINE part(T) == [z \in Elem |-> FieldProduct(Factors(I, xs, z), T)]
           G == {T \in SUBSET S : IsPoly(part(T), Cardinality(T))}
<1>1. ASSUME NEW T \in SUBSET S, \A i \in T : T \ {i} \in G PROVE T \in G
  <2>1. IsFiniteSet(T) /\ Cardinality(T) \in Nat
    BY FS_Subset, FS_CardinalityType
  <2>2. CASE T = {}
    <3>1. \A z \in Elem : part(T)[z] = 1
      BY <2>1, <2>2, ProductUnfolds
    <3> HIDE DEF part
    <3>2. IsPoly(part(T), Cardinality(T))
      BY <2>1, <3>1, IsPolyConstant, Units
    <3> QED
      BY <3>2
  <2>3. CASE T # {}
    <3>1. PICK i \in T : TRUE
      BY <2>3
    <3> DEFINE R == T \ {i}
    <3>2. IsPoly(part(R), Cardinality(R))
      BY <1>1, <3>1
    <3>3. ASSUME NEW z \in Elem PROVE part(T)[z] = ModMul(ModSub(xs[i], z), part(R)[z])
      <4> DEFINE k == Factors(I, xs, z)
      <4>1. \A j \in T : k[j] \in Elem
        BY Ops
      <4>2. k[i] = ModSub(xs[i], z)
        OBVIOUS
      <4>3. part(T)[z] = FieldProduct(k, T) /\ part(R)[z] = FieldProduct(k, R)
        OBVIOUS
      <4> HIDE DEF k, part
      <4>4. FieldProduct(k, T) = ModMul(k[i], FieldProduct(k, R))
        BY <2>1, <3>1, <4>1, ProductStep
      <4> QED
        BY <4>2, <4>3, <4>4
    <3>4. Cardinality(R) \in Nat /\ Cardinality(T) = Cardinality(R) + 1
      <4>1. IsFiniteSet(R) /\ Cardinality(R) = Cardinality(T) - 1
        BY <2>1, <3>1, FS_RemoveElement
      <4>2. Cardinality(R) \in Nat
        BY <4>1, FS_CardinalityType
      <4> QED
        BY <2>1, <4>1, <4>2
    <3>5. xs[i] \in Elem
      OBVIOUS
    <3> HIDE DEF part, R
    <3>6. IsPoly(part(T), Cardinality(R) + 1)
      BY <3>2, <3>3, <3>4, <3>5, IsPolyTimes
    <3> QED
      BY <3>4, <3>6
  <2> QED
    BY <2>2, <2>3
<1>2. S \in G
  <2> HIDE DEF G
  <2> QED
    BY <1>1, SetInduct
<1>3. IsPoly(part(S), Cardinality(S))
  BY <1>2
<1>4. \A z \in Elem : h[z] = part(S)[z]
  OBVIOUS
<1> HIDE DEF part
<1> QED
  BY <1>3, <1>4 DEF IsPoly

(* d + 1 points of a polynomial of degree d, as interpolateAtZero and the  *)
(* decoder are given them.                                                 *)
PointsOf(points, c) ==
  /\ IsFiniteSet(DOMAIN points)
  /\ \A i \in DOMAIN points : points[i][1] \in Elem /\ points[i][2] = Evaluate(c, points[i][1])
  /\ \A i, j \in DOMAIN points : i # j => points[i][1] # points[j][1]

(* interpolateAtZero: the constant term of the polynomial through d + 1    *)
(* points with different x.                                                *)
THEOREM LagrangeExact ==
  ASSUME NEW d \in Nat, NEW c \in Poly(d), NEW points, PointsOf(points, c),
         Cardinality(DOMAIN points) = d + 1
  PROVE  InterpolateAtZero(points) = {c[0]}
<1> DEFINE I == DOMAIN points
           xs == [i \in I |-> points[i][1]]
           y(i) == points[i][2]
           basis(i, z) == FieldProduct([j \in I |-> ModSub(xs[j], z)], I \ {i})
           numer(i) == FieldProduct([j \in I |-> points[j][1]], I \ {i})
           denom(i) == FieldProduct([j \in I |-> ModSub(points[j][1], points[i][1])], I \ {i})
           weight(i) == ModMul(y(i), InverseOf[denom(i)])
           L == [z \in Elem |-> FieldSum([i \in I |-> ModMul(weight(i), basis(i, z))], I)]
<1>1. /\ IsFiniteSet(I) /\ \A i \in I : xs[i] \in Elem /\ xs[i] = points[i][1] /\ y(i) = Evaluate(c, xs[i])
      /\ \A i, j \in I : i # j => xs[i] # xs[j]
  BY DEF PointsOf
<1>2. \A i \in I : y(i) \in Elem
  BY <1>1, EvaluateIsSum
<1>3. \A i \in I : IsFiniteSet(I \ {i}) /\ Cardinality(I \ {i}) = d
  <2>1. \A i \in I : IsFiniteSet(I \ {i}) /\ Cardinality(I \ {i}) = Cardinality(I) - 1
    BY <1>1, FS_RemoveElement
  <2> QED
    BY <2>1
<1>4. ASSUME NEW i \in I, NEW z \in Elem
      PROVE  basis(i, z) \in Elem /\ \A j \in I : ModSub(xs[j], z) \in Elem
  <2>1. \A j \in I : ModSub(xs[j], z) \in Elem
    BY <1>1, Ops
  <2> DEFINE k == [j \in I |-> ModSub(xs[j], z)]
  <2>2. \A j \in I \ {i} : k[j] \in Elem
    BY <2>1
  <2> HIDE DEF k
  <2>3. FieldProduct(k, I \ {i}) \in Elem
    BY <1>3, <2>2, ProductUnfolds
  <2> QED
    BY <2>1, <2>3 DEF k
<1>5. ASSUME NEW i \in I PROVE basis(i, xs[i]) = denom(i) /\ basis(i, 0) = numer(i)
  <2>1. [j \in I |-> ModSub(xs[j], xs[i])] = [j \in I |-> ModSub(points[j][1], points[i][1])]
    BY <1>1
  <2>2. [j \in I |-> ModSub(xs[j], 0)] = [j \in I |-> points[j][1]]
    BY <1>1, AddZero
  <2> QED
    BY <2>1, <2>2
<1>6. ASSUME NEW i \in I PROVE denom(i) \in Elem \ {0}
  <2> DEFINE k == [j \in I |-> ModSub(points[j][1], points[i][1])]
  <2>1. ASSUME NEW j \in I \ {i} PROVE k[j] \in Elem \ {0}
    <3>1. xs[j] \in Elem /\ xs[i] \in Elem /\ xs[j] # xs[i] /\ k[j] = ModSub(xs[j], xs[i])
      BY <1>1
    <3> HIDE DEF k
    <3> QED
      BY <3>1, Ops, DifferenceZero
  <2> HIDE DEF k
  <2>2. FieldProduct(k, I \ {i}) \in Elem \ {0}
    BY <1>3, <2>1, ProductNotZero
  <2> QED
    BY <2>2 DEF k
<1>7. ASSUME NEW i \in I
      PROVE  /\ InverseOf[denom(i)] \in Elem /\ ModMul(InverseOf[denom(i)], denom(i)) = 1
             /\ weight(i) \in Elem
  <2> HIDE DEF denom
  <2>1. InverseOf[denom(i)] \in Elem /\ ModMul(InverseOf[denom(i)], denom(i)) = 1
    BY <1>6, InverseExact
  <2> QED
    BY <1>2, <2>1, Ops
<1>8. ASSUME NEW i \in I, NEW k \in I, i # k PROVE basis(i, xs[k]) = 0
  <2> DEFINE f == [j \in I |-> ModSub(xs[j], xs[k])]
  <2>1. f[k] = 0 /\ k \in I \ {i} /\ \A j \in I \ {i} : f[j] \in Elem
    BY <1>1, <1>4, <1>8, AddZero
  <2> HIDE DEF f
  <2>2. FieldProduct(f, I \ {i}) = 0
    BY <1>3, <2>1, ProductZero
  <2> QED
    BY <2>2 DEF f
<1>9. ASSUME NEW k \in I PROVE L[xs[k]] = y(k)
  <2> DEFINE f == [i \in I |-> ModMul(weight(i), basis(i, xs[k]))]
  <2>1. \A i \in I : i # k => f[i] = 0
    <3>1. ASSUME NEW i \in I, i # k PROVE ModMul(weight(i), basis(i, xs[k])) = 0
      <4> HIDE DEF weight, basis
      <4> QED
        BY <1>7, <1>8, <3>1, MulOne
    <3> QED
      BY <3>1
  <2>2. f[k] = y(k)
    <3>1. f[k] = ModMul(weight(k), denom(k))
      BY <1>5
    <3>2. ModMul(ModMul(y(k), InverseOf[denom(k)]), denom(k))
            = ModMul(y(k), ModMul(InverseOf[denom(k)], denom(k)))
      <4> HIDE DEF denom
      <4> QED
        BY <1>2, <1>6, <1>7, MulAssociates
    <3> HIDE DEF denom
    <3> QED
      BY <1>2, <1>7, <3>1, <3>2, MulOne
  <2>3. L[xs[k]] = FieldSum(f, I)
    BY <1>1
  <2> HIDE DEF f, L
  <2>4. FieldSum(f, I) = f[k]
    BY <1>1, <1>2, <2>1, <2>2, SumOne
  <2> QED
    BY <2>2, <2>3, <2>4
<1>10. IsPoly(L, d)
  <2> DEFINE f == [i \in I |-> [z \in Elem |-> ModMul(weight(i), basis(i, z))]]
  <2>1. ASSUME NEW i \in I PROVE IsPoly(f[i], d)
    <3> DEFINE b == [z \in Elem |-> basis(i, z)]
               S == I \ {i}
    <3>1. \A z \in Elem : b[z] = FieldProduct(Factors(I, xs, z), S)
      BY DEF Factors
    <3>2. \A z \in Elem : f[i][z] = ModMul(weight(i), b[z])
      OBVIOUS
    <3>3. S \in SUBSET I /\ IsFiniteSet(S) /\ Cardinality(S) = d
      BY <1>3
    <3>4. \A j \in I : xs[j] \in Elem
      BY <1>1
    <3>5. weight(i) \in Elem
      BY <1>7
    <3> HIDE DEF b, f, weight, xs, I, S, L, y, numer, denom
    <3>6. IsPoly(b, Cardinality(S))
      BY <3>1, <3>3, <3>4, IsPolyProduct
    <3>7. IsPoly(b, d)
      BY <3>3, <3>6
    <3> QED
      BY <3>2, <3>5, <3>7, IsPolyScaled
  <2>2. ASSUME NEW z \in Elem PROVE L[z] = FieldSum([i \in I |-> f[i][z]], I)
    <3>1. [i \in I |-> f[i][z]] = [i \in I |-> ModMul(weight(i), basis(i, z))]
      OBVIOUS
    <3> HIDE DEF f, weight, basis
    <3> QED
      BY <3>1
  <2>3. IsFiniteSet(I)
    BY <1>1
  <2>4. \A i \in I : IsPoly(f[i], d)
    BY <2>1
  <2>5. \A z \in Elem : L[z] = FieldSum([i \in I |-> f[i][z]], I)
    BY <2>2
  <2> HIDE DEF f, L, I
  <2> QED
    BY <2>3, <2>4, <2>5, IsPolySum
<1>11. PICK b \in Poly(d) : \A z \in Elem : L[z] = Evaluate(b, z)
  <2> HIDE DEF L
  <2> QED
    BY <1>10 DEF IsPoly
<1>12. b = c
  <2> DEFINE R == {xs[i] : i \in I}
  <2>1. R \in SUBSET Elem
    BY <1>1
  <2>2. IsFiniteSet(R) /\ Cardinality(R) = d + 1
    <3> HIDE DEF xs, I
    <3>1. IsFiniteSet(R) /\ Cardinality(R) = Cardinality(I)
      BY <1>1, DistinctCount
    <3> QED
      BY <3>1 DEF I
  <2>3. \A z \in R : Evaluate(b, z) = Evaluate(c, z)
    <3> HIDE DEF L, xs
    <3> QED
      BY <1>1, <1>9, <1>11
  <2>4. Cardinality(R) > d
    BY <2>2
  <2> HIDE DEF R
  <2> QED
    BY <2>1, <2>2, <2>3, <2>4, OnePolynomial
<1>13. L[0] = c[0]
  <2> HIDE DEF L
  <2> QED
    BY <1>11, <1>12, EvaluateAtZero, Units
<1>14. InterpolateAtZero(points)
         = {FieldSum([i \in I |-> ModMul(y(i), ModMul(numer(i), InverseOf[denom(i)]))], I)}
  <2>1. ~ \E i, j \in DOMAIN points : i # j /\ points[i][1] = points[j][1]
    BY DEF PointsOf
  <2> QED
    BY <2>1 DEF InterpolateAtZero
<1>15. ASSUME NEW i \in I
       PROVE  ModMul(y(i), ModMul(numer(i), InverseOf[denom(i)])) = ModMul(weight(i), basis(i, 0))
  <2>1. numer(i) \in Elem /\ numer(i) = basis(i, 0)
    <3> HIDE DEF numer, basis
    <3> QED
      BY <1>4, <1>5, Units
  <2> DEFINE n == numer(i)
             v == InverseOf[denom(i)]
  <2> HIDE DEF numer, denom, basis
  <2>2. n \in Elem /\ v \in Elem /\ y(i) \in Elem
    BY <1>2, <1>7, <2>1
  <2>3. weight(i) = ModMul(y(i), v)
    OBVIOUS
  <2> HIDE DEF n, v, weight
  <2>4. ModMul(y(i), ModMul(n, v)) = ModMul(y(i), ModMul(v, n))
    BY <2>2, Commutes
  <2>5. ModMul(ModMul(y(i), v), n) = ModMul(y(i), ModMul(v, n))
    BY <2>2, MulAssociates
  <2> QED
    BY <2>1, <2>3, <2>4, <2>5 DEF n, v
<1>16. [i \in I |-> ModMul(y(i), ModMul(numer(i), InverseOf[denom(i)]))]
         = [i \in I |-> ModMul(weight(i), basis(i, 0))]
  <2> HIDE DEF weight, numer, denom, basis
  <2> QED
    BY <1>15
<1>17. L[0] = FieldSum([i \in I |-> ModMul(weight(i), basis(i, 0))], I)
  <2> HIDE DEF weight, basis
  <2> QED
    BY Units
<1> HIDE DEF L, weight, basis, numer, denom
<1> QED
  BY <1>13, <1>14, <1>16, <1>17

(* interpolateAtZero multiplies the values by weights that the x alone     *)
(* decide.                                                                 *)
LEMMA WeightsAtZero ==
  ASSUME NEW d \in Nat, NEW S \in SUBSET Elem, Cardinality(S) = d + 1
  PROVE  \E w \in [S -> Elem] :
           \A c \in Poly(d) : c[0] = FieldSum([p \in S |-> ModMul(Evaluate(c, p), w[p])], S)
<1> DEFINE numer(i) == FieldProduct([j \in S |-> j], S \ {i})
           denom(i) == FieldProduct([j \in S |-> ModSub(j, i)], S \ {i})
           w == [i \in S |-> ModMul(numer(i), InverseOf[denom(i)])]
<1>1. IsFiniteSet(S)
  BY ElemFinite
<1>2. ASSUME NEW i \in S PROVE IsFiniteSet(S \ {i})
  BY <1>1, FS_RemoveElement
<1>3. ASSUME NEW i \in S PROVE numer(i) \in Elem
  <2> DEFINE g == [j \in S |-> j]
  <2>1. \A j \in S \ {i} : g[j] \in Elem
    OBVIOUS
  <2> HIDE DEF g
  <2>2. FieldProduct(g, S \ {i}) \in Elem
    BY <1>2, <2>1, ProductUnfolds
  <2> QED
    BY <2>2 DEF g
<1>4. ASSUME NEW i \in S PROVE denom(i) \in Elem \ {0}
  <2> DEFINE g == [j \in S |-> ModSub(j, i)]
  <2>1. ASSUME NEW j \in S \ {i} PROVE g[j] \in Elem \ {0}
    <3>1. j \in Elem /\ i \in Elem /\ j # i /\ g[j] = ModSub(j, i)
      OBVIOUS
    <3> HIDE DEF g
    <3> QED
      BY <3>1, Ops, DifferenceZero
  <2> HIDE DEF g
  <2>2. FieldProduct(g, S \ {i}) \in Elem \ {0}
    BY <1>2, <2>1, ProductNotZero
  <2> QED
    BY <2>2 DEF g
<1>5. w \in [S -> Elem]
  <2> HIDE DEF numer, denom
  <2>1. ASSUME NEW i \in S PROVE ModMul(numer(i), InverseOf[denom(i)]) \in Elem
    BY <1>3, <1>4, InverseExact, Ops
  <2> QED
    BY <2>1
<1>6. ASSUME NEW c \in Poly(d)
      PROVE  c[0] = FieldSum([p \in S |-> ModMul(Evaluate(c, p), w[p])], S)
  <2> DEFINE points == [p \in S |-> <<p, Evaluate(c, p)>>]
  <2>1. /\ DOMAIN points = S
        /\ \A p \in S : points[p][1] = p /\ points[p][2] = Evaluate(c, p)
    OBVIOUS
  <2>2. /\ [j \in S |-> points[j][1]] = [j \in S |-> j]
        /\ \A i \in S : [j \in S |-> ModSub(points[j][1], points[i][1])] = [j \in S |-> ModSub(j, i)]
    OBVIOUS
  <2> HIDE DEF points
  <2>3. PointsOf(points, c)
    BY <1>1, <2>1 DEF PointsOf
  <2>4. InterpolateAtZero(points) = {c[0]}
    BY <2>1, <2>3, LagrangeExact
  <2> DEFINE factor(i) == ModMul(FieldProduct([j \in S |-> points[j][1]], S \ {i}),
                            InverseOf[FieldProduct([j \in S |-> ModSub(points[j][1], points[i][1])],
                                                   S \ {i})])
  <2>5. InterpolateAtZero(points) = {FieldSum([i \in S |-> ModMul(points[i][2], factor(i))], S)}
    <3>1. ~ \E i, j \in DOMAIN points : i # j /\ points[i][1] = points[j][1]
      BY <2>1
    <3> QED
      BY <2>1, <3>1 DEF InterpolateAtZero
  <2>6. \A i \in S : factor(i) = w[i]
    BY <2>2
  <2> HIDE DEF factor, w
  <2>7. [i \in S |-> ModMul(points[i][2], factor(i))] = [p \in S |-> ModMul(Evaluate(c, p), w[p])]
    BY <2>1, <2>6
  <2> QED
    BY <2>4, <2>5, <2>7
<1> HIDE DEF w
<1> QED
  BY <1>5, <1>6

LEMMA IsPolySubtracted ==
  ASSUME NEW d \in Nat, NEW f, IsPoly(f, d), NEW g, IsPoly(g, d),
         NEW h, \A x \in Elem : h[x] = ModSub(f[x], g[x])
  PROVE  IsPoly(h, d)
<1>1. PICK a \in Poly(d) : \A x \in Elem : f[x] = Evaluate(a, x)
  BY DEF IsPoly
<1>2. PICK b \in Poly(d) : \A x \in Elem : g[x] = Evaluate(b, x)
  BY DEF IsPoly
<1> DEFINE c == [i \in 0..d |-> ModSub(a[i], b[i])]
<1>3. c \in Poly(d) /\ \A x \in Elem : Evaluate(c, x) = ModSub(Evaluate(a, x), Evaluate(b, x))
  BY EvaluateSubtracts
<1> HIDE DEF c
<1>4. \A x \in Elem : h[x] = Evaluate(c, x)
  BY <1>1, <1>2, <1>3
<1> QED
  BY <1>3, <1>4 DEF IsPoly

(* A polynomial whose coefficients are polynomials of degree d in another  *)
(* variable is, at a fixed s, one of degree d in that variable.            *)
LEMMA IsPolyFamily ==
  ASSUME NEW d \in Nat, NEW n \in Nat, NEW m, \A e \in 0..n : IsPoly(m[e], d), NEW s \in Elem,
         NEW h, \A x \in Elem : h[x] = Evaluate([e \in 0..n |-> m[e][x]], s)
  PROVE  IsPoly(h, d)
<1> DEFINE g == [e \in 0..n |-> [x \in Elem |-> ModMul(Pow(s, e), m[e][x])]]
<1>1. \A e \in 0..n : e \in Nat /\ Pow(s, e) \in Elem
  BY PowUnfolds
<1>2. \A e \in 0..n : \A x \in Elem : m[e][x] \in Elem
  BY EvaluateIsSum DEF IsPoly
<1>3. ASSUME NEW e \in 0..n PROVE IsPoly(g[e], d)
  <2>1. Pow(s, e) \in Elem /\ IsPoly(m[e], d)
    BY <1>1
  <2>2. \A x \in Elem : g[e][x] = ModMul(Pow(s, e), m[e][x])
    OBVIOUS
  <2> HIDE DEF g
  <2> QED
    BY <2>1, <2>2, IsPolyScaled
<1>4. ASSUME NEW x \in Elem PROVE h[x] = FieldSum([e \in 0..n |-> g[e][x]], 0..n)
  <2> DEFINE c == [e \in 0..n |-> m[e][x]]
  <2>1. c \in Poly(n)
    BY <1>2 DEF Poly
  <2>2. Terms(c, s) = [e \in 0..n |-> g[e][x]]
    <3>1. ASSUME NEW e \in 0..n PROVE ModMulCanon(c[e], Pow(s, e)) = g[e][x]
      <4>1. c[e] = m[e][x] /\ m[e][x] \in Elem /\ Pow(s, e) \in Elem
        BY <1>1, <1>2
      <4>2. g[e][x] = ModMul(Pow(s, e), m[e][x])
        OBVIOUS
      <4> HIDE DEF c, g
      <4>3. ModMulCanon(c[e], Pow(s, e)) = ModMul(c[e], Pow(s, e))
        BY <4>1, Ops
      <4>4. ModMul(m[e][x], Pow(s, e)) = ModMul(Pow(s, e), m[e][x])
        BY <4>1, Commutes
      <4> QED
        BY <4>1, <4>2, <4>3, <4>4
    <3>2. DOMAIN c = 0..n
      OBVIOUS
    <3> HIDE DEF c, g
    <3> QED
      BY <3>1, <3>2 DEF Terms
  <2>3. h[x] = Evaluate(c, s)
    OBVIOUS
  <2> HIDE DEF c, g
  <2> QED
    BY <2>1, <2>2, <2>3, EvaluateIsSum
<1>5. IsFiniteSet(0..n)
  BY UpTo
<1> HIDE DEF g
<1> QED
  BY <1>3, <1>4, <1>5, IsPolySum

-----------------------------------------------------------------------------
(* Projections of one polynomial, and of two.                              *)

\* f and g are the sums of the rows and of the columns of the table m.
RowsAndColumns(A, B, m, f, g) ==
  /\ m \in [A \X B -> Elem]
  /\ \A a \in A : f[a] = FieldSum([b \in B |-> m[<<a, b>>]], B)
  /\ \A b \in B : g[b] = FieldSum([a \in A |-> m[<<a, b>>]], A)

LEMMA SumsExchange ==
  ASSUME NEW A, NEW B, IsFiniteSet(A), IsFiniteSet(B), NEW m, NEW f, NEW g,
         RowsAndColumns(A, B, m, f, g)
  PROVE  FieldSum(f, A) = FieldSum(g, B)
<1>0. /\ m \in [A \X B -> Elem]
      /\ \A a \in A : f[a] = FieldSum([b \in B |-> m[<<a, b>>]], B)
      /\ \A b \in B : g[b] = FieldSum([a \in A |-> m[<<a, b>>]], A)
  BY DEF RowsAndColumns
<1> DEFINE row(a) == [b \in B |-> m[<<a, b>>]]
           part(T) == [b \in B |-> FieldSum([a \in A |-> m[<<a, b>>]], T)]
           G == {T \in SUBSET A : FieldSum(f, T) = FieldSum(part(T), B)}
<1>1. ASSUME NEW a \in A
      PROVE  /\ f[a] = FieldSum(row(a), B) /\ f[a] \in Elem
             /\ \A b \in B : row(a)[b] = m[<<a, b>>] /\ row(a)[b] \in Elem
  <2>1. f[a] = FieldSum(row(a), B) /\ \A b \in B : row(a)[b] = m[<<a, b>>] /\ row(a)[b] \in Elem
    BY <1>0
  <2> DEFINE h == row(a)
  <2>2. f[a] = FieldSum(h, B) /\ \A b \in B : h[b] \in Elem
    BY <2>1
  <2> HIDE DEF h
  <2>3. f[a] \in Elem
    BY <2>2, SumUnfolds
  <2> QED
    BY <2>1, <2>3
<1>2. ASSUME NEW b \in B
      PROVE  \A a \in A : [i \in A |-> m[<<i, b>>]][a] = m[<<a, b>>] /\ m[<<a, b>>] \in Elem
  BY <1>0
<1>3. ASSUME NEW T \in SUBSET A, NEW b \in B
      PROVE  part(T)[b] = FieldSum([a \in A |-> m[<<a, b>>]], T) /\ part(T)[b] \in Elem
  <2> DEFINE h == [a \in A |-> m[<<a, b>>]]
  <2>1. IsFiniteSet(T) /\ \A a \in T : h[a] \in Elem
    BY <1>0, FS_Subset
  <2>2. part(T)[b] = FieldSum(h, T)
    OBVIOUS
  <2> HIDE DEF h, part
  <2>3. FieldSum(h, T) \in Elem
    BY <2>1, SumUnfolds
  <2> QED
    BY <2>2, <2>3 DEF h
<1>4. ASSUME NEW T \in SUBSET A, \A a \in T : T \ {a} \in G PROVE T \in G
  <2>1. IsFiniteSet(T)
    BY FS_Subset
  <2> HIDE DEF row, part
  <2>2. CASE T = {}
    <3> DEFINE p == part(T)
    <3>1. \A b \in B : p[b] = 0
      <4>1. ASSUME NEW b \in B PROVE p[b] = 0
        <5> DEFINE h == [a \in A |-> m[<<a, b>>]]
        <5>1. p[b] = FieldSum(h, T)
          BY <1>3
        <5> HIDE DEF h, p
        <5>2. \A a \in T : h[a] \in Elem
          BY <2>2
        <5> QED
          BY <2>1, <2>2, <5>1, <5>2, SumUnfolds
      <4> QED
        BY <4>1
    <3>2. \A a \in T : f[a] \in Elem
      BY <2>2
    <3>3. FieldSum(f, T) = 0
      BY <2>1, <2>2, <3>2, SumUnfolds
    <3> HIDE DEF p
    <3>4. 0 \in Elem /\ \A b \in B : p[b] \in Elem /\ p[b] = ModMul(0, p[b])
      BY <3>1, Units, MulOne
    <3>5. FieldSum(p, B) = ModMul(0, FieldSum(p, B))
      BY <3>4, SumScales
    <3>6. FieldSum(p, B) \in Elem
      BY <3>4, SumUnfolds
    <3>7. FieldSum(p, B) = 0
      BY <3>5, <3>6, MulOne
    <3> QED
      BY <3>3, <3>7 DEF p
  <2>3. CASE T # {}
    <3>1. PICK x \in T : TRUE
      BY <2>3
    <3> DEFINE R == T \ {x}
               p == part(T)
               q == part(R)
               w == row(x)
    <3>2. IsFiniteSet(R) /\ R \in SUBSET A /\ R \in G /\ x \in A
      BY <1>4, <2>1, <3>1, FS_Subset
    <3>3. FieldSum(f, T) = ModAdd(f[x], FieldSum(f, R))
      <4>1. \A i \in T : f[i] \in Elem
        BY <1>1
      <4> QED
        BY <2>1, <3>1, <4>1, SumStep
    <3>4. ASSUME NEW b \in B PROVE w[b] \in Elem /\ q[b] \in Elem /\ p[b] = ModAdd(w[b], q[b])
      <4> DEFINE h == [a \in A |-> m[<<a, b>>]]
      <4>1. p[b] = FieldSum(h, T) /\ q[b] = FieldSum(h, R) /\ q[b] \in Elem
        BY <1>3, <3>2
      <4>2. h[x] = w[b] /\ w[b] \in Elem /\ \A a \in T : h[a] \in Elem
        BY <1>1, <3>2
      <4> HIDE DEF h, p, q, w
      <4>3. FieldSum(h, T) = ModAdd(h[x], FieldSum(h, R))
        BY <2>1, <3>1, <4>2, SumStep DEF R
      <4> QED
        BY <4>1, <4>2, <4>3
    <3>5. f[x] = FieldSum(w, B)
      BY <1>1, <3>2
    <3>6. FieldSum(f, R) = FieldSum(q, B)
      BY <3>2
    <3> HIDE DEF R, p, q, w
    <3>7. FieldSum(p, B) = ModAdd(FieldSum(w, B), FieldSum(q, B))
      BY <3>4, SumAdds
    <3> QED
      BY <3>3, <3>5, <3>6, <3>7 DEF p
  <2> QED
    BY <2>2, <2>3
<1>5. A \in G
  <2> HIDE DEF G
  <2> QED
    BY <1>4, SetInduct
<1>6. FieldSum(f, A) = FieldSum(part(A), B)
  BY <1>5
<1> DEFINE p == part(A)
<1>7. \A b \in B : p[b] \in Elem /\ g[b] = p[b]
  BY <1>0, <1>3
<1> HIDE DEF p
<1>8. FieldSum(g, B) = FieldSum(p, B)
  BY <1>7, SumEqual
<1> QED
  BY <1>6, <1>8 DEF p

LEMMA EvaluateTimes ==
  ASSUME NEW d \in Nat, NEW c \in Poly(d), NEW x \in Elem, NEW v \in Elem, NEW h,
         \A e \in 0..d : h[e] = ModMul(ModMul(c[e], Pow(x, e)), v)
  PROVE  ModMul(Evaluate(c, x), v) = FieldSum(h, 0..d)
<1> DEFINE t == Terms(c, x)
<1>1. IsFiniteSet(0..d) /\ Evaluate(c, x) = FieldSum(t, 0..d) /\ Evaluate(c, x) \in Elem
  BY TermsType, EvaluateIsSum
<1>2. ASSUME NEW e \in 0..d PROVE t[e] \in Elem /\ h[e] = ModMul(v, t[e])
  <2>1. t[e] = ModMul(c[e], Pow(x, e)) /\ t[e] \in Elem
    BY TermsType
  <2> HIDE DEF t
  <2> QED
    BY <2>1, Commutes
<1> HIDE DEF t
<1>3. FieldSum(h, 0..d) = ModMul(v, FieldSum(t, 0..d))
  BY <1>1, <1>2, SumScales
<1> QED
  BY <1>1, <1>3, Commutes

(* A table of coefficients in X and Y may be evaluated in either order.    *)
LEMMA EvaluateBoth ==
  ASSUME NEW d \in Nat, NEW T \in [0..d -> [0..d -> Elem]], NEW x \in Elem, NEW y \in Elem
  PROVE  Evaluate([b \in 0..d |-> Evaluate([a \in 0..d |-> T[a][b]], x)], y)
           = Evaluate([a \in 0..d |-> Evaluate([b \in 0..d |-> T[a][b]], y)], x)
<1> DEFINE I == 0..d
           colT(b) == [a \in I |-> T[a][b]]
           rowT(a) == [b \in I |-> T[a][b]]
           u == [b \in I |-> Evaluate(colT(b), x)]
           v == [a \in I |-> Evaluate(rowT(a), y)]
           m == [p \in I \X I |-> ModMul(ModMul(T[p[1]][p[2]], Pow(x, p[1])), Pow(y, p[2]))]
           f == Terms(v, x)
           g == Terms(u, y)
<1>1. IsFiniteSet(I) /\ \A e \in I : e \in Nat /\ Pow(x, e) \in Elem /\ Pow(y, e) \in Elem
  <2> DEFINE o == [e \in 0..d |-> 0]
  <2>1. o \in Poly(d)
    BY Units DEF Poly
  <2> HIDE DEF o
  <2> QED
    BY <2>1, TermsType
<1>2. ASSUME NEW e \in I
      PROVE  colT(e) \in Poly(d) /\ rowT(e) \in Poly(d) /\ \A i \in I : rowT(e)[i] = T[e][i] /\ colT(e)[i] = T[i][e]
  BY DEF Poly
<1>3. ASSUME NEW a \in I, NEW b \in I
      PROVE  m[<<a, b>>] = ModMul(ModMul(T[a][b], Pow(x, a)), Pow(y, b)) /\ m[<<a, b>>] \in Elem
  <2>1. m[<<a, b>>] = ModMul(ModMul(T[a][b], Pow(x, a)), Pow(y, b))
    OBVIOUS
  <2>2. T[a][b] \in Elem /\ Pow(x, a) \in Elem /\ Pow(y, b) \in Elem
    BY <1>1
  <2> HIDE DEF m
  <2> QED
    BY <2>1, <2>2, Ops
<1>4. m \in [I \X I -> Elem]
  <2>1. \A p \in I \X I : m[p] \in Elem
    <3>1. ASSUME NEW p \in I \X I PROVE m[p] \in Elem
      <4>1. PICK a \in I, b \in I : p = <<a, b>>
        OBVIOUS
      <4> HIDE DEF m
      <4> QED
        BY <1>3, <4>1
    <3> QED
      BY <3>1
  <2> QED
    BY <2>1
<1> HIDE DEF colT, rowT, m
<1>5. u \in Poly(d) /\ v \in Poly(d)
  <2>1. \A e \in I : Evaluate(colT(e), x) \in Elem /\ Evaluate(rowT(e), y) \in Elem
    BY <1>2, EvaluateIsSum
  <2> QED
    BY <2>1 DEF Poly
<1>6. ASSUME NEW b \in I PROVE g[b] = FieldSum([a \in I |-> m[<<a, b>>]], I)
  <2> DEFINE h == [a \in I |-> m[<<a, b>>]]
  <2>1. g[b] = ModMul(u[b], Pow(y, b)) /\ u[b] = Evaluate(colT(b), x)
    BY <1>5, TermsType
  <2>2. \A a \in I : h[a] = ModMul(ModMul(colT(b)[a], Pow(x, a)), Pow(y, b))
    BY <1>2, <1>3
  <2> HIDE DEF h, g, u
  <2>3. ModMul(Evaluate(colT(b), x), Pow(y, b)) = FieldSum(h, I)
    BY <1>1, <1>2, <2>2, EvaluateTimes
  <2> QED
    BY <2>1, <2>3 DEF h
<1>7. ASSUME NEW a \in I PROVE f[a] = FieldSum([b \in I |-> m[<<a, b>>]], I)
  <2> DEFINE h == [b \in I |-> m[<<a, b>>]]
  <2>1. f[a] = ModMul(v[a], Pow(x, a)) /\ v[a] = Evaluate(rowT(a), y)
    BY <1>5, TermsType
  <2>2. ASSUME NEW b \in I PROVE h[b] = ModMul(ModMul(rowT(a)[b], Pow(y, b)), Pow(x, a))
    <3>1. h[b] = ModMul(ModMul(T[a][b], Pow(x, a)), Pow(y, b)) /\ rowT(a)[b] = T[a][b]
      BY <1>2, <1>3
    <3> DEFINE t == T[a][b]
               p == Pow(x, a)
               q == Pow(y, b)
    <3>2. t \in Elem /\ p \in Elem /\ q \in Elem
      BY <1>1
    <3> HIDE DEF t, p, q
    <3>3. ModMul(ModMul(t, p), q) = ModMul(t, ModMul(p, q))
      BY <3>2, MulAssociates
    <3>4. ModMul(ModMul(t, q), p) = ModMul(t, ModMul(q, p))
      BY <3>2, MulAssociates
    <3>5. ModMul(p, q) = ModMul(q, p)
      BY <3>2, Commutes
    <3> QED
      BY <3>1, <3>3, <3>4, <3>5 DEF t, p, q
  <2> HIDE DEF h, f, v
  <2>3. ModMul(Evaluate(rowT(a), y), Pow(x, a)) = FieldSum(h, I)
    BY <1>1, <1>2, <2>2, EvaluateTimes
  <2> QED
    BY <2>1, <2>3 DEF h
<1>8. Evaluate(u, y) = FieldSum(g, I) /\ Evaluate(v, x) = FieldSum(f, I)
  BY <1>5, EvaluateIsSum
<1> HIDE DEF u, v, f, g, I
<1>9. FieldSum(f, I) = FieldSum(g, I)
  <2>1. /\ IsFiniteSet(I) /\ m \in [I \X I -> Elem]
        /\ \A a \in I : f[a] = FieldSum([b \in I |-> m[<<a, b>>]], I)
        /\ \A b \in I : g[b] = FieldSum([a \in I |-> m[<<a, b>>]], I)
    BY <1>1, <1>4, <1>6, <1>7
  <2>2. RowsAndColumns(I, I, m, f, g)
    BY <2>1 DEF RowsAndColumns
  <2> QED
    BY <2>1, <2>2, SumsExchange
<1> QED
  BY <1>8, <1>9 DEF u, v, colT, rowT, I

(* The polynomials in X, Y and Z that a dealer may draw.                   *)
Trivariate == [Deg -> [Deg -> [Deg -> Elem]]]

(* What a polynomial takes at X = x, Y = y: the polynomial in Z that the   *)
(* member x finds on its row at y.                                         *)
Crossed(G, x, y) == SpecializeCoefficients(ProjectFixX(G, x), y)

(* The row of x and the column of y that a dealer projects from one        *)
(* polynomial take the same polynomial in Z where they cross: the          *)
(* comparison of Com2 and the checks of Com1 pass for an honest dealer.    *)
THEOREM ProjectionsCross ==
  ASSUME NEW G \in Trivariate, NEW x \in Elem, NEW y \in Elem
  PROVE  Crossed(G, x, y) = SpecializeCoefficients(ProjectFixY(G, y), x)
<1>1. D \in Nat /\ Deg = 0..D
  BY CommitteeAssumption DEF Deg
<1>2. ASSUME NEW z \in Deg
      PROVE  Crossed(G, x, y)[z] = SpecializeCoefficients(ProjectFixY(G, y), x)[z]
  <2> DEFINE T == [a \in 0..D |-> [b \in 0..D |-> G[a][b][z]]]
  <2>1. T \in [0..D -> [0..D -> Elem]] /\ \A a, b \in 0..D : T[a][b] = G[a][b][z]
    BY <1>1 DEF Trivariate
  <2>3. Crossed(G, x, y)[z] = Evaluate([b \in 0..D |-> Evaluate([a \in 0..D |-> T[a][b]], x)], y)
    BY <1>1 DEF Crossed, SpecializeCoefficients, ProjectFixX
  <2>4. SpecializeCoefficients(ProjectFixY(G, y), x)[z]
          = Evaluate([a \in 0..D |-> Evaluate([b \in 0..D |-> T[a][b]], y)], x)
    BY <1>1 DEF SpecializeCoefficients, ProjectFixY
  <2> HIDE DEF T
  <2> QED
    BY <1>1, <2>1, <2>3, <2>4, EvaluateBoth
<1> QED
  BY <1>2 DEF Crossed, SpecializeCoefficients

LEMMA MatricesAgree ==
  ASSUME NEW A \in [Deg -> [Deg -> Elem]], NEW B \in [Deg -> [Deg -> Elem]],
         NEW R \in SUBSET Elem, Cardinality(R) > D,
         \A s \in R : SpecializeCoefficients(A, s) = SpecializeCoefficients(B, s)
  PROVE  A = B
<1>1. D \in Nat /\ Deg = 0..D
  BY CommitteeAssumption DEF Deg
<1>2. IsFiniteSet(R)
  BY ElemFinite
<1>3. ASSUME NEW z \in Deg PROVE \A e \in Deg : A[e][z] = B[e][z]
  <2> DEFINE a == [e \in Deg |-> A[e][z]]
             b == [e \in Deg |-> B[e][z]]
  <2>1. a \in Poly(D) /\ b \in Poly(D)
    BY <1>1 DEF Poly
  <2>2. ASSUME NEW s \in R PROVE Evaluate(a, s) = Evaluate(b, s)
    <3>1. SpecializeCoefficients(A, s)[z] = Evaluate(a, s) /\ SpecializeCoefficients(B, s)[z] = Evaluate(b, s)
      BY DEF SpecializeCoefficients
    <3> QED
      BY <3>1
  <2>3. \A e \in Deg : a[e] = A[e][z] /\ b[e] = B[e][z]
    OBVIOUS
  <2> HIDE DEF a, b
  <2>4. a = b
    BY <1>1, <1>2, <2>1, <2>2, OnePolynomial
  <2> QED
    BY <2>3, <2>4
<1>4. \A e \in Deg : A[e] = B[e]
  <2>1. ASSUME NEW e \in Deg PROVE A[e] = B[e]
    <3>1. A[e] \in [Deg -> Elem] /\ B[e] \in [Deg -> Elem] /\ \A z \in Deg : A[e][z] = B[e][z]
      BY <1>3
    <3> QED
      BY <3>1
  <2> QED
    BY <2>1
<1> QED
  BY <1>4

LEMMA ProjectionType ==
  ASSUME NEW G \in Trivariate, NEW x \in Elem
  PROVE  /\ ProjectFixX(G, x) \in [Deg -> [Deg -> Elem]]
         /\ ProjectFixY(G, x) \in [Deg -> [Deg -> Elem]]
<1>1. D \in Nat /\ Deg = 0..D
  BY CommitteeAssumption DEF Deg
<1>2. ASSUME NEW e \in Deg, NEW z \in Deg
      PROVE  ProjectFixX(G, x)[e][z] \in Elem /\ ProjectFixY(G, x)[e][z] \in Elem
  <2> DEFINE a == [i \in Deg |-> G[i][e][z]]
             b == [i \in Deg |-> G[e][i][z]]
  <2>1. a \in Poly(D) /\ b \in Poly(D)
    BY <1>1 DEF Poly, Trivariate
  <2>2. ProjectFixX(G, x)[e][z] = Evaluate(a, x) /\ ProjectFixY(G, x)[e][z] = Evaluate(b, x)
    BY DEF ProjectFixX, ProjectFixY
  <2> HIDE DEF a, b
  <2> QED
    BY <1>1, <2>1, <2>2, EvaluateIsSum
<1> QED
  BY <1>2 DEF ProjectFixX, ProjectFixY

LEMMA ImageNoLarger ==
  ASSUME NEW R, IsFiniteSet(R), NEW T, NEW f \in [R -> T], \A t \in T : \E y \in R : t = f[y]
  PROVE  Cardinality(T) \in Nat /\ Cardinality(T) <= Cardinality(R)
<1>1. f \in Surjection(R, T)
  BY DEF Surjection
<1>2. IsFiniteSet(T) /\ Cardinality(T) <= Cardinality(R)
  BY <1>1, FS_Surjection
<1> QED
  BY <1>2, FS_CardinalityType

\* Where two polynomials take one polynomial in Z, at the points of the
\* dealer (0) and of the members.
Agreed(G, H) == {p \in (0..N) \X (0..N) : Crossed(G, p[1], p[2]) = Crossed(H, p[1], p[2])}

(* Two polynomials that agree at more than D points of a row or a column   *)
(* of the committee's points agree on all of it: what FDVSS assumes of the *)
(* sets Meets, for every committee, field and pair of polynomials.         *)
THEOREM VersionsMeetInLines ==
  ASSUME NEW G \in Trivariate, NEW H \in Trivariate, NEW k \in 0..N,
         NEW L \in {{k} \X (0..N), (0..N) \X {k}}
  PROVE  L \subseteq Agreed(G, H) \/ Cardinality(L \cap Agreed(G, H)) <= D
<1>1. D \in Nat /\ N \in Nat /\ 0..N \subseteq Elem
  BY CommitteeAssumption, Modulus DEF Elem
<1>2. CASE L = {k} \X (0..N)
  <2> DEFINE A == ProjectFixX(G, k)
             B == ProjectFixX(H, k)
             R == {y \in 0..N : Crossed(G, k, y) = Crossed(H, k, y)}
             f == [y \in R |-> <<k, y>>]
  <2>1. R \in SUBSET Elem /\ IsFiniteSet(R) /\ Cardinality(R) \in Nat
    BY <1>1, ElemFinite
  <2>3. f \in [R -> {f[y] : y \in R}]
    OBVIOUS
  <2> DEFINE T == L \cap Agreed(G, H)
  <2>4. f \in [R -> T] /\ \A t \in T : \E y \in R : t = f[y]
    BY <1>2 DEF Agreed
  <2>5. ASSUME Cardinality(R) > D PROVE L \subseteq Agreed(G, H)
    <3>1. A \in [Deg -> [Deg -> Elem]] /\ B \in [Deg -> [Deg -> Elem]]
      BY <1>1, ProjectionType
    <3>2. \A y \in R : SpecializeCoefficients(A, y) = SpecializeCoefficients(B, y)
      BY DEF Crossed
    <3>3. \A y \in 0..N : Crossed(G, k, y) = SpecializeCoefficients(A, y)
                          /\ Crossed(H, k, y) = SpecializeCoefficients(B, y)
      BY DEF Crossed
    <3> HIDE DEF A, B, R
    <3>4. A = B
      BY <2>1, <2>5, <3>1, <3>2, MatricesAgree
    <3> QED
      BY <1>2, <3>3, <3>4 DEF Agreed
  <2> HIDE DEF R, f, T
  <2>6. Cardinality(T) \in Nat /\ Cardinality(T) <= Cardinality(R)
    BY <2>1, <2>4, ImageNoLarger
  <2> QED
    BY <1>1, <2>1, <2>5, <2>6 DEF T
<1>3. CASE L = (0..N) \X {k}
  <2> DEFINE A == ProjectFixY(G, k)
             B == ProjectFixY(H, k)
             R == {x \in 0..N : Crossed(G, x, k) = Crossed(H, x, k)}
             f == [x \in R |-> <<x, k>>]
  <2>1. R \in SUBSET Elem /\ IsFiniteSet(R) /\ Cardinality(R) \in Nat
    BY <1>1, ElemFinite
  <2>3. f \in [R -> {f[x] : x \in R}]
    OBVIOUS
  <2> DEFINE T == L \cap Agreed(G, H)
  <2>4. f \in [R -> T] /\ \A t \in T : \E x \in R : t = f[x]
    BY <1>3 DEF Agreed
  <2>5. ASSUME Cardinality(R) > D PROVE L \subseteq Agreed(G, H)
    <3>1. A \in [Deg -> [Deg -> Elem]] /\ B \in [Deg -> [Deg -> Elem]]
      BY <1>1, ProjectionType
    <3>3. \A x \in 0..N : Crossed(G, x, k) = SpecializeCoefficients(A, x)
                          /\ Crossed(H, x, k) = SpecializeCoefficients(B, x)
      BY <1>1, ProjectionsCross
    <3>2. \A x \in R : SpecializeCoefficients(A, x) = SpecializeCoefficients(B, x)
      BY <3>3
    <3> HIDE DEF A, B, R
    <3>4. A = B
      BY <2>1, <2>5, <3>1, <3>2, MatricesAgree
    <3> QED
      BY <1>3, <3>3, <3>4 DEF Agreed
  <2> HIDE DEF R, f, T
  <2>6. Cardinality(T) \in Nat /\ Cardinality(T) <= Cardinality(R)
    BY <2>1, <2>4, ImageNoLarger
  <2> QED
    BY <1>1, <2>1, <2>5, <2>6 DEF T
<1> QED
  BY <1>2, <1>3

-----------------------------------------------------------------------------
(* Shamir sharing.                                                         *)

(* A polynomial of degree d takes any values at any d + 1 points.          *)
LEMMA Interpolates ==
  ASSUME NEW d \in Nat, NEW S \in SUBSET Elem, Cardinality(S) = d + 1, NEW v \in [S -> Elem]
  PROVE  \E c \in Poly(d) : \A x \in S : Evaluate(c, x) = v[x]
<1> DEFINE xs == [i \in S |-> i]
           basis(i, z) == FieldProduct(Factors(S, xs, z), S \ {i})
           weight(i) == ModMul(v[i], InverseOf[basis(i, i)])
           L == [z \in Elem |-> FieldSum([i \in S |-> ModMul(weight(i), basis(i, z))], S)]
<1>1. IsFiniteSet(S) /\ \A i \in S : xs[i] = i /\ i \in Elem /\ v[i] \in Elem
  BY ElemFinite
<1>2. \A i \in S : IsFiniteSet(S \ {i}) /\ Cardinality(S \ {i}) = d
  <2>1. \A i \in S : IsFiniteSet(S \ {i}) /\ Cardinality(S \ {i}) = Cardinality(S) - 1
    BY <1>1, FS_RemoveElement
  <2> QED
    BY <2>1
<1>3. ASSUME NEW i \in S, NEW z \in Elem
      PROVE  /\ basis(i, z) \in Elem
             /\ z = i => basis(i, z) # 0
             /\ z \in S /\ z # i => basis(i, z) = 0
  <2> DEFINE k == Factors(S, xs, z)
             T == S \ {i}
  <2>1. \A j \in S : k[j] = ModSub(j, z) /\ k[j] \in Elem
    <3>1. \A j \in S : k[j] = ModSub(j, z)
      BY DEF Factors
    <3> HIDE DEF k
    <3> QED
      BY <1>1, <3>1, Ops
  <2>2. IsFiniteSet(T) /\ T \subseteq S /\ i \notin T /\ \A y \in S : y # i => y \in T
    BY <1>2
  <2> HIDE DEF k, T
  <2>3. FieldProduct(k, T) \in Elem
    BY <2>1, <2>2, ProductUnfolds
  <2>4. ASSUME z = i PROVE FieldProduct(k, T) # 0
    <3>1. ASSUME NEW j \in T PROVE k[j] \in Elem \ {0}
      <4>1. j \in Elem /\ i \in Elem /\ j # i /\ k[j] = ModSub(j, i)
        BY <1>1, <2>1, <2>2, <2>4
      <4> QED
        BY <4>1, Ops, DifferenceZero
    <3>2. FieldProduct(k, T) \in Elem \ {0}
      BY <2>2, <3>1, ProductNotZero
    <3> QED
      BY <3>2
  <2>5. ASSUME z \in S, z # i PROVE FieldProduct(k, T) = 0
    <3>1. z \in T /\ k[z] = 0 /\ \A j \in T : k[j] \in Elem
      BY <1>1, <2>1, <2>2, <2>5, AddZero
    <3> QED
      BY <2>2, <3>1, ProductZero
  <2> QED
    BY <2>3, <2>4, <2>5 DEF k, T
<1> HIDE DEF basis
<1>4. ASSUME NEW i \in S
      PROVE  weight(i) \in Elem /\ ModMul(weight(i), basis(i, i)) = v[i]
  <2> DEFINE b == basis(i, i)
             n == InverseOf[b]
  <2>1. b \in Elem \ {0} /\ v[i] \in Elem
    BY <1>1, <1>3
  <2> HIDE DEF b
  <2>2. n \in Elem /\ ModMul(n, b) = 1
    BY <2>1, InverseExact
  <2> HIDE DEF n
  <2>3. ModMul(v[i], n) \in Elem /\ ModMul(ModMul(v[i], n), b) = ModMul(v[i], ModMul(n, b))
    BY <2>1, <2>2, Ops, MulAssociates
  <2>4. ModMul(v[i], 1) = v[i]
    BY <2>1, MulOne
  <2> QED
    BY <2>2, <2>3, <2>4 DEF b, n
<1> HIDE DEF weight
<1>5. ASSUME NEW k \in S PROVE L[k] = v[k]
  <2> DEFINE f == [i \in S |-> ModMul(weight(i), basis(i, k))]
  <2>1. ASSUME NEW i \in S, i # k PROVE f[i] = 0
    <3>1. f[i] = ModMul(weight(i), basis(i, k)) /\ basis(i, k) = 0 /\ weight(i) \in Elem
      BY <1>1, <1>3, <1>4, <2>1
    <3> HIDE DEF f
    <3> QED
      BY <3>1, MulOne
  <2>2. f[k] = v[k] /\ v[k] \in Elem
    BY <1>1, <1>4
  <2>3. L[k] = FieldSum(f, S)
    BY <1>1
  <2> HIDE DEF f, L
  <2>4. FieldSum(f, S) = f[k]
    BY <1>1, <2>1, <2>2, SumOne
  <2> QED
    BY <2>2, <2>3, <2>4
<1>6. IsPoly(L, d)
  <2> DEFINE f == [i \in S |-> [z \in Elem |-> ModMul(weight(i), basis(i, z))]]
  <2>1. ASSUME NEW i \in S PROVE IsPoly(f[i], d)
    <3> DEFINE b == [z \in Elem |-> basis(i, z)]
               T == S \ {i}
    <3>1. \A z \in Elem : b[z] = FieldProduct(Factors(S, xs, z), T)
      BY DEF basis
    <3>2. \A z \in Elem : f[i][z] = ModMul(weight(i), b[z])
      OBVIOUS
    <3>3. T \in SUBSET S /\ IsFiniteSet(T) /\ Cardinality(T) = d /\ \A j \in S : xs[j] \in Elem
      BY <1>1, <1>2
    <3>5. weight(i) \in Elem
      BY <1>4
    <3> HIDE DEF b, f, xs, T, L
    <3>6. IsPoly(b, Cardinality(T))
      BY <3>1, <3>3, IsPolyProduct
    <3>7. IsPoly(b, d)
      BY <3>3, <3>6
    <3> QED
      BY <3>2, <3>5, <3>7, IsPolyScaled
  <2>2. ASSUME NEW z \in Elem PROVE L[z] = FieldSum([i \in S |-> f[i][z]], S)
    <3>1. [i \in S |-> f[i][z]] = [i \in S |-> ModMul(weight(i), basis(i, z))]
      OBVIOUS
    <3> HIDE DEF f
    <3> QED
      BY <3>1
  <2> HIDE DEF f, L
  <2> QED
    BY <1>1, <2>1, <2>2, IsPolySum
<1> HIDE DEF L
<1>7. PICK c \in Poly(d) : \A z \in Elem : L[z] = Evaluate(c, z)
  BY <1>6 DEF IsPoly
<1> QED
  BY <1>1, <1>5, <1>7

(* Any D shares say nothing of a secret: whatever D receivers hold, each   *)
(* secret has exactly one choice of the coefficients of the powers 1..D    *)
(* that deals them out (sampleCoeffs draws each from the whole field).     *)
THEOREM SharesHideSecret ==
  ASSUME NEW R \in SUBSET Member, Cardinality(R) = D, NEW held \in [R -> Elem], NEW secret \in Elem
  PROVE  \E random \in [1..D -> Elem] :
           /\ \A k \in R : ShareValue(secret, random, k) = held[k]
           /\ \A other \in [1..D -> Elem] :
                (\A k \in R : ShareValue(secret, other, k) = held[k]) => other = random
<1>1. /\ D \in Nat /\ N \in Nat /\ Deg = 0..D /\ 0 \in Elem /\ Member \subseteq Elem /\ 0 \notin Member
      /\ 0 \in 0..D
  BY CommitteeAssumption, Modulus, Units DEF Deg, Elem, Member
<1> DEFINE S == R \cup {0}
           v == [x \in S |-> IF x = 0 THEN secret ELSE held[x]]
<1>2. S \in SUBSET Elem /\ 0 \in S /\ 0 \notin R /\ v \in [S -> Elem] /\ v[0] = secret
      /\ \A k \in R : v[k] = held[k] /\ k \in Elem
  BY <1>1
<1>3. Cardinality(S) = D + 1
  <2>1. IsFiniteSet(R)
    BY <1>1, ElemFinite
  <2> QED
    BY <1>2, <2>1, FS_AddElement
<1> DEFINE dealt(random) == [e \in Deg |-> IF e = 0 THEN secret ELSE random[e]]
<1>4. ASSUME NEW random \in [1..D -> Elem]
      PROVE  /\ dealt(random) \in Poly(D) /\ dealt(random)[0] = secret
             /\ \A e \in 1..D : dealt(random)[e] = random[e]
             /\ \A k \in R : ShareValue(secret, random, k) = Evaluate(dealt(random), k)
  <2>1. \A e \in 0..D : e # 0 => e \in 1..D
    BY <1>1
  <2>2. \A e \in 1..D : e \in 0..D /\ e # 0
    BY <1>1
  <2>3. dealt(random) \in Poly(D)
    BY <1>1, <2>1 DEF Poly
  <2>4. secret % P = secret
    BY ModSmall
  <2> QED
    BY <1>1, <2>2, <2>3, <2>4 DEF ShareValue
<1> HIDE DEF S, v, dealt
<1>5. PICK c \in Poly(D) : \A x \in S : Evaluate(c, x) = v[x]
  BY <1>1, <1>2, <1>3, Interpolates
<1>6. c[0] = secret
  <2>1. Evaluate(c, 0) = c[0]
    BY <1>1, EvaluateAtZero
  <2> QED
    BY <1>2, <1>5, <2>1
<1> DEFINE r == [e \in 1..D |-> c[e]]
<1>7. r \in [1..D -> Elem] /\ \A e \in 1..D : r[e] = c[e]
  BY <1>1 DEF Poly
<1> HIDE DEF r
<1>8. dealt(r) = c
  <2>1. dealt(r) \in Poly(D) /\ dealt(r)[0] = secret /\ \A e \in 1..D : dealt(r)[e] = c[e]
    BY <1>4, <1>7
  <2> DEFINE b == dealt(r)
  <2> HIDE DEF b
  <2>2. \A e \in 0..D : b[e] = c[e]
    <3>1. \A e \in 0..D : e = 0 \/ e \in 1..D
      BY <1>1
    <3> QED
      BY <1>6, <2>1, <3>1 DEF b
  <2>3. b \in [0..D -> Elem] /\ c \in [0..D -> Elem]
    BY <2>1 DEF Poly, b
  <2> DEFINE I == 0..D
  <2>4. (\A e \in I : b[e] = c[e]) /\ b \in [I -> Elem] /\ c \in [I -> Elem]
    BY <2>2, <2>3
  <2> HIDE DEF I
  <2>5. b = c
    BY <2>4
  <2> QED
    BY <2>5 DEF b
<1>9. \A k \in R : ShareValue(secret, r, k) = held[k]
  <2>1. \A k \in R : ShareValue(secret, r, k) = Evaluate(c, k) /\ k \in S
    BY <1>4, <1>7, <1>8 DEF S
  <2> QED
    BY <1>2, <1>5, <2>1
<1>10. ASSUME NEW other \in [1..D -> Elem], \A k \in R : ShareValue(secret, other, k) = held[k]
       PROVE  other = r
  <2> DEFINE b == dealt(other)
  <2>1. /\ b \in Poly(D) /\ b[0] = secret /\ \A e \in 1..D : b[e] = other[e]
        /\ \A k \in R : ShareValue(secret, other, k) = Evaluate(b, k)
    BY <1>4
  <2> HIDE DEF b
  <2>2. Evaluate(b, 0) = b[0]
    BY <1>1, <2>1, EvaluateAtZero
  <2>3. \A x \in S : Evaluate(b, x) = Evaluate(c, x)
    <3>1. \A x \in S : x = 0 \/ x \in R
      BY DEF S
    <3> QED
      BY <1>2, <1>5, <1>10, <2>1, <2>2, <3>1
  <2>4. IsFiniteSet(S) /\ Cardinality(S) > D
    BY <1>1, <1>2, <1>3, ElemFinite
  <2>5. b = c
    BY <1>1, <1>2, <2>1, <2>3, <2>4, OnePolynomial
  <2>6. \A e \in 1..D : other[e] = r[e]
    BY <1>7, <2>1, <2>5
  <2>7. r \in [1..D -> Elem] /\ other \in [1..D -> Elem]
    BY <1>7
  <2> DEFINE I == 1..D
  <2>8. (\A e \in I : other[e] = r[e]) /\ r \in [I -> Elem] /\ other \in [I -> Elem]
    BY <2>6, <2>7
  <2> HIDE DEF I
  <2>9. PICK u : u = other
    OBVIOUS
  <2>10. (\A e \in I : u[e] = r[e]) /\ r \in [I -> Elem] /\ u \in [I -> Elem]
    BY <2>8, <2>9
  <2>11. u = r
    BY <2>10
  <2> QED
    BY <2>9, <2>11
<1> QED
  BY <1>7, <1>9, <1>10
=============================================================================
