--------------------------- MODULE AlgorithmsProofs ---------------------------
(***************************************************************************)
(* The answers of field.go, interpolate.go and msgpack.go.                 *)
(*                                                                         *)
(* For every field, every pair of words and every list of points: the      *)
(* theorems on single functions put together, the powers, and the          *)
(* reference definitions.                                                  *)
(*                                                                         *)
(* For every table of types, every width of words and of varint digits,    *)
(* and every string of bytes: Codec relates what msgpack.go writes of the  *)
(* values of a type, what it reads and the sizes it reports.  Varints have *)
(* it, each kind of type has it when its parts do, and so every place of   *)
(* the table has it, since the parts of a type come before it.             *)
(***************************************************************************)
EXTENDS Algorithms, DecoderProofs, SequenceTheorems

-----------------------------------------------------------------------------
(* Powers.                                                                 *)

LEMMA RaisedUnfolds ==
  ASSUME NEW b \in Elem
  PROVE  /\ RaisedTo(b, 0) = 1
         /\ \A i \in Nat : RaisedTo(b, i) \in Elem /\ RaisedTo(b, i + 1) = ModMul(b, RaisedTo(b, i))
<1> DEFINE value(f, i) == IF i = 0 THEN 1 ELSE (b * f[i - 1]) % P
           power == CHOOSE f : f = [i \in Nat |-> value(f, i)]
           body == [f \in [Nat -> Elem] |-> [i \in Nat |-> value(f, i)]]
           m == [i \in Nat |-> i]
<1>1. \A i : RaisedTo(b, i) = power[i]
  BY DEF RaisedTo
<1>2. ASSUME NEW f \in [Nat -> Elem], NEW i \in Nat
      PROVE  value(f, i) \in Elem /\ (i # 0 => value(f, i) = ModMul(b, f[i - 1]))
  <2>1. CASE i = 0
    BY <2>1, Units
  <2>2. CASE i # 0
    <3>1. f[i - 1] \in Elem
      BY <2>2
    <3> QED
      BY <2>2, <3>1, Ops
  <2> QED
    BY <2>1, <2>2
<1>3. \A f \in [Nat -> Elem] : body[f] \in [Nat -> Elem]
  BY <1>2
<1>4. ASSUME NEW f \in [Nat -> Elem], NEW g \in [Nat -> Elem], NEW i \in Nat,
             \A j \in Nat : m[j] < m[i] => f[j] = g[j]
      PROVE  body[f][i] = body[g][i]
  <2>1. i # 0 => i - 1 \in Nat /\ i - 1 < i
    OBVIOUS
  <2>2. i # 0 => f[i - 1] = g[i - 1]
    BY <1>4, <2>1
  <2> QED
    BY <2>2
<1>5. m \in [Nat -> Nat] /\ Elem # {}
  BY Units
<1>6. \E f \in [Nat -> Elem] : f = body[f]
  <2> HIDE DEF body, m
  <2>1. Contracts(Nat, Elem, body, m)
    BY <1>3, <1>4, <1>5 DEF Contracts
  <2> QED
    BY <2>1, Recursion
<1>7. PICK f \in [Nat -> Elem] : f = [i \in Nat |-> value(f, i)]
  BY <1>6
<1>8. power = [i \in Nat |-> value(power, i)]
  BY <1>7
<1>9. \A i \in Nat : i + 1 # 0 /\ (i + 1) - 1 = i /\ i + 1 \in Nat
  OBVIOUS
<1> HIDE DEF power, body, m
<1>10. power[0] = 1 /\ \A i \in Nat : power[i + 1] = (b * power[i]) % P
  <2>1. \A i \in Nat : power[i] = value(power, i)
    <3> HIDE DEF value
    <3> QED
      BY <1>8
  <2>2. power[0] = 1
    BY <2>1
  <2>3. ASSUME NEW i \in Nat PROVE power[i + 1] = (b * power[i]) % P
    <3>1. power[i + 1] = value(power, i + 1)
      BY <1>9, <2>1
    <3>2. value(power, i + 1) = (b * power[(i + 1) - 1]) % P
      BY <1>9
    <3> HIDE DEF value
    <3> QED
      BY <1>9, <3>1, <3>2
  <2> QED
    BY <2>2, <2>3
<1> DEFINE V == {i \in Nat : power[i] \in Elem}
<1>11. 0 \in V
  BY <1>10, Units
<1>12. ASSUME NEW i \in V PROVE i + 1 \in V
  BY <1>10, Ops
<1>13. V = Nat
  <2> HIDE DEF V
  <2>1. V \in SUBSET Nat
    BY DEF V
  <2> QED
    BY <1>11, <1>12, <2>1, Induct
<1>14. ASSUME NEW i \in Nat PROVE power[i] \in Elem /\ power[i + 1] = ModMul(b, power[i])
  BY <1>10, <1>13, Ops
<1> QED
  BY <1>1, <1>10, <1>14

LEMMA RaisedAdds ==
  ASSUME NEW b \in Elem, NEW i \in Nat, NEW k \in Nat
  PROVE  RaisedTo(b, i + k) = ModMul(RaisedTo(b, i), RaisedTo(b, k))
<1> DEFINE V == {j \in Nat : RaisedTo(b, j + k) = ModMul(RaisedTo(b, j), RaisedTo(b, k))}
<1>1. \A j \in Nat : RaisedTo(b, j) \in Elem /\ RaisedTo(b, j + 1) = ModMul(b, RaisedTo(b, j))
  BY RaisedUnfolds
<1>2. 0 \in V
  <2>1. RaisedTo(b, 0) = 1 /\ RaisedTo(b, k) \in Elem /\ 0 + k = k
    BY RaisedUnfolds
  <2> QED
    BY <2>1, MulOne
<1>3. ASSUME NEW j \in V PROVE j + 1 \in V
  <2>1. (j + 1) + k = (j + k) + 1 /\ j + k \in Nat /\ j + 1 \in Nat
    OBVIOUS
  <2>2. RaisedTo(b, (j + k) + 1) = ModMul(b, ModMul(RaisedTo(b, j), RaisedTo(b, k)))
    BY <1>1, <2>1
  <2>3. ModMul(ModMul(b, RaisedTo(b, j)), RaisedTo(b, k)) = ModMul(b, ModMul(RaisedTo(b, j), RaisedTo(b, k)))
    BY <1>1, MulAssociates
  <2>4. RaisedTo(b, j + 1) = ModMul(b, RaisedTo(b, j))
    BY <1>1
  <2> QED
    BY <2>1, <2>2, <2>3, <2>4
<1>4. V = Nat
  <2> HIDE DEF V
  <2>1. V \in SUBSET Nat
    BY DEF V
  <2> QED
    BY <1>2, <1>3, <2>1, Induct
<1> QED
  BY <1>4

LEMMA RaisedSquare ==
  ASSUME NEW b \in Elem, NEW i \in Nat
  PROVE  RaisedTo(ModMul(b, b), i) = RaisedTo(b, i + i)
<1> DEFINE s == ModMul(b, b)
           V == {j \in Nat : RaisedTo(s, j) = RaisedTo(b, j + j)}
<1>1. s \in Elem
  BY Ops
<1>2. \A j \in Nat : RaisedTo(b, j) \in Elem /\ RaisedTo(b, j + 1) = ModMul(b, RaisedTo(b, j))
  BY RaisedUnfolds
<1> HIDE DEF s
<1>3. RaisedTo(s, 0) = 1 /\ \A j \in Nat : RaisedTo(s, j + 1) = ModMul(s, RaisedTo(s, j))
  BY <1>1, RaisedUnfolds
<1>4. 0 \in V
  BY <1>3, RaisedUnfolds
<1>5. ASSUME NEW j \in V PROVE j + 1 \in V
  <2>1. /\ (j + 1) + (j + 1) = ((j + j) + 1) + 1
        /\ j + j \in Nat /\ (j + j) + 1 \in Nat
    OBVIOUS
  <2>2. RaisedTo(b, ((j + j) + 1) + 1) = ModMul(b, ModMul(b, RaisedTo(b, j + j)))
    BY <1>2, <2>1
  <2>3. ModMul(ModMul(b, b), RaisedTo(b, j + j)) = ModMul(b, ModMul(b, RaisedTo(b, j + j)))
    BY <1>2, <2>1, MulAssociates
  <2>4. RaisedTo(s, j + 1) = ModMul(s, RaisedTo(b, j + j))
    BY <1>3
  <2> QED
    BY <2>1, <2>2, <2>3, <2>4 DEF s
<1>6. V = Nat
  <2> HIDE DEF V
  <2>1. V \in SUBSET Nat
    BY DEF V
  <2> QED
    BY <1>4, <1>5, <2>1, Induct
<1> QED
  BY <1>6 DEF s

PowStep(x) ==
  <<ModMul(x[1], x[1]), x[2] \div 2, IF x[2] % 2 = 1 THEN ModMul(x[3], x[1]) ELSE x[3]>>

LEMMA PowStepSmaller ==
  ASSUME NEW x \in PowState, x[2] # 0
  PROVE  PowStep(x) \in PowState /\ PowStep(x)[2] < x[2]
<1>1. x[1] \in Elem /\ x[2] \in Nat /\ x[3] \in Elem
  BY DEF PowState
<1>2. ModMul(x[1], x[1]) \in Elem /\ ModMul(x[3], x[1]) \in Elem
  BY <1>1, Ops
<1>3. x[2] \div 2 \in Nat /\ x[2] \div 2 < x[2]
  BY <1>1
<1> QED
  BY <1>1, <1>2, <1>3 DEF PowState, PowStep

LEMMA PowersUnfolds ==
  ASSUME NEW x \in PowState
  PROVE  /\ x[2] = 0 => Powers[x] = x[3]
         /\ x[2] # 0 => Powers[x] = Powers[PowStep(x)]
<1> DEFINE value(f, y) == IF y[2] = 0 THEN y[3] ELSE f[PowStep(y)]
           body == [f \in [PowState -> Elem] |-> [y \in PowState |-> value(f, y)]]
           m == [y \in PowState |-> y[2]]
<1>1. m \in [PowState -> Nat] /\ Elem # {}
  BY Units DEF PowState
<1>2. ASSUME NEW f \in [PowState -> Elem], NEW y \in PowState
      PROVE  value(f, y) \in Elem
  <2>1. y[3] \in Elem
    BY DEF PowState
  <2>2. y[2] # 0 => PowStep(y) \in PowState
    BY PowStepSmaller
  <2> QED
    BY <2>1, <2>2
<1>3. \A f \in [PowState -> Elem] : body[f] \in [PowState -> Elem]
  BY <1>2
<1>4. ASSUME NEW f \in [PowState -> Elem], NEW g \in [PowState -> Elem], NEW y \in PowState,
             \A z \in PowState : m[z] < m[y] => f[z] = g[z]
      PROVE  body[f][y] = body[g][y]
  <2>1. CASE y[2] = 0
    BY <2>1
  <2>2. CASE y[2] # 0
    <3>1. PowStep(y) \in PowState /\ m[PowStep(y)] < m[y]
      BY <2>2, PowStepSmaller
    <3>2. f[PowStep(y)] = g[PowStep(y)]
      BY <1>4, <3>1
    <3> QED
      BY <2>2, <3>2
  <2> QED
    BY <2>1, <2>2
<1>5. \E f \in [PowState -> Elem] : f = body[f]
  <2> HIDE DEF body, m
  <2>1. Contracts(PowState, Elem, body, m)
    BY <1>1, <1>3, <1>4 DEF Contracts
  <2> QED
    BY <2>1, Recursion
<1>6. \E f : f = [y \in PowState |-> value(f, y)]
  BY <1>5
<1>7. Powers = CHOOSE f : f = [y \in PowState |-> value(f, y)]
  BY DEF Powers, PowStep
<1>8. Powers = [y \in PowState |-> value(Powers, y)]
  BY <1>6, <1>7
<1> QED
  BY <1>8

(* One round of ModPow's loop keeps the result times the power that is     *)
(* left.                                                                   *)
LEMMA PowStepKeeps ==
  ASSUME NEW x \in PowState, x[2] # 0
  PROVE  LET y == PowStep(x)
         IN  ModMul(y[3], RaisedTo(y[1], y[2])) = ModMul(x[3], RaisedTo(x[1], x[2]))
<1> DEFINE b == x[1]
           r == x[3]
           k == x[2] \div 2
<1>1. b \in Elem /\ r \in Elem /\ x[2] \in Nat /\ k \in Nat /\ k + k \in Nat
  BY DEF PowState
<1>2. RaisedTo(ModMul(b, b), k) = RaisedTo(b, k + k) /\ RaisedTo(b, k + k) \in Elem
  BY <1>1, RaisedSquare, RaisedUnfolds
<1>3. CASE x[2] % 2 = 1
  <2>1. x[2] = (k + k) + 1
    BY <1>1, <1>3
  <2>2. RaisedTo(b, (k + k) + 1) = ModMul(b, RaisedTo(b, k + k))
    BY <1>1, RaisedUnfolds
  <2>3. PowStep(x)[3] = ModMul(r, b) /\ PowStep(x)[2] = k /\ PowStep(x)[1] = ModMul(b, b)
    BY <1>3 DEF PowStep
  <2>4. ModMul(ModMul(r, b), RaisedTo(b, k + k)) = ModMul(r, ModMul(b, RaisedTo(b, k + k)))
    BY <1>1, <1>2, MulAssociates
  <2> QED
    BY <1>2, <2>1, <2>2, <2>3, <2>4
<1>4. CASE x[2] % 2 # 1
  <2> DEFINE n == x[2]
  <2>0. \A i \in Nat : i % 2 \in {0, 1} /\ i = 2 * (i \div 2) + (i % 2)
    OBVIOUS
  <2>1. n % 2 \in {0, 1} /\ n = 2 * k + (n % 2)
    BY <1>1, <2>0
  <2> HIDE DEF k
  <2>3. x[2] = k + k
    BY <1>1, <1>4, <2>1
  <2>2. PowStep(x)[3] = r /\ PowStep(x)[2] = k /\ PowStep(x)[1] = ModMul(b, b)
    BY <1>4 DEF PowStep, k
  <2> QED
    BY <1>2, <2>2, <2>3
<1> QED
  BY <1>3, <1>4

LEMMA PowersRaise ==
  ASSUME NEW x \in PowState
  PROVE  Powers[x] = ModMul(x[3], RaisedTo(x[1], x[2]))
<1> DEFINE Good(y) == Powers[y] = ModMul(y[3], RaisedTo(y[1], y[2]))
           V == {n \in Nat : \A y \in PowState : y[2] <= n => Good(y)}
<1>1. 0 \in V
  <2>1. ASSUME NEW y \in PowState, y[2] <= 0 PROVE Good(y)
    <3>1. y[1] \in Elem /\ y[3] \in Elem /\ y[2] = 0
      BY <2>1 DEF PowState
    <3>2. RaisedTo(y[1], 0) = 1 /\ Powers[y] = y[3]
      BY <3>1, RaisedUnfolds, PowersUnfolds
    <3> QED
      BY <3>1, <3>2, MulOne
  <2> QED
    BY <2>1
<1>2. ASSUME NEW n \in V PROVE n + 1 \in V
  <2>1. ASSUME NEW y \in PowState, y[2] <= n + 1 PROVE Good(y)
    <3>1. y[2] \in Nat /\ n \in Nat
      BY DEF PowState
    <3>2. CASE y[2] <= n
      BY <3>2
    <3>3. CASE y[2] # 0
      <4>1. PowStep(y) \in PowState /\ PowStep(y)[2] < y[2]
        BY <3>3, PowStepSmaller
      <4>2. PowStep(y)[2] \in Nat
        BY <4>1 DEF PowState
      <4>3. Good(PowStep(y))
        <5>1. PowStep(y)[2] <= n
          BY <2>1, <3>1, <4>1, <4>2
        <5> HIDE DEF Good
        <5> QED
          BY <4>1, <5>1
      <4>4. Powers[y] = Powers[PowStep(y)]
        BY <3>3, PowersUnfolds
      <4>5. ModMul(PowStep(y)[3], RaisedTo(PowStep(y)[1], PowStep(y)[2]))
              = ModMul(y[3], RaisedTo(y[1], y[2]))
        BY <3>3, PowStepKeeps
      <4> QED
        BY <4>3, <4>4, <4>5
    <3> QED
      BY <3>1, <3>2, <3>3
  <2> QED
    BY <2>1
<1>3. V = Nat
  <2> HIDE DEF V
  <2>1. V \in SUBSET Nat
    BY DEF V
  <2> QED
    BY <1>1, <1>2, <2>1, Induct
<1>4. x[2] \in V /\ x[2] <= x[2]
  BY <1>3 DEF PowState
<1> QED
  BY <1>4

(* ModPow computes the power of a residue.                                 *)
THEOREM PowExact ==
  ASSUME NEW a \in Nat, NEW n \in Nat
  PROVE  ModPow(a, n) = RaisedTo(a % P, n)
<1> DEFINE x == <<a % P, n, 1>>
<1>1. a % P \in Elem /\ x \in PowState
  BY Reduced, Units DEF PowState
<1>2. RaisedTo(a % P, n) \in Elem
  BY <1>1, RaisedUnfolds
<1>3. Powers[x] = ModMul(x[3], RaisedTo(x[1], x[2]))
  <2> HIDE DEF x
  <2> QED
    BY <1>1, PowersRaise
<1> QED
  BY <1>2, <1>3, MulOne DEF ModPow
-----------------------------------------------------------------------------
(* Inverses and quotients on words, and signed numbers.                    *)

LEMMA InverseSolves ==
  ASSUME NEW a \in Elem
  PROVE  ModInv(a) = {v \in Elem : ModMul(v, a) = 1}
<1>1. CASE a = 0
  <2>1. ModInv(a) = {}
    BY <1>1, ModSmall DEF ModInv
  <2>2. \A v \in Elem : ModMul(v, a) = 0
    BY <1>1, MulOne
  <2> QED
    BY <2>1, <2>2
<1>2. CASE a # 0
  <2>1. PICK w \in Elem : ModInv(a) = {w} /\ ModMul(w, a) = 1
    BY <1>2, InvExact
  <2>2. ASSUME NEW v \in Elem, ModMul(v, a) = 1 PROVE v = w
    <3>1. ModMul(ModMul(v, a), w) = ModMul(v, ModMul(a, w)) /\ ModMul(a, w) = 1
      BY <2>1, MulAssociates, Commutes
    <3> QED
      BY <2>1, <2>2, <3>1, MulOne
  <2> QED
    BY <2>1, <2>2
<1> QED
  BY <1>1, <1>2

LEMMA QuotientSolves ==
  ASSUME NEW a \in Elem, NEW b \in Elem
  PROVE  {ModMul(a, v) : v \in ModInv(b)} = {v \in Elem : b # 0 /\ ModMul(v, b) = a}
<1>1. CASE b = 0
  <2>1. ModInv(b) = {}
    BY <1>1, ModSmall DEF ModInv
  <2> QED
    BY <1>1, <2>1
<1>2. CASE b # 0
  <2>1. PICK w \in Elem : ModInv(b) = {w} /\ ModMul(w, b) = 1
    BY <1>2, InvExact
  <2>2. ModMul(a, w) \in Elem /\ ModMul(b, w) = 1
    BY <2>1, Ops, Commutes
  <2>3. ModMul(ModMul(a, w), b) = a
    BY <2>1, MulAssociates, MulOne
  <2>4. ASSUME NEW v \in Elem, ModMul(v, b) = a PROVE v = ModMul(a, w)
    <3>1. ModMul(ModMul(v, b), w) = ModMul(v, ModMul(b, w))
      BY <2>1, MulAssociates
    <3> QED
      BY <2>2, <2>4, <3>1, MulOne
  <2> QED
    BY <1>2, <2>1, <2>2, <2>3, <2>4
<1> QED
  BY <1>1, <1>2

LEMMA WordsReduced ==
  ASSUME NEW a \in Nat
  PROVE  a % P \in Elem /\ (a % P) % P = a % P /\ ModInv(a) = ModInv(a % P)
<1>1. a % P \in Elem
  BY Reduced
<1>2. (a % P) % P = a % P
  BY <1>1, ModSmall
<1> QED
  BY <1>1, <1>2 DEF ModInv

(* Uint64FromInt keeps the residue of a negative number as well.           *)
LEMMA FromIntExact ==
  ASSUME NEW v \in Int
  PROVE  Uint64FromInt(v) \in 0..P /\ Uint64FromInt(v) % P = v % P
<1>1. CASE v < 0
  <2> DEFINE r == (-v) % P
             q == (-v) \div P
             u == P - r
  <2>1. r \in Elem /\ q \in Int /\ -v = r + q * P
    BY ModQuotient
  <2>2. P \in Nat /\ r \in 0..(P - 1)
    BY <2>1, Modulus DEF Elem
  <2>3. Uint64FromInt(v) = u
    BY <1>1 DEF Uint64FromInt
  <2> HIDE DEF r, q
  <2>4. u \in 0..P /\ u \in Int /\ q + 1 \in Int
    BY <2>1, <2>2
  <2>5. u = v + (q + 1) * P
    <3>1. (q + 1) * P = q * P + P /\ q * P \in Int
      BY <2>1, <2>2
    <3> QED
      BY <2>1, <2>2, <3>1
  <2> HIDE DEF u
  <2> QED
    BY <2>3, <2>4, <2>5, ModSame
<1>2. CASE ~(v < 0)
  <2>1. Uint64FromInt(v) = v % P
    BY <1>2 DEF Uint64FromInt
  <2>2. v % P \in Elem
    BY Reduced
  <2> QED
    BY <2>1, <2>2, ModSmall, Modulus DEF Elem
<1> QED
  BY <1>1, <1>2

FieldRight(a, b, r) ==
  /\ r.add = ((a % P) + (b % P)) % P /\ r.sub = ((a % P) - (b % P)) % P
  /\ r.mul = ((a % P) * (b % P)) % P
  /\ r.inv = {v \in Elem : (v * (a % P)) % P = 1}
  /\ r.div = {v \in Elem : b % P # 0 /\ (v * (b % P)) % P = a % P}
  /\ r.pow = RaisedTo(a % P, b)
  /\ r.fromInt \in 0..P /\ r.fromInt % P = AsInt(a) % P
  /\ r.fromUint = b % P

LEMMA FieldAnswerRight ==
  ASSUME NEW a \in Uint, NEW b \in Uint
  PROVE  FieldRight(a, b, FieldAnswer(a, b))
<1> DEFINE r == FieldAnswer(a, b)
           x == a % P
           y == b % P
<1>1. a \in Nat /\ b \in Nat /\ AsInt(a) \in Int
  BY Modulus DEF Uint, AsInt
<1>2. x \in Elem /\ y \in Elem /\ x % P = x /\ y % P = y /\ ModInv(a) = ModInv(x) /\ ModInv(b) = ModInv(y)
  BY <1>1, WordsReduced
<1>3. /\ r.add = ModAdd(a, b) /\ r.sub = ModSub(a, b) /\ r.mul = ModMul(a, b)
      /\ r.inv = ModInv(a) /\ r.div = ModDiv(a, b) /\ r.pow = ModPow(a, b)
      /\ r.fromInt = Uint64FromInt(AsInt(a)) /\ r.fromUint = b % P
  BY DEF FieldAnswer, Uint64FromUint64
<1>4. ModAdd(a, b) = ModAdd(x, y) /\ ModSub(a, b) = ModSub(x, y) /\ ModMul(a, b) = ModMul(x, y)
  BY <1>2 DEF ModAdd, ModSub, ModMul
<1>5. ModDiv(a, b) = {ModMul(x, v) : v \in ModInv(y)}
  <2>1. \A v \in ModInv(b) : ModMul(a, v) = ModMul(x, v)
    BY <1>2 DEF ModMul
  <2> QED
    BY <1>2, <2>1 DEF ModDiv
<1>6. ModPow(a, b) = RaisedTo(x, b)
  BY <1>1, PowExact
<1>7. Uint64FromInt(AsInt(a)) \in 0..P /\ Uint64FromInt(AsInt(a)) % P = AsInt(a) % P
  BY <1>1, FromIntExact
<1> HIDE DEF r, x, y
<1>8. ModAdd(x, y) = (x + y) % P /\ ModSub(x, y) = (x - y) % P /\ ModMul(x, y) = (x * y) % P
  BY <1>2, Ops
<1>9. \A v \in Elem : ModMul(v, x) = (v * x) % P /\ ModMul(v, y) = (v * y) % P
  BY <1>2, Ops
<1>10. ModInv(x) = {v \in Elem : (v * x) % P = 1}
  BY <1>2, <1>9, InverseSolves
<1>11. {ModMul(x, v) : v \in ModInv(y)} = {v \in Elem : y # 0 /\ (v * y) % P = x}
  BY <1>2, <1>9, QuotientSolves
<1>12. /\ r.add = (x + y) % P /\ r.sub = (x - y) % P /\ r.mul = (x * y) % P
       /\ r.inv = {v \in Elem : (v * x) % P = 1}
       /\ r.div = {v \in Elem : y # 0 /\ (v * y) % P = x}
       /\ r.pow = RaisedTo(x, b)
       /\ r.fromInt \in 0..P /\ r.fromInt % P = AsInt(a) % P
       /\ r.fromUint = b % P
  <2>1. r.add = (x + y) % P /\ r.sub = (x - y) % P
    BY <1>3, <1>4, <1>8
  <2>2. r.mul = (x * y) % P
    BY <1>3, <1>4, <1>8
  <2>3. r.inv = {v \in Elem : (v * x) % P = 1}
    BY <1>2, <1>3, <1>10
  <2>4. r.div = {v \in Elem : y # 0 /\ (v * y) % P = x}
    BY <1>3, <1>5, <1>11
  <2>5. /\ r.pow = RaisedTo(x, b) /\ r.fromUint = b % P
        /\ r.fromInt \in 0..P /\ r.fromInt % P = AsInt(a) % P
    BY <1>3, <1>6, <1>7
  <2> QED
    BY <2>1, <2>2, <2>3, <2>4, <2>5
<1> QED
  BY <1>12 DEF FieldRight, r, x, y

-----------------------------------------------------------------------------
(* The reference decoder.                                                  *)

LEMMA ValueUnfolds ==
  ASSUME NEW d \in Nat, NEW c \in Poly(d), NEW x \in Elem
  PROVE  \E h : /\ ValueAt(c, d, x) = h[d] /\ h[0] = c[d]
                /\ \A i \in 0..(d - 1) : h[i + 1] = (c[d - (i + 1)] + x * h[i]) % P
<1> DEFINE Dom == 0..d
           value(f, i) == IF i = 0 THEN c[d] ELSE (c[d - i] + x * f[i - 1]) % P
           h == CHOOSE f : f = [i \in Dom |-> value(f, i)]
           body == [f \in [Dom -> Int] |-> [i \in Dom |-> value(f, i)]]
           m == [i \in Dom |-> i]
<1>1. ValueAt(c, d, x) = h[d]
  BY DEF ValueAt
<1>2. x \in Int /\ \A i \in 0..d : c[i] \in Int
  <2>1. c \in [0..d -> Elem]
    BY DEF Poly
  <2> QED
    BY <2>1, Units
<1>3. ASSUME NEW i \in Dom
      PROVE  i \in Nat /\ d - i \in 0..d /\ (i # 0 => i - 1 \in Dom /\ i - 1 < i)
  OBVIOUS
<1>4. ASSUME NEW f \in [Dom -> Int], NEW i \in Dom PROVE value(f, i) \in Int
  <2>1. CASE i = 0
    BY <1>2, <2>1
  <2>2. CASE i # 0
    <3>1. f[i - 1] \in Int /\ c[d - i] \in Int
      BY <1>2, <1>3, <2>2
    <3>2. x * f[i - 1] \in Int
      BY <1>2, <3>1
    <3>3. c[d - i] + x * f[i - 1] \in Int
      BY <3>1, <3>2
    <3>4. (c[d - i] + x * f[i - 1]) % P \in Elem
      <4> DEFINE v == c[d - i] + x * f[i - 1]
      <4>1. v \in Int
        BY <3>3
      <4> HIDE DEF v
      <4>2. v % P \in Elem
        BY <4>1, Reduced
      <4> QED
        BY <4>2 DEF v
    <3>5. value(f, i) = (c[d - i] + x * f[i - 1]) % P
      BY <2>2
    <3> QED
      BY <3>4, <3>5, Units
  <2> QED
    BY <2>1, <2>2
<1>5. \A f \in [Dom -> Int] : body[f] \in [Dom -> Int]
  BY <1>4
<1>6. ASSUME NEW f \in [Dom -> Int], NEW g \in [Dom -> Int], NEW i \in Dom,
             \A j \in Dom : m[j] < m[i] => f[j] = g[j]
      PROVE  body[f][i] = body[g][i]
  <2>1. i # 0 => f[i - 1] = g[i - 1]
    BY <1>3, <1>6
  <2>2. value(f, i) = value(g, i)
    BY <2>1
  <2> HIDE DEF value
  <2> QED
    BY <2>2
<1>7. m \in [Dom -> Nat] /\ Int # {}
  BY <1>3
<1>8. \E f \in [Dom -> Int] : f = body[f]
  <2> HIDE DEF body, m, Dom
  <2>1. Contracts(Dom, Int, body, m)
    BY <1>5, <1>6, <1>7 DEF Contracts
  <2> QED
    BY <2>1, Recursion
<1>9. \E f : f = [i \in Dom |-> value(f, i)]
  BY <1>8
<1>10. h = [i \in Dom |-> value(h, i)]
  BY <1>9
<1> HIDE DEF h, body, m
<1>11. \A i \in Dom : h[i] = value(h, i)
  <2> HIDE DEF value
  <2> QED
    BY <1>10
<1>12. h[0] = c[d]
  BY <1>11
<1>13. ASSUME NEW i \in 0..(d - 1) PROVE h[i + 1] = (c[d - (i + 1)] + x * h[i]) % P
  <2>1. i + 1 \in Dom /\ i + 1 # 0 /\ (i + 1) - 1 = i
    OBVIOUS
  <2>2. h[i + 1] = value(h, i + 1)
    BY <1>11, <2>1
  <2>3. value(h, i + 1) = (c[d - (i + 1)] + x * h[(i + 1) - 1]) % P
    BY <2>1
  <2> HIDE DEF value
  <2> QED
    BY <2>1, <2>2, <2>3
<1> QED
  BY <1>1, <1>12, <1>13

(* Horner's rule in the integers and the code's sum of powers agree.       *)
LEMMA ValueIsEvaluate ==
  ASSUME NEW d \in Nat, NEW c \in Poly(d), NEW x \in Elem
  PROVE  ValueAt(c, d, x) = Evaluate(c, x)
<1>1. PICK h : /\ ValueAt(c, d, x) = h[d] /\ h[0] = c[d]
               /\ \A i \in 0..(d - 1) : h[i + 1] = (c[d - (i + 1)] + x * h[i]) % P
  BY ValueUnfolds
<1> DEFINE tail(i) == [j \in 0..i |-> c[(d - i) + j]]
           G == {i \in 0..d : h[i] = Evaluate(tail(i), x)}
<1>2. ASSUME NEW i \in 0..d
      PROVE  tail(i) \in Poly(i) /\ i \in Nat /\ \A j \in 0..i : tail(i)[j] = c[(d - i) + j]
  <2>1. \A j \in 0..i : (d - i) + j \in 0..d
    OBVIOUS
  <2> QED
    BY <2>1 DEF Poly
<1>3. 0 \in G
  <2>1. 0 \in 0..d /\ (d - 0) + 0 = d /\ 0 \in 0..0
    OBVIOUS
  <2>2. tail(0) \in Poly(0) /\ tail(0)[0] = c[d]
    BY <1>2, <2>1
  <2> HIDE DEF tail
  <2> QED
    BY <1>1, <2>1, <2>2, EvaluateConstant
<1>4. ASSUME NEW k \in 0..(d - 1), k \in G PROVE k + 1 \in G
  <2>1. k \in 0..d /\ k + 1 \in 0..d /\ k \in Nat
    OBVIOUS
  <2>2. /\ tail(k) \in Poly(k) /\ tail(k + 1) \in Poly(k + 1)
        /\ \A j \in 0..k : tail(k)[j] = c[(d - k) + j]
        /\ \A j \in 0..(k + 1) : tail(k + 1)[j] = c[(d - (k + 1)) + j]
    BY <1>2, <2>1
  <2> DEFINE s == c[d - (k + 1)]
             low == WithLow(s, tail(k))
  <2>3. s \in Elem
    <3>1. d - (k + 1) \in 0..d
      OBVIOUS
    <3> QED
      BY <3>1 DEF Poly
  <2>4. h[k] = Evaluate(tail(k), x)
    BY <1>4
  <2> HIDE DEF tail, s
  <2>5. low \in Poly(k + 1) /\ low[0] = s /\ \A i \in 0..k : low[i + 1] = tail(k)[i]
    BY <2>1, <2>2, <2>3, WithLowType
  <2>6. Evaluate(low, x) = ModAdd(s, ModMul(x, Evaluate(tail(k), x)))
    BY <2>1, <2>2, <2>3, EvaluateWithLow
  <2> HIDE DEF low
  <2>7. tail(k + 1) = low
    <3>1. ASSUME NEW j \in 0..(k + 1) PROVE tail(k + 1)[j] = low[j]
      <4>1. CASE j = 0
        <5>1. (d - (k + 1)) + 0 = d - (k + 1)
          OBVIOUS
        <5> QED
          BY <2>2, <2>5, <4>1, <5>1 DEF s
      <4>2. CASE j # 0
        <5>1. j - 1 \in 0..k /\ (j - 1) + 1 = j /\ (d - k) + (j - 1) = (d - (k + 1)) + j
          BY <4>2
        <5> QED
          BY <2>2, <2>5, <5>1
      <4> QED
        BY <4>1, <4>2
    <3> QED
      BY <2>2, <2>5, <3>1 DEF Poly
  <2>8. Evaluate(tail(k), x) \in Elem
    BY <2>1, <2>2, EvaluateIsSum
  <2> DEFINE v == Evaluate(tail(k), x)
  <2>9. ModAdd(s, ModMul(x, v)) = (s + x * v) % P
    <3>1. v \in Elem /\ v \in Int /\ x \in Int /\ s \in Int
      BY <2>3, <2>8, Units
    <3> HIDE DEF v
    <3>2. ModMul(x, v) = (x * v) % P /\ ModMul(x, v) \in Elem
      BY <3>1, Ops
    <3>3. ModAdd(s, ModMul(x, v)) = (s + ModMul(x, v)) % P
      BY <2>3, <3>2, Ops
    <3> DEFINE u == x * v
    <3>4. u \in Int
      BY <3>1
    <3> HIDE DEF u
    <3>5. (s + (u % P)) % P = (s + u) % P
      BY <3>1, <3>4, ModInner
    <3> QED
      BY <3>2, <3>3, <3>5 DEF u
  <2>10. h[k + 1] = (s + x * v) % P
    BY <1>1, <2>4 DEF s
  <2> QED
    BY <2>1, <2>6, <2>7, <2>9, <2>10
<1>5. \A k \in 0..d : k \in G
  <2> HIDE DEF G
  <2> QED
    BY <1>3, <1>4, InductTo
<1>6. h[d] = Evaluate(tail(d), x)
  BY <1>5
<1>7. tail(d) = c
  <2>1. \A j \in 0..d : (d - d) + j = j
    OBVIOUS
  <2> QED
    BY <2>1 DEF Poly
<1> QED
  BY <1>1, <1>6, <1>7
LEMMA CodewordsNear ==
  ASSUME NEW n \in Nat, NEW points \in [1..n -> Elem \X Elem], NEW d \in Nat
  PROVE  Codewords(points, d) = Nearby(points, d)
<1>1. DOMAIN points = 1..n /\ \A k \in 1..n : points[k][1] \in Elem
  BY SMT
<1>2. ASSUME NEW c \in Poly(d)
      PROVE  {k \in DOMAIN points : ValueAt(c, d, points[k][1]) # points[k][2]} = Wrong(points, c)
  <2>1. \A k \in 1..n : ValueAt(c, d, points[k][1]) = Evaluate(c, points[k][1])
    BY <1>1, ValueIsEvaluate
  <2> QED
    BY <1>1, <2>1 DEF Wrong, Agreeing
<1>3. Poly(d) = [0..d -> Elem]
  BY DEF Poly
<1>4. Codewords(points, d)
        = {c \in Poly(d) : 2 * Cardinality({k \in DOMAIN points :
                                  ValueAt(c, d, points[k][1]) # points[k][2]}) + d < Len(points)}
  BY <1>3 DEF Codewords
<1> QED
  BY <1>2, <1>4 DEF Nearby

LEMMA MisplacedPoints ==
  ASSUME NEW n \in Nat, NEW points \in [1..n -> Elem \X Elem], NEW strict \in BOOLEAN
  PROVE  ~Misplaced(points, strict)
           <=> IF strict THEN Increasing(points) ELSE Distinct(points)
<1>1. DOMAIN points = 1..n /\ Len(points) = n
  OBVIOUS
<1>2. \A k \in 1..n : points[k][1] \in Int
  BY Units
<1>3. CASE strict
  <2>1. \A k \in 2..n : k \in 1..n /\ k - 1 \in 1..n
    OBVIOUS
  <2>2. \A k \in 2..n : ~(points[k][1] <= points[k - 1][1]) <=> points[k - 1][1] < points[k][1]
    BY <1>2, <2>1
  <2> QED
    BY <1>1, <1>3, <2>2 DEF Misplaced, Increasing
<1>4. CASE ~strict
  BY <1>1, <1>4 DEF Misplaced, Distinct
<1> QED
  BY <1>3, <1>4

LEMMA AtMostOneMember ==
  ASSUME NEW S, \A u, v \in S : u = v
  PROVE  Cardinality(S) <= 1
<1>1. CASE S = {}
  <2>1. Cardinality(S) = 0
    BY <1>1, FS_EmptySet
  <2> QED
    BY <2>1
<1>2. CASE S # {}
  <2>1. PICK u \in S : TRUE
    BY <1>2
  <2>2. S = {u}
    BY <2>1
  <2>3. Cardinality({u}) = 1
    BY FS_Singleton
  <2> QED
    BY <2>2, <2>3
<1> QED
  BY <1>1, <1>2

DecoderRight(points, d, strict, r) ==
  LET meant == {c[0] : c \in Codewords(points, d)} IN
  /\ Cardinality(r.value) <= 1
  /\ r.value = (IF IF strict THEN Increasing(points) ELSE Distinct(points) THEN meant ELSE {})
  /\ r.exported = (IF Distinct(points) THEN meant ELSE {})

LEMMA DecoderAnswerRight ==
  ASSUME NEW points \in Seq(Elem \X Elem), NEW d \in Nat, NEW strict \in BOOLEAN
  PROVE  DecoderRight(points, d, strict, DecoderAnswer(points, d, strict))
<1> DEFINE n == Len(points)
           r == DecoderAnswer(points, d, strict)
           meant == {c[0] : c \in Codewords(points, d)}
           no == FALSE
<1>1. n \in Nat /\ points \in [1..n -> Elem \X Elem] /\ DOMAIN points = 1..n
  OBVIOUS
<1>2. r.value = Decode(points, d, strict) /\ r.exported = ReconstructPolynomialValueAtZero(points, d)
  BY DEF DecoderAnswer
<1>3. no \in BOOLEAN /\ ~no
  OBVIOUS
<1> HIDE DEF n, r, no
<1>4. meant = {c[0] : c \in Nearby(points, d)}
  BY <1>1, CodewordsNear
<1> HIDE DEF meant
<1>5. ASSUME NEW s \in BOOLEAN
      PROVE  Decode(points, d, s) = (IF ~Misplaced(points, s) THEN meant ELSE {})
  BY <1>1, <1>4, DecodeMeans
<1>6. Decode(points, d, strict)
        = (IF IF strict THEN Increasing(points) ELSE Distinct(points) THEN meant ELSE {})
  BY <1>1, <1>5, MisplacedPoints
<1>7. Decode(points, d, no) = (IF Distinct(points) THEN meant ELSE {})
  <2>1. ~Misplaced(points, no) <=> Distinct(points)
    BY <1>1, <1>3, MisplacedPoints
  <2> QED
    BY <1>3, <1>5, <2>1
<1>8. ReconstructPolynomialValueAtZero(points, d) = (IF Distinct(points) THEN meant ELSE {})
  <2> DEFINE reduced == [k \in DOMAIN points |-> <<points[k][1] % P, points[k][2] % P>>]
  <2>1. reduced = points
    <3>1. ASSUME NEW k \in 1..n PROVE points[k] = <<points[k][1] % P, points[k][2] % P>>
      <4>1. points[k] \in Elem \X Elem
        BY <1>1
      <4>2. points[k][1] \in Elem /\ points[k][2] \in Elem /\ points[k] = <<points[k][1], points[k][2]>>
        BY <4>1
      <4> QED
        BY <4>2, ModSmall
    <3> QED
      BY <1>1, <3>1
  <2> HIDE DEF reduced
  <2>2. ReconstructPolynomialValueAtZero(points, d) = (IF n <= d THEN {} ELSE Decode(reduced, d, no))
    BY DEF ReconstructPolynomialValueAtZero, reduced, n, no
  <2>3. CASE n <= d
    <3>1. ASSUME NEW c \in Nearby(points, d) PROVE FALSE
      <4>1. Wrong(points, c) \subseteq 1..n /\ IsFiniteSet(1..n)
        BY <1>1, FS_Interval DEF Wrong
      <4>2. Cardinality(Wrong(points, c)) \in Nat
        BY <4>1, FS_Subset, FS_CardinalityType
      <4>3. 2 * Cardinality(Wrong(points, c)) + d < n
        BY DEF Nearby, n
      <4> QED
        BY <1>1, <2>3, <4>2, <4>3
    <3>2. meant = {}
      BY <1>4, <3>1
    <3> QED
      BY <2>2, <2>3, <3>2
  <2>4. CASE ~(n <= d)
    BY <1>7, <2>1, <2>2, <2>4
  <2> QED
    BY <2>3, <2>4
<1>9. Cardinality(Decode(points, d, strict)) <= 1
  BY <1>1, DecodeMeans, AtMostOneMember
<1>10. /\ Cardinality(r.value) <= 1
       /\ r.value = (IF IF strict THEN Increasing(points) ELSE Distinct(points) THEN meant ELSE {})
       /\ r.exported = (IF Distinct(points) THEN meant ELSE {})
  BY <1>2, <1>6, <1>8, <1>9
<1> QED
  BY <1>10 DEF DecoderRight, meant, r

-----------------------------------------------------------------------------
(* Varints. The digits of a number, and the recursive functions of the     *)
(* encoding, unfolded.                                                     *)

(* Numbers in digits.                                                      *)

LEMMA Digits ==
  ASSUME NEW x \in Nat
  PROVE  /\ x \div Half \in Nat /\ x % Half \in Nat /\ x % Half < Half
         /\ x = Half * (x \div Half) + (x % Half)
         /\ x >= Half => x \div Half < x
<1>1. Half \in Nat /\ Half >= 2
  BY VarintAssumption
<1>2. \A a, b \in Nat : b > 0 => /\ a \div b \in Nat /\ a % b \in 0..(b - 1)
                                 /\ a = b * (a \div b) + (a % b)
  OBVIOUS
<1> DEFINE q == x \div Half
           r == x % Half
<1>3. q \in Nat /\ r \in Nat /\ r < Half /\ x = Half * q + r
  BY <1>1, <1>2
<1> HIDE DEF q, r
<1>4. ASSUME x >= Half PROVE q < x
  <2>1. q # 0
    BY <1>1, <1>3, <1>4
  <2> DEFINE h == Half * q
  <2>2. h \in Nat /\ h >= 2 * q
    BY <1>1, <1>3
  <2>3. x = h + r
    BY <1>3
  <2> HIDE DEF h
  <2> QED
    BY <1>3, <2>1, <2>2, <2>3
<1> QED
  BY <1>3, <1>4 DEF q, r

(* The digit and the rest of a number made of them.                        *)
LEMMA DigitsBack ==
  ASSUME NEW q \in Nat, NEW r \in Nat, r < Half
  PROVE  /\ r + Half * q \in Nat /\ (r + Half * q) \div Half = q /\ (r + Half * q) % Half = r
         /\ r + Half * q < Half => q = 0
         /\ r + Half * q >= Half => q # 0
<1>1. Half \in Nat /\ Half >= 2
  BY VarintAssumption
<1> DEFINE x == r + Half * q
<1>2. x \in Nat
  BY <1>1
<1>3. q # 0 => Half * q >= Half
  BY <1>1
<1>4. q = 0 => Half * q = 0
  BY <1>1
<1>5. x \div Half \in Nat /\ x % Half \in Nat /\ x % Half < Half
      /\ x = Half * (x \div Half) + (x % Half)
  BY <1>2, Digits
<1> DEFINE a == x \div Half
           b == x % Half
<1>6. a \in Nat /\ b \in Nat /\ b < Half /\ r + Half * q = Half * a + b
  BY <1>5
<1> HIDE DEF a, b
<1>7. a = q
  <2>1. ASSUME NEW u \in Nat, NEW v \in Nat, u < v PROVE Half * u + Half <= Half * v
    <3>1. v - u \in Nat /\ v - u >= 1
      BY <2>1
    <3>2. Half * (v - u) >= Half
      BY <1>1, <3>1
    <3>3. Half * (v - u) = Half * v - Half * u /\ Half * v \in Nat /\ Half * u \in Nat
      BY <1>1, <2>1
    <3> QED
      BY <1>1, <3>2, <3>3
  <2>2. Half * a \in Nat /\ Half * q \in Nat
    BY <1>1, <1>6
  <2>3. ~(a < q)
    BY <1>1, <1>6, <2>1, <2>2
  <2>4. ~(q < a)
    BY <1>1, <1>6, <2>1, <2>2
  <2> QED
    BY <1>6, <2>3, <2>4
<1>8. b = r
  BY <1>1, <1>6, <1>7
<1> QED
  BY <1>1, <1>2, <1>3, <1>4, <1>7, <1>8 DEF a, b

LEMMA UvarintLenUnfolds ==
  ASSUME NEW x \in Nat
  PROVE  /\ UvarintLen[x] \in Nat
         /\ x < Half => UvarintLen[x] = 1
         /\ x >= Half => UvarintLen[x] = 1 + UvarintLen[x \div Half]
<1> DEFINE Rng == Nat
           value(f, y) == IF y < Half THEN 1 ELSE 1 + f[y \div Half]
           body == [f \in [Nat -> Rng] |-> [y \in Nat |-> value(f, y)]]
           m == [y \in Nat |-> y]
<1>0. Half \in Nat
  BY VarintAssumption
<1>1. \A y \in Nat : y \div Half \in Nat /\ (~(y < Half) => y \div Half < y)
  BY <1>0, Digits
<1>2. \A f \in [Nat -> Rng] : body[f] \in [Nat -> Rng]
  <2>1. ASSUME NEW f \in [Nat -> Rng], NEW y \in Nat PROVE value(f, y) \in Nat
    <3>1. f[y \div Half] \in Nat
      BY <1>1
    <3> QED
      BY <3>1
  <2> QED
    BY <2>1
<1>3. ASSUME NEW f \in [Nat -> Rng], NEW g \in [Nat -> Rng], NEW y \in Nat,
             \A z \in Nat : m[z] < m[y] => f[z] = g[z]
      PROVE  body[f][y] = body[g][y]
  <2>1. ~(y < Half) => f[y \div Half] = g[y \div Half]
    BY <1>1, <1>3
  <2> QED
    BY <2>1
<1>4. \E f \in [Nat -> Rng] : f = body[f]
  <2>1. m \in [Nat -> Nat] /\ Rng # {}
    OBVIOUS
  <2> HIDE DEF body, m, Rng
  <2>2. Contracts(Nat, Rng, body, m)
    BY <1>2, <1>3, <2>1 DEF Contracts
  <2> QED
    BY <2>2, Recursion
<1>5. PICK f \in [Nat -> Rng] : f = [y \in Nat |-> value(f, y)]
  BY <1>4
<1>6. UvarintLen = CHOOSE h : h = [y \in Nat |-> value(h, y)]
  BY DEF UvarintLen
<1>7. UvarintLen = [y \in Nat |-> value(UvarintLen, y)]
  BY <1>5, <1>6
<1> DEFINE V == {n \in Nat : \A y \in Nat : y <= n => UvarintLen[y] \in Nat}
<1> HIDE DEF body, m
<1>8. \A y \in Nat : UvarintLen[y] = value(UvarintLen, y)
  <2> HIDE DEF value
  <2> QED
    BY <1>7
<1>9. 0 \in V
  <2>1. 0 < Half
    BY VarintAssumption
  <2> QED
    BY <1>8, <2>1
<1>10. ASSUME NEW n \in V PROVE n + 1 \in V
  <2>1. ASSUME NEW y \in Nat, y <= n + 1 PROVE UvarintLen[y] \in Nat
    <3>1. n \in Nat /\ \A z \in Nat : z <= n => UvarintLen[z] \in Nat
      OBVIOUS
    <3>2. ~(y < Half) => y \div Half \in Nat /\ y \div Half <= n
      BY <1>1, <2>1, <3>1
    <3> QED
      BY <1>8, <3>1, <3>2
  <2> QED
    BY <2>1
<1>11. V = Nat
  <2>1. V \in SUBSET Nat
    OBVIOUS
  <2> HIDE DEF V
  <2> QED
    BY <1>9, <1>10, <2>1, Induct
<1>12. UvarintLen[x] \in Nat
  <2>1. x \in V /\ x <= x
    <3> HIDE DEF V
    <3> QED
      BY <1>11
  <2> QED
    BY <2>1
<1> QED
  BY <1>0, <1>8, <1>12

LEMMA AppendUvarintUnfolds ==
  ASSUME NEW x \in Nat
  PROVE  /\ AppendUvarint[x] \in Seq(Byte)
         /\ x < Half => AppendUvarint[x] = <<x>>
         /\ x >= Half => AppendUvarint[x] = <<(x % Half) + Half>> \o AppendUvarint[x \div Half]
<1> DEFINE Rng == Seq(Byte)
           value(f, y) == IF y < Half THEN <<y>> ELSE <<(y % Half) + Half>> \o f[y \div Half]
           body == [f \in [Nat -> Rng] |-> [y \in Nat |-> value(f, y)]]
           m == [y \in Nat |-> y]
<1>0. Half \in Nat /\ Half >= 2
  BY VarintAssumption
<1>1. \A y \in Nat : y \div Half \in Nat /\ (~(y < Half) => y \div Half < y)
  BY <1>0, Digits
<1>2. ASSUME NEW f, NEW y \in Nat, ~(y < Half) => f[y \div Half] \in Rng
      PROVE  value(f, y) \in Rng
  <2>1. (y % Half) + Half \in Byte
    BY <1>0, Digits DEF Byte
  <2>2. y < Half => y \in Byte
    BY <1>0 DEF Byte
  <2> HIDE DEF Rng
  <2>3. CASE y < Half
    BY <2>2, <2>3 DEF Rng
  <2>4. CASE ~(y < Half)
    <3>1. <<(y % Half) + Half>> \in Seq(Byte) /\ f[y \div Half] \in Seq(Byte)
      BY <1>2, <2>1, <2>4 DEF Rng
    <3>2. <<(y % Half) + Half>> \o f[y \div Half] \in Seq(Byte)
      BY <3>1, ConcatProperties
    <3> QED
      BY <2>4, <3>2 DEF Rng
  <2> QED
    BY <2>3, <2>4
<1>3. \A f \in [Nat -> Rng] : body[f] \in [Nat -> Rng]
  <2>1. \A f \in [Nat -> Rng], y \in Nat : f[y \div Half] \in Rng
    BY <1>1
  <2>2. \A f \in [Nat -> Rng], y \in Nat : value(f, y) \in Rng
    <3> HIDE DEF value, Rng
    <3> QED
      BY <1>2, <2>1
  <2> HIDE DEF value, Rng
  <2> QED
    BY <2>2
<1>4. ASSUME NEW f \in [Nat -> Rng], NEW g \in [Nat -> Rng], NEW y \in Nat,
             \A z \in Nat : m[z] < m[y] => f[z] = g[z]
      PROVE  body[f][y] = body[g][y]
  <2>1. ~(y < Half) => f[y \div Half] = g[y \div Half]
    BY <1>1, <1>4
  <2> QED
    BY <2>1
<1>5. \E f \in [Nat -> Rng] : f = body[f]
  <2>1. m \in [Nat -> Nat] /\ Rng # {}
    <3>1. <<>> \in Rng
      OBVIOUS
    <3> QED
      BY <3>1
  <2> HIDE DEF body, m, Rng
  <2>2. Contracts(Nat, Rng, body, m)
    BY <1>3, <1>4, <2>1 DEF Contracts
  <2> QED
    BY <2>2, Recursion
<1>6. PICK f \in [Nat -> Rng] : f = [y \in Nat |-> value(f, y)]
  BY <1>5
<1>7. AppendUvarint = CHOOSE h : h = [y \in Nat |-> value(h, y)]
  BY DEF AppendUvarint
<1>8. AppendUvarint = [y \in Nat |-> value(AppendUvarint, y)]
  BY <1>6, <1>7
<1> DEFINE V == {n \in Nat : \A y \in Nat : y <= n => AppendUvarint[y] \in Rng}
<1> HIDE DEF body, m
<1>9. \A y \in Nat : AppendUvarint[y] = value(AppendUvarint, y)
  <2> HIDE DEF value
  <2> QED
    BY <1>8
<1>10. 0 \in V
  <2>1. 0 < Half
    BY <1>0
  <2>2. value(AppendUvarint, 0) \in Rng
    BY <1>2, <2>1
  <2> HIDE DEF value, Rng
  <2> QED
    BY <1>9, <2>2
<1>11. ASSUME NEW n \in V PROVE n + 1 \in V
  <2>1. ASSUME NEW y \in Nat, y <= n + 1 PROVE AppendUvarint[y] \in Rng
    <3>1. n \in Nat /\ \A z \in Nat : z <= n => AppendUvarint[z] \in Rng
      OBVIOUS
    <3> HIDE DEF V
    <3>2. ~(y < Half) => y \div Half \in Nat /\ y \div Half <= n
      BY <1>1, <2>1, <3>1
    <3>3. value(AppendUvarint, y) \in Rng
      <4> HIDE DEF value, Rng
      <4> QED
        BY <1>2, <3>1, <3>2
    <3> HIDE DEF value, Rng
    <3> QED
      BY <1>9, <3>3
  <2> QED
    BY <2>1
<1>12. V = Nat
  <2>1. V \in SUBSET Nat
    OBVIOUS
  <2> HIDE DEF V
  <2> QED
    BY <1>10, <1>11, <2>1, Induct
<1>13. AppendUvarint[x] \in Seq(Byte)
  <2> HIDE DEF V
  <2>1. x \in V /\ x <= x
    BY <1>12
  <2> QED
    BY <2>1 DEF V
<1>14. AppendUvarint[x] = value(AppendUvarint, x)
  BY <1>9
<1>15. x < Half => AppendUvarint[x] = <<x>>
  BY <1>14
<1>16. x >= Half => AppendUvarint[x] = <<(x % Half) + Half>> \o AppendUvarint[x \div Half]
  <2>1. x >= Half => ~(x < Half)
    BY <1>0
  <2> QED
    BY <1>14, <2>1
<1> QED
  BY <1>13, <1>15, <1>16

LEMMA CapacityUnfolds ==
  /\ Capacity[1] = 2
  /\ \A k \in Nat : k >= 1 => Capacity[k] \in Nat /\ Capacity[k] >= 2
                              /\ Capacity[k + 1] = Half * Capacity[k]
<1> DEFINE Rng == Nat
           value(f, y) == IF y <= 1 THEN 2 ELSE Half * f[y - 1]
           body == [f \in [Nat -> Rng] |-> [y \in Nat |-> value(f, y)]]
           m == [y \in Nat |-> y]
<1>0. Half \in Nat /\ Half >= 2
  BY VarintAssumption
<1>1. \A y \in Nat : ~(y <= 1) => y - 1 \in Nat /\ y - 1 < y
  OBVIOUS
<1>2. \A f \in [Nat -> Rng] : body[f] \in [Nat -> Rng]
  <2>1. ASSUME NEW f \in [Nat -> Rng], NEW y \in Nat PROVE value(f, y) \in Rng
    <3>1. ~(y <= 1) => f[y - 1] \in Nat
      BY <1>1
    <3> QED
      BY <1>0, <3>1
  <2> QED
    BY <2>1
<1>3. ASSUME NEW f \in [Nat -> Rng], NEW g \in [Nat -> Rng], NEW y \in Nat,
             \A z \in Nat : m[z] < m[y] => f[z] = g[z]
      PROVE  body[f][y] = body[g][y]
  <2>1. ~(y <= 1) => f[y - 1] = g[y - 1]
    BY <1>1, <1>3
  <2> QED
    BY <2>1
<1>4. \E f \in [Nat -> Rng] : f = body[f]
  <2>1. m \in [Nat -> Nat] /\ Rng # {}
    OBVIOUS
  <2> HIDE DEF body, m, Rng
  <2>2. Contracts(Nat, Rng, body, m)
    BY <1>2, <1>3, <2>1 DEF Contracts
  <2> QED
    BY <2>2, Recursion
<1>5. PICK f \in [Nat -> Rng] : f = [y \in Nat |-> value(f, y)]
  BY <1>4
<1>6. Capacity = CHOOSE h : h = [y \in Nat |-> value(h, y)]
  BY DEF Capacity
<1>7. Capacity = [y \in Nat |-> value(Capacity, y)]
  BY <1>5, <1>6
<1> HIDE DEF body, m
<1>8. \A y \in Nat : Capacity[y] = value(Capacity, y)
  <2> HIDE DEF value
  <2> QED
    BY <1>7
<1>9. Capacity[1] = 2 /\ Capacity[0] = 2
  BY <1>8
<1>10. \A k \in Nat : k >= 1 => Capacity[k + 1] = Half * Capacity[k]
  <2>1. ASSUME NEW k \in Nat, k >= 1 PROVE Capacity[k + 1] = Half * Capacity[k]
    <3>1. k + 1 \in Nat /\ ~(k + 1 <= 1) /\ (k + 1) - 1 = k
      BY <2>1
    <3>2. Capacity[k + 1] = value(Capacity, k + 1)
      <4> HIDE DEF value
      <4> QED
        BY <1>8, <3>1
    <3> QED
      BY <3>1, <3>2
  <2> QED
    BY <2>1
<1> DEFINE V == {n \in Nat : Capacity[n] \in Nat /\ Capacity[n] >= 2}
<1>11. 0 \in V
  BY <1>9
<1>12. ASSUME NEW n \in V PROVE n + 1 \in V
  <2>1. CASE n = 0
    BY <1>9, <2>1
  <2>2. CASE n # 0
    <3>1. n \in Nat /\ n >= 1 /\ Capacity[n] \in Nat /\ Capacity[n] >= 2
      BY <2>2
    <3>2. Capacity[n + 1] = Half * Capacity[n]
      BY <1>10, <3>1
    <3> DEFINE c == Capacity[n]
    <3> HIDE DEF c
    <3>3. ASSUME NEW a \in Nat, a >= 2 PROVE Half * a \in Nat /\ Half * a >= 2
      BY <1>0, <3>3
    <3> QED
      BY <3>1, <3>2, <3>3
  <2> QED
    BY <2>1, <2>2
<1>13. V = Nat
  <2>1. V \in SUBSET Nat
    OBVIOUS
  <2> HIDE DEF V
  <2> QED
    BY <1>11, <1>12, <2>1, Induct
<1> QED
  BY <1>9, <1>10, <1>13

-----------------------------------------------------------------------------
(* Bytes.                                                                  *)

(* Messages, and what follows them.                                        *)
Data == Seq(Byte)

LEMMA DataConcat ==
  ASSUME NEW a \in Data, NEW b \in Data
  PROVE  /\ a \o b \in Data /\ Len(a \o b) = Len(a) + Len(b) /\ Len(a) \in Nat /\ Len(b) \in Nat
         /\ <<>> \in Data /\ a \o <<>> = a /\ <<>> \o a = a /\ Len(<<>>) = 0
BY ConcatProperties, ConcatEmptySeq, EmptySeq, LenProperties DEF Data

LEMMA DataAssociates ==
  ASSUME NEW a \in Data, NEW b \in Data, NEW c \in Data
  PROVE  (a \o b) \o c = a \o (b \o c)
BY ConcatAssociative DEF Data

LEMMA DataCons ==
  ASSUME NEW b \in Byte, NEW d \in Data
  PROVE  /\ <<b>> \in Data /\ <<b>> \o d \in Data /\ <<b>> \o d # <<>> /\ (<<b>> \o d)[1] = b
         /\ Tail(<<b>> \o d) = d /\ Len(<<b>> \o d) = 1 + Len(d) /\ Len(<<b>>) = 1
<1>1. <<b>> \in Data /\ Len(<<b>>) = 1 /\ d \in Seq(Byte) /\ <<b>> \in Seq(Byte)
  BY DEF Data
<1> DEFINE e == <<b>> \o d
<1>2. e \in Seq(Byte) /\ Len(e) = 1 + Len(d) /\ Len(d) \in Nat
  BY <1>1, ConcatProperties
<1>3. \A i \in 1..(1 + Len(d)) : e[i] = IF i <= 1 THEN <<b>>[i] ELSE d[i - 1]
  BY <1>1, ConcatProperties
<1> HIDE DEF e
<1>4. e # <<>> /\ e[1] = b
  <2>1. 1 \in 1..(1 + Len(d)) /\ Len(<<>>) = 0
    BY <1>2
  <2> QED
    BY <1>2, <1>3, <2>1
<1>5. Tail(e) = d
  <2>1. Tail(e) \in Seq(Byte) /\ Len(Tail(e)) = Len(d)
        /\ \A i \in 1..Len(Tail(e)) : Tail(e)[i] = e[i + 1]
    BY <1>2, <1>4, HeadTailProperties
  <2>2. ASSUME NEW i \in 1..Len(d) PROVE Tail(e)[i] = d[i]
    <3>1. i + 1 \in 1..(1 + Len(d)) /\ ~(i + 1 <= 1) /\ (i + 1) - 1 = i
      BY <1>2
    <3> QED
      BY <1>3, <2>1, <3>1
  <2> QED
    BY <1>1, <2>1, <2>2, SeqEqual
<1> QED
  BY <1>1, <1>2, <1>4, <1>5 DEF e, Data

LEMMA DataUncons ==
  ASSUME NEW d \in Data, d # <<>>
  PROVE  d[1] \in Byte /\ Tail(d) \in Data /\ d = <<d[1]>> \o Tail(d)
<1>1. d \in Seq(Byte) /\ Len(d) \in Nat /\ Len(d) # 0
  <2>1. Len(d) \in Nat \ {0}
    BY EmptySeq DEF Data
  <2> QED
    BY <2>1 DEF Data
<1>2. d[1] \in Byte /\ Tail(d) \in Data
  <2>1. 1 \in 1..Len(d)
    BY <1>1
  <2> QED
    BY <1>1, <2>1, ElementOfSeq, HeadTailProperties DEF Data
<1>3. d = <<d[1]>> \o Tail(d)
  <2> DEFINE b == d[1]
             t == Tail(d)
             e == <<b>> \o t
  <2>1. Len(t) = Len(d) - 1 /\ \A i \in 1..Len(t) : t[i] = d[i + 1]
    BY <1>1, HeadTailProperties
  <2>2. b \in Byte /\ t \in Data
    BY <1>2
  <2> HIDE DEF b, t
  <2>3. e \in Data /\ e # <<>> /\ e[1] = b /\ Tail(e) = t /\ Len(e) = 1 + Len(t)
    BY <2>2, DataCons
  <2> HIDE DEF e
  <2>4. e \in Seq(Byte) /\ Len(e) = Len(d)
    BY <1>1, <2>1, <2>3 DEF Data
  <2>5. \A i \in 1..Len(t) : t[i] = e[i + 1]
    BY <2>3, <2>4, HeadTailProperties
  <2>6. ASSUME NEW i \in 1..Len(d) PROVE d[i] = e[i]
    <3>1. CASE i = 1
      BY <2>3, <3>1 DEF b
    <3>2. CASE i # 1
      <4>1. i - 1 \in 1..Len(t) /\ (i - 1) + 1 = i
        BY <1>1, <2>1, <3>2
      <4> QED
        BY <2>1, <2>5, <4>1
    <3> QED
      BY <3>1, <3>2
  <2>7. d = e
    BY <1>1, <2>4, <2>6, SeqEqual
  <2> QED
    BY <2>7 DEF e, b, t
<1> QED
  BY <1>2, <1>3

LEMMA ConsAssociates ==
  ASSUME NEW b \in Byte, NEW d \in Data, NEW more \in Data
  PROVE  (<<b>> \o d) \o more = <<b>> \o (d \o more) /\ d \o more \in Data
<1> DEFINE c == <<b>>
<1>1. c \in Data
  BY DataCons
<1> HIDE DEF c
<1>2. (c \o d) \o more = c \o (d \o more)
  BY <1>1, DataAssociates
<1>3. d \o more \in Data
  BY DataConcat
<1> QED
  BY <1>2, <1>3 DEF c

-----------------------------------------------------------------------------
(* What it means that values are written and read back: Codec, the one     *)
(* property that is shown of every type.                                   *)

(* Each of these encodings of v has l bytes and is read back by dec,       *)
(* whatever follows.                                                       *)
Written(encs, dec, v, l) ==
  /\ encs \in SUBSET Data /\ encs # {} /\ l \in Nat
  /\ \A e \in encs : Len(e) = l /\ \A d \in Data : dec[e \o d] = {<<v, d>>}

(* enc writes each value of V to bytes that dec reads back, in the number  *)
(* of bytes that size says.                                                *)
Writes(V, enc, dec, size) == \A v \in V : Written(enc[v], dec, v, size[v])

(* What dec reads is one value of V and bytes left over, from bytes enough *)
(* to write the value, and it does not look at what follows.               *)
Reads(V, dec, size) ==
  \A data \in Data : \A r \in dec[data] :
    /\ r \in V \X Data /\ dec[data] = {r} /\ size[r[1]] + Len(r[2]) <= Len(data)
    /\ \A more \in Data : dec[data \o more] = {<<r[1], r[2] \o more>>}

Typed(V, dec) == \A d \in Data : dec[d] \in SUBSET (V \X Data)
Sized(V, size) == \A v \in V : size[v] \in Nat
Encoded(V, enc) == \A v \in V : enc[v] \in SUBSET Data

Codec(V, enc, dec, size) == Writes(V, enc, dec, size) /\ Reads(V, dec, size)

-----------------------------------------------------------------------------
(* Varints.                                                                *)

LEMMA UvarintUnfolds ==
  ASSUME NEW k \in 1..MaxLen
  PROVE  /\ Uvarint[k][<<>>] = {}
         /\ \A b \in Byte, d \in Data :
              Uvarint[k][<<b>> \o d] =
                IF k = 1 /\ b > 1 THEN {}
                ELSE IF b < Half THEN {<<b, d>>}
                ELSE {<<(b % Half) + Half * r[1], r[2]>> : r \in Uvarint[k - 1][d]}
<1> DEFINE Rng == [Data -> SUBSET (Nat \X Data)]
           Dom == 1..MaxLen
           step(f, y, b, t) ==
             IF y = 1 /\ b > 1 THEN {} ELSE IF b < Half THEN {<<b, t>>}
             ELSE {<<(b % Half) + Half * r[1], r[2]>> : r \in f[y - 1][t]}
           value(f, y) ==
             [data \in Data |->
                IF data = <<>> \/ (y = 1 /\ data[1] > 1) THEN {}
                ELSE IF data[1] < Half THEN {<<data[1], Tail(data)>>}
                ELSE {<<(data[1] % Half) + Half * r[1], r[2]>> : r \in f[y - 1][Tail(data)]}]
           body == [f \in [Dom -> Rng] |-> [y \in Dom |-> value(f, y)]]
           m == [y \in Dom |-> y]
<1>0. Half \in Nat /\ Half >= 2 /\ MaxLen \in Nat
  BY VarintAssumption
<1>1. \A y \in Dom : y # 1 => y - 1 \in Dom /\ y - 1 < y
  BY <1>0
<1>2. \A f, y : value(f, y) = [data \in Data |-> IF data = <<>> THEN {} ELSE step(f, y, data[1], Tail(data))]
  OBVIOUS
<1> HIDE DEF value
<1>3. ASSUME NEW f \in [Dom -> Rng], NEW y \in Dom, NEW b \in Byte, NEW d \in Data
      PROVE  step(f, y, b, d) \in SUBSET (Nat \X Data)
  <2>1. b \in Nat /\ b % Half \in Nat
    <3>1. b \in Nat
      BY <1>0 DEF Byte
    <3> QED
      BY <3>1, Digits
  <2>2. ASSUME y # 1, NEW r \in f[y - 1][d] PROVE <<(b % Half) + Half * r[1], r[2]>> \in Nat \X Data
    <3>1. f[y - 1] \in Rng
      BY <1>1, <2>2
    <3>2. f[y - 1][d] \in SUBSET (Nat \X Data)
      BY <3>1
    <3>3. r[1] \in Nat /\ r[2] \in Data
      BY <2>2, <3>2
    <3>4. Half * r[1] \in Nat
      BY <1>0, <3>3
    <3> QED
      BY <2>1, <3>3, <3>4
  <2>3. y # 1 => {<<(b % Half) + Half * r[1], r[2]>> : r \in f[y - 1][d]} \in SUBSET (Nat \X Data)
    BY <2>2
  <2>4. b < Half => {<<b, d>>} \in SUBSET (Nat \X Data)
    BY <2>1
  <2>5. y = 1 /\ ~(b < Half) => b > 1
    BY <1>0, <2>1
  <2> QED
    BY <2>3, <2>4, <2>5
<1> HIDE DEF step
<1>4. ASSUME NEW f \in [Dom -> Rng], NEW y \in Dom PROVE value(f, y) \in Rng
  <2>1. ASSUME NEW data \in Data
        PROVE  (IF data = <<>> THEN {} ELSE step(f, y, data[1], Tail(data))) \in SUBSET (Nat \X Data)
    <3>1. CASE data = <<>>
      BY <3>1
    <3>2. CASE data # <<>>
      <4>1. data[1] \in Byte /\ Tail(data) \in Data
        BY <3>2, DataUncons
      <4>2. step(f, y, data[1], Tail(data)) \in SUBSET (Nat \X Data)
        BY <1>3, <4>1
      <4> QED
        BY <3>2, <4>2
    <3> QED
      BY <3>1, <3>2
  <2> QED
    BY <1>2, <2>1
<1>5. \A f \in [Dom -> Rng] : body[f] \in [Dom -> Rng]
  <2> HIDE DEF Rng, Dom
  <2> QED
    BY <1>4
<1>6. ASSUME NEW f \in [Dom -> Rng], NEW g \in [Dom -> Rng], NEW y \in Dom,
             \A z \in Dom : m[z] < m[y] => f[z] = g[z]
      PROVE  body[f][y] = body[g][y]
  <2>1. y # 1 => f[y - 1] = g[y - 1]
    BY <1>1, <1>6
  <2>2. ASSUME NEW b \in Byte, NEW d \in Data PROVE step(f, y, b, d) = step(g, y, b, d)
    <3>1. b \in Nat
      BY <1>0 DEF Byte
    <3>2. y = 1 => b > 1 \/ b < Half
      BY <1>0, <3>1
    <3> QED
      BY <2>1, <3>2 DEF step
  <2>3. value(f, y) = value(g, y)
    <3>1. ASSUME NEW data \in Data, data # <<>>
          PROVE  step(f, y, data[1], Tail(data)) = step(g, y, data[1], Tail(data))
      BY <2>2, <3>1, DataUncons
    <3> QED
      BY <1>2, <3>1
  <2> HIDE DEF Rng
  <2> QED
    BY <2>3
<1>7. \E f \in [Dom -> Rng] : f = body[f]
  <2>1. m \in [Dom -> Nat]
    BY <1>0
  <2>2. Rng # {}
    <3>1. [data \in Data |-> {}] \in Rng
      OBVIOUS
    <3> QED
      BY <3>1
  <2> HIDE DEF body, m, Rng, Dom
  <2>3. Contracts(Dom, Rng, body, m)
    BY <1>5, <1>6, <2>1, <2>2 DEF Contracts
  <2> QED
    BY <2>3, Recursion
<1>8. \E f : f = [y \in Dom |-> value(f, y)]
  <2> HIDE DEF Rng, Dom
  <2> QED
    BY <1>7
<1>9. Uvarint = CHOOSE h : h = [y \in Dom |-> value(h, y)]
  BY DEF Uvarint, Data, value
<1>10. Uvarint = [y \in Dom |-> value(Uvarint, y)]
  <2> HIDE DEF Rng, Dom
  <2> QED
    BY <1>8, <1>9
<1> HIDE DEF body, m
<1>11. Uvarint[k] = value(Uvarint, k)
  BY <1>10
<1>12. \A data \in Data :
         Uvarint[k][data] = IF data = <<>> THEN {} ELSE step(Uvarint, k, data[1], Tail(data))
  BY <1>2, <1>11
<1>13. <<>> \in Data
  BY DEF Data
<1>14. ASSUME NEW b \in Byte, NEW d \in Data
       PROVE  Uvarint[k][<<b>> \o d] = step(Uvarint, k, b, d)
  <2> DEFINE c == <<b>> \o d
  <2>1. c \in Data /\ c # <<>> /\ c[1] = b /\ Tail(c) = d
    BY DataCons
  <2> HIDE DEF c
  <2>2. Uvarint[k][c] = step(Uvarint, k, c[1], Tail(c))
    BY <1>12, <2>1
  <2> QED
    BY <2>1, <2>2 DEF c
<1> QED
  BY <1>12, <1>13, <1>14 DEF step

(* What appendUvarint writes, as a set of encodings.                       *)
VarintWritten == [x \in Nat |-> {AppendUvarint[x]}]

(* readUvarint, one byte after the other: the last byte, and one byte more *)
(* before those that are known to be read back.                            *)
LEMMA VarintsOneByte == Codec(0..1, VarintWritten, Uvarint[1], UvarintLen)
<1>1. Half \in Nat /\ Half >= 2 /\ 1 \in 1..MaxLen
  BY VarintAssumption
<1>2. Uvarint[1][<<>>] = {}
  BY <1>1, UvarintUnfolds
<1>3. ASSUME NEW b \in Byte, NEW d \in Data
      PROVE  Uvarint[1][<<b>> \o d] = IF b > 1 THEN {} ELSE {<<b, d>>}
  <2>1. b \in Nat /\ (~(b > 1) => b < Half)
    BY <1>1 DEF Byte
  <2> QED
    BY <1>1, <2>1, UvarintUnfolds
<1>4. 0..1 \subseteq Byte
  BY <1>1 DEF Byte
<1>5. ASSUME NEW x \in 0..1
      PROVE  VarintWritten[x] = {<<x>>} /\ UvarintLen[x] = 1
  <2>1. x \in Nat /\ x < Half
    BY <1>1
  <2>2. AppendUvarint[x] = <<x>>
    BY <2>1, AppendUvarintUnfolds
  <2>3. UvarintLen[x] = 1
    BY <2>1, UvarintLenUnfolds
  <2> QED
    BY <2>1, <2>2, <2>3 DEF VarintWritten
<1>6. Writes(0..1, VarintWritten, Uvarint[1], UvarintLen)
  <2>1. ASSUME NEW x \in 0..1
        PROVE  <<x>> \in Data /\ Len(<<x>>) = 1 /\ \A d \in Data : Uvarint[1][<<x>> \o d] = {<<x, d>>}
    <3>1. x \in Byte /\ ~(x > 1)
      BY <1>4
    <3>2. <<>> \in Data
      BY DEF Data
    <3> QED
      BY <1>3, <3>1, <3>2, DataCons
  <2> DEFINE W == VarintWritten
             U == Uvarint[1]
             l == UvarintLen
  <2>2. ASSUME NEW x \in 0..1
        PROVE  /\ W[x] \in SUBSET Data /\ W[x] # {} /\ l[x] \in Nat
               /\ \A e \in W[x] : Len(e) = l[x] /\ \A d \in Data : U[e \o d] = {<<x, d>>}
    <3>1. W[x] = {<<x>>} /\ l[x] = 1
      BY <1>5
    <3>2. <<x>> \in Data /\ Len(<<x>>) = 1 /\ \A d \in Data : U[<<x>> \o d] = {<<x, d>>}
      BY <2>1
    <3> HIDE DEF W, U, l
    <3> QED
      BY <3>1, <3>2
  <2> HIDE DEF W, U, l
  <2>3. Writes(0..1, W, U, l)
    BY <2>2 DEF Writes, Written
  <2> QED
    BY <2>3 DEF W, U, l
<1>7. Reads(0..1, Uvarint[1], UvarintLen)
  <2> SUFFICES ASSUME NEW data \in Data, NEW r \in Uvarint[1][data]
               PROVE  /\ r \in (0..1) \X Data /\ Uvarint[1][data] = {r}
                      /\ UvarintLen[r[1]] + Len(r[2]) <= Len(data)
                      /\ \A more \in Data : Uvarint[1][data \o more] = {<<r[1], r[2] \o more>>}
    BY DEF Reads
  <2>1. data # <<>>
    BY <1>2
  <2>2. PICK b \in Byte, d \in Data : data = <<b>> \o d
    BY <2>1, DataUncons
  <2>3. ~(b > 1) /\ Uvarint[1][data] = {<<b, d>>}
    BY <1>3, <2>2
  <2>4. r = <<b, d>> /\ b \in 0..1
    <3>1. b \in Nat
      BY <1>1 DEF Byte
    <3> QED
      BY <2>3, <3>1
  <2>5. Len(data) = 1 + Len(d) /\ Len(d) \in Nat
    BY <2>2, DataCons, DataConcat
  <2>6. ASSUME NEW more \in Data PROVE Uvarint[1][data \o more] = {<<b, d \o more>>}
    <3>1. data \o more = <<b>> \o (d \o more) /\ d \o more \in Data
      BY <2>2, ConsAssociates
    <3> QED
      BY <1>3, <2>3, <3>1
  <2> QED
    BY <1>5, <2>3, <2>4, <2>5, <2>6
<1> QED
  BY <1>6, <1>7 DEF Codec

LEMMA VarintsOneMore ==
  ASSUME NEW k \in 1..MaxLen, k + 1 \in 1..MaxLen,
         Codec(0..(Capacity[k] - 1), VarintWritten, Uvarint[k], UvarintLen)
  PROVE  Codec(0..(Capacity[k + 1] - 1), VarintWritten, Uvarint[k + 1], UvarintLen)
<1> DEFINE c == Capacity[k]
           C == Capacity[k + 1]
           U == Uvarint[k]
           W == Uvarint[k + 1]
<1>1. Half \in Nat /\ Half >= 2 /\ k \in Nat /\ k >= 1 /\ (k + 1) - 1 = k /\ k + 1 # 1
  BY VarintAssumption
<1>2. c \in Nat /\ c >= 2 /\ C = Half * c /\ C \in Nat /\ C >= Half
  <2>1. c \in Nat /\ c >= 2 /\ C = Half * c
    BY <1>1, CapacityUnfolds
  <2> HIDE DEF c, C
  <2>2. Half * c \in Nat /\ Half * c >= Half
    BY <1>1, <2>1
  <2> QED
    BY <2>1, <2>2
<1>3. W[<<>>] = {}
  BY UvarintUnfolds
<1>4. ASSUME NEW b \in Byte, NEW d \in Data
      PROVE  W[<<b>> \o d] = IF b < Half THEN {<<b, d>>}
                             ELSE {<<(b % Half) + Half * r[1], r[2]>> : r \in U[d]}
  BY <1>1, UvarintUnfolds
<1>5. Writes(0..(c - 1), VarintWritten, U, UvarintLen) /\ Reads(0..(c - 1), U, UvarintLen)
  BY DEF Codec
<1> HIDE DEF U, W, c, C
<1>6. Writes(0..(C - 1), VarintWritten, W, UvarintLen)
  <2> SUFFICES ASSUME NEW x \in 0..(C - 1)
               PROVE  /\ AppendUvarint[x] \in Data /\ UvarintLen[x] \in Nat
                      /\ Len(AppendUvarint[x]) = UvarintLen[x]
                      /\ \A d \in Data : W[AppendUvarint[x] \o d] = {<<x, d>>}
    <3> DEFINE l == UvarintLen
               E == VarintWritten
    <3>1. \A x \in 0..(C - 1) : E[x] = {AppendUvarint[x]}
      BY DEF VarintWritten
    <3> HIDE DEF l, E
    <3>3. ASSUME NEW x \in 0..(C - 1)
          PROVE  /\ E[x] \in SUBSET Data /\ E[x] # {} /\ l[x] \in Nat
                 /\ \A e \in E[x] : Len(e) = l[x] /\ \A d \in Data : W[e \o d] = {<<x, d>>}
      <4> DEFINE a == AppendUvarint[x]
      <4>1. /\ a \in Data /\ l[x] \in Nat /\ Len(a) = l[x]
            /\ \A d \in Data : W[a \o d] = {<<x, d>>}
        BY DEF l
      <4>2. E[x] = {a}
        BY <3>1
      <4> HIDE DEF a
      <4> QED
        BY <4>1, <4>2
    <3>2. Writes(0..(C - 1), E, W, l)
      BY <3>3 DEF Writes, Written
    <3> QED
      BY <3>2 DEF l, E
  <2>1. x \in Nat /\ AppendUvarint[x] \in Data /\ UvarintLen[x] \in Nat
    <3>1. x \in Nat
      BY <1>2
    <3>2. AppendUvarint[x] \in Data
      BY <3>1, AppendUvarintUnfolds DEF Data
    <3> QED
      BY <3>1, <3>2, UvarintLenUnfolds
  <2>2. CASE x < Half
    <3>0. x \in Byte
      BY <1>1, <2>1, <2>2 DEF Byte
    <3>4. AppendUvarint[x] = <<x>>
      BY <2>1, <2>2, AppendUvarintUnfolds
    <3>1. x \in Byte /\ AppendUvarint[x] = <<x>> /\ UvarintLen[x] = 1
      BY <2>1, <2>2, <3>0, <3>4, UvarintLenUnfolds
    <3>2. <<>> \in Data
      BY DEF Data
    <3>3. Len(<<x>>) = 1
      BY <3>1, <3>2, DataCons
    <3> QED
      BY <1>4, <2>1, <2>2, <3>1, <3>3
  <2>3. CASE x >= Half
    <3> DEFINE q == x \div Half
               r == x % Half
               b == r + Half
    <3>1. q \in Nat /\ r \in Nat /\ r < Half /\ x = Half * q + r
      BY <2>1, Digits
    <3>2. AppendUvarint[x] = <<b>> \o AppendUvarint[q] /\ UvarintLen[x] = 1 + UvarintLen[q]
      BY <2>1, <2>3, AppendUvarintUnfolds, UvarintLenUnfolds
    <3> HIDE DEF q, r
    <3>3. q \in 0..(c - 1)
      <4>1. ASSUME q >= c PROVE FALSE
        <5>1. Half * q >= Half * c
          BY <1>1, <1>2, <3>1, <4>1
        <5>2. x < Half * c
          BY <1>2
        <5> DEFINE u == Half * q
                   w == Half * c
        <5>3. u \in Nat /\ w \in Nat /\ u >= w /\ x = u + r /\ x < w
          BY <1>1, <1>2, <3>1, <5>1, <5>2
        <5> HIDE DEF u, w
        <5> QED
          BY <2>1, <3>1, <5>3
      <4> QED
        BY <1>2, <3>1, <4>1
    <3>4. VarintWritten[q] = {AppendUvarint[q]}
      BY <3>1 DEF VarintWritten
    <3> DEFINE a == AppendUvarint[q]
    <3>5. a \in Data /\ Len(a) = UvarintLen[q] /\ \A d \in Data : U[a \o d] = {<<q, d>>}
      BY <1>5, <3>3, <3>4 DEF Writes, Written
    <3> HIDE DEF a
    <3>6. b \in Byte /\ ~(b < Half) /\ b % Half = r
      <4>1. r + Half * 1 = b /\ 1 \in Nat
        BY <1>1, <3>1
      <4>2. (r + Half * 1) % Half = r
        BY <3>1, DigitsBack
      <4>3. b \in Byte /\ ~(b < Half)
        BY <1>1, <3>1 DEF Byte
      <4> QED
        BY <4>1, <4>2, <4>3
    <3> HIDE DEF b
    <3>7. AppendUvarint[x] = <<b>> \o a /\ Len(AppendUvarint[x]) = UvarintLen[x]
      BY <3>2, <3>5, <3>6, DataCons DEF a
    <3>8. ASSUME NEW d \in Data PROVE W[AppendUvarint[x] \o d] = {<<x, d>>}
      <4>0. (<<b>> \o a) \o d = <<b>> \o (a \o d) /\ a \o d \in Data
        BY <3>5, <3>6, ConsAssociates
      <4>1. AppendUvarint[x] \o d = <<b>> \o (a \o d) /\ a \o d \in Data
        BY <3>7, <4>0
      <4>2. U[a \o d] = {<<q, d>>}
        BY <3>5
      <4> DEFINE y == a \o d
      <4>3. W[<<b>> \o y] = {<<r + Half * t[1], t[2]>> : t \in U[y]}
        <5>1. y \in Data
          BY <4>1
        <5> HIDE DEF y
        <5>2. W[<<b>> \o y] = {<<(b % Half) + Half * t[1], t[2]>> : t \in U[y]}
          BY <1>4, <3>6, <5>1
        <5> QED
          BY <3>6, <5>2
      <4>4. {<<r + Half * t[1], t[2]>> : t \in U[a \o d]} = {<<r + Half * q, d>>}
        BY <4>2
      <4>5. r + Half * q = x
        BY <1>1, <3>1
      <4> QED
        BY <4>1, <4>3, <4>4, <4>5
    <3> QED
      BY <2>1, <3>7, <3>8
  <2> QED
    BY <1>1, <2>1, <2>2, <2>3
<1>7. Reads(0..(C - 1), W, UvarintLen)
  <2> SUFFICES ASSUME NEW data \in Data, NEW r \in W[data]
               PROVE  /\ r \in (0..(C - 1)) \X Data /\ W[data] = {r}
                      /\ UvarintLen[r[1]] + Len(r[2]) <= Len(data)
                      /\ \A more \in Data : W[data \o more] = {<<r[1], r[2] \o more>>}
    BY DEF Reads
  <2>1. data # <<>>
    BY <1>3
  <2>2. PICK b \in Byte, d \in Data : data = <<b>> \o d
    BY <2>1, DataUncons
  <2>3. b \in Nat
    BY <1>1 DEF Byte
  <2>4. Len(data) = 1 + Len(d) /\ Len(d) \in Nat
    BY <2>2, DataCons, DataConcat
  <2>5. \A more \in Data : data \o more = <<b>> \o (d \o more) /\ d \o more \in Data
    BY <2>2, ConsAssociates
  <2>6. CASE b < Half
    <3>1. W[data] = {<<b, d>>} /\ r = <<b, d>> /\ \A more \in Data : W[data \o more] = {<<b, d \o more>>}
      BY <1>4, <2>2, <2>5, <2>6
    <3>3. b \in 0..(C - 1)
      BY <1>1, <1>2, <2>3, <2>6
    <3>2. b \in 0..(C - 1) /\ UvarintLen[b] = 1
      BY <2>3, <2>6, <3>3, UvarintLenUnfolds
    <3>4. r[1] = b /\ r[2] = d
      BY <3>1
    <3>5. r \in (0..(C - 1)) \X Data
      BY <3>1, <3>2
    <3>6. UvarintLen[r[1]] + Len(r[2]) <= Len(data)
      <4>1. UvarintLen[r[1]] = 1 /\ Len(r[2]) = Len(d)
        BY <3>2, <3>4
      <4> QED
        BY <2>4, <4>1
    <3>7. \A more \in Data : W[data \o more] = {<<r[1], r[2] \o more>>}
      BY <3>1, <3>4
    <3> QED
      BY <3>1, <3>5, <3>6, <3>7
  <2>7. CASE ~(b < Half)
    <3> DEFINE l == b % Half
    <3>1. l \in Nat /\ l < Half
      BY <2>3, Digits
    <3>2. W[data] = {<<l + Half * t[1], t[2]>> : t \in U[d]}
      BY <1>4, <2>2, <2>7
    <3>3. \A more \in Data : W[data \o more] = {<<l + Half * t[1], t[2]>> : t \in U[d \o more]}
      BY <1>4, <2>5, <2>7
    <3> HIDE DEF l
    <3>4. PICK t \in U[d] : r = <<l + Half * t[1], t[2]>>
      BY <3>2
    <3>5. /\ t \in (0..(c - 1)) \X Data /\ U[d] = {t} /\ UvarintLen[t[1]] + Len(t[2]) <= Len(d)
          /\ \A more \in Data : U[d \o more] = {<<t[1], t[2] \o more>>}
      BY <1>5 DEF Reads
    <3> DEFINE q == t[1]
               e == t[2]
               x == l + Half * q
    <3>6. q \in 0..(c - 1) /\ e \in Data /\ r = <<x, e>> /\ t = <<q, e>>
      BY <3>4, <3>5
    <3>7. UvarintLen[q] + Len(e) <= Len(d) /\ \A more \in Data : U[d \o more] = {<<q, e \o more>>}
      BY <3>5
    <3>8. W[data] = {<<x, e>>}
      BY <3>2, <3>5, <3>6
    <3>9. ASSUME NEW more \in Data PROVE W[data \o more] = {<<x, e \o more>>}
      <4>1. W[data \o more] = {<<l + Half * u[1], u[2]>> : u \in U[d \o more]}
        BY <3>3
      <4> DEFINE y == d \o more
                 z == e \o more
      <4>2. U[y] = {<<q, z>>}
        BY <3>7
      <4>3. W[data \o more] = {<<l + Half * u[1], u[2]>> : u \in U[y]}
        BY <4>1
      <4> HIDE DEF y, z, q
      <4>4. {<<l + Half * u[1], u[2]>> : u \in U[y]} = {<<l + Half * q, z>>}
        BY <4>2
      <4>5. W[data \o more] = {<<l + Half * q, z>>}
        BY <4>3, <4>4
      <4> QED
        BY <4>5 DEF z
    <3> HIDE DEF q, e
    <3>10. /\ x \in Nat /\ x \div Half = q
           /\ (x >= Half => q # 0)
      BY <1>2, <3>1, <3>6, DigitsBack
    <3>11. x < C
      <4>1. Half * q + Half <= Half * c
        <5>1. c - (q + 1) \in Nat /\ q \in Nat
          BY <1>2, <3>6
        <5>2. Half * (c - (q + 1)) \in Nat
          BY <1>1, <5>1
        <5>3. Half * (c - (q + 1)) = Half * c - Half * q - Half
          BY <1>1, <1>2, <5>1
        <5>4. Half * c \in Nat /\ Half * q \in Nat
          BY <1>1, <1>2, <5>1
        <5> QED
          BY <1>1, <5>2, <5>3, <5>4
      <4>2. Half * q \in Nat /\ Half * c \in Nat /\ q \in Nat
        BY <1>1, <1>2, <3>6
      <4> DEFINE u == Half * q
                 w == Half * c
      <4> HIDE DEF u, w
      <4>3. u \in Nat /\ w \in Nat /\ u + Half <= w /\ x = l + u /\ C = w
        BY <1>2, <4>1, <4>2 DEF u, w
      <4> HIDE DEF x
      <4> QED
        BY <1>1, <3>1, <4>3
    <3> HIDE DEF x
    <3>12. UvarintLen[x] <= 1 + UvarintLen[q] /\ UvarintLen[x] \in Nat /\ UvarintLen[q] \in Nat
      <4>1. q \in Nat /\ UvarintLen[x] \in Nat /\ UvarintLen[q] \in Nat
        BY <1>2, <3>6, <3>10, UvarintLenUnfolds
      <4>2. CASE x < Half
        BY <3>10, <4>1, <4>2, UvarintLenUnfolds
      <4>3. CASE x >= Half
        BY <3>10, <4>1, <4>3, UvarintLenUnfolds
      <4> QED
        BY <1>1, <3>10, <4>2, <4>3
    <3>13. x \in 0..(C - 1)
      BY <1>2, <3>10, <3>11
    <3>14. UvarintLen[x] + Len(e) <= Len(data)
      <4>1. Len(e) \in Nat
        BY <3>6, DataConcat
      <4> QED
        BY <2>4, <3>7, <3>12, <4>1
    <3> QED
      BY <3>6, <3>8, <3>9, <3>13, <3>14
  <2> QED
    BY <2>6, <2>7
<1> QED
  BY <1>6, <1>7 DEF Codec, W, C

(* Every number that fits a word is written and read back, for every width *)
(* of the digits and the word, whatever follows it; and what readUvarint   *)
(* accepts is such a number, in no fewer bytes than appendUvarint takes.   *)
THEOREM VarintCodec == Codec(0..(Wide - 1), VarintWritten, Uvarint[MaxLen], UvarintLen)
<1> DEFINE Good(k) == Codec(0..(Capacity[k] - 1), VarintWritten, Uvarint[k], UvarintLen)
           V == {n \in Nat : n + 1 <= MaxLen => Good(n + 1)}
<1>1. MaxLen \in Nat /\ MaxLen >= 1
  BY VarintAssumption
<1>2. 0 \in V
  <2>1. 0 + 1 = 1 /\ Capacity[1] - 1 = 1
    BY CapacityUnfolds
  <2> QED
    BY <2>1, VarintsOneByte
<1>3. ASSUME NEW n \in V PROVE n + 1 \in V
  <2>1. ASSUME (n + 1) + 1 <= MaxLen PROVE Good((n + 1) + 1)
    <3>1. n \in Nat /\ n + 1 \in 1..MaxLen /\ (n + 1) + 1 \in 1..MaxLen /\ n + 1 <= MaxLen
      BY <1>1, <2>1
    <3>2. Good(n + 1)
      BY <3>1
    <3> QED
      BY <3>1, <3>2, VarintsOneMore
  <2> HIDE DEF Good
  <2> QED
    BY <2>1
<1>4. V = Nat
  <2>1. V \in SUBSET Nat
    OBVIOUS
  <2> HIDE DEF V
  <2> QED
    BY <1>2, <1>3, <2>1, Induct
<1>5. Good(MaxLen)
  <2>2. MaxLen - 1 \in Nat /\ (MaxLen - 1) + 1 = MaxLen
    BY <1>1
  <2>1. MaxLen - 1 \in V /\ (MaxLen - 1) + 1 = MaxLen
    <3> HIDE DEF V
    <3> QED
      BY <1>4, <2>2
  <2> HIDE DEF Good
  <2> QED
    BY <2>1
<1> QED
  BY <1>5 DEF Wide

-----------------------------------------------------------------------------
(* Sizes of lists, and the encodings of a list, one value at a time.       *)

LEMMA TotalUnfolds ==
  ASSUME NEW g, NEW S, IsFiniteSet(S), \A i \in S : g[i] \in Nat
  PROVE  /\ S = {} => Total(g, S) = 0
         /\ S # {} => Total(g, S) = g[Some(S)] + Total(g, S \ {Some(S)})
         /\ Total(g, S) \in Nat
<1> DEFINE value(f, s) == IF s = {} THEN 0 ELSE g[Some(s)] + f[s \ {Some(s)}]
           IsTable(f, U) == f = [s \in SUBSET U |-> value(f, s)]
           table(U) == CHOOSE f : IsTable(f, U)
<1>1. ASSUME NEW U PROVE Total(g, U) = table(U)[U]
  BY DEF Total, FoldFunctionOnSet, MapThenFoldSet, Some
<1>2. ASSUME NEW U \in SUBSET S
      PROVE  /\ DOMAIN table(U) = SUBSET U
             /\ \A s \in SUBSET U : table(U)[s] = value(table(U), s)
             /\ \A s \in SUBSET U : table(U)[s] \in Nat
  <2> DEFINE Sets == SUBSET U
             body == [f \in [Sets -> Nat] |-> [s \in Sets |-> value(f, s)]]
             m == [s \in Sets |-> Cardinality(s)]
  <2>1. IsFiniteSet(U) /\ \A s \in Sets : IsFiniteSet(s)
    BY FS_Subset
  <2>2. m \in [Sets -> Nat] /\ Nat # {}
    BY <2>1, FS_CardinalityType
  <2>3. ASSUME NEW f, NEW s \in Sets, s # {} => f[s \ {Some(s)}] \in Nat
        PROVE  value(f, s) \in Nat
    <3>1. CASE s = {}
      BY <3>1
    <3>2. CASE s # {}
      <4>1. Some(s) \in s
        BY <3>2 DEF Some
      <4>2. g[Some(s)] \in Nat /\ f[s \ {Some(s)}] \in Nat
        BY <2>3, <3>2, <4>1
      <4> QED
        BY <3>2, <4>2
    <3> QED
      BY <3>1, <3>2
  <2>4. \A f \in [Sets -> Nat] : body[f] \in [Sets -> Nat]
    <3>1. \A f \in [Sets -> Nat], s \in Sets : f[s \ {Some(s)}] \in Nat
      OBVIOUS
    <3> QED
      BY <2>3, <3>1
  <2>5. ASSUME NEW f \in [Sets -> Nat], NEW h \in [Sets -> Nat], NEW s \in Sets,
               \A t \in Sets : m[t] < m[s] => f[t] = h[t]
        PROVE  body[f][s] = body[h][s]
    <3>1. CASE s = {}
      BY <3>1
    <3>2. CASE s # {}
      <4>1. Some(s) \in s
        BY <3>2 DEF Some
      <4>2. Cardinality(s \ {Some(s)}) = Cardinality(s) - 1 /\ Cardinality(s) \in Nat
        BY <2>1, <4>1, FS_RemoveElement, FS_CardinalityType
      <4>3. m[s \ {Some(s)}] < m[s]
        BY <4>2
      <4>4. f[s \ {Some(s)}] = h[s \ {Some(s)}]
        BY <2>5, <4>3
      <4> QED
        BY <3>2, <4>4
    <3> QED
      BY <3>1, <3>2
  <2>6. \E f \in [Sets -> Nat] : f = body[f]
    <3> HIDE DEF body, m, Sets
    <3>1. Contracts(Sets, Nat, body, m)
      BY <2>2, <2>4, <2>5 DEF Contracts
    <3> QED
      BY <3>1, Recursion
  <2>7. \E f : IsTable(f, U)
    BY <2>6
  <2>8. IsTable(table(U), U)
    <3> HIDE DEF IsTable
    <3> QED
      BY <2>7
  <2> DEFINE f == table(U)
             G == {s \in Sets : f[s] \in Nat}
  <2> HIDE DEF table, body, m
  <2>9. DOMAIN f = SUBSET U /\ \A s \in SUBSET U : f[s] = value(f, s)
    BY <2>8
  <2> HIDE DEF f
  <2>10. ASSUME NEW s \in Sets, \A x \in s : s \ {x} \in G PROVE s \in G
    <3>1. s # {} => Some(s) \in s
      BY DEF Some
    <3>2. s # {} => f[s \ {Some(s)}] \in Nat
      BY <2>10, <3>1
    <3>3. value(f, s) \in Nat
      BY <2>3, <3>2
    <3> QED
      BY <2>9, <3>3
  <2>11. \A s \in Sets : s \in G
    <3>1. ASSUME NEW s \in Sets PROVE s \in G
      <4>1. \A t \in SUBSET s : (\A x \in t : t \ {x} \in G) => t \in G
        BY <2>10
      <4> HIDE DEF G
      <4> QED
        BY <2>1, <3>1, <4>1, SetInduct
    <3> QED
      BY <3>1
  <2> QED
    BY <2>9, <2>11 DEF f
<1> HIDE DEF table
<1>3. ASSUME NEW U \in SUBSET S PROVE table(U)[U] = table(S)[U]
  <2> DEFINE G == {s \in SUBSET U : table(U)[s] = table(S)[s]}
  <2>1. ASSUME NEW t \in SUBSET U, \A x \in t : t \ {x} \in G PROVE t \in G
    <3>1. t \in SUBSET S /\ S \in SUBSET S
      OBVIOUS
    <3>2. table(U)[t] = value(table(U), t) /\ table(S)[t] = value(table(S), t)
      BY <1>2, <3>1
    <3>3. t # {} => Some(t) \in t
      BY DEF Some
    <3>4. t # {} => table(U)[t \ {Some(t)}] = table(S)[t \ {Some(t)}]
      BY <2>1, <3>3
    <3> QED
      BY <3>2, <3>4
  <2>2. IsFiniteSet(U)
    BY FS_Subset
  <2>3. U \in G
    <3> HIDE DEF G
    <3> QED
      BY <2>1, <2>2, SetInduct
  <2> QED
    BY <2>3
<1>4. \A U \in SUBSET S : Total(g, U) = table(S)[U]
  BY <1>1, <1>3
<1>5. S \in SUBSET S /\ S \ {Some(S)} \in SUBSET S
  OBVIOUS
<1>6. table(S)[S] = value(table(S), S) /\ table(S)[S] \in Nat
  BY <1>2, <1>5
<1> QED
  BY <1>4, <1>5, <1>6

(* Any element may be taken out first.                                     *)
LEMMA TotalStep ==
  ASSUME NEW g, NEW S, IsFiniteSet(S), \A i \in S : g[i] \in Nat, NEW x \in S
  PROVE  Total(g, S) = g[x] + Total(g, S \ {x})
<1> DEFINE G == {T \in SUBSET S : \A y \in T : Total(g, T) = g[y] + Total(g, T \ {y})}
<1>1. \A T \in SUBSET S : IsFiniteSet(T) /\ \A i \in T : g[i] \in Nat
  BY FS_Subset
<1>2. ASSUME NEW T \in SUBSET S, \A u \in T : T \ {u} \in G PROVE T \in G
  <2> SUFFICES ASSUME NEW y \in T
               PROVE  Total(g, T) = g[y] + Total(g, T \ {y})
    OBVIOUS
  <2> DEFINE z == Some(T)
  <2>1. z \in T
    BY DEF Some
  <2>2. Total(g, T) = g[z] + Total(g, T \ {z})
    BY <1>1, TotalUnfolds
  <2> HIDE DEF z
  <2>3. CASE y = z
    BY <2>2, <2>3
  <2>4. CASE y # z
    <3>2. y \in T \ {z} /\ z \in T \ {y} /\ T \ {y} \in G /\ T \ {z} \in G
      BY <1>2, <2>1, <2>4
    <3> DEFINE R == (T \ {y}) \ {z}
    <3>3. (T \ {z}) \ {y} = R /\ R \in SUBSET S
      OBVIOUS
    <3>4. Total(g, T \ {z}) = g[y] + Total(g, R)
      BY <3>2, <3>3
    <3>5. Total(g, T \ {y}) = g[z] + Total(g, R)
      BY <3>2
    <3>6. g[y] \in Nat /\ g[z] \in Nat /\ Total(g, R) \in Nat
      BY <1>1, <2>1, <3>3, TotalUnfolds
    <3> HIDE DEF R
    <3> QED
      BY <2>2, <3>4, <3>5, <3>6
  <2> QED
    BY <2>3, <2>4
<1>3. S \in G
  <2> HIDE DEF G
  <2> QED
    BY <1>2, SetInduct
<1> QED
  BY <1>3

LEMMA TotalEqual ==
  ASSUME NEW g, NEW h, NEW S, IsFiniteSet(S), \A i \in S : g[i] \in Nat /\ h[i] = g[i]
  PROVE  Total(h, S) = Total(g, S)
<1> DEFINE G == {T \in SUBSET S : Total(h, T) = Total(g, T)}
<1>1. \A T \in SUBSET S : IsFiniteSet(T)
  BY FS_Subset
<1>2. ASSUME NEW T \in SUBSET S, \A u \in T : T \ {u} \in G PROVE T \in G
  <2> DEFINE z == Some(T)
  <2>1. /\ IsFiniteSet(T) /\ (\A i \in T : g[i] \in Nat) /\ (\A i \in T : h[i] \in Nat)
    BY <1>1
  <2>2. /\ T = {} => Total(g, T) = 0
        /\ T # {} => Total(g, T) = g[z] + Total(g, T \ {z})
    BY <2>1, TotalUnfolds
  <2>3. /\ T = {} => Total(h, T) = 0
        /\ T # {} => Total(h, T) = h[z] + Total(h, T \ {z})
    BY <2>1, TotalUnfolds
  <2>4. T # {} => z \in T
    BY DEF Some
  <2> HIDE DEF z
  <2>5. T # {} => Total(h, T \ {z}) = Total(g, T \ {z}) /\ h[z] = g[z]
    BY <1>2, <2>4
  <2> QED
    BY <2>2, <2>3, <2>5
<1>3. S \in G
  <2> HIDE DEF G
  <2> QED
    BY <1>2, SetInduct
<1> QED
  BY <1>3

LEMMA TotalSubset ==
  ASSUME NEW g, NEW S, IsFiniteSet(S), \A i \in S : g[i] \in Nat, NEW T \in SUBSET S
  PROVE  Total(g, T) \in Nat /\ Total(g, T) <= Total(g, S)
<1> DEFINE G == {R \in SUBSET S : Total(g, R) \in Nat /\ Total(g, R \cap T) \in Nat
                                  /\ Total(g, R \cap T) <= Total(g, R)}
<1>1. \A R \in SUBSET S : IsFiniteSet(R) /\ \A i \in R : g[i] \in Nat
  BY FS_Subset
<1>2. ASSUME NEW R \in SUBSET S, \A u \in R : R \ {u} \in G PROVE R \in G
  <2>1. CASE R = {}
    <3>1. R \cap T = R
      BY <2>1
    <3>2. Total(g, R) \in Nat
      BY <1>1, TotalUnfolds
    <3> QED
      BY <3>1, <3>2
  <2>2. CASE R # {}
    <3>1. PICK x \in R : TRUE
      BY <2>2
    <3> DEFINE Q == R \ {x}
    <3>2. Total(g, Q) \in Nat /\ Total(g, Q \cap T) \in Nat /\ Total(g, Q \cap T) <= Total(g, Q)
      BY <1>2
    <3>3. Total(g, R) = g[x] + Total(g, Q) /\ g[x] \in Nat
      BY <1>1, TotalStep
    <3>4. CASE x \in T
      <4>1. x \in R \cap T /\ R \cap T \in SUBSET S /\ (R \cap T) \ {x} = Q \cap T
        BY <3>4
      <4>2. Total(g, R \cap T) = g[x] + Total(g, (R \cap T) \ {x})
        BY <1>1, <4>1, TotalStep
      <4> QED
        BY <3>2, <3>3, <4>1, <4>2
    <3>5. CASE x \notin T
      <4>1. R \cap T = Q \cap T
        BY <3>5
      <4> QED
        BY <3>2, <3>3, <4>1
    <3> QED
      BY <3>4, <3>5
  <2> QED
    BY <2>1, <2>2
<1>3. S \in G
  <2> HIDE DEF G
  <2> QED
    BY <1>2, SetInduct
<1>4. S \cap T = T
  OBVIOUS
<1> QED
  BY <1>3, <1>4

(* The bytes of the elements of a list.                                    *)
ListSize(size, s) == Total([i \in DOMAIN s |-> size[s[i]]], DOMAIN s)

LEMMA ListSizeEmpty == ASSUME NEW size PROVE ListSize(size, <<>>) = 0
<1> DEFINE e == [i \in DOMAIN <<>> |-> size[<<>>[i]]]
             Z == DOMAIN <<>>
<1>1. Z = {} /\ IsFiniteSet(Z)
  BY FS_EmptySet
<1>2. ListSize(size, <<>>) = Total(e, Z)
  BY DEF ListSize
<1> HIDE DEF e, Z
<1>3. \A i \in Z : e[i] \in Nat
  BY <1>1
<1> QED
  BY <1>1, <1>2, <1>3, TotalUnfolds

LEMMA ListSizeUnfolds ==
  ASSUME NEW V, NEW size, Sized(V, size), NEW s \in Seq(V), NEW x \in V
  PROVE  /\ ListSize(size, s) \in Nat
         /\ ListSize(size, Append(s, x)) = ListSize(size, s) + size[x]
<1> DEFINE n == Len(s)
           t == Append(s, x)
           g == [i \in 1..n |-> size[s[i]]]
           h == [i \in 1..(n + 1) |-> size[t[i]]]
<1>0. \A v \in V : size[v] \in Nat
  BY DEF Sized
<1>1. n \in Nat /\ DOMAIN s = 1..n /\ s \in [1..n -> V]
  BY LenProperties
<1>2. t \in Seq(V) /\ Len(t) = n + 1 /\ (\A i \in 1..n : t[i] = s[i]) /\ t[n + 1] = x
  BY AppendProperties
<1>3. DOMAIN t = 1..(n + 1) /\ t \in [1..(n + 1) -> V]
  BY <1>2, LenProperties
<1> HIDE DEF n, t
<1>4. \A i \in 1..n : g[i] \in Nat /\ h[i] = g[i]
  BY <1>0, <1>1, <1>2
<1>5. \A i \in 1..(n + 1) : h[i] \in Nat
  BY <1>0, <1>3
<1>6. h[n + 1] = size[x] /\ n + 1 \in 1..(n + 1) /\ (1..(n + 1)) \ {n + 1} = 1..n
  BY <1>1, <1>2
<1>7. IsFiniteSet(1..n) /\ IsFiniteSet(1..(n + 1))
  BY <1>1, FS_Interval
<1> DEFINE A == 1..n
           B == 1..(n + 1)
<1> HIDE DEF g, h
<1>14. B \ {n + 1} = A
  BY <1>6
<1>8. Total(h, 1..n) = Total(g, 1..n)
  BY <1>4, <1>7, TotalEqual
<1>9. Total(h, B) = h[n + 1] + Total(h, A)
  <2>1. IsFiniteSet(B) /\ (\A i \in B : h[i] \in Nat) /\ n + 1 \in B
    BY <1>5, <1>6, <1>7
  <2> HIDE DEF A, B
  <2>2. Total(h, B) = h[n + 1] + Total(h, B \ {n + 1})
    BY <2>1, TotalStep
  <2> QED
    BY <1>14, <2>2
<1>10. ListSize(size, t) = Total(h, 1..(n + 1)) /\ ListSize(size, s) = Total(g, 1..n)
  BY <1>1, <1>3 DEF ListSize, g, h
<1>11. Total(g, 1..n) \in Nat
  BY <1>4, <1>7, TotalUnfolds
<1>13. ListSize(size, t) = ListSize(size, s) + size[x]
  <2>1. h[n + 1] = size[x] /\ size[x] \in Nat /\ ListSize(size, t) = Total(h, B)
        /\ ListSize(size, s) = Total(g, A) /\ Total(h, A) = Total(g, A) /\ Total(g, A) \in Nat
    BY <1>0, <1>6, <1>8, <1>10, <1>11
  <2> HIDE DEF A, B
  <2> QED
    BY <1>9, <2>1
<1> QED
  BY <1>10, <1>11, <1>13 DEF t

-----------------------------------------------------------------------------
(* Lists.                                                                  *)

(* The strings of two sets put one behind the other.                       *)
LEMMA JoinedFrom ==
  ASSUME NEW A, NEW B, NEW z \in Join(A, B)
  PROVE  \E a \in A, b \in B : z = a \o b
BY DEF Join

Glued(z, a, b) == z = a \o b

LEMMA JoinedGlued ==
  ASSUME NEW A, NEW B, NEW z \in Join(A, B)
  PROVE  \E a \in A, b \in B : Glued(z, a, b)
BY DEF Join, Glued

LEMMA JoinedIn ==
  ASSUME NEW A, NEW B, NEW a \in A, NEW b \in B
  PROVE  a \o b \in Join(A, B)
BY DEF Join

LEMMA Joined ==
  ASSUME NEW A \in SUBSET Data, NEW B \in SUBSET Data
  PROVE  Join(A, B) \in SUBSET Data
<1>1. ASSUME NEW z \in Join(A, B) PROVE z \in Data
  <2>1. PICK a \in A, b \in B : z = a \o b
    BY JoinedFrom
  <2>2. a \in Data /\ b \in Data
    OBVIOUS
  <2> QED
    BY <2>1, <2>2, DataConcat
<1> QED
  BY <1>1

\* The table that Items fills.
ItemsTable(enc, vs) ==
  CHOOSE f : f = [i \in 0..Len(vs) |-> IF i = 0 THEN {<<>>} ELSE Join(f[i - 1], enc[vs[i]])]

LEMMA ItemsTableUnfolds ==
  ASSUME NEW V, NEW enc, Encoded(V, enc), NEW vs \in Seq(V)
  PROVE  /\ Items(enc, vs) = ItemsTable(enc, vs)[Len(vs)]
         /\ ItemsTable(enc, vs)[0] = {<<>>}
         /\ \A i \in 0..Len(vs) : ItemsTable(enc, vs)[i] \in SUBSET Data
         /\ \A i \in 1..Len(vs) : ItemsTable(enc, vs)[i] = Join(ItemsTable(enc, vs)[i - 1], enc[vs[i]])
<1> DEFINE n == Len(vs)
           Dom == 0..n
           Rng == SUBSET Data
           value(f, i) == IF i = 0 THEN {<<>>} ELSE Join(f[i - 1], enc[vs[i]])
           body == [f \in [Dom -> Rng] |-> [i \in Dom |-> value(f, i)]]
           m == [i \in Dom |-> i]
           w == ItemsTable(enc, vs)
<1>0. \A v \in V : enc[v] \in SUBSET Data
  BY DEF Encoded
<1>1. n \in Nat /\ \A i \in 1..n : vs[i] \in V
  BY LenProperties, ElementOfSeq
<1> HIDE DEF n
<1>2. \A i \in Dom : i # 0 => i - 1 \in Dom /\ i - 1 < i /\ i \in 1..n
  BY <1>1
<1>3. ASSUME NEW f \in [Dom -> Rng], NEW i \in Dom PROVE value(f, i) \in Rng
  <2>1. {<<>>} \in Rng
    BY DEF Data
  <2>2. i # 0 => f[i - 1] \in SUBSET Data /\ enc[vs[i]] \in SUBSET Data
    BY <1>0, <1>1, <1>2
  <2>3. i # 0 => Join(f[i - 1], enc[vs[i]]) \in Rng
    BY <2>2, Joined
  <2> HIDE DEF Rng
  <2> QED
    BY <2>1, <2>3
<1>4. \A f \in [Dom -> Rng] : body[f] \in [Dom -> Rng]
  <2> HIDE DEF value, Rng, Dom
  <2> QED
    BY <1>3
<1>5. ASSUME NEW f \in [Dom -> Rng], NEW g \in [Dom -> Rng], NEW i \in Dom,
             \A j \in Dom : m[j] < m[i] => f[j] = g[j]
      PROVE  body[f][i] = body[g][i]
  <2>1. i # 0 => f[i - 1] = g[i - 1]
    BY <1>2, <1>5
  <2> QED
    BY <2>1
<1>6. \E f \in [Dom -> Rng] : f = body[f]
  <2>1. m \in [Dom -> Nat] /\ Rng # {}
    <3>1. {} \in Rng
      OBVIOUS
    <3>2. m \in [Dom -> Nat]
      BY <1>1
    <3> HIDE DEF Rng
    <3> QED
      BY <3>1, <3>2
  <2> HIDE DEF body, m, Rng, Dom
  <2>2. Contracts(Dom, Rng, body, m)
    BY <1>4, <1>5, <2>1 DEF Contracts
  <2> QED
    BY <2>2, Recursion
<1>7. \E f : f = [i \in Dom |-> value(f, i)]
  <2> HIDE DEF value, Rng, Dom
  <2> QED
    BY <1>6
<1>8. w = CHOOSE f : f = [i \in Dom |-> value(f, i)]
  BY DEF ItemsTable, n
<1>9. Items(enc, vs) = w[n]
  BY <1>8 DEF Items, n
<1> HIDE DEF w
<1>10. w = [i \in Dom |-> value(w, i)]
  <2> HIDE DEF value, Dom
  <2> QED
    BY <1>7, <1>8
<1> HIDE DEF body, m
<1>11. \A i \in Dom : w[i] = value(w, i)
  <2> HIDE DEF value
  <2> QED
    BY <1>10
<1>12. w[0] = {<<>>}
  BY <1>1, <1>11
<1>13. \A i \in 1..n : w[i] = Join(w[i - 1], enc[vs[i]])
  <2>1. \A i \in 1..n : i \in Dom /\ i # 0
    BY <1>1
  <2> QED
    BY <1>11, <2>1
<1> DEFINE W == {i \in Nat : i <= n => w[i] \in SUBSET Data}
<1>14. 0 \in W
  <2>1. <<>> \in Data
    BY DEF Data
  <2> QED
    BY <1>12, <2>1
<1>15. ASSUME NEW i \in W PROVE i + 1 \in W
  <2>1. ASSUME i + 1 <= n PROVE w[i + 1] \in SUBSET Data
    <3>1. i \in Nat /\ i <= n /\ i + 1 \in 1..n /\ (i + 1) - 1 = i
      BY <1>1, <2>1
    <3>2. w[i] \in SUBSET Data /\ enc[vs[i + 1]] \in SUBSET Data
      BY <1>0, <1>1, <3>1
    <3>3. w[i + 1] = Join(w[i], enc[vs[i + 1]])
      BY <1>13, <3>1
    <3> QED
      BY <3>2, <3>3, Joined
  <2> QED
    BY <2>1
<1>16. W = Nat
  <2>1. W \in SUBSET Nat
    OBVIOUS
  <2> HIDE DEF W
  <2> QED
    BY <1>14, <1>15, <2>1, Induct
<1>17. \A i \in 0..n : w[i] \in SUBSET Data
  BY <1>1, <1>16
<1> QED
  BY <1>9, <1>12, <1>13, <1>17 DEF n, w

LEMMA ItemsEmpty == ASSUME NEW enc PROVE Items(enc, <<>>) = {<<>>}
<1> DEFINE V == {}
<1>1. Encoded(V, enc)
  BY DEF Encoded
<1> HIDE DEF V
<1>2. PICK e \in Seq(V) : e = <<>> /\ Len(e) = 0
  BY EmptySeq
<1>3. Items(enc, e) = ItemsTable(enc, e)[Len(e)]
  BY <1>1, ItemsTableUnfolds
<1>4. ItemsTable(enc, e)[0] = {<<>>}
  BY <1>1, ItemsTableUnfolds
<1> QED
  BY <1>2, <1>3, <1>4

(* The encodings of a list are those of its front, followed by those of its*)
(* last value.                                                             *)
LEMMA ItemsUnfolds ==
  ASSUME NEW V, NEW enc, Encoded(V, enc), NEW s \in Seq(V), NEW x \in V
  PROVE  /\ Items(enc, s) \in SUBSET Data
         /\ Items(enc, Append(s, x)) = Join(Items(enc, s), enc[x])
<1> DEFINE n == Len(s)
           t == Append(s, x)
           a == ItemsTable(enc, s)
           b == ItemsTable(enc, t)
<1>1. n \in Nat /\ n + 1 \in 1..(n + 1) /\ (n + 1) - 1 = n
  BY LenProperties
<1>2. t \in Seq(V) /\ Len(t) = n + 1 /\ (\A i \in 1..n : t[i] = s[i]) /\ t[n + 1] = x
  BY AppendProperties
<1>3. /\ Items(enc, s) = a[n] /\ a[0] = {<<>>} /\ (\A i \in 0..n : a[i] \in SUBSET Data)
      /\ \A i \in 1..n : a[i] = Join(a[i - 1], enc[s[i]])
  BY ItemsTableUnfolds
<1> HIDE DEF t
<1>19. t \in Seq(V)
  BY <1>2
<1>20. /\ Items(enc, t) = b[Len(t)] /\ b[0] = {<<>>}
       /\ \A i \in 1..Len(t) : b[i] = Join(b[i - 1], enc[t[i]])
  BY <1>19, ItemsTableUnfolds
<1> HIDE DEF b
<1>4. /\ Items(enc, t) = b[n + 1] /\ b[0] = {<<>>}
      /\ \A i \in 1..(n + 1) : b[i] = Join(b[i - 1], enc[t[i]])
  BY <1>2, <1>20
<1> HIDE DEF n, a, b
<1> DEFINE W == {i \in Nat : i <= n => a[i] = b[i]}
<1>5. 0 \in W
  BY <1>3, <1>4
<1>6. ASSUME NEW i \in W PROVE i + 1 \in W
  <2>1. ASSUME i + 1 <= n PROVE a[i + 1] = b[i + 1]
    <3>1. i \in Nat /\ i <= n /\ i + 1 \in 1..n /\ i + 1 \in 1..(n + 1) /\ (i + 1) - 1 = i
      BY <1>1, <2>1
    <3>2. a[i + 1] = Join(a[i], enc[s[i + 1]])
      BY <1>3, <3>1
    <3>3. b[i + 1] = Join(b[i], enc[t[i + 1]])
      BY <1>4, <3>1
    <3> QED
      BY <1>2, <3>1, <3>2, <3>3
  <2> QED
    BY <2>1
<1>7. W = Nat
  <2>1. W \in SUBSET Nat
    OBVIOUS
  <2> HIDE DEF W
  <2> QED
    BY <1>5, <1>6, <2>1, Induct
<1>8. a[n] = b[n]
  BY <1>1, <1>7
<1>9. b[n + 1] = Join(b[n], enc[x])
  BY <1>1, <1>2, <1>4
<1> QED
  BY <1>1, <1>3, <1>4, <1>8, <1>9 DEF t

(* Reading n + 1 values is reading n and then one more.                    *)
LEMMA ReadItemsUnfolds ==
  ASSUME NEW V, NEW dec, Typed(V, dec), NEW data \in Data
  PROVE  /\ ReadItems(dec, 0, data) = {<<<<>>, data>>}
         /\ \A n \in Nat :
              /\ ReadItems(dec, n, data) \in SUBSET (Seq(V) \X Data)
              /\ ReadItems(dec, n + 1, data)
                   = UNION {{<<Append(r[1], x[1]), x[2]>> : x \in dec[r[2]]} :
                              r \in ReadItems(dec, n, data)}
<1> DEFINE Rng == SUBSET (Seq(V) \X Data)
           start == {<<<<>>, data>>}
           step(R) == UNION {{<<Append(r[1], x[1]), x[2]>> : x \in dec[r[2]]} : r \in R}
           value(f, i) == IF i = 0 THEN {<<<<>>, data>>}
                          ELSE UNION {{<<Append(r[1], x[1]), x[2]>> : x \in dec[r[2]]} : r \in f[i - 1]}
           body == [f \in [Nat -> Rng] |-> [i \in Nat |-> value(f, i)]]
           m == [i \in Nat |-> i]
           w == CHOOSE f : f = [i \in Nat |-> value(f, i)]
<1>0. \A d \in Data : dec[d] \in SUBSET (V \X Data)
  BY DEF Typed
<1>1. \A n : ReadItems(dec, n, data) = w[n]
  BY DEF ReadItems
<1>2. \A f, i : value(f, i) = IF i = 0 THEN start ELSE step(f[i - 1])
  OBVIOUS
<1>3. start \in Rng
  <2>1. <<>> \in Seq(V)
    BY EmptySeq
  <2>2. <<<<>>, data>> \in Seq(V) \X Data
    BY <2>1
  <2> QED
    BY <2>2
<1>4. ASSUME NEW R \in Rng PROVE step(R) \in Rng
  <2>1. ASSUME NEW r \in R, NEW x \in dec[r[2]]
        PROVE  <<Append(r[1], x[1]), x[2]>> \in Seq(V) \X Data
    <3>1. r[1] \in Seq(V) /\ r[2] \in Data
      OBVIOUS
    <3>2. x \in V \X Data
      BY <1>0, <3>1
    <3>3. x[1] \in V /\ x[2] \in Data
      BY <3>2
    <3>4. Append(r[1], x[1]) \in Seq(V)
      BY <3>1, <3>3, AppendProperties
    <3> QED
      BY <3>3, <3>4
  <2> QED
    BY <2>1
<1>5. \A i \in Nat : i # 0 => i - 1 \in Nat /\ i - 1 < i
  OBVIOUS
<1> HIDE DEF value, start, step, Rng
<1>6. ASSUME NEW f \in [Nat -> Rng], NEW i \in Nat PROVE value(f, i) \in Rng
  <2>1. i # 0 => f[i - 1] \in Rng
    BY <1>5
  <2> QED
    BY <1>2, <1>3, <1>4, <2>1
<1>7. \A f \in [Nat -> Rng] : body[f] \in [Nat -> Rng]
  BY <1>6
<1>8. ASSUME NEW f \in [Nat -> Rng], NEW g \in [Nat -> Rng], NEW i \in Nat,
             \A j \in Nat : m[j] < m[i] => f[j] = g[j]
      PROVE  body[f][i] = body[g][i]
  <2>1. i # 0 => f[i - 1] = g[i - 1]
    BY <1>5, <1>8
  <2>2. value(f, i) = value(g, i)
    BY <1>2, <2>1
  <2> QED
    BY <2>2
<1>9. \E f \in [Nat -> Rng] : f = body[f]
  <2>1. m \in [Nat -> Nat] /\ Rng # {}
    BY <1>3
  <2> HIDE DEF body, m
  <2>2. Contracts(Nat, Rng, body, m)
    BY <1>7, <1>8, <2>1 DEF Contracts
  <2> QED
    BY <2>2, Recursion
<1>10. PICK h \in [Nat -> Rng] : h = [i \in Nat |-> value(h, i)]
  BY <1>9
<1>11. w = [i \in Nat |-> value(w, i)]
  BY <1>10
<1> HIDE DEF w, body, m
<1>12. \A i \in Nat : w[i] = IF i = 0 THEN start ELSE step(w[i - 1])
  BY <1>2, <1>11
<1>13. w[0] = start
  BY <1>12
<1>14. ASSUME NEW n \in Nat PROVE w[n + 1] = step(w[n])
  <2>1. n + 1 \in Nat /\ n + 1 # 0 /\ (n + 1) - 1 = n
    OBVIOUS
  <2>2. w[n + 1] = IF n + 1 = 0 THEN start ELSE step(w[(n + 1) - 1])
    BY <1>12, <2>1
  <2> QED
    BY <2>1, <2>2
<1> DEFINE W == {n \in Nat : w[n] \in Rng}
<1>15. 0 \in W
  BY <1>3, <1>13
<1>16. ASSUME NEW n \in W PROVE n + 1 \in W
  BY <1>4, <1>14
<1>17. W = Nat
  <2>1. W \in SUBSET Nat
    OBVIOUS
  <2> HIDE DEF W
  <2> QED
    BY <1>15, <1>16, <2>1, Induct
<1>18. \A n \in Nat : w[n] \in Rng
  BY <1>17
<1> QED
  BY <1>1, <1>13, <1>14, <1>18 DEF start, step, Rng

(* One value read after one list.                                          *)
ReadTogether(dec, data, n, f, y, x, d) ==
  ReadItems(dec, n, data) = {<<f, y>>} /\ dec[y] = {<<x, d>>}
    => ReadItems(dec, n + 1, data) = {<<Append(f, x), d>>}

LEMMA ReadOneMore ==
  ASSUME NEW V, NEW dec, Typed(V, dec), NEW data \in Data, NEW n \in Nat,
         NEW f, NEW y, NEW x, NEW d
  PROVE  ReadTogether(dec, data, n, f, y, x, d)
<1> SUFFICES ASSUME ReadItems(dec, n, data) = {<<f, y>>}, dec[y] = {<<x, d>>}
             PROVE  ReadItems(dec, n + 1, data) = {<<Append(f, x), d>>}
  BY DEF ReadTogether
<1> DEFINE A == ReadItems(dec, n, data)
           B == ReadItems(dec, n + 1, data)
           part(r) == {<<Append(r[1], u[1]), u[2]>> : u \in dec[r[2]]}
           q == <<f, y>>
<1>1. B = UNION {part(r) : r \in A}
  BY ReadItemsUnfolds
<1>2. q[1] = f /\ q[2] = y
  OBVIOUS
<1>3. A = {q}
  OBVIOUS
<1> HIDE DEF A, B, q
<1>4. part(q) = {<<Append(f, x), d>>}
  <2> DEFINE w == <<x, d>>
             g == Append(f, x)
             S == dec[y]
  <2>1. w[1] = x /\ w[2] = d /\ S = {w}
    OBVIOUS
  <2>2. part(q) = {<<Append(f, u[1]), u[2]>> : u \in S}
    BY <1>2
  <2> HIDE DEF w, S, part
  <2>3. {<<Append(f, u[1]), u[2]>> : u \in S} = {<<g, d>>}
    BY <2>1
  <2> QED
    BY <2>2, <2>3
<1> HIDE DEF part
<1>5. {part(r) : r \in A} = {part(q)}
  BY <1>3
<1> QED
  BY <1>1, <1>4, <1>5 DEF B

LEMMA ReadsTyped ==
  ASSUME NEW V, NEW dec, NEW size, Reads(V, dec, size)
  PROVE  Typed(V, dec)
BY DEF Reads, Typed

ListWritten(enc, dec, size, s) ==
  /\ Items(enc, s) # {} /\ Items(enc, s) \in SUBSET Data
  /\ \A e \in Items(enc, s) :
       Len(e) = ListSize(size, s) /\ \A d \in Data : ReadItems(dec, Len(s), e \o d) = {<<s, d>>}

(* A list is read back when its values are, and has the sizes of its values*)
(* together.                                                               *)
LEMMA ItemsWrite ==
  ASSUME NEW V, NEW W, NEW enc, NEW dec, NEW size, NEW s \in Seq(V),
         V \in SUBSET W, Typed(W, dec), Writes(V, enc, dec, size)
  PROVE  ListWritten(enc, dec, size, s)
<1> DEFINE G == {n \in Nat : \A t \in Seq(V) : Len(t) = n => ListWritten(enc, dec, size, t)}
<1>0. Encoded(V, enc) /\ Sized(V, size)
  BY DEF Writes, Written, Encoded, Sized
<1>1. \A v \in V : enc[v] \in SUBSET Data /\ enc[v] # {} /\ size[v] \in Nat
  BY DEF Writes, Written
<1>2. 0 \in G
  <2>1. ListWritten(enc, dec, size, <<>>)
    <3>1. Items(enc, <<>>) = {<<>>} /\ ListSize(size, <<>>) = 0
      BY ItemsEmpty, ListSizeEmpty
    <3>2. \A d \in Data : ReadItems(dec, 0, d) = {<<<<>>, d>>}
      <4>1. ASSUME NEW d \in Data PROVE ReadItems(dec, 0, d) = {<<<<>>, d>>}
        BY ReadItemsUnfolds
      <4> QED
        BY <4>1
    <3>3. \A d \in Data : <<>> \o d = d
      BY DataConcat
    <3>4. <<>> \in Data /\ Len(<<>>) = 0
      BY DEF Data
    <3> QED
      BY <3>1, <3>2, <3>3, <3>4 DEF ListWritten
  <2>2. \A t \in Seq(V) : Len(t) = 0 => t = <<>>
    BY EmptySeq
  <2> QED
    BY <2>1, <2>2
<1>3. ASSUME NEW n \in G PROVE n + 1 \in G
  <2>0. n \in Nat /\ \A t \in Seq(V) : Len(t) = n => ListWritten(enc, dec, size, t)
    OBVIOUS
  <2> HIDE DEF G
  <2>1. ASSUME NEW t \in Seq(V), Len(t) = n + 1 PROVE ListWritten(enc, dec, size, t)
    <3>1. t # <<>>
      BY <2>0, <2>1, EmptySeq
    <3>2. PICK f \in Seq(V), x \in V : t = Append(f, x)
      BY <3>1, SequenceEmptyOrAppend
    <3>3. Len(f) = n
      <4>1. Len(t) = Len(f) + 1 /\ Len(f) \in Nat
        BY <3>2, AppendProperties, LenProperties
      <4> QED
        BY <2>0, <2>1, <4>1
    <3>4. ListWritten(enc, dec, size, f)
      BY <2>0, <3>3
    <3> DEFINE A == Items(enc, f)
               B == enc[x]
    <3>5. Items(enc, t) = Join(A, B)
      BY <1>0, <3>2, ItemsUnfolds
    <3>6. ListSize(size, t) = ListSize(size, f) + size[x] /\ ListSize(size, f) \in Nat
      BY <1>0, <3>2, ListSizeUnfolds
    <3>7. A \in SUBSET Data /\ A # {} /\ B \in SUBSET Data /\ B # {}
      BY <1>1, <3>4 DEF ListWritten
    <3>8. \A a \in A : Len(a) = ListSize(size, f) /\ \A d \in Data : ReadItems(dec, n, a \o d) = {<<f, d>>}
      BY <3>3, <3>4 DEF ListWritten
    <3>9. \A b \in B : Len(b) = size[x] /\ \A d \in Data : dec[b \o d] = {<<x, d>>}
      BY DEF Writes, Written
    <3> HIDE DEF A, B
    <3>10. Join(A, B) \in SUBSET Data
      BY <3>7, Joined
    <3>11. Join(A, B) # {}
      <4>1. PICK a \in A, b \in B : TRUE
        BY <3>7
      <4>2. a \o b \in Join(A, B)
        BY JoinedIn
      <4> QED
        BY <4>2
    <3>12. ASSUME NEW e \in Join(A, B)
           PROVE  Len(e) = ListSize(size, t) /\ \A d \in Data : ReadItems(dec, n + 1, e \o d) = {<<t, d>>}
      <4>0. PICK a \in A, b \in B : Glued(e, a, b)
        BY JoinedGlued
      <4>1. e = a \o b
        BY <4>0 DEF Glued
      <4>2. a \in Data /\ b \in Data
        BY <3>7
      <4>3. Len(e) = Len(a) + Len(b)
        BY <4>1, <4>2, DataConcat
      <4>4. Len(e) = ListSize(size, t)
        BY <1>1, <3>6, <3>8, <3>9, <4>3
      <4>5. ASSUME NEW d \in Data PROVE ReadItems(dec, n + 1, e \o d) = {<<t, d>>}
        <5> DEFINE y == b \o d
                   z == a \o y
        <5>1. y \in Data /\ z \in Data
          BY <4>2, DataConcat
        <5>2. e \o d = z
          BY <4>1, <4>2, DataAssociates
        <5>3. ReadItems(dec, n, z) = {<<f, y>>} /\ dec[y] = {<<x, d>>}
          <6> HIDE DEF y
          <6>1. ReadItems(dec, n, z) = {<<f, y>>}
            BY <3>8, <5>1
          <6>2. dec[y] = {<<x, d>>}
            BY <3>9 DEF y
          <6> QED
            BY <6>1, <6>2
        <5> HIDE DEF y, z
        <5>5. ReadItems(dec, n + 1, z) = {<<Append(f, x), d>>}
          <6>1. ReadTogether(dec, z, n, f, y, x, d)
            BY <2>0, <5>1, ReadOneMore
          <6> QED
            BY <5>3, <6>1 DEF ReadTogether
        <5> QED
          BY <3>2, <5>2, <5>5
      <4> QED
        BY <4>4, <4>5
    <3> QED
      BY <2>1, <3>5, <3>10, <3>11, <3>12 DEF ListWritten
  <2> QED
    BY <2>0, <2>1 DEF G
<1>4. G = Nat
  <2>1. G \in SUBSET Nat
    OBVIOUS
  <2> HIDE DEF G
  <2> QED
    BY <1>2, <1>3, <2>1, Induct
<1>5. Len(s) \in Nat
  BY LenProperties
<1> QED
  BY <1>4, <1>5

ListRead(V, dec, size, n) ==
  \A data \in Data : \A r \in ReadItems(dec, n, data) :
    /\ r[1] \in Seq(V) /\ Len(r[1]) = n /\ r[2] \in Data /\ r = <<r[1], r[2]>>
    /\ ReadItems(dec, n, data) = {r} /\ ListSize(size, r[1]) + Len(r[2]) <= Len(data)
    /\ \A more \in Data : ReadItems(dec, n, data \o more) = {<<r[1], r[2] \o more>>}

(* What is read as a list is written in no more bytes than were read.      *)
LEMMA ItemsRead ==
  ASSUME NEW V, NEW dec, NEW size, Sized(V, size), Reads(V, dec, size), NEW n \in Nat
  PROVE  ListRead(V, dec, size, n)
<1> DEFINE G == {k \in Nat : ListRead(V, dec, size, k)}
<1>1. Typed(V, dec) /\ \A v \in V : size[v] \in Nat
  BY ReadsTyped DEF Sized
<1>2. 0 \in G
  <2>1. \A d \in Data : ReadItems(dec, 0, d) = {<<<<>>, d>>}
    BY <1>1, ReadItemsUnfolds
  <2>2. ListSize(size, <<>>) = 0 /\ <<>> \in Seq(V) /\ Len(<<>>) = 0
    BY ListSizeEmpty, EmptySeq
  <2>3. \A d \in Data : Len(d) \in Nat
    BY DataConcat
  <2>4. \A d, more \in Data : d \o more \in Data
    BY DataConcat
  <2>5. ASSUME NEW data \in Data, NEW r \in ReadItems(dec, 0, data)
        PROVE  /\ r[1] \in Seq(V) /\ Len(r[1]) = 0 /\ r[2] \in Data /\ r = <<r[1], r[2]>>
               /\ ReadItems(dec, 0, data) = {r} /\ ListSize(size, r[1]) + Len(r[2]) <= Len(data)
               /\ \A more \in Data : ReadItems(dec, 0, data \o more) = {<<r[1], r[2] \o more>>}
    <3>1. r = <<<<>>, data>> /\ r[1] = <<>> /\ r[2] = data
      BY <2>1
    <3>2. \A more \in Data : ReadItems(dec, 0, data \o more) = {<<<<>>, data \o more>>}
      BY <2>1, <2>4
    <3>3. ListSize(size, r[1]) + Len(r[2]) <= Len(data)
      BY <2>2, <2>3, <3>1
    <3> QED
      BY <2>1, <2>2, <3>1, <3>2, <3>3
  <2>6. ListRead(V, dec, size, 0)
    BY <2>5 DEF ListRead
  <2> QED
    BY <2>6
<1>3. ASSUME NEW k \in G PROVE k + 1 \in G
  <2>0. k \in Nat /\ ListRead(V, dec, size, k)
    OBVIOUS
  <2> HIDE DEF G
  <2>1. ASSUME NEW data \in Data, NEW r \in ReadItems(dec, k + 1, data)
        PROVE  /\ r[1] \in Seq(V) /\ Len(r[1]) = k + 1 /\ r[2] \in Data /\ r = <<r[1], r[2]>>
               /\ ReadItems(dec, k + 1, data) = {r} /\ ListSize(size, r[1]) + Len(r[2]) <= Len(data)
               /\ \A more \in Data : ReadItems(dec, k + 1, data \o more) = {<<r[1], r[2] \o more>>}
    <3>1. \A d \in Data : ReadItems(dec, k + 1, d)
            = UNION {{<<Append(q[1], u[1]), u[2]>> : u \in dec[q[2]]} : q \in ReadItems(dec, k, d)}
      BY <1>1, <2>0, ReadItemsUnfolds
    <3>0. PICK q \in ReadItems(dec, k, data) : r \in {<<Append(q[1], u[1]), u[2]>> : u \in dec[q[2]]}
      BY <3>1
    <3>2. PICK u \in dec[q[2]] : r = <<Append(q[1], u[1]), u[2]>>
      BY <3>0
    <3>3. /\ q[1] \in Seq(V) /\ Len(q[1]) = k /\ q[2] \in Data /\ q = <<q[1], q[2]>>
          /\ ReadItems(dec, k, data) = {q} /\ ListSize(size, q[1]) + Len(q[2]) <= Len(data)
          /\ \A more \in Data : ReadItems(dec, k, data \o more) = {<<q[1], q[2] \o more>>}
      BY <2>0 DEF ListRead
    <3> DEFINE f == q[1]
               y == q[2]
    <3>4. f \in Seq(V) /\ Len(f) = k /\ y \in Data /\ q = <<f, y>>
          /\ ListSize(size, f) + Len(y) <= Len(data)
          /\ \A more \in Data : ReadItems(dec, k, data \o more) = {<<f, y \o more>>}
      BY <3>3
    <3>5. /\ u \in V \X Data /\ dec[y] = {u} /\ size[u[1]] + Len(u[2]) <= Len(y)
          /\ \A more \in Data : dec[y \o more] = {<<u[1], u[2] \o more>>}
      BY <3>4 DEF Reads
    <3> DEFINE x == u[1]
               d == u[2]
    <3>6. x \in V /\ d \in Data /\ u = <<x, d>> /\ r = <<Append(f, x), d>>
      BY <3>2, <3>5
    <3>7. /\ dec[y] = {<<x, d>>} /\ size[x] + Len(d) <= Len(y)
          /\ \A more \in Data : dec[y \o more] = {<<x, d \o more>>}
      BY <3>5, <3>6
    <3>8. ReadItems(dec, k, data) = {<<f, y>>}
      BY <3>3, <3>4
    <3> HIDE DEF f, y, x, d
    <3>20. ReadItems(dec, k + 1, data)
             = UNION {{<<Append(p[1], v[1]), v[2]>> : v \in dec[p[2]]} : p \in {<<f, y>>}}
      BY <3>1, <3>8
    <3>21. UNION {{<<Append(p[1], v[1]), v[2]>> : v \in dec[p[2]]} : p \in {<<f, y>>}}
             = {<<Append(f, v[1]), v[2]>> : v \in dec[y]}
      OBVIOUS
    <3>22. {<<Append(f, v[1]), v[2]>> : v \in dec[y]} = {<<Append(f, x), d>>}
      BY <3>7
    <3>9. ReadItems(dec, k + 1, data) = {r}
      BY <3>6, <3>20, <3>21, <3>22
    <3>10. ASSUME NEW more \in Data
           PROVE  ReadItems(dec, k + 1, data \o more) = {<<Append(f, x), d \o more>>}
      <4> DEFINE w == data \o more
                 z == y \o more
      <4>1. w \in Data /\ ReadItems(dec, k, w) = {<<f, z>>} /\ dec[z] = {<<x, d \o more>>}
        BY <3>4, <3>7, DataConcat
      <4> HIDE DEF w, z
      <4>3. ReadItems(dec, k + 1, w) = {<<Append(f, x), d \o more>>}
        <5> DEFINE c == d \o more
        <5>1. ReadTogether(dec, w, k, f, z, x, c)
          BY <1>1, <2>0, <4>1, ReadOneMore
        <5> QED
          BY <4>1, <5>1 DEF ReadTogether
      <4> QED
        BY <4>3 DEF w
    <3>11. ListSize(size, Append(f, x)) = ListSize(size, f) + size[x] /\ ListSize(size, f) \in Nat
      BY <3>4, <3>6, ListSizeUnfolds
    <3>12. Append(f, x) \in Seq(V) /\ Len(Append(f, x)) = k + 1
      BY <3>4, <3>6, AppendProperties
    <3>13. ListSize(size, Append(f, x)) + Len(d) <= Len(data)
      <4>1. Len(d) \in Nat /\ Len(y) \in Nat /\ Len(data) \in Nat /\ size[x] \in Nat
        BY <1>1, <3>4, <3>6, DataConcat
      <4> QED
        BY <3>4, <3>7, <3>11, <4>1
    <3>14. r[1] = Append(f, x) /\ r[2] = d
      BY <3>6
    <3> QED
      BY <3>6, <3>9, <3>10, <3>12, <3>13, <3>14
  <2>2. ListRead(V, dec, size, k + 1)
    BY <2>1 DEF ListRead
  <2> QED
    BY <2>0, <2>2 DEF G
<1>4. G = Nat
  <2>1. G \in SUBSET Nat
    OBVIOUS
  <2> HIDE DEF G
  <2> QED
    BY <1>2, <1>3, <2>1, Induct
<1> QED
  BY <1>4

-----------------------------------------------------------------------------
(* One reading after the other: pairs, and lengths with what they count.   *)

(* dec reads what head reads and goes on with rest.                        *)
Then(head, rest, dec) == \A data \in Data : dec[data] = UNION {rest[r] : r \in head[data]}

RestReads(V, rest, size, n, k) ==
  \A d \in Data : \A x \in rest[<<n, d>>] :
    /\ x \in V \X Data /\ rest[<<n, d>>] = {x} /\ size[x[1]] + Len(x[2]) <= k + Len(d)
    /\ \A more \in Data : rest[<<n, d \o more>>] = {<<x[1], x[2] \o more>>}

RestWrites(rest, n, encs, v, l) ==
  /\ encs \in SUBSET Data /\ encs # {} /\ l \in Nat
  /\ \A e \in encs : Len(e) = l /\ \A d \in Data : rest[<<n, e \o d>>] = {<<v, d>>}

LEMMA ThenOne ==
  ASSUME NEW head, NEW rest, NEW dec, Then(head, rest, dec), NEW data \in Data, NEW r, head[data] = {r}
  PROVE  dec[data] = rest[r]
<1>1. dec[data] = UNION {rest[q] : q \in head[data]}
  BY DEF Then
<1>2. {rest[q] : q \in head[data]} = {rest[r]}
  OBVIOUS
<1> QED
  BY <1>1, <1>2

(* Two readings, the second of which starts where the first stops.         *)
LEMMA ThenReads ==
  ASSUME NEW U, NEW head, NEW width, Reads(U, head, width), Sized(U, width),
         NEW V, NEW rest, NEW dec, NEW size, Sized(V, size), Then(head, rest, dec),
         \A n \in U : RestReads(V, rest, size, n, width[n])
  PROVE  Reads(V, dec, size)
<1>1. ASSUME NEW data \in Data, NEW x \in dec[data]
      PROVE  /\ x \in V \X Data /\ dec[data] = {x} /\ size[x[1]] + Len(x[2]) <= Len(data)
             /\ \A more \in Data : dec[data \o more] = {<<x[1], x[2] \o more>>}
  <2>1. PICK r \in head[data] : TRUE
    BY DEF Then
  <2>2. /\ r \in U \X Data /\ head[data] = {r} /\ width[r[1]] + Len(r[2]) <= Len(data)
        /\ \A more \in Data : head[data \o more] = {<<r[1], r[2] \o more>>}
    BY DEF Reads
  <2> DEFINE n == r[1]
             d == r[2]
  <2>3. n \in U /\ d \in Data /\ r = <<n, d>>
    BY <2>2
  <2>4. width[n] + Len(d) <= Len(data) /\ \A more \in Data : head[data \o more] = {<<n, d \o more>>}
    BY <2>2
  <2>5. dec[data] = rest[r]
    BY <2>2, ThenOne
  <2> HIDE DEF n, d
  <2>6. RestReads(V, rest, size, n, width[n])
    BY <2>3
  <2>7. /\ x \in V \X Data /\ rest[r] = {x} /\ size[x[1]] + Len(x[2]) <= width[n] + Len(d)
        /\ \A more \in Data : rest[<<n, d \o more>>] = {<<x[1], x[2] \o more>>}
    BY <2>3, <2>5, <2>6 DEF RestReads
  <2>8. ASSUME NEW more \in Data PROVE dec[data \o more] = {<<x[1], x[2] \o more>>}
    <3> DEFINE w == data \o more
               q == <<n, d \o more>>
    <3>1. w \in Data /\ head[w] = {q}
      BY <2>4, DataConcat
    <3>2. rest[q] = {<<x[1], x[2] \o more>>}
      BY <2>7
    <3> HIDE DEF w, q
    <3>3. dec[w] = rest[q]
      BY <3>1, ThenOne
    <3> QED
      BY <3>2, <3>3 DEF w
  <2>9. size[x[1]] + Len(x[2]) <= Len(data)
    <3>1. x[1] \in V /\ x[2] \in Data
      BY <2>7
    <3>2. size[x[1]] \in Nat /\ width[n] \in Nat
      BY <2>3, <3>1 DEF Sized
    <3>3. Len(x[2]) \in Nat /\ Len(d) \in Nat /\ Len(data) \in Nat
      BY <2>3, <3>1, DataConcat
    <3> QED
      BY <2>4, <2>7, <3>2, <3>3
  <2> QED
    BY <2>5, <2>7, <2>8, <2>9
<1> QED
  BY <1>1 DEF Reads

(* Two encodings, one behind the other, are read back by two readings.     *)
LEMMA ThenWrites ==
  ASSUME NEW head, NEW rest, NEW dec, Then(head, rest, dec),
         NEW n, NEW A, NEW k, Written(A, head, n, k),
         NEW v, NEW B, NEW l, RestWrites(rest, n, B, v, l)
  PROVE  Written(Join(A, B), dec, v, k + l)
<1>1. /\ A \in SUBSET Data /\ A # {} /\ k \in Nat
      /\ \A a \in A : Len(a) = k /\ \A d \in Data : head[a \o d] = {<<n, d>>}
  BY DEF Written
<1>2. /\ B \in SUBSET Data /\ B # {} /\ l \in Nat
      /\ \A b \in B : Len(b) = l /\ \A d \in Data : rest[<<n, b \o d>>] = {<<v, d>>}
  BY DEF RestWrites
<1>3. Join(A, B) \in SUBSET Data
  BY <1>1, <1>2, Joined
<1>4. Join(A, B) # {}
  <2>1. PICK a \in A, b \in B : TRUE
    BY <1>1, <1>2
  <2>2. a \o b \in Join(A, B)
    BY JoinedIn
  <2> QED
    BY <2>2
<1>5. ASSUME NEW e \in Join(A, B)
      PROVE  Len(e) = k + l /\ \A d \in Data : dec[e \o d] = {<<v, d>>}
  <2>1. PICK a \in A, b \in B : e = a \o b
    BY JoinedFrom
  <2>2. a \in Data /\ b \in Data
    BY <1>1, <1>2
  <2>3. Len(e) = Len(a) + Len(b)
    BY <2>1, <2>2, DataConcat
  <2>4. ASSUME NEW d \in Data PROVE dec[e \o d] = {<<v, d>>}
    <3> DEFINE y == b \o d
               z == a \o y
               q == <<n, y>>
    <3>1. y \in Data /\ z \in Data
      BY <2>2, DataConcat
    <3>2. e \o d = z
      BY <2>1, <2>2, DataAssociates
    <3>3. rest[q] = {<<v, d>>}
      BY <1>2
    <3> HIDE DEF y
    <3>4. head[z] = {q}
      BY <1>1, <3>1
    <3> HIDE DEF z, q
    <3>5. dec[z] = rest[q]
      BY <3>1, <3>4, ThenOne
    <3> QED
      BY <3>2, <3>3, <3>5
  <2> QED
    BY <1>1, <1>2, <2>3, <2>4
<1>6. k + l \in Nat
  BY <1>1, <1>2
<1> QED
  BY <1>3, <1>4, <1>5, <1>6 DEF Written

-----------------------------------------------------------------------------
(* Pairs.                                                                  *)

\* What is read after the first value of a pair.
SecondOf(V, dec2) == [r \in V \X Data |-> {<<<<r[1], x[1]>>, x[2]>> : x \in dec2[r[2]]}]

LEMMA PairThen ==
  ASSUME NEW V, NEW dec1, NEW dec2, Typed(V, dec1), NEW dec,
         \A d \in Data : dec[d] = ReadPair(dec1, dec2, d)
  PROVE  Then(dec1, SecondOf(V, dec2), dec)
<1>1. ASSUME NEW d \in Data PROVE dec[d] = UNION {SecondOf(V, dec2)[r] : r \in dec1[d]}
  <2> DEFINE part(r) == {<<<<r[1], x[1]>>, x[2]>> : x \in dec2[r[2]]}
  <2>1. dec[d] = UNION {part(r) : r \in dec1[d]}
    BY DEF ReadPair
  <2>2. \A r \in dec1[d] : r \in V \X Data
    BY DEF Typed
  <2>3. \A r \in V \X Data : SecondOf(V, dec2)[r] = part(r)
    BY DEF SecondOf
  <2> HIDE DEF part
  <2> QED
    BY <2>1, <2>2, <2>3
<1> QED
  BY <1>1 DEF Then

\* enc, dec and size are those of pairs.
PairCoded(enc1, dec1, size1, enc2, dec2, size2, V, enc, dec, size) ==
  /\ \A v \in V : enc[v] = Join(enc1[v[1]], enc2[v[2]]) /\ size[v] = size1[v[1]] + size2[v[2]]
  /\ \A d \in Data : dec[d] = ReadPair(dec1, dec2, d)

LEMMA PairWrites ==
  ASSUME NEW V1, NEW enc1, NEW dec1, NEW size1, Writes(V1, enc1, dec1, size1), Typed(V1, dec1),
         NEW V2, NEW enc2, NEW dec2, NEW size2, Writes(V2, enc2, dec2, size2),
         NEW V, V \in SUBSET (V1 \X V2), NEW enc, NEW dec, NEW size,
         PairCoded(enc1, dec1, size1, enc2, dec2, size2, V, enc, dec, size)
  PROVE  Writes(V, enc, dec, size)
<1> DEFINE rest == SecondOf(V1, dec2)
<1>1. Then(dec1, rest, dec)
  BY PairThen DEF PairCoded
<1>2. ASSUME NEW v \in V PROVE Written(enc[v], dec, v, size[v])
  <2> DEFINE a == v[1]
             b == v[2]
  <2>1. a \in V1 /\ b \in V2 /\ v = <<a, b>>
    OBVIOUS
  <2>2. enc[v] = Join(enc1[a], enc2[b]) /\ size[v] = size1[a] + size2[b]
    BY DEF PairCoded
  <2> HIDE DEF a, b
  <2>3. Written(enc1[a], dec1, a, size1[a]) /\ Written(enc2[b], dec2, b, size2[b])
    BY <2>1 DEF Writes
  <2>4. ASSUME NEW e \in enc2[b], NEW d \in Data PROVE rest[<<a, e \o d>>] = {<<v, d>>}
    <3> DEFINE y == e \o d
               q == <<a, y>>
               w == <<b, d>>
    <3>1. y \in Data
      <4>1. e \in Data
        BY <2>3 DEF Written
      <4> QED
        BY <4>1, DataConcat
    <3>2. dec2[y] = {w} /\ w[1] = b /\ w[2] = d
      BY <2>3 DEF Written
    <3> HIDE DEF y
    <3>3. q \in V1 \X Data /\ q[1] = a /\ q[2] = y
      BY <2>1, <3>1
    <3> HIDE DEF q, w
    <3>4. rest[q] = {<<<<a, x[1]>>, x[2]>> : x \in dec2[y]}
      BY <3>3 DEF SecondOf
    <3>5. rest[q] = {<<<<a, b>>, d>>}
      BY <3>2, <3>4
    <3> QED
      BY <2>1, <3>5 DEF q, y
  <2>5. RestWrites(rest, a, enc2[b], v, size2[b])
    BY <2>3, <2>4 DEF RestWrites, Written
  <2>6. Written(Join(enc1[a], enc2[b]), dec, v, size1[a] + size2[b])
    <3> HIDE DEF rest
    <3> QED
      BY <1>1, <2>3, <2>5, ThenWrites
  <2> QED
    BY <2>2, <2>6
<1> QED
  BY <1>2 DEF Writes

LEMMA PairReads ==
  ASSUME NEW V1, NEW enc1, NEW dec1, NEW size1, Reads(V1, dec1, size1), Sized(V1, size1),
         NEW V2, NEW enc2, NEW dec2, NEW size2, Reads(V2, dec2, size2), Sized(V2, size2),
         NEW enc, NEW dec, NEW size,
         PairCoded(enc1, dec1, size1, enc2, dec2, size2, V1 \X V2, enc, dec, size)
  PROVE  Reads(V1 \X V2, dec, size) /\ Sized(V1 \X V2, size)
<1> DEFINE rest == SecondOf(V1, dec2)
           V == V1 \X V2
<1>1. Then(dec1, rest, dec)
  <2>1. Typed(V1, dec1)
    BY ReadsTyped
  <2> QED
    BY <2>1, PairThen DEF PairCoded
<1>2. Sized(V, size)
  <2>1. ASSUME NEW v \in V PROVE size[v] \in Nat
    <3>1. v[1] \in V1 /\ v[2] \in V2
      OBVIOUS
    <3>2. size[v] = size1[v[1]] + size2[v[2]]
      BY DEF PairCoded
    <3>3. size1[v[1]] \in Nat /\ size2[v[2]] \in Nat
      BY <3>1 DEF Sized
    <3> QED
      BY <3>2, <3>3
  <2> QED
    BY <2>1 DEF Sized
<1>3. ASSUME NEW n \in V1 PROVE RestReads(V, rest, size, n, size1[n])
  <2>1. ASSUME NEW d \in Data PROVE rest[<<n, d>>] = {<<<<n, x[1]>>, x[2]>> : x \in dec2[d]}
    BY DEF SecondOf
  <2>2. ASSUME NEW d \in Data, NEW x \in rest[<<n, d>>]
        PROVE  /\ x \in V \X Data /\ rest[<<n, d>>] = {x} /\ size[x[1]] + Len(x[2]) <= size1[n] + Len(d)
               /\ \A more \in Data : rest[<<n, d \o more>>] = {<<x[1], x[2] \o more>>}
    <3>1. PICK u \in dec2[d] : x = <<<<n, u[1]>>, u[2]>>
      BY <2>1, <2>2
    <3>2. /\ u \in V2 \X Data /\ dec2[d] = {u} /\ size2[u[1]] + Len(u[2]) <= Len(d)
          /\ \A more \in Data : dec2[d \o more] = {<<u[1], u[2] \o more>>}
      BY DEF Reads
    <3> DEFINE b == u[1]
               f == u[2]
               p == <<n, b>>
    <3>3. b \in V2 /\ f \in Data /\ x = <<p, f>>
      BY <3>1, <3>2
    <3>4. /\ size2[b] + Len(f) <= Len(d)
          /\ \A more \in Data : dec2[d \o more] = {<<b, f \o more>>}
      BY <3>2
    <3>5. {<<<<n, t[1]>>, t[2]>> : t \in dec2[d]} = {x}
      BY <3>1, <3>2
    <3>6. p \in V /\ p[1] = n /\ p[2] = b
      BY <3>3
    <3> HIDE DEF b, f
    <3>7. ASSUME NEW more \in Data PROVE rest[<<n, d \o more>>] = {<<p, f \o more>>}
      <4> DEFINE y == d \o more
                 w == <<b, f \o more>>
      <4>1. y \in Data
        BY DataConcat
      <4>2. dec2[y] = {w} /\ w[1] = b /\ w[2] = f \o more
        BY <3>4
      <4> HIDE DEF y, w, rest
      <4>3. rest[<<n, y>>] = {<<<<n, t[1]>>, t[2]>> : t \in dec2[y]}
        BY <2>1, <4>1
      <4>4. rest[<<n, y>>] = {<<<<n, b>>, f \o more>>}
        BY <4>2, <4>3
      <4> QED
        BY <4>4 DEF y
    <3>8. size[p] = size1[n] + size2[b] /\ size1[n] \in Nat /\ size2[b] \in Nat
      <4>1. size[p] = size1[p[1]] + size2[p[2]]
        <5> HIDE DEF p
        <5> QED
          BY <3>6 DEF PairCoded
      <4> QED
        BY <3>3, <3>6, <4>1 DEF Sized
    <3> HIDE DEF rest, p, V
    <3>9. x[1] = p /\ x[2] = f
      BY <3>3
    <3>10. size[p] + Len(f) <= size1[n] + Len(d)
      <4>1. Len(f) \in Nat /\ Len(d) \in Nat
        BY <3>3, DataConcat
      <4> QED
        BY <3>4, <3>8, <4>1
    <3>11. rest[<<n, d>>] = {x}
      BY <2>1, <3>5
    <3> QED
      BY <3>3, <3>6, <3>7, <3>9, <3>10, <3>11
  <2> QED
    BY <2>2 DEF RestReads
<1> QED
  <2> HIDE DEF rest, V
  <2>1. Reads(V, dec, size)
    BY <1>1, <1>2, <1>3, ThenReads
  <2> QED
    BY <1>2, <2>1 DEF V

-----------------------------------------------------------------------------
(* The kinds without parts.                                                *)

(* The numbers that a word holds.                                          *)
WordValues == 0..(Wide - 1)

LEMMA Widths ==
  /\ Wide \in Nat /\ Wide >= 2 /\ MaxInt \in Nat /\ MaxInt >= 0 /\ 2 * (MaxInt + 1) <= Wide
  /\ 0..MaxInt \subseteq WordValues /\ MaxLen \in 1..MaxLen
<1>1. MaxLen \in Nat /\ MaxLen >= 1
  BY VarintAssumption
<1>2. Wide \in Nat /\ Wide >= 2
  BY <1>1, CapacityUnfolds DEF Wide
<1>3. \A w \in Nat : w >= 2 => w \div 2 \in Nat /\ w \div 2 >= 1 /\ 2 * (w \div 2) <= w
  OBVIOUS
<1>4. Wide \div 2 \in Nat /\ Wide \div 2 >= 1 /\ 2 * (Wide \div 2) <= Wide
  BY <1>2, <1>3
<1> DEFINE h == Wide \div 2
<1>5. h \in Nat /\ h >= 1 /\ 2 * h <= Wide /\ MaxInt = h - 1
  BY <1>4 DEF MaxInt
<1> HIDE DEF h
<1>6. MaxInt \in Nat /\ MaxInt >= 0 /\ 2 * (MaxInt + 1) <= Wide /\ MaxInt < Wide
  BY <1>2, <1>5
<1>7. 0..MaxInt \subseteq WordValues
  BY <1>2, <1>6 DEF WordValues
<1> QED
  BY <1>1, <1>2, <1>6, <1>7

LEMMA VarintWrites ==
  ASSUME NEW x \in WordValues
  PROVE  Written({AppendUvarint[x]}, Uvarint[MaxLen], x, UvarintLen[x])
<1>1. VarintWritten[x] = {AppendUvarint[x]}
  BY Widths DEF WordValues, VarintWritten
<1>2. Writes(WordValues, VarintWritten, Uvarint[MaxLen], UvarintLen)
  BY VarintCodec DEF Codec, WordValues
<1> QED
  BY <1>1, <1>2 DEF Writes

LEMMA VarintReads ==
  /\ Reads(WordValues, Uvarint[MaxLen], UvarintLen) /\ Sized(WordValues, UvarintLen)
  /\ Typed(WordValues, Uvarint[MaxLen])
<1>1. Reads(WordValues, Uvarint[MaxLen], UvarintLen)
  BY VarintCodec DEF Codec, WordValues
<1>2. Sized(WordValues, UvarintLen)
  BY UvarintLenUnfolds, Widths DEF WordValues, Sized
<1>3. Typed(WordValues, Uvarint[MaxLen])
  BY <1>1, ReadsTyped
<1> QED
  BY <1>1, <1>2, <1>3

(* zigzagDecode takes back what zigzagUint64 makes of a signed number.     *)
LEMMA ZigzagInverse ==
  /\ \A v \in Int : Zigzag(v) \in Nat /\ ZigzagDecode(Zigzag(v)) = v
  /\ \A u \in Nat : ZigzagDecode(u) \in Int /\ Zigzag(ZigzagDecode(u)) = u
<1>1. ASSUME NEW v \in Int PROVE Zigzag(v) \in Nat /\ ZigzagDecode(Zigzag(v)) = v
  <2>1. CASE v >= 0
    <3>1. Zigzag(v) = 2 * v /\ 2 * v \in Nat /\ (2 * v) % 2 = 0 /\ (2 * v) \div 2 = v
      BY <2>1 DEF Zigzag
    <3> QED
      BY <3>1 DEF ZigzagDecode
  <2>2. CASE ~(v >= 0)
    <3> DEFINE u == -(2 * v) - 1
    <3>1. Zigzag(v) = u /\ u \in Nat /\ u % 2 = 1 /\ (u + 1) \div 2 = -v
      BY <2>2 DEF Zigzag
    <3> HIDE DEF u
    <3>2. ZigzagDecode(u) = -(-v)
      BY <3>1 DEF ZigzagDecode
    <3> QED
      BY <3>1, <3>2
  <2> QED
    BY <2>1, <2>2
<1>2. ASSUME NEW u \in Nat PROVE ZigzagDecode(u) \in Int /\ Zigzag(ZigzagDecode(u)) = u
  <2>1. CASE u % 2 = 0
    <3>1. u \div 2 \in Nat /\ 2 * (u \div 2) = u
      BY <2>1
    <3>2. ZigzagDecode(u) = u \div 2
      BY <2>1 DEF ZigzagDecode
    <3> QED
      BY <3>1, <3>2 DEF Zigzag
  <2>2. CASE u % 2 # 0
    <3> DEFINE w == (u + 1) \div 2
    <3>1. w \in Nat /\ 2 * w = u + 1
      BY <2>2
    <3>2. ZigzagDecode(u) = -w
      BY <2>2 DEF ZigzagDecode
    <3> HIDE DEF w
    <3>3. w > 0 /\ -(2 * (-w)) - 1 = u
      BY <3>1
    <3> QED
      BY <3>1, <3>2, <3>3 DEF Zigzag
  <2> QED
    BY <2>1, <2>2
<1> QED
  BY <1>1, <1>2

(* Unsigned numbers of every size, and signed ones.                        *)
LEMMA UintCodec ==
  ASSUME NEW l \in 1..Wide, NEW enc, NEW dec, NEW size,
         \A v \in 0..(l - 1) : enc[v] = {AppendUvarint[v]} /\ size[v] = UvarintLen[v],
         \A d \in Data : dec[d] = {r \in ReadUvarint(d) : r[1] \in 0..(l - 1)}
  PROVE  Codec(0..(l - 1), enc, dec, size)
<1> DEFINE head == Uvarint[MaxLen]
           V == 0..(l - 1)
<1>1. \A v \in V : v \in WordValues
  BY Widths DEF WordValues
<1>2. \A d \in Data : dec[d] = {r \in head[d] : r[1] \in V}
  BY DEF ReadUvarint
<1>3. Reads(WordValues, head, UvarintLen)
  BY VarintReads
<1> HIDE DEF V
<1>4. \A v \in V : enc[v] = {AppendUvarint[v]} /\ size[v] = UvarintLen[v]
  BY DEF V
<1>5. Writes(V, enc, dec, size)
  <2>1. ASSUME NEW v \in V PROVE Written(enc[v], dec, v, size[v])
    <3> DEFINE a == AppendUvarint[v]
               l1 == UvarintLen[v]
    <3>1. Written({a}, head, v, l1)
      BY <1>1, VarintWrites
    <3>3. enc[v] = {a} /\ size[v] = l1
      BY <1>4
    <3> HIDE DEF head, a, l1
    <3>2. ASSUME NEW d \in Data PROVE dec[a \o d] = {<<v, d>>}
      <4> DEFINE y == a \o d
      <4>1. head[y] = {<<v, d>>} /\ a \in Data
        BY <3>1 DEF Written
      <4>2. y \in Data
        BY <4>1, DataConcat
      <4> HIDE DEF y
      <4> QED
        BY <1>2, <4>1, <4>2 DEF y
    <3> QED
      BY <3>1, <3>2, <3>3 DEF Written
  <2> QED
    BY <2>1 DEF Writes
<1>6. Reads(V, dec, size)
  <2>1. ASSUME NEW data \in Data, NEW r \in dec[data]
        PROVE  /\ r \in V \X Data /\ dec[data] = {r} /\ size[r[1]] + Len(r[2]) <= Len(data)
               /\ \A more \in Data : dec[data \o more] = {<<r[1], r[2] \o more>>}
    <3> HIDE DEF head
    <3>1. r \in head[data] /\ r[1] \in V
      BY <1>2
    <3>2. /\ r \in WordValues \X Data /\ head[data] = {r} /\ UvarintLen[r[1]] + Len(r[2]) <= Len(data)
          /\ \A more \in Data : head[data \o more] = {<<r[1], r[2] \o more>>}
      BY <1>3, <3>1 DEF Reads
    <3>3. r \in V \X Data /\ dec[data] = {r}
      BY <1>2, <3>1, <3>2
    <3>4. ASSUME NEW more \in Data PROVE dec[data \o more] = {<<r[1], r[2] \o more>>}
      <4> DEFINE y == data \o more
                 w == <<r[1], r[2] \o more>>
      <4>1. y \in Data /\ head[y] = {w} /\ w[1] \in V
        BY <3>1, <3>2, DataConcat
      <4> HIDE DEF y, w
      <4>2. dec[y] = {w}
        BY <1>2, <4>1
      <4> QED
        BY <4>2 DEF y, w
    <3> QED
      BY <1>4, <3>1, <3>2, <3>3, <3>4
  <2> QED
    BY <2>1 DEF Reads
<1> QED
  BY <1>5, <1>6 DEF Codec, V

LEMMA IntCodec ==
  ASSUME NEW l \in 1..(MaxInt + 1), NEW enc, NEW dec, NEW size,
         \A v \in (-l)..(l - 1) : enc[v] = {AppendUvarint[Zigzag(v)]} /\ size[v] = UvarintLen[Zigzag(v)],
         \A d \in Data : dec[d] = {<<ZigzagDecode(r[1]), r[2]>> :
                                     r \in {r \in ReadUvarint(d) : ZigzagDecode(r[1]) \in (-l)..(l - 1)}}
  PROVE  Codec((-l)..(l - 1), enc, dec, size)
<1> DEFINE head == Uvarint[MaxLen]
           V == (-l)..(l - 1)
<1>1. \A v \in V : Zigzag(v) \in WordValues /\ v \in Int /\ ZigzagDecode(Zigzag(v)) = v
  <2>1. ASSUME NEW v \in V PROVE Zigzag(v) \in WordValues
    <3>1. l \in Nat /\ 2 * l <= Wide /\ v \in Int /\ -l <= v /\ v <= l - 1 /\ Wide \in Nat
      BY Widths
    <3>2. Zigzag(v) \in Nat
      BY <3>1, ZigzagInverse
    <3>3. Zigzag(v) <= Wide - 1
      BY <3>1 DEF Zigzag
    <3> QED
      BY <3>1, <3>2, <3>3 DEF WordValues
  <2> QED
    BY <2>1, ZigzagInverse
<1>2. \A d \in Data : dec[d] = {<<ZigzagDecode(r[1]), r[2]>> : r \in {r \in head[d] : ZigzagDecode(r[1]) \in V}}
  BY DEF ReadUvarint
<1>3. Reads(WordValues, head, UvarintLen)
  BY VarintReads
<1> HIDE DEF V
<1>4. \A v \in V : enc[v] = {AppendUvarint[Zigzag(v)]} /\ size[v] = UvarintLen[Zigzag(v)]
  BY DEF V
<1>a. ASSUME NEW y \in Data, NEW u, NEW d, head[y] = {<<u, d>>}, ZigzagDecode(u) \in V
      PROVE  dec[y] = {<<ZigzagDecode(u), d>>}
  <2> DEFINE w == <<u, d>>
             A == head[y]
  <2>1. w[1] = u /\ w[2] = d /\ A = {w}
    BY <1>a
  <2>2. dec[y] = {<<ZigzagDecode(r[1]), r[2]>> : r \in {r \in A : ZigzagDecode(r[1]) \in V}}
    BY <1>2
  <2> HIDE DEF w, A
  <2>3. {r \in A : ZigzagDecode(r[1]) \in V} = {w}
    BY <1>a, <2>1
  <2> QED
    BY <2>1, <2>2, <2>3
<1>5. Writes(V, enc, dec, size)
  <2>1. ASSUME NEW v \in V PROVE Written(enc[v], dec, v, size[v])
    <3> DEFINE z == Zigzag(v)
    <3>0. z \in WordValues /\ ZigzagDecode(z) = v
      BY <1>1
    <3> HIDE DEF z
    <3>1. Written({AppendUvarint[z]}, head, z, UvarintLen[z])
      BY <3>0, VarintWrites
    <3> HIDE DEF head
    <3>2. ASSUME NEW d \in Data PROVE dec[AppendUvarint[z] \o d] = {<<v, d>>}
      <4> DEFINE y == AppendUvarint[z] \o d
      <4>1. head[y] = {<<z, d>>} /\ AppendUvarint[z] \in Data
        BY <3>1 DEF Written
      <4>2. y \in Data
        BY <4>1, DataConcat
      <4> HIDE DEF y
      <4>3. dec[y] = {<<ZigzagDecode(z), d>>}
        BY <1>a, <3>0, <4>1, <4>2
      <4> QED
        BY <3>0, <4>3 DEF y
    <3>3. enc[v] = {AppendUvarint[z]} /\ size[v] = UvarintLen[z]
      BY <1>4 DEF z
    <3> QED
      BY <3>1, <3>2, <3>3 DEF Written
  <2> QED
    BY <2>1 DEF Writes
<1>6. Reads(V, dec, size)
  <2>1. ASSUME NEW data \in Data, NEW x \in dec[data]
        PROVE  /\ x \in V \X Data /\ dec[data] = {x} /\ size[x[1]] + Len(x[2]) <= Len(data)
               /\ \A more \in Data : dec[data \o more] = {<<x[1], x[2] \o more>>}
    <3> HIDE DEF head
    <3>1. PICK r \in head[data] : ZigzagDecode(r[1]) \in V /\ x = <<ZigzagDecode(r[1]), r[2]>>
      BY <1>2
    <3>2. /\ r \in WordValues \X Data /\ head[data] = {r} /\ UvarintLen[r[1]] + Len(r[2]) <= Len(data)
          /\ \A more \in Data : head[data \o more] = {<<r[1], r[2] \o more>>}
      BY <1>3, <3>1 DEF Reads
    <3> DEFINE u == r[1]
               d == r[2]
               v == ZigzagDecode(u)
    <3>3. u \in WordValues /\ d \in Data /\ r = <<u, d>>
      BY <3>2
    <3>4. x = <<v, d>> /\ v \in V /\ head[data] = {<<u, d>>} /\ UvarintLen[u] + Len(d) <= Len(data)
      BY <3>1, <3>2, <3>3
    <3>5. \A more \in Data : head[data \o more] = {<<u, d \o more>>}
      BY <3>2
    <3>6. Zigzag(v) = u
      BY <3>3, ZigzagInverse, Widths DEF WordValues
    <3>7. size[v] = UvarintLen[u]
      BY <1>4, <3>4, <3>6
    <3> HIDE DEF u, d
    <3>8. dec[data] = {<<v, d>>}
      BY <1>a, <3>4
    <3>9. ASSUME NEW more \in Data PROVE dec[data \o more] = {<<v, d \o more>>}
      <4> DEFINE y == data \o more
                 e == d \o more
      <4>1. y \in Data /\ head[y] = {<<u, e>>}
        BY <3>5, DataConcat
      <4> HIDE DEF y, e
      <4>2. dec[y] = {<<v, e>>}
        BY <1>a, <3>4, <4>1
      <4> QED
        BY <4>2 DEF y, e
    <3> HIDE DEF v
    <3> QED
      BY <3>3, <3>4, <3>7, <3>8, <3>9
  <2> QED
    BY <2>1 DEF Reads
<1> QED
  BY <1>5, <1>6 DEF Codec, V

LEMMA ReadBytesBack ==
  ASSUME NEW p \in Data, NEW d \in Data
  PROVE  ReadBytes(Len(p), p \o d) = {<<p, d>>}
<1> DEFINE a == p \o d
           m == Len(p)
           n == Len(d)
<1>0. p \in Seq(Byte) /\ d \in Seq(Byte)
  BY DEF Data
<1>1. a \in Seq(Byte) /\ m \in Nat /\ n \in Nat /\ Len(a) = m + n
  BY <1>0, ConcatProperties, LenProperties
<1>2. \A i \in 1..(m + n) : a[i] = IF i <= m THEN p[i] ELSE d[i - m]
  BY <1>0, ConcatProperties
<1> HIDE DEF a, m, n
<1>3. SubSeq(a, 1, m) = p
  <2>1. \A i \in 1..m : a[i] \in Byte
    <3>1. \A i \in 1..Len(a) : a[i] \in Byte
      BY <1>1, ElementOfSeq
    <3> QED
      BY <1>1, <3>1
  <2> DEFINE s == SubSeq(a, 1, m)
  <2>2. s \in Seq(Byte) /\ Len(s) = (IF 1 <= m THEN m - 1 + 1 ELSE 0) /\ \A i \in 1..(m - 1 + 1) : s[i] = a[1 + i - 1]
    BY <1>1, <2>1, SubSeqProperties
  <2> HIDE DEF s
  <2>3. Len(s) = m /\ \A i \in 1..m : s[i] = p[i]
    BY <1>1, <1>2, <2>2
  <2>4. s = p
    BY <1>0, <2>2, <2>3, SeqEqual DEF m
  <2> QED
    BY <2>4 DEF s
<1>4. SubSeq(a, m + 1, Len(a)) = d
  <2>1. \A i \in (m + 1)..(m + n) : a[i] \in Byte
    <3>1. \A i \in 1..Len(a) : a[i] \in Byte
      BY <1>1, ElementOfSeq
    <3> QED
      BY <1>1, <3>1
  <2> DEFINE s == SubSeq(a, m + 1, m + n)
             k == m + 1
             l == m + n
  <2>2. k \in Int /\ l \in Int /\ l - k + 1 = n /\ (k <= l <=> n > 0)
    BY <1>1
  <2>3. s = SubSeq(a, k, l) /\ \A i \in k..l : a[i] \in Byte
    BY <2>1
  <2> HIDE DEF k, l, s
  <2>4. s \in Seq(Byte) /\ Len(s) = (IF k <= l THEN l - k + 1 ELSE 0) /\ \A i \in 1..(l - k + 1) : s[i] = a[k + i - 1]
    BY <2>2, <2>3, SubSeqProperties
  <2>5. Len(s) = n
    BY <1>1, <2>2, <2>4
  <2>6. ASSUME NEW i \in 1..n PROVE s[i] = d[i]
    <3>1. k + i - 1 = m + i /\ m + i \in 1..(m + n) /\ ~(m + i <= m) /\ (m + i) - m = i
      BY <1>1 DEF k
    <3> QED
      BY <1>2, <2>2, <2>4, <3>1
  <2>7. s = d
    BY <1>0, <2>4, <2>5, <2>6, SeqEqual DEF n
  <2> QED
    BY <1>1, <2>7 DEF s
<1>5. ~(m > Len(a))
  BY <1>1
<1> QED
  BY <1>3, <1>4, <1>5 DEF ReadBytes, a, m

LEMMA ReadBytesSplit ==
  ASSUME NEW n \in Nat, NEW d \in Data, NEW r \in ReadBytes(n, d)
  PROVE  /\ r[1] \in Data /\ Len(r[1]) = n /\ r[2] \in Data /\ d = r[1] \o r[2]
         /\ r = <<r[1], r[2]>> /\ ReadBytes(n, d) = {r}
<1> DEFINE p == SubSeq(d, 1, n)
           q == SubSeq(d, n + 1, Len(d))
<1>1. n <= Len(d) /\ r = <<p, q>> /\ ReadBytes(n, d) = {r}
  <2>1. ~(n > Len(d))
    BY DEF ReadBytes
  <2>2. ReadBytes(n, d) = {<<p, q>>}
    BY <2>1 DEF ReadBytes
  <2>3. Len(d) \in Nat
    BY DataConcat
  <2>4. n <= Len(d)
    BY <2>1, <2>3
  <2> HIDE DEF p, q
  <2> QED
    BY <2>2, <2>4
<1>2. d \in Seq(Byte) /\ Len(d) \in Nat /\ \A i \in 1..Len(d) : d[i] \in Byte
  BY DataConcat, ElementOfSeq DEF Data
<1>3. p \in Seq(Byte) /\ Len(p) = n
  <2>1. \A i \in 1..n : d[i] \in Byte
    BY <1>1, <1>2
  <2>2. p \in Seq(Byte) /\ Len(p) = IF 1 <= n THEN n - 1 + 1 ELSE 0
    BY <2>1, SubSeqProperties
  <2> HIDE DEF p
  <2> QED
    BY <2>2
<1>4. q \in Seq(Byte)
  <2> DEFINE k == n + 1
             l == Len(d)
  <2>1. k \in Int /\ l \in Int /\ \A i \in k..l : d[i] \in Byte
    BY <1>2
  <2>2. q = SubSeq(d, k, l)
    OBVIOUS
  <2> HIDE DEF k, l, q
  <2> QED
    BY <2>1, <2>2, SubSeqProperties
<1>5. d = p \o q
  <2> DEFINE m == Len(d)
  <2>1. 1 \in 1..(m + 1) /\ n \in 0..m /\ m \in n..m /\ 1 - 1 = 0 /\ m \in Nat
    BY <1>1, <1>2
  <2>2. SubSeq(d, 1, n) \o SubSeq(d, n + 1, m) = SubSeq(d, 1, m)
    BY <1>2, <2>1, ConcatAdjacentSubSeq
  <2>3. SubSeq(d, 1, m) = d
    BY <1>2, SubSeqFull
  <2> QED
    BY <2>2, <2>3
<1> HIDE DEF p, q
<1> QED
  BY <1>1, <1>3, <1>4, <1>5 DEF Data

LEMMA ReadBytesMore ==
  ASSUME NEW n \in Nat, NEW d \in Data, NEW r \in ReadBytes(n, d), NEW more \in Data
  PROVE  ReadBytes(n, d \o more) = {<<r[1], r[2] \o more>>}
<1> DEFINE p == r[1]
           q == r[2]
           e == q \o more
<1>1. p \in Data /\ Len(p) = n /\ q \in Data /\ d = p \o q
  BY ReadBytesSplit
<1> HIDE DEF p, q
<1>2. e \in Data /\ d \o more = p \o e
  <2>1. e \in Data
    BY <1>1, DataConcat
  <2>2. (p \o q) \o more = p \o (q \o more)
    BY <1>1, DataAssociates
  <2> QED
    BY <1>1, <2>1, <2>2
<1> HIDE DEF e
<1>3. ReadBytes(Len(p), p \o e) = {<<p, e>>}
  BY <1>1, <1>2, ReadBytesBack
<1> QED
  BY <1>1, <1>2, <1>3 DEF e, p, q

(* No bytes at all, and booleans.                                         *)
LEMMA EmptyCodec ==
  ASSUME NEW enc, NEW dec, NEW size, enc[<<>>] = {<<>>}, size[<<>>] = 0,
         \A d \in Data : dec[d] = {<<<<>>, d>>}
  PROVE  Codec({<<>>}, enc, dec, size)
<1>1. PICK e : e = <<>>
  OBVIOUS
<1>2. e \in Data /\ Len(e) = 0 /\ \A d \in Data : e \o d = d /\ Len(d) \in Nat
  <2>1. e \in Data /\ Len(e) = 0
    BY <1>1, EmptySeq DEF Data
  <2>2. ASSUME NEW d \in Data PROVE e \o d = d /\ Len(d) \in Nat
    BY <1>1, DataConcat
  <2> QED
    BY <2>1, <2>2
<1>3. enc[e] = {e} /\ size[e] = 0 /\ \A d \in Data : dec[d] = {<<e, d>>}
  BY <1>1
<1>4. Writes({e}, enc, dec, size)
  BY <1>2, <1>3 DEF Writes, Written
<1>5. Reads({e}, dec, size)
  <2>1. ASSUME NEW data \in Data, NEW r \in dec[data]
        PROVE  /\ r \in {e} \X Data /\ dec[data] = {r} /\ size[r[1]] + Len(r[2]) <= Len(data)
               /\ \A more \in Data : dec[data \o more] = {<<r[1], r[2] \o more>>}
    <3>1. r = <<e, data>> /\ r[1] = e /\ r[2] = data
      BY <1>3
    <3>2. ASSUME NEW more \in Data PROVE dec[data \o more] = {<<e, data \o more>>}
      BY <1>3, DataConcat
    <3>3. size[r[1]] + Len(r[2]) <= Len(data)
      BY <1>2, <1>3, <3>1
    <3>4. r \in {e} \X Data /\ dec[data] = {r}
      BY <1>3, <3>1
    <3> QED
      BY <3>1, <3>2, <3>3, <3>4
  <2> QED
    BY <2>1 DEF Reads
<1> QED
  BY <1>1, <1>4, <1>5 DEF Codec

LEMMA BoolCodec ==
  ASSUME NEW enc, NEW dec, NEW size,
         \A v \in BOOLEAN : enc[v] = {<<IF v THEN 1 ELSE 0>>} /\ size[v] = 1,
         \A d \in Data : dec[d] = IF d = <<>> \/ d[1] > 1 THEN {} ELSE {<<d[1] = 1, Tail(d)>>}
  PROVE  Codec(BOOLEAN, enc, dec, size)
<1>1. Half \in Nat /\ Half >= 2 /\ 0 \in Byte /\ 1 \in Byte /\ \A b \in Byte : b \in Nat
  BY VarintAssumption DEF Byte
<1>2. dec[<<>>] = {}
  <2>1. <<>> \in Data
    BY EmptySeq DEF Data
  <2> QED
    BY <2>1
<1>3. ASSUME NEW b \in Byte, NEW d \in Data
      PROVE  dec[<<b>> \o d] = IF b > 1 THEN {} ELSE {<<b = 1, d>>}
  <2> DEFINE y == <<b>> \o d
  <2>1. y \in Data /\ y # <<>> /\ y[1] = b /\ Tail(y) = d
    BY DataCons
  <2> HIDE DEF y
  <2>2. dec[y] = IF b > 1 THEN {} ELSE {<<b = 1, d>>}
    BY <2>1
  <2> QED
    BY <2>2 DEF y
<1>4. ASSUME NEW v \in BOOLEAN PROVE Written(enc[v], dec, v, size[v])
  <2> DEFINE b == IF v THEN 1 ELSE 0
             e == <<b>>
  <2>1. b \in Byte /\ ~(b > 1) /\ (b = 1) = v
    BY <1>1
  <2>2. enc[v] = {e} /\ size[v] = 1
    OBVIOUS
  <2> HIDE DEF b
  <2>3. e \in Data /\ Len(e) = 1
    <3>1. <<>> \in Data
      BY EmptySeq DEF Data
    <3> QED
      BY <2>1, <3>1, DataCons
  <2>4. ASSUME NEW d \in Data PROVE dec[e \o d] = {<<v, d>>}
    BY <1>3, <2>1
  <2> HIDE DEF e
  <2> QED
    BY <2>2, <2>3, <2>4 DEF Written
<1>5. ASSUME NEW data \in Data, NEW r \in dec[data]
      PROVE  /\ r \in BOOLEAN \X Data /\ dec[data] = {r} /\ size[r[1]] + Len(r[2]) <= Len(data)
             /\ \A more \in Data : dec[data \o more] = {<<r[1], r[2] \o more>>}
  <2>1. data # <<>>
    BY <1>2
  <2>2. PICK b \in Byte, d \in Data : data = <<b>> \o d
    BY <2>1, DataUncons
  <2> DEFINE t == (b = 1)
  <2>3. ~(b > 1) /\ dec[data] = {<<t, d>>}
    BY <1>3, <2>2
  <2>4. t \in BOOLEAN
    OBVIOUS
  <2>5. ASSUME NEW more \in Data PROVE dec[data \o more] = {<<t, d \o more>>}
    <3>1. data \o more = <<b>> \o (d \o more) /\ d \o more \in Data
      BY <2>2, ConsAssociates
    <3> DEFINE y == d \o more
    <3>2. y \in Data /\ data \o more = <<b>> \o y
      BY <3>1
    <3> HIDE DEF y
    <3>3. dec[<<b>> \o y] = {<<b = 1, y>>}
      BY <1>3, <2>3, <3>2
    <3> QED
      BY <3>2, <3>3 DEF y
  <2>6. Len(data) = 1 + Len(d) /\ Len(d) \in Nat
    BY <2>2, DataCons, DataConcat
  <2>7. size[t] = 1
    OBVIOUS
  <2> HIDE DEF t
  <2>8. r = <<t, d>> /\ r[1] = t /\ r[2] = d
    BY <2>3
  <2>9. size[r[1]] + Len(r[2]) <= Len(data)
    BY <2>6, <2>7, <2>8
  <2>10. r \in BOOLEAN \X Data
    BY <2>4, <2>8
  <2> QED
    BY <2>3, <2>5, <2>8, <2>9, <2>10
<1>6. Writes(BOOLEAN, enc, dec, size)
  BY <1>4 DEF Writes
<1>7. Reads(BOOLEAN, dec, size)
  BY <1>5 DEF Reads
<1> QED
  BY <1>6, <1>7 DEF Codec

-----------------------------------------------------------------------------
(* A number that says how much follows: bytes, slices and arrays.          *)

(* dec reads a number, refuses it unless it is one of Counts, and goes on with  *)
(* rest.                                                                   *)
Counted(Counts, rest, dec) ==
  \A d \in Data : dec[d] = UNION {rest[r] : r \in {q \in ReadUvarint(d) : q[1] \in Counts}}

Guarded(Counts, rest) == [r \in WordValues \X Data |-> IF r[1] \in Counts THEN rest[r] ELSE {}]

(* A number that is refused, or read with what it counts.                  *)
LEMMA CountedThen ==
  ASSUME NEW Counts, NEW rest, NEW dec, Counted(Counts, rest, dec)
  PROVE  Then(Uvarint[MaxLen], Guarded(Counts, rest), dec)
<1> DEFINE head == Uvarint[MaxLen]
           g == Guarded(Counts, rest)
<1>1. \A d \in Data : dec[d] = UNION {rest[r] : r \in {q \in head[d] : q[1] \in Counts}}
  BY DEF Counted, ReadUvarint
<1>2. \A d \in Data : head[d] \in SUBSET (WordValues \X Data)
  BY VarintReads DEF Typed
<1>3. \A r \in WordValues \X Data : g[r] = IF r[1] \in Counts THEN rest[r] ELSE {}
  BY DEF Guarded
<1> HIDE DEF head, g
<1>4. ASSUME NEW d \in Data PROVE dec[d] = UNION {g[r] : r \in head[d]}
  <2>1. ASSUME NEW x \in dec[d] PROVE x \in UNION {g[r] : r \in head[d]}
    <3>1. PICK r \in head[d] : r[1] \in Counts /\ x \in rest[r]
      BY <1>1, <2>1
    <3>2. x \in g[r]
      BY <1>2, <1>3, <3>1
    <3> QED
      BY <3>2
  <2>2. ASSUME NEW x \in UNION {g[r] : r \in head[d]} PROVE x \in dec[d]
    <3>1. PICK r \in head[d] : x \in g[r]
      BY <2>2
    <3>2. r[1] \in Counts /\ x \in rest[r]
      BY <1>2, <1>3, <3>1
    <3> QED
      BY <1>1, <3>2
  <2> QED
    BY <2>1, <2>2
<1> QED
  BY <1>4 DEF Then, head, g

LEMMA CountedReads ==
  ASSUME NEW Counts \in SUBSET WordValues, NEW rest, NEW dec, Counted(Counts, rest, dec),
         NEW V, NEW size, Sized(V, size),
         \A n \in Counts : RestReads(V, rest, size, n, UvarintLen[n])
  PROVE  Reads(V, dec, size)
<1> DEFINE g == Guarded(Counts, rest)
           head == Uvarint[MaxLen]
<1>1. Then(head, g, dec)
  BY CountedThen
<1>2. Reads(WordValues, head, UvarintLen) /\ Sized(WordValues, UvarintLen)
  BY VarintReads
<1>3. ASSUME NEW n \in WordValues, NEW d \in Data
      PROVE  g[<<n, d>>] = IF n \in Counts THEN rest[<<n, d>>] ELSE {}
  BY DEF Guarded
<1> HIDE DEF g, head
<1>4. ASSUME NEW n \in WordValues PROVE RestReads(V, g, size, n, UvarintLen[n])
  <2> DEFINE k == UvarintLen[n]
  <2>1. ASSUME NEW d \in Data, NEW x \in g[<<n, d>>]
        PROVE  /\ x \in V \X Data /\ g[<<n, d>>] = {x} /\ size[x[1]] + Len(x[2]) <= k + Len(d)
               /\ \A more \in Data : g[<<n, d \o more>>] = {<<x[1], x[2] \o more>>}
    <3>1. n \in Counts /\ x \in rest[<<n, d>>] /\ g[<<n, d>>] = rest[<<n, d>>]
      BY <1>3
    <3>2. RestReads(V, rest, size, n, k)
      BY <3>1
    <3> HIDE DEF k
    <3>3. /\ x \in V \X Data /\ rest[<<n, d>>] = {x} /\ size[x[1]] + Len(x[2]) <= k + Len(d)
          /\ \A more \in Data : rest[<<n, d \o more>>] = {<<x[1], x[2] \o more>>}
      BY <3>1, <3>2 DEF RestReads
    <3>4. \A more \in Data : g[<<n, d \o more>>] = rest[<<n, d \o more>>]
      BY <1>3, <3>1, DataConcat
    <3> QED
      BY <3>1, <3>3, <3>4
  <2> HIDE DEF k
  <2>2. RestReads(V, g, size, n, k)
    BY <2>1 DEF RestReads
  <2> QED
    BY <2>2 DEF k
<1> QED
  BY <1>1, <1>2, <1>4, ThenReads

LEMMA CountedWrites ==
  ASSUME NEW Counts \in SUBSET WordValues, NEW rest, NEW dec, Counted(Counts, rest, dec),
         NEW n \in Counts, NEW v, NEW B, NEW l, RestWrites(rest, n, B, v, l)
  PROVE  Written(Join({AppendUvarint[n]}, B), dec, v, UvarintLen[n] + l)
<1> DEFINE g == Guarded(Counts, rest)
           head == Uvarint[MaxLen]
           A == {AppendUvarint[n]}
           k == UvarintLen[n]
<1>1. Then(head, g, dec)
  BY CountedThen
<1>2. n \in WordValues
  OBVIOUS
<1>3. Written(A, head, n, k)
  BY <1>2, VarintWrites
<1>4. RestWrites(g, n, B, v, l)
  <2>1. /\ B \in SUBSET Data /\ B # {} /\ l \in Nat
        /\ \A e \in B : Len(e) = l /\ \A d \in Data : rest[<<n, e \o d>>] = {<<v, d>>}
    BY DEF RestWrites
  <2>2. ASSUME NEW e \in B, NEW d \in Data PROVE g[<<n, e \o d>>] = {<<v, d>>}
    <3> DEFINE y == e \o d
    <3>1. y \in Data /\ rest[<<n, y>>] = {<<v, d>>}
      <4>1. e \in Data
        BY <2>1
      <4>2. rest[<<n, e \o d>>] = {<<v, d>>}
        BY <2>1
      <4>3. e \o d \in Data
        BY <4>1, DataConcat
      <4> QED
        BY <4>2, <4>3
    <3> HIDE DEF y
    <3>2. g[<<n, y>>] = rest[<<n, y>>]
      BY <1>2, <3>1 DEF Guarded
    <3> QED
      BY <3>1, <3>2 DEF y
  <2> HIDE DEF g
  <2> QED
    BY <2>1, <2>2 DEF RestWrites
<1> HIDE DEF g, head, A, k
<1>5. Written(Join(A, B), dec, v, k + l)
  BY <1>1, <1>3, <1>4, ThenWrites
<1> QED
  BY <1>5 DEF A, k

LEMMA JoinSingletons ==
  ASSUME NEW a, NEW b
  PROVE  Join({a}, {b}) = {a \o b}
<1> DEFINE A == {a}
           B == {b}
           w == a \o b
<1>1. a \in A /\ b \in B
  OBVIOUS
<1>2. w \in Join(A, B)
  BY <1>1, JoinedIn
<1>3. ASSUME NEW z \in Join(A, B) PROVE z = w
  <2>1. PICK a2 \in A, b2 \in B : z = a2 \o b2
    <3> HIDE DEF A, B
    <3> QED
      BY <1>3, JoinedFrom
  <2> QED
    BY <2>1
<1> HIDE DEF A, B, w
<1>4. Join(A, B) = {w}
  BY <1>2, <1>3
<1> QED
  BY <1>4 DEF A, B, w

(* Byte slices, with their length before them.                             *)
LEMMA BytesCodec ==
  ASSUME NEW enc, NEW dec, NEW size,
         \A v \in {s \in Data : Len(s) <= MaxInt} :
           enc[v] = {AppendUvarint[Len(v)] \o v} /\ size[v] = UvarintLen[Len(v)] + Len(v),
         \A d \in Data : dec[d] = UNION {ReadBytes(r[1], r[2]) : r \in ReadLength(d)}
  PROVE  Codec({s \in Data : Len(s) <= MaxInt}, enc, dec, size)
<1> DEFINE V == {s \in Data : Len(s) <= MaxInt}
           Counts == 0..MaxInt
           rest == [r \in WordValues \X Data |-> ReadBytes(r[1], r[2])]
<1>1. Counts \in SUBSET WordValues /\ MaxInt \in Nat
  BY Widths
<1>2. Counted(Counts, rest, dec)
  <2>1. ASSUME NEW d \in Data
        PROVE  UNION {ReadBytes(r[1], r[2]) : r \in ReadLength(d)}
                 = UNION {rest[r] : r \in {q \in ReadUvarint(d) : q[1] \in Counts}}
    <3>1. ReadUvarint(d) \in SUBSET (WordValues \X Data)
      BY VarintReads DEF Typed, ReadUvarint
    <3>2. ASSUME NEW r \in ReadUvarint(d) PROVE r[1] \in Counts <=> r[1] <= MaxInt
      <4>1. r[1] \in Nat
        BY <3>1, Widths DEF WordValues
      <4> QED
        BY <1>1, <4>1
    <3> HIDE DEF Counts
    <3>3. ReadLength(d) = {q \in ReadUvarint(d) : q[1] \in Counts}
      BY <3>2 DEF ReadLength
    <3>4. \A r \in ReadUvarint(d) : rest[r] = ReadBytes(r[1], r[2])
      BY <3>1
    <3> HIDE DEF rest
    <3> QED
      BY <3>3, <3>4
  <2> HIDE DEF Counts, rest
  <2> QED
    BY <2>1 DEF Counted
<1>3. ASSUME NEW n \in Counts, NEW d \in Data PROVE rest[<<n, d>>] = ReadBytes(n, d)
  BY <1>1
<1>4. \A v \in V : v \in Data /\ Len(v) \in Counts
  BY <1>1, DataConcat
<1>5. \A v \in V : enc[v] = {AppendUvarint[Len(v)] \o v} /\ size[v] = UvarintLen[Len(v)] + Len(v)
  OBVIOUS
<1>6. \A n \in Counts : UvarintLen[n] \in Nat /\ n \in Nat
  BY <1>1, VarintReads DEF Sized
<1>7. ASSUME NEW v \in Data, Len(v) \in Counts PROVE v \in V
  BY <1>1, <1>7
<1> HIDE DEF V, Counts, rest
<1>8. Sized(V, size)
  BY <1>4, <1>5, <1>6 DEF Sized
<1>9. Writes(V, enc, dec, size)
  <2>1. ASSUME NEW v \in V PROVE Written(enc[v], dec, v, size[v])
    <3> DEFINE n == Len(v)
               a == AppendUvarint[n]
               k == UvarintLen[n]
    <3>1. v \in Data /\ n \in Counts
      BY <1>4
    <3>2. enc[v] = {a \o v} /\ size[v] = k + n /\ n \in Nat
      BY <1>5, <1>6, <3>1
    <3>3. ASSUME NEW d \in Data PROVE rest[<<n, v \o d>>] = {<<v, d>>}
      <4>1. v \o d \in Data
        BY <3>1, DataConcat
      <4> QED
        BY <1>3, <3>1, <4>1, ReadBytesBack
    <3>4. RestWrites(rest, n, {v}, v, n)
      <4>1. {v} \in SUBSET Data /\ {v} # {} /\ \A e \in {v} : Len(e) = n
        BY <3>1
      <4> HIDE DEF n
      <4> QED
        BY <3>2, <3>3, <4>1 DEF RestWrites
    <3> HIDE DEF n
    <3>5. Written(Join({a}, {v}), dec, v, k + n)
      BY <1>1, <1>2, <3>1, <3>4, CountedWrites
    <3>6. Join({a}, {v}) = {a \o v}
      BY JoinSingletons
    <3> QED
      BY <3>2, <3>5, <3>6
  <2> QED
    BY <2>1 DEF Writes
<1>10. ASSUME NEW n \in Counts PROVE RestReads(V, rest, size, n, UvarintLen[n])
  <2> DEFINE k == UvarintLen[n]
  <2>1. ASSUME NEW d \in Data, NEW x \in rest[<<n, d>>]
        PROVE  /\ x \in V \X Data /\ rest[<<n, d>>] = {x} /\ size[x[1]] + Len(x[2]) <= k + Len(d)
               /\ \A more \in Data : rest[<<n, d \o more>>] = {<<x[1], x[2] \o more>>}
    <3>1. x \in ReadBytes(n, d) /\ n \in Nat /\ k \in Nat
      BY <1>3, <1>6
    <3>2. /\ x[1] \in Data /\ Len(x[1]) = n /\ x[2] \in Data /\ d = x[1] \o x[2]
          /\ x = <<x[1], x[2]>> /\ ReadBytes(n, d) = {x}
      BY <3>1, ReadBytesSplit
    <3>3. x[1] \in V
      BY <1>7, <3>2
    <3>4. size[x[1]] = k + n
      BY <1>5, <3>2, <3>3
    <3>5. Len(d) = n + Len(x[2]) /\ Len(x[2]) \in Nat
      BY <3>2, DataConcat
    <3> HIDE DEF k
    <3>6. size[x[1]] + Len(x[2]) <= k + Len(d)
      <4>1. Len(d) \in Nat /\ size[x[1]] = k + n
        BY <3>4, DataConcat
      <4> DEFINE a == Len(x[2])
                 b == Len(d)
                 s == size[x[1]]
      <4>2. a \in Nat /\ b = n + a /\ s = k + n
        BY <3>5, <4>1
      <4> HIDE DEF a, b, s
      <4>3. s + a <= k + b
        BY <3>1, <4>2
      <4> QED
        BY <4>3 DEF a, b, s
    <3>7. ASSUME NEW more \in Data PROVE rest[<<n, d \o more>>] = {<<x[1], x[2] \o more>>}
      <4>1. d \o more \in Data
        BY DataConcat
      <4>2. ReadBytes(n, d \o more) = {<<x[1], x[2] \o more>>}
        BY <3>1, ReadBytesMore
      <4> QED
        BY <1>3, <4>1, <4>2
    <3>8. rest[<<n, d>>] = {x}
      BY <1>3, <3>2
    <3>9. x \in V \X Data
      BY <3>2, <3>3
    <3> QED
      BY <3>6, <3>7, <3>8, <3>9
  <2> HIDE DEF k
  <2>2. RestReads(V, rest, size, n, k)
    BY <2>1 DEF RestReads
  <2> QED
    BY <2>2 DEF k
<1>11. Reads(V, dec, size)
  BY <1>1, <1>2, <1>8, <1>10, CountedReads
<1> QED
  BY <1>9, <1>11 DEF Codec, V

LEMMA CodecTypes ==
  ASSUME NEW V, NEW enc, NEW dec, NEW size, Codec(V, enc, dec, size)
  PROVE  Sized(V, size) /\ Typed(V, dec) /\ Encoded(V, enc)
<1>1. Writes(V, enc, dec, size) /\ Reads(V, dec, size)
  BY DEF Codec
<1>2. Sized(V, size)
  BY <1>1 DEF Writes, Written, Sized
<1>3. Encoded(V, enc)
  BY <1>1 DEF Writes, Written, Encoded
<1> QED
  BY <1>1, <1>2, <1>3, ReadsTyped

Lists(V, Counts) == {s \in Seq(V) : Len(s) \in Counts}

(* enc, dec and size are those of the lists of so many values.             *)
ListCoded(enc1, dec1, size1, V, Counts, enc, dec, size) ==
  /\ \A v \in Lists(V, Counts) :
       /\ enc[v] = Join({AppendUvarint[Len(v)]}, Items(enc1, v))
       /\ size[v] = UvarintLen[Len(v)] + ListSize(size1, v)
  /\ \A d \in Data :
       dec[d] = UNION {ReadItems(dec1, r[1], r[2]) : r \in {q \in ReadUvarint(d) : q[1] \in Counts}}

(* Slices and arrays, of every type of values.                             *)
LEMMA ListCodec ==
  ASSUME NEW V1, NEW enc1, NEW dec1, NEW size1, Codec(V1, enc1, dec1, size1),
         NEW Counts \in SUBSET (0..MaxInt), NEW enc, NEW dec, NEW size,
         ListCoded(enc1, dec1, size1, V1, Counts, enc, dec, size)
  PROVE  Codec(Lists(V1, Counts), enc, dec, size)
<1> DEFINE V == Lists(V1, Counts)
           rest == [r \in WordValues \X Data |-> ReadItems(dec1, r[1], r[2])]
<1>1. Counts \in SUBSET WordValues /\ Counts \in SUBSET Nat
  BY Widths
<1>2. Sized(V1, size1) /\ Typed(V1, dec1) /\ Encoded(V1, enc1)
  BY CodecTypes
<1>3. Writes(V1, enc1, dec1, size1) /\ Reads(V1, dec1, size1)
  BY DEF Codec
<1>4. Counted(Counts, rest, dec)
  <2>1. ASSUME NEW d \in Data
        PROVE  UNION {ReadItems(dec1, r[1], r[2]) : r \in {q \in ReadUvarint(d) : q[1] \in Counts}}
                 = UNION {rest[r] : r \in {q \in ReadUvarint(d) : q[1] \in Counts}}
    <3>1. ReadUvarint(d) \in SUBSET (WordValues \X Data)
      BY VarintReads DEF Typed, ReadUvarint
    <3>2. \A r \in ReadUvarint(d) : rest[r] = ReadItems(dec1, r[1], r[2])
      BY <3>1
    <3> HIDE DEF rest
    <3> QED
      BY <3>2
  <2> HIDE DEF rest
  <2> QED
    BY <2>1 DEF Counted, ListCoded
<1>5. ASSUME NEW n \in Counts, NEW d \in Data PROVE rest[<<n, d>>] = ReadItems(dec1, n, d)
  BY <1>1
<1>6. ASSUME NEW v \in V
      PROVE  /\ v \in Seq(V1) /\ Len(v) \in Counts
             /\ enc[v] = Join({AppendUvarint[Len(v)]}, Items(enc1, v))
             /\ size[v] = UvarintLen[Len(v)] + ListSize(size1, v)
  BY DEF Lists, ListCoded
<1>7. \A n \in Counts : UvarintLen[n] \in Nat
  BY <1>1, VarintReads DEF Sized
<1>8. ASSUME NEW v \in Seq(V1), Len(v) \in Counts PROVE v \in V
  BY <1>8 DEF Lists
<1>9. ASSUME NEW v \in Seq(V1) PROVE ListSize(size1, v) \in Nat
  <2>1. CASE V1 = {}
    <3>1. v = <<>>
      BY <2>1
    <3> QED
      BY <3>1, ListSizeEmpty
  <2>2. CASE V1 # {}
    <3>1. PICK x \in V1 : TRUE
      BY <2>2
    <3> QED
      BY <1>2, <3>1, ListSizeUnfolds
  <2> QED
    BY <2>1, <2>2
<1> HIDE DEF V, rest
<1>10. Sized(V, size)
  <2>1. ASSUME NEW v \in V PROVE size[v] \in Nat
    <3> DEFINE k == UvarintLen[Len(v)]
               l == ListSize(size1, v)
    <3>1. k \in Nat /\ l \in Nat
      BY <1>6, <1>7, <1>9
    <3>2. size[v] = k + l
      BY <1>6
    <3> HIDE DEF k, l
    <3> QED
      BY <3>1, <3>2
  <2> QED
    BY <2>1 DEF Sized
<1>11. Writes(V, enc, dec, size)
  <2>1. ASSUME NEW v \in V PROVE Written(enc[v], dec, v, size[v])
    <3> DEFINE n == Len(v)
               a == AppendUvarint[n]
               B == Items(enc1, v)
               k == UvarintLen[n]
               l == ListSize(size1, v)
    <3>1. v \in Seq(V1) /\ n \in Counts /\ enc[v] = Join({a}, B) /\ size[v] = k + l
      BY <1>6
    <3>2. ListWritten(enc1, dec1, size1, v)
      BY <1>2, <1>3, <3>1, ItemsWrite
    <3>3. /\ B \in SUBSET Data /\ B # {}
          /\ \A e \in B : Len(e) = l /\ \A d \in Data : ReadItems(dec1, n, e \o d) = {<<v, d>>}
      BY <3>2 DEF ListWritten
    <3>4. l \in Nat
      BY <1>9, <3>1
    <3> HIDE DEF n, a, B, k, l
    <3>5. ASSUME NEW e \in B, NEW d \in Data PROVE rest[<<n, e \o d>>] = {<<v, d>>}
      <4>1. e \in Data
        BY <3>3
      <4>2. e \o d \in Data
        BY <4>1, DataConcat
      <4> QED
        BY <1>5, <3>1, <3>3, <4>2
    <3>6. RestWrites(rest, n, B, v, l)
      BY <3>3, <3>4, <3>5 DEF RestWrites
    <3>7. Written(Join({a}, B), dec, v, k + l)
      BY <1>1, <1>4, <3>1, <3>6, CountedWrites DEF a, k
    <3> QED
      BY <3>1, <3>7
  <2> QED
    BY <2>1 DEF Writes
<1>12. ASSUME NEW n \in Counts PROVE RestReads(V, rest, size, n, UvarintLen[n])
  <2> DEFINE k == UvarintLen[n]
  <2>1. ListRead(V1, dec1, size1, n) /\ n \in Nat /\ k \in Nat
    BY <1>1, <1>2, <1>3, <1>7, ItemsRead
  <2>2. ASSUME NEW d \in Data, NEW x \in rest[<<n, d>>]
        PROVE  /\ x \in V \X Data /\ rest[<<n, d>>] = {x} /\ size[x[1]] + Len(x[2]) <= k + Len(d)
               /\ \A more \in Data : rest[<<n, d \o more>>] = {<<x[1], x[2] \o more>>}
    <3>1. x \in ReadItems(dec1, n, d)
      BY <1>5
    <3> HIDE DEF k
    <3>2. /\ x[1] \in Seq(V1) /\ Len(x[1]) = n /\ x[2] \in Data /\ x = <<x[1], x[2]>>
          /\ ReadItems(dec1, n, d) = {x} /\ ListSize(size1, x[1]) + Len(x[2]) <= Len(d)
          /\ \A more \in Data : ReadItems(dec1, n, d \o more) = {<<x[1], x[2] \o more>>}
      BY <2>1, <3>1 DEF ListRead
    <3>3. x[1] \in V
      BY <1>8, <3>2
    <3>4. size[x[1]] + Len(x[2]) <= k + Len(d)
      <4> DEFINE s == ListSize(size1, x[1])
                 a == Len(x[2])
                 b == Len(d)
                 t == size[x[1]]
      <4>1. t = k + s
        BY <1>6, <3>2, <3>3 DEF k
      <4>2. s \in Nat
        BY <1>9, <3>2
      <4>3. a \in Nat /\ b \in Nat
        BY <3>2, DataConcat
      <4>4. s + a <= b
        BY <3>2
      <4> HIDE DEF s, a, b, t
      <4>5. t + a <= k + b
        BY <2>1, <4>1, <4>2, <4>3, <4>4
      <4> QED
        BY <4>5 DEF t, a, b
    <3>5. ASSUME NEW more \in Data PROVE rest[<<n, d \o more>>] = {<<x[1], x[2] \o more>>}
      <4>1. d \o more \in Data
        BY DataConcat
      <4>2. ReadItems(dec1, n, d \o more) = {<<x[1], x[2] \o more>>}
        BY <3>2
      <4> QED
        BY <1>5, <4>1, <4>2
    <3>6. rest[<<n, d>>] = {x}
      BY <1>5, <3>2
    <3>7. x \in V \X Data
      BY <3>2, <3>3
    <3> QED
      BY <3>4, <3>5, <3>6, <3>7
  <2> HIDE DEF k
  <2>3. RestReads(V, rest, size, n, k)
    BY <2>2 DEF RestReads
  <2> QED
    BY <2>3 DEF k
<1>13. Reads(V, dec, size)
  BY <1>1, <1>4, <1>10, <1>12, CountedReads
<1> QED
  BY <1>11, <1>13 DEF Codec, V

(* A length is written before the values of a list.                        *)
ListMade(enc1, size1, V, enc, size) ==
  \A v \in V : /\ enc[v] = Join({AppendUvarint[Len(v)]}, Items(enc1, v))
               /\ size[v] = UvarintLen[Len(v)] + ListSize(size1, v)

SliceRead(dec, data) == UNION {ReadItems(dec, r[1], r[2]) : r \in ReadLength(data)}
ArrayRead(dec, n, data) ==
  UNION {ReadItems(dec, r[1], r[2]) : r \in {q \in ReadUvarint(data) : q[1] = n}}

SliceCoded(V1, enc1, dec1, size1, V, enc, dec, size) ==
  /\ V = {s \in Seq(V1) : Len(s) <= MaxInt} /\ ListMade(enc1, size1, V, enc, size)
  /\ \A d \in Data : dec[d] = SliceRead(dec1, d)

ArrayCoded(V1, enc1, dec1, size1, n, V, enc, dec, size) ==
  /\ V = [1..n -> V1] /\ ListMade(enc1, size1, V, enc, size)
  /\ \A d \in Data : dec[d] = ArrayRead(dec1, n, d)

LEMMA SliceCodec ==
  ASSUME NEW V1, NEW enc1, NEW dec1, NEW size1, Codec(V1, enc1, dec1, size1),
         NEW V, NEW enc, NEW dec, NEW size, SliceCoded(V1, enc1, dec1, size1, V, enc, dec, size)
  PROVE  Codec(V, enc, dec, size)
<1> DEFINE Counts == 0..MaxInt
<1>0. /\ V = {s \in Seq(V1) : Len(s) <= MaxInt}
      /\ \A v \in V : /\ enc[v] = Join({AppendUvarint[Len(v)]}, Items(enc1, v))
                      /\ size[v] = UvarintLen[Len(v)] + ListSize(size1, v)
      /\ \A d \in Data : dec[d] = UNION {ReadItems(dec1, r[1], r[2]) : r \in ReadLength(d)}
  BY DEF SliceCoded, ListMade, SliceRead
<1>1. MaxInt \in Nat
  BY Widths
<1>2. V = Lists(V1, Counts)
  <2>1. \A s \in Seq(V1) : Len(s) <= MaxInt <=> Len(s) \in Counts
    BY <1>1, LenProperties
  <2> HIDE DEF Counts
  <2> QED
    BY <1>0, <2>1 DEF Lists
<1>3. ASSUME NEW d \in Data PROVE ReadLength(d) = {q \in ReadUvarint(d) : q[1] \in Counts}
  <2>1. ReadUvarint(d) \in SUBSET (WordValues \X Data)
    BY VarintReads DEF Typed, ReadUvarint
  <2>2. ASSUME NEW r \in ReadUvarint(d) PROVE r[1] \in Counts <=> r[1] <= MaxInt
    <3>1. r[1] \in Nat
      BY <2>1, Widths DEF WordValues
    <3> QED
      BY <1>1, <3>1
  <2> HIDE DEF Counts
  <2> QED
    BY <2>2 DEF ReadLength
<1> HIDE DEF Counts
<1>4. ListCoded(enc1, dec1, size1, V1, Counts, enc, dec, size)
  BY <1>0, <1>2, <1>3 DEF ListCoded
<1>5. Counts \in SUBSET (0..MaxInt)
  BY DEF Counts
<1>6. Codec(Lists(V1, Counts), enc, dec, size)
  BY <1>4, <1>5, ListCodec
<1> QED
  BY <1>2, <1>6

LEMMA ArrayCodec ==
  ASSUME NEW V1, NEW enc1, NEW dec1, NEW size1, Codec(V1, enc1, dec1, size1),
         NEW n \in 0..MaxInt,
         NEW V, NEW enc, NEW dec, NEW size, ArrayCoded(V1, enc1, dec1, size1, n, V, enc, dec, size)
  PROVE  Codec(V, enc, dec, size)
<1>0. /\ V = [1..n -> V1]
      /\ \A v \in V : /\ enc[v] = Join({AppendUvarint[Len(v)]}, Items(enc1, v))
                      /\ size[v] = UvarintLen[Len(v)] + ListSize(size1, v)
      /\ \A d \in Data : dec[d] = UNION {ReadItems(dec1, r[1], r[2]) :
                                            r \in {q \in ReadUvarint(d) : q[1] = n}}
  BY DEF ArrayCoded, ListMade, ArrayRead
<1> DEFINE Counts == {n}
<1>1. n \in Nat
  BY Widths
<1>2. V = Lists(V1, Counts)
  <2>1. ASSUME NEW v \in V PROVE v \in Seq(V1) /\ Len(v) = n
    <3>1. v \in Seq(V1)
      BY <1>0, <1>1, SeqDef
    <3>2. DOMAIN v = 1..Len(v) /\ Len(v) \in Nat /\ DOMAIN v = 1..n
      BY <1>0, <3>1, LenProperties
    <3> DEFINE l == Len(v)
    <3>3. l \in Nat /\ 1..l = 1..n
      BY <3>2
    <3> HIDE DEF l
    <3>4. l = n
      BY <1>1, <3>3
    <3> QED
      BY <3>1, <3>4 DEF l
  <2>2. ASSUME NEW v \in Seq(V1), Len(v) = n PROVE v \in V
    BY <1>0, <2>2, LenProperties
  <2> QED
    BY <2>1, <2>2 DEF Lists
<1>3. ASSUME NEW d \in Data PROVE {q \in ReadUvarint(d) : q[1] = n} = {q \in ReadUvarint(d) : q[1] \in Counts}
  OBVIOUS
<1>5. Counts \in SUBSET (0..MaxInt)
  OBVIOUS
<1> HIDE DEF Counts
<1>4. ListCoded(enc1, dec1, size1, V1, Counts, enc, dec, size)
  BY <1>0, <1>2, <1>3 DEF ListCoded
<1>6. Codec(Lists(V1, Counts), enc, dec, size)
  BY <1>4, <1>5, ListCodec
<1> QED
  BY <1>2, <1>6

-----------------------------------------------------------------------------
(* Maps. An order of the entries, the entries kept of a list, and the      *)
(* sizes of both.                                                          *)

(* The entries at some places of a list, and their sizes.                  *)
ImageOf(s, I) == {s[i] : i \in I}
WeightsAt(g, s, I) == [i \in I |-> g[s[i]]]

LEMMA ImageFinite ==
  ASSUME NEW I, IsFiniteSet(I), NEW s
  PROVE  IsFiniteSet(ImageOf(s, I)) /\ Cardinality(ImageOf(s, I)) <= Cardinality(I)
<1> DEFINE T == ImageOf(s, I)
           f == [i \in I |-> s[i]]
<1>1. \A i \in I : f[i] = s[i]
  OBVIOUS
<1>2. \A y \in T : \E i \in I : y = s[i]
  BY DEF ImageOf
<1>3. \A i \in I : s[i] \in T
  BY DEF ImageOf
<1>4. f \in [I -> T]
  BY <1>3
<1> HIDE DEF T, f
<1>5. f \in Surjection(I, T)
  BY <1>1, <1>2, <1>4 DEF Surjection
<1> QED
  BY <1>5, FS_Surjection DEF T

LEMMA TotalImage ==
  ASSUME NEW I, IsFiniteSet(I), NEW s, \A i, j \in I : s[i] = s[j] => i = j,
         NEW g, \A i \in I : g[s[i]] \in Nat
  PROVE  Total(g, ImageOf(s, I)) = Total(WeightsAt(g, s, I), I)
<1> DEFINE h == WeightsAt(g, s, I)
           G == {T \in SUBSET I : Total(g, ImageOf(s, T)) = Total(h, T)}
<1>0. \A i \in I : h[i] = g[s[i]] /\ h[i] \in Nat
  BY DEF WeightsAt
<1> HIDE DEF h
<1>1. ASSUME NEW T \in SUBSET I, \A x \in T : T \ {x} \in G PROVE T \in G
  <2> DEFINE A == ImageOf(s, T)
  <2>1. IsFiniteSet(T) /\ IsFiniteSet(A)
    BY FS_Subset, ImageFinite
  <2>2. (\A i \in T : h[i] \in Nat) /\ (\A y \in A : g[y] \in Nat)
    BY <1>0 DEF ImageOf
  <2>3. CASE T = {}
    <3>1. A = {}
      BY <2>3 DEF ImageOf
    <3> HIDE DEF A
    <3>2. Total(g, A) = 0
      BY <2>1, <2>2, <3>1, TotalUnfolds
    <3>3. Total(h, T) = 0
      BY <2>1, <2>2, <2>3, TotalUnfolds
    <3> QED
      BY <3>2, <3>3 DEF A
  <2>4. CASE T # {}
    <3>1. PICK x \in T : TRUE
      BY <2>4
    <3> DEFINE y == s[x]
               R == T \ {x}
               B == ImageOf(s, R)
    <3>2. y \in A
      BY DEF ImageOf
    <3>3. A \ {y} = B
      BY <1>1 DEF ImageOf
    <3>4. R \in G
      BY <1>1
    <3>5. Total(g, B) = Total(h, R)
      BY <3>4
    <3>6. h[x] = g[y]
      BY <1>0
    <3> HIDE DEF A, y
    <3>7. Total(g, A) = g[y] + Total(g, A \ {y})
      BY <2>1, <2>2, <3>2, TotalStep
    <3>8. Total(h, T) = h[x] + Total(h, T \ {x})
      BY <2>1, <2>2, TotalStep
    <3> QED
      BY <3>3, <3>5, <3>6, <3>7, <3>8 DEF A
  <2> QED
    BY <2>3, <2>4
<1> HIDE DEF G
<1>2. I \in G
  BY <1>1, SetInduct
<1> QED
  BY <1>2 DEF G, h

LEMMA ListSizeTotal ==
  ASSUME NEW V, NEW g, Sized(V, g), NEW s \in Seq(V), NEW I \in SUBSET DOMAIN s,
         \A i, j \in I : s[i] = s[j] => i = j
  PROVE  /\ Total(g, ImageOf(s, I)) \in Nat /\ Total(g, ImageOf(s, I)) <= ListSize(g, s)
         /\ I = DOMAIN s => Total(g, ImageOf(s, I)) = ListSize(g, s)
<1> DEFINE Dom == DOMAIN s
           h == WeightsAt(g, s, Dom)
           k == WeightsAt(g, s, I)
<1>1. Dom = 1..Len(s) /\ Len(s) \in Nat /\ \A i \in Dom : s[i] \in V
  BY LenProperties
<1>2. IsFiniteSet(Dom)
  BY <1>1, FS_Interval
<1>3. IsFiniteSet(I)
  BY <1>2, FS_Subset
<1>4. \A i \in Dom : h[i] = g[s[i]] /\ h[i] \in Nat
  BY <1>1 DEF WeightsAt, Sized
<1>5. \A i \in I : k[i] = h[i]
  BY DEF WeightsAt
<1>6. ListSize(g, s) = Total(h, Dom)
  BY DEF ListSize, WeightsAt
<1>7. \A i \in I : g[s[i]] \in Nat
  BY <1>1 DEF Sized
<1> HIDE DEF Dom, h, k
<1>8. Total(g, ImageOf(s, I)) = Total(k, I)
  BY <1>3, <1>7, TotalImage DEF k
<1>9. I \in SUBSET Dom
  BY DEF Dom
<1>10. Total(k, I) = Total(h, I)
  BY <1>3, <1>4, <1>5, <1>9, TotalEqual
<1>11. Total(h, I) \in Nat /\ Total(h, I) <= Total(h, Dom)
  BY <1>2, <1>4, <1>9, TotalSubset
<1> QED
  BY <1>6, <1>8, <1>10, <1>11 DEF Dom

-----------------------------------------------------------------------------
(* Orders.                                                                 *)
LEMMA OrderOf ==
  ASSUME NEW m, IsFiniteSet(m), NEW s \in Orders(m)
  PROVE  /\ s \in Seq(m) /\ Len(s) = Cardinality(m) /\ DOMAIN s = 1..Cardinality(m)
         /\ Cardinality(m) \in Nat
         /\ \A i, j \in DOMAIN s : s[i] = s[j] => i = j
         /\ ImageOf(s, DOMAIN s) = m
<1> DEFINE n == Cardinality(m)
           Dom == 1..n
<1>1. n \in Nat
  BY FS_CardinalityType
<1>2. s \in [Dom -> m] /\ \A i, j \in Dom : s[i] = s[j] => i = j
  BY DEF Orders
<1>3. IsFiniteSet(Dom) /\ Cardinality(Dom) = n
  <2> HIDE DEF n
  <2>1. 1 \in Int /\ n \in Int /\ (1 > n => n = 0) /\ n - 1 + 1 = n
    BY <1>1
  <2> QED
    BY <2>1, FS_Interval
<1>4. s \in Seq(m) /\ Len(s) = n
  <2>1. s \in Seq(m)
    BY <1>1, <1>2, SeqDef
  <2>2. DOMAIN s = 1..Len(s) /\ Len(s) \in Nat /\ DOMAIN s = Dom
    BY <1>2, <2>1, LenProperties
  <2> DEFINE l == Len(s)
  <2> HIDE DEF n, l
  <2>3. 1..l = 1..n /\ l \in Nat /\ n \in Nat
    BY <1>1, <2>2 DEF l
  <2>4. l = n
    BY <2>3
  <2> QED
    BY <2>1, <2>4 DEF l
<1> HIDE DEF Dom
<1>5. s \in Injection(Dom, m)
  BY <1>2 DEF Injection, IsInjective
<1>6. s \in Surjection(Dom, m)
  BY <1>3, <1>5, FS_Injection
<1>7. \A y \in m : \E i \in Dom : s[i] = y
  BY <1>6 DEF Surjection
<1>8. ImageOf(s, Dom) = m
  BY <1>2, <1>7 DEF ImageOf
<1> QED
  BY <1>1, <1>2, <1>4, <1>8 DEF Dom

LEMMA OrderExists ==
  ASSUME NEW m, IsFiniteSet(m)
  PROVE  Orders(m) # {}
<1> DEFINE Dom == 1..Cardinality(m)
<1>1. PICK f : f \in Bijection(Dom, m)
  BY FS_CardinalityType DEF ExistsBijection
<1>2. f \in [Dom -> m] /\ \A i, j \in Dom : f[i] = f[j] => i = j
  <2> HIDE DEF Dom
  <2> QED
    BY <1>1 DEF Bijection, Injection, IsInjective
<1>3. f \in Orders(m)
  BY <1>2 DEF Orders
<1> QED
  BY <1>3

-----------------------------------------------------------------------------
(* decodeVarintValue fills a map entry by entry: the last of those with    *)
(* one key stays.                                                          *)
LastPlaces(s) == {i \in DOMAIN s : \A j \in DOMAIN s : s[j][1] = s[i][1] => j <= i}

(* An order of the entries of a map makes that map; any list makes a map   *)
(* with no more entries than the list has.                                 *)
LEMMA MapFromOrder ==
  ASSUME NEW m, IsFiniteSet(m), Functional(m), NEW s \in Orders(m)
  PROVE  MapFrom(s) = m
<1> DEFINE Dom == DOMAIN s
<1>1. /\ s \in Seq(m) /\ \A i, j \in Dom : s[i] = s[j] => i = j
      /\ ImageOf(s, Dom) = m /\ Dom = 1..Cardinality(m) /\ Cardinality(m) \in Nat
  BY OrderOf
<1>2. \A i \in Dom : s[i] \in m
  BY <1>1 DEF ImageOf
<1>3. ASSUME NEW i \in Dom, NEW j \in Dom, s[j][1] = s[i][1] PROVE j <= i
  <2>1. s[j] = s[i]
    BY <1>2, <1>3 DEF Functional
  <2>2. j = i
    BY <1>1, <2>1
  <2>3. i \in Nat
    BY <1>1
  <2> QED
    BY <2>2, <2>3
<1>4. LastPlaces(s) = Dom
  BY <1>3 DEF LastPlaces
<1>5. MapFrom(s) = ImageOf(s, LastPlaces(s))
  BY DEF MapFrom, ImageOf, LastPlaces
<1> QED
  BY <1>1, <1>4, <1>5

LEMMA MapFromList ==
  ASSUME NEW U, NEW s \in Seq(U), NEW g, Sized(U, g)
  PROVE  LET m == MapFrom(s) IN
         /\ m \in SUBSET U /\ Functional(m) /\ IsFiniteSet(m) /\ Cardinality(m) <= Len(s)
         /\ Cardinality(m) \in Nat
         /\ Total(g, m) \in Nat /\ Total(g, m) <= ListSize(g, s)
<1> DEFINE m == MapFrom(s)
           I == LastPlaces(s)
           Dom == DOMAIN s
<1>1. Dom = 1..Len(s) /\ Len(s) \in Nat /\ \A i \in Dom : s[i] \in U
  BY LenProperties
<1>2. I \in SUBSET Dom
  BY DEF LastPlaces
<1>3. m = ImageOf(s, I)
  BY DEF MapFrom, ImageOf, LastPlaces
<1>4. \A i, j \in I : s[i][1] = s[j][1] => i = j
  <2>1. ASSUME NEW i \in I, NEW j \in I, s[i][1] = s[j][1] PROVE i = j
    <3>1. i <= j /\ j <= i
      BY <2>1 DEF LastPlaces
    <3>2. i \in Nat /\ j \in Nat
      BY <1>1, <1>2
    <3> QED
      BY <3>1, <3>2
  <2> QED
    BY <2>1
<1>5. \A i, j \in I : s[i] = s[j] => i = j
  BY <1>4
<1>6. IsFiniteSet(Dom) /\ Cardinality(Dom) = Len(s)
  <2> DEFINE n == Len(s)
  <2>1. 1 \in Int /\ n \in Int /\ (1 > n => n = 0) /\ n - 1 + 1 = n
    BY <1>1
  <2> HIDE DEF n
  <2>2. IsFiniteSet(1..n) /\ Cardinality(1..n) = n
    BY <2>1, FS_Interval
  <2> QED
    BY <1>1, <2>2 DEF n
<1> HIDE DEF I, Dom
<1>7. IsFiniteSet(I) /\ Cardinality(I) <= Len(s) /\ Cardinality(I) \in Nat
  BY <1>2, <1>6, FS_Subset, FS_CardinalityType
<1>8. IsFiniteSet(m) /\ Cardinality(m) <= Cardinality(I) /\ Cardinality(m) \in Nat
  <2>1. IsFiniteSet(m) /\ Cardinality(m) <= Cardinality(I)
    BY <1>3, <1>7, ImageFinite
  <2> QED
    BY <2>1, FS_CardinalityType
<1>9. Cardinality(m) <= Len(s)
  BY <1>1, <1>7, <1>8
<1>10. m \in SUBSET U
  BY <1>1, <1>2, <1>3 DEF ImageOf
<1>11. Functional(m)
  BY <1>3, <1>4 DEF Functional, ImageOf
<1>12. Total(g, m) \in Nat /\ Total(g, m) <= ListSize(g, s)
  BY <1>2, <1>3, <1>5, ListSizeTotal DEF Dom
<1> QED
  BY <1>8, <1>9, <1>10, <1>11, <1>12

-----------------------------------------------------------------------------
(* A smaller number takes no more bytes, so a map with fewer entries than  *)
(* were read takes no more than they did.                                  *)
LEMMA QuotientsOrdered ==
  ASSUME NEW x \in Nat, NEW y \in Nat, x <= y
  PROVE  x \div Half <= y \div Half
<1> DEFINE a == x \div Half
           b == y \div Half
           r == x % Half
           t == y % Half
<1>1. Half \in Nat /\ Half >= 2
  BY VarintAssumption
<1>2. a \in Nat /\ r \in Nat /\ r < Half /\ x = Half * a + r
  BY Digits
<1>3. b \in Nat /\ t \in Nat /\ t < Half /\ y = Half * b + t
  BY Digits
<1> HIDE DEF a, b, r, t
<1>4. ASSUME a > b PROVE FALSE
  <2>1. Half * a >= Half * (b + 1)
    BY <1>1, <1>2, <1>3, <1>4
  <2>2. Half * (b + 1) = Half * b + Half
    BY <1>1, <1>3
  <2> DEFINE u == Half * a
             w == Half * b
  <2>3. u \in Nat /\ w \in Nat /\ u >= w + Half /\ x = u + r /\ y = w + t
    BY <1>1, <1>2, <1>3, <2>1, <2>2
  <2> HIDE DEF u, w
  <2> QED
    BY <1>1, <1>2, <1>3, <2>3
<1>5. a <= b
  BY <1>2, <1>3, <1>4
<1> QED
  BY <1>5 DEF a, b

LEMMA UvarintLenOrdered ==
  \A y \in Nat : \A x \in 0..y : UvarintLen[x] <= UvarintLen[y]
<1>0. Half \in Nat /\ Half >= 2
  BY VarintAssumption
<1> DEFINE V == {n \in Nat : \A y \in 0..n : \A x \in 0..y : UvarintLen[x] <= UvarintLen[y]}
<1>1. \A x \in Nat : UvarintLen[x] \in Nat /\ UvarintLen[x] >= 1
  <2>1. ASSUME NEW x \in Nat PROVE UvarintLen[x] \in Nat /\ UvarintLen[x] >= 1
    <3>1. CASE x < Half
      BY <3>1, UvarintLenUnfolds
    <3>2. CASE x >= Half
      <4>1. x \div Half \in Nat
        BY Digits
      <4>2. UvarintLen[x \div Half] \in Nat
        BY <4>1, UvarintLenUnfolds
      <4>3. UvarintLen[x] = 1 + UvarintLen[x \div Half]
        BY <3>2, UvarintLenUnfolds
      <4> QED
        BY <4>2, <4>3
    <3> QED
      BY <1>0, <3>1, <3>2
  <2> QED
    BY <2>1
<1>2. ASSUME NEW y \in Nat, NEW x \in 0..y,
             \A b \in 0..(y - 1) : \A a \in 0..b : UvarintLen[a] <= UvarintLen[b]
      PROVE  UvarintLen[x] <= UvarintLen[y]
  <2>0. x \in Nat /\ x <= y
    OBVIOUS
  <2>1. CASE x < Half
    <3>1. UvarintLen[x] = 1
      BY <2>0, <2>1, UvarintLenUnfolds
    <3> QED
      BY <1>1, <3>1
  <2>2. CASE x >= Half
    <3> DEFINE a == x \div Half
               b == y \div Half
    <3>1. y >= Half
      BY <1>0, <2>0, <2>2
    <3>2. a \in Nat /\ UvarintLen[x] = 1 + UvarintLen[a]
      BY <2>0, <2>2, UvarintLenUnfolds, Digits
    <3>3. b \in Nat /\ b < y /\ UvarintLen[y] = 1 + UvarintLen[b]
      BY <3>1, UvarintLenUnfolds, Digits
    <3>4. a <= b
      BY <2>0, QuotientsOrdered
    <3> HIDE DEF a, b
    <3>5. b \in 0..(y - 1) /\ a \in 0..b
      BY <3>2, <3>3, <3>4
    <3>6. UvarintLen[a] <= UvarintLen[b]
      BY <1>2, <3>5
    <3>7. UvarintLen[a] \in Nat /\ UvarintLen[b] \in Nat
      BY <1>1, <3>2, <3>3
    <3> QED
      BY <3>2, <3>3, <3>6, <3>7
  <2> QED
    BY <1>0, <2>0, <2>1, <2>2
<1>3. 0 \in V
  <2>1. \A y \in 0..0 : y = 0
    OBVIOUS
  <2>2. UvarintLen[0] <= UvarintLen[0]
    BY <1>1
  <2>3. \A y \in 0..0 : \A x \in 0..y : x = 0 /\ y = 0
    BY <2>1
  <2> QED
    BY <2>2, <2>3
<1>4. ASSUME NEW n \in V PROVE n + 1 \in V
  <2>1. n \in Nat /\ \A y \in 0..n : \A x \in 0..y : UvarintLen[x] <= UvarintLen[y]
    OBVIOUS
  <2>2. ASSUME NEW y \in 0..(n + 1), NEW x \in 0..y PROVE UvarintLen[x] <= UvarintLen[y]
    <3>1. y \in Nat /\ \A b \in 0..(y - 1) : b \in 0..n
      BY <2>1
    <3> QED
      BY <1>2, <2>1, <3>1
  <2> QED
    BY <2>1, <2>2
<1>5. V = Nat
  <2>1. V \in SUBSET Nat
    OBVIOUS
  <2> HIDE DEF V
  <2> QED
    BY <1>3, <1>4, <2>1, Induct
<1>6. \A y \in Nat : y \in 0..y
  OBVIOUS
<1> QED
  BY <1>5, <1>6

(* Entries, read and written as pairs.                                     *)
EntryOf(dec1, dec2) == [d \in Data |-> ReadPair(dec1, dec2, d)]
EntryIn(enc1, enc2, m) == [p \in m |-> Join(enc1[p[1]], enc2[p[2]])]
EntrySize(size1, size2, m) == [p \in m |-> size1[p[1]] + size2[p[2]]]

LEMMA EntryWrites ==
  ASSUME NEW V1, NEW enc1, NEW dec1, NEW size1, Codec(V1, enc1, dec1, size1),
         NEW V2, NEW enc2, NEW dec2, NEW size2, Codec(V2, enc2, dec2, size2),
         NEW m \in SUBSET (V1 \X V2)
  PROVE  Writes(m, EntryIn(enc1, enc2, m), EntryOf(dec1, dec2), EntrySize(size1, size2, m))
<1> DEFINE enc == EntryIn(enc1, enc2, m)
           dec == EntryOf(dec1, dec2)
           size == EntrySize(size1, size2, m)
<1>1. PairCoded(enc1, dec1, size1, enc2, dec2, size2, m, enc, dec, size)
  BY DEF PairCoded, EntryIn, EntryOf, EntrySize
<1>2. Writes(V1, enc1, dec1, size1) /\ Writes(V2, enc2, dec2, size2) /\ Typed(V1, dec1)
  BY CodecTypes DEF Codec
<1> HIDE DEF enc, dec, size
<1>3. Writes(m, enc, dec, size)
  BY <1>1, <1>2, PairWrites
<1> QED
  BY <1>3 DEF enc, dec, size

LEMMA EntryReads ==
  ASSUME NEW V1, NEW enc1, NEW dec1, NEW size1, Codec(V1, enc1, dec1, size1),
         NEW V2, NEW enc2, NEW dec2, NEW size2, Codec(V2, enc2, dec2, size2)
  PROVE  /\ Reads(V1 \X V2, EntryOf(dec1, dec2), EntrySize(size1, size2, V1 \X V2))
         /\ Sized(V1 \X V2, EntrySize(size1, size2, V1 \X V2))
<1> DEFINE U == V1 \X V2
           enc == EntryIn(enc1, enc2, U)
           dec == EntryOf(dec1, dec2)
           size == EntrySize(size1, size2, U)
<1>1. PairCoded(enc1, dec1, size1, enc2, dec2, size2, U, enc, dec, size)
  BY DEF PairCoded, EntryIn, EntryOf, EntrySize
<1>2. Reads(V1, dec1, size1) /\ Reads(V2, dec2, size2) /\ Sized(V1, size1) /\ Sized(V2, size2)
  <2>1. Reads(V1, dec1, size1) /\ Reads(V2, dec2, size2)
    BY DEF Codec
  <2>2. Sized(V1, size1)
    BY CodecTypes
  <2>3. Sized(V2, size2)
    BY CodecTypes
  <2> QED
    BY <2>1, <2>2, <2>3
<1> HIDE DEF enc, dec, size
<1>3. Reads(V1 \X V2, dec, size) /\ Sized(V1 \X V2, size)
  BY <1>1, <1>2, PairReads
<1> QED
  BY <1>3 DEF dec, size

Maps(U) == {m \in SUBSET U : Functional(m) /\ IsFiniteSet(m) /\ Cardinality(m) <= MaxInt}

(* The encodings of the entries of m, in any order.                        *)
Spread(enc1, enc2, m) == UNION {Items(EntryIn(enc1, enc2, m), s) : s \in Orders(m)}

(* enc, dec and size are those of the maps.                                *)
MapCoded(enc1, dec1, size1, enc2, dec2, size2, V, enc, dec, size) ==
  /\ \A v \in V :
       /\ enc[v] = Join({AppendUvarint[Cardinality(v)]}, Spread(enc1, enc2, v))
       /\ size[v] = UvarintLen[Cardinality(v)] + Total(EntrySize(size1, size2, v), v)
  /\ \A d \in Data :
       dec[d] = UNION {{<<MapFrom(e[1]), e[2]>> : e \in ReadItems(EntryOf(dec1, dec2), r[1], r[2])} :
                         r \in ReadLength(d)}

SpreadWritten(encs, dec, m, l) ==
  /\ encs \in SUBSET Data /\ encs # {} /\ l \in Nat
  /\ \A e \in encs :
       /\ Len(e) = l
       /\ \A d \in Data : \E s \in Orders(m) : ReadItems(dec, Cardinality(m), e \o d) = {<<s, d>>}

LEMMA SpreadWrites ==
  ASSUME NEW V1, NEW enc1, NEW dec1, NEW size1, Codec(V1, enc1, dec1, size1),
         NEW V2, NEW enc2, NEW dec2, NEW size2, Codec(V2, enc2, dec2, size2),
         NEW m \in SUBSET (V1 \X V2), IsFiniteSet(m)
  PROVE  SpreadWritten(Spread(enc1, enc2, m), EntryOf(dec1, dec2), m,
                       Total(EntrySize(size1, size2, m), m))
<1> DEFINE enc == EntryIn(enc1, enc2, m)
           dec == EntryOf(dec1, dec2)
           size == EntrySize(size1, size2, m)
           U == V1 \X V2
           l == Total(size, m)
           B == Spread(enc1, enc2, m)
<1>1. Writes(m, enc, dec, size)
  BY EntryWrites
<1>2. Typed(U, dec)
  <2> DEFINE sz == EntrySize(size1, size2, U)
  <2>1. Reads(U, dec, sz)
    BY EntryReads
  <2> HIDE DEF U, sz, dec
  <2> QED
    BY <2>1, ReadsTyped
<1>3. B = UNION {Items(enc, s) : s \in Orders(m)}
  BY DEF Spread
<1> HIDE DEF enc, dec, size, B
<1>4. Sized(m, size)
  BY <1>1 DEF Writes, Written, Sized
<1>5. ASSUME NEW s \in Orders(m)
      PROVE  ListWritten(enc, dec, size, s) /\ Len(s) = Cardinality(m) /\ ListSize(size, s) = l /\ l \in Nat
  <2>1. s \in Seq(m) /\ Len(s) = Cardinality(m)
    BY OrderOf
  <2>2. ListWritten(enc, dec, size, s)
    <3>1. m \in SUBSET U
      OBVIOUS
    <3> HIDE DEF U
    <3> QED
      BY <1>1, <1>2, <2>1, <3>1, ItemsWrite
  <2>3. ListSize(size, s) = l /\ l \in Nat
    <3> DEFINE I == DOMAIN s
    <3>1. I \in SUBSET DOMAIN s /\ (\A i, j \in I : s[i] = s[j] => i = j) /\ ImageOf(s, I) = m
      BY OrderOf
    <3> HIDE DEF I
    <3>2. /\ Total(size, ImageOf(s, I)) \in Nat
          /\ I = DOMAIN s => Total(size, ImageOf(s, I)) = ListSize(size, s)
      BY <1>4, <2>1, <3>1, ListSizeTotal
    <3> QED
      BY <3>1, <3>2 DEF I
  <2> QED
    BY <2>1, <2>2, <2>3
<1> HIDE DEF l
<1>6. ASSUME NEW s \in Orders(m)
      PROVE  /\ Items(enc, s) # {} /\ Items(enc, s) \in SUBSET Data /\ l \in Nat
             /\ \A e \in Items(enc, s) :
                  Len(e) = l /\ \A d \in Data : ReadItems(dec, Cardinality(m), e \o d) = {<<s, d>>}
  <2>1. ListWritten(enc, dec, size, s) /\ Len(s) = Cardinality(m) /\ ListSize(size, s) = l /\ l \in Nat
    BY <1>5
  <2> QED
    BY <2>1 DEF ListWritten
<1>7. PICK s0 : s0 \in Orders(m)
  BY OrderExists
<1>8. B # {} /\ l \in Nat
  <2>1. Items(enc, s0) # {} /\ l \in Nat
    BY <1>6, <1>7
  <2> QED
    BY <1>3, <1>7, <2>1
<1>9. B \in SUBSET Data
  BY <1>3, <1>6
<1>10. ASSUME NEW e \in B
       PROVE  Len(e) = l /\ \A d \in Data : \E s \in Orders(m) : ReadItems(dec, Cardinality(m), e \o d) = {<<s, d>>}
  <2>1. PICK s \in Orders(m) : e \in Items(enc, s)
    BY <1>3
  <2> QED
    BY <1>6, <2>1
<1>11. SpreadWritten(B, dec, m, l)
  BY <1>8, <1>9, <1>10 DEF SpreadWritten
<1> QED
  BY <1>11 DEF B, dec, l, size

ReadMap(dec, r) == {<<MapFrom(e[1]), e[2]>> : e \in ReadItems(dec, r[1], r[2])}

LEMMA ReadMapOne ==
  ASSUME NEW dec, NEW n, NEW d, NEW s, NEW f, ReadItems(dec, n, d) = {<<s, f>>}
  PROVE  ReadMap(dec, <<n, d>>) = {<<MapFrom(s), f>>}
<1> DEFINE r == <<n, d>>
           w == <<s, f>>
<1>1. r[1] = n /\ r[2] = d /\ w[1] = s /\ w[2] = f /\ ReadItems(dec, n, d) = {w}
  OBVIOUS
<1> HIDE DEF r, w
<1>2. ReadMap(dec, r) = {<<MapFrom(e[1]), e[2]>> : e \in {w}}
  BY <1>1 DEF ReadMap
<1> QED
  BY <1>1, <1>2 DEF r

LEMMA SizesOfEntries ==
  ASSUME NEW U, NEW size1, NEW size2, Sized(U, EntrySize(size1, size2, U)), NEW m \in SUBSET U, IsFiniteSet(m)
  PROVE  Total(EntrySize(size1, size2, m), m) = Total(EntrySize(size1, size2, U), m)
<1> DEFINE g == EntrySize(size1, size2, U)
           h == EntrySize(size1, size2, m)
<1>1. \A p \in m : g[p] \in Nat /\ h[p] = g[p]
  <2>1. \A p \in m : g[p] \in Nat
    BY DEF Sized
  <2>2. \A p \in m : h[p] = g[p]
    BY DEF EntrySize
  <2> QED
    BY <2>1, <2>2
<1> HIDE DEF g, h
<1>2. Total(h, m) = Total(g, m)
  BY <1>1, TotalEqual
<1> QED
  BY <1>2 DEF g, h

(* Maps, whose entries are written in any order and kept once for each key.*)
LEMMA MapCodec ==
  ASSUME NEW V1, NEW enc1, NEW dec1, NEW size1, Codec(V1, enc1, dec1, size1),
         NEW V2, NEW enc2, NEW dec2, NEW size2, Codec(V2, enc2, dec2, size2),
         NEW enc, NEW dec, NEW size,
         MapCoded(enc1, dec1, size1, enc2, dec2, size2, Maps(V1 \X V2), enc, dec, size)
  PROVE  Codec(Maps(V1 \X V2), enc, dec, size)
<1> DEFINE U == V1 \X V2
           V == Maps(U)
           entry == EntryOf(dec1, dec2)
           g == EntrySize(size1, size2, U)
           rest == [r \in WordValues \X Data |-> ReadMap(entry, r)]
           Counts == 0..MaxInt
           weight(m) == Total(EntrySize(size1, size2, m), m)
           spread(m) == Spread(enc1, enc2, m)
<1>0. MaxInt \in Nat
  BY Widths
<1>1. Counts \in SUBSET WordValues /\ Counts \in SUBSET Nat
  BY Widths
<1>2. Reads(U, entry, g) /\ Sized(U, g)
  BY EntryReads
<1>3. Counted(Counts, rest, dec)
  <2>1. ASSUME NEW d \in Data
        PROVE  dec[d] = UNION {rest[r] : r \in {q \in ReadUvarint(d) : q[1] \in Counts}}
    <3>1. ReadUvarint(d) \in SUBSET (WordValues \X Data)
      BY VarintReads DEF Typed, ReadUvarint
    <3>2. ASSUME NEW r \in ReadUvarint(d) PROVE r[1] \in Counts <=> r[1] <= MaxInt
      <4>1. r[1] \in Nat
        BY <3>1, Widths DEF WordValues
      <4> QED
        BY <1>0, <4>1
    <3>4. dec[d] = UNION {ReadMap(entry, r) : r \in ReadLength(d)}
      BY DEF MapCoded, ReadMap
    <3> HIDE DEF Counts, entry
    <3>3. ReadLength(d) = {q \in ReadUvarint(d) : q[1] \in Counts}
      BY <3>2 DEF ReadLength
    <3>5. \A r \in ReadUvarint(d) : rest[r] = ReadMap(entry, r)
      BY <3>1
    <3> HIDE DEF rest
    <3> QED
      BY <3>3, <3>4, <3>5
  <2> HIDE DEF Counts, rest
  <2> QED
    BY <2>1 DEF Counted
<1>4. ASSUME NEW n \in Counts, NEW d \in Data PROVE rest[<<n, d>>] = ReadMap(entry, <<n, d>>)
  BY <1>1
<1>5. ASSUME NEW m \in V
      PROVE  m \in SUBSET U /\ Functional(m) /\ IsFiniteSet(m) /\ Cardinality(m) \in Counts
  <2>1. m \in SUBSET U /\ Functional(m) /\ IsFiniteSet(m) /\ Cardinality(m) <= MaxInt
    BY DEF Maps
  <2>2. Cardinality(m) \in Nat
    BY <2>1, FS_CardinalityType
  <2> QED
    BY <1>0, <2>1, <2>2
<1>6. ASSUME NEW m \in V
      PROVE  /\ enc[m] = Join({AppendUvarint[Cardinality(m)]}, spread(m))
             /\ size[m] = UvarintLen[Cardinality(m)] + weight(m)
  BY DEF MapCoded
<1>7. \A n \in Counts : UvarintLen[n] \in Nat /\ n \in Nat
  BY <1>1, VarintReads DEF Sized
<1>8. ASSUME NEW m \in V PROVE SpreadWritten(spread(m), entry, m, weight(m))
  <2>1. m \in SUBSET (V1 \X V2) /\ IsFiniteSet(m)
    BY <1>5
  <2> QED
    BY <2>1, SpreadWrites
<1>9. ASSUME NEW m \in V PROVE weight(m) = Total(g, m)
  <2>1. m \in SUBSET U /\ IsFiniteSet(m)
    BY <1>5
  <2> HIDE DEF U
  <2> QED
    BY <1>2, <2>1, SizesOfEntries
<1>10. ASSUME NEW n \in Counts, NEW s \in Seq(U), Len(s) = n
       PROVE  /\ MapFrom(s) \in V /\ Cardinality(MapFrom(s)) \in 0..n
              /\ Total(g, MapFrom(s)) \in Nat /\ Total(g, MapFrom(s)) <= ListSize(g, s)
  <2> DEFINE m == MapFrom(s)
  <2> HIDE DEF U, g
  <2>1. /\ m \in SUBSET U /\ Functional(m) /\ IsFiniteSet(m) /\ Cardinality(m) <= Len(s)
        /\ Cardinality(m) \in Nat
        /\ Total(g, m) \in Nat /\ Total(g, m) <= ListSize(g, s)
    BY <1>2, MapFromList
  <2> HIDE DEF m
  <2>2. Cardinality(m) \in 0..n /\ Cardinality(m) <= MaxInt
    BY <1>0, <1>10, <2>1
  <2>3. m \in V
    BY <2>1, <2>2 DEF Maps
  <2> QED
    BY <2>1, <2>2, <2>3 DEF m
<1> HIDE DEF U, V, entry, g, rest, Counts
<1>11. Sized(V, size)
  <2>1. ASSUME NEW m \in V PROVE size[m] \in Nat
    <3> DEFINE k == UvarintLen[Cardinality(m)]
               l == weight(m)
    <3>1. k \in Nat
      BY <1>5, <1>7
    <3>2. l \in Nat
      BY <1>8 DEF SpreadWritten
    <3>3. size[m] = k + l
      BY <1>6
    <3> HIDE DEF k, l
    <3> QED
      BY <3>1, <3>2, <3>3
  <2> QED
    BY <2>1 DEF Sized
<1>12. Writes(V, enc, dec, size)
  <2>1. ASSUME NEW m \in V PROVE Written(enc[m], dec, m, size[m])
    <3> DEFINE n == Cardinality(m)
               a == AppendUvarint[n]
               B == spread(m)
               k == UvarintLen[n]
               l == weight(m)
    <3>1. n \in Counts /\ enc[m] = Join({a}, B) /\ size[m] = k + l
      BY <1>5, <1>6
    <3>2. /\ B \in SUBSET Data /\ B # {} /\ l \in Nat
          /\ \A e \in B : Len(e) = l /\ \A d \in Data : \E s \in Orders(m) : ReadItems(entry, n, e \o d) = {<<s, d>>}
      BY <1>8 DEF SpreadWritten
    <3>3. \A s \in Orders(m) : MapFrom(s) = m
      BY <1>5, MapFromOrder
    <3> HIDE DEF n, a, B, k, l
    <3>4. ASSUME NEW e \in B, NEW d \in Data PROVE rest[<<n, e \o d>>] = {<<m, d>>}
      <4> DEFINE y == e \o d
      <4>1. PICK s \in Orders(m) : ReadItems(entry, n, y) = {<<s, d>>}
        BY <3>2
      <4>2. y \in Data
        <5>1. e \in Data
          BY <3>2
        <5> QED
          BY <5>1, DataConcat
      <4> HIDE DEF y
      <4>3. ReadMap(entry, <<n, y>>) = {<<MapFrom(s), d>>}
        BY <4>1, ReadMapOne
      <4>4. rest[<<n, y>>] = ReadMap(entry, <<n, y>>)
        BY <1>4, <3>1, <4>2
      <4> QED
        BY <3>3, <4>3, <4>4 DEF y
    <3>5. RestWrites(rest, n, B, m, l)
      BY <3>2, <3>4 DEF RestWrites
    <3>6. Written(Join({a}, B), dec, m, k + l)
      BY <1>1, <1>3, <3>1, <3>5, CountedWrites DEF a, k
    <3> QED
      BY <3>1, <3>6
  <2> QED
    BY <2>1 DEF Writes
<1>13. ASSUME NEW n \in Counts PROVE RestReads(V, rest, size, n, UvarintLen[n])
  <2> DEFINE k == UvarintLen[n]
  <2>1. ListRead(U, entry, g, n) /\ n \in Nat /\ k \in Nat
    BY <1>2, <1>7, ItemsRead
  <2>2. ASSUME NEW d \in Data, NEW x \in rest[<<n, d>>]
        PROVE  /\ x \in V \X Data /\ rest[<<n, d>>] = {x} /\ size[x[1]] + Len(x[2]) <= k + Len(d)
               /\ \A more \in Data : rest[<<n, d \o more>>] = {<<x[1], x[2] \o more>>}
    <3>1. x \in ReadMap(entry, <<n, d>>)
      BY <1>4
    <3>2. PICK e \in ReadItems(entry, n, d) : x = <<MapFrom(e[1]), e[2]>>
      BY <3>1 DEF ReadMap
    <3> HIDE DEF k
    <3> DEFINE s == e[1]
               f == e[2]
               m == MapFrom(s)
    <3>3. /\ s \in Seq(U) /\ Len(s) = n /\ f \in Data /\ e = <<s, f>>
          /\ ReadItems(entry, n, d) = {e} /\ ListSize(g, s) + Len(f) <= Len(d)
          /\ \A more \in Data : ReadItems(entry, n, d \o more) = {<<s, f \o more>>}
      BY <2>1 DEF ListRead
    <3>4. x = <<m, f>>
      BY <3>2
    <3> HIDE DEF s, f
    <3>5. /\ m \in V /\ Cardinality(m) \in 0..n
          /\ Total(g, m) \in Nat /\ Total(g, m) <= ListSize(g, s)
      BY <1>10, <3>3
    <3>6. ASSUME NEW more \in Data PROVE rest[<<n, d \o more>>] = {<<m, f \o more>>}
      <4>1. PICK y, z : y = d \o more /\ z = f \o more
        OBVIOUS
      <4>2. y \in Data /\ ReadItems(entry, n, y) = {<<s, z>>}
        BY <3>3, <4>1, DataConcat
      <4>3. ReadMap(entry, <<n, y>>) = {<<MapFrom(s), z>>}
        BY <4>2, ReadMapOne
      <4>4. rest[<<n, y>>] = {<<m, z>>}
        BY <1>4, <4>2, <4>3
      <4> QED
        BY <4>1, <4>4
    <3>7. rest[<<n, d>>] = {x}
      <4>1. ReadItems(entry, n, d) = {<<s, f>>}
        BY <3>3
      <4>2. ReadMap(entry, <<n, d>>) = {<<m, f>>}
        BY <4>1, ReadMapOne
      <4> QED
        BY <1>4, <3>4, <4>2
    <3> HIDE DEF m
    <3>8. size[m] + Len(f) <= k + Len(d)
      <4> DEFINE c == Cardinality(m)
                 u == UvarintLen[c]
                 t == Total(g, m)
                 l == ListSize(g, s)
                 a == Len(f)
                 b == Len(d)
                 z == size[m]
      <4>1. z = u + t
        BY <1>6, <1>9, <3>5
      <4>2. u <= k
        BY <2>1, <3>5, UvarintLenOrdered DEF k
      <4>3. u \in Nat
        BY <1>5, <1>7, <3>5
      <4>4. t \in Nat /\ t <= l /\ l + a <= b
        BY <3>3, <3>5
      <4>5. a \in Nat /\ b \in Nat
        BY <3>3, DataConcat
      <4>6. l \in Nat
        <5>1. g = g /\ Sized(U, g)
          BY <1>2
        <5>2. CASE U = {}
          <6>1. s = <<>>
            BY <3>3, <5>2
          <6> QED
            BY <6>1, ListSizeEmpty
        <5>3. CASE U # {}
          <6>1. PICK q \in U : TRUE
            BY <5>3
          <6> QED
            BY <3>3, <5>1, <6>1, ListSizeUnfolds
        <5> QED
          BY <5>2, <5>3
      <4> HIDE DEF c, u, t, l, a, b, z
      <4>7. z + a <= k + b
        BY <2>1, <4>1, <4>2, <4>3, <4>4, <4>5, <4>6
      <4> QED
        BY <4>7 DEF z, a, b
    <3>9. x[1] = m /\ x[2] = f
      BY <3>4
    <3>10. x \in V \X Data
      BY <3>3, <3>4, <3>5
    <3> QED
      BY <3>6, <3>7, <3>8, <3>9, <3>10
  <2> HIDE DEF k
  <2>3. RestReads(V, rest, size, n, k)
    BY <2>2 DEF RestReads
  <2> QED
    BY <2>3 DEF k
<1>14. Reads(V, dec, size)
  BY <1>1, <1>3, <1>11, <1>13, CountedReads
<1> QED
  BY <1>12, <1>14 DEF Codec, U, V

-----------------------------------------------------------------------------
(* The table of types. The recursive definitions exist, since the parts    *)
(* of a type come before it, and so every type is written and read back.   *)

(* The kinds of descriptors in place t of the table.                       *)
Kind(T, t) ==
  \/ T.kind = "bool" \/ T.kind = "bytes" \/ T.kind = "empty"
  \/ T.kind = "int" /\ T.limit \in 1..(MaxInt + 1)
  \/ T.kind = "uint" /\ T.limit \in 1..Wide
  \/ T.kind = "pair" /\ T.first \in 1..(t - 1) /\ T.rest \in 1..(t - 1)
  \/ T.kind = "slice" /\ T.of \in 1..(t - 1)
  \/ T.kind = "array" /\ T.len \in 0..MaxInt /\ T.of \in 1..(t - 1)
  \/ T.kind = "map" /\ T.key \in 1..(t - 1) /\ T.val \in 1..(t - 1)

LEMMA Kinds ==
  ASSUME NEW t \in TypeIds
  PROVE  Kind(Types[t], t)
<1> DEFINE T == Types[t]
           Part == 1..(t - 1)
<1>1. T \in Descriptors(t)
  BY TypeAssumption
<1> HIDE DEF T
<1>2. \/ T \in {Bool, Bytes, Empty}
      \/ T \in {Int_(l) : l \in 1..(MaxInt + 1)}
      \/ T \in {Uint_(l) : l \in 1..Wide}
      \/ T \in {Slice(p) : p \in Part}
      \/ T \in {Pair(p, q) : p, q \in Part}
      \/ T \in {MapOf(p, q) : p, q \in Part}
      \/ T \in {Array(n, p) : n \in 0..MaxInt, p \in Part}
  <2> HIDE DEF Bool, Bytes, Empty, Int_, Uint_, Slice, Pair, MapOf, Array
  <2> QED
    BY <1>1 DEF Descriptors
<1> SUFFICES Kind(T, t)
  BY DEF T
<1>3. CASE T \in {Bool, Bytes, Empty}
  BY <1>3 DEF Kind, Bool, Bytes, Empty
<1>4. CASE T \in {Int_(l) : l \in 1..(MaxInt + 1)}
  <2>1. PICK l \in 1..(MaxInt + 1) : T = Int_(l)
    BY <1>4
  <2> QED
    BY <2>1 DEF Kind, Int_
<1>5. CASE T \in {Uint_(l) : l \in 1..Wide}
  <2>1. PICK l \in 1..Wide : T = Uint_(l)
    BY <1>5
  <2> QED
    BY <2>1 DEF Kind, Uint_
<1>7. CASE T \in {Slice(p) : p \in Part}
  <2>1. PICK p \in Part : T = Slice(p)
    BY <1>7
  <2> QED
    BY <2>1 DEF Kind, Slice
<1>8. CASE T \in {Pair(p, q) : p, q \in Part}
  <2>1. PICK p \in Part, q \in Part : T = Pair(p, q)
    BY <1>8
  <2> QED
    BY <2>1 DEF Kind, Pair
<1>9. CASE T \in {MapOf(p, q) : p, q \in Part}
  <2>1. PICK p \in Part, q \in Part : T = MapOf(p, q)
    BY <1>9
  <2> QED
    BY <2>1 DEF Kind, MapOf
<1>10. CASE T \in {Array(n, p) : n \in 0..MaxInt, p \in Part}
  <2>1. PICK n \in 0..MaxInt, p \in Part : T = Array(n, p)
    BY <1>10
  <2> QED
    BY <2>1 DEF Kind, Array
<1> HIDE DEF Part
<1> QED
  BY <1>2, <1>3, <1>4, <1>5, <1>7, <1>8, <1>9, <1>10

MapRead(dec1, dec2, data) ==
  UNION {{<<MapFrom(e[1]), e[2]>> : e \in ReadItems(EntryOf(dec1, dec2), r[1], r[2])} :
           r \in ReadLength(data)}

(* The tables at a place use only the places before it, so that the        *)
(* recursive definitions hold.                                             *)
LEMMA ValuesDepend ==
  ASSUME NEW t \in TypeIds, NEW f, NEW g, \A p \in 1..(t - 1) : f[p] = g[p]
  PROVE  ValuesOf(Types[t], f) = ValuesOf(Types[t], g)
<1> DEFINE T == Types[t]
<1>1. Kind(T, t)
  BY Kinds
<1> HIDE DEF T
<1>2. ValuesOf(T, f) = ValuesOf(T, g)
  <2>1. CASE T.kind = "bool"
    BY <2>1 DEF ValuesOf
  <2>2. CASE T.kind = "bytes"
    BY <2>2 DEF ValuesOf
  <2>3. CASE T.kind = "empty"
    BY <2>3 DEF ValuesOf
  <2>4. CASE T.kind = "int"
    BY <2>4 DEF ValuesOf
  <2>5. CASE T.kind = "uint"
    BY <2>5 DEF ValuesOf
  <2>7. CASE T.kind = "pair" /\ T.first \in 1..(t - 1) /\ T.rest \in 1..(t - 1)
    <3>1. f[T.first] = g[T.first] /\ f[T.rest] = g[T.rest]
      BY <2>7
    <3>2. ValuesOf(T, f) = f[T.first] \X f[T.rest]
      BY <2>7 DEF ValuesOf
    <3>3. ValuesOf(T, g) = g[T.first] \X g[T.rest]
      BY <2>7 DEF ValuesOf
    <3> QED
      BY <3>1, <3>2, <3>3
  <2>8. CASE T.kind = "slice" /\ T.of \in 1..(t - 1)
    <3>1. f[T.of] = g[T.of]
      BY <2>8
    <3>2. ValuesOf(T, f) = {s \in Seq(f[T.of]) : Len(s) <= MaxInt}
      BY <2>8 DEF ValuesOf
    <3>3. ValuesOf(T, g) = {s \in Seq(g[T.of]) : Len(s) <= MaxInt}
      BY <2>8 DEF ValuesOf
    <3> QED
      BY <3>1, <3>2, <3>3
  <2>9. CASE T.kind = "array" /\ T.of \in 1..(t - 1)
    <3>1. f[T.of] = g[T.of]
      BY <2>9
    <3>2. ValuesOf(T, f) = [1..T.len -> f[T.of]]
      BY <2>9 DEF ValuesOf
    <3>3. ValuesOf(T, g) = [1..T.len -> g[T.of]]
      BY <2>9 DEF ValuesOf
    <3> QED
      BY <3>1, <3>2, <3>3
  <2>10. CASE T.kind = "map" /\ T.key \in 1..(t - 1) /\ T.val \in 1..(t - 1)
    <3>1. f[T.key] = g[T.key] /\ f[T.val] = g[T.val]
      BY <2>10
    <3>2. ValuesOf(T, f) = Maps(f[T.key] \X f[T.val])
      BY <2>10 DEF ValuesOf, Maps
    <3>3. ValuesOf(T, g) = Maps(g[T.key] \X g[T.val])
      BY <2>10 DEF ValuesOf, Maps
    <3> QED
      BY <3>1, <3>2, <3>3
  <2> QED
    BY <1>1, <2>1, <2>2, <2>3, <2>4, <2>5, <2>7, <2>8, <2>9, <2>10 DEF Kind
<1> QED
  BY <1>2 DEF T

LEMMA EncodingsDepend ==
  ASSUME NEW t \in TypeIds, NEW f, NEW g, \A p \in 1..(t - 1) : f[p] = g[p], NEW v
  PROVE  EncodingsOf(Types[t], v, f) = EncodingsOf(Types[t], v, g)
<1> DEFINE T == Types[t]
<1>1. Kind(T, t)
  BY Kinds
<1> HIDE DEF T
<1>2. EncodingsOf(T, v, f) = EncodingsOf(T, v, g)
  <2>1. CASE T.kind = "bool"
    BY <2>1 DEF EncodingsOf
  <2>2. CASE T.kind = "bytes"
    BY <2>2 DEF EncodingsOf
  <2>3. CASE T.kind = "empty"
    BY <2>3 DEF EncodingsOf
  <2>4. CASE T.kind = "int"
    BY <2>4 DEF EncodingsOf
  <2>5. CASE T.kind = "uint"
    BY <2>5 DEF EncodingsOf
  <2>7. CASE T.kind = "pair" /\ T.first \in 1..(t - 1) /\ T.rest \in 1..(t - 1)
    <3>1. f[T.first] = g[T.first] /\ f[T.rest] = g[T.rest]
      BY <2>7
    <3>2. EncodingsOf(T, v, f) = Join(f[T.first][v[1]], f[T.rest][v[2]])
      BY <2>7 DEF EncodingsOf
    <3>3. EncodingsOf(T, v, g) = Join(g[T.first][v[1]], g[T.rest][v[2]])
      BY <2>7 DEF EncodingsOf
    <3> QED
      BY <3>1, <3>2, <3>3
  <2>8. CASE T.kind = "slice" /\ T.of \in 1..(t - 1)
    <3>1. f[T.of] = g[T.of]
      BY <2>8
    <3>2. EncodingsOf(T, v, f) = Join({AppendUvarint[Len(v)]}, Items(f[T.of], v))
      BY <2>8 DEF EncodingsOf
    <3>3. EncodingsOf(T, v, g) = Join({AppendUvarint[Len(v)]}, Items(g[T.of], v))
      BY <2>8 DEF EncodingsOf
    <3> QED
      BY <3>1, <3>2, <3>3
  <2>9. CASE T.kind = "array" /\ T.of \in 1..(t - 1)
    <3>1. f[T.of] = g[T.of]
      BY <2>9
    <3>2. EncodingsOf(T, v, f) = Join({AppendUvarint[Len(v)]}, Items(f[T.of], v))
      BY <2>9 DEF EncodingsOf
    <3>3. EncodingsOf(T, v, g) = Join({AppendUvarint[Len(v)]}, Items(g[T.of], v))
      BY <2>9 DEF EncodingsOf
    <3> QED
      BY <3>1, <3>2, <3>3
  <2>10. CASE T.kind = "map" /\ T.key \in 1..(t - 1) /\ T.val \in 1..(t - 1)
    <3>1. f[T.key] = g[T.key] /\ f[T.val] = g[T.val]
      BY <2>10
    <3>2. EncodingsOf(T, v, f) = Join({AppendUvarint[Cardinality(v)]}, Spread(f[T.key], f[T.val], v))
      BY <2>10 DEF EncodingsOf, Spread, EntryIn
    <3>3. EncodingsOf(T, v, g) = Join({AppendUvarint[Cardinality(v)]}, Spread(g[T.key], g[T.val], v))
      BY <2>10 DEF EncodingsOf, Spread, EntryIn
    <3> QED
      BY <3>1, <3>2, <3>3
  <2> QED
    BY <1>1, <2>1, <2>2, <2>3, <2>4, <2>5, <2>7, <2>8, <2>9, <2>10 DEF Kind
<1> QED
  BY <1>2 DEF T

LEMMA DecodingsDepend ==
  ASSUME NEW t \in TypeIds, NEW f, NEW g, \A p \in 1..(t - 1) : f[p] = g[p], NEW v
  PROVE  DecodingsOf(Types[t], v, f) = DecodingsOf(Types[t], v, g)
<1> DEFINE T == Types[t]
<1>1. Kind(T, t)
  BY Kinds
<1> HIDE DEF T
<1>2. DecodingsOf(T, v, f) = DecodingsOf(T, v, g)
  <2>1. CASE T.kind = "bool"
    BY <2>1 DEF DecodingsOf
  <2>2. CASE T.kind = "bytes"
    BY <2>2 DEF DecodingsOf
  <2>3. CASE T.kind = "empty"
    BY <2>3 DEF DecodingsOf
  <2>4. CASE T.kind = "int"
    BY <2>4 DEF DecodingsOf
  <2>5. CASE T.kind = "uint"
    BY <2>5 DEF DecodingsOf
  <2>7. CASE T.kind = "pair" /\ T.first \in 1..(t - 1) /\ T.rest \in 1..(t - 1)
    <3>1. f[T.first] = g[T.first] /\ f[T.rest] = g[T.rest]
      BY <2>7
    <3>2. DecodingsOf(T, v, f) = ReadPair(f[T.first], f[T.rest], v)
      BY <2>7 DEF DecodingsOf
    <3>3. DecodingsOf(T, v, g) = ReadPair(g[T.first], g[T.rest], v)
      BY <2>7 DEF DecodingsOf
    <3> QED
      BY <3>1, <3>2, <3>3
  <2>8. CASE T.kind = "slice" /\ T.of \in 1..(t - 1)
    <3>1. f[T.of] = g[T.of]
      BY <2>8
    <3>2. DecodingsOf(T, v, f) = SliceRead(f[T.of], v)
      BY <2>8 DEF DecodingsOf, SliceRead
    <3>3. DecodingsOf(T, v, g) = SliceRead(g[T.of], v)
      BY <2>8 DEF DecodingsOf, SliceRead
    <3> QED
      BY <3>1, <3>2, <3>3
  <2>9. CASE T.kind = "array" /\ T.of \in 1..(t - 1)
    <3>1. f[T.of] = g[T.of]
      BY <2>9
    <3>2. DecodingsOf(T, v, f) = ArrayRead(f[T.of], T.len, v)
      BY <2>9 DEF DecodingsOf, ArrayRead
    <3>3. DecodingsOf(T, v, g) = ArrayRead(g[T.of], T.len, v)
      BY <2>9 DEF DecodingsOf, ArrayRead
    <3> QED
      BY <3>1, <3>2, <3>3
  <2>10. CASE T.kind = "map" /\ T.key \in 1..(t - 1) /\ T.val \in 1..(t - 1)
    <3>1. f[T.key] = g[T.key] /\ f[T.val] = g[T.val]
      BY <2>10
    <3>2. DecodingsOf(T, v, f) = MapRead(f[T.key], f[T.val], v)
      BY <2>10 DEF DecodingsOf, MapRead, EntryOf, Data
    <3>3. DecodingsOf(T, v, g) = MapRead(g[T.key], g[T.val], v)
      BY <2>10 DEF DecodingsOf, MapRead, EntryOf, Data
    <3> QED
      BY <3>1, <3>2, <3>3
  <2> QED
    BY <1>1, <2>1, <2>2, <2>3, <2>4, <2>5, <2>7, <2>8, <2>9, <2>10 DEF Kind
<1> QED
  BY <1>2 DEF T

LEMMA SizeDepend ==
  ASSUME NEW t \in TypeIds, NEW f, NEW g, \A p \in 1..(t - 1) : f[p] = g[p], NEW v
  PROVE  SizeOf(Types[t], v, f) = SizeOf(Types[t], v, g)
<1> DEFINE T == Types[t]
<1>1. Kind(T, t)
  BY Kinds
<1> HIDE DEF T
<1>2. SizeOf(T, v, f) = SizeOf(T, v, g)
  <2>1. CASE T.kind = "bool"
    BY <2>1 DEF SizeOf
  <2>2. CASE T.kind = "bytes"
    BY <2>2 DEF SizeOf
  <2>3. CASE T.kind = "empty"
    BY <2>3 DEF SizeOf
  <2>4. CASE T.kind = "int"
    BY <2>4 DEF SizeOf
  <2>5. CASE T.kind = "uint"
    BY <2>5 DEF SizeOf
  <2>7. CASE T.kind = "pair" /\ T.first \in 1..(t - 1) /\ T.rest \in 1..(t - 1)
    <3>1. f[T.first] = g[T.first] /\ f[T.rest] = g[T.rest]
      BY <2>7
    <3>2. SizeOf(T, v, f) = f[T.first][v[1]] + f[T.rest][v[2]]
      BY <2>7 DEF SizeOf
    <3>3. SizeOf(T, v, g) = g[T.first][v[1]] + g[T.rest][v[2]]
      BY <2>7 DEF SizeOf
    <3> QED
      BY <3>1, <3>2, <3>3
  <2>8. CASE T.kind = "slice" /\ T.of \in 1..(t - 1)
    <3>1. f[T.of] = g[T.of]
      BY <2>8
    <3>2. SizeOf(T, v, f) = UvarintLen[Len(v)] + ListSize(f[T.of], v)
      BY <2>8 DEF SizeOf, SizeOfLength, ListSize
    <3>3. SizeOf(T, v, g) = UvarintLen[Len(v)] + ListSize(g[T.of], v)
      BY <2>8 DEF SizeOf, SizeOfLength, ListSize
    <3> QED
      BY <3>1, <3>2, <3>3
  <2>9. CASE T.kind = "array" /\ T.of \in 1..(t - 1)
    <3>1. f[T.of] = g[T.of]
      BY <2>9
    <3>2. SizeOf(T, v, f) = UvarintLen[Len(v)] + ListSize(f[T.of], v)
      BY <2>9 DEF SizeOf, SizeOfLength, ListSize
    <3>3. SizeOf(T, v, g) = UvarintLen[Len(v)] + ListSize(g[T.of], v)
      BY <2>9 DEF SizeOf, SizeOfLength, ListSize
    <3> QED
      BY <3>1, <3>2, <3>3
  <2>10. CASE T.kind = "map" /\ T.key \in 1..(t - 1) /\ T.val \in 1..(t - 1)
    <3>1. f[T.key] = g[T.key] /\ f[T.val] = g[T.val]
      BY <2>10
    <3>2. SizeOf(T, v, f) = UvarintLen[Cardinality(v)] + Total(EntrySize(f[T.key], f[T.val], v), v)
      BY <2>10 DEF SizeOf, SizeOfLength, EntrySize
    <3>3. SizeOf(T, v, g) = UvarintLen[Cardinality(v)] + Total(EntrySize(g[T.key], g[T.val], v), v)
      BY <2>10 DEF SizeOf, SizeOfLength, EntrySize
    <3> QED
      BY <3>1, <3>2, <3>3
  <2> QED
    BY <1>1, <2>1, <2>2, <2>3, <2>4, <2>5, <2>7, <2>8, <2>9, <2>10 DEF Kind
<1> QED
  BY <1>2 DEF T

LEMMA ValuesUnfolds ==
  \A t \in TypeIds : Values[t] = ValuesOf(Types[t], Values)
<1> DEFINE K == Len(Types)
           value(t, f) == ValuesOf(Types[t], f)
           G == {n \in Nat : n <= K => \E f : f = [t \in 1..n |-> value(t, f)]}
<1>0. K \in Nat /\ TypeIds = 1..K
  BY TypeAssumption
<1>1. ASSUME NEW t \in TypeIds, NEW f, NEW g, \A p \in 1..(t - 1) : f[p] = g[p]
      PROVE  value(t, f) = value(t, g)
  BY <1>1, ValuesDepend
<1> HIDE DEF value
<1>2. 0 \in G
  <2>1. PICK f : f = [t \in 1..0 |-> 0]
    OBVIOUS
  <2>2. f = [t \in 1..0 |-> value(t, f)]
    BY <2>1
  <2> QED
    BY <2>2
<1>3. ASSUME NEW n \in G PROVE n + 1 \in G
  <2>0. n \in Nat /\ n + 1 \in Nat
    OBVIOUS
  <2>1. ASSUME n + 1 <= K PROVE \E f : f = [t \in 1..(n + 1) |-> value(t, f)]
    <3>1. n <= K
      BY <1>0, <2>0, <2>1
    <3>2. PICK f : f = [t \in 1..n |-> value(t, f)]
      BY <3>1
    <3> DEFINE h == [t \in 1..(n + 1) |-> IF t <= n THEN f[t] ELSE value(t, f)]
    <3>3. ASSUME NEW t \in 1..(n + 1) PROVE h[t] = value(t, h)
      <4>1. t \in TypeIds /\ (t <= n => t \in 1..n) /\ \A p \in 1..(t - 1) : p \in 1..n /\ p \in 1..(n + 1) /\ p <= n
        BY <1>0, <2>0, <2>1
      <4>2. \A p \in 1..(t - 1) : h[p] = f[p]
        BY <4>1
      <4>3. value(t, h) = value(t, f)
        <5> HIDE DEF h
        <5> QED
          BY <1>1, <4>1, <4>2
      <4>4. t <= n => f[t] = value(t, f)
        BY <3>2, <4>1
      <4>5. h[t] = IF t <= n THEN f[t] ELSE value(t, f)
        OBVIOUS
      <4> HIDE DEF h
      <4> QED
        BY <4>3, <4>4, <4>5
    <3>4. h = [t \in 1..(n + 1) |-> h[t]]
      OBVIOUS
    <3> HIDE DEF h
    <3>5. h = [t \in 1..(n + 1) |-> value(t, h)]
      BY <3>3, <3>4
    <3> QED
      BY <3>5
  <2> QED
    BY <2>0, <2>1
<1>4. G = Nat
  <2>1. G \in SUBSET Nat
    OBVIOUS
  <2> HIDE DEF G
  <2> QED
    BY <1>2, <1>3, <2>1, Induct
<1>5. \E f : f = [t \in TypeIds |-> value(t, f)]
  <2>1. K \in G /\ K <= K
    BY <1>0, <1>4
  <2>2. \E f : f = [t \in 1..K |-> value(t, f)]
    BY <2>1
  <2> HIDE DEF K
  <2> QED
    BY <1>0, <2>2
<1>6. Values = CHOOSE f : f = [t \in TypeIds |-> value(t, f)]
  BY DEF Values, value
<1>7. Values = [t \in TypeIds |-> value(t, Values)]
  BY <1>5, <1>6
<1>8. \A t \in TypeIds : Values[t] = value(t, Values)
  BY <1>7
<1> QED
  BY <1>8 DEF value

LEMMA EncodingsUnfolds ==
  \A t \in TypeIds : Encodings[t] = [v \in Values[t] |-> EncodingsOf(Types[t], v, Encodings)]
<1> DEFINE K == Len(Types)
           value(t, f) == [v \in Values[t] |-> EncodingsOf(Types[t], v, f)]
           G == {n \in Nat : n <= K => \E f : f = [t \in 1..n |-> value(t, f)]}
<1>0. K \in Nat /\ TypeIds = 1..K
  BY TypeAssumption
<1>1. ASSUME NEW t \in TypeIds, NEW f, NEW g, \A p \in 1..(t - 1) : f[p] = g[p]
      PROVE  value(t, f) = value(t, g)
  BY <1>1, EncodingsDepend
<1> HIDE DEF value
<1>2. 0 \in G
  <2>1. PICK f : f = [t \in 1..0 |-> 0]
    OBVIOUS
  <2>2. f = [t \in 1..0 |-> value(t, f)]
    BY <2>1
  <2> QED
    BY <2>2
<1>3. ASSUME NEW n \in G PROVE n + 1 \in G
  <2>0. n \in Nat /\ n + 1 \in Nat
    OBVIOUS
  <2>1. ASSUME n + 1 <= K PROVE \E f : f = [t \in 1..(n + 1) |-> value(t, f)]
    <3>1. n <= K
      BY <1>0, <2>0, <2>1
    <3>2. PICK f : f = [t \in 1..n |-> value(t, f)]
      BY <3>1
    <3> DEFINE h == [t \in 1..(n + 1) |-> IF t <= n THEN f[t] ELSE value(t, f)]
    <3>3. ASSUME NEW t \in 1..(n + 1) PROVE h[t] = value(t, h)
      <4>1. t \in TypeIds /\ (t <= n => t \in 1..n) /\ \A p \in 1..(t - 1) : p \in 1..n /\ p \in 1..(n + 1) /\ p <= n
        BY <1>0, <2>0, <2>1
      <4>2. \A p \in 1..(t - 1) : h[p] = f[p]
        BY <4>1
      <4>3. value(t, h) = value(t, f)
        <5> HIDE DEF h
        <5> QED
          BY <1>1, <4>1, <4>2
      <4>4. t <= n => f[t] = value(t, f)
        BY <3>2, <4>1
      <4>5. h[t] = IF t <= n THEN f[t] ELSE value(t, f)
        OBVIOUS
      <4> HIDE DEF h
      <4> QED
        BY <4>3, <4>4, <4>5
    <3>4. h = [t \in 1..(n + 1) |-> h[t]]
      OBVIOUS
    <3> HIDE DEF h
    <3>5. h = [t \in 1..(n + 1) |-> value(t, h)]
      BY <3>3, <3>4
    <3> QED
      BY <3>5
  <2> QED
    BY <2>0, <2>1
<1>4. G = Nat
  <2>1. G \in SUBSET Nat
    OBVIOUS
  <2> HIDE DEF G
  <2> QED
    BY <1>2, <1>3, <2>1, Induct
<1>5. \E f : f = [t \in TypeIds |-> value(t, f)]
  <2>1. K \in G /\ K <= K
    BY <1>0, <1>4
  <2>2. \E f : f = [t \in 1..K |-> value(t, f)]
    BY <2>1
  <2> HIDE DEF K
  <2> QED
    BY <1>0, <2>2
<1>6. Encodings = CHOOSE f : f = [t \in TypeIds |-> value(t, f)]
  BY DEF Encodings, value
<1>7. Encodings = [t \in TypeIds |-> value(t, Encodings)]
  BY <1>5, <1>6
<1>8. \A t \in TypeIds : Encodings[t] = value(t, Encodings)
  BY <1>7
<1> QED
  BY <1>8 DEF value

LEMMA DecodingsUnfolds ==
  \A t \in TypeIds : Decodings[t] = [data \in Data |-> DecodingsOf(Types[t], data, Decodings)]
<1> DEFINE K == Len(Types)
           value(t, f) == [data \in Data |-> DecodingsOf(Types[t], data, f)]
           G == {n \in Nat : n <= K => \E f : f = [t \in 1..n |-> value(t, f)]}
<1>0. K \in Nat /\ TypeIds = 1..K
  BY TypeAssumption
<1>1. ASSUME NEW t \in TypeIds, NEW f, NEW g, \A p \in 1..(t - 1) : f[p] = g[p]
      PROVE  value(t, f) = value(t, g)
  BY <1>1, DecodingsDepend
<1> HIDE DEF value
<1>2. 0 \in G
  <2>1. PICK f : f = [t \in 1..0 |-> 0]
    OBVIOUS
  <2>2. f = [t \in 1..0 |-> value(t, f)]
    BY <2>1
  <2> QED
    BY <2>2
<1>3. ASSUME NEW n \in G PROVE n + 1 \in G
  <2>0. n \in Nat /\ n + 1 \in Nat
    OBVIOUS
  <2>1. ASSUME n + 1 <= K PROVE \E f : f = [t \in 1..(n + 1) |-> value(t, f)]
    <3>1. n <= K
      BY <1>0, <2>0, <2>1
    <3>2. PICK f : f = [t \in 1..n |-> value(t, f)]
      BY <3>1
    <3> DEFINE h == [t \in 1..(n + 1) |-> IF t <= n THEN f[t] ELSE value(t, f)]
    <3>3. ASSUME NEW t \in 1..(n + 1) PROVE h[t] = value(t, h)
      <4>1. t \in TypeIds /\ (t <= n => t \in 1..n) /\ \A p \in 1..(t - 1) : p \in 1..n /\ p \in 1..(n + 1) /\ p <= n
        BY <1>0, <2>0, <2>1
      <4>2. \A p \in 1..(t - 1) : h[p] = f[p]
        BY <4>1
      <4>3. value(t, h) = value(t, f)
        <5> HIDE DEF h
        <5> QED
          BY <1>1, <4>1, <4>2
      <4>4. t <= n => f[t] = value(t, f)
        BY <3>2, <4>1
      <4>5. h[t] = IF t <= n THEN f[t] ELSE value(t, f)
        OBVIOUS
      <4> HIDE DEF h
      <4> QED
        BY <4>3, <4>4, <4>5
    <3>4. h = [t \in 1..(n + 1) |-> h[t]]
      OBVIOUS
    <3> HIDE DEF h
    <3>5. h = [t \in 1..(n + 1) |-> value(t, h)]
      BY <3>3, <3>4
    <3> QED
      BY <3>5
  <2> QED
    BY <2>0, <2>1
<1>4. G = Nat
  <2>1. G \in SUBSET Nat
    OBVIOUS
  <2> HIDE DEF G
  <2> QED
    BY <1>2, <1>3, <2>1, Induct
<1>5. \E f : f = [t \in TypeIds |-> value(t, f)]
  <2>1. K \in G /\ K <= K
    BY <1>0, <1>4
  <2>2. \E f : f = [t \in 1..K |-> value(t, f)]
    BY <2>1
  <2> HIDE DEF K
  <2> QED
    BY <1>0, <2>2
<1>6. Decodings = CHOOSE f : f = [t \in TypeIds |-> value(t, f)]
  BY DEF Decodings, value, Data
<1>7. Decodings = [t \in TypeIds |-> value(t, Decodings)]
  BY <1>5, <1>6
<1>8. \A t \in TypeIds : Decodings[t] = value(t, Decodings)
  BY <1>7
<1> QED
  BY <1>8 DEF value

LEMMA SizeUnfolds ==
  \A t \in TypeIds : Size[t] = [v \in Values[t] |-> SizeOf(Types[t], v, Size)]
<1> DEFINE K == Len(Types)
           value(t, f) == [v \in Values[t] |-> SizeOf(Types[t], v, f)]
           G == {n \in Nat : n <= K => \E f : f = [t \in 1..n |-> value(t, f)]}
<1>0. K \in Nat /\ TypeIds = 1..K
  BY TypeAssumption
<1>1. ASSUME NEW t \in TypeIds, NEW f, NEW g, \A p \in 1..(t - 1) : f[p] = g[p]
      PROVE  value(t, f) = value(t, g)
  BY <1>1, SizeDepend
<1> HIDE DEF value
<1>2. 0 \in G
  <2>1. PICK f : f = [t \in 1..0 |-> 0]
    OBVIOUS
  <2>2. f = [t \in 1..0 |-> value(t, f)]
    BY <2>1
  <2> QED
    BY <2>2
<1>3. ASSUME NEW n \in G PROVE n + 1 \in G
  <2>0. n \in Nat /\ n + 1 \in Nat
    OBVIOUS
  <2>1. ASSUME n + 1 <= K PROVE \E f : f = [t \in 1..(n + 1) |-> value(t, f)]
    <3>1. n <= K
      BY <1>0, <2>0, <2>1
    <3>2. PICK f : f = [t \in 1..n |-> value(t, f)]
      BY <3>1
    <3> DEFINE h == [t \in 1..(n + 1) |-> IF t <= n THEN f[t] ELSE value(t, f)]
    <3>3. ASSUME NEW t \in 1..(n + 1) PROVE h[t] = value(t, h)
      <4>1. t \in TypeIds /\ (t <= n => t \in 1..n) /\ \A p \in 1..(t - 1) : p \in 1..n /\ p \in 1..(n + 1) /\ p <= n
        BY <1>0, <2>0, <2>1
      <4>2. \A p \in 1..(t - 1) : h[p] = f[p]
        BY <4>1
      <4>3. value(t, h) = value(t, f)
        <5> HIDE DEF h
        <5> QED
          BY <1>1, <4>1, <4>2
      <4>4. t <= n => f[t] = value(t, f)
        BY <3>2, <4>1
      <4>5. h[t] = IF t <= n THEN f[t] ELSE value(t, f)
        OBVIOUS
      <4> HIDE DEF h
      <4> QED
        BY <4>3, <4>4, <4>5
    <3>4. h = [t \in 1..(n + 1) |-> h[t]]
      OBVIOUS
    <3> HIDE DEF h
    <3>5. h = [t \in 1..(n + 1) |-> value(t, h)]
      BY <3>3, <3>4
    <3> QED
      BY <3>5
  <2> QED
    BY <2>0, <2>1
<1>4. G = Nat
  <2>1. G \in SUBSET Nat
    OBVIOUS
  <2> HIDE DEF G
  <2> QED
    BY <1>2, <1>3, <2>1, Induct
<1>5. \E f : f = [t \in TypeIds |-> value(t, f)]
  <2>1. K \in G /\ K <= K
    BY <1>0, <1>4
  <2>2. \E f : f = [t \in 1..K |-> value(t, f)]
    BY <2>1
  <2> HIDE DEF K
  <2> QED
    BY <1>0, <2>2
<1>6. Size = CHOOSE f : f = [t \in TypeIds |-> value(t, f)]
  BY DEF Size, value
<1>7. Size = [t \in TypeIds |-> value(t, Size)]
  BY <1>5, <1>6
<1>8. \A t \in TypeIds : Size[t] = value(t, Size)
  BY <1>7
<1> QED
  BY <1>8 DEF value

(* A type is written and read back when its parts are.                     *)
LEMMA TypeCodec ==
  ASSUME NEW t \in TypeIds,
         \A p \in 1..(t - 1) : Codec(Values[p], Encodings[p], Decodings[p], Size[p])
  PROVE  Codec(Values[t], Encodings[t], Decodings[t], Size[t])
<1> DEFINE T == Types[t]
           V == Values[t]
           enc == Encodings[t]
           dec == Decodings[t]
           size == Size[t]
<1>1. Kind(T, t)
  BY Kinds
<1>2. V = ValuesOf(T, Values)
  BY ValuesUnfolds
<1>3. \A v \in V : enc[v] = EncodingsOf(T, v, Encodings)
  <2>1. enc = [v \in V |-> EncodingsOf(T, v, Encodings)]
    BY EncodingsUnfolds
  <2> HIDE DEF enc, V, T
  <2> QED
    BY <2>1
<1>4. \A d \in Data : dec[d] = DecodingsOf(T, d, Decodings)
  <2>1. dec = [d \in Data |-> DecodingsOf(T, d, Decodings)]
    BY DecodingsUnfolds
  <2> HIDE DEF dec, V, T
  <2> QED
    BY <2>1
<1>5. \A v \in V : size[v] = SizeOf(T, v, Size)
  <2>1. size = [v \in V |-> SizeOf(T, v, Size)]
    BY SizeUnfolds
  <2> HIDE DEF size, V, T
  <2> QED
    BY <2>1
<1> HIDE DEF T, V, enc, dec, size
<1> SUFFICES Codec(V, enc, dec, size)
  BY DEF V, enc, dec, size
<1>6. CASE T.kind = "bool"
  <2>1. V = BOOLEAN
    BY <1>2, <1>6 DEF ValuesOf
  <2>2. ASSUME NEW v \in V PROVE enc[v] = {<<IF v THEN 1 ELSE 0>>}
    <3>1. EncodingsOf(T, v, Encodings) = {<<IF v THEN 1 ELSE 0>>}
      BY <1>6 DEF EncodingsOf
    <3> QED
      BY <1>3, <3>1
  <2>3. ASSUME NEW v \in V PROVE size[v] = 1
    <3>1. SizeOf(T, v, Size) = 1
      BY <1>6 DEF SizeOf, SizeOfLength
    <3> QED
      BY <1>5, <3>1
  <2>4. ASSUME NEW d \in Data PROVE dec[d] = (IF d = <<>> \/ d[1] > 1 THEN {} ELSE {<<d[1] = 1, Tail(d)>>})
    <3>1. DecodingsOf(T, d, Decodings) = (IF d = <<>> \/ d[1] > 1 THEN {} ELSE {<<d[1] = 1, Tail(d)>>})
      BY <1>6 DEF DecodingsOf
    <3> QED
      BY <1>4, <3>1
  <2> QED
    BY <2>1, <2>2, <2>3, <2>4, BoolCodec
<1>7. CASE T.kind = "int" /\ T.limit \in 1..(MaxInt + 1)
  <2> DEFINE l == T.limit
  <2>0. l \in 1..(MaxInt + 1)
    BY <1>7
  <2>1. V = (-l)..(l - 1)
    BY <1>2, <1>7 DEF ValuesOf
  <2>2. ASSUME NEW v \in V PROVE enc[v] = {AppendUvarint[Zigzag(v)]}
    <3>1. EncodingsOf(T, v, Encodings) = {AppendUvarint[Zigzag(v)]}
      BY <1>7 DEF EncodingsOf
    <3> QED
      BY <1>3, <3>1
  <2>3. ASSUME NEW v \in V PROVE size[v] = UvarintLen[Zigzag(v)]
    <3>1. SizeOf(T, v, Size) = UvarintLen[Zigzag(v)]
      BY <1>7 DEF SizeOf, SizeOfLength
    <3> QED
      BY <1>5, <3>1
  <2>4. ASSUME NEW d \in Data PROVE dec[d] = {<<ZigzagDecode(r[1]), r[2]>> : r \in {r \in ReadUvarint(d) : ZigzagDecode(r[1]) \in (-l)..(l - 1)}}
    <3>1. DecodingsOf(T, d, Decodings) = {<<ZigzagDecode(r[1]), r[2]>> : r \in {r \in ReadUvarint(d) : ZigzagDecode(r[1]) \in (-l)..(l - 1)}}
      BY <1>7 DEF DecodingsOf, Fits
    <3> QED
      BY <1>4, <3>1
  <2> QED
    BY <2>0, <2>1, <2>2, <2>3, <2>4, IntCodec
<1>8. CASE T.kind = "uint" /\ T.limit \in 1..Wide
  <2> DEFINE l == T.limit
  <2>0. l \in 1..Wide
    BY <1>8
  <2>1. V = 0..(l - 1)
    BY <1>2, <1>8 DEF ValuesOf
  <2>2. ASSUME NEW v \in V PROVE enc[v] = {AppendUvarint[v]}
    <3>1. EncodingsOf(T, v, Encodings) = {AppendUvarint[v]}
      BY <1>8 DEF EncodingsOf
    <3> QED
      BY <1>3, <3>1
  <2>3. ASSUME NEW v \in V PROVE size[v] = UvarintLen[v]
    <3>1. SizeOf(T, v, Size) = UvarintLen[v]
      BY <1>8 DEF SizeOf, SizeOfLength
    <3> QED
      BY <1>5, <3>1
  <2>4. ASSUME NEW d \in Data PROVE dec[d] = {r \in ReadUvarint(d) : r[1] \in 0..(l - 1)}
    <3>1. DecodingsOf(T, d, Decodings) = {r \in ReadUvarint(d) : r[1] \in 0..(l - 1)}
      BY <1>8 DEF DecodingsOf, Fits
    <3> QED
      BY <1>4, <3>1
  <2> QED
    BY <2>0, <2>1, <2>2, <2>3, <2>4, UintCodec
<1>10. CASE T.kind = "bytes"
  <2>1. V = {s \in Data : Len(s) <= MaxInt}
    BY <1>2, <1>10 DEF ValuesOf, Data
  <2>2. ASSUME NEW v \in V PROVE enc[v] = {AppendUvarint[Len(v)] \o v}
    <3>1. EncodingsOf(T, v, Encodings) = {AppendUvarint[Len(v)] \o v}
      BY <1>10 DEF EncodingsOf
    <3> QED
      BY <1>3, <3>1
  <2>3. ASSUME NEW v \in V PROVE size[v] = UvarintLen[Len(v)] + Len(v)
    <3>1. SizeOf(T, v, Size) = UvarintLen[Len(v)] + Len(v)
      BY <1>10 DEF SizeOf, SizeOfLength
    <3> QED
      BY <1>5, <3>1
  <2>4. ASSUME NEW d \in Data PROVE dec[d] = UNION {ReadBytes(r[1], r[2]) : r \in ReadLength(d)}
    <3>1. DecodingsOf(T, d, Decodings) = UNION {ReadBytes(r[1], r[2]) : r \in ReadLength(d)}
      BY <1>10 DEF DecodingsOf
    <3> QED
      BY <1>4, <3>1
  <2> QED
    BY <2>1, <2>2, <2>3, <2>4, BytesCodec
<1>11. CASE T.kind = "empty"
  <2>1. V = {<<>>}
    BY <1>2, <1>11 DEF ValuesOf
  <2>2. ASSUME NEW v \in V PROVE enc[v] = {<<>>}
    <3>1. EncodingsOf(T, v, Encodings) = {<<>>}
      BY <1>11 DEF EncodingsOf
    <3> QED
      BY <1>3, <3>1
  <2>3. ASSUME NEW v \in V PROVE size[v] = 0
    <3>1. SizeOf(T, v, Size) = 0
      BY <1>11 DEF SizeOf, SizeOfLength
    <3> QED
      BY <1>5, <3>1
  <2>4. ASSUME NEW d \in Data PROVE dec[d] = {<<<<>>, d>>}
    <3>1. DecodingsOf(T, d, Decodings) = {<<<<>>, d>>}
      BY <1>11 DEF DecodingsOf
    <3> QED
      BY <1>4, <3>1
  <2>5. enc[<<>>] = {<<>>} /\ size[<<>>] = 0
    BY <2>1, <2>2, <2>3
  <2> QED
    BY <2>1, <2>4, <2>5, EmptyCodec
<1>12. CASE T.kind = "pair" /\ T.first \in 1..(t - 1) /\ T.rest \in 1..(t - 1)
  <2> DEFINE p == T.first
             q == T.rest
             V1 == Values[p]
             V2 == Values[q]
             enc1 == Encodings[p]
             enc2 == Encodings[q]
             dec1 == Decodings[p]
             dec2 == Decodings[q]
             size1 == Size[p]
             size2 == Size[q]
  <2>0. Codec(V1, enc1, dec1, size1) /\ Codec(V2, enc2, dec2, size2)
    BY <1>12
  <2>1. V = V1 \X V2
    BY <1>2, <1>12 DEF ValuesOf
  <2>2. ASSUME NEW v \in V PROVE enc[v] = Join(enc1[v[1]], enc2[v[2]])
    <3>1. EncodingsOf(T, v, Encodings) = Join(enc1[v[1]], enc2[v[2]])
      BY <1>12 DEF EncodingsOf
    <3> QED
      BY <1>3, <3>1
  <2>3. ASSUME NEW v \in V PROVE size[v] = size1[v[1]] + size2[v[2]]
    <3>1. SizeOf(T, v, Size) = size1[v[1]] + size2[v[2]]
      BY <1>12 DEF SizeOf, SizeOfLength
    <3> QED
      BY <1>5, <3>1
  <2>4. ASSUME NEW d \in Data PROVE dec[d] = ReadPair(dec1, dec2, d)
    <3>1. DecodingsOf(T, d, Decodings) = ReadPair(dec1, dec2, d)
      BY <1>12 DEF DecodingsOf
    <3> QED
      BY <1>4, <3>1
  <2> HIDE DEF V1, V2, enc1, enc2, dec1, dec2, size1, size2
  <2>5. PairCoded(enc1, dec1, size1, enc2, dec2, size2, V, enc, dec, size)
    BY <2>2, <2>3, <2>4 DEF PairCoded
  <2>6. /\ Writes(V1, enc1, dec1, size1) /\ Reads(V1, dec1, size1)
        /\ Writes(V2, enc2, dec2, size2) /\ Reads(V2, dec2, size2)
    BY <2>0 DEF Codec
  <2>7. Sized(V1, size1) /\ Typed(V1, dec1)
    BY <2>0, CodecTypes
  <2>8. Sized(V2, size2)
    BY <2>0, CodecTypes
  <2>9. Writes(V, enc, dec, size)
    <3>1. V \in SUBSET (V1 \X V2)
      BY <2>1
    <3> QED
      BY <2>5, <2>6, <2>7, <3>1, PairWrites
  <2>10. Reads(V1 \X V2, dec, size)
    <3>1. PairCoded(enc1, dec1, size1, enc2, dec2, size2, V1 \X V2, enc, dec, size)
      BY <2>1, <2>5
    <3> QED
      BY <2>6, <2>7, <2>8, <3>1, PairReads
  <2> QED
    BY <2>1, <2>9, <2>10 DEF Codec
<1>13. CASE T.kind = "slice" /\ T.of \in 1..(t - 1)
  <2> DEFINE p == T.of
             V1 == Values[p]
             enc1 == Encodings[p]
             dec1 == Decodings[p]
             size1 == Size[p]
  <2>0. Codec(V1, enc1, dec1, size1)
    BY <1>13
  <2>1. V = {s \in Seq(V1) : Len(s) <= MaxInt}
    BY <1>2, <1>13 DEF ValuesOf
  <2>2. ASSUME NEW v \in V PROVE enc[v] = Join({AppendUvarint[Len(v)]}, Items(enc1, v))
    <3>1. EncodingsOf(T, v, Encodings) = Join({AppendUvarint[Len(v)]}, Items(enc1, v))
      BY <1>13 DEF EncodingsOf
    <3> QED
      BY <1>3, <3>1
  <2>3. ASSUME NEW v \in V PROVE size[v] = UvarintLen[Len(v)] + ListSize(size1, v)
    <3>1. SizeOf(T, v, Size) = UvarintLen[Len(v)] + ListSize(size1, v)
      BY <1>13 DEF SizeOf, SizeOfLength, ListSize
    <3> QED
      BY <1>5, <3>1
  <2>4. ASSUME NEW d \in Data PROVE dec[d] = SliceRead(dec1, d)
    <3>1. DecodingsOf(T, d, Decodings) = SliceRead(dec1, d)
      BY <1>13 DEF DecodingsOf, SliceRead
    <3> QED
      BY <1>4, <3>1
  <2> HIDE DEF V1, enc1, dec1, size1
  <2>5. SliceCoded(V1, enc1, dec1, size1, V, enc, dec, size)
    BY <2>1, <2>2, <2>3, <2>4 DEF SliceCoded, ListMade
  <2> QED
    BY <2>0, <2>5, SliceCodec
<1>14. CASE T.kind = "array" /\ T.len \in 0..MaxInt /\ T.of \in 1..(t - 1)
  <2> DEFINE p == T.of
             V1 == Values[p]
             enc1 == Encodings[p]
             dec1 == Decodings[p]
             size1 == Size[p]
             n == T.len
  <2>0. Codec(V1, enc1, dec1, size1) /\ n \in 0..MaxInt
    BY <1>14
  <2>1. V = [1..n -> V1]
    BY <1>2, <1>14 DEF ValuesOf
  <2>2. ASSUME NEW v \in V PROVE enc[v] = Join({AppendUvarint[Len(v)]}, Items(enc1, v))
    <3>1. EncodingsOf(T, v, Encodings) = Join({AppendUvarint[Len(v)]}, Items(enc1, v))
      BY <1>14 DEF EncodingsOf
    <3> QED
      BY <1>3, <3>1
  <2>3. ASSUME NEW v \in V PROVE size[v] = UvarintLen[Len(v)] + ListSize(size1, v)
    <3>1. SizeOf(T, v, Size) = UvarintLen[Len(v)] + ListSize(size1, v)
      BY <1>14 DEF SizeOf, SizeOfLength, ListSize
    <3> QED
      BY <1>5, <3>1
  <2>4. ASSUME NEW d \in Data PROVE dec[d] = ArrayRead(dec1, n, d)
    <3>1. DecodingsOf(T, d, Decodings) = ArrayRead(dec1, n, d)
      BY <1>14 DEF DecodingsOf, ArrayRead
    <3> QED
      BY <1>4, <3>1
  <2> HIDE DEF V1, enc1, dec1, size1, n
  <2>5. ArrayCoded(V1, enc1, dec1, size1, n, V, enc, dec, size)
    BY <2>1, <2>2, <2>3, <2>4 DEF ArrayCoded, ListMade
  <2> QED
    BY <2>0, <2>5, ArrayCodec
<1>15. CASE T.kind = "map" /\ T.key \in 1..(t - 1) /\ T.val \in 1..(t - 1)
  <2> DEFINE p == T.key
             q == T.val
             V1 == Values[p]
             V2 == Values[q]
             enc1 == Encodings[p]
             enc2 == Encodings[q]
             dec1 == Decodings[p]
             dec2 == Decodings[q]
             size1 == Size[p]
             size2 == Size[q]
  <2>0. Codec(V1, enc1, dec1, size1) /\ Codec(V2, enc2, dec2, size2)
    BY <1>15
  <2>1. V = Maps(V1 \X V2)
    BY <1>2, <1>15 DEF ValuesOf, Maps
  <2>2. ASSUME NEW v \in V PROVE enc[v] = Join({AppendUvarint[Cardinality(v)]}, Spread(enc1, enc2, v))
    <3>1. EncodingsOf(T, v, Encodings) = Join({AppendUvarint[Cardinality(v)]}, Spread(enc1, enc2, v))
      BY <1>15 DEF EncodingsOf, Spread, EntryIn
    <3> QED
      BY <1>3, <3>1
  <2>3. ASSUME NEW v \in V PROVE size[v] = UvarintLen[Cardinality(v)] + Total(EntrySize(size1, size2, v), v)
    <3>1. SizeOf(T, v, Size) = UvarintLen[Cardinality(v)] + Total(EntrySize(size1, size2, v), v)
      BY <1>15 DEF SizeOf, SizeOfLength, EntrySize
    <3> QED
      BY <1>5, <3>1
  <2>4. ASSUME NEW d \in Data PROVE dec[d] = MapRead(dec1, dec2, d)
    <3>1. DecodingsOf(T, d, Decodings) = MapRead(dec1, dec2, d)
      BY <1>15 DEF DecodingsOf, MapRead, EntryOf, Data
    <3> QED
      BY <1>4, <3>1
  <2> HIDE DEF V1, V2, enc1, enc2, dec1, dec2, size1, size2
  <2>5. MapCoded(enc1, dec1, size1, enc2, dec2, size2, V, enc, dec, size)
    BY <2>2, <2>3, <2>4 DEF MapCoded, MapRead
  <2>6. Codec(Maps(V1 \X V2), enc, dec, size)
    <3>1. MapCoded(enc1, dec1, size1, enc2, dec2, size2, Maps(V1 \X V2), enc, dec, size)
      BY <2>1, <2>5
    <3> QED
      BY <2>0, <3>1, MapCodec
  <2> QED
    BY <2>1, <2>6
<1> QED
  BY <1>1, <1>6, <1>7, <1>8, <1>10, <1>11, <1>12, <1>13, <1>14, <1>15 DEF Kind

(* The values of every type of every table are written and read back,      *)
(* whatever follows them; and what decodeVarintValue accepts is a value of *)
(* the type, in no fewer bytes than appendEncodeVarint takes.              *)
THEOREM EveryTypeCodec ==
  ASSUME NEW t \in TypeIds
  PROVE  Codec(Values[t], Encodings[t], Decodings[t], Size[t])
<1> DEFINE good(p) == Codec(Values[p], Encodings[p], Decodings[p], Size[p])
           G == {n \in Nat : \A p \in TypeIds : p <= n => good(p)}
<1>0. Len(Types) \in Nat /\ TypeIds = 1..Len(Types)
  BY TypeAssumption
<1>1. ASSUME NEW p \in TypeIds, \A q \in 1..(p - 1) : good(q) PROVE good(p)
  BY <1>1, TypeCodec
<1> HIDE DEF good
<1>2. 0 \in G
  BY <1>0
<1>3. ASSUME NEW n \in G PROVE n + 1 \in G
  <2>1. n \in Nat /\ \A p \in TypeIds : p <= n => good(p)
    OBVIOUS
  <2>2. ASSUME NEW p \in TypeIds, p <= n + 1 PROVE good(p)
    <3>1. \A q \in 1..(p - 1) : q \in TypeIds /\ q <= n
      BY <1>0, <2>1, <2>2
    <3> QED
      BY <1>1, <2>1, <3>1
  <2> QED
    BY <2>1, <2>2
<1>4. G = Nat
  <2>1. G \in SUBSET Nat
    OBVIOUS
  <2> HIDE DEF G
  <2> QED
    BY <1>2, <1>3, <2>1, Induct
<1>5. t \in Nat /\ t <= t
  BY <1>0
<1>6. good(t)
  BY <1>4, <1>5
<1> QED
  BY <1>6 DEF good

-----------------------------------------------------------------------------
(* What the calls answer.                                                  *)

(* What DecodeAll makes of the bytes of a value, of the bytes cut short,   *)
(* and of the bytes with more behind them.                                 *)
LEMMA WholeReads ==
  ASSUME NEW t \in TypeIds, NEW v \in Values[t], NEW e \in Encodings[t][v]
  PROVE  /\ e \in Data /\ Len(e) = Size[t][v] /\ DecodeAll(t, e) = {v}
         /\ \A n \in 0..(Len(e) - 1) : DecodeAll(t, SubSeq(e, 1, n)) = {}
         /\ \A b \in Byte : DecodeAll(t, Append(e, b)) = {}
<1> DEFINE V == Values[t]
           enc == Encodings[t]
           dec == Decodings[t]
           size == Size[t]
           whole(d) == {r[1] : r \in {r \in dec[d] : r[2] = <<>>}}
<1>1. Writes(V, enc, dec, size) /\ Reads(V, dec, size)
  BY EveryTypeCodec DEF Codec
<1>2. \A d : DecodeAll(t, d) = whole(d)
  BY DEF DecodeAll
<1>3. v \in V /\ e \in enc[v]
  OBVIOUS
<1> SUFFICES /\ e \in Data /\ Len(e) = size[v] /\ whole(e) = {v}
             /\ \A n \in 0..(Len(e) - 1) : whole(SubSeq(e, 1, n)) = {}
             /\ \A b \in Byte : whole(Append(e, b)) = {}
  BY <1>2
<1> HIDE DEF V, enc, dec, size
<1>4. e \in Data /\ Len(e) = size[v] /\ \A d \in Data : dec[e \o d] = {<<v, d>>}
  BY <1>1, <1>3 DEF Writes, Written
<1>5. PICK z \in Data : z = <<>>
  BY <1>4, DataConcat
<1>6. dec[e] = {<<v, z>>}
  <2>1. e \o z = e
    BY <1>4, <1>5, DataConcat
  <2>2. dec[e \o z] = {<<v, z>>}
    BY <1>4
  <2> QED
    BY <2>1, <2>2
<1>7. whole(e) = {v}
  <2> DEFINE w == <<v, z>>
  <2>1. w[1] = v /\ w[2] = z /\ dec[e] = {w}
    BY <1>6
  <2> HIDE DEF w
  <2>2. {r \in dec[e] : r[2] = z} = {w}
    BY <2>1
  <2> QED
    BY <1>5, <2>1, <2>2
<1>8. ASSUME NEW n \in 0..(Len(e) - 1) PROVE whole(SubSeq(e, 1, n)) = {}
  <2>0. Len(e) \in Nat
    BY <1>4, DataConcat
  <2>1. n \in Nat /\ ~(n > Len(e))
    BY <2>0
  <2> DEFINE p == SubSeq(e, 1, n)
             q == SubSeq(e, n + 1, Len(e))
             x == <<p, q>>
  <2>2. x \in ReadBytes(n, e)
    BY <2>1 DEF ReadBytes
  <2>3. p \in Data /\ Len(p) = n /\ q \in Data /\ e = p \o q
    <3>1. x[1] = p /\ x[2] = q
      OBVIOUS
    <3> HIDE DEF p, q, x
    <3> QED
      <4>1. e \in Data /\ n \in Nat /\ x \in ReadBytes(n, e)
        BY <1>4, <2>1, <2>2
      <4>2. x[1] \in Data /\ Len(x[1]) = n /\ x[2] \in Data /\ e = x[1] \o x[2]
        BY <4>1, ReadBytesSplit
      <4> QED
        BY <3>1, <4>2
  <2> HIDE DEF p, q, x
  <2>4. q # z
    <3>1. Len(e) = n + Len(q) /\ Len(q) \in Nat
      BY <2>3, DataConcat
    <3>2. Len(z) = 0
      BY <1>5, DataConcat
    <3>3. n < Len(e)
      BY <2>0
    <3> QED
      BY <2>1, <3>1, <3>2, <3>3
  <2>5. ASSUME NEW r \in dec[p], r[2] = z PROVE FALSE
    <3>1. \A more \in Data : dec[p \o more] = {<<r[1], r[2] \o more>>}
      BY <1>1, <2>3 DEF Reads
    <3>2. r[2] \o q = q
      BY <1>5, <2>3, <2>5, DataConcat
    <3>3. dec[p \o q] = {<<r[1], q>>}
      BY <2>3, <3>1, <3>2
    <3>4. {<<r[1], q>>} = {<<v, z>>}
      BY <1>6, <2>3, <3>3
    <3> DEFINE a == <<r[1], q>>
               b == <<v, z>>
    <3>5. a[2] = q /\ b[2] = z /\ {a} = {b}
      BY <3>4
    <3> HIDE DEF a, b
    <3> QED
      BY <2>4, <3>5
  <2> QED
    BY <1>5, <2>5 DEF p
<1>9. ASSUME NEW b \in Byte PROVE whole(Append(e, b)) = {}
  <2> DEFINE d == <<b>>
             w == <<v, d>>
             y == Append(e, b)
  <2>1. d \in Data /\ Len(d) = 1 /\ Len(z) = 0
    <3>1. d \in Data /\ Len(d) = 1
      BY <1>5, DataCons
    <3> QED
      BY <1>5, <3>1, DataConcat
  <2>2. y = e \o d
    BY <1>4, AppendIsConcat DEF Data
  <2>3. w[2] = d
    OBVIOUS
  <2> HIDE DEF d, y
  <2>4. dec[y] = {w}
    BY <1>4, <2>1, <2>2
  <2> HIDE DEF w
  <2>5. d # z
    BY <2>1
  <2>6. {r \in dec[y] : r[2] = z} = {}
    BY <2>3, <2>4, <2>5
  <2> QED
    BY <1>5, <2>6 DEF y
<1> QED
  BY <1>4, <1>7, <1>8, <1>9

EncoderRight(t, v, r) ==
  /\ r.data # {}
  /\ \A e \in r.data :
       /\ Len(e) = r.size /\ DecodeAll(t, e) = {v}
       /\ \A n \in 0..(Len(e) - 1) : DecodeAll(t, SubSeq(e, 1, n)) = {}
       /\ \A b \in Byte : DecodeAll(t, Append(e, b)) = {}

LEMMA EncoderAnswerRight ==
  ASSUME NEW t \in TypeIds, NEW v \in Values[t]
  PROVE  EncoderRight(t, v, EncoderAnswer(t, v))
<1>1. Encodings[t][v] # {}
  BY EveryTypeCodec DEF Codec, Writes, Written
<1>2. \A e \in Encodings[t][v] :
        /\ Len(e) = Size[t][v] /\ DecodeAll(t, e) = {v}
        /\ \A n \in 0..(Len(e) - 1) : DecodeAll(t, SubSeq(e, 1, n)) = {}
        /\ \A b \in Byte : DecodeAll(t, Append(e, b)) = {}
  BY WholeReads
<1> DEFINE A == Encodings[t][v]
           l == Size[t][v]
<1> HIDE DEF A, l
<1>3. A # {} /\ \A e \in A :
        /\ Len(e) = l /\ DecodeAll(t, e) = {v}
        /\ \A n \in 0..(Len(e) - 1) : DecodeAll(t, SubSeq(e, 1, n)) = {}
        /\ \A b \in Byte : DecodeAll(t, Append(e, b)) = {}
  BY <1>1, <1>2 DEF A, l
<1>4. EncoderRight(t, v, [kind |-> "encode", data |-> A, size |-> l])
  BY <1>3 DEF EncoderRight
<1> QED
  BY <1>4 DEF A, l, EncoderAnswer

ParserRight(t, data, r) ==
  /\ Cardinality(r.values) <= 1
  /\ \A v \in r.values :
       /\ v \in Values[t]
       /\ \A e \in Encodings[t][v] : Len(e) <= Len(data) /\ DecodeAll(t, e) = {v}

LEMMA ParserAnswerRight ==
  ASSUME NEW t \in TypeIds, NEW data \in Data
  PROVE  ParserRight(t, data, ParserAnswer(t, data))
<1> DEFINE V == Values[t]
           dec == Decodings[t]
           size == Size[t]
           A == DecodeAll(t, data)
<1>1. Reads(V, dec, size) /\ Sized(V, size)
  BY EveryTypeCodec, CodecTypes DEF Codec
<1>2. PICK z \in Data : z = <<>> /\ Len(z) = 0
  BY DataConcat
<1>3. A = {r[1] : r \in {r \in dec[data] : r[2] = z}}
  BY <1>2 DEF DecodeAll
<1> HIDE DEF V, dec, size, A
<1>4. ASSUME NEW v \in A PROVE v \in V /\ size[v] <= Len(data) /\ \A r \in dec[data] : r[1] = v
  <2>1. PICK r \in dec[data] : r[2] = z /\ v = r[1]
    BY <1>3
  <2>2. r \in V \X Data /\ dec[data] = {r} /\ size[r[1]] + Len(r[2]) <= Len(data)
    BY <1>1, <2>1 DEF Reads
  <2>3. v \in V /\ size[v] \in Nat
    BY <1>1, <2>1, <2>2 DEF Sized
  <2>4. size[v] + 0 <= Len(data)
    BY <1>2, <2>1, <2>2
  <2> QED
    BY <2>1, <2>2, <2>3, <2>4
<1>5. \A u, v \in A : u = v
  BY <1>3, <1>4
<1>6. Cardinality(A) <= 1
  BY <1>5, AtMostOneMember
<1>7. ASSUME NEW v \in A, NEW e \in Encodings[t][v] PROVE Len(e) <= Len(data) /\ DecodeAll(t, e) = {v}
  <2>1. v \in Values[t]
    BY <1>4 DEF V
  <2>2. Len(e) = Size[t][v] /\ DecodeAll(t, e) = {v}
    BY <2>1, WholeReads
  <2> QED
    BY <1>4, <2>2 DEF size
<1>8. \A v \in A : v \in Values[t]
  BY <1>4 DEF V
<1>9. ParserRight(t, data, [kind |-> "parse", values |-> A])
  BY <1>6, <1>7, <1>8 DEF ParserRight
<1> QED
  BY <1>9 DEF A, ParserAnswer

-----------------------------------------------------------------------------
(* The answer to every task.                                               *)

AnswersRight ==
  /\ \/ task \in FieldTasks \/ task \in DecodeTasks \/ task \in EncodeTasks \/ task \in ParseTasks
  /\ answer.kind = "field" => FieldRight(task.a, task.b, answer)
  /\ answer.kind = "decode" => DecoderRight(task.points, task.degree, task.strict, answer)
  /\ answer.kind = "encode" => EncoderRight(task.type, task.value, answer)
  /\ answer.kind = "parse" => ParserRight(task.type, task.data, answer)

LEMMA TaskTypes ==
  /\ \A t \in FieldTasks : t.kind = "field" /\ t.a \in Uint /\ t.b \in Uint
  /\ \A t \in DecodeTasks : /\ t.kind = "decode" /\ t.degree \in Nat /\ t.strict \in BOOLEAN
                            /\ t.points \in Seq(Elem \X Elem)
  /\ \A t \in EncodeTasks : t.kind = "encode" /\ t.type \in TypeIds /\ t.value \in Values[t.type]
  /\ \A t \in ParseTasks : t.kind = "parse" /\ t.type \in TypeIds /\ t.data \in Seq(Byte)
BY TaskAssumption DEF FieldTasks

LEMMA AnswersInit == Init => AnswersRight
BY DEF Init, None, AnswersRight

LEMMA AnswersStep == AnswersRight /\ [Next]_vars => AnswersRight'
<1> SUFFICES ASSUME AnswersRight, [Next]_vars PROVE AnswersRight'
  OBVIOUS
<1>1. CASE FieldCall
  <2>1. task \in FieldTasks /\ task' = task /\ answer' = FieldAnswer(task.a, task.b)
    BY <1>1, TaskTypes DEF FieldCall, AnswersRight
  <2>2. task.a \in Uint /\ task.b \in Uint
    BY <2>1, TaskTypes
  <2>3. FieldRight(task.a, task.b, FieldAnswer(task.a, task.b))
    BY <2>2, FieldAnswerRight
  <2>4. answer'.kind = "field"
    BY <2>1 DEF FieldAnswer
  <2>5. FieldRight(task'.a, task'.b, answer')
    BY <2>1, <2>3
  <2> QED
    BY <2>1, <2>4, <2>5 DEF AnswersRight
<1>2. CASE DecodeCall
  <2>1. /\ task \in DecodeTasks /\ task' = task
        /\ answer' = DecoderAnswer(task.points, task.degree, task.strict)
    BY <1>2, TaskTypes DEF DecodeCall, AnswersRight
  <2>2. task.degree \in Nat /\ task.strict \in BOOLEAN /\ task.points \in Seq(Elem \X Elem)
    BY <2>1, TaskTypes
  <2>3. DecoderRight(task.points, task.degree, task.strict,
                     DecoderAnswer(task.points, task.degree, task.strict))
    BY <2>2, DecoderAnswerRight
  <2>4. answer'.kind = "decode"
    BY <2>1 DEF DecoderAnswer
  <2>5. DecoderRight(task'.points, task'.degree, task'.strict, answer')
    BY <2>1, <2>3
  <2> QED
    BY <2>1, <2>4, <2>5 DEF AnswersRight
<1>3. CASE EncodeCall
  <2>1. /\ task \in EncodeTasks /\ task' = task
        /\ answer' = EncoderAnswer(task.type, task.value)
    BY <1>3, TaskTypes DEF EncodeCall, AnswersRight
  <2>2. task.type \in TypeIds /\ task.value \in Values[task.type]
    BY <2>1, TaskTypes
  <2>3. EncoderRight(task.type, task.value, EncoderAnswer(task.type, task.value))
    BY <2>2, EncoderAnswerRight
  <2>4. answer'.kind = "encode"
    BY <2>1 DEF EncoderAnswer
  <2>5. EncoderRight(task'.type, task'.value, answer')
    BY <2>1, <2>3
  <2> QED
    BY <2>1, <2>4, <2>5 DEF AnswersRight
<1>4. CASE ParseCall
  <2>1. task \in ParseTasks /\ task' = task /\ answer' = ParserAnswer(task.type, task.data)
    BY <1>4, TaskTypes DEF ParseCall, AnswersRight
  <2>2. task.type \in TypeIds /\ task.data \in Data
    BY <2>1, TaskTypes DEF Data
  <2>3. ParserRight(task.type, task.data, ParserAnswer(task.type, task.data))
    BY <2>2, ParserAnswerRight
  <2>4. answer'.kind = "parse"
    BY <2>1 DEF ParserAnswer
  <2>5. ParserRight(task'.type, task'.data, answer')
    BY <2>1, <2>3
  <2> QED
    BY <2>1, <2>4, <2>5 DEF AnswersRight
<1>5. CASE ParsePanic
  BY <1>5 DEF ParsePanic, AnswersRight
<1>6. CASE UNCHANGED vars
  BY <1>6 DEF vars, AnswersRight
<1> QED
  BY <1>1, <1>2, <1>3, <1>4, <1>5, <1>6 DEF Next, Done

(* Of every task that is answered, the answer is the right one: what the   *)
(* proofs above show of each operation of field.go, of the decoder, and of *)
(* the encoding.                                                           *)
THEOREM AnswersInvariant == Spec => []AnswersRight
BY AnswersInit, AnswersStep, PTL DEF Spec

(* The operations of field.go on machine words are those of the integers   *)
(* modulo P, for every prime and width that Validate accepts and every     *)
(* pair of words.                                                          *)
THEOREM FieldExactHolds == Spec => []FieldExact
<1>1. AnswersRight => FieldExact
  BY DEF AnswersRight, FieldRight, FieldExact
<1> QED
  BY <1>1, AnswersInvariant, PTL

(* The decoder of interpolate.go answers, in every field, for every list   *)
(* of points, every degree and both variants, with the value at zero of    *)
(* the one polynomial within the decoding radius or with an error.         *)
THEOREM DecoderExactHolds == Spec => []DecoderExact
<1>1. AnswersRight => DecoderExact
  BY DEF AnswersRight, DecoderRight, DecoderExact
<1> QED
  BY <1>1, AnswersInvariant, PTL

(* Whatever the table of types, every encoding of a value decodes to that  *)
(* value, whatever order a map is written in, and has the number of bytes  *)
(* that VarintScalarWireSize reports.                                      *)
THEOREM RoundTripHolds == Spec => []RoundTrip
<1>1. AnswersRight => RoundTrip
  BY DEF AnswersRight, EncoderRight, RoundTrip
<1> QED
  BY <1>1, AnswersInvariant, PTL

(* No message of any type is accepted when it is cut short, nor with a     *)
(* byte more behind it.                                                    *)
THEOREM WholeMessagesOnlyHolds == Spec => []WholeMessagesOnly
<1>1. AnswersRight => WholeMessagesOnly
  BY DEF AnswersRight, EncoderRight, WholeMessagesOnly
<1> QED
  BY <1>1, AnswersInvariant, PTL

(* Whatever bytes arrive, Decode accepts them for one value of its type at *)
(* most, and that value, sent on, takes no more bytes and is read again.   *)
THEOREM AcceptedIsValueHolds == Spec => []AcceptedIsValue
<1>1. AnswersRight => AcceptedIsValue
  BY DEF AnswersRight, ParserRight, AcceptedIsValue
<1> QED
  BY <1>1, AnswersInvariant, PTL
=============================================================================
