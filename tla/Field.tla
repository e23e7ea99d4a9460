-------------------------------- MODULE Field --------------------------------
(***************************************************************************)
(* The prime field of protocols/fdvss/field.go in machine words: an        *)
(* operation on uint64 is taken modulo Word, 2^64 in the program.          *)
(***************************************************************************)
EXTENDS Integers

CONSTANTS P, Word

Uint == 0..(Word - 1)
Elem == 0..(P - 1)

Prime(p) == p >= 2 /\ \A d \in 2..(p - 1) : (p % d) # 0

\* validateFieldLayout and Validate: a square of P - 1 fits a word.
FieldValid(p) == p >= 2 /\ (p - 1) * (p - 1) < Word /\ Prime(p)

ASSUME WordAssumption  == Word \in Nat /\ Word >= 4
ASSUME FieldAssumption == P \in Nat /\ FieldValid(P)

Uint64FromUint64(v) == v % P

\* uint64(-val) % p is subtracted from p, which leaves p itself for a multiple.
Uint64FromInt(v) == IF v < 0 THEN P - ((-v) % P) ELSE (v % P)

(* The operations on operands of 0..P-1, each machine operation wrapping.  *)

\* Mutant: a sum of exactly P is not reduced.
MutantModAddCanon(a, b) == LET s == (a + b) % Word IN IF s > P THEN s - P ELSE s

ModAddCanon(a, b) == LET s == (a + b) % Word IN IF s >= P THEN s - P ELSE s

ModSubCanon(a, b) == IF a >= b THEN a - b ELSE (((P + a) % Word) - b) % Word

ModMulCanon(a, b) == ((a * b) % Word) % P

(* The operations on any words.                                            *)
ModAdd(a, b) == ModAddCanon(a % P, b % P)
ModSub(a, b) == ModSubCanon(a % P, b % P)
ModMul(a, b) == ModMulCanon(a % P, b % P)

(* ModInv: Euclid's algorithm on <<oldR, r, oldS, s>>, oldS and s the      *)
(* coefficients of aMod in oldR and r.  A result is {v}, an error {}.      *)
EuclidState == (0..P) \X (0..P) \X Elem \X Elem

Euclid[x \in EuclidState] ==
  IF x[2] = 0 THEN (IF x[1] = 1 THEN {x[3]} ELSE {})
  ELSE LET quotient == x[1] \div x[2] IN
       Euclid[<<x[2], x[1] - quotient * x[2], x[4], ModSub(x[3], ModMul(quotient, x[4]))>>]

ModInv(a) == IF a % P = 0 THEN {} ELSE Euclid[<<a % P, P, 1, 0>>]

ModDiv(a, b) == {ModMul(a, v) : v \in ModInv(b)}

(* ModPow squares and multiplies along the bits of exp, on the base, the  *)
(* exponent that is left and the result so far.                            *)
PowState == Elem \X Nat \X Elem

Powers[x \in PowState] ==
  IF x[2] = 0 THEN x[3]
  ELSE Powers[<<ModMul(x[1], x[1]), x[2] \div 2,
                IF x[2] % 2 = 1 THEN ModMul(x[3], x[1]) ELSE x[3]>>]

ModPow(base, exp) == Powers[<<base % P, exp, 1>>]

(* precomputePows: the powers 0, 1, .., each by one more multiplication.   *)
Pow(base, exp) ==
  LET pows[i \in Nat] == IF i = 0 THEN 1 ELSE ModMulCanon(pows[i - 1], base % P)
  IN  pows[exp]
=============================================================================
