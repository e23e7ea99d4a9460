---------------------------- MODULE MCDealerStatus ----------------------------
(***************************************************************************)
(* The instance of DealerStatus that TLC checks: four members, degree one, *)
(* the field of five elements.                                             *)
(***************************************************************************)
EXTENDS DealerStatus

Poly3(f(_, _, _)) == [a \in Deg |-> [b \in Deg |-> [c \in Deg |-> f(a, b, c) % P]]]

F == Poly3(LAMBDA a, b, c : 1 + a + 2 * b + 3 * c + a * b * c)

\* F + (X - 1)(Y - 2)(1 - Z): another polynomial, equal to F for X = 1 and Y = 2.
G == Poly3(LAMBDA a, b, c : F[a][b][c] + (IF a = 0 THEN 4 ELSE 1) * (IF b = 0 THEN 3 ELSE 1)
                                                * (IF c = 0 THEN 1 ELSE 4))

\* Each member's row and column from F or G; member 1's row does not differ.
Mixed ==
  {[row |-> [i \in Member |-> ProjectFixX(IF i \in R THEN G ELSE F, i)],
    col |-> [i \in Member |-> ProjectFixY(IF i \in C THEN G ELSE F, i)]] :
     R \in SUBSET (Member \ {1}), C \in SUBSET Member}

(* Rows and columns of no common polynomial that agree at every crossing   *)
(* point of two members: row 3 raised by Y - 4, row 4 by 3(Y - 3), column  *)
(* 1 by -3(X - 2), column 2 by -(X - 1).                                   *)
Raise(M, c0, c1) == [e \in Deg |-> [M[e] EXCEPT ![0] = (@ + (IF e = 0 THEN c0 ELSE c1)) % P]]

Skewed ==
  [row |-> [i \in Member |-> CASE i = 3 -> Raise(ProjectFixX(F, i), 1, 1)
                               [] i = 4 -> Raise(ProjectFixX(F, i), 1, 3)
                               [] OTHER -> ProjectFixX(F, i)],
   col |-> [i \in Member |-> CASE i = 1 -> Raise(ProjectFixY(F, i), 1, 2)
                               [] i = 2 -> Raise(ProjectFixY(F, i), 1, 4)
                               [] OTHER -> ProjectFixY(F, i)]]

(* Shares of F in words not all of which are less than P: the coefficients *)
(* of Z in the columns of H, those of 1 in the rows.                       *)
Unreduced ==
  {[row |-> [i \in Member |-> IF i \in H THEN [e \in Deg |-> [ProjectFixX(F, i)[e] EXCEPT ![0] = @ + P]]
                             ELSE ProjectFixX(F, i)],
    col |-> [i \in Member |-> IF i \in H THEN [e \in Deg |-> [ProjectFixY(F, i)[e] EXCEPT ![1] = @ + 2 * P]]
                             ELSE ProjectFixY(F, i)]] :
     H \in {{3}, {1, 4}, Member}}

MCDealings == Mixed \cup Unreduced \cup {Skewed}

MCMasks == [x \in Deg |-> [z \in Deg |-> [e \in 1..D |-> (1 + 2 * x + z) % P]]]

MCLieShapes == {[count |-> 0, len |-> 0]} \cup [count : {1}, len : 0..3]
                 \cup {[count |-> 2, len |-> 2]}

\* Everybody heard everybody; one or two missed member 3.
MCHearings ==
  {[k \in Member |-> IF k \in M THEN Member \ {3} ELSE Member] : M \in {{}, {2}, {2, 3}}}
=============================================================================
