--------------------------- MODULE MCRedistribution ---------------------------
(***************************************************************************)
(* The instance of Redistribution that TLC checks: lines over the field of *)
(* five elements, among them zero and one whose value at 0 is zero.        *)
(***************************************************************************)
EXTENDS Redistribution

Line(a, b) == [e \in Deg |-> IF e = 0 THEN a ELSE b]

MCDealerPolys == {Line(0, 0), Line(1, 2), Line(2, 0), Line(4, 3)}
=============================================================================
