------------------------------- MODULE MCFDVSS -------------------------------
(***************************************************************************)
(* The instance of FDVSS that TLC checks: committees of four, degree one,  *)
(* two polynomials F and G.                                                *)
(***************************************************************************)
EXTENDS FDVSS

CONSTANT G

MCPoly == {F, G}

(* Where F and G may agree: at a point of the share line and one of the    *)
(* diagonal, on a row and a column, at pairs of crossing points.           *)
Crossings == {<<1, 2>>, <<2, 1>>, <<3, 4>>, <<4, 3>>}

SomeMeets ==
  {{<<0, 2>>, <<1, 1>>}, ({1} \X (0..4)) \cup ((0..4) \X {1}), Crossings}
NoMeets   == {{}}
OneMeet   == {{<<0, 2>>}}

Dealing(R, C, W) ==
  [i \in Member |-> [id |-> i, row |-> IF i \in R THEN G ELSE F,
                     col |-> IF i \in C THEN G ELSE F, raw |-> i \in W]]

(* G to nobody, to two members, to member 1 as its column, and in such a   *)
(* way that with Crossings every pair agrees; member 4 takes unreduced     *)
(* words, the number of member 3, an entry that it refuses.                *)
SomeDealings ==
  {Dealing({}, {}, {}), Dealing({1, 2}, {1, 2}, {}), Dealing({}, {1}, {}),
   Dealing({3, 4}, {1, 2}, {}), Dealing({}, {}, {4}),
   [Dealing({}, {}, {}) EXCEPT ![4].id = 3], [Dealing({}, {}, {}) EXCEPT ![4] = None]}

(* Forged columns are F, on nothing, or refused, and all of the forged     *)
(* cross shares match or none.                                             *)
Verdict(v, M) == [column |-> [i \in Member |-> v], match |-> M, decodes |-> TRUE]

SomeVerdicts ==
  {Verdict(F, Member \X Member), Verdict(Junk, Member \X Member), Verdict(Junk, {}),
   [Verdict(Junk, {}) EXCEPT !.decodes = FALSE], Verdict(None, {})}
MCNumbers == 1..5

(* Of a Com1 queue: within the messages for Com2 (1..4), for the second    *)
(* member of Com3 (9..12) and for Com4 (21..24); of the dealer's: within   *)
(* those for Com1 (1..4) and for Com3 (5..8).                              *)
MCPauses == {2, 6, 10, 22}
=============================================================================
