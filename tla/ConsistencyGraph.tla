--------------------------- MODULE ConsistencyGraph ---------------------------
(***************************************************************************)
(* The search for the dealer's supporters in protocols/fdvss/com_3.go.     *)
(*                                                                         *)
(* A Com3 member draws a graph on the Com1 sequence numbers, with an edge  *)
(* where the Com2 committee showed two projections to agree, and asks      *)
(* findCliqueIDs for the members that support the dealer.  The code looks  *)
(* only at the vertices whose degree reaches threshold - 1 and accepts     *)
(* them when they are enough and pairwise adjacent.                        *)
(*                                                                         *)
(* E is a set of ordered pairs: setEdge writes both directions.  The       *)
(* diagonal, which the code sets to true, is never read.                   *)
(***************************************************************************)
EXTENDS Integers, FiniteSets

\* The peers of i: what the degree loop counts, the diagonal left out.
Peers(V, E, i) == {j \in V : j # i /\ <<i, j>> \in E}

\* Mutant: the vertex itself is counted among its peers' number.
MutantHighDegreeVertices(V, E, threshold) ==
  {i \in V : Cardinality(Peers(V, E, i)) >= threshold}

HighDegreeVertices(V, E, threshold) ==
  {i \in V : Cardinality(Peers(V, E, i)) >= threshold - 1}

IsClique(E, C) == \A i, j \in C : i # j => <<i, j>> \in E

\* Mutant: the accepted vertices are not compared pair by pair.
MutantFindCliqueIDs(V, E, threshold) ==
  LET H == HighDegreeVertices(V, E, threshold)
  IN  IF Cardinality(H) >= threshold THEN H ELSE {}

\* Mutant: the search stops once it has a threshold of vertices.
MutantFirstVertices(V, E, threshold) ==
  LET H == HighDegreeVertices(V, E, threshold)
  IN  IF Cardinality(H) >= threshold /\ IsClique(E, H)
      THEN {i \in H : Cardinality({j \in H : j <= i}) <= threshold} ELSE {}

\* findCliqueIDs returns nil, here {}, when it finds no clique.
FindCliqueIDs(V, E, threshold) ==
  LET H == HighDegreeVertices(V, E, threshold)
  IN  IF Cardinality(H) >= threshold /\ IsClique(E, H) THEN H ELSE {}
=============================================================================
