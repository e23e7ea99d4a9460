---------------------------- MODULE CliqueSearch ----------------------------
(***************************************************************************)
(* The loop of computeDealerStatusesFromCom2 over the pairs of Com1        *)
(* members and its call of findCliqueIDs, for every graph the pairs may    *)
(* turn out to form.                                                       *)
(***************************************************************************)
EXTENDS ConsistencyGraph

CONSTANTS Size, Threshold

ASSUME SizeAssumption == Size \in Nat /\ Threshold \in Nat \ {0}

VARIABLES left, edges, searched, clique

vars == <<left, edges, searched, clique>>

Vertex == 1..Size
Pairs  == {p \in Vertex \X Vertex : p[1] < p[2]}

Init == left = Pairs /\ edges = {} /\ searched = FALSE /\ clique = {}

First == CHOOSE p \in left : \A q \in left :
           p[1] < q[1] \/ (p[1] = q[1] /\ p[2] <= q[2])

(* One pair: reconstructPairZero, and setEdge when it finds no difference. *)
Pair(zero) ==
  /\ left # {}
  /\ left' = left \ {First}
  /\ edges' = IF zero THEN edges \cup {First, <<First[2], First[1]>>} ELSE edges
  /\ UNCHANGED <<searched, clique>>

Search ==
  /\ left = {} /\ ~searched
  /\ searched' = TRUE
  /\ clique' = FindCliqueIDs(Vertex, edges, Threshold)
  /\ UNCHANGED <<left, edges>>

Next == (\E zero \in BOOLEAN : Pair(zero)) \/ Search \/ (searched /\ UNCHANGED vars)

Spec == Init /\ [][Next]_vars

-----------------------------------------------------------------------------
Supports(C) == IsClique(edges, C) /\ Cardinality(C) >= Threshold

(* Two honest Com3 members that accept have the same happy members: there  *)
(* is no other group of supporters, all of them are in the accepted one.   *)
NobodyLeftOut ==
  searched /\ clique # {} =>
    \A C \in SUBSET Vertex : Supports(C) => C \subseteq clique

(* The search on degrees does find supporters, if nobody else has as many  *)
(* neighbours as they; with such a neighbour it may reject them.           *)
ClearSupportFound ==
  \A C \in SUBSET Vertex :
    (/\ searched /\ Supports(C)
     /\ \A i \in Vertex \ C : Cardinality(Peers(Vertex, edges, i)) < Threshold - 1)
    => clique = C
=============================================================================
