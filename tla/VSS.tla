---------------------------------- MODULE VSS ----------------------------------
(***************************************************************************)
(* What FDVSS promises of one sharing, without committees, messages or     *)
(* polynomials: at some moment the dealer is bound to a value, an honest   *)
(* dealer to its own or to nothing, and from then on whatever an honest    *)
(* receiver outputs is its share of that value, and so is what the shares  *)
(* reconstruct to.  Nobody is promised an output.                          *)
(*                                                                         *)
(* Loose is the sharing that gives no such promise, and what a receiver of *)
(* it outputs that is no share of anything; FDVSS says when a faulty       *)
(* dealer can bring it about.                                              *)
(***************************************************************************)
CONSTANTS Values, Receivers, Zero, None, Loose, DealerHonest, F

VARIABLES bound, output, secret

vars == <<bound, output, secret>>

Init == bound = None /\ output = [k \in Receivers |-> None] /\ secret = None

\* A value that somebody may come to hold.
Holds(v) == bound \in {v, Loose}

Bind ==
  /\ bound = None
  /\ bound' \in IF DealerHonest THEN {F, Zero} ELSE Values \cup {Zero, Loose}
  /\ UNCHANGED <<output, secret>>

Output(k) ==
  /\ output[k] = None /\ secret = None
  /\ \E v \in Values \cup {Zero, Loose} : output' = [output EXCEPT ![k] = v] /\ Holds(v)
  /\ UNCHANGED <<bound, secret>>

Reconstruct ==
  /\ secret = None /\ \A k \in Receivers : output[k] # None
  /\ \E v \in Values \cup {Zero, Loose} : secret' = v /\ Holds(v)
  /\ UNCHANGED <<bound, output>>

Next == Bind \/ (\E k \in Receivers : Output(k)) \/ Reconstruct

Spec == Init /\ [][Next]_vars
================================================================================
