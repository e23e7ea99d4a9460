---------------------------- MODULE AtomicRounds ----------------------------
(***************************************************************************)
(* What the broadcast half of communication/fake/fake.go promises to its   *)
(* users: one sequence of rounds.  A round carries at most one message of  *)
(* each party, the next one that party has sent; it is for some of the     *)
(* parties, and each of them receives every round that is for it, once, in *)
(* the order of the sequence.                                              *)
(***************************************************************************)
EXTENDS Integers, Sequences, FiniteSets

CONSTANT Parties

VARIABLES
  posted,   \* posted[p]: how many messages p has sent, numbered from 1
  rounds,   \* the rounds: [msgs |-> number of each party or 0, to |-> parties]
  log       \* log[p]: the msgs p has received

vars == <<posted, rounds, log>>

\* How many messages of p the rounds so far have carried.
Carried(p) == Cardinality({i \in 1..Len(rounds) : rounds[i].msgs[p] # 0})

\* How many of the first i rounds are for p.
RoundsFor(p, i) == Cardinality({j \in 1..i : p \in rounds[j].to})

Init ==
  /\ posted = [p \in Parties |-> 0]
  /\ rounds = <<>>
  /\ log = [p \in Parties |-> <<>>]

Post(p) == posted' = [posted EXCEPT ![p] = @ + 1] /\ UNCHANGED <<rounds, log>>

Round(from, to) ==
  /\ \A p \in from : Carried(p) < posted[p]
  /\ rounds' = Append(rounds,
       [msgs |-> [p \in Parties |-> IF p \in from THEN Carried(p) + 1 ELSE 0], to |-> to])
  /\ UNCHANGED <<posted, log>>

\* p receives the first round that is for it and that it has not received.
Get(p) ==
  /\ \E i \in 1..Len(rounds) :
       /\ p \in rounds[i].to
       /\ RoundsFor(p, i) = Len(log[p]) + 1
       /\ log' = [log EXCEPT ![p] = Append(@, rounds[i].msgs)]
  /\ UNCHANGED <<posted, rounds>>

Next ==
  \/ \E p \in Parties : Post(p) \/ Get(p)
  \/ \E from, to \in SUBSET Parties : Round(from, to)

Spec == Init /\ [][Next]_vars
=============================================================================
