---------------------------- MODULE Redistribution ----------------------------
(***************************************************************************)
(* protocols/fdpss: the members of a Com4 committee turn the dealers'      *)
(* shares into shares of common randomness (Pi_RG) and hand their secret   *)
(* on to the next committee under masks made of it (Pi_RD), epoch after    *)
(* epoch.                                                                  *)
(*                                                                         *)
(* The functions have no caller in the repository: the specification calls *)
(* them in the order in which each needs the result of another.  FDVSS and *)
(* the channels are left out: a dealer has shared some polynomial of       *)
(* degree D, zero if disqualified, and a sender's value arrives or is      *)
(* replaced by a faulty one.  Index and length checks on what the code     *)
(* itself has built are left out.                                          *)
(***************************************************************************)
EXTENDS TriPoly

CONSTANTS
  DealerPolys,   \* what a dealer of the randomness may have shared
  LieValues      \* what a faulty sender may send

ASSUME DealerAssumption ==
  DealerPolys \subseteq [Deg -> Elem] /\ LieValues \subseteq Elem

VARIABLES
  secret,
  share,    \* the shares of the current committee
  dealt,    \* the polynomials of this epoch's dealers, <<>> before Pi_RG
  rg,       \* the random shares: [member][index], <<>> before Pi_RG
  out,      \* the masked values: [sender][receiver], <<>> before they are made
  next      \* the shares of those of the next committee that have one

vars == <<secret, share, dealt, rg, out, next>>

RandomIndex == 1..(N - D)

-----------------------------------------------------------------------------
(* vandermonde.go.                                                         *)

\* Mutant: the running power is squared instead of multiplied, and stays 1.
MutantBuildVandermondeMatrix(betas) == [i \in DOMAIN betas |-> [j \in RandomIndex |-> 1]]

BuildVandermondeMatrix(betas) ==
  [i \in DOMAIN betas |-> [j \in RandomIndex |-> Pow(betas[i] % P, j - 1)]]

BuildVandermondeMatrixFromIndices == BuildVandermondeMatrix([i \in Member |-> i])

MatrixTranspose(M) == [j \in RandomIndex |-> [i \in Member |-> M[i][j]]]

MatrixVectorMultiply(M, v) ==
  [i \in DOMAIN M |-> FieldSum([j \in DOMAIN v |-> ModMul(M[i][j], v[j])], DOMAIN v)]

\* PerformRandomnessGenerationCom4 of member k, on its shares in the order of the dealers.
RandomShares(polys, k) ==
  MatrixVectorMultiply(MatrixTranspose(BuildVandermondeMatrixFromIndices),
                       [d \in Member |-> Evaluate(polys[d], k)])

-----------------------------------------------------------------------------
(* redistribution.go.                                                      *)

\* Mutant: the powers of the receiver's point begin with 1.
MutantRdMaskedOutgoing(value, j, r) ==
  ModAdd(value, FieldSum([l \in DOMAIN r |-> ModMul(r[l], Pow(j, l - 1))], DOMAIN r))

RdMaskedOutgoing(value, j, r) ==
  ModAdd(value, FieldSum([l \in DOMAIN r |-> ModMul(r[l], Pow(j, l))], DOMAIN r))

\* Mutant: the last D shares are used.
MutantPrefixRGSharesForRD(r) == [l \in 1..D |-> r[N - 2 * D + l]]

PrefixRGSharesForRD(r) == [l \in 1..D |-> r[l]]

\* What the function of this name makes of N values.
ReceiverReconstructShare ==
  Tabulated([m \in [Member -> Elem] |->
               ReconstructPolynomialValueAtZero([i \in Member |-> <<i, m[i]>>], D)])

-----------------------------------------------------------------------------
Init ==
  \E c \in [Deg -> Elem] :
    /\ secret = c[0]
    /\ share = [i \in Member |-> Evaluate(c, i)]
    /\ dealt = <<>> /\ rg = <<>> /\ out = <<>> /\ next = <<>>

Generate ==
  /\ rg = <<>>
  /\ dealt' \in [Member -> DealerPolys]
  /\ rg' = [k \in Member |-> RandomShares(dealt', k)]
  /\ UNCHANGED <<secret, share, out, next>>

ComputeMaskedOutgoingsToAllReceivers ==
  /\ rg # <<>> /\ out = <<>>
  /\ out' = [i \in Member |-> [j \in Member |->
              RdMaskedOutgoing(share[i], j, PrefixRGSharesForRD(rg[i]))]]
  /\ UNCHANGED <<secret, share, dealt, rg, next>>

\* The values that member j of the next committee may get from the current one.
Sent(j) ==
  {[i \in Member |-> IF i \in liars THEN lie ELSE out[i][j]] :
     liars \in {S \in SUBSET Member : Cardinality(S) <= D}, lie \in LieValues}

Receive(j) ==
  /\ out # <<>>
  /\ j \notin DOMAIN next
  /\ \E m \in Sent(j) : \E v \in ReceiverReconstructShare[m] :
       next' = [i \in DOMAIN next \cup {j} |-> IF i = j THEN v ELSE next[i]]
  /\ UNCHANGED <<secret, share, dealt, rg, out>>

HandOver ==
  /\ DOMAIN next = Member
  /\ share' = next
  /\ dealt' = <<>> /\ rg' = <<>> /\ out' = <<>> /\ next' = <<>>
  /\ UNCHANGED secret

Next ==
  \/ Generate
  \/ ComputeMaskedOutgoingsToAllReceivers
  \/ \E j \in Member : Receive(j)
  \/ HandOver

Spec == Init /\ [][Next]_vars

-----------------------------------------------------------------------------
OnPolynomial(c, s) == \A i \in DOMAIN s : s[i] = Evaluate(c, i)

(* Every committee holds shares of the same secret, whatever D senders of  *)
(* each epoch sent: no sequence of epochs drifts away from it.             *)
SecretKept == \E c \in [Deg -> Elem] : c[0] = secret /\ OnPolynomial(c, share)

\* The random value with index l, as its shares reconstruct.
Generated(l) ==
  CHOOSE v \in Elem : v \in ReceiverReconstructShare[[k \in Member |-> rg[k][l]]]

(* The new shares are those of the polynomial with the old secret and the  *)
(* generated values as its coefficients: nothing of the old polynomial is  *)
(* left in them but the secret.                                            *)
Refreshed ==
  rg # <<>> =>
    OnPolynomial([e \in Deg |-> IF e = 0 THEN secret ELSE Generated(e)], next)

(* The N - D honest dealers cannot cancel out: when some of at most N - D  *)
(* dealers shared a value that is not zero and the others shared zero, the *)
(* generated values are not all zero.  By linearity, given what D dealers  *)
(* have shared, different values of the others generate different ones.    *)
Extracted ==
  rg # <<>> =>
    (Cardinality({d \in Member : dealt[d][0] # 0}) \in 1..(N - D)
      => \E l \in RandomIndex : Generated(l) # 0)
=============================================================================
