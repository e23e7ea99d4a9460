------------------------- MODULE MCBroadcastChannel -------------------------
(***************************************************************************)
(* Instances of BroadcastChannel: two parties, numbered from 0.            *)
(***************************************************************************)
EXTENDS BroadcastChannel

TwoParties == 0..1
=============================================================================
