---------------------------- MODULE MCP2PChannel ----------------------------
(***************************************************************************)
(* Instances of P2PChannel: two senders and a receiver.                    *)
(***************************************************************************)
EXTENDS P2PChannel

CONSTANTS dealer, member, target

MCParties == {dealer, member, target}
ToTarget  == {<<dealer, target>>, <<member, target>>}
=============================================================================
