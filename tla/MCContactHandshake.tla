------------------------- MODULE MCContactHandshake -------------------------
(* ContactHandshake for TLC: two users, who are alike.                         *)
EXTENDS ContactHandshake, TLC

CONSTANTS alice, bob

MCPeers == {alice, bob}
MCSymmetry == Permutations(MCPeers)
=============================================================================
