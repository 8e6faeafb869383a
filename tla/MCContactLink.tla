---------------------------- MODULE MCContactLink ----------------------------
(* ContactLink for TLC: two contacts with different certificates.              *)
EXTENDS ContactLink

CONSTANTS alice, bob

MCPeers == {alice, bob}
MCCertHash == [p \in MCPeers |-> IF p = alice THEN 1 ELSE 2]
=============================================================================
