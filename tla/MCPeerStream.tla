---------------------------- MODULE MCPeerStream ----------------------------
(* PeerStream for TLC: a field that can hold 0, 1 and 2, and chunks that fit,  *)
(* and that do not.                                                            *)
EXTENDS PeerStream

MCLengths == {1, 4}
=============================================================================
