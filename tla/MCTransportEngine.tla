-------------------------- MODULE MCTransportEngine --------------------------
(* TransportEngine for TLC: one identity, by name.                             *)
EXTENDS TransportEngine

CONSTANT me
=============================================================================
