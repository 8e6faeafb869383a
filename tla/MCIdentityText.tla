--------------------------- MODULE MCIdentityText ---------------------------
(* IdentityText for TLC: keys and addresses with every byte at its limits.     *)
EXTENDS IdentityText

\* Everything the same, but for one place.
Patterns(n, usual, special) ==
  {[i \in 1..n |-> usual]} \cup {[i \in 1..n |-> IF i = k THEN special ELSE usual] : k \in 1..n}

MCKeys == Patterns(32, 0, 255) \cup Patterns(32, 255, 0)
MCOnions == Patterns(16, 97, 55) \cup {[i \in 1..16 |-> 55]}
MCPorts == {1025, 29952, 65535}

\* The checksum is at one of its limits, or between them.
MCChecksum(bytes) ==
  CASE Len(bytes) = 47 /\ bytes[47] = 1 -> <<0, 0, 0, 0>>
    [] Len(bytes) = 47 /\ bytes[47] = 255 -> <<255, 255, 255, 255>>
    [] OTHER -> <<bytes[3], 1, 127, bytes[Len(bytes)]>>
=============================================================================
