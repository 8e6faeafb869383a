---------------------------- MODULE MCMainWindow ----------------------------
(* MainWindow for TLC: an identity with two contacts and one with one.         *)
EXTENDS MainWindow, TLC

CONSTANTS ann, bob, eve, home, work

MCKeys == {ann, bob, eve}
MCIdentities == {home, work}
MCOwner == (ann :> home) @@ (bob :> home) @@ (eve :> work)
MCSymmetry == Permutations({ann, bob})
=============================================================================
