---------------------------- MODULE StreamPromise ----------------------------
(***************************************************************************)
(* What the encrypted stream promises those who use it: the receiver takes *)
(* what was sent, whole, in order and once, and goes on until it has taken *)
(* everything or the connection is of no more use to it.                   *)
(***************************************************************************)
EXTENDS Naturals, Sequences

CONSTANT Chunk     \* what may be sent

VARIABLES sent, taken, up

vars == <<sent, taken, up>>

Init ==
  /\ sent = <<>>
  /\ taken = <<>>
  /\ up = TRUE

Send ==
  /\ \E chunk \in Chunk : sent' = Append(sent, chunk)
  /\ UNCHANGED <<taken, up>>

Take ==
  /\ up
  /\ Len(taken) < Len(sent)
  /\ taken' = Append(taken, sent[Len(taken) + 1])
  /\ up' \in BOOLEAN
  /\ UNCHANGED sent

GoDown ==
  /\ up
  /\ up' = FALSE
  /\ UNCHANGED <<sent, taken>>

Next == Send \/ Take \/ GoDown

SafeSpec == Init /\ [][Next]_vars

Spec == SafeSpec /\ WF_vars(Take)
=============================================================================
