-------------------------- MODULE MCMessageDelivery --------------------------
(* MessageDelivery for TLC: a few messages, the first acceptable, and one that *)
(* the receiver cannot accept.                                                 *)
EXTENDS MessageDelivery

MCUnacceptable == {2}
=============================================================================
