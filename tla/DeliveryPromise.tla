--------------------------- MODULE DeliveryPromise ---------------------------
(***************************************************************************)
(* What one direction of a DarkSpeak conversation promises its two users,  *)
(* whatever the connection, the crashes and the retransmissions below it:  *)
(*                                                                         *)
(*  - the receiver's conversation shows a message at most once, shows only *)
(*    messages the sender composed, and never loses one it has shown;      *)
(*  - the sender is told that a message was received only when it is in    *)
(*    the receiver's conversation.                                         *)
(*                                                                         *)
(* MessageDelivery implements this specification.                          *)
(***************************************************************************)
EXTENDS Naturals, Sequences

CONSTANT Messages    \* the ids of the messages the sender may compose

VARIABLES
  composed,    \* messages the sender has composed
  inbox,       \* the receiver's conversation, in the order the rows were added
  confirmed    \* messages the sender sees as received

vars == <<composed, inbox, confirmed>>

Shown == {inbox[i] : i \in 1..Len(inbox)}

Init ==
  /\ composed = {}
  /\ inbox = <<>>
  /\ confirmed = {}

\* The sender's user writes a message.
Compose(m) ==
  /\ m \notin composed
  /\ composed' = composed \cup {m}
  /\ UNCHANGED <<inbox, confirmed>>

\* The receiver adds a message to the conversation.
Show(m) ==
  /\ m \in composed \ Shown
  /\ inbox' = Append(inbox, m)
  /\ UNCHANGED <<composed, confirmed>>

\* The sender learns that a message was received.
Confirm(m) ==
  /\ m \in Shown
  /\ confirmed' = confirmed \cup {m}
  /\ UNCHANGED <<composed, inbox>>

\* The sender sends another copy of a message, or is told that a copy was
\* refused: it no longer presents the message as received.
Unconfirm(m) ==
  /\ m \in confirmed
  /\ confirmed' = confirmed \ {m}
  /\ UNCHANGED <<composed, inbox>>

\* The sender composes a message and, in the same handler, sends the second
\* copy of an earlier one.
ComposeAndUnconfirm(m, k) ==
  /\ m \notin composed
  /\ k \in confirmed
  /\ composed' = composed \cup {m}
  /\ confirmed' = confirmed \ {k}
  /\ UNCHANGED inbox

Next ==
  \/ \E m \in Messages :
       Compose(m) \/ Show(m) \/ Confirm(m) \/ Unconfirm(m)
  \/ \E m, k \in Messages : ComposeAndUnconfirm(m, k)

Spec == Init /\ [][Next]_vars
=============================================================================
