--------------------------- MODULE MessageDelivery ---------------------------
(***************************************************************************)
(* One direction of a conversation between two contacts: the sender's      *)
(* MessageManager, its Contact object with the message queue, the link to  *)
(* the peer, and the receiver's Contact, Conversation and MessageManager.  *)
(*                                                                         *)
(* A message is its row id in the sender's `message` table: ids are given  *)
(* in the order of composition.  Contents, signatures and dates are left   *)
(* out.  What a row says is kept in the database; the queue and the flag   *)
(* loadedMessageQueue_ live in the Contact object and die with it: when    *)
(* the program ends, or when the contact is not connected and the last     *)
(* reference to the object goes.                                           *)
(*                                                                         *)
(* The link delivers a prefix of what was written, in order, and can break *)
(* at any time; each side notices a break later, on its own.  How a link   *)
(* comes up is the subject of ContactLink: here it just does.              *)
(***************************************************************************)
EXTENDS Naturals, SequencesExt

CONSTANTS
  MaxMessage,      \* how many messages the user composes (a bound)
  Unacceptable     \* messages of a conversation the receiver does not know, or
                   \* whose signature it cannot validate

ASSUME MaxMessageAssumption == MaxMessage \in Nat
ASSUME UnacceptableAssumption == Unacceptable \subseteq Nat

Messages == 1..MaxMessage

VARIABLES
  state,           \* message.state of each row; NoRow before the row exists
  unreceived,      \* the rows WHERE received_time IS NULL, ORDER BY id
  queue,           \* Contact::messageQueue_
  loaded,          \* Contact::loadedMessageQueue_
  senderOnline,    \* Contact::isOnline() at the sender
  receiverOnline,  \* Contact::isOnline() at the receiver
  link,            \* whether the connection between the two still stands
  wire,            \* messages written by the sender and not yet handled
  acks,            \* acks written by the receiver and not yet handled
  inbox,           \* the receiver's rows, in the order they were added
  refusing,        \* at the receiver: iBlocked() or getState() # ACCEPTED
  greet,           \* the sender's timer of scheduleProcessOnlineLater()
  drain,           \* the sender wrote, and no outputBufferEmptied followed yet
  carried          \* history: the messages whose rows existed when the sender
                   \* last lost the Contact object

senderVars == <<state, unreceived, queue, loaded>>
linkVars == <<senderOnline, receiverOnline, link>>
signals == <<greet, drain>>
vars == <<senderVars, linkVars, wire, acks, inbox, refusing, signals, carried>>

NoRow == "NoRow"
States == {NoRow, "COMPOSED", "QUEUED", "SENT", "RECEIVED", "REJECTED"}
AckStatus == {"Received", "Rejected"}
Acks == [msg : Messages, status : AckStatus]

TypeOK ==
  /\ state \in [Messages -> States]
  /\ unreceived \in Seq(Messages)
  /\ queue \in Seq(Messages)
  /\ loaded \in BOOLEAN
  /\ senderOnline \in BOOLEAN
  /\ receiverOnline \in BOOLEAN
  /\ link \in BOOLEAN
  /\ wire \in Seq(Messages)
  /\ acks \in Seq(Acks)
  /\ inbox \in Seq(Messages)
  /\ refusing \in BOOLEAN
  /\ greet \in BOOLEAN
  /\ drain \in BOOLEAN
  /\ carried \in SUBSET Messages

Init ==
  /\ state = [m \in Messages |-> NoRow]
  /\ unreceived = <<>>
  /\ queue = <<>>
  /\ loaded = FALSE
  /\ senderOnline = FALSE
  /\ receiverOnline = FALSE
  /\ link = FALSE
  /\ wire = <<>>
  /\ acks = <<>>
  /\ inbox = <<>>
  /\ refusing = FALSE
  /\ greet = FALSE
  /\ drain = FALSE
  /\ carried = {}

(***************************************************************************)
(* The sender.                                                             *)
(***************************************************************************)

\* The row of m no longer has a null received_time.
WithoutRow(m) ==
  IF m \in ToSet(unreceived)
  THEN LET i == CHOOSE i \in 1..Len(unreceived) : unreceived[i] = m
       IN SubSeq(unreceived, 1, i - 1)
            \o SubSeq(unreceived, i + 1, Len(unreceived))
  ELSE unreceived

\* Mutant: the flag is not consulted.
LoadedQueueAlways(rows) == queue \o rows

\* Contact::loadMessageQueue(): once in the life of the Contact object, append
\* the unreceived rows to the queue.
LoadedQueue(rows) == IF loaded THEN queue ELSE queue \o rows

\* Write to the socket: lost when the link is already broken.
Written(m) == IF link THEN Append(wire, m) ELSE wire

\* Mutant: the message is taken off the queue before the write that throws.
UnsentPopped(q, st, written) ==
  /\ ~senderOnline \/ q = <<>> \/ ~link
  /\ queue' = IF senderOnline /\ q # <<>> THEN Tail(q) ELSE q
  /\ state' = st
  /\ drain' = written
  /\ UNCHANGED wire

\* Contact::procesMessageQueue() when it cannot send: not online, nothing to
\* send, or the socket turns out to be closed (the exception it catches).
\* The queue and the states stay as the caller made them, and so does what is
\* written and has not drained.
Unsent(q, st, written) ==
  /\ ~senderOnline \/ q = <<>> \/ ~link
  /\ queue' = q
  /\ state' = st
  /\ drain' = written
  /\ UNCHANGED wire

\* Contact::procesMessageQueue(): send the first queued message.  It moves to
\* unconfirmedMessageQueue_, which nothing reads.
SendFront(q, st) ==
  /\ senderOnline
  /\ q # <<>>
  /\ queue' = Tail(q)
  /\ state' = [st EXCEPT ![Head(q)] = "SENT"]
  /\ wire' = Written(Head(q))
  /\ drain' = TRUE

ProcessMessageQueue(q, st, written) == SendFront(q, st) \/ Unsent(q, st, written)

\* Conversation::sendMessage(), MessageManager::sendMessage() and
\* Contact::queueMessage(): store the row, load the queue if that was not done
\* yet (the new row included), add the message and try to send the first one.
SendMessage(m) ==
  /\ state[m] = NoRow
  /\ \A k \in Messages : k < m => state[k] # NoRow
  /\ LET rows == Append(unreceived, m)
     IN /\ unreceived' = rows
        /\ ProcessMessageQueue(Append(LoadedQueue(rows), m),
                               [state EXCEPT ![m] = "QUEUED"], drain)
  /\ loaded' = TRUE
  /\ UNCHANGED <<linkVars, acks, inbox, refusing, greet, carried>>

\* The single shot of scheduleProcessOnlineLater(), a second after the connection
\* was made: Contact::processOnlineLater() sends the user's name, loads the
\* queue and ends with onOutputBufferEmptied().
ProcessOnlineLater ==
  /\ greet
  /\ greet' = FALSE
  /\ \/ /\ senderOnline
        /\ ProcessMessageQueue(LoadedQueue(unreceived), state, TRUE)
        /\ loaded' = TRUE
     \/ /\ ~senderOnline
        /\ UNCHANGED <<state, queue, loaded, wire, drain>>
  /\ UNCHANGED <<unreceived, linkVars, acks, inbox, refusing, carried>>

\* Contact::onOutputBufferEmptied(): the socket has taken everything written so
\* far, and the next queued message goes out.  What is written for files and as
\* acks drains too.
OnOutputBufferEmptied ==
  /\ senderOnline
  /\ ProcessMessageQueue(queue, state, FALSE)
  /\ UNCHANGED <<unreceived, loaded, linkVars, acks, inbox, refusing, greet, carried>>

\* Mutant: the text of the ack is stored.
AckedStateVerbatim(ack) == ack.status

\* Mutant: the branch on the status is missing.
AckedStateIgnoringStatus(ack) == "RECEIVED"

\* MS_RECEIVED or MS_REJECTED, as the ack says.
AckedState(ack) ==
  IF ack.status = "Received" THEN "RECEIVED" ELSE "REJECTED"

\* Contact::onReceivedAck() for what = "Message": an ack for a rejected message
\* is ignored; otherwise received_time is set, then the state.
OnReceivedAck ==
  /\ senderOnline
  /\ acks # <<>>
  /\ acks' = Tail(acks)
  /\ LET ack == Head(acks)
     IN IF state[ack.msg] = "REJECTED"
        THEN UNCHANGED <<unreceived, state>>
        ELSE /\ unreceived' = WithoutRow(ack.msg)
             /\ state' = [state EXCEPT ![ack.msg] = AckedState(ack)]
  /\ UNCHANGED <<queue, loaded, linkVars, wire, inbox, refusing, signals, carried>>

(***************************************************************************)
(* The sender's Contact object goes, with the program or before it.        *)
(***************************************************************************)

\* What the object held, and its timer.
ContactLost ==
  /\ queue' = <<>>
  /\ loaded' = FALSE
  /\ greet' = FALSE
  /\ carried' = {m \in Messages : state'[m] # NoRow}

\* The manager keeps the contacts touched last; another one lives as long as it
\* is connected, or shown.  It is loaded again when it is asked for.
Evicted ==
  /\ ~senderOnline
  /\ UNCHANGED <<state, unreceived, linkVars, wire, acks, inbox, refusing, drain>>
  /\ ContactLost

\* The sender's program ends and starts again, at rest or between two statements
\* that each commit a row: the connection is lost as well.
Restart ==
  /\ ContactLost
  /\ senderOnline' = FALSE
  /\ link' = FALSE
  /\ acks' = <<>>
  /\ drain' = FALSE
  /\ UNCHANGED <<receiverOnline, inbox, refusing>>

RestartAtRest ==
  /\ UNCHANGED <<state, unreceived, wire>>
  /\ Restart

\* Between Message::addToDb() and Contact::queueMessage().
RestartComposing(m) ==
  /\ state[m] = NoRow
  /\ \A k \in Messages : k < m => state[k] # NoRow
  /\ state' = [state EXCEPT ![m] = "COMPOSED"]
  /\ unreceived' = Append(unreceived, m)
  /\ UNCHANGED wire
  /\ Restart

\* Between Peer::sendMessage() and setState(MS_SENT).
RestartSending ==
  /\ senderOnline
  /\ queue # <<>>
  /\ wire' = Written(Head(queue))
  /\ UNCHANGED <<state, unreceived>>
  /\ Restart

\* Between touchSentReceivedTime() and setState() in the handling of an ack.
RestartInAck ==
  /\ senderOnline
  /\ acks # <<>>
  /\ state[Head(acks).msg] # "REJECTED"
  /\ unreceived' = WithoutRow(Head(acks).msg)
  /\ UNCHANGED <<state, wire>>
  /\ Restart

(***************************************************************************)
(* The receiver.  A restart of its program is a break of the link it       *)
(* notices: everything it must remember is in the database before it acks. *)
(***************************************************************************)

\* Peer::sendAck(): lost when the link is already broken.
Reply(m, status) ==
  acks' = IF link THEN Append(acks, [msg |-> m, status |-> status]) ELSE acks

\* Peer::close(): nothing more is read, and the socket closes.  What was
\* already written still reaches the other side.
ReceiverCloses ==
  /\ link' = FALSE
  /\ receiverOnline' = FALSE
  /\ wire' = <<>>
  /\ UNCHANGED senderOnline

\* Contact::onReceivedMessage() from a contact that is blocked or not accepted.
RefuseMessage ==
  /\ receiverOnline
  /\ wire # <<>>
  /\ refusing
  /\ Reply(Head(wire), "Rejected")
  /\ ReceiverCloses
  /\ UNCHANGED <<senderVars, inbox, refusing, signals, carried>>

\* Mutant: the lookup of an existing message is missing.
StoredAgain(m) == Append(inbox, m)

\* MessageManager::receivedMessage(): a message already stored is not added.
StoredOnce(m) == IF m \in ToSet(inbox) THEN inbox ELSE Append(inbox, m)

\* Contact::onReceivedMessage(), getRequestedOrDefaultConversation(),
\* Conversation::incomingMessage() and MessageManager::receivedMessage().
OnReceivedMessage ==
  /\ receiverOnline
  /\ wire # <<>>
  /\ ~refusing
  /\ wire' = Tail(wire)
  /\ IF Head(wire) \in Unacceptable
     THEN /\ Reply(Head(wire), "Rejected")
          /\ UNCHANGED inbox
     ELSE /\ inbox' = StoredOnce(Head(wire))
          /\ Reply(Head(wire), "Received")
  /\ UNCHANGED <<senderVars, linkVars, refusing, signals, carried>>

\* Contact::setBlocked(true), or any other way to leave ACCEPTED: an
\* established connection is closed.
StartRefusing ==
  /\ ~refusing
  /\ refusing' = TRUE
  /\ \/ receiverOnline /\ ReceiverCloses
     \/ ~receiverOnline /\ UNCHANGED <<linkVars, wire>>
  /\ UNCHANGED <<senderVars, acks, inbox, signals, carried>>

StopRefusing ==
  /\ refusing
  /\ refusing' = FALSE
  /\ UNCHANGED <<senderVars, linkVars, wire, acks, inbox, signals, carried>>

(***************************************************************************)
(* The link.                                                               *)
(***************************************************************************)

\* A new connection is established; it replaces one that a side still holds.
Connect ==
  /\ ~link
  /\ link' = TRUE
  /\ senderOnline' = TRUE
  /\ receiverOnline' = TRUE
  /\ wire' = <<>>
  /\ acks' = <<>>
  /\ greet' = TRUE
  /\ drain' = FALSE
  /\ UNCHANGED <<senderVars, inbox, refusing, carried>>

LinkBreaks ==
  /\ link
  /\ link' = FALSE
  /\ UNCHANGED <<senderVars, senderOnline, receiverOnline, wire, acks, inbox,
                 refusing, signals, carried>>

\* Contact::onDisconnectedFromPeer(): the message queue is kept, and a timer
\* still fires.
SenderNotices ==
  /\ ~link
  /\ senderOnline
  /\ senderOnline' = FALSE
  /\ acks' = <<>>
  /\ drain' = FALSE
  /\ UNCHANGED <<senderVars, receiverOnline, link, wire, inbox, refusing, greet, carried>>

ReceiverNotices ==
  /\ ~link
  /\ receiverOnline
  /\ receiverOnline' = FALSE
  /\ wire' = <<>>
  /\ UNCHANGED <<senderVars, senderOnline, link, acks, inbox, refusing, signals, carried>>

(***************************************************************************)
(* The specification.                                                      *)
(***************************************************************************)

SenderStep ==
  \/ \E m \in Messages : SendMessage(m)
  \/ ProcessOnlineLater
  \/ OnOutputBufferEmptied
  \/ OnReceivedAck

LossStep ==
  \/ Evicted
  \/ RestartAtRest
  \/ \E m \in Messages : RestartComposing(m)
  \/ RestartSending
  \/ RestartInAck

ReceiverStep ==
  \/ OnReceivedMessage
  \/ RefuseMessage
  \/ StartRefusing
  \/ StopRefusing

LinkStep ==
  \/ Connect
  \/ LinkBreaks
  \/ SenderNotices
  \/ ReceiverNotices

Next == SenderStep \/ LossStep \/ ReceiverStep \/ LinkStep

Spec == Init /\ [][Next]_vars

\* Something was written since the buffer was last empty.
BufferEmpties == drain /\ OnOutputBufferEmptied

\* The event loop runs the handlers of an open connection: a timer that was armed
\* fires, the socket reports once that it is empty after something was written,
\* and what arrives is read.  A contact that is reachable is connected to.
\* Nothing obliges the user to write, the link to break, the program to restart
\* or a Contact object to go.
Fairness ==
  /\ WF_vars(ProcessOnlineLater)
  /\ WF_vars(BufferEmpties)
  /\ WF_vars(OnReceivedAck)
  /\ WF_vars(OnReceivedMessage)
  /\ WF_vars(RefuseMessage)
  /\ WF_vars(SenderNotices)
  /\ WF_vars(ReceiverNotices)
  /\ WF_vars(Connect)

FairSpec == Spec /\ Fairness

(***************************************************************************)
(* What is checked.                                                        *)
(***************************************************************************)

\* A message the sender sees as received is stored at the receiver, whatever
\* copies, refusals, breaks and restarts came in between.
ReceivedMeansStored ==
  \A m \in Messages : state[m] = "RECEIVED" => m \in ToSet(inbox)

\* The receiver stores a message once, although the sender sends the first
\* message of a session twice, and everything unacknowledged again once it has
\* lost the Contact object.
StoredAtMostOnce ==
  \A i, j \in 1..Len(inbox) : inbox[i] = inbox[j] => i = j

\* Messages are stored in the order they were composed: one overtaken by a later
\* one is lost, and never stored late, unless it was composed before the sender
\* last lost the Contact object, with the program or out of the cache: the new
\* object loads what was not acknowledged and sends it again.
StoredInOrder ==
  \A i, j \in 1..Len(inbox) :
    i < j => inbox[i] < inbox[j] \/ inbox[j] \in carried

\* Once the queue is loaded, a message without a received_time waits in the
\* queue or was sent in this session: no path through the queue forgets one.
TrackedIsQueuedOrSent ==
  loaded => \A m \in ToSet(unreceived) :
              m \in ToSet(queue) \/ state[m] = "SENT"

Stable == link /\ senderOnline /\ receiverOnline /\ ~refusing

Settled(m) == state[m] \in {"RECEIVED", "REJECTED"}

\* A message not yet sent when the connection has become stable is acknowledged.
StableQueueDelivers ==
  \A m \in Messages :
    ([]Stable /\ state[m] \in {"COMPOSED", "QUEUED"}) ~> Settled(m)

\* The receiver's conversation and the sender's view keep the promise of
\* DeliveryPromise.
Promise == INSTANCE DeliveryPromise WITH
  composed <- {m \in Messages : state[m] # NoRow},
  confirmed <- {m \in Messages : state[m] = "RECEIVED"}

PromiseSpec == Promise!Spec
=============================================================================
