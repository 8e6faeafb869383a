-------------------------- MODULE ContactHandshake --------------------------
(***************************************************************************)
(* How two users become contacts, refuse and block each other: the AddMe   *)
(* request and its acks, the notification about a request of a stranger,   *)
(* and the row and object of the contact at both ends.                     *)
(*                                                                         *)
(* A connection is named by the program that called: each program has at   *)
(* most one call of its own in progress, and calls again when nothing is   *)
(* left of the last one.  (ContactLink models connections that replace     *)
(* each other and several sockets served in one poll; here a program       *)
(* handles what it posted to itself before anything else.)                 *)
(***************************************************************************)
EXTENDS Naturals, Sequences

CONSTANTS
  Peers,      \* the two users
  MaxUpsets,  \* breaks, restarts, disconnects and changed settings (a bound)
  MaxTimers   \* timers of processOnlineLater() counted per program (a bound)

ASSUME PeersAssumption == \E p, q \in Peers : p # q /\ Peers = {p, q}
ASSUME BoundsAssumption == MaxUpsets \in Nat /\ MaxTimers \in Nat \ {0}

Nobody == "Nobody"
ASSUME NobodyAssumption == Nobody \notin Peers

Other(p) == CHOOSE q \in Peers : q # p

VARIABLES
  contact,     \* the row and object of the other user
  asks,        \* a notification about the other user's AddMe is in the table
  end,         \* end[c][p]: p's end of the connection c called
  wire,        \* wire[c][p]: what is on its way to p on that connection
  posted,      \* queued signals the program has not handled yet
  timers,      \* running timers of scheduleProcessOnlineLater()
  current,     \* Contact::connection_, named by its caller
  status,      \* Contact::onlineStatus_
  upsets

contactVars == <<contact, asks>>
connVars == <<end, wire, posted>>
onlineVars == <<current, status>>
vars == <<contactVars, connVars, timers, onlineVars, upsets>>

\* A stranger is an accepted caller no contact belongs to; a closing end was
\* told to close and will say so; a muted one closes unheard.
EndStates == {"none", "calling", "stranger", "open", "closing", "muted"}

\* What goes over a connection: the Hello and the Olleh, requests, acks to
\* AddMe and Hello, and the end of the stream.
Acks == {"Added", "Pending", "Rejected", "Blocked", "Hello/Blocked", "UserInfo/Ack"}
Msgs == {"Hello", "Olleh", "AddMe", "UserInfo", "End"} \cup Acks

States == {"PENDING", "WAITING_FOR_ACCEPTANCE", "ACCEPTED", "REJECTED", "BLOCKED"}

Events == [kind : {"AddMeLater", "AckLater", "CloseLater"}, conn : Peers]
Event(kind, c) == [kind |-> kind, conn |-> c]

ContactRows == [known : BOOLEAN, state : States, initiated : {"ME", "THEM"},
                verified : BOOLEAN, blocked : BOOLEAN, notice : BOOLEAN,
                auto : BOOLEAN]

TypeOK ==
  /\ contact \in [Peers -> ContactRows]
  /\ asks \in [Peers -> BOOLEAN]
  /\ end \in [Peers -> [Peers -> EndStates]]
  /\ wire \in [Peers -> [Peers -> Seq(Msgs)]]
  /\ posted \in [Peers -> Seq(Events)]
  /\ timers \in [Peers -> 0..MaxTimers]
  /\ current \in [Peers -> Peers \cup {Nobody}]
  /\ status \in [Peers -> {"DISCONNECTED", "CONNECTING", "ONLINE"}]
  /\ upsets \in 0..MaxUpsets

\* What a contact starts with.
NewContact(initiated, auto) ==
  [known |-> TRUE, state |-> "PENDING", initiated |-> initiated,
   verified |-> FALSE, blocked |-> FALSE, notice |-> TRUE, auto |-> auto]

NoContact == [NewContact("ME", TRUE) EXCEPT !.known = FALSE]

Init ==
  /\ contact = [p \in Peers |-> NoContact]
  /\ asks = [p \in Peers |-> FALSE]
  /\ end = [c \in Peers |-> [p \in Peers |-> "none"]]
  /\ wire = [c \in Peers |-> [p \in Peers |-> <<>>]]
  /\ posted = [p \in Peers |-> <<>>]
  /\ timers = [p \in Peers |-> 0]
  /\ current = [p \in Peers |-> Nobody]
  /\ status = [p \in Peers |-> "DISCONNECTED"]
  /\ upsets = 0

(***************************************************************************)
(* The parts handlers share.  A handler is given the rows, ends and        *)
(* messages as its earlier statements left them.                           *)
(***************************************************************************)

\* There is, or will be, somebody at q's end of c to read.
Reaches(c, q) == end[c][q] # "none" \/ wire[c][q] # <<>>

\* Peer::send() and sendAck(): the socket is still open, the other one may not be.
Sent(p, c, m) ==
  IF Reaches(c, Other(p)) THEN [wire EXCEPT ![c][Other(p)] = Append(@, m)] ELSE wire

Received(p, c) == [wire EXCEPT ![c][p] = Tail(@)]

\* Received(p, c), and m is sent on connection d.
Answered(p, c, d, m) ==
  LET rest == Received(p, c)
  IN IF Reaches(d, Other(p)) THEN [rest EXCEPT ![d][Other(p)] = Append(@, m)] ELSE rest

Posted(p, kind, c) == [posted EXCEPT ![p] = Append(@, Event(kind, c))]

\* Peer::close(): nothing more is read, and a queued signal closes the socket.
Close(p, c, as) ==
  /\ end' = [end EXCEPT ![c][p] = as]
  /\ posted' = Posted(p, "CloseLater", c)

WithState(p, st) == [contact EXCEPT ![p].state = st]

\* Contact::scheduleProcessOnlineLater().
Scheduled(p) ==
  [timers EXCEPT ![p] = IF @ = MaxTimers THEN @ ELSE @ + 1]

\* Contact::disconnectFromContact().
DisconnectFromContact(p) ==
  /\ IF current[p] = Nobody
     THEN UNCHANGED <<end, posted>>
     ELSE Close(p, current[p], "muted")
  /\ current' = [current EXCEPT ![p] = Nobody]
  /\ status' = [status EXCEPT ![p] = "DISCONNECTED"]

\* Nothing is left of the last call of p.
Callable(p) ==
  /\ \A q \in Peers : end[p][q] = "none" /\ wire[p][q] = <<>>
  /\ current[p] # p

\* Contact::connectToContact(): the current connection is dropped for a call.
ConnectToContact(p) ==
  /\ Callable(p)
  /\ LET old == current[p]
     IN /\ end' = IF old = Nobody THEN [end EXCEPT ![p][p] = "calling"]
                  ELSE [end EXCEPT ![p][p] = "calling", ![old][p] = "muted"]
        /\ posted' = IF old = Nobody THEN posted ELSE Posted(p, "CloseLater", old)
  /\ wire' = [wire EXCEPT ![p][Other(p)] = <<"Hello">>]
  /\ current' = [current EXCEPT ![p] = p]
  /\ status' = [status EXCEPT ![p] = "CONNECTING"]

\* A connection is up: a peer that had blocked us has not, any more, and whom we
\* called is the one we have the address of.
RowWhenConnected(p, c) ==
  LET row == contact[p]
  IN [row EXCEPT
       !.state = IF @ # "BLOCKED" THEN @
                 ELSE IF row.verified THEN "ACCEPTED" ELSE "PENDING",
       !.verified = @ \/ c = p]

\* Mutant: a request is sent once.
UnansweredOnce == {"PENDING"}

\* The states in which the request, or its ack, is sent on every connection.
Unanswered == {"PENDING", "WAITING_FOR_ACCEPTANCE"}

\* What onConnectedToPeer() leaves for later.
PostedWhenConnected(p, c, row) ==
  LET talk == IF row.state \notin Unanswered THEN <<>>
              ELSE <<Event(IF row.initiated = "ME" THEN "AddMeLater" ELSE "AckLater", c)>>
      drop == IF current[p] \in {Nobody, c} THEN <<>>
              ELSE <<Event("CloseLater", current[p])>>
  IN [posted EXCEPT ![p] = @ \o talk \o drop]

\* Mutant: whoever has the right key is let in.
NeverRefuses(row) == FALSE

\* Whoever calls from an address we have not reached ourselves is let go.
Refuses(row) == ~row.verified

\* Contact::onConnectedToPeer().
OnConnectedToPeer(p, c) ==
  LET row == RowWhenConnected(p, c)
  IN /\ contact' = [contact EXCEPT ![p] = row]
     /\ IF Refuses(row)
        THEN /\ Close(p, c, "muted")
             /\ UNCHANGED <<timers, onlineVars>>
        ELSE /\ end' = [d \in Peers |->
                          IF d = c THEN [end[d] EXCEPT ![p] = "open"]
                          ELSE IF d = current[p] THEN [end[d] EXCEPT ![p] = "muted"]
                          ELSE end[d]]
             /\ posted' = PostedWhenConnected(p, c, row)
             /\ timers' = IF row.state = "ACCEPTED" THEN Scheduled(p) ELSE timers
             /\ current' = [current EXCEPT ![p] = c]
             /\ status' = [status EXCEPT ![p] = "ONLINE"]

(***************************************************************************)
(* What the users do.                                                      *)
(***************************************************************************)

\* The program handles what it posted first.
Idle(p) == posted[p] = <<>>

\* ContactManager::addContact(), and what the signal it emits leads to.
Added(p, row) ==
  /\ contact' = [contact EXCEPT ![p] = row]
  /\ IF row.auto THEN ConnectToContact(p) ELSE UNCHANGED <<connVars, onlineVars>>

\* Identity::addContact(): the user has the handle and the address.
AddContact(p, auto) ==
  /\ Idle(p)
  /\ ~contact[p].known
  /\ Added(p, NewContact("ME", auto))
  /\ UNCHANGED <<asks, timers, upsets>>

\* NotificationsModel::acceptContact() deletes the notification.
AcceptContact(p) ==
  /\ Idle(p)
  /\ asks[p]
  /\ ~contact[p].known
  /\ asks' = [asks EXCEPT ![p] = FALSE]
  /\ Added(p, NewContact("THEM", TRUE))
  /\ UNCHANGED <<timers, upsets>>

\* The user, or the timer of Identity::connectContacts(), connects.
Connect(p) ==
  /\ Idle(p)
  /\ contact[p].known
  /\ ~contact[p].blocked
  /\ status[p] = "DISCONNECTED"
  /\ ConnectToContact(p)
  /\ UNCHANGED <<contactVars, timers, upsets>>

Disconnect(p) ==
  /\ Idle(p)
  /\ upsets < MaxUpsets
  /\ status[p] # "DISCONNECTED"
  /\ upsets' = upsets + 1
  /\ DisconnectFromContact(p)
  /\ UNCHANGED <<contactVars, wire, timers>>

\* Contact::setBlocked(): one who blocked us is not called when we stop blocking him.
SetBlocked(p, value) ==
  /\ contact' = [contact EXCEPT ![p].blocked = value]
  /\ IF value \/ contact[p].state = "BLOCKED"
     THEN /\ UNCHANGED onlineVars
          /\ IF status[p] = "ONLINE"
             THEN /\ wire' = Sent(p, current[p], "Hello/Blocked")
                  /\ Close(p, current[p], "closing")
             ELSE UNCHANGED connVars
     ELSE IF contact[p].auto THEN ConnectToContact(p) ELSE UNCHANGED <<connVars, onlineVars>>

Block(p) ==
  /\ Idle(p)
  /\ upsets < MaxUpsets
  /\ contact[p].known /\ ~contact[p].blocked
  /\ upsets' = upsets + 1
  /\ SetBlocked(p, TRUE)
  /\ UNCHANGED <<asks, timers>>

Unblock(p) ==
  /\ Idle(p)
  /\ contact[p].blocked
  /\ SetBlocked(p, FALSE)
  /\ UNCHANGED <<asks, timers, upsets>>

\* Contact::setSendBlockNotice().
ToggleNotice(p) ==
  /\ Idle(p)
  /\ upsets < MaxUpsets
  /\ contact[p].known
  /\ upsets' = upsets + 1
  /\ contact' = [contact EXCEPT ![p].notice = ~@]
  /\ UNCHANGED <<asks, connVars, timers, onlineVars>>

(***************************************************************************)
(* What a program posted to itself.                                        *)
(***************************************************************************)

Handles(p, kind) == posted[p] # <<>> /\ Head(posted[p]).kind = kind
Handled(p) == [posted EXCEPT ![p] = Tail(@)]

\* Contact::onSendAddMeLater().
SendAddMeLater(p) ==
  /\ Handles(p, "AddMeLater")
  /\ posted' = Handled(p)
  /\ IF status[p] # "ONLINE" THEN UNCHANGED <<contact, wire>>
     ELSE /\ wire' = Sent(p, current[p], "AddMe")
          /\ contact' = IF contact[p].state # "PENDING" THEN contact
                        ELSE WithState(p, "WAITING_FOR_ACCEPTANCE")
  /\ UNCHANGED <<asks, end, timers, onlineVars, upsets>>

\* Contact::onSendAddmeAckLater().
SendAddmeAckLater(p) ==
  /\ Handles(p, "AckLater")
  /\ posted' = Handled(p)
  /\ IF status[p] # "ONLINE" THEN UNCHANGED <<contact, wire>>
     ELSE /\ wire' = Sent(p, current[p], "Added")
          /\ contact' = WithState(p, "ACCEPTED")
  /\ UNCHANGED <<asks, end, timers, onlineVars, upsets>>

\* The contact hears about the end of c: it called, or took the call.
Heard(p, c) == end[c][p] \in {"calling", "open", "closing"}

\* Contact::onDisconnectedFromPeer(), when the contact hears of it.
OnDisconnectedFromPeer(p, c) ==
  /\ current' = IF Heard(p, c) THEN [current EXCEPT ![p] = Nobody] ELSE current
  /\ status' = IF Heard(p, c) THEN [status EXCEPT ![p] = "DISCONNECTED"] ELSE status

\* Peer::onCloseLater(): what was written arrives before the end, what was not
\* read is lost.
CloseLater(p) ==
  /\ Handles(p, "CloseLater")
  /\ posted' = Handled(p)
  /\ LET c == Head(posted[p]).conn
         q == Other(p)
     IN /\ end' = [end EXCEPT ![c][p] = "none"]
        /\ wire' = [wire EXCEPT ![c][p] = <<>>,
                                ![c][q] = IF Reaches(c, q) THEN Append(@, "End") ELSE @]
        /\ OnDisconnectedFromPeer(p, c)
  /\ UNCHANGED <<contactVars, timers, upsets>>

(***************************************************************************)
(* What arrives.                                                           *)
(***************************************************************************)

Arrives(p, c, m) == Idle(p) /\ wire[c][p] # <<>> /\ Head(wire[c][p]) = m

\* Contact::onIncomingPeer(): a blocked contact is let in to be told, if he is to
\* be told and was accepted.
Authorizes(row) == ~row.blocked \/ (row.state = "ACCEPTED" /\ row.notice)

\* Identity::onIncomingPeer() and DsServer::authorize().
ReceiveHello(p, c) ==
  /\ Arrives(p, c, "Hello")
  /\ CASE ~contact[p].known ->
            /\ end' = [end EXCEPT ![c][p] = "stranger"]
            /\ wire' = Answered(p, c, c, "Olleh")
            /\ UNCHANGED <<contact, posted, timers, onlineVars>>
       [] contact[p].known /\ ~Authorizes(contact[p]) ->
            /\ Close(p, c, "muted")
            /\ wire' = Received(p, c)
            /\ UNCHANGED <<contact, timers, onlineVars>>
       [] contact[p].known /\ Authorizes(contact[p]) ->
            /\ wire' = Answered(p, c, c, "Olleh")
            /\ OnConnectedToPeer(p, c)
  /\ UNCHANGED <<asks, upsets>>

\* DsClient::getHelloReply().
ReceiveOlleh(p) ==
  /\ Arrives(p, p, "Olleh")
  /\ wire' = Received(p, p)
  /\ OnConnectedToPeer(p, p)
  /\ UNCHANGED <<asks, upsets>>

\* Contact::onAddmeRequest(), asked on connection c: the answer goes over the
\* connection the contact has, if any, which need not be c.
OnAddmeRequest(p, c) ==
  LET row == contact[p]
      d == current[p]
      answer == CASE ~row.verified -> "Pending"
                  [] row.verified /\ row.blocked /\ row.notice -> "Blocked"
                  [] row.verified /\ row.blocked /\ ~row.notice -> "Rejected"
                  [] OTHER -> "Added"
  IN IF status[p] # "ONLINE"
     THEN wire' = Received(p, c) /\ UNCHANGED <<contact, end, posted, timers>>
     ELSE /\ wire' = Answered(p, c, d, answer)
          /\ IF answer = "Added"
             THEN /\ contact' = WithState(p, "ACCEPTED")
                  /\ timers' = Scheduled(p)
                  /\ UNCHANGED <<end, posted>>
             ELSE Close(p, d, "closing") /\ UNCHANGED <<contact, timers>>

\* Mutant: the stranger is told that he was added.
WelcomesStranger(p, c) ==
  /\ wire' = Answered(p, c, c, "Added")
  /\ asks' = [asks EXCEPT ![p] = TRUE]
  /\ Close(p, c, "muted")
  /\ UNCHANGED <<contact, timers>>

\* Identity::onAddmeRequest(): a stranger's request becomes a notification, once.
OnStrangersRequest(p, c) ==
  /\ wire' = Received(p, c)
  /\ asks' = [asks EXCEPT ![p] = TRUE]
  /\ Close(p, c, "muted")
  /\ UNCHANGED <<contact, timers>>

ReceiveAddMe(p, c) ==
  /\ Arrives(p, c, "AddMe")
  /\ IF end[c][p] = "stranger" /\ ~contact[p].known
     THEN OnStrangersRequest(p, c)
     ELSE OnAddmeRequest(p, c) /\ UNCHANGED asks
  /\ UNCHANGED <<onlineVars, upsets>>

\* Nobody listens to what else a stranger sends.
IgnoreStranger(p, c) ==
  /\ end[c][p] = "stranger"
  /\ \E m \in Acks \cup {"UserInfo"} : Arrives(p, c, m)
  /\ wire' = Received(p, c)
  /\ UNCHANGED <<contactVars, end, posted, timers, onlineVars, upsets>>

\* Contact::onReceivedAck().  A "Blocked" ack to AddMe is not supported.
ReceiveAck(p, c, ack) ==
  /\ Arrives(p, c, ack)
  /\ end[c][p] = "open"
  /\ wire' = Received(p, c)
  /\ IF ~contact[p].verified \/ contact[p].blocked
     THEN Close(p, c, "closing") /\ UNCHANGED <<contact, timers, onlineVars>>
     ELSE CASE ack = "Added" ->
                 /\ contact' = WithState(p, "ACCEPTED")
                 /\ timers' = Scheduled(p)
                 /\ UNCHANGED <<end, posted, onlineVars>>
            [] ack \in {"Pending", "Rejected"} ->
                 /\ contact' = WithState(p, IF ack = "Pending"
                                            THEN "WAITING_FOR_ACCEPTANCE" ELSE "REJECTED")
                 /\ Close(p, c, "closing")
                 /\ UNCHANGED <<timers, onlineVars>>
            [] ack = "Hello/Blocked" ->
                 /\ contact' = WithState(p, "BLOCKED")
                 /\ DisconnectFromContact(p)
                 /\ UNCHANGED timers
            [] OTHER -> UNCHANGED <<contact, end, posted, timers, onlineVars>>
  /\ UNCHANGED <<asks, upsets>>

Welcomes(row) == ~row.blocked /\ row.state = "ACCEPTED"

\* Contact::onReceivedUserInfo(), which stands for messages and file offers too:
\* what is not for a blocked or unaccepted contact ends the connection.
ReceiveUserInfo(p, c) ==
  /\ Arrives(p, c, "UserInfo")
  /\ end[c][p] = "open"
  /\ wire' = Answered(p, c, c, "UserInfo/Ack")
  /\ IF Welcomes(contact[p]) THEN UNCHANGED <<end, posted>> ELSE Close(p, c, "closing")
  /\ UNCHANGED <<contactVars, timers, onlineVars, upsets>>

\* The socket has been closed by the other end, or broke.
ReceiveEnd(p, c) ==
  /\ Arrives(p, c, "End")
  /\ end' = [end EXCEPT ![c][p] = "none"]
  /\ wire' = [wire EXCEPT ![c][p] = <<>>]
  /\ OnDisconnectedFromPeer(p, c)
  /\ UNCHANGED <<contactVars, posted, timers, upsets>>

\* Contact::processOnlineLater(), a second after it was scheduled.
ProcessOnlineLater(p) ==
  /\ Idle(p)
  /\ timers[p] > 0
  /\ timers' = [timers EXCEPT ![p] = @ - 1]
  /\ CASE status[p] = "ONLINE" /\ contact[p].blocked /\ contact[p].notice ->
            /\ wire' = Sent(p, current[p], "Hello/Blocked")
            /\ Close(p, current[p], "closing")
            /\ UNCHANGED onlineVars
       [] status[p] = "ONLINE" /\ contact[p].blocked /\ ~contact[p].notice ->
            DisconnectFromContact(p) /\ UNCHANGED wire
       [] status[p] = "ONLINE" /\ Welcomes(contact[p]) ->
            /\ wire' = Sent(p, current[p], "UserInfo")
            /\ UNCHANGED <<end, posted, onlineVars>>
       [] OTHER -> UNCHANGED <<connVars, onlineVars>>
  /\ UNCHANGED <<contactVars, upsets>>

(***************************************************************************)
(* Tor, and the end of a program.                                          *)
(***************************************************************************)

Ended(s) == s # <<>> /\ s[Len(s)] = "End"

\* A connection breaks, or the call fails: of what is on its way to a program at
\* most the first message arrives.
Break(c) ==
  /\ upsets < MaxUpsets
  /\ \E p \in Peers : end[c][p] # "none"
  /\ upsets' = upsets + 1
  /\ \E kept \in [Peers -> 0..1] :
       /\ \A p \in Peers : kept[p] <= Len(wire[c][p]) - (IF Ended(wire[c][p]) THEN 1 ELSE 0)
       /\ wire' = [wire EXCEPT ![c] =
            [p \in Peers |->
               IF end[c][p] = "none" /\ kept[p] = 0 THEN <<>>
               ELSE Append(SubSeq(@[p], 1, kept[p]), "End")]]
  /\ UNCHANGED <<contactVars, end, posted, timers, onlineVars>>

\* The program is started again.  The rows are in the database, and load() reads
\* all of them that matter here; nothing else survives.
Restart(p) ==
  /\ upsets < MaxUpsets
  /\ upsets' = upsets + 1
  /\ end' = [c \in Peers |-> [end[c] EXCEPT ![p] = "none"]]
  /\ wire' = [c \in Peers |-> [q \in Peers |->
                IF q = p THEN <<>>
                ELSE IF Reaches(c, q) /\ ~Ended(wire[c][q]) THEN Append(wire[c][q], "End")
                ELSE wire[c][q]]]
  /\ posted' = [posted EXCEPT ![p] = <<>>]
  /\ timers' = [timers EXCEPT ![p] = 0]
  /\ current' = [current EXCEPT ![p] = Nobody]
  /\ status' = [status EXCEPT ![p] = "DISCONNECTED"]
  /\ UNCHANGED <<contactVars>>

HandlePosted(p) == SendAddMeLater(p) \/ SendAddmeAckLater(p) \/ CloseLater(p)

Serve(p, c) ==
  \/ ReceiveHello(p, c)
  \/ c = p /\ ReceiveOlleh(p)
  \/ ReceiveAddMe(p, c)
  \/ IgnoreStranger(p, c)
  \/ \E ack \in Acks : ReceiveAck(p, c, ack)
  \/ ReceiveUserInfo(p, c)
  \/ ReceiveEnd(p, c)

Program(p) ==
  \/ HandlePosted(p)
  \/ \E c \in Peers : Serve(p, c)
  \/ ProcessOnlineLater(p)

User(p) ==
  \/ \E auto \in BOOLEAN : AddContact(p, auto)
  \/ AcceptContact(p)
  \/ Connect(p)
  \/ Disconnect(p)
  \/ Block(p)
  \/ Unblock(p)
  \/ ToggleNotice(p)

Next == \E p \in Peers : Program(p) \/ User(p) \/ Break(p) \/ Restart(p)

Spec == Init /\ [][Next]_vars

(***************************************************************************)
(* Properties.                                                             *)
(***************************************************************************)

\* Nobody is ACCEPTED whom the user did not try to reach at the address he has,
\* and whose own user has not added or accepted this one: acks, requests, repeated
\* requests and blocks, lost or not, never make a friend of one who did not ask.
AcceptedByBoth ==
  \A p \in Peers :
    contact[p].state = "ACCEPTED" => contact[p].verified /\ contact[Other(p)].known

\* A contact is shown online only after this program reached him at his address:
\* one who has the key of the contact but calls from elsewhere is not let in.
OnlineIsVerified ==
  \A p \in Peers : status[p] = "ONLINE" => contact[p].verified

Quiet ==
  \A p \in Peers :
    /\ posted[p] = <<>> /\ timers[p] = 0
    /\ \A c \in Peers : wire[c][p] = <<>>

\* When nothing is on its way, a contact shown online either hangs on a connection
\* the other identity holds for a stranger, or both are online on one connection,
\* and then each is ACCEPTED at the other and not blocked, or each was REJECTED by
\* the other, which nothing resolves.
AgreeWhenQuiet ==
  Quiet =>
    \A p \in Peers :
      LET q == Other(p) IN
      status[p] = "ONLINE" /\ end[current[p]][q] # "stranger" =>
        /\ status[q] = "ONLINE" /\ current[q] = current[p]
        /\ \/ \A r \in Peers : contact[r].state = "ACCEPTED" /\ ~contact[r].blocked
           \/ \A r \in Peers : contact[r].state = "REJECTED"
=============================================================================
