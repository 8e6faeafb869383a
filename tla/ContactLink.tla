----------------------------- MODULE ContactLink -----------------------------
(***************************************************************************)
(* How two contacts who have accepted each other connect: the Contact      *)
(* objects at both ends, their Connection, the protocol's Peer objects     *)
(* (DsClient at the caller, DsServer at the other end) with their sockets, *)
(* and the queue of events each program has posted to itself.              *)
(*                                                                         *)
(* An endpoint is one end of a connection.  Either side may call, both     *)
(* may call at once, and a call replaces an earlier one.  The programs     *)
(* are single threaded: a handler is one step.  What a handler leaves for  *)
(* later (a queued signal) is an event in `posted`.  The event loop sends  *)
(* the posted events in order, then polls, and serves every socket that is *)
(* ready, in any order, before it goes back to the posted events.          *)
(*                                                                         *)
(* Tor is external: it sets up a connection, or not, and loses it at will. *)
(***************************************************************************)
EXTENDS Naturals, SequencesExt

CONSTANTS
  Peers,       \* the two contacts
  CertHash,    \* the hash of each one's certificate
  MaxConn      \* how many connections are attempted (a bound)

ASSUME PeersAssumption == \E p, q \in Peers : p # q /\ Peers = {p, q}
ASSUME CertHashAssumption == CertHash \in [Peers -> Nat]
ASSUME MaxConnAssumption == MaxConn \in Nat

Conns == 1..MaxConn
NoConn == 0
Nobody == "Nobody"
Other(p) == CHOOSE q \in Peers : q # p

ASSUME NobodyAssumption == Nobody \notin Peers

VARIABLES
  caller,      \* who opened the connection; Nobody before it exists
  sock,        \* the socket of each endpoint
  secure,      \* the endpoint's Hello or Olleh was accepted: ENCRYPTED_STREAM
  muted,       \* Peer::notificationsDisabled_
  posted,      \* queued signals each program has not handled yet
  ready,       \* connections whose sockets the last poll found ready
  current,     \* Contact::connection_
  status,      \* Contact::onlineStatus_
  registered   \* the contact is in Identity::connected_

contactVars == <<current, status, registered>>
endpointVars == <<sock, secure, muted>>
vars == <<caller, endpointVars, posted, ready, contactVars>>

SocketStates ==
  {"none", "connecting", "open", "broken", "lingering", "closed", "gone"}

Events == [kind : {"CloseLater", "Erase"}, conn : Conns]
CloseLater(c) == [kind |-> "CloseLater", conn |-> c]
Erase(c) == [kind |-> "Erase", conn |-> c]

TypeOK ==
  /\ caller \in [Conns -> Peers \cup {Nobody}]
  /\ sock \in [Conns -> [Peers -> SocketStates]]
  /\ secure \in [Conns -> [Peers -> BOOLEAN]]
  /\ muted \in [Conns -> [Peers -> BOOLEAN]]
  /\ posted \in [Peers -> Seq(Events)]
  /\ ready \in [Peers -> SUBSET Conns]
  /\ current \in [Peers -> Conns \cup {NoConn}]
  /\ status \in [Peers -> {"DISCONNECTED", "CONNECTING", "ONLINE"}]
  /\ registered \in [Peers -> BOOLEAN]

Init ==
  /\ caller = [c \in Conns |-> Nobody]
  /\ sock = [c \in Conns |-> [p \in Peers |-> "none"]]
  /\ secure = [c \in Conns |-> [p \in Peers |-> FALSE]]
  /\ muted = [c \in Conns |-> [p \in Peers |-> FALSE]]
  /\ posted = [p \in Peers |-> <<>>]
  /\ ready = [p \in Peers |-> {}]
  /\ current = [p \in Peers |-> NoConn]
  /\ status = [p \in Peers |-> "DISCONNECTED"]
  /\ registered = [p \in Peers |-> FALSE]

Pending(p) == ToSet(posted[p])

(***************************************************************************)
(* The parts handlers share.                                               *)
(***************************************************************************)

\* Mutant: the old connection is forgotten, not closed.
WithoutNotice(p, keep, events) == events

\* Mutant: connection_ is not tested.
WithAnyClosed(p, keep, events) == Append(events, CloseLater(current[p]))

\* Contact::prepareForNewConnection() and the end of a Connection: unless it is
\* the one to keep, the current connection's close() posts a CloseLater.
WithCurrentClosed(p, keep, events) ==
  IF current[p] \in {NoConn, keep} THEN events
  ELSE Append(events, CloseLater(current[p]))

\* Contact::prepareForNewConnection(): the connection to be replaced or dropped
\* reports nothing more.
CurrentMuted(p, keep) ==
  IF current[p] \in {NoConn, keep} THEN muted
  ELSE [muted EXCEPT ![current[p]][p] = TRUE]

\* Mutant: the identity is not told.
StillRegistered(p) == registered

\* Identity::unregisterConnection().
Unregistered(p) == [registered EXCEPT ![p] = FALSE]

\* Mutant: connectToContact() does not listen to the client.
ListensWhenConnected(p, c) == secure[c][p]

\* The contact of p listens to disconnectedFromPeer: of a client from the start,
\* of a server once it was connected.
Listens(p, c) == caller[c] = p \/ secure[c][p]

\* The signal disconnectedFromPeer about c is emitted at p: the protocol layer
\* posts the removal of a client, and Contact::onDisconnectedFromPeer() drops the
\* current connection, whichever that is.  `events` is p's queue before.
DisconnectedFromPeer(p, c, events) ==
  LET signalled == IF caller[c] = p THEN Append(events, Erase(c)) ELSE events
  IN IF Listens(p, c)
     THEN /\ posted' = [posted EXCEPT
                          ![p] = WithCurrentClosed(p, NoConn, signalled)]
          /\ current' = [current EXCEPT ![p] = NoConn]
          /\ status' = [status EXCEPT ![p] = "DISCONNECTED"]
          /\ registered' = Unregistered(p)
     ELSE /\ posted' = [posted EXCEPT ![p] = signalled]
          /\ UNCHANGED contactVars

\* The same, emitted by an endpoint that may have been muted.
Notify(p, c, events) ==
  IF muted[c][p]
  THEN posted' = [posted EXCEPT ![p] = events] /\ UNCHANGED contactVars
  ELSE DisconnectedFromPeer(p, c, events)

\* "If the existing connection is active, compare hashes and use the lesser
\* one": the code compares the contact's own hash with the hash of the peer's
\* certificate, which is the contact's.
PrefersCurrent(p, c) ==
  /\ status[p] = "ONLINE"
  /\ current[p] \notin {NoConn, c}
  /\ (caller[current[p]] = p) # (caller[c] = p)
  /\ CertHash[Other(p)] < CertHash[Other(p)]

\* Identity::registerConnection().
Registered(p) == [registered EXCEPT ![p] = TRUE]

\* Mutant: a connection that is there is never replaced.
CurrentIfNone(p, c) ==
  IF current[p] = NoConn THEN [current EXCEPT ![p] = c] ELSE current

\* The new Connection of Contact::onConnectedToPeer().
CurrentReplaced(p, c) == [current EXCEPT ![p] = c]

\* Contact::onConnectedToPeer() of an accepted and verified contact.
OnConnectedToPeer(p, c) ==
  /\ secure' = [secure EXCEPT ![c][p] = TRUE]
  /\ registered' = Registered(p)
  /\ IF PrefersCurrent(p, c)
     THEN /\ posted' = [posted EXCEPT ![p] = Append(@, CloseLater(c))]
          /\ UNCHANGED <<muted, current, status>>
     ELSE /\ muted' = CurrentMuted(p, c)
          /\ posted' = [posted EXCEPT ![p] = WithCurrentClosed(p, c, @)]
          /\ current' = CurrentReplaced(p, c)
          /\ status' = [status EXCEPT ![p] = "ONLINE"]
  /\ UNCHANGED <<caller, sock>>

(***************************************************************************)
(* What the user and the identity do.                                      *)
(***************************************************************************)

\* Contact::connectToContact(), called for a contact that is not online: by the
\* user, and by the timers of Identity::connectContacts().
ConnectToContact(p, c) ==
  /\ ready[p] = {}
  /\ status[p] # "ONLINE"
  /\ caller[c] = Nobody
  /\ \A d \in Conns : d < c => caller[d] # Nobody
  /\ caller' = [caller EXCEPT ![c] = p]
  /\ sock' = [sock EXCEPT ![c][p] = "connecting"]
  /\ muted' = CurrentMuted(p, NoConn)
  /\ posted' = [posted EXCEPT ![p] = WithCurrentClosed(p, NoConn, @)]
  /\ current' = [current EXCEPT ![p] = c]
  /\ status' = [status EXCEPT ![p] = "CONNECTING"]
  /\ registered' = Registered(p)
  /\ UNCHANGED <<secure, ready>>

\* Contact::disconnectFromContact(): by the user, or for every registered
\* contact when the identity goes offline.
DisconnectFromContact(p) ==
  /\ registered[p]
  /\ muted' = CurrentMuted(p, NoConn)
  /\ posted' = [posted EXCEPT ![p] = WithCurrentClosed(p, NoConn, @)]
  /\ current' = [current EXCEPT ![p] = NoConn]
  /\ status' = [status EXCEPT ![p] = "DISCONNECTED"]
  /\ registered' = Unregistered(p)
  /\ UNCHANGED <<caller, sock, secure, ready>>

\* A handler closes the connection without muting it: the contact was blocked,
\* or sent what it may not send.
HandlerCloses(p) ==
  /\ status[p] = "ONLINE"
  /\ sock[current[p]][p] = "open"
  /\ CloseLater(current[p]) \notin Pending(p)
  /\ posted' = [posted EXCEPT ![p] = Append(@, CloseLater(current[p]))]
  /\ UNCHANGED <<caller, endpointVars, ready, contactVars>>

(***************************************************************************)
(* What the sockets do.                                                    *)
(***************************************************************************)

\* The other end of the connection does not exist any more.
OtherEndClosed(c, p) == sock[c][Other(p)] \in {"closed", "gone"}

\* The connections whose sockets can be ready: what became of a connect, of data
\* still to be written or of a broken connection, the other end's close, and an
\* unread Hello or Olleh.
Due(p) ==
  {c \in Conns :
     \/ sock[c][p] \in {"connecting", "broken", "lingering"}
     \/ /\ sock[c][p] = "open"
        /\ \/ OtherEndClosed(c, p)
           \/ ~secure[c][p] /\ (caller[c] = p => secure[c][Other(p)])}

\* The event loop polls, having sent all posted events.
Poll(p, S) ==
  /\ posted[p] = <<>>
  /\ ready[p] = {}
  /\ S # {}
  /\ ready' = [ready EXCEPT ![p] = S]
  /\ UNCHANGED <<caller, endpointVars, posted, contactVars>>

\* It serves the socket of c.
Serve(p, c) ==
  /\ c \in ready[p]
  /\ ready' = [ready EXCEPT ![p] = @ \ {c}]

\* Tor has set up the connection: the caller says Hello, the other end's
\* listener makes a DsServer that waits for it.
Established(c) ==
  /\ caller[c] # Nobody
  /\ Serve(caller[c], c)
  /\ sock[c][caller[c]] = "connecting"
  /\ sock' = [sock EXCEPT ![c][caller[c]] = "open",
                          ![c][Other(caller[c])] = "open"]
  /\ UNCHANGED <<caller, secure, muted, posted, contactVars>>

\* DsClient::startConnectRetryTimer() after the last retry.
GiveUp(c) ==
  /\ caller[c] # Nobody
  /\ LET p == caller[c]
     IN /\ ready[p] = {}
        /\ sock[c][p] = "connecting"
        /\ ~muted[c][p]
        /\ CloseLater(c) \notin Pending(p)
        /\ posted' = [posted EXCEPT ![p] = Append(@, CloseLater(c))]
  /\ UNCHANGED <<caller, endpointVars, ready, contactVars>>

\* DsServer::getHello(), Identity and Contact::onIncomingPeer(), and
\* DsServer::authorize(true), which answers with Olleh.
GetHello(c) ==
  /\ caller[c] # Nobody
  /\ LET p == Other(caller[c])
     IN /\ Serve(p, c)
        /\ sock[c][p] = "open"
        /\ ~secure[c][p]
        /\ OnConnectedToPeer(p, c)

\* DsClient::getHelloReply(): neither the muting nor the closing of the client
\* keeps it from reporting that it is connected.
GetHelloReply(c) ==
  /\ caller[c] # Nobody
  /\ LET p == caller[c]
     IN /\ Serve(p, c)
        /\ sock[c][p] = "open"
        /\ ~secure[c][p]
        /\ secure[c][Other(p)]
        /\ OnConnectedToPeer(p, c)

\* Tor loses the connection.
Lose(c, p) ==
  /\ c \notin ready[p]
  /\ sock[c][p] = "open"
  /\ sock' = [sock EXCEPT ![c][p] = "broken"]
  /\ UNCHANGED <<caller, secure, muted, posted, ready, contactVars>>

\* The socket of an endpoint is disconnected: the other end closed it, or Tor
\* lost the connection.
Disconnected(c, p) ==
  /\ Serve(p, c)
  /\ sock[c][p] = "broken" \/ (sock[c][p] = "open" /\ OtherEndClosed(c, p))
  /\ sock' = [sock EXCEPT ![c][p] = "closed"]
  /\ Notify(p, c, posted[p])
  /\ UNCHANGED <<caller, secure, muted>>

\* A socket closed with data still to write has written it.
Flushed(c, p) ==
  /\ Serve(p, c)
  /\ sock[c][p] = "lingering"
  /\ sock' = [sock EXCEPT ![c][p] = "closed"]
  /\ Notify(p, c, posted[p])
  /\ UNCHANGED <<caller, secure, muted>>

(***************************************************************************)
(* What the event loop does with posted events.                            *)
(***************************************************************************)

\* Peer::onCloseLater(): close the socket, at once or when its data is written,
\* and report it.  Nothing happens when the object was destroyed meanwhile.
OnCloseLater(p) ==
  /\ ready[p] = {}
  /\ posted[p] # <<>>
  /\ Head(posted[p]).kind = "CloseLater"
  /\ LET c == Head(posted[p]).conn
     IN IF sock[c][p] = "gone"
        THEN /\ posted' = [posted EXCEPT ![p] = Tail(@)]
             /\ UNCHANGED <<sock, contactVars>>
        ELSE /\ \/ /\ sock[c][p] \in {"connecting", "open", "broken"}
                   /\ sock' = [sock EXCEPT ![c][p] = "closed"]
                \/ /\ sock[c][p] = "open"
                   /\ sock' = [sock EXCEPT ![c][p] = "lingering"]
                \/ /\ sock[c][p] \in {"lingering", "closed"}
                   /\ UNCHANGED sock
             /\ Notify(p, c, Tail(posted[p]))
  /\ UNCHANGED <<caller, secure, muted, ready>>

\* The queued slot of TorServiceInterface::connectToService() that takes a client
\* out of peers_: the client is destroyed.
OnErase(p) ==
  /\ ready[p] = {}
  /\ posted[p] # <<>>
  /\ Head(posted[p]).kind = "Erase"
  /\ sock' = [sock EXCEPT ![Head(posted[p]).conn][p] = "gone"]
  /\ posted' = [posted EXCEPT ![p] = Tail(@)]
  /\ UNCHANGED <<caller, secure, muted, ready, contactVars>>

(***************************************************************************)
(* The specification.                                                      *)
(***************************************************************************)

ContactStep(p) ==
  \/ \E c \in Conns : ConnectToContact(p, c)
  \/ DisconnectFromContact(p)
  \/ HandlerCloses(p)
  \/ OnCloseLater(p)
  \/ OnErase(p)
  \/ \E S \in SUBSET Due(p) : Poll(p, S)

SocketStep(c) ==
  \/ Established(c)
  \/ GiveUp(c)
  \/ GetHello(c)
  \/ GetHelloReply(c)
  \/ \E p \in Peers : Disconnected(c, p) \/ Flushed(c, p)

TorStep == \E c \in Conns, p \in Peers : Lose(c, p)

Next ==
  \/ \E p \in Peers : ContactStep(p)
  \/ \E c \in Conns : SocketStep(c)
  \/ TorStep

Spec == Init /\ [][Next]_vars

\* The event loop handles what is posted, polls, and serves the sockets; Tor
\* answers a connect.  Nobody has to connect, to disconnect, to close
\* or to lose a connection.
Fairness ==
  /\ \A p \in Peers :
       /\ WF_vars(OnCloseLater(p))
       /\ WF_vars(OnErase(p))
       /\ WF_vars(Poll(p, Due(p)))
  /\ \A c \in Conns : WF_vars(SocketStep(c))

FairSpec == Spec /\ Fairness

(***************************************************************************)
(* What is checked.                                                        *)
(***************************************************************************)

\* Identity::connected_ holds the contacts that have a connection, and only
\* those: going offline disconnects exactly the contacts found there.
RegisteredWhileConnected ==
  \A p \in Peers : registered[p] <=> current[p] # NoConn

\* The online status a contact shows is that of its current connection, however
\* signals about other connections arrive in between.
StatusFollowsConnection ==
  \A p \in Peers :
    /\ status[p] = "DISCONNECTED" <=> current[p] = NoConn
    /\ status[p] = "CONNECTING" =>
         caller[current[p]] = p /\ ~secure[current[p]][p]
    /\ status[p] = "ONLINE" => secure[current[p]][p]

\* A contact uses one connection: any other that it opened or accepted, and that
\* still stands, is about to be closed.
AbandonedIsClosing ==
  \A p \in Peers, c \in Conns :
    sock[c][p] \in {"connecting", "open", "broken"} /\ c # current[p]
      /\ (caller[c] = p \/ secure[c][p])
      => CloseLater(c) \in Pending(p)

\* A client about to be destroyed is not the connection of its contact, and has
\* no socket left to hear from.
ErasedIsUnused ==
  \A p \in Peers, c \in Conns :
    Erase(c) \in Pending(p)
      => c # current[p] /\ sock[c][p] \notin {"connecting", "open", "broken"}

\* A contact that is online on a connection still standing is online, on the
\* same connection, at the other end, unless the other end has yet to read the
\* Olleh, or this end has yet to learn that the connection is closed.
OnlineTogether ==
  \A p \in Peers :
    status[p] = "ONLINE" /\ sock[current[p]][p] = "open" =>
      LET c == current[p]
          q == Other(p)
      IN \/ status[q] = "ONLINE" /\ current[q] = c
         \/ ~secure[c][q]
         \/ CloseLater(c) \in Pending(q)
         \/ sock[c][q] \in {"broken", "lingering", "closed", "gone"}

\* A contact does not stay CONNECTING: it goes online or gives up.
ConnectingEnds ==
  \A p \in Peers : status[p] = "CONNECTING" ~> status[p] # "CONNECTING"

\* A connection that is no longer in use is closed at both ends.
AbandonedCloses ==
  \A p \in Peers, c \in Conns :
    caller[c] = p /\ current[p] # c
      ~> sock[c][p] \in {"closed", "gone"}
           /\ sock[c][Other(p)] \in {"none", "closed", "gone"}
=============================================================================
