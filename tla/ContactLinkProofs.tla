-------------------------- MODULE ContactLinkProofs --------------------------
(***************************************************************************)
(* Theorems about ContactLink, for any number of connections and any       *)
(* certificates.                                                           *)
(***************************************************************************)
EXTENDS ContactLink, SequenceLemmas

\* What the properties rest on: a connection nobody opened has no sockets,
\* one that Tor has not set up has none at the other end, a stream is encrypted
\* only where there is a socket, and only a caller destroys its client.
ConnectionOpensInOrder ==
  /\ \A c \in Conns, p \in Peers :
       /\ caller[c] = Nobody => sock[c][p] = "none" /\ ~secure[c][p]
       /\ sock[c][p] = "connecting" =>
            /\ caller[c] = p
            /\ sock[c][Other(p)] = "none"
            /\ ~secure[c][Other(p)]
       /\ sock[c][p] \in {"none", "connecting"} => ~secure[c][p]
       /\ Erase(c) \in Pending(p) => caller[c] = p

\* The inductive invariant.  None of the properties is inductive alone: that a
\* status follows its connection rests on connections being opened in order, and
\* that an abandoned connection is closing on which client may be erased.
IInv ==
  /\ TypeOK
  /\ RegisteredWhileConnected
  /\ StatusFollowsConnection
  /\ AbandonedIsClosing
  /\ ErasedIsUnused
  /\ ConnectionOpensInOrder

(***************************************************************************)
(* Facts about the operators.                                              *)
(***************************************************************************)

\* There is one other peer.
LEMMA OtherPeer ==
  ASSUME NEW p \in Peers
  PROVE  /\ Other(p) \in Peers
         /\ Other(p) # p
         /\ \A q \in Peers : q = p \/ q = Other(p)
         /\ Other(Other(p)) = p
<1>1. PICK a \in Peers, b \in Peers : a # b /\ Peers = {a, b}
  BY PeersAssumption
<1>2. \E q \in Peers : q # p
  BY <1>1
<1>3. Other(p) \in Peers /\ Other(p) # p
  BY <1>2 DEF Other
<1>4. Other(Other(p)) \in Peers /\ Other(Other(p)) # Other(p)
  <2>1. \E q \in Peers : q # Other(p)
    BY <1>3
  <2> QED
    BY <2>1 DEF Other
<1> QED
  BY <1>1, <1>3, <1>4

\* An event is either kind, about one connection.
LEMMA EventKinds ==
  /\ \A c \in Conns : CloseLater(c) \in Events /\ Erase(c) \in Events
  /\ \A c, d \in Conns : CloseLater(c) # Erase(d)
  /\ \A c, d \in Conns : CloseLater(c) = CloseLater(d) => c = d
  /\ \A c, d \in Conns : Erase(c) = Erase(d) => c = d
  /\ \A e \in Events : /\ e.conn \in Conns
                       /\ e.kind = "CloseLater" => e = CloseLater(e.conn)
                       /\ e.kind = "Erase" => e = Erase(e.conn)
                       /\ e.kind \in {"CloseLater", "Erase"}
<1>1. \A c \in Conns : CloseLater(c) \in Events /\ Erase(c) \in Events
  BY DEF Events, CloseLater, Erase
<1>2. \A c, d \in Conns : CloseLater(c) # Erase(d)
  BY DEF CloseLater, Erase
<1>3. /\ \A c, d \in Conns : CloseLater(c) = CloseLater(d) => c = d
      /\ \A c, d \in Conns : Erase(c) = Erase(d) => c = d
  BY DEF CloseLater, Erase
<1>4. \A e \in Events : /\ e.conn \in Conns
                        /\ e.kind = "CloseLater" => e = CloseLater(e.conn)
                        /\ e.kind = "Erase" => e = Erase(e.conn)
                        /\ e.kind \in {"CloseLater", "Erase"}
  BY DEF Events, CloseLater, Erase
<1> QED
  BY <1>1, <1>2, <1>3, <1>4

\* Zero is no connection.
LEMMA NoConnIsNone == NoConn \notin Conns
BY DEF NoConn, Conns

\* Posting one event.
LEMMA PostedEvent ==
  ASSUME NEW s \in Seq(Events), NEW e \in Events
  PROVE  /\ Append(s, e) \in Seq(Events)
         /\ ToSet(Append(s, e)) = ToSet(s) \cup {e}
<1>1. Append(s, e) \in Seq(Events)
  OBVIOUS
<1>2. ToSet(Append(s, e)) = ToSet(s) \cup {e}
  BY ToSetAppend
<1> QED
  BY <1>1, <1>2

\* Closing the current connection adds its CloseLater, and nothing else.
LEMMA CurrentClosedEvents ==
  ASSUME TypeOK, NEW p \in Peers, NEW keep, NEW s \in Seq(Events),
         NEW t, t = WithCurrentClosed(p, keep, s)
  PROVE  /\ t \in Seq(Events)
         /\ \A e \in ToSet(s) : e \in ToSet(t)
         /\ current[p] \notin {NoConn, keep} => CloseLater(current[p]) \in ToSet(t)
         /\ \A c \in Conns : Erase(c) \in ToSet(t) => Erase(c) \in ToSet(s)
<1>1. CASE current[p] \in {NoConn, keep}
  BY <1>1 DEF WithCurrentClosed
<1>2. CASE current[p] \notin {NoConn, keep}
  <2>1. current[p] \in Conns
    BY <1>2 DEF TypeOK
  <2>2. t = Append(s, CloseLater(current[p]))
    BY <1>2 DEF WithCurrentClosed
  <2>3. CloseLater(current[p]) \in Events
    BY <2>1, EventKinds
  <2>4. t \in Seq(Events) /\ ToSet(t) = ToSet(s) \cup {CloseLater(current[p])}
    BY <2>2, <2>3, PostedEvent
  <2> QED
    BY <2>1, <2>4, EventKinds
<1> QED
  BY <1>1, <1>2

\* What a disconnectedFromPeer does to the queue and the contact.
LEMMA NotifyEffect ==
  ASSUME TypeOK, NEW p \in Peers, NEW c \in Conns, NEW s \in Seq(Events),
         Notify(p, c, s)
  PROVE  /\ posted' \in [Peers -> Seq(Events)]
         /\ \A q \in Peers : q # p => posted'[q] = posted[q]
         /\ \A e \in ToSet(s) : e \in ToSet(posted'[p])
         /\ \A d \in Conns :
              Erase(d) \in ToSet(posted'[p]) =>
                Erase(d) \in ToSet(s)
                  \/ (d = c /\ caller[c] = p /\ current'[p] = NoConn)
         /\ \/ contactVars' = contactVars
            \/ /\ current' = [current EXCEPT ![p] = NoConn]
               /\ status' = [status EXCEPT ![p] = "DISCONNECTED"]
               /\ registered' = [registered EXCEPT ![p] = FALSE]
               /\ current[p] # NoConn =>
                    CloseLater(current[p]) \in ToSet(posted'[p])
<1>0. posted \in [Peers -> Seq(Events)] /\ current \in [Peers -> Conns \cup {NoConn}]
  BY DEF TypeOK
<1>1. CASE muted[c][p]
  <2>1. posted' = [posted EXCEPT ![p] = s] /\ contactVars' = contactVars
    BY <1>1 DEF Notify
  <2> QED
    BY <1>0, <2>1
<1>2. CASE ~muted[c][p]
  <2>1. PICK signalled : signalled = IF caller[c] = p THEN Append(s, Erase(c)) ELSE s
    OBVIOUS
  <2>2. /\ signalled \in Seq(Events)
        /\ \A e \in ToSet(s) : e \in ToSet(signalled)
        /\ \A d \in Conns :
             Erase(d) \in ToSet(signalled) =>
               Erase(d) \in ToSet(s) \/ (d = c /\ caller[c] = p)
    <3>1. CASE caller[c] = p
      <4>1. Erase(c) \in Events
        BY EventKinds
      <4>2. signalled \in Seq(Events) /\ ToSet(signalled) = ToSet(s) \cup {Erase(c)}
        BY <3>1, <4>1, <2>1, PostedEvent
      <4> QED
        BY <3>1, <4>2, EventKinds
    <3>2. CASE caller[c] # p
      BY <3>2, <2>1
    <3> QED
      BY <3>1, <3>2
  <2>3. DisconnectedFromPeer(p, c, s)
    BY <1>2 DEF Notify
  <2>4. CASE Listens(p, c)
    <3>1. PICK t : t = WithCurrentClosed(p, NoConn, signalled)
      OBVIOUS
    <3>2. /\ t \in Seq(Events)
          /\ \A e \in ToSet(signalled) : e \in ToSet(t)
          /\ current[p] # NoConn => CloseLater(current[p]) \in ToSet(t)
          /\ \A d \in Conns : Erase(d) \in ToSet(t) => Erase(d) \in ToSet(signalled)
      BY <2>2, <3>1, CurrentClosedEvents
    <3>3. /\ posted' = [posted EXCEPT ![p] = t]
          /\ current' = [current EXCEPT ![p] = NoConn]
          /\ status' = [status EXCEPT ![p] = "DISCONNECTED"]
          /\ registered' = [registered EXCEPT ![p] = FALSE]
      BY <2>1, <2>3, <2>4, <3>1 DEF DisconnectedFromPeer, Unregistered
    <3> QED
      BY <1>0, <2>2, <3>2, <3>3
  <2>5. CASE ~Listens(p, c)
    <3>1. posted' = [posted EXCEPT ![p] = signalled] /\ contactVars' = contactVars
      BY <2>1, <2>3, <2>5 DEF DisconnectedFromPeer, contactVars
    <3>2. caller[c] # p
      BY <2>5 DEF Listens
    <3> QED
      BY <1>0, <2>2, <3>1, <3>2
  <2> QED
    BY <2>4, <2>5
<1> QED
  BY <1>1, <1>2

\* What a new connection does to the queue and the contact.
LEMMA ConnectedEffect ==
  ASSUME TypeOK, NEW p \in Peers, NEW c \in Conns, OnConnectedToPeer(p, c)
  PROVE  /\ secure' = [secure EXCEPT ![c][p] = TRUE]
         /\ registered' = [registered EXCEPT ![p] = TRUE]
         /\ caller' = caller /\ sock' = sock
         /\ muted' \in [Conns -> [Peers -> BOOLEAN]]
         /\ posted' \in [Peers -> Seq(Events)]
         /\ \A q \in Peers : q # p => posted'[q] = posted[q]
         /\ \A e \in ToSet(posted[p]) : e \in ToSet(posted'[p])
         /\ \A d \in Conns :
              Erase(d) \in ToSet(posted'[p]) => Erase(d) \in ToSet(posted[p])
         /\ \/ /\ current' = current /\ status' = status
               /\ status[p] = "ONLINE"
               /\ CloseLater(c) \in ToSet(posted'[p])
               /\ current[p] # NoConn
            \/ /\ current' = [current EXCEPT ![p] = c]
               /\ status' = [status EXCEPT ![p] = "ONLINE"]
               /\ current[p] \notin {NoConn, c} =>
                    CloseLater(current[p]) \in ToSet(posted'[p])
<1>0. /\ posted \in [Peers -> Seq(Events)]
      /\ current \in [Peers -> Conns \cup {NoConn}]
      /\ muted \in [Conns -> [Peers -> BOOLEAN]]
  BY DEF TypeOK
<1>1. /\ secure' = [secure EXCEPT ![c][p] = TRUE]
      /\ registered' = [registered EXCEPT ![p] = TRUE]
      /\ caller' = caller /\ sock' = sock
  BY DEF OnConnectedToPeer, Registered
<1>2. CASE PrefersCurrent(p, c)
  <2>1. /\ posted' = [posted EXCEPT ![p] = Append(posted[p], CloseLater(c))]
        /\ muted' = muted /\ current' = current /\ status' = status
    BY <1>2 DEF OnConnectedToPeer
  <2>2. status[p] = "ONLINE" /\ current[p] # NoConn
    BY <1>2 DEF PrefersCurrent
  <2>3. CloseLater(c) \in Events /\ posted[p] \in Seq(Events)
    BY <1>0, EventKinds
  <2>4. PICK t : t = Append(posted[p], CloseLater(c))
    OBVIOUS
  <2>5. t \in Seq(Events) /\ ToSet(t) = ToSet(posted[p]) \cup {CloseLater(c)}
    BY <2>3, <2>4, PostedEvent
  <2>6. posted' = [posted EXCEPT ![p] = t]
    BY <2>1, <2>4
  <2>7. /\ posted' \in [Peers -> Seq(Events)]
        /\ \A q \in Peers : q # p => posted'[q] = posted[q]
        /\ posted'[p] = t
    BY <1>0, <2>5, <2>6
  <2>8. \A d \in Conns : Erase(d) \in ToSet(t) => Erase(d) \in ToSet(posted[p])
    BY <2>5, EventKinds
  <2>9. /\ CloseLater(c) \in ToSet(t)
        /\ \A e \in ToSet(posted[p]) : e \in ToSet(t)
    BY <2>5
  <2> QED
    BY <1>0, <1>1, <2>1, <2>2, <2>7, <2>8, <2>9
<1>3. CASE ~PrefersCurrent(p, c)
  <2>1. PICK t : t = WithCurrentClosed(p, c, posted[p])
    OBVIOUS
  <2>2. /\ posted' = [posted EXCEPT ![p] = t]
        /\ current' = [current EXCEPT ![p] = c]
        /\ status' = [status EXCEPT ![p] = "ONLINE"]
        /\ muted' = CurrentMuted(p, c)
    BY <1>3, <2>1 DEF OnConnectedToPeer, CurrentReplaced
  <2>3. /\ t \in Seq(Events)
        /\ \A e \in ToSet(posted[p]) : e \in ToSet(t)
        /\ current[p] \notin {NoConn, c} => CloseLater(current[p]) \in ToSet(t)
        /\ \A d \in Conns : Erase(d) \in ToSet(t) => Erase(d) \in ToSet(posted[p])
    BY <1>0, <2>1, CurrentClosedEvents
  <2>4. muted' \in [Conns -> [Peers -> BOOLEAN]]
    BY <1>0, <2>2 DEF CurrentMuted
  <2> QED
    BY <1>0, <1>1, <2>2, <2>3, <2>4
<1> QED
  BY <1>2, <1>3

(***************************************************************************)
(* Every step preserves the invariant.                                     *)
(***************************************************************************)

\* Before the first connection there is nothing to be sound about.
LEMMA InitIInv == Init => IInv
<1> SUFFICES ASSUME Init PROVE IInv
  OBVIOUS
<1>1. \A p \in Peers : Pending(p) = {}
  <2>1. ASSUME NEW p \in Peers PROVE Pending(p) = {}
    <3>1. posted[p] = <<>>
      BY DEF Init
    <3> QED
      BY <3>1, ToSetEmpty DEF Pending
  <2> QED
    BY <2>1
<1>2. TypeOK
  <2>1. <<>> \in Seq(Events)
    OBVIOUS
  <2> QED
    BY <2>1 DEF Init, TypeOK, SocketStates
<1>3. RegisteredWhileConnected /\ StatusFollowsConnection
  BY NoConnIsNone DEF Init, RegisteredWhileConnected, StatusFollowsConnection
<1>4. AbandonedIsClosing
  BY DEF Init, AbandonedIsClosing
<1>5. ErasedIsUnused
  BY <1>1 DEF ErasedIsUnused
<1>6. ConnectionOpensInOrder
  BY <1>1 DEF Init, ConnectionOpensInOrder
<1> QED
  BY <1>2, <1>3, <1>4, <1>5, <1>6 DEF IInv

\* connectToContact() drops the connection it has and makes a new one.
LEMMA ConnectToContactStep ==
  ASSUME IInv, NEW p \in Peers, NEW c \in Conns, ConnectToContact(p, c)
  PROVE  IInv'
<1>1. PICK t : t = WithCurrentClosed(p, NoConn, posted[p])
  OBVIOUS
<1>2. /\ t \in Seq(Events)
      /\ \A e \in Pending(p) : e \in ToSet(t)
      /\ current[p] # NoConn => CloseLater(current[p]) \in ToSet(t)
      /\ \A d \in Conns : Erase(d) \in ToSet(t) => Erase(d) \in Pending(p)
  <2>1. TypeOK /\ posted[p] \in Seq(Events)
    BY DEF IInv, TypeOK
  <2> QED
    BY <1>1, <2>1, CurrentClosedEvents DEF Pending
<1>3. /\ caller[c] = Nobody
      /\ caller' = [caller EXCEPT ![c] = p]
      /\ sock' = [sock EXCEPT ![c][p] = "connecting"]
      /\ posted' = [posted EXCEPT ![p] = t]
      /\ current' = [current EXCEPT ![p] = c]
      /\ status' = [status EXCEPT ![p] = "CONNECTING"]
      /\ registered' = [registered EXCEPT ![p] = TRUE]
      /\ secure' = secure /\ ready' = ready
      /\ muted' = CurrentMuted(p, NoConn)
  BY <1>1 DEF ConnectToContact, Registered
<1>4. TypeOK'
  BY <1>2, <1>3 DEF IInv, TypeOK, SocketStates, CurrentMuted
<1>5. /\ Pending(p)' = ToSet(t)
      /\ \A q \in Peers : q # p => Pending(q)' = Pending(q)
  BY <1>3 DEF IInv, TypeOK, Pending
<1>6. RegisteredWhileConnected'
  BY <1>3, NoConnIsNone DEF IInv, TypeOK, RegisteredWhileConnected
<1>7. StatusFollowsConnection'
  BY <1>3, NoConnIsNone, NobodyAssumption
  DEF IInv, TypeOK, StatusFollowsConnection, ConnectionOpensInOrder
<1>8. AbandonedIsClosing'
  BY <1>2, <1>3, <1>5, NoConnIsNone DEF IInv, TypeOK, AbandonedIsClosing
<1>9. ErasedIsUnused'
  BY <1>2, <1>3, <1>5, NoConnIsNone, NobodyAssumption
  DEF IInv, TypeOK, ErasedIsUnused, ConnectionOpensInOrder
<1>10. ConnectionOpensInOrder'
  BY <1>2, <1>3, <1>5, NoConnIsNone, NobodyAssumption, OtherPeer
  DEF IInv, TypeOK, ConnectionOpensInOrder
<1> QED
  BY <1>4, <1>6, <1>7, <1>8, <1>9, <1>10 DEF IInv

\* disconnectFromContact() leaves closing the socket to the event loop.
LEMMA DisconnectFromContactStep ==
  ASSUME IInv, NEW p \in Peers, DisconnectFromContact(p)
  PROVE  IInv'
<1>1. PICK t : t = WithCurrentClosed(p, NoConn, posted[p])
  OBVIOUS
<1>2. /\ t \in Seq(Events)
      /\ \A e \in Pending(p) : e \in ToSet(t)
      /\ current[p] # NoConn => CloseLater(current[p]) \in ToSet(t)
      /\ \A d \in Conns : Erase(d) \in ToSet(t) => Erase(d) \in Pending(p)
  <2>1. TypeOK /\ posted[p] \in Seq(Events)
    BY DEF IInv, TypeOK
  <2> QED
    BY <1>1, <2>1, CurrentClosedEvents DEF Pending
<1>3. /\ posted' = [posted EXCEPT ![p] = t]
      /\ current' = [current EXCEPT ![p] = NoConn]
      /\ status' = [status EXCEPT ![p] = "DISCONNECTED"]
      /\ registered' = [registered EXCEPT ![p] = FALSE]
      /\ caller' = caller /\ sock' = sock /\ secure' = secure /\ ready' = ready
      /\ muted' = CurrentMuted(p, NoConn)
  BY <1>1 DEF DisconnectFromContact, Unregistered
<1>4. TypeOK'
  BY <1>2, <1>3 DEF IInv, TypeOK, CurrentMuted
<1>5. /\ Pending(p)' = ToSet(t)
      /\ \A q \in Peers : q # p => Pending(q)' = Pending(q)
  BY <1>3 DEF IInv, TypeOK, Pending
<1>6. RegisteredWhileConnected'
  BY <1>3 DEF IInv, TypeOK, RegisteredWhileConnected
<1>7. StatusFollowsConnection'
  BY <1>3 DEF IInv, TypeOK, StatusFollowsConnection
<1>8. AbandonedIsClosing'
  BY <1>2, <1>3, <1>5, NoConnIsNone DEF IInv, TypeOK, AbandonedIsClosing
<1>9. ErasedIsUnused'
  BY <1>2, <1>3, <1>5, NoConnIsNone DEF IInv, TypeOK, ErasedIsUnused
<1>10. ConnectionOpensInOrder'
  <2>1. \A q \in Peers, d \in Conns : Erase(d) \in Pending(q)' => Erase(d) \in Pending(q)
    BY <1>2, <1>5
  <2> QED
    BY <1>3, <2>1 DEF IInv, ConnectionOpensInOrder
<1> QED
  BY <1>4, <1>6, <1>7, <1>8, <1>9, <1>10 DEF IInv

\* A handler that only posts a CloseLater.
LEMMA CloseLaterStep ==
  ASSUME IInv, NEW p \in Peers, NEW c \in Conns,
         posted' = [posted EXCEPT ![p] = Append(posted[p], CloseLater(c))],
         UNCHANGED <<caller, endpointVars, ready, contactVars>>
  PROVE  IInv'
<1>1. posted[p] \in Seq(Events) /\ CloseLater(c) \in Events
  BY EventKinds DEF IInv, TypeOK
<1>2. PICK t : t = Append(posted[p], CloseLater(c))
  OBVIOUS
<1>3. /\ t \in Seq(Events)
      /\ ToSet(t) = Pending(p) \cup {CloseLater(c)}
  BY <1>1, <1>2, PostedEvent DEF Pending
<1>4. /\ Pending(p)' = ToSet(t)
      /\ \A q \in Peers : q # p => Pending(q)' = Pending(q)
      /\ posted' \in [Peers -> Seq(Events)]
  <2>1. posted' = [posted EXCEPT ![p] = t]
    BY <1>2
  <2> QED
    BY <1>3, <2>1 DEF IInv, TypeOK, Pending
<1>5. \A q \in Peers, d \in Conns : Erase(d) \in Pending(q)' => Erase(d) \in Pending(q)
  BY <1>3, <1>4, EventKinds
<1>6. /\ caller' = caller /\ sock' = sock /\ secure' = secure /\ ready' = ready
      /\ muted' = muted /\ current' = current /\ status' = status
      /\ registered' = registered
  BY DEF endpointVars, contactVars
<1>7. TypeOK'
  BY <1>4, <1>6 DEF IInv, TypeOK
<1>8. RegisteredWhileConnected' /\ StatusFollowsConnection'
  BY <1>6 DEF IInv, RegisteredWhileConnected, StatusFollowsConnection
<1>9. AbandonedIsClosing'
  BY <1>3, <1>4, <1>6 DEF IInv, AbandonedIsClosing
<1>10. ErasedIsUnused'
  BY <1>5, <1>6 DEF IInv, ErasedIsUnused
<1>11. ConnectionOpensInOrder'
  BY <1>5, <1>6 DEF IInv, ConnectionOpensInOrder
<1> QED
  BY <1>7, <1>8, <1>9, <1>10, <1>11 DEF IInv

\* A new connection in a handler that reads a Hello or an Olleh.
LEMMA OnConnectedToPeerStep ==
  ASSUME IInv, NEW p \in Peers, NEW c \in Conns, caller[c] # Nobody,
         sock[c][p] = "open", ~secure[c][p],
         OnConnectedToPeer(p, c), ready' \in [Peers -> SUBSET Conns]
  PROVE  IInv'
<1>0. TypeOK
  BY DEF IInv
<1>1. /\ secure' = [secure EXCEPT ![c][p] = TRUE]
      /\ registered' = [registered EXCEPT ![p] = TRUE]
      /\ caller' = caller /\ sock' = sock
      /\ muted' \in [Conns -> [Peers -> BOOLEAN]]
      /\ posted' \in [Peers -> Seq(Events)]
      /\ \A q \in Peers : q # p => posted'[q] = posted[q]
      /\ \A e \in ToSet(posted[p]) : e \in ToSet(posted'[p])
      /\ \A d \in Conns : Erase(d) \in ToSet(posted'[p]) => Erase(d) \in ToSet(posted[p])
  BY <1>0, ConnectedEffect
<1>2. \/ /\ current' = current /\ status' = status
         /\ status[p] = "ONLINE"
         /\ CloseLater(c) \in ToSet(posted'[p])
         /\ current[p] # NoConn
      \/ /\ current' = [current EXCEPT ![p] = c]
         /\ status' = [status EXCEPT ![p] = "ONLINE"]
         /\ current[p] \notin {NoConn, c} =>
              CloseLater(current[p]) \in ToSet(posted'[p])
  BY <1>0, ConnectedEffect
<1>3. /\ \A q \in Peers : \A e \in Pending(q) : e \in Pending(q)'
      /\ \A q \in Peers, d \in Conns : Erase(d) \in Pending(q)' => Erase(d) \in Pending(q)
  BY <1>1 DEF Pending
<1>4. TypeOK'
  BY ZenonT(60), <1>1, <1>2 DEF IInv, TypeOK
<1>5. RegisteredWhileConnected'
  BY <1>1, <1>2, NoConnIsNone DEF IInv, TypeOK, RegisteredWhileConnected
<1>6. StatusFollowsConnection'
  BY <1>1, <1>2, NoConnIsNone DEF IInv, TypeOK, StatusFollowsConnection
<1>7. AbandonedIsClosing'
  <2> SUFFICES ASSUME NEW q \in Peers, NEW d \in Conns,
                      sock[d][q] \in {"connecting", "open", "broken"},
                      d # current'[q], caller[d] = q \/ secure'[d][q]
               PROVE  CloseLater(d) \in Pending(q)'
    BY <1>1 DEF AbandonedIsClosing
  <2>1. CASE d = c /\ q = p
    BY <1>2, <2>1, NoConnIsNone DEF IInv, TypeOK, Pending
  <2>2. CASE ~(d = c /\ q = p)
    <3>1. caller[d] = q \/ secure[d][q]
      BY <1>1, <2>2 DEF IInv, TypeOK
    <3>2. CASE d # current[q]
      BY <1>3, <3>1, <3>2 DEF IInv, AbandonedIsClosing
    <3>3. CASE d = current[q]
      BY <1>2, <3>3, NoConnIsNone DEF IInv, TypeOK, Pending
    <3> QED
      BY <3>2, <3>3
  <2> QED
    BY <2>1, <2>2
<1>8. ErasedIsUnused'
  BY <1>1, <1>2, <1>3 DEF IInv, TypeOK, ErasedIsUnused
<1>9. ConnectionOpensInOrder'
  <2>1. \A d \in Conns : sock[d][Other(p)] = "connecting" => sock[d][p] = "none"
    BY OtherPeer DEF IInv, ConnectionOpensInOrder
  <2> QED
    BY <1>1, <1>3, <2>1, OtherPeer DEF IInv, TypeOK, ConnectionOpensInOrder
<1> QED
  BY <1>4, <1>5, <1>6, <1>7, <1>8, <1>9 DEF IInv

\* A hello, or the answer to it, hands the connection to the contact.
LEMMA GetHelloStep ==
  ASSUME IInv, NEW c \in Conns, GetHello(c) \/ GetHelloReply(c)
  PROVE  IInv'
<1>1. caller[c] \in Peers /\ Other(caller[c]) \in Peers
  BY OtherPeer DEF IInv, TypeOK, GetHello, GetHelloReply
<1>2. ASSUME NEW p \in Peers, Serve(p, c)
      PROVE  ready' \in [Peers -> SUBSET Conns]
  BY <1>2 DEF IInv, TypeOK, Serve
<1>3. CASE GetHello(c)
  BY <1>1, <1>2, <1>3, OnConnectedToPeerStep DEF GetHello
<1>4. CASE GetHelloReply(c)
  BY <1>1, <1>2, <1>4, OnConnectedToPeerStep DEF GetHelloReply
<1> QED
  BY <1>3, <1>4

\* A handler that closes leaves a CloseLater on its way, and the contact as it is.
LEMMA HandlerClosesStep ==
  ASSUME IInv, NEW p \in Peers, HandlerCloses(p)
  PROVE  IInv'
<1>1. current[p] \in Conns
  BY DEF IInv, TypeOK, StatusFollowsConnection, HandlerCloses
<1> QED
  BY <1>1, CloseLaterStep DEF HandlerCloses

\* After its last retry a client posts its own CloseLater.
LEMMA GiveUpStep ==
  ASSUME IInv, NEW c \in Conns, GiveUp(c)
  PROVE  IInv'
<1>1. caller[c] \in Peers
  BY DEF IInv, TypeOK, GiveUp
<1> QED
  BY <1>1, CloseLaterStep DEF GiveUp

\* What the event loop serves changes only `ready`.
LEMMA PollStep ==
  ASSUME IInv, NEW p \in Peers, NEW S \in SUBSET Due(p), Poll(p, S)
  PROVE  IInv'
<1>1. /\ caller' = caller /\ sock' = sock /\ secure' = secure
      /\ muted' = muted /\ current' = current /\ status' = status
      /\ registered' = registered /\ posted' = posted
      /\ ready' \in [Peers -> SUBSET Conns]
  BY DEF IInv, TypeOK, Poll, Due, endpointVars, contactVars
<1> QED
  BY <1>1 DEF IInv, TypeOK, RegisteredWhileConnected, StatusFollowsConnection,
              AbandonedIsClosing, ErasedIsUnused, ConnectionOpensInOrder, Pending

\* Tor opens both ends, which nobody trusts yet.
LEMMA EstablishedStep ==
  ASSUME IInv, NEW c \in Conns, Established(c)
  PROVE  IInv'
<1>1. PICK p \in Peers : p = caller[c]
  BY DEF IInv, TypeOK, Established
<1>2. /\ sock[c][p] = "connecting"
      /\ sock' = [sock EXCEPT ![c][p] = "open", ![c][Other(p)] = "open"]
      /\ ready' = [ready EXCEPT ![p] = @ \ {c}]
      /\ caller' = caller /\ secure' = secure
      /\ muted' = muted /\ current' = current /\ status' = status
      /\ registered' = registered /\ posted' = posted
  BY <1>1 DEF Established, Serve, contactVars
<1>3. /\ ~secure[c][p] /\ ~secure[c][Other(p)]
      /\ Other(p) \in Peers /\ Other(p) # p
      /\ \A q \in Peers : q = p \/ q = Other(p)
  BY <1>2, OtherPeer DEF IInv, ConnectionOpensInOrder
<1>4. /\ sock'[c][p] = "open" /\ sock'[c][Other(p)] = "open"
      /\ \A d \in Conns : d # c => sock'[d] = sock[d]
      /\ sock' \in [Conns -> [Peers -> SocketStates]]
  BY <1>2, <1>3 DEF IInv, TypeOK, SocketStates
<1>5. TypeOK'
  BY <1>2, <1>4 DEF IInv, TypeOK
<1>6. RegisteredWhileConnected' /\ StatusFollowsConnection'
  BY <1>2 DEF IInv, RegisteredWhileConnected, StatusFollowsConnection
<1>7. AbandonedIsClosing'
  BY <1>1, <1>2, <1>3, <1>4 DEF IInv, AbandonedIsClosing, Pending
<1>8. ErasedIsUnused'
  BY <1>1, <1>2, <1>3, <1>4
  DEF IInv, ErasedIsUnused, ConnectionOpensInOrder, Pending
<1>9. ConnectionOpensInOrder'
  BY <1>1, <1>2, <1>3, <1>4, OtherPeer, NobodyAssumption
  DEF IInv, ConnectionOpensInOrder, Pending
<1> QED
  BY <1>5, <1>6, <1>7, <1>8, <1>9 DEF IInv

\* An end Tor has lost has not been told of yet.
LEMMA LoseStep ==
  ASSUME IInv, NEW c \in Conns, NEW p \in Peers, Lose(c, p)
  PROVE  IInv'
<1>1. /\ sock[c][p] = "open"
      /\ sock' = [sock EXCEPT ![c][p] = "broken"]
      /\ caller' = caller /\ secure' = secure /\ ready' = ready
      /\ muted' = muted /\ current' = current /\ status' = status
      /\ registered' = registered /\ posted' = posted
  BY DEF Lose, contactVars
<1>2. TypeOK'
  BY <1>1 DEF IInv, TypeOK, SocketStates
<1>3. RegisteredWhileConnected' /\ StatusFollowsConnection'
  BY <1>1 DEF IInv, RegisteredWhileConnected, StatusFollowsConnection
<1>4. AbandonedIsClosing' /\ ErasedIsUnused'
  BY <1>1 DEF IInv, TypeOK, AbandonedIsClosing, ErasedIsUnused, Pending
<1>5. ConnectionOpensInOrder'
  BY <1>1, OtherPeer DEF IInv, TypeOK, ConnectionOpensInOrder, Pending
<1> QED
  BY <1>2, <1>3, <1>4, <1>5 DEF IInv

\* A socket that closes and says so: the common part of Disconnected, Flushed and
\* OnCloseLater.  `s` is what is left of the queue.
LEMMA ClosedStep ==
  ASSUME IInv, NEW p \in Peers, NEW c \in Conns, NEW s \in Seq(Events),
         Notify(p, c, s),
         \A d \in Conns : d # c => (CloseLater(d) \in Pending(p) => CloseLater(d) \in ToSet(s)),
         \A d \in Conns : Erase(d) \in ToSet(s) => Erase(d) \in Pending(p),
         sock[c][p] # "none",
         NEW new \in {"lingering", "closed"},
         sock' = [sock EXCEPT ![c][p] = new],
         UNCHANGED <<caller, secure, muted>>,
         ready' \in [Peers -> SUBSET Conns]
  PROVE  IInv'
<1>0. TypeOK
  BY DEF IInv
<1>1. /\ posted' \in [Peers -> Seq(Events)]
      /\ \A q \in Peers : q # p => posted'[q] = posted[q]
      /\ \A e \in ToSet(s) : e \in ToSet(posted'[p])
      /\ \A d \in Conns :
           Erase(d) \in ToSet(posted'[p]) =>
             Erase(d) \in ToSet(s)
               \/ (d = c /\ caller[c] = p /\ current'[p] = NoConn)
  BY <1>0, NotifyEffect
<1>2. \/ contactVars' = contactVars
      \/ /\ current' = [current EXCEPT ![p] = NoConn]
         /\ status' = [status EXCEPT ![p] = "DISCONNECTED"]
         /\ registered' = [registered EXCEPT ![p] = FALSE]
         /\ current[p] # NoConn =>
              CloseLater(current[p]) \in ToSet(posted'[p])
  BY <1>0, NotifyEffect
<1>3. /\ caller' = caller /\ secure' = secure /\ muted' = muted
      /\ contactVars' = contactVars =>
           current' = current /\ status' = status /\ registered' = registered
  BY DEF contactVars
<1>4. /\ sock'[c][p] = new
      /\ \A d \in Conns, q \in Peers :
           ~(d = c /\ q = p) => sock'[d][q] = sock[d][q]
      /\ sock' \in [Conns -> [Peers -> SocketStates]]
  BY DEF IInv, TypeOK, SocketStates
<1>5. TypeOK'
  BY <1>1, <1>2, <1>3, <1>4 DEF IInv, TypeOK
<1>6. RegisteredWhileConnected'
  BY <1>2, <1>3 DEF IInv, TypeOK, RegisteredWhileConnected
<1>7. StatusFollowsConnection'
  <2>1. CASE contactVars' = contactVars
    BY <1>3, <2>1 DEF IInv, StatusFollowsConnection
  <2>2. CASE /\ current' = [current EXCEPT ![p] = NoConn]
             /\ status' = [status EXCEPT ![p] = "DISCONNECTED"]
    <3>1. current'[p] = NoConn /\ status'[p] = "DISCONNECTED"
      BY <2>2 DEF IInv, TypeOK
    <3>2. \A q \in Peers : q # p => current'[q] = current[q] /\ status'[q] = status[q]
      BY <2>2 DEF IInv, TypeOK
    <3> QED
      BY <1>3, <3>1, <3>2 DEF IInv, StatusFollowsConnection
  <2> QED
    BY <1>2, <2>1, <2>2
<1>8. /\ \A q \in Peers, d \in Conns :
           ~(d = c /\ q = p) =>
             (CloseLater(d) \in Pending(q) => CloseLater(d) \in Pending(q)')
      /\ \A q \in Peers, d \in Conns :
           Erase(d) \in Pending(q)' =>
             Erase(d) \in Pending(q)
               \/ (q = p /\ d = c /\ caller[c] = p /\ current'[p] = NoConn)
  BY <1>1 DEF Pending
<1>9. AbandonedIsClosing'
  BY <1>2, <1>3, <1>4, <1>8, NoConnIsNone DEF IInv, TypeOK, AbandonedIsClosing, Pending
<1>10. ErasedIsUnused'
  BY <1>2, <1>3, <1>4, <1>8, NoConnIsNone DEF IInv, TypeOK, ErasedIsUnused
<1>11. ConnectionOpensInOrder'
  BY <1>3, <1>4, <1>8, OtherPeer DEF IInv, TypeOK, ConnectionOpensInOrder
<1> QED
  BY <1>5, <1>6, <1>7, <1>9, <1>10, <1>11 DEF IInv

\* A closed socket takes its contact offline if it is the one the contact has.
LEMMA SocketClosesStep ==
  ASSUME IInv, NEW c \in Conns, NEW p \in Peers, Disconnected(c, p) \/ Flushed(c, p)
  PROVE  IInv'
<1>1. /\ Notify(p, c, posted[p])
      /\ sock[c][p] # "none"
      /\ sock' = [sock EXCEPT ![c][p] = "closed"]
      /\ UNCHANGED <<caller, secure, muted>>
      /\ ready' = [ready EXCEPT ![p] = @ \ {c}]
  BY DEF Disconnected, Flushed, Serve
<1>4. ready' \in [Peers -> SUBSET Conns]
  BY <1>1 DEF IInv, TypeOK
<1>2. posted[p] \in Seq(Events)
  BY DEF IInv, TypeOK
<1>3. /\ \A d \in Conns :
           d # c => (CloseLater(d) \in Pending(p) => CloseLater(d) \in ToSet(posted[p]))
      /\ \A d \in Conns : Erase(d) \in ToSet(posted[p]) => Erase(d) \in Pending(p)
  BY DEF Pending
<1> QED
  BY <1>1, <1>2, <1>3, <1>4, ClosedStep

\* The first posted event and the rest of the queue.
LEMMA FirstEvent ==
  ASSUME TypeOK, NEW p \in Peers, posted[p] # <<>>
  PROVE  /\ Head(posted[p]) \in Events
         /\ Tail(posted[p]) \in Seq(Events)
         /\ Pending(p) = {Head(posted[p])} \cup ToSet(Tail(posted[p]))
<1>1. posted[p] \in Seq(Events)
  BY DEF TypeOK
<1> QED
  BY <1>1, ToSetHeadTail DEF Pending

\* Events taken off the queue with nothing else changed but the sockets.
LEMMA TakenOffStep ==
  ASSUME IInv, NEW p \in Peers, NEW c \in Conns, NEW s \in Seq(Events),
         posted' = [posted EXCEPT ![p] = s],
         \A d \in Conns : d # c => (CloseLater(d) \in Pending(p) => CloseLater(d) \in ToSet(s)),
         \A d \in Conns : Erase(d) \in ToSet(s) => Erase(d) \in Pending(p),
         sock' = [sock EXCEPT ![c][p] = "gone"],
         caller[c] # Nobody,
         \A q \in Peers : sock[c][q] = "connecting" => q = p,
         UNCHANGED <<caller, secure, muted, ready, contactVars>>
  PROVE  IInv'
<1>1. /\ caller' = caller /\ secure' = secure /\ muted' = muted
      /\ ready' = ready /\ current' = current /\ status' = status
      /\ registered' = registered
  BY DEF contactVars
<1>2. /\ sock'[c][p] = "gone"
      /\ \A d \in Conns, q \in Peers :
           ~(d = c /\ q = p) => sock'[d][q] = sock[d][q]
      /\ sock' \in [Conns -> [Peers -> SocketStates]]
  BY DEF IInv, TypeOK, SocketStates
<1>3. /\ posted' \in [Peers -> Seq(Events)]
      /\ \A q \in Peers, d \in Conns :
           ~(d = c /\ q = p) =>
             (CloseLater(d) \in Pending(q) => CloseLater(d) \in Pending(q)')
      /\ \A q \in Peers, d \in Conns :
           Erase(d) \in Pending(q)' => Erase(d) \in Pending(q)
  BY DEF IInv, TypeOK, Pending
<1>4. TypeOK'
  BY <1>1, <1>2, <1>3 DEF IInv, TypeOK
<1>5. RegisteredWhileConnected' /\ StatusFollowsConnection'
  BY <1>1 DEF IInv, RegisteredWhileConnected, StatusFollowsConnection
<1>6. AbandonedIsClosing'
  BY <1>1, <1>2, <1>3 DEF IInv, AbandonedIsClosing
<1>7. ErasedIsUnused'
  BY <1>1, <1>2, <1>3 DEF IInv, ErasedIsUnused
<1>8. ConnectionOpensInOrder'
  BY <1>1, <1>2, <1>3, OtherPeer DEF IInv, ConnectionOpensInOrder
<1> QED
  BY <1>4, <1>5, <1>6, <1>7, <1>8 DEF IInv

\* The queued close reaches the socket it was posted to.
LEMMA OnCloseLaterStep ==
  ASSUME IInv, NEW p \in Peers, OnCloseLater(p)
  PROVE  IInv'
<1>1. /\ Head(posted[p]) \in Events
      /\ Tail(posted[p]) \in Seq(Events)
      /\ Pending(p) = {Head(posted[p])} \cup ToSet(Tail(posted[p]))
  BY FirstEvent DEF IInv, OnCloseLater
<1>2. PICK c \in Conns : c = Head(posted[p]).conn /\ Head(posted[p]) = CloseLater(c)
  BY <1>1, EventKinds DEF OnCloseLater
<1>3. PICK s \in Seq(Events) : s = Tail(posted[p])
  BY <1>1
<1>4. /\ \A d \in Conns : d # c => (CloseLater(d) \in Pending(p) => CloseLater(d) \in ToSet(s))
      /\ \A d \in Conns : Erase(d) \in ToSet(s) => Erase(d) \in Pending(p)
  BY <1>1, <1>2, <1>3, EventKinds
<1>5. CASE sock[c][p] = "gone"
  <2>1. /\ posted' = [posted EXCEPT ![p] = s]
        /\ sock' = sock
        /\ UNCHANGED <<caller, secure, muted, ready, contactVars>>
    BY <1>2, <1>3, <1>5 DEF OnCloseLater, contactVars
  <2>2. sock' = [sock EXCEPT ![c][p] = "gone"]
    BY <1>5, <2>1 DEF IInv, TypeOK
  <2>3. caller[c] # Nobody /\ \A q \in Peers : sock[c][q] = "connecting" => q = p
    BY <1>5, OtherPeer DEF IInv, ConnectionOpensInOrder
  <2> QED
    BY <1>4, <2>1, <2>2, <2>3, TakenOffStep
<1>6. CASE sock[c][p] # "gone"
  <2>1. /\ Notify(p, c, s)
        /\ UNCHANGED <<caller, secure, muted, ready>>
        /\ sock[c][p] # "none"
    BY <1>2, <1>3, <1>6 DEF OnCloseLater
  <2>2. PICK new \in {"lingering", "closed"} : sock' = [sock EXCEPT ![c][p] = new]
    BY ZenonT(40), <1>2, <1>6 DEF OnCloseLater, IInv, TypeOK
  <2>3. ready' \in [Peers -> SUBSET Conns]
    BY <2>1 DEF IInv, TypeOK
  <2> QED
    BY <1>4, <2>1, <2>2, <2>3, ClosedStep
<1> QED
  BY <1>5, <1>6

\* An erased client takes its socket along.
LEMMA OnEraseStep ==
  ASSUME IInv, NEW p \in Peers, OnErase(p)
  PROVE  IInv'
<1>1. /\ Head(posted[p]) \in Events
      /\ Tail(posted[p]) \in Seq(Events)
      /\ Pending(p) = {Head(posted[p])} \cup ToSet(Tail(posted[p]))
  BY FirstEvent DEF IInv, OnErase
<1>2. PICK c \in Conns : c = Head(posted[p]).conn /\ Head(posted[p]) = Erase(c)
  BY <1>1, EventKinds DEF OnErase
<1>3. PICK s \in Seq(Events) : s = Tail(posted[p])
  BY <1>1
<1>4. /\ \A d \in Conns : CloseLater(d) \in Pending(p) => CloseLater(d) \in ToSet(s)
      /\ \A d \in Conns : Erase(d) \in ToSet(s) => Erase(d) \in Pending(p)
  BY <1>1, <1>2, <1>3, EventKinds
<1>5. Erase(c) \in Pending(p)
  BY <1>1, <1>2
<1>6. caller[c] # Nobody /\ \A q \in Peers : sock[c][q] = "connecting" => q = p
  BY <1>5, NobodyAssumption DEF IInv, ConnectionOpensInOrder
<1>7. /\ posted' = [posted EXCEPT ![p] = s]
      /\ sock' = [sock EXCEPT ![c][p] = "gone"]
      /\ UNCHANGED <<caller, secure, muted, ready, contactVars>>
  BY <1>2, <1>3 DEF OnErase
<1> QED
  BY <1>4, <1>6, <1>7, TakenOffStep

\* Stuttering changes nothing.
LEMMA StutterStep == IInv /\ UNCHANGED vars => IInv'
BY DEF IInv, TypeOK, RegisteredWhileConnected, StatusFollowsConnection,
       AbandonedIsClosing, ErasedIsUnused, ConnectionOpensInOrder, Pending,
       vars, endpointVars, contactVars

\* Every step keeps the inductive invariant.
LEMMA NextIInv == IInv /\ [Next]_vars => IInv'
<1> SUFFICES ASSUME IInv, [Next]_vars PROVE IInv'
  OBVIOUS
<1>1. ASSUME NEW p \in Peers, ContactStep(p)
      PROVE  IInv'
  BY <1>1, ConnectToContactStep, DisconnectFromContactStep, HandlerClosesStep,
     OnCloseLaterStep, OnEraseStep, PollStep DEF ContactStep
<1>2. ASSUME NEW c \in Conns, SocketStep(c)
      PROVE  IInv'
  BY <1>2, EstablishedStep, GiveUpStep, GetHelloStep, SocketClosesStep DEF SocketStep
<1>3. ASSUME TorStep
      PROVE  IInv'
  BY <1>3, LoseStep DEF TorStep
<1> QED
  BY <1>1, <1>2, <1>3, StutterStep DEF Next

(***************************************************************************)
(* The theorems.                                                           *)
(***************************************************************************)

\* The invariant holds in every state of every behaviour.
THEOREM Invariance == Spec => []IInv
BY InitIInv, NextIInv, PTL DEF Spec

\* Every variable keeps its type.
THEOREM TypeCorrectness == Spec => []TypeOK
<1>1. IInv => TypeOK
  BY DEF IInv
<1> QED
  BY <1>1, Invariance, PTL

\* Identity::connected_ holds exactly the contacts that have a connection.
THEOREM RegisteredExactly == Spec => []RegisteredWhileConnected
<1>1. IInv => RegisteredWhileConnected
  BY DEF IInv
<1> QED
  BY <1>1, Invariance, PTL

\* The online status is that of the current connection.
THEOREM StatusIsOfConnection == Spec => []StatusFollowsConnection
<1>1. IInv => StatusFollowsConnection
  BY DEF IInv
<1> QED
  BY <1>1, Invariance, PTL

\* A connection out of use is about to be closed.
THEOREM AbandonedCloseSoon == Spec => []AbandonedIsClosing
<1>1. IInv => AbandonedIsClosing
  BY DEF IInv
<1> QED
  BY <1>1, Invariance, PTL

\* A client to be destroyed is used by nobody.
THEOREM ErasedUnused == Spec => []ErasedIsUnused
<1>1. IInv => ErasedIsUnused
  BY DEF IInv
<1> QED
  BY <1>1, Invariance, PTL

\* The two ends agree: what the other end knows of the connection of an online
\* contact follows from its own status and from what it has yet to close.
THEOREM Agreement == Spec => []OnlineTogether
<1>1. IInv => OnlineTogether
  <2> SUFFICES ASSUME IInv, NEW p \in Peers, NEW q \in Peers, q = Other(p),
                      status[p] = "ONLINE", sock[current[p]][p] = "open",
                      NEW c, c = current[p], secure[c][q],
                      sock[c][q] \notin {"broken", "lingering", "closed", "gone"}
               PROVE  \/ status[q] = "ONLINE" /\ current[q] = c
                      \/ CloseLater(c) \in Pending(q)
    BY OtherPeer DEF OnlineTogether
  <2>1. c \in Conns
    BY DEF IInv, TypeOK, StatusFollowsConnection
  <2>2. sock[c][q] = "open"
    BY <2>1 DEF IInv, TypeOK, SocketStates, ConnectionOpensInOrder
  <2>3. CASE current[q] # c
    BY <2>1, <2>2, <2>3 DEF IInv, AbandonedIsClosing
  <2>4. CASE current[q] = c
    <3>1. status[q] # "DISCONNECTED"
      BY <2>1, <2>4, NoConnIsNone DEF IInv, StatusFollowsConnection
    <3>2. status[q] # "CONNECTING"
      BY <2>4 DEF IInv, StatusFollowsConnection
    <3> QED
      BY <2>4, <3>1, <3>2 DEF IInv, TypeOK
  <2> QED
    BY <2>3, <2>4
<1> QED
  BY <1>1, Invariance, PTL
=============================================================================
