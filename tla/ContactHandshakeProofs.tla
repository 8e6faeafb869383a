----------------------- MODULE ContactHandshakeProofs -----------------------
(***************************************************************************)
(* Theorems about ContactHandshake, for any number of upsets and timers.   *)
(***************************************************************************)
EXTENDS ContactHandshake, SequenceLemmas

\* What may be on its way to p on the connection c called, if the contacts are ct:
\* who calls has a contact to call, and whoever sends more than an Olleh has p as
\* his contact.
MayArrive(ct, c, p) ==
  {m \in Msgs : ct[c].known /\ (m \in {"Olleh", "End"} \/ ct[Other(p)].known)}

\* What a program may have posted to itself: it acknowledges the request of one who
\* has made it.
MayBePosted(ct, p) ==
  {e \in Events : e.kind = "AckLater" => ct[Other(p)].known}

WireSound(w, ct) ==
  w \in [Peers -> [Peers -> Seq(Msgs)]]
    /\ \A c, p \in Peers : w[c][p] \in Seq(MayArrive(ct, c, p))

PostedSound(po, ct) ==
  po \in [Peers -> Seq(Events)] /\ \A p \in Peers : po[p] \in Seq(MayBePosted(ct, p))

\* An end is left of a call by one who has a contact, and a program talks only to
\* its contact.
EndSound(e, ct) ==
  /\ e \in [Peers -> [Peers -> EndStates]]
  /\ \A c, p \in Peers :
       /\ e[c][p] # "none" => ct[c].known
       /\ e[c][p] = "open" => ct[p].known

\* A contact somebody accepted, or was blocked by, has this user as his contact,
\* and so has one who asked first.
RowSound(ct, p) ==
  /\ ct[p].verified \/ ct[p].blocked => ct[p].known
  /\ ct[p].state = "ACCEPTED" => ct[p].verified
  /\ ct[p].state \in {"ACCEPTED", "BLOCKED"} => ct[Other(p)].known
  /\ ct[p].known /\ ct[p].initiated = "THEM" => ct[Other(p)].known

RowsSound(ct) ==
  ct \in [Peers -> ContactRows] /\ \A p \in Peers : RowSound(ct, p)

AsksSound(a, ct) ==
  a \in [Peers -> BOOLEAN] /\ \A p \in Peers : a[p] => ct[Other(p)].known

OnlineSound(cur, st, ct) ==
  /\ cur \in [Peers -> Peers \cup {Nobody}]
  /\ st \in [Peers -> {"DISCONNECTED", "CONNECTING", "ONLINE"}]
  /\ \A p \in Peers :
       /\ st[p] = "ONLINE" => cur[p] # Nobody /\ ct[p].verified
       /\ cur[p] # Nobody => ct[cur[p]].known

CountersSound(t, n) == t \in [Peers -> 0..MaxTimers] /\ n \in 0..MaxUpsets

\* The inductive invariant.  That an ACCEPTED contact has this user as his contact
\* rests on every message, request, ack and posted ack being from one who does.
IInv ==
  /\ RowsSound(contact) /\ AsksSound(asks, contact)
  /\ EndSound(end, contact) /\ WireSound(wire, contact) /\ PostedSound(posted, contact)
  /\ OnlineSound(current, status, contact)
  /\ CountersSound(timers, upsets)

\* A program never forgets a contact, nor that it reached him.
Grows(ct, ct2) ==
  \A p \in Peers : /\ ct[p].known => ct2[p].known
                   /\ ct[p].verified => ct2[p].verified

(***************************************************************************)
(* Facts about the parts.                                                  *)
(***************************************************************************)

\* There is one other user.
LEMMA OtherPeer ==
  ASSUME NEW p \in Peers
  PROVE  /\ Other(p) \in Peers
         /\ Other(p) # p
         /\ \A q \in Peers : q = p \/ q = Other(p)
         /\ Other(Other(p)) = p
<1>1. PICK a \in Peers, b \in Peers : a # b /\ Peers = {a, b}
  BY PeersAssumption
<1>2. \E q \in Peers : q # p
  BY <1>1
<1>3. Other(p) \in Peers /\ Other(p) # p
  BY <1>2 DEF Other
<1>4. Other(Other(p)) \in Peers /\ Other(Other(p)) # Other(p)
  <2>1. \E q \in Peers : q # Other(p)
    BY <1>3
  <2> QED
    BY <2>1 DEF Other
<1> QED
  BY <1>1, <1>3, <1>4

\* What is sound stays so when contacts become known or verified.
LEMMA SoundnessGrows ==
  ASSUME NEW ct, NEW ct2, Grows(ct, ct2)
  PROVE  /\ \A w : WireSound(w, ct) => WireSound(w, ct2)
         /\ \A po : PostedSound(po, ct) => PostedSound(po, ct2)
         /\ \A e : EndSound(e, ct) => EndSound(e, ct2)
         /\ \A a : AsksSound(a, ct) => AsksSound(a, ct2)
         /\ \A cur, st : OnlineSound(cur, st, ct) => OnlineSound(cur, st, ct2)
<1>1. ASSUME NEW w, WireSound(w, ct)
      PROVE  WireSound(w, ct2)
  <2>1. ASSUME NEW c \in Peers, NEW p \in Peers
        PROVE  w[c][p] \in Seq(MayArrive(ct2, c, p))
    <3>1. MayArrive(ct, c, p) \subseteq MayArrive(ct2, c, p)
      BY OtherPeer DEF MayArrive, Grows
    <3>2. w[c][p] \in Seq(MayArrive(ct, c, p))
      BY <1>1 DEF WireSound
    <3> QED
      BY <3>1, <3>2
  <2> QED
    BY <1>1, <2>1 DEF WireSound
<1>2. ASSUME NEW po, PostedSound(po, ct)
      PROVE  PostedSound(po, ct2)
  <2>1. ASSUME NEW p \in Peers
        PROVE  po[p] \in Seq(MayBePosted(ct2, p))
    <3>1. MayBePosted(ct, p) \subseteq MayBePosted(ct2, p)
      BY OtherPeer DEF MayBePosted, Grows
    <3>2. po[p] \in Seq(MayBePosted(ct, p))
      BY <1>2 DEF PostedSound
    <3> QED
      BY <3>1, <3>2
  <2> QED
    BY <1>2, <2>1 DEF PostedSound
<1>3. \A e : EndSound(e, ct) => EndSound(e, ct2)
  BY DEF EndSound, Grows
<1>4. \A a : AsksSound(a, ct) => AsksSound(a, ct2)
  BY OtherPeer DEF AsksSound, Grows
<1>5. ASSUME NEW cur, NEW st, OnlineSound(cur, st, ct)
      PROVE  OnlineSound(cur, st, ct2)
  BY <1>5 DEF OnlineSound, Grows
<1> QED
  BY <1>1, <1>2, <1>3, <1>4, <1>5

\* One more message on the way.
LEMMA WireAppend ==
  ASSUME NEW ct, NEW w, WireSound(w, ct), NEW c \in Peers, NEW p \in Peers,
         NEW m \in MayArrive(ct, c, p)
  PROVE  WireSound([w EXCEPT ![c][p] = Append(@, m)], ct)
<1> DEFINE v == [w EXCEPT ![c][p] = Append(@, m)]
<1>1. /\ w \in [Peers -> [Peers -> Seq(Msgs)]]
      /\ w[c][p] \in Seq(MayArrive(ct, c, p))
      /\ m \in Msgs
  BY DEF WireSound, MayArrive
<1>2. Append(w[c][p], m) \in Seq(MayArrive(ct, c, p)) /\ Append(w[c][p], m) \in Seq(Msgs)
  BY <1>1
<1>3. \A d, q \in Peers : v[d][q] = IF d = c /\ q = p THEN Append(w[c][p], m) ELSE w[d][q]
  BY <1>1
<1>4. v \in [Peers -> [Peers -> Seq(Msgs)]]
  BY <1>1, <1>2
<1>5. \A d, q \in Peers : v[d][q] \in Seq(MayArrive(ct, d, q))
  BY <1>2, <1>3 DEF WireSound
<1> QED
  BY <1>4, <1>5 DEF WireSound

\* One message less.
LEMMA WireTail ==
  ASSUME NEW ct, NEW w, WireSound(w, ct), NEW c \in Peers, NEW p \in Peers,
         w[c][p] # <<>>
  PROVE  /\ WireSound([w EXCEPT ![c][p] = Tail(@)], ct)
         /\ Head(w[c][p]) \in MayArrive(ct, c, p)
<1> DEFINE v == [w EXCEPT ![c][p] = Tail(@)]
<1>1. /\ w \in [Peers -> [Peers -> Seq(Msgs)]]
      /\ w[c][p] \in Seq(MayArrive(ct, c, p))
      /\ w[c][p] \in Seq(Msgs)
  BY DEF WireSound
<1>2. Tail(w[c][p]) \in Seq(MayArrive(ct, c, p)) /\ Tail(w[c][p]) \in Seq(Msgs)
  BY <1>1
<1>3. \A d, q \in Peers : v[d][q] = IF d = c /\ q = p THEN Tail(w[c][p]) ELSE w[d][q]
  BY <1>1
<1>4. v \in [Peers -> [Peers -> Seq(Msgs)]]
  BY <1>1, <1>2
<1>5. \A d, q \in Peers : v[d][q] \in Seq(MayArrive(ct, d, q))
  BY <1>2, <1>3 DEF WireSound
<1>6. Head(w[c][p]) \in MayArrive(ct, c, p)
  BY <1>1
<1> QED
  BY <1>4, <1>5, <1>6 DEF WireSound

\* Where there is a socket or something on its way, somebody has called.
LEMMA ReachesKnown ==
  ASSUME IInv, NEW c \in Peers, NEW p \in Peers, Reaches(c, p)
  PROVE  contact[c].known
<1>1. CASE end[c][p] # "none"
  BY <1>1 DEF IInv, EndSound
<1>2. CASE wire[c][p] # <<>>
  <2>1. Head(wire[c][p]) \in MayArrive(contact, c, p)
    BY <1>2, WireTail DEF IInv
  <2> QED
    BY <2>1 DEF MayArrive
<1> QED
  BY <1>1, <1>2 DEF Reaches

\* Whoever has this contact may send; anybody may answer a Hello.
LEMMA SentSound ==
  ASSUME IInv, NEW c \in Peers, NEW p \in Peers, NEW m \in Msgs,
         contact[p].known
  PROVE  WireSound(Sent(p, c, m), contact)
<1>1. CASE Reaches(c, Other(p))
  <2>1. m \in MayArrive(contact, c, Other(p))
    BY <1>1, ReachesKnown, OtherPeer DEF MayArrive
  <2>2. WireSound([wire EXCEPT ![c][Other(p)] = Append(@, m)], contact)
    BY <2>1, WireAppend, OtherPeer DEF IInv
  <2> QED
    BY <1>1, <2>2 DEF Sent
<1>2. CASE ~Reaches(c, Other(p))
  BY <1>2 DEF Sent, IInv
<1> QED
  BY <1>1, <1>2

\* Reading, and answering.
LEMMA AnsweredSound ==
  ASSUME IInv, NEW c \in Peers, NEW p \in Peers, wire[c][p] # <<>>
  PROVE  /\ WireSound(Received(p, c), contact)
         /\ Head(wire[c][p]) \in MayArrive(contact, c, p)
         /\ contact[c].known
         /\ \A d \in Peers, m \in Msgs :
              contact[p].known \/ m = "Olleh" => WireSound(Answered(p, c, d, m), contact)
<1>1. WireSound(Received(p, c), contact) /\ Head(wire[c][p]) \in MayArrive(contact, c, p)
  BY WireTail DEF IInv, Received
<1>2. contact[c].known
  BY <1>1 DEF MayArrive
<1>3. ASSUME NEW d \in Peers, NEW m \in Msgs, contact[p].known \/ m = "Olleh"
      PROVE  WireSound(Answered(p, c, d, m), contact)
  <2>1. CASE Reaches(d, Other(p))
    <3>1. m \in MayArrive(contact, d, Other(p))
      BY <1>3, <2>1, ReachesKnown, OtherPeer DEF MayArrive
    <3>2. WireSound([Received(p, c) EXCEPT ![d][Other(p)] = Append(@, m)], contact)
      BY <1>1, <3>1, WireAppend, OtherPeer
    <3> QED
      BY <2>1, <3>2 DEF Answered
  <2>2. CASE ~Reaches(d, Other(p))
    BY <1>1, <2>2 DEF Answered
  <2> QED
    BY <2>1, <2>2
<1> QED
  BY <1>1, <1>2, <1>3

\* One more event to handle.
LEMMA PostedAppend ==
  ASSUME NEW ct, NEW po, PostedSound(po, ct), NEW p \in Peers, NEW e \in MayBePosted(ct, p)
  PROVE  PostedSound([po EXCEPT ![p] = Append(@, e)], ct)
<1> DEFINE v == [po EXCEPT ![p] = Append(@, e)]
<1>1. /\ po \in [Peers -> Seq(Events)] /\ e \in Events
      /\ po[p] \in Seq(MayBePosted(ct, p))
  BY DEF PostedSound, MayBePosted
<1>2. Append(po[p], e) \in Seq(Events) /\ Append(po[p], e) \in Seq(MayBePosted(ct, p))
  BY <1>1
<1>3. v \in [Peers -> Seq(Events)]
  BY <1>1, <1>2
<1>4. \A q \in Peers : v[q] \in Seq(MayBePosted(ct, q))
  BY <1>1, <1>2 DEF PostedSound
<1> QED
  BY <1>3, <1>4 DEF PostedSound

\* One event less, or none.
LEMMA PostedTail ==
  ASSUME NEW ct, NEW po, PostedSound(po, ct), NEW p \in Peers
  PROVE  /\ PostedSound([po EXCEPT ![p] = <<>>], ct)
         /\ po[p] # <<>> =>
              /\ PostedSound([po EXCEPT ![p] = Tail(@)], ct)
              /\ Head(po[p]) \in MayBePosted(ct, p)
<1>1. po \in [Peers -> Seq(Events)] /\ po[p] \in Seq(MayBePosted(ct, p))
  BY DEF PostedSound
<1>2. ASSUME NEW s \in Seq(Events), s \in Seq(MayBePosted(ct, p))
      PROVE  PostedSound([po EXCEPT ![p] = s], ct)
  BY <1>1, <1>2 DEF PostedSound
<1>3. PostedSound([po EXCEPT ![p] = <<>>], ct)
  <2>1. <<>> \in Seq(Events) /\ <<>> \in Seq(MayBePosted(ct, p))
    OBVIOUS
  <2> QED
    BY <1>2, <2>1
<1>4. ASSUME po[p] # <<>>
      PROVE  /\ PostedSound([po EXCEPT ![p] = Tail(@)], ct)
             /\ Head(po[p]) \in MayBePosted(ct, p)
  <2>1. Tail(po[p]) \in Seq(Events) /\ Tail(po[p]) \in Seq(MayBePosted(ct, p))
    BY <1>1, <1>4
  <2>2. PostedSound([po EXCEPT ![p] = Tail(po[p])], ct)
    BY <1>2, <2>1
  <2>3. Head(po[p]) \in MayBePosted(ct, p)
    BY <1>1, <1>4
  <2> QED
    BY <2>2, <2>3
<1> QED
  BY <1>3, <1>4

\* Closing an end that is left of somebody's call.
LEMMA CloseSound ==
  ASSUME IInv, NEW p \in Peers, NEW c \in Peers, contact[c].known,
         NEW as \in {"closing", "muted"}, Close(p, c, as)
  PROVE  EndSound(end', contact) /\ PostedSound(posted', contact)
<1>1. EndSound(end', contact)
  BY DEF IInv, EndSound, Close, EndStates
<1>2. Event("CloseLater", c) \in MayBePosted(contact, p)
  BY DEF MayBePosted, Events, Event
<1>3. PostedSound(posted', contact)
  BY <1>2, PostedAppend DEF IInv, Close, Posted
<1> QED
  BY <1>1, <1>3

(***************************************************************************)
(* What the shared parts of handlers leave behind.                         *)
(***************************************************************************)

\* A whole sequence on the way.
LEMMA WireUpdate ==
  ASSUME NEW ct, NEW w, WireSound(w, ct), NEW c \in Peers, NEW p \in Peers,
         NEW s \in Seq(MayArrive(ct, c, p))
  PROVE  WireSound([w EXCEPT ![c][p] = s], ct)
<1> DEFINE v == [w EXCEPT ![c][p] = s]
<1>1. w \in [Peers -> [Peers -> Seq(Msgs)]]
  BY DEF WireSound
<1>2. MayArrive(ct, c, p) \subseteq Msgs
  BY DEF MayArrive
<1>3. s \in Seq(Msgs)
  BY <1>2
<1>4. v \in [Peers -> [Peers -> Seq(Msgs)]]
  BY <1>1, <1>3
<1>5. \A d, q \in Peers : v[d][q] = IF d = c /\ q = p THEN s ELSE w[d][q]
  BY <1>1
<1>6. \A d, q \in Peers : v[d][q] \in Seq(MayArrive(ct, d, q))
  BY <1>5 DEF WireSound
<1> QED
  BY <1>4, <1>6 DEF WireSound

\* disconnectFromContact(): the contact lets go of its connection.
LEMMA DisconnectEffect ==
  ASSUME IInv, NEW p \in Peers, DisconnectFromContact(p)
  PROVE  /\ EndSound(end', contact)
         /\ PostedSound(posted', contact)
         /\ OnlineSound(current', status', contact)
<1>1. OnlineSound(current', status', contact)
  BY DEF DisconnectFromContact, OnlineSound, IInv
<1>2. CASE current[p] = Nobody
  BY <1>1, <1>2 DEF DisconnectFromContact, IInv
<1>3. CASE current[p] # Nobody
  <2>1. current[p] \in Peers /\ contact[current[p]].known
    BY <1>3 DEF IInv, OnlineSound
  <2>2. Close(p, current[p], "muted")
    BY <1>3 DEF DisconnectFromContact
  <2> QED
    BY <1>1, <2>1, <2>2, CloseSound
<1> QED
  BY <1>2, <1>3

\* connectToContact(), with a contact to connect to.
LEMMA ConnectEffect ==
  ASSUME IInv, NEW p \in Peers, NEW ct, Grows(contact, ct), ct[p].known,
         ConnectToContact(p)
  PROVE  /\ EndSound(end', ct) /\ WireSound(wire', ct) /\ PostedSound(posted', ct)
         /\ OnlineSound(current', status', ct)
<1>1. /\ EndSound(end, ct) /\ WireSound(wire, ct) /\ PostedSound(posted, ct)
      /\ OnlineSound(current, status, ct)
  BY SoundnessGrows DEF IInv
<1>2. WireSound(wire', ct)
  <2>1. "Hello" \in MayArrive(ct, p, Other(p))
    BY OtherPeer DEF MayArrive, Msgs
  <2>2. <<"Hello">> \in Seq(MayArrive(ct, p, Other(p)))
    BY <2>1
  <2> QED
    BY <1>1, <2>2, WireUpdate, OtherPeer DEF ConnectToContact
<1>3. OnlineSound(current', status', ct)
  <2>1. /\ current' = [current EXCEPT ![p] = p]
        /\ status' = [status EXCEPT ![p] = "CONNECTING"]
    BY DEF ConnectToContact
  <2> QED
    BY <1>1, <2>1, NobodyAssumption DEF OnlineSound
<1>4. CASE current[p] = Nobody
  <2>1. end' = [end EXCEPT ![p][p] = "calling"] /\ posted' = posted
    BY <1>4 DEF ConnectToContact
  <2>2. EndSound(end', ct)
    BY <1>1, <2>1 DEF EndSound, EndStates
  <2> QED
    BY <1>1, <1>2, <1>3, <2>1, <2>2
<1>5. CASE current[p] # Nobody
  <2> DEFINE old == current[p]
  <2>1. old \in Peers /\ ct[old].known
    BY <1>1, <1>5 DEF OnlineSound
  <2>2. /\ end' = [end EXCEPT ![p][p] = "calling", ![old][p] = "muted"]
        /\ posted' = [posted EXCEPT ![p] = Append(@, Event("CloseLater", old))]
    BY <1>5 DEF ConnectToContact, Posted
  <2>3. EndSound(end', ct)
    BY <1>1, <2>1, <2>2 DEF EndSound, EndStates
  <2>4. Event("CloseLater", old) \in MayBePosted(ct, p)
    BY <2>1 DEF MayBePosted, Events, Event
  <2>5. PostedSound(posted', ct)
    BY <1>1, <2>2, <2>4, PostedAppend
  <2> QED
    BY <1>2, <1>3, <2>3, <2>5
<1> QED
  BY <1>4, <1>5

\* The rows p's may change to.
MayBecome(p, row) ==
  /\ row \in ContactRows
  /\ contact[p].known => row.known
  /\ contact[p].verified => row.verified
  /\ row.verified \/ row.blocked => row.known
  /\ row.state = "ACCEPTED" => row.verified
  /\ row.state \in {"ACCEPTED", "BLOCKED"} => contact[Other(p)].known
  /\ row.known /\ row.initiated = "THEM" => contact[Other(p)].known

\* A row changes, and nothing is forgotten.
LEMMA RowUpdate ==
  ASSUME IInv, NEW p \in Peers, NEW row, MayBecome(p, row),
         NEW ct, ct = [contact EXCEPT ![p] = row]
  PROVE  /\ RowsSound(ct)
         /\ Grows(contact, ct)
         /\ ct[p] = row
<1>1. RowsSound(contact)
  BY DEF IInv
<1>2. ct \in [Peers -> ContactRows] /\ \A q \in Peers : ct[q] = IF q = p THEN row ELSE contact[q]
  BY <1>1 DEF RowsSound, MayBecome
<1>3. Grows(contact, ct)
  BY <1>2 DEF Grows, MayBecome
<1>4. ASSUME NEW q \in Peers
      PROVE  RowSound(ct, q)
  <2>1. contact[Other(q)].known => ct[Other(q)].known
    BY <1>3, OtherPeer DEF Grows
  <2>2. CASE q = p
    BY <1>2, <2>1, <2>2 DEF RowSound, MayBecome
  <2>3. CASE q # p
    <3>1. RowSound(contact, q)
      BY <1>1 DEF RowsSound
    <3> QED
      BY <1>2, <2>1, <2>3, <3>1 DEF RowSound
  <2> QED
    BY <2>2, <2>3
<1> QED
  BY <1>2, <1>3, <1>4 DEF RowsSound

\* What becomes of a row when the connection is up.
LEMMA RowWhenConnectedEffect ==
  ASSUME IInv, NEW p \in Peers, NEW c \in Peers, contact[p].known,
         NEW ct, ct = [contact EXCEPT ![p] = RowWhenConnected(p, c)]
  PROVE  /\ RowsSound(ct)
         /\ Grows(contact, ct)
         /\ ct[p] = RowWhenConnected(p, c)
<1> DEFINE row == RowWhenConnected(p, c)
<1>1. contact[p] \in ContactRows /\ RowSound(contact, p)
  BY DEF IInv, RowsSound
<1>2. /\ row \in ContactRows
      /\ row.known = contact[p].known /\ row.initiated = contact[p].initiated
      /\ row.verified = (contact[p].verified \/ c = p)
      /\ row.blocked = contact[p].blocked
      /\ row.state = IF contact[p].state # "BLOCKED" THEN contact[p].state
                     ELSE IF contact[p].verified THEN "ACCEPTED" ELSE "PENDING"
  BY <1>1 DEF RowWhenConnected, ContactRows, States
<1> HIDE DEF row
<1>3. MayBecome(p, row)
  BY <1>1, <1>2 DEF RowSound, MayBecome
<1>4. ct = [contact EXCEPT ![p] = row]
  BY DEF row
<1>5. RowsSound(ct) /\ Grows(contact, ct) /\ ct[p] = row
  BY <1>3, <1>4, RowUpdate
<1> QED
  BY <1>5 DEF row

\* What onConnectedToPeer() leaves for later is sound.
LEMMA PostedWhenConnectedEffect ==
  ASSUME IInv, NEW p \in Peers, NEW c \in Peers, NEW ct, RowsSound(ct),
         Grows(contact, ct), ct[p].known
  PROVE  PostedSound(PostedWhenConnected(p, c, ct[p]), ct)
<1> DEFINE row == ct[p]
           talk == IF row.state \notin Unanswered THEN <<>>
                   ELSE <<Event(IF row.initiated = "ME" THEN "AddMeLater" ELSE "AckLater", c)>>
           drop == IF current[p] \in {Nobody, c} THEN <<>>
                   ELSE <<Event("CloseLater", current[p])>>
           M == MayBePosted(ct, p)
<1>1. PostedSound(posted, ct)
  BY SoundnessGrows DEF IInv
<1>2. talk \in Seq(M)
  <2>1. row.initiated \in {"ME", "THEM"} /\ (row.initiated = "THEM" => ct[Other(p)].known)
    BY DEF RowsSound, RowSound, ContactRows
  <2>2. Event(IF row.initiated = "ME" THEN "AddMeLater" ELSE "AckLater", c) \in M
    BY <2>1 DEF MayBePosted, Events, Event
  <2>3. CASE row.state \in Unanswered
    <3>1. <<Event(IF row.initiated = "ME" THEN "AddMeLater" ELSE "AckLater", c)>> \in Seq(M)
      BY <2>2
    <3> QED
      BY <3>1, <2>3
  <2>4. CASE row.state \notin Unanswered
    BY <2>4
  <2> QED
    BY <2>3, <2>4
<1>3. drop \in Seq(M)
  <2>1. CASE current[p] \in {Nobody, c}
    BY <2>1
  <2>2. CASE current[p] \notin {Nobody, c}
    <3>1. Event("CloseLater", current[p]) \in M
      BY <2>2 DEF IInv, OnlineSound, MayBePosted, Events, Event
    <3>2. <<Event("CloseLater", current[p])>> \in Seq(M)
      BY <3>1
    <3> QED
      BY <2>2, <3>2
  <2> QED
    BY <2>1, <2>2
<1>4. posted[p] \in Seq(M) /\ posted \in [Peers -> Seq(Events)]
  BY <1>1 DEF PostedSound
<1> HIDE DEF talk, drop
<1>5. posted[p] \o talk \o drop \in Seq(M)
  BY <1>2, <1>3, <1>4
<1>6. M \subseteq Events
  BY DEF MayBePosted
<1>7. posted[p] \o talk \o drop \in Seq(Events)
  BY <1>5, <1>6
<1>8. PostedWhenConnected(p, c, row) = [posted EXCEPT ![p] = posted[p] \o talk \o drop]
  BY DEF PostedWhenConnected, talk, drop
<1> QED
  BY <1>1, <1>4, <1>5, <1>7, <1>8 DEF PostedSound

\* onConnectedToPeer(), of a contact, on a connection somebody called.
LEMMA OnConnectedEffect ==
  ASSUME IInv, NEW p \in Peers, NEW c \in Peers, contact[p].known, contact[c].known,
         OnConnectedToPeer(p, c)
  PROVE  /\ RowsSound(contact') /\ Grows(contact, contact')
         /\ EndSound(end', contact') /\ PostedSound(posted', contact')
         /\ OnlineSound(current', status', contact')
         /\ timers' \in [Peers -> 0..MaxTimers]
<1> DEFINE row == RowWhenConnected(p, c)
<1>1. contact' = [contact EXCEPT ![p] = row]
  BY DEF OnConnectedToPeer
<1>2. RowsSound(contact') /\ Grows(contact, contact') /\ contact'[p] = row
  BY <1>1, RowWhenConnectedEffect
<1>3. /\ EndSound(end, contact') /\ PostedSound(posted, contact')
      /\ OnlineSound(current, status, contact')
      /\ contact'[p].known /\ contact'[c].known
  BY <1>2, SoundnessGrows DEF IInv, Grows
<1>4. timers \in [Peers -> 0..MaxTimers]
  BY DEF IInv, CountersSound
<1>5. CASE Refuses(row)
  <2>1. Close(p, c, "muted") /\ UNCHANGED <<timers, current, status>>
    BY <1>5 DEF OnConnectedToPeer, onlineVars
  <2>2. EndSound(end', contact) /\ PostedSound(posted', contact)
    BY <2>1, CloseSound
  <2> QED
    BY <1>2, <1>3, <1>4, <2>1, <2>2, SoundnessGrows
<1>6. CASE ~Refuses(row)
  <2>1. /\ end' = [d \in Peers |->
                     IF d = c THEN [end[d] EXCEPT ![p] = "open"]
                     ELSE IF d = current[p] THEN [end[d] EXCEPT ![p] = "muted"]
                     ELSE end[d]]
        /\ posted' = PostedWhenConnected(p, c, row)
        /\ timers' = IF row.state = "ACCEPTED" THEN Scheduled(p) ELSE timers
        /\ current' = [current EXCEPT ![p] = c]
        /\ status' = [status EXCEPT ![p] = "ONLINE"]
    BY <1>6 DEF OnConnectedToPeer
  <2>2. row.verified
    BY <1>6 DEF Refuses
  <2>3. OnlineSound(current', status', contact')
    BY <1>2, <1>3, <2>1, <2>2, NobodyAssumption DEF OnlineSound
  <2>4. EndSound(end', contact')
    <3>1. current[p] \in Peers => contact'[current[p]].known
      BY <1>3, NobodyAssumption DEF OnlineSound
    <3>2. end \in [Peers -> [Peers -> EndStates]]
      BY <1>3 DEF EndSound
    <3>3. end' \in [Peers -> [Peers -> EndStates]]
      BY <2>1, <3>2 DEF EndStates
    <3>4. \A d, q \in Peers :
            end'[d][q] = IF q # p THEN end[d][q]
                         ELSE IF d = c THEN "open"
                         ELSE IF d = current[p] THEN "muted" ELSE end[d][q]
      BY <2>1, <3>2
    <3> QED
      BY <1>3, <3>1, <3>3, <3>4 DEF EndSound
  <2>5. PostedSound(posted', contact')
    BY <1>2, <1>3, <2>1, PostedWhenConnectedEffect
  <2>6. timers' \in [Peers -> 0..MaxTimers]
    BY <1>4, <2>1, BoundsAssumption DEF Scheduled
  <2> QED
    BY <1>2, <2>3, <2>4, <2>5, <2>6
<1> QED
  BY <1>5, <1>6

(***************************************************************************)
(* Every step preserves the invariant.                                     *)
(***************************************************************************)

\* What a step leaves alone stays sound when the rows only grow.
LEMMA StepSound ==
  ASSUME IInv, RowsSound(contact'), Grows(contact, contact'),
         AsksSound(asks', contact') \/ asks' = asks,
         EndSound(end', contact') \/ end' = end,
         WireSound(wire', contact') \/ wire' = wire,
         PostedSound(posted', contact') \/ posted' = posted,
         OnlineSound(current', status', contact') \/ UNCHANGED <<current, status>>,
         timers' \in [Peers -> 0..MaxTimers] \/ timers' = timers,
         upsets' \in 0..MaxUpsets \/ upsets' = upsets
  PROVE  IInv'
<1>1. /\ AsksSound(asks, contact') /\ EndSound(end, contact') /\ WireSound(wire, contact')
      /\ PostedSound(posted, contact') /\ OnlineSound(current, status, contact')
  BY SoundnessGrows DEF IInv
<1>2. timers' \in [Peers -> 0..MaxTimers] /\ upsets' \in 0..MaxUpsets
  BY DEF IInv, CountersSound
<1> QED
  BY <1>1, <1>2 DEF IInv, CountersSound

\* The rows are as they were.
LEMMA SameRows ==
  ASSUME IInv, contact' = contact
  PROVE  RowsSound(contact') /\ Grows(contact, contact')
BY DEF IInv, Grows

\* scheduleProcessOnlineLater() counts up to its bound.
LEMMA ScheduledTimers ==
  ASSUME IInv, NEW p \in Peers
  PROVE  Scheduled(p) \in [Peers -> 0..MaxTimers]
BY BoundsAssumption DEF IInv, CountersSound, Scheduled

\* One more upset.
LEMMA OneMoreUpset ==
  ASSUME IInv, upsets < MaxUpsets, upsets' = upsets + 1
  PROVE  upsets' \in 0..MaxUpsets
BY BoundsAssumption DEF IInv, CountersSound

\* The new contact of a user who has the address, or accepts one who has asked.
LEMMA AddedSound ==
  ASSUME IInv, NEW p \in Peers, NEW initiated \in {"ME", "THEM"}, NEW auto \in BOOLEAN,
         ~contact[p].known, initiated = "THEM" => contact[Other(p)].known,
         Added(p, NewContact(initiated, auto)),
         asks' = asks \/ asks' = [asks EXCEPT ![p] = FALSE], UNCHANGED <<timers, upsets>>
  PROVE  IInv'
<1> DEFINE row == NewContact(initiated, auto)
<1>1. ~contact[p].verified
  BY DEF IInv, RowsSound, RowSound
<1>2. /\ row \in ContactRows /\ row.known
      /\ ~row.verified /\ ~row.blocked
      /\ row.state = "PENDING" /\ row.initiated = initiated
  BY DEF NewContact, ContactRows, States
<1>3. contact' = [contact EXCEPT ![p] = row]
  BY DEF Added
<1> HIDE DEF row
<1>4. RowsSound(contact') /\ Grows(contact, contact') /\ contact'[p] = row
  <2>1. MayBecome(p, row)
    BY <1>1, <1>2 DEF MayBecome
  <2> QED
    BY <1>3, <2>1, RowUpdate
<1>5. AsksSound(asks', contact')
  BY <1>4, SoundnessGrows DEF IInv, AsksSound
<1>6. CASE auto
  <2>1. ConnectToContact(p)
    BY <1>6 DEF Added, NewContact
  <2>2. /\ EndSound(end', contact') /\ WireSound(wire', contact')
        /\ PostedSound(posted', contact') /\ OnlineSound(current', status', contact')
    BY <1>2, <1>4, <2>1, ConnectEffect
  <2> QED
    BY <1>4, <1>5, <2>2, StepSound
<1>7. CASE ~auto
  <2>1. UNCHANGED <<end, wire, posted, current, status>>
    BY <1>7 DEF Added, NewContact, connVars, onlineVars
  <2> QED
    BY <1>4, <1>5, <2>1, StepSound
<1> QED
  BY <1>6, <1>7

\* A user adds the other one.
LEMMA AddContactSound ==
  ASSUME IInv, NEW p \in Peers, NEW auto \in BOOLEAN, AddContact(p, auto)
  PROVE  IInv'
BY AddedSound DEF AddContact

\* A user accepts the other one, of whom there is a notification.
LEMMA AcceptContactSound ==
  ASSUME IInv, NEW p \in Peers, AcceptContact(p)
  PROVE  IInv'
<1>1. contact[Other(p)].known
  BY DEF AcceptContact, IInv, AsksSound
<1> QED
  BY <1>1, AddedSound DEF AcceptContact

\* A contact is connected to.
LEMMA ConnectSound ==
  ASSUME IInv, NEW p \in Peers, Connect(p)
  PROVE  IInv'
<1>1. /\ contact[p].known /\ ConnectToContact(p)
      /\ UNCHANGED <<contact, asks, timers, upsets>>
  BY DEF Connect, contactVars
<1>2. RowsSound(contact') /\ Grows(contact, contact')
  BY <1>1, SameRows
<1>3. /\ EndSound(end', contact') /\ WireSound(wire', contact')
      /\ PostedSound(posted', contact') /\ OnlineSound(current', status', contact')
  BY <1>1, <1>2, ConnectEffect
<1> QED
  BY <1>1, <1>2, <1>3, StepSound

\* A user disconnects.
LEMMA DisconnectSound ==
  ASSUME IInv, NEW p \in Peers, Disconnect(p)
  PROVE  IInv'
<1>1. /\ DisconnectFromContact(p) /\ upsets' \in 0..MaxUpsets
      /\ UNCHANGED <<contact, asks, wire, timers>>
  BY OneMoreUpset DEF Disconnect, contactVars
<1>2. RowsSound(contact') /\ Grows(contact, contact')
  BY <1>1, SameRows
<1>3. /\ EndSound(end', contact') /\ PostedSound(posted', contact')
      /\ OnlineSound(current', status', contact')
  BY <1>1, DisconnectEffect
<1> QED
  BY <1>1, <1>2, <1>3, StepSound

\* A field that says nothing of the other side changes.
LEMMA MinorUpdate ==
  ASSUME IInv, NEW p \in Peers, contact[p].known, NEW value \in BOOLEAN,
         NEW ct, \/ ct = [contact EXCEPT ![p].blocked = value]
                 \/ ct = [contact EXCEPT ![p].notice = value]
  PROVE  RowsSound(ct) /\ Grows(contact, ct) /\ ct[p].known
<1>1. contact[p] \in ContactRows /\ RowSound(contact, p) /\ contact \in [Peers -> ContactRows]
  BY DEF IInv, RowsSound
<1>2. PICK row : /\ ct = [contact EXCEPT ![p] = row]
                 /\ \/ row = [contact[p] EXCEPT !.blocked = value]
                    \/ row = [contact[p] EXCEPT !.notice = value]
  BY <1>1
<1>3. /\ row \in ContactRows
      /\ row.known = contact[p].known /\ row.verified = contact[p].verified
      /\ row.state = contact[p].state /\ row.initiated = contact[p].initiated
  BY <1>1, <1>2 DEF ContactRows
<1>4. MayBecome(p, row)
  BY <1>1, <1>3 DEF RowSound, MayBecome
<1>5. RowsSound(ct) /\ Grows(contact, ct)
  BY <1>2, <1>4, RowUpdate
<1> QED
  BY <1>5 DEF Grows

\* A contact one is online with has a connection somebody called, and is known.
LEMMA OnlineHasConnection ==
  ASSUME IInv, NEW p \in Peers, status[p] = "ONLINE"
  PROVE  current[p] \in Peers /\ contact[current[p]].known /\ contact[p].known
BY DEF IInv, OnlineSound, RowsSound, RowSound

\* A user blocks or unblocks a contact.
LEMMA SetBlockedSound ==
  ASSUME IInv, NEW p \in Peers, NEW value \in BOOLEAN, contact[p].known,
         SetBlocked(p, value),
         asks' = asks, timers' = timers, upsets' \in 0..MaxUpsets \/ upsets' = upsets
  PROVE  IInv'
<1>1. contact' = [contact EXCEPT ![p].blocked = value]
  BY DEF SetBlocked
<1>2. RowsSound(contact') /\ Grows(contact, contact') /\ contact'[p].known
  BY <1>1, MinorUpdate
<1>3. CASE (value \/ contact[p].state = "BLOCKED") /\ status[p] = "ONLINE"
  <2>1. /\ wire' = Sent(p, current[p], "Hello/Blocked")
        /\ Close(p, current[p], "closing")
        /\ UNCHANGED <<current, status>>
    BY <1>3 DEF SetBlocked, onlineVars
  <2>2. current[p] \in Peers /\ contact[current[p]].known
    BY <1>3, OnlineHasConnection
  <2>3. "Hello/Blocked" \in Msgs
    BY DEF Msgs, Acks
  <2>4. WireSound(wire', contact)
    BY <2>1, <2>2, <2>3, SentSound
  <2>5. EndSound(end', contact) /\ PostedSound(posted', contact)
    BY <2>1, <2>2, CloseSound
  <2>6. WireSound(wire', contact') /\ EndSound(end', contact') /\ PostedSound(posted', contact')
    BY <1>2, <2>4, <2>5, SoundnessGrows
  <2> QED
    BY <1>2, <2>1, <2>6, StepSound
<1>4. CASE (value \/ contact[p].state = "BLOCKED") /\ status[p] # "ONLINE"
  <2>1. UNCHANGED <<end, wire, posted, current, status>>
    BY <1>4 DEF SetBlocked, onlineVars, connVars
  <2> QED
    BY <1>2, <2>1, StepSound
<1>5. CASE ~(value \/ contact[p].state = "BLOCKED") /\ contact[p].auto
  <2>1. ConnectToContact(p)
    BY <1>5 DEF SetBlocked
  <2>2. /\ EndSound(end', contact') /\ WireSound(wire', contact')
        /\ PostedSound(posted', contact') /\ OnlineSound(current', status', contact')
    BY <1>2, <2>1, ConnectEffect
  <2> QED
    BY <1>2, <2>2, StepSound
<1>6. CASE ~(value \/ contact[p].state = "BLOCKED") /\ ~contact[p].auto
  <2>1. UNCHANGED <<end, wire, posted, current, status>>
    BY <1>6 DEF SetBlocked, onlineVars, connVars
  <2> QED
    BY <1>2, <2>1, StepSound
<1> QED
  BY <1>3, <1>4, <1>5, <1>6

\* A user blocks a contact.
LEMMA BlockSound ==
  ASSUME IInv, NEW p \in Peers, Block(p)
  PROVE  IInv'
<1>1. upsets' \in 0..MaxUpsets
  BY OneMoreUpset DEF Block
<1> QED
  BY <1>1, SetBlockedSound DEF Block

\* Unblocking one is of a contact he has: nobody else is blocked.
LEMMA UnblockSound ==
  ASSUME IInv, NEW p \in Peers, Unblock(p)
  PROVE  IInv'
<1>1. contact[p].known
  BY DEF Unblock, IInv, RowsSound, RowSound
<1> QED
  BY <1>1, SetBlockedSound DEF Unblock

\* A user wants blocked contacts told, or not.
LEMMA ToggleNoticeSound ==
  ASSUME IInv, NEW p \in Peers, ToggleNotice(p)
  PROVE  IInv'
<1>1. upsets' \in 0..MaxUpsets
  BY OneMoreUpset DEF ToggleNotice
<1>2. /\ contact[p].notice \in BOOLEAN /\ contact[p].known
      /\ contact' = [contact EXCEPT ![p].notice = ~contact[p].notice]
  BY DEF ToggleNotice, IInv, RowsSound, ContactRows
<1>3. RowsSound(contact') /\ Grows(contact, contact')
  BY <1>2, MinorUpdate
<1>4. UNCHANGED <<asks, end, wire, posted, timers, current, status>>
  BY DEF ToggleNotice, connVars, onlineVars
<1> QED
  BY <1>1, <1>3, <1>4, StepSound

\* What is posted and handled may be posted.
LEMMA HandledSound ==
  ASSUME IInv, NEW p \in Peers, NEW kind, Handles(p, kind)
  PROVE  /\ PostedSound(Handled(p), contact)
         /\ Head(posted[p]) \in MayBePosted(contact, p)
         /\ Head(posted[p]).kind = kind
BY PostedTail DEF IInv, Handles, Handled

\* A state that only needs what the row has already.
LEMMA WithStateSound ==
  ASSUME IInv, NEW p \in Peers, NEW st \in States,
         st = "ACCEPTED" => contact[p].verified,
         st \in {"ACCEPTED", "BLOCKED"} => contact[Other(p)].known,
         NEW ct, ct = WithState(p, st)
  PROVE  RowsSound(ct) /\ Grows(contact, ct)
<1> DEFINE row == [contact[p] EXCEPT !.state = st]
<1>1. contact[p] \in ContactRows /\ RowSound(contact, p) /\ contact \in [Peers -> ContactRows]
  BY DEF IInv, RowsSound
<1>2. /\ row \in ContactRows
      /\ row.known = contact[p].known /\ row.verified = contact[p].verified
      /\ row.state = st /\ row.initiated = contact[p].initiated
      /\ row.blocked = contact[p].blocked
  BY <1>1 DEF ContactRows
<1>3. ct = [contact EXCEPT ![p] = row]
  BY <1>1 DEF WithState
<1> HIDE DEF row
<1>4. MayBecome(p, row)
  BY <1>1, <1>2 DEF RowSound, MayBecome
<1> QED
  BY <1>3, <1>4, RowUpdate

\* A queued request is sent.
LEMMA SendAddMeLaterSound ==
  ASSUME IInv, NEW p \in Peers, SendAddMeLater(p)
  PROVE  IInv'
<1>1. PostedSound(posted', contact)
  BY HandledSound DEF SendAddMeLater
<1>2. UNCHANGED <<asks, end, timers, current, status, upsets>>
  BY DEF SendAddMeLater, onlineVars
<1>3. CASE status[p] # "ONLINE"
  <2>1. contact' = contact /\ wire' = wire
    BY <1>3 DEF SendAddMeLater
  <2> QED
    BY <1>1, <1>2, <2>1, SameRows, StepSound
<1>4. CASE status[p] = "ONLINE"
  <2>1. WireSound(wire', contact)
    <3>1. "AddMe" \in Msgs
      BY DEF Msgs
    <3> QED
      BY <1>4, <3>1, SentSound, OnlineHasConnection DEF SendAddMeLater
  <2>2. RowsSound(contact') /\ Grows(contact, contact')
    <3>1. CASE contact' = contact
      BY <3>1, SameRows
    <3>2. CASE contact' = WithState(p, "WAITING_FOR_ACCEPTANCE")
      BY <3>2, WithStateSound DEF States
    <3> QED
      BY <1>4, <3>1, <3>2 DEF SendAddMeLater
  <2>3. WireSound(wire', contact') /\ PostedSound(posted', contact')
    BY <1>1, <2>1, <2>2, SoundnessGrows
  <2> QED
    BY <1>2, <2>2, <2>3, StepSound
<1> QED
  BY <1>3, <1>4

\* A queued ack is sent: it is to one who has asked.
LEMMA SendAddmeAckLaterSound ==
  ASSUME IInv, NEW p \in Peers, SendAddmeAckLater(p)
  PROVE  IInv'
<1>1. PostedSound(posted', contact)
  BY HandledSound DEF SendAddmeAckLater
<1>2. UNCHANGED <<asks, end, timers, current, status, upsets>>
  BY DEF SendAddmeAckLater, onlineVars
<1>3. CASE status[p] # "ONLINE"
  <2>1. contact' = contact /\ wire' = wire
    BY <1>3 DEF SendAddmeAckLater
  <2> QED
    BY <1>1, <1>2, <2>1, SameRows, StepSound
<1>4. CASE status[p] = "ONLINE"
  <2>1. WireSound(wire', contact)
    <3>1. "Added" \in Msgs
      BY DEF Msgs, Acks
    <3> QED
      BY <1>4, <3>1, SentSound, OnlineHasConnection DEF SendAddmeAckLater
  <2>2. contact[p].verified
    BY <1>4 DEF IInv, OnlineSound
  <2>3. contact[Other(p)].known
    BY HandledSound DEF SendAddmeAckLater, MayBePosted
  <2>4. RowsSound(contact') /\ Grows(contact, contact')
    BY <1>4, <2>2, <2>3, WithStateSound DEF SendAddmeAckLater, States
  <2>5. WireSound(wire', contact') /\ PostedSound(posted', contact')
    BY <1>1, <2>1, <2>4, SoundnessGrows
  <2> QED
    BY <1>2, <2>4, <2>5, StepSound
<1> QED
  BY <1>3, <1>4

\* A contact that hears of the end of a connection is offline.
LEMMA OnDisconnectedEffect ==
  ASSUME IInv, NEW p \in Peers, NEW c \in Peers, OnDisconnectedFromPeer(p, c)
  PROVE  OnlineSound(current', status', contact)
BY DEF IInv, OnlineSound, OnDisconnectedFromPeer

\* A socket is closed.
LEMMA CloseLaterSound ==
  ASSUME IInv, NEW p \in Peers, CloseLater(p)
  PROVE  IInv'
<1> DEFINE c == Head(posted[p]).conn
           q == Other(p)
<1>1. PostedSound(posted', contact) /\ c \in Peers
  BY HandledSound DEF CloseLater, MayBePosted, Events
<1>2. UNCHANGED <<contact, asks, timers, upsets>>
  BY DEF CloseLater, contactVars
<1>3. OnlineSound(current', status', contact)
  BY <1>1, OnDisconnectedEffect DEF CloseLater
<1>4. EndSound(end', contact)
  BY <1>1 DEF CloseLater, IInv, EndSound, EndStates
<1>5. /\ wire \in [Peers -> [Peers -> Seq(Msgs)]] /\ q \in Peers /\ q # p
      /\ \A d, r \in Peers : wire[d][r] \in Seq(MayArrive(contact, d, r))
      /\ MayArrive(contact, c, q) \subseteq Msgs
  BY OtherPeer DEF IInv, WireSound, MayArrive
<1>6. WireSound(wire', contact)
  <2> DEFINE s == IF Reaches(c, q) THEN Append(wire[c][q], "End") ELSE wire[c][q]
  <2>1. s \in Seq(MayArrive(contact, c, q))
    <3>1. CASE Reaches(c, q)
      <4>1. "End" \in MayArrive(contact, c, q)
        BY <1>1, <1>5, <3>1, ReachesKnown DEF MayArrive, Msgs
      <4> QED
        BY <1>1, <1>5, <3>1, <4>1
    <3>2. CASE ~Reaches(c, q)
      BY <1>1, <1>5, <3>2
    <3> QED
      BY <3>1, <3>2
  <2>2. wire' = [wire EXCEPT ![c][p] = <<>>, ![c][q] = s]
    BY DEF CloseLater
  <2> HIDE DEF s, c, q
  <2>3. s \in Seq(Msgs)
    BY <1>5, <2>1
  <2> DEFINE half == [wire EXCEPT ![c][p] = <<>>]
  <2>4. wire' \in [Peers -> [Peers -> Seq(Msgs)]]
    <3>1. half \in [Peers -> [Peers -> Seq(Msgs)]]
      <4>1. <<>> \in Seq(Msgs)
        OBVIOUS
      <4> QED
        BY <1>1, <1>5, <4>1
    <3>2. wire' = [half EXCEPT ![c][q] = s]
      BY <2>2
    <3> HIDE DEF half
    <3> QED
      BY <1>1, <1>5, <2>3, <3>1, <3>2
  <2>5. \A d, r \in Peers : wire'[d][r] = IF d = c /\ r = p THEN <<>>
                                          ELSE IF d = c /\ r = q THEN s ELSE wire[d][r]
    BY <1>1, <1>5, <2>2
  <2>6. \A d, r \in Peers : wire'[d][r] \in Seq(MayArrive(contact, d, r))
    <3>1. \A d, r \in Peers : <<>> \in Seq(MayArrive(contact, d, r))
      OBVIOUS
    <3> QED
      BY <1>5, <2>1, <2>5, <3>1
  <2> QED
    BY <2>4, <2>6 DEF WireSound
<1>7. RowsSound(contact') /\ Grows(contact, contact')
  BY <1>2, SameRows
<1> HIDE DEF c
<1> QED
  BY <1>1, <1>2, <1>3, <1>4, <1>6, <1>7, StepSound

\* What arrives is there to be read, and somebody has called; a request or an ack is
\* from one who has this user as his contact.
LEMMA ArrivesFromKnown ==
  ASSUME IInv, NEW p \in Peers, NEW c \in Peers, NEW m \in Msgs, Arrives(p, c, m)
  PROVE  /\ wire[c][p] # <<>>
         /\ contact[c].known
         /\ m \notin {"Olleh", "End"} => contact[Other(p)].known
<1>1. wire[c][p] # <<>> /\ Head(wire[c][p]) = m
  BY DEF Arrives
<1>2. m \in MayArrive(contact, c, p)
  BY <1>1, AnsweredSound
<1> QED
  BY <1>1, <1>2 DEF MayArrive

\* Somebody calls.
LEMMA ReceiveHelloSound ==
  ASSUME IInv, NEW p \in Peers, NEW c \in Peers, ReceiveHello(p, c)
  PROVE  IInv'
<1>1. /\ wire[c][p] # <<>> /\ contact[c].known
      /\ UNCHANGED <<asks, upsets>> /\ {"Hello", "Olleh"} \subseteq Msgs
  BY ArrivesFromKnown DEF ReceiveHello, Msgs
<1>2. WireSound(Answered(p, c, c, "Olleh"), contact) /\ WireSound(Received(p, c), contact)
  BY <1>1, AnsweredSound
<1>3. CASE ~contact[p].known
  <2>1. /\ end' = [end EXCEPT ![c][p] = "stranger"]
        /\ wire' = Answered(p, c, c, "Olleh")
        /\ UNCHANGED <<contact, posted, timers, current, status>>
    BY <1>3 DEF ReceiveHello, onlineVars
  <2>2. EndSound(end', contact)
    BY <1>1, <2>1 DEF IInv, EndSound, EndStates
  <2> QED
    BY <1>1, <1>2, <2>1, <2>2, SameRows, StepSound
<1>4. CASE contact[p].known /\ ~Authorizes(contact[p])
  <2>1. /\ Close(p, c, "muted") /\ wire' = Received(p, c)
        /\ UNCHANGED <<contact, timers, current, status>>
    BY <1>4 DEF ReceiveHello, onlineVars
  <2>2. EndSound(end', contact) /\ PostedSound(posted', contact)
    BY <1>1, <2>1, CloseSound
  <2> QED
    BY <1>1, <1>2, <2>1, <2>2, SameRows, StepSound
<1>5. CASE contact[p].known /\ Authorizes(contact[p])
  <2>1. wire' = Answered(p, c, c, "Olleh") /\ OnConnectedToPeer(p, c)
    BY <1>5 DEF ReceiveHello
  <2>2. /\ RowsSound(contact') /\ Grows(contact, contact')
        /\ EndSound(end', contact') /\ PostedSound(posted', contact')
        /\ OnlineSound(current', status', contact')
        /\ timers' \in [Peers -> 0..MaxTimers]
    BY <1>1, <1>5, <2>1, OnConnectedEffect
  <2>3. WireSound(wire', contact')
    BY <1>2, <2>1, <2>2, SoundnessGrows
  <2> QED
    BY <1>1, <2>2, <2>3, StepSound
<1> QED
  BY <1>3, <1>4, <1>5

\* The call is taken.
LEMMA ReceiveOllehSound ==
  ASSUME IInv, NEW p \in Peers, ReceiveOlleh(p)
  PROVE  IInv'
<1>1. /\ wire[p][p] # <<>> /\ contact[p].known
      /\ UNCHANGED <<asks, upsets>>
  BY ArrivesFromKnown DEF ReceiveOlleh, Msgs
<1>2. WireSound(wire', contact)
  BY <1>1, AnsweredSound DEF ReceiveOlleh
<1>3. /\ RowsSound(contact') /\ Grows(contact, contact')
      /\ EndSound(end', contact') /\ PostedSound(posted', contact')
      /\ OnlineSound(current', status', contact')
      /\ timers' \in [Peers -> 0..MaxTimers]
  BY <1>1, OnConnectedEffect DEF ReceiveOlleh
<1>4. WireSound(wire', contact')
  BY <1>2, <1>3, SoundnessGrows
<1> QED
  BY <1>1, <1>3, <1>4, StepSound

\* The request of somebody who is no contact.
LEMMA OnStrangersRequestSound ==
  ASSUME IInv, NEW p \in Peers, NEW c \in Peers, Arrives(p, c, "AddMe"),
         OnStrangersRequest(p, c), UNCHANGED <<current, status, upsets>>
  PROVE  IInv'
<1>1. wire[c][p] # <<>> /\ contact[c].known /\ contact[Other(p)].known
  BY ArrivesFromKnown DEF Msgs
<1>2. /\ wire' = Received(p, c) /\ asks' = [asks EXCEPT ![p] = TRUE]
      /\ Close(p, c, "muted") /\ UNCHANGED <<contact, timers>>
  BY DEF OnStrangersRequest
<1>3. WireSound(wire', contact)
  BY <1>1, <1>2, AnsweredSound
<1>4. AsksSound(asks', contact)
  BY <1>1, <1>2 DEF IInv, AsksSound
<1>5. EndSound(end', contact) /\ PostedSound(posted', contact)
  BY <1>1, <1>2, CloseSound
<1> QED
  BY <1>2, <1>3, <1>4, <1>5, SameRows, StepSound

\* The request of a contact: he is told "Added" only when he was reached.
LEMMA OnAddmeRequestSound ==
  ASSUME IInv, NEW p \in Peers, NEW c \in Peers, Arrives(p, c, "AddMe"),
         OnAddmeRequest(p, c), UNCHANGED <<asks, current, status, upsets>>
  PROVE  IInv'
<1> DEFINE d == current[p]
           row == contact[p]
           answer == CASE ~row.verified -> "Pending"
                       [] row.verified /\ row.blocked /\ row.notice -> "Blocked"
                       [] row.verified /\ row.blocked /\ ~row.notice -> "Rejected"
                       [] OTHER -> "Added"
<1>1. wire[c][p] # <<>> /\ contact[c].known /\ contact[Other(p)].known
  BY ArrivesFromKnown DEF Msgs
<1>2. CASE status[p] # "ONLINE"
  <2>1. wire' = Received(p, c) /\ UNCHANGED <<contact, end, posted, timers>>
    BY <1>2 DEF OnAddmeRequest
  <2>2. WireSound(wire', contact)
    BY <1>1, <2>1, AnsweredSound
  <2> QED
    BY <2>1, <2>2, SameRows, StepSound
<1>3. CASE status[p] = "ONLINE"
  <2>1. d \in Peers /\ contact[d].known /\ contact[p].known /\ contact[p].verified
    BY <1>3, OnlineHasConnection DEF IInv, OnlineSound
  <2>2. answer \in {"Pending", "Blocked", "Rejected", "Added"}
    OBVIOUS
  <2>3. /\ wire' = Answered(p, c, d, answer)
        /\ IF answer = "Added"
           THEN /\ contact' = WithState(p, "ACCEPTED")
                /\ timers' = Scheduled(p)
                /\ UNCHANGED <<end, posted>>
           ELSE Close(p, d, "closing") /\ UNCHANGED <<contact, timers>>
    BY <1>3 DEF OnAddmeRequest
  <2> HIDE DEF answer, d
  <2>4. WireSound(wire', contact)
    <3>1. answer \in Msgs
      BY <2>2 DEF Msgs, Acks
    <3> QED
      BY <1>1, <2>1, <2>3, <3>1, AnsweredSound
  <2>5. CASE answer = "Added"
    <3>1. RowsSound(contact') /\ Grows(contact, contact')
      BY <1>1, <2>1, <2>3, <2>5, WithStateSound DEF States
    <3>2. timers' \in [Peers -> 0..MaxTimers]
      BY <2>3, <2>5, ScheduledTimers
    <3>3. WireSound(wire', contact')
      BY <2>4, <3>1, SoundnessGrows
    <3> QED
      BY <2>3, <2>5, <3>1, <3>2, <3>3, StepSound
  <2>6. CASE answer # "Added"
    <3>1. EndSound(end', contact) /\ PostedSound(posted', contact)
      BY <2>1, <2>3, <2>6, CloseSound
    <3> QED
      BY <2>3, <2>4, <2>6, <3>1, SameRows, StepSound
  <2> QED
    BY <2>5, <2>6
<1> QED
  BY <1>2, <1>3

\* A request arrives.
LEMMA ReceiveAddMeSound ==
  ASSUME IInv, NEW p \in Peers, NEW c \in Peers, ReceiveAddMe(p, c)
  PROVE  IInv'
<1>1. Arrives(p, c, "AddMe") /\ UNCHANGED <<current, status, upsets>>
  BY DEF ReceiveAddMe, onlineVars
<1>2. CASE OnStrangersRequest(p, c)
  BY <1>1, <1>2, OnStrangersRequestSound
<1>3. CASE OnAddmeRequest(p, c) /\ UNCHANGED asks
  BY <1>1, <1>3, OnAddmeRequestSound
<1> QED
  BY <1>2, <1>3 DEF ReceiveAddMe

\* What a stranger sends is ignored.
LEMMA IgnoreStrangerSound ==
  ASSUME IInv, NEW p \in Peers, NEW c \in Peers, IgnoreStranger(p, c)
  PROVE  IInv'
<1>1. /\ wire[c][p] # <<>> /\ wire' = Received(p, c)
      /\ UNCHANGED <<contact, asks, end, posted, timers, current, status, upsets>>
  BY DEF IgnoreStranger, Arrives, contactVars, onlineVars
<1>2. WireSound(wire', contact)
  BY <1>1, AnsweredSound
<1> QED
  BY <1>1, <1>2, SameRows, StepSound

\* An ack arrives.
LEMMA ReceiveAckSound ==
  ASSUME IInv, NEW p \in Peers, NEW c \in Peers, NEW ack \in Acks, ReceiveAck(p, c, ack)
  PROVE  IInv'
<1>1. /\ wire[c][p] # <<>> /\ contact[c].known /\ contact[Other(p)].known
      /\ UNCHANGED <<asks, upsets>> /\ contact[p].known
  <2>1. ack \in Msgs \ {"Olleh", "End"}
    BY DEF Acks, Msgs
  <2>2. Arrives(p, c, ack) /\ end[c][p] = "open" /\ UNCHANGED <<asks, upsets>>
    BY DEF ReceiveAck
  <2>3. wire[c][p] # <<>> /\ contact[c].known /\ contact[Other(p)].known
    BY <2>1, <2>2, ArrivesFromKnown
  <2>4. contact[p].known
    BY <2>2 DEF IInv, EndSound
  <2> QED
    BY <2>2, <2>3, <2>4
<1>2. WireSound(wire', contact)
  BY <1>1, AnsweredSound DEF ReceiveAck
<1>3. ASSUME Close(p, c, "closing"), UNCHANGED <<timers, current, status>>,
             RowsSound(contact'), Grows(contact, contact')
      PROVE  IInv'
  <2>1. EndSound(end', contact) /\ PostedSound(posted', contact)
    BY <1>1, <1>3, CloseSound
  <2>2. EndSound(end', contact') /\ PostedSound(posted', contact') /\ WireSound(wire', contact')
    BY <1>2, <1>3, <2>1, SoundnessGrows
  <2> QED
    BY <1>1, <1>3, <2>2, StepSound
<1>4. CASE ~contact[p].verified \/ contact[p].blocked
  <2>1. Close(p, c, "closing") /\ UNCHANGED <<contact, timers, current, status>>
    BY <1>4 DEF ReceiveAck, onlineVars
  <2> QED
    BY <1>3, <2>1, SameRows
<1>5. CASE contact[p].verified /\ ~contact[p].blocked
  <2>1. CASE ack = "Added"
    <3>1. /\ contact' = WithState(p, "ACCEPTED") /\ timers' = Scheduled(p)
          /\ UNCHANGED <<end, posted, current, status>>
      BY <1>5, <2>1 DEF ReceiveAck, onlineVars
    <3>2. RowsSound(contact') /\ Grows(contact, contact')
      BY <1>1, <1>5, <3>1, WithStateSound DEF States
    <3>3. WireSound(wire', contact') /\ timers' \in [Peers -> 0..MaxTimers]
      BY <1>2, <3>1, <3>2, SoundnessGrows, ScheduledTimers
    <3> QED
      BY <1>1, <3>1, <3>2, <3>3, StepSound
  <2>2. CASE ack \in {"Pending", "Rejected"}
    <3> DEFINE st == IF ack = "Pending" THEN "WAITING_FOR_ACCEPTANCE" ELSE "REJECTED"
    <3>1. /\ contact' = WithState(p, st)
          /\ Close(p, c, "closing") /\ UNCHANGED <<timers, current, status>>
      BY <1>5, <2>2 DEF ReceiveAck, onlineVars
    <3>2. st \in States /\ st \notin {"ACCEPTED", "BLOCKED"}
      BY DEF States
    <3> HIDE DEF st
    <3>3. RowsSound(contact') /\ Grows(contact, contact')
      BY <3>1, <3>2, WithStateSound
    <3> QED
      BY <1>3, <3>1, <3>3
  <2>3. CASE ack = "Hello/Blocked"
    <3>1. /\ contact' = WithState(p, "BLOCKED") /\ DisconnectFromContact(p)
          /\ timers' = timers
      BY <1>5, <2>3 DEF ReceiveAck
    <3>2. RowsSound(contact') /\ Grows(contact, contact')
      BY <1>1, <3>1, WithStateSound DEF States
    <3>3. /\ EndSound(end', contact) /\ PostedSound(posted', contact)
          /\ OnlineSound(current', status', contact)
      BY <3>1, DisconnectEffect
    <3>4. /\ EndSound(end', contact') /\ PostedSound(posted', contact')
          /\ OnlineSound(current', status', contact') /\ WireSound(wire', contact')
      BY <1>2, <3>2, <3>3, SoundnessGrows
    <3> QED
      BY <1>1, <3>1, <3>2, <3>4, StepSound
  <2>4. CASE ack \notin {"Added", "Pending", "Rejected", "Hello/Blocked"}
    <3>1. UNCHANGED <<contact, end, posted, timers, current, status>>
      BY <1>5, <2>4 DEF ReceiveAck, onlineVars
    <3> QED
      BY <1>1, <1>2, <3>1, SameRows, StepSound
  <2> QED
    BY <2>1, <2>2, <2>3, <2>4
<1> QED
  BY <1>4, <1>5

\* The name of the other user arrives, or something else that is for contacts.
LEMMA ReceiveUserInfoSound ==
  ASSUME IInv, NEW p \in Peers, NEW c \in Peers, ReceiveUserInfo(p, c)
  PROVE  IInv'
<1>1. /\ wire[c][p] # <<>> /\ contact[c].known /\ contact[p].known
      /\ "UserInfo/Ack" \in Msgs
      /\ UNCHANGED <<contact, asks, timers, current, status, upsets>>
  BY ArrivesFromKnown DEF ReceiveUserInfo, Msgs, Acks, contactVars, onlineVars, IInv, EndSound
<1>2. WireSound(wire', contact)
  BY <1>1, AnsweredSound DEF ReceiveUserInfo
<1>3. /\ EndSound(end', contact) \/ end' = end
      /\ PostedSound(posted', contact) \/ posted' = posted
  BY <1>1, CloseSound DEF ReceiveUserInfo
<1> QED
  BY <1>1, <1>2, <1>3, SameRows, StepSound

\* The other end was closed.
LEMMA ReceiveEndSound ==
  ASSUME IInv, NEW p \in Peers, NEW c \in Peers, ReceiveEnd(p, c)
  PROVE  IInv'
<1>1. UNCHANGED <<contact, asks, posted, timers, upsets>>
  BY DEF ReceiveEnd, contactVars
<1>2. EndSound(end', contact)
  BY DEF ReceiveEnd, IInv, EndSound, EndStates
<1>3. WireSound(wire', contact)
  <2>1. <<>> \in Seq(MayArrive(contact, c, p))
    OBVIOUS
  <2> QED
    BY <2>1, WireUpdate DEF ReceiveEnd, IInv
<1>4. OnlineSound(current', status', contact)
  BY OnDisconnectedEffect DEF ReceiveEnd
<1> QED
  BY <1>1, <1>2, <1>3, <1>4, SameRows, StepSound

\* The timer after a contact came online.
LEMMA ProcessOnlineLaterSound ==
  ASSUME IInv, NEW p \in Peers, ProcessOnlineLater(p)
  PROVE  IInv'
<1>1. /\ timers' \in [Peers -> 0..MaxTimers]
      /\ UNCHANGED <<contact, asks, upsets>>
  BY BoundsAssumption DEF ProcessOnlineLater, IInv, CountersSound, contactVars
<1>2. RowsSound(contact') /\ Grows(contact, contact')
  BY <1>1, SameRows
<1>3. {"Hello/Blocked", "UserInfo"} \subseteq Msgs
  BY DEF Msgs, Acks
<1>4. CASE status[p] = "ONLINE" /\ contact[p].blocked /\ contact[p].notice
  <2>1. /\ wire' = Sent(p, current[p], "Hello/Blocked")
        /\ Close(p, current[p], "closing")
        /\ UNCHANGED <<current, status>>
    BY <1>4 DEF ProcessOnlineLater, Welcomes, onlineVars
  <2>2. WireSound(wire', contact) /\ EndSound(end', contact) /\ PostedSound(posted', contact)
    BY <1>3, <1>4, <2>1, SentSound, CloseSound, OnlineHasConnection
  <2> QED
    BY <1>1, <1>2, <2>1, <2>2, StepSound
<1>5. CASE status[p] = "ONLINE" /\ contact[p].blocked /\ ~contact[p].notice
  <2>1. DisconnectFromContact(p) /\ wire' = wire
    BY <1>5 DEF ProcessOnlineLater, Welcomes
  <2>2. /\ EndSound(end', contact) /\ PostedSound(posted', contact)
        /\ OnlineSound(current', status', contact)
    BY <2>1, DisconnectEffect
  <2> QED
    BY <1>1, <1>2, <2>1, <2>2, StepSound
<1>6. CASE status[p] = "ONLINE" /\ Welcomes(contact[p])
  <2>1. /\ wire' = Sent(p, current[p], "UserInfo")
        /\ UNCHANGED <<end, posted, current, status>>
    BY <1>6 DEF ProcessOnlineLater, Welcomes, onlineVars
  <2>2. WireSound(wire', contact)
    BY <1>3, <1>6, <2>1, SentSound, OnlineHasConnection
  <2> QED
    BY <1>1, <1>2, <2>1, <2>2, StepSound
<1>7. CASE /\ ~(status[p] = "ONLINE" /\ contact[p].blocked /\ contact[p].notice)
           /\ ~(status[p] = "ONLINE" /\ contact[p].blocked /\ ~contact[p].notice)
           /\ ~(status[p] = "ONLINE" /\ Welcomes(contact[p]))
  <2>1. UNCHANGED <<end, wire, posted, current, status>>
    BY <1>7 DEF ProcessOnlineLater, connVars, onlineVars
  <2> QED
    BY <1>1, <1>2, <2>1, StepSound
<1> QED
  BY <1>4, <1>5, <1>6, <1>7

\* A connection breaks: of what is on its way the first message may be left.
LEMMA BreakSound ==
  ASSUME IInv, NEW c \in Peers, Break(c)
  PROVE  IInv'
<1>1. /\ upsets' \in 0..MaxUpsets
      /\ UNCHANGED <<contact, asks, end, posted, timers, current, status>>
  BY OneMoreUpset DEF Break, contactVars, onlineVars
<1>2. contact[c].known
  BY DEF Break, IInv, EndSound
<1>3. PICK kept \in [Peers -> 0..1] :
        /\ \A p \in Peers : kept[p] <= Len(wire[c][p]) - (IF Ended(wire[c][p]) THEN 1 ELSE 0)
        /\ wire' = [wire EXCEPT ![c] =
             [p \in Peers |->
                IF end[c][p] = "none" /\ kept[p] = 0 THEN <<>>
                ELSE Append(SubSeq(wire[c][p], 1, kept[p]), "End")]]
  BY DEF Break
<1> DEFINE left == [p \in Peers |->
                      IF end[c][p] = "none" /\ kept[p] = 0 THEN <<>>
                      ELSE Append(SubSeq(wire[c][p], 1, kept[p]), "End")]
<1>4. ASSUME NEW p \in Peers
      PROVE  left[p] \in Seq(MayArrive(contact, c, p))
  <2>1. wire[c][p] \in Seq(MayArrive(contact, c, p)) /\ "End" \in MayArrive(contact, c, p)
    BY <1>2 DEF IInv, WireSound, MayArrive, Msgs
  <2>2. kept[p] \in 0..1 /\ kept[p] <= Len(wire[c][p])
    <3>1. Len(wire[c][p]) \in Nat /\ kept[p] \in 0..1
      BY <1>3, <2>1
    <3>2. kept[p] <= Len(wire[c][p]) - (IF Ended(wire[c][p]) THEN 1 ELSE 0)
      BY <1>3
    <3>3. CASE Ended(wire[c][p])
      BY <3>1, <3>2, <3>3
    <3>4. CASE ~Ended(wire[c][p])
      BY <3>1, <3>2, <3>4
    <3> QED
      BY <3>1, <3>3, <3>4
  <2>3. SubSeq(wire[c][p], 1, kept[p]) \in Seq(MayArrive(contact, c, p))
    BY <2>1, <2>2
  <2>4. Append(SubSeq(wire[c][p], 1, kept[p]), "End") \in Seq(MayArrive(contact, c, p))
    BY <2>1, <2>3
  <2>5. <<>> \in Seq(MayArrive(contact, c, p))
    OBVIOUS
  <2> QED
    BY <2>4, <2>5
<1>5. left \in [Peers -> Seq(Msgs)]
  <2>1. \A p \in Peers : MayArrive(contact, c, p) \subseteq Msgs
    BY DEF MayArrive
  <2>2. ASSUME NEW p \in Peers
        PROVE  left[p] \in Seq(Msgs)
    <3> HIDE DEF left
    <3>1. left[p] \in Seq(MayArrive(contact, c, p)) /\ MayArrive(contact, c, p) \subseteq Msgs
      BY <1>4, <2>1
    <3> QED
      BY <3>1
  <2> QED
    BY <2>2
<1>6. wire' = [wire EXCEPT ![c] = left]
  BY <1>3
<1> HIDE DEF left
<1>7. wire' \in [Peers -> [Peers -> Seq(Msgs)]]
  BY <1>5, <1>6 DEF IInv, WireSound
<1>8. \A d, p \in Peers : wire'[d][p] \in Seq(MayArrive(contact, d, p))
  BY <1>4, <1>6 DEF IInv, WireSound
<1>9. WireSound(wire', contact)
  BY <1>7, <1>8 DEF WireSound
<1> QED
  BY <1>1, <1>9, SameRows, StepSound

\* A program is started again: its rows are left, and the other one is told.
LEMMA RestartSound ==
  ASSUME IInv, NEW p \in Peers, Restart(p)
  PROVE  IInv'
<1>1. /\ upsets' \in 0..MaxUpsets
      /\ UNCHANGED <<contact, asks>>
      /\ timers' \in [Peers -> 0..MaxTimers]
  BY OneMoreUpset, BoundsAssumption DEF Restart, contactVars, IInv, CountersSound
<1>2. EndSound(end', contact)
  BY DEF Restart, IInv, EndSound, EndStates
<1>3. PostedSound(posted', contact)
  BY PostedTail DEF Restart, IInv
<1>4. OnlineSound(current', status', contact)
  BY DEF Restart, IInv, OnlineSound
<1>5. wire' = [c \in Peers |-> [q \in Peers |->
                 IF q = p THEN <<>>
                 ELSE IF Reaches(c, q) /\ ~Ended(wire[c][q]) THEN Append(wire[c][q], "End")
                 ELSE wire[c][q]]]
  BY DEF Restart
<1>6. ASSUME NEW c \in Peers, NEW q \in Peers
      PROVE  wire'[c][q] \in Seq(MayArrive(contact, c, q)) /\ wire'[c][q] \in Seq(Msgs)
  <2>1. wire[c][q] \in Seq(MayArrive(contact, c, q))
    BY DEF IInv, WireSound
  <2>2. Reaches(c, q) => "End" \in MayArrive(contact, c, q)
    BY ReachesKnown DEF MayArrive, Msgs
  <2>3. Reaches(c, q) => Append(wire[c][q], "End") \in Seq(MayArrive(contact, c, q))
    BY <2>1, <2>2
  <2>4. <<>> \in Seq(MayArrive(contact, c, q))
    OBVIOUS
  <2>5. wire'[c][q] \in Seq(MayArrive(contact, c, q))
    BY <1>5, <2>1, <2>3, <2>4
  <2>6. MayArrive(contact, c, q) \subseteq Msgs
    BY DEF MayArrive
  <2> QED
    BY <2>5, <2>6
<1>7. wire' \in [Peers -> [Peers -> Seq(Msgs)]]
  BY <1>5, <1>6
<1>8. WireSound(wire', contact)
  BY <1>6, <1>7 DEF WireSound
<1> QED
  BY <1>1, <1>2, <1>3, <1>4, <1>8, SameRows, StepSound

\* Nobody knows anybody at first.
LEMMA InitSound == Init => IInv
<1> SUFFICES ASSUME Init
             PROVE  IInv
  OBVIOUS
<1>1. \A p \in Peers : /\ contact[p] = NoContact /\ Other(p) \in Peers
                       /\ ~contact[p].known /\ ~contact[p].verified /\ ~contact[p].blocked
                       /\ contact[p].state = "PENDING"
  BY OtherPeer DEF Init, NoContact, NewContact
<1>2. RowsSound(contact)
  <2>1. NoContact \in ContactRows
    BY DEF NoContact, NewContact, ContactRows, States
  <2> QED
    BY <1>1, <2>1 DEF Init, RowsSound, RowSound
<1>3. AsksSound(asks, contact)
  BY DEF Init, AsksSound
<1>4. EndSound(end, contact)
  BY DEF Init, EndSound, EndStates
<1>5. WireSound(wire, contact)
  <2>1. <<>> \in Seq(Msgs) /\ \A c, p \in Peers : <<>> \in Seq(MayArrive(contact, c, p))
    OBVIOUS
  <2> QED
    BY <2>1 DEF Init, WireSound
<1>6. PostedSound(posted, contact)
  <2>1. <<>> \in Seq(Events) /\ \A p \in Peers : <<>> \in Seq(MayBePosted(contact, p))
    OBVIOUS
  <2> QED
    BY <2>1 DEF Init, PostedSound
<1>7. OnlineSound(current, status, contact)
  BY DEF Init, OnlineSound
<1>8. CountersSound(timers, upsets)
  BY BoundsAssumption DEF Init, CountersSound
<1> QED
  BY <1>2, <1>3, <1>4, <1>5, <1>6, <1>7, <1>8 DEF IInv

\* Every step preserves the invariant.
LEMMA NextSound == IInv /\ [Next]_vars => IInv'
<1> SUFFICES ASSUME IInv, [Next]_vars
             PROVE  IInv'
  OBVIOUS
<1>1. ASSUME NEW p \in Peers, Program(p)
      PROVE  IInv'
  <2>1. CASE HandlePosted(p)
    BY <2>1, SendAddMeLaterSound, SendAddmeAckLaterSound, CloseLaterSound DEF HandlePosted
  <2>2. ASSUME NEW c \in Peers, Serve(p, c)
        PROVE  IInv'
    BY <2>2, ReceiveHelloSound, ReceiveOllehSound, ReceiveAddMeSound, IgnoreStrangerSound,
       ReceiveAckSound, ReceiveUserInfoSound, ReceiveEndSound DEF Serve
  <2>3. CASE ProcessOnlineLater(p)
    BY <2>3, ProcessOnlineLaterSound
  <2> QED
    BY <1>1, <2>1, <2>2, <2>3 DEF Program
<1>2. ASSUME NEW p \in Peers, User(p)
      PROVE  IInv'
  BY <1>2, AddContactSound, AcceptContactSound, ConnectSound, DisconnectSound, BlockSound,
     UnblockSound, ToggleNoticeSound DEF User
<1>3. CASE UNCHANGED vars
  <2>1. UNCHANGED <<contact, asks, end, wire, posted, timers, current, status, upsets>>
    BY <1>3 DEF vars, contactVars, connVars, onlineVars
  <2> QED
    BY <2>1, SameRows, StepSound
<1> QED
  BY <1>1, <1>2, <1>3, BreakSound, RestartSound DEF Next

\* The invariant holds in every state of every behaviour.
LEMMA Invariance == Spec => []IInv
BY InitSound, NextSound, PTL DEF Spec

(***************************************************************************)
(* The theorems.                                                           *)
(***************************************************************************)

\* Every variable keeps its type, for any number of upsets and timers.
THEOREM TypeCorrectness == Spec => []TypeOK
<1>1. IInv => TypeOK
  BY DEF IInv, RowsSound, AsksSound, EndSound, WireSound, PostedSound, OnlineSound,
         CountersSound, TypeOK
<1> QED
  BY <1>1, Invariance, PTL

\* A contact is ACCEPTED only when this program has reached him at his address and he
\* has this user as his contact, however requests, acks, blocks and notifications of
\* the two were lost, repeated or crossed each other.
THEOREM AcceptanceIsMutual == Spec => []AcceptedByBoth
<1>1. IInv => AcceptedByBoth
  BY DEF IInv, RowsSound, RowSound, AcceptedByBoth
<1> QED
  BY <1>1, Invariance, PTL

\* A contact is shown online only after this program has reached him at his address.
THEOREM OnlineWasReached == Spec => []OnlineIsVerified
<1>1. IInv => OnlineIsVerified
  BY DEF IInv, OnlineSound, OnlineIsVerified
<1> QED
  BY <1>1, Invariance, PTL

(***************************************************************************)
(* What both ends believe.                                                 *)
(***************************************************************************)

Talks == {"AddMeLater", "AckLater"}
Shutting == {"closing", "muted"}

\* Which ends p has told to close.
NoneShut(p) == \A c \in Peers : end[c][p] \notin Shutting
OnlyShut(p, d) == \A c \in Peers : end[c][p] \in Shutting <=> c = d

\* The current connection of p is up.
Up(p) == current[p] \in Peers /\ end[current[p]][p] = "open"

\* What a program has posted to itself: to ask or to answer over the connection it
\* has, and to close the one end it told to close.
Posting(p) ==
  \/ posted[p] = <<>> /\ NoneShut(p)
  \/ \E d \in Peers : posted[p] = <<Event("CloseLater", d)>> /\ OnlyShut(p, d)
  \/ /\ Up(p)
     /\ \E k \in Talks : posted[p] = <<Event(k, current[p])>>
     /\ NoneShut(p)
  \/ /\ Up(p)
     /\ \E k \in Talks, d \in Peers :
          posted[p] = <<Event(k, current[p]), Event("CloseLater", d)>> /\ OnlyShut(p, d)

\* A contact hears of one connection, the current one, and is online when that is up.
Hears(p) ==
  /\ \A c \in Peers : Heard(p, c) <=> current[p] = c
  /\ current[p] = Nobody <=> status[p] = "DISCONNECTED"
  /\ \A c \in Peers :
       /\ end[c][p] = "calling" => c = p /\ status[p] = "CONNECTING"
       /\ end[c][p] \in {"open", "closing"} => status[p] = "ONLINE"
       /\ end[c][p] = "stranger" => c # p

\* Whoever has a connection up has not been told that he is blocked.
NotBlocked(p) == \A c \in Peers : end[c][p] = "open" => contact[p].state # "BLOCKED"

Own(p) == Posting(p) /\ Hears(p) /\ NotBlocked(p)

\* A sequence of messages: that there are none, the first, all, and the others.
Silent(s) == s = <<>>
First(s) == Head(s)
All(s) == ToSet(s)
Later(s) == ToSet(Tail(s))

\* A connection c called to q.  The Hello comes first and once; it is on its way to q
\* as long as q has no end, and c waits for its answer.
Greets(c, q, e, w) ==
  /\ e[c] = "none" => Silent(w[c])
  /\ "Hello" \notin All(w[c])
  /\ ~Silent(w[q]) => (First(w[q]) = "Hello" <=> e[q] = "none")
  /\ ~Silent(w[q]) => "Hello" \notin Later(w[q])
  /\ e[q] = "none" /\ ~Silent(w[q]) => e[c] # "open" /\ "Olleh" \notin All(w[c])

\* An end that is gone has told the other one, and an end that is to go has one to tell.
Parts(c, q, e, w) ==
  /\ e[q] # "none" \/ ~Silent(w[q]) => e[c] # "none" \/ "End" \in All(w[q])
  /\ e[c] # "none" /\ e[q] = "none" => "End" \in All(w[c]) \/ ~Silent(w[q])
  /\ "End" \in All(w[c]) => (e[q] = "none" /\ Silent(w[q])) \/ "End" \in All(w[q])
  /\ "End" \in All(w[q]) => e[c] = "none" \/ "End" \in All(w[c])

\* Who calls is being answered.
Calls(c, q, e, w) ==
  e[c] = "calling" =>
    /\ \/ e[q] = "none" /\ ~Silent(w[q])
       \/ "Olleh" \in All(w[c]) \/ "End" \in All(w[c])
       \/ e[q] \in Shutting
    /\ ~Silent(w[c]) => First(w[c]) \in {"Olleh", "End"}

JoinedIn(c, q, e, w) == Greets(c, q, e, w) /\ Parts(c, q, e, w) /\ Calls(c, q, e, w)

Joined(c) == JoinedIn(c, Other(c), end[c], wire[c])

Accepts(p) == contact[p].state = "ACCEPTED"
OnWay(c, r, m) == m \in All(wire[c][r])
Talking(p) == posted[p] # <<>> /\ Head(posted[p]).kind \in Talks

\* Both ends of the connection are of contacts, and nothing has ended it.
Together(c) ==
  \A r \in Peers : end[c][r] \in {"calling", "open"} /\ ~OnWay(c, r, "End")

\* Whom p accepted has accepted p, or will hear from p.
Confirms(c, p) ==
  Accepts(p) => \/ Accepts(Other(p))
                \/ timers[p] > 0
                \/ OnWay(c, Other(p), "UserInfo") \/ OnWay(c, Other(p), "Added")

\* Who waits for an answer has asked, or is about to, or has it on its way.
Awaits(c, p) ==
  contact[p].state \in Unanswered =>
    Talking(p) \/ OnWay(c, Other(p), "AddMe") \/ OnWay(c, p, "Added")

\* Whom p accepted and blocks will be told, or sends what p closes on.
Tells(c, p) ==
  Accepts(p) /\ contact[p].blocked =>
    \/ timers[p] > 0 \/ OnWay(c, Other(p), "Added")
    \/ /\ end[c][Other(p)] = "open" /\ Accepts(Other(p))
       /\ timers[Other(p)] > 0 \/ OnWay(c, p, "UserInfo")

Settles(c, p) ==
  Together(c) /\ end[c][p] = "open" => Confirms(c, p) /\ Awaits(c, p) /\ Tells(c, p)

\* The inductive invariant: of a connection that is up at both ends, with nothing that
\* ends it on its way, something that settles the matter is.
AInv ==
  \A p \in Peers : Own(p) /\ Joined(p) /\ \A c \in Peers : Settles(c, p)

(***************************************************************************)
(* One connection.                                                         *)
(***************************************************************************)

Lines == [Peers -> Seq(Msgs)]
Ends == [Peers -> EndStates]

\* A message is taken from what is on its way to r, and one is put there.
Take(w, r) == [w EXCEPT ![r] = Tail(@)]
Put(w, r, m) == [w EXCEPT ![r] = Append(@, m)]

\* What is on the way after one more message.
LEMMA PutParts ==
  ASSUME NEW w \in Lines, NEW r \in Peers, NEW m \in Msgs
  PROVE  /\ Put(w, r, m) \in Lines
         /\ \A o \in Peers : o # r => Put(w, r, m)[o] = w[o]
         /\ ~Silent(Put(w, r, m)[r])
         /\ \A x : x \in All(Put(w, r, m)[r]) <=> x \in All(w[r]) \/ x = m
         /\ Silent(w[r]) => First(Put(w, r, m)[r]) = m
         /\ ~Silent(w[r]) => First(Put(w, r, m)[r]) = First(w[r])
         /\ \A x : x \in Later(Put(w, r, m)[r]) => ~Silent(w[r]) /\ (x \in Later(w[r]) \/ x = m)
<1> DEFINE s == w[r]
           t == Append(s, m)
<1>1. s \in Seq(Msgs) /\ t \in Seq(Msgs) /\ t # <<>>
  BY DEF Lines
<1>2. ToSet(t) = ToSet(s) \cup {m}
  BY <1>1, ToSetAppend
<1>3. ASSUME s = <<>>
      PROVE  Head(t) = m /\ ToSet(Tail(t)) = {}
  <2>1. t = <<m>>
    BY <1>3
  <2>2. Head(t) = m /\ Tail(t) = <<>>
    BY <2>1
  <2> QED
    BY <2>2, ToSetEmpty
<1>4. ASSUME s # <<>>
      PROVE  Head(t) = Head(s) /\ ToSet(Tail(t)) = ToSet(Tail(s)) \cup {m}
  <2>1. Len(s) \in Nat /\ Len(s) > 0
    BY <1>1, <1>4
  <2>2. Tail(s) \in Seq(Msgs) /\ Head(t) = Head(s)
    BY <1>1, <1>4, <2>1
  <2>3. Tail(t) = Append(Tail(s), m)
    BY <1>1, <2>1
  <2>4. PICK u \in Seq(Msgs) : u = Tail(s)
    BY <2>2
  <2>5. ToSet(Append(u, m)) = ToSet(u) \cup {m}
    BY ToSetAppend
  <2> QED
    BY <2>2, <2>3, <2>4, <2>5
<1>5. Put(w, r, m) \in Lines
  BY <1>1 DEF Lines, Put
<1>6. Put(w, r, m)[r] = t /\ \A o \in Peers : o # r => Put(w, r, m)[o] = w[o]
  BY DEF Lines, Put
<1> HIDE DEF s, t
<1>7. /\ ~Silent(t)
      /\ \A x : x \in All(t) <=> x \in All(s) \/ x = m
      /\ Silent(s) => First(t) = m
      /\ ~Silent(s) => First(t) = First(s)
      /\ \A x : x \in Later(t) => ~Silent(s) /\ (x \in Later(s) \/ x = m)
  BY <1>1, <1>2, <1>3, <1>4 DEF Silent, All, First, Later
<1> QED
  BY <1>5, <1>6, <1>7 DEF s

\* What is on the way after the first message has been read.
LEMMA TakeParts ==
  ASSUME NEW w \in Lines, NEW r \in Peers, ~Silent(w[r])
  PROVE  /\ Take(w, r) \in Lines
         /\ \A o \in Peers : o # r => Take(w, r)[o] = w[o]
         /\ First(w[r]) \in Msgs
         /\ \A x : x \in All(w[r]) <=> x = First(w[r]) \/ x \in Later(w[r])
         /\ \A x : x \in All(Take(w, r)[r]) <=> x \in Later(w[r])
         /\ ~Silent(Take(w, r)[r]) =>
              /\ First(Take(w, r)[r]) \in Later(w[r])
              /\ \A x : x \in Later(Take(w, r)[r]) => x \in Later(w[r])
<1> DEFINE s == w[r]
           t == Tail(s)
<1>1. s \in Seq(Msgs) /\ s # <<>>
  BY DEF Lines, Silent
<1>2. Head(s) \in Msgs /\ t \in Seq(Msgs) /\ ToSet(s) = {Head(s)} \cup ToSet(t)
  BY <1>1, ToSetHeadTail
<1>3. ASSUME t # <<>>
      PROVE  Head(t) \in ToSet(t) /\ ToSet(Tail(t)) \subseteq ToSet(t)
  BY <1>2, <1>3, ToSetHeadTail
<1>4. Take(w, r) \in Lines
  BY <1>2 DEF Lines, Take
<1>5. Take(w, r)[r] = t /\ \A o \in Peers : o # r => Take(w, r)[o] = w[o]
  BY DEF Lines, Take
<1>6. /\ First(s) = Head(s) /\ All(s) = ToSet(s) /\ Later(s) = ToSet(t)
      /\ All(t) = ToSet(t) /\ First(t) = Head(t) /\ Later(t) = ToSet(Tail(t))
      /\ Silent(t) <=> t = <<>>
  BY DEF First, All, Later, Silent
<1> HIDE DEF s, t
<1>7. /\ First(s) \in Msgs
      /\ \A x : x \in All(s) <=> x = First(s) \/ x \in Later(s)
      /\ \A x : x \in All(t) <=> x \in Later(s)
      /\ ~Silent(t) => First(t) \in Later(s) /\ \A x : x \in Later(t) => x \in Later(s)
  BY <1>2, <1>3, <1>6
<1> QED
  BY <1>4, <1>5, <1>7 DEF s

\* Nothing is in an empty sequence.
LEMMA SilentParts ==
  ASSUME NEW w \in Lines, NEW r \in Peers
  PROVE  /\ Silent(w[r]) => \A x : x \notin All(w[r])
         /\ ~Silent(w[r]) => First(w[r]) \in All(w[r])
<1>1. w[r] \in Seq(Msgs)
  BY DEF Lines
<1> QED
  BY <1>1, ToSetEmpty, ToSetHeadTail DEF Silent, All, First

\* One end sends, after the greeting.
LEMMA JoinedSend ==
  ASSUME NEW c \in Peers, NEW q \in Peers, q = Other(c),
         NEW r \in Peers, NEW o \in Peers, o = Other(r), NEW e \in Ends, NEW w \in Lines,
         JoinedIn(c, q, e, w), NEW m \in Msgs, m \notin {"Hello", "Olleh", "End"},
         e[r] # "none", e[r] \notin Shutting,
         e[o] # "none" \/ ~Silent(w[o])
  PROVE  JoinedIn(c, q, e, Put(w, o, m))
<1>1. q # c /\ r # o
  BY OtherPeer
<1>2. (r = c /\ o = q) \/ (r = q /\ o = c)
  BY OtherPeer
<1> DEFINE v == Put(w, o, m)
<1>3. v[r] = w[r] /\ ~Silent(v[o])
  BY <1>1, PutParts
<1>4. \A x : x \in All(v[o]) <=> x \in All(w[o]) \/ x = m
  BY PutParts
<1>5. Silent(w[o]) => First(v[o]) = m
  BY PutParts
<1>6. ~Silent(w[o]) => First(v[o]) = First(w[o])
  BY PutParts
<1>7. \A x : x \in Later(v[o]) => ~Silent(w[o]) /\ (x \in Later(w[o]) \/ x = m)
  BY PutParts
<1>8. Silent(w[o]) => \A x : x \notin All(w[o])
  BY SilentParts
<1> HIDE DEF v
<1>9. CASE r = c /\ o = q
  <2>1. Greets(c, q, e, v)
    BY <1>3, <1>4, <1>5, <1>6, <1>7, <1>9 DEF JoinedIn, Greets
  <2>2. Parts(c, q, e, v)
    BY <1>3, <1>4, <1>8, <1>9 DEF JoinedIn, Parts
  <2>3. Calls(c, q, e, v)
    BY <1>3, <1>9 DEF JoinedIn, Calls
  <2> QED
    BY <2>1, <2>2, <2>3 DEF JoinedIn, v
<1>10. CASE r = q /\ o = c
  <2>1. Greets(c, q, e, v)
    BY <1>3, <1>4, <1>8, <1>10 DEF JoinedIn, Greets
  <2>2. Parts(c, q, e, v)
    BY <1>3, <1>4, <1>8, <1>10 DEF JoinedIn, Parts
  <2>3. Calls(c, q, e, v)
    BY <1>3, <1>4, <1>6, <1>8, <1>10 DEF JoinedIn, Calls
  <2> QED
    BY <2>1, <2>2, <2>3 DEF JoinedIn, v
<1> QED
  BY <1>2, <1>9, <1>10

\* One end reads what is no part of the greeting and not the end.
LEMMA JoinedRead ==
  ASSUME NEW c \in Peers, NEW q \in Peers, q = Other(c),
         NEW r \in Peers, NEW e \in Ends, NEW w \in Lines, JoinedIn(c, q, e, w),
         ~Silent(w[r]), First(w[r]) \notin {"Hello", "Olleh", "End"}
  PROVE  JoinedIn(c, q, e, Take(w, r)) /\ e[r] # "none" /\ (r = c => e[r] # "calling")
<1>1. PICK o \in Peers : r # o /\ q # c /\ ((r = c /\ o = q) \/ (r = q /\ o = c))
  BY OtherPeer
<1> DEFINE v == Take(w, r)
<1>2. v[o] = w[o]
  BY <1>1, TakeParts
<1>3. \A x : x \in All(w[r]) <=> x = First(w[r]) \/ x \in Later(w[r])
  BY TakeParts
<1>4. \A x : x \in All(v[r]) <=> x \in Later(w[r])
  BY TakeParts
<1>5. ~Silent(v[r]) => First(v[r]) \in Later(w[r]) /\ \A x : x \in Later(v[r]) => x \in Later(w[r])
  BY TakeParts
<1> HIDE DEF v
<1>6. CASE r = c /\ o = q
  <2>0. e[r] \notin {"none", "calling"}
    BY <1>6 DEF JoinedIn, Greets, Calls
  <2>1. Greets(c, q, e, v)
    BY <1>2, <1>3, <1>4, <1>6, <2>0 DEF JoinedIn, Greets
  <2>2. Parts(c, q, e, v)
    BY <1>2, <1>3, <1>4, <1>6, <2>0 DEF JoinedIn, Parts
  <2>3. Calls(c, q, e, v)
    BY <1>6, <2>0 DEF JoinedIn, Calls
  <2> QED
    BY <2>0, <2>1, <2>2, <2>3 DEF JoinedIn, v
<1>7. CASE r = q /\ o = c
  <2>0. e[r] # "none"
    BY <1>7 DEF JoinedIn, Greets
  <2>1. Greets(c, q, e, v)
    BY <1>2, <1>3, <1>4, <1>5, <1>7, <2>0 DEF JoinedIn, Greets
  <2>2. Parts(c, q, e, v)
    BY <1>2, <1>3, <1>4, <1>7, <2>0 DEF JoinedIn, Parts
  <2>3. Calls(c, q, e, v)
    BY <1>2, <1>7, <2>0 DEF JoinedIn, Calls
  <2> QED
    BY <1>1, <1>7, <2>0, <2>1, <2>2, <2>3 DEF JoinedIn, v
<1> QED
  BY <1>1, <1>6, <1>7

\* One end is told to close.
LEMMA JoinedShut ==
  ASSUME NEW c \in Peers, NEW q \in Peers, q = Other(c),
         NEW r \in Peers, NEW e, NEW e2, NEW w, JoinedIn(c, q, e, w),
         e[r] # "none", e2[r] \in Shutting, \A o \in Peers : o # r => e2[o] = e[o]
  PROVE  JoinedIn(c, q, e2, w)
<1>1. q # c /\ (r = c \/ r = q)
  BY OtherPeer
<1>2. e2[r] \notin {"none", "calling", "open"}
  BY DEF Shutting
<1>3. (e2[c] = "none" <=> e[c] = "none") /\ (e2[q] = "none" <=> e[q] = "none")
  BY <1>1, <1>2
<1>4. e2[c] = "open" => e[c] = "open"
  BY <1>1, <1>2
<1>5. e2[c] = "calling" => e[c] = "calling" /\ (e2[q] \in Shutting \/ e2[q] = e[q])
  BY <1>1, <1>2
<1>6. Greets(c, q, e2, w)
  BY <1>3, <1>4 DEF JoinedIn, Greets
<1>7. Parts(c, q, e2, w)
  BY <1>3 DEF JoinedIn, Parts
<1>8. Calls(c, q, e2, w)
  BY <1>3, <1>5 DEF JoinedIn, Calls
<1> QED
  BY <1>6, <1>7, <1>8 DEF JoinedIn

\* The caller reads the answer to its Hello.
LEMMA JoinedOlleh ==
  ASSUME NEW c \in Peers, NEW q \in Peers, q = Other(c),
         NEW e \in Ends, NEW e2, NEW w \in Lines, JoinedIn(c, q, e, w),
         ~Silent(w[c]), First(w[c]) = "Olleh",
         e2[c] = "open", e2[q] = e[q]
  PROVE  JoinedIn(c, q, e2, Take(w, c)) /\ e[c] # "none" /\ (e[q] = "none" => Silent(w[q]))
<1>1. q # c
  BY OtherPeer
<1> DEFINE v == Take(w, c)
<1>2. v[q] = w[q]
  BY <1>1, TakeParts
<1>3. \A x : x \in All(w[c]) <=> x = First(w[c]) \/ x \in Later(w[c])
  BY TakeParts
<1>4. \A x : x \in All(v[c]) <=> x \in Later(w[c])
  BY TakeParts
<1> HIDE DEF v
<1>5. e[c] # "none"
  BY DEF JoinedIn, Greets
<1>6. e[q] = "none" => Silent(w[q])
  BY <1>3 DEF JoinedIn, Greets
<1>7. Greets(c, q, e2, v)
  BY <1>2, <1>3, <1>4, <1>6 DEF JoinedIn, Greets
<1>8. Parts(c, q, e2, v)
  BY <1>2, <1>3, <1>4, <1>5 DEF JoinedIn, Parts
<1>9. Calls(c, q, e2, v)
  BY DEF Calls
<1> QED
  BY <1>5, <1>6, <1>7, <1>8, <1>9 DEF JoinedIn, v

\* Whom c called reads the Hello, and closes, or answers if there is anybody to answer.
LEMMA JoinedHello ==
  ASSUME NEW c \in Peers, NEW q \in Peers, q = Other(c),
         NEW e \in Ends, NEW e2, NEW w \in Lines, JoinedIn(c, q, e, w),
         NEW r \in Peers, ~Silent(w[r]), First(w[r]) = "Hello",
         e2[c] = e[c], e2[q] # "none",
         NEW v, \/ v = Take(w, r) /\ (e2[q] \in Shutting \/ e[c] = "none")
                \/ v = Put(Take(w, r), c, "Olleh") /\ e[c] # "none"
  PROVE  JoinedIn(c, q, e2, v) /\ r = q /\ e[q] = "none" /\ e[c] # "open"
<1>1. q # c /\ (r = c \/ r = q)
  BY OtherPeer
<1>2. r = q
  <2>1. First(w[r]) \in All(w[r])
    BY SilentParts
  <2> QED
    BY <1>1, <2>1 DEF JoinedIn, Greets
<1>3. e[q] = "none" /\ e[c] # "open" /\ "Hello" \notin Later(w[q])
  BY <1>2 DEF JoinedIn, Greets
<1> DEFINE u == Take(w, q)
<1>4. u \in Lines /\ u[c] = w[c]
  BY <1>1, <1>2, TakeParts
<1>5. \A x : x \in All(w[q]) <=> x = First(w[q]) \/ x \in Later(w[q])
  BY <1>2, TakeParts
<1>6. \A x : x \in All(u[q]) <=> x \in Later(w[q])
  BY <1>2, TakeParts
<1>7. ~Silent(u[q]) => First(u[q]) \in Later(w[q]) /\ \A x : x \in Later(u[q]) => x \in Later(w[q])
  BY <1>2, TakeParts
<1> HIDE DEF u
<1>8. v[q] = u[q]
  BY <1>1, <1>2, <1>4, PutParts DEF u, Msgs
<1>9. CASE v = u /\ (e2[q] \in Shutting \/ e[c] = "none")
  <2>1. v[c] = w[c]
    BY <1>4, <1>9
  <2>2. Greets(c, q, e2, v)
    BY <1>2, <1>3, <1>5, <1>6, <1>7, <1>8, <2>1 DEF JoinedIn, Greets
  <2>3. Parts(c, q, e2, v)
    BY <1>2, <1>3, <1>5, <1>6, <1>8, <2>1 DEF JoinedIn, Parts
  <2>4. Calls(c, q, e2, v)
    BY <1>9, <2>1 DEF JoinedIn, Calls
  <2> QED
    BY <1>2, <1>3, <2>2, <2>3, <2>4 DEF JoinedIn
<1>10. CASE v = Put(u, c, "Olleh") /\ e[c] # "none"
  <2>0. "Olleh" \in Msgs
    BY DEF Msgs
  <2>1. \A x : x \in All(v[c]) <=> x \in All(w[c]) \/ x = "Olleh"
    BY <1>4, <1>10, <2>0, PutParts
  <2>2. ~Silent(w[c]) => First(v[c]) = First(w[c])
    BY <1>4, <1>10, <2>0, PutParts
  <2>3. Silent(w[c]) => First(v[c]) = "Olleh"
    BY <1>4, <1>10, <2>0, PutParts
  <2>4. Greets(c, q, e2, v)
    BY <1>2, <1>3, <1>5, <1>6, <1>7, <1>8, <1>10, <2>1 DEF JoinedIn, Greets
  <2>5. Parts(c, q, e2, v)
    BY <1>2, <1>3, <1>5, <1>6, <1>8, <1>10, <2>1 DEF JoinedIn, Parts
  <2>6. Calls(c, q, e2, v)
    BY <2>1, <2>2, <2>3 DEF JoinedIn, Calls
  <2> QED
    BY <1>2, <1>3, <2>4, <2>5, <2>6 DEF JoinedIn
<1> QED
  BY <1>2, <1>9, <1>10 DEF u

\* An end is gone, with what was on its way to it, and the other one is told unless it
\* has been told, or there is none.
LEMMA JoinedGone ==
  ASSUME NEW c \in Peers, NEW q \in Peers, q = Other(c),
         NEW r \in Peers, NEW o \in Peers, o = Other(r),
         NEW e \in Ends, NEW e2, NEW w \in Lines, NEW v, JoinedIn(c, q, e, w),
         e2[r] = "none", e2[o] = e[o], Silent(v[r]), v[r] = <<>>,
         \/ v[o] = w[o] /\ ("End" \in All(w[o]) \/ "End" \in All(w[r]) \/ (e[o] = "none" /\ Silent(w[o])))
         \/ v[o] = Put(w, o, "End")[o] /\ (e[o] # "none" \/ ~Silent(w[o]))
  PROVE  JoinedIn(c, q, e2, v)
<1>1. q # c /\ r # o /\ ((r = c /\ o = q) \/ (r = q /\ o = c))
  BY OtherPeer
<1>2. \A x : x \notin All(v[r])
  BY ToSetEmpty DEF All
<1>3. (e[o] = "none" /\ Silent(w[o])) => Silent(v[o])
  OBVIOUS
<1>4. e[o] # "none" \/ ~Silent(w[o]) => "End" \in All(v[o])
  <2>1. "End" \in All(w[r]) => "End" \in All(w[o]) \/ (e[o] = "none" /\ Silent(w[o]))
    <3>1. CASE r = c /\ o = q
      BY <3>1 DEF JoinedIn, Parts
    <3>2. CASE r = q /\ o = c
      <4>1. "End" \in All(w[q]) => e[c] = "none" \/ "End" \in All(w[c])
        BY DEF JoinedIn, Parts
      <4>2. e[c] = "none" => Silent(w[c])
        BY DEF JoinedIn, Greets
      <4> QED
        BY <3>2, <4>1, <4>2
    <3> QED
      BY <1>1, <3>1, <3>2
  <2>2. "End" \in All(Put(w, o, "End")[o])
    BY PutParts DEF Msgs
  <2> QED
    BY <2>1, <2>2
<1>0. PICK u : u = Put(w, o, "End")[o]
  OBVIOUS
<1>11. "End" \in Msgs
  BY DEF Msgs
<1>12. /\ \A x : x \in All(u) <=> x \in All(w[o]) \/ x = "End"
       /\ ~Silent(u)
  BY <1>0, <1>11, PutParts
<1>13. \A x : x \in Later(u) => ~Silent(w[o]) /\ (x \in Later(w[o]) \/ x = "End")
  BY <1>0, <1>11, PutParts
<1>14. /\ Silent(w[o]) => First(u) = "End"
       /\ ~Silent(w[o]) => First(u) = First(w[o])
  BY <1>0, <1>11, PutParts
<1>15. v[o] = w[o] \/ v[o] = u
  BY <1>0
<1>5. \A x : x \in All(v[o]) => x = "End" \/ x \in All(w[o])
  BY <1>12, <1>15
<1>6. \A x : x \in Later(v[o]) => x = "End" \/ (x \in Later(w[o]) /\ ~Silent(w[o])) \/ v[o] = w[o]
  BY <1>13, <1>15
<1>7. ~Silent(w[o]) => ~Silent(v[o]) /\ First(v[o]) = First(w[o])
  BY <1>12, <1>14, <1>15
<1>8. Silent(w[o]) /\ ~Silent(v[o]) => First(v[o]) = "End"
  BY <1>14, <1>15
<1>9. CASE r = c /\ o = q
  <2>1. Greets(c, q, e2, v)
    BY <1>2, <1>3, <1>5, <1>6, <1>7, <1>8, <1>9 DEF JoinedIn, Greets
  <2>2. Parts(c, q, e2, v)
    BY <1>2, <1>3, <1>4, <1>9 DEF Parts
  <2>3. Calls(c, q, e2, v)
    BY <1>9 DEF Calls
  <2> QED
    BY <2>1, <2>2, <2>3 DEF JoinedIn
<1>10. CASE r = q /\ o = c
  <2>1. Greets(c, q, e2, v)
    BY <1>2, <1>3, <1>5, <1>10 DEF JoinedIn, Greets
  <2>2. Parts(c, q, e2, v)
    BY <1>2, <1>4, <1>10 DEF Parts
  <2>3. Calls(c, q, e2, v)
    BY <1>4, <1>7, <1>8, <1>10 DEF JoinedIn, Calls
  <2> QED
    BY <2>1, <2>2, <2>3 DEF JoinedIn
<1> QED
  BY <1>1, <1>9, <1>10

\* A call, when nothing is left of the last one.
LEMMA JoinedCall ==
  ASSUME NEW c \in Peers, NEW q \in Peers, q = Other(c),
         NEW e, NEW v, e[c] = "calling", e[q] = "none", v[c] = <<>>, v[q] = <<"Hello">>
  PROVE  JoinedIn(c, q, e, v)
<1>1. Silent(v[c]) /\ ~Silent(v[q]) /\ First(v[q]) = "Hello"
  BY DEF Silent, First
<1>2. \A x : x \notin All(v[c])
  BY ToSetEmpty DEF All
<1>3. \A x : x \notin Later(v[q])
  <2>1. Tail(v[q]) = <<>>
    OBVIOUS
  <2> QED
    BY <2>1, ToSetEmpty DEF Later
<1>4. "End" \notin All(v[q])
  <2>1. <<"Hello">> \in Seq({"Hello"})
    OBVIOUS
  <2>2. ToSet(<<"Hello">>) \subseteq {"Hello"}
    BY <2>1, InToSet
  <2> QED
    BY <2>2 DEF All
<1>5. Greets(c, q, e, v)
  BY <1>1, <1>2, <1>3 DEF Greets
<1>6. Parts(c, q, e, v)
  BY <1>1, <1>2, <1>4 DEF Parts
<1>7. Calls(c, q, e, v)
  BY <1>1 DEF Calls
<1> QED
  BY <1>5, <1>6, <1>7 DEF JoinedIn

\* A connection breaks: each end has at most the first message left to read, and the end.
LEMMA JoinedBreak ==
  ASSUME NEW c \in Peers, NEW q \in Peers, q = Other(c),
         NEW e \in Ends, NEW w \in Lines, NEW v, JoinedIn(c, q, e, w),
         \A r \in Peers :
           \/ e[r] = "none" /\ v[r] = <<>>
           \/ e[r] # "none" /\ v[r] = <<"End">>
           \/ w[r] # <<>> /\ v[r] = <<Head(w[r]), "End">>
  PROVE  JoinedIn(c, q, e, v)
<1>1. ASSUME NEW r \in Peers
      PROVE  /\ Silent(v[r]) => e[r] = "none"
             /\ ~Silent(v[r]) => "End" \in All(v[r])
             /\ \A x : x \in All(v[r]) => x = "End" \/ x \in All(w[r])
             /\ \A x : x \in Later(v[r]) => x = "End"
             /\ ~Silent(v[r]) => \/ First(v[r]) = "End" /\ e[r] # "none"
                                 \/ First(v[r]) = First(w[r]) /\ ~Silent(w[r])
  <2>1. CASE e[r] = "none" /\ v[r] = <<>>
    <3>1. Tail(v[r]) = <<>>
      BY <2>1
    <3> QED
      BY <2>1, <3>1, ToSetEmpty DEF Silent, All, Later
  <2>2. CASE e[r] # "none" /\ v[r] = <<"End">>
    <3>1. ToSet(v[r]) = {"End"}
      BY <2>2 DEF ToSet
    <3>2. Tail(v[r]) = <<>> /\ Head(v[r]) = "End" /\ v[r] # <<>>
      BY <2>2
    <3> QED
      BY <2>2, <3>1, <3>2, ToSetEmpty DEF Silent, All, Later, First
  <2>3. CASE w[r] # <<>> /\ v[r] = <<Head(w[r]), "End">>
    <3>1. Tail(v[r]) = <<"End">> /\ Head(v[r]) = Head(w[r]) /\ v[r] # <<>>
      BY <2>3
    <3>2. ToSet(<<"End">>) = {"End"}
      BY DEF ToSet
    <3>3. \A x : x \in ToSet(v[r]) <=> x = "End" \/ x = Head(w[r])
      BY <2>3 DEF ToSet
    <3>4. Head(w[r]) \in All(w[r])
      BY <2>3, SilentParts DEF Silent, First
    <3> QED
      BY <2>3, <3>1, <3>2, <3>3, <3>4 DEF Silent, All, Later, First
  <2> QED
    BY <2>1, <2>2, <2>3
<1>2. q # c
  BY OtherPeer
<1>3. /\ ~Silent(w[q]) => First(w[q]) \in All(w[q])
      /\ ~Silent(w[c]) => First(w[c]) \in All(w[c])
  BY SilentParts
<1>4. Greets(c, q, e, v)
  <2>1. e[c] = "none" => Silent(v[c])
    BY <1>1 DEF JoinedIn, Greets
  <2>2. "Hello" \notin All(v[c]) /\ "Hello" \notin Later(v[q])
    BY <1>1 DEF JoinedIn, Greets
  <2>3. ~Silent(v[q]) => (First(v[q]) = "Hello" <=> e[q] = "none")
    BY <1>1 DEF JoinedIn, Greets
  <2>4. e[q] = "none" /\ ~Silent(v[q]) => ~Silent(w[q])
    BY <1>1
  <2>5. e[q] = "none" /\ ~Silent(v[q]) => e[c] # "open" /\ "Olleh" \notin All(v[c])
    BY <1>1, <2>4 DEF JoinedIn, Greets
  <2> QED
    BY <2>1, <2>2, <2>3, <2>5 DEF Greets
<1>5. Parts(c, q, e, v)
  <2>1. e[c] = "none" => Silent(v[c])
    BY <1>4 DEF Greets
  <2>2. e[q] # "none" => "End" \in All(v[q])
    BY <1>1
  <2>3. e[c] # "none" => "End" \in All(v[c])
    BY <1>1
  <2>4. \A x : Silent(v[c]) => x \notin All(v[c])
    BY ToSetEmpty DEF Silent, All
  <2>5. ~Silent(v[q]) => "End" \in All(v[q])
    BY <1>1
  <2> QED
    BY <2>1, <2>2, <2>3, <2>4, <2>5 DEF Parts
<1>6. Calls(c, q, e, v)
  <2>1. e[c] = "calling" => "End" \in All(v[c])
    BY <1>1
  <2>2. e[c] = "calling" /\ ~Silent(v[c]) => First(v[c]) \in {"Olleh", "End"}
    BY <1>1 DEF JoinedIn, Calls
  <2> QED
    BY <2>1, <2>2 DEF Calls
<1> QED
  BY <1>4, <1>5, <1>6 DEF JoinedIn

(***************************************************************************)
(* One program.                                                            *)
(***************************************************************************)

\* A program with nothing to do has told no end to close.
LEMMA IdleShut ==
  ASSUME NEW p \in Peers, Own(p), Idle(p)
  PROVE  NoneShut(p) /\ Hears(p) /\ NotBlocked(p)
<1>1. posted[p] = <<>>
  BY DEF Idle
<1>2. /\ \A d, k : posted[p] # <<Event(k, d)>>
      /\ \A d, k, c, l : posted[p] # <<Event(k, d), Event(l, c)>>
  BY <1>1
<1> QED
  BY <1>2 DEF Own, Posting

\* An idle program tells one end to close: the current one, of which it hears until it
\* is closed or no more, or one it does not hear of.
LEMMA OwnClose ==
  ASSUME NEW p \in Peers, NEW d \in Peers, Own(p), Idle(p), NEW as,
         posted'[p] = <<Event("CloseLater", d)>>,
         \A c \in Peers : end'[c][p] = IF c = d THEN as ELSE end[c][p],
         \/ /\ as = "closing" /\ status[p] = "ONLINE" /\ current[p] = d
            /\ current'[p] = current[p] /\ status'[p] = status[p]
         \/ /\ as = "muted" /\ current[p] = d
            /\ current'[p] = Nobody /\ status'[p] = "DISCONNECTED"
         \/ /\ as = "muted" /\ current[p] # d
            /\ current'[p] = current[p] /\ status'[p] = status[p],
         \/ contact'[p].state = contact[p].state
         \/ contact'[p].state # "BLOCKED"
         \/ current'[p] = Nobody
  PROVE  Own(p)'
<1>1. NoneShut(p) /\ Hears(p) /\ NotBlocked(p)
  BY IdleShut
<1>2. as \in Shutting
  BY DEF Shutting
<1>3. OnlyShut(p, d)'
  BY <1>1, <1>2 DEF NoneShut, OnlyShut
<1>4. Posting(p)'
  BY <1>3 DEF Posting
<1>5. \A c \in Peers : Heard(p, c)' <=> current'[p] = c
  BY ZenonT(40), <1>1, NobodyAssumption DEF Hears, Heard
<1>6. current'[p] = Nobody <=> status'[p] = "DISCONNECTED"
  BY <1>1, NobodyAssumption DEF Hears
<1>7. \A c \in Peers :
        /\ end'[c][p] = "calling" => c = p /\ status'[p] = "CONNECTING"
        /\ end'[c][p] \in {"open", "closing"} => status'[p] = "ONLINE"
        /\ end'[c][p] = "stranger" => c # p
  <2>1. ASSUME NEW c \in Peers, c # d
        PROVE  end'[c][p] \notin {"calling", "open", "closing"} \/ status'[p] = status[p]
    BY <1>1, <2>1 DEF Hears, Heard
  <2> QED
    BY <1>1, <2>1 DEF Hears
<1>8. NotBlocked(p)'
  <2>1. \A c \in Peers : end'[c][p] = "open" => end[c][p] = "open" /\ current'[p] = c
    BY <1>5 DEF Heard
  <2> QED
    BY <1>1, <2>1, NobodyAssumption DEF NotBlocked
<1> QED
  BY <1>4, <1>5, <1>6, <1>7, <1>8 DEF Own, Hears

\* An idle program calls, and drops the connection it has.
LEMMA OwnCall ==
  ASSUME NEW p \in Peers, Own(p), Idle(p), current[p] \in Peers \cup {Nobody},
         current[p] # p,
         \A c \in Peers : end'[c][p] = IF c = p THEN "calling"
                                       ELSE IF c = current[p] THEN "muted" ELSE end[c][p],
         posted'[p] = IF current[p] = Nobody THEN <<>>
                      ELSE <<Event("CloseLater", current[p])>>,
         current'[p] = p, status'[p] = "CONNECTING"
  PROVE  Own(p)'
<1>1. NoneShut(p) /\ Hears(p) /\ NotBlocked(p)
  BY IdleShut
<1>2. Posting(p)'
  <2>1. CASE current[p] = Nobody
    <3>1. NoneShut(p)'
      BY <1>1, <2>1, NobodyAssumption DEF NoneShut, Shutting
    <3> QED
      BY <2>1, <3>1 DEF Posting
  <2>2. CASE current[p] # Nobody
    <3>1. PICK d \in Peers : d = current[p]
      BY <2>2
    <3>2. OnlyShut(p, d)'
      BY <1>1, <3>1 DEF NoneShut, OnlyShut, Shutting
    <3>3. posted'[p] = <<Event("CloseLater", d)>>
      BY <2>2, <3>1
    <3> QED
      BY <3>2, <3>3 DEF Posting
  <2> QED
    BY <2>1, <2>2
<1>3. \A c \in Peers : end'[c][p] \in {"calling", "open", "closing"} <=> c = p
  BY <1>1 DEF Hears, Heard
<1>4. Hears(p)'
  BY <1>1, <1>3, NobodyAssumption DEF Hears, Heard
<1>5. NotBlocked(p)'
  BY <1>3 DEF NotBlocked
<1> QED
  BY <1>2, <1>4, <1>5 DEF Own

\* A connection is up, the one before is dropped, and the contact is asked or answered.
LEMMA OwnOpen ==
  ASSUME NEW p \in Peers, NEW c \in Peers, Own(p), Idle(p),
         current[p] \in Peers \cup {Nobody},
         \A d \in Peers : end'[d][p] = IF d = c THEN "open"
                                       ELSE IF d = current[p] THEN "muted" ELSE end[d][p],
         NEW k \in Talks,
         \/ /\ current[p] \in {Nobody, c}
            /\ posted'[p] = <<>> \/ posted'[p] = <<Event(k, c)>>
         \/ /\ current[p] \in Peers /\ current[p] # c
            /\ \/ posted'[p] = <<Event("CloseLater", current[p])>>
               \/ posted'[p] = <<Event(k, c), Event("CloseLater", current[p])>>,
         current'[p] = c, status'[p] = "ONLINE", contact'[p].state # "BLOCKED"
  PROVE  Own(p)'
<1>1. NoneShut(p) /\ Hears(p) /\ NotBlocked(p)
  BY IdleShut
<1>2. Up(p)'
  BY DEF Up
<1>3. Posting(p)'
  <2>1. CASE current[p] \in {Nobody, c}
    <3>1. NoneShut(p)'
      BY <1>1, <2>1, NobodyAssumption DEF NoneShut, Shutting
    <3>2. posted'[p] = <<>> \/ posted'[p] = <<Event(k, c)>>
      BY <2>1, NobodyAssumption
    <3>3. posted'[p] = <<Event(k, c)>> => posted'[p] = <<Event(k, current'[p])>>
      OBVIOUS
    <3> QED
      BY <1>2, <3>1, <3>2, <3>3 DEF Posting
  <2>2. CASE current[p] \in Peers /\ current[p] # c
    <3>1. PICK d \in Peers : d = current[p]
      BY <2>2
    <3>2. OnlyShut(p, d)'
      BY <1>1, <2>2, <3>1 DEF NoneShut, OnlyShut, Shutting
    <3>3. \/ posted'[p] = <<Event("CloseLater", d)>>
          \/ posted'[p] = <<Event(k, c), Event("CloseLater", d)>>
      BY <2>2, <3>1, NobodyAssumption
    <3>4. posted'[p] = <<Event(k, c), Event("CloseLater", d)>> =>
            posted'[p] = <<Event(k, current'[p]), Event("CloseLater", d)>>
      OBVIOUS
    <3> QED
      BY <1>2, <3>2, <3>3, <3>4 DEF Posting
  <2> QED
    BY <2>1, <2>2
<1>4. \A d \in Peers : end'[d][p] \in {"calling", "open", "closing"} <=> d = c
  BY <1>1 DEF Hears, Heard
<1>5. Hears(p)'
  BY <1>1, <1>4, NobodyAssumption DEF Hears, Heard
<1>6. NotBlocked(p)'
  BY DEF NotBlocked
<1> QED
  BY <1>3, <1>5, <1>6 DEF Own

\* What a program posted to talk is of the connection it has, and is handled.
LEMMA OwnTalked ==
  ASSUME NEW p \in Peers, Own(p), NEW k \in Talks, Handles(p, k),
         \A c \in Peers : end'[c][p] = end[c][p],
         posted'[p] = Tail(posted[p]),
         current'[p] = current[p], status'[p] = status[p],
         contact'[p].state = contact[p].state \/ contact'[p].state # "BLOCKED"
  PROVE  Own(p)' /\ Up(p) /\ status[p] = "ONLINE" /\ Head(posted[p]).conn = current[p]
<1>1. k # "CloseLater"
  BY DEF Talks
<1>2. \A d : posted[p] # <<Event("CloseLater", d)>>
  BY <1>1 DEF Handles, Event
<1>3. posted[p] # <<>>
  BY DEF Handles
<1>4. /\ Up(p)
      /\ \/ NoneShut(p) /\ \E l \in Talks : posted[p] = <<Event(l, current[p])>>
         \/ \E l \in Talks, d \in Peers :
              posted[p] = <<Event(l, current[p]), Event("CloseLater", d)>> /\ OnlyShut(p, d)
  BY <1>2, <1>3 DEF Own, Posting
<1>5. Posting(p)'
  <2>1. CASE NoneShut(p) /\ \E l \in Talks : posted[p] = <<Event(l, current[p])>>
    <3>1. NoneShut(p)'
      BY <2>1 DEF NoneShut
    <3>2. posted'[p] = <<>>
      BY <2>1
    <3> QED
      BY <3>1, <3>2 DEF Posting
  <2>2. CASE \E l \in Talks, d \in Peers :
              posted[p] = <<Event(l, current[p]), Event("CloseLater", d)>> /\ OnlyShut(p, d)
    <3>1. PICK l \in Talks, d \in Peers :
              posted[p] = <<Event(l, current[p]), Event("CloseLater", d)>> /\ OnlyShut(p, d)
      BY <2>2
    <3>2. OnlyShut(p, d)'
      BY <3>1 DEF OnlyShut
    <3>3. posted'[p] = <<Event("CloseLater", d)>>
      BY <3>1
    <3> QED
      BY <3>2, <3>3 DEF Posting
  <2> QED
    BY <1>4, <2>1, <2>2
<1>6. Hears(p)'
  BY DEF Own, Hears, Heard
<1>7. NotBlocked(p)'
  BY DEF Own, NotBlocked
<1>8. status[p] = "ONLINE"
  BY <1>4 DEF Own, Hears, Up
<1>9. Head(posted[p]).conn = current[p]
  <2>1. PICK l \in Talks : \/ posted[p] = <<Event(l, current[p])>>
                           \/ \E d \in Peers : posted[p] = <<Event(l, current[p]), Event("CloseLater", d)>>
    BY <1>4
  <2>2. Head(posted[p]) = Event(l, current[p])
    BY <2>1
  <2> QED
    BY <2>2 DEF Event
<1> QED
  BY <1>4, <1>5, <1>6, <1>7, <1>8, <1>9 DEF Own

\* The end it told to close is closed.
LEMMA OwnClosed ==
  ASSUME NEW p \in Peers, Own(p), Handles(p, "CloseLater"),
         NEW c, c = Head(posted[p]).conn,
         \A d \in Peers : end'[d][p] = IF d = c THEN "none" ELSE end[d][p],
         posted'[p] = Tail(posted[p]),
         current'[p] = IF Heard(p, c) THEN Nobody ELSE current[p],
         status'[p] = IF Heard(p, c) THEN "DISCONNECTED" ELSE status[p],
         contact'[p].state = contact[p].state
  PROVE  Own(p)' /\ c \in Peers /\ end[c][p] \in Shutting
<1>1. PICK d \in Peers : posted[p] = <<Event("CloseLater", d)>> /\ OnlyShut(p, d)
  <2>1. /\ posted[p] # <<>>
        /\ \A k \in Talks : \A d : posted[p] # <<Event(k, d)>>
        /\ \A k \in Talks : \A d, b : posted[p] # <<Event(k, d), b>>
    BY DEF Handles, Event, Talks
  <2> QED
    BY <2>1 DEF Own, Posting
<1>2. c = d /\ posted'[p] = <<>>
  BY <1>1 DEF Event
<1>3. NoneShut(p)'
  BY <1>1, <1>2 DEF OnlyShut, NoneShut, Shutting
<1>4. Posting(p)'
  BY <1>2, <1>3 DEF Posting
<1>5. Hears(p)
  BY DEF Own
<1>6. \A b \in Peers : Heard(p, b) <=> current[p] = b
  BY <1>5 DEF Hears
<1>7. \A b \in Peers : Heard(p, b)' <=> current'[p] = b
  <2>1. ~Heard(p, c)'
    BY <1>2 DEF Heard
  <2>2. \A b \in Peers : b # c => (Heard(p, b)' <=> Heard(p, b))
    BY <1>2 DEF Heard
  <2> QED
    BY <1>2, <1>6, <2>1, <2>2, NobodyAssumption
<1>8. current'[p] = Nobody <=> status'[p] = "DISCONNECTED"
  BY <1>5 DEF Hears
<1>9. \A b \in Peers :
        /\ end'[b][p] = "calling" => b = p /\ status'[p] = "CONNECTING"
        /\ end'[b][p] \in {"open", "closing"} => status'[p] = "ONLINE"
        /\ end'[b][p] = "stranger" => b # p
  <2>1. CASE Heard(p, c)
    <3>1. \A b \in Peers : ~Heard(p, b)'
      BY <1>2, <1>7, <2>1, NobodyAssumption
    <3> QED
      BY <1>2, <1>5, <3>1 DEF Hears, Heard
  <2>2. CASE ~Heard(p, c)
    BY <1>2, <1>5, <2>2 DEF Hears
  <2> QED
    BY <2>1, <2>2
<1>10. NotBlocked(p)'
  BY <1>2 DEF Own, NotBlocked
<1>11. end[c][p] \in Shutting
  BY <1>1, <1>2 DEF OnlyShut
<1> QED
  BY <1>2, <1>4, <1>7, <1>8, <1>9, <1>10, <1>11 DEF Own, Hears

\* An idle program hears that an end is gone.
LEMMA OwnEnded ==
  ASSUME NEW p \in Peers, NEW c \in Peers, Own(p), Idle(p),
         \A d \in Peers : end'[d][p] = IF d = c THEN "none" ELSE end[d][p],
         posted'[p] = posted[p],
         current'[p] = IF Heard(p, c) THEN Nobody ELSE current[p],
         status'[p] = IF Heard(p, c) THEN "DISCONNECTED" ELSE status[p],
         contact'[p].state = contact[p].state
  PROVE  Own(p)'
<1>1. NoneShut(p) /\ Hears(p) /\ NotBlocked(p)
  BY IdleShut
<1>2. NoneShut(p)' /\ posted'[p] = <<>>
  BY <1>1 DEF NoneShut, Shutting, Idle
<1>3. Posting(p)'
  BY <1>2 DEF Posting
<1>4. \A b \in Peers : Heard(p, b) <=> current[p] = b
  BY <1>1 DEF Hears
<1>5. \A b \in Peers : Heard(p, b)' <=> current'[p] = b
  <2>1. ~Heard(p, c)'
    BY DEF Heard
  <2>2. \A b \in Peers : b # c => (Heard(p, b)' <=> Heard(p, b))
    BY DEF Heard
  <2> QED
    BY <1>4, <2>1, <2>2, NobodyAssumption
<1>6. current'[p] = Nobody <=> status'[p] = "DISCONNECTED"
  BY <1>1 DEF Hears
<1>7. \A b \in Peers :
        /\ end'[b][p] = "calling" => b = p /\ status'[p] = "CONNECTING"
        /\ end'[b][p] \in {"open", "closing"} => status'[p] = "ONLINE"
        /\ end'[b][p] = "stranger" => b # p
  <2>1. CASE Heard(p, c)
    <3>1. \A b \in Peers : ~Heard(p, b)'
      BY <1>5, <2>1, NobodyAssumption
    <3> QED
      BY <1>1, <3>1 DEF Hears, Heard
  <2>2. CASE ~Heard(p, c)
    BY <1>1, <2>2 DEF Hears
  <2> QED
    BY <2>1, <2>2
<1>8. NotBlocked(p)'
  BY <1>1 DEF NotBlocked
<1> QED
  BY <1>3, <1>5, <1>6, <1>7, <1>8 DEF Own, Hears

\* A stranger is let in.
LEMMA OwnStranger ==
  ASSUME NEW p \in Peers, NEW c \in Peers, Own(p), Idle(p), c # p, end[c][p] = "none",
         \A d \in Peers : end'[d][p] = IF d = c THEN "stranger" ELSE end[d][p],
         posted'[p] = posted[p], current'[p] = current[p], status'[p] = status[p],
         contact'[p].state = contact[p].state
  PROVE  Own(p)'
<1>1. NoneShut(p) /\ Hears(p) /\ NotBlocked(p)
  BY IdleShut
<1>2. NoneShut(p)' /\ posted'[p] = <<>>
  BY <1>1 DEF NoneShut, Shutting, Idle
<1>3. Posting(p)'
  BY <1>2 DEF Posting
<1>4. \A d \in Peers : Heard(p, d)' <=> Heard(p, d)
  BY DEF Heard
<1>5. Hears(p)'
  BY <1>1, <1>4 DEF Hears
<1>6. NotBlocked(p)'
  BY <1>1 DEF NotBlocked
<1> QED
  BY <1>3, <1>5, <1>6 DEF Own

\* An idle program learns more of the contact, and lets it be.
LEMMA OwnLearns ==
  ASSUME NEW p \in Peers, Own(p),
         \A c \in Peers : end'[c][p] = end[c][p],
         posted'[p] = posted[p], current'[p] = current[p], status'[p] = status[p],
         contact'[p].state = contact[p].state \/ contact'[p].state # "BLOCKED"
  PROVE  Own(p)'
<1>1. Hears(p)'
  BY DEF Own, Hears, Heard
<1>2. NotBlocked(p)'
  BY DEF Own, NotBlocked
<1>3. /\ NoneShut(p) => NoneShut(p)'
      /\ \A d : OnlyShut(p, d) => OnlyShut(p, d)'
      /\ Up(p) => Up(p)'
  BY DEF NoneShut, OnlyShut, Up
<1>4. Posting(p)'
  <2>1. CASE posted[p] = <<>> /\ NoneShut(p)
    BY <1>3, <2>1 DEF Posting
  <2>2. CASE \E d \in Peers : posted[p] = <<Event("CloseLater", d)>> /\ OnlyShut(p, d)
    BY <1>3, <2>2 DEF Posting
  <2>3. CASE /\ Up(p)
             /\ \E k \in Talks : posted[p] = <<Event(k, current[p])>>
             /\ NoneShut(p)
    BY <1>3, <2>3 DEF Posting
  <2> QED
    BY <1>3, <2>1, <2>2, <2>3 DEF Own, Posting
<1> QED
  BY <1>1, <1>2, <1>4 DEF Own

\* A program is started.
LEMMA OwnStarted ==
  ASSUME NEW p \in Peers, \A c \in Peers : end'[c][p] = "none", posted'[p] = <<>>,
         current'[p] = Nobody, status'[p] = "DISCONNECTED"
  PROVE  Own(p)'
<1>1. NoneShut(p)'
  BY DEF NoneShut, Shutting
<1>2. Posting(p)'
  BY <1>1 DEF Posting
<1>3. Hears(p)' /\ NotBlocked(p)'
  BY NobodyAssumption DEF Hears, Heard, NotBlocked
<1> QED
  BY <1>2, <1>3 DEF Own

(***************************************************************************)
(* What the other program, and the other connection, are left with.        *)
(***************************************************************************)

\* A connection nothing happens to.
LEMMA JoinedSame ==
  ASSUME NEW c \in Peers, Joined(c),
         \A r \in Peers : end'[c][r] = end[c][r] /\ wire'[c][r] = wire[c][r]
  PROVE  Joined(c)'
<1>1. PICK q \in Peers : q = Other(c)
  BY OtherPeer
<1>2. /\ end'[c][c] = end[c][c] /\ wire'[c][c] = wire[c][c]
      /\ end'[c][q] = end[c][q] /\ wire'[c][q] = wire[c][q]
  BY <1>1
<1>3. Greets(c, q, end[c], wire[c]) => Greets(c, q, end'[c], wire'[c])
  BY <1>2 DEF Greets
<1>4. Parts(c, q, end[c], wire[c]) => Parts(c, q, end'[c], wire'[c])
  BY <1>2 DEF Parts
<1>5. Calls(c, q, end[c], wire[c]) => Calls(c, q, end'[c], wire'[c])
  BY <1>2 DEF Calls
<1> QED
  BY <1>1, <1>3, <1>4, <1>5 DEF Joined, JoinedIn

\* Only the current connection of a program can be up at both ends.
LEMMA TogetherCurrent ==
  ASSUME NEW p \in Peers, Own(p), NEW c \in Peers, Together(c)
  PROVE  current[p] = c
BY DEF Own, Hears, Heard, Together

\* A step of p leaves what the other program has alone.
Alone(p) ==
  \A r \in Peers : r # p =>
    /\ \A c \in Peers : end'[c][r] = end[c][r]
    /\ posted'[r] = posted[r] /\ current'[r] = current[r] /\ status'[r] = status[r]
    /\ contact'[r] = contact[r] /\ timers'[r] = timers[r]

\* A step of p preserves the invariant if it does what is p's, what it changes of
\* connections, and what it promises on p's current one.
LEMMA StepAgrees ==
  ASSUME AInv, NEW p \in Peers, Alone(p), Own(p)', \A c \in Peers : Joined(c)',
         \A c, r \in Peers : current'[p] = c => Settles(c, r)'
  PROVE  AInv'
<1>1. ASSUME NEW r \in Peers
      PROVE  Own(r)'
  <2>1. CASE r = p
    BY <2>1
  <2>2. CASE r # p
    BY <2>2, OwnLearns DEF AInv, Alone
  <2> QED
    BY <2>1, <2>2
<1>2. ASSUME NEW c \in Peers, NEW r \in Peers
      PROVE  Settles(c, r)'
  <2>1. CASE current'[p] = c
    BY <2>1
  <2>2. CASE current'[p] # c
    <3>1. ~Together(c)'
      <4>1. (Own(p) /\ Together(c) => current[p] = c)'
        BY TogetherCurrent, PTL
      <4> QED
        BY <2>2, <4>1
    <3> QED
      BY <3>1 DEF Settles
  <2> QED
    BY <2>1, <2>2
<1> QED
  BY <1>1, <1>2 DEF AInv

\* What settles a connection still does when nothing is read that matters, and the rows
\* and timers say no less.
LEMMA SettlesKept ==
  ASSUME NEW d \in Peers, NEW p \in Peers, Settles(d, p), Together(d)' => Together(d),
         end'[d][p] = end[d][p],
         \A r \in Peers : end[d][r] = "open" => end'[d][r] = "open",
         \A r \in Peers, m \in {"UserInfo", "Added", "AddMe"} :
           OnWay(d, r, m) => OnWay(d, r, m)',
         \A r \in Peers : timers[r] > 0 => timers'[r] > 0,
         Talking(p) => Talking(p)',
         \A r \in Peers : Accepts(r) => Accepts(r)',
         end[d][p] = "open" => /\ contact'[p].state = contact[p].state
                               /\ contact'[p].blocked => contact[p].blocked
  PROVE  Settles(d, p)'
<1> SUFFICES ASSUME Together(d)', end'[d][p] = "open"
             PROVE  Confirms(d, p)' /\ Awaits(d, p)' /\ Tells(d, p)'
  BY DEF Settles
<1>1. Confirms(d, p) /\ Awaits(d, p) /\ Tells(d, p) /\ end[d][p] = "open"
  BY DEF Settles
<1>2. PICK q \in Peers : q = Other(p)
  BY OtherPeer
<1>3. Accepts(p)' => Accepts(p)
  BY <1>1 DEF Accepts
<1>4. \A r \in Peers : /\ OnWay(d, r, "UserInfo") => OnWay(d, r, "UserInfo")'
                       /\ OnWay(d, r, "Added") => OnWay(d, r, "Added")'
                       /\ OnWay(d, r, "AddMe") => OnWay(d, r, "AddMe")'
  OBVIOUS
<1>5. Confirms(d, p)'
  BY <1>1, <1>2, <1>3, <1>4 DEF Confirms
<1>6. Awaits(d, p)'
  BY <1>1, <1>2, <1>4 DEF Awaits
<1>7. Tells(d, p)'
  BY <1>1, <1>2, <1>3, <1>4 DEF Tells
<1> QED
  BY <1>5, <1>6, <1>7

\* A timer to send what there is, if the other one is accepted, and a request on its way
\* if he has not answered, settle for p.
LEMMA SettlesTimed ==
  ASSUME NEW d \in Peers, NEW p \in Peers, Accepts(p)' => timers'[p] > 0,
         contact'[p].state \in Unanswered => Talking(p)'
  PROVE  Settles(d, p)'
BY DEF Settles, Confirms, Awaits, Tells

\* p has accepted the other one, and the timer that was to send what there is still is,
\* or it has been sent: this does for the other one, if he gets the answer he asked for.
LEMMA SettlesOther ==
  ASSUME NEW d \in Peers, NEW p \in Peers, NEW q \in Peers, q = Other(p), Settles(d, q),
         Together(d)' => Together(d),
         \A r \in Peers : end'[d][r] = end[d][r],
         contact'[q] = contact[q], timers'[q] = timers[q], posted'[q] = posted[q],
         Accepts(p)',
         timers[p] > 0 /\ Together(d)' => timers'[p] > 0 \/ OnWay(d, q, "UserInfo")',
         OnWay(d, q, "UserInfo") => OnWay(d, q, "UserInfo")',
         OnWay(d, q, "Added") => OnWay(d, q, "Added")',
         OnWay(d, p, "Added") => OnWay(d, p, "Added")' \/ (end[d][p] = "open" /\ timers'[p] > 0),
         OnWay(d, p, "AddMe") /\ Together(d)' => OnWay(d, p, "AddMe")' \/ OnWay(d, q, "Added")'
  PROVE  Settles(d, q)'
<1> SUFFICES ASSUME Together(d)', end'[d][q] = "open"
             PROVE  Confirms(d, q)' /\ Awaits(d, q)' /\ Tells(d, q)'
  BY DEF Settles
<1>1. Confirms(d, q) /\ Awaits(d, q) /\ Tells(d, q)
  BY DEF Settles
<1>2. Other(q) = p
  BY OtherPeer
<1>3. Confirms(d, q)'
  BY <1>2 DEF Confirms
<1>4. (Accepts(q)' <=> Accepts(q)) /\ (Talking(q)' <=> Talking(q))
  BY DEF Accepts, Talking
<1>5. Awaits(d, q)'
  BY <1>1, <1>2, <1>4 DEF Awaits
<1>6. Tells(d, q)'
  BY <1>1, <1>2, <1>4 DEF Tells
<1> QED
  BY <1>3, <1>5, <1>6

\* A timer of one who has not accepted the other, or is not connected, does nothing.
LEMMA SettlesIdly ==
  ASSUME NEW d \in Peers, NEW p \in Peers, NEW q \in Peers, q = Other(p),
         Settles(d, p), Settles(d, q),
         UNCHANGED <<contact, end, wire, posted>>, timers'[q] = timers[q],
         end[d][p] = "open" => ~Accepts(p)
  PROVE  Settles(d, p)' /\ Settles(d, q)'
<1>1. Other(q) = p
  BY OtherPeer
<1>2. /\ \A r : Accepts(r)' <=> Accepts(r)
      /\ \A r : Talking(r)' <=> Talking(r)
      /\ \A r, m : OnWay(d, r, m)' <=> OnWay(d, r, m)
  BY DEF Accepts, Talking, OnWay
<1>3. Together(d)' => Together(d)
  BY <1>2 DEF Together
<1>4. Settles(d, p)'
  BY <1>2, <1>3 DEF Settles, Confirms, Awaits, Tells
<1>5. Settles(d, q)'
  BY <1>1, <1>2, <1>3 DEF Settles, Confirms, Awaits, Tells
<1> QED
  BY <1>4, <1>5

(***************************************************************************)
(* Sending and reading.                                                    *)
(***************************************************************************)

\* Peer::send(), if there is somebody to read.
LEMMA SentParts ==
  ASSUME IInv, NEW p \in Peers, NEW c \in Peers, NEW m \in Msgs, NEW q, q = Other(p)
  PROVE  /\ wire[c] \in Lines /\ end[c] \in Ends
         /\ \A d \in Peers : d # c => Sent(p, c, m)[d] = wire[d]
         /\ Reaches(c, q) => Sent(p, c, m)[c] = Put(wire[c], q, m)
         /\ ~Reaches(c, q) => Sent(p, c, m)[c] = wire[c]
         /\ \A d, r \in Peers : \A x : x \in All(Sent(p, c, m)[d][r]) <=>
              x \in All(wire[d][r]) \/ (d = c /\ r = q /\ x = m /\ Reaches(c, q))
<1>1. wire \in [Peers -> Lines] /\ end \in [Peers -> Ends] /\ q \in Peers
  BY OtherPeer DEF IInv, WireSound, EndSound, Lines, Ends
<1>2. CASE Reaches(c, q)
  <2>1. Sent(p, c, m) = [wire EXCEPT ![c][q] = Append(@, m)]
    BY <1>2 DEF Sent
  <2>2. Sent(p, c, m)[c] = Put(wire[c], q, m) /\ \A d \in Peers : d # c => Sent(p, c, m)[d] = wire[d]
    BY <1>1, <2>1 DEF Put, Lines
  <2>3. ASSUME NEW d \in Peers, NEW r \in Peers, NEW x
        PROVE  x \in All(Sent(p, c, m)[d][r]) <=>
                 x \in All(wire[d][r]) \/ (d = c /\ r = q /\ x = m)
    <3>1. CASE d # c
      BY <2>2, <3>1
    <3>2. CASE d = c /\ r # q
      <4>1. Put(wire[c], q, m)[r] = wire[c][r]
        BY <1>1, <3>2, PutParts
      <4> QED
        BY <2>2, <3>2, <4>1
    <3>3. CASE d = c /\ r = q
      <4>1. x \in All(Put(wire[c], q, m)[q]) <=> x \in All(wire[c][q]) \/ x = m
        BY <1>1, PutParts
      <4> QED
        BY <2>2, <3>3, <4>1
    <3> QED
      BY <3>1, <3>2, <3>3
  <2> QED
    BY <1>1, <1>2, <2>2, <2>3
<1>3. CASE ~Reaches(c, q)
  BY <1>1, <1>3 DEF Sent
<1> QED
  BY <1>2, <1>3

\* What is left when the first message has been read.
LEMMA ReceivedParts ==
  ASSUME IInv, NEW p \in Peers, NEW c \in Peers, NEW m, ~Silent(wire[c][p]),
         First(wire[c][p]) = m
  PROVE  /\ wire[c] \in Lines /\ end[c] \in Ends
         /\ Received(p, c)[c] = Take(wire[c], p)
         /\ \A d \in Peers : d # c => Received(p, c)[d] = wire[d]
         /\ \A d, r \in Peers : \A x : x \in All(wire[d][r]) =>
              x \in All(Received(p, c)[d][r]) \/ (d = c /\ r = p /\ x = m)
         /\ \A d, r \in Peers : \A x : x \in All(Received(p, c)[d][r]) => x \in All(wire[d][r])
<1>1. wire \in [Peers -> Lines] /\ end \in [Peers -> Ends]
  BY DEF IInv, WireSound, EndSound, Lines, Ends
<1>3. /\ Received(p, c)[c] = Take(wire[c], p)
      /\ \A d \in Peers : d # c => Received(p, c)[d] = wire[d]
  BY <1>1 DEF Received, Take, Lines
<1>4. ASSUME NEW d \in Peers, NEW r \in Peers, NEW x
      PROVE  /\ x \in All(wire[d][r]) =>
                  x \in All(Received(p, c)[d][r]) \/ (d = c /\ r = p /\ x = m)
             /\ x \in All(Received(p, c)[d][r]) => x \in All(wire[d][r])
  <2>1. CASE d # c
    BY <1>3, <2>1
  <2>2. CASE d = c /\ r # p
    <3>1. Take(wire[c], p)[r] = wire[c][r]
      BY <1>1, <2>2, TakeParts
    <3> QED
      BY <1>3, <2>2, <3>1
  <2>3. CASE d = c /\ r = p
    <3>1. x \in All(wire[c][p]) <=> x = m \/ x \in Later(wire[c][p])
      BY <1>1, TakeParts
    <3>2. x \in All(Take(wire[c], p)[p]) <=> x \in Later(wire[c][p])
      BY <1>1, TakeParts
    <3> QED
      BY <1>3, <2>3, <3>1, <3>2
  <2> QED
    BY <2>1, <2>2, <2>3
<1>5. \A d, r \in Peers : \A x : x \in All(wire[d][r]) =>
        x \in All(Received(p, c)[d][r]) \/ (d = c /\ r = p /\ x = m)
  BY <1>4
<1>6. \A d, r \in Peers : \A x : x \in All(Received(p, c)[d][r]) => x \in All(wire[d][r])
  BY <1>4
<1>7. wire[c] \in Lines /\ end[c] \in Ends
  BY <1>1
<1> QED
  BY <1>3, <1>5, <1>6, <1>7

\* What is on the way when the first message has been answered, if there is somebody to read.
LEMMA AnsweredParts ==
  ASSUME IInv, NEW p \in Peers, NEW c \in Peers, ~Silent(wire[c][p]),
         NEW d \in Peers, NEW m \in Msgs, NEW q, q = Other(p)
  PROVE  /\ \A x \in Peers : x # d => Answered(p, c, d, m)[x] = Received(p, c)[x]
         /\ Reaches(d, q) => Answered(p, c, d, m)[d] = Put(Received(p, c)[d], q, m)
         /\ ~Reaches(d, q) => Answered(p, c, d, m)[d] = Received(p, c)[d]
         /\ \A b, r \in Peers : \A x : x \in All(Answered(p, c, d, m)[b][r]) <=>
              x \in All(Received(p, c)[b][r]) \/ (b = d /\ r = q /\ x = m /\ Reaches(d, q))
         /\ \A x \in Peers : Received(p, c)[x] \in Lines
<1>1. Received(p, c) \in [Peers -> Lines] /\ q \in Peers
  BY AnsweredSound, OtherPeer DEF WireSound, Lines, Silent
<1> DEFINE rest == Received(p, c)
<1>0. rest \in [Peers -> Lines]
  BY <1>1
<1> HIDE DEF rest
<1>2. CASE Reaches(d, q)
  <2>1. Answered(p, c, d, m) = [rest EXCEPT ![d][q] = Append(@, m)]
    BY <1>2 DEF Answered, rest
  <2>2. /\ Answered(p, c, d, m)[d] = Put(rest[d], q, m)
        /\ \A x \in Peers : x # d => Answered(p, c, d, m)[x] = rest[x]
    BY <1>0, <1>1, <2>1 DEF Put, Lines
  <2>3. ASSUME NEW b \in Peers, NEW r \in Peers, NEW x
        PROVE  x \in All(Answered(p, c, d, m)[b][r]) <=>
                 x \in All(rest[b][r]) \/ (b = d /\ r = q /\ x = m)
    <3>1. CASE b # d
      BY <2>2, <3>1
    <3>2. CASE b = d /\ r # q
      <4>1. Put(rest[d], q, m)[r] = rest[d][r]
        <5>1. PICK w \in Lines : w = rest[d]
          BY <1>0
        <5>2. Put(w, q, m)[r] = w[r]
          BY SMTT(30), <1>1, <3>2, PutParts
        <5> QED
          BY <5>1, <5>2
      <4> QED
        BY <2>2, <3>2, <4>1
    <3>3. CASE b = d /\ r = q
      <4>1. x \in All(Put(rest[d], q, m)[q]) <=> x \in All(rest[d][q]) \/ x = m
        BY <1>0, <1>1, PutParts
      <4> QED
        BY <2>2, <3>3, <4>1
    <3> QED
      BY <3>1, <3>2, <3>3
  <2> QED
    BY <1>1, <1>2, <2>2, <2>3 DEF rest
<1>3. CASE ~Reaches(d, q)
  <2>1. Answered(p, c, d, m) = rest
    BY <1>3 DEF Answered, rest
  <2> QED
    BY <1>1, <1>3, <2>1 DEF rest
<1> QED
  BY <1>2, <1>3

\* What is sent over a connection that is up.
LEMMA SendJoined ==
  ASSUME IInv, AInv, NEW p \in Peers, NEW d \in Peers, NEW m \in Msgs,
         m \notin {"Hello", "Olleh", "End"}, end[d][p] # "none", end[d][p] \notin Shutting
  PROVE  JoinedIn(d, Other(d), end[d], Sent(p, d, m)[d])
<1>1. PICK q \in Peers : q = Other(p)
  BY OtherPeer
<1>2. wire[d] \in Lines /\ end[d] \in Ends /\ Other(d) \in Peers
  BY SentParts, OtherPeer
<1>3. JoinedIn(d, Other(d), end[d], wire[d])
  BY DEF AInv, Joined
<1>4. CASE Reaches(d, q)
  <2>1. Sent(p, d, m)[d] = Put(wire[d], q, m)
    BY <1>1, <1>4, SentParts
  <2>2. end[d][q] # "none" \/ ~Silent(wire[d][q])
    BY <1>4 DEF Reaches, Silent
  <2>3. JoinedIn(d, Other(d), end[d], Put(wire[d], q, m))
    BY <1>1, <1>2, <1>3, <2>2, JoinedSend
  <2> QED
    BY <2>1, <2>3
<1>5. CASE ~Reaches(d, q)
  <2>1. Sent(p, d, m)[d] = wire[d]
    BY <1>1, <1>5, SentParts
  <2> QED
    BY <1>3, <2>1
<1> QED
  BY <1>4, <1>5

\* What an idle program reads that is no greeting and no end.
LEMMA ReadJoined ==
  ASSUME IInv, AInv, NEW p \in Peers, NEW c \in Peers, NEW m, Arrives(p, c, m),
         m \notin {"Hello", "Olleh", "End"}
  PROVE  /\ \A x \in Peers : JoinedIn(x, Other(x), end[x], Received(p, c)[x])
         /\ end[c][p] \in {"stranger", "open"}
<1>1. ~Silent(wire[c][p]) /\ First(wire[c][p]) = m /\ Idle(p)
  BY DEF Arrives, Silent, First
<1>2. /\ wire[c] \in Lines /\ end[c] \in Ends
      /\ Received(p, c)[c] = Take(wire[c], p)
      /\ \A d \in Peers : d # c => Received(p, c)[d] = wire[d]
  BY <1>1, ReceivedParts
<1>3. \A x \in Peers : JoinedIn(x, Other(x), end[x], wire[x])
  BY DEF AInv, Joined
<1>4. /\ JoinedIn(c, Other(c), end[c], Take(wire[c], p))
      /\ end[c][p] # "none" /\ (p = c => end[c][p] # "calling")
  BY <1>1, <1>2, <1>3, JoinedRead, OtherPeer
<1>5. end[c][p] \notin Shutting /\ (end[c][p] = "calling" => p = c)
  BY <1>1, IdleShut DEF AInv, Hears, NoneShut
<1>6. end[c][p] \in EndStates
  BY <1>2 DEF Ends
<1>7. end[c][p] \in {"stranger", "open"}
  BY <1>4, <1>5, <1>6 DEF EndStates, Shutting
<1>8. \A x \in Peers : JoinedIn(x, Other(x), end[x], Received(p, c)[x])
  BY <1>2, <1>3, <1>4
<1> QED
  BY <1>7, <1>8

\* What an idle program answers, over a connection that is up.
LEMMA AnswerJoined ==
  ASSUME IInv, AInv, NEW p \in Peers, NEW c \in Peers, NEW m, Arrives(p, c, m),
         m \notin {"Hello", "Olleh", "End"}, NEW d \in Peers, NEW a \in Msgs,
         a \notin {"Hello", "Olleh", "End"}, end[d][p] # "none"
  PROVE  \A x \in Peers : JoinedIn(x, Other(x), end[x], Answered(p, c, d, a)[x])
<1>1. PICK q \in Peers : q = Other(p) /\ q # p
  BY OtherPeer
<1>2. \A x \in Peers : JoinedIn(x, Other(x), end[x], Received(p, c)[x])
  BY ReadJoined
<1>3. ~Silent(wire[c][p]) /\ Idle(p)
  BY DEF Arrives, Silent
<1>4. /\ \A x \in Peers : x # d => Answered(p, c, d, a)[x] = Received(p, c)[x]
      /\ Reaches(d, q) => Answered(p, c, d, a)[d] = Put(Received(p, c)[d], q, a)
      /\ ~Reaches(d, q) => Answered(p, c, d, a)[d] = Received(p, c)[d]
      /\ Received(p, c)[d] \in Lines
  BY <1>1, <1>3, AnsweredParts
<1>5. end[d][p] \notin Shutting
  BY <1>3, IdleShut DEF AInv, NoneShut
<1>6. CASE Reaches(d, q)
  <2>1. Received(p, c)[d][q] = wire[d][q]
    <3>1. wire \in [Peers -> [Peers -> Seq(Msgs)]]
      BY DEF IInv, WireSound
    <3> QED
      BY <1>1, <3>1 DEF Received
  <2>2. end[d][q] # "none" \/ ~Silent(Received(p, c)[d][q])
    BY <1>6, <2>1 DEF Reaches, Silent
  <2>3. end[d] \in Ends /\ Other(d) \in Peers
    BY OtherPeer, SentParts
  <2>4. JoinedIn(d, Other(d), end[d], Received(p, c)[d])
    BY <1>2
  <2>5. JoinedIn(d, Other(d), end[d], Put(Received(p, c)[d], q, a))
    BY <1>1, <1>4, <1>5, <2>2, <2>3, <2>4, JoinedSend
  <2> QED
    BY <1>2, <1>4, <1>6, <2>5
<1>7. CASE ~Reaches(d, q)
  BY <1>2, <1>4, <1>7
<1> QED
  BY <1>6, <1>7

\* An end is told to close.
LEMMA ShutJoined ==
  ASSUME NEW p \in Peers, NEW d \in Peers, NEW as \in Shutting, end[d][p] # "none",
         end \in [Peers -> [Peers -> EndStates]],
         end' = [end EXCEPT ![d][p] = as], NEW w,
         \A x \in Peers : JoinedIn(x, Other(x), end[x], w[x]), wire' = w
  PROVE  \A x \in Peers : Joined(x)'
<1>1. /\ \A x \in Peers : x # d => end'[x] = end[x]
      /\ end'[d][p] = as /\ \A r \in Peers : r # p => end'[d][r] = end[d][r]
  OBVIOUS
<1>2. JoinedIn(d, Other(d), end'[d], w[d])
  BY ZenonT(40), <1>1, JoinedShut, OtherPeer
<1>3. \A x \in Peers : JoinedIn(x, Other(x), end'[x], w[x])
  BY <1>1, <1>2
<1> QED
  BY <1>3 DEF Joined

\* Where p has told its end to close, there is nothing to settle.
LEMMA SettlesShut ==
  ASSUME NEW p \in Peers, NEW c \in Peers, end'[c][p] \notin {"calling", "open"}
  PROVE  \A r \in Peers : Settles(c, r)'
BY DEF Settles, Together

(***************************************************************************)
(* What the users do.                                                      *)
(***************************************************************************)

\* A row changes, but for its state, and blocks the other one only where no connection
\* is up.
LEMMA RowAgrees ==
  ASSUME IInv, AInv, NEW p \in Peers,
         UNCHANGED <<end, wire, posted, timers, current, status>>,
         \A r \in Peers : r # p => contact'[r] = contact[r],
         \/ contact'[p].state = contact[p].state
         \/ \A d \in Peers : end[d][p] \notin {"calling", "open"},
         contact'[p].state # "BLOCKED" \/ contact'[p].state = contact[p].state,
         \A d \in Peers : end[d][p] = "open" /\ contact'[p].blocked => contact[p].blocked
  PROVE  AInv'
<1>1. Alone(p)
  BY DEF Alone
<1>2. Own(p)'
  BY OwnLearns DEF AInv
<1>3. \A c \in Peers : Joined(c)'
  BY JoinedSame DEF AInv
<1>4. ASSUME NEW d \in Peers, NEW r \in Peers
      PROVE  Settles(d, r)'
  <2>1. CASE end[d][p] \notin {"calling", "open"}
    BY <2>1, SettlesShut
  <2>2. CASE contact'[p].state = contact[p].state
    <3>1. /\ \A s \in Peers : Accepts(s) => Accepts(s)'
          /\ contact'[r].state = contact[r].state
          /\ end[d][r] = "open" /\ contact'[r].blocked => contact[r].blocked
      BY <2>2 DEF Accepts
    <3>2. /\ \A s \in Peers : \A m : OnWay(d, s, m) <=> OnWay(d, s, m)'
          /\ Talking(r) => Talking(r)'
      BY DEF OnWay, Talking
    <3>3. Together(d)' => Together(d)
      BY <3>2 DEF Together
    <3> QED
      BY <3>1, <3>2, <3>3, SettlesKept DEF AInv
  <2> QED
    BY <2>1, <2>2
<1> QED
  BY <1>1, <1>2, <1>3, <1>4, StepAgrees

\* Whoever tells the other one that he wants blocked contacts told, or not.
LEMMA ToggleNoticeAgrees ==
  ASSUME IInv, AInv, NEW p \in Peers, ToggleNotice(p)
  PROVE  AInv'
<1>1. contact' = [contact EXCEPT ![p] = [contact[p] EXCEPT !.notice = ~@]]
  BY DEF ToggleNotice, IInv, RowsSound
<1>2. contact[p] \in ContactRows /\ contact \in [Peers -> ContactRows]
  BY DEF IInv, RowsSound
<1>3. /\ contact'[p].state = contact[p].state /\ contact'[p].blocked = contact[p].blocked
      /\ \A r \in Peers : r # p => contact'[r] = contact[r]
  BY <1>1, <1>2 DEF ContactRows
<1>4. UNCHANGED <<end, wire, posted, timers, current, status>>
  BY DEF ToggleNotice, connVars, onlineVars
<1> QED
  BY <1>3, <1>4, RowAgrees

\* connectToContact().
LEMMA ConnectAgrees ==
  ASSUME IInv, AInv, NEW p \in Peers, Idle(p), ConnectToContact(p),
         \A r \in Peers : r # p => contact'[r] = contact[r] /\ timers'[r] = timers[r]
  PROVE  AInv'
<1>1. PICK q \in Peers : q = Other(p) /\ q # p /\ \A r \in Peers : r = p \/ r = q
  BY OtherPeer
<1>2. /\ current \in [Peers -> Peers \cup {Nobody}]
      /\ status \in [Peers -> {"DISCONNECTED", "CONNECTING", "ONLINE"}]
      /\ end \in [Peers -> [Peers -> EndStates]]
      /\ wire \in [Peers -> [Peers -> Seq(Msgs)]]
      /\ posted \in [Peers -> Seq(Events)]
  BY DEF IInv, OnlineSound, EndSound, WireSound, PostedSound
<1>3. /\ \A r \in Peers : end[p][r] = "none" /\ wire[p][r] = <<>>
      /\ current[p] # p
  BY DEF ConnectToContact, Callable
<1>4. /\ wire' = [wire EXCEPT ![p][q] = <<"Hello">>]
      /\ current' = [current EXCEPT ![p] = p]
      /\ status' = [status EXCEPT ![p] = "CONNECTING"]
  BY <1>1 DEF ConnectToContact
<1>5. /\ \A c, r \in Peers :
           end'[c][r] = IF r # p THEN end[c][r]
                        ELSE IF c = p THEN "calling"
                        ELSE IF c = current[p] THEN "muted" ELSE end[c][r]
      /\ posted'[p] = IF current[p] = Nobody THEN <<>>
                      ELSE <<Event("CloseLater", current[p])>>
      /\ \A r \in Peers : r # p => posted'[r] = posted[r]
  <2>1. CASE current[p] = Nobody
    <3>1. end' = [end EXCEPT ![p][p] = "calling"] /\ posted' = posted
      BY <2>1 DEF ConnectToContact
    <3> QED
      BY <1>2, <2>1, <3>1, NobodyAssumption DEF Idle
  <2>2. CASE current[p] # Nobody
    <3> DEFINE old == current[p]
    <3>1. /\ end' = [end EXCEPT ![p][p] = "calling", ![old][p] = "muted"]
          /\ posted' = [posted EXCEPT ![p] = Append(@, Event("CloseLater", old))]
      BY <2>2 DEF ConnectToContact, Posted
    <3>2. old \in Peers /\ old # p
      BY <1>2, <1>3, <2>2
    <3> HIDE DEF old
    <3>3. \A c, r \in Peers :
            end'[c][r] = IF r # p THEN end[c][r]
                         ELSE IF c = p THEN "calling"
                         ELSE IF c = old THEN "muted" ELSE end[c][r]
      BY <1>2, <3>1, <3>2
    <3>4. posted'[p] = <<Event("CloseLater", old)>> /\ \A r \in Peers : r # p => posted'[r] = posted[r]
      BY <1>2, <3>1 DEF Idle
    <3> QED
      BY <2>2, <3>3, <3>4 DEF old
  <2> QED
    BY <2>1, <2>2
<1>6. Alone(p)
  BY <1>2, <1>4, <1>5 DEF Alone
<1>7. Own(p)'
  <2>1. current'[p] = p /\ status'[p] = "CONNECTING" /\ current[p] \in Peers \cup {Nobody}
    BY <1>2, <1>4
  <2>2. \A c \in Peers : end'[c][p] = IF c = p THEN "calling"
                                      ELSE IF c = current[p] THEN "muted" ELSE end[c][p]
    BY <1>5
  <2>3. Own(p)
    BY DEF AInv
  <2> QED
    BY <1>3, <1>5, <2>1, <2>2, <2>3, OwnCall
<1>8. Joined(p)'
  <2>1. end'[p][p] = "calling" /\ end'[p][q] = "none"
    BY <1>1, <1>3, <1>5
  <2>2. wire'[p][p] = <<>> /\ wire'[p][q] = <<"Hello">>
    BY <1>1, <1>2, <1>3, <1>4
  <2> QED
    BY <1>1, <2>1, <2>2, JoinedCall DEF Joined
<1>9. Joined(q)'
  <2>1. wire'[q] = wire[q] /\ \A r \in Peers : wire'[q][r] = wire[q][r]
    BY <1>1, <1>2, <1>4
  <2>2. CASE current[p] = q
    <3>1. end[q][p] # "none"
      BY <2>2 DEF AInv, Own, Hears, Heard
    <3>2. end'[q][p] \in Shutting /\ \A r \in Peers : r # p => end'[q][r] = end[q][r]
      BY <1>1, <1>5, <2>2 DEF Shutting
    <3>3. JoinedIn(q, Other(q), end[q], wire[q])
      BY DEF AInv, Joined
    <3>4. JoinedIn(q, Other(q), end'[q], wire[q])
      BY <3>1, <3>2, <3>3, JoinedShut, OtherPeer
    <3> QED
      BY <2>1, <3>4 DEF Joined
  <2>3. CASE current[p] # q
    <3>1. \A r \in Peers : end'[q][r] = end[q][r]
      BY <1>1, <1>5, <2>3
    <3> QED
      BY <2>1, <3>1, JoinedSame DEF AInv
  <2> QED
    BY <2>2, <2>3
<1>10. \A r \in Peers : Settles(p, r)'
  <2>1. end'[p][q] = "none"
    BY <1>1, <1>3, <1>5
  <2> QED
    BY <2>1, SettlesShut
<1>11. current'[p] = p
  BY <1>2, <1>4
<1> QED
  BY <1>1, <1>6, <1>7, <1>8, <1>9, <1>10, <1>11, StepAgrees

\* What Peer::close() does, by an idle program.
LEMMA CloseParts ==
  ASSUME IInv, NEW p \in Peers, NEW d \in Peers, NEW as, Idle(p), Close(p, d, as)
  PROVE  /\ end \in [Peers -> [Peers -> EndStates]]
         /\ end' = [end EXCEPT ![d][p] = as]
         /\ \A c, r \in Peers : end'[c][r] = IF c = d /\ r = p THEN as ELSE end[c][r]
         /\ posted'[p] = <<Event("CloseLater", d)>>
         /\ \A r \in Peers : r # p => posted'[r] = posted[r]
<1>1. end \in [Peers -> [Peers -> EndStates]] /\ posted \in [Peers -> Seq(Events)]
  BY DEF IInv, EndSound, PostedSound
<1>2. /\ end' = [end EXCEPT ![d][p] = as]
      /\ posted' = [posted EXCEPT ![p] = Append(@, Event("CloseLater", d))]
  BY DEF Close, Posted
<1>3. \A c, r \in Peers : end'[c][r] = IF c = d /\ r = p THEN as ELSE end[c][r]
  BY <1>1, <1>2
<1>4. posted'[p] = <<Event("CloseLater", d)>> /\ \A r \in Peers : r # p => posted'[r] = posted[r]
  BY <1>1, <1>2 DEF Idle
<1> QED
  BY <1>1, <1>2, <1>3, <1>4

\* disconnectFromContact(), by an idle program that has a connection.
LEMMA DropAgrees ==
  ASSUME IInv, AInv, NEW p \in Peers, Idle(p), DisconnectFromContact(p),
         status[p] # "DISCONNECTED",
         \A r \in Peers : r # p => contact'[r] = contact[r] /\ timers'[r] = timers[r],
         \A x \in Peers : JoinedIn(x, Other(x), end[x], wire'[x])
  PROVE  AInv'
<1>1. Own(p) /\ Hears(p)
  BY DEF AInv, Own
<1>2. /\ current \in [Peers -> Peers \cup {Nobody}]
      /\ status \in [Peers -> {"DISCONNECTED", "CONNECTING", "ONLINE"}]
  BY DEF IInv, OnlineSound
<1>3. PICK d \in Peers : d = current[p]
  BY <1>1, <1>2 DEF Hears
<1>4. Close(p, d, "muted")
  BY <1>3, NobodyAssumption DEF DisconnectFromContact
<1>5. /\ end \in [Peers -> [Peers -> EndStates]]
      /\ end' = [end EXCEPT ![d][p] = "muted"]
      /\ \A c, r \in Peers : end'[c][r] = IF c = d /\ r = p THEN "muted" ELSE end[c][r]
      /\ posted'[p] = <<Event("CloseLater", d)>>
      /\ \A r \in Peers : r # p => posted'[r] = posted[r]
  BY <1>4, CloseParts
<1>6. /\ current'[p] = Nobody /\ status'[p] = "DISCONNECTED"
      /\ \A r \in Peers : r # p => current'[r] = current[r] /\ status'[r] = status[r]
  BY <1>2 DEF DisconnectFromContact
<1>7. Alone(p)
  BY <1>5, <1>6 DEF Alone
<1>8. Own(p)'
  <2>1. \A c \in Peers : end'[c][p] = IF c = d THEN "muted" ELSE end[c][p]
    BY <1>5
  <2>2. posted'[p] = <<Event("CloseLater", d)>>
    BY <1>5
  <2>3. current[p] = d /\ current'[p] = Nobody /\ status'[p] = "DISCONNECTED"
    BY <1>3, <1>6
  <2>4. Own(p)
    BY <1>1
  <2> QED
    BY <2>1, <2>2, <2>3, <2>4, OwnClose
<1>9. end[d][p] # "none"
  BY <1>1, <1>3 DEF Hears, Heard
<1>10. \A x \in Peers : Joined(x)'
  <2>1. "muted" \in Shutting
    BY DEF Shutting
  <2> QED
    BY <1>5, <1>9, <2>1, ShutJoined
<1>11. current'[p] \notin Peers
  BY <1>6, NobodyAssumption
<1> QED
  BY <1>7, <1>8, <1>10, <1>11, StepAgrees

\* An idle program that is online closes its connection, and will hear of it.
LEMMA CloseAgrees ==
  ASSUME IInv, AInv, NEW p \in Peers, Idle(p), status[p] = "ONLINE",
         Close(p, current[p], "closing"), UNCHANGED <<current, status>>,
         \A r \in Peers : r # p => contact'[r] = contact[r] /\ timers'[r] = timers[r],
         contact'[p].state = contact[p].state \/ contact'[p].state # "BLOCKED",
         \A x \in Peers : JoinedIn(x, Other(x), end[x], wire'[x])
  PROVE  AInv'
<1>1. Own(p) /\ Hears(p)
  BY DEF AInv, Own
<1>2. PICK d \in Peers : d = current[p]
  BY OnlineHasConnection
<1>3. Close(p, d, "closing")
  BY <1>2
<1>4. /\ end \in [Peers -> [Peers -> EndStates]]
      /\ end' = [end EXCEPT ![d][p] = "closing"]
      /\ \A c, r \in Peers : end'[c][r] = IF c = d /\ r = p THEN "closing" ELSE end[c][r]
      /\ posted'[p] = <<Event("CloseLater", d)>>
      /\ \A r \in Peers : r # p => posted'[r] = posted[r]
  BY <1>3, CloseParts
<1>5. Alone(p)
  BY <1>4 DEF Alone
<1>6. Own(p)'
  <2>1. \A c \in Peers : end'[c][p] = IF c = d THEN "closing" ELSE end[c][p]
    BY <1>4
  <2> QED
    BY ZenonT(40), <1>1, <1>2, <1>4, <2>1, OwnClose
<1>7. end[d][p] # "none"
  BY <1>1, <1>2 DEF Hears, Heard
<1>8. \A x \in Peers : Joined(x)'
  <2>1. "closing" \in Shutting
    BY DEF Shutting
  <2> QED
    BY <1>4, <1>7, <2>1, ShutJoined
<1>9. \A c, r \in Peers : current'[p] = c => Settles(c, r)'
  <2>1. end'[d][p] \notin {"calling", "open"}
    BY <1>4
  <2> QED
    BY <1>2, <2>1, SettlesShut
<1> QED
  BY <1>5, <1>6, <1>8, <1>9, StepAgrees

\* One who is online with nothing posted has a connection that is up.
LEMMA OnlineUp ==
  ASSUME IInv, AInv, NEW p \in Peers, Idle(p), status[p] = "ONLINE"
  PROVE  current[p] \in Peers /\ end[current[p]][p] = "open"
<1>1. PICK d \in Peers : d = current[p]
  BY OnlineHasConnection
<1>2. NoneShut(p) /\ Hears(p)
  BY IdleShut DEF AInv
<1>3. end[d][p] \in {"calling", "open", "closing"}
  BY <1>1, <1>2 DEF Hears, Heard
<1>4. end[d][p] # "calling" /\ end[d][p] \notin Shutting
  BY <1>2 DEF Hears, NoneShut
<1> QED
  BY <1>1, <1>3, <1>4 DEF Shutting

\* What a program sends over a connection that is up.
LEMMA SentJoined ==
  ASSUME IInv, AInv, NEW p \in Peers, NEW d \in Peers, end[d][p] = "open", NEW m \in Msgs,
         m \notin {"Hello", "Olleh", "End"}
  PROVE  \A x \in Peers : JoinedIn(x, Other(x), end[x], Sent(p, d, m)[x])
<1>1. JoinedIn(d, Other(d), end[d], Sent(p, d, m)[d])
  BY SendJoined DEF Shutting
<1>2. \A x \in Peers : x # d => Sent(p, d, m)[x] = wire[x]
  BY SentParts
<1>3. \A x \in Peers : JoinedIn(x, Other(x), end[x], wire[x])
  BY DEF AInv, Joined
<1> QED
  BY <1>1, <1>2, <1>3

\* A user has a new contact, and calls him, or not.
LEMMA AddedAgrees ==
  ASSUME IInv, AInv, NEW p \in Peers, Idle(p), ~contact[p].known,
         NEW initiated, NEW auto \in BOOLEAN,
         Added(p, NewContact(initiated, auto)), UNCHANGED timers
  PROVE  AInv'
<1>1. /\ contact'[p].state = "PENDING" /\ ~contact'[p].blocked
      /\ \A r \in Peers : r # p => contact'[r] = contact[r]
  BY DEF Added, NewContact, IInv, RowsSound
<1>2. CASE auto
  <2>1. ConnectToContact(p)
    BY <1>2 DEF Added, NewContact
  <2> QED
    BY <1>1, <2>1, ConnectAgrees
<1>3. CASE ~auto
  <2>1. UNCHANGED <<end, wire, posted, current, status>>
    BY <1>3 DEF Added, NewContact, connVars, onlineVars
  <2>2. \A d \in Peers : end[d][p] \notin {"calling", "open"}
    BY DEF IInv, EndSound, AInv, Own, Hears
  <2> QED
    BY <1>1, <2>1, <2>2, RowAgrees
<1> QED
  BY <1>2, <1>3

\* The user adds a contact.
LEMMA AddContactAgrees ==
  ASSUME IInv, AInv, NEW p \in Peers, NEW auto \in BOOLEAN, AddContact(p, auto)
  PROVE  AInv'
BY AddedAgrees DEF AddContact

\* The user accepts one who asked.
LEMMA AcceptContactAgrees ==
  ASSUME IInv, AInv, NEW p \in Peers, AcceptContact(p)
  PROVE  AInv'
BY AddedAgrees DEF AcceptContact

\* The user, or the timer, connects.
LEMMA ConnectKeepsAgreement ==
  ASSUME IInv, AInv, NEW p \in Peers, Connect(p)
  PROVE  AInv'
BY ConnectAgrees DEF Connect, contactVars

\* The user disconnects.
LEMMA DisconnectAgrees ==
  ASSUME IInv, AInv, NEW p \in Peers, Disconnect(p)
  PROVE  AInv'
<1>1. UNCHANGED <<contact, wire, timers>>
  BY DEF Disconnect, contactVars
<1>2. \A x \in Peers : JoinedIn(x, Other(x), end[x], wire'[x])
  BY <1>1 DEF AInv, Joined
<1> QED
  BY <1>1, <1>2, DropAgrees DEF Disconnect

\* The contact is blocked, or no more.
LEMMA SetBlockedAgrees ==
  ASSUME IInv, AInv, NEW p \in Peers, Idle(p), NEW value \in BOOLEAN,
         SetBlocked(p, value), UNCHANGED timers
  PROVE  AInv'
<1>1. /\ contact'[p].state = contact[p].state /\ contact'[p].blocked = value
      /\ \A r \in Peers : r # p => contact'[r] = contact[r]
  <2>1. contact \in [Peers -> ContactRows] /\ contact[p] \in ContactRows
    BY DEF IInv, RowsSound
  <2>2. contact' = [contact EXCEPT ![p] = [contact[p] EXCEPT !.blocked = value]]
    BY <2>1 DEF SetBlocked
  <2> QED
    BY <2>1, <2>2 DEF ContactRows
<1>2. CASE value \/ contact[p].state = "BLOCKED"
  <2>1. CASE status[p] = "ONLINE"
    <3>1. PICK d \in Peers : d = current[p] /\ end[d][p] = "open"
      BY <2>1, OnlineUp
    <3>2. /\ wire' = Sent(p, d, "Hello/Blocked")
          /\ Close(p, current[p], "closing") /\ UNCHANGED <<current, status>>
      BY <1>2, <2>1, <3>1 DEF SetBlocked, onlineVars
    <3>3. \A x \in Peers : JoinedIn(x, Other(x), end[x], wire'[x])
      <4>1. "Hello/Blocked" \in Msgs
        BY DEF Msgs, Acks
      <4> QED
        BY <3>1, <3>2, <4>1, SentJoined
    <3> QED
      BY <1>1, <2>1, <3>2, <3>3, CloseAgrees
  <2>2. CASE status[p] # "ONLINE"
    <3>1. UNCHANGED <<end, wire, posted, current, status>>
      BY <1>2, <2>2 DEF SetBlocked, onlineVars, connVars
    <3>2. \A d \in Peers : end[d][p] # "open"
      BY <2>2 DEF AInv, Own, Hears
    <3> QED
      BY <1>1, <3>1, <3>2, RowAgrees
  <2> QED
    BY <2>1, <2>2
<1>3. CASE ~(value \/ contact[p].state = "BLOCKED")
  <2>1. CASE contact[p].auto
    <3>1. ConnectToContact(p)
      BY <1>3, <2>1 DEF SetBlocked
    <3> QED
      BY <1>1, <3>1, ConnectAgrees
  <2>2. CASE ~contact[p].auto
    <3>1. UNCHANGED <<end, wire, posted, current, status>>
      BY <1>3, <2>2 DEF SetBlocked, onlineVars, connVars
    <3> QED
      BY <1>1, <1>3, <3>1, RowAgrees
  <2> QED
    BY <2>1, <2>2
<1> QED
  BY <1>2, <1>3

\* The user blocks the contact.
LEMMA BlockAgrees ==
  ASSUME IInv, AInv, NEW p \in Peers, Block(p)
  PROVE  AInv'
BY SetBlockedAgrees DEF Block

\* And does not any more.
LEMMA UnblockAgrees ==
  ASSUME IInv, AInv, NEW p \in Peers, Unblock(p)
  PROVE  AInv'
BY SetBlockedAgrees DEF Unblock

(***************************************************************************)
(* What a program posted to itself.                                        *)
(***************************************************************************)

\* What setting the state of p's row does.
LEMMA WithStateParts ==
  ASSUME IInv, NEW p \in Peers, NEW st, contact' = WithState(p, st)
  PROVE  /\ contact'[p].state = st /\ contact'[p].blocked = contact[p].blocked
         /\ \A r \in Peers : r # p => contact'[r] = contact[r]
<1>1. contact \in [Peers -> ContactRows] /\ contact[p] \in ContactRows
  BY DEF IInv, RowsSound
<1>2. contact' = [contact EXCEPT ![p] = [contact[p] EXCEPT !.state = st]]
  BY <1>1 DEF WithState
<1> QED
  BY <1>1, <1>2 DEF ContactRows

\* What is sent is on its way, if the connection is up at both ends.
LEMMA SentOnWay ==
  ASSUME IInv, NEW p \in Peers, NEW c \in Peers, NEW m \in Msgs, m # "End",
         wire' = Sent(p, c, m), end' = end
  PROVE  /\ \A d, r \in Peers : \A x : OnWay(d, r, x) => OnWay(d, r, x)'
         /\ \A d \in Peers : Together(d)' => Together(d)
         /\ Together(c)' => OnWay(c, Other(p), m)'
<1>1. \A d, r \in Peers : \A x : OnWay(d, r, x)' <=>
        OnWay(d, r, x) \/ (d = c /\ r = Other(p) /\ x = m /\ Reaches(c, Other(p)))
  BY SentParts DEF OnWay
<1>2. \A d \in Peers : Together(d)' => Together(d)
  BY <1>1 DEF Together
<1>3. Together(c)' => Reaches(c, Other(p))
  BY OtherPeer DEF Together, Reaches
<1> QED
  BY <1>1, <1>2, <1>3, OtherPeer

\* A request is sent.
LEMMA SendAddMeLaterAgrees ==
  ASSUME IInv, AInv, NEW p \in Peers, SendAddMeLater(p)
  PROVE  AInv'
<1>1. PICK q \in Peers : q = Other(p) /\ q # p /\ \A r \in Peers : r = p \/ r = q
  BY OtherPeer
<1>2. /\ UNCHANGED <<end, timers, current, status>> /\ Handles(p, "AddMeLater")
      /\ posted' = [posted EXCEPT ![p] = Tail(@)]
  BY DEF SendAddMeLater, Handled, onlineVars
<1>3. posted'[p] = Tail(posted[p]) /\ \A r \in Peers : r # p => posted'[r] = posted[r]
  BY <1>2 DEF IInv, PostedSound
<1>4. /\ \/ contact'[p].state = contact[p].state
         \/ contact'[p].state = "WAITING_FOR_ACCEPTANCE" /\ contact[p].state = "PENDING"
      /\ contact'[p].blocked = contact[p].blocked
      /\ \A r \in Peers : r # p => contact'[r] = contact[r]
  <2>1. contact' = contact \/ (contact' = WithState(p, "WAITING_FOR_ACCEPTANCE") /\ contact[p].state = "PENDING")
    BY DEF SendAddMeLater
  <2> QED
    BY <2>1, WithStateParts
<1>5. Own(p)' /\ Up(p) /\ status[p] = "ONLINE"
  <2>1. "AddMeLater" \in Talks
    BY DEF Talks
  <2> QED
    BY <1>2, <1>3, <1>4, <2>1, OwnTalked DEF AInv
<1>6. PICK d \in Peers : d = current[p] /\ end[d][p] = "open"
  BY <1>5 DEF Up
<1>7. "AddMe" \in Msgs /\ wire' = Sent(p, d, "AddMe")
  BY <1>5, <1>6 DEF SendAddMeLater, Msgs
<1>8. Alone(p)
  BY <1>2, <1>3, <1>4 DEF Alone
<1>9. \A x \in Peers : Joined(x)'
  <2>1. \A x \in Peers : JoinedIn(x, Other(x), end[x], Sent(p, d, "AddMe")[x])
    BY <1>6, <1>7, SentJoined
  <2> QED
    BY <1>2, <1>7, <2>1 DEF Joined
<1>10. /\ \A c, r \in Peers : \A x : OnWay(c, r, x) => OnWay(c, r, x)'
       /\ \A c \in Peers : Together(c)' => Together(c)
       /\ Together(d)' => OnWay(d, q, "AddMe")'
  BY <1>1, <1>2, <1>7, SentOnWay
<1>11. \A r \in Peers : Accepts(r)' <=> Accepts(r)
  BY <1>4 DEF Accepts
<1>12. Settles(d, q)'
  <2>1. Talking(q) => Talking(q)'
    BY <1>1, <1>3 DEF Talking
  <2> QED
    BY <1>1, <1>2, <1>4, <1>10, <1>11, <2>1, SettlesKept DEF AInv
<1>13. Settles(d, p)'
  <2> SUFFICES ASSUME Together(d)'
               PROVE  Confirms(d, p)' /\ Awaits(d, p)' /\ Tells(d, p)'
    BY DEF Settles
  <2>1. Confirms(d, p) /\ Tells(d, p)
    BY <1>6, <1>10 DEF AInv, Settles
  <2>2. Confirms(d, p)'
    BY <1>1, <1>2, <1>10, <1>11, <2>1 DEF Confirms
  <2>3. Awaits(d, p)'
    BY <1>1, <1>10 DEF Awaits
  <2>4. Tells(d, p)'
    BY <1>1, <1>2, <1>4, <1>10, <1>11, <2>1 DEF Tells
  <2> QED
    BY <2>2, <2>3, <2>4
<1>14. \A c, r \in Peers : current'[p] = c => Settles(c, r)'
  BY <1>1, <1>2, <1>6, <1>12, <1>13
<1> QED
  BY <1>5, <1>8, <1>9, <1>14, StepAgrees

\* One who asked is told that he was added.
LEMMA SendAddmeAckLaterAgrees ==
  ASSUME IInv, AInv, NEW p \in Peers, SendAddmeAckLater(p)
  PROVE  AInv'
<1>1. PICK q \in Peers : q = Other(p) /\ q # p /\ \A r \in Peers : r = p \/ r = q
  BY OtherPeer
<1>2. /\ UNCHANGED <<end, timers, current, status>> /\ Handles(p, "AckLater")
      /\ posted' = [posted EXCEPT ![p] = Tail(@)]
  BY DEF SendAddmeAckLater, Handled, onlineVars
<1>3. posted'[p] = Tail(posted[p]) /\ \A r \in Peers : r # p => posted'[r] = posted[r]
  BY <1>2 DEF IInv, PostedSound
<1>4. /\ contact'[p].state = contact[p].state \/ contact'[p].state = "ACCEPTED"
      /\ \A r \in Peers : r # p => contact'[r] = contact[r]
  <2>1. contact' = contact \/ contact' = WithState(p, "ACCEPTED")
    BY DEF SendAddmeAckLater
  <2> QED
    BY <2>1, WithStateParts
<1>5. Own(p)' /\ Up(p) /\ status[p] = "ONLINE"
  <2>1. "AckLater" \in Talks
    BY DEF Talks
  <2> QED
    BY <1>2, <1>3, <1>4, <2>1, OwnTalked DEF AInv
<1>6. PICK d \in Peers : d = current[p] /\ end[d][p] = "open"
  BY <1>5 DEF Up
<1>7. "Added" \in Msgs /\ wire' = Sent(p, d, "Added") /\ contact'[p].state = "ACCEPTED"
  BY <1>5, <1>6, WithStateParts DEF SendAddmeAckLater, Msgs, Acks
<1>8. Alone(p)
  BY <1>2, <1>3, <1>4 DEF Alone
<1>9. \A x \in Peers : Joined(x)'
  <2>1. \A x \in Peers : JoinedIn(x, Other(x), end[x], Sent(p, d, "Added")[x])
    BY <1>6, <1>7, SentJoined
  <2> QED
    BY <1>2, <1>7, <2>1 DEF Joined
<1>10. /\ \A c, r \in Peers : \A x : OnWay(c, r, x) => OnWay(c, r, x)'
       /\ \A c \in Peers : Together(c)' => Together(c)
       /\ Together(d)' => OnWay(d, q, "Added")'
  BY <1>1, <1>2, <1>7, SentOnWay
<1>11. Settles(d, q)'
  <2>1. Accepts(p)'
    BY <1>7 DEF Accepts
  <2>2. Settles(d, q)
    BY DEF AInv
  <2> QED
    BY <1>1, <1>2, <1>3, <1>4, <1>10, <2>1, <2>2, SettlesOther
<1>12. Settles(d, p)'
  BY <1>1, <1>7, <1>10 DEF Settles, Confirms, Awaits, Tells, Unanswered
<1>13. \A c, r \in Peers : current'[p] = c => Settles(c, r)'
  BY <1>1, <1>2, <1>6, <1>11, <1>12
<1> QED
  BY <1>5, <1>8, <1>9, <1>13, StepAgrees

\* A connection of which one end is gone is joined still.
LEMMA GoneJoined ==
  ASSUME IInv, AInv, NEW p \in Peers, NEW c \in Peers, NEW q, q = Other(p),
         end'[c][p] = "none", end'[c][q] = end[c][q], wire'[c][p] = <<>>,
         \/ /\ wire'[c][q] = Append(wire[c][q], "End") /\ Reaches(c, q)
         \/ /\ wire'[c][q] = wire[c][q]
            /\ OnWay(c, q, "End") \/ OnWay(c, p, "End") \/ ~Reaches(c, q)
  PROVE  Joined(c)'
<1>1. wire[c] \in Lines /\ end[c] \in Ends
  BY DEF IInv, WireSound, EndSound, Lines, Ends
<1>2. JoinedIn(c, Other(c), end[c], wire[c])
  BY DEF AInv, Joined
<1>3. Silent(wire'[c][p]) /\ (Reaches(c, q) <=> end[c][q] # "none" \/ ~Silent(wire[c][q]))
  BY DEF Silent, Reaches
<1>4. Put(wire[c], q, "End")[q] = Append(wire[c][q], "End")
  BY <1>1, OtherPeer DEF Put, Lines
<1>5. JoinedIn(c, Other(c), end'[c], wire'[c])
  <2>1. \/ /\ wire'[c][q] = wire[c][q]
           /\ \/ "End" \in All(wire[c][q]) \/ "End" \in All(wire[c][p])
              \/ end[c][q] = "none" /\ Silent(wire[c][q])
        \/ /\ wire'[c][q] = Put(wire[c], q, "End")[q]
           /\ end[c][q] # "none" \/ ~Silent(wire[c][q])
    BY <1>3, <1>4 DEF OnWay
  <2>2. q \in Peers /\ Other(c) \in Peers
    BY OtherPeer
  <2>3. PICK e2, v : e2 = end'[c] /\ v = wire'[c]
    OBVIOUS
  <2>4. JoinedIn(c, Other(c), e2, v)
    BY <1>1, <1>2, <1>3, <2>1, <2>2, <2>3, JoinedGone
  <2> QED
    BY <2>3, <2>4
<1> QED
  BY <1>5 DEF Joined

\* A connection on which nothing happens settles what it settled.
LEMMA SettlesSame ==
  ASSUME AInv, NEW p \in Peers, Alone(p), NEW d \in Peers,
         \A r \in Peers : end'[d][r] = end[d][r] /\ wire'[d][r] = wire[d][r],
         Talking(p) => Talking(p)', UNCHANGED <<contact, timers>>
  PROVE  \A r \in Peers : Settles(d, r)'
<1>1. \A r \in Peers : \A m : OnWay(d, r, m)' <=> OnWay(d, r, m)
  BY DEF OnWay
<1>2. Together(d)' => Together(d)
  BY <1>1 DEF Together
<1>3. \A r \in Peers : (Talking(r) => Talking(r)') /\ (Accepts(r) => Accepts(r)')
  BY DEF Talking, Accepts, Alone
<1> QED
  BY <1>1, <1>2, <1>3, SettlesKept DEF AInv

\* The end told to close is closed.
LEMMA CloseLaterAgrees ==
  ASSUME IInv, AInv, NEW p \in Peers, CloseLater(p)
  PROVE  AInv'
<1>1. PICK q \in Peers : q = Other(p) /\ q # p /\ \A r \in Peers : r = p \/ r = q
  BY OtherPeer
<1>2. PICK c : c = Head(posted[p]).conn
  OBVIOUS
<1>3. /\ Handles(p, "CloseLater") /\ posted' = [posted EXCEPT ![p] = Tail(@)]
      /\ end' = [end EXCEPT ![c][p] = "none"]
      /\ wire' = [wire EXCEPT ![c][p] = <<>>,
                              ![c][q] = IF Reaches(c, q) THEN Append(@, "End") ELSE @]
      /\ OnDisconnectedFromPeer(p, c)
      /\ UNCHANGED <<contact, timers>>
  BY <1>1, <1>2 DEF CloseLater, Handled, contactVars
<1>4. /\ posted \in [Peers -> Seq(Events)] /\ end \in [Peers -> [Peers -> EndStates]]
      /\ wire \in [Peers -> [Peers -> Seq(Msgs)]]
      /\ current \in [Peers -> Peers \cup {Nobody}]
      /\ status \in [Peers -> {"DISCONNECTED", "CONNECTING", "ONLINE"}]
  BY DEF IInv, PostedSound, EndSound, WireSound, OnlineSound
<1>5. posted'[p] = Tail(posted[p]) /\ \A r \in Peers : r # p => posted'[r] = posted[r]
  BY <1>3, <1>4
<1>6. \A d, r \in Peers : end'[d][r] = IF d = c /\ r = p THEN "none" ELSE end[d][r]
  BY <1>3, <1>4
<1>7. /\ current'[p] = IF Heard(p, c) THEN Nobody ELSE current[p]
      /\ status'[p] = IF Heard(p, c) THEN "DISCONNECTED" ELSE status[p]
      /\ \A r \in Peers : r # p => current'[r] = current[r] /\ status'[r] = status[r]
  BY <1>3, <1>4 DEF OnDisconnectedFromPeer
<1>8. Own(p)' /\ c \in Peers
  <2>1. \A d \in Peers : end'[d][p] = IF d = c THEN "none" ELSE end[d][p]
    BY <1>6
  <2>2. Own(p)
    BY DEF AInv
  <2>3. posted'[p] = Tail(posted[p]) /\ Handles(p, "CloseLater")
    BY <1>3, <1>5
  <2>4. /\ current'[p] = IF Heard(p, c) THEN Nobody ELSE current[p]
        /\ status'[p] = IF Heard(p, c) THEN "DISCONNECTED" ELSE status[p]
    BY <1>7
  <2>5. contact'[p].state = contact[p].state
    BY <1>3
  <2> QED
    BY SMTT(30), <1>2, <2>1, <2>2, <2>3, <2>4, <2>5, OwnClosed
<1>9. Alone(p)
  BY <1>3, <1>5, <1>6, <1>7 DEF Alone
<1>10. /\ \A d \in Peers : d # c => wire'[d] = wire[d]
       /\ wire'[c][p] = <<>>
       /\ wire'[c][q] = IF Reaches(c, q) THEN Append(wire[c][q], "End") ELSE wire[c][q]
  BY <1>1, <1>3, <1>4, <1>8
<1>11. ASSUME NEW d \in Peers
       PROVE  Joined(d)'
  <2>1. CASE d = c
    BY <1>1, <1>6, <1>8, <1>10, <2>1, GoneJoined
  <2>2. CASE d # c
    BY <1>6, <1>10, <2>2, JoinedSame DEF AInv
  <2> QED
    BY <2>1, <2>2
<1>12. ASSUME NEW d \in Peers
       PROVE  \A r \in Peers : Settles(d, r)'
  <2>1. CASE d = c
    BY <1>6, <2>1, SettlesShut
  <2>2. CASE d # c
    <3>1. ~Talking(p)
      BY <1>3 DEF Handles, Talking, Talks
    <3>2. \A r \in Peers : end'[d][r] = end[d][r] /\ wire'[d][r] = wire[d][r]
      BY <1>6, <1>10, <2>2
    <3>3. UNCHANGED <<contact, timers>>
      BY <1>3
    <3> QED
      BY <1>9, <3>1, <3>2, <3>3, SettlesSame
  <2> QED
    BY <2>1, <2>2
<1> QED
  BY <1>8, <1>9, <1>11, <1>12, StepAgrees

(***************************************************************************)
(* A connection is up.                                                     *)
(***************************************************************************)

\* scheduleProcessOnlineLater() leaves a timer running, and the other program's alone.
LEMMA ScheduledParts ==
  ASSUME IInv, NEW p \in Peers
  PROVE  Scheduled(p)[p] > 0 /\ \A r \in Peers : r # p => Scheduled(p)[r] = timers[r]
BY BoundsAssumption DEF IInv, CountersSound, Scheduled

\* What is read is not on its way any more, and all the rest is.
LEMMA ReceivedOnWay ==
  ASSUME IInv, NEW p \in Peers, NEW c \in Peers, NEW m, Arrives(p, c, m),
         wire' = Received(p, c)
  PROVE  \A d, r \in Peers : \A x :
           /\ OnWay(d, r, x) => OnWay(d, r, x)' \/ (d = c /\ r = p /\ x = m)
           /\ OnWay(d, r, x)' => OnWay(d, r, x)
<1>1. ~Silent(wire[c][p]) /\ First(wire[c][p]) = m
  BY DEF Arrives, Silent, First
<1>2. \A d, r \in Peers : \A x : x \in All(wire[d][r]) =>
        x \in All(Received(p, c)[d][r]) \/ (d = c /\ r = p /\ x = m)
  BY <1>1, ReceivedParts
<1>3. \A d, r \in Peers : \A x : x \in All(Received(p, c)[d][r]) => x \in All(wire[d][r])
  BY SMTT(30), <1>1, ReceivedParts
<1>4. \A d, r \in Peers : \A x : OnWay(d, r, x)' <=> x \in All(Received(p, c)[d][r])
  BY DEF OnWay
<1> QED
  BY <1>2, <1>3, <1>4 DEF OnWay

\* And so is the answer, if the connection is up at both ends.
LEMMA AnsweredOnWay ==
  ASSUME IInv, NEW p \in Peers, NEW c \in Peers, NEW m, Arrives(p, c, m),
         NEW d \in Peers, NEW a \in Msgs, a # "End", m # "End",
         wire' = Answered(p, c, d, a), end' = end
  PROVE  /\ \A b, r \in Peers : \A x :
              OnWay(b, r, x) => OnWay(b, r, x)' \/ (b = c /\ r = p /\ x = m)
         /\ \A b \in Peers : Together(b)' => Together(b)
         /\ Together(d)' => OnWay(d, Other(p), a)'
<1>1. ~Silent(wire[c][p]) /\ First(wire[c][p]) = m
  BY DEF Arrives, Silent, First
<1>2. \A b, r \in Peers : \A x : x \in All(wire[b][r]) =>
        x \in All(Received(p, c)[b][r]) \/ (b = c /\ r = p /\ x = m)
  BY SMTT(30), <1>1, ReceivedParts
<1>3. \A b, r \in Peers : \A x : OnWay(b, r, x)' <=>
        x \in All(Received(p, c)[b][r]) \/ (b = d /\ r = Other(p) /\ x = a /\ Reaches(d, Other(p)))
  <2>1. \A b, r \in Peers : \A x : x \in All(Answered(p, c, d, a)[b][r]) <=>
          x \in All(Received(p, c)[b][r]) \/ (b = d /\ r = Other(p) /\ x = a /\ Reaches(d, Other(p)))
    BY <1>1, AnsweredParts
  <2> QED
    BY <2>1 DEF OnWay
<1>4. \A b \in Peers : Together(b)' => Together(b)
  BY <1>2, <1>3 DEF Together, OnWay
<1>5. Together(d)' => Reaches(d, Other(p))
  BY OtherPeer DEF Together, Reaches
<1> QED
  BY <1>2, <1>3, <1>4, <1>5, OtherPeer DEF OnWay

\* What onConnectedToPeer() makes of the row.
LEMMA ConnectedRow ==
  ASSUME IInv, NEW p \in Peers, NEW c \in Peers, OnConnectedToPeer(p, c)
  PROVE  /\ contact'[p] = RowWhenConnected(p, c)
         /\ contact'[p].state # "BLOCKED"
         /\ contact[p].state # "BLOCKED" => contact'[p].state = contact[p].state
         /\ contact'[p].blocked = contact[p].blocked
         /\ contact'[p].verified <=> contact[p].verified \/ c = p
         /\ \A r \in Peers : r # p => contact'[r] = contact[r]
<1>1. contact \in [Peers -> ContactRows] /\ contact[p] \in ContactRows
  BY DEF IInv, RowsSound
<1>2. contact' = [contact EXCEPT ![p] = RowWhenConnected(p, c)]
  BY DEF OnConnectedToPeer
<1> QED
  BY <1>1, <1>2 DEF RowWhenConnected, ContactRows

\* What else onConnectedToPeer() does for one whose address was reached.
LEMMA OpenedParts ==
  ASSUME IInv, NEW p \in Peers, NEW c \in Peers, Idle(p), OnConnectedToPeer(p, c),
         c = p \/ contact[p].verified
  PROVE  /\ \A d, r \in Peers :
              end'[d][r] = IF r # p THEN end[d][r]
                           ELSE IF d = c THEN "open"
                           ELSE IF d = current[p] THEN "muted" ELSE end[d][r]
         /\ \A r \in Peers : r # p =>
              /\ posted'[r] = posted[r] /\ timers'[r] = timers[r]
              /\ current'[r] = current[r] /\ status'[r] = status[r]
         /\ current'[p] = c /\ status'[p] = "ONLINE"
         /\ timers'[p] > 0 \/ (timers'[p] = timers[p] /\ contact'[p].state # "ACCEPTED")
         /\ \E k \in Talks :
              \/ /\ current[p] \in {Nobody, c}
                 /\ posted'[p] = <<>> \/ posted'[p] = <<Event(k, c)>>
              \/ /\ current[p] \in Peers /\ current[p] # c
                 /\ \/ posted'[p] = <<Event("CloseLater", current[p])>>
                    \/ posted'[p] = <<Event(k, c), Event("CloseLater", current[p])>>
         /\ contact'[p].state \in Unanswered => Talking(p)'
<1> DEFINE row == RowWhenConnected(p, c)
<1>1. contact'[p] = row /\ ~Refuses(row)
  BY ConnectedRow DEF Refuses
<1>2. /\ end' = [d \in Peers |->
                   IF d = c THEN [end[d] EXCEPT ![p] = "open"]
                   ELSE IF d = current[p] THEN [end[d] EXCEPT ![p] = "muted"]
                   ELSE end[d]]
      /\ posted' = PostedWhenConnected(p, c, row)
      /\ timers' = IF row.state = "ACCEPTED" THEN Scheduled(p) ELSE timers
      /\ current' = [current EXCEPT ![p] = c]
      /\ status' = [status EXCEPT ![p] = "ONLINE"]
  BY <1>1 DEF OnConnectedToPeer
<1> HIDE DEF row
<1>3. /\ posted \in [Peers -> Seq(Events)] /\ end \in [Peers -> [Peers -> EndStates]]
      /\ current \in [Peers -> Peers \cup {Nobody}]
      /\ status \in [Peers -> {"DISCONNECTED", "CONNECTING", "ONLINE"}]
      /\ timers \in [Peers -> 0..MaxTimers]
  BY DEF IInv, PostedSound, EndSound, OnlineSound, CountersSound
<1>4. \A d, r \in Peers :
        end'[d][r] = IF r # p THEN end[d][r]
                     ELSE IF d = c THEN "open"
                     ELSE IF d = current[p] THEN "muted" ELSE end[d][r]
  BY <1>2, <1>3
<1>5. /\ current'[p] = c /\ status'[p] = "ONLINE"
      /\ \A r \in Peers : r # p => current'[r] = current[r] /\ status'[r] = status[r]
  BY <1>2, <1>3
<1>6. /\ timers'[p] > 0 \/ (timers'[p] = timers[p] /\ contact'[p].state # "ACCEPTED")
      /\ \A r \in Peers : r # p => timers'[r] = timers[r]
  BY <1>1, <1>2, ScheduledParts
<1> DEFINE k == IF row.initiated = "ME" THEN "AddMeLater" ELSE "AckLater"
           talk == IF row.state \notin Unanswered THEN <<>> ELSE <<Event(k, c)>>
           drop == IF current[p] \in {Nobody, c} THEN <<>>
                   ELSE <<Event("CloseLater", current[p])>>
<1>7. posted'[p] = talk \o drop /\ \A r \in Peers : r # p => posted'[r] = posted[r]
  <2>1. posted' = [posted EXCEPT ![p] = posted[p] \o talk \o drop]
    BY <1>2 DEF PostedWhenConnected
  <2>2. posted[p] = <<>>
    BY DEF Idle
  <2> HIDE DEF talk, drop
  <2>3. \A r \in Peers : r # p => posted'[r] = posted[r]
    BY <1>3, <2>1
  <2>4. posted'[p] = <<>> \o talk \o drop
    BY <1>3, <2>1, <2>2
  <2>5. <<>> \o talk = talk
    BY DEF talk
  <2> QED
    BY <2>3, <2>4, <2>5
<1>8. k \in Talks
  BY DEF Talks
<1> HIDE DEF k
<1>9. /\ \/ /\ current[p] \in {Nobody, c}
            /\ posted'[p] = <<>> \/ posted'[p] = <<Event(k, c)>>
         \/ /\ current[p] \in Peers /\ current[p] # c
            /\ \/ posted'[p] = <<Event("CloseLater", current[p])>>
               \/ posted'[p] = <<Event(k, c), Event("CloseLater", current[p])>>
      /\ row.state \in Unanswered => posted'[p] # <<>> /\ Head(posted'[p]) = Event(k, c)
  <2>1. CASE row.state \notin Unanswered /\ current[p] \in {Nobody, c}
    BY <1>7, <2>1
  <2>2. CASE row.state \notin Unanswered /\ current[p] \notin {Nobody, c}
    <3>1. posted'[p] = <<Event("CloseLater", current[p])>>
      BY <1>7, <2>2
    <3> QED
      BY <1>3, <2>2, <3>1
  <2>3. CASE row.state \in Unanswered /\ current[p] \in {Nobody, c}
    <3>1. posted'[p] = <<Event(k, c)>>
      BY <1>7, <2>3
    <3> QED
      BY <2>3, <3>1
  <2>4. CASE row.state \in Unanswered /\ current[p] \notin {Nobody, c}
    <3>1. PICK a, b : a = Event(k, c) /\ b = Event("CloseLater", current[p])
      OBVIOUS
    <3>2. talk = <<a>> /\ drop = <<b>>
      BY <2>4, <3>1
    <3>3. posted'[p] = <<a, b>>
      <4>1. posted'[p] = <<a>> \o <<b>>
        BY <1>7, <3>2
      <4>2. <<a>> \o <<b>> = <<a, b>>
        BY PairConcat
      <4> QED
        BY <4>1, <4>2
    <3> QED
      BY <1>3, <2>4, <3>1, <3>3
  <2> QED
    BY <2>1, <2>2, <2>3, <2>4
<1>10. contact'[p].state \in Unanswered => Talking(p)'
  BY <1>1, <1>8, <1>9 DEF Talking, Event
<1> QED
  BY <1>4, <1>5, <1>6, <1>7, <1>8, <1>9, <1>10

\* The invariant is kept if the connection that is up is joined, and is settled for the
\* other one if it was.
LEMMA OpenAgrees ==
  ASSUME IInv, AInv, NEW p \in Peers, NEW c \in Peers, Idle(p), OnConnectedToPeer(p, c),
         c = p \/ contact[p].verified,
         Joined(c)', \A x \in Peers : x # c => wire'[x] = wire[x],
         Settles(c, Other(p))'
  PROVE  AInv'
<1>1. PICK q \in Peers : q = Other(p) /\ q # p /\ \A r \in Peers : r = p \/ r = q
  BY OtherPeer
<1>2. /\ contact'[p].state # "BLOCKED"
      /\ \A r \in Peers : r # p => contact'[r] = contact[r]
  BY ConnectedRow
<1>3. /\ \A d, r \in Peers :
           end'[d][r] = IF r # p THEN end[d][r]
                        ELSE IF d = c THEN "open"
                        ELSE IF d = current[p] THEN "muted" ELSE end[d][r]
      /\ \A r \in Peers : r # p =>
           /\ posted'[r] = posted[r] /\ timers'[r] = timers[r]
           /\ current'[r] = current[r] /\ status'[r] = status[r]
      /\ current'[p] = c /\ status'[p] = "ONLINE"
      /\ timers'[p] > 0 \/ (timers'[p] = timers[p] /\ contact'[p].state # "ACCEPTED")
      /\ contact'[p].state \in Unanswered => Talking(p)'
  BY OpenedParts
<1>4. PICK k \in Talks :
        \/ /\ current[p] \in {Nobody, c}
           /\ posted'[p] = <<>> \/ posted'[p] = <<Event(k, c)>>
        \/ /\ current[p] \in Peers /\ current[p] # c
           /\ \/ posted'[p] = <<Event("CloseLater", current[p])>>
              \/ posted'[p] = <<Event(k, c), Event("CloseLater", current[p])>>
  BY OpenedParts
<1>5. Alone(p)
  BY <1>2, <1>3 DEF Alone
<1>6. Own(p)'
  <2>1. \A d \in Peers : end'[d][p] = IF d = c THEN "open"
                                      ELSE IF d = current[p] THEN "muted" ELSE end[d][p]
    BY <1>3
  <2>2. Own(p) /\ current[p] \in Peers \cup {Nobody}
    BY DEF AInv, IInv, OnlineSound
  <2> QED
    BY <1>2, <1>3, <1>4, <2>1, <2>2, OwnOpen
<1>7. ASSUME NEW x \in Peers
      PROVE  Joined(x)'
  <2>1. CASE x = c
    BY <2>1
  <2>2. CASE x # c /\ x = current[p]
    <3>1. end[x][p] # "none"
      BY <2>2 DEF AInv, Own, Hears, Heard
    <3>2. end'[x][p] \in Shutting /\ \A r \in Peers : r # p => end'[x][r] = end[x][r]
      BY <1>3, <2>2 DEF Shutting
    <3>3. JoinedIn(x, Other(x), end[x], wire[x])
      BY DEF AInv, Joined
    <3>4. JoinedIn(x, Other(x), end'[x], wire[x])
      BY <3>1, <3>2, <3>3, JoinedShut, OtherPeer
    <3> QED
      BY <2>2, <3>4 DEF Joined
  <2>3. CASE x # c /\ x # current[p]
    <3>1. \A r \in Peers : end'[x][r] = end[x][r]
      BY <1>3, <2>3
    <3> QED
      BY <2>3, <3>1, JoinedSame DEF AInv
  <2> QED
    BY <2>1, <2>2, <2>3
<1>8. Settles(c, p)'
  BY <1>3, SettlesTimed DEF Accepts
<1>9. \A d, r \in Peers : current'[p] = d => Settles(d, r)'
  BY <1>1, <1>3, <1>8
<1> QED
  BY <1>5, <1>6, <1>7, <1>9, StepAgrees

\* The caller reads the answer.
LEMMA ReceiveOllehAgrees ==
  ASSUME IInv, AInv, NEW p \in Peers, ReceiveOlleh(p)
  PROVE  AInv'
<1>1. PICK q \in Peers : q = Other(p) /\ q # p /\ \A r \in Peers : r = p \/ r = q
  BY OtherPeer
<1>2. /\ ~Silent(wire[p][p]) /\ First(wire[p][p]) = "Olleh" /\ Idle(p)
      /\ Arrives(p, p, "Olleh") /\ wire' = Received(p, p) /\ OnConnectedToPeer(p, p)
  BY DEF ReceiveOlleh, Arrives, Silent, First
<1>3. /\ wire[p] \in Lines /\ end[p] \in Ends
      /\ wire'[p] = Take(wire[p], p)
      /\ \A d \in Peers : d # p => wire'[d] = wire[d]
  BY <1>2, ReceivedParts
<1>4. \A r \in Peers : \A x : /\ OnWay(p, r, x) => OnWay(p, r, x)' \/ x = "Olleh"
                              /\ OnWay(p, r, x)' => OnWay(p, r, x)
  BY <1>2, ReceivedOnWay
<1>5. /\ end'[p][p] = "open" /\ end'[p][q] = end[p][q]
      /\ \A r \in Peers : r # p => posted'[r] = posted[r] /\ timers'[r] = timers[r]
      /\ timers'[p] > 0 \/ (timers'[p] = timers[p] /\ contact'[p].state # "ACCEPTED")
  BY <1>1, <1>2, OpenedParts
<1>6. JoinedIn(p, q, end'[p], wire'[p]) /\ end[p][p] # "none"
  <2>1. JoinedIn(p, q, end[p], wire[p])
    BY <1>1 DEF AInv, Joined
  <2>2. PICK e2 : e2 = end'[p]
    OBVIOUS
  <2> QED
    BY <1>1, <1>2, <1>3, <1>5, <2>1, <2>2, JoinedOlleh
<1>7. Joined(p)'
  BY <1>1, <1>6 DEF Joined
<1>8. /\ contact[p].state # "BLOCKED" => contact'[p].state = contact[p].state
      /\ \A r \in Peers : r # p => contact'[r] = contact[r]
  BY <1>2, ConnectedRow
<1>9. Settles(p, q)'
  <2>1. end[p][p] \in {"calling", "open"}
    <3>1. NoneShut(p) /\ Hears(p) /\ end[p][p] \in EndStates
      BY <1>2, IdleShut DEF AInv, IInv, EndSound
    <3> QED
      BY <1>6, <3>1 DEF NoneShut, Hears, EndStates, Shutting
  <2>2. Together(p)' => Together(p)
    BY <1>1, <1>4, <1>5, <2>1 DEF Together
  <2>3. \A r \in Peers : Accepts(r) => Accepts(r)'
    BY <1>8 DEF Accepts
  <2>4. \A r \in Peers : timers[r] > 0 => timers'[r] > 0
    BY <1>5
  <2>5. Talking(q) => Talking(q)'
    BY <1>1, <1>5 DEF Talking
  <2>6. \A r \in Peers : end[p][r] = "open" => end'[p][r] = "open"
    BY <1>1, <1>5
  <2>7. \A r \in Peers, m \in {"UserInfo", "Added", "AddMe"} :
          OnWay(p, r, m) => OnWay(p, r, m)'
    BY <1>4
  <2>8. Settles(p, q) /\ contact'[q] = contact[q]
    BY <1>1, <1>8 DEF AInv
  <2> QED
    BY <1>5, <2>2, <2>3, <2>4, <2>5, <2>6, <2>7, <2>8, SettlesKept
<1> QED
  BY <1>1, <1>2, <1>3, <1>7, <1>9, OpenAgrees

\* Whoever is called reads the Hello: he has no end yet, and the caller's is not up.
LEMMA HelloJoined ==
  ASSUME IInv, AInv, NEW p \in Peers, NEW c \in Peers, Arrives(p, c, "Hello"),
         end'[c][c] = end[c][c], end'[c][p] # "none",
         \/ wire' = Received(p, c) /\ end'[c][p] \in Shutting
         \/ wire' = Answered(p, c, c, "Olleh")
  PROVE  /\ Joined(c)'
         /\ \A x \in Peers : x # c => wire'[x] = wire[x]
<1>1. ~Silent(wire[c][p]) /\ First(wire[c][p]) = "Hello"
  BY DEF Arrives, Silent, First
<1>2. PICK q \in Peers : q = Other(c)
  BY OtherPeer
<1>3. /\ wire[c] \in Lines /\ end[c] \in Ends
      /\ Received(p, c)[c] = Take(wire[c], p)
      /\ \A d \in Peers : d # c => Received(p, c)[d] = wire[d]
  BY <1>1, ReceivedParts
<1>4. JoinedIn(c, q, end[c], wire[c])
  BY <1>2 DEF AInv, Joined
<1>5. p = q
  <2>1. "Hello" \in All(wire[c][p])
    BY <1>1, <1>3, SilentParts
  <2>2. "Hello" \notin All(wire[c][c])
    BY <1>4 DEF JoinedIn, Greets
  <2> QED
    BY <1>2, <2>1, <2>2, OtherPeer
<1>6. Other(p) = c
  BY <1>2, <1>5, OtherPeer
<1>7. Reaches(c, c) <=> end[c][c] # "none"
  BY <1>4 DEF JoinedIn, Greets, Reaches, Silent
<1>8. CASE wire' = Received(p, c) /\ end'[c][p] \in Shutting
  <2>1. PICK e2, v : e2 = end'[c] /\ v = wire'[c]
    OBVIOUS
  <2>2. JoinedIn(c, q, e2, v)
    BY <1>1, <1>2, <1>3, <1>4, <1>5, <1>8, <2>1, JoinedHello
  <2> QED
    BY <1>2, <1>3, <1>8, <2>1, <2>2 DEF Joined
<1>9. CASE wire' = Answered(p, c, c, "Olleh")
  <2>1. "Olleh" \in Msgs
    BY DEF Msgs
  <2>2. /\ \A x \in Peers : x # c => wire'[x] = wire[x]
        /\ Reaches(c, c) => wire'[c] = Put(Take(wire[c], p), c, "Olleh")
        /\ ~Reaches(c, c) => wire'[c] = Take(wire[c], p)
    BY <1>1, <1>3, <1>6, <1>9, <2>1, AnsweredParts
  <2>3. PICK e2, v : e2 = end'[c] /\ v = wire'[c]
    OBVIOUS
  <2>4. JoinedIn(c, q, e2, v)
    BY <1>1, <1>2, <1>3, <1>4, <1>5, <1>7, <2>2, <2>3, JoinedHello
  <2> QED
    BY <1>2, <2>2, <2>3, <2>4 DEF Joined
<1> QED
  BY <1>8, <1>9

\* Who reads a Hello was called, and has no end yet; the caller's is not up.
LEMMA HelloParts ==
  ASSUME IInv, AInv, NEW p \in Peers, NEW c \in Peers, Arrives(p, c, "Hello")
  PROVE  /\ c = Other(p) /\ c # p /\ Idle(p)
         /\ end[c][p] = "none" /\ end[c][c] # "open" /\ current[p] # c
<1>1. ~Silent(wire[c][p]) /\ First(wire[c][p]) = "Hello" /\ Idle(p)
  BY DEF Arrives, Silent, First
<1>2. PICK q \in Peers : q = Other(c) /\ q # c
  BY OtherPeer
<1>3. wire[c] \in Lines
  BY <1>1, ReceivedParts
<1>4. JoinedIn(c, q, end[c], wire[c])
  BY <1>2 DEF AInv, Joined
<1>5. p = q
  <2>1. "Hello" \in All(wire[c][p])
    BY <1>1, <1>3, SilentParts
  <2>2. "Hello" \notin All(wire[c][c])
    BY <1>4 DEF JoinedIn, Greets
  <2> QED
    BY <1>2, <2>1, <2>2, OtherPeer
<1>6. end[c][p] = "none" /\ end[c][c] # "open"
  BY <1>1, <1>4, <1>5 DEF JoinedIn, Greets
<1>7. current[p] # c
  BY <1>6 DEF AInv, Own, Hears, Heard
<1> QED
  BY <1>1, <1>2, <1>5, <1>6, <1>7, OtherPeer

(***************************************************************************)
(* What arrives.                                                           *)
(***************************************************************************)

\* An idle program closes, unheard, an end it does not hear of.
LEMMA MutesAgrees ==
  ASSUME IInv, AInv, NEW p \in Peers, NEW c \in Peers, Idle(p), Close(p, c, "muted"),
         UNCHANGED <<timers, current, status>>, current[p] # c,
         \A x \in Peers : x # c => wire'[x] = wire[x], \A x \in Peers : Joined(x)',
         \A r \in Peers : r # p => contact'[r] = contact[r],
         contact'[p].state = contact[p].state \/ contact'[p].state # "BLOCKED",
         contact'[p].state = contact[p].state \/ (status[p] # "ONLINE" /\ ~Accepts(p)),
         contact'[p].blocked = contact[p].blocked
  PROVE  AInv'
<1>1. Own(p) /\ Hears(p)
  BY DEF AInv, Own
<1>2. /\ \A d, r \in Peers : end'[d][r] = IF d = c /\ r = p THEN "muted" ELSE end[d][r]
      /\ posted'[p] = <<Event("CloseLater", c)>>
      /\ \A r \in Peers : r # p => posted'[r] = posted[r]
  BY CloseParts
<1>3. Alone(p)
  BY <1>2 DEF Alone
<1>4. Own(p)'
  <2>1. \A d \in Peers : end'[d][p] = IF d = c THEN "muted" ELSE end[d][p]
    BY <1>2
  <2> QED
    BY <1>1, <1>2, <2>1, OwnClose
<1>5. ASSUME NEW d \in Peers, NEW r \in Peers
      PROVE  Settles(d, r)'
  <2>1. CASE d = c
    BY <1>2, <2>1, SettlesShut
  <2>2. CASE d # c
    <3>1. \A s \in Peers : end'[d][s] = end[d][s]
      BY <1>2, <2>2
    <3>2. \A s \in Peers : \A m : OnWay(d, s, m) <=> OnWay(d, s, m)'
      BY <2>2 DEF OnWay
    <3>3. Together(d)' => Together(d)
      BY <3>1, <3>2 DEF Together
    <3>4. \A s \in Peers : Accepts(s) => Accepts(s)'
      BY DEF Accepts
    <3>5. Talking(r) => Talking(r)'
      BY <1>2 DEF Talking, Idle
    <3>6. end[d][r] = "open" => /\ contact'[r].state = contact[r].state
                                /\ contact'[r].blocked => contact[r].blocked
      BY <1>1 DEF Hears
    <3> QED
      BY <3>1, <3>2, <3>3, <3>4, <3>5, <3>6, SettlesKept DEF AInv
  <2> QED
    BY <2>1, <2>2
<1> QED
  BY <1>3, <1>4, <1>5, StepAgrees

\* A Hello is read: of a stranger, of one who is not let in, or of the contact.
LEMMA ReceiveHelloAgrees ==
  ASSUME IInv, AInv, NEW p \in Peers, NEW c \in Peers, ReceiveHello(p, c)
  PROVE  AInv'
<1>1. Arrives(p, c, "Hello")
  BY DEF ReceiveHello
<1>2. /\ c = Other(p) /\ c # p /\ Idle(p)
      /\ end[c][p] = "none" /\ end[c][c] # "open" /\ current[p] # c
  BY <1>1, HelloParts
<1>3. /\ end \in [Peers -> [Peers -> EndStates]]
      /\ contact \in [Peers -> ContactRows] /\ contact[p] \in ContactRows
  BY DEF IInv, EndSound, RowsSound
<1>4. CASE ~contact[p].known
  <2>1. /\ end' = [end EXCEPT ![c][p] = "stranger"] /\ wire' = Answered(p, c, c, "Olleh")
        /\ UNCHANGED <<contact, posted, timers, current, status>>
    BY <1>4 DEF ReceiveHello, onlineVars
  <2>2. \A d, r \in Peers : end'[d][r] = IF d = c /\ r = p THEN "stranger" ELSE end[d][r]
    BY <1>3, <2>1
  <2>3. Alone(p)
    BY <2>1, <2>2 DEF Alone
  <2>4. Own(p)'
    <3>1. \A d \in Peers : end'[d][p] = IF d = c THEN "stranger" ELSE end[d][p]
      BY <2>2
    <3> QED
      BY <1>2, <2>1, <3>1, OwnStranger DEF AInv
  <2>5. Joined(c)' /\ \A x \in Peers : x # c => wire'[x] = wire[x]
    BY <1>1, <1>2, <2>1, <2>2, HelloJoined
  <2>6. ASSUME NEW x \in Peers
        PROVE  Joined(x)' /\ \A r \in Peers : Settles(x, r)'
    <3>1. CASE x = c
      BY <2>2, <2>5, <3>1, SettlesShut
    <3>2. CASE x # c
      <4>1. \A r \in Peers : end'[x][r] = end[x][r] /\ wire'[x][r] = wire[x][r]
        BY <2>2, <2>5, <3>2
      <4>2. UNCHANGED <<contact, timers>> /\ (Talking(p) => Talking(p)')
        BY <2>1 DEF Talking
      <4>3. Joined(x)'
        BY <4>1, JoinedSame DEF AInv
      <4> QED
        BY <2>3, <4>1, <4>2, <4>3, SettlesSame
    <3> QED
      BY <3>1, <3>2
  <2> QED
    BY <2>3, <2>4, <2>6, StepAgrees
<1>5. ASSUME Close(p, c, "muted"), UNCHANGED <<timers, current, status>>,
             \/ wire' = Received(p, c) \/ wire' = Answered(p, c, c, "Olleh"),
             \A r \in Peers : r # p => contact'[r] = contact[r],
             contact'[p].state = contact[p].state \/ contact'[p].state # "BLOCKED",
             contact'[p].state = contact[p].state \/ (status[p] # "ONLINE" /\ ~Accepts(p)),
             contact'[p].blocked = contact[p].blocked
      PROVE  AInv'
  <2>1. \A d, r \in Peers : end'[d][r] = IF d = c /\ r = p THEN "muted" ELSE end[d][r]
    BY <1>2, <1>5, CloseParts
  <2>2. end'[c][p] \in Shutting /\ end'[c][p] # "none" /\ end'[c][c] = end[c][c]
    BY <1>2, <2>1 DEF Shutting
  <2>3. Joined(c)' /\ \A x \in Peers : x # c => wire'[x] = wire[x]
    BY <1>1, <1>5, <2>2, HelloJoined
  <2>4. ASSUME NEW x \in Peers, x # c
        PROVE  Joined(x)'
    BY <2>1, <2>3, <2>4, JoinedSame DEF AInv
  <2> QED
    BY <1>2, <1>5, <2>3, <2>4, MutesAgrees
<1>6. CASE contact[p].known /\ ~Authorizes(contact[p])
  <2>1. /\ Close(p, c, "muted") /\ wire' = Received(p, c)
        /\ UNCHANGED <<contact, timers, current, status>>
    BY <1>6 DEF ReceiveHello, onlineVars
  <2> QED
    BY <1>5, <2>1
<1>7. CASE contact[p].known /\ Authorizes(contact[p])
  <2>1. wire' = Answered(p, c, c, "Olleh") /\ OnConnectedToPeer(p, c)
    BY <1>7 DEF ReceiveHello
  <2>2. /\ contact'[p] = RowWhenConnected(p, c)
        /\ contact'[p].state # "BLOCKED"
        /\ contact[p].state # "BLOCKED" => contact'[p].state = contact[p].state
        /\ contact'[p].blocked = contact[p].blocked
        /\ contact'[p].verified <=> contact[p].verified \/ c = p
        /\ \A r \in Peers : r # p => contact'[r] = contact[r]
    BY <2>1, ConnectedRow
  <2>3. CASE contact[p].verified
    <3>1. \A d, r \in Peers :
            end'[d][r] = IF r # p THEN end[d][r]
                         ELSE IF d = c THEN "open"
                         ELSE IF d = current[p] THEN "muted" ELSE end[d][r]
      BY <1>2, <2>1, <2>3, OpenedParts
    <3>2. end'[c][c] = end[c][c] /\ end'[c][p] # "none"
      BY <1>2, <3>1
    <3>3. Joined(c)' /\ \A x \in Peers : x # c => wire'[x] = wire[x]
      BY <1>1, <2>1, <3>2, HelloJoined
    <3>4. Settles(c, Other(p))'
      BY <1>2, <3>2 DEF Settles
    <3> QED
      BY <1>2, <2>1, <2>3, <3>3, <3>4, OpenAgrees
  <2>4. CASE ~contact[p].verified
    <3>1. Refuses(RowWhenConnected(p, c))
      BY <1>2, <2>2, <2>4 DEF Refuses
    <3>2. Close(p, c, "muted") /\ UNCHANGED <<timers, current, status>>
      BY <2>1, <3>1 DEF OnConnectedToPeer, onlineVars
    <3>3. status[p] # "ONLINE" /\ ~Accepts(p)
      BY <2>4 DEF IInv, OnlineSound, RowsSound, RowSound, Accepts
    <3> QED
      BY <1>5, <2>1, <2>2, <3>2, <3>3
  <2> QED
    BY <2>3, <2>4
<1> QED
  BY <1>4, <1>6, <1>7

\* What a stranger says is heard by nobody.
LEMMA IgnoredAgrees ==
  ASSUME IInv, AInv, NEW p \in Peers, NEW c \in Peers, NEW m, Arrives(p, c, m),
         m \notin {"Hello", "Olleh", "End"}, end[c][p] = "stranger",
         wire' = Received(p, c), UNCHANGED <<contact, end, posted, timers, current, status>>
  PROVE  AInv'
<1>1. Alone(p)
  BY DEF Alone
<1>2. Own(p)'
  BY OwnLearns DEF AInv
<1>3. \A x \in Peers : Joined(x)'
  <2>1. \A x \in Peers : JoinedIn(x, Other(x), end[x], Received(p, c)[x])
    BY ReadJoined
  <2> QED
    BY <2>1 DEF Joined
<1>4. ASSUME NEW x \in Peers
      PROVE  \A r \in Peers : Settles(x, r)'
  <2>1. CASE x = c
    BY <2>1, SettlesShut
  <2>2. CASE x # c
    <3>1. wire'[x] = wire[x]
      <4>1. ~Silent(wire[c][p]) /\ First(wire[c][p]) = m
        BY DEF Arrives, Silent, First
      <4> QED
        BY <2>2, <4>1, ReceivedParts
    <3>2. Talking(p) => Talking(p)'
      BY DEF Talking
    <3> QED
      BY <1>1, <3>1, <3>2, SettlesSame
  <2> QED
    BY <2>1, <2>2
<1> QED
  BY <1>1, <1>2, <1>3, <1>4, StepAgrees

\* What else a stranger sends is not heard.
LEMMA IgnoreStrangerAgrees ==
  ASSUME IInv, AInv, NEW p \in Peers, NEW c \in Peers, IgnoreStranger(p, c)
  PROVE  AInv'
<1>1. PICK m \in Acks \cup {"UserInfo"} : Arrives(p, c, m)
  BY DEF IgnoreStranger
<1>2. m \notin {"Hello", "Olleh", "End"}
  BY DEF Acks
<1> QED
  BY <1>1, <1>2, IgnoredAgrees DEF IgnoreStranger, contactVars, onlineVars

\* A stranger's request: he is let go.
LEMMA OnStrangersRequestAgrees ==
  ASSUME IInv, AInv, NEW p \in Peers, NEW c \in Peers, Arrives(p, c, "AddMe"),
         end[c][p] = "stranger", OnStrangersRequest(p, c), UNCHANGED <<current, status>>
  PROVE  AInv'
<1>1. /\ wire' = Received(p, c) /\ Close(p, c, "muted") /\ UNCHANGED <<contact, timers>>
      /\ Idle(p)
  BY DEF OnStrangersRequest, Arrives
<1>2. current[p] # c
  BY DEF AInv, Own, Hears, Heard
<1>3. \A x \in Peers : x # c => wire'[x] = wire[x]
  <2>1. ~Silent(wire[c][p]) /\ First(wire[c][p]) = "AddMe"
    BY DEF Arrives, Silent, First
  <2> QED
    BY <1>1, <2>1, ReceivedParts
<1>4. \A x \in Peers : Joined(x)'
  <2>1. \A x \in Peers : JoinedIn(x, Other(x), end[x], Received(p, c)[x])
    BY ReadJoined
  <2>2. "muted" \in Shutting /\ end[c][p] # "none"
    BY DEF Shutting
  <2>3. end \in [Peers -> [Peers -> EndStates]] /\ end' = [end EXCEPT ![c][p] = "muted"]
    BY <1>1, CloseParts
  <2> QED
    BY <1>1, <2>1, <2>2, <2>3, ShutJoined
<1> QED
  BY <1>1, <1>2, <1>3, <1>4, MutesAgrees

\* The contact's request.
LEMMA OnAddmeRequestAgrees ==
  ASSUME IInv, AInv, NEW p \in Peers, NEW c \in Peers, Arrives(p, c, "AddMe"),
         OnAddmeRequest(p, c), UNCHANGED <<current, status>>
  PROVE  AInv'
<1>1. PICK q \in Peers : q = Other(p) /\ q # p /\ \A r \in Peers : r = p \/ r = q
  BY OtherPeer
<1>2. Idle(p)
  BY DEF Arrives
<1>3. CASE status[p] # "ONLINE"
  <2>1. end[c][p] = "stranger"
    <3>1. end[c][p] \in {"stranger", "open"}
      BY ReadJoined
    <3> QED
      BY <1>3, <3>1 DEF AInv, Own, Hears
  <2>2. wire' = Received(p, c) /\ UNCHANGED <<contact, end, posted, timers>>
    BY <1>3 DEF OnAddmeRequest
  <2> QED
    BY <2>1, <2>2, IgnoredAgrees
<1>4. CASE status[p] = "ONLINE"
  <2>1. PICK d \in Peers : d = current[p] /\ end[d][p] = "open"
    BY <1>2, <1>4, OnlineUp
  <2>2. PICK a \in {"Pending", "Blocked", "Rejected", "Added"} :
          /\ wire' = Answered(p, c, d, a)
          /\ IF a = "Added"
             THEN /\ contact' = WithState(p, "ACCEPTED")
                  /\ timers' = Scheduled(p)
                  /\ UNCHANGED <<end, posted>>
             ELSE Close(p, d, "closing") /\ UNCHANGED <<contact, timers>>
    BY <1>4, <2>1 DEF OnAddmeRequest
  <2>3. a \in Msgs /\ a \notin {"Hello", "Olleh", "End"}
    BY DEF Msgs, Acks
  <2>4. \A x \in Peers : JoinedIn(x, Other(x), end[x], wire'[x])
    BY <2>1, <2>2, <2>3, AnswerJoined
  <2>5. CASE a # "Added"
    BY <1>2, <1>4, <2>1, <2>2, <2>4, <2>5, CloseAgrees
  <2>6. CASE a = "Added"
    <3>1. /\ wire' = Answered(p, c, d, "Added") /\ contact' = WithState(p, "ACCEPTED")
          /\ timers' = Scheduled(p) /\ UNCHANGED <<end, posted>>
      BY <2>2, <2>6
    <3>2. contact'[p].state = "ACCEPTED" /\ \A r \in Peers : r # p => contact'[r] = contact[r]
      BY <3>1, WithStateParts
    <3>3. timers'[p] > 0 /\ \A r \in Peers : r # p => timers'[r] = timers[r]
      BY <3>1, ScheduledParts
    <3>4. Alone(p)
      BY <3>1, <3>2, <3>3 DEF Alone
    <3>5. Own(p)'
      BY <3>1, <3>2, OwnLearns DEF AInv
    <3>6. \A x \in Peers : Joined(x)'
      BY <2>4, <3>1 DEF Joined
    <3>7. Settles(d, p)'
      BY <3>2, <3>3, SettlesTimed DEF Unanswered
    <3>8. Settles(d, q)'
      <4>1. "Added" \in Msgs
        BY DEF Msgs, Acks
      <4>2. /\ \A b, r \in Peers : \A x :
                 OnWay(b, r, x) => OnWay(b, r, x)' \/ (b = c /\ r = p /\ x = "AddMe")
            /\ \A b \in Peers : Together(b)' => Together(b)
            /\ Together(d)' => OnWay(d, q, "Added")'
        BY <1>1, <3>1, <4>1, AnsweredOnWay
      <4>3. Settles(d, q) /\ Accepts(p)'
        BY <3>2 DEF AInv, Accepts
      <4> QED
        BY <1>1, <3>1, <3>2, <3>3, <4>2, <4>3, SettlesOther
    <3>9. \A x, r \in Peers : current'[p] = x => Settles(x, r)'
      BY <1>1, <2>1, <3>7, <3>8
    <3> QED
      BY <3>4, <3>5, <3>6, <3>9, StepAgrees
  <2> QED
    BY <2>5, <2>6
<1> QED
  BY <1>3, <1>4

\* A request arrives.
LEMMA ReceiveAddMeAgrees ==
  ASSUME IInv, AInv, NEW p \in Peers, NEW c \in Peers, ReceiveAddMe(p, c)
  PROVE  AInv'
BY OnStrangersRequestAgrees, OnAddmeRequestAgrees DEF ReceiveAddMe, onlineVars

\* An ack.
LEMMA ReceiveAckAgrees ==
  ASSUME IInv, AInv, NEW p \in Peers, NEW c \in Peers, NEW ack \in Acks,
         ReceiveAck(p, c, ack)
  PROVE  AInv'
<1>1. PICK q \in Peers : q = Other(p) /\ q # p /\ \A r \in Peers : r = p \/ r = q
  BY OtherPeer
<1>2. Arrives(p, c, ack) /\ Idle(p) /\ end[c][p] = "open" /\ wire' = Received(p, c)
  BY DEF ReceiveAck, Arrives
<1>3. ack \notin {"Hello", "Olleh", "End", "UserInfo", "AddMe"}
  BY DEF Acks
<1>4. status[p] = "ONLINE" /\ current[p] = c
  BY <1>2 DEF AInv, Own, Hears, Heard
<1>5. \A x \in Peers : JoinedIn(x, Other(x), end[x], wire'[x])
  BY <1>2, <1>3, ReadJoined
<1>6. CASE ~contact[p].verified \/ contact[p].blocked
  <2>1. Close(p, current[p], "closing") /\ UNCHANGED <<contact, timers, current, status>>
    BY <1>4, <1>6 DEF ReceiveAck, onlineVars
  <2> QED
    BY <1>2, <1>4, <1>5, <2>1, CloseAgrees
<1>7. CASE ~(~contact[p].verified \/ contact[p].blocked) /\ ack \in {"Pending", "Rejected"}
  <2>1. /\ Close(p, current[p], "closing") /\ UNCHANGED <<timers, current, status>>
        /\ \/ contact' = WithState(p, "WAITING_FOR_ACCEPTANCE")
           \/ contact' = WithState(p, "REJECTED")
    BY <1>4, <1>7 DEF ReceiveAck, onlineVars
  <2>2. contact'[p].state # "BLOCKED" /\ \A r \in Peers : r # p => contact'[r] = contact[r]
    BY <2>1, WithStateParts
  <2> QED
    BY <1>2, <1>4, <1>5, <2>1, <2>2, CloseAgrees
<1>8. CASE ~(~contact[p].verified \/ contact[p].blocked) /\ ack = "Hello/Blocked"
  <2>1. /\ contact' = WithState(p, "BLOCKED") /\ DisconnectFromContact(p)
        /\ UNCHANGED timers
    BY <1>8 DEF ReceiveAck
  <2>2. \A r \in Peers : r # p => contact'[r] = contact[r]
    BY <2>1, WithStateParts
  <2> QED
    BY <1>2, <1>4, <1>5, <2>1, <2>2, DropAgrees
<1>9. ASSUME UNCHANGED <<end, posted, current, status>>,
             contact'[p].state = contact[p].state \/ contact'[p].state # "BLOCKED",
             \A r \in Peers : r # p => contact'[r] = contact[r] /\ timers'[r] = timers[r],
             Settles(c, p)', Settles(c, q)'
      PROVE  AInv'
  <2>1. Alone(p)
    BY <1>9 DEF Alone
  <2>2. Own(p)'
    BY <1>9, OwnLearns DEF AInv
  <2>3. \A x \in Peers : Joined(x)'
    BY <1>5, <1>9 DEF Joined
  <2>4. \A x, r \in Peers : current'[p] = x => Settles(x, r)'
    BY <1>1, <1>4, <1>9
  <2> QED
    BY <2>1, <2>2, <2>3, <2>4, StepAgrees
<1>10. /\ \A d, r \in Peers : \A x :
            OnWay(d, r, x) => OnWay(d, r, x)' \/ (d = c /\ r = p /\ x = ack)
       /\ \A d, r \in Peers : \A x : OnWay(d, r, x)' => OnWay(d, r, x)
  BY <1>2, ReceivedOnWay
<1>11. Together(c)' /\ end' = end => Together(c)
  BY <1>3, <1>10 DEF Together
<1>12. CASE ~(~contact[p].verified \/ contact[p].blocked) /\ ack = "Added"
  <2>1. /\ contact' = WithState(p, "ACCEPTED") /\ timers' = Scheduled(p)
        /\ UNCHANGED <<end, posted, current, status>>
    BY <1>12 DEF ReceiveAck, onlineVars
  <2>2. contact'[p].state = "ACCEPTED" /\ \A r \in Peers : r # p => contact'[r] = contact[r]
    BY <2>1, WithStateParts
  <2>3. timers'[p] > 0 /\ \A r \in Peers : r # p => timers'[r] = timers[r]
    BY <2>1, ScheduledParts
  <2>4. Settles(c, p)'
    BY <2>2, <2>3, SettlesTimed DEF Unanswered
  <2>5. Settles(c, q)'
    <3>1. Settles(c, q) /\ Accepts(p)'
      BY <2>2 DEF AInv, Accepts
    <3>2. /\ OnWay(c, q, "UserInfo") => OnWay(c, q, "UserInfo")'
          /\ OnWay(c, q, "Added") => OnWay(c, q, "Added")'
          /\ OnWay(c, p, "AddMe") => OnWay(c, p, "AddMe")'
      BY <1>1, <1>12, <1>10
    <3>3. contact'[q] = contact[q] /\ timers'[q] = timers[q] /\ posted'[q] = posted[q]
      BY <1>1, <2>1, <2>2, <2>3
    <3> QED
      BY <1>1, <1>2, <1>11, <2>1, <2>3, <3>1, <3>2, <3>3, SettlesOther
  <2>6. /\ contact'[p].state = contact[p].state \/ contact'[p].state # "BLOCKED"
        /\ \A r \in Peers : r # p => contact'[r] = contact[r] /\ timers'[r] = timers[r]
    BY <2>2, <2>3
  <2> QED
    BY <1>9, <2>1, <2>4, <2>5, <2>6
<1>13. CASE /\ ~(~contact[p].verified \/ contact[p].blocked)
            /\ ack \notin {"Added", "Pending", "Rejected", "Hello/Blocked"}
  <2>1. UNCHANGED <<contact, end, posted, timers, current, status>>
    BY <1>13 DEF ReceiveAck, onlineVars
  <2>2. \A r \in Peers, m \in {"UserInfo", "Added", "AddMe"} :
          OnWay(c, r, m) => OnWay(c, r, m)'
    BY <1>3, <1>10, <1>13
  <2>3. \A r \in Peers : (Talking(r) => Talking(r)') /\ (Accepts(r) => Accepts(r)')
    BY <2>1 DEF Talking, Accepts
  <2>4. \A r \in Peers : Settles(c, r)
    BY DEF AInv
  <2>5. Settles(c, p)' /\ Settles(c, q)'
    BY <1>11, <2>1, <2>2, <2>3, <2>4, SettlesKept
  <2> QED
    BY <1>9, <2>1, <2>5
<1> QED
  BY <1>6, <1>7, <1>8, <1>12, <1>13

\* User info, or a message.
LEMMA ReceiveUserInfoAgrees ==
  ASSUME IInv, AInv, NEW p \in Peers, NEW c \in Peers, ReceiveUserInfo(p, c)
  PROVE  AInv'
<1>1. PICK q \in Peers : q = Other(p) /\ q # p /\ \A r \in Peers : r = p \/ r = q
  BY OtherPeer
<1>2. /\ Arrives(p, c, "UserInfo") /\ Idle(p) /\ end[c][p] = "open"
      /\ wire' = Answered(p, c, c, "UserInfo/Ack")
      /\ UNCHANGED <<contact, timers, current, status>>
  BY DEF ReceiveUserInfo, Arrives, contactVars, onlineVars
<1>3. status[p] = "ONLINE" /\ current[p] = c
  BY <1>2 DEF AInv, Own, Hears, Heard
<1>4. "UserInfo/Ack" \in Msgs
  BY DEF Msgs, Acks
<1>5. \A x \in Peers : JoinedIn(x, Other(x), end[x], wire'[x])
  BY <1>2, <1>4, AnswerJoined
<1>6. CASE ~Welcomes(contact[p])
  <2>1. Close(p, current[p], "closing")
    BY <1>3, <1>6 DEF ReceiveUserInfo
  <2> QED
    BY <1>2, <1>3, <1>5, <2>1, CloseAgrees
<1>7. CASE Welcomes(contact[p])
  <2>1. UNCHANGED <<end, posted>>
    BY <1>7 DEF ReceiveUserInfo
  <2>2. Alone(p)
    BY <1>2, <2>1 DEF Alone
  <2>3. Own(p)'
    BY <1>2, <2>1, OwnLearns DEF AInv
  <2>4. \A x \in Peers : Joined(x)'
    BY <1>5, <2>1 DEF Joined
  <2>5. /\ \A b, r \in Peers : \A x :
             OnWay(b, r, x) => OnWay(b, r, x)' \/ (b = c /\ r = p /\ x = "UserInfo")
        /\ \A b \in Peers : Together(b)' => Together(b)
    BY <1>2, <1>4, <2>1, AnsweredOnWay
  <2>6. Settles(c, p) /\ Settles(c, q)
    BY DEF AInv
  <2>7. \A r \in Peers : Accepts(r)' <=> Accepts(r)
    BY <1>2 DEF Accepts
  <2>8. Settles(c, q)'
    <3>1. Accepts(p)'
      BY <1>2, <1>7 DEF Welcomes, Accepts
    <3> QED
      BY <1>1, <1>2, <2>1, <2>5, <2>6, <3>1, SettlesOther
  <2>9. Settles(c, p)'
    <3> SUFFICES ASSUME Together(c)'
                 PROVE  Confirms(c, p)' /\ Awaits(c, p)' /\ Tells(c, p)'
      BY DEF Settles
    <3>1. Confirms(c, p)
      BY <1>2, <2>5, <2>6 DEF Settles
    <3>2. Confirms(c, p)'
      BY <1>1, <1>2, <2>5, <2>7, <3>1 DEF Confirms
    <3>3. Awaits(c, p)' /\ Tells(c, p)'
      BY <1>2, <1>7 DEF Awaits, Tells, Welcomes, Unanswered
    <3> QED
      BY <3>2, <3>3
  <2>10. \A x, r \in Peers : current'[p] = x => Settles(x, r)'
    BY <1>1, <1>2, <1>3, <2>8, <2>9
  <2> QED
    BY <2>2, <2>3, <2>4, <2>10, StepAgrees
<1> QED
  BY <1>6, <1>7

\* The end of a connection.
LEMMA ReceiveEndAgrees ==
  ASSUME IInv, AInv, NEW p \in Peers, NEW c \in Peers, ReceiveEnd(p, c)
  PROVE  AInv'
<1>1. PICK q \in Peers : q = Other(p) /\ q # p /\ \A r \in Peers : r = p \/ r = q
  BY OtherPeer
<1>2. /\ Arrives(p, c, "End") /\ Idle(p)
      /\ end' = [end EXCEPT ![c][p] = "none"] /\ wire' = [wire EXCEPT ![c][p] = <<>>]
      /\ OnDisconnectedFromPeer(p, c) /\ UNCHANGED <<contact, posted, timers>>
  BY DEF ReceiveEnd, Arrives, contactVars
<1>3. /\ end \in [Peers -> [Peers -> EndStates]]
      /\ wire \in [Peers -> [Peers -> Seq(Msgs)]]
      /\ current \in [Peers -> Peers \cup {Nobody}]
      /\ status \in [Peers -> {"DISCONNECTED", "CONNECTING", "ONLINE"}]
  BY DEF IInv, EndSound, WireSound, OnlineSound
<1>4. \A d, r \in Peers : end'[d][r] = IF d = c /\ r = p THEN "none" ELSE end[d][r]
  BY <1>2, <1>3
<1>5. /\ current'[p] = IF Heard(p, c) THEN Nobody ELSE current[p]
      /\ status'[p] = IF Heard(p, c) THEN "DISCONNECTED" ELSE status[p]
      /\ \A r \in Peers : r # p => current'[r] = current[r] /\ status'[r] = status[r]
  BY <1>2, <1>3 DEF OnDisconnectedFromPeer
<1>6. /\ \A d \in Peers : d # c => wire'[d] = wire[d]
      /\ wire'[c][p] = <<>> /\ wire'[c][q] = wire[c][q]
  BY <1>1, <1>2, <1>3
<1>7. Own(p)'
  <2>1. \A d \in Peers : end'[d][p] = IF d = c THEN "none" ELSE end[d][p]
    BY <1>4
  <2> QED
    BY <1>2, <1>5, <2>1, OwnEnded DEF AInv
<1>8. Alone(p)
  BY <1>2, <1>4, <1>5 DEF Alone
<1>9. OnWay(c, p, "End")
  <2>1. wire[c] \in Lines /\ ~Silent(wire[c][p]) /\ First(wire[c][p]) = "End"
    BY <1>2, <1>3 DEF Arrives, Silent, First, Lines
  <2> QED
    BY <2>1, SilentParts DEF OnWay
<1>10. ASSUME NEW d \in Peers
       PROVE  Joined(d)' /\ \A r \in Peers : Settles(d, r)'
  <2>1. CASE d = c
    <3>1. end'[c][p] = "none" /\ end'[c][q] = end[c][q]
      BY <1>1, <1>4
    <3>2. Joined(c)'
      BY <1>1, <1>6, <1>9, <3>1, GoneJoined
    <3>3. \A r \in Peers : Settles(c, r)'
      BY <3>1, SettlesShut
    <3> QED
      BY <2>1, <3>2, <3>3
  <2>2. CASE d # c
    <3>1. \A r \in Peers : end'[d][r] = end[d][r] /\ wire'[d][r] = wire[d][r]
      BY <1>4, <1>6, <2>2
    <3>2. UNCHANGED <<contact, timers>> /\ (Talking(p) => Talking(p)')
      BY <1>2 DEF Talking
    <3>3. Joined(d)'
      BY <3>1, JoinedSame DEF AInv
    <3> QED
      BY <1>8, <3>1, <3>2, <3>3, SettlesSame
  <2> QED
    BY <2>1, <2>2
<1> QED
  BY <1>7, <1>8, <1>10, StepAgrees

\* The timer: the other one is told that he is blocked, let go, or sent what there is.
LEMMA ProcessOnlineLaterAgrees ==
  ASSUME IInv, AInv, NEW p \in Peers, ProcessOnlineLater(p)
  PROVE  AInv'
<1>1. PICK q \in Peers : q = Other(p) /\ q # p /\ \A r \in Peers : r = p \/ r = q
  BY OtherPeer
<1>2. Idle(p) /\ timers' = [timers EXCEPT ![p] = @ - 1] /\ UNCHANGED contact
  BY DEF ProcessOnlineLater, contactVars
<1>3. \A r \in Peers : r # p => timers'[r] = timers[r] /\ contact'[r] = contact[r]
  BY <1>2 DEF IInv, CountersSound
<1>4. \A x \in Peers : JoinedIn(x, Other(x), end[x], wire[x])
  BY DEF AInv, Joined
<1>5. CASE status[p] = "ONLINE" /\ contact[p].blocked /\ contact[p].notice
  <2>1. PICK d \in Peers : d = current[p] /\ end[d][p] = "open"
    BY <1>2, <1>5, OnlineUp
  <2>2. /\ wire' = Sent(p, d, "Hello/Blocked") /\ "Hello/Blocked" \in Msgs
        /\ Close(p, current[p], "closing") /\ UNCHANGED <<current, status>>
    BY <1>5, <2>1 DEF ProcessOnlineLater, Welcomes, onlineVars, Msgs, Acks
  <2>3. \A x \in Peers : JoinedIn(x, Other(x), end[x], wire'[x])
    BY <2>1, <2>2, SentJoined
  <2> QED
    BY <1>2, <1>3, <1>5, <2>2, <2>3, CloseAgrees
<1>6. CASE status[p] = "ONLINE" /\ contact[p].blocked /\ ~contact[p].notice
  <2>1. DisconnectFromContact(p) /\ wire' = wire
    BY <1>6 DEF ProcessOnlineLater, Welcomes
  <2>2. \A x \in Peers : JoinedIn(x, Other(x), end[x], wire'[x])
    BY <1>4, <2>1
  <2> QED
    BY <1>2, <1>3, <1>6, <2>1, <2>2, DropAgrees
<1>7. CASE status[p] = "ONLINE" /\ Welcomes(contact[p])
  <2>1. PICK d \in Peers : d = current[p] /\ end[d][p] = "open"
    BY <1>2, <1>7, OnlineUp
  <2>2. /\ wire' = Sent(p, d, "UserInfo") /\ "UserInfo" \in Msgs
        /\ UNCHANGED <<end, posted, current, status>>
    BY <1>7, <2>1 DEF ProcessOnlineLater, Welcomes, onlineVars, Msgs
  <2>3. \A x \in Peers : Joined(x)'
    <3>1. \A x \in Peers : JoinedIn(x, Other(x), end[x], Sent(p, d, "UserInfo")[x])
      BY <2>1, <2>2, SentJoined
    <3> QED
      BY <2>2, <3>1 DEF Joined
  <2>4. Alone(p)
    BY <1>3, <2>2 DEF Alone
  <2>5. Own(p)'
    BY <1>2, <2>2, OwnLearns DEF AInv
  <2>6. /\ \A c, r \in Peers : \A x : OnWay(c, r, x) => OnWay(c, r, x)'
        /\ \A c \in Peers : Together(c)' => Together(c)
        /\ Together(d)' => OnWay(d, q, "UserInfo")'
    BY <1>1, <2>2, SentOnWay
  <2>7. Settles(d, q)'
    <3>1. Accepts(p)' /\ Settles(d, q)
      BY <1>2, <1>7 DEF Accepts, Welcomes, AInv
    <3> QED
      BY <1>1, <1>2, <1>3, <2>2, <2>6, <3>1, SettlesOther
  <2>8. Settles(d, p)'
    BY <1>1, <1>2, <1>7, <2>6 DEF Settles, Confirms, Awaits, Tells, Unanswered, Welcomes
  <2>9. \A c, r \in Peers : current'[p] = c => Settles(c, r)'
    BY <1>1, <2>1, <2>2, <2>7, <2>8
  <2> QED
    BY <2>3, <2>4, <2>5, <2>9, StepAgrees
<1>8. CASE /\ ~(status[p] = "ONLINE" /\ contact[p].blocked /\ contact[p].notice)
           /\ ~(status[p] = "ONLINE" /\ contact[p].blocked /\ ~contact[p].notice)
           /\ ~(status[p] = "ONLINE" /\ Welcomes(contact[p]))
  <2>1. UNCHANGED <<end, wire, posted, current, status>>
    BY <1>8 DEF ProcessOnlineLater, connVars, onlineVars
  <2>2. Alone(p)
    BY <1>3, <2>1 DEF Alone
  <2>3. Own(p)'
    BY <1>2, <2>1, OwnLearns DEF AInv
  <2>4. \A x \in Peers : Joined(x)'
    BY <2>1, JoinedSame DEF AInv
  <2>5. ASSUME NEW d \in Peers
        PROVE  Settles(d, p)' /\ Settles(d, q)'
    <3>1. end[d][p] = "open" => ~Accepts(p)
      BY <1>8 DEF AInv, Own, Hears, Accepts, Welcomes
    <3>2. Settles(d, p) /\ Settles(d, q)
      BY DEF AInv
    <3> QED
      BY <1>1, <1>2, <1>3, <2>1, <3>1, <3>2, SettlesIdly
  <2>6. \A c, r \in Peers : Settles(c, r)'
    BY <1>1, <2>5
  <2> QED
    BY <2>2, <2>3, <2>4, <2>6, StepAgrees
<1> QED
  BY <1>5, <1>6, <1>7, <1>8

\* The first message, and the end.
LEMMA KeptParts ==
  ASSUME NEW s \in Seq(Msgs)
  PROVE  /\ Append(SubSeq(s, 1, 0), "End") = <<"End">>
         /\ s # <<>> => Append(SubSeq(s, 1, 1), "End") = <<Head(s), "End">>
<1>1. Append(<<>>, "End") = <<"End">>
  OBVIOUS
<1>4. \A m : Append(<<m>>, "End") = <<m, "End">>
  BY PairAppend
<1>2. SubSeq(s, 1, 0) = <<>>
  <2>1. SubSeq(s, 1, 0) \in Seq(Msgs) /\ Len(SubSeq(s, 1, 0)) = 0
    BY SubSeqProperties
  <2> QED
    BY <2>1
<1>3. ASSUME s # <<>>
      PROVE  SubSeq(s, 1, 1) = <<Head(s)>>
  <2>1. Len(s) \in Nat /\ Len(s) >= 1 /\ Head(s) = s[1] /\ Head(s) \in Msgs
    BY <1>3
  <2>2. /\ SubSeq(s, 1, 1) \in Seq(Msgs) /\ Len(SubSeq(s, 1, 1)) = 1
        /\ SubSeq(s, 1, 1)[1] = s[1]
    BY <2>1, SubSeqProperties
  <2>3. <<Head(s)>> \in Seq(Msgs) /\ Len(<<Head(s)>>) = 1 /\ <<Head(s)>>[1] = Head(s)
    BY <2>1
  <2>4. PICK t \in Seq(Msgs), u \in Seq(Msgs) : t = SubSeq(s, 1, 1) /\ u = <<Head(s)>>
    BY <2>2, <2>3
  <2>5. t = u
    <3>1. Len(t) = 1 /\ Len(u) = 1 /\ t[1] = u[1]
      BY <2>1, <2>2, <2>3, <2>4
    <3>2. \A i \in 1..Len(t) : t[i] = u[i]
      BY <3>1
    <3> QED
      BY <3>1, <3>2, SeqEqual
  <2> QED
    BY <2>4, <2>5
<1>5. s # <<>> => Append(SubSeq(s, 1, 1), "End") = <<Head(s), "End">>
  <2> SUFFICES ASSUME s # <<>>
               PROVE  Append(SubSeq(s, 1, 1), "End") = <<Head(s), "End">>
    OBVIOUS
  <2>1. Append(<<Head(s)>>, "End") = <<Head(s), "End">>
    BY <1>4
  <2> QED
    BY <1>3, <2>1
<1> QED
  BY <1>1, <1>2, <1>5

\* A connection breaks: it is not up at both ends any more.
LEMMA BreakAgrees ==
  ASSUME IInv, AInv, NEW c \in Peers, Break(c)
  PROVE  AInv'
<1>1. UNCHANGED <<contact, end, posted, timers, current, status>>
  BY DEF Break, contactVars, onlineVars
<1>2. /\ wire \in [Peers -> [Peers -> Seq(Msgs)]] /\ wire[c] \in Lines /\ end[c] \in Ends
  BY DEF IInv, WireSound, EndSound, Lines, Ends
<1>3. PICK kept \in [Peers -> 0..1] :
        /\ \A p \in Peers : kept[p] <= Len(wire[c][p]) - (IF Ended(wire[c][p]) THEN 1 ELSE 0)
        /\ wire' = [wire EXCEPT ![c] =
             [p \in Peers |->
                IF end[c][p] = "none" /\ kept[p] = 0 THEN <<>>
                ELSE Append(SubSeq(wire[c][p], 1, kept[p]), "End")]]
  BY DEF Break
<1>4. /\ \A d \in Peers : d # c => wire'[d] = wire[d]
      /\ \A p \in Peers :
           wire'[c][p] = IF end[c][p] = "none" /\ kept[p] = 0 THEN <<>>
                         ELSE Append(SubSeq(wire[c][p], 1, kept[p]), "End")
  BY <1>2, <1>3
<1>5. ASSUME NEW p \in Peers
      PROVE  \/ end[c][p] = "none" /\ wire'[c][p] = <<>>
             \/ end[c][p] # "none" /\ wire'[c][p] = <<"End">>
             \/ wire[c][p] # <<>> /\ wire'[c][p] = <<Head(wire[c][p]), "End">>
  <2>1. PICK s \in Seq(Msgs) : s = wire[c][p]
    BY <1>2
  <2>2. kept[p] \in 0..1 /\ kept[p] <= Len(s)
    <3>1. Len(s) \in Nat /\ kept[p] \in 0..1
      BY <1>3
    <3>2. kept[p] <= Len(s) - (IF Ended(s) THEN 1 ELSE 0)
      BY <1>3, <2>1
    <3>3. CASE Ended(s)
      BY <3>1, <3>2, <3>3
    <3>4. CASE ~Ended(s)
      BY <3>1, <3>2, <3>4
    <3> QED
      BY <3>1, <3>3, <3>4
  <2>3. CASE kept[p] = 0
    BY <1>4, <2>1, <2>3, KeptParts
  <2>4. CASE kept[p] = 1
    <3>1. s # <<>>
      BY <2>2, <2>4
    <3> QED
      BY <1>4, <2>1, <2>4, <3>1, KeptParts
  <2> QED
    BY <2>2, <2>3, <2>4
<1>6. Joined(c)'
  <2>1. PICK v : v = wire'[c]
    OBVIOUS
  <2>2. \A r \in Peers :
          \/ end[c][r] = "none" /\ v[r] = <<>>
          \/ end[c][r] # "none" /\ v[r] = <<"End">>
          \/ wire[c][r] # <<>> /\ v[r] = <<Head(wire[c][r]), "End">>
    BY <1>5, <2>1
  <2>3. JoinedIn(c, Other(c), end[c], wire[c]) /\ Other(c) \in Peers
    BY OtherPeer DEF AInv, Joined
  <2>4. JoinedIn(c, Other(c), end[c], v)
    BY <1>2, <2>2, <2>3, JoinedBreak
  <2> QED
    BY <1>1, <2>1, <2>4 DEF Joined
<1>7. ~Together(c)'
  <2>1. ASSUME NEW r \in Peers, end[c][r] # "none"
        PROVE  OnWay(c, r, "End")'
    <3>1. "End" \in ToSet(<<"End">>)
      BY DEF ToSet
    <3>2. \A m : "End" \in ToSet(<<m, "End">>)
      BY DEF ToSet
    <3> QED
      BY <1>5, <2>1, <3>1, <3>2 DEF OnWay, All
  <2> QED
    BY <1>1, <2>1 DEF Together
<1>8. ASSUME NEW d \in Peers, NEW r \in Peers
      PROVE  Own(r)' /\ Joined(d)' /\ Settles(d, r)'
  <2>1. Own(r)'
    BY <1>1, OwnLearns DEF AInv
  <2>2. CASE d = c
    BY <1>6, <1>7, <2>1, <2>2 DEF Settles
  <2>3. CASE d # c
    <3>1. \A o \in Peers : end'[d][o] = end[d][o] /\ wire'[d][o] = wire[d][o]
      BY <1>1, <1>4, <2>3
    <3>2. \A o \in Peers : \A m : OnWay(d, o, m)' <=> OnWay(d, o, m)
      BY <3>1 DEF OnWay
    <3>3. Together(d)' => Together(d)
      BY <1>1, <3>2 DEF Together
    <3>4. (Talking(r) => Talking(r)') /\ \A o \in Peers : Accepts(o) => Accepts(o)'
      BY <1>1 DEF Talking, Accepts
    <3>5. Settles(d, r)'
      BY <1>1, <3>1, <3>2, <3>3, <3>4, SettlesKept DEF AInv
    <3>6. Joined(d)'
      BY <3>1, JoinedSame DEF AInv
    <3> QED
      BY <2>1, <3>5, <3>6
  <2> QED
    BY <2>2, <2>3
<1> QED
  BY <1>8 DEF AInv

\* A program is started again: its ends are gone, and the other one will hear of it.
LEMMA RestartAgrees ==
  ASSUME IInv, AInv, NEW p \in Peers, Restart(p)
  PROVE  AInv'
<1>1. PICK q \in Peers : q = Other(p) /\ q # p /\ \A r \in Peers : r = p \/ r = q
  BY OtherPeer
<1>2. /\ end' = [c \in Peers |-> [end[c] EXCEPT ![p] = "none"]]
      /\ wire' = [c \in Peers |-> [r \in Peers |->
                    IF r = p THEN <<>>
                    ELSE IF Reaches(c, r) /\ ~Ended(wire[c][r]) THEN Append(wire[c][r], "End")
                    ELSE wire[c][r]]]
      /\ posted' = [posted EXCEPT ![p] = <<>>] /\ timers' = [timers EXCEPT ![p] = 0]
      /\ current' = [current EXCEPT ![p] = Nobody]
      /\ status' = [status EXCEPT ![p] = "DISCONNECTED"] /\ UNCHANGED contact
  BY DEF Restart, contactVars
<1>3. /\ posted \in [Peers -> Seq(Events)] /\ end \in [Peers -> [Peers -> EndStates]]
      /\ wire \in [Peers -> [Peers -> Seq(Msgs)]]
      /\ current \in [Peers -> Peers \cup {Nobody}]
      /\ status \in [Peers -> {"DISCONNECTED", "CONNECTING", "ONLINE"}]
      /\ timers \in [Peers -> 0..MaxTimers]
  BY DEF IInv, PostedSound, EndSound, WireSound, OnlineSound, CountersSound
<1>4. \A c, r \in Peers : end'[c][r] = IF r = p THEN "none" ELSE end[c][r]
  BY <1>2, <1>3
<1>5. /\ posted'[p] = <<>> /\ current'[p] = Nobody /\ status'[p] = "DISCONNECTED"
      /\ \A r \in Peers : r # p =>
           /\ posted'[r] = posted[r] /\ current'[r] = current[r] /\ status'[r] = status[r]
           /\ timers'[r] = timers[r] /\ contact'[r] = contact[r]
  BY <1>2, <1>3
<1>6. Alone(p)
  BY <1>4, <1>5 DEF Alone
<1>7. Own(p)'
  BY <1>4, <1>5, OwnStarted
<1>8. ASSUME NEW c \in Peers
      PROVE  Joined(c)'
  <2>1. /\ wire'[c][p] = <<>>
        /\ wire'[c][q] = IF Reaches(c, q) /\ ~Ended(wire[c][q]) THEN Append(wire[c][q], "End")
                         ELSE wire[c][q]
    BY <1>1, <1>2
  <2>2. Ended(wire[c][q]) => OnWay(c, q, "End")
    <3>1. wire[c][q] \in Seq(Msgs)
      BY <1>3
    <3> QED
      BY <3>1 DEF Ended, OnWay, All, ToSet
  <2>3. end'[c][p] = "none" /\ end'[c][q] = end[c][q]
    BY <1>1, <1>4
  <2>4. CASE Reaches(c, q) /\ ~Ended(wire[c][q])
    BY <1>1, <2>1, <2>3, <2>4, GoneJoined
  <2>5. CASE ~(Reaches(c, q) /\ ~Ended(wire[c][q]))
    BY <1>1, <2>1, <2>2, <2>3, <2>5, GoneJoined
  <2> QED
    BY <2>4, <2>5
<1>9. current'[p] \notin Peers
  BY <1>5, NobodyAssumption
<1> QED
  BY <1>6, <1>7, <1>8, <1>9, StepAgrees

(***************************************************************************)
(* Both ends agree.                                                        *)
(***************************************************************************)

\* Nothing happens.
LEMMA StutterAgrees ==
  ASSUME AInv, UNCHANGED vars
  PROVE  AInv'
<1>1. UNCHANGED <<contact, end, wire, posted, timers, current, status>>
  BY DEF vars, contactVars, connVars, onlineVars
<1>2. ASSUME NEW p \in Peers
      PROVE  Own(p)'
  BY <1>1, OwnLearns DEF AInv
<1>3. ASSUME NEW c \in Peers
      PROVE  Joined(c)'
  BY <1>1, JoinedSame DEF AInv
<1>4. ASSUME NEW c \in Peers, NEW p \in Peers
      PROVE  Settles(c, p)'
  <2>1. \A r \in Peers : \A m : OnWay(c, r, m)' <=> OnWay(c, r, m)
    BY <1>1 DEF OnWay
  <2>2. Together(c)' => Together(c)
    BY <1>1, <2>1 DEF Together
  <2>3. (Talking(p) => Talking(p)') /\ \A r \in Peers : Accepts(r) => Accepts(r)'
    BY <1>1 DEF Talking, Accepts
  <2> QED
    BY <1>1, <2>1, <2>2, <2>3, SettlesKept DEF AInv
<1> QED
  BY <1>2, <1>3, <1>4 DEF AInv

\* Nobody is connected at first.
LEMMA InitAgrees == Init => AInv
<1> SUFFICES ASSUME Init
             PROVE  AInv
  OBVIOUS
<1>1. ASSUME NEW p \in Peers
      PROVE  Own(p)
  <2>1. /\ \A c \in Peers : end[c][p] = "none"
        /\ posted[p] = <<>> /\ current[p] = Nobody /\ status[p] = "DISCONNECTED"
    BY DEF Init
  <2>2. NoneShut(p)
    BY <2>1 DEF NoneShut, Shutting
  <2>3. Posting(p)
    BY <2>1, <2>2 DEF Posting
  <2>4. Hears(p) /\ NotBlocked(p)
    BY <2>1, NobodyAssumption DEF Hears, Heard, NotBlocked
  <2> QED
    BY <2>3, <2>4 DEF Own
<1>2. ASSUME NEW c \in Peers
      PROVE  Joined(c)
  <2>1. PICK q \in Peers : q = Other(c)
    BY OtherPeer
  <2>2. \A r \in Peers : end[c][r] = "none" /\ Silent(wire[c][r])
    BY DEF Init, Silent
  <2>3. \A r \in Peers : \A m : m \notin All(wire[c][r])
    BY ToSetEmpty DEF Init, All
  <2>4. Greets(c, q, end[c], wire[c])
    BY <2>2, <2>3 DEF Greets
  <2>5. Parts(c, q, end[c], wire[c])
    BY <2>2, <2>3 DEF Parts
  <2>6. Calls(c, q, end[c], wire[c])
    BY <2>2 DEF Calls
  <2> QED
    BY <2>1, <2>4, <2>5, <2>6 DEF Joined, JoinedIn
<1>3. \A c, p \in Peers : Settles(c, p)
  BY DEF Init, Settles
<1> QED
  BY <1>1, <1>2, <1>3 DEF AInv

\* Every step preserves it.
LEMMA NextAgrees == IInv /\ AInv /\ [Next]_vars => AInv'
<1> SUFFICES ASSUME IInv, AInv, [Next]_vars
             PROVE  AInv'
  OBVIOUS
<1>1. ASSUME NEW p \in Peers, Program(p)
      PROVE  AInv'
  <2>1. CASE HandlePosted(p)
    BY <2>1, SendAddMeLaterAgrees, SendAddmeAckLaterAgrees, CloseLaterAgrees DEF HandlePosted
  <2>2. ASSUME NEW c \in Peers, Serve(p, c)
        PROVE  AInv'
    BY <2>2, ReceiveHelloAgrees, ReceiveOllehAgrees, ReceiveAddMeAgrees, IgnoreStrangerAgrees,
       ReceiveAckAgrees, ReceiveUserInfoAgrees, ReceiveEndAgrees DEF Serve
  <2>3. CASE ProcessOnlineLater(p)
    BY <2>3, ProcessOnlineLaterAgrees
  <2> QED
    BY <1>1, <2>1, <2>2, <2>3 DEF Program
<1>2. ASSUME NEW p \in Peers, User(p)
      PROVE  AInv'
  BY <1>2, AddContactAgrees, AcceptContactAgrees, ConnectKeepsAgreement, DisconnectAgrees,
     BlockAgrees, UnblockAgrees, ToggleNoticeAgrees DEF User
<1> QED
  BY <1>1, <1>2, BreakAgrees, RestartAgrees, StutterAgrees DEF Next

\* When nothing is on its way, the other end of a connection that is up is up, unless it
\* is a stranger's.
LEMMA QuietUp ==
  ASSUME IInv, AInv, Quiet, NEW p \in Peers, status[p] = "ONLINE",
         end[current[p]][Other(p)] # "stranger"
  PROVE  /\ status[Other(p)] = "ONLINE" /\ current[Other(p)] = current[p]
         /\ current[p] \in Peers /\ \A r \in Peers : end[current[p]][r] = "open"
<1>1. PICK q \in Peers : q = Other(p) /\ q # p /\ p = Other(q) /\ \A r \in Peers : r = p \/ r = q
  BY OtherPeer
<1>2. \A r \in Peers : Idle(r) /\ \A c \in Peers : Silent(wire[c][r])
  BY DEF Quiet, Idle, Silent
<1>3. PICK c \in Peers : c = current[p] /\ end[c][p] = "open"
  BY <1>2, OnlineUp
<1>4. wire[c] \in Lines /\ end[c] \in Ends
  BY DEF IInv, WireSound, EndSound, Lines, Ends
<1>5. \A r \in Peers : \A m : m \notin All(wire[c][r])
  BY <1>2, <1>4, SilentParts
<1>6. NoneShut(q) /\ Hears(q)
  BY <1>2, IdleShut DEF AInv
<1>7. JoinedIn(c, Other(c), end[c], wire[c])
  BY DEF AInv, Joined
<1>8. (c = p /\ Other(c) = q) \/ (c = q /\ Other(c) = p)
  BY <1>1
<1>9. end[c][q] # "none"
  BY <1>2, <1>3, <1>5, <1>7, <1>8 DEF JoinedIn, Parts
<1>10. end[c][q] # "calling"
  <2> SUFFICES ASSUME end[c][q] = "calling"
               PROVE  FALSE
    OBVIOUS
  <2>1. c = q /\ Other(c) = p
    BY <1>1, <1>6 DEF Hears
  <2> QED
    BY <1>3, <1>5, <1>7, <2>1 DEF JoinedIn, Calls, Shutting
<1>11. end[c][q] = "open"
  <2>1. end[c][q] \in EndStates /\ end[c][q] # "stranger" /\ end[c][q] \notin Shutting
    BY <1>1, <1>3, <1>4, <1>6 DEF Ends, NoneShut
  <2> QED
    BY <1>9, <1>10, <2>1 DEF EndStates, Shutting
<1>12. status[q] = "ONLINE" /\ current[q] = c
  BY <1>6, <1>11 DEF Hears, Heard
<1> QED
  BY <1>1, <1>3, <1>11, <1>12

\* And then both have settled the matter.
LEMMA QuietAgrees == IInv /\ AInv => AgreeWhenQuiet
<1> SUFFICES ASSUME IInv, AInv, Quiet, NEW p \in Peers, status[p] = "ONLINE",
                    end[current[p]][Other(p)] # "stranger"
             PROVE  /\ status[Other(p)] = "ONLINE" /\ current[Other(p)] = current[p]
                    /\ \/ \A r \in Peers : contact[r].state = "ACCEPTED" /\ ~contact[r].blocked
                       \/ \A r \in Peers : contact[r].state = "REJECTED"
  BY DEF AgreeWhenQuiet
<1>1. /\ status[Other(p)] = "ONLINE" /\ current[Other(p)] = current[p]
      /\ current[p] \in Peers /\ \A r \in Peers : end[current[p]][r] = "open"
  BY QuietUp
<1>2. PICK c \in Peers : c = current[p] /\ \A r \in Peers : end[c][r] = "open"
  BY <1>1
<1>3. PICK q \in Peers : q = Other(p) /\ q # p /\ p = Other(q) /\ \A r \in Peers : r = p \/ r = q
  BY OtherPeer
<1>4. \A r \in Peers : posted[r] = <<>> /\ ~(timers[r] > 0) /\ Silent(wire[c][r])
  BY DEF Quiet, Silent
<1>5. wire[c] \in Lines
  BY DEF IInv, WireSound, Lines
<1>6. \A r \in Peers : \A m : ~OnWay(c, r, m)
  BY <1>4, <1>5, SilentParts DEF OnWay
<1>7. Together(c)
  BY <1>2, <1>6 DEF Together
<1>8. \A r \in Peers : Confirms(c, r) /\ Awaits(c, r) /\ Tells(c, r)
  BY <1>2, <1>7 DEF AInv, Settles
<1>9. \A r \in Peers : Accepts(r) => Accepts(Other(r)) /\ ~contact[r].blocked
  BY <1>4, <1>6, <1>8, OtherPeer DEF Confirms, Tells
<1>10. \A r \in Peers : contact[r].state \in {"ACCEPTED", "REJECTED"}
  <2>1. ASSUME NEW r \in Peers
        PROVE  contact[r].state \in {"ACCEPTED", "REJECTED"}
    <3>1. contact[r].state \in States
      BY DEF IInv, RowsSound, ContactRows
    <3>2. contact[r].state # "BLOCKED"
      BY <1>2 DEF AInv, Own, NotBlocked
    <3>3. ~Talking(r)
      BY <1>4 DEF Talking
    <3>4. contact[r].state \notin Unanswered
      BY <1>6, <1>8, <3>3, OtherPeer DEF Awaits
    <3> QED
      BY <3>1, <3>2, <3>4 DEF States, Unanswered
  <2> QED
    BY <2>1
<1>11. CASE Accepts(p) \/ Accepts(q)
  <2>1. \A r \in Peers : Accepts(r) /\ ~contact[r].blocked
    BY <1>3, <1>9, <1>11
  <2> QED
    BY <1>1, <2>1 DEF Accepts
<1>12. CASE ~(Accepts(p) \/ Accepts(q))
  BY <1>1, <1>3, <1>10, <1>12 DEF Accepts
<1> QED
  BY <1>11, <1>12

\* When nothing is on its way, whoever is shown online hangs on a connection the other
\* identity holds for a stranger, or both are online on one connection, and have accepted
\* and not blocked each other, or were rejected by each other.
THEOREM AgreedWhenQuiet == Spec => []AgreeWhenQuiet
<1>1. Spec => []AInv
  BY InitAgrees, NextAgrees, Invariance, PTL DEF Spec
<1> QED
  BY <1>1, QuietAgrees, Invariance, PTL
=============================================================================
