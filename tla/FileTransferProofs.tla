------------------------- MODULE FileTransferProofs -------------------------
(***************************************************************************)
(* Theorems about FileTransfer, for any number of files, chunks, faults    *)
(* and refusals, in three parts: the state of each end, why a received     *)
(* file is whole, and why the two ends agree on what became of each file.  *)
(* Each rests on an invariant of FileInvariants.                           *)
(***************************************************************************)
EXTENDS FileInvariants, SequenceLemmas, FiniteSetTheorems, WellFoundedInduction

(***************************************************************************)
(* Lemmas about the operators.                                             *)
(***************************************************************************)

\* A set of naturals has a least element.
LEMMA LeastOfNat ==
  ASSUME NEW T, T \subseteq Nat, T # {}
  PROVE  /\ Min(T) \in T
         /\ \A y \in T : Min(T) <= y
<1>1. PICK x \in T : \A y \in T : ~(<<y, x>> \in OpToRel(<, Nat))
  BY Zenon, NatLessThanWellFounded, WFMin
<1>2. \A y \in T : ~(y < x)
  BY <1>1 DEF OpToRel
<1>3. \A y \in T : x <= y
  BY <1>2
<1> QED
  BY <1>3 DEF Min

\* Being discreet composes.
LEMMA DiscreetTwice ==
  ASSUME NEW s, NEW c, NEW d, NEW e, Discreet(s, c, d), Discreet(s, d, e)
  PROVE  Discreet(s, c, e)
BY DEF Discreet

\* A sound contact is sound but for any file.
LEMMA SoundIsAlmost ==
  ASSUME NEW s \in Sides, NEW c, NEW f \in Files, Sound(s, c)
  PROVE  Almost(s, c, f)
BY DEF Sound, Almost, Queued, Slots

\* File::setState() field by field.
LEMMA SetStateFields ==
  ASSUME NEW c \in Contacts, NEW f \in Files, NEW st \in FileStates,
         NEW d, d = SetState(c, f, st)
  PROVE  /\ d \in Contacts
         /\ d.state = [c.state EXCEPT ![f] = st]
         /\ d.queue = c.queue /\ d.loaded = c.loaded /\ d.hashing = c.hashing
         /\ d.threw = c.threw
         /\ d.wire = c.wire /\ d.online = c.online /\ d.open = c.open
         /\ d.channel = c.channel /\ d.parts = c.parts /\ d.next = c.next
         /\ d.active \subseteq c.active /\ c.active \ {f} \subseteq d.active
         /\ f \in d.active => c.state[f] = st \/ st = "TRANSFERRING"
         /\ st = "TRANSFERRING" => d.active = c.active
<1>1. CASE c.state[f] = st
  BY <1>1 DEF SetState, Contacts
<1>2. CASE c.state[f] # st /\ st = "TRANSFERRING"
  BY <1>2 DEF SetState, Contacts
<1>3. CASE c.state[f] # st /\ st # "TRANSFERRING"
  <2> DEFINE a == c.active \ {f}
             l == c.leaving \cup {e[1] : e \in {e \in c.made : e[2] = f}}
             h == [c.state EXCEPT ![f] = st]
  <2>1. a \subseteq Files /\ l \subseteq Nat /\ h \in [Files -> FileStates]
    BY DEF Contacts
  <2>2. d = [c EXCEPT !.state = h, !.active = a, !.leaving = l]
    BY <1>3 DEF SetState
  <2> HIDE DEF h, l, a
  <2>3. /\ d \in Contacts
        /\ d.state = h /\ d.queue = c.queue /\ d.loaded = c.loaded
        /\ d.hashing = c.hashing /\ d.threw = c.threw /\ d.wire = c.wire
        /\ d.online = c.online /\ d.open = c.open /\ d.channel = c.channel
        /\ d.parts = c.parts /\ d.next = c.next /\ d.active = a
    BY ZenonT(40), <2>1, <2>2 DEF Contacts
  <2> QED
    BY <1>3, <2>3 DEF a, h
<1> QED
  BY <1>1, <1>2, <1>3

\* The states loadFileQueue() selects.
Waiting(s) == IF s = "sender" THEN "WAITING" ELSE "QUEUED"

\* A new state of f makes an almost sound contact sound, unless f waits for the
\* queue in it.
LEMMA SetStateSound ==
  ASSUME NEW s \in Sides, NEW c, NEW f \in Files, NEW st \in FileStates,
         Almost(s, c, f), c.state[f] # st, st # Waiting(s),
         st = "TRANSFERRING" => f \in c.active,
         s = "sender" => f \notin c.hashing,
         f \in Public(s, c) => st # "NONE" /\ (s = "sender" => st # "HASHING")
  PROVE  Sound(s, SetState(c, f, st))
<1> DEFINE d == SetState(c, f, st)
<1>1. c \in Contacts
  BY DEF Almost
<1>2. /\ d \in Contacts
      /\ d.state = [c.state EXCEPT ![f] = st]
      /\ d.queue = c.queue /\ d.loaded = c.loaded /\ d.hashing = c.hashing
      /\ d.threw = c.threw
      /\ d.open = c.open
      /\ d.active \subseteq c.active /\ c.active \ {f} \subseteq d.active
      /\ f \in d.active => c.state[f] = st \/ st = "TRANSFERRING"
      /\ st = "TRANSFERRING" => d.active = c.active
  BY <1>1, SetStateFields
<1> HIDE DEF d
<1>3. c.state \in [Files -> FileStates]
  BY <1>1 DEF Contacts
<1>4. d.state[f] = st /\ \A g \in Files : g # f => d.state[g] = c.state[g]
  BY <1>2, <1>3
<1>5. Queued(s, d)
  BY <1>2, <1>4 DEF Queued, Loadable, Almost, Waiting
<1>6. Slots(s, d)
  BY <1>2, <1>4 DEF Slots, Almost
<1>7. Hashes(s, d)
  BY <1>2, <1>4 DEF Hashes, Almost, Contacts
<1>8. Opens(s, d)
  <2>1. Public(s, c) \subseteq Public(s, d)
    BY <1>4 DEF Public
  <2> QED
    BY <1>2, <2>1 DEF Opens, Almost
<1> QED
  BY <1>2, <1>5, <1>6, <1>7, <1>8 DEF Sound, d

\* A known file gets a state that keeps it known, and a cancelled one cancelled.
LEMMA SetStateDiscreet ==
  ASSUME NEW s \in Sides, NEW c \in Contacts, NEW f \in Public(s, c),
         NEW st \in FileStates \ {"NONE"},
         s = "sender" => /\ st # "HASHING"
                         /\ c.state[f] = "CANCELLED" => st = "CANCELLED"
  PROVE  Discreet(s, c, SetState(c, f, st))
<1> DEFINE d == SetState(c, f, st)
<1>1. f \in Files
  BY DEF Public
<1>2. d.state = [c.state EXCEPT ![f] = st] /\ d.wire = c.wire
  BY <1>1, SetStateFields
<1> HIDE DEF d
<1>3. c.state \in [Files -> FileStates]
  BY DEF Contacts
<1>4. d.state[f] = st /\ \A g \in Files : g # f => d.state[g] = c.state[g]
  BY <1>1, <1>2, <1>3
<1>5. Public(s, d) = Public(s, c)
  BY <1>4 DEF Public
<1>6. Named(d) = Named(c)
  BY <1>2 DEF Named
<1> QED
  BY <1>1, <1>4, <1>5, <1>6 DEF Discreet, d

\* Peer::send() field by field.
LEMMA SentFields ==
  ASSUME NEW c \in Contacts, NEW p \in Packets, NEW d, d = Sent(c, p)
  PROVE  /\ d \in Contacts
         /\ d.state = c.state /\ d.queue = c.queue /\ d.loaded = c.loaded
         /\ d.threw = c.threw
         /\ d.hashing = c.hashing /\ d.active = c.active /\ d.open = c.open
         /\ d.channel = c.channel /\ d.parts = c.parts /\ d.next = c.next
         /\ d.online = c.online
         /\ d.wire = c.wire \/ d.wire = Append(c.wire, p)
<1>1. Append(c.wire, p) \in Seq(Packets)
  BY DEF Contacts
<1> QED
  BY <1>1 DEF Sent, Contacts

\* Writing about a known file is discreet.
LEMMA SentDiscreet ==
  ASSUME NEW s \in Sides, NEW c \in Contacts, NEW p \in Packets,
         p.file \in Public(s, c)
  PROVE  Discreet(s, c, Sent(c, p))
<1> DEFINE d == Sent(c, p)
<1>1. d.state = c.state /\ (d.wire = c.wire \/ d.wire = Append(c.wire, p))
  BY SentFields
<1> HIDE DEF d
<1>2. c.wire \in Seq(Packets)
  BY DEF Contacts
<1>3. ToSet(Append(c.wire, p)) = ToSet(c.wire) \cup {p}
  BY <1>2, ToSetAppend
<1>4. Named(d) \subseteq Named(c) \cup {p.file}
  <2>1. ToSet(d.wire) \subseteq ToSet(c.wire) \cup {p}
    BY <1>1, <1>3
  <2> QED
    BY <2>1 DEF Named
<1> QED
  BY <1>1, <1>4 DEF Discreet, Public, d

\* The fields that Sound and Almost speak of.
LEMMA SameFieldsSound ==
  ASSUME NEW s \in Sides, NEW c, NEW d \in Contacts,
         d.state = c.state, d.queue = c.queue, d.loaded = c.loaded,
         d.threw = c.threw,
         d.hashing = c.hashing, d.active = c.active,
         \A e \in d.open : e \in c.open \/ e[2] \in Public(s, c)
  PROVE  /\ Sound(s, c) => Sound(s, d)
         /\ \A f \in Files : Almost(s, c, f) => Almost(s, d, f)
<1>1. Public(s, d) = Public(s, c)
  BY DEF Public
<1>2. Opens(s, c) => Opens(s, d)
  BY <1>1 DEF Opens
<1>3. Loadable(s, d) = Loadable(s, c)
  BY DEF Loadable
<1>4. Hashes(s, c) => Hashes(s, d)
  BY DEF Hashes
<1>5. Queued(s, c) => Queued(s, d)
  BY <1>3 DEF Queued
<1>6. Slots(s, c) => Slots(s, d)
  BY DEF Slots
<1> QED
  BY <1>2, <1>3, <1>4, <1>5, <1>6 DEF Sound, Almost

\* A result that is sound and discreet.
Fine(s, c, d) == Sound(s, d) /\ Discreet(s, c, d)

\* What follows a fine step.
LEMMA FineTwice ==
  ASSUME NEW s, NEW c, NEW d, NEW e, Discreet(s, c, d), Fine(s, d, e)
  PROVE  Fine(s, c, e)
BY DiscreetTwice DEF Fine

\* Doing nothing is fine.
LEMMA SameFine ==
  ASSUME NEW s \in Sides, NEW c, Sound(s, c)
  PROVE  Fine(s, c, c)
BY DEF Fine, Discreet

\* An ack about a known file.
LEMMA AckedFine ==
  ASSUME NEW s \in Sides, NEW c, Sound(s, c), NEW f \in Public(s, c),
         NEW st \in AckStatus
  PROVE  Fine(s, c, Acked(c, f, st))
<1>1. c \in Contacts
  BY DEF Sound
<1>2. f \in Files
  BY DEF Public
<1>3. Ack(f, st) \in Packets /\ Ack(f, st).file = f
  BY <1>2 DEF Packets, Ack
<1>4. Fine(s, c, Sent(c, Ack(f, st)))
  <2> DEFINE d == Sent(c, Ack(f, st))
  <2>1. /\ d \in Contacts
        /\ d.state = c.state /\ d.queue = c.queue /\ d.loaded = c.loaded
        /\ d.threw = c.threw
        /\ d.hashing = c.hashing /\ d.active = c.active /\ d.open = c.open
    BY <1>1, <1>3, SentFields
  <2>2. Discreet(s, c, d)
    BY <1>1, <1>3, SentDiscreet
  <2> HIDE DEF d
  <2>3. Sound(s, d)
    BY <2>1, SameFieldsSound
  <2> QED
    BY <2>2, <2>3 DEF Fine, d
<1> QED
  BY <1>4, SameFine DEF Acked

\* A known file gets another state, which does not put it in the queue.
LEMMA SetStateFine ==
  ASSUME NEW s \in Sides, NEW c, NEW f \in Public(s, c), Almost(s, c, f),
         NEW st \in FileStates \ {"NONE", "CANCELLED"},
         s = "sender" => st # "HASHING" /\ c.state[f] # "CANCELLED",
         st # Waiting(s), c.state[f] # st,
         st = "TRANSFERRING" => f \in c.active
  PROVE  Fine(s, c, SetState(c, f, st))
<1>1. f \in Files /\ c \in Contacts
  BY DEF Public, Almost
<1>2. s = "sender" => f \notin c.hashing
  BY DEF Public, Almost, Hashes
<1>3. Sound(s, SetState(c, f, st))
  BY <1>1, <1>2, SetStateSound
<1>4. Discreet(s, c, SetState(c, f, st))
  BY <1>1, SetStateDiscreet
<1> QED
  BY <1>3, <1>4 DEF Fine

\* The same when the file may be in that state already.
LEMMA SetStateAnyFine ==
  ASSUME NEW s \in Sides, NEW c, NEW f \in Public(s, c), Sound(s, c),
         NEW st \in FileStates \ {"NONE", "CANCELLED", "TRANSFERRING"},
         s = "sender" => st # "HASHING" /\ c.state[f] # "CANCELLED",
         st # Waiting(s)
  PROVE  Fine(s, c, SetState(c, f, st))
<1>1. CASE c.state[f] = st
  BY <1>1, SameFine DEF SetState
<1>2. CASE c.state[f] # st
  <2>1. f \in Files
    BY DEF Public
  <2>2. Almost(s, c, f)
    BY <2>1, SoundIsAlmost
  <2> QED
    BY <1>2, <2>2, SetStateFine
<1> QED
  BY <1>1, <1>2

\* A known file is cancelled.
LEMMA CancelledFine ==
  ASSUME NEW s \in Sides, NEW c, NEW f \in Public(s, c), Sound(s, c)
  PROVE  Fine(s, c, SetState(c, f, "CANCELLED"))
<1>1. CASE c.state[f] = "CANCELLED"
  BY <1>1, SameFine DEF SetState
<1>2. CASE c.state[f] # "CANCELLED"
  <2>1. f \in Files /\ c \in Contacts
    BY DEF Public, Sound
  <2>2. s = "sender" => f \notin c.hashing
    BY DEF Public, Sound, Hashes
  <2>3. Almost(s, c, f)
    BY <2>1, SoundIsAlmost
  <2>4. "CANCELLED" \in FileStates \ {"NONE", "HASHING"} /\ "CANCELLED" # Waiting(s)
    BY DEF FileStates, Waiting
  <2>5. Sound(s, SetState(c, f, "CANCELLED"))
    BY <1>2, <2>1, <2>2, <2>3, <2>4, SetStateSound
  <2>6. Discreet(s, c, SetState(c, f, "CANCELLED"))
    BY <2>1, <2>4, SetStateDiscreet
  <2> QED
    BY <2>5, <2>6 DEF Fine
<1> QED
  BY <1>1, <1>2

\* File::transferFailed().
LEMMA TransferFailedFine ==
  ASSUME NEW s \in Sides, NEW c, NEW f \in Public(s, c), Sound(s, c)
  PROVE  Fine(s, c, TransferFailed(c, f))
<1> DEFINE d == SetState(c, f, "CANCELLED")
<1>1. CASE c.state[f] = "CANCELLED"
  BY <1>1, SameFine DEF TransferFailed
<1>2. CASE c.state[f] # "CANCELLED"
  <2>1. Fine(s, c, d)
    BY CancelledFine
  <2>2. TransferFailed(c, f) = Acked(d, f, "Abort")
    BY <1>2 DEF TransferFailed
  <2> HIDE DEF d
  <2>3. "Abort" \in AckStatus
    BY DEF AckStatus
  <2>4. Fine(s, d, Acked(d, f, "Abort"))
    BY <2>1, <2>3, AckedFine DEF Fine, Discreet
  <2> QED
    BY <2>1, <2>2, <2>4, FineTwice DEF Fine
<1> QED
  BY <1>1, <1>2

\* A contact as the program first makes it.
LEMMA NewContactFields ==
  /\ NewContact \in Contacts
  /\ NewContact.state = [f \in Files |-> "NONE"]
  /\ NewContact.queue = <<>> /\ ~NewContact.loaded
  /\ NewContact.active = {} /\ NewContact.hashing = {} /\ NewContact.open = {}
  /\ NewContact.wire = <<>>
<1>1. <<>> \in Seq(Files) /\ <<>> \in Seq(Packets)
  OBVIOUS
<1>2. [f \in Files |-> "NONE"] \in [Files -> FileStates]
  BY DEF FileStates
<1>3. [f \in Files |-> 0] \in [Files -> Nat] /\ [f \in Files |-> 0] \in [Files -> 0..Wrong]
  BY ChunksAssumption DEF Wrong
<1> QED
  BY <1>1, <1>2, <1>3 DEF NewContact, Contacts

\* The end of a program, from any state that has its types.
LEMMA EndedFine ==
  ASSUME NEW s \in Sides, NEW c \in Contacts
  PROVE  Fine(s, c, Ended(s, c)) /\ Ended(s, c).wire = c.wire
<1> DEFINE d == Ended(s, c)
           st == [f \in Files |-> RecoveredState(s, c.state[f])]
<1>1. c.state \in [Files -> FileStates]
  BY DEF Contacts
<1>2. \A f \in Files :
        /\ st[f] \in FileStates
        /\ st[f] # "TRANSFERRING"
        /\ st[f] = "NONE" <=> c.state[f] = "NONE"
        /\ s = "sender" => (st[f] = "HASHING" <=> c.state[f] = "HASHING")
        /\ c.state[f] = "CANCELLED" => st[f] = "CANCELLED"
  <2> SUFFICES ASSUME NEW f \in Files
               PROVE  /\ st[f] \in FileStates
                      /\ st[f] # "TRANSFERRING"
                      /\ st[f] = "NONE" <=> c.state[f] = "NONE"
                      /\ s = "sender" => (st[f] = "HASHING" <=> c.state[f] = "HASHING")
                      /\ c.state[f] = "CANCELLED" => st[f] = "CANCELLED"
    OBVIOUS
  <2>1. st[f] = RecoveredState(s, c.state[f])
    OBVIOUS
  <2>2. c.state[f] \in FileStates
    BY <1>1
  <2>3. CASE s = "sender" /\ c.state[f] \in {"TRANSFERRING", "OFFERED"}
    BY <2>1, <2>2, <2>3 DEF RecoveredState, FileStates
  <2>4. CASE s = "receiver" /\ c.state[f] = "TRANSFERRING"
    BY <2>1, <2>2, <2>4 DEF RecoveredState, FileStates
  <2>5. CASE /\ ~(s = "sender" /\ c.state[f] \in {"TRANSFERRING", "OFFERED"})
             /\ ~(s = "receiver" /\ c.state[f] = "TRANSFERRING")
    <3>1. st[f] = c.state[f]
      BY <2>1, <2>5 DEF RecoveredState
    <3> QED
      BY <2>2, <2>5, <3>1 DEF Sides
  <2> QED
    BY <2>3, <2>4, <2>5
<1>3. st \in [Files -> FileStates]
  BY <1>2
<1> HIDE DEF st
<1>4. d = [NewContact EXCEPT !.state = st, !.parts = c.parts, !.wire = c.wire,
                             !.bad = c.bad, !.up = FALSE]
  BY DEF Ended, st
<1>5. /\ d \in Contacts
      /\ d.state = st /\ d.wire = c.wire
      /\ d.queue = <<>> /\ ~d.loaded
      /\ d.active = {} /\ d.hashing = {} /\ d.open = {}
  BY ZenonT(40), <1>3, <1>4, NewContactFields DEF Contacts
<1> HIDE DEF d
<1>6. Sound(s, d)
  BY <1>2, <1>5 DEF Sound, Queued, Slots, Hashes, Opens
<1>7. Discreet(s, c, d)
  BY <1>2, <1>5 DEF Discreet, Public, Named
<1> QED
  BY <1>5, <1>6, <1>7 DEF Fine, d

\* A change of what Sound does not speak of, with nothing written.
LEMMA SameFieldsFine ==
  ASSUME NEW s \in Sides, NEW c, Sound(s, c), NEW d \in Contacts,
         d.state = c.state, d.queue = c.queue, d.loaded = c.loaded,
         d.threw = c.threw,
         d.hashing = c.hashing, d.active = c.active, d.wire = c.wire,
         \A e \in d.open : e \in c.open \/ e[2] \in Public(s, c)
  PROVE  Fine(s, c, d)
<1>1. Sound(s, d)
  BY SameFieldsSound
<1> QED
  BY <1>1 DEF Fine, Discreet, Public, Named

\* OutgoingFileChannel::onOutgoing().
LEMMA OnOutgoingFine ==
  ASSUME NEW c, Sound("sender", c), NEW f \in Public("sender", c)
  PROVE  Fine("sender", c, OnOutgoing(c, f))
<1> DEFINE n == IF c.parts[f] < Chunks THEN c.parts[f] + 1 ELSE Chunks
           p == Chunk(f, n, c.channel[f])
           b == [c EXCEPT !.parts[f] = n]
           sent == Sent(b, p)
<1>1. c \in Contacts /\ f \in Files /\ "sender" \in Sides
  BY DEF Sound, Public, Sides
<1>2. n \in 1..Chunks /\ n \in 0..Wrong
  BY <1>1, ChunksAssumption DEF Contacts, Wrong
<1> HIDE DEF n
<1>3. p \in Packets /\ p.file = f
  BY <1>1, <1>2 DEF Packets, Chunk, Contacts
<1>4. Fine("sender", c, b)
  <2>1. /\ b \in Contacts
        /\ b.state = c.state /\ b.queue = c.queue /\ b.loaded = c.loaded
        /\ b.threw = c.threw
        /\ b.hashing = c.hashing /\ b.active = c.active /\ b.wire = c.wire
        /\ b.open = c.open
    BY <1>1, <1>2 DEF Contacts
  <2> HIDE DEF b
  <2> QED
    BY <1>1, <2>1, SameFieldsFine
<1>5. f \in Public("sender", b)
  BY <1>4 DEF Fine, Discreet
<1>6. b \in Contacts
  BY <1>4 DEF Fine, Sound
<1> HIDE DEF p, b
<1>7. Fine("sender", b, sent)
  <2>1. /\ sent \in Contacts
        /\ sent.state = b.state /\ sent.queue = b.queue
        /\ sent.loaded = b.loaded /\ sent.hashing = b.hashing
        /\ sent.threw = b.threw
        /\ sent.active = b.active /\ sent.open = b.open
    BY <1>3, <1>6, SentFields
  <2>2. Discreet("sender", b, sent)
    BY <1>1, <1>3, <1>5, <1>6, SentDiscreet
  <2> HIDE DEF sent
  <2>3. Sound("sender", sent)
    BY <1>1, <1>4, <2>1, SameFieldsSound DEF Fine
  <2> QED
    BY <2>2, <2>3 DEF Fine
<1>8. Fine("sender", c, sent)
  BY <1>4, <1>7, FineTwice DEF Fine
<1>9. OnOutgoing(c, f) = IF n < Chunks THEN sent
                         ELSE IF c.state[f] = "TRANSFERRING"
                         THEN SetState(sent, f, "DONE")
                         ELSE Ended("sender", sent)
  BY DEF OnOutgoing, n, p, b
<1>10. sent.state = c.state /\ f \in Public("sender", sent) /\ sent \in Contacts
  <2>1. sent.state = b.state
    BY <1>3, <1>6, SentFields
  <2>2. b.state = c.state
    BY <1>1 DEF b, Contacts
  <2> QED
    BY <1>8, <2>1, <2>2 DEF Fine, Discreet, Sound
<1> HIDE DEF sent
<1>11. CASE c.state[f] = "TRANSFERRING"
  <2>1. Fine("sender", sent, SetState(sent, f, "DONE"))
    BY <1>1, <1>8, <1>10, <1>11, SetStateAnyFine DEF Fine, FileStates, Waiting
  <2> QED
    BY <1>8, <1>9, <1>11, <2>1, FineTwice DEF Fine
<1>12. CASE c.state[f] # "TRANSFERRING"
  <2>1. Fine("sender", sent, Ended("sender", sent))
    BY <1>1, <1>10, EndedFine
  <2> QED
    BY <1>8, <1>9, <1>12, <2>1, FineTwice DEF Fine
<1> QED
  BY <1>11, <1>12

\* Peer::createChannel() field by field.
LEMMA WithChannelFields ==
  ASSUME NEW c \in Contacts, NEW ch \in Nat, NEW f \in Files,
         NEW d, d = WithChannel(c, ch, f)
  PROVE  /\ d \in Contacts
         /\ d.state = c.state /\ d.queue = c.queue /\ d.loaded = c.loaded
         /\ d.threw = c.threw
         /\ d.hashing = c.hashing /\ d.active = c.active /\ d.wire = c.wire
         /\ d.next = c.next /\ d.online = c.online /\ d.channel = c.channel
         /\ d.open = c.open \cup {<<ch, f>>}
<1> DEFINE o == c.open \cup {<<ch, f>>}
           m == c.made \cup {<<ch, f>>}
           q == [c.parts EXCEPT ![f] = 0]
<1>1. o \in SUBSET (Nat \X Files) /\ m \in SUBSET (Nat \X Files)
  BY DEF Contacts
<1>2. q \in [Files -> 0..Wrong]
  BY ChunksAssumption DEF Contacts, Wrong
<1>3. d = [c EXCEPT !.open = o, !.made = m, !.parts = q]
  BY DEF WithChannel, Contacts
<1> HIDE DEF o, m, q
<1>4. /\ d \in Contacts
      /\ d.state = c.state /\ d.queue = c.queue /\ d.loaded = c.loaded
      /\ d.threw = c.threw
      /\ d.hashing = c.hashing /\ d.active = c.active /\ d.wire = c.wire
      /\ d.next = c.next /\ d.online = c.online /\ d.channel = c.channel
      /\ d.open = o
  BY ZenonT(40), <1>1, <1>2, <1>3 DEF Contacts
<1> QED
  BY <1>4 DEF o

\* Peer::startSend() of a queued file that has its slot.
LEMMA StartSendFine ==
  ASSUME NEW c, Sound("sender", c), NEW f \in c.active, c.state[f] = "QUEUED"
  PROVE  Fine("sender", c, StartSend(c, f))
<1> DEFINE ch == c.channel[f]
           w == WithChannel(c, ch, f)
           t == SetState(w, f, "TRANSFERRING")
<1>1. c \in Contacts /\ f \in Files /\ "sender" \in Sides
  BY DEF Sound, Contacts, Sides
<1>2. f \in Public("sender", c)
  BY <1>1 DEF Public
<1>3. StartSend(c, f) \in {c, Ended("sender", c), OnOutgoing(t, f)}
  BY DEF StartSend
<1>4. ch \in Nat
  BY <1>1 DEF Contacts
<1> HIDE DEF ch
<1>5. /\ w \in Contacts
      /\ w.state = c.state /\ w.queue = c.queue /\ w.loaded = c.loaded
      /\ w.threw = c.threw
      /\ w.hashing = c.hashing /\ w.active = c.active /\ w.wire = c.wire
      /\ w.open = c.open \cup {<<ch, f>>}
  BY <1>1, <1>4, WithChannelFields
<1> HIDE DEF w
<1>6. Fine("sender", c, w)
  BY <1>1, <1>2, <1>5, SameFieldsFine
<1>7. f \in Public("sender", w) /\ Almost("sender", w, f)
  BY <1>1, <1>2, <1>6, SoundIsAlmost DEF Fine, Discreet
<1>8. Fine("sender", w, t)
  BY <1>1, <1>5, <1>7, SetStateFine DEF FileStates, Waiting
<1>9. Fine("sender", c, t) /\ f \in Public("sender", t)
  BY <1>6, <1>7, <1>8, FineTwice DEF Fine, Discreet
<1> HIDE DEF t
<1>10. Fine("sender", c, OnOutgoing(t, f))
  BY <1>9, OnOutgoingFine, FineTwice DEF Fine
<1> QED
  BY <1>1, <1>3, <1>10, EndedFine, SameFine

\* Peer::startReceive() of a queued file that has just got its slot.
LEMMA StartReceiveFine ==
  ASSUME NEW c, NEW f \in c.active, Almost("receiver", c, f),
         c.state[f] = "QUEUED"
  PROVE  Fine("receiver", c, StartReceive(c, f))
<1> DEFINE w == WithChannel(c, c.next, f)
           p == Proceed(f, c.next)
           a == Sent(w, p)
           t == SetState(a, f, "TRANSFERRING")
           e == [t EXCEPT !.channel[f] = c.next, !.next = @ + 1]
           x == [c EXCEPT !.threw = @ \cup {f}]
<1>1. c \in Contacts /\ f \in Files /\ "receiver" \in Sides /\ c.next \in Nat
  BY DEF Almost, Contacts, Sides
<1>2. f \in Public("receiver", c)
  BY <1>1 DEF Public
<1>3. StartReceive(c, f) = IF f \in c.bad THEN x ELSE e
  BY DEF StartReceive
<1>17. Fine("receiver", c, x)
  <2>1. /\ x \in Contacts
        /\ x.state = c.state /\ x.queue = c.queue /\ x.loaded = c.loaded
        /\ x.threw = c.threw \cup {f}
        /\ x.hashing = c.hashing /\ x.active = c.active /\ x.wire = c.wire
        /\ x.open = c.open
    BY <1>1 DEF Contacts
  <2> HIDE DEF x
  <2>2. Queued("receiver", x)
    BY <2>1 DEF Almost, Queued, Loadable
  <2>3. Slots("receiver", x)
    BY <2>1 DEF Almost, Slots
  <2>4. Hashes("receiver", x) /\ Opens("receiver", x)
    BY <2>1 DEF Almost, Hashes, Opens, Public
  <2> QED
    BY <2>1, <2>2, <2>3, <2>4 DEF Fine, Sound, Discreet, Public, Named
<1> HIDE DEF x
<1>4. p \in Packets /\ p.file = f
  BY <1>1 DEF Packets, Proceed, AckStatus
<1> HIDE DEF p
<1>5. /\ w \in Contacts
      /\ w.state = c.state /\ w.queue = c.queue /\ w.loaded = c.loaded
      /\ w.threw = c.threw
      /\ w.hashing = c.hashing /\ w.active = c.active /\ w.wire = c.wire
      /\ w.open = c.open \cup {<<c.next, f>>}
  BY <1>1, WithChannelFields
<1> HIDE DEF w
<1>6. /\ a \in Contacts
      /\ a.state = w.state /\ a.queue = w.queue /\ a.loaded = w.loaded
      /\ a.threw = w.threw
      /\ a.hashing = w.hashing /\ a.active = w.active /\ a.open = w.open
  BY <1>4, <1>5, SentFields
<1>7. Discreet("receiver", c, w) /\ f \in Public("receiver", w)
  BY <1>2, <1>5 DEF Discreet, Public, Named
<1>8. Discreet("receiver", w, a)
  BY <1>1, <1>4, <1>5, <1>7, SentDiscreet
<1> HIDE DEF a
<1>9. Discreet("receiver", c, a) /\ f \in Public("receiver", a)
  BY <1>7, <1>8, DiscreetTwice DEF Discreet
<1>10. Almost("receiver", a, f)
  BY <1>1, <1>2, <1>5, <1>6, SameFieldsSound
<1>11. Fine("receiver", a, t)
  BY <1>1, <1>5, <1>6, <1>9, <1>10, SetStateFine DEF FileStates, Waiting
<1>12. Fine("receiver", c, t)
  BY <1>9, <1>11, FineTwice
<1>13. t \in Contacts
  BY <1>12 DEF Fine, Sound
<1> HIDE DEF t
<1>14. /\ e \in Contacts
       /\ e.state = t.state /\ e.queue = t.queue /\ e.loaded = t.loaded
       /\ e.threw = t.threw
       /\ e.hashing = t.hashing /\ e.active = t.active /\ e.wire = t.wire
       /\ e.open = t.open
  <2> DEFINE h == [t.channel EXCEPT ![f] = c.next]
             n == t.next + 1
  <2>1. h \in [Files -> Nat] /\ n \in Nat
    BY <1>1, <1>13 DEF Contacts
  <2>2. e = [t EXCEPT !.channel = h, !.next = n]
    BY <1>13 DEF Contacts
  <2> HIDE DEF h, n, e
  <2> QED
    BY <1>13, <2>1, <2>2 DEF Contacts
<1> HIDE DEF e
<1>15. Fine("receiver", t, e)
  BY <1>1, <1>12, <1>14, SameFieldsFine DEF Fine
<1> QED
  BY <1>3, <1>12, <1>15, <1>17, FineTwice DEF Fine

\* Contact::queueTransfer() of a queued file that was just taken off the queue.
LEMMA QueueTransferFine ==
  ASSUME NEW s \in Sides, NEW c, NEW f \in Files, Almost(s, c, f),
         c.state[f] = "QUEUED",
         s = "receiver" => f \notin c.active \/ f \in c.threw
  PROVE  Fine(s, c, QueueTransfer(s, c, f))
<1> DEFINE slot == [c EXCEPT !.active = @ \cup {f}]
<1>1. c \in Contacts
  BY DEF Almost
<1>2. s = "sender" \/ f \in c.threw => Sound(s, c)
  BY DEF Almost, Sound, Queued, Loadable, Slots
<1>3. /\ slot \in Contacts
      /\ slot.state = c.state /\ slot.queue = c.queue
      /\ slot.loaded = c.loaded /\ slot.hashing = c.hashing
      /\ slot.threw = c.threw
      /\ slot.wire = c.wire /\ slot.open = c.open
      /\ slot.active = c.active \cup {f}
  BY <1>1 DEF Contacts
<1>4. QueueTransfer(s, c, f) = IF f \in c.active THEN c
                               ELSE IF s = "sender" THEN StartSend(slot, f)
                               ELSE StartReceive(slot, f)
  BY DEF QueueTransfer
<1> HIDE DEF slot
<1>5. /\ Public(s, slot) = Public(s, c)
      /\ Discreet(s, c, slot)
  BY <1>3 DEF Public, Discreet, Named
<1>6. Almost(s, slot, f)
  BY <1>3, <1>5 DEF Almost, Loadable, Hashes, Opens
<1>7. CASE f \in c.active
  BY <1>2, <1>4, <1>7, SameFine DEF Sides
<1>8. CASE f \notin c.active /\ s = "sender"
  <2>1. Sound("sender", slot)
    BY <1>3, <1>6, <1>8 DEF Almost, Sound, Queued, Loadable, Slots
  <2>2. Fine("sender", slot, StartSend(slot, f))
    BY <1>3, <2>1, StartSendFine
  <2> QED
    BY <1>4, <1>5, <1>8, <2>2, FineTwice
<1>9. CASE f \notin c.active /\ s = "receiver"
  <2>1. Fine("receiver", slot, StartReceive(slot, f))
    BY <1>3, <1>6, <1>9, StartReceiveFine
  <2> QED
    BY <1>4, <1>5, <1>9, <2>1, FineTwice
<1> QED
  BY <1>7, <1>8, <1>9 DEF Sides

\* What is left of the queue from its first file that belongs in it: none that
\* belongs is lost, and the first one does.
LEMMA BelongingKeeps ==
  ASSUME NEW s \in Sides, NEW c \in Contacts
  PROVE  /\ Belonging(s, c) \in Seq(Files)
         /\ \A g \in ToSet(c.queue) :
              c.state[g] \in QueueStates(s) => g \in ToSet(Belonging(s, c))
         /\ Belonging(s, c) # <<>> =>
              c.state[Head(Belonging(s, c))] \in QueueStates(s)
<1> DEFINE u == c.queue
           is == {i \in DOMAIN c.queue : c.state[c.queue[i]] \in QueueStates(s)}
           k == Min(is)
           q == SubSeq(u, k, Len(u))
<1>1. u \in Seq(Files) /\ Len(u) \in Nat /\ DOMAIN u = 1..Len(u)
  BY DEF Contacts
<1>2. CASE is = {}
  <2>1. Belonging(s, c) = <<>>
    BY <1>2 DEF Belonging
  <2>2. \A g \in ToSet(u) : c.state[g] \notin QueueStates(s)
    BY <1>2 DEF ToSet
  <2> QED
    BY <2>1, <2>2
<1>3. CASE is # {}
  <2>1. is \subseteq Nat
    BY <1>1
  <2>2. k \in is /\ \A j \in is : k <= j
    BY <1>3, <2>1, LeastOfNat
  <2>3. k \in 1..Len(u) /\ c.state[u[k]] \in QueueStates(s)
    BY <1>1, <2>2
  <2>4. \A j \in 1..Len(u) : c.state[u[j]] \in QueueStates(s) => k <= j
    BY <1>1, <2>2
  <2>5. Belonging(s, c) = q
    BY <1>3 DEF Belonging
  <2> HIDE DEF k, is
  <2>6. /\ q \in Seq(Files) /\ Len(q) = Len(u) - k + 1
        /\ \A i \in 1..(Len(u) - k + 1) : q[i] = u[k + i - 1]
    BY <1>1, <2>3, SubSeqProperties
  <2> HIDE DEF q
  <2>7. ASSUME NEW g \in ToSet(u), c.state[g] \in QueueStates(s)
        PROVE  g \in ToSet(q)
    <3>1. PICK j \in 1..Len(u) : g = u[j]
      BY <1>1, <2>7 DEF ToSet
    <3>2. k <= j
      BY <2>4, <2>7, <3>1
    <3> DEFINE i == j - k + 1
    <3>3. i \in 1..(Len(u) - k + 1) /\ k + i - 1 = j
      BY <1>1, <2>3, <3>1, <3>2
    <3> HIDE DEF i
    <3>4. i \in 1..Len(q) /\ q[i] = g
      BY <2>6, <3>1, <3>3
    <3> QED
      BY <2>6, <3>4, InToSet
  <2>8. q # <<>> /\ Head(q) = u[k]
    <3>1. Len(q) \in Nat \ {0} /\ q[1] = u[k]
      BY <1>1, <2>3, <2>6
    <3> QED
      BY <2>6, <3>1
  <2> QED
    BY <2>3, <2>5, <2>6, <2>7, <2>8
<1> QED
  BY <1>2, <1>3

\* Another queue, without f perhaps, that keeps what waits.
LEMMA RequeuedAlmost ==
  ASSUME NEW s \in Sides, NEW c, Sound(s, c), NEW q \in Seq(Files),
         NEW f \in Files,
         \A g \in ToSet(c.queue) :
           c.state[g] = Waiting(s) => g \in ToSet(q) \/ g = f,
         NEW d, d = [c EXCEPT !.queue = q]
  PROVE  /\ Almost(s, d, f)
         /\ Discreet(s, c, d)
         /\ d \in Contacts
         /\ d.state = c.state /\ d.active = c.active /\ d.queue = q
         /\ d.threw = c.threw
         /\ c.state[f] # Waiting(s) => Sound(s, d)
<1>1. /\ d \in Contacts
      /\ d.state = c.state /\ d.active = c.active /\ d.queue = q
      /\ d.loaded = c.loaded /\ d.hashing = c.hashing /\ d.wire = c.wire
      /\ d.threw = c.threw
      /\ d.open = c.open
  BY DEF Contacts, Sound
<1>2. d.loaded => Loadable(s, d) \ {f} \subseteq ToSet(d.queue) \cup d.threw
  BY <1>1 DEF Sound, Queued, Loadable, Waiting
<1>3. c.state[f] # Waiting(s) => Queued(s, d)
  BY <1>1, <1>2 DEF Queued, Loadable, Waiting
<1>4. Slots(s, d) /\ Hashes(s, d) /\ Opens(s, d)
  BY <1>1 DEF Sound, Slots, Hashes, Opens, Public
<1>5. Discreet(s, c, d)
  BY <1>1 DEF Discreet, Public, Named
<1> QED
  BY <1>1, <1>2, <1>3, <1>4, <1>5 DEF Sound, Almost, Slots

\* The queue is emptied when nothing in it belongs there.
LEMMA EmptiedFine ==
  ASSUME NEW s \in Sides, NEW c, Sound(s, c),
         \A g \in ToSet(c.queue) : c.state[g] # Waiting(s)
  PROVE  Fine(s, c, [c EXCEPT !.queue = <<>>])
<1> DEFINE d == [c EXCEPT !.queue = <<>>]
<1>1. <<>> \in Seq(Files) /\ ToSet(<<>>) = {}
  BY DEF ToSet
<1>2. /\ d \in Contacts
      /\ d.state = c.state /\ d.active = c.active /\ d.queue = <<>>
      /\ d.loaded = c.loaded /\ d.hashing = c.hashing /\ d.wire = c.wire
      /\ d.threw = c.threw
      /\ d.open = c.open
  BY <1>1 DEF Contacts, Sound
<1> HIDE DEF d
<1>3. Queued(s, d)
  BY <1>2 DEF Sound, Queued, Loadable, Waiting
<1>4. Slots(s, d) /\ Hashes(s, d) /\ Opens(s, d)
  BY <1>2 DEF Sound, Slots, Hashes, Opens, Public
<1>5. Discreet(s, c, d)
  BY <1>2 DEF Discreet, Public, Named
<1> QED
  BY <1>2, <1>3, <1>4, <1>5 DEF Sound, Fine, d

\* Contact::processFilesQueue().
LEMMA ProcessFilesQueueFine ==
  ASSUME NEW s \in Sides, NEW c, Sound(s, c)
  PROVE  Fine(s, c, ProcessFilesQueue(s, c))
<1> DEFINE q == Belonging(s, c)
           f == Head(q)
           rest == [c EXCEPT !.queue = Tail(q)]
           whole == [c EXCEPT !.queue = q]
           offer == Sent(rest, Offer(f))
<1>1. c \in Contacts
  BY DEF Sound
<1>2. /\ q \in Seq(Files)
      /\ \A g \in ToSet(c.queue) : c.state[g] \in QueueStates(s) => g \in ToSet(q)
      /\ q # <<>> => c.state[Head(q)] \in QueueStates(s)
  BY <1>1, BelongingKeeps
<1>3. Waiting(s) \in QueueStates(s)
  BY DEF Waiting, QueueStates
<1>4. ProcessFilesQueue(s, c) =
        IF ~c.online THEN c
        ELSE IF q = <<>> THEN [c EXCEPT !.queue = <<>>]
        ELSE IF Throws(c, f) THEN QueueTransfer(s, whole, f)
        ELSE IF c.state[f] = "WAITING" THEN SetState(offer, f, "OFFERED")
        ELSE QueueTransfer(s, rest, f)
  BY DEF ProcessFilesQueue
<1> HIDE DEF q
<1>5. CASE ~c.online
  BY <1>4, <1>5, SameFine
<1>6. CASE c.online /\ q = <<>>
  <2>1. ToSet(q) = {}
    BY <1>6 DEF ToSet
  <2>2. \A g \in ToSet(c.queue) : c.state[g] # Waiting(s)
    BY <1>2, <1>3, <2>1
  <2> QED
    BY <1>4, <1>6, <2>2, EmptiedFine
<1>7. CASE c.online /\ q # <<>>
  <2>1. /\ f \in Files /\ Tail(q) \in Seq(Files)
        /\ ToSet(q) = {f} \cup ToSet(Tail(q))
    BY <1>2, <1>7, ToSetHeadTail
  <2>2. c.state[f] \in QueueStates(s)
    BY <1>2, <1>7
  <2>3. /\ Almost(s, rest, f)
        /\ Discreet(s, c, rest)
        /\ rest \in Contacts
        /\ rest.state = c.state /\ rest.active = c.active
        /\ rest.threw = c.threw
    <3> DEFINE t == Tail(q)
    <3>1. \A g \in ToSet(c.queue) :
            c.state[g] = Waiting(s) => g \in ToSet(t) \/ g = f
      BY <1>2, <1>3, <2>1
    <3>2. t \in Seq(Files) /\ rest = [c EXCEPT !.queue = t]
      BY <2>1
    <3> HIDE DEF t, rest, f
    <3> QED
      BY <2>1, <3>1, <3>2, RequeuedAlmost
  <2>4. /\ Almost(s, whole, f)
        /\ Discreet(s, c, whole)
        /\ whole.state = c.state /\ whole.active = c.active
    <3>1. \A g \in ToSet(c.queue) :
            c.state[g] = Waiting(s) => g \in ToSet(q) \/ g = f
      BY <1>2, <1>3
    <3> QED
      BY <1>2, <2>1, <3>1, RequeuedAlmost
  <2>5. f \in Public(s, c) /\ f \in Public(s, rest)
    BY <2>1, <2>2, <2>3 DEF Public, QueueStates
  <2> HIDE DEF f, rest, whole
  <2>6. s = "receiver" /\ c.state[f] = "QUEUED" =>
          f \notin c.active \/ f \in c.threw
    BY <2>1 DEF Sound, Slots
  <2>7. CASE Throws(c, f)
    <3>1. f \notin c.active /\ c.state[f] = "QUEUED"
      BY <2>7 DEF Throws
    <3>2. Fine(s, whole, QueueTransfer(s, whole, f))
      BY <2>1, <2>4, <3>1, QueueTransferFine
    <3> QED
      BY <1>4, <1>7, <2>4, <2>7, <3>2, FineTwice
  <2>8. CASE ~Throws(c, f) /\ c.state[f] = "WAITING"
    <3>1. s = "sender"
      BY <2>2, <2>8 DEF QueueStates, Sides
    <3>2. Offer(f) \in Packets /\ Offer(f).file = f
      BY <2>1 DEF Packets, Offer
    <3>3. /\ offer \in Contacts
          /\ offer.state = rest.state /\ offer.queue = rest.queue
          /\ offer.loaded = rest.loaded /\ offer.hashing = rest.hashing
          /\ offer.threw = rest.threw
          /\ offer.active = rest.active /\ offer.open = rest.open
      BY <2>3, <3>2, SentFields
    <3>4. Discreet(s, rest, offer)
      BY <2>3, <2>5, <3>2, SentDiscreet
    <3> HIDE DEF offer
    <3>5. Almost(s, offer, f)
      BY <2>1, <2>3, <3>3, SameFieldsSound
    <3>6. Discreet(s, c, offer) /\ f \in Public(s, offer)
      BY <2>3, <2>5, <3>4, DiscreetTwice DEF Discreet
    <3>7. Fine(s, offer, SetState(offer, f, "OFFERED"))
      BY <2>3, <2>8, <3>1, <3>3, <3>5, <3>6, SetStateFine
        DEF FileStates, Waiting
    <3> QED
      BY <1>4, <1>7, <2>8, <3>6, <3>7, FineTwice
  <2>9. CASE ~Throws(c, f) /\ c.state[f] # "WAITING"
    <3>1. c.state[f] = "QUEUED"
      BY <2>2, <2>9 DEF QueueStates
    <3>2. Fine(s, rest, QueueTransfer(s, rest, f))
      BY <2>1, <2>3, <2>6, <3>1, QueueTransferFine
    <3> QED
      BY <1>4, <1>7, <2>3, <2>9, <3>2, FineTwice
  <2> QED
    BY <2>7, <2>8, <2>9
<1> QED
  BY <1>1, <1>5, <1>6, <1>7 DEF Contacts

\* Peer::sendSome(), whatever follows from the loss of its channel.
LEMMA SendSomeFine ==
  ASSUME NEW c, Sound("sender", c), NEW f \in Public("sender", c),
         NEW d \in SendSome(c, f)
  PROVE  Fine("sender", c, d)
<1> DEFINE on == {e \in c.open : e[1] = c.channel[f]}
<1>1. "sender" \in Sides
  BY DEF Sides
<1>2. Fine("sender", c, TransferFailed(c, f))
  BY <1>1, TransferFailedFine
<1>3. Fine("sender", c, Ended("sender", TransferFailed(c, f)))
  <2> DEFINE t == TransferFailed(c, f)
  <2>1. Fine("sender", c, t)
    BY <1>2
  <2> HIDE DEF t
  <2>2. Fine("sender", t, Ended("sender", t))
    BY <1>1, <2>1, EndedFine DEF Fine, Sound
  <2>3. Fine("sender", c, Ended("sender", t))
    BY <2>1, <2>2, FineTwice DEF Fine
  <2> QED
    BY <2>3 DEF t
<1>4. ASSUME NEW e \in c.open
      PROVE  Fine("sender", c, OnOutgoing(c, e[2]))
  <2>1. e[2] \in Public("sender", c)
    BY DEF Sound, Opens
  <2> QED
    BY <2>1, OnOutgoingFine
<1>5. CASE on = {}
  BY <1>2, <1>3, <1>5 DEF SendSome
<1>6. CASE on # {}
  <2>1. PICK e \in on : d = OnOutgoing(c, e[2])
    BY <1>6 DEF SendSome
  <2> QED
    BY <1>4, <2>1
<1> QED
  BY <1>5, <1>6

\* Slots of files that are not being transferred are given up.
LEMMA DroppedFine ==
  ASSUME NEW s \in Sides, NEW c, Sound(s, c), NEW met,
         \A f \in met : c.state[f] # "TRANSFERRING"
  PROVE  /\ Fine(s, c, [c EXCEPT !.active = @ \ met])
         /\ [c EXCEPT !.active = @ \ met].state = c.state
<1> DEFINE d == [c EXCEPT !.active = @ \ met]
<1>1. /\ d \in Contacts
      /\ d.state = c.state /\ d.active = c.active \ met /\ d.queue = c.queue
      /\ d.loaded = c.loaded /\ d.hashing = c.hashing /\ d.wire = c.wire
      /\ d.threw = c.threw
      /\ d.open = c.open
  BY DEF Contacts, Sound
<1> HIDE DEF d
<1>2. Queued(s, d) /\ Hashes(s, d) /\ Opens(s, d)
  BY <1>1 DEF Sound, Queued, Loadable, Hashes, Opens, Public
<1>3. Slots(s, d)
  BY <1>1 DEF Sound, Slots
<1>4. Discreet(s, c, d)
  BY <1>1 DEF Discreet, Public, Named
<1> QED
  BY <1>1, <1>2, <1>3, <1>4 DEF Sound, Fine, d

\* Contact::processFileBlocks().
LEMMA ProcessFileBlocksFine ==
  ASSUME NEW s \in Sides, NEW c, Sound(s, c), NEW d \in ProcessFileBlocks(s, c)
  PROVE  Fine(s, c, d)
<1> DEFINE idle == {f \in c.active : c.state[f] # "TRANSFERRING"}
           busy == c.active \ idle
           without(met) == [c EXCEPT !.active = @ \ met]
<1>1. ProcessFileBlocks(s, c) =
        IF ~c.online THEN {c}
        ELSE IF s = "receiver" \/ busy = {} THEN {[c EXCEPT !.active = busy]}
        ELSE UNION {SendSome(without(met), f) : met \in SUBSET idle, f \in busy}
  BY DEF ProcessFileBlocks
<1>2. [c EXCEPT !.active = busy] = without(idle)
  BY DEF Sound, Contacts
<1>3. \A met \in SUBSET idle :
        Fine(s, c, without(met)) /\ without(met).state = c.state
  BY DroppedFine
<1>4. CASE d = c
  BY <1>4, SameFine
<1>5. CASE d = without(idle)
  BY <1>3, <1>5
<1>6. ASSUME s = "sender", NEW met \in SUBSET idle, NEW f \in busy,
             d \in SendSome(without(met), f)
      PROVE  Fine(s, c, d)
  <2>1. f \in Public("sender", c)
    BY DEF Public, Sound, Contacts
  <2>2. Fine(s, c, without(met))
    BY <1>3
  <2> HIDE DEF without, busy
  <2>3. f \in Public("sender", without(met))
    BY <1>6, <2>1, <2>2 DEF Fine, Discreet
  <2>4. Fine("sender", without(met), d)
    BY <1>6, <2>2, <2>3, SendSomeFine DEF Fine
  <2> QED
    BY <1>6, <2>2, <2>4, FineTwice DEF Fine
<1>7. \/ d = c
      \/ d = without(idle)
      \/ s = "sender" /\ \E met \in SUBSET idle, f \in busy :
                           d \in SendSome(without(met), f)
  <2> HIDE DEF without, idle, busy
  <2> QED
    BY <1>1, <1>2 DEF Sides
<1> QED
  BY <1>4, <1>5, <1>6, <1>7

\* Contact::onOutputBufferEmptied().
LEMMA OutputBufferEmptiedFine ==
  ASSUME NEW s \in Sides, NEW c, Sound(s, c), NEW d \in OutputBufferEmptied(s, c)
  PROVE  Fine(s, c, d)
<1> DEFINE p == ProcessFilesQueue(s, c)
<1>1. Fine(s, c, p)
  BY ProcessFilesQueueFine
<1>2. d = p \/ d \in ProcessFileBlocks(s, p)
  BY DEF OutputBufferEmptied
<1> HIDE DEF p
<1>3. d \in ProcessFileBlocks(s, p) => Fine(s, p, d)
  BY <1>1, ProcessFileBlocksFine DEF Fine
<1> QED
  BY <1>1, <1>2, <1>3, FineTwice DEF Fine

\* The rows that loadFileQueue() finds, in any order.
LEMMA RowsHold ==
  ASSUME NEW s, NEW c, NEW q \in Rows(Loadable(s, c))
  PROVE  q \in Seq(Files) /\ ToSet(q) = Loadable(s, c)
<1> DEFINE S == Loadable(s, c)
<1>1. S \in SUBSET Files
  BY DEF Loadable
<1> HIDE DEF S
<1>2. IsFiniteSet(S)
  BY <1>1, FilesAssumption, FS_Subset
<1>3. Cardinality(S) \in Nat
  BY <1>2, FS_CardinalityType
<1>4. q \in [1..Cardinality(S) -> S] /\ ToSet(q) = S
  BY DEF Rows, S
<1>5. q \in [1..Cardinality(S) -> Files]
  BY <1>1, <1>4
<1> QED
  BY <1>3, <1>4, <1>5 DEF S

\* Contact::loadFileQueue(): only the queue changes, which then holds all that
\* waits, f perhaps excepted.
LEMMA LoadFileQueueHolds ==
  ASSUME NEW s \in Sides, NEW c, NEW f \in Files, Almost(s, c, f),
         NEW d \in LoadFileQueue(s, c)
  PROVE  /\ d \in Contacts
         /\ d.state = c.state /\ d.hashing = c.hashing /\ d.active = c.active
         /\ d.open = c.open /\ d.wire = c.wire /\ d.online = c.online
         /\ c.threw = d.threw
         /\ Loadable(s, d) \ {f} \subseteq ToSet(d.queue) \cup d.threw
<1>1. c \in Contacts
  BY DEF Almost
<1>2. CASE c.loaded
  BY <1>1, <1>2 DEF LoadFileQueue, Almost, Loadable
<1>3. CASE ~c.loaded
  <2>1. PICK q \in Rows(Loadable(s, c)) :
          d = [c EXCEPT !.queue = @ \o q, !.loaded = TRUE]
    BY Zenon, <1>3 DEF LoadFileQueue
  <2>2. q \in Seq(Files) /\ ToSet(q) = Loadable(s, c)
    BY RowsHold
  <2>3. c.queue \in Seq(Files)
    BY <1>1 DEF Contacts
  <2>4. c.queue \o q \in Seq(Files) /\ Loadable(s, c) \subseteq ToSet(c.queue \o q)
    BY <2>2, <2>3, ToSetConcat
  <2> DEFINE u == c.queue \o q
  <2>5. d = [c EXCEPT !.queue = u, !.loaded = TRUE]
    BY <2>1
  <2>6. u \in Seq(Files) /\ Loadable(s, c) \subseteq ToSet(u)
    BY <2>4
  <2> HIDE DEF u
  <2>7. /\ d \in Contacts
        /\ d.state = c.state /\ d.hashing = c.hashing /\ d.active = c.active
        /\ d.open = c.open /\ d.wire = c.wire /\ d.online = c.online
        /\ d.queue = u /\ d.threw = c.threw
    BY <1>1, <2>5, <2>6 DEF Contacts
  <2> QED
    BY <2>6, <2>7 DEF Loadable
<1> QED
  BY <1>1, <1>2, <1>3 DEF Contacts

\* Contact::loadFileQueue() for a sound contact.
LEMMA LoadFileQueueFine ==
  ASSUME NEW s \in Sides, NEW c, Sound(s, c), NEW d \in LoadFileQueue(s, c)
  PROVE  Fine(s, c, d)
<1>1. CASE c.loaded
  BY <1>1, SameFine DEF LoadFileQueue
<1>2. CASE ~c.loaded
  <2>1. PICK q \in Rows(Loadable(s, c)) :
          d = [c EXCEPT !.queue = @ \o q, !.loaded = TRUE]
    BY Zenon, <1>2 DEF LoadFileQueue
  <2>2. q \in Seq(Files) /\ ToSet(q) = Loadable(s, c)
    BY RowsHold
  <2>3. c.queue \in Seq(Files) /\ c \in Contacts
    BY DEF Sound, Contacts
  <2> DEFINE u == c.queue \o q
  <2>4. u \in Seq(Files) /\ Loadable(s, c) \subseteq ToSet(u)
    BY <2>2, <2>3, ToSetConcat
  <2>5. d = [c EXCEPT !.queue = u, !.loaded = TRUE]
    BY <2>1
  <2> HIDE DEF u
  <2>6. /\ d \in Contacts
        /\ d.state = c.state /\ d.hashing = c.hashing /\ d.active = c.active
        /\ d.open = c.open /\ d.wire = c.wire /\ d.queue = u
        /\ d.threw = c.threw
    BY <2>3, <2>4, <2>5 DEF Contacts
  <2>7. Sound(s, d)
    BY <2>4, <2>6 DEF Sound, Queued, Loadable, Slots, Hashes, Opens, Public
  <2> QED
    BY <2>6, <2>7 DEF Fine, Discreet, Public, Named
<1> QED
  BY <1>1, <1>2 DEF Sound, Contacts

\* Contact::queueFile() of a file that waits, and is perhaps not queued yet.
LEMMA QueueFileFine ==
  ASSUME NEW s \in Sides, NEW c, NEW f \in Files, Almost(s, c, f), Slots(s, c),
         NEW d \in QueueFile(s, c, f)
  PROVE  Fine(s, c, d)
<1>1. PICK l \in LoadFileQueue(s, c) :
        d = ProcessFilesQueue(s, [l EXCEPT !.queue = Append(@, f)])
  BY DEF QueueFile
<1>2. /\ l \in Contacts
      /\ l.state = c.state /\ l.hashing = c.hashing /\ l.active = c.active
      /\ l.open = c.open /\ l.wire = c.wire
      /\ c.threw = l.threw
      /\ Loadable(s, l) \ {f} \subseteq ToSet(l.queue) \cup l.threw
  BY LoadFileQueueHolds
<1> DEFINE u == Append(l.queue, f)
           e == [l EXCEPT !.queue = u]
<1>3. l.queue \in Seq(Files)
  BY <1>2 DEF Contacts
<1>4. u \in Seq(Files) /\ ToSet(u) = ToSet(l.queue) \cup {f}
  BY <1>3, ToSetAppend
<1>5. d = ProcessFilesQueue(s, e)
  BY <1>1, <1>2 DEF Contacts
<1> HIDE DEF u
<1>6. /\ e \in Contacts
      /\ e.state = c.state /\ e.hashing = c.hashing /\ e.active = c.active
      /\ e.open = c.open /\ e.wire = c.wire /\ e.queue = u
      /\ e.threw = c.threw
  BY <1>2, <1>4 DEF Contacts
<1> HIDE DEF e
<1>7. Sound(s, e)
  <2>1. Queued(s, e)
    BY <1>2, <1>4, <1>6 DEF Queued, Loadable
  <2>2. Slots(s, e) /\ Hashes(s, e) /\ Opens(s, e)
    BY <1>6 DEF Almost, Slots, Hashes, Opens, Public
  <2> QED
    BY <1>6, <2>1, <2>2 DEF Sound
<1>8. Discreet(s, c, e)
  BY <1>6 DEF Discreet, Public, Named
<1>9. Fine(s, e, d)
  BY <1>5, <1>7, ProcessFilesQueueFine
<1> QED
  BY <1>8, <1>9, FineTwice

\* The channels die with the connection.
LEMMA WithoutPeerFine ==
  ASSUME NEW s \in Sides, NEW c, Sound(s, c)
  PROVE  Fine(s, c, WithoutPeer(c)) /\ WithoutPeer(c).state = c.state
<1> DEFINE d == WithoutPeer(c)
<1>1. /\ d \in Contacts
      /\ d.state = c.state /\ d.queue = c.queue /\ d.loaded = c.loaded
      /\ d.threw = c.threw
      /\ d.hashing = c.hashing /\ d.active = c.active /\ d.wire = c.wire
      /\ d.open = {}
  BY DEF WithoutPeer, Contacts, Sound
<1> HIDE DEF d
<1>2. Fine(s, c, d)
  BY <1>1, SameFieldsFine
<1> QED
  BY <1>1, <1>2 DEF d

\* Contact::clearFileQueues(): nothing is left in a slot, or being transferred.
LEMMA ClearedFine ==
  ASSUME NEW s \in Sides, NEW c, Sound(s, c)
  PROVE  Fine(s, c, Cleared(c))
<1> DEFINE d == Cleared(c)
           st == [f \in Files |-> IF f \in c.active /\ c.state[f] = "TRANSFERRING"
                                  THEN "FAILED" ELSE c.state[f]]
<1>1. c \in Contacts /\ <<>> \in Seq(Files)
  BY DEF Sound
<1>2. /\ st \in [Files -> FileStates]
      /\ \A f \in Files :
           /\ st[f] # "TRANSFERRING"
           /\ st[f] # c.state[f] => st[f] = "FAILED" /\ c.state[f] = "TRANSFERRING"
  BY <1>1 DEF Contacts, FileStates, Sound, Slots
<1>3. d = [c EXCEPT !.queue = <<>>, !.active = {}, !.loaded = FALSE, !.threw = {},
                    !.state = st]
  BY <1>1 DEF Cleared, Contacts
<1> HIDE DEF st, d
<1>4. /\ d \in Contacts
      /\ d.state = st /\ ~d.loaded /\ d.active = {}
      /\ d.hashing = c.hashing /\ d.open = c.open /\ d.wire = c.wire
  BY <1>1, <1>2, <1>3 DEF Contacts
<1>5. Public(s, d) = Public(s, c)
  BY <1>2, <1>4 DEF Public
<1>6. Queued(s, d) /\ Slots(s, d) /\ Opens(s, d)
  BY <1>2, <1>4, <1>5 DEF Sound, Queued, Slots, Opens
<1>7. Hashes(s, d)
  BY <1>1, <1>2, <1>4 DEF Sound, Hashes, Contacts
<1>8. Discreet(s, c, d)
  BY <1>2, <1>4, <1>5 DEF Discreet, Named
<1> QED
  BY <1>4, <1>6, <1>7, <1>8 DEF Fine, Sound, d

(***************************************************************************)
(* What a handler of one side does to both.                                *)
(***************************************************************************)

\* A file its sender cancelled stays so in this step.
CancelledKept ==
  \A f \in Files : contact["sender"].state[f] = "CANCELLED" =>
                     contact'["sender"].state[f] = "CANCELLED"

\* The outcome d of a handler of s makes known, and names, only what the sender
\* has hashed, and cancels nothing back.
Told(s, d) ==
  LET p == Public("sender", contact["sender"])
  IN IF s = "sender"
     THEN /\ p \cup Named(d) \subseteq Public("sender", d)
          /\ \A f \in Files : contact["sender"].state[f] = "CANCELLED" =>
                                d.state[f] = "CANCELLED"
     ELSE Public("receiver", d) \cup Named(d) \subseteq p

\* What the invariant says of one side.
LEMMA SideFacts ==
  ASSUME IInv, NEW s \in Sides
  PROVE  /\ contact[s] \in Contacts /\ Sound(s, contact[s])
         /\ Other(s) \in Sides /\ Other(s) # s
         /\ contact[Other(s)] \in Contacts /\ Sound(Other(s), contact[Other(s)])
         /\ contact \in [Sides -> Contacts]
         /\ Named(contact[s]) \subseteq Public("sender", contact["sender"])
         /\ Named(contact[Other(s)]) \subseteq Public("sender", contact["sender"])
         /\ Public(s, contact[s]) \subseteq Public("sender", contact["sender"])
BY DEF IInv, TypeOK, Known, Sides, Other

\* A discreet step from what a handler finds.
LEMMA DiscreetIsTold ==
  ASSUME IInv, NEW s \in Sides, NEW c, NEW d,
         c.state = contact[s].state, c.wire = contact[s].wire, Discreet(s, c, d)
  PROVE  Told(s, d)
<1>1. Public(s, c) = Public(s, contact[s]) /\ Named(c) = Named(contact[s])
  BY DEF Public, Named
<1>2. /\ Named(contact[s]) \subseteq Public("sender", contact["sender"])
      /\ Public(s, contact[s]) \subseteq Public("sender", contact["sender"])
  BY SideFacts
<1>3. /\ Public(s, d) = Public(s, contact[s])
      /\ Named(d) \subseteq Public("sender", contact["sender"])
  BY <1>1, <1>2 DEF Discreet
<1>4. CASE s = "sender"
  BY <1>3, <1>4 DEF Told, Discreet
<1>5. CASE s = "receiver"
  BY <1>2, <1>3, <1>5 DEF Told
<1> QED
  BY <1>4, <1>5 DEF Sides

\* Reading takes the first packet off the other side's wire.
LEMMA ReadWire ==
  ASSUME NEW s \in Sides, NEW c \in Contacts, Sound(s, c), c.wire # <<>>
  PROVE  LET t == [c EXCEPT !.wire = Tail(@)]
         IN /\ Sound(s, t)
            /\ t.state = c.state
            /\ Named(t) \subseteq Named(c)
<1> DEFINE w == Tail(c.wire)
           t == [c EXCEPT !.wire = Tail(@)]
<1>1. w \in Seq(Packets) /\ ToSet(w) \subseteq ToSet(c.wire)
  BY ToSetHeadTail DEF Contacts
<1>2. t = [c EXCEPT !.wire = w]
  BY DEF Contacts
<1> HIDE DEF w, t
<1>3. /\ t \in Contacts
      /\ t.state = c.state /\ t.queue = c.queue /\ t.loaded = c.loaded
      /\ t.threw = c.threw
      /\ t.hashing = c.hashing /\ t.active = c.active /\ t.open = c.open
      /\ t.wire = w
  BY <1>1, <1>2 DEF Contacts
<1>4. Sound(s, t)
  BY <1>3, SameFieldsSound
<1>5. Named(t) \subseteq Named(c)
  BY <1>1, <1>3 DEF Named
<1> QED
  BY <1>3, <1>4, <1>5 DEF t

\* What both sides know after a handler of s.
LEMMA ToldKnown ==
  ASSUME IInv, NEW s \in Sides, NEW d, Told(s, d), NEW o,
         contact' = [k \in Sides |-> IF k = s THEN d ELSE o],
         o.state = contact[Other(s)].state,
         Named(o) \subseteq Named(contact[Other(s)])
  PROVE  Known' /\ CancelledKept
<1> DEFINE p == Public("sender", contact["sender"])
           x == Public("sender", contact'["sender"])
<1>1. /\ Named(contact[Other(s)]) \subseteq p
      /\ Public("receiver", contact["receiver"]) \subseteq p
  BY SideFacts DEF IInv, Known
<1>2. CASE s = "sender"
  <2>1. contact'["sender"] = d /\ contact'["receiver"] = o
    BY <1>2 DEF Sides
  <2>2. p \subseteq x /\ Named(d) \subseteq x
    BY <1>2, <2>1 DEF Told
  <2>3. Public("receiver", o) = Public("receiver", contact["receiver"])
    BY <1>2 DEF Public, Other
  <2>4. Known'
    BY <1>1, <2>1, <2>2, <2>3 DEF Known, Sides
  <2>5. CancelledKept
    BY <1>2, <2>1 DEF Told, CancelledKept
  <2> QED
    BY <2>4, <2>5
<1>3. CASE s = "receiver"
  <2>1. contact'["receiver"] = d /\ contact'["sender"] = o
    BY <1>3 DEF Sides
  <2>2. x = p
    BY <1>3, <2>1 DEF Public, Other
  <2>3. Public("receiver", d) \cup Named(d) \subseteq p
    BY <1>3 DEF Told
  <2>4. Known'
    BY <1>1, <2>1, <2>2, <2>3 DEF Known, Sides
  <2>5. CancelledKept
    BY <1>3, <2>1 DEF CancelledKept, Other
  <2> QED
    BY <2>4, <2>5
<1> QED
  BY <1>2, <1>3 DEF Sides

\* A step of s that also leaves the other side sound.
LEMMA BothSound ==
  ASSUME IInv, NEW s \in Sides, NEW d, Sound(s, d), Told(s, d), NEW o,
         contact' = [k \in Sides |-> IF k = s THEN d ELSE o],
         o.state = contact[Other(s)].state,
         Named(o) \subseteq Named(contact[Other(s)]),
         Sound(Other(s), o),
         link' \in BOOLEAN, faults' \in Nat, refusals' \in Nat,
         tainted' \in BOOLEAN
  PROVE  IInv' /\ CancelledKept
<1>1. Known' /\ CancelledKept
  BY ToldKnown
<1>2. \A k \in Sides : Sound(k, contact'[k])
  BY DEF Sides, Other
<1>3. contact' \in [Sides -> Contacts]
  BY <1>2 DEF Sound
<1>4. TypeOK'
  BY <1>3 DEF TypeOK
<1> QED
  BY <1>1, <1>2, <1>4 DEF IInv

\* A handler with a sound outcome that tells nothing new.
LEMMA HandlerSound ==
  ASSUME IInv, NEW s \in Sides, NEW d, Sound(s, d), Told(s, d),
         \/ Becomes(s, d)
         \/ ReadsAndBecomes(s, d) /\ contact[Other(s)].wire # <<>>,
         refusals' \in Nat, tainted' \in BOOLEAN
  PROVE  IInv' /\ CancelledKept
<1> DEFINE c == contact[Other(s)]
           t == [c EXCEPT !.wire = Tail(@)]
<1>1. /\ contact \in [Sides -> Contacts] /\ Other(s) \in Sides /\ Other(s) # s
      /\ c \in Contacts /\ Sound(Other(s), c)
  BY SideFacts
<1>2. PICK o : /\ contact' = [k \in Sides |-> IF k = s THEN d ELSE o]
               /\ o.state = c.state
               /\ Named(o) \subseteq Named(c)
               /\ Sound(Other(s), o)
  <2>1. CASE Becomes(s, d)
    <3>1. contact' = [k \in Sides |-> IF k = s THEN d ELSE c]
      BY <1>1, <2>1 DEF Becomes, Sides, Other
    <3> QED
      BY <1>1, <3>1
  <2>2. CASE ReadsAndBecomes(s, d) /\ c.wire # <<>>
    <3>1. contact' = [k \in Sides |-> IF k = s THEN d ELSE t]
      BY <1>1, <2>2 DEF ReadsAndBecomes, Sides, Other
    <3>2. Sound(Other(s), t) /\ t.state = c.state /\ Named(t) \subseteq Named(c)
      BY <1>1, <2>2, ReadWire
    <3> QED
      BY <3>1, <3>2
  <2> QED
    BY <2>1, <2>2
<1> HIDE DEF c, t
<1>3. link' \in BOOLEAN /\ faults' \in Nat
  <2>1. /\ link' = (link /\ d.up)
        /\ faults' \in {faults, faults + 1}
    BY DEF Becomes, ReadsAndBecomes
  <2>2. link \in BOOLEAN /\ d.up \in BOOLEAN /\ faults \in Nat
    BY DEF IInv, TypeOK, Sound, Contacts
  <2>3. link' \in BOOLEAN
    BY ZenonT(20), <2>1, <2>2
  <2>4. faults' \in Nat
    BY <2>1, <2>2
  <2> QED
    BY <2>3, <2>4
<1> QED
  BY <1>2, <1>3, BothSound DEF c

\* The usual case: the outcome follows finely from what the handler finds.
LEMMA FineHandler ==
  ASSUME IInv, NEW s \in Sides, NEW c, NEW d,
         c.state = contact[s].state, c.wire = contact[s].wire, Fine(s, c, d),
         \/ Becomes(s, d)
         \/ ReadsAndBecomes(s, d) /\ contact[Other(s)].wire # <<>>,
         refusals' \in Nat, tainted' \in BOOLEAN
  PROVE  IInv' /\ CancelledKept
BY DiscreetIsTold, HandlerSound DEF Fine

(***************************************************************************)
(* One lemma per handler.                                                  *)
(***************************************************************************)

\* A file that starts to wait for the queue, in which it may not be yet.
LEMMA SetStateQueued ==
  ASSUME NEW s \in Sides, NEW c, NEW f \in Files, Sound(s, c),
         c.state[f] # Waiting(s), s = "sender" => f \notin c.hashing
  PROVE  LET d == SetState(c, f, Waiting(s))
         IN /\ Almost(s, d, f) /\ Slots(s, d)
            /\ d.wire = c.wire
            /\ d.state = [c.state EXCEPT ![f] = Waiting(s)]
<1> DEFINE st == Waiting(s)
           d == SetState(c, f, st)
<1>1. c \in Contacts /\ c.state \in [Files -> FileStates]
  BY DEF Sound, Contacts
<1>2. st \in FileStates \ {"NONE", "HASHING", "TRANSFERRING"}
  BY DEF Waiting, FileStates
<1> HIDE DEF st
<1>3. /\ d \in Contacts
      /\ d.state = [c.state EXCEPT ![f] = st]
      /\ d.queue = c.queue /\ d.loaded = c.loaded /\ d.hashing = c.hashing
      /\ d.threw = c.threw
      /\ d.open = c.open /\ d.wire = c.wire
      /\ d.active \subseteq c.active /\ c.active \ {f} \subseteq d.active
      /\ f \in d.active => c.state[f] = st \/ st = "TRANSFERRING"
  BY <1>1, <1>2, SetStateFields
<1> HIDE DEF d
<1>4. d.state[f] = st /\ \A g \in Files : g # f => d.state[g] = c.state[g]
  BY <1>1, <1>3
<1>5. d.loaded => Loadable(s, d) \ {f} \subseteq ToSet(d.queue) \cup d.threw
  BY <1>3, <1>4 DEF Sound, Queued, Loadable
<1>6. Slots(s, d)
  BY <1>2, <1>3, <1>4 DEF Sound, Slots, st
<1>7. Hashes(s, d)
  BY <1>1, <1>3, <1>4 DEF Sound, Hashes, Contacts
<1>8. Opens(s, d)
  <2>1. Public(s, c) \subseteq Public(s, d)
    BY <1>2, <1>4 DEF Public
  <2> QED
    BY <1>3, <2>1 DEF Sound, Opens
<1> QED
  BY <1>3, <1>5, <1>6, <1>7, <1>8 DEF Almost, Slots, d, st

\* The result of a HashTask is taken off the list of those awaited.
LEMMA HeardFine ==
  ASSUME NEW s \in Sides, NEW c, Sound(s, c), NEW f
  PROVE  LET d == [c EXCEPT !.hashing = @ \ {f}]
         IN Fine(s, c, d) /\ d.state = c.state /\ d.wire = c.wire
            /\ d.hashing = c.hashing \ {f}
<1> DEFINE d == [c EXCEPT !.hashing = @ \ {f}]
<1>1. /\ d \in Contacts
      /\ d.state = c.state /\ d.queue = c.queue /\ d.loaded = c.loaded
      /\ d.threw = c.threw
      /\ d.hashing = c.hashing \ {f} /\ d.active = c.active /\ d.wire = c.wire
      /\ d.open = c.open
  BY DEF Sound, Contacts
<1> HIDE DEF d
<1>2. Queued(s, d) /\ Slots(s, d) /\ Hashes(s, d) /\ Opens(s, d)
  BY <1>1 DEF Sound, Queued, Loadable, Slots, Hashes, Opens, Public
<1>3. Discreet(s, c, d)
  BY <1>1 DEF Discreet, Public, Named
<1> QED
  BY <1>1, <1>2, <1>3 DEF Fine, Sound, d

\* FileManager::addFile(): the file is hashed before anyone hears of it.
LEMMA AddFileStep ==
  ASSUME IInv, NEW f \in Files, AddFile(f), refusals' \in Nat, tainted' \in BOOLEAN
  PROVE  IInv' /\ CancelledKept
<1> DEFINE c == contact["sender"]
           h == SetState(c, f, "HASHING")
           d == [h EXCEPT !.hashing = @ \cup {f}]
<1>1. /\ c.state[f] = "NONE"
      /\ Becomes("sender", d)
  BY DEF AddFile
<1>2. "sender" \in Sides /\ c \in Contacts /\ Sound("sender", c)
  BY SideFacts DEF Sides
<1>3. Named(c) \subseteq Public("sender", c)
  BY <1>2, SideFacts
<1> HIDE DEF c
<1>4. f \notin c.hashing /\ f \notin Public("sender", c)
  BY <1>1, <1>2 DEF Sound, Hashes, Public
<1>5. Almost("sender", c, f)
  BY <1>2, SoundIsAlmost
<1>6. "HASHING" \in FileStates /\ "HASHING" # Waiting("sender")
  BY DEF FileStates, Waiting
<1>7. Sound("sender", h)
  BY <1>1, <1>2, <1>4, <1>5, <1>6, SetStateSound
<1>8. h.state = [c.state EXCEPT ![f] = "HASHING"] /\ h.wire = c.wire
  BY <1>2, <1>6, SetStateFields
<1> HIDE DEF h
<1>9. /\ d \in Contacts
      /\ d.state = h.state /\ d.queue = h.queue /\ d.loaded = h.loaded
      /\ d.threw = h.threw
      /\ d.hashing = h.hashing \cup {f} /\ d.active = h.active
      /\ d.wire = h.wire /\ d.open = h.open
  BY <1>7 DEF Sound, Contacts
<1> HIDE DEF d
<1>10. c.state \in [Files -> FileStates]
  BY <1>2 DEF Contacts
<1>11. d.state[f] = "HASHING" /\ \A g \in Files : g # f => d.state[g] = c.state[g]
  BY <1>8, <1>9, <1>10
<1>12. Sound("sender", d)
  <2>1. Queued("sender", d) /\ Slots("sender", d) /\ Opens("sender", d)
    BY <1>7, <1>9 DEF Sound, Queued, Loadable, Slots, Opens, Public
  <2>2. Hashes("sender", d)
    BY <1>7, <1>9, <1>11 DEF Sound, Hashes
  <2> QED
    BY <1>9, <2>1, <2>2 DEF Sound
<1>13. Told("sender", d)
  <2>1. Named(d) = Named(c)
    BY <1>8, <1>9 DEF Named
  <2>2. Public("sender", c) \subseteq Public("sender", d)
    BY <1>4, <1>11 DEF Public
  <2>3. \A g \in Files : c.state[g] = "CANCELLED" => d.state[g] = "CANCELLED"
    BY <1>1, <1>11
  <2> QED
    BY <1>3, <2>1, <2>2, <2>3 DEF Told, c
<1> QED
  BY <1>1, <1>2, <1>12, <1>13, HandlerSound

\* The hash of a file to be sent: the file is known from now on.
LEMMA FileHashedStep ==
  ASSUME IInv, NEW f \in Files, FileHashed(f), refusals' \in Nat, tainted' \in BOOLEAN
  PROVE  IInv' /\ CancelledKept
<1> DEFINE c == contact["sender"]
           heard == [c EXCEPT !.hashing = @ \ {f}]
           fail == SetState(heard, f, "FAILED")
           wait == SetState(heard, f, "WAITING")
<1>1. /\ f \in c.hashing
      /\ \/ Becomes("sender", fail)
         \/ \E d \in QueueFile("sender", wait, f) : Becomes("sender", d)
         \/ c.state[f] # "HASHING"
  BY DEF FileHashed
<1>2. "sender" \in Sides /\ c \in Contacts /\ Sound("sender", c)
  BY SideFacts DEF Sides
<1>3. Named(c) \subseteq Public("sender", c)
  BY <1>2, SideFacts
<1> HIDE DEF c
<1>4. c.state[f] = "HASHING"
  BY <1>1, <1>2 DEF Sound, Hashes
<1>5. /\ Sound("sender", heard) /\ heard.state = c.state /\ heard.wire = c.wire
      /\ f \notin heard.hashing
  BY <1>2, HeardFine DEF Fine
<1> HIDE DEF heard
<1>6. heard \in Contacts /\ heard.state \in [Files -> FileStates]
  BY <1>5 DEF Sound, Contacts
<1>7. ASSUME NEW st \in FileStates \ {"NONE", "HASHING"}, NEW d,
             d.state = [heard.state EXCEPT ![f] = st], d.wire = heard.wire
      PROVE  /\ Public("sender", c) \subseteq Public("sender", d)
             /\ Named(d) = Named(c)
             /\ \A g \in Files : c.state[g] = "CANCELLED" => d.state[g] = "CANCELLED"
  <2>1. d.state[f] = st /\ \A g \in Files : g # f => d.state[g] = c.state[g]
    BY <1>5, <1>6, <1>7
  <2> QED
    BY <1>4, <1>5, <1>7, <2>1 DEF Public, Named
<1>8. CASE Becomes("sender", fail)
  <2>1. "FAILED" \in FileStates \ {"NONE", "HASHING"} /\ "FAILED" # Waiting("sender")
    BY DEF FileStates, Waiting
  <2>2. Sound("sender", fail)
    BY <1>2, <1>4, <1>5, <2>1, SoundIsAlmost, SetStateSound
  <2>3. fail.state = [heard.state EXCEPT ![f] = "FAILED"] /\ fail.wire = heard.wire
    BY <1>6, <2>1, SetStateFields
  <2> HIDE DEF fail
  <2>4. Told("sender", fail)
    BY <1>3, <1>7, <2>1, <2>3 DEF Told, c
  <2> QED
    BY <1>2, <1>8, <2>2, <2>4, HandlerSound
<1>9. ASSUME NEW d \in QueueFile("sender", wait, f), Becomes("sender", d)
      PROVE  IInv' /\ CancelledKept
  <2>1. Waiting("sender") = "WAITING"
    BY DEF Waiting
  <2>2. /\ Almost("sender", wait, f) /\ Slots("sender", wait)
        /\ wait.state = [heard.state EXCEPT ![f] = "WAITING"]
        /\ wait.wire = heard.wire
    BY <1>2, <1>4, <1>5, <2>1, SetStateQueued
  <2> HIDE DEF wait
  <2>3. Fine("sender", wait, d)
    BY <1>2, <1>9, <2>2, QueueFileFine
  <2>4. /\ Public("sender", c) \subseteq Public("sender", wait)
        /\ Named(wait) = Named(c)
        /\ \A g \in Files : c.state[g] = "CANCELLED" => wait.state[g] = "CANCELLED"
    BY <1>7, <2>2 DEF FileStates
  <2>5. Told("sender", d)
    BY <1>3, <2>3, <2>4 DEF Told, Fine, Discreet, c
  <2> QED
    BY <1>2, <1>9, <2>3, <2>5, HandlerSound DEF Fine
<1> QED
  BY <1>1, <1>4, <1>8, <1>9

\* The hash of a received file.
LEMMA ReceivedFileHashedStep ==
  ASSUME IInv, NEW f \in Files, ReceivedFileHashed(f),
         refusals' \in Nat, tainted' \in BOOLEAN
  PROVE  IInv' /\ CancelledKept
<1> DEFINE c == contact["receiver"]
           heard == [c EXCEPT !.hashing = @ \ {f}]
<1>1. \/ c.state[f] = "HASHING" /\ Becomes("receiver", SetState(heard, f, "DONE"))
      \/ c.state[f] = "HASHING" /\ Becomes("receiver", TransferFailed(heard, f))
      \/ Becomes("receiver", heard)
  BY DEF ReceivedFileHashed
<1>2. "receiver" \in Sides /\ c \in Contacts /\ Sound("receiver", c)
  BY SideFacts DEF Sides
<1>3. Fine("receiver", c, heard) /\ heard.state = c.state /\ heard.wire = c.wire
  BY <1>2, HeardFine
<1> HIDE DEF c, heard
<1>4. c.state[f] = "HASHING" => f \in Public("receiver", heard)
  BY <1>3 DEF Public
<1>5. c.state[f] = "HASHING" => Fine("receiver", heard, SetState(heard, f, "DONE"))
  BY <1>2, <1>3, <1>4, SetStateAnyFine DEF Fine, FileStates, Waiting
<1>6. c.state[f] = "HASHING" => Fine("receiver", heard, TransferFailed(heard, f))
  BY <1>2, <1>3, <1>4, TransferFailedFine DEF Fine
<1>7. Fine("receiver", heard, heard)
  BY <1>2, <1>3, SameFine DEF Fine
<1>8. heard.state = contact["receiver"].state /\ heard.wire = contact["receiver"].wire
  BY <1>3 DEF c
<1> QED
  BY <1>1, <1>2, <1>5, <1>6, <1>7, <1>8, FineHandler

\* File::cancel().
LEMMA CancelStep ==
  ASSUME IInv, NEW s \in Sides, NEW f \in Files, Cancel(s, f),
         refusals' \in Nat, tainted' \in BOOLEAN
  PROVE  IInv' /\ CancelledKept
<1> DEFINE c == contact[s]
           d == SetState(c, f, "CANCELLED")
<1>1. \/ c.state[f] = "TRANSFERRING" /\ Becomes(s, TransferFailed(c, f))
      \/ c.state[f] \in {"WAITING", "OFFERED"} /\ Becomes(s, Acked(d, f, "Abort"))
  BY DEF Cancel
<1>2. c \in Contacts /\ Sound(s, c)
  BY SideFacts
<1>3. f \in Public(s, c)
  BY <1>1 DEF Public
<1>4. Fine(s, c, TransferFailed(c, f))
  BY <1>2, <1>3, TransferFailedFine
<1>5. Fine(s, c, Acked(d, f, "Abort"))
  <2>1. Fine(s, c, d)
    BY <1>2, <1>3, CancelledFine
  <2>2. f \in Public(s, d) /\ Sound(s, d)
    BY <1>3, <2>1 DEF Fine, Discreet
  <2> HIDE DEF d
  <2>3. Fine(s, d, Acked(d, f, "Abort"))
    BY <2>2, AckedFine DEF AckStatus
  <2> QED
    BY <2>1, <2>3, FineTwice DEF Fine
<1> QED
  BY <1>1, <1>4, <1>5, FineHandler

\* File::accept().
LEMMA AcceptStep ==
  ASSUME IInv, NEW f \in Files, Accept(f), refusals' \in Nat, tainted' \in BOOLEAN
  PROVE  IInv' /\ CancelledKept
<1> DEFINE c == contact["receiver"]
           e == SetState(c, f, "QUEUED")
<1>1. /\ c.state[f] = "OFFERED"
      /\ \E d \in QueueFile("receiver", e, f) : Becomes("receiver", d)
  BY DEF Accept
<1>2. PICK d \in QueueFile("receiver", e, f) : Becomes("receiver", d)
  BY <1>1
<1>3. "receiver" \in Sides /\ c \in Contacts /\ Sound("receiver", c)
  BY SideFacts DEF Sides
<1>4. /\ Almost("receiver", e, f) /\ Slots("receiver", e)
  BY <1>1, <1>3, SetStateQueued DEF Waiting
<1>5. Discreet("receiver", c, e)
  <2>1. f \in Public("receiver", c)
    BY <1>1 DEF Public
  <2> QED
    BY <1>3, <2>1, SetStateDiscreet DEF FileStates
<1> HIDE DEF e
<1>6. Fine("receiver", e, d)
  BY <1>3, <1>4, QueueFileFine
<1>7. Fine("receiver", c, d)
  BY <1>5, <1>6, FineTwice
<1> QED
  BY <1>2, <1>3, <1>7, FineHandler

\* File::reject().
LEMMA RejectStep ==
  ASSUME IInv, NEW f \in Files, Reject(f), refusals' \in Nat, tainted' \in BOOLEAN
  PROVE  IInv' /\ CancelledKept
<1> DEFINE c == contact["receiver"]
           d == SetState(c, f, "REJECTED")
<1>1. /\ c.state[f] # "NONE"
      /\ Becomes("receiver", Acked(d, f, "Rejected"))
  BY DEF Reject
<1>2. "receiver" \in Sides /\ c \in Contacts /\ Sound("receiver", c)
  BY SideFacts DEF Sides
<1>3. f \in Public("receiver", c)
  BY <1>1 DEF Public
<1>4. Fine("receiver", c, d)
  BY <1>2, <1>3, SetStateAnyFine DEF FileStates, Waiting
<1>5. f \in Public("receiver", d) /\ Sound("receiver", d)
  BY <1>3, <1>4 DEF Fine, Discreet
<1> HIDE DEF d
<1>6. Fine("receiver", d, Acked(d, f, "Rejected"))
  BY <1>2, <1>5, AckedFine DEF AckStatus
<1>7. Fine("receiver", c, Acked(d, f, "Rejected"))
  BY <1>4, <1>6, FineTwice DEF Fine
<1> QED
  BY <1>1, <1>2, <1>7, FineHandler

\* The packet a side reads is about a file the sender has hashed.
LEMMA PacketFacts ==
  ASSUME IInv, NEW s \in Sides, contact[Other(s)].wire # <<>>
  PROVE  /\ Packet(s) \in Packets
         /\ Packet(s).file \in Files
         /\ Packet(s).file \in Public("sender", contact["sender"])
<1> DEFINE w == contact[Other(s)].wire
<1>1. w \in Seq(Packets) /\ Packet(s) = Head(w)
  BY SideFacts DEF Contacts, Packet
<1>2. Packet(s) \in ToSet(w) /\ Packet(s) \in Packets
  BY <1>1, ToSetHeadTail
<1>3. Packet(s).file \in Named(contact[Other(s)])
  BY <1>2 DEF Named
<1>4. Packet(s).file \in Public("sender", contact["sender"])
  BY <1>3, SideFacts
<1> QED
  BY <1>2, <1>4 DEF Public

\* Contact::onReceivedFileOffer(): the receiver hears of a file.
LEMMA ReceivedFileOfferStep ==
  ASSUME IInv, ReceivedFileOffer, refusals' \in Nat, tainted' \in BOOLEAN
  PROVE  IInv' /\ CancelledKept
<1> DEFINE s == "receiver"
           c == contact[s]
           f == Packet(s).file
           answer(st) == Sent(c, Ack(f, st))
           offered == SetState(answer("Received"), f, "OFFERED")
<1>1. /\ contact[Other(s)].wire # <<>>
      /\ \/ c.state[f] = "REJECTED" /\ ReadsAndBecomes(s, answer("Rejected"))
         \/ c.state[f] = "DONE" /\ ReadsAndBecomes(s, answer("Completed"))
         \/ /\ c.state[f] = "QUEUED"
            /\ \E d \in QueueFile(s, c, f) : ReadsAndBecomes(s, d)
         \/ c.state[f] # "QUEUED" /\ ReadsAndBecomes(s, offered)
  BY DEF ReceivedFileOffer, Reads
<1>2. /\ s \in Sides /\ c \in Contacts /\ Sound(s, c)
      /\ Named(c) \subseteq Public("sender", contact["sender"])
      /\ Public(s, c) \subseteq Public("sender", contact["sender"])
  <2>1. s \in Sides
    BY DEF Sides
  <2> HIDE DEF s
  <2> QED
    BY <2>1, SideFacts
<1>3. f \in Files /\ f \in Public("sender", contact["sender"])
  BY <1>1, <1>2, PacketFacts
<1> HIDE DEF c, f
<1>4. ASSUME NEW st \in AckStatus
      PROVE  /\ answer(st) \in Contacts
             /\ answer(st).state = c.state
             /\ Sound(s, answer(st))
             /\ Named(answer(st)) \subseteq Named(c) \cup {f}
  <2> DEFINE p == Ack(f, st)
             d == Sent(c, p)
  <2>1. p \in Packets /\ p.file = f
    BY <1>3 DEF Packets, Ack
  <2> HIDE DEF p
  <2>2. /\ d \in Contacts
        /\ d.state = c.state /\ d.queue = c.queue /\ d.loaded = c.loaded
        /\ d.threw = c.threw
        /\ d.hashing = c.hashing /\ d.active = c.active /\ d.open = c.open
        /\ d.wire = c.wire \/ d.wire = Append(c.wire, p)
    BY <1>2, <2>1, SentFields
  <2> HIDE DEF d
  <2>3. Sound(s, d)
    BY <1>2, <2>2, SameFieldsSound
  <2>4. c.wire \in Seq(Packets)
    BY <1>2 DEF Contacts
  <2>5. ToSet(Append(c.wire, p)) = ToSet(c.wire) \cup {p}
    BY <2>1, <2>4, ToSetAppend
  <2>6. ToSet(d.wire) \subseteq ToSet(c.wire) \cup {p}
    BY <2>2, <2>5
  <2>7. Named(d) \subseteq Named(c) \cup {f}
    BY <2>1, <2>6 DEF Named
  <2> QED
    BY <2>2, <2>3, <2>7 DEF d, p
<1> HIDE DEF answer
<1>5. ASSUME NEW st \in AckStatus
      PROVE  Told(s, answer(st))
  <2>1. Public(s, answer(st)) = Public(s, c)
    BY <1>4, <1>5 DEF Public
  <2> QED
    BY <1>2, <1>3, <1>4, <1>5, <2>1 DEF Told
<1>6. ASSUME NEW st \in AckStatus, ReadsAndBecomes(s, answer(st))
      PROVE  IInv' /\ CancelledKept
  BY <1>1, <1>2, <1>4, <1>5, <1>6, HandlerSound
<1>7. ASSUME c.state[f] = "QUEUED",
             NEW d \in QueueFile(s, c, f), ReadsAndBecomes(s, d)
      PROVE  IInv' /\ CancelledKept
  <2>1. Almost(s, c, f) /\ Slots(s, c)
    BY <1>2, <1>3, SoundIsAlmost DEF Sound
  <2>2. Fine(s, c, d)
    BY <1>2, <1>3, <2>1, QueueFileFine
  <2> QED
    BY <1>1, <1>2, <1>7, <2>2, FineHandler DEF c
<1>8. ASSUME c.state[f] # "QUEUED", ReadsAndBecomes(s, offered)
      PROVE  IInv' /\ CancelledKept
  <2> DEFINE a == answer("Received")
  <2>1. /\ a \in Contacts /\ a.state = c.state /\ Sound(s, a)
        /\ Named(a) \subseteq Named(c) \cup {f}
    BY <1>4 DEF AckStatus
  <2>2. "OFFERED" \in FileStates /\ "OFFERED" # Waiting(s)
    BY DEF FileStates, Waiting
  <2>3. Told(s, a)
    BY <1>5 DEF AckStatus
  <2>4. CASE c.state[f] = "OFFERED"
    <3>1. offered = a
      BY <2>1, <2>4 DEF SetState
    <3> QED
      BY <1>1, <1>2, <1>8, <2>1, <2>3, <3>1, HandlerSound
  <2>5. CASE c.state[f] # "OFFERED"
    <3> HIDE DEF a
    <3>1. offered = SetState(a, f, "OFFERED")
      BY DEF a
    <3>2. Sound(s, offered)
      BY <1>2, <1>3, <2>1, <2>2, <2>5, <3>1, SoundIsAlmost, SetStateSound
    <3>3. /\ offered.state = [a.state EXCEPT ![f] = "OFFERED"]
          /\ offered.wire = a.wire
      BY <1>3, <2>1, <2>2, <3>1, SetStateFields
    <3> HIDE DEF offered
    <3>4. c.state \in [Files -> FileStates]
      BY <1>2 DEF Contacts
    <3>5. Public(s, offered) \subseteq Public(s, c) \cup {f}
      BY <1>3, <2>1, <3>3, <3>4 DEF Public
    <3>6. Named(offered) = Named(a)
      BY <3>3 DEF Named
    <3>7. Told(s, offered)
      BY <1>2, <1>3, <2>1, <3>5, <3>6 DEF Told
    <3> QED
      BY <1>1, <1>2, <1>8, <3>2, <3>7, HandlerSound
  <2> QED
    BY <2>4, <2>5
<1> QED
  BY <1>1, <1>6, <1>7, <1>8 DEF AckStatus

\* Contact::onReceivedAck() for a file that is not there any more, or never was.
LEMMA AckForNoFileStep ==
  ASSUME IInv, NEW s \in Sides, AckForNoFile(s), refusals' \in Nat, tainted' \in BOOLEAN
  PROVE  IInv' /\ CancelledKept
<1> DEFINE c == contact[s]
           f == Packet(s).file
           abort == Acked(c, f, "Abort")
<1>1. /\ contact[Other(s)].wire # <<>>
      /\ \/ ReadsAndBecomes(s, Ended(s, c))
         \/ c.state[f] = "CANCELLED" /\ ReadsAndBecomes(s, abort)
         \/ ReadsAndBecomes(s, c)
  BY DEF AckForNoFile, Reads
<1>2. c \in Contacts /\ Sound(s, c)
  BY SideFacts
<1>3. f \in Files
  BY <1>1, PacketFacts
<1>4. Fine(s, c, Ended(s, c)) /\ Fine(s, c, c)
  BY <1>2, EndedFine, SameFine
<1>5. c.state[f] = "CANCELLED" => Fine(s, c, abort)
  <2>1. c.state[f] = "CANCELLED" => f \in Public(s, c)
    BY <1>3 DEF Public
  <2> HIDE DEF f, c
  <2> QED
    BY <1>2, <2>1, AckedFine DEF AckStatus
<1> QED
  BY <1>1, <1>4, <1>5, FineHandler

\* Contact::onReceivedAck(): what the other side says of the file.
LEMMA ReceivedAckStep ==
  ASSUME IInv, NEW s \in Sides, ReceivedAck(s), refusals' \in Nat, tainted' \in BOOLEAN
  PROVE  IInv' /\ CancelledKept
<1> DEFINE c == contact[s]
           f == Packet(s).file
<1>1. /\ contact[Other(s)].wire # <<>>
      /\ c.state[f] \notin {"NONE", "CANCELLED"}
      /\ \/ ReadsAndBecomes(s, c)
         \/ ReadsAndBecomes(s, TransferFailed(c, f))
         \/ \E st \in {"OFFERED", "REJECTED", "FAILED", "CANCELLED"} :
              ReadsAndBecomes(s, SetState(c, f, st))
  BY DEF ReceivedAck, AckForFile, Reads
<1>2. c \in Contacts /\ Sound(s, c)
  BY SideFacts
<1>3. f \in Public(s, c)
  <2>1. f \in Files /\ f \in Public("sender", contact["sender"])
    BY <1>1, PacketFacts
  <2> QED
    BY <1>1, <2>1 DEF Public, Sides
<1> HIDE DEF f
<1>4. Fine(s, c, c) /\ Fine(s, c, TransferFailed(c, f))
  BY <1>2, <1>3, SameFine, TransferFailedFine
<1>5. Fine(s, c, SetState(c, f, "CANCELLED"))
  BY <1>2, <1>3, CancelledFine
<1>6. \A st \in {"OFFERED", "REJECTED", "FAILED"} : Fine(s, c, SetState(c, f, st))
  BY <1>1, <1>2, <1>3, SetStateAnyFine DEF FileStates, Waiting
<1> QED
  BY <1>1, <1>4, <1>5, <1>6, FineHandler

\* Contact::onReceivedAck(): the receiver asks for the file.
LEMMA ReceivedProceedStep ==
  ASSUME IInv, ReceivedProceed, refusals' \in Nat, tainted' \in BOOLEAN
  PROVE  IInv' /\ CancelledKept
<1> DEFINE s == "sender"
           c == contact[s]
           f == Packet(s).file
           ch == Packet(s).channel
           fail == SetState(c, f, "FAILED")
           asked == [c EXCEPT !.channel[f] = ch]
           wait == SetState(asked, f, "QUEUED")
<1>1. /\ contact[Other(s)].wire # <<>>
      /\ Packet(s).kind = "Ack"
      /\ c.state[f] \notin {"NONE", "CANCELLED"}
      /\ \/ ReadsAndBecomes(s, Acked(fail, f, "Failed"))
         \/ /\ c.state[f] = "OFFERED"
            /\ \E d \in QueueFile(s, wait, f) : ReadsAndBecomes(s, d)
  BY DEF ReceivedProceed, AckForFile, Reads, Packet
<1>2. s \in Sides
  BY DEF Sides
<1>3. Packet(s) \in Packets /\ f \in Files /\ f \in Public("sender", contact["sender"])
  BY <1>1, <1>2, PacketFacts
<1>4. ch \in Nat
  BY <1>1, <1>3 DEF Packets
<1>5. c \in Contacts /\ Sound(s, c) /\ f \in Public(s, c)
  <2> HIDE DEF s
  <2>1. c \in Contacts /\ Sound(s, c)
    BY <1>2, SideFacts
  <2> QED
    BY <1>3, <2>1 DEF s
<1> HIDE DEF f, ch
<1>6. Fine(s, c, Acked(fail, f, "Failed"))
  <2>1. Fine(s, c, fail)
    BY <1>1, <1>2, <1>5, SetStateAnyFine DEF FileStates, Waiting
  <2>2. f \in Public(s, fail) /\ Sound(s, fail)
    BY <1>5, <2>1 DEF Fine, Discreet
  <2> HIDE DEF fail
  <2>3. Fine(s, fail, Acked(fail, f, "Failed"))
    BY <1>2, <2>2, AckedFine DEF AckStatus
  <2> QED
    BY <2>1, <2>3, FineTwice DEF Fine
<1>7. ASSUME c.state[f] = "OFFERED", NEW d \in QueueFile(s, wait, f)
      PROVE  Fine(s, c, d)
  <2>1. /\ asked \in Contacts
        /\ asked.state = c.state /\ asked.queue = c.queue
        /\ asked.loaded = c.loaded /\ asked.hashing = c.hashing
        /\ asked.threw = c.threw
        /\ asked.active = c.active /\ asked.wire = c.wire /\ asked.open = c.open
    BY <1>3, <1>4, <1>5 DEF Contacts
  <2> HIDE DEF asked, c
  <2>2. Fine(s, c, asked)
    BY <1>2, <1>5, <2>1, SameFieldsFine
  <2>3. f \in Public(s, asked)
    BY <1>5, <2>2 DEF Fine, Discreet
  <2>4. Fine(s, asked, wait)
    BY <1>2, <1>3, <1>7, <2>1, <2>2, <2>3, SoundIsAlmost, SetStateFine
      DEF Fine, FileStates, Waiting
  <2> HIDE DEF wait
  <2>5. Fine(s, wait, d)
    BY <1>2, <1>3, <1>7, <2>4, SoundIsAlmost, QueueFileFine DEF Fine, Sound
  <2> QED
    BY <2>2, <2>4, <2>5, FineTwice DEF Fine
<1> QED
  BY <1>1, <1>2, <1>6, <1>7, FineHandler

\* Peer::onReceivedData() and what the last chunk sets off.
LEMMA ReceivedChunkStep ==
  ASSUME IInv, ReceivedChunk, refusals' \in Nat, tainted' \in BOOLEAN
  PROVE  IInv' /\ CancelledKept
<1> DEFINE s == "receiver"
           c == contact[s]
           chunk == Packet(s)
           stored(g) == [c EXCEPT !.parts[g] = PartsWith(c, g, chunk)]
           last(e) == [SetState(stored(e[2]), e[2], "HASHING") EXCEPT
                         !.open = @ \ {e}, !.shut = @ \cup {e[1]},
                         !.hashing = @ \cup {e[2]}]
           late == chunk.channel \in c.shut
           over == [c EXCEPT !.closing = late]
<1>8. contact[Other(s)].wire # <<>> /\ chunk.kind = "Chunk"
  <2>1. Reads(s, "Chunk")
    BY Zenon DEF ReceivedChunk
  <2> QED
    BY <2>1 DEF Reads, Packet
<1>1. \/ ReadsAndBecomes(s, over)
      \/ \E e \in c.open :
           \/ ReadsAndBecomes(s, stored(e[2]))
           \/ ReadsAndBecomes(s, Ended(s, stored(e[2])))
           \/ /\ c.state[e[2]] = "TRANSFERRING"
              /\ ReadsAndBecomes(s, last(e))
  BY Zenon DEF ReceivedChunk
<1>2. s \in Sides
  BY DEF Sides
<1>3. chunk \in Packets
  BY <1>2, <1>8, PacketFacts
<1>4. chunk.part \in 1..Chunks
  BY <1>3, <1>8 DEF Packets
<1>5. c \in Contacts /\ Sound(s, c)
  <2> HIDE DEF s
  <2> QED
    BY <1>2, SideFacts
<1> HIDE DEF chunk
<1>6. Fine(s, c, over)
  <2>1. /\ over \in Contacts
        /\ over.state = c.state /\ over.queue = c.queue /\ over.loaded = c.loaded
        /\ over.threw = c.threw
        /\ over.hashing = c.hashing /\ over.active = c.active
        /\ over.wire = c.wire /\ over.open = c.open
    <3> HIDE DEF late, c
    <3>1. late \in BOOLEAN
      BY DEF late
    <3> QED
      BY ZenonT(40), <1>5, <3>1 DEF Contacts
  <2> HIDE DEF c, over
  <2> QED
    BY <1>2, <1>5, <2>1, SameFieldsFine
<1>7. ASSUME NEW e \in c.open
      PROVE  /\ Fine(s, c, stored(e[2]))
             /\ Fine(s, c, Ended(s, stored(e[2])))
             /\ c.state[e[2]] = "TRANSFERRING" => Fine(s, c, last(e))
  <2> DEFINE g == e[2]
             d == stored(g)
             h == SetState(d, g, "HASHING")
             l == [h EXCEPT !.open = @ \ {e}, !.shut = @ \cup {e[1]},
                            !.hashing = @ \cup {g}]
  <2>1. g \in Public(s, c) /\ g \in Files /\ e[1] \in Nat
    BY <1>5 DEF Sound, Opens, Public, Contacts
  <2>2. PartsWith(c, g, chunk) \in 0..Wrong
    BY <1>4, ChunksAssumption DEF PartsWith, Wrong
  <2> HIDE DEF g
  <2>3. /\ d \in Contacts
        /\ d.state = c.state /\ d.queue = c.queue /\ d.loaded = c.loaded
        /\ d.threw = c.threw
        /\ d.hashing = c.hashing /\ d.active = c.active /\ d.wire = c.wire
        /\ d.open = c.open
    BY <1>5, <2>1, <2>2 DEF Contacts
  <2> HIDE DEF c, stored, d
  <2>4. Fine(s, c, d)
    BY <1>2, <1>5, <2>3, SameFieldsFine
  <2>5. Fine(s, d, Ended(s, d))
    BY <1>2, <2>3, EndedFine
  <2>6. ASSUME c.state[g] = "TRANSFERRING"
        PROVE  Fine(s, c, l)
    <3>1. g \in Public(s, d)
      BY <2>1, <2>4 DEF Fine, Discreet
    <3>2. Fine(s, d, h)
      BY <1>2, <2>3, <2>4, <2>6, <3>1, SetStateAnyFine
        DEF Fine, FileStates, Waiting
    <3> HIDE DEF h
    <3>3. h \in Contacts
      BY <3>2 DEF Fine, Sound
    <3>4. /\ l \in Contacts
          /\ l.state = h.state /\ l.queue = h.queue /\ l.loaded = h.loaded
          /\ l.threw = h.threw
          /\ l.active = h.active /\ l.wire = h.wire
          /\ l.open \subseteq h.open
      BY <2>1, <3>3 DEF Contacts
    <3> HIDE DEF l
    <3>5. Sound(s, l)
      BY <3>2, <3>4
        DEF Fine, Sound, Queued, Loadable, Slots, Hashes, Opens, Public
    <3>6. Fine(s, h, l)
      BY <3>4, <3>5 DEF Fine, Discreet, Public, Named
    <3> QED
      BY <2>4, <3>2, <3>6, FineTwice DEF Fine
  <2> QED
    BY <2>4, <2>5, <2>6, FineTwice DEF Fine, d, g, stored
<1> HIDE DEF over, stored, last
<1> QED
  BY <1>1, <1>2, <1>6, <1>7, <1>8, FineHandler

\* Contact::processOnlineLater() and onOutputBufferEmptied().
LEMMA BufferStepSound ==
  ASSUME IInv, NEW s \in Sides, ProcessOnlineLater(s) \/ OnOutputBufferEmptied(s),
         refusals' \in Nat, tainted' \in BOOLEAN
  PROVE  IInv' /\ CancelledKept
<1> DEFINE c == contact[s]
           greeted == [c EXCEPT !.greet = FALSE]
           ready == [greeted EXCEPT !.drain = TRUE]
           drained == [c EXCEPT !.drain = FALSE]
<1>1. c \in Contacts /\ Sound(s, c)
  BY SideFacts
<1>2. Fine(s, c, greeted) /\ Fine(s, c, ready) /\ Fine(s, c, drained)
  <2> DEFINE same(d) ==
        /\ d \in Contacts
        /\ d.state = c.state /\ d.queue = c.queue /\ d.loaded = c.loaded
        /\ d.threw = c.threw
        /\ d.hashing = c.hashing /\ d.active = c.active /\ d.wire = c.wire
        /\ d.open = c.open
  <2>1. same(greeted) /\ same(ready) /\ same(drained)
    BY <1>1 DEF Contacts
  <2>2. ASSUME NEW d, same(d)
        PROVE  Fine(s, c, d)
    BY <1>1, <2>2, SameFieldsFine
  <2> HIDE DEF same, greeted, ready, drained
  <2> QED
    BY <2>1, <2>2
<1>3. \/ Becomes(s, greeted)
      \/ \E d \in LoadFileQueue(s, ready) :
           \E e \in OutputBufferEmptied(s, d) : Becomes(s, e)
      \/ \E d \in OutputBufferEmptied(s, drained) : Becomes(s, d)
  BY DEF ProcessOnlineLater, OnOutputBufferEmptied
<1> HIDE DEF greeted, ready, drained
<1>4. ASSUME NEW d \in LoadFileQueue(s, ready), NEW e \in OutputBufferEmptied(s, d)
      PROVE  Fine(s, c, e)
  <2>1. Fine(s, ready, d)
    BY <1>2, LoadFileQueueFine DEF Fine
  <2>2. Fine(s, d, e)
    BY <2>1, OutputBufferEmptiedFine DEF Fine
  <2> QED
    BY <1>2, <2>1, <2>2, FineTwice DEF Fine
<1>5. ASSUME NEW d \in OutputBufferEmptied(s, drained)
      PROVE  Fine(s, c, d)
  <2>1. Fine(s, drained, d)
    BY <1>2, OutputBufferEmptiedFine DEF Fine
  <2> QED
    BY <1>2, <2>1, FineTwice DEF Fine
<1> QED
  BY <1>2, <1>3, <1>4, <1>5, FineHandler

\* The slot of Peer::removeTransfer.
LEMMA RemoveTransferStep ==
  ASSUME IInv, NEW s \in Sides, NEW ch, RemoveTransfer(s, ch),
         refusals' \in Nat, tainted' \in BOOLEAN
  PROVE  IInv' /\ CancelledKept
<1> DEFINE c == contact[s]
           d == [c EXCEPT !.leaving = @ \ {ch}, !.open = {e \in @ : e[1] # ch},
                          !.shut = @ \ {ch}]
<1>1. Becomes(s, d)
  BY DEF RemoveTransfer
<1>2. c \in Contacts /\ Sound(s, c)
  BY SideFacts
<1>3. /\ d \in Contacts
      /\ d.state = c.state /\ d.queue = c.queue /\ d.loaded = c.loaded
      /\ d.threw = c.threw
      /\ d.hashing = c.hashing /\ d.active = c.active /\ d.wire = c.wire
      /\ d.open \subseteq c.open
  <2> DEFINE l == c.leaving \ {ch}
             o == {e \in c.open : e[1] # ch}
             h == c.shut \ {ch}
  <2>1. /\ l \in SUBSET Nat /\ h \in SUBSET Nat
        /\ o \in SUBSET (Nat \X Files) /\ o \subseteq c.open
    BY <1>2 DEF Contacts
  <2>2. d = [c EXCEPT !.leaving = l, !.open = o, !.shut = h]
    OBVIOUS
  <2> HIDE DEF l, o, h, d, c
  <2> QED
    BY ZenonT(40), <1>2, <2>1, <2>2 DEF Contacts
<1> HIDE DEF d
<1>4. Fine(s, c, d)
  BY <1>2, <1>3, SameFieldsFine
<1> QED
  BY <1>1, <1>4, FineHandler

(***************************************************************************)
(* The link, and the ends of the programs.                                 *)
(***************************************************************************)

\* Only s changes, by what follows finely from what it was.
LEMMA AloneFine ==
  ASSUME IInv, NEW s \in Sides, NEW d, Fine(s, contact[s], d),
         contact' = [contact EXCEPT ![s] = d],
         link' \in BOOLEAN, faults' \in Nat, refusals' \in Nat,
         tainted' \in BOOLEAN
  PROVE  IInv' /\ CancelledKept
<1> DEFINE o == contact[Other(s)]
<1>1. /\ contact \in [Sides -> Contacts]
      /\ Sound(Other(s), o)
  BY SideFacts
<1>2. contact' = [k \in Sides |-> IF k = s THEN d ELSE o]
  BY <1>1 DEF Sides, Other
<1>3. Told(s, d)
  BY DiscreetIsTold DEF Fine
<1> HIDE DEF o
<1>4. o.state = contact[Other(s)].state /\ Named(o) \subseteq Named(contact[Other(s)])
  BY DEF o
<1> QED
  BY <1>1, <1>2, <1>3, <1>4, BothSound DEF Fine

\* The types of what counts and remembers.
LEMMA CounterTypes ==
  IInv => link \in BOOLEAN /\ faults \in Nat /\ refusals \in Nat /\ tainted \in BOOLEAN
BY DEF IInv, TypeOK

\* IncomingFileChannel::onIncoming() throws, or files can be opened no more, or
\* again.
LEMMA DiskStepSound ==
  ASSUME IInv, DiskStep
  PROVE  IInv' /\ CancelledKept
<1>1. PICK s \in Sides, d \in Contacts :
        /\ contact' = [contact EXCEPT ![s] = d]
        /\ d.state = contact[s].state /\ d.queue = contact[s].queue
        /\ d.loaded = contact[s].loaded /\ d.threw = contact[s].threw
        /\ d.hashing = contact[s].hashing /\ d.active = contact[s].active
        /\ d.wire = contact[s].wire /\ d.open = contact[s].open
  <2>1. CASE WriteFails
    <3> DEFINE c == contact["receiver"]
    <3>1. PICK e \in c.open :
            contact' = [contact EXCEPT !["receiver"].closing = TRUE,
                                       !["receiver"].parts[e[2]] = Wrong]
      BY <2>1 DEF WriteFails
    <3> DEFINE h == [c.parts EXCEPT ![e[2]] = Wrong]
               d == [c EXCEPT !.closing = TRUE, !.parts = h]
    <3>2. "receiver" \in Sides /\ c \in Contacts /\ contact \in [Sides -> Contacts]
      BY SideFacts DEF Sides
    <3>3. contact' = [contact EXCEPT !["receiver"] = d]
      BY <3>1, <3>2 DEF Contacts
    <3>4. h \in [Files -> 0..Wrong]
      BY <3>2, ChunksAssumption DEF Contacts, Wrong
    <3> HIDE DEF h, c
    <3>5. /\ d \in Contacts
          /\ d.state = c.state /\ d.queue = c.queue /\ d.loaded = c.loaded
          /\ d.threw = c.threw
          /\ d.hashing = c.hashing /\ d.active = c.active /\ d.wire = c.wire
          /\ d.open = c.open
      BY <3>2, <3>4 DEF Contacts
    <3> HIDE DEF d
    <3> QED
      BY <3>2, <3>3, <3>5 DEF c
  <2>2. ASSUME NEW s \in Sides, NEW f \in Files,
               DiskFails(s, f) \/ DiskRecovers(s, f)
        PROVE  \E d \in Contacts :
                 /\ contact' = [contact EXCEPT ![s] = d]
                 /\ d.state = contact[s].state /\ d.queue = contact[s].queue
                 /\ d.loaded = contact[s].loaded /\ d.threw = contact[s].threw
                 /\ d.hashing = contact[s].hashing /\ d.active = contact[s].active
                 /\ d.wire = contact[s].wire /\ d.open = contact[s].open
    <3> DEFINE c == contact[s]
    <3>1. c \in Contacts /\ contact \in [Sides -> Contacts]
      BY SideFacts
    <3>2. PICK b \in SUBSET Files :
            contact' = [contact EXCEPT ![s] = [c EXCEPT !.bad = b]]
      <4>1. c.bad \subseteq Files
        BY <3>1 DEF Contacts
      <4>2. CASE DiskFails(s, f)
        BY <4>1, <4>2 DEF DiskFails
      <4>3. CASE DiskRecovers(s, f)
        BY <4>1, <4>3 DEF DiskRecovers
      <4> QED
        BY <2>2, <4>2, <4>3
    <3> DEFINE d == [c EXCEPT !.bad = b]
    <3> HIDE DEF c
    <3>3. /\ d \in Contacts
          /\ d.state = c.state /\ d.queue = c.queue /\ d.loaded = c.loaded
          /\ d.threw = c.threw
          /\ d.hashing = c.hashing /\ d.active = c.active /\ d.wire = c.wire
          /\ d.open = c.open
      BY <3>1 DEF Contacts
    <3>4. contact' = [contact EXCEPT ![s] = d]
      BY <3>2
    <3> HIDE DEF d
    <3> QED
      BY <3>3, <3>4 DEF c
  <2> QED
    BY <2>1, <2>2 DEF DiskStep
<1>2. Sound(s, contact[s])
  BY SideFacts
<1>3. Fine(s, contact[s], d)
  BY <1>1, <1>2, SameFieldsFine
<1>4. /\ link' \in BOOLEAN /\ faults' \in Nat /\ refusals' \in Nat
      /\ tainted' \in BOOLEAN
  <2>1. /\ link' = link /\ refusals' = refusals /\ tainted' = tainted
        /\ faults' = faults \/ faults' = faults + 1
    BY Zenon DEF DiskStep, WriteFails, DiskFails, DiskRecovers, Fault
  <2> QED
    BY <2>1, CounterTypes
<1> QED
  BY <1>1, <1>3, <1>4, AloneFine

\* A program that ends while it writes has said no more than it may.
LEMMA EndedSendingFine ==
  ASSUME NEW s \in Sides, NEW c, Sound(s, c), NEW d \in OutputBufferEmptied(s, c)
  PROVE  Fine(s, c, [Ended(s, c) EXCEPT !.wire = d.wire])
<1> DEFINE e == Ended(s, c)
           n == [e EXCEPT !.wire = d.wire]
<1>1. Fine(s, c, d)
  BY OutputBufferEmptiedFine
<1>2. Fine(s, c, e)
  BY EndedFine DEF Sound
<1> HIDE DEF e
<1>3. d.wire \in Seq(Packets) /\ e \in Contacts
  BY <1>1, <1>2 DEF Fine, Sound, Contacts
<1>4. /\ n \in Contacts
      /\ n.state = e.state /\ n.queue = e.queue /\ n.loaded = e.loaded
      /\ n.threw = e.threw
      /\ n.hashing = e.hashing /\ n.active = e.active /\ n.wire = d.wire
      /\ n.open = e.open
  BY <1>3 DEF Contacts
<1> HIDE DEF n
<1>5. Sound(s, n)
  BY <1>2, <1>4, SameFieldsSound DEF Fine
<1>6. Discreet(s, c, n)
  BY <1>1, <1>2, <1>4 DEF Fine, Discreet, Public, Named
<1> QED
  BY <1>5, <1>6 DEF Fine, e, n

\* A new connection: nothing is on its way, and the rows are as they were.
LEMMA ConnectStep ==
  ASSUME IInv, Connect
  PROVE  IInv' /\ CancelledKept
<1> DEFINE new(s) == [WithoutPeer(contact[s]) EXCEPT !.online = TRUE,
                        !.greet = TRUE, !.wire = <<>>]
<1>1. /\ contact' = [s \in Sides |-> new(s)]
      /\ link' = TRUE /\ faults' = faults /\ refusals' = refusals
      /\ tainted' \in BOOLEAN
  <2>1. tainted' \in BOOLEAN
    <3>1. tainted' = (tainted \/ \E s \in Sides : Inherits(s))
      BY Zenon DEF Connect
    <3> QED
      BY <3>1
  <2> QED
    BY Zenon, <2>1 DEF Connect
<1>2. ASSUME NEW s \in Sides
      PROVE  Sound(s, new(s)) /\ new(s).state = contact[s].state /\ new(s).wire = <<>>
  <2> DEFINE c == contact[s]
             w == WithoutPeer(c)
             n == [w EXCEPT !.online = TRUE, !.greet = TRUE, !.wire = <<>>]
  <2>1. Sound(s, c)
    BY SideFacts
  <2>2. Fine(s, c, w) /\ w.state = c.state
    BY <2>1, WithoutPeerFine
  <2>3. w \in Contacts /\ Sound(s, w) /\ <<>> \in Seq(Packets)
    BY <2>2 DEF Fine, Sound
  <2> HIDE DEF w
  <2>4. /\ n \in Contacts
        /\ n.state = w.state /\ n.queue = w.queue /\ n.loaded = w.loaded
        /\ n.threw = w.threw
        /\ n.hashing = w.hashing /\ n.active = w.active /\ n.open = w.open
        /\ n.wire = <<>>
    BY <2>3 DEF Contacts
  <2> HIDE DEF n
  <2>5. Sound(s, n)
    BY <2>3, <2>4, SameFieldsSound
  <2> QED
    BY <2>2, <2>4, <2>5 DEF n, w
<1> HIDE DEF new
<1>3. \A s \in Sides : /\ Sound(s, contact'[s])
                       /\ contact'[s].state = contact[s].state
                       /\ Named(contact'[s]) = {}
  BY <1>1, <1>2, ToSetEmpty DEF Named
<1>4. TypeOK'
  <2>1. contact' \in [Sides -> Contacts]
    BY <1>1, <1>3 DEF Sound
  <2> QED
    BY <1>1, <2>1, CounterTypes DEF TypeOK
<1>5. Known' /\ CancelledKept
  <2>1. \A s \in Sides : Public(s, contact'[s]) = Public(s, contact[s])
    BY <1>3 DEF Public
  <2>2. Known'
    BY <1>3, <2>1 DEF Known, IInv, Sides
  <2>3. CancelledKept
    BY <1>3 DEF CancelledKept, Sides
  <2> QED
    BY <2>2, <2>3
<1> QED
  BY <1>3, <1>4, <1>5 DEF IInv

\* Breaks, disconnects, ends and starts.
LEMMA LinkStepSound ==
  ASSUME IInv, LinkStep
  PROVE  IInv' /\ CancelledKept
<1>1. CASE Connect
  BY <1>1, ConnectStep
<1>2. CASE LinkBreaks
  <2>1. /\ contact' = contact /\ link' = FALSE /\ faults' = faults + 1
        /\ refusals' = refusals /\ tainted' = tainted
    BY <1>2 DEF LinkBreaks, Fault
  <2>2. TypeOK'
    <3>1. /\ link \in BOOLEAN /\ faults \in Nat /\ refusals \in Nat /\ tainted \in BOOLEAN
          /\ contact \in [Sides -> Contacts]
      BY DEF IInv, TypeOK
    <3>2. faults' \in Nat
      BY <2>1, <3>1
    <3>3. link' \in BOOLEAN /\ refusals' \in Nat /\ tainted' \in BOOLEAN
      BY <2>1, <3>1, Zenon
    <3> QED
      BY <2>1, <3>1, <3>2, <3>3, Zenon DEF TypeOK
  <2>3. Known' /\ CancelledKept
    BY <2>1 DEF IInv, Known, CancelledKept
  <2> QED
    BY <2>1, <2>2, <2>3 DEF IInv
<1>3. ASSUME NEW s \in Sides,
             \/ OnDisconnectedFromPeer(s) \/ OnCloseLater(s) \/ Evicted(s)
             \/ DisconnectFromContact(s)
             \/ Quit(s) \/ QuitSending(s) \/ Start(s)
      PROVE  IInv' /\ CancelledKept
  <2> DEFINE c == contact[s]
  <2>1. /\ link' \in BOOLEAN /\ faults' \in Nat /\ refusals' \in Nat
        /\ tainted' \in BOOLEAN
    <3>1. /\ link' = link \/ link' = FALSE
          /\ faults' = faults \/ faults' = faults + 1
          /\ refusals' = refusals /\ tainted' = tainted
      BY <1>3, Zenon
        DEF OnDisconnectedFromPeer, OnCloseLater, Evicted,
            DisconnectFromContact, Quit, QuitSending, Start, Fault
    <3>2. /\ link \in BOOLEAN /\ faults \in Nat /\ refusals \in Nat
          /\ tainted \in BOOLEAN
      BY CounterTypes
    <3>3. faults' \in Nat
      BY <3>1, <3>2
    <3> QED
      BY <3>1, <3>2, <3>3, Zenon
  <2>2. c \in Contacts /\ Sound(s, c)
    BY SideFacts
  <2>3. Fine(s, c, WithoutPeer(c)) /\ Fine(s, c, Ended(s, c))
    BY <2>2, WithoutPeerFine, EndedFine
  <2>4. Fine(s, c, Cleared(WithoutPeer(c)))
    <3> DEFINE w == WithoutPeer(c)
    <3>1. Fine(s, c, w)
      BY <2>3
    <3> HIDE DEF w, c
    <3>2. Fine(s, w, Cleared(w))
      BY <3>1, ClearedFine DEF Fine
    <3>3. Fine(s, c, Cleared(w))
      BY <3>1, <3>2, FineTwice DEF Fine
    <3> QED
      BY <3>3 DEF w
  <2>5. Fine(s, c, [c EXCEPT !.up = TRUE])
    <3> DEFINE d == [c EXCEPT !.up = TRUE]
    <3>1. /\ d \in Contacts
          /\ d.state = c.state /\ d.queue = c.queue /\ d.loaded = c.loaded
          /\ d.threw = c.threw
          /\ d.hashing = c.hashing /\ d.active = c.active /\ d.wire = c.wire
          /\ d.open = c.open
      BY <2>2 DEF Contacts
    <3> HIDE DEF d
    <3>2. Fine(s, c, d)
      BY <2>2, <3>1, SameFieldsFine
    <3> QED
      BY <3>2 DEF d
  <2>7. Fine(s, c, [Cleared(c) EXCEPT !.greet = FALSE])
    <3> DEFINE w == Cleared(c)
               d == [w EXCEPT !.greet = FALSE]
    <3>1. Fine(s, c, w)
      BY <2>2, ClearedFine
    <3> HIDE DEF w, c
    <3>2. /\ d \in Contacts
          /\ d.state = w.state /\ d.queue = w.queue /\ d.loaded = w.loaded
          /\ d.threw = w.threw
          /\ d.hashing = w.hashing /\ d.active = w.active /\ d.wire = w.wire
          /\ d.open = w.open
      BY <3>1 DEF Fine, Sound, Contacts
    <3> HIDE DEF d
    <3>3. Fine(s, w, d)
      BY <3>1, <3>2, SameFieldsFine DEF Fine
    <3>4. Fine(s, c, d)
      BY <3>1, <3>3, FineTwice DEF Fine
    <3> QED
      BY <3>4 DEF d, w
  <2>6. \E d : Fine(s, c, d) /\ contact' = [contact EXCEPT ![s] = d]
    <3>1. CASE OnDisconnectedFromPeer(s) \/ OnCloseLater(s)
      BY <3>1, <2>4 DEF OnDisconnectedFromPeer, OnCloseLater
    <3>6. CASE Evicted(s)
      BY <3>6, <2>7 DEF Evicted
    <3>2. CASE DisconnectFromContact(s)
      BY <3>2, <2>3 DEF DisconnectFromContact
    <3>3. CASE Quit(s)
      BY <3>3, <2>3 DEF Quit
    <3>4. CASE QuitSending(s)
      <4>1. PICK d \in OutputBufferEmptied(s, c) :
              contact' = [contact EXCEPT ![s] = [Ended(s, @) EXCEPT !.wire = d.wire]]
        BY <3>4 DEF QuitSending
      <4>2. Fine(s, c, [Ended(s, c) EXCEPT !.wire = d.wire])
        BY <2>2, EndedSendingFine
      <4> QED
        BY <4>1, <4>2
    <3>5. CASE Start(s)
      BY <3>5, <2>5 DEF Start
    <3> QED
      BY <1>3, <3>1, <3>2, <3>3, <3>4, <3>5, <3>6
  <2> HIDE DEF c
  <2> QED
    BY <2>1, <2>6, AloneFine DEF c
<1> QED
  BY <1>1, <1>2, <1>3 DEF LinkStep

(***************************************************************************)
(* Every step preserves the invariant.                                     *)
(***************************************************************************)

\* Two contacts that have just been made know nothing.
LEMMA InitSound == Init => IInv
<1> SUFFICES ASSUME Init
             PROVE  IInv
  OBVIOUS
<1>1. \A s \in Sides : contact[s] = NewContact
  BY DEF Init
<1> DEFINE n == NewContact
<1>2. /\ n \in Contacts
      /\ n.state = [f \in Files |-> "NONE"]
      /\ n.queue = <<>> /\ ~n.loaded
      /\ n.active = {} /\ n.hashing = {} /\ n.open = {}
      /\ n.wire = <<>>
  BY NewContactFields
<1> HIDE DEF n
<1>3. \A s \in Sides : Sound(s, n)
  BY <1>2 DEF Sound, Queued, Slots, Hashes, Opens
<1>4. Named(n) = {} /\ \A s \in Sides : Public(s, n) = {}
  BY <1>2, ToSetEmpty DEF Named, Public
<1>5. TypeOK
  BY <1>2 DEF Init, TypeOK, n
<1> QED
  BY <1>1, <1>3, <1>4, <1>5 DEF IInv, Known, Sides, n

\* Every step of either program, and of the link, keeps the invariant.
LEMMA NextSound == IInv /\ [Next]_vars => IInv' /\ (CancelledKept \/ UNCHANGED vars)
<1> SUFFICES ASSUME IInv, [Next]_vars
             PROVE  IInv' /\ (CancelledKept \/ UNCHANGED vars)
  OBVIOUS
<1>1. refusals \in Nat /\ tainted \in BOOLEAN
  BY CounterTypes
<1>2. CASE UserStep
  <2>1. refusals' \in Nat /\ tainted' \in BOOLEAN
    BY <1>1, <1>2 DEF UserStep, Reject, Cancel, Refusal
  <2>2. \E f \in Files : \/ AddFile(f) \/ Accept(f) \/ Reject(f)
                         \/ \E s \in Sides : Cancel(s, f)
    BY <1>2 DEF UserStep
  <2> QED
    BY <2>1, <2>2, AddFileStep, AcceptStep, RejectStep, CancelStep
<1>3. ASSUME NEW s \in Sides, ReadStep(s)
      PROVE  IInv' /\ CancelledKept
  <2>1. refusals' \in Nat /\ tainted' \in BOOLEAN
    BY <1>1, <1>3 DEF ReadStep
  <2>2. \/ ReceivedFileOffer \/ ReceivedChunk \/ AckForNoFile(s)
        \/ ReceivedAck(s) \/ ReceivedProceed
    BY <1>3 DEF ReadStep
  <2> QED
    BY <2>1, <2>2, ReceivedFileOfferStep, ReceivedChunkStep, AckForNoFileStep,
       ReceivedAckStep, ReceivedProceedStep
<1>4. ASSUME NEW s \in Sides, TaskStep(s)
      PROVE  IInv' /\ CancelledKept
  <2>1. refusals' \in Nat /\ tainted' \in BOOLEAN
    BY <1>1, <1>4 DEF TaskStep
  <2>2. \/ \E f \in Files : FileHashed(f) \/ ReceivedFileHashed(f)
        \/ \E ch \in contact[s].leaving : RemoveTransfer(s, ch)
    BY <1>4 DEF TaskStep
  <2> QED
    BY <2>1, <2>2, FileHashedStep, ReceivedFileHashedStep, RemoveTransferStep
<1>5. ASSUME NEW s \in Sides, BufferStep(s)
      PROVE  IInv' /\ CancelledKept
  <2>1. refusals' \in Nat /\ tainted' \in BOOLEAN
    BY <1>1, <1>5 DEF BufferStep
  <2>2. ProcessOnlineLater(s) \/ OnOutputBufferEmptied(s)
    BY <1>5 DEF BufferStep
  <2> QED
    BY <2>1, <2>2, BufferStepSound
<1>6. CASE DiskStep
  BY <1>6, DiskStepSound
<1>7. CASE LinkStep
  BY <1>7, LinkStepSound
<1>8. CASE UNCHANGED vars
  <2>1. IInv'
    BY <1>8 DEF vars, IInv, TypeOK, Known
  <2> QED
    BY <1>8, <2>1
<1> QED
  BY <1>2, <1>3, <1>4, <1>5, <1>6, <1>7, <1>8 DEF Next

\* The invariant holds in every reachable state.
LEMMA Invariance == Spec => []IInv
<1>1. IInv /\ [Next]_vars => IInv'
  BY NextSound
<1> QED
  BY InitSound, <1>1, PTL DEF Spec

(***************************************************************************)
(* The theorems.                                                           *)
(***************************************************************************)

\* Every row, queue, slot, channel and packet keeps its type: a program never
\* stores a content that is longer than a wrong one, nor sends a part a file has not.
THEOREM TypeCorrectness == Spec => []TypeOK
<1>1. IInv => TypeOK
  BY DEF IInv
<1> QED
  BY <1>1, Invariance, PTL

\* Once the queue is loaded, Contact::fileQueue_ holds every file that waits to be
\* offered, or to be received, whatever else became of the two queues, unless
\* opening it in Peer::startReceive() threw since then.
THEOREM WaitingIsQueued == Spec => []LoadableIsQueued
<1>1. IInv => LoadableIsQueued
  BY DEF IInv, Sound, Queued, LoadableIsQueued
<1> QED
  BY <1>1, Invariance, PTL

\* A file being transferred is in transferringFileQueue_, so clearFileQueues()
\* makes it fail.
THEOREM TransfersHaveSlots == Spec => []TransferringIsActive
<1>1. IInv => TransferringIsActive
  BY DEF IInv, Sound, Slots, TransferringIsActive
<1> QED
  BY <1>1, Invariance, PTL

\* No hash, ack, offer, break or restart takes back what a sender cancelled.
THEOREM CancelledForGood == Spec => CancelledStays
<1>1. IInv /\ [Next]_vars =>
        [\A f \in Files : contact["sender"].state[f] = "CANCELLED" =>
                            contact'["sender"].state[f] = "CANCELLED"]_vars
  BY NextSound DEF CancelledKept
<1> QED
  BY <1>1, Invariance, PTL DEF Spec, CancelledStays

(***************************************************************************)
(* Why a received file is whole: facts about the wire.                     *)
(***************************************************************************)

\* The chunks on the channel are the same in v as in w, d places nearer.
Shifted(w, v, ch, d) ==
  /\ \A i \in OnChannel(v, ch) :
       i + d \in OnChannel(w, ch) /\ v[i].part = w[i + d].part
  /\ \A j \in OnChannel(w, ch) : j - d \in OnChannel(v, ch)

\* A chunk has a place and a part.
LEMMA OnChannelTypes ==
  ASSUME NEW w \in Seq(Packets), NEW ch, NEW i \in OnChannel(w, ch)
  PROVE  /\ i \in 1..Len(w) /\ i \in Nat
         /\ w[i] \in Packets /\ w[i].part \in 1..Chunks /\ w[i].part \in Nat
<1>1. i \in 1..Len(w) /\ w[i].kind = "Chunk" /\ Len(w) \in Nat
  BY DEF OnChannel
<1>2. w[i] \in Packets
  BY <1>1
<1>3. w[i].part \in 1..Chunks
  BY <1>1, <1>2 DEF Packets
<1> QED
  BY <1>1, <1>2, <1>3, ChunksAssumption

\* What is written is at the end of the wire.
LEMMA AppendPlaces ==
  ASSUME NEW w \in Seq(Packets), NEW x \in Packets, NEW v, v = Append(w, x)
  PROVE  /\ v \in Seq(Packets) /\ Len(v) = Len(w) + 1 /\ Len(w) \in Nat
         /\ v[Len(w) + 1] = x
         /\ \A i \in 1..Len(w) : v[i] = w[i] /\ i \in 1..Len(v)
         /\ \A i \in 1..Len(v) : i \in 1..Len(w) \/ i = Len(w) + 1
  OBVIOUS

\* What is read was the first on the wire.
LEMMA TailPlaces ==
  ASSUME NEW w \in Seq(Packets), w # <<>>, NEW v, v = Tail(w)
  PROVE  /\ v \in Seq(Packets) /\ Len(v) = Len(w) - 1 /\ Len(w) \in Nat \ {0}
         /\ Head(w) = w[1] /\ 1 \in 1..Len(w) /\ w[1] \in Packets
         /\ \A i \in 1..Len(v) : v[i] = w[i + 1] /\ i + 1 \in 1..Len(w)
         /\ \A j \in 1..Len(w) : j = 1 \/ (j - 1 \in 1..Len(v) /\ v[j - 1] = w[j])
<1>1. Len(w) \in Nat \ {0} /\ v \in Seq(Packets) /\ Len(v) = Len(w) - 1
  OBVIOUS
<1>2. \A i \in 1..Len(v) : v[i] = w[i + 1]
  OBVIOUS
<1>3. \A i \in 1..Len(v) : i + 1 \in 1..Len(w)
  BY <1>1
<1>4. ASSUME NEW j \in 1..Len(w), j # 1
      PROVE  j - 1 \in 1..Len(v) /\ v[j - 1] = w[j]
  <2>1. j - 1 \in 1..Len(v) /\ (j - 1) + 1 = j
    BY <1>1, <1>4
  <2> QED
    BY <1>2, <2>1
<1>5. Head(w) = w[1] /\ 1 \in 1..Len(w) /\ w[1] \in Packets
  BY <1>1
<1> QED
  BY <1>1, <1>2, <1>3, <1>4, <1>5

\* Something else than a chunk on the channel is written.
LEMMA AppendShifts ==
  ASSUME NEW w \in Seq(Packets), NEW x \in Packets, NEW ch,
         ~(x.kind = "Chunk" /\ x.channel = ch)
  PROVE  Shifted(w, Append(w, x), ch, 0)
<1> DEFINE v == Append(w, x)
<1>1. /\ v \in Seq(Packets) /\ Len(v) = Len(w) + 1 /\ Len(w) \in Nat
      /\ v[Len(w) + 1] = x
      /\ \A i \in 1..Len(w) : v[i] = w[i] /\ i \in 1..Len(v)
      /\ \A i \in 1..Len(v) : i \in 1..Len(w) \/ i = Len(w) + 1
  BY AppendPlaces
<1> HIDE DEF v
<1>2. OnChannel(v, ch) = OnChannel(w, ch)
  BY <1>1 DEF OnChannel
<1>3. \A i \in OnChannel(w, ch) : v[i] = w[i] /\ i \in Nat
  BY <1>1, OnChannelTypes DEF OnChannel
<1>4. \A i \in OnChannel(w, ch) : i + 0 = i /\ i - 0 = i
  BY <1>3
<1> QED
  BY <1>2, <1>3, <1>4 DEF Shifted, v

\* Something else than a chunk on the channel is read.
LEMMA TailShifts ==
  ASSUME NEW w \in Seq(Packets), w # <<>>, NEW ch,
         ~(Head(w).kind = "Chunk" /\ Head(w).channel = ch)
  PROVE  Shifted(w, Tail(w), ch, 1)
<1> DEFINE v == Tail(w)
<1>1. /\ Head(w) = w[1]
      /\ \A i \in 1..Len(v) : v[i] = w[i + 1] /\ i + 1 \in 1..Len(w)
      /\ \A j \in 1..Len(w) : j = 1 \/ (j - 1 \in 1..Len(v) /\ v[j - 1] = w[j])
  BY TailPlaces
<1> HIDE DEF v
<1>2. \A i \in OnChannel(v, ch) : i + 1 \in OnChannel(w, ch) /\ v[i].part = w[i + 1].part
  BY <1>1 DEF OnChannel
<1>3. \A j \in OnChannel(w, ch) : j - 1 \in OnChannel(v, ch)
  BY <1>1 DEF OnChannel
<1> QED
  BY <1>2, <1>3 DEF Shifted, v

\* What is said of the chunks on a channel does not depend on their places.
LEMMA ShiftedContinues ==
  ASSUME NEW w \in Seq(Packets), NEW v \in Seq(Packets), NEW ch, NEW d \in {0, 1},
         Shifted(w, v, ch, d), NEW n, Continues(w, ch, n)
  PROVE  Continues(v, ch, n)
<1>1. \A i \in OnChannel(v, ch) :
        i \in Nat /\ i + d \in OnChannel(w, ch) /\ v[i].part = w[i + d].part
  BY OnChannelTypes DEF Shifted
<1>2. \A j \in OnChannel(w, ch) : j \in Nat /\ j - d \in OnChannel(v, ch)
  BY OnChannelTypes DEF Shifted
<1>3. \A i \in OnChannel(v, ch) : v[i].part > n
  BY <1>1 DEF Continues
<1>4. ASSUME NEW i \in OnChannel(v, ch), NEW j \in OnChannel(v, ch), i < j
      PROVE  v[i].part < v[j].part
  <2>1. i + d < j + d
    BY <1>1, <1>4
  <2> QED
    BY <1>1, <2>1 DEF Continues
<1>5. ASSUME NEW i \in OnChannel(v, ch), v[i].part # n + 1
      PROVE  \E j \in OnChannel(v, ch) : v[j].part + 1 = v[i].part
  <2>1. PICK k \in OnChannel(w, ch) : w[k].part + 1 = w[i + d].part
    BY <1>1, <1>5 DEF Continues
  <2>2. k - d \in OnChannel(v, ch) /\ (k - d) + d = k
    BY <1>2
  <2> QED
    BY <1>1, <2>1, <2>2
<1> QED
  BY <1>3, <1>4, <1>5 DEF Continues

\* The same of a channel on which nothing was sent.
LEMMA ShiftedFresh ==
  ASSUME NEW w \in Seq(Packets), NEW v \in Seq(Packets), NEW e, NEW d \in {0, 1},
         Shifted(w, v, e[1], d), NEW r, Fresh(w, r, e)
  PROVE  Fresh(v, r, e)
BY DEF Shifted, Fresh

\* The same of one on which the first n chunks were.
LEMMA ShiftedUpto ==
  ASSUME NEW w \in Seq(Packets), NEW v \in Seq(Packets), NEW e, NEW d \in {0, 1},
         Shifted(w, v, e[1], d), NEW r, NEW n, Upto(w, r, e, n)
  PROVE  Upto(v, r, e, n)
<1>1. \A i \in OnChannel(v, e[1]) :
        i + d \in OnChannel(w, e[1]) /\ v[i].part = w[i + d].part
  BY DEF Shifted
<1>2. \A j \in OnChannel(w, e[1]) : j - d \in OnChannel(v, e[1]) /\ (j - d) + d = j
  BY OnChannelTypes DEF Shifted
<1>3. \A i \in OnChannel(v, e[1]) : v[i].part <= n
  BY <1>1 DEF Upto
<1>4. (\E i \in OnChannel(w, e[1]) : w[i].part = n) =>
        \E i \in OnChannel(v, e[1]) : v[i].part = n
  BY <1>1, <1>2
<1> QED
  BY <1>3, <1>4 DEF Upto

(***************************************************************************)
(* What the sender does.                                                   *)
(***************************************************************************)

\* A program that has ended.
Off(c) == ~c.up /\ ~c.online

\* The sender may become c, as far as the receiver r is concerned.
SenderFlow(c, r) ==
  /\ Arrives(c.wire, r)
  /\ link => Off(c) \/ (Serves(c, r) /\ Asks(c, r))

\* A queued file f can be started.
Ready(c, r, f) ==
  /\ <<c.channel[f], f>> \in r.made
  /\ Fresh(c.wire, r, <<c.channel[f], f>>)
  /\ \A i \in 1..Len(r.wire) :
       IsRequest(r.wire[i]) => r.wire[i].channel # c.channel[f]

\* A file in the queue that the receiver asked for can be started.
LEMMA LiveIsReady ==
  ASSUME NEW c, NEW r, Serves(c, r), Asks(c, r),
         NEW f \in Files, f \in Live(c), c.state[f] = "QUEUED"
  PROVE  Ready(c, r, f)
<1>1. <<c.channel[f], f>> \in r.made /\ Fresh(c.wire, r, <<c.channel[f], f>>)
  BY DEF Serves, Sends
<1>2. \A i \in 1..Len(r.wire) :
        IsRequest(r.wire[i]) => r.wire[i].channel # c.channel[f]
  BY DEF Asks
<1> QED
  BY <1>1, <1>2 DEF Ready

\* The sender gives up files, channels or its queue, and says nothing.
LEMMA LessToSend ==
  ASSUME NEW c, NEW r, SenderFlow(c, r), NEW d,
         d.wire = c.wire, d.channel = c.channel, d.parts = c.parts,
         d.open \subseteq c.open, d.up = c.up, d.online = c.online,
         \A f \in Live(d) : f \in Live(c) /\ d.state[f] = c.state[f]
  PROVE  SenderFlow(d, r)
<1>1. Serves(c, r) => Serves(d, r)
  BY DEF Serves, Sends
<1>2. Asks(c, r) => Asks(d, r)
  BY DEF Asks
<1> QED
  BY <1>1, <1>2 DEF SenderFlow, Off

\* The sender says something else than a chunk.
LEMMA SomethingSaid ==
  ASSUME NEW c \in Contacts, NEW r, SenderFlow(c, r),
         NEW x \in Packets, x.kind # "Chunk", NEW d,
         d.wire = c.wire \/ d.wire = Append(c.wire, x),
         d.channel = c.channel, d.parts = c.parts, d.state = c.state,
         d.queue = c.queue, d.open = c.open, d.up = c.up, d.online = c.online
  PROVE  SenderFlow(d, r)
<1>1. Live(d) = Live(c)
  BY DEF Live
<1>2. CASE d.wire = c.wire
  BY <1>1, <1>2, LessToSend
<1>3. CASE d.wire = Append(c.wire, x)
  <2> DEFINE w == c.wire
             v == Append(w, x)
  <2>1. w \in Seq(Packets) /\ v \in Seq(Packets)
    BY DEF Contacts
  <2>2. \A ch : Shifted(w, v, ch, 0)
    BY <2>1, AppendShifts
  <2>3. Carried(w, r) => Carried(v, r)
    <3>1. \A i \in 1..Len(v) : (i \in 1..Len(w) /\ v[i] = w[i]) \/ v[i] = x
      BY <2>1, AppendPlaces
    <3> HIDE DEF v, w
    <3> QED
      BY <3>1 DEF Carried
  <2> HIDE DEF v, w
  <2>4. Arrives(w, r) => Arrives(v, r)
    <3>1. \A ch, n : Continues(w, ch, n) => Continues(v, ch, n)
      BY <2>1, <2>2, ShiftedContinues
    <3> QED
      BY <2>3, <3>1 DEF Arrives
  <2>5. d.wire = v /\ c.wire = w
    BY <1>3 DEF v, w
  <2>6. \A e : Fresh(w, r, e) => Fresh(v, r, e)
    BY <2>1, <2>2, ShiftedFresh
  <2>7. \A e, n : Upto(w, r, e, n) => Upto(v, r, e, n)
    BY <2>1, <2>2, ShiftedUpto
  <2>8. Serves(c, r) => Serves(d, r)
    BY <1>1, <2>5, <2>6, <2>7 DEF Serves, Sends
  <2>9. Asks(c, r) => Asks(d, r)
    BY <1>1, <2>5, <2>6 DEF Asks
  <2> QED
    BY <2>4, <2>5, <2>8, <2>9 DEF SenderFlow, Off
<1> QED
  BY <1>2, <1>3

\* A program that ends has said what it said.
LEMMA OffFlow ==
  ASSUME NEW c, NEW r, SenderFlow(c, r), NEW d, d.wire = c.wire, Off(d)
  PROVE  SenderFlow(d, r)
BY DEF SenderFlow

\* What is left of a program that has ended.
LEMMA EndedFields ==
  ASSUME NEW s \in Sides, NEW c \in Contacts
  PROVE  /\ Off(Ended(s, c)) /\ Ended(s, c).wire = c.wire
         /\ Ended(s, c).open = {} /\ Ended(s, c).made = {}
         /\ Ended(s, c).parts = c.parts
         /\ \A f \in Files : Ended(s, c).state[f] = RecoveredState(s, c.state[f])
BY DEF Off, Ended, NewContact

\* A new state of a file does not close the connection, nor change the disk.
LEMMA SetStateKeeps ==
  ASSUME NEW c \in Contacts, NEW f, NEW st, NEW d, d = SetState(c, f, st)
  PROVE  d.closing = c.closing /\ d.bad = c.bad
<1>1. CASE c.state[f] = st
  BY <1>1 DEF SetState
<1>2. CASE c.state[f] # st /\ st = "TRANSFERRING"
  BY <1>2 DEF SetState, Contacts
<1>3. CASE c.state[f] # st /\ st # "TRANSFERRING"
  BY <1>3 DEF SetState, Contacts
<1> QED
  BY <1>1, <1>2, <1>3

\* Nor does Peer::send().
LEMMA SentKeeps ==
  ASSUME NEW c \in Contacts, NEW x, NEW d, d = Sent(c, x)
  PROVE  d.closing = c.closing /\ d.bad = c.bad
BY DEF Sent, Contacts

\* Nor a new channel.
LEMMA WithChannelKeeps ==
  ASSUME NEW c \in Contacts, NEW ch, NEW f, NEW d, d = WithChannel(c, ch, f)
  PROVE  d.closing = c.closing /\ d.bad = c.bad
BY DEF WithChannel, Contacts

\* The fields of SetState() that matter for what is sent.
LEMMA SetStateRest ==
  ASSUME NEW c \in Contacts, NEW f \in Files, NEW st \in FileStates,
         NEW d, d = SetState(c, f, st)
  PROVE  /\ d \in Contacts
         /\ d.state[f] = st /\ \A g \in Files : g # f => d.state[g] = c.state[g]
         /\ d.queue = c.queue /\ d.wire = c.wire /\ d.online = c.online
         /\ d.up = c.up /\ d.open = c.open /\ d.made = c.made
         /\ d.channel = c.channel /\ d.parts = c.parts /\ d.next = c.next
         /\ c.leaving \subseteq d.leaving
         /\ st # "TRANSFERRING" /\ c.state[f] # st =>
              \A e \in c.made : e[2] = f => e[1] \in d.leaving
<1>1. /\ d \in Contacts /\ d.state = [c.state EXCEPT ![f] = st]
      /\ d.queue = c.queue /\ d.wire = c.wire /\ d.online = c.online
      /\ d.open = c.open
      /\ d.channel = c.channel /\ d.parts = c.parts /\ d.next = c.next
  BY SetStateFields
<1>2. c.state \in [Files -> FileStates]
  BY DEF Contacts
<1>3. d.state[f] = st /\ \A g \in Files : g # f => d.state[g] = c.state[g]
  BY <1>1, <1>2
<1>4. /\ d.up = c.up /\ d.made = c.made
      /\ c.leaving \subseteq d.leaving
      /\ st # "TRANSFERRING" /\ c.state[f] # st =>
           \A e \in c.made : e[2] = f => e[1] \in d.leaving
  <2>1. CASE c.state[f] = st
    BY <2>1 DEF SetState
  <2>2. CASE c.state[f] # st /\ st = "TRANSFERRING"
    BY <2>2 DEF SetState, Contacts
  <2>3. CASE c.state[f] # st /\ st # "TRANSFERRING"
    <3> DEFINE g == {e[1] : e \in {e \in c.made : e[2] = f}}
    <3>1. d.leaving = c.leaving \cup g /\ d.up = c.up /\ d.made = c.made
      BY <2>3 DEF SetState, Contacts
    <3>2. \A e \in c.made : e[2] = f => e[1] \in g
      OBVIOUS
    <3> QED
      BY <3>1, <3>2
  <2> QED
    BY <2>1, <2>2, <2>3
<1> QED
  BY <1>1, <1>3, <1>4

\* A file gets a state in which it is not sent.
LEMMA SetStateSends ==
  ASSUME NEW c \in Contacts, NEW r, SenderFlow(c, r), NEW f \in Files,
         NEW st \in FileStates \ {"QUEUED", "TRANSFERRING"}
  PROVE  SetState(c, f, st) \in Contacts /\ SenderFlow(SetState(c, f, st), r)
<1> DEFINE d == SetState(c, f, st)
<1>1. /\ d \in Contacts
      /\ d.state[f] = st /\ \A g \in Files : g # f => d.state[g] = c.state[g]
      /\ d.queue = c.queue /\ d.wire = c.wire /\ d.online = c.online
      /\ d.up = c.up /\ d.open = c.open
      /\ d.channel = c.channel /\ d.parts = c.parts
  BY SetStateRest
<1> HIDE DEF d
<1>2. \A g \in Live(d) : g \in Live(c) /\ d.state[g] = c.state[g]
  BY <1>1 DEF Live
<1>3. SenderFlow(d, r)
  BY <1>1, <1>2, LessToSend
<1> QED
  BY <1>1, <1>3 DEF d

\* Peer::send() of something else than a chunk, and Contact::sendAck().
LEMMA SentSends ==
  ASSUME NEW c \in Contacts, NEW r, SenderFlow(c, r), NEW x \in Packets,
         x.kind # "Chunk"
  PROVE  Sent(c, x) \in Contacts /\ SenderFlow(Sent(c, x), r)
<1> DEFINE d == Sent(c, x)
<1>1. /\ d \in Contacts
      /\ d.state = c.state /\ d.queue = c.queue /\ d.open = c.open
      /\ d.channel = c.channel /\ d.parts = c.parts /\ d.online = c.online
      /\ d.wire = c.wire \/ d.wire = Append(c.wire, x)
  BY SentFields
<1>2. d.up = c.up
  BY DEF Sent, Contacts
<1> HIDE DEF d
<1>3. SenderFlow(d, r)
  BY <1>1, <1>2, SomethingSaid
<1> QED
  BY <1>1, <1>3 DEF d

\* Contact::sendAck().
LEMMA AckedSends ==
  ASSUME NEW c \in Contacts, NEW r, SenderFlow(c, r), NEW f \in Files,
         NEW st \in AckStatus
  PROVE  Acked(c, f, st) \in Contacts /\ SenderFlow(Acked(c, f, st), r)
<1>1. Ack(f, st) \in Packets /\ Ack(f, st).kind # "Chunk"
  BY DEF Packets, Ack
<1> QED
  BY <1>1, SentSends DEF Acked

\* File::transferFailed().
LEMMA TransferFailedSends ==
  ASSUME NEW c \in Contacts, NEW r, SenderFlow(c, r), NEW f \in Files
  PROVE  TransferFailed(c, f) \in Contacts /\ SenderFlow(TransferFailed(c, f), r)
<1> DEFINE d == SetState(c, f, "CANCELLED")
<1>1. d \in Contacts /\ SenderFlow(d, r)
  BY SetStateSends DEF FileStates
<1>2. TransferFailed(c, f) = c \/ TransferFailed(c, f) = Acked(d, f, "Abort")
  BY DEF TransferFailed
<1> HIDE DEF d
<1>3. Acked(d, f, "Abort") \in Contacts /\ SenderFlow(Acked(d, f, "Abort"), r)
  BY <1>1, AckedSends DEF AckStatus
<1> QED
  BY <1>2, <1>3

\* The next chunk of f is written to its channel.
LEMMA ChunkWritten ==
  ASSUME NEW w \in Seq(Packets), NEW r \in Contacts, Numbered(r), Channelled(r),
         Arrives(w, r), NEW f \in Files, NEW ch \in Nat, <<ch, f>> \in r.made,
         NEW m \in Nat, Upto(w, r, <<ch, f>>, m),
         NEW v, v = Append(w, Chunk(f, m + 1, ch))
  PROVE  /\ v \in Seq(Packets)
         /\ Arrives(v, r)
         /\ m + 1 < Chunks => Upto(v, r, <<ch, f>>, m + 1)
         /\ \A k : k # ch => Shifted(w, v, k, 0)
<1> DEFINE x == Chunk(f, m + 1, ch)
           n == Len(w) + 1
           e == <<ch, f>>
<1>1. m + 1 \in 1..Chunks /\ m + 1 \in Nat
  BY ChunksAssumption DEF Upto
<1>2. /\ x \in Packets /\ x.kind = "Chunk" /\ x.channel = ch /\ x.file = f
      /\ x.part = m + 1
  BY <1>1 DEF Packets, Chunk
<1> HIDE DEF x
<1>3. /\ v \in Seq(Packets) /\ Len(v) = n /\ Len(w) \in Nat
      /\ v[n] = x
      /\ \A i \in 1..Len(w) : v[i] = w[i] /\ i \in 1..Len(v)
      /\ \A i \in 1..Len(v) : i \in 1..Len(w) \/ i = n
  BY <1>2, AppendPlaces DEF x
<1>4. \A k : k # ch => Shifted(w, v, k, 0)
  BY <1>2, AppendShifts DEF x
<1>5. /\ OnChannel(v, ch) = OnChannel(w, ch) \cup {n}
      /\ \A i \in OnChannel(w, ch) : v[i] = w[i] /\ i \in 1..Len(w)
  BY <1>2, <1>3 DEF OnChannel
<1>6. \A i \in OnChannel(w, ch) : i < n /\ w[i].part \in Nat /\ w[i].part <= m
  BY <1>3, <1>5, OnChannelTypes DEF Upto
<1>7. v[n].part = m + 1 /\ n \in OnChannel(v, ch)
  BY <1>2, <1>3, <1>5
<1>8. ASSUME e \in Running(r), NEW q, q = r.parts[f], q \in Nat,
             Continues(w, ch, q)
      PROVE  Continues(v, ch, q)
  <2>1. q <= m /\ (q < m => \E i \in OnChannel(w, ch) : w[i].part = m)
    BY <1>8 DEF Upto
  <2>2. \A i \in OnChannel(v, ch) : v[i].part > q
    BY <1>5, <1>7, <1>8, <2>1 DEF Continues
  <2>3. \A i, j \in OnChannel(v, ch) : i < j => v[i].part < v[j].part
    <3>1. \A i \in OnChannel(w, ch), j \in OnChannel(w, ch) :
            i < j => v[i].part < v[j].part
      BY <1>5, <1>8 DEF Continues
    <3>2. \A i \in OnChannel(w, ch) : v[i].part < v[n].part /\ ~(n < i)
      BY <1>3, <1>5, <1>6, <1>7
    <3> HIDE DEF n
    <3>3. ~(n < n)
      BY <1>3 DEF n
    <3> QED
      BY <1>5, <3>1, <3>2, <3>3
  <2>4. ASSUME NEW i \in OnChannel(v, ch)
        PROVE  v[i].part = q + 1 \/ \E j \in OnChannel(v, ch) : v[j].part + 1 = v[i].part
    <3>1. CASE i = n
      <4>1. CASE q = m
        BY <1>7, <3>1, <4>1
      <4>2. CASE q < m
        <5>1. PICK j \in OnChannel(w, ch) : w[j].part = m
          BY <2>1, <4>2
        <5>2. v[j].part + 1 = v[i].part /\ j \in OnChannel(v, ch)
          BY <1>5, <1>7, <3>1, <5>1
        <5> QED
          BY <5>2
      <4>3. q = m \/ q < m
        <5>1. q <= m /\ q \in Nat
          BY <1>8, <2>1
        <5> QED
          BY <5>1
      <4> QED
        BY <4>1, <4>2, <4>3
    <3>2. CASE i \in OnChannel(w, ch)
      <4>1. w[i].part = q + 1 \/ \E j \in OnChannel(w, ch) : w[j].part + 1 = w[i].part
        BY <1>8, <3>2 DEF Continues
      <4> QED
        BY <1>5, <3>2, <4>1
    <3>3. i = n \/ i \in OnChannel(w, ch)
      BY <1>5, <2>4
    <3> QED
      BY <3>1, <3>2, <3>3
  <2> QED
    BY <2>2, <2>3, <2>4 DEF Continues
<1>9. Arrives(v, r)
  <2>1. r.online => Carried(v, r)
    <3>1. r.online => Carried(w, r)
      BY DEF Arrives
    <3>2. \A i \in 1..Len(v) : (i \in 1..Len(w) /\ v[i] = w[i]) \/ v[i] = x
      BY <1>3
    <3>3. <<x.channel, x.file>> \in r.made
      BY <1>2
    <3> QED
      BY <3>1, <3>2, <3>3 DEF Carried
  <2>2. ASSUME NEW g \in Running(r)
        PROVE  Continues(v, g[1], r.parts[g[2]])
    <3>1. Continues(w, g[1], r.parts[g[2]])
      BY DEF Arrives
    <3>2. g \in r.open /\ g \in r.made
      BY DEF Running, Channelled
    <3>3. CASE g[1] = ch
      <4>1. g = e
        BY <3>2, <3>3 DEF Numbered
      <4>2. r.parts[f] \in Nat /\ g[2] = f /\ e \in Running(r)
        BY <4>1 DEF Contacts
      <4> QED
        BY <1>8, <3>1, <3>3, <4>2
    <3>4. CASE g[1] # ch
      BY <1>3, <1>4, <3>1, <3>4, ShiftedContinues
    <3> QED
      BY <3>3, <3>4
  <2> QED
    BY <2>1, <2>2 DEF Arrives
<1>10. ASSUME m + 1 < Chunks
       PROVE  Upto(v, r, e, m + 1)
  <2>1. \A i \in OnChannel(v, ch) : v[i].part <= m + 1
    BY <1>5, <1>6, <1>7
  <2>2. e \in Running(r) => r.parts[f] <= m + 1
    <3>1. e \in Running(r) => r.parts[f] <= m
      BY DEF Upto
    <3>2. r.parts[f] \in Nat
      BY DEF Contacts
    <3> QED
      BY <3>1, <3>2
  <2>3. \E i \in OnChannel(v, ch) : v[i].part = m + 1
    BY <1>7
  <2> QED
    BY <1>10, <2>1, <2>2, <2>3 DEF Upto
<1> QED
  BY <1>3, <1>4, <1>9, <1>10

\* OutgoingFileChannel::onOutgoing(), of a file being transferred when the link
\* stands.
LEMMA OnOutgoingSends ==
  ASSUME NEW c \in Contacts, NEW r \in Contacts, Numbered(r), Channelled(r),
         SenderFlow(c, r), ~Off(c), NEW f \in Files,
         link => c.state[f] = "TRANSFERRING"
  PROVE  SenderFlow(OnOutgoing(c, f), r)
<1> DEFINE m == c.parts[f]
           n == IF m < Chunks THEN m + 1 ELSE Chunks
           ch == c.channel[f]
           b == [c EXCEPT !.parts[f] = n]
           sent == Sent(b, Chunk(f, n, ch))
<1>1. m \in Nat /\ ch \in Nat /\ n \in 1..Chunks /\ n \in 0..Wrong
  BY SMTT(30), ChunksAssumption DEF Contacts, Wrong
<1>2. OnOutgoing(c, f) = IF n < Chunks THEN sent
                         ELSE IF c.state[f] = "TRANSFERRING"
                         THEN SetState(sent, f, "DONE")
                         ELSE Ended("sender", sent)
  BY DEF OnOutgoing
<1>3. /\ b \in Contacts
      /\ b.state = c.state /\ b.queue = c.queue /\ b.open = c.open
      /\ b.channel = c.channel /\ b.wire = c.wire /\ b.online = c.online
      /\ b.up = c.up
      /\ b.parts[f] = n /\ \A g \in Files : g # f => b.parts[g] = c.parts[g]
  BY <1>1 DEF Contacts
<1>4. Chunk(f, n, ch) \in Packets
  BY <1>1 DEF Packets, Chunk
<1>5. /\ sent \in Contacts
      /\ sent.state = c.state /\ sent.queue = c.queue /\ sent.open = c.open
      /\ sent.channel = c.channel /\ sent.online = c.online
      /\ sent.parts = b.parts
      /\ sent.wire = IF link THEN Append(c.wire, Chunk(f, n, ch)) ELSE c.wire
  <2> DEFINE x == Chunk(f, n, ch)
  <2> HIDE DEF b, x
  <2>1. /\ sent \in Contacts
        /\ sent.state = b.state /\ sent.queue = b.queue /\ sent.open = b.open
        /\ sent.channel = b.channel /\ sent.online = b.online
        /\ sent.parts = b.parts
    <3>1. x \in Packets /\ sent = Sent(b, x)
      BY <1>4 DEF x
    <3>2. b \in Contacts
      BY <1>3
    <3> HIDE DEF sent
    <3> QED
      BY <3>1, <3>2, SentFields
  <2>2. sent.wire = IF link THEN Append(b.wire, x) ELSE b.wire
    <3>1. sent = Sent(b, x)
      BY DEF x
    <3> HIDE DEF sent
    <3> QED
      BY <1>3, <3>1 DEF Sent, Contacts
  <2> HIDE DEF sent
  <2> QED
    BY <1>3, <2>1, <2>2 DEF x
<1>6. Live(sent) = Live(c)
  BY <1>5 DEF Live
<1> HIDE DEF sent, b, n, ch, m
<1>7. CASE ~link
  <2>1. SenderFlow(sent, r)
    BY <1>5, <1>7 DEF SenderFlow
  <2>2. SenderFlow(SetState(sent, f, "DONE"), r)
    BY <1>5, <2>1, SetStateSends DEF FileStates
  <2>3. SenderFlow(Ended("sender", sent), r)
    BY <1>5, <2>1, EndedFields, OffFlow DEF Sides
  <2> QED
    BY <1>2, <2>1, <2>2, <2>3
<1>8. CASE link
  <2> DEFINE w == c.wire
             v == Append(w, Chunk(f, m + 1, ch))
  <2>1. Serves(c, r) /\ Asks(c, r) /\ Arrives(w, r)
    BY <1>8 DEF SenderFlow
  <2>2. f \in Live(c)
    BY <1>8 DEF Live
  <2>3. <<ch, f>> \in r.made /\ Upto(w, r, <<ch, f>>, m)
    BY <1>8, <2>1, <2>2 DEF Serves, Sends, ch, m
  <2>4. m < Chunks /\ n = m + 1
    BY <2>3 DEF Upto, n
  <2>5. w \in Seq(Packets) /\ sent.wire = v
    BY <1>5, <1>8, <2>4 DEF Contacts
  <2>6. /\ v \in Seq(Packets)
        /\ Arrives(v, r)
        /\ m + 1 < Chunks => Upto(v, r, <<ch, f>>, m + 1)
        /\ \A k : k # ch => Shifted(w, v, k, 0)
    <3>1. v = Append(w, Chunk(f, m + 1, ch))
      OBVIOUS
    <3> HIDE DEF v, w
    <3>2. w \in Seq(Packets) /\ Arrives(w, r)
      BY <2>1, <2>5
    <3> QED
      BY ZenonT(40), <1>1, <2>3, <3>1, <3>2, ChunkWritten
  <2> HIDE DEF v
  <2>7. ASSUME NEW g \in Live(c), g # f
        PROVE  Sends(sent, r, g)
    <3> DEFINE k == c.channel[g]
               e == <<k, g>>
    <3>1. Sends(c, r, g) /\ e \in r.made
      BY <2>1 DEF Serves, Sends
    <3>2. k # ch
      <4>1. e[1] = k /\ e[2] = g /\ <<ch, f>>[1] = ch /\ <<ch, f>>[2] = f
        OBVIOUS
      <4> QED
        BY <2>3, <2>7, <3>1, <4>1 DEF Numbered
    <3>3. Shifted(w, v, k, 0) /\ e[1] = k
      BY <2>6, <3>2
    <3>4. Fresh(w, r, e) => Fresh(v, r, e)
      BY <2>5, <2>6, <3>3, ShiftedFresh
    <3>5. \A i : Upto(w, r, e, i) => Upto(v, r, e, i)
      BY <2>5, <2>6, <3>3, ShiftedUpto
    <3>6. g \in Files /\ sent.parts[g] = c.parts[g]
      BY <1>3, <1>5, <2>7 DEF Live
    <3> QED
      BY <1>5, <2>5, <3>1, <3>4, <3>5, <3>6 DEF Sends
  <2>8. Asks(sent, r)
    <3> DEFINE e(i) == <<r.wire[i].channel, r.wire[i].file>>
    <3>1. ASSUME NEW i \in 1..Len(r.wire), IsRequest(r.wire[i])
          PROVE  Fresh(v, r, e(i))
      <4>1. Fresh(w, r, e(i)) /\ ch # e(i)[1]
        BY <2>1, <2>2, <3>1 DEF Asks, ch
      <4>2. Shifted(w, v, e(i)[1], 0)
        BY <2>6, <4>1
      <4> HIDE DEF e
      <4> QED
        BY <2>5, <2>6, <4>1, <4>2, ShiftedFresh
    <3> QED
      BY <1>5, <1>6, <2>1, <2>5, <3>1 DEF Asks
  <2>9. CASE n < Chunks
    <3>1. Sends(sent, r, f)
      <4>1. sent.state[f] = "TRANSFERRING" /\ sent.parts[f] = m + 1
        BY <1>3, <1>5, <1>8, <2>4
      <4> QED
        BY <1>5, <2>3, <2>4, <2>5, <2>6, <2>9, <4>1 DEF Sends, ch
    <3>2. Serves(sent, r)
      BY <1>5, <1>6, <2>1, <2>7, <3>1 DEF Serves
    <3> QED
      BY <1>2, <2>5, <2>6, <2>8, <2>9, <3>2 DEF SenderFlow
  <2>10. CASE ~(n < Chunks)
    <3> DEFINE d == SetState(sent, f, "DONE")
    <3>1. /\ d.state[f] = "DONE"
          /\ \A g \in Files : g # f => d.state[g] = sent.state[g]
          /\ d.queue = sent.queue /\ d.wire = sent.wire /\ d.open = sent.open
          /\ d.channel = sent.channel /\ d.parts = sent.parts
      <4>1. "DONE" \in FileStates /\ sent \in Contacts
        BY <1>5 DEF FileStates
      <4> QED
        BY <4>1, SetStateRest
    <3> HIDE DEF d
    <3>2. \A g \in Live(d) : g \in Live(c) /\ g # f /\ d.state[g] = sent.state[g]
      BY <1>5, <3>1 DEF Live
    <3>3. \A g \in Live(d) : Sends(d, r, g)
      BY <2>7, <3>1, <3>2 DEF Sends
    <3>4. Serves(d, r)
      BY <1>5, <2>1, <3>1, <3>3 DEF Serves
    <3>5. Asks(d, r)
      BY <1>6, <2>8, <3>1, <3>2 DEF Asks
    <3> QED
      BY <1>2, <1>8, <2>5, <2>6, <2>10, <3>1, <3>4, <3>5 DEF SenderFlow, d
  <2> QED
    BY <2>9, <2>10
<1> QED
  BY <1>7, <1>8

\* Peer::createChannel(): a new channel of a file that is read, or written, anew.
LEMMA WithChannelRest ==
  ASSUME NEW c \in Contacts, NEW ch \in Nat, NEW f \in Files
  PROVE  LET d == WithChannel(c, ch, f)
         IN /\ d \in Contacts
            /\ d.state = c.state /\ d.queue = c.queue /\ d.wire = c.wire
            /\ d.online = c.online /\ d.channel = c.channel /\ d.next = c.next
            /\ d.up = c.up /\ d.leaving = c.leaving
            /\ d.open = c.open \cup {<<ch, f>>}
            /\ d.made = c.made \cup {<<ch, f>>}
            /\ d.parts[f] = 0 /\ \A g \in Files : g # f => d.parts[g] = c.parts[g]
<1> DEFINE d == WithChannel(c, ch, f)
<1>1. d \in Contacts
  BY WithChannelFields
<1>2. /\ d.state = c.state /\ d.queue = c.queue /\ d.wire = c.wire
      /\ d.online = c.online /\ d.channel = c.channel /\ d.next = c.next
      /\ d.up = c.up /\ d.leaving = c.leaving
      /\ d.open = c.open \cup {<<ch, f>>}
      /\ d.made = c.made \cup {<<ch, f>>}
      /\ d.parts = [c.parts EXCEPT ![f] = 0]
  BY DEF WithChannel, Contacts
<1> HIDE DEF d
<1>3. d.parts[f] = 0 /\ \A g \in Files : g # f => d.parts[g] = c.parts[g]
  BY <1>2 DEF Contacts
<1> QED
  BY <1>1, <1>2, <1>3 DEF d

\* Peer::startSend().
LEMMA StartSendSends ==
  ASSUME NEW c \in Contacts, NEW r \in Contacts, Numbered(r), Channelled(r),
         SenderFlow(c, r), ~Off(c), NEW f \in Files, c.state[f] = "QUEUED",
         link => Ready(c, r, f)
  PROVE  SenderFlow(StartSend(c, f), r)
<1> DEFINE ch == c.channel[f]
           e == <<ch, f>>
           w == WithChannel(c, ch, f)
           t == SetState(w, f, "TRANSFERRING")
<1>1. StartSend(c, f) \in {c, Ended("sender", c), OnOutgoing(t, f)}
  BY DEF StartSend
<1>2. SenderFlow(Ended("sender", c), r)
  BY EndedFields, OffFlow DEF Sides
<1>3. ch \in Nat
  BY DEF Contacts
<1>4. /\ w \in Contacts
      /\ w.state = c.state /\ w.queue = c.queue /\ w.wire = c.wire
      /\ w.online = c.online /\ w.up = c.up /\ w.channel = c.channel
      /\ w.open = c.open \cup {e}
      /\ w.parts[f] = 0 /\ \A g \in Files : g # f => w.parts[g] = c.parts[g]
  <2> HIDE DEF ch
  <2> QED
    BY <1>3, WithChannelRest
<1> HIDE DEF w
<1>5. /\ t \in Contacts
      /\ t.state[f] = "TRANSFERRING"
      /\ \A g \in Files : g # f => t.state[g] = w.state[g]
      /\ t.queue = w.queue /\ t.wire = w.wire
      /\ t.online = w.online /\ t.up = w.up
      /\ t.open = w.open /\ t.channel = w.channel /\ t.parts = w.parts
  <2>1. "TRANSFERRING" \in FileStates
    BY DEF FileStates
  <2>2. t = SetState(w, f, "TRANSFERRING") /\ w \in Contacts
    BY <1>4
  <2> HIDE DEF t
  <2> QED
    BY <2>1, <2>2, SetStateRest
<1> HIDE DEF t
<1>6. \A g \in Live(t) : g # f => g \in Live(c) /\ t.state[g] = c.state[g]
  BY <1>4, <1>5 DEF Live
<1>7. ASSUME link
      PROVE  Serves(t, r) /\ Asks(t, r)
  <2>1. Serves(c, r) /\ Asks(c, r) /\ Ready(c, r, f)
    BY <1>7 DEF SenderFlow
  <2>2. e \in r.made /\ Fresh(c.wire, r, e)
    BY <2>1 DEF Ready
  <2>3. Upto(t.wire, r, e, 0)
    BY <1>4, <1>5, <2>2, ChunksAssumption DEF Fresh, Upto
  <2>4. Sends(t, r, f)
    BY <1>4, <1>5, <2>2, <2>3 DEF Sends
  <2>5. \A g \in Live(t) : g # f => Sends(t, r, g)
    <3>1. ASSUME NEW g \in Live(t), g # f
          PROVE  Sends(t, r, g)
      <4>1. g \in Live(c) /\ g \in Files /\ Sends(c, r, g)
        BY <1>6, <2>1, <3>1 DEF Serves, Live
      <4>2. t.state[g] = c.state[g] /\ t.parts[g] = c.parts[g]
        BY <1>4, <1>5, <1>6, <3>1, <4>1
      <4> QED
        BY <1>4, <1>5, <4>1, <4>2 DEF Sends
    <3> QED
      BY <3>1
  <2>6. t.open \subseteq r.made
    BY <1>4, <1>5, <2>1, <2>2 DEF Serves
  <2>7. Serves(t, r)
    BY <2>4, <2>5, <2>6 DEF Serves
  <2>8. Asks(t, r)
    <3>1. \A i \in 1..Len(r.wire) :
            IsRequest(r.wire[i]) => \A g \in Live(t) : t.channel[g] # r.wire[i].channel
      <4>1. ASSUME NEW i \in 1..Len(r.wire), IsRequest(r.wire[i]), NEW g \in Live(t)
            PROVE  c.channel[g] # r.wire[i].channel
        <5>1. CASE g = f
          BY <2>1, <4>1, <5>1 DEF Ready
        <5>2. CASE g # f
          BY <1>6, <2>1, <4>1, <5>2 DEF Asks
        <5> QED
          BY <5>1, <5>2
      <4> QED
        BY <1>4, <1>5, <4>1
    <3>2. t.wire = c.wire
      BY <1>4, <1>5
    <3> QED
      BY <2>1, <3>1, <3>2 DEF Asks
  <2> QED
    BY <2>7, <2>8
<1>8. SenderFlow(t, r)
  BY <1>4, <1>5, <1>7 DEF SenderFlow
<1>9. SenderFlow(OnOutgoing(t, f), r)
  <2>1. ~Off(t)
    BY <1>4, <1>5 DEF Off
  <2> QED
    BY <1>5, <1>8, <2>1, OnOutgoingSends
<1> QED
  BY <1>1, <1>2, <1>9

\* Contact::queueTransfer() of a file the receiver asked for.
LEMMA QueueTransferSends ==
  ASSUME NEW c \in Contacts, NEW r \in Contacts, Numbered(r), Channelled(r),
         SenderFlow(c, r), ~Off(c), NEW f \in Files, c.state[f] = "QUEUED",
         link => Ready(c, r, f)
  PROVE  SenderFlow(QueueTransfer("sender", c, f), r)
<1> DEFINE slot == [c EXCEPT !.active = @ \cup {f}]
<1>1. /\ slot \in Contacts
      /\ slot.state = c.state /\ slot.queue = c.queue /\ slot.wire = c.wire
      /\ slot.open = c.open /\ slot.channel = c.channel
      /\ slot.parts = c.parts /\ slot.up = c.up /\ slot.online = c.online
  BY DEF Contacts
<1>2. QueueTransfer("sender", c, f) \in {c, StartSend(slot, f)}
  BY DEF QueueTransfer
<1> HIDE DEF slot
<1>3. \A g \in Live(slot) : g \in Live(c) /\ slot.state[g] = c.state[g]
  BY <1>1 DEF Live
<1>4. SenderFlow(slot, r)
  BY <1>1, <1>3, LessToSend
<1>5. link => Ready(slot, r, f)
  BY <1>1 DEF Ready
<1>6. ~Off(slot)
  BY <1>1 DEF Off
<1>7. SenderFlow(StartSend(slot, f), r)
  BY <1>1, <1>4, <1>5, <1>6, StartSendSends
<1> QED
  BY <1>2, <1>7

\* What is left of the queue was in it.
LEMMA BelongingIsQueued ==
  ASSUME NEW s \in Sides, NEW c \in Contacts
  PROVE  ToSet(Belonging(s, c)) \subseteq ToSet(c.queue)
<1> DEFINE u == c.queue
           is == {i \in DOMAIN c.queue : c.state[c.queue[i]] \in QueueStates(s)}
           k == Min(is)
           q == SubSeq(u, k, Len(u))
<1>1. u \in Seq(Files) /\ Len(u) \in Nat /\ DOMAIN u = 1..Len(u)
  BY DEF Contacts
<1>2. CASE is = {}
  <2>1. Belonging(s, c) = <<>>
    BY <1>2 DEF Belonging
  <2> QED
    BY <2>1, ToSetEmpty
<1>3. CASE is # {}
  <2>1. is \subseteq Nat
    BY <1>1
  <2>2. k \in is
    BY <1>3, <2>1, LeastOfNat
  <2>3. k \in 1..Len(u)
    BY <1>1, <2>2
  <2>4. Belonging(s, c) = q
    BY <1>3 DEF Belonging
  <2> HIDE DEF k, is
  <2>5. /\ q \in Seq(Files) /\ Len(q) = Len(u) - k + 1
        /\ \A i \in 1..(Len(u) - k + 1) : q[i] = u[k + i - 1]
    BY <1>1, <2>3, SubSeqProperties
  <2> HIDE DEF q
  <2>6. ASSUME NEW g \in ToSet(q)
        PROVE  g \in ToSet(u)
    <3>1. PICK i \in 1..Len(q) : g = q[i]
      BY <2>5 DEF ToSet
    <3>2. k + i - 1 \in 1..Len(u) /\ g = u[k + i - 1]
      BY <1>1, <2>3, <2>5, <3>1
    <3> QED
      BY <1>1, <3>2, InToSet
  <2> QED
    BY <2>4, <2>6
<1> QED
  BY <1>2, <1>3

\* Contact::processFilesQueue().
LEMMA ProcessFilesQueueSends ==
  ASSUME NEW c \in Contacts, NEW r \in Contacts, Numbered(r), Channelled(r),
         SenderFlow(c, r)
  PROVE  SenderFlow(ProcessFilesQueue("sender", c), r)
<1> DEFINE s == "sender"
           q == Belonging(s, c)
           f == Head(q)
           rest == [c EXCEPT !.queue = Tail(q)]
           whole == [c EXCEPT !.queue = q]
           offer == Sent(rest, Offer(f))
<1>1. s \in Sides
  BY DEF Sides
<1>2. /\ q \in Seq(Files)
      /\ q # <<>> => c.state[Head(q)] \in QueueStates(s)
      /\ ToSet(q) \subseteq ToSet(c.queue)
  BY <1>1, BelongingKeeps, BelongingIsQueued
<1>3. ProcessFilesQueue(s, c) =
        IF ~c.online THEN c
        ELSE IF q = <<>> THEN [c EXCEPT !.queue = <<>>]
        ELSE IF Throws(c, f) THEN QueueTransfer(s, whole, f)
        ELSE IF c.state[f] = "WAITING" THEN SetState(offer, f, "OFFERED")
        ELSE QueueTransfer(s, rest, f)
  BY DEF ProcessFilesQueue
<1> HIDE DEF q
<1>4. ASSUME NEW u \in Seq(Files), ToSet(u) \subseteq ToSet(c.queue),
             NEW d, d = [c EXCEPT !.queue = u]
      PROVE  /\ d \in Contacts /\ d.state = c.state
             /\ d.online = c.online /\ d.up = c.up
             /\ d.wire = c.wire /\ d.channel = c.channel
             /\ SenderFlow(d, r)
  <2>1. /\ d \in Contacts
        /\ d.state = c.state /\ d.queue = u /\ d.wire = c.wire
        /\ d.open = c.open /\ d.channel = c.channel
        /\ d.parts = c.parts /\ d.up = c.up /\ d.online = c.online
    BY <1>4 DEF Contacts
  <2>2. \A g \in Live(d) : g \in Live(c) /\ d.state[g] = c.state[g]
    BY <1>4, <2>1 DEF Live
  <2>3. SenderFlow(d, r)
    BY <2>1, <2>2, LessToSend
  <2> QED
    BY <2>1, <2>3
<1>5. CASE ~c.online
  BY <1>3, <1>5
<1>6. CASE c.online /\ q = <<>>
  <2>1. <<>> \in Seq(Files) /\ ToSet(<<>>) \subseteq ToSet(c.queue)
    BY ToSetEmpty
  <2>2. SenderFlow([c EXCEPT !.queue = <<>>], r)
    BY <1>4, <2>1
  <2> QED
    BY <1>3, <1>6, <2>2
<1>7. CASE c.online /\ q # <<>>
  <2>1. /\ f \in Files /\ Tail(q) \in Seq(Files)
        /\ f \in ToSet(q) /\ ToSet(Tail(q)) \subseteq ToSet(q)
    BY <1>2, <1>7, ToSetHeadTail
  <2>2. c.state[f] \in {"WAITING", "QUEUED"} /\ f \in ToSet(c.queue)
    BY <1>2, <1>7, <2>1 DEF QueueStates
  <2>3. /\ rest \in Contacts /\ rest.state = c.state /\ ~Off(rest)
        /\ rest.wire = c.wire /\ rest.channel = c.channel
        /\ SenderFlow(rest, r)
    <3> DEFINE u == Tail(q)
    <3>1. u \in Seq(Files) /\ ToSet(u) \subseteq ToSet(c.queue)
      BY <1>2, <2>1
    <3>2. rest = [c EXCEPT !.queue = u]
      OBVIOUS
    <3> HIDE DEF u, rest
    <3> QED
      BY <1>4, <1>7, <3>1, <3>2 DEF Off
  <2>4. /\ whole \in Contacts /\ whole.state = c.state /\ ~Off(whole)
        /\ whole.wire = c.wire /\ whole.channel = c.channel
        /\ SenderFlow(whole, r)
    <3>1. whole = [c EXCEPT !.queue = q]
      OBVIOUS
    <3> HIDE DEF whole
    <3> QED
      BY <1>2, <1>4, <1>7, <3>1 DEF Off
  <2> HIDE DEF f, rest, whole
  <2>5. ASSUME c.state[f] = "QUEUED", NEW d \in Contacts, d.state = c.state,
               ~Off(d), d.wire = c.wire, d.channel = c.channel, SenderFlow(d, r)
        PROVE  SenderFlow(QueueTransfer(s, d, f), r)
    <3>1. f \in Live(c)
      BY <2>1, <2>2, <2>5 DEF Live
    <3>2. link => Ready(c, r, f)
      BY <1>7, <2>1, <2>5, <3>1, LiveIsReady DEF SenderFlow, Off
    <3>3. link => Ready(d, r, f)
      BY <2>5, <3>2 DEF Ready
    <3> QED
      BY <2>1, <2>5, <3>3, QueueTransferSends
  <2>6. SenderFlow(SetState(offer, f, "OFFERED"), r)
    <3>1. Offer(f) \in Packets /\ Offer(f).kind # "Chunk"
      BY <2>1 DEF Packets, Offer
    <3>2. offer \in Contacts /\ SenderFlow(offer, r)
      BY <2>3, <3>1, SentSends
    <3> HIDE DEF offer
    <3> QED
      BY <2>1, <3>2, SetStateSends DEF FileStates
  <2>7. c.state[f] = "QUEUED" => /\ SenderFlow(QueueTransfer(s, rest, f), r)
                                 /\ SenderFlow(QueueTransfer(s, whole, f), r)
    BY <2>3, <2>4, <2>5
  <2>8. Throws(c, f) => c.state[f] = "QUEUED"
    BY DEF Throws
  <2> QED
    BY <1>3, <1>7, <2>2, <2>6, <2>7, <2>8
<1> QED
  BY <1>5, <1>6, <1>7 DEF Contacts

\* Peer::sendSome(), also after the file has lost its channel.
LEMMA SendSomeSends ==
  ASSUME NEW c \in Contacts, NEW r \in Contacts, Numbered(r), Channelled(r),
         SenderFlow(c, r), ~Off(c), NEW f \in Files, c.state[f] = "TRANSFERRING",
         NEW d \in SendSome(c, f)
  PROVE  SenderFlow(d, r)
<1> DEFINE on == {e \in c.open : e[1] = c.channel[f]}
           t == TransferFailed(c, f)
<1>1. CASE on = {}
  <2>1. d = t \/ d = Ended("sender", t)
    BY <1>1 DEF SendSome
  <2>2. t \in Contacts /\ SenderFlow(t, r)
    BY TransferFailedSends
  <2> HIDE DEF t
  <2>3. SenderFlow(Ended("sender", t), r)
    BY <2>2, EndedFields, OffFlow DEF Sides
  <2> QED
    BY <2>1, <2>2, <2>3
<1>2. CASE on # {}
  <2>1. PICK e \in on : d = OnOutgoing(c, e[2])
    BY <1>2 DEF SendSome
  <2>2. e \in c.open /\ e[1] = c.channel[f] /\ e[2] \in Files
    BY <2>1 DEF Contacts
  <2>3. ASSUME link
        PROVE  e[2] = f
    <3>1. e \in r.made /\ <<c.channel[f], f>> \in r.made
      BY <2>2, <2>3 DEF SenderFlow, Serves, Sends, Live
    <3>2. <<c.channel[f], f>>[1] = c.channel[f] /\ <<c.channel[f], f>>[2] = f
      OBVIOUS
    <3> QED
      BY <2>2, <3>1, <3>2 DEF Numbered
  <2> QED
    BY <2>1, <2>2, <2>3, OnOutgoingSends
<1> QED
  BY <1>1, <1>2

\* Contact::processFileBlocks().
LEMMA ProcessFileBlocksSends ==
  ASSUME NEW c \in Contacts, NEW r \in Contacts, Numbered(r), Channelled(r),
         SenderFlow(c, r), NEW d \in ProcessFileBlocks("sender", c)
  PROVE  SenderFlow(d, r)
<1> DEFINE idle == {f \in c.active : c.state[f] # "TRANSFERRING"}
           busy == c.active \ idle
           without(met) == [c EXCEPT !.active = @ \ met]
<1>1. ProcessFileBlocks("sender", c) =
        IF ~c.online THEN {c}
        ELSE IF busy = {} THEN {[c EXCEPT !.active = busy]}
        ELSE UNION {SendSome(without(met), f) : met \in SUBSET idle, f \in busy}
  BY DEF ProcessFileBlocks
<1>2. [c EXCEPT !.active = busy] = without(idle)
  BY DEF Contacts
<1>3. ASSUME NEW met
      PROVE  /\ without(met) \in Contacts
             /\ without(met).state = c.state
             /\ ~Off(c) => ~Off(without(met))
             /\ SenderFlow(without(met), r)
  <2> DEFINE b == without(met)
  <2>1. /\ b \in Contacts
        /\ b.state = c.state /\ b.queue = c.queue /\ b.wire = c.wire
        /\ b.open = c.open /\ b.channel = c.channel
        /\ b.parts = c.parts /\ b.up = c.up /\ b.online = c.online
    BY DEF Contacts
  <2> HIDE DEF b
  <2>2. \A g \in Live(b) : g \in Live(c) /\ b.state[g] = c.state[g]
    BY <2>1 DEF Live
  <2>3. SenderFlow(b, r)
    BY <2>1, <2>2, LessToSend
  <2>4. ~Off(c) => ~Off(b)
    BY <2>1 DEF Off
  <2> QED
    BY <2>1, <2>3, <2>4 DEF b
<1> HIDE DEF without
<1>4. ASSUME c.online, NEW met \in SUBSET idle, NEW f \in busy,
             d \in SendSome(without(met), f)
      PROVE  SenderFlow(d, r)
  <2>1. f \in Files /\ c.state[f] = "TRANSFERRING" /\ ~Off(c)
    BY <1>4 DEF Contacts, Off
  <2>2. d \in SendSome(without(met), f)
    BY <1>4
  <2> QED
    BY <1>3, <2>1, <2>2, SendSomeSends
<1>5. \/ d = c
      \/ d = without(idle)
      \/ c.online /\ \E met \in SUBSET idle, f \in busy :
                       d \in SendSome(without(met), f)
  <2> HIDE DEF idle, busy
  <2> QED
    BY <1>1, <1>2
<1> QED
  BY <1>3, <1>4, <1>5

\* Contact::onOutputBufferEmptied().
LEMMA OutputBufferEmptiedSends ==
  ASSUME NEW c, Sound("sender", c), NEW r \in Contacts, Numbered(r),
         Channelled(r), SenderFlow(c, r), NEW d \in OutputBufferEmptied("sender", c)
  PROVE  SenderFlow(d, r)
<1> DEFINE p == ProcessFilesQueue("sender", c)
<1>1. c \in Contacts /\ p \in Contacts
  BY ProcessFilesQueueFine DEF Fine, Sound, Sides
<1>2. SenderFlow(p, r)
  BY <1>1, ProcessFilesQueueSends
<1>3. d = p \/ d \in ProcessFileBlocks("sender", p)
  BY DEF OutputBufferEmptied
<1> HIDE DEF p
<1> QED
  BY <1>1, <1>2, <1>3, ProcessFileBlocksSends

\* Contact::loadFileQueue(): the rows it finds were not asked for yet.
LEMMA LoadFileQueueSends ==
  ASSUME NEW c \in Contacts, NEW r, SenderFlow(c, r),
         NEW d \in LoadFileQueue("sender", c)
  PROVE  /\ d \in Contacts /\ SenderFlow(d, r)
         /\ d.state = c.state /\ d.channel = c.channel /\ d.wire = c.wire
<1>1. CASE c.loaded
  BY <1>1 DEF LoadFileQueue
<1>2. CASE ~c.loaded
  <2>1. PICK q \in Rows(Loadable("sender", c)) :
          d = [c EXCEPT !.queue = @ \o q, !.loaded = TRUE]
    BY Zenon, <1>2 DEF LoadFileQueue
  <2>2. q \in Seq(Files) /\ ToSet(q) = Loadable("sender", c)
    BY <2>1, RowsHold
  <2>3. c.queue \in Seq(Files)
    BY DEF Contacts
  <2> DEFINE u == c.queue \o q
  <2>4. u \in Seq(Files) /\ ToSet(u) = ToSet(c.queue) \cup ToSet(q)
    BY <2>2, <2>3, ToSetConcat
  <2>5. d = [c EXCEPT !.queue = u, !.loaded = TRUE]
    BY <2>1 DEF Contacts
  <2> HIDE DEF u
  <2>6. /\ d \in Contacts
        /\ d.state = c.state /\ d.queue = u /\ d.wire = c.wire
        /\ d.open = c.open /\ d.channel = c.channel
        /\ d.parts = c.parts /\ d.up = c.up /\ d.online = c.online
    BY <2>4, <2>5 DEF Contacts
  <2>7. \A g \in Live(d) : g \in Live(c) /\ d.state[g] = c.state[g]
    BY <2>2, <2>4, <2>6 DEF Live, Loadable
  <2>8. SenderFlow(d, r)
    BY <2>6, <2>7, LessToSend
  <2> QED
    BY <2>6, <2>8
<1> QED
  BY <1>1, <1>2 DEF Contacts

\* Contact::queueFile() of a file that waits, or that the receiver asked for.
LEMMA QueueFileSends ==
  ASSUME NEW c \in Contacts, NEW r \in Contacts, Numbered(r), Channelled(r),
         SenderFlow(c, r), NEW f \in Files,
         c.state[f] = "WAITING" \/ (c.state[f] = "QUEUED" /\ (link => Ready(c, r, f))),
         NEW d \in QueueFile("sender", c, f)
  PROVE  SenderFlow(d, r)
<1>1. PICK l \in LoadFileQueue("sender", c) :
        d = ProcessFilesQueue("sender", [l EXCEPT !.queue = Append(@, f)])
  BY DEF QueueFile
<1>2. /\ l \in Contacts /\ SenderFlow(l, r)
      /\ l.state = c.state /\ l.channel = c.channel /\ l.wire = c.wire
  BY <1>1, LoadFileQueueSends
<1> DEFINE u == Append(l.queue, f)
           b == [l EXCEPT !.queue = u]
<1>3. l.queue \in Seq(Files)
  BY <1>2 DEF Contacts
<1>4. u \in Seq(Files) /\ ToSet(u) = ToSet(l.queue) \cup {f}
  BY <1>3, ToSetAppend
<1>5. d = ProcessFilesQueue("sender", b)
  BY <1>1, <1>2 DEF Contacts
<1> HIDE DEF u
<1>6. /\ b \in Contacts
      /\ b.state = l.state /\ b.queue = u /\ b.wire = l.wire
      /\ b.open = l.open /\ b.channel = l.channel
      /\ b.parts = l.parts /\ b.up = l.up /\ b.online = l.online
  BY <1>2, <1>4 DEF Contacts
<1> HIDE DEF b
<1>7. \A g \in Live(b) : g \in Live(l) \/ (g = f /\ l.state[f] = "QUEUED")
  BY <1>2, <1>4, <1>6 DEF Live
<1>8. ASSUME Serves(l, r), Asks(l, r), link
      PROVE  Serves(b, r) /\ Asks(b, r)
  <2>1. \A g \in Live(b) : Sends(b, r, g)
    <3>1. ASSUME NEW g \in Live(b)
          PROVE  Sends(b, r, g)
      <4>1. CASE g \in Live(l)
        BY <1>6, <1>8, <4>1 DEF Serves, Sends
      <4>2. CASE g = f /\ l.state[f] = "QUEUED"
        <5>1. Ready(c, r, f)
          BY <1>2, <1>8, <4>2
        <5> QED
          BY <1>2, <1>6, <4>2, <5>1 DEF Ready, Sends
      <4> QED
        BY <1>7, <4>1, <4>2
    <3> QED
      BY <3>1
  <2>2. Serves(b, r)
    BY <1>6, <1>8, <2>1 DEF Serves
  <2>3. ASSUME NEW i \in 1..Len(r.wire), IsRequest(r.wire[i]), NEW g \in Live(b)
        PROVE  b.channel[g] # r.wire[i].channel
    <3>1. CASE g \in Live(l)
      BY <1>6, <1>8, <2>3, <3>1 DEF Asks
    <3>2. CASE g = f /\ l.state[f] = "QUEUED"
      <4>1. Ready(c, r, f)
        BY <1>2, <1>8, <3>2
      <4> QED
        BY <1>2, <1>6, <2>3, <3>2, <4>1 DEF Ready
    <3> QED
      BY <1>7, <2>3, <3>1, <3>2
  <2>4. Asks(b, r)
    BY <1>6, <1>8, <2>3 DEF Asks
  <2> QED
    BY <2>2, <2>4
<1>9. SenderFlow(b, r)
  BY <1>2, <1>6, <1>8 DEF SenderFlow, Off
<1> QED
  BY <1>5, <1>6, <1>9, ProcessFilesQueueSends

(***************************************************************************)
(* What the receiver does.                                                 *)
(***************************************************************************)

\* The receiver may become c, as far as the sender p is concerned.
ReceiverFlow(p, c) ==
  /\ Numbered(c)
  /\ Channelled(c)
  /\ Whole(c)
  /\ Arrives(p.wire, c)
  /\ link => Off(c) \/ (Serves(p, c) /\ Asks(p, c))

\* The receiver gives up transfers, and says nothing that asks for a file.
LEMMA LessToReceive ==
  ASSUME NEW p, NEW c \in Contacts, ReceiverFlow(p, c),
         NEW d,
         \/ d.wire = c.wire
         \/ \E x \in Packets : ~IsRequest(x) /\ d.wire = Append(c.wire, x),
         d.made = c.made, d.next = c.next, d.parts = c.parts,
         d.up = c.up, d.online = c.online,
         Channelled(d), Whole(d), Running(d) \subseteq Running(c)
  PROVE  ReceiverFlow(p, d)
<1>1. Numbered(d)
  BY DEF ReceiverFlow, Numbered
<1>2. Arrives(p.wire, d)
  BY DEF ReceiverFlow, Arrives, Carried
<1>3. Serves(p, c) => Serves(p, d)
  BY DEF Serves, Sends, Fresh, Upto
<1>4. Asks(p, c) => Asks(p, d)
  <2> DEFINE u == c.wire
             v == d.wire
  <2>1. /\ \A i \in 1..Len(v) : IsRequest(v[i]) => i \in 1..Len(u) /\ v[i] = u[i]
    <3>1. CASE v = u
      BY <3>1
    <3>2. ASSUME NEW x \in Packets, ~IsRequest(x), v = Append(u, x)
          PROVE  \A i \in 1..Len(v) : IsRequest(v[i]) => i \in 1..Len(u) /\ v[i] = u[i]
      <4>1. u \in Seq(Packets)
        BY DEF Contacts
      <4> HIDE DEF u, v
      <4>2. /\ v[Len(u) + 1] = x
            /\ \A i \in 1..Len(u) : v[i] = u[i] /\ i \in 1..Len(v)
            /\ \A i \in 1..Len(v) : i \in 1..Len(u) \/ i = Len(u) + 1
        BY <3>2, <4>1, AppendPlaces
      <4> QED
        BY <3>2, <4>2
    <3> QED
      BY <3>1, <3>2
  <2>2. \A e : Fresh(p.wire, c, e) => Fresh(p.wire, d, e)
    BY DEF Fresh
  <2> SUFFICES ASSUME Asks(p, c), NEW i \in 1..Len(v), IsRequest(v[i]),
                      NEW e, e = <<v[i].channel, v[i].file>>
               PROVE  /\ e \in d.made
                      /\ Fresh(p.wire, d, e)
                      /\ \A f \in Live(p) : p.channel[f] # e[1]
                      /\ \A j \in 1..Len(v) :
                           IsRequest(v[j]) /\ v[j].channel = e[1] => j = i
    BY DEF Asks
  <2>3. i \in 1..Len(u) /\ IsRequest(u[i]) /\ e = <<u[i].channel, u[i].file>>
    BY <2>1
  <2>4. /\ e \in c.made
        /\ Fresh(p.wire, c, e)
        /\ \A f \in Live(p) : p.channel[f] # e[1]
        /\ \A j \in 1..Len(u) :
             IsRequest(u[j]) /\ u[j].channel = e[1] => j = i
    BY <2>3 DEF Asks
  <2> QED
    BY <2>1, <2>2, <2>4
<1> QED
  BY <1>1, <1>2, <1>3, <1>4 DEF ReceiverFlow, Off

\* What happens in the queues does not matter.
LEMMA SameTransfers ==
  ASSUME NEW p, NEW c \in Contacts, ReceiverFlow(p, c),
         NEW d, d.wire = c.wire, d.state = c.state, d.channel = c.channel,
         d.made = c.made, d.open = c.open, d.leaving = c.leaving,
         d.next = c.next, d.parts = c.parts,
         d.up = c.up, d.online = c.online, d.closing = c.closing
  PROVE  ReceiverFlow(p, d)
<1>1. Numbered(d) /\ Channelled(d) /\ Whole(d)
  BY DEF ReceiverFlow, Numbered, Channelled, Whole
<1>2. Running(d) = Running(c)
  BY DEF Running
<1>3. Arrives(p.wire, d)
  BY <1>2 DEF ReceiverFlow, Arrives, Carried
<1>4. Serves(p, c) => Serves(p, d)
  BY <1>2 DEF Serves, Sends, Fresh, Upto
<1>5. Asks(p, c) => Asks(p, d)
  <2>1. \A e : Fresh(p.wire, c, e) => Fresh(p.wire, d, e)
    BY <1>2 DEF Fresh
  <2> QED
    BY <2>1 DEF Asks
<1> QED
  BY <1>1, <1>3, <1>4, <1>5 DEF ReceiverFlow, Off

\* What the receiver says is no request.
LEMMA SentReceives ==
  ASSUME NEW p, NEW c \in Contacts, ReceiverFlow(p, c),
         NEW x \in Packets, ~IsRequest(x)
  PROVE  Sent(c, x) \in Contacts /\ ReceiverFlow(p, Sent(c, x))
<1> DEFINE d == Sent(c, x)
<1>1. /\ d \in Contacts
      /\ d.state = c.state /\ d.open = c.open /\ d.next = c.next
      /\ d.channel = c.channel /\ d.parts = c.parts /\ d.online = c.online
      /\ d.wire = c.wire \/ d.wire = Append(c.wire, x)
  BY SentFields
<1>2. d.up = c.up /\ d.made = c.made /\ d.leaving = c.leaving
  BY DEF Sent, Contacts
<1>6. d.closing = c.closing
  BY SentKeeps
<1> HIDE DEF d
<1>3. Channelled(d) /\ Whole(d)
  BY <1>1, <1>2 DEF ReceiverFlow, Channelled, Whole
<1>4. Running(d) \subseteq Running(c)
  BY <1>1, <1>6 DEF Running
<1>5. ReceiverFlow(p, d)
  BY <1>1, <1>2, <1>3, <1>4, LessToReceive
<1> QED
  BY <1>1, <1>5 DEF d

\* Contact::sendAck() of anything but a request.
LEMMA AckedReceives ==
  ASSUME NEW p, NEW c \in Contacts, ReceiverFlow(p, c), NEW f \in Files,
         NEW st \in AckStatus, st # "Proceed"
  PROVE  Acked(c, f, st) \in Contacts /\ ReceiverFlow(p, Acked(c, f, st))
<1>1. Ack(f, st) \in Packets /\ ~IsRequest(Ack(f, st))
  BY DEF Packets, Ack, IsRequest
<1> QED
  BY <1>1, SentReceives DEF Acked

\* A file gets a state in which it is not received: its channel leaves, or it has
\* none.
LEMMA SetStateReceives ==
  ASSUME NEW p, NEW c \in Contacts, ReceiverFlow(p, c), NEW f \in Files,
         NEW st \in FileStates, st # "TRANSFERRING",
         st \in {"QUEUED", "HASHING", "DONE"} => \A e \in c.open : e[2] # f,
         st \in {"HASHING", "DONE"} => c.parts[f] = Chunks
  PROVE  SetState(c, f, st) \in Contacts /\ ReceiverFlow(p, SetState(c, f, st))
<1> DEFINE d == SetState(c, f, st)
<1>1. /\ d \in Contacts
      /\ d.state[f] = st /\ \A g \in Files : g # f => d.state[g] = c.state[g]
      /\ d.wire = c.wire /\ d.open = c.open /\ d.made = c.made
      /\ d.channel = c.channel /\ d.parts = c.parts /\ d.next = c.next
      /\ c.leaving \subseteq d.leaving
      /\ c.state[f] # st => \A e \in c.made : e[2] = f => e[1] \in d.leaving
  BY SetStateRest
<1>2. d.up = c.up /\ d.online = c.online /\ d.closing = c.closing
  BY SetStateRest, SetStateKeeps
<1> HIDE DEF d
<1>3. Channelled(d)
  <2> SUFFICES ASSUME NEW e \in d.open
               PROVE  /\ d.online /\ e \in d.made
                      /\ d.state[e[2]] \notin {"QUEUED", "HASHING", "DONE"}
                      /\ d.state[e[2]] = "TRANSFERRING" => d.channel[e[2]] = e[1]
                      /\ d.state[e[2]] # "TRANSFERRING" => e[1] \in d.leaving
    BY DEF Channelled
  <2>1. /\ e \in c.made /\ e[2] \in Files /\ d.online
        /\ c.state[e[2]] \notin {"QUEUED", "HASHING", "DONE"}
        /\ c.state[e[2]] = "TRANSFERRING" => c.channel[e[2]] = e[1]
        /\ c.state[e[2]] # "TRANSFERRING" => e[1] \in c.leaving
    BY <1>1, <1>2 DEF ReceiverFlow, Channelled, Contacts
  <2>2. CASE e[2] = f
    <3>1. e \in c.open
      BY <1>1
    <3>2. st \notin {"QUEUED", "HASHING", "DONE"}
      BY <2>2, <3>1
    <3>3. e[1] \in d.leaving
      BY <1>1, <2>1, <2>2
    <3> QED
      BY <1>1, <2>1, <2>2, <3>2, <3>3
  <2>3. CASE e[2] # f
    BY <1>1, <2>1, <2>3
  <2> QED
    BY <2>2, <2>3
<1>4. Whole(d)
  BY <1>1 DEF ReceiverFlow, Whole
<1>5. Running(d) \subseteq Running(c)
  <2> SUFFICES ASSUME NEW e \in Running(d)
               PROVE  e \in Running(c)
    OBVIOUS
  <2>1. e \in c.open /\ d.state[e[2]] = "TRANSFERRING" /\ e[2] \in Files
    BY <1>1 DEF Running, Contacts
  <2> QED
    BY <1>1, <1>2, <2>1 DEF Running
<1>6. ReceiverFlow(p, d)
  BY <1>1, <1>2, <1>3, <1>4, <1>5, LessToReceive
<1> QED
  BY <1>1, <1>6 DEF d

\* File::transferFailed().
LEMMA TransferFailedReceives ==
  ASSUME NEW p, NEW c \in Contacts, ReceiverFlow(p, c), NEW f \in Files
  PROVE  TransferFailed(c, f) \in Contacts /\ ReceiverFlow(p, TransferFailed(c, f))
<1> DEFINE d == SetState(c, f, "CANCELLED")
<1>1. d \in Contacts /\ ReceiverFlow(p, d)
  BY SetStateReceives DEF FileStates
<1>2. TransferFailed(c, f) = c \/ TransferFailed(c, f) = Acked(d, f, "Abort")
  BY DEF TransferFailed
<1> HIDE DEF d
<1>3. Acked(d, f, "Abort") \in Contacts /\ ReceiverFlow(p, Acked(d, f, "Abort"))
  BY <1>1, AckedReceives DEF AckStatus
<1> QED
  BY <1>2, <1>3

\* A program that ends keeps its rows and contents.
LEMMA EndedReceives ==
  ASSUME NEW p, NEW c \in Contacts, Whole(c)
  PROVE  ReceiverFlow(p, Ended("receiver", c))
<1> DEFINE d == Ended("receiver", c)
<1>1. /\ Off(d) /\ d.open = {} /\ d.made = {} /\ d.parts = c.parts
      /\ \A f \in Files : d.state[f] = RecoveredState("receiver", c.state[f])
  BY EndedFields DEF Sides
<1>2. Whole(d)
  BY <1>1 DEF Whole, RecoveredState
<1> HIDE DEF d
<1>3. Numbered(d) /\ Channelled(d) /\ Running(d) = {}
  BY <1>1 DEF Numbered, Channelled, Running
<1>4. ~d.online
  BY <1>1 DEF Off
<1>5. Arrives(p.wire, d)
  BY <1>3, <1>4 DEF Arrives
<1>6. ReceiverFlow(p, d)
  BY <1>1, <1>2, <1>3, <1>5 DEF ReceiverFlow
<1> QED
  BY <1>6 DEF d

\* Peer::startReceive(): a new channel, and a request for it.
LEMMA StartReceiveReceives ==
  ASSUME NEW p, NEW c \in Contacts, ReceiverFlow(p, c), c.online,
         NEW f \in Files, c.state[f] = "QUEUED"
  PROVE  ReceiverFlow(p, StartReceive(c, f))
<1>22. CASE f \in c.bad
  <2> DEFINE d == [c EXCEPT !.threw = @ \cup {f}]
  <2>1. d = StartReceive(c, f)
    BY <1>22 DEF StartReceive
  <2>2. /\ d.wire = c.wire /\ d.state = c.state /\ d.channel = c.channel
        /\ d.made = c.made /\ d.open = c.open /\ d.leaving = c.leaving
        /\ d.next = c.next /\ d.parts = c.parts
        /\ d.up = c.up /\ d.online = c.online /\ d.closing = c.closing
    BY DEF Contacts
  <2> HIDE DEF d
  <2> QED
    BY <2>1, <2>2, SameTransfers
<1> DEFINE n == c.next
           x == Proceed(f, n)
           w == WithChannel(c, n, f)
           a == Sent(w, x)
           t == SetState(a, f, "TRANSFERRING")
           d == [t EXCEPT !.channel[f] = n, !.next = @ + 1]
           new == <<n, f>>
<1>1. f \notin c.bad => d = StartReceive(c, f)
  BY DEF StartReceive
<1>2. n \in Nat
  BY DEF Contacts
<1>3. /\ w \in Contacts
      /\ w.state = c.state /\ w.wire = c.wire
      /\ w.channel = c.channel /\ w.next = n /\ w.leaving = c.leaving
      /\ w.open = c.open \cup {new}
      /\ w.made = c.made \cup {new}
      /\ w.parts[f] = 0 /\ \A g \in Files : g # f => w.parts[g] = c.parts[g]
  <2> HIDE DEF n
  <2>1. n \in Nat /\ n = c.next
    BY <1>2 DEF n
  <2>2. /\ w \in Contacts
        /\ w.state = c.state /\ w.wire = c.wire
        /\ w.channel = c.channel /\ w.next = c.next /\ w.leaving = c.leaving
        /\ w.open = c.open \cup {new}
        /\ w.made = c.made \cup {new}
        /\ w.parts[f] = 0 /\ \A g \in Files : g # f => w.parts[g] = c.parts[g]
    BY <1>2, WithChannelRest
  <2> QED
    BY <2>1, <2>2
<1>4. x \in Packets /\ IsRequest(x) /\ x.kind # "Chunk" /\ x.channel = n /\ x.file = f
  BY <1>2 DEF Packets, Proceed, AckStatus, IsRequest
<1> HIDE DEF w, x
<1>5. /\ a \in Contacts
      /\ a.state = w.state /\ a.open = w.open /\ a.channel = w.channel
      /\ a.parts = w.parts /\ a.next = w.next
  BY <1>3, <1>4, SentFields
<1>6. /\ a.made = w.made /\ a.leaving = w.leaving
      /\ a.wire = IF link THEN Append(w.wire, x) ELSE w.wire
  BY <1>3 DEF Sent, Contacts
<1> HIDE DEF a
<1>7. /\ t \in Contacts
      /\ t.state[f] = "TRANSFERRING" /\ \A g \in Files : g # f => t.state[g] = a.state[g]
      /\ t.wire = a.wire /\ t.open = a.open /\ t.made = a.made
      /\ t.channel = a.channel /\ t.parts = a.parts /\ t.next = a.next
      /\ a.leaving \subseteq t.leaving
  <2>1. t = SetState(a, f, "TRANSFERRING") /\ "TRANSFERRING" \in FileStates
    BY DEF FileStates
  <2> HIDE DEF t
  <2> QED
    BY <1>5, <2>1, SetStateRest
<1> HIDE DEF t
<1>8. /\ d \in Contacts
      /\ d.state = t.state /\ d.wire = t.wire /\ d.open = t.open
      /\ d.made = t.made /\ d.parts = t.parts /\ d.leaving = t.leaving
      /\ d.next = n + 1
      /\ d.channel[f] = n /\ \A g \in Files : g # f => d.channel[g] = t.channel[g]
  <2> DEFINE chs == [t.channel EXCEPT ![f] = n]
  <2>1. t.next = n
    BY <1>3, <1>5, <1>7
  <2>2. chs \in [Files -> Nat] /\ n + 1 \in Nat /\ t.next + 1 = n + 1
    BY SMTT(30), <1>2, <1>7, <2>1 DEF Contacts
  <2>3. chs[f] = n /\ \A g \in Files : g # f => chs[g] = t.channel[g]
    BY <1>7 DEF Contacts
  <2>4. d = [t EXCEPT !.channel = chs, !.next = n + 1]
    BY <1>7, <2>2 DEF Contacts
  <2> HIDE DEF d, chs, n
  <2> QED
    BY <1>7, <2>2, <2>3, <2>4 DEF Contacts
<1>21. d.closing = c.closing /\ d.online
  <2>1. w.closing = c.closing /\ w.online = c.online
    <3>1. w = WithChannel(c, n, f)
      BY DEF w
    <3> HIDE DEF n, a, t, d
    <3>2. w.closing = c.closing
      BY <3>1, WithChannelKeeps
    <3>3. w.online = c.online
      BY <1>2, <3>1, WithChannelRest
    <3> QED
      BY <3>2, <3>3
  <2>2. a.closing = w.closing /\ a.online = w.online
    BY <1>3, <1>4, SentKeeps, SentFields DEF a
  <2>3. t.closing = a.closing /\ t.online = a.online
    BY <1>5, SetStateKeeps, SetStateRest DEF t, FileStates
  <2>4. d.closing = t.closing /\ d.online = t.online
    BY <1>7 DEF Contacts
  <2> QED
    BY <2>1, <2>2, <2>3, <2>4
<1> HIDE DEF d, n
<1>9. /\ d.open = c.open \cup {new} /\ d.made = c.made \cup {new}
      /\ c.leaving \subseteq d.leaving /\ d.next = n + 1
      /\ d.state[f] = "TRANSFERRING" /\ d.channel[f] = n /\ d.parts[f] = 0
      /\ \A g \in Files : g # f => /\ d.state[g] = c.state[g]
                                   /\ d.channel[g] = c.channel[g]
                                   /\ d.parts[g] = c.parts[g]
      /\ d.wire = IF link THEN Append(c.wire, x) ELSE c.wire
  BY <1>3, <1>5, <1>6, <1>7, <1>8
<1>10. new[1] = n /\ new[2] = f
  OBVIOUS
<1>11. /\ \A e \in c.made : e[1] < n /\ e[1] # n /\ e # new /\ e[1] \in Nat
       /\ \A e \in c.open : e \in c.made /\ e[2] \in Files /\ e[2] # f
  <2>1. \A e \in c.made : e[1] < n /\ e[1] \in Nat
    BY DEF ReceiverFlow, Numbered, Contacts, n
  <2>2. \A e \in c.open : e \in c.made /\ e[2] \in Files /\ e[2] # f
    BY DEF ReceiverFlow, Channelled, Contacts
  <2> QED
    BY <1>2, <2>1, <2>2
<1> HIDE DEF new
<1>12. Numbered(d)
  <2>1. \A e \in d.made : e[1] < n + 1
    BY <1>2, <1>9, <1>10, <1>11
  <2>2. \A e, g \in c.made : e[1] = g[1] => e = g
    BY DEF ReceiverFlow, Numbered
  <2>3. \A e, g \in d.made : e[1] = g[1] => e = g
    BY <1>9, <1>10, <1>11, <2>2
  <2> QED
    BY <1>9, <2>1, <2>3 DEF Numbered
<1>13. Channelled(d)
  BY <1>9, <1>10, <1>11, <1>21 DEF ReceiverFlow, Channelled
<1>14. Whole(d)
  BY <1>9 DEF ReceiverFlow, Whole
<1>15. Carried(p.wire, c) /\ Carried(p.wire, d)
  BY <1>9 DEF ReceiverFlow, Arrives, Carried
<1>16. OnChannel(p.wire, n) = {}
  BY <1>11, <1>15 DEF Carried, OnChannel
<1>17. /\ \A e \in Running(d) : e = new \/ (e \in Running(c) /\ e[2] \in Files /\ e[2] # f)
  BY <1>9, <1>11, <1>21 DEF Running
<1>18. Arrives(p.wire, d)
  <2>1. Continues(p.wire, n, 0)
    BY <1>16 DEF Continues
  <2>2. \A e \in Running(d) : Continues(p.wire, e[1], d.parts[e[2]])
    BY <1>9, <1>10, <1>17, <2>1 DEF ReceiverFlow, Arrives
  <2> QED
    BY <1>15, <2>2 DEF Arrives
<1>19. ASSUME link
       PROVE  Serves(p, d) /\ Asks(p, d)
  <2>1. Serves(p, c) /\ Asks(p, c)
    BY <1>19 DEF ReceiverFlow, Off
  <2>2. \A e \in c.made : e \in Running(d) => /\ e \in Running(c)
                                              /\ d.parts[e[2]] = c.parts[e[2]]
    BY <1>9, <1>11, <1>17
  <2>3. \A e \in c.made : Fresh(p.wire, c, e) => Fresh(p.wire, d, e)
    BY <2>2 DEF Fresh
  <2>4. \A e \in c.made : \A i : Upto(p.wire, c, e, i) => Upto(p.wire, d, e, i)
    BY <2>2 DEF Upto
  <2>5. \A g \in Live(p) : <<p.channel[g], g>> \in c.made
    BY <2>1 DEF Serves, Sends
  <2>6. Serves(p, d)
    <3>1. p.open \subseteq d.made
      BY <1>9, <2>1 DEF Serves
    <3>2. \A g \in Live(p) : Sends(p, c, g) => Sends(p, d, g)
      BY <1>9, <2>3, <2>4, <2>5 DEF Sends
    <3> QED
      BY <2>1, <3>1, <3>2 DEF Serves
  <2>7. Asks(p, d)
    <3> DEFINE u == c.wire
               v == d.wire
    <3>1. /\ v[Len(u) + 1] = x
          /\ \A i \in 1..Len(u) : v[i] = u[i] /\ i \in 1..Len(v)
          /\ \A i \in 1..Len(v) : i \in 1..Len(u) \/ i = Len(u) + 1
      <4>1. u \in Seq(Packets) /\ v = Append(u, x)
        BY <1>9, <1>19 DEF Contacts
      <4> HIDE DEF u, v
      <4> QED
        BY <1>4, <4>1, AppendPlaces
    <3>2. \A i \in 1..Len(u) : IsRequest(u[i]) =>
            /\ <<u[i].channel, u[i].file>> \in c.made
            /\ u[i].channel # n
      <4>1. \A i \in 1..Len(u) : IsRequest(u[i]) => <<u[i].channel, u[i].file>> \in c.made
        BY <2>1 DEF Asks
      <4> HIDE DEF u
      <4> QED
        BY <1>11, <4>1
    <3> SUFFICES ASSUME NEW i \in 1..Len(v), IsRequest(v[i]),
                        NEW e, e = <<v[i].channel, v[i].file>>
                 PROVE  /\ e \in d.made
                        /\ Fresh(p.wire, d, e)
                        /\ \A g \in Live(p) : p.channel[g] # e[1]
                        /\ \A j \in 1..Len(v) :
                             IsRequest(v[j]) /\ v[j].channel = e[1] => j = i
      BY DEF Asks
    <3>3. CASE i \in 1..Len(u)
      <4>1. IsRequest(u[i]) /\ e = <<u[i].channel, u[i].file>>
        BY <3>1, <3>3
      <4>2. /\ e \in c.made
            /\ Fresh(p.wire, c, e)
            /\ \A g \in Live(p) : p.channel[g] # e[1]
            /\ \A j \in 1..Len(u) :
                 IsRequest(u[j]) /\ u[j].channel = e[1] => j = i
        BY <2>1, <3>3, <4>1 DEF Asks
      <4>3. e[1] # n
        BY <1>11, <4>2
      <4>4. \A j \in 1..Len(v) : IsRequest(v[j]) /\ v[j].channel = e[1] => j = i
        BY <1>4, <3>1, <4>2, <4>3
      <4> QED
        BY <1>9, <2>3, <4>2, <4>4
    <3>4. CASE i = Len(u) + 1
      <4>1. e = new /\ e[1] = n
        BY <1>4, <1>10, <3>1, <3>4 DEF new
      <4>2. Fresh(p.wire, d, e)
        BY <1>9, <1>10, <1>16, <4>1 DEF Fresh
      <4>3. \A g \in Live(p) : p.channel[g] # n
        <5>1. \A g \in Live(p) : <<p.channel[g], g>>[1] # n
          BY <1>11, <2>5
        <5> QED
          BY <5>1
      <4>4. \A j \in 1..Len(v) : IsRequest(v[j]) /\ v[j].channel = n => j = i
        BY <3>1, <3>2, <3>4
      <4> QED
        BY <1>9, <4>1, <4>2, <4>3, <4>4
    <3> QED
      BY <3>1, <3>3, <3>4
  <2> QED
    BY <2>6, <2>7
<1>20. ReceiverFlow(p, d)
  BY <1>12, <1>13, <1>14, <1>18, <1>19 DEF ReceiverFlow
<1> QED
  BY <1>1, <1>20, <1>22

\* Contact::queueTransfer() of an accepted file.
LEMMA QueueTransferReceives ==
  ASSUME NEW p, NEW c \in Contacts, ReceiverFlow(p, c), c.online,
         NEW f \in Files, c.state[f] = "QUEUED"
  PROVE  ReceiverFlow(p, QueueTransfer("receiver", c, f))
<1> DEFINE slot == [c EXCEPT !.active = @ \cup {f}]
<1>1. /\ slot \in Contacts
      /\ slot.state = c.state /\ slot.wire = c.wire
      /\ slot.channel = c.channel /\ slot.made = c.made
      /\ slot.open = c.open /\ slot.leaving = c.leaving
      /\ slot.next = c.next /\ slot.parts = c.parts
      /\ slot.up = c.up /\ slot.online = c.online /\ slot.closing = c.closing
  BY DEF Contacts
<1>2. QueueTransfer("receiver", c, f) \in {c, StartReceive(slot, f)}
  BY DEF QueueTransfer
<1> HIDE DEF slot
<1>3. ReceiverFlow(p, slot)
  BY <1>1, SameTransfers
<1>5. ReceiverFlow(p, StartReceive(slot, f))
  BY <1>1, <1>3, StartReceiveReceives
<1> QED
  BY <1>2, <1>5

\* Contact::processFilesQueue().
LEMMA ProcessFilesQueueReceives ==
  ASSUME NEW p, NEW c \in Contacts, ReceiverFlow(p, c)
  PROVE  ReceiverFlow(p, ProcessFilesQueue("receiver", c))
<1> DEFINE s == "receiver"
           q == Belonging(s, c)
           f == Head(q)
           rest == [c EXCEPT !.queue = Tail(q)]
           all == [c EXCEPT !.queue = q]
<1>1. s \in Sides
  BY DEF Sides
<1>2. q \in Seq(Files) /\ (q # <<>> => c.state[Head(q)] = "QUEUED")
  BY <1>1, BelongingKeeps DEF QueueStates
<1>3. ProcessFilesQueue(s, c) =
        IF ~c.online THEN c
        ELSE IF q = <<>> THEN [c EXCEPT !.queue = <<>>]
        ELSE IF Throws(c, f) THEN QueueTransfer(s, [c EXCEPT !.queue = q], f)
        ELSE IF c.state[f] = "WAITING" THEN SetState(Sent(rest, Offer(f)), f, "OFFERED")
        ELSE QueueTransfer(s, rest, f)
  BY DEF ProcessFilesQueue
<1> HIDE DEF q
<1>4. ASSUME NEW u \in Seq(Files), NEW d, d = [c EXCEPT !.queue = u]
      PROVE  /\ d \in Contacts /\ d.state = c.state /\ d.made = c.made
             /\ ReceiverFlow(p, d)
             /\ d.online = c.online
  <2>1. /\ d \in Contacts
        /\ d.state = c.state /\ d.wire = c.wire
        /\ d.channel = c.channel /\ d.made = c.made
        /\ d.open = c.open /\ d.leaving = c.leaving
        /\ d.next = c.next /\ d.parts = c.parts
        /\ d.up = c.up /\ d.online = c.online /\ d.closing = c.closing
    BY <1>4 DEF Contacts
  <2>2. ReceiverFlow(p, d)
    BY <2>1, SameTransfers
  <2> QED
    BY <2>1, <2>2
<1>5. CASE ~c.online
  BY <1>3, <1>5
<1>6. CASE c.online /\ q = <<>>
  <2>1. <<>> \in Seq(Files)
    OBVIOUS
  <2>2. ReceiverFlow(p, [c EXCEPT !.queue = <<>>])
    BY <1>4, <2>1
  <2> QED
    BY <1>3, <1>6, <2>2
<1>7. CASE c.online /\ q # <<>>
  <2>1. f \in Files /\ Tail(q) \in Seq(Files) /\ c.state[f] = "QUEUED"
    BY <1>2, <1>7
  <2>3. /\ rest \in Contacts /\ rest.state = c.state /\ rest.made = c.made
        /\ ReceiverFlow(p, rest) /\ rest.online
    BY <1>4, <1>7, <2>1
  <2>6. /\ all \in Contacts /\ all.state = c.state /\ all.made = c.made
        /\ ReceiverFlow(p, all) /\ all.online
    BY <1>2, <1>4, <1>7
  <2>8. ProcessFilesQueue(s, c) \in {QueueTransfer(s, rest, f), QueueTransfer(s, all, f)}
    BY <1>3, <1>7, <2>1
  <2> HIDE DEF f, rest, all
  <2>5. ReceiverFlow(p, QueueTransfer(s, rest, f))
    BY <2>1, <2>3, QueueTransferReceives
  <2>7. ReceiverFlow(p, QueueTransfer(s, all, f))
    BY <2>1, <2>6, QueueTransferReceives
  <2> QED
    BY <2>5, <2>7, <2>8
<1> QED
  BY <1>5, <1>6, <1>7 DEF Contacts

\* Contact::onOutputBufferEmptied().
LEMMA OutputBufferEmptiedReceives ==
  ASSUME NEW p, NEW c, Sound("receiver", c), ReceiverFlow(p, c),
         NEW d \in OutputBufferEmptied("receiver", c)
  PROVE  ReceiverFlow(p, d)
<1> DEFINE q == ProcessFilesQueue("receiver", c)
<1>1. c \in Contacts /\ q \in Contacts
  BY ProcessFilesQueueFine DEF Fine, Sound, Sides
<1>2. ReceiverFlow(p, q)
  BY <1>1, ProcessFilesQueueReceives
<1>3. d = q \/ d \in ProcessFileBlocks("receiver", q)
  BY DEF OutputBufferEmptied
<1> HIDE DEF q
<1> DEFINE idle == {f \in q.active : q.state[f] # "TRANSFERRING"}
           busy == q.active \ idle
           b == [q EXCEPT !.active = busy]
<1>4. d = q \/ d = b
  BY <1>3 DEF ProcessFileBlocks
<1>5. /\ b.state = q.state /\ b.wire = q.wire
      /\ b.channel = q.channel /\ b.made = q.made
      /\ b.open = q.open /\ b.leaving = q.leaving
      /\ b.next = q.next /\ b.parts = q.parts
      /\ b.up = q.up /\ b.online = q.online /\ b.closing = q.closing
  BY <1>1 DEF Contacts
<1> HIDE DEF b
<1>6. ReceiverFlow(p, b)
  BY <1>1, <1>2, <1>5, SameTransfers
<1> QED
  BY <1>2, <1>4, <1>6

\* Contact::loadFileQueue().
LEMMA LoadFileQueueReceives ==
  ASSUME NEW p, NEW c \in Contacts, ReceiverFlow(p, c),
         NEW d \in LoadFileQueue("receiver", c)
  PROVE  d \in Contacts /\ ReceiverFlow(p, d)
<1>1. CASE c.loaded
  BY <1>1 DEF LoadFileQueue
<1>2. CASE ~c.loaded
  <2>1. PICK q \in Rows(Loadable("receiver", c)) :
          d = [c EXCEPT !.queue = @ \o q, !.loaded = TRUE]
    BY Zenon, <1>2 DEF LoadFileQueue
  <2>2. q \in Seq(Files)
    BY <2>1, RowsHold
  <2>3. c.queue \in Seq(Files)
    BY DEF Contacts
  <2> DEFINE u == c.queue \o q
  <2>4. u \in Seq(Files)
    BY <2>2, <2>3, ToSetConcat
  <2>5. d = [c EXCEPT !.queue = u, !.loaded = TRUE]
    BY <2>1 DEF Contacts
  <2> HIDE DEF u
  <2>6. /\ d \in Contacts
        /\ d.state = c.state /\ d.wire = c.wire
        /\ d.channel = c.channel /\ d.made = c.made
        /\ d.open = c.open /\ d.leaving = c.leaving
        /\ d.next = c.next /\ d.parts = c.parts
        /\ d.up = c.up /\ d.online = c.online /\ d.closing = c.closing
    BY <2>4, <2>5 DEF Contacts
  <2>7. ReceiverFlow(p, d)
    BY <2>6, SameTransfers
  <2> QED
    BY <2>6, <2>7
<1> QED
  BY <1>1, <1>2 DEF Contacts

\* Contact::queueFile() of an accepted file.
LEMMA QueueFileReceives ==
  ASSUME NEW p, NEW c \in Contacts, ReceiverFlow(p, c), NEW f \in Files,
         NEW d \in QueueFile("receiver", c, f)
  PROVE  ReceiverFlow(p, d)
<1>1. PICK l \in LoadFileQueue("receiver", c) :
        d = ProcessFilesQueue("receiver", [l EXCEPT !.queue = Append(@, f)])
  BY DEF QueueFile
<1>2. l \in Contacts /\ ReceiverFlow(p, l)
  BY <1>1, LoadFileQueueReceives
<1> DEFINE u == Append(l.queue, f)
           b == [l EXCEPT !.queue = u]
<1>3. u \in Seq(Files)
  BY <1>2 DEF Contacts
<1>4. d = ProcessFilesQueue("receiver", b)
  BY <1>1, <1>2 DEF Contacts
<1> HIDE DEF u
<1>5. /\ b \in Contacts
      /\ b.state = l.state /\ b.wire = l.wire
      /\ b.channel = l.channel /\ b.made = l.made
      /\ b.open = l.open /\ b.leaving = l.leaving
      /\ b.next = l.next /\ b.parts = l.parts
      /\ b.up = l.up /\ b.online = l.online /\ b.closing = l.closing
  BY <1>2, <1>3 DEF Contacts
<1> HIDE DEF b
<1>6. ReceiverFlow(p, b)
  BY <1>2, <1>5, SameTransfers
<1> QED
  BY <1>4, <1>5, <1>6, ProcessFilesQueueReceives

(***************************************************************************)
(* Reading.                                                                *)
(***************************************************************************)

\* Nothing was sent on the channel e, which nothing that q still says asks for.
Requested(w, q, e) ==
  /\ e \in q.made
  /\ Fresh(w, q, e)
  /\ \A i \in 1..Len(q.wire) : IsRequest(q.wire[i]) => q.wire[i].channel # e[1]

\* The sender reads what the receiver says.
LEMMA SenderReads ==
  ASSUME NEW p, NEW r \in Contacts, NEW k, Flow(p, r, k), r.wire # <<>>,
         NEW q, q = [r EXCEPT !.wire = Tail(@)]
  PROVE  /\ q \in Contacts /\ Flow(p, q, k)
         /\ LET x == Head(r.wire)
            IN k /\ IsRequest(x) => Requested(p.wire, q, <<x.channel, x.file>>)
<1> DEFINE u == r.wire
           v == Tail(u)
           x == Head(u)
<1>1. u \in Seq(Packets) /\ v \in Seq(Packets)
  BY DEF Contacts
<1>2. /\ Len(v) = Len(u) - 1 /\ Len(u) \in Nat \ {0}
      /\ x = u[1] /\ 1 \in 1..Len(u)
      /\ \A i \in 1..Len(v) : v[i] = u[i + 1] /\ i + 1 \in 1..Len(u)
      /\ \A j \in 1..Len(u) : j = 1 \/ (j - 1 \in 1..Len(v) /\ v[j - 1] = u[j])
  BY <1>1, TailPlaces
<1> HIDE DEF v
<1>3. /\ q \in Contacts /\ q.wire = v
      /\ q.state = r.state /\ q.channel = r.channel /\ q.made = r.made
      /\ q.open = r.open /\ q.leaving = r.leaving /\ q.next = r.next
      /\ q.parts = r.parts
  <2>1. q = [r EXCEPT !.wire = v]
    BY DEF Contacts, v
  <2> QED
    BY <1>1, <2>1 DEF Contacts
<1>4. q.online = r.online /\ q.closing = r.closing
  BY DEF Contacts
<1>5. Running(q) = Running(r)
  BY <1>3, <1>4 DEF Running
<1>6. \A e : Fresh(p.wire, r, e) => Fresh(p.wire, q, e)
  BY <1>3, <1>5 DEF Fresh
<1>7. Numbered(q) /\ Channelled(q) /\ Whole(q) /\ Arrives(p.wire, q)
  BY <1>3, <1>4, <1>5 DEF Flow, Numbered, Channelled, Whole, Arrives, Carried
<1>8. Serves(p, r) => Serves(p, q)
  BY <1>3, <1>5 DEF Serves, Sends, Fresh, Upto
<1> HIDE DEF u
<1>9. ASSUME Asks(p, r), NEW i \in 1..Len(u), IsRequest(u[i]),
             NEW e, e = <<u[i].channel, u[i].file>>
      PROVE  /\ e \in q.made
             /\ Fresh(p.wire, q, e)
             /\ \A g \in Live(p) : p.channel[g] # e[1]
             /\ \A j \in 1..Len(v) :
                  IsRequest(v[j]) /\ v[j].channel = e[1] => j + 1 = i
  <2>1. /\ e \in r.made
        /\ Fresh(p.wire, r, e)
        /\ \A g \in Live(p) : p.channel[g] # e[1]
        /\ \A j \in 1..Len(u) : IsRequest(u[j]) /\ u[j].channel = e[1] => j = i
    BY <1>9 DEF Asks, u
  <2>2. ASSUME NEW j \in 1..Len(v), IsRequest(v[j]), v[j].channel = e[1]
        PROVE  j + 1 = i
    <3>1. v[j] = u[j + 1] /\ j + 1 \in 1..Len(u)
      BY <1>2
    <3> QED
      BY <2>1, <2>2, <3>1
  <2> QED
    BY <1>3, <1>6, <2>1, <2>2
<1>10. ASSUME Asks(p, r)
       PROVE  Asks(p, q)
  <2> DEFINE y == q.wire
  <2> SUFFICES ASSUME NEW i \in 1..Len(y), IsRequest(y[i]),
                      NEW e, e = <<y[i].channel, y[i].file>>
               PROVE  /\ e \in q.made
                      /\ Fresh(p.wire, q, e)
                      /\ \A g \in Live(p) : p.channel[g] # e[1]
                      /\ \A j \in 1..Len(y) :
                           IsRequest(y[j]) /\ y[j].channel = e[1] => j = i
    BY DEF Asks
  <2>0. y = v
    BY <1>3
  <2> HIDE DEF y
  <2>1. /\ i + 1 \in 1..Len(u) /\ IsRequest(u[i + 1])
        /\ e = <<u[i + 1].channel, u[i + 1].file>>
    BY <1>2, <2>0
  <2>2. /\ e \in q.made
        /\ Fresh(p.wire, q, e)
        /\ \A g \in Live(p) : p.channel[g] # e[1]
        /\ \A j \in 1..Len(v) :
             IsRequest(v[j]) /\ v[j].channel = e[1] => j + 1 = i + 1
    BY <1>9, <1>10, <2>1
  <2>3. \A j \in 1..Len(v) : j + 1 = i + 1 => j = i
    BY <1>2, <2>0
  <2> QED
    BY <2>0, <2>2, <2>3
<1>11. Flow(p, q, k)
  BY <1>7, <1>8, <1>10 DEF Flow
<1>12. ASSUME k, IsRequest(x), NEW e, e = <<x.channel, x.file>>
       PROVE  Requested(p.wire, q, e)
  <2>1. Asks(p, r) /\ IsRequest(u[1]) /\ e = <<u[1].channel, u[1].file>>
    BY <1>2, <1>12 DEF Flow
  <2>2. /\ e \in q.made
        /\ Fresh(p.wire, q, e)
        /\ \A j \in 1..Len(v) :
             IsRequest(v[j]) /\ v[j].channel = e[1] => j + 1 = 1
    <3>1. 1 \in 1..Len(u)
      BY <1>2
    <3> QED
      BY <1>9, <2>1, <3>1
  <2>3. \A j \in 1..Len(v) : j + 1 # 1
    BY <1>2
  <2> QED
    BY <1>3, <2>2, <2>3 DEF Requested
<1> QED
  BY <1>3, <1>11, <1>12 DEF u

\* The receiver reads an offer or an ack.
LEMMA ReceiverReads ==
  ASSUME NEW p \in Contacts, NEW r, NEW k, Flow(p, r, k), p.wire # <<>>,
         Head(p.wire).kind # "Chunk",
         NEW q, q = [p EXCEPT !.wire = Tail(@)]
  PROVE  Flow(q, r, k)
<1> DEFINE w == p.wire
           v == Tail(w)
<1>1. w \in Seq(Packets) /\ v \in Seq(Packets)
  BY DEF Contacts
<1>2. \A ch : Shifted(w, v, ch, 1)
  BY <1>1, TailShifts
<1>3. \A i \in 1..Len(v) : v[i] = w[i + 1] /\ i + 1 \in 1..Len(w)
  BY <1>1, TailPlaces
<1>4. /\ q.wire = v /\ q.channel = p.channel /\ q.parts = p.parts
      /\ q.state = p.state /\ q.queue = p.queue /\ q.open = p.open
  BY DEF Contacts
<1> HIDE DEF v, w
<1>5. Live(q) = Live(p)
  BY <1>4 DEF Live
<1>6. Carried(w, r) => Carried(v, r)
  BY <1>3 DEF Carried
<1>7. \A ch, n : Continues(w, ch, n) => Continues(v, ch, n)
  BY <1>1, <1>2, ShiftedContinues
<1>8. Arrives(v, r)
  BY <1>6, <1>7 DEF Flow, Arrives, w
<1>9. \A e : Fresh(w, r, e) => Fresh(v, r, e)
  BY <1>1, <1>2, ShiftedFresh
<1>10. \A e, n : Upto(w, r, e, n) => Upto(v, r, e, n)
  BY <1>1, <1>2, ShiftedUpto
<1>11. Serves(p, r) => Serves(q, r)
  BY <1>4, <1>5, <1>9, <1>10 DEF Serves, Sends, w
<1>12. Asks(p, r) => Asks(q, r)
  <2>1. p.wire = w /\ q.wire = v /\ q.channel = p.channel
    BY <1>4 DEF w
  <2> QED
    BY ZenonT(40), <1>5, <1>9, <2>1 DEF Asks
<1> QED
  BY <1>4, <1>8, <1>11, <1>12 DEF Flow

\* What is left on a channel, in v, when its first chunk was read from w.
AfterFirst(w, v, ch) ==
  /\ 1 \in OnChannel(w, ch) /\ w[1] = Head(w) /\ v \in Seq(Packets)
  /\ \A i \in OnChannel(v, ch) :
       /\ i \in Nat /\ i + 1 \in OnChannel(w, ch)
       /\ v[i].part = w[i + 1].part
  /\ \A j \in OnChannel(w, ch) :
       j = 1 \/ (j > 1 /\ j - 1 \in OnChannel(v, ch) /\ v[j - 1].part = w[j].part)

\* Reading the first chunk of a channel leaves those after it.
LEMMA FirstChunk ==
  ASSUME NEW w \in Seq(Packets), w # <<>>, NEW ch,
         Head(w).kind = "Chunk", Head(w).channel = ch,
         NEW v, v = Tail(w)
  PROVE  AfterFirst(w, v, ch)
<1>1. /\ v \in Seq(Packets) /\ Len(v) = Len(w) - 1 /\ Len(w) \in Nat \ {0}
      /\ Head(w) = w[1] /\ 1 \in 1..Len(w)
      /\ \A i \in 1..Len(v) : v[i] = w[i + 1] /\ i + 1 \in 1..Len(w)
      /\ \A j \in 1..Len(w) : j = 1 \/ (j - 1 \in 1..Len(v) /\ v[j - 1] = w[j])
  BY TailPlaces
<1>2. 1 \in OnChannel(w, ch)
  BY <1>1 DEF OnChannel
<1>3. \A i \in OnChannel(v, ch) : /\ i \in Nat /\ i + 1 \in OnChannel(w, ch)
                                  /\ v[i].part = w[i + 1].part
  BY <1>1 DEF OnChannel
<1>4. ASSUME NEW j \in OnChannel(w, ch), j # 1
      PROVE  j > 1 /\ j - 1 \in OnChannel(v, ch) /\ v[j - 1].part = w[j].part
  <2>1. j \in 1..Len(w) /\ w[j].kind = "Chunk" /\ w[j].channel = ch
    BY DEF OnChannel
  <2>2. j - 1 \in 1..Len(v) /\ v[j - 1] = w[j]
    BY <1>1, <1>4, <2>1
  <2>3. j > 1
    BY <1>1, <1>4, <2>1
  <2> QED
    BY <2>1, <2>2, <2>3 DEF OnChannel
<1> QED
  BY <1>1, <1>2, <1>3, <1>4 DEF AfterFirst

\* The first chunk of a channel on which they continue is the next one.
LEMMA NextChunk ==
  ASSUME NEW w \in Seq(Packets), w # <<>>, NEW ch,
         Head(w).kind = "Chunk", Head(w).channel = ch,
         NEW n \in Nat, Continues(w, ch, n)
  PROVE  Head(w).part = n + 1 /\ Continues(Tail(w), ch, n + 1)
<1> DEFINE v == Tail(w)
<1>0. v = Tail(w)
  OBVIOUS
<1> HIDE DEF v
<1>1. /\ 1 \in OnChannel(w, ch) /\ w[1] = Head(w) /\ v \in Seq(Packets)
      /\ \A i \in OnChannel(v, ch) :
           /\ i \in Nat /\ i + 1 \in OnChannel(w, ch)
           /\ v[i].part = w[i + 1].part
      /\ \A j \in OnChannel(w, ch) :
           j = 1 \/ (j > 1 /\ j - 1 \in OnChannel(v, ch) /\ v[j - 1].part = w[j].part)
  <2>1. AfterFirst(w, v, ch)
    BY <1>0, FirstChunk
  <2> QED
    BY <2>1 DEF AfterFirst
<1>2. /\ \A i \in OnChannel(w, ch) : i \in Nat /\ w[i].part \in Nat
      /\ \A i \in OnChannel(w, ch) : w[i].part > n
      /\ \A i, j \in OnChannel(w, ch) : i < j => w[i].part < w[j].part
      /\ \A i \in OnChannel(w, ch) :
           w[i].part = n + 1 \/ \E j \in OnChannel(w, ch) : w[j].part + 1 = w[i].part
  BY OnChannelTypes DEF Continues
<1>3. w[1].part = n + 1
  <2> SUFFICES ASSUME NEW j \in OnChannel(w, ch), w[j].part + 1 = w[1].part
               PROVE  FALSE
    BY <1>1, <1>2
  <2>1. j # 1
    BY <1>1, <1>2
  <2>2. 1 < j
    BY <1>1, <2>1
  <2>3. w[1].part < w[j].part
    BY <1>1, <1>2, <2>2
  <2> QED
    BY <1>1, <1>2, <2>3
<1>4. \A i \in OnChannel(v, ch) : v[i].part > n + 1
  <2> SUFFICES ASSUME NEW i \in OnChannel(v, ch)
               PROVE  v[i].part > n + 1
    OBVIOUS
  <2>1. i + 1 \in OnChannel(w, ch) /\ v[i].part = w[i + 1].part /\ 1 < i + 1
    <3>1. i \in Nat /\ i # 0
      BY <1>1, OnChannelTypes
    <3> QED
      BY <1>1, <3>1
  <2>2. w[1].part < w[i + 1].part
    BY <1>1, <1>2, <2>1
  <2> QED
    BY <1>3, <2>1, <2>2
<1>5. ASSUME NEW i \in OnChannel(v, ch), NEW j \in OnChannel(v, ch), i < j
      PROVE  v[i].part < v[j].part
  <2>1. i + 1 < j + 1
    BY <1>1, <1>5
  <2> QED
    BY <1>1, <1>2, <2>1
<1>6. ASSUME NEW i \in OnChannel(v, ch)
      PROVE  v[i].part = n + 1 + 1 \/ \E j \in OnChannel(v, ch) : v[j].part + 1 = v[i].part
  <2>1. /\ i + 1 \in OnChannel(w, ch) /\ v[i].part = w[i + 1].part
        /\ w[i + 1].part # n + 1
    BY <1>1, <1>2, <1>4
  <2>2. PICK j \in OnChannel(w, ch) : w[j].part + 1 = w[i + 1].part
    BY <1>2, <2>1
  <2>3. CASE j = 1
    BY <1>3, <2>1, <2>2, <2>3
  <2>4. CASE j # 1
    <3>1. j - 1 \in OnChannel(v, ch) /\ v[j - 1].part = w[j].part
      BY <1>1, <2>4
    <3> QED
      BY <2>1, <2>2, <3>1
  <2> QED
    BY <2>3, <2>4
<1> QED
  BY <1>1, <1>3, <1>4, <1>5, <1>6 DEF Continues, v

\* Reading it, also from a channel that cannot go on.
LEMMA FirstOfUpto ==
  ASSUME NEW w \in Seq(Packets), w # <<>>, NEW e,
         Head(w).kind = "Chunk", Head(w).channel = e[1],
         NEW r, NEW n, Upto(w, r, e, n), NEW d, NEW m \in Nat,
         e \in Running(d) => /\ e \in Running(r) /\ r.parts[e[2]] < m
                             /\ Head(w).part = m /\ d.parts[e[2]] = m,
         e \in Running(r) => r.parts[e[2]] \in Nat, n \in Nat
  PROVE  Upto(Tail(w), d, e, n)
<1> DEFINE v == Tail(w)
           ch == e[1]
<1>0. v = Tail(w) /\ Head(w).channel = ch
  OBVIOUS
<1> HIDE DEF v, ch
<1>1. /\ 1 \in OnChannel(w, ch) /\ w[1] = Head(w) /\ v \in Seq(Packets)
      /\ \A i \in OnChannel(v, ch) :
           /\ i \in Nat /\ i + 1 \in OnChannel(w, ch)
           /\ v[i].part = w[i + 1].part
      /\ \A j \in OnChannel(w, ch) :
           j = 1 \/ (j > 1 /\ j - 1 \in OnChannel(v, ch) /\ v[j - 1].part = w[j].part)
  <2>1. AfterFirst(w, v, ch)
    BY <1>0, FirstChunk
  <2> QED
    BY <2>1 DEF AfterFirst
<1>2. /\ n < Chunks /\ \A i \in OnChannel(w, ch) : w[i].part <= n
      /\ e \in Running(r) => /\ r.parts[e[2]] < n
                              => \E i \in OnChannel(w, ch) : w[i].part = n
  BY DEF Upto, ch
<1>3. \A i \in OnChannel(v, ch) : v[i].part <= n
  BY <1>1, <1>2
<1>4. ASSUME e \in Running(d)
      PROVE  /\ d.parts[e[2]] <= n
             /\ d.parts[e[2]] < n => \E i \in OnChannel(v, ch) : v[i].part = n
  <2>1. w[1].part = m /\ d.parts[e[2]] = m /\ m <= n
    BY <1>1, <1>2, <1>4
  <2>3. e \in Running(r) /\ r.parts[e[2]] < m /\ r.parts[e[2]] \in Nat
    BY <1>4
  <2>2. ASSUME m < n
        PROVE  \E i \in OnChannel(v, ch) : v[i].part = n
    <3>1. \E i \in OnChannel(w, ch) : w[i].part = n
      <4>1. r.parts[e[2]] < n
        BY <2>2, <2>3
      <4> QED
        BY <1>2, <2>3, <4>1
    <3>2. PICK j \in OnChannel(w, ch) : w[j].part = n
      BY <3>1
    <3>3. j # 1
      BY <2>1, <2>2, <3>2
    <3> QED
      BY <1>1, <3>2, <3>3
  <2> QED
    BY <2>1, <2>2
<1> QED
  BY <1>2, <1>3, <1>4 DEF Upto, v, ch

\* x is the first packet p has written, and q is p without it.
Takes(p, q, x) ==
  p.wire # <<>> /\ x = Head(p.wire) /\ q = [p EXCEPT !.wire = Tail(@)]

\* d is r but for what the files hold, and for the connection, which may be closing
\* now; those of the transfers that go on hold what they did, or the chunk x.
Adds(r, d, x) ==
  /\ d.state = r.state /\ d.channel = r.channel /\ d.made = r.made
  /\ d.open = r.open /\ d.leaving = r.leaving /\ d.next = r.next
  /\ d.wire = r.wire /\ d.online = r.online
  /\ Running(d) \subseteq Running(r)
  /\ \A e \in Running(d) :
       d.parts[e[2]] = IF e[1] = x.channel THEN x.part ELSE r.parts[e[2]]
  /\ Whole(d)

\* The receiver reads a chunk, and adds it to the file whose transfer it continues.
\* What it adds to others does not matter.
LEMMA ChunkRead ==
  ASSUME NEW p \in Contacts, NEW r \in Contacts, NEW k, Flow(p, r, k),
         NEW q, NEW x, Takes(p, q, x), x.kind = "Chunk", NEW d, Adds(r, d, x)
  PROVE  Flow(q, d, k)
<1> DEFINE w == p.wire
           v == Tail(w)
           ch == x.channel
<1> USE DEF Takes, Adds
<1>1. w \in Seq(Packets) /\ v \in Seq(Packets) /\ w # <<>> /\ x = Head(w)
  BY DEF Contacts
<1>2. \A c : c # ch => Shifted(w, v, c, 1)
  BY <1>1, TailShifts
<1>3. AfterFirst(w, v, ch)
  BY <1>1, FirstChunk
<1>4. /\ q.wire = v /\ q.channel = p.channel /\ q.parts = p.parts
      /\ q.state = p.state /\ q.queue = p.queue /\ q.open = p.open
  BY DEF Contacts
<1>5. Live(q) = Live(p)
  BY <1>4 DEF Live
<1>6. Running(d) \subseteq Running(r)
  OBVIOUS
<1>7. Numbered(d) /\ Channelled(d)
  BY DEF Flow, Numbered, Channelled
<1>8. \A e \in Running(r) : e[2] \in Files /\ r.parts[e[2]] \in Nat
  BY DEF Running, Contacts
<1>9. /\ r.online => Carried(w, r)
      /\ \A e \in Running(r) : Continues(w, e[1], r.parts[e[2]])
  BY DEF Flow, Arrives
<1>10. \A i \in 1..Len(v) : v[i] = w[i + 1] /\ i + 1 \in 1..Len(w)
  BY <1>1, TailPlaces
<1>11. v = Tail(w)
  OBVIOUS
<1> HIDE DEF w, v, ch
<1>12. ASSUME NEW e \in Running(d), e[1] = ch
       PROVE  /\ x.part = r.parts[e[2]] + 1 /\ d.parts[e[2]] = x.part
              /\ Continues(v, e[1], d.parts[e[2]])
  <2> DEFINE n == r.parts[e[2]]
  <2>1. n \in Nat /\ Continues(w, ch, n)
    BY <1>6, <1>8, <1>9, <1>12
  <2>2. Head(w).kind = "Chunk" /\ Head(w).channel = ch
    BY <1>1 DEF ch
  <2> HIDE DEF n
  <2>3. Head(w).part = n + 1 /\ Continues(Tail(w), ch, n + 1)
    BY <1>1, <2>1, <2>2, NextChunk
  <2>4. d.parts[e[2]] = x.part
    BY <1>12 DEF ch
  <2> QED
    BY <1>1, <1>11, <1>12, <2>3, <2>4 DEF n
<1>13. ASSUME NEW e \in Running(d), e[1] # ch
       PROVE  d.parts[e[2]] = r.parts[e[2]]
  BY <1>13 DEF ch
<1>14. Arrives(v, d)
  <2>1. Carried(w, r) => Carried(v, d)
    BY <1>10 DEF Carried
  <2>2. ASSUME NEW e \in Running(d)
        PROVE  Continues(v, e[1], d.parts[e[2]])
    <3>1. CASE e[1] = ch
      BY <1>12, <3>1
    <3>2. CASE e[1] # ch
      <4>1. Shifted(w, v, e[1], 1) /\ Continues(w, e[1], r.parts[e[2]])
        BY <1>2, <1>6, <1>9, <3>2
      <4>2. Continues(v, e[1], r.parts[e[2]])
        BY <1>1, <4>1, ShiftedContinues
      <4> QED
        BY <1>13, <3>2, <4>2
    <3> QED
      BY <3>1, <3>2
  <2> QED
    BY <1>9, <2>1, <2>2 DEF Arrives
<1>15. ASSUME NEW e, Fresh(w, r, e)
       PROVE  Fresh(v, d, e)
  <2>1. e[1] # ch
    BY <1>3, <1>15 DEF AfterFirst, Fresh
  <2>2. Shifted(w, v, e[1], 1)
    BY <1>2, <2>1
  <2>3. Fresh(v, r, e)
    BY <1>1, <1>15, <2>2, ShiftedFresh
  <2> QED
    BY <1>6, <1>13, <2>1, <2>3 DEF Fresh
<1>16. ASSUME NEW e, NEW n \in Nat, Upto(w, r, e, n)
       PROVE  Upto(v, d, e, n)
  <2>1. CASE e[1] = ch
    <3> DEFINE m == x.part
    <3>1. Head(w).kind = "Chunk" /\ Head(w).channel = e[1] /\ m \in Nat /\ Head(w).part = m
      <4>1. 1 \in OnChannel(w, ch) /\ w[1] = Head(w)
        BY <1>3 DEF AfterFirst
      <4> QED
        BY <1>1, <2>1, <4>1, OnChannelTypes DEF ch
    <3> HIDE DEF m
    <3>2. e \in Running(d) => /\ e \in Running(r) /\ r.parts[e[2]] < m
                              /\ Head(w).part = m /\ d.parts[e[2]] = m
      <4> SUFFICES ASSUME e \in Running(d)
                   PROVE  r.parts[e[2]] < m /\ d.parts[e[2]] = m
        BY <1>6, <3>1
      <4>1. x.part = r.parts[e[2]] + 1 /\ d.parts[e[2]] = x.part
        BY <1>12, <2>1
      <4>2. r.parts[e[2]] \in Nat
        BY <1>6, <1>8
      <4> QED
        BY <4>1, <4>2 DEF m
    <3>3. e \in Running(r) => r.parts[e[2]] \in Nat
      BY <1>8
    <3>4. Upto(Tail(w), d, e, n)
      BY <1>1, <1>16, <3>1, <3>2, <3>3, FirstOfUpto
    <3> QED
      BY <1>11, <3>4
  <2>2. CASE e[1] # ch
    <3>1. Shifted(w, v, e[1], 1)
      BY <1>2, <2>2
    <3>2. Upto(v, r, e, n)
      BY <1>1, <1>16, <3>1, ShiftedUpto
    <3> QED
      BY <1>6, <1>13, <2>2, <3>2 DEF Upto
  <2> QED
    BY <2>1, <2>2
<1>17. Serves(p, r) => Serves(q, d)
  <2>1. \A g \in Live(p) : p.parts[g] \in Nat
    BY DEF Live, Contacts
  <2>2. p.wire = w
    BY DEF w
  <2>3. \A g \in Live(p) : Sends(p, r, g) => Sends(q, d, g)
    BY <1>4, <1>15, <1>16, <2>1, <2>2 DEF Sends
  <2> QED
    BY <1>4, <1>5, <2>3 DEF Serves
<1>18. Asks(p, r) => Asks(q, d)
  <2>1. p.wire = w /\ q.wire = v /\ q.channel = p.channel
    BY <1>4 DEF w
  <2>2. \A e : Fresh(p.wire, r, e) => Fresh(q.wire, d, e)
    BY <1>15, <2>1
  <2> QED
    BY <1>5, <2>1, <2>2 DEF Asks
<1> QED
  BY <1>4, <1>7, <1>14, <1>17, <1>18 DEF Flow

(***************************************************************************)
(* What either side does.                                                  *)
(***************************************************************************)

\* The side s, with what it keeps in c, and the other, with o; k is whether the
\* link stands.
Between(s, c, o, k) == IF s = "sender" THEN Flow(c, o, k) ELSE Flow(o, c, k)

\* The side s may become c.
SideFlow(s, c, o) ==
  IF s = "sender"
  THEN Numbered(o) /\ Channelled(o) /\ Whole(o) /\ SenderFlow(c, o)
  ELSE ReceiverFlow(o, c)

\* It is what it may be.
LEMMA BetweenIsSide ==
  ASSUME NEW s, NEW c, NEW o, Between(s, c, o, link)
  PROVE  SideFlow(s, c, o)
BY DEF Between, SideFlow, Flow, SenderFlow, ReceiverFlow

\* A side that goes on with the link, or without, is what it may become.
LEMMA SideIsBetween ==
  ASSUME NEW s, NEW c, NEW o, SideFlow(s, c, o), NEW k, k => link /\ ~Off(c)
  PROVE  Between(s, c, o, k)
BY DEF Between, SideFlow, Flow, SenderFlow, ReceiverFlow

\* What concerns neither rows, channels nor the wire does not matter.
LEMMA SameSide ==
  ASSUME NEW s, NEW c \in Contacts, NEW o, SideFlow(s, c, o), NEW d,
         d.state = c.state, d.queue = c.queue, d.wire = c.wire,
         d.channel = c.channel, d.made = c.made, d.open = c.open,
         d.leaving = c.leaving, d.next = c.next, d.parts = c.parts,
         d.up = c.up, d.online = c.online, d.closing = c.closing
  PROVE  SideFlow(s, d, o)
<1>1. CASE s = "sender"
  <2>1. \A g \in Live(d) : g \in Live(c) /\ d.state[g] = c.state[g]
    BY DEF Live
  <2>2. SenderFlow(c, o) => SenderFlow(d, o)
    BY <2>1, LessToSend
  <2> QED
    BY <1>1, <2>2 DEF SideFlow
<1>2. CASE s # "sender"
  <2>1. ReceiverFlow(o, c) => ReceiverFlow(o, d)
    BY SameTransfers
  <2> QED
    BY <1>2, <2>1 DEF SideFlow
<1> QED
  BY <1>1, <1>2

\* File::setState() to a state in which the file is neither sent, nor received, nor
\* complete.
LEMMA SetStateSide ==
  ASSUME NEW s, NEW c \in Contacts, NEW o, SideFlow(s, c, o), NEW f \in Files,
         NEW st \in FileStates \ {"QUEUED", "TRANSFERRING", "HASHING", "DONE"}
  PROVE  SetState(c, f, st) \in Contacts /\ SideFlow(s, SetState(c, f, st), o)
<1>1. SenderFlow(c, o) =>
        SetState(c, f, st) \in Contacts /\ SenderFlow(SetState(c, f, st), o)
  BY SetStateSends
<1>2. ReceiverFlow(o, c) =>
        SetState(c, f, st) \in Contacts /\ ReceiverFlow(o, SetState(c, f, st))
  BY SetStateReceives
<1> QED
  BY <1>1, <1>2 DEF SideFlow

\* Contact::sendAck() of anything but a request.
LEMMA AckedSide ==
  ASSUME NEW s, NEW c \in Contacts, NEW o, SideFlow(s, c, o), NEW f \in Files,
         NEW st \in AckStatus, st # "Proceed"
  PROVE  Acked(c, f, st) \in Contacts /\ SideFlow(s, Acked(c, f, st), o)
<1>1. SenderFlow(c, o) =>
        Acked(c, f, st) \in Contacts /\ SenderFlow(Acked(c, f, st), o)
  BY AckedSends
<1>2. ReceiverFlow(o, c) =>
        Acked(c, f, st) \in Contacts /\ ReceiverFlow(o, Acked(c, f, st))
  BY AckedReceives
<1> QED
  BY <1>1, <1>2 DEF SideFlow

\* File::transferFailed().
LEMMA TransferFailedSide ==
  ASSUME NEW s, NEW c \in Contacts, NEW o, SideFlow(s, c, o), NEW f \in Files
  PROVE  TransferFailed(c, f) \in Contacts /\ SideFlow(s, TransferFailed(c, f), o)
<1>1. SenderFlow(c, o) =>
        TransferFailed(c, f) \in Contacts /\ SenderFlow(TransferFailed(c, f), o)
  BY TransferFailedSends
<1>2. ReceiverFlow(o, c) =>
        TransferFailed(c, f) \in Contacts /\ ReceiverFlow(o, TransferFailed(c, f))
  BY TransferFailedReceives
<1> QED
  BY <1>1, <1>2 DEF SideFlow

\* A program that ends.
LEMMA EndedSide ==
  ASSUME NEW s \in Sides, NEW c \in Contacts, NEW o, SideFlow(s, c, o)
  PROVE  SideFlow(s, Ended(s, c), o)
<1>1. CASE s = "sender"
  <2>1. Off(Ended(s, c)) /\ Ended(s, c).wire = c.wire
    BY EndedFields
  <2>2. SenderFlow(c, o) => SenderFlow(Ended(s, c), o)
    BY <2>1, OffFlow
  <2> QED
    BY <1>1, <2>2 DEF SideFlow
<1>2. CASE s = "receiver"
  <2>1. Whole(c)
    BY <1>2 DEF SideFlow, ReceiverFlow
  <2>2. ReceiverFlow(o, Ended("receiver", c))
    BY <2>1, EndedReceives
  <2> QED
    BY <1>2, <2>2 DEF SideFlow
<1> QED
  BY <1>1, <1>2 DEF Sides

\* Contact::onOutputBufferEmptied().
LEMMA OutputBufferEmptiedSide ==
  ASSUME NEW s \in Sides, NEW c, Sound(s, c), NEW o \in Contacts, SideFlow(s, c, o),
         NEW d \in OutputBufferEmptied(s, c)
  PROVE  SideFlow(s, d, o)
<1>1. CASE s = "sender"
  <2>1. /\ Sound("sender", c) /\ d \in OutputBufferEmptied("sender", c)
        /\ Numbered(o) /\ Channelled(o) /\ Whole(o) /\ SenderFlow(c, o)
    BY <1>1 DEF SideFlow
  <2>2. SenderFlow(d, o)
    BY <2>1, OutputBufferEmptiedSends
  <2> QED
    BY <1>1, <2>1, <2>2 DEF SideFlow
<1>2. CASE s = "receiver"
  <2>1. /\ Sound("receiver", c) /\ d \in OutputBufferEmptied("receiver", c)
        /\ ReceiverFlow(o, c)
    BY <1>2 DEF SideFlow
  <2>2. ReceiverFlow(o, d)
    BY <2>1, OutputBufferEmptiedReceives
  <2> QED
    BY <1>2, <2>2 DEF SideFlow
<1> QED
  BY <1>1, <1>2 DEF Sides

\* Contact::loadFileQueue().
LEMMA LoadFileQueueSide ==
  ASSUME NEW s \in Sides, NEW c \in Contacts, NEW o, SideFlow(s, c, o),
         NEW d \in LoadFileQueue(s, c)
  PROVE  SideFlow(s, d, o)
<1>1. CASE s = "sender"
  <2>1. /\ d \in LoadFileQueue("sender", c)
        /\ Numbered(o) /\ Channelled(o) /\ Whole(o) /\ SenderFlow(c, o)
    BY <1>1 DEF SideFlow
  <2>2. SenderFlow(d, o)
    BY <2>1, LoadFileQueueSends
  <2> QED
    BY <1>1, <2>1, <2>2 DEF SideFlow
<1>2. CASE s = "receiver"
  <2>1. d \in LoadFileQueue("receiver", c) /\ ReceiverFlow(o, c)
    BY <1>2 DEF SideFlow
  <2>2. ReceiverFlow(o, d)
    BY <2>1, LoadFileQueueReceives
  <2> QED
    BY <1>2, <2>2 DEF SideFlow
<1> QED
  BY <1>1, <1>2 DEF Sides

(***************************************************************************)
(* What a step makes of both sides.                                        *)
(***************************************************************************)

\* What is on its way is in order now.
Flowing == Flow(contact["sender"], contact["receiver"], link)

\* Seen from either side.
LEMMA FlowingBetween ==
  ASSUME Flowing, NEW s \in Sides
  PROVE  /\ Between(s, contact[s], contact[Other(s)], link)
         /\ SideFlow(s, contact[s], contact[Other(s)])
<1>1. Between(s, contact[s], contact[Other(s)], link)
  BY DEF Flowing, Between, Sides, Other
<1> QED
  BY <1>1, BetweenIsSide

\* Only one side changes.
LEMMA OneSide ==
  ASSUME IInv, NEW s \in Sides, NEW d, contact' = [contact EXCEPT ![s] = d],
         Between(s, d, contact[Other(s)], link')
  PROVE  Flowing'
<1>1. contact \in [Sides -> Contacts]
  BY DEF IInv, TypeOK
<1>2. CASE s = "sender"
  <2>1. contact'["sender"] = d /\ contact'["receiver"] = contact[Other(s)]
    BY <1>1, <1>2 DEF Sides, Other
  <2> QED
    BY <1>2, <2>1 DEF Flowing, Between
<1>3. CASE s = "receiver"
  <2>1. contact'["receiver"] = d /\ contact'["sender"] = contact[Other(s)]
    BY <1>1, <1>3 DEF Sides, Other
  <2> QED
    BY <1>3, <2>1 DEF Flowing, Between
<1> QED
  BY <1>2, <1>3 DEF Sides

\* A handler that reads nothing.
LEMMA BecomesFlow ==
  ASSUME IInv, NEW s \in Sides, NEW d, SideFlow(s, d, contact[Other(s)]),
         Becomes(s, d)
  PROVE  Flowing'
<1>1. contact' = [contact EXCEPT ![s] = d] /\ (link' => link /\ d.up)
  BY DEF Becomes
<1>2. link' => link /\ ~Off(d)
  BY <1>1 DEF Off
<1>3. Between(s, d, contact[Other(s)], link')
  BY <1>2, SideIsBetween
<1> QED
  BY <1>1, <1>3, OneSide

\* The other side, once its first packet was read.
Unread(s) == [contact[Other(s)] EXCEPT !.wire = Tail(@)]

\* A handler that reads.
LEMMA ReadsFlow ==
  ASSUME IInv, NEW s \in Sides, NEW d, SideFlow(s, d, Unread(s)),
         ReadsAndBecomes(s, d)
  PROVE  Flowing'
<1>1. contact \in [Sides -> Contacts]
  BY DEF IInv, TypeOK
<1>2. /\ contact' = [contact EXCEPT ![s] = d, ![Other(s)].wire = Tail(@)]
      /\ link' => link /\ d.up
  BY DEF ReadsAndBecomes
<1>3. link' => link /\ ~Off(d)
  BY <1>2 DEF Off
<1>4. Between(s, d, Unread(s), link')
  BY <1>3, SideIsBetween
<1>5. contact'[s] = d /\ contact'[Other(s)] = Unread(s)
  BY <1>1, <1>2 DEF Sides, Other, Unread
<1> QED
  BY <1>4, <1>5 DEF Flowing, Between, Sides, Other

\* What a side may become when it reads an offer or an ack.
LEMMA UnreadFlow ==
  ASSUME IInv, Flowing, NEW s \in Sides, contact[Other(s)].wire # <<>>,
         Packet(s).kind # "Chunk"
  PROVE  SideFlow(s, contact[s], Unread(s)) /\ Unread(s) \in Contacts
<1> DEFINE c == contact[s]
           o == contact[Other(s)]
           q == Unread(s)
<1>1. c \in Contacts /\ o \in Contacts
  BY SideFacts
<1>2. Between(s, c, o, link)
  BY FlowingBetween
<1>3. q = [o EXCEPT !.wire = Tail(@)] /\ o.wire # <<>> /\ Head(o.wire).kind # "Chunk"
  BY DEF Unread, Packet
<1>4. q \in Contacts
  <2>1. Tail(o.wire) \in Seq(Packets)
    BY <1>1, <1>3, ToSetHeadTail DEF Contacts
  <2> QED
    BY <1>1, <1>3, <2>1 DEF Contacts
<1> HIDE DEF q, c, o
<1>5. CASE s = "sender"
  <2>1. Flow(c, o, link)
    BY <1>2, <1>5 DEF Between
  <2>2. Flow(c, q, link)
    BY <1>1, <1>3, <2>1, SenderReads
  <2> QED
    BY <1>4, <1>5, <2>2, BetweenIsSide DEF Between, c, q
<1>6. CASE s = "receiver"
  <2>1. Flow(o, c, link)
    BY <1>2, <1>6 DEF Between
  <2>2. Flow(q, c, link)
    BY <1>1, <1>3, <2>1, ReceiverReads
  <2> QED
    BY <1>4, <1>6, <2>2, BetweenIsSide DEF Between, c, q
<1> QED
  BY <1>5, <1>6 DEF Sides

(***************************************************************************)
(* One lemma per handler.                                                  *)
(***************************************************************************)

\* The user sends a file.
LEMMA AddFileFlow ==
  ASSUME IInv, Flowing, NEW f \in Files, AddFile(f)
  PROVE  Flowing'
<1> DEFINE s == "sender"
           c == contact[s]
           r == contact[Other(s)]
           h == SetState(c, f, "HASHING")
           d == [h EXCEPT !.hashing = @ \cup {f}]
<1>1. Becomes(s, d)
  BY DEF AddFile
<1>2. s \in Sides
  BY DEF Sides
<1>3. c \in Contacts /\ r \in Contacts
  <2> HIDE DEF s
  <2> QED
    BY <1>2, SideFacts
<1>4. SideFlow(s, c, r)
  <2> HIDE DEF s
  <2> QED
    BY <1>2, FlowingBetween
<1> HIDE DEF c, r
<1>5. h \in Contacts /\ SideFlow(s, h, r)
  <2>1. SenderFlow(c, r)
    BY <1>4 DEF SideFlow
  <2>2. "HASHING" \in FileStates \ {"QUEUED", "TRANSFERRING"}
    BY DEF FileStates
  <2>3. h \in Contacts /\ SenderFlow(h, r)
    BY <1>3, <2>1, <2>2, SetStateSends
  <2> HIDE DEF h
  <2> QED
    BY <1>4, <2>3 DEF SideFlow
<1> HIDE DEF h
<1>6. /\ d.state = h.state /\ d.queue = h.queue /\ d.wire = h.wire
      /\ d.channel = h.channel /\ d.made = h.made /\ d.open = h.open
      /\ d.leaving = h.leaving /\ d.next = h.next /\ d.parts = h.parts
      /\ d.up = h.up /\ d.online = h.online /\ d.closing = h.closing
  BY <1>5 DEF Contacts
<1> HIDE DEF d
<1>7. SideFlow(s, d, r)
  BY <1>5, <1>6, SameSide
<1> QED
  BY <1>1, <1>2, <1>7, BecomesFlow DEF r

\* Taking a file off the HashTasks does not matter.
LEMMA HeardFlow ==
  ASSUME NEW s, NEW c \in Contacts, NEW o, SideFlow(s, c, o), NEW f
  PROVE  LET d == [c EXCEPT !.hashing = @ \ {f}]
         IN /\ d \in Contacts /\ d.state = c.state /\ d.parts = c.parts
            /\ d.open = c.open
            /\ SideFlow(s, d, o)
<1> DEFINE d == [c EXCEPT !.hashing = @ \ {f}]
<1>1. /\ d \in Contacts
      /\ d.state = c.state /\ d.queue = c.queue /\ d.wire = c.wire
      /\ d.channel = c.channel /\ d.made = c.made /\ d.open = c.open
      /\ d.leaving = c.leaving /\ d.next = c.next /\ d.parts = c.parts
      /\ d.up = c.up /\ d.online = c.online /\ d.closing = c.closing
  BY DEF Contacts
<1> HIDE DEF d
<1>2. SideFlow(s, d, o)
  BY <1>1, SameSide
<1> QED
  BY <1>1, <1>2 DEF d

\* The result of the HashTask of a file to be sent.
LEMMA FileHashedFlow ==
  ASSUME IInv, Flowing, NEW f \in Files, FileHashed(f)
  PROVE  Flowing'
<1> DEFINE s == "sender"
           c == contact[s]
           r == contact[Other(s)]
           heard == [c EXCEPT !.hashing = @ \ {f}]
           fail == SetState(heard, f, "FAILED")
           wait == SetState(heard, f, "WAITING")
<1>1. \/ Becomes(s, fail)
      \/ \E d \in QueueFile(s, wait, f) : Becomes(s, d)
      \/ Becomes(s, heard)
  BY DEF FileHashed
<1>2. s \in Sides
  BY DEF Sides
<1>3. c \in Contacts /\ r \in Contacts
  <2> HIDE DEF s
  <2> QED
    BY <1>2, SideFacts
<1>4. SideFlow(s, c, r)
  <2> HIDE DEF s
  <2> QED
    BY <1>2, FlowingBetween
<1> HIDE DEF c, r
<1>5. heard \in Contacts /\ SideFlow(s, heard, r)
  BY <1>3, <1>4, HeardFlow
<1> HIDE DEF heard
<1>6. SideFlow(s, fail, r)
  BY <1>5, SetStateSide DEF FileStates
<1>7. wait \in Contacts /\ SideFlow(s, wait, r) /\ wait.state[f] = "WAITING"
  <2>1. "WAITING" \in FileStates \ {"QUEUED", "TRANSFERRING", "HASHING", "DONE"}
    BY DEF FileStates
  <2>2. wait \in Contacts /\ SideFlow(s, wait, r)
    BY <1>5, <2>1, SetStateSide
  <2>3. wait.state[f] = "WAITING"
    BY <1>5, <2>1, SetStateRest
  <2> QED
    BY <2>2, <2>3
<1> HIDE DEF fail, wait
<1>8. ASSUME NEW d \in QueueFile(s, wait, f)
      PROVE  SideFlow(s, d, r)
  <2>1. Numbered(r) /\ Channelled(r) /\ Whole(r) /\ SenderFlow(wait, r)
    BY <1>7 DEF SideFlow
  <2>2. SenderFlow(d, r)
    BY <1>3, <1>7, <2>1, QueueFileSends
  <2> QED
    BY <2>1, <2>2 DEF SideFlow
<1> HIDE DEF s
<1>9. \A d : SideFlow(s, d, r) /\ Becomes(s, d) => Flowing'
  BY <1>2, BecomesFlow DEF r
<1> QED
  BY <1>1, <1>5, <1>6, <1>8, <1>9

\* The result of the HashTask of a received file.
LEMMA ReceivedFileHashedFlow ==
  ASSUME IInv, Flowing, NEW f \in Files, ReceivedFileHashed(f)
  PROVE  Flowing'
<1> DEFINE s == "receiver"
           c == contact[s]
           p == contact[Other(s)]
           heard == [c EXCEPT !.hashing = @ \ {f}]
           done == SetState(heard, f, "DONE")
           fail == TransferFailed(heard, f)
<1>1. \/ c.state[f] = "HASHING" /\ Becomes(s, done)
      \/ Becomes(s, fail)
      \/ Becomes(s, heard)
  BY DEF ReceivedFileHashed
<1>2. s \in Sides
  BY DEF Sides
<1>3. c \in Contacts
  <2> HIDE DEF s
  <2> QED
    BY <1>2, SideFacts
<1>4. SideFlow(s, c, p)
  <2> HIDE DEF s
  <2> QED
    BY <1>2, FlowingBetween
<1> HIDE DEF c, p
<1>5. /\ heard \in Contacts /\ heard.state = c.state
      /\ SideFlow(s, heard, p)
  BY <1>3, <1>4, HeardFlow
<1> HIDE DEF heard
<1>6. SideFlow(s, fail, p)
  BY <1>5, TransferFailedSide
<1>7. ASSUME c.state[f] = "HASHING"
      PROVE  SideFlow(s, done, p)
  <2>1. ReceiverFlow(p, heard)
    BY <1>5 DEF SideFlow
  <2>2. \A e \in heard.open : e[2] # f
    BY <1>5, <1>7, <2>1 DEF ReceiverFlow, Channelled
  <2>3. heard.parts[f] = Chunks
    BY <1>5, <1>7, <2>1 DEF ReceiverFlow, Whole
  <2>4. "DONE" \in FileStates /\ "DONE" # "TRANSFERRING"
    BY DEF FileStates
  <2>5. ReceiverFlow(p, done)
    BY <1>5, <2>1, <2>2, <2>3, <2>4, SetStateReceives
  <2> HIDE DEF done
  <2> QED
    BY <2>5 DEF SideFlow
<1> HIDE DEF s, done, fail
<1>8. \A d : SideFlow(s, d, p) /\ Becomes(s, d) => Flowing'
  BY <1>2, BecomesFlow DEF p
<1> QED
  BY <1>1, <1>5, <1>6, <1>7, <1>8

\* The user cancels a file.
LEMMA CancelFlow ==
  ASSUME IInv, Flowing, NEW s \in Sides, NEW f \in Files, Cancel(s, f)
  PROVE  Flowing'
<1> DEFINE c == contact[s]
           o == contact[Other(s)]
           fail == TransferFailed(c, f)
           gone == SetState(c, f, "CANCELLED")
           abort == Acked(gone, f, "Abort")
<1>1. Becomes(s, fail) \/ Becomes(s, abort)
  BY DEF Cancel
<1>2. c \in Contacts /\ SideFlow(s, c, o)
  BY SideFacts, FlowingBetween
<1> HIDE DEF c, o
<1>3. SideFlow(s, fail, o)
  BY <1>2, TransferFailedSide
<1>4. gone \in Contacts /\ SideFlow(s, gone, o)
  BY <1>2, SetStateSide DEF FileStates
<1> HIDE DEF gone
<1>5. SideFlow(s, abort, o)
  BY <1>4, AckedSide DEF AckStatus
<1> HIDE DEF fail, abort
<1> QED
  BY <1>1, <1>3, <1>5, BecomesFlow DEF o

\* The user accepts a file: its last transfer, if any, has left its channel.
LEMMA AcceptFlow ==
  ASSUME IInv, Flowing, NEW f \in Files, Accept(f)
  PROVE  Flowing'
<1> DEFINE s == "receiver"
           c == contact[s]
           p == contact[Other(s)]
           e == SetState(c, f, "QUEUED")
<1>1. /\ c.leaving = {} /\ c.state[f] = "OFFERED"
      /\ \E d \in QueueFile(s, e, f) : Becomes(s, d)
  BY DEF Accept, Idle
<1>2. s \in Sides
  BY DEF Sides
<1>3. c \in Contacts
  <2> HIDE DEF s
  <2> QED
    BY <1>2, SideFacts
<1>4. SideFlow(s, c, p)
  <2> HIDE DEF s
  <2> QED
    BY <1>2, FlowingBetween
<1> HIDE DEF c, p
<1>5. ReceiverFlow(p, c)
  BY <1>4 DEF SideFlow
<1>6. e \in Contacts /\ ReceiverFlow(p, e)
  <2>1. \A g \in c.open : g[2] # f
    BY <1>1, <1>5 DEF ReceiverFlow, Channelled
  <2>2. "QUEUED" \in FileStates /\ "QUEUED" # "TRANSFERRING"
        /\ "QUEUED" \notin {"HASHING", "DONE"}
    BY DEF FileStates
  <2> QED
    BY <1>3, <1>5, <2>1, <2>2, SetStateReceives
<1> HIDE DEF e
<1>7. PICK d \in QueueFile(s, e, f) : Becomes(s, d)
  BY <1>1
<1>8. ReceiverFlow(p, d)
  BY <1>6, <1>7, QueueFileReceives
<1>9. SideFlow(s, d, p)
  BY <1>8 DEF SideFlow
<1> HIDE DEF s
<1> QED
  BY <1>2, <1>7, <1>9, BecomesFlow DEF p

\* The user rejects a file.
LEMMA RejectFlow ==
  ASSUME IInv, Flowing, NEW f \in Files, Reject(f)
  PROVE  Flowing'
<1> DEFINE s == "receiver"
           c == contact[s]
           p == contact[Other(s)]
           gone == SetState(c, f, "REJECTED")
           d == Acked(gone, f, "Rejected")
<1>1. Becomes(s, d)
  BY DEF Reject
<1>2. s \in Sides
  BY DEF Sides
<1> HIDE DEF s
<1>3. c \in Contacts /\ SideFlow(s, c, p)
  BY <1>2, SideFacts, FlowingBetween
<1> HIDE DEF c, p
<1>4. gone \in Contacts /\ SideFlow(s, gone, p)
  BY <1>3, SetStateSide DEF FileStates
<1> HIDE DEF gone
<1>5. SideFlow(s, d, p)
  BY <1>4, AckedSide DEF AckStatus
<1> HIDE DEF d
<1> QED
  BY <1>1, <1>2, <1>5, BecomesFlow DEF p

\* An offer reaches the receiver.
LEMMA ReceivedFileOfferFlow ==
  ASSUME IInv, Flowing, ReceivedFileOffer
  PROVE  Flowing'
<1> DEFINE s == "receiver"
           c == contact[s]
           q == Unread(s)
           f == Packet(s).file
           answer(st) == Sent(c, Ack(f, st))
           offered == SetState(answer("Received"), f, "OFFERED")
<1>1. /\ contact[Other(s)].wire # <<>> /\ Packet(s).kind = "Offer"
      /\ \/ ReadsAndBecomes(s, answer("Rejected"))
         \/ ReadsAndBecomes(s, answer("Completed"))
         \/ \E d \in QueueFile(s, c, f) : ReadsAndBecomes(s, d)
         \/ ReadsAndBecomes(s, offered)
  BY DEF ReceivedFileOffer, Reads, Packet
<1>2. s \in Sides
  BY DEF Sides
<1>3. c \in Contacts /\ f \in Files /\ SideFlow(s, c, q)
  <2>1. contact[Other(s)].wire # <<>> /\ Packet(s).kind # "Chunk"
    BY <1>1
  <2> HIDE DEF s
  <2> QED
    BY <1>2, <2>1, SideFacts, PacketFacts, UnreadFlow
<1> HIDE DEF c, q, f
<1>4. ReceiverFlow(q, c)
  BY <1>3 DEF SideFlow
<1>5. ASSUME NEW st \in {"Rejected", "Completed", "Received"}
      PROVE  answer(st) \in Contacts /\ SideFlow(s, answer(st), q)
  <2>1. Ack(f, st) \in Packets /\ ~IsRequest(Ack(f, st))
    BY <1>3 DEF Packets, Ack, AckStatus, IsRequest
  <2>2. answer(st) \in Contacts /\ ReceiverFlow(q, answer(st))
    BY <1>3, <1>4, <2>1, SentReceives
  <2> HIDE DEF answer
  <2> QED
    BY <2>2 DEF SideFlow
<1> HIDE DEF answer
<1>6. SideFlow(s, offered, q)
  BY <1>3, <1>5, SetStateSide DEF FileStates
<1>7. ASSUME NEW d \in QueueFile(s, c, f)
      PROVE  SideFlow(s, d, q)
  <2>1. ReceiverFlow(q, d)
    BY <1>3, <1>4, QueueFileReceives
  <2> QED
    BY <2>1 DEF SideFlow
<1> HIDE DEF offered, s
<1>8. \A d : SideFlow(s, d, q) /\ ReadsAndBecomes(s, d) => Flowing'
  BY <1>2, ReadsFlow DEF q
<1> QED
  BY <1>1, <1>5, <1>6, <1>7, <1>8

\* An ack for a file that is unknown, or cancelled.
LEMMA AckForNoFileFlow ==
  ASSUME IInv, Flowing, NEW s \in Sides, AckForNoFile(s)
  PROVE  Flowing'
<1> DEFINE c == contact[s]
           q == Unread(s)
           f == Packet(s).file
           abort == Acked(c, f, "Abort")
           ended == Ended(s, c)
<1>1. /\ contact[Other(s)].wire # <<>> /\ Packet(s).kind = "Ack"
      /\ \/ ReadsAndBecomes(s, ended)
         \/ ReadsAndBecomes(s, abort)
         \/ ReadsAndBecomes(s, c)
  BY DEF AckForNoFile, Reads, Packet
<1>2. c \in Contacts /\ f \in Files /\ SideFlow(s, c, q)
  BY <1>1, SideFacts, PacketFacts, UnreadFlow
<1> HIDE DEF c, q, f
<1>3. SideFlow(s, ended, q)
  BY <1>2, EndedSide
<1>4. SideFlow(s, abort, q)
  BY <1>2, AckedSide DEF AckStatus
<1> HIDE DEF ended, abort
<1>5. \A d : SideFlow(s, d, q) /\ ReadsAndBecomes(s, d) => Flowing'
  BY ReadsFlow DEF q
<1> QED
  BY <1>1, <1>2, <1>3, <1>4, <1>5

\* An ack for a file that is neither.
LEMMA ReceivedAckFlow ==
  ASSUME IInv, Flowing, NEW s \in Sides, ReceivedAck(s)
  PROVE  Flowing'
<1> DEFINE c == contact[s]
           q == Unread(s)
           f == Packet(s).file
           fail == TransferFailed(c, f)
           told(st) == SetState(c, f, st)
<1>1. /\ contact[Other(s)].wire # <<>> /\ Packet(s).kind = "Ack"
      /\ \/ ReadsAndBecomes(s, c)
         \/ ReadsAndBecomes(s, fail)
         \/ \E st \in {"OFFERED", "REJECTED", "FAILED", "CANCELLED"} :
              ReadsAndBecomes(s, told(st))
  BY DEF ReceivedAck, AckForFile, Reads, Packet
<1>2. c \in Contacts /\ f \in Files /\ SideFlow(s, c, q)
  BY <1>1, SideFacts, PacketFacts, UnreadFlow
<1> HIDE DEF c, q, f
<1>3. SideFlow(s, fail, q)
  BY <1>2, TransferFailedSide
<1>4. ASSUME NEW st \in {"OFFERED", "REJECTED", "FAILED", "CANCELLED"}
      PROVE  SideFlow(s, told(st), q)
  BY <1>2, SetStateSide DEF FileStates
<1> HIDE DEF fail, told
<1>5. \A d : SideFlow(s, d, q) /\ ReadsAndBecomes(s, d) => Flowing'
  BY ReadsFlow DEF q
<1> QED
  BY <1>1, <1>2, <1>3, <1>4, <1>5

\* The receiver asks for a file on a channel: the sender has sent nothing on it.
LEMMA ReceivedProceedFlow ==
  ASSUME IInv, Flowing, ReceivedProceed
  PROVE  Flowing'
<1> DEFINE s == "sender"
           c == contact[s]
           r == contact[Other(s)]
           q == Unread(s)
           x == Packet(s)
           f == x.file
           ch == x.channel
           fail == SetState(c, f, "FAILED")
           failed == Acked(fail, f, "Failed")
           asked == [c EXCEPT !.channel[f] = ch]
           wait == SetState(asked, f, "QUEUED")
<1>1. /\ r.wire # <<>> /\ x.kind = "Ack" /\ x.status = "Proceed"
      /\ \/ ReadsAndBecomes(s, failed)
         \/ /\ c.state[f] = "OFFERED"
            /\ \E d \in QueueFile(s, wait, f) : ReadsAndBecomes(s, d)
  BY DEF ReceivedProceed, AckForFile, Reads, Packet
<1>2. s \in Sides
  BY DEF Sides
<1>3. /\ c \in Contacts /\ f \in Files /\ SideFlow(s, c, q) /\ q \in Contacts
      /\ x \in Packets /\ r \in Contacts
  <2>1. contact[Other(s)].wire # <<>> /\ Packet(s).kind # "Chunk"
    BY <1>1
  <2> HIDE DEF s
  <2> QED
    BY <1>2, <2>1, SideFacts, PacketFacts, UnreadFlow
<1>4. Flow(c, r, link)
  <2>1. Between(s, c, r, link)
    <3> HIDE DEF s
    <3> QED
      BY <1>2, FlowingBetween
  <2> HIDE DEF c, r
  <2> QED
    BY <2>1 DEF Between
<1>5. q = [r EXCEPT !.wire = Tail(@)] /\ x = Head(r.wire)
  BY DEF Unread, Packet
<1> HIDE DEF c, q, r, x
<1> DEFINE e == <<ch, f>>
<1>6. /\ Flow(c, q, link)
      /\ link => /\ e \in q.made
                 /\ Fresh(c.wire, q, e)
                 /\ \A i \in 1..Len(q.wire) : IsRequest(q.wire[i]) => q.wire[i].channel # e[1]
  <2>1. IsRequest(x)
    BY <1>1 DEF IsRequest
  <2>2. IsRequest(Head(r.wire)) /\ e = <<Head(r.wire).channel, Head(r.wire).file>>
    BY <1>5, <2>1
  <2>3. /\ Flow(c, q, link)
        /\ link => Requested(c.wire, q, <<Head(r.wire).channel, Head(r.wire).file>>)
    BY <1>1, <1>3, <1>4, <1>5, <2>2, SenderReads
  <2> HIDE DEF e
  <2> QED
    BY <2>2, <2>3 DEF Requested
<1>7. SideFlow(s, failed, q)
  <2>1. fail \in Contacts /\ SideFlow(s, fail, q)
    BY <1>3, SetStateSide DEF FileStates
  <2> HIDE DEF fail
  <2> QED
    BY <1>3, <2>1, AckedSide DEF AckStatus
<1>8. ch \in Nat
  BY <1>1, <1>3 DEF Packets
<1> HIDE DEF f, ch
<1>9. /\ asked \in Contacts /\ asked.state = c.state /\ asked.queue = c.queue
      /\ asked.wire = c.wire /\ asked.open = c.open /\ asked.parts = c.parts
      /\ asked.channel[f] = ch /\ \A g \in Files : g # f => asked.channel[g] = c.channel[g]
  <2> DEFINE chs == [c.channel EXCEPT ![f] = ch]
  <2>1. /\ chs \in [Files -> Nat]
        /\ chs[f] = ch /\ \A g \in Files : g # f => chs[g] = c.channel[g]
    BY <1>3, <1>8 DEF Contacts
  <2>2. asked = [c EXCEPT !.channel = chs]
    BY <1>3 DEF Contacts
  <2> HIDE DEF chs, asked
  <2> QED
    BY <1>3, <2>1, <2>2 DEF Contacts
<1> HIDE DEF asked
<1>10. ASSUME c.state[f] = "OFFERED", NEW d \in QueueFile(s, wait, f)
       PROVE  SideFlow(s, d, q)
  <2>1. /\ wait \in Contacts
        /\ wait.state[f] = "QUEUED" /\ \A g \in Files : g # f => wait.state[g] = asked.state[g]
        /\ wait.queue = asked.queue /\ wait.wire = asked.wire
        /\ wait.open = asked.open /\ wait.channel = asked.channel
        /\ wait.parts = asked.parts
    <3>1. wait = SetState(asked, f, "QUEUED") /\ "QUEUED" \in FileStates
      BY DEF FileStates
    <3> HIDE DEF wait
    <3> QED
      BY <1>3, <1>9, <3>1, SetStateRest
  <2> HIDE DEF wait
  <2>2. /\ wait.wire = c.wire /\ wait.open = c.open /\ wait.parts = c.parts
        /\ wait.channel[f] = ch
        /\ \A g \in Files : g # f => /\ wait.state[g] = c.state[g]
                                     /\ wait.channel[g] = c.channel[g]
        /\ wait.queue = c.queue
    BY <1>9, <2>1
  <2>3. ASSUME link
        PROVE  Ready(wait, q, f) /\ Serves(wait, q) /\ Asks(wait, q)
    <3>1. Ready(wait, q, f)
      BY <1>6, <2>2, <2>3 DEF Ready
    <3>2. Serves(c, q) /\ Asks(c, q)
      BY <1>6, <2>3 DEF Flow
    <3>3. \A g \in Live(wait) : g = f \/ (g \in Live(c) /\ g \in Files /\ g # f)
      BY <2>2 DEF Live
    <3>4. Sends(wait, q, f)
      BY <2>1, <3>1 DEF Sends, Ready
    <3>5. \A g \in Live(c) : g \in Files /\ g # f => Sends(wait, q, g)
      BY <2>2, <3>2 DEF Serves, Sends
    <3>6. Serves(wait, q)
      BY <2>2, <3>2, <3>3, <3>4, <3>5 DEF Serves
    <3>7. \A i \in 1..Len(q.wire) :
            IsRequest(q.wire[i]) =>
              \A g \in Live(wait) : wait.channel[g] # q.wire[i].channel
      <4>1. ASSUME NEW i \in 1..Len(q.wire), IsRequest(q.wire[i]), NEW g \in Live(wait)
            PROVE  wait.channel[g] # q.wire[i].channel
        <5>1. CASE g = f
          BY <3>1, <4>1, <5>1 DEF Ready
        <5>2. CASE g # f
          <6>1. g \in Live(c) /\ wait.channel[g] = c.channel[g]
            BY <2>2, <3>3, <5>2
          <6> QED
            BY <3>2, <4>1, <6>1 DEF Asks
        <5> QED
          BY <5>1, <5>2
      <4> QED
        BY <4>1
    <3>8. Asks(wait, q)
      BY <2>2, <3>2, <3>7 DEF Asks
    <3> QED
      BY <3>1, <3>6, <3>8
  <2>4. Numbered(q) /\ Channelled(q) /\ Whole(q) /\ Arrives(c.wire, q)
    BY <1>6 DEF Flow
  <2>5. SenderFlow(wait, q)
    BY <2>2, <2>3, <2>4 DEF SenderFlow
  <2>6. SenderFlow(d, q)
    BY <1>3, <1>10, <2>1, <2>3, <2>4, <2>5, QueueFileSends
  <2> QED
    BY <2>4, <2>6 DEF SideFlow
<1> HIDE DEF failed, wait, s
<1>11. \A d : SideFlow(s, d, q) /\ ReadsAndBecomes(s, d) => Flowing'
  BY <1>2, ReadsFlow DEF q
<1> QED
  BY <1>1, <1>7, <1>10, <1>11

\* Contact::processOnlineLater() and onOutputBufferEmptied().
LEMMA BufferFlow ==
  ASSUME IInv, Flowing, NEW s \in Sides,
         ProcessOnlineLater(s) \/ OnOutputBufferEmptied(s)
  PROVE  Flowing'
<1> DEFINE c == contact[s]
           o == contact[Other(s)]
           greeted == [c EXCEPT !.greet = FALSE]
           ready == [greeted EXCEPT !.drain = TRUE]
           drained == [c EXCEPT !.drain = FALSE]
<1>1. \/ Becomes(s, greeted)
      \/ \E d \in LoadFileQueue(s, ready) :
           \E e \in OutputBufferEmptied(s, d) : Becomes(s, e)
      \/ \E d \in OutputBufferEmptied(s, drained) : Becomes(s, d)
  BY DEF ProcessOnlineLater, OnOutputBufferEmptied
<1>2. c \in Contacts /\ o \in Contacts /\ Sound(s, c) /\ SideFlow(s, c, o)
  BY SideFacts, FlowingBetween
<1> DEFINE same(d) ==
        /\ d \in Contacts
        /\ d.state = c.state /\ d.queue = c.queue /\ d.loaded = c.loaded
        /\ d.threw = c.threw /\ d.hashing = c.hashing /\ d.active = c.active /\ d.wire = c.wire
        /\ d.open = c.open
        /\ d.channel = c.channel /\ d.made = c.made
        /\ d.leaving = c.leaving /\ d.next = c.next /\ d.parts = c.parts
        /\ d.up = c.up /\ d.online = c.online /\ d.closing = c.closing
<1>3. same(greeted) /\ same(ready) /\ same(drained)
  BY ZenonT(40), <1>2 DEF Contacts
<1> HIDE DEF c, o
<1>4. ASSUME NEW d, same(d)
      PROVE  d \in Contacts /\ Sound(s, d) /\ SideFlow(s, d, o)
  <2>1. SideFlow(s, d, o)
    BY <1>2, <1>4, SameSide
  <2>2. Sound(s, d)
    BY <1>2, <1>4, SameFieldsSound
  <2> QED
    BY <1>4, <2>1, <2>2
<1> HIDE DEF greeted, ready, drained, same
<1>5. ASSUME NEW d \in LoadFileQueue(s, ready), NEW e \in OutputBufferEmptied(s, d)
      PROVE  SideFlow(s, e, o)
  <2>1. ready \in Contacts /\ Sound(s, ready) /\ SideFlow(s, ready, o)
    BY <1>3, <1>4
  <2>2. Sound(s, d)
    BY <2>1, LoadFileQueueFine DEF Fine
  <2>3. SideFlow(s, d, o)
    BY <2>1, LoadFileQueueSide
  <2> QED
    BY <1>2, <2>2, <2>3, OutputBufferEmptiedSide
<1>6. ASSUME NEW d \in OutputBufferEmptied(s, drained)
      PROVE  SideFlow(s, d, o)
  <2>1. Sound(s, drained) /\ SideFlow(s, drained, o)
    BY <1>3, <1>4
  <2> QED
    BY <1>2, <2>1, OutputBufferEmptiedSide
<1>7. SideFlow(s, greeted, o)
  BY <1>3, <1>4
<1>8. \A d : SideFlow(s, d, o) /\ Becomes(s, d) => Flowing'
  BY BecomesFlow DEF o
<1> QED
  BY <1>1, <1>5, <1>6, <1>7, <1>8

\* The slot of Peer::removeTransfer.
LEMMA RemoveTransferFlow ==
  ASSUME IInv, Flowing, NEW s \in Sides, NEW ch, RemoveTransfer(s, ch)
  PROVE  Flowing'
<1> DEFINE c == contact[s]
           o == contact[Other(s)]
           d == [c EXCEPT !.leaving = @ \ {ch}, !.open = {e \in @ : e[1] # ch},
                          !.shut = @ \ {ch}]
<1>1. Becomes(s, d)
  BY DEF RemoveTransfer
<1>2. c \in Contacts /\ SideFlow(s, c, o)
  BY SideFacts, FlowingBetween
<1>3. /\ d.state = c.state /\ d.queue = c.queue /\ d.wire = c.wire
      /\ d.channel = c.channel /\ d.made = c.made /\ d.next = c.next
      /\ d.parts = c.parts
      /\ d.open = {e \in c.open : e[1] # ch} /\ d.leaving = c.leaving \ {ch}
      /\ d.up = c.up /\ d.online = c.online /\ d.closing = c.closing
  BY <1>2 DEF Contacts
<1> HIDE DEF c, o, d
<1>4. SenderFlow(c, o) => SenderFlow(d, o)
  <2>1. \A g \in Live(d) : g \in Live(c) /\ d.state[g] = c.state[g]
    BY <1>3 DEF Live
  <2>2. d.open \subseteq c.open
    BY <1>3
  <2> QED
    BY <1>3, <2>1, <2>2, LessToSend
<1>5. ReceiverFlow(o, c) => ReceiverFlow(o, d)
  <2> SUFFICES ASSUME ReceiverFlow(o, c)
               PROVE  ReceiverFlow(o, d)
    OBVIOUS
  <2>1. Channelled(d)
    BY <1>3 DEF ReceiverFlow, Channelled
  <2>2. Whole(d)
    BY <1>3 DEF ReceiverFlow, Whole
  <2>3. Running(d) \subseteq Running(c)
    BY <1>3 DEF Running
  <2> QED
    BY <1>2, <1>3, <2>1, <2>2, <2>3, LessToReceive
<1>6. SideFlow(s, d, o)
  BY <1>2, <1>4, <1>5 DEF SideFlow
<1> QED
  BY <1>1, <1>6, BecomesFlow DEF o

\* What the receiver keeps with x added to the file g.
Stored(c, g, x) == [c EXCEPT !.parts[g] = PartsWith(c, g, x)]

\* A chunk that reaches an open channel is of the file of the channel, and the next
\* one of its transfer.
LEMMA StoredFlow ==
  ASSUME NEW p \in Contacts, NEW c \in Contacts, Flow(p, c, link), Carried(p.wire, c),
         ~c.closing, NEW x, NEW q, Takes(p, q, x), x.kind = "Chunk",
         NEW g, <<x.channel, g>> \in c.open,
         NEW d, d = Stored(c, g, x)
  PROVE  /\ d \in Contacts /\ Flow(q, d, link)
         /\ d.state = c.state /\ d.open = c.open /\ d.closing = c.closing
         /\ c.state[g] = "TRANSFERRING" => d.parts[g] = x.part
<1> DEFINE w == p.wire
           e == <<x.channel, g>>
<1>0. e \in c.open /\ e[1] = x.channel /\ g = e[2]
  OBVIOUS
<1> HIDE DEF e
<1>1. /\ w \in Seq(Packets) /\ x \in Packets /\ x = w[1] /\ 1 \in 1..Len(w)
      /\ w # <<>> /\ x = Head(w)
  BY TailPlaces DEF Contacts, Takes
<1>2. g \in Files /\ x.part \in 0..Wrong /\ x.part \in Nat
  <2>1. e \in Nat \X Files
    BY <1>0 DEF Contacts
  <2>2. g \in Files
    BY <1>0, <2>1
  <2>3. x.part \in 1..Chunks
    <3>1. x \in Packets
      BY <1>1
    <3> QED
      BY <3>1 DEF Packets
  <2> QED
    BY <2>2, <2>3, ChunksAssumption DEF Wrong
<1>3. Numbered(c) /\ Channelled(c) /\ Whole(c) /\ Arrives(w, c)
  BY DEF Flow
<1>4. e \in c.made /\ <<x.channel, x.file>> \in c.made
  BY <1>0, <1>1, <1>3 DEF Channelled, Carried
<1>5. x.file = g
  <2>1. <<x.channel, x.file>>[1] = e[1] /\ <<x.channel, x.file>>[2] = x.file
    BY <1>0
  <2> QED
    BY <1>0, <1>3, <1>4, <2>1 DEF Numbered
<1>6. ASSUME c.state[g] = "TRANSFERRING"
      PROVE  PartsWith(c, g, x) = x.part
  <2> DEFINE n == c.parts[g]
  <2>1. n \in Nat
    BY <1>2 DEF Contacts
  <2>2. Continues(w, x.channel, n)
    BY <1>0, <1>3, <1>6 DEF Arrives, Running
  <2>3. Head(w).kind = "Chunk" /\ Head(w).channel = x.channel /\ w # <<>>
    BY <1>1
  <2> HIDE DEF n, w
  <2>4. Head(w).part = n + 1
    BY <1>1, <2>1, <2>2, <2>3, NextChunk
  <2> QED
    BY <1>1, <1>5, <2>4 DEF PartsWith, n, w
<1>7. PartsWith(c, g, x) \in 0..Wrong
  BY <1>2, ChunksAssumption DEF PartsWith, Wrong
<1>8. /\ d \in Contacts
      /\ d.state = c.state /\ d.channel = c.channel /\ d.made = c.made
      /\ d.open = c.open /\ d.leaving = c.leaving /\ d.next = c.next
      /\ d.wire = c.wire /\ d.online = c.online
      /\ d.parts[g] = PartsWith(c, g, x)
      /\ \A f \in Files : f # g => d.parts[f] = c.parts[f]
  <2> DEFINE ps == [c.parts EXCEPT ![g] = PartsWith(c, g, x)]
  <2>1. /\ ps \in [Files -> 0..Wrong]
        /\ ps[g] = PartsWith(c, g, x) /\ \A f \in Files : f # g => ps[f] = c.parts[f]
    BY <1>2, <1>7 DEF Contacts
  <2>2. d = [c EXCEPT !.parts = ps]
    BY DEF Contacts, Stored
  <2> HIDE DEF ps
  <2>3. d \in Contacts
    BY ZenonT(40), <2>1, <2>2 DEF Contacts
  <2>4. /\ d.state = c.state /\ d.channel = c.channel /\ d.made = c.made
        /\ d.open = c.open /\ d.leaving = c.leaving /\ d.next = c.next
        /\ d.wire = c.wire /\ d.online = c.online /\ d.parts = ps
    BY <2>2 DEF Contacts
  <2> QED
    BY <2>1, <2>3, <2>4
<1>12. d.closing = c.closing
  BY DEF Contacts, Stored
<1>9. ASSUME NEW h \in Running(d)
      PROVE  d.parts[h[2]] = IF h[1] = x.channel THEN x.part ELSE c.parts[h[2]]
  <2>1. /\ h \in c.open /\ h \in c.made /\ h[2] \in Files
        /\ c.state[h[2]] = "TRANSFERRING" /\ c.channel[h[2]] = h[1]
    BY <1>3, <1>8 DEF Running, Channelled, Contacts
  <2>2. CASE h[1] = x.channel
    <3>1. h = e
      BY <1>0, <1>3, <1>4, <2>1, <2>2 DEF Numbered
    <3> QED
      BY <1>0, <1>6, <1>8, <2>1, <2>2, <3>1
  <2>3. CASE h[1] # x.channel
    <3>1. h[2] # g
      BY <1>0, <1>3, <2>1, <2>3 DEF Channelled
    <3> QED
      BY <1>8, <2>1, <2>3, <3>1
  <2> QED
    BY <2>2, <2>3
<1>10. Whole(d)
  <2>1. c.state[g] \notin {"HASHING", "DONE"}
    BY <1>0, <1>3 DEF Channelled
  <2> QED
    BY <1>3, <1>8, <2>1 DEF Whole
<1>11. Flow(q, d, link)
  <2>1. Running(d) \subseteq Running(c)
    BY <1>8, <1>12 DEF Running
  <2>2. Adds(c, d, x)
    BY <1>8, <1>9, <1>10, <2>1 DEF Adds
  <2> QED
    BY <2>2, ChunkRead
<1> QED
  BY <1>6, <1>8, <1>11, <1>12

\* Peer::onReceivedData().
LEMMA ReceivedChunkFlow ==
  ASSUME IInv, Flowing, ReceivedChunk
  PROVE  Flowing'
<1> DEFINE s == "receiver"
           c == contact[s]
           p == contact[Other(s)]
           q == Unread(s)
           x == Packet(s)
           stored(g) == Stored(c, g, x)
           hashed(g) == SetState(stored(g), g, "HASHING")
           last(e) == [hashed(e[2]) EXCEPT !.open = @ \ {e},
                                           !.shut = @ \cup {e[1]},
                                           !.hashing = @ \cup {e[2]}]
           late == x.channel \in c.shut
           none == [c EXCEPT !.closing = late]
<1>0. /\ c.online /\ ~c.closing /\ p.wire # <<>> /\ x.kind = "Chunk"
  <2>1. Reads(s, "Chunk")
    BY Zenon DEF ReceivedChunk
  <2> QED
    BY Zenon, <2>1 DEF Reads, Packet
<1>1. /\ c.online /\ ~c.closing /\ p.wire # <<>> /\ x.kind = "Chunk"
      /\ \/ /\ \A e \in c.open : e[1] # x.channel
            /\ ReadsAndBecomes(s, none)
         \/ \E e \in c.open :
              /\ e[1] = x.channel
              /\ \/ ReadsAndBecomes(s, stored(e[2]))
                 \/ ReadsAndBecomes(s, Ended(s, stored(e[2])))
                 \/ /\ x.part = Chunks /\ c.state[e[2]] = "TRANSFERRING"
                    /\ ReadsAndBecomes(s, last(e))
  <2>1. CASE ReadsAndBecomes(s, none) /\ {e \in c.open : e[1] = x.channel} = {}
    <3>1. \A e \in c.open : e[1] # x.channel
      BY Zenon, <2>1
    <3> QED
      BY Zenon, <1>0, <2>1, <3>1
  <2>2. ASSUME NEW e \in {e \in c.open : e[1] = x.channel},
               \/ ReadsAndBecomes(s, stored(e[2]))
               \/ ReadsAndBecomes(s, Ended(s, stored(e[2])))
               \/ /\ x.part = Chunks /\ c.state[e[2]] = "TRANSFERRING"
                  /\ ReadsAndBecomes(s, last(e))
        PROVE  \E k \in c.open :
              /\ k[1] = x.channel
              /\ \/ ReadsAndBecomes(s, stored(k[2]))
                 \/ ReadsAndBecomes(s, Ended(s, stored(k[2])))
                 \/ /\ x.part = Chunks /\ c.state[k[2]] = "TRANSFERRING"
                    /\ ReadsAndBecomes(s, last(k))
    BY Zenon, <2>2
  <2>3. \/ ReadsAndBecomes(s, none) /\ {e \in c.open : e[1] = x.channel} = {}
        \/ \E e \in {e \in c.open : e[1] = x.channel} :
             \/ ReadsAndBecomes(s, stored(e[2]))
             \/ ReadsAndBecomes(s, Ended(s, stored(e[2])))
             \/ /\ x.part = Chunks /\ c.state[e[2]] = "TRANSFERRING"
                /\ ReadsAndBecomes(s, last(e))
    BY Zenon DEF ReceivedChunk, Stored
  <2> QED
    BY Zenon, <1>0, <2>1, <2>2, <2>3
<1>2. s \in Sides
  BY DEF Sides
<1>3. c \in Contacts /\ p \in Contacts /\ Between(s, c, p, link)
  <2> HIDE DEF s
  <2> QED
    BY <1>2, SideFacts, FlowingBetween
<1>4. q = [p EXCEPT !.wire = Tail(@)] /\ x = Head(p.wire)
  BY DEF Unread, Packet
<1>5. \A d : SideFlow(s, d, q) /\ ReadsAndBecomes(s, d) => Flowing'
  <2> HIDE DEF s
  <2> QED
    BY <1>2, ReadsFlow
<1> HIDE DEF c, p, q, x, late
<1>10. x.kind = "Chunk" /\ p.wire # <<>> /\ ~c.closing /\ c.online
  BY <1>0
<1>6. Flow(p, c, link) /\ Carried(p.wire, c)
  <2>1. Flow(p, c, link)
    BY <1>3 DEF Between
  <2>2. Carried(p.wire, c)
    BY <1>10, <2>1 DEF Flow, Arrives
  <2> QED
    BY <2>1, <2>2
<1>7. \A d : Flow(q, d, link) => SideFlow(s, d, q)
  BY BetweenIsSide DEF Between
<1>8. ASSUME \A e \in c.open : e[1] # x.channel
      PROVE  SideFlow(s, none, q)
  <2> DEFINE d == none
  <2>0. /\ d.state = c.state /\ d.channel = c.channel /\ d.made = c.made
        /\ d.open = c.open /\ d.leaving = c.leaving /\ d.next = c.next
        /\ d.wire = c.wire /\ d.online = c.online /\ d.parts = c.parts
    BY <1>3 DEF Contacts
  <2> HIDE DEF d, none
  <2>5. Running(d) \subseteq Running(c)
    BY <1>10, <2>0 DEF Running
  <2>1. \A e \in Running(d) :
          d.parts[e[2]] = IF e[1] = x.channel THEN x.part ELSE c.parts[e[2]]
    BY <1>8, <2>0 DEF Running
  <2>2. Whole(d)
    BY <1>6, <2>0 DEF Flow, Whole
  <2>3. Adds(c, d, x) /\ Takes(p, q, x)
    BY <1>4, <1>10, <2>0, <2>1, <2>2, <2>5 DEF Adds, Takes
  <2>4. Flow(q, d, link)
    BY <1>3, <1>10, <1>6, <2>3, ChunkRead
  <2> QED
    BY <1>7, <2>4 DEF d
<1>9. ASSUME NEW e \in c.open, e[1] = x.channel
      PROVE  /\ SideFlow(s, stored(e[2]), q)
             /\ SideFlow(s, Ended(s, stored(e[2])), q)
             /\ x.part = Chunks /\ c.state[e[2]] = "TRANSFERRING" =>
                  SideFlow(s, last(e), q)
  <2> DEFINE g == e[2]
             b == stored(g)
             h == hashed(g)
             d == last(e)
  <2>1. /\ b \in Contacts /\ Flow(q, b, link)
        /\ b.state = c.state /\ b.open = c.open /\ ~b.closing
        /\ c.state[g] = "TRANSFERRING" => b.parts[g] = x.part
    <3>1. b = Stored(c, g, x)
      OBVIOUS
    <3> HIDE DEF b
    <3>2. <<x.channel, g>> \in c.open
      <4>1. e \in Nat \X Files
        BY <1>3 DEF Contacts
      <4>2. e = <<x.channel, e[2]>>
        BY <1>9, <4>1
      <4> QED
        BY <1>9, <4>2
    <3>3. Takes(p, q, x)
      BY <1>4, <1>10 DEF Takes
    <3> HIDE DEF g
    <3>4. b = Stored(c, g, x)
      BY <3>1 DEF g
    <3> QED
      BY <1>3, <1>6, <1>10, <3>2, <3>3, <3>4, StoredFlow
  <2>2. g \in Files
    BY <1>3 DEF Contacts
  <2> HIDE DEF b
  <2>3. SideFlow(s, b, q)
    BY <1>7, <2>1
  <2>4. SideFlow(s, Ended(s, b), q)
    BY <1>2, <2>1, <2>3, EndedSide
  <2>5. ASSUME x.part = Chunks, c.state[g] = "TRANSFERRING"
        PROVE  SideFlow(s, d, q)
    <3>1. h = SetState(b, g, "HASHING") /\ "HASHING" \in FileStates
      BY DEF FileStates, b
    <3> HIDE DEF h
    <3>2. /\ h \in Contacts
          /\ h.state[g] = "HASHING" /\ \A f \in Files : f # g => h.state[f] = b.state[f]
          /\ h.wire = b.wire /\ h.open = b.open /\ h.made = b.made
          /\ h.channel = b.channel /\ h.parts = b.parts /\ h.next = b.next
          /\ b.leaving \subseteq h.leaving
      BY <2>1, <2>2, <3>1, SetStateRest
    <3>3. h.up = b.up /\ h.online = b.online
      BY <2>1, <2>2, <3>1, SetStateRest
    <3>4. d = [h EXCEPT !.open = @ \ {e}, !.shut = @ \cup {e[1]},
                        !.hashing = @ \cup {g}]
      BY DEF h
    <3> HIDE DEF d
    <3>5. /\ d.state = h.state /\ d.wire = h.wire /\ d.open = h.open \ {e}
          /\ d.made = h.made /\ d.channel = h.channel /\ d.parts = h.parts
          /\ d.next = h.next /\ d.leaving = h.leaving
          /\ d.up = h.up /\ d.online = h.online
      BY <3>2, <3>4 DEF Contacts
    <3>6. Numbered(b) /\ Channelled(b) /\ Whole(b)
      BY <2>1 DEF Flow
    <3>7. ASSUME NEW k \in d.open
          PROVE  /\ k \in b.open /\ k[2] \in Files /\ k[2] # g
                 /\ d.state[k[2]] = b.state[k[2]]
      <4>1. k \in b.open /\ k # e /\ k[2] \in Files
        BY <2>1, <3>2, <3>5 DEF Contacts
      <4>2. k[2] # g
        <5>1. k \in b.made /\ e \in b.made /\ e \in b.open
          BY <2>1, <3>6, <4>1 DEF Channelled
        <5>2. k[1] # e[1]
          BY <3>6, <4>1, <5>1 DEF Numbered
        <5>3. b.channel[g] = e[1] /\ (k[2] = g => b.channel[g] = k[1])
          BY <2>1, <2>5, <3>6, <4>1, <5>1 DEF Channelled
        <5> QED
          BY <5>2, <5>3
      <4> QED
        BY <3>2, <3>5, <4>1, <4>2
    <3>8. Channelled(d)
      <4> SUFFICES ASSUME NEW k \in d.open
                   PROVE  /\ d.online /\ k \in d.made
                          /\ d.state[k[2]] \notin {"QUEUED", "HASHING", "DONE"}
                          /\ d.state[k[2]] = "TRANSFERRING" => d.channel[k[2]] = k[1]
                          /\ d.state[k[2]] # "TRANSFERRING" => k[1] \in d.leaving
        BY DEF Channelled
      <4>1. /\ b.online /\ k \in b.made
            /\ b.state[k[2]] \notin {"QUEUED", "HASHING", "DONE"}
            /\ b.state[k[2]] = "TRANSFERRING" => b.channel[k[2]] = k[1]
            /\ b.state[k[2]] # "TRANSFERRING" => k[1] \in b.leaving
        BY <3>6, <3>7 DEF Channelled
      <4> QED
        BY <3>2, <3>3, <3>5, <3>7, <4>1
    <3>9. Whole(d)
      BY <2>1, <2>5, <3>2, <3>5, <3>6 DEF Whole
    <3>10. Running(d) \subseteq Running(b)
      BY <2>1, <3>7 DEF Running
    <3>11. ReceiverFlow(q, b)
      BY <2>3 DEF SideFlow
    <3>12. /\ d.wire = b.wire /\ d.made = b.made /\ d.next = b.next
           /\ d.parts = b.parts /\ d.up = b.up /\ d.online = b.online
      BY <3>2, <3>3, <3>5
    <3>13. ReceiverFlow(q, d)
      BY <2>1, <3>8, <3>9, <3>10, <3>11, <3>12, LessToReceive
    <3> QED
      BY <3>13 DEF SideFlow
  <2> QED
    BY <2>3, <2>4, <2>5 DEF b
<1> HIDE DEF stored, last, s
<1> QED
  BY <1>1, <1>5, <1>8, <1>9

(***************************************************************************)
(* The link, and the ends of the programs.                                 *)
(***************************************************************************)

\* A side whose channels are gone, with what it has written.
LEMMA DownSide ==
  ASSUME NEW s \in Sides, NEW c, NEW o, SideFlow(s, c, o), NEW d,
         d.open = {}, d.made = {}, ~d.online,
         s = "sender" => d.wire = c.wire,
         s = "receiver" => (Whole(c) => Whole(d))
  PROVE  Between(s, d, o, FALSE)
<1>1. CASE s = "sender"
  <2>1. Numbered(o) /\ Channelled(o) /\ Whole(o) /\ Arrives(d.wire, o)
    BY <1>1 DEF SideFlow, SenderFlow
  <2> QED
    BY <1>1, <2>1 DEF Between, Flow
<1>2. CASE s = "receiver"
  <2>1. Whole(d)
    BY <1>2 DEF SideFlow, ReceiverFlow
  <2>2. Numbered(d) /\ Channelled(d) /\ Running(d) = {}
    BY DEF Numbered, Channelled, Running
  <2>3. Arrives(o.wire, d)
    BY <2>2 DEF Arrives
  <2> QED
    BY <1>2, <2>1, <2>2, <2>3 DEF Between, Flow
<1> QED
  BY <1>1, <1>2 DEF Sides

\* Contact::onDisconnectedFromPeer(), and Peer::onCloseLater().
LEMMA OnDisconnectedFlow ==
  ASSUME IInv, Flowing, NEW s \in Sides,
         OnDisconnectedFromPeer(s) \/ OnCloseLater(s)
  PROVE  Flowing'
<1> DEFINE c == contact[s]
           o == contact[Other(s)]
           d == Cleared(WithoutPeer(c))
<1>1. c \in Contacts /\ SideFlow(s, c, o)
  BY SideFacts, FlowingBetween
<1>2. contact' = [contact EXCEPT ![s] = d] /\ link' = FALSE
  BY SideFacts DEF OnDisconnectedFromPeer, OnCloseLater, IInv, TypeOK
<1>3. /\ d.open = {} /\ d.made = {} /\ ~d.online /\ d.wire = c.wire
      /\ d.parts = c.parts
      /\ \A f \in Files : d.state[f] = c.state[f] \/ d.state[f] = "FAILED"
  BY <1>1 DEF Cleared, WithoutPeer, Contacts
<1> HIDE DEF c, o, d
<1>4. Whole(c) => Whole(d)
  BY <1>3 DEF Whole
<1>5. Between(s, d, o, link')
  BY <1>1, <1>2, <1>3, <1>4, DownSide
<1> QED
  BY <1>2, <1>5, OneSide DEF o

\* Contact::disconnectFromContact().
LEMMA DisconnectFlow ==
  ASSUME IInv, Flowing, NEW s \in Sides, DisconnectFromContact(s)
  PROVE  Flowing'
<1> DEFINE c == contact[s]
           o == contact[Other(s)]
           d == WithoutPeer(c)
<1>1. c \in Contacts /\ SideFlow(s, c, o)
  BY SideFacts, FlowingBetween
<1>2. contact' = [contact EXCEPT ![s] = d] /\ link' = FALSE
  BY SideFacts DEF DisconnectFromContact
<1>3. /\ d.open = {} /\ d.made = {} /\ ~d.online /\ d.wire = c.wire
      /\ d.parts = c.parts /\ d.state = c.state
  BY <1>1 DEF WithoutPeer, Contacts
<1> HIDE DEF c, o, d
<1>4. Whole(c) => Whole(d)
  BY <1>3 DEF Whole
<1>5. Between(s, d, o, link')
  BY <1>1, <1>2, <1>3, <1>4, DownSide
<1> QED
  BY <1>2, <1>5, OneSide DEF o

\* What a program leaves behind that ends as b.
LEMMA EndedBetween ==
  ASSUME NEW s \in Sides, NEW b \in Contacts, NEW c \in Contacts, NEW o,
         SideFlow(s, b, o), NEW d,
         \/ d = [Ended(s, c) EXCEPT !.wire = b.wire]
         \/ d = Ended(s, c) /\ b = c,
         s = "receiver" => Whole(c)
  PROVE  Between(s, d, o, FALSE)
<1> DEFINE e == Ended(s, c)
<1>1. /\ ~e.online /\ e.open = {} /\ e.made = {} /\ e.parts = c.parts
      /\ e.wire = c.wire
      /\ \A f \in Files : e.state[f] = RecoveredState(s, c.state[f])
  BY EndedFields DEF Off
<1>2. /\ d.open = e.open /\ d.made = e.made /\ d.online = e.online
      /\ d.parts = e.parts /\ d.state = e.state /\ d.wire = b.wire
  <2>1. CASE d = [e EXCEPT !.wire = b.wire]
    BY <2>1 DEF Ended, NewContact
  <2>2. CASE d = e /\ b = c
    <3> HIDE DEF e
    <3> QED
      BY <1>1, <2>2
  <2> QED
    BY <2>1, <2>2
<1> HIDE DEF e
<1>3. s = "receiver" => Whole(d)
  BY <1>1, <1>2 DEF Whole, RecoveredState
<1>4. d.open = {} /\ d.made = {} /\ ~d.online
  BY <1>1, <1>2
<1> QED
  BY <1>2, <1>3, <1>4, DownSide

\* What a side keeps of complete files is whole.
LEMMA ReceiverIsWhole ==
  ASSUME NEW c, NEW o, SideFlow("receiver", c, o)
  PROVE  Whole(c)
BY DEF SideFlow, ReceiverFlow

\* A program ends, at rest or between what it wrote and the setState() that follows.
LEMMA QuitFlow ==
  ASSUME IInv, Flowing, NEW s \in Sides, Quit(s) \/ QuitSending(s)
  PROVE  Flowing'
<1> DEFINE c == contact[s]
           o == contact[Other(s)]
           left(b) == [Ended(s, c) EXCEPT !.wire = b.wire]
<1>1. c \in Contacts /\ o \in Contacts /\ Sound(s, c) /\ SideFlow(s, c, o)
  BY SideFacts, FlowingBetween
<1>2. s = "receiver" => Whole(c)
  BY <1>1, ReceiverIsWhole
<1>3. link' = FALSE
  BY DEF Quit, QuitSending
<1>4. \/ contact' = [contact EXCEPT ![s] = Ended(s, c)]
      \/ \E b \in OutputBufferEmptied(s, c) : contact' = [contact EXCEPT ![s] = left(b)]
  BY Zenon DEF Quit, QuitSending
<1> HIDE DEF c, o
<1>5. \A b \in Contacts : SideFlow(s, b, o) => Between(s, left(b), o, FALSE)
  BY <1>1, <1>2, EndedBetween
<1>10. Between(s, Ended(s, c), o, FALSE)
  BY <1>1, <1>2, EndedBetween
<1>6. ASSUME NEW b \in OutputBufferEmptied(s, c)
      PROVE  b \in Contacts /\ SideFlow(s, b, o)
  <2>1. SideFlow(s, b, o)
    BY <1>1, OutputBufferEmptiedSide
  <2>2. Sound(s, b)
    BY <1>1, OutputBufferEmptiedFine DEF Fine
  <2> QED
    BY <2>1, <2>2 DEF Sound
<1> HIDE DEF left
<1>7. \A d : Between(s, d, o, link') /\ contact' = [contact EXCEPT ![s] = d] => Flowing'
  BY OneSide DEF o
<1>8. CASE contact' = [contact EXCEPT ![s] = Ended(s, c)]
  BY <1>3, <1>7, <1>8, <1>10
<1>9. ASSUME NEW b \in OutputBufferEmptied(s, c),
             contact' = [contact EXCEPT ![s] = left(b)]
      PROVE  Flowing'
  BY <1>3, <1>5, <1>6, <1>7, <1>9
<1> QED
  BY <1>4, <1>8, <1>9

\* What concerns neither rows, channels nor the wire does not matter.
LEMMA SameBetween ==
  ASSUME NEW s, NEW c, NEW o, NEW k, Between(s, c, o, k), NEW d,
         d.state = c.state, d.queue = c.queue, d.wire = c.wire,
         d.channel = c.channel, d.made = c.made, d.open = c.open,
         d.leaving = c.leaving, d.next = c.next, d.parts = c.parts,
         d.online = c.online, d.closing = c.closing
  PROVE  Between(s, d, o, k)
<1>1. Flow(c, o, k) => Flow(d, o, k)
  <2>1. Live(d) = Live(c)
    BY DEF Live
  <2>2. Serves(c, o) => Serves(d, o)
    BY <2>1 DEF Serves, Sends
  <2>3. Asks(c, o) => Asks(d, o)
    BY <2>1 DEF Asks
  <2> QED
    BY <2>2, <2>3 DEF Flow
<1>2. Flow(o, c, k) => Flow(o, d, k)
  <2>1. Running(d) = Running(c)
    BY DEF Running
  <2>2. \A w, e : Fresh(w, c, e) => Fresh(w, d, e)
    BY <2>1 DEF Fresh
  <2>3. \A w, e, n : Upto(w, c, e, n) => Upto(w, d, e, n)
    BY <2>1 DEF Upto
  <2>4. Serves(o, c) => Serves(o, d)
    BY <2>2, <2>3 DEF Serves, Sends
  <2>5. Asks(o, c) => Asks(o, d)
    BY <2>2 DEF Asks
  <2>6. Arrives(o.wire, c) => Arrives(o.wire, d)
    BY <2>1 DEF Arrives, Carried
  <2>7. /\ Numbered(c) => Numbered(d)
        /\ Channelled(c) => Channelled(d)
        /\ Whole(c) => Whole(d)
    BY DEF Numbered, Channelled, Whole
  <2> QED
    BY <2>4, <2>5, <2>6, <2>7 DEF Flow
<1> QED
  BY <1>1, <1>2 DEF Between

\* The program starts again.
LEMMA StartFlow ==
  ASSUME IInv, Flowing, NEW s \in Sides, Start(s)
  PROVE  Flowing'
<1> DEFINE c == contact[s]
           o == contact[Other(s)]
           d == [c EXCEPT !.up = TRUE]
<1>1. c \in Contacts /\ Between(s, c, o, link)
  BY SideFacts, FlowingBetween
<1>2. contact' = [contact EXCEPT ![s] = d] /\ link' = link
  BY SideFacts DEF Start
<1>3. /\ d.state = c.state /\ d.queue = c.queue /\ d.wire = c.wire
      /\ d.channel = c.channel /\ d.made = c.made /\ d.open = c.open
      /\ d.leaving = c.leaving /\ d.next = c.next /\ d.parts = c.parts
      /\ d.online = c.online /\ d.closing = c.closing
  BY <1>1 DEF Contacts
<1> HIDE DEF c, o, d
<1>4. Between(s, d, o, link')
  BY <1>1, <1>2, <1>3, SameBetween
<1> QED
  BY <1>2, <1>4, OneSide DEF o

\* IncomingFileChannel::onIncoming() throws: the connection closes with every
\* transfer on it, so what the file holds does not matter.
LEMMA WriteFailsFlow ==
  ASSUME IInv, Flowing, WriteFails
  PROVE  Flowing'
<1> DEFINE c == contact["receiver"]
           p == contact["sender"]
<1>1. PICK e \in c.open :
        /\ contact' = [contact EXCEPT !["receiver"].closing = TRUE,
                                      !["receiver"].parts[e[2]] = Wrong]
        /\ link' = link
  BY DEF WriteFails
<1> DEFINE h == [c.parts EXCEPT ![e[2]] = Wrong]
           d == [c EXCEPT !.closing = TRUE, !.parts = h]
<1>2. "receiver" \in Sides /\ c \in Contacts /\ contact \in [Sides -> Contacts]
  BY SideFacts DEF Sides
<1>3. contact'["receiver"] = d /\ contact'["sender"] = p
  BY <1>1, <1>2 DEF Contacts, Sides
<1>4. Flow(p, c, link)
  BY DEF Flowing
<1>5. \A f \in Files : f # e[2] => h[f] = c.parts[f]
  BY <1>2 DEF Contacts
<1> HIDE DEF h, c, p
<1>6. /\ d.state = c.state /\ d.channel = c.channel /\ d.made = c.made
      /\ d.open = c.open /\ d.leaving = c.leaving /\ d.next = c.next
      /\ d.wire = c.wire /\ d.online = c.online
      /\ d.parts = h /\ d.closing
  BY <1>2 DEF Contacts
<1> HIDE DEF d
<1>7. Running(d) = {}
  BY <1>6 DEF Running
<1>8. Numbered(d) /\ Channelled(d)
  BY <1>4, <1>6 DEF Flow, Numbered, Channelled
<1>9. Whole(d)
  <2>1. c.state[e[2]] \notin {"HASHING", "DONE"}
    BY <1>4 DEF Flow, Channelled
  <2> QED
    BY <1>4, <1>5, <1>6, <2>1 DEF Flow, Whole
<1>10. Arrives(p.wire, d)
  BY <1>4, <1>6, <1>7 DEF Flow, Arrives, Carried
<1>11. \A f : Fresh(p.wire, c, f) => Fresh(p.wire, d, f)
  BY <1>7 DEF Fresh
<1>12. \A f, n : Upto(p.wire, c, f, n) => Upto(p.wire, d, f, n)
  BY <1>7 DEF Upto
<1>13. Serves(p, c) => Serves(p, d)
  BY <1>6, <1>11, <1>12 DEF Serves, Sends
<1>14. Asks(p, c) => Asks(p, d)
  BY <1>6, <1>11 DEF Asks
<1>15. Flow(p, d, link')
  BY <1>1, <1>4, <1>8, <1>9, <1>10, <1>13, <1>14 DEF Flow
<1> QED
  BY <1>3, <1>15 DEF Flowing

\* A file can be opened no more, or again.
LEMMA DiskFlow ==
  ASSUME IInv, Flowing, NEW s \in Sides, NEW f \in Files,
         DiskFails(s, f) \/ DiskRecovers(s, f)
  PROVE  Flowing'
<1> DEFINE c == contact[s]
           o == contact[Other(s)]
           with(b) == [c EXCEPT !.bad = b]
<1>1. c \in Contacts /\ Between(s, c, o, link) /\ contact \in [Sides -> Contacts]
  BY SideFacts, FlowingBetween
<1>2. PICK b : contact' = [contact EXCEPT ![s] = with(b)] /\ link' = link
  <2>1. CASE DiskFails(s, f)
    <3>1. contact' = [contact EXCEPT ![s] = with(c.bad \cup {f})] /\ link' = link
      BY <1>1, <2>1 DEF DiskFails
    <3> QED
      BY Zenon, <3>1
  <2>2. CASE DiskRecovers(s, f)
    <3>1. contact' = [contact EXCEPT ![s] = with(c.bad \ {f})] /\ link' = link
      BY <1>1, <2>2 DEF DiskRecovers
    <3> QED
      BY Zenon, <3>1
  <2> QED
    BY <2>1, <2>2
<1> DEFINE d == with(b)
<1>3. /\ d.state = c.state /\ d.queue = c.queue /\ d.wire = c.wire
      /\ d.channel = c.channel /\ d.made = c.made /\ d.open = c.open
      /\ d.leaving = c.leaving /\ d.next = c.next /\ d.parts = c.parts
      /\ d.up = c.up /\ d.online = c.online /\ d.closing = c.closing
  BY <1>1 DEF Contacts
<1>4. contact' = [contact EXCEPT ![s] = d]
  BY <1>2
<1> HIDE DEF c, o, d, with
<1>5. Between(s, d, o, link')
  BY <1>1, <1>2, <1>3, SameBetween
<1> QED
  BY <1>4, <1>5, OneSide DEF o

\* Contact::~Contact(): a side without a connection forgets its queues.
LEMMA EvictedFlow ==
  ASSUME IInv, Flowing, NEW s \in Sides, Evicted(s)
  PROVE  Flowing'
<1> DEFINE c == contact[s]
           o == contact[Other(s)]
           d == [Cleared(c) EXCEPT !.greet = FALSE]
<1>1. c \in Contacts /\ Between(s, c, o, link) /\ ~c.online
  BY SideFacts, FlowingBetween DEF Evicted
<1>2. contact' = [contact EXCEPT ![s] = d] /\ link' = link
  BY SideFacts DEF Evicted
<1>3. /\ d.queue = <<>> /\ d.wire = c.wire
      /\ d.channel = c.channel /\ d.made = c.made /\ d.open = c.open
      /\ d.next = c.next /\ d.parts = c.parts /\ ~d.online
      /\ \A f \in Files : \/ d.state[f] = c.state[f]
                          \/ d.state[f] = "FAILED"
      /\ \A f \in Files : d.state[f] = "TRANSFERRING" => c.state[f] = "TRANSFERRING"
  BY <1>1 DEF Cleared, Contacts
<1> HIDE DEF c, o, d
<1>4. Flow(c, o, link) => Flow(d, o, link)
  <2>1. \A f \in Live(d) : f \in Live(c) /\ d.state[f] = c.state[f]
    <3>1. \A f : f \notin ToSet(d.queue)
      BY <1>3, ToSetEmpty
    <3> QED
      BY <1>3, <3>1 DEF Live
  <2>2. Serves(c, o) => Serves(d, o)
    BY <1>3, <2>1 DEF Serves, Sends
  <2>3. Asks(c, o) => Asks(d, o)
    BY <1>3, <2>1 DEF Asks
  <2> QED
    BY <1>3, <2>2, <2>3 DEF Flow
<1>5. Flow(o, c, link) => Flow(o, d, link)
  <2> SUFFICES ASSUME Flow(o, c, link)
               PROVE  Flow(o, d, link)
    OBVIOUS
  <2>0. c.open = {} /\ d.open = {}
    BY <1>1, <1>3 DEF Flow, Channelled
  <2>1. Running(d) = {}
    BY <2>0 DEF Running
  <2>2. \A w, e : Fresh(w, c, e) => Fresh(w, d, e)
    BY <2>1 DEF Fresh
  <2>3. \A w, e, n : Upto(w, c, e, n) => Upto(w, d, e, n)
    BY <2>1 DEF Upto
  <2>4. Serves(o, c) => Serves(o, d)
    BY <1>3, <2>2, <2>3 DEF Serves, Sends
  <2>5. Asks(o, c) => Asks(o, d)
    BY <1>3, <2>2 DEF Asks
  <2>6. Arrives(o.wire, d)
    BY <1>3, <2>1 DEF Arrives
  <2>7. Numbered(d) /\ Channelled(d) /\ Whole(d)
    BY <1>3, <2>0 DEF Flow, Numbered, Channelled, Whole
  <2> QED
    BY <2>4, <2>5, <2>6, <2>7 DEF Flow
<1>6. Between(s, d, o, link')
  BY <1>1, <1>2, <1>4, <1>5 DEF Between
<1> QED
  BY <1>2, <1>6, OneSide DEF o

\* The link breaks.
LEMMA LinkBreaksFlow ==
  ASSUME Flowing, LinkBreaks
  PROVE  Flowing'
<1>1. contact' = contact /\ link' = FALSE
  BY DEF LinkBreaks
<1> QED
  BY <1>1 DEF Flowing, Flow

\* A connection on which no side has a transfer of an earlier one starts afresh.
LEMMA ConnectFlow ==
  ASSUME IInv, Flowing, Connect, ~tainted'
  PROVE  Flowing'
<1> DEFINE c == contact["sender"]
           o == contact["receiver"]
           fresh(b) == [WithoutPeer(b) EXCEPT !.online = TRUE, !.greet = TRUE,
                                              !.wire = <<>>]
           p == fresh(c)
           r == fresh(o)
<1>1. "sender" \in Sides /\ "receiver" \in Sides
  BY DEF Sides
<1>2. /\ c \in Contacts /\ o \in Contacts
      /\ Sound("sender", c) /\ Sound("receiver", o)
  BY <1>1, Zenon DEF IInv, Sound
<1>3. contact'["sender"] = p /\ contact'["receiver"] = r
  <2>1. contact' = [s \in Sides |-> fresh(contact[s])]
    BY Zenon DEF Connect
  <2> HIDE DEF fresh
  <2> QED
    BY <1>1, <2>1
<1>4. ~Inherits("sender") /\ ~Inherits("receiver")
  <2>1. tainted' = (tainted \/ \E s \in Sides : Inherits(s))
    BY Zenon DEF Connect
  <2> QED
    BY <1>1, <2>1
<1>5. /\ c.active = {} /\ \A f \in ToSet(c.queue) : c.state[f] # "QUEUED"
      /\ o.active = {}
  BY <1>4 DEF Inherits
<1>6. Whole(o)
  BY DEF Flowing, Flow
<1>7. /\ p.wire = <<>> /\ p.open = {}
      /\ p.state = c.state /\ p.queue = c.queue
  BY <1>2 DEF WithoutPeer, Contacts
<1>8. /\ r.wire = <<>> /\ r.open = {} /\ r.made = {}
      /\ r.state = o.state /\ r.parts = o.parts
  BY <1>2 DEF WithoutPeer, Contacts
<1>9. \A f \in Files : c.state[f] # "TRANSFERRING"
  BY <1>2, <1>5 DEF Sound, Slots
<1> HIDE DEF fresh, p, r, c, o
<1>10. Live(p) = {}
  BY <1>5, <1>7, <1>9 DEF Live
<1>11. Numbered(r) /\ Channelled(r) /\ Whole(r) /\ Running(r) = {}
  BY <1>6, <1>8 DEF Numbered, Channelled, Whole, Running
<1>12. 1..Len(p.wire) = {} /\ 1..Len(r.wire) = {}
  BY <1>7, <1>8
<1>13. Arrives(p.wire, r)
  BY <1>11, <1>12 DEF Arrives, Carried
<1>14. Serves(p, r) /\ Asks(p, r)
  BY <1>7, <1>10, <1>12 DEF Serves, Asks
<1>15. Flow(p, r, link')
  BY <1>11, <1>13, <1>14 DEF Flow
<1> QED
  BY <1>3, <1>15 DEF Flowing

(***************************************************************************)
(* The theorem.                                                            *)
(***************************************************************************)

\* Nothing is on its way at first.
LEMMA InitFlows == Init => FlowInv
<1> SUFFICES ASSUME Init
             PROVE  Flowing
  BY DEF FlowInv, Flowing
<1> DEFINE c == NewContact
<1>1. contact["sender"] = c /\ contact["receiver"] = c /\ link = FALSE
  BY DEF Init, Sides
<1>2. /\ c.wire = <<>> /\ c.open = {} /\ c.made = {}
      /\ \A f \in Files : c.state[f] = "NONE"
  BY DEF NewContact
<1> HIDE DEF c
<1>3. Numbered(c) /\ Channelled(c) /\ Whole(c) /\ Running(c) = {}
  BY <1>2 DEF Numbered, Channelled, Whole, Running
<1>4. 1..Len(c.wire) = {}
  BY <1>2
<1>5. Arrives(c.wire, c)
  BY <1>3, <1>4 DEF Arrives, Carried
<1> QED
  BY <1>1, <1>3, <1>5 DEF Flowing, Flow

\* No step disturbs what is on its way, but one that taints the history.
LEMMA NextFlows ==
  ASSUME IInv, FlowInv, [Next]_vars
  PROVE  FlowInv'
<1>1. tainted => tainted'
  BY Zenon DEF Next, UserStep, ReadStep, TaskStep, BufferStep, DiskStep, WriteFails,
     DiskFails, DiskRecovers, LinkStep, Connect, LinkBreaks, OnDisconnectedFromPeer,
     OnCloseLater, Evicted, DisconnectFromContact, Quit, QuitSending, Start, vars
<1> SUFFICES ASSUME ~tainted'
             PROVE  Flowing'
  BY DEF FlowInv, Flowing
<1>2. Flowing
  BY <1>1 DEF FlowInv, Flowing
<1>3. CASE UserStep
  <2>1. PICK f \in Files : \/ AddFile(f) \/ Accept(f) \/ Reject(f)
                           \/ \E s \in Sides : Cancel(s, f)
    BY <1>3 DEF UserStep
  <2> QED
    BY <1>2, <2>1, AddFileFlow, AcceptFlow, RejectFlow, CancelFlow
<1>4. ASSUME NEW s \in Sides, ReadStep(s)
      PROVE  Flowing'
  <2>1. \/ ReceivedFileOffer \/ ReceivedChunk \/ AckForNoFile(s) \/ ReceivedAck(s)
        \/ ReceivedProceed
    BY <1>4 DEF ReadStep
  <2> QED
    BY <1>2, <2>1, ReceivedFileOfferFlow, ReceivedChunkFlow, AckForNoFileFlow,
       ReceivedAckFlow, ReceivedProceedFlow
<1>5. ASSUME NEW s \in Sides, TaskStep(s)
      PROVE  Flowing'
  <2>1. \/ \E f \in Files : FileHashed(f) \/ ReceivedFileHashed(f)
        \/ \E ch \in contact[s].leaving : RemoveTransfer(s, ch)
    BY <1>5 DEF TaskStep
  <2> QED
    BY <1>2, <2>1, FileHashedFlow, ReceivedFileHashedFlow, RemoveTransferFlow
<1>6. ASSUME NEW s \in Sides, BufferStep(s)
      PROVE  Flowing'
  BY <1>2, <1>6, BufferFlow DEF BufferStep
<1>7. CASE DiskStep
  BY <1>2, <1>7, WriteFailsFlow, DiskFlow DEF DiskStep
<1>8. CASE LinkStep
  <2>1. \/ Connect \/ LinkBreaks
        \/ \E s \in Sides : \/ OnDisconnectedFromPeer(s) \/ OnCloseLater(s)
                            \/ Evicted(s) \/ DisconnectFromContact(s)
                            \/ Quit(s) \/ QuitSending(s) \/ Start(s)
    BY <1>8 DEF LinkStep
  <2> QED
    BY <1>2, <2>1, ConnectFlow, LinkBreaksFlow, OnDisconnectedFlow, EvictedFlow,
       DisconnectFlow, QuitFlow, StartFlow
<1>9. CASE UNCHANGED vars
  BY <1>2, <1>9 DEF vars, Flowing
<1> QED
  BY <1>3, <1>4, <1>5, <1>6, <1>7, <1>8, <1>9 DEF Next

\* A file that the receiver shows as received, its hash compared, holds all the chunks
\* of what was sent, in their order and none twice, also when a disk did not take a
\* chunk: Peer::processStream() closes the connection, and the transfer starts anew.
\* That is so until a connection finds transfers of an earlier one in a queue.
THEOREM DoneFilesAreWhole == Spec => []DoneIsWhole
<1>1. FlowInv => DoneIsWhole
  BY DEF FlowInv, Flow, Whole, DoneIsWhole
<1>2. IInv /\ FlowInv /\ [Next]_vars => FlowInv'
  BY NextFlows
<1> QED
  BY <1>1, <1>2, InitFlows, Invariance, PTL DEF Spec

(***************************************************************************)
(* Why the two ends agree: what is on its way when something is written,   *)
(* or read.                                                                *)
(***************************************************************************)

\* What is written is on its way.
LEMMA OnAppend ==
  ASSUME NEW w \in Seq(Packets), NEW x \in Packets
  PROVE  \A S : On(Append(w, x), S) <=> On(w, S) \/ x \in S
<1> DEFINE v == Append(w, x)
<1>1. /\ v \in Seq(Packets) /\ Len(v) = Len(w) + 1 /\ Len(w) \in Nat
      /\ v[Len(w) + 1] = x
      /\ \A i \in 1..Len(w) : v[i] = w[i] /\ i \in 1..Len(v)
      /\ \A i \in 1..Len(v) : i \in 1..Len(w) \/ i = Len(w) + 1
  BY AppendPlaces
<1> HIDE DEF v
<1>2. Len(w) + 1 \in 1..Len(v)
  BY <1>1
<1>3. ASSUME NEW S
      PROVE  On(v, S) <=> On(w, S) \/ x \in S
  <2>1. On(v, S) => On(w, S) \/ x \in S
    BY <1>1 DEF On
  <2>2. On(w, S) => On(v, S)
    BY <1>1 DEF On
  <2>3. x \in S => On(v, S)
    BY <1>1, <1>2 DEF On
  <2> QED
    BY <2>1, <2>2, <2>3
<1> QED
  BY <1>3 DEF v

\* What is read was on its way, and the rest still is.
LEMMA OnTail ==
  ASSUME NEW w \in Seq(Packets), w # <<>>
  PROVE  /\ Head(w) \in Packets /\ Tail(w) \in Seq(Packets)
         /\ \A S : On(w, S) <=> Head(w) \in S \/ On(Tail(w), S)
<1> DEFINE v == Tail(w)
<1>1. /\ v \in Seq(Packets) /\ Head(w) = w[1] /\ 1 \in 1..Len(w) /\ w[1] \in Packets
      /\ \A i \in 1..Len(v) : v[i] = w[i + 1] /\ i + 1 \in 1..Len(w)
      /\ \A j \in 1..Len(w) : j = 1 \/ (j - 1 \in 1..Len(v) /\ v[j - 1] = w[j])
  BY TailPlaces
<1> HIDE DEF v
<1>2. ASSUME NEW S
      PROVE  On(w, S) <=> w[1] \in S \/ On(v, S)
  <2>1. On(v, S) => On(w, S)
    BY <1>1 DEF On
  <2>2. On(w, S) => w[1] \in S \/ On(v, S)
    BY <1>1 DEF On
  <2>3. w[1] \in S => On(w, S)
    BY <1>1 DEF On
  <2> QED
    BY <2>1, <2>2, <2>3
<1> QED
  BY <1>1, <1>2 DEF v

\* What is written keeps the order unless it clashes with something before it.
LEMMA OrderedAppend ==
  ASSUME NEW w \in Seq(Packets), InOrder(w), NEW x \in Packets,
         ~On(w, ClashingBefore(x))
  PROVE  InOrder(Append(w, x))
<1> DEFINE v == Append(w, x)
           n == Len(w) + 1
<1>1. /\ v \in Seq(Packets) /\ Len(v) = n /\ Len(w) \in Nat /\ v[n] = x
      /\ \A i \in 1..Len(w) : v[i] = w[i] /\ i \in 1..Len(v)
      /\ \A i \in 1..Len(v) : i \in 1..Len(w) \/ i = n
  BY AppendPlaces
<1> HIDE DEF v
<1>2. ASSUME NEW i \in 1..Len(v), NEW j \in 1..Len(v), i < j
      PROVE  ~Clash(v[i], v[j])
  <2>1. i \in 1..Len(w)
    BY <1>1, <1>2
  <2>2. v[i] = w[i] /\ w[i] \in Packets
    BY <1>1, <2>1
  <2>3. CASE j \in 1..Len(w)
    BY <1>1, <1>2, <2>1, <2>3 DEF InOrder
  <2>4. CASE j = n
    <3>1. w[i] \notin ClashingBefore(x)
      BY <2>1 DEF On
    <3> QED
      BY <1>1, <2>2, <2>4, <3>1 DEF ClashingBefore
  <2> QED
    BY <1>1, <2>3, <2>4
<1> QED
  BY <1>2 DEF InOrder, v

\* What is read clashes with nothing behind it, which keeps its order.
LEMMA OrderedTail ==
  ASSUME NEW w \in Seq(Packets), w # <<>>, InOrder(w)
  PROVE  InOrder(Tail(w)) /\ ~On(Tail(w), Clashing(Head(w)))
<1> DEFINE v == Tail(w)
<1>1. /\ v \in Seq(Packets) /\ Head(w) = w[1] /\ 1 \in 1..Len(w)
      /\ Len(v) \in Nat
      /\ \A i \in 1..Len(v) : v[i] = w[i + 1] /\ i + 1 \in 1..Len(w)
  <2>1. Len(v) = Len(w) - 1 /\ Len(w) \in Nat \ {0}
    BY TailPlaces
  <2>2. Len(v) \in Nat
    BY <2>1
  <2> QED
    BY <2>2, TailPlaces
<1> HIDE DEF v
<1>2. ASSUME NEW i \in 1..Len(v), NEW j \in 1..Len(v), i < j
      PROVE  ~Clash(v[i], v[j])
  <2>1. i + 1 < j + 1
    BY <1>1, <1>2
  <2> QED
    BY <1>1, <2>1 DEF InOrder
<1>3. ASSUME NEW i \in 1..Len(v)
      PROVE  ~Clash(w[1], v[i])
  <2>1. 1 < i + 1
    BY <1>1
  <2> QED
    BY <1>1, <2>1 DEF InOrder
<1> QED
  BY <1>1, <1>2, <1>3 DEF InOrder, On, Clashing, v

(***************************************************************************)
(* The moves of the sender that keep the two in agreement.                 *)
(***************************************************************************)

\* From c to d, only the state of f changes, and becomes st.
Alters(c, d, f, st) ==
  d.state[f] = st /\ \A g \in Files : g # f => d.state[g] = c.state[g]

\* What the state of a file becomes when nothing is said.
SendsQuietly(p, st) ==
  \/ st = p
  \/ p = "NONE" /\ st = "HASHING"
  \/ p = "HASHING" /\ st \in {"WAITING", "FAILED"}
  \/ p = "WAITING" /\ st = "CANCELLED"
  \/ p = "QUEUED" /\ st = "TRANSFERRING"

\* What is said with what the state becomes.
SendsSaying(p, st, x) ==
  \/ x.kind = "Offer" /\ p = "WAITING" /\ st = "OFFERED"
  \/ /\ x.kind = "Ack" /\ x.status = "Abort"
     /\ p \in {"WAITING", "OFFERED", "QUEUED", "TRANSFERRING", "CANCELLED"}
     /\ st = "CANCELLED"
  \/ /\ x.kind = "Chunk" /\ x.part # Chunks
     /\ p \notin {"NONE", "HASHING", "WAITING"} /\ st = p
  \/ /\ x.kind = "Chunk" /\ x.part = Chunks
     /\ p = "TRANSFERRING" /\ st = "DONE"

\* Nothing is said.
LEMMA SenderQuiet ==
  ASSUME NEW c, NEW r, Agreed(c, r), NEW f \in Files, NEW st, NEW d,
         Alters(c, d, f, st), d.wire = c.wire,
         link \/ d.active \subseteq c.active,
         SendsQuietly(c.state[f], st)
  PROVE  Agreed(d, r)
<1>1. d.state[f] = st /\ \A g \in Files : g # f => d.state[g] = c.state[g]
  BY DEF Alters
<1>2. ASSUME NEW g \in Files
      PROVE  Match(d.state[g], r.state[g], d.wire, r.wire, g)
  <2>1. Match(c.state[g], r.state[g], c.wire, r.wire, g)
    BY DEF Agreed
  <2>2. CASE g # f
    BY <1>1, <2>1, <2>2
  <2>3. CASE g = f
    <3> DEFINE p == c.state[f]
               q == r.state[f]
    <3>1. Match(p, q, c.wire, r.wire, f)
      BY <2>1, <2>3
    <3> HIDE DEF p, q
    <3>2. SendsQuietly(p, st)
      BY DEF p
    <3>3. Match(st, q, c.wire, r.wire, f)
      BY <3>1, <3>2 DEF Match, SendsQuietly
    <3> QED
      BY <1>1, <2>3, <3>3 DEF q
  <2> QED
    BY <2>2, <2>3
<1>3. ~link => Apart(d, r)
  BY DEF Agreed, Apart
<1> QED
  BY <1>2, <1>3 DEF Agreed

\* What is said of a file is not said of another.
LEMMA AboutOne ==
  ASSUME NEW x \in Packets, NEW g, g # x.file
  PROVE  x \notin Offers(g) /\ x \notin Lasts(g) /\ \A T : x \notin Acks(g, T)
BY DEF Offers, Lasts, Acks

\* What the sender says, kind by kind.
LEMMA SaidBySender ==
  ASSUME NEW x \in Packets, NEW p, NEW st, SendsSaying(p, st, x)
  PROVE  LET f == x.file
         IN /\ x \notin Odd("sender") /\ f \in Files
            /\ x \in Offers(f) => p = "WAITING" /\ st = "OFFERED"
            /\ x \in Aborts(f) =>
                 /\ p \in {"WAITING", "OFFERED", "QUEUED", "TRANSFERRING", "CANCELLED"}
                 /\ st = "CANCELLED"
            /\ x \in Lasts(f) => p = "TRANSFERRING" /\ st = "DONE"
            /\ x \notin Offers(f) /\ x \notin Aborts(f) /\ x \notin Lasts(f) =>
                 p \notin {"NONE", "HASHING", "WAITING"} /\ st = p
            /\ p = "WAITING" => x \in Offers(f) \/ x \in Aborts(f)
<1>1. x.file \in Files /\ x.kind \in {"Offer", "Ack", "Chunk"}
  BY DEF Packets
<1>2. CASE x.kind = "Offer"
  BY <1>1, <1>2 DEF SendsSaying, Odd, Offers, Aborts, Acks, Lasts
<1>3. CASE x.kind = "Ack"
  BY <1>1, <1>3 DEF SendsSaying, Odd, Offers, Aborts, Acks, Lasts
<1>4. CASE x.kind = "Chunk"
  BY <1>1, <1>4 DEF SendsSaying, Odd, Offers, Aborts, Acks, Lasts
<1> QED
  BY <1>1, <1>2, <1>3, <1>4

\* Something is said.
LEMMA SenderSays ==
  ASSUME NEW c \in Contacts, NEW r, Agreed(c, r), link, NEW st, NEW d,
         NEW x \in Packets, Alters(c, d, x.file, st),
         d.wire = Append(c.wire, x), SendsSaying(c.state[x.file], st, x)
  PROVE  Agreed(d, r)
<1> DEFINE f == x.file
           w == c.wire
           u == Append(w, x)
           v == r.wire
           p == c.state[f]
           q == r.state[f]
<1>1. /\ x \notin Odd("sender") /\ f \in Files
      /\ x \in Offers(f) => p = "WAITING" /\ st = "OFFERED"
      /\ x \in Aborts(f) =>
           /\ p \in {"WAITING", "OFFERED", "QUEUED", "TRANSFERRING", "CANCELLED"}
           /\ st = "CANCELLED"
      /\ x \in Lasts(f) => p = "TRANSFERRING" /\ st = "DONE"
      /\ x \notin Offers(f) /\ x \notin Aborts(f) /\ x \notin Lasts(f) =>
           p \notin {"NONE", "HASHING", "WAITING"} /\ st = p
      /\ p = "WAITING" => x \in Offers(f) \/ x \in Aborts(f)
  BY SaidBySender
<1>2. w \in Seq(Packets)
  BY DEF Contacts
<1>3. \A S : On(u, S) <=> On(w, S) \/ x \in S
  BY <1>2, OnAppend
<1>4. d.state[f] = st /\ \A g \in Files : g # f => d.state[g] = c.state[g]
  BY DEF Alters
<1>5. d.wire = u
  OBVIOUS
<1>6. Match(p, q, w, v, f)
  BY <1>1 DEF Agreed
<1>7. InOrder(u)
  <2>1. ~On(w, ClashingBefore(x))
    <3>1. SUFFICES ASSUME NEW i \in 1..Len(w), Clash(w[i], x)
                   PROVE  FALSE
      BY DEF On, ClashingBefore
    <3>2. w[i] \in Packets
      BY <1>2
    <3>3. CASE x.kind = "Offer"
      <4>1. x \in Offers(f) /\ w[i] \in Offers(f)
        BY <3>1, <3>2, <3>3 DEF Offers, Clash
      <4>2. On(w, Offers(f)) /\ p = "WAITING"
        BY <1>1, <4>1 DEF On
      <4> QED
        BY <1>6, <4>2 DEF Match
    <3>4. CASE x.kind # "Offer"
      <4>1. x.kind = "Ack" /\ x.status \in {"Received", "Proceed"}
        BY <3>1, <3>4 DEF Clash
      <4> QED
        BY <1>1, <4>1 DEF Odd
    <3> QED
      BY <3>3, <3>4
  <2> QED
    BY <1>2, <2>1, OrderedAppend DEF Agreed
<1>8. ~On(u, Odd("sender"))
  BY <1>1, <1>3 DEF Agreed
<1> HIDE DEF f, u, w, v, p, q
<1>9. Match(st, q, u, v, f)
  <2>1. On(u, Offers(f)) <=> On(w, Offers(f)) \/ x \in Offers(f)
    BY <1>3
  <2>2. On(u, Aborts(f)) <=> On(w, Aborts(f)) \/ x \in Aborts(f)
    BY <1>3
  <2>3. On(u, Lasts(f)) <=> On(w, Lasts(f)) \/ x \in Lasts(f)
    BY <1>3
  <2>4. ~(x \in Offers(f) /\ x \in Aborts(f)) /\ ~(x \in Lasts(f) /\ x \in Aborts(f))
        /\ ~(x \in Lasts(f) /\ x \in Offers(f))
    BY DEF Offers, Aborts, Acks, Lasts
  <2>5. CASE x \in Offers(f)
    BY <1>1, <1>6, <2>1, <2>2, <2>3, <2>4, <2>5 DEF Match
  <2>6. CASE x \in Aborts(f)
    BY <1>1, <1>6, <2>1, <2>2, <2>3, <2>4, <2>6 DEF Match
  <2>7. CASE x \in Lasts(f)
    BY <1>1, <1>6, <2>1, <2>2, <2>3, <2>4, <2>7 DEF Match
  <2>8. CASE x \notin Offers(f) /\ x \notin Aborts(f) /\ x \notin Lasts(f)
    BY <1>1, <1>6, <2>1, <2>2, <2>3, <2>8 DEF Match
  <2> QED
    BY <2>5, <2>6, <2>7, <2>8
<1>10. ASSUME NEW g \in Files, g # f
       PROVE  Match(d.state[g], r.state[g], u, v, g)
  <2>1. Match(c.state[g], r.state[g], w, v, g)
    BY DEF Agreed, v, w
  <2>2. x \notin Offers(g) /\ x \notin Lasts(g) /\ x \notin Aborts(g)
    BY <1>10, AboutOne DEF f, Aborts
  <2>3. On(u, Offers(g)) <=> On(w, Offers(g))
    BY <1>3, <2>2
  <2>4. On(u, Aborts(g)) <=> On(w, Aborts(g))
    BY <1>3, <2>2
  <2>5. On(u, Lasts(g)) <=> On(w, Lasts(g))
    BY <1>3, <2>2
  <2>6. d.state[g] = c.state[g]
    BY <1>4, <1>10
  <2> QED
    BY <2>1, <2>3, <2>4, <2>5, <2>6 DEF Match
<1>11. \A g \in Files : Match(d.state[g], r.state[g], d.wire, r.wire, g)
  BY <1>4, <1>5, <1>9, <1>10 DEF v, q
<1> QED
  BY <1>5, <1>7, <1>8, <1>11 DEF Agreed

(***************************************************************************)
(* The moves of the receiver.                                              *)
(***************************************************************************)

\* What the state of a file becomes when nothing is said.
ReceivesQuietly(q, st) ==
  \/ st = q
  \/ q = "OFFERED" /\ st = "QUEUED"
  \/ q = "HASHING" /\ st = "DONE"

\* What is said with what the state becomes.
ReceivesSaying(q, st, x) ==
  /\ x.kind = "Ack"
  /\ \/ x.status = "Proceed" /\ q = "QUEUED" /\ st = "TRANSFERRING"
     \/ /\ x.status \in {"Rejected", "Abort"}
        /\ q # "NONE" /\ st \in {"REJECTED", "CANCELLED"}

\* Nothing is said.
LEMMA ReceiverQuiet ==
  ASSUME NEW p, NEW c, Agreed(p, c), NEW f \in Files, NEW st, NEW d,
         Alters(c, d, f, st), d.wire = c.wire,
         ReceivesQuietly(c.state[f], st), OneChannel(d)
  PROVE  Agreed(p, d)
<1>1. d.state[f] = st /\ \A g \in Files : g # f => d.state[g] = c.state[g]
  BY DEF Alters
<1>2. ASSUME NEW g \in Files
      PROVE  Match(p.state[g], d.state[g], p.wire, d.wire, g)
  <2>1. Match(p.state[g], c.state[g], p.wire, c.wire, g)
    BY DEF Agreed
  <2>2. CASE g # f
    BY <1>1, <2>1, <2>2
  <2>3. CASE g = f
    <3> DEFINE a == p.state[f]
               q == c.state[f]
    <3>1. Match(a, q, p.wire, c.wire, f)
      BY <2>1, <2>3
    <3> HIDE DEF a, q
    <3>2. ReceivesQuietly(q, st)
      BY DEF q
    <3>3. Match(a, st, p.wire, c.wire, f)
      BY <3>1, <3>2 DEF Match, ReceivesQuietly, GivenUp
    <3> QED
      BY <1>1, <2>3, <3>3 DEF a
  <2> QED
    BY <2>2, <2>3
<1>3. ASSUME ~link
      PROVE  Apart(p, d)
  <2>1. Apart(p, c)
    BY <1>3 DEF Agreed
  <2>2. c.state[f] = "NONE"
    BY <2>1 DEF Apart
  <2>3. st = "NONE"
    BY <2>2 DEF ReceivesQuietly
  <2> QED
    BY <1>1, <2>1, <2>3 DEF Apart
<1> QED
  BY <1>2, <1>3 DEF Agreed

\* Something is said.
LEMMA ReceiverSays ==
  ASSUME NEW p, NEW c \in Contacts, Agreed(p, c), link, NEW st, NEW d,
         NEW x \in Packets, Alters(c, d, x.file, st),
         d.wire = Append(c.wire, x), ReceivesSaying(c.state[x.file], st, x),
         OneChannel(d)
  PROVE  Agreed(p, d)
<1> DEFINE f == x.file
           w == p.wire
           v == c.wire
           u == Append(v, x)
           a == p.state[f]
           q == c.state[f]
<1>1. f \in Files /\ x.kind = "Ack" /\ x \notin Odd("receiver")
  BY DEF Packets, ReceivesSaying, Odd
<1>2. v \in Seq(Packets)
  BY DEF Contacts
<1>3. \A S : On(u, S) <=> On(v, S) \/ x \in S
  BY <1>2, OnAppend
<1>4. d.state[f] = st /\ \A g \in Files : g # f => d.state[g] = c.state[g]
  BY DEF Alters
<1>5. d.wire = u
  OBVIOUS
<1>6. Match(a, q, w, v, f)
  BY <1>1 DEF Agreed
<1>7. /\ x \notin Receipts(f)
      /\ x \in Requests(f) => q = "QUEUED" /\ st = "TRANSFERRING"
      /\ x \in Refusals(f) => q # "NONE" /\ st \in {"REJECTED", "CANCELLED"}
      /\ x \in Requests(f) \/ x \in Refusals(f)
  BY <1>1 DEF ReceivesSaying, Receipts, Requests, Refusals, Acks
<1>8. InOrder(u)
  <2>1. ~On(v, ClashingBefore(x))
    <3>1. SUFFICES ASSUME NEW i \in 1..Len(v), Clash(v[i], x)
                   PROVE  FALSE
      BY DEF On, ClashingBefore
    <3>2. v[i] \in Packets /\ v[i] \notin Odd("receiver")
      BY <1>2 DEF Agreed, On
    <3>3. /\ v[i].kind = "Ack" /\ v[i].file = f /\ v[i].status # "Received"
          /\ q = "QUEUED"
      BY <1>1, <3>1 DEF Clash, ReceivesSaying
    <3>4. v[i].status \in {"Proceed", "Rejected", "Abort"}
      <4>1. v[i].status \in AckStatus
        BY <3>2, <3>3 DEF Packets
      <4>2. v[i].status \notin {"Failed", "Completed"}
        BY <3>2 DEF Odd
      <4> QED
        BY <3>3, <4>1, <4>2 DEF AckStatus
    <3>5. v[i] \in Requests(f) \/ v[i] \in Refusals(f)
      BY <3>2, <3>3, <3>4 DEF Requests, Refusals, Acks
    <3>6. On(v, Requests(f)) \/ On(v, Refusals(f))
      BY <3>5 DEF On
    <3> HIDE DEF a, q, w, v, f
    <3> QED
      BY <1>6, <3>3, <3>6 DEF Match, GivenUp
  <2> QED
    BY <1>2, <2>1, OrderedAppend DEF Agreed
<1>9. ~On(u, Odd("receiver"))
  BY <1>1, <1>3 DEF Agreed
<1> HIDE DEF f, u, w, v, a, q
<1>10. Match(a, st, w, u, f)
  <2>1. On(u, Receipts(f)) <=> On(v, Receipts(f))
    BY <1>3, <1>7
  <2>2. On(u, Requests(f)) <=> On(v, Requests(f)) \/ x \in Requests(f)
    BY <1>3
  <2>3. On(u, Refusals(f)) <=> On(v, Refusals(f)) \/ x \in Refusals(f)
    BY <1>3
  <2>4. CASE x \in Requests(f)
    <3>1. x \notin Refusals(f)
      BY <2>4 DEF Requests, Refusals, Acks
    <3> QED
      BY <1>6, <1>7, <2>1, <2>2, <2>3, <2>4, <3>1 DEF Match, GivenUp
  <2>5. CASE x \in Refusals(f)
    <3>1. x \notin Requests(f)
      BY <2>5 DEF Requests, Refusals, Acks
    <3> QED
      BY <1>6, <1>7, <2>1, <2>2, <2>3, <2>5, <3>1 DEF Match, GivenUp
  <2> QED
    BY <1>7, <2>4, <2>5
<1>11. ASSUME NEW g \in Files, g # f
       PROVE  Match(p.state[g], d.state[g], w, u, g)
  <2>1. Match(p.state[g], c.state[g], w, v, g)
    BY DEF Agreed, v, w
  <2>2. x \notin Receipts(g) /\ x \notin Requests(g) /\ x \notin Refusals(g)
    BY <1>11, AboutOne DEF f, Receipts, Requests, Refusals
  <2>3. On(u, Receipts(g)) <=> On(v, Receipts(g))
    BY <1>3, <2>2
  <2>4. On(u, Requests(g)) <=> On(v, Requests(g))
    BY <1>3, <2>2
  <2>5. On(u, Refusals(g)) <=> On(v, Refusals(g))
    BY <1>3, <2>2
  <2>6. d.state[g] = c.state[g]
    BY <1>4, <1>11
  <2> QED
    BY <2>1, <2>3, <2>4, <2>5, <2>6 DEF Match
<1>12. \A g \in Files : Match(p.state[g], d.state[g], p.wire, d.wire, g)
  BY <1>4, <1>5, <1>10, <1>11 DEF w, a
<1> QED
  BY <1>5, <1>8, <1>9, <1>12 DEF Agreed

\* What was said, and done, to no file and no wire does not matter to the sender.
LEMMA SenderSame ==
  ASSUME NEW c, NEW r, Agreed(c, r), NEW d, d.state = c.state, d.wire = c.wire,
         link \/ d.active \subseteq c.active
  PROVE  Agreed(d, r)
BY DEF Agreed, Apart

(***************************************************************************)
(* What is read.                                                           *)
(***************************************************************************)

\* What the sender, which has written w, makes of the state p when it reads x.
SenderMakes(p, st, x, w) ==
  \/ x.status = "Received" /\ st = p
  \/ x.status = "Proceed" /\ p = "OFFERED" /\ st = "QUEUED"
  \/ x.status = "Proceed" /\ p = "CANCELLED" /\ st = p /\ On(w, Aborts(x.file))
  \/ /\ x.status \in {"Rejected", "Abort"}
     /\ st \in {"REJECTED", "CANCELLED"} /\ (p = "CANCELLED" => st = p)

\* Something is written only once there is a connection.
LEMMA WrittenIsLinked ==
  ASSUME NEW p, NEW r, Agreed(p, r), p.wire # <<>> \/ r.wire # <<>>
  PROVE  link
BY DEF Agreed, Apart

\* The sender reads an ack.
LEMMA SenderHears ==
  ASSUME NEW c \in Contacts, NEW r \in Contacts, Agreed(c, r), r.wire # <<>>,
         NEW x, x = Head(r.wire), NEW st, NEW d,
         Alters(c, d, x.file, st), d.wire = c.wire,
         SenderMakes(c.state[x.file], st, x, c.wire),
         NEW o, o.state = r.state, o.wire = Tail(r.wire), OneChannel(o)
  PROVE  Agreed(d, o)
<1> DEFINE f == x.file
           w == c.wire
           v == r.wire
           u == Tail(v)
           p == c.state[f]
           q == r.state[f]
<1>1. /\ x \in Packets /\ u \in Seq(Packets)
      /\ \A S : On(v, S) <=> x \in S \/ On(u, S)
  BY OnTail DEF Contacts
<1>2. x \notin Odd("receiver")
  BY <1>1 DEF Agreed
<1>3. x.kind = "Ack" /\ x.status \in {"Received", "Proceed", "Rejected", "Abort"}
      /\ f \in Files
  BY <1>1, <1>2 DEF Odd, Packets, AckStatus
<1>4. InOrder(u) /\ ~On(u, Clashing(x))
  BY OrderedTail DEF Agreed, Contacts
<1>6. d.state[f] = st /\ \A g \in Files : g # f => d.state[g] = c.state[g]
  BY DEF Alters
<1>7. Match(p, q, w, v, f)
  BY <1>3 DEF Agreed
<1>8. ~On(u, Odd("receiver"))
  BY <1>1 DEF Agreed
<1>9. link
  BY WrittenIsLinked
<1>10. o.wire = u
  OBVIOUS
<1>11. /\ x \in Receipts(f) <=> x.status = "Received"
       /\ x \in Requests(f) <=> x.status = "Proceed"
       /\ x \in Refusals(f) <=> x.status \in {"Rejected", "Abort"}
  BY <1>1, <1>3 DEF Receipts, Requests, Refusals, Acks
<1>12. /\ ~On(u, Receipts(f))
       /\ x.status # "Received" => ~On(u, Requests(f))
  <2>1. Receipts(f) \subseteq Clashing(x)
    BY <1>3 DEF Receipts, Acks, Clashing, Clash
  <2>2. x.status # "Received" => Requests(f) \subseteq Clashing(x)
    BY <1>3 DEF Requests, Acks, Clashing, Clash
  <2> QED
    BY <1>4, <2>1, <2>2 DEF On
<1>13. SenderMakes(p, st, x, w)
  OBVIOUS
<1> HIDE DEF f, w, v, u, p, q
<1>14. Match(st, q, w, u, f)
  <2>1. On(v, Receipts(f)) <=> x \in Receipts(f) \/ On(u, Receipts(f))
    BY <1>1
  <2>2. On(v, Requests(f)) <=> x \in Requests(f) \/ On(u, Requests(f))
    BY <1>1
  <2>3. On(v, Refusals(f)) <=> x \in Refusals(f) \/ On(u, Refusals(f))
    BY <1>1
  <2>4. CASE x.status = "Received"
    BY <1>7, <1>11, <1>12, <1>13, <2>1, <2>2, <2>3, <2>4 DEF Match, SenderMakes
  <2>5. CASE x.status = "Proceed" /\ p = "OFFERED"
    BY <1>7, <1>11, <1>12, <1>13, <2>1, <2>2, <2>3, <2>5 
       DEF Match, SenderMakes, GivenUp
  <2>6. CASE x.status = "Proceed" /\ p = "CANCELLED"
    <3>1. st = p /\ On(w, Aborts(f))
      BY <1>13, <2>6 DEF SenderMakes, f
    <3>2. x \in Requests(f) /\ x \notin Receipts(f) /\ x \notin Refusals(f)
      BY <1>11, <2>6
    <3> QED
      BY <1>7, <1>12, <2>1, <2>2, <2>3, <2>6, <3>1, <3>2 DEF Match, GivenUp
  <2>7. CASE x.status \in {"Rejected", "Abort"}
    BY <1>7, <1>11, <1>12, <1>13, <2>1, <2>2, <2>3, <2>7
       DEF Match, SenderMakes, GivenUp
  <2> QED
    BY <1>13, <2>4, <2>5, <2>6, <2>7 DEF SenderMakes
<1>15. ASSUME NEW g \in Files, g # f
       PROVE  Match(d.state[g], r.state[g], w, u, g)
  <2>1. Match(c.state[g], r.state[g], w, v, g)
    BY DEF Agreed, v, w
  <2>2. x \notin Receipts(g) /\ x \notin Requests(g) /\ x \notin Refusals(g)
    BY <1>1, <1>15, AboutOne DEF f, Receipts, Requests, Refusals
  <2>3. On(v, Receipts(g)) <=> On(u, Receipts(g))
    BY <1>1, <2>2
  <2>4. On(v, Requests(g)) <=> On(u, Requests(g))
    BY <1>1, <2>2
  <2>5. On(v, Refusals(g)) <=> On(u, Refusals(g))
    BY <1>1, <2>2
  <2>6. d.state[g] = c.state[g]
    BY <1>6, <1>15
  <2> QED
    BY <2>1, <2>3, <2>4, <2>5, <2>6 DEF Match
<1>16. \A g \in Files : Match(d.state[g], o.state[g], d.wire, o.wire, g)
  BY <1>6, <1>10, <1>14, <1>15 DEF w, q
<1> QED
  BY <1>4, <1>8, <1>9, <1>10, <1>16 DEF Agreed

\* What the receiver makes of the state q when it reads x.
ReceiverMakes(q, st, x) ==
  \/ x.kind = "Offer" /\ st = "OFFERED"
  \/ x.kind = "Ack" /\ q \notin {"NONE", "TRANSFERRING"} /\ st = "CANCELLED"
  \/ x.kind = "Chunk" /\ (x.part # Chunks \/ q # "TRANSFERRING") /\ st = q
  \/ x.kind = "Chunk" /\ x.part = Chunks /\ q = "TRANSFERRING" /\ st = "HASHING"

\* The receiver reads; what is offered is new to it, and nothing was said of it.
LEMMA ReceiverHears ==
  ASSUME NEW c \in Contacts, NEW r \in Contacts, Agreed(c, r), c.wire # <<>>,
         NEW x, x = Head(c.wire), NEW st, NEW d,
         Alters(r, d, x.file, st), d.wire = r.wire,
         ReceiverMakes(r.state[x.file], st, x), OneChannel(d),
         NEW o, o.state = c.state, o.wire = Tail(c.wire)
  PROVE  /\ Agreed(o, d)
         /\ x.kind = "Offer" =>
              /\ r.state[x.file] = "NONE"
              /\ \A T : ~On(r.wire, Acks(x.file, T))
<1> DEFINE f == x.file
           w == c.wire
           v == r.wire
           u == Tail(w)
           p == c.state[f]
           q == r.state[f]
<1>1. /\ x \in Packets /\ u \in Seq(Packets)
      /\ \A S : On(w, S) <=> x \in S \/ On(u, S)
  BY OnTail DEF Contacts
<1>2. x \notin Odd("sender") /\ f \in Files
  BY <1>1 DEF Agreed, Packets
<1>3. InOrder(u) /\ ~On(u, Clashing(x))
  BY OrderedTail DEF Agreed, Contacts
<1>5. d.state[f] = st /\ \A g \in Files : g # f => d.state[g] = r.state[g]
  BY DEF Alters
<1>6. Match(p, q, w, v, f)
  BY <1>2 DEF Agreed
<1>7. ~On(u, Odd("sender"))
  BY <1>1 DEF Agreed
<1>8. link
  BY WrittenIsLinked
<1>9. o.wire = u
  OBVIOUS
<1>10. /\ x \in Offers(f) <=> x.kind = "Offer"
       /\ x \in Aborts(f) <=> x.kind = "Ack"
       /\ x \in Lasts(f) <=> x.kind = "Chunk" /\ x.part = Chunks
  BY <1>1, <1>2 DEF Offers, Aborts, Acks, Lasts, Odd
<1>11. x.kind = "Offer" => ~On(u, Offers(f))
  <2>1. x.kind = "Offer" => Offers(f) \subseteq Clashing(x)
    BY DEF Offers, Clashing, Clash
  <2> QED
    BY <1>3, <2>1 DEF On
<1>12. ReceiverMakes(q, st, x)
  OBVIOUS
<1>13. ASSUME x.kind = "Offer"
       PROVE  q = "NONE" /\ \A T : ~On(v, Acks(f, T))
  <2>1. On(w, Offers(f))
    BY <1>1, <1>10, <1>13
  <2>2. q = "NONE" /\ ~On(v, Receipts(f)) /\ ~On(v, Requests(f)) /\ ~On(v, Refusals(f))
    <3> HIDE DEF f, w, v, u, p, q
    <3> QED
      BY <1>6, <2>1 DEF Match, GivenUp
  <2>3. ASSUME NEW T, NEW i \in 1..Len(v), v[i] \in Acks(f, T)
        PROVE  FALSE
    <3>1. v[i] \in Packets /\ v[i] \notin Odd("receiver")
      BY <2>3 DEF Contacts, Agreed, On
    <3>2. v[i].kind = "Ack" /\ v[i].file = f
      BY <2>3 DEF Acks
    <3>3. v[i].status \in AckStatus
      BY <3>1, <3>2 DEF Packets
    <3>4. v[i].status \in {"Received", "Proceed", "Rejected", "Abort"}
      BY <3>1, <3>2, <3>3 DEF Odd, AckStatus
    <3>5. v[i] \in Receipts(f) \/ v[i] \in Requests(f) \/ v[i] \in Refusals(f)
      BY <3>1, <3>2, <3>4 DEF Receipts, Requests, Refusals, Acks
    <3> QED
      BY <2>2, <3>5 DEF On
  <2> QED
    BY <2>2, <2>3 DEF On
<1> HIDE DEF f, w, v, u, p, q
<1>14. Match(p, st, u, v, f)
  <2>1. On(w, Offers(f)) <=> x \in Offers(f) \/ On(u, Offers(f))
    BY <1>1
  <2>2. On(w, Aborts(f)) <=> x \in Aborts(f) \/ On(u, Aborts(f))
    BY <1>1
  <2>3. On(w, Lasts(f)) <=> x \in Lasts(f) \/ On(u, Lasts(f))
    BY <1>1
  <2>4. CASE x.kind = "Offer"
    BY <1>6, <1>10, <1>11, <1>12, <2>1, <2>2, <2>3, <2>4
       DEF Match, ReceiverMakes, GivenUp
  <2>5. CASE x.kind = "Ack"
    BY <1>6, <1>10, <1>12, <2>1, <2>2, <2>3, <2>5
       DEF Match, ReceiverMakes, GivenUp
  <2>6. CASE x.kind = "Chunk"
    BY <1>6, <1>10, <1>12, <2>1, <2>2, <2>3, <2>6
       DEF Match, ReceiverMakes, GivenUp
  <2> QED
    BY <1>12, <2>4, <2>5, <2>6 DEF ReceiverMakes
<1>15. ASSUME NEW g \in Files, g # f
       PROVE  Match(c.state[g], d.state[g], u, v, g)
  <2>1. Match(c.state[g], r.state[g], w, v, g)
    BY DEF Agreed, v, w
  <2>2. x \notin Offers(g) /\ x \notin Aborts(g) /\ x \notin Lasts(g)
    BY <1>1, <1>15, AboutOne DEF f, Aborts
  <2>3. On(w, Offers(g)) <=> On(u, Offers(g))
    BY <1>1, <2>2
  <2>4. On(w, Aborts(g)) <=> On(u, Aborts(g))
    BY <1>1, <2>2
  <2>5. On(w, Lasts(g)) <=> On(u, Lasts(g))
    BY <1>1, <2>2
  <2>6. d.state[g] = r.state[g]
    BY <1>5, <1>15
  <2> QED
    BY <2>1, <2>3, <2>4, <2>5, <2>6 DEF Match
<1>16. \A g \in Files : Match(o.state[g], d.state[g], o.wire, d.wire, g)
  BY <1>5, <1>9, <1>14, <1>15 DEF v, p
<1>17. Agreed(o, d)
  BY <1>3, <1>7, <1>8, <1>9, <1>16 DEF Agreed
<1> QED
  BY <1>13, <1>17 DEF f, v, q

(***************************************************************************)
(* What the functions of the sender make of the agreement.                 *)
(***************************************************************************)

\* The sender may become c: it agrees with r, unless its program has ended.
SenderAgrees(c, r) == c.up => c.online = link /\ Agreed(c, r)

\* d is c, which has written x.
Written(c, x, d) ==
  /\ d \in Contacts /\ d.wire = Append(c.wire, x)
  /\ d.state = c.state /\ d.queue = c.queue /\ d.active = c.active
  /\ d.open = c.open /\ d.made = c.made /\ d.leaving = c.leaving
  /\ d.next = c.next /\ d.channel = c.channel /\ d.hashing = c.hashing
  /\ d.up = c.up /\ d.online = c.online

\* Peer::send() over a connection that stands.
LEMMA SentOnLink ==
  ASSUME NEW c \in Contacts, NEW x \in Packets, NEW d, d = Sent(c, x), link
  PROVE  Written(c, x, d)
<1>1. Append(c.wire, x) \in Seq(Packets)
  BY DEF Contacts
<1> QED
  BY <1>1 DEF Sent, Contacts, Written

\* File::setState().
LEMMA SetStateAlters ==
  ASSUME NEW c \in Contacts, NEW f \in Files, NEW st \in FileStates
  PROVE  LET d == SetState(c, f, st)
         IN /\ d \in Contacts /\ Alters(c, d, f, st)
            /\ d.queue = c.queue /\ d.wire = c.wire /\ d.online = c.online
            /\ d.up = c.up /\ d.open = c.open /\ d.made = c.made
            /\ d.channel = c.channel /\ d.next = c.next
            /\ d.hashing = c.hashing /\ d.active \subseteq c.active
<1> DEFINE d == SetState(c, f, st)
<1>1. d = SetState(c, f, st)
  OBVIOUS
<1> HIDE DEF d
<1>2. /\ d \in Contacts
      /\ d.state[f] = st /\ \A g \in Files : g # f => d.state[g] = c.state[g]
      /\ d.queue = c.queue /\ d.wire = c.wire /\ d.online = c.online
      /\ d.up = c.up /\ d.open = c.open /\ d.made = c.made
      /\ d.channel = c.channel /\ d.next = c.next
  BY <1>1, SetStateRest
<1>3. d.hashing = c.hashing /\ d.active \subseteq c.active
  <2>1. CASE c.state[f] = st
    BY <1>1, <2>1 DEF SetState
  <2>2. CASE c.state[f] # st /\ st = "TRANSFERRING"
    BY <1>1, <2>2 DEF SetState, Contacts
  <2>3. CASE c.state[f] # st /\ st # "TRANSFERRING"
    BY <1>1, <2>3 DEF SetState, Contacts
  <2> QED
    BY <2>1, <2>2, <2>3
<1> QED
  BY <1>2, <1>3 DEF Alters, d

\* Before the first connection, no file got beyond the queue.
LEMMA ApartIsEarly ==
  ASSUME NEW c, NEW r, Agreed(c, r), ~link, NEW f \in Files
  PROVE  /\ r.state[f] = "NONE"
         /\ c.state[f] \notin {"OFFERED", "QUEUED", "TRANSFERRING", "DONE"}
<1>1. /\ r.state[f] = "NONE" /\ c.wire = <<>> /\ r.wire = <<>>
      /\ Match(c.state[f], r.state[f], c.wire, r.wire, f)
  BY DEF Agreed, Apart
<1>2. \A S : ~On(<<>>, S)
  BY DEF On
<1> QED
  BY <1>1, <1>2 DEF Match, GivenUp

\* The files a sender can take back, or has taken back.
Offerable == {"WAITING", "OFFERED", "QUEUED", "TRANSFERRING", "CANCELLED"}

\* d is c, which has taken the file f back and agrees with r.
TakenBack(c, f, d, r) ==
  /\ d \in Contacts /\ Agreed(d, r) /\ d.online = c.online
  /\ d.state[f] = "CANCELLED" /\ (link => On(d.wire, Aborts(f)))

\* The sender takes a file back and says so.
LEMMA CancelledAgrees ==
  ASSUME NEW c \in Contacts, NEW r, Agreed(c, r), c.online = link,
         NEW f \in Files,
         c.state[f] \in Offerable,
         NEW d, d = Acked(SetState(c, f, "CANCELLED"), f, "Abort")
  PROVE  TakenBack(c, f, d, r)
<1> DEFINE e == SetState(c, f, "CANCELLED")
           x == Ack(f, "Abort")
<1>1. /\ e \in Contacts /\ Alters(c, e, f, "CANCELLED")
      /\ e.wire = c.wire /\ e.online = c.online /\ e.active \subseteq c.active
  BY SetStateAlters DEF FileStates
<1>2. x \in Packets /\ x.file = f /\ x.kind = "Ack" /\ x.status = "Abort"
  BY DEF Ack, Packets, AckStatus
<1>3. d = IF e.online THEN Sent(e, x) ELSE e
  BY DEF Acked
<1> HIDE DEF e, x
<1>4. c.wire \in Seq(Packets)
  BY DEF Contacts
<1>5. e.state[f] = "CANCELLED"
  BY <1>1 DEF Alters
<1>6. CASE link
  <2>1. /\ d \in Contacts /\ d.wire = Append(e.wire, x) /\ d.state = e.state
        /\ d.online = e.online
    <3>1. d = Sent(e, x)
      BY <1>1, <1>3, <1>6
    <3>2. e \in Contacts /\ x \in Packets
      BY <1>1, <1>2
    <3>3. Written(e, x, d)
      BY <1>6, <3>1, <3>2, SentOnLink
    <3> QED
      BY <3>3 DEF Written
  <2>2. SendsSaying(c.state[f], "CANCELLED", x)
    BY <1>2 DEF SendsSaying, Offerable
  <2>3. Agreed(d, r)
    <3>1. Alters(c, d, x.file, "CANCELLED") /\ d.wire = Append(c.wire, x)
      BY <1>1, <1>2, <2>1 DEF Alters
    <3> QED
      BY <1>2, <1>6, <2>2, <3>1, SenderSays
  <2>4. x \in Aborts(f)
    BY <1>2 DEF Aborts, Acks
  <2>5. On(d.wire, Aborts(f))
    <3>1. On(Append(c.wire, x), Aborts(f))
      BY <1>2, <1>4, <2>4, OnAppend
    <3> QED
      BY <1>1, <2>1, <3>1
  <2> QED
    BY <1>1, <1>5, <2>1, <2>3, <2>5 DEF TakenBack
<1>7. CASE ~link
  <2>1. d = e
    BY <1>1, <1>3, <1>7
  <2>2. c.state[f] \in {"WAITING", "CANCELLED"}
    BY <1>7, ApartIsEarly DEF Offerable
  <2>3. SendsQuietly(c.state[f], "CANCELLED")
    BY <2>2 DEF SendsQuietly
  <2>4. Agreed(e, r)
    BY <1>1, <1>4, <2>3, SenderQuiet
  <2> QED
    BY <1>1, <1>5, <1>7, <2>1, <2>4 DEF TakenBack
<1> QED
  BY <1>6, <1>7

\* OutgoingFileChannel::onOutgoing() of a file the receiver knows.
LEMMA OnOutgoingAgrees ==
  ASSUME NEW c \in Contacts, NEW r, Agreed(c, r), c.online = link, link,
         NEW f \in Files, c.state[f] \notin {"NONE", "HASHING", "WAITING"}
  PROVE  SenderAgrees(OnOutgoing(c, f), r)
<1> DEFINE m == c.parts[f]
           n == IF m < Chunks THEN m + 1 ELSE Chunks
           ch == c.channel[f]
           b == [c EXCEPT !.parts[f] = n]
           x == Chunk(f, n, ch)
           sent == Sent(b, x)
           done == SetState(sent, f, "DONE")
           off == Ended("sender", sent)
<1>1. m \in Nat /\ ch \in Nat /\ n \in 1..Chunks /\ n \in 0..Wrong
  BY SMTT(30), ChunksAssumption DEF Contacts, Wrong
<1>2. OnOutgoing(c, f) = IF n < Chunks THEN sent
                         ELSE IF c.state[f] = "TRANSFERRING" THEN done ELSE off
  BY DEF OnOutgoing
<1>3. /\ b \in Contacts /\ b.state = c.state /\ b.wire = c.wire
      /\ b.online = c.online /\ b.up = c.up
  BY <1>1 DEF Contacts
<1>4. /\ x \in Packets /\ x.kind = "Chunk" /\ x.file = f /\ x.part = n
  BY <1>1 DEF Packets, Chunk
<1>5. n < Chunks => n # Chunks
  BY <1>1
<1>6. ~(n < Chunks) => n = Chunks
  BY <1>1, ChunksAssumption
<1> HIDE DEF n, m, ch, b, x
<1>7. /\ sent \in Contacts /\ sent.state = c.state
      /\ sent.wire = Append(c.wire, x) /\ sent.online = link
  <2>1. sent = Sent(b, x)
    OBVIOUS
  <2> HIDE DEF sent
  <2>2. b \in Contacts /\ x \in Packets
    BY <1>3, <1>4
  <2>3. Written(b, x, sent)
    BY <2>1, <2>2, SentOnLink
  <2> QED
    BY <1>3, <2>3 DEF Written
<1> HIDE DEF sent
<1>8. /\ Alters(c, done, f, "DONE")
      /\ done.wire = Append(c.wire, x) /\ done.online = link
  <2>1. /\ Alters(sent, done, f, "DONE")
        /\ done.wire = sent.wire /\ done.online = sent.online
    BY <1>7, SetStateAlters DEF FileStates
  <2> QED
    BY <1>7, <2>1 DEF Alters
<1>9. ~off.up
  BY <1>7, EndedFields DEF Off, Sides
<1> HIDE DEF done, off
<1>10. CASE n < Chunks
  <2>1. SendsSaying(c.state[f], c.state[f], x)
    BY <1>4, <1>5, <1>10 DEF SendsSaying
  <2>2. Alters(c, sent, f, c.state[f])
    BY <1>7 DEF Alters
  <2>3. Agreed(sent, r)
    BY <1>4, <1>7, <2>1, <2>2, SenderSays
  <2> QED
    BY <1>2, <1>7, <1>10, <2>3 DEF SenderAgrees
<1>11. CASE ~(n < Chunks) /\ c.state[f] = "TRANSFERRING"
  <2>1. SendsSaying(c.state[f], "DONE", x)
    BY <1>4, <1>6, <1>11 DEF SendsSaying
  <2>2. Agreed(done, r)
    BY <1>4, <1>8, <2>1, SenderSays
  <2> QED
    BY <1>2, <1>8, <1>11, <2>2 DEF SenderAgrees
<1>12. CASE ~(n < Chunks) /\ c.state[f] # "TRANSFERRING"
  BY <1>2, <1>9, <1>12 DEF SenderAgrees
<1> QED
  BY <1>10, <1>11, <1>12

\* Peer::startSend().
LEMMA StartSendAgrees ==
  ASSUME NEW c \in Contacts, NEW r, Agreed(c, r), c.online = link, link,
         NEW f \in Files, c.state[f] = "QUEUED"
  PROVE  SenderAgrees(StartSend(c, f), r)
<1> DEFINE ch == c.channel[f]
           w == WithChannel(c, ch, f)
           t == SetState(w, f, "TRANSFERRING")
<1>1. StartSend(c, f) \in {c, Ended("sender", c), OnOutgoing(t, f)}
  BY DEF StartSend
<1>2. SenderAgrees(c, r)
  BY DEF SenderAgrees
<1>3. SenderAgrees(Ended("sender", c), r)
  BY EndedFields DEF Off, Sides, SenderAgrees
<1>4. ch \in Nat
  BY DEF Contacts
<1> HIDE DEF ch
<1>5. /\ w \in Contacts
      /\ w.state = c.state /\ w.wire = c.wire /\ w.online = c.online
  <2>1. \A n \in Nat, g \in Files : WithChannel(c, n, g) \in Contacts
    BY WithChannelRest
  <2>2. w \in Contacts
    BY <1>4, <2>1
  <2>3. w.state = c.state /\ w.wire = c.wire /\ w.online = c.online
    BY DEF WithChannel, Contacts
  <2> QED
    BY <2>2, <2>3
<1> HIDE DEF w
<1>6. /\ t \in Contacts /\ Alters(c, t, f, "TRANSFERRING")
      /\ t.wire = c.wire /\ t.online = c.online
  <2>1. /\ t \in Contacts /\ Alters(w, t, f, "TRANSFERRING")
        /\ t.wire = w.wire /\ t.online = w.online
    BY <1>5, SetStateAlters DEF FileStates
  <2> QED
    BY <1>5, <2>1 DEF Alters
<1> HIDE DEF t
<1>7. Agreed(t, r)
  BY <1>6, SenderQuiet DEF SendsQuietly
<1>8. t.state[f] = "TRANSFERRING"
  BY <1>6 DEF Alters
<1>9. SenderAgrees(OnOutgoing(t, f), r)
  BY <1>6, <1>7, <1>8, OnOutgoingAgrees
<1> QED
  BY <1>1, <1>2, <1>3, <1>9

\* Contact::queueTransfer() of a file the receiver asked for.
LEMMA QueueTransferAgrees ==
  ASSUME NEW c \in Contacts, NEW r, Agreed(c, r), c.online = link, link,
         NEW f \in Files, c.state[f] = "QUEUED"
  PROVE  SenderAgrees(QueueTransfer("sender", c, f), r)
<1> DEFINE slot == [c EXCEPT !.active = @ \cup {f}]
<1>1. /\ slot \in Contacts /\ slot.state = c.state /\ slot.wire = c.wire
      /\ slot.online = c.online
  BY DEF Contacts
<1>2. QueueTransfer("sender", c, f) \in {c, StartSend(slot, f)}
  BY DEF QueueTransfer
<1> HIDE DEF slot
<1>3. Agreed(slot, r)
  BY <1>1, SenderSame
<1>4. SenderAgrees(StartSend(slot, f), r)
  BY <1>1, <1>3, StartSendAgrees
<1> QED
  BY <1>2, <1>4 DEF SenderAgrees

\* Contact::processFilesQueue().
LEMMA ProcessFilesQueueAgrees ==
  ASSUME NEW c \in Contacts, NEW r, SenderAgrees(c, r), c.up
  PROVE  SenderAgrees(ProcessFilesQueue("sender", c), r)
<1> DEFINE s == "sender"
           q == Belonging(s, c)
           f == Head(q)
           rest == [c EXCEPT !.queue = Tail(q)]
           whole == [c EXCEPT !.queue = q]
           none == [c EXCEPT !.queue = <<>>]
           offer == Sent(rest, Offer(f))
           said == SetState(offer, f, "OFFERED")
<1>1. c.online = link /\ Agreed(c, r)
  BY DEF SenderAgrees
<1>2. q \in Seq(Files) /\ (q # <<>> => c.state[Head(q)] \in QueueStates(s))
  BY BelongingKeeps DEF Sides
<1>3. ProcessFilesQueue(s, c) =
        IF ~c.online THEN c
        ELSE IF q = <<>> THEN none
        ELSE IF Throws(c, f) THEN QueueTransfer(s, whole, f)
        ELSE IF c.state[f] = "WAITING" THEN said
        ELSE QueueTransfer(s, rest, f)
  BY DEF ProcessFilesQueue
<1> HIDE DEF q
<1>4. ASSUME NEW u \in Seq(Files), NEW d, d = [c EXCEPT !.queue = u]
      PROVE  /\ d \in Contacts /\ d.state = c.state /\ d.wire = c.wire
             /\ d.online = c.online /\ Agreed(d, r)
  <2>1. /\ d \in Contacts /\ d.state = c.state /\ d.wire = c.wire
        /\ d.online = c.online /\ d.active = c.active
    BY <1>4 DEF Contacts
  <2> QED
    BY <1>1, <2>1, SenderSame
<1>5. CASE ~c.online
  BY <1>3, <1>5
<1>6. CASE c.online /\ q = <<>>
  <2>1. <<>> \in Seq(Files)
    OBVIOUS
  <2>2. Agreed(none, r) /\ none.online = c.online
    BY <1>4, <2>1
  <2> QED
    BY <1>1, <1>3, <1>6, <2>2 DEF SenderAgrees
<1>7. CASE c.online /\ q # <<>>
  <2>1. f \in Files /\ Tail(q) \in Seq(Files)
    BY <1>2, <1>7, ToSetHeadTail
  <2>2. c.state[f] \in {"WAITING", "QUEUED"} /\ link
    BY <1>1, <1>2, <1>7 DEF QueueStates
  <2>3. /\ rest \in Contacts /\ rest.state = c.state /\ rest.wire = c.wire
        /\ rest.online = c.online /\ Agreed(rest, r)
    <3> DEFINE u == Tail(q)
    <3>1. u \in Seq(Files) /\ rest = [c EXCEPT !.queue = u]
      BY <2>1
    <3> HIDE DEF u, rest
    <3> QED
      BY <1>4, <3>1
  <2>4. /\ whole \in Contacts /\ whole.state = c.state
        /\ whole.online = c.online /\ Agreed(whole, r)
    <3>1. whole = [c EXCEPT !.queue = q]
      OBVIOUS
    <3> HIDE DEF whole
    <3> QED
      BY <1>2, <1>4, <3>1
  <2> HIDE DEF f, rest, whole
  <2>5. c.state[f] = "QUEUED" => /\ SenderAgrees(QueueTransfer(s, rest, f), r)
                                 /\ SenderAgrees(QueueTransfer(s, whole, f), r)
    BY <1>1, <2>1, <2>2, <2>3, <2>4, QueueTransferAgrees
  <2>6. ASSUME c.state[f] = "WAITING"
        PROVE  SenderAgrees(said, r)
    <3> DEFINE x == Offer(f)
    <3>1. x \in Packets /\ x.kind = "Offer" /\ x.file = f
      BY <2>1 DEF Packets, Offer
    <3>2. offer = Sent(rest, x)
      OBVIOUS
    <3> HIDE DEF offer, x
    <3>3. /\ offer \in Contacts /\ offer.state = rest.state
          /\ offer.wire = Append(rest.wire, x) /\ offer.online = rest.online
      <4>1. rest \in Contacts /\ x \in Packets
        BY <2>3, <3>1
      <4>2. Written(rest, x, offer)
        BY <2>2, <3>2, <4>1, SentOnLink
      <4> QED
        BY <4>2 DEF Written
    <3>4. /\ Alters(rest, said, f, "OFFERED")
          /\ said.wire = Append(rest.wire, x) /\ said.online = rest.online
      <4>1. /\ Alters(offer, said, f, "OFFERED")
            /\ said.wire = offer.wire /\ said.online = offer.online
        BY <2>1, <3>3, SetStateAlters DEF FileStates
      <4> QED
        BY <3>3, <4>1 DEF Alters
    <3>5. SendsSaying(rest.state[f], "OFFERED", x)
      BY <2>3, <2>6, <3>1 DEF SendsSaying
    <3> HIDE DEF said
    <3>6. Agreed(said, r)
      BY <2>2, <2>3, <3>1, <3>4, <3>5, SenderSays
    <3> QED
      BY <1>1, <2>3, <3>4, <3>6 DEF SenderAgrees
  <2>7. Throws(c, f) => c.state[f] = "QUEUED"
    BY DEF Throws
  <2> QED
    BY <1>3, <1>7, <2>2, <2>5, <2>6, <2>7
<1> QED
  BY <1>5, <1>6, <1>7 DEF Contacts

\* A file that has a channel on this connection was offered.
LEMMA MadeIsOffered ==
  ASSUME NEW c, NEW r, Agreed(c, r), NEW e \in r.made, e[2] \in Files
  PROVE  c.state[e[2]] \notin {"NONE", "HASHING", "WAITING"}
<1>1. r.state[e[2]] # "NONE"
  BY DEF Agreed, OneChannel
<1>2. Match(c.state[e[2]], r.state[e[2]], c.wire, r.wire, e[2])
  BY DEF Agreed
<1> QED
  BY <1>1, <1>2 DEF Match

\* Peer::sendSome(), also after the file has lost its channel.
LEMMA SendSomeAgrees ==
  ASSUME NEW c \in Contacts, NEW r, Agreed(c, r), c.online = link, link,
         c.open \subseteq r.made, NEW f \in Files, c.state[f] = "TRANSFERRING",
         NEW d \in SendSome(c, f)
  PROVE  SenderAgrees(d, r)
<1> DEFINE on == {e \in c.open : e[1] = c.channel[f]}
           t == TransferFailed(c, f)
<1>1. CASE on = {}
  <2>1. d = t \/ d = Ended("sender", t)
    BY <1>1 DEF SendSome
  <2>2. t = Acked(SetState(c, f, "CANCELLED"), f, "Abort")
    BY DEF TransferFailed
  <2> HIDE DEF t
  <2>3. t \in Contacts /\ Agreed(t, r) /\ t.online = c.online
    <3>1. c.state[f] \in Offerable
      BY DEF Offerable
    <3>2. TakenBack(c, f, t, r)
      BY <2>2, <3>1, CancelledAgrees
    <3> QED
      BY <3>2 DEF TakenBack
  <2>4. ~Ended("sender", t).up
    BY <2>3, EndedFields DEF Off, Sides
  <2> QED
    BY <2>1, <2>3, <2>4 DEF SenderAgrees
<1>2. CASE on # {}
  <2>1. PICK e \in on : d = OnOutgoing(c, e[2])
    BY <1>2 DEF SendSome
  <2>2. e \in r.made /\ e[2] \in Files
    BY <2>1 DEF Contacts
  <2>3. c.state[e[2]] \notin {"NONE", "HASHING", "WAITING"}
    BY <2>2, MadeIsOffered
  <2> QED
    BY <2>1, <2>2, <2>3, OnOutgoingAgrees
<1> QED
  BY <1>1, <1>2

\* Contact::processFileBlocks().
LEMMA ProcessFileBlocksAgrees ==
  ASSUME NEW c \in Contacts, NEW r, SenderAgrees(c, r), c.up,
         c.open \subseteq r.made, NEW d \in ProcessFileBlocks("sender", c)
  PROVE  SenderAgrees(d, r)
<1> DEFINE idle == {f \in c.active : c.state[f] # "TRANSFERRING"}
           busy == c.active \ idle
           without(met) == [c EXCEPT !.active = @ \ met]
<1>1. ProcessFileBlocks("sender", c) =
        IF ~c.online THEN {c}
        ELSE IF busy = {} THEN {[c EXCEPT !.active = busy]}
        ELSE UNION {SendSome(without(met), f) : met \in SUBSET idle, f \in busy}
  BY DEF ProcessFileBlocks
<1>2. [c EXCEPT !.active = busy] = without(idle)
  BY DEF Contacts
<1>3. c.online = link /\ Agreed(c, r)
  BY DEF SenderAgrees
<1>4. ASSUME NEW met
      PROVE  /\ without(met) \in Contacts
             /\ without(met).state = c.state /\ without(met).open = c.open
             /\ without(met).online = link /\ Agreed(without(met), r)
  <2> DEFINE b == without(met)
  <2>1. /\ b \in Contacts /\ b.state = c.state /\ b.wire = c.wire
        /\ b.open = c.open /\ b.online = link /\ b.active \subseteq c.active
    BY <1>3 DEF Contacts
  <2> HIDE DEF b
  <2>2. Agreed(b, r)
    BY <1>3, <2>1, SenderSame
  <2> QED
    BY <2>1, <2>2 DEF b
<1> HIDE DEF without
<1>5. ASSUME c.online, NEW met \in SUBSET idle, NEW f \in busy,
             d \in SendSome(without(met), f)
      PROVE  SenderAgrees(d, r)
  <2>1. f \in Files /\ c.state[f] = "TRANSFERRING" /\ link
    BY <1>3, <1>5 DEF Contacts
  <2>2. d \in SendSome(without(met), f)
    BY <1>5
  <2> QED
    BY <1>4, <2>1, <2>2, SendSomeAgrees
<1>6. \/ d = c
      \/ d = without(idle)
      \/ c.online /\ \E met \in SUBSET idle, f \in busy :
                       d \in SendSome(without(met), f)
  <2> HIDE DEF idle, busy
  <2> QED
    BY <1>1, <1>2
<1>7. SenderAgrees(without(idle), r)
  BY <1>4 DEF SenderAgrees
<1> QED
  BY <1>5, <1>6, <1>7

\* A contact that has not processed a file has made no channel, or its program has
\* ended.
LEMMA UnprocessedOpens ==
  ASSUME NEW c \in Contacts, ~ProcessesFile("sender", c),
         NEW d, d = ProcessFilesQueue("sender", c)
  PROVE  Off(d) \/ (d.open = c.open /\ d.up = c.up)
<1> DEFINE s == "sender"
           q == Belonging(s, c)
           f == Head(q)
           whole == [c EXCEPT !.queue = q]
           slot == [whole EXCEPT !.active = @ \cup {f}]
<1>1. q \in Seq(Files)
  BY BelongingKeeps DEF Sides
<1>2. \/ ~c.online /\ d = c
      \/ q = <<>> /\ d = [c EXCEPT !.queue = <<>>]
      \/ q # <<>> /\ Throws(c, f) /\ d = QueueTransfer(s, whole, f)
  BY DEF ProcessFilesQueue, ProcessesFile
<1> HIDE DEF q
<1>3. /\ whole \in Contacts /\ whole.open = c.open /\ whole.up = c.up
      /\ whole.bad = c.bad
  BY <1>1 DEF Contacts
<1>4. CASE ~c.online /\ d = c
  BY <1>4
<1>5. CASE q = <<>> /\ d = [c EXCEPT !.queue = <<>>]
  BY <1>5 DEF Contacts
<1>6. CASE q # <<>> /\ Throws(c, f) /\ d = QueueTransfer(s, whole, f)
  <2>1. f \in Files
    BY <1>1, <1>6, ToSetHeadTail
  <2>2. f \in c.bad
    BY <1>6 DEF Throws
  <2> HIDE DEF whole, f
  <2>3. /\ slot \in Contacts /\ slot.open = c.open /\ slot.up = c.up
        /\ slot.bad = c.bad
    BY <1>3, <2>1 DEF Contacts
  <2>4. d \in {whole, StartSend(slot, f)}
    BY <1>6 DEF QueueTransfer
  <2> HIDE DEF slot
  <2>5. StartSend(slot, f) \in {slot, Ended("sender", slot)}
    BY <2>2, <2>3 DEF StartSend
  <2>6. Off(Ended("sender", slot))
    BY <2>3, EndedFields DEF Sides
  <2> QED
    BY <1>3, <2>3, <2>4, <2>5, <2>6
<1> QED
  BY <1>2, <1>4, <1>5, <1>6

\* Contact::onOutputBufferEmptied().
LEMMA OutputBufferEmptiedAgrees ==
  ASSUME NEW c, Sound("sender", c), NEW r, SenderAgrees(c, r), c.up,
         c.open \subseteq r.made, NEW d \in OutputBufferEmptied("sender", c)
  PROVE  SenderAgrees(d, r)
<1> DEFINE b == ProcessFilesQueue("sender", c)
<1>1. c \in Contacts /\ b \in Contacts
  BY ProcessFilesQueueFine DEF Fine, Sound, Sides
<1>2. SenderAgrees(b, r)
  BY <1>1, ProcessFilesQueueAgrees
<1>3. \/ d = b
      \/ ~ProcessesFile("sender", c) /\ d \in ProcessFileBlocks("sender", b)
  BY DEF OutputBufferEmptied
<1>4. ~ProcessesFile("sender", c) => Off(b) \/ (b.open = c.open /\ b.up = c.up)
  BY <1>1, UnprocessedOpens
<1> HIDE DEF b
<1>5. Off(b) => ProcessFileBlocks("sender", b) = {b}
  BY DEF Off, ProcessFileBlocks
<1>6. b.open = c.open /\ b.up = c.up /\ d \in ProcessFileBlocks("sender", b) =>
        SenderAgrees(d, r)
  BY <1>1, <1>2, ProcessFileBlocksAgrees
<1> QED
  BY <1>2, <1>3, <1>4, <1>5, <1>6

\* Contact::loadFileQueue() changes the queue only.
LEMMA LoadFileQueueFields ==
  ASSUME NEW s \in Sides, NEW c \in Contacts, NEW d \in LoadFileQueue(s, c)
  PROVE  /\ d \in Contacts /\ d.state = c.state /\ d.wire = c.wire
         /\ d.online = c.online /\ d.up = c.up /\ d.active = c.active
         /\ d.open = c.open /\ d.made = c.made /\ d.leaving = c.leaving
         /\ d.next = c.next /\ d.channel = c.channel /\ d.hashing = c.hashing
<1>1. CASE c.loaded
  BY <1>1 DEF LoadFileQueue
<1>2. CASE ~c.loaded
  <2>1. PICK q \in Rows(Loadable(s, c)) :
          d = [c EXCEPT !.queue = @ \o q, !.loaded = TRUE]
    BY Zenon, <1>2 DEF LoadFileQueue
  <2>2. q \in Seq(Files)
    BY <2>1, RowsHold
  <2>3. c.queue \o q \in Seq(Files)
    BY <2>2, ToSetConcat DEF Contacts
  <2> QED
    BY <2>1, <2>3 DEF Contacts
<1> QED
  BY <1>1, <1>2

\* Contact::queueFile().
LEMMA QueueFileAgrees ==
  ASSUME NEW c \in Contacts, NEW r, SenderAgrees(c, r), c.up, NEW f \in Files,
         NEW d \in QueueFile("sender", c, f)
  PROVE  SenderAgrees(d, r)
<1>1. PICK l \in LoadFileQueue("sender", c) :
        d = ProcessFilesQueue("sender", [l EXCEPT !.queue = Append(@, f)])
  BY DEF QueueFile
<1>2. /\ l \in Contacts /\ l.state = c.state /\ l.wire = c.wire
      /\ l.online = c.online /\ l.up = c.up /\ l.active = c.active
  BY <1>1, LoadFileQueueFields DEF Sides
<1> DEFINE b == [l EXCEPT !.queue = Append(@, f)]
<1>3. Append(l.queue, f) \in Seq(Files)
  BY <1>2 DEF Contacts
<1>4. /\ b \in Contacts /\ b.state = l.state /\ b.wire = l.wire
      /\ b.online = l.online /\ b.up = l.up /\ b.active = l.active
  BY <1>2, <1>3 DEF Contacts
<1> HIDE DEF b
<1>5. SenderAgrees(b, r)
  BY <1>2, <1>4, SenderSame DEF SenderAgrees
<1>6. SenderAgrees(ProcessFilesQueue("sender", b), r)
  BY <1>2, <1>4, <1>5, ProcessFilesQueueAgrees
<1> QED
  BY <1>1, <1>6 DEF b

(***************************************************************************)
(* What the functions of the receiver make of the agreement.               *)
(***************************************************************************)

\* The receiver may become d: it agrees with p, unless its program has ended.
ReceiverAgrees(p, d) == d.up => d.online = link /\ Agreed(p, d)

\* The channels are the same.
SameChannels(c, d) ==
  /\ d.open = c.open /\ d.made = c.made /\ d.leaving = c.leaving
  /\ d.next = c.next /\ d.channel = c.channel /\ d.hashing = c.hashing

\* What concerns neither rows, channels nor the wire does not matter.
LEMMA ReceiverSame ==
  ASSUME NEW p, NEW c, Agreed(p, c), NEW d, d.state = c.state, d.wire = c.wire,
         SameChannels(c, d)
  PROVE  Agreed(p, d)
<1>1. OneChannel(d)
  BY DEF Agreed, OneChannel, Numbered, SameChannels
<1> QED
  BY <1>1 DEF Agreed, Apart

\* A file that was not accepted has no channel.
LEMMA Unmade ==
  ASSUME NEW c, OneChannel(c), NEW f, c.state[f] \in {"NONE", "OFFERED", "QUEUED"},
         NEW e \in c.made
  PROVE  e[2] # f
BY DEF OneChannel

\* The state of a file changes, with what becomes of its channel.
LEMMA AlteredChannel ==
  ASSUME NEW c \in Contacts, OneChannel(c), NEW f \in Files, NEW st, NEW d,
         Alters(c, d, f, st), st # "TRANSFERRING",
         st \in {"NONE", "OFFERED", "QUEUED"} => \A e \in c.made : e[2] # f,
         st = "HASHING" => f \in d.hashing,
         d.made = c.made, d.channel = c.channel, d.next = c.next,
         d.open \subseteq c.open, \A e \in c.open : e[2] # f => e \in d.open,
         \A ch \in d.leaving :
           ch \in c.leaving \/ \E e \in c.made : e[2] = f /\ e[1] = ch,
         \A g \in c.hashing : g # f => g \in d.hashing
  PROVE  OneChannel(d)
<1>1. d.state[f] = st /\ \A g \in Files : g # f => d.state[g] = c.state[g]
  BY DEF Alters
<1>2. Numbered(c) /\ Numbered(d)
  BY DEF OneChannel, Numbered
<1>3. \A e \in c.made : e[2] \in Files
  BY DEF Contacts
<1>4. d.open \subseteq d.made
  BY DEF OneChannel
<1>5. \A e \in d.made : d.state[e[2]] \notin {"NONE", "OFFERED", "QUEUED"}
  BY <1>1, <1>3 DEF OneChannel
<1>6. \A e, g \in d.made : e[2] = g[2] => e = g
  BY DEF OneChannel
<1>7. ASSUME NEW e \in d.made, d.state[e[2]] = "TRANSFERRING"
      PROVE  e[1] \notin d.leaving
  <2>1. e[2] # f /\ e[2] \in Files
    BY <1>1, <1>3, <1>7
  <2>2. e[1] \notin c.leaving
    BY <1>1, <1>7, <2>1 DEF OneChannel
  <2>3. \A k \in c.made : k[1] = e[1] => k = e
    BY <1>2, <1>7 DEF Numbered
  <2> QED
    BY <2>1, <2>2, <2>3
<1>8. \A ch \in d.leaving : ch < d.next
  BY <1>2 DEF OneChannel, Numbered
<1>9. ASSUME NEW g \in Files, d.state[g] = "TRANSFERRING"
      PROVE  <<d.channel[g], g>> \in d.open
  <2>1. g # f /\ c.state[g] = "TRANSFERRING"
    BY <1>1, <1>9
  <2>2. <<c.channel[g], g>> \in c.open
    BY <2>1 DEF OneChannel
  <2>3. <<c.channel[g], g>>[2] # f
    BY <2>1
  <2> QED
    BY <2>2, <2>3
<1>10. \A g \in Files : d.state[g] = "HASHING" => g \in d.hashing
  BY <1>1 DEF OneChannel
<1> QED
  BY <1>2, <1>4, <1>5, <1>6, <1>7, <1>8, <1>9, <1>10 DEF OneChannel

\* File::setState(), not to start a transfer: the slot of Peer::removeTransfer will
\* close the channel of the file.
LEMMA SetStateLeaves ==
  ASSUME NEW c \in Contacts, NEW f \in Files, NEW st, st # "TRANSFERRING",
         NEW d, d = SetState(c, f, st), NEW ch \in d.leaving
  PROVE  ch \in c.leaving \/ \E e \in c.made : e[2] = f /\ e[1] = ch
<1>1. CASE c.state[f] = st
  BY <1>1 DEF SetState
<1>2. CASE c.state[f] # st
  <2>1. d.leaving = c.leaving \cup {e[1] : e \in {e \in c.made : e[2] = f}}
    BY <1>2 DEF SetState, Contacts
  <2> QED
    BY <2>1
<1> QED
  BY <1>1, <1>2

\* b is c, but that f may have been hashed.
Hashed(c, b, f) ==
  /\ b.state = c.state /\ b.wire = c.wire /\ b.online = c.online /\ b.up = c.up
  /\ b.open = c.open /\ b.made = c.made /\ b.leaving = c.leaving
  /\ b.next = c.next /\ b.channel = c.channel
  /\ \A g \in c.hashing : g # f => g \in b.hashing

\* The channels after that.
LEMMA SetStateChannel ==
  ASSUME NEW c \in Contacts, OneChannel(c), NEW f \in Files,
         NEW b \in Contacts, Hashed(c, b, f),
         NEW st \in FileStates \ {"TRANSFERRING", "HASHING"},
         st \in {"NONE", "OFFERED", "QUEUED"} => \A e \in c.made : e[2] # f
  PROVE  OneChannel(SetState(b, f, st))
<1> DEFINE d == SetState(b, f, st)
<1>1. \A ch \in d.leaving :
        ch \in c.leaving \/ \E e \in c.made : e[2] = f /\ e[1] = ch
  BY SetStateLeaves DEF Hashed
<1>2. /\ d \in Contacts /\ Alters(c, d, f, st)
      /\ d.open = c.open /\ d.made = c.made
      /\ d.channel = c.channel /\ d.next = c.next
      /\ \A g \in c.hashing : g # f => g \in d.hashing
  <2>1. /\ d \in Contacts /\ Alters(b, d, f, st)
        /\ d.open = b.open /\ d.made = b.made
        /\ d.channel = b.channel /\ d.next = b.next
        /\ d.hashing = b.hashing
    BY SetStateAlters
  <2> QED
    BY <2>1 DEF Hashed, Alters
<1> HIDE DEF d
<1>3. OneChannel(d)
  BY <1>1, <1>2, AlteredChannel
<1> QED
  BY <1>3 DEF d

\* What the receiver knows of a file, it was told over the connection.
LEMMA HeardIsLinked ==
  ASSUME NEW p, NEW c, Agreed(p, c), NEW f \in Files, c.state[f] # "NONE"
  PROVE  link
BY DEF Agreed, Apart

\* The state of a file changes, and nothing is said.
LEMMA QuietAgrees ==
  ASSUME NEW p, NEW c \in Contacts, Agreed(p, c), c.online = link,
         NEW f \in Files, NEW st \in FileStates \ {"TRANSFERRING", "HASHING"},
         ReceivesQuietly(c.state[f], st),
         NEW b \in Contacts, Hashed(c, b, f), NEW d, d = SetState(b, f, st)
  PROVE  /\ d \in Contacts /\ d.online = link /\ Agreed(p, d)
         /\ d.up = c.up /\ d.state[f] = st
<1>1. /\ d \in Contacts /\ Alters(c, d, f, st)
      /\ d.wire = c.wire /\ d.online = c.online /\ d.up = c.up
  <2>1. /\ d \in Contacts /\ Alters(b, d, f, st)
        /\ d.wire = b.wire /\ d.online = b.online /\ d.up = b.up
    BY SetStateAlters
  <2> QED
    BY <2>1 DEF Hashed, Alters
<1>2. OneChannel(c)
  BY DEF Agreed
<1>3. st \in {"NONE", "OFFERED", "QUEUED"} =>
        c.state[f] \in {"NONE", "OFFERED", "QUEUED"}
  BY DEF ReceivesQuietly
<1>4. st \in {"NONE", "OFFERED", "QUEUED"} => \A e \in c.made : e[2] # f
  BY <1>2, <1>3, Unmade
<1>5. OneChannel(d)
  BY <1>2, <1>4, SetStateChannel
<1>6. Agreed(p, d)
  BY <1>1, <1>5, ReceiverQuiet
<1>7. d.state[f] = st
  BY <1>1 DEF Alters
<1> QED
  BY <1>1, <1>6, <1>7

\* The receiver refuses a file, or gives it up, and says so.
LEMMA RefusedAgrees ==
  ASSUME NEW p, NEW c \in Contacts, Agreed(p, c), c.online = link,
         NEW f \in Files, c.state[f] # "NONE",
         NEW st \in {"REJECTED", "CANCELLED"}, NEW status \in {"Rejected", "Abort"},
         NEW b \in Contacts, Hashed(c, b, f),
         NEW d, d = Acked(SetState(b, f, st), f, status)
  PROVE  /\ d \in Contacts /\ Agreed(p, d) /\ d.online = link
         /\ d.up = c.up /\ d.state[f] = st
<1> DEFINE e == SetState(b, f, st)
           x == Ack(f, status)
<1>1. st \in FileStates
  BY DEF FileStates
<1>2. /\ e \in Contacts /\ Alters(c, e, f, st)
      /\ e.wire = c.wire /\ e.online = c.online /\ e.up = c.up
  <2>1. /\ e \in Contacts /\ Alters(b, e, f, st)
        /\ e.wire = b.wire /\ e.online = b.online /\ e.up = b.up
    BY <1>1, SetStateAlters
  <2> QED
    BY <2>1 DEF Hashed, Alters
<1>3. OneChannel(e)
  BY <1>1, SetStateChannel DEF Agreed
<1>4. x \in Packets /\ x.file = f /\ x.kind = "Ack" /\ x.status = status
  BY DEF Ack, Packets, AckStatus
<1>5. link
  BY HeardIsLinked
<1>6. d = Sent(e, x)
  BY <1>2, <1>5 DEF Acked
<1> HIDE DEF e, x
<1>7. /\ d \in Contacts /\ d.wire = Append(e.wire, x)
      /\ d.state = e.state /\ SameChannels(e, d)
      /\ d.up = e.up /\ d.online = e.online
  <2>1. e \in Contacts /\ x \in Packets
    BY <1>2, <1>4
  <2>2. Written(e, x, d)
    BY <1>5, <1>6, <2>1, SentOnLink
  <2> QED
    BY <2>2 DEF Written, SameChannels
<1>8. OneChannel(d)
  BY <1>3, <1>7 DEF OneChannel, Numbered, SameChannels
<1>9. Alters(c, d, x.file, st) /\ d.wire = Append(c.wire, x)
  BY <1>2, <1>4, <1>7 DEF Alters
<1>10. ReceivesSaying(c.state[x.file], st, x)
  BY <1>4 DEF ReceivesSaying
<1>11. Agreed(p, d)
  BY <1>4, <1>5, <1>8, <1>9, <1>10, ReceiverSays
<1>12. d.state[f] = st
  BY <1>2, <1>7 DEF Alters
<1> QED
  BY <1>2, <1>7, <1>11, <1>12

\* Peer::startReceive(): the file has had no channel before.
LEMMA StartReceiveAgrees ==
  ASSUME NEW p, NEW c \in Contacts, Agreed(p, c), c.online = link, link,
         NEW f \in Files, c.state[f] = "QUEUED"
  PROVE  ReceiverAgrees(p, StartReceive(c, f))
<1> DEFINE n == c.next
           x == Proceed(f, n)
           w == WithChannel(c, n, f)
           a == Sent(w, x)
           t == SetState(a, f, "TRANSFERRING")
           d == [t EXCEPT !.channel[f] = n, !.next = @ + 1]
           new == <<n, f>>
           thrown == [c EXCEPT !.threw = @ \cup {f}]
<1>1. StartReceive(c, f) \in {thrown, d}
  BY DEF StartReceive
<1>2. n \in Nat /\ c.channel \in [Files -> Nat]
  BY DEF Contacts
<1>3. /\ w \in Contacts
      /\ w.state = c.state /\ w.wire = c.wire /\ w.online = c.online
      /\ w.channel = c.channel /\ w.next = n /\ w.leaving = c.leaving
      /\ w.open = c.open \cup {new} /\ w.made = c.made \cup {new}
      /\ w.hashing = c.hashing
  <2>1. \A m \in Nat, g \in Files : WithChannel(c, m, g) \in Contacts
    BY WithChannelRest
  <2>2. w \in Contacts
    BY <1>2, <2>1
  <2>3. /\ w.state = c.state /\ w.wire = c.wire /\ w.online = c.online
        /\ w.channel = c.channel /\ w.next = n /\ w.leaving = c.leaving
        /\ w.open = c.open \cup {new} /\ w.made = c.made \cup {new}
        /\ w.hashing = c.hashing
    BY DEF WithChannel, Contacts
  <2> QED
    BY <2>2, <2>3
<1>4. /\ x \in Packets /\ x.kind = "Ack" /\ x.status = "Proceed" /\ x.file = f
  BY <1>2 DEF Packets, Proceed, AckStatus
<1> HIDE DEF w, x
<1>5. /\ a \in Contacts /\ a.wire = Append(w.wire, x)
      /\ a.state = w.state /\ a.online = w.online
      /\ a.open = w.open /\ a.made = w.made /\ a.leaving = w.leaving
      /\ a.next = w.next /\ a.channel = w.channel /\ a.hashing = w.hashing
  <2>1. a = Sent(w, x)
    OBVIOUS
  <2>2. w \in Contacts /\ x \in Packets
    BY <1>3, <1>4
  <2> HIDE DEF a
  <2>3. Written(w, x, a)
    BY <2>1, <2>2, SentOnLink
  <2> QED
    BY <2>3 DEF Written
<1> HIDE DEF a
<1>6. a.state[f] = "QUEUED"
  BY <1>3, <1>5
<1>7. t.leaving = a.leaving
  <2>1. t = [a EXCEPT !.state[f] = "TRANSFERRING"]
    BY <1>6 DEF SetState
  <2> HIDE DEF t
  <2> QED
    BY <1>5, <2>1 DEF Contacts
<1>8. /\ t.wire = a.wire /\ t.online = a.online
      /\ t.open = a.open /\ t.made = a.made
      /\ t.next = a.next /\ t.channel = a.channel /\ t.hashing = a.hashing
      /\ Alters(a, t, f, "TRANSFERRING") /\ t \in Contacts
  <2>1. a \in Contacts /\ "TRANSFERRING" \in FileStates
    BY <1>5 DEF FileStates
  <2> QED
    BY <2>1, SetStateAlters
<1> HIDE DEF t
<1>9. /\ d.wire = t.wire /\ d.online = t.online /\ d.state = t.state
      /\ d.open = t.open /\ d.made = t.made /\ d.leaving = t.leaving
      /\ d.hashing = t.hashing /\ d.next = t.next + 1
      /\ d.channel = [t.channel EXCEPT ![f] = n]
  BY <1>8 DEF Contacts
<1>10. /\ Alters(c, d, f, "TRANSFERRING")
       /\ d.wire = Append(c.wire, x) /\ d.online = link
       /\ d.open = c.open \cup {new} /\ d.made = c.made \cup {new}
       /\ d.leaving = c.leaving /\ d.hashing = c.hashing /\ d.next = n + 1
       /\ d.channel[f] = n /\ \A g \in Files : g # f => d.channel[g] = c.channel[g]
  <2>1. Alters(c, d, f, "TRANSFERRING")
    BY <1>3, <1>5, <1>7, <1>8, <1>9 DEF Alters
  <2> HIDE DEF d, new
  <2>2. d.wire = Append(c.wire, x) /\ d.online = link
    BY <1>3, <1>5, <1>8, <1>9
  <2>3. d.open = c.open \cup {new} /\ d.made = c.made \cup {new}
    BY <1>3, <1>5, <1>8, <1>9
  <2>4. d.leaving = c.leaving /\ d.hashing = c.hashing /\ d.next = n + 1
    BY <1>3, <1>5, <1>7, <1>8, <1>9
  <2>5. d.channel = [c.channel EXCEPT ![f] = n]
    BY <1>3, <1>5, <1>8, <1>9
  <2> QED
    BY <1>2, <2>1, <2>2, <2>3, <2>4, <2>5
<1> HIDE DEF d
<1>11. OneChannel(c) /\ Numbered(c)
  BY DEF Agreed, OneChannel
<1>12. \A e \in c.made : /\ e[1] < n /\ e[1] # n /\ e[1] \in Nat /\ e[2] \in Files
                         /\ e[2] # f
  <2>1. \A e \in c.made : e[1] < n /\ e[1] \in Nat /\ e[2] \in Files
    BY <1>11 DEF Numbered, Contacts
  <2>2. \A e \in c.made : e[2] # f
    BY <1>11, Unmade
  <2> QED
    BY <1>2, <2>1, <2>2
<1>13. new[1] = n /\ new[2] = f
  OBVIOUS
<1> HIDE DEF n
<1>14. n = c.next /\ \A ch \in c.leaving : ch \in Nat /\ ch < n
  BY <1>11 DEF OneChannel, Contacts, n
<1>15. /\ d.state[f] = "TRANSFERRING"
       /\ \A g \in Files : g # f => d.state[g] = c.state[g]
  BY <1>10 DEF Alters
<1> HIDE DEF new
<1>16. Numbered(d)
  <2>1. \A e \in d.made : e[1] < n + 1
    BY <1>2, <1>10, <1>12, <1>13 DEF n
  <2>2. \A e, g \in c.made : e[1] = g[1] => e = g
    BY <1>11 DEF Numbered
  <2>3. \A e, g \in d.made : e[1] = g[1] => e = g
    BY <1>10, <1>12, <1>13, <2>2
  <2> QED
    BY <1>10, <2>1, <2>3 DEF Numbered
<1>17. OneChannel(d)
  <2>1. d.open \subseteq d.made
    BY <1>10, <1>11 DEF OneChannel
  <2>2. \A e \in d.made : d.state[e[2]] \notin {"NONE", "OFFERED", "QUEUED"}
    BY <1>10, <1>11, <1>12, <1>13, <1>15 DEF OneChannel
  <2>3. \A e, g \in d.made : e[2] = g[2] => e = g
    <3>1. \A e, g \in c.made : e[2] = g[2] => e = g
      BY <1>11 DEF OneChannel
    <3> QED
      BY <1>10, <1>12, <1>13, <3>1
  <2>4. \A e \in d.made : d.state[e[2]] = "TRANSFERRING" => e[1] \notin d.leaving
    <3>1. n \notin c.leaving
      BY <1>2, <1>14 DEF n
    <3> QED
      BY <1>10, <1>11, <1>12, <1>13, <1>15, <3>1 DEF OneChannel
  <2>5. \A ch \in d.leaving : ch < d.next
    BY <1>2, <1>10, <1>14 DEF n
  <2>6. \A g \in Files : d.state[g] = "TRANSFERRING" => <<d.channel[g], g>> \in d.open
    BY <1>10, <1>11, <1>15 DEF OneChannel, new
  <2>7. \A g \in Files : d.state[g] = "HASHING" => g \in d.hashing
    BY <1>10, <1>11, <1>15 DEF OneChannel
  <2> QED
    BY <1>16, <2>1, <2>2, <2>3, <2>4, <2>5, <2>6, <2>7 DEF OneChannel
<1>18. Alters(c, d, x.file, "TRANSFERRING") /\ x \in Packets
  BY <1>4, <1>10
<1>19. ReceivesSaying(c.state[x.file], "TRANSFERRING", x)
  BY <1>4 DEF ReceivesSaying
<1>20. Agreed(p, d)
  BY <1>10, <1>17, <1>18, <1>19, ReceiverSays
<1>21. thrown.online = link /\ Agreed(p, thrown)
  <2>1. /\ thrown.online = c.online /\ thrown.state = c.state /\ thrown.wire = c.wire
        /\ SameChannels(c, thrown)
    BY DEF Contacts, SameChannels
  <2> HIDE DEF thrown
  <2> QED
    BY <2>1, ReceiverSame
<1> HIDE DEF thrown
<1> QED
  BY <1>1, <1>10, <1>20, <1>21 DEF ReceiverAgrees

\* Contact::queueTransfer() of an accepted file.
LEMMA AcceptedTransferAgrees ==
  ASSUME NEW p, NEW c \in Contacts, Agreed(p, c), c.online = link, link,
         NEW f \in Files, c.state[f] = "QUEUED"
  PROVE  ReceiverAgrees(p, QueueTransfer("receiver", c, f))
<1> DEFINE slot == [c EXCEPT !.active = @ \cup {f}]
<1>1. slot \in Contacts /\ slot.online = c.online
  BY DEF Contacts
<1>2. slot.state = c.state /\ slot.wire = c.wire /\ SameChannels(c, slot)
  BY DEF SameChannels, Contacts
<1>3. QueueTransfer("receiver", c, f) \in {c, StartReceive(slot, f)}
  BY DEF QueueTransfer
<1> HIDE DEF slot
<1>4. Agreed(p, slot)
  BY <1>2, ReceiverSame
<1>5. ReceiverAgrees(p, StartReceive(slot, f))
  BY <1>1, <1>2, <1>4, StartReceiveAgrees
<1> QED
  BY <1>3, <1>5 DEF ReceiverAgrees

\* Contact::processFilesQueue().
LEMMA ReceiverQueueAgrees ==
  ASSUME NEW p, NEW c \in Contacts, ReceiverAgrees(p, c), c.up
  PROVE  ReceiverAgrees(p, ProcessFilesQueue("receiver", c))
<1> DEFINE s == "receiver"
           q == Belonging(s, c)
           f == Head(q)
           rest == [c EXCEPT !.queue = Tail(q)]
           whole == [c EXCEPT !.queue = q]
           none == [c EXCEPT !.queue = <<>>]
<1>1. c.online = link /\ Agreed(p, c)
  BY DEF ReceiverAgrees
<1>2. q \in Seq(Files) /\ (q # <<>> => c.state[Head(q)] = "QUEUED")
  BY BelongingKeeps DEF Sides, QueueStates
<1>3. ProcessFilesQueue(s, c) =
        IF ~c.online THEN c
        ELSE IF q = <<>> THEN none
        ELSE IF Throws(c, f) THEN QueueTransfer(s, whole, f)
        ELSE IF c.state[f] = "WAITING" THEN SetState(Sent(rest, Offer(f)), f, "OFFERED")
        ELSE QueueTransfer(s, rest, f)
  BY DEF ProcessFilesQueue
<1> HIDE DEF q
<1>4. ASSUME NEW u \in Seq(Files), NEW d, d = [c EXCEPT !.queue = u]
      PROVE  /\ d \in Contacts /\ d.state = c.state
             /\ d.online = link /\ Agreed(p, d)
  <2>1. d \in Contacts /\ d.online = c.online
    BY <1>4 DEF Contacts
  <2>2. d.state = c.state /\ d.wire = c.wire /\ SameChannels(c, d)
    BY <1>4 DEF SameChannels, Contacts
  <2>3. Agreed(p, d)
    BY <1>1, <2>2, ReceiverSame
  <2> QED
    BY <1>1, <2>1, <2>2, <2>3
<1>5. CASE ~c.online
  BY <1>3, <1>5
<1>6. CASE c.online /\ q = <<>>
  <2>1. <<>> \in Seq(Files) /\ none = [c EXCEPT !.queue = <<>>]
    OBVIOUS
  <2> HIDE DEF none
  <2>2. Agreed(p, none) /\ none.online = link
    BY <1>4, <2>1
  <2> QED
    BY <1>3, <1>6, <2>2 DEF ReceiverAgrees
<1>7. CASE c.online /\ q # <<>>
  <2>1. f \in Files /\ Tail(q) \in Seq(Files)
    BY <1>2, <1>7, ToSetHeadTail
  <2>2. c.state[f] = "QUEUED" /\ link
    BY <1>1, <1>2, <1>7
  <2>3. /\ rest \in Contacts /\ rest.state = c.state
        /\ rest.online = link /\ Agreed(p, rest)
    <3> DEFINE u == Tail(q)
    <3>1. u \in Seq(Files) /\ rest = [c EXCEPT !.queue = u]
      BY <2>1
    <3> HIDE DEF u, rest
    <3> QED
      BY <1>4, <3>1
  <2>4. /\ whole \in Contacts /\ whole.state = c.state
        /\ whole.online = link /\ Agreed(p, whole)
    <3>1. whole = [c EXCEPT !.queue = q]
      OBVIOUS
    <3> HIDE DEF whole
    <3> QED
      BY <1>2, <1>4, <3>1
  <2> HIDE DEF f, rest, whole
  <2>5. /\ ReceiverAgrees(p, QueueTransfer(s, rest, f))
        /\ ReceiverAgrees(p, QueueTransfer(s, whole, f))
    BY <2>1, <2>2, <2>3, <2>4, AcceptedTransferAgrees
  <2>6. ProcessFilesQueue(s, c) \in {QueueTransfer(s, rest, f),
                                     QueueTransfer(s, whole, f)}
    BY <1>3, <1>7, <2>2
  <2> QED
    BY <2>5, <2>6
<1> QED
  BY <1>5, <1>6, <1>7 DEF Contacts

\* Contact::onOutputBufferEmptied().
LEMMA ReceiverBufferAgrees ==
  ASSUME NEW p, NEW c, Sound("receiver", c), ReceiverAgrees(p, c), c.up,
         NEW d \in OutputBufferEmptied("receiver", c)
  PROVE  ReceiverAgrees(p, d)
<1> DEFINE q == ProcessFilesQueue("receiver", c)
<1>1. c \in Contacts /\ q \in Contacts
  BY ProcessFilesQueueFine DEF Fine, Sound, Sides
<1>2. ReceiverAgrees(p, q)
  BY <1>1, ReceiverQueueAgrees
<1>3. d = q \/ d \in ProcessFileBlocks("receiver", q)
  BY DEF OutputBufferEmptied
<1> HIDE DEF q
<1> DEFINE idle == {f \in q.active : q.state[f] # "TRANSFERRING"}
           busy == q.active \ idle
           b == [q EXCEPT !.active = busy]
<1>4. d = q \/ d = b
  BY <1>3 DEF ProcessFileBlocks
<1>5. b.online = q.online /\ b.up = q.up
  BY <1>1 DEF Contacts
<1>6. b.state = q.state /\ b.wire = q.wire /\ SameChannels(q, b)
  BY <1>1 DEF Contacts, SameChannels
<1> HIDE DEF b
<1>7. ReceiverAgrees(p, b)
  BY <1>2, <1>5, <1>6, ReceiverSame DEF ReceiverAgrees
<1> QED
  BY <1>2, <1>4, <1>7

\* Contact::queueFile() of an accepted file.
LEMMA ReceiverQueuesFile ==
  ASSUME NEW p, NEW c \in Contacts, ReceiverAgrees(p, c), c.up, NEW f \in Files,
         NEW d \in QueueFile("receiver", c, f)
  PROVE  ReceiverAgrees(p, d)
<1>1. PICK l \in LoadFileQueue("receiver", c) :
        d = ProcessFilesQueue("receiver", [l EXCEPT !.queue = Append(@, f)])
  BY DEF QueueFile
<1>2. /\ l \in Contacts /\ l.state = c.state /\ l.wire = c.wire
      /\ l.online = c.online /\ l.up = c.up /\ SameChannels(c, l)
  BY <1>1, LoadFileQueueFields DEF Sides, SameChannels
<1> DEFINE b == [l EXCEPT !.queue = Append(@, f)]
<1>3. Append(l.queue, f) \in Seq(Files)
  BY <1>2 DEF Contacts
<1>4. /\ b \in Contacts /\ b.state = l.state /\ b.wire = l.wire
      /\ b.online = l.online /\ b.up = l.up
  BY <1>2, <1>3 DEF Contacts
<1>5. SameChannels(l, b)
  BY <1>2 DEF SameChannels, Contacts
<1> HIDE DEF b
<1>6. Agreed(p, l) /\ Agreed(p, b)
  BY <1>2, <1>4, <1>5, ReceiverSame DEF ReceiverAgrees
<1>7. ReceiverAgrees(p, b)
  BY <1>2, <1>4, <1>6 DEF ReceiverAgrees
<1>8. ReceiverAgrees(p, ProcessFilesQueue("receiver", b))
  BY <1>2, <1>4, <1>7, ReceiverQueueAgrees
<1> QED
  BY <1>1, <1>8 DEF b

\* What is offered is new to the receiver.
LEMMA OfferIsNew ==
  ASSUME NEW p \in Contacts, NEW c, Agreed(p, c), p.wire # <<>>,
         NEW x, x = Head(p.wire), x.kind = "Offer"
  PROVE  c.state[x.file] = "NONE"
<1>1. x \in Packets /\ On(p.wire, Offers(x.file))
  <2>1. x \in Packets /\ \A S : x \in S => On(p.wire, S)
    BY OnTail DEF Contacts
  <2>2. x \in Offers(x.file)
    BY <2>1 DEF Offers
  <2> QED
    BY <2>1, <2>2
<1>2. x.file \in Files
  BY <1>1 DEF Packets
<1>3. Match(p.state[x.file], c.state[x.file], p.wire, c.wire, x.file)
  BY <1>2 DEF Agreed
<1> QED
  BY <1>1, <1>3 DEF Match

\* The receiver says that it has received an offer.
LEMMA ReceiptAgrees ==
  ASSUME NEW p, NEW e \in Contacts, Agreed(p, e), link, NEW f \in Files,
         e.state[f] = "OFFERED", \A T : ~On(e.wire, Acks(f, T)),
         NEW d, \A g \in Files : d.state[g] = e.state[g],
         d.wire = Append(e.wire, Ack(f, "Received")), OneChannel(d)
  PROVE  Agreed(p, d)
<1> DEFINE x == Ack(f, "Received")
           w == p.wire
           v == e.wire
           u == Append(v, x)
<1>1. /\ x \in Packets /\ x.file = f /\ x.kind = "Ack" /\ x.status = "Received"
  BY DEF Ack, Packets, AckStatus
<1>2. v \in Seq(Packets)
  BY DEF Contacts
<1>3. d.wire = u
  OBVIOUS
<1> HIDE DEF x
<1>4. \A S : On(u, S) <=> On(v, S) \/ x \in S
  BY <1>1, <1>2, OnAppend
<1>5. InOrder(u)
  <2>1. ~On(v, ClashingBefore(x))
    <3>1. SUFFICES ASSUME NEW i \in 1..Len(v), Clash(v[i], x)
                   PROVE  FALSE
      BY DEF On, ClashingBefore
    <3>2. v[i] \in Packets /\ v[i].kind = "Ack" /\ v[i].file = f
      BY <1>1, <1>2, <3>1 DEF Clash
    <3>3. v[i] \in Acks(f, {v[i].status})
      BY <3>2 DEF Acks
    <3> QED
      BY <3>3 DEF On
  <2> QED
    BY <1>1, <1>2, <2>1, OrderedAppend DEF Agreed
<1>6. ~On(u, Odd("receiver"))
  BY <1>1, <1>4 DEF Agreed, Odd
<1> HIDE DEF u, v, w
<1>7. ASSUME NEW g \in Files
      PROVE  Match(p.state[g], e.state[g], w, u, g)
  <2>1. Match(p.state[g], e.state[g], w, v, g)
    BY DEF Agreed, v, w
  <2>2. x \notin Requests(g) /\ x \notin Refusals(g)
    BY <1>1 DEF Requests, Refusals, Acks
  <2>3. On(u, Requests(g)) <=> On(v, Requests(g))
    BY <1>4, <2>2
  <2>4. On(u, Refusals(g)) <=> On(v, Refusals(g))
    BY <1>4, <2>2
  <2>5. x \in Receipts(g) => g = f
    BY <1>1 DEF Receipts, Acks
  <2>6. On(u, Receipts(g)) <=> On(v, Receipts(g)) \/ x \in Receipts(g)
    BY <1>4
  <2>7. x \in Receipts(g) => p.state[g] \in {"OFFERED", "CANCELLED"}
    BY <2>1, <2>5 DEF Match
  <2> QED
    BY <2>1, <2>3, <2>4, <2>5, <2>6, <2>7 DEF Match
<1>8. \A g \in Files : Match(p.state[g], d.state[g], p.wire, d.wire, g)
  BY <1>3, <1>7 DEF w
<1> QED
  BY <1>3, <1>5, <1>6, <1>8 DEF Agreed

\* FileManager::receivedFileOffer() of a new file; o is the sender without the offer.
LEMMA OfferAgrees ==
  ASSUME NEW p \in Contacts, NEW c \in Contacts, Agreed(p, c), c.online = link,
         p.wire # <<>>, NEW x, x = Head(p.wire), x.kind = "Offer",
         NEW o, o.state = p.state, o.wire = Tail(p.wire),
         NEW d, d = SetState(Sent(c, Ack(x.file, "Received")), x.file, "OFFERED")
  PROVE  d.online = link /\ Agreed(o, d)
<1> DEFINE f == x.file
           a == Ack(f, "Received")
           b == Sent(c, a)
           e == SetState(c, f, "OFFERED")
<1>1. link
  BY WrittenIsLinked
<1>2. x \in Packets /\ f \in Files
  BY OnTail DEF Contacts, Packets
<1>3. c.state[f] = "NONE"
  BY OfferIsNew
<1>4. OneChannel(c)
  BY DEF Agreed
<1>5. a \in Packets
  BY <1>2 DEF Ack, Packets, AckStatus
<1>6. d = SetState(b, f, "OFFERED")
  OBVIOUS
<1>7. x.file = f /\ a = Ack(f, "Received")
  OBVIOUS
<1> HIDE DEF f, a
<1>8. /\ b \in Contacts /\ b.wire = Append(c.wire, a)
      /\ b.state = c.state /\ SameChannels(c, b) /\ b.online = c.online
  <2>1. b = Sent(c, a)
    OBVIOUS
  <2> HIDE DEF b
  <2>2. Written(c, a, b)
    BY <1>1, <1>5, <2>1, SentOnLink
  <2> QED
    BY <2>2 DEF Written, SameChannels
<1> HIDE DEF b
<1>9. OneChannel(b) /\ b.made = c.made
  BY <1>4, <1>8 DEF OneChannel, Numbered, SameChannels
<1>10. \A k \in c.made : k[2] # f
  BY <1>3, <1>4, Unmade
<1>11. /\ d \in Contacts /\ Alters(b, d, f, "OFFERED")
       /\ d.wire = b.wire /\ d.online = b.online
  <2>1. b \in Contacts /\ "OFFERED" \in FileStates
    BY <1>8 DEF FileStates
  <2> QED
    BY <1>2, <1>6, <2>1, SetStateAlters
<1>12. OneChannel(d)
  <2>1. Hashed(b, b, f)
    BY DEF Hashed
  <2>2. \A k \in b.made : k[2] # f
    BY <1>9, <1>10
  <2>3. "OFFERED" \in FileStates \ {"TRANSFERRING", "HASHING"}
    BY DEF FileStates
  <2> QED
    BY <1>2, <1>6, <1>8, <1>9, <2>1, <2>2, <2>3, SetStateChannel
<1>13. /\ e \in Contacts /\ Alters(c, e, f, "OFFERED") /\ e.wire = c.wire
  BY <1>2, SetStateAlters DEF FileStates
<1>14. OneChannel(e)
  <2>1. Hashed(c, c, f)
    BY DEF Hashed
  <2>2. "OFFERED" \in FileStates \ {"TRANSFERRING", "HASHING"}
    BY DEF FileStates
  <2> QED
    BY <1>2, <1>4, <1>10, <2>1, <2>2, SetStateChannel
<1> HIDE DEF e
<1>15. ReceiverMakes(c.state[f], "OFFERED", x)
  BY DEF ReceiverMakes
<1>16. Agreed(o, e) /\ \A T : ~On(c.wire, Acks(f, T))
  BY <1>7, <1>13, <1>14, <1>15, ReceiverHears
<1>17. e.state[f] = "OFFERED" /\ \A g \in Files : d.state[g] = e.state[g]
  BY <1>8, <1>11, <1>13 DEF Alters
<1>18. d.wire = Append(e.wire, Ack(f, "Received"))
  BY <1>7, <1>8, <1>11, <1>13
<1>19. Agreed(o, d)
  BY <1>1, <1>2, <1>12, <1>13, <1>16, <1>17, <1>18, ReceiptAgrees
<1> QED
  BY <1>8, <1>11, <1>19

(***************************************************************************)
(* No handler closes a connection, or finds a file it cannot open, while   *)
(* nothing breaks.                                                         *)
(***************************************************************************)

\* File::setState(), Peer::send() and Peer::createChannel().
LEMMA SetStateCalm ==
  ASSUME NEW c, Calm(c), NEW f, NEW st
  PROVE  Calm(SetState(c, f, st))
<1>1. CASE c.state[f] = st
  BY <1>1 DEF SetState
<1>2. CASE c.state[f] # st /\ st = "TRANSFERRING"
  BY <1>2 DEF SetState, Calm
<1>3. CASE c.state[f] # st /\ st # "TRANSFERRING"
  BY <1>3 DEF SetState, Calm
<1> QED
  BY <1>1, <1>2, <1>3

LEMMA SentCalm ==
  ASSUME NEW c, Calm(c), NEW x
  PROVE  Calm(Sent(c, x))
BY DEF Sent, Calm

LEMMA WithChannelCalm ==
  ASSUME NEW c, Calm(c), NEW ch, NEW f
  PROVE  Calm(WithChannel(c, ch, f))
BY DEF WithChannel, Calm

\* The acks, and the end of the program.
LEMMA AckedCalm ==
  ASSUME NEW c, Calm(c), NEW f, NEW st
  PROVE  Calm(Acked(c, f, st)) /\ Calm(TransferFailed(c, f))
BY SentCalm, SetStateCalm DEF Acked, TransferFailed

LEMMA EndedCalm ==
  ASSUME NEW c, Calm(c), NEW s
  PROVE  Calm(Ended(s, c))
BY DEF Ended, NewContact, Calm

\* Peer::startSend() and startReceive().
LEMMA OnOutgoingCalm ==
  ASSUME NEW c, Calm(c), NEW f
  PROVE  Calm(OnOutgoing(c, f))
<1> DEFINE n == IF c.parts[f] < Chunks THEN c.parts[f] + 1 ELSE Chunks
           b == [c EXCEPT !.parts[f] = n]
           sent == Sent(b, Chunk(f, n, c.channel[f]))
<1>1. OnOutgoing(c, f) \in {sent, SetState(sent, f, "DONE"), Ended("sender", sent)}
  BY DEF OnOutgoing
<1> HIDE DEF n
<1>2. Calm(b)
  BY DEF Calm
<1> HIDE DEF b
<1>3. Calm(sent)
  BY <1>2, SentCalm
<1> HIDE DEF sent
<1> QED
  BY <1>1, <1>3, SetStateCalm, EndedCalm

LEMMA StartsCalm ==
  ASSUME NEW c, Calm(c), NEW f
  PROVE  Calm(StartSend(c, f)) /\ Calm(StartReceive(c, f))
<1> DEFINE w(ch) == WithChannel(c, ch, f)
           t == SetState(Sent(w(c.next), Proceed(f, c.next)), f, "TRANSFERRING")
           d == [t EXCEPT !.channel[f] = c.next, !.next = @ + 1]
<1>1. f \notin c.bad
  BY DEF Calm
<1>2. Calm(OnOutgoing(SetState(w(c.channel[f]), f, "TRANSFERRING"), f))
  BY WithChannelCalm, SetStateCalm, OnOutgoingCalm
<1>3. Calm(StartSend(c, f))
  BY <1>1, <1>2, EndedCalm DEF StartSend
<1>4. Calm(t)
  BY WithChannelCalm, SentCalm, SetStateCalm
<1>5. StartReceive(c, f) = d
  BY <1>1 DEF StartReceive
<1> HIDE DEF t
<1>6. Calm(d)
  BY <1>4 DEF Calm
<1> QED
  BY <1>3, <1>5, <1>6

\* Contact::queueTransfer() and processFilesQueue().
LEMMA QueueTransferCalm ==
  ASSUME NEW c, Calm(c), NEW s, NEW f
  PROVE  Calm(QueueTransfer(s, c, f))
<1> DEFINE slot == [c EXCEPT !.active = @ \cup {f}]
<1>1. QueueTransfer(s, c, f) \in {c, StartSend(slot, f), StartReceive(slot, f)}
  BY DEF QueueTransfer
<1>2. Calm(slot)
  BY DEF Calm
<1> HIDE DEF slot
<1> QED
  BY <1>1, <1>2, StartsCalm

LEMMA ProcessFilesQueueCalm ==
  ASSUME NEW c, Calm(c), NEW s
  PROVE  Calm(ProcessFilesQueue(s, c))
<1> DEFINE with(u) == [c EXCEPT !.queue = u]
           q == Belonging(s, c)
           f == Head(q)
<1>1. \A u : Calm(with(u))
  BY DEF Calm
<1>2. ProcessFilesQueue(s, c) \in
        {c, with(<<>>), QueueTransfer(s, with(q), f), QueueTransfer(s, with(Tail(q)), f),
         SetState(Sent(with(Tail(q)), Offer(f)), f, "OFFERED")}
  BY DEF ProcessFilesQueue
<1> HIDE DEF with, q, f
<1> QED
  BY <1>1, <1>2, QueueTransferCalm, SentCalm, SetStateCalm

\* Contact::onOutputBufferEmptied().
LEMMA BufferCalm ==
  ASSUME NEW c, Calm(c), NEW s, NEW d \in OutputBufferEmptied(s, c)
  PROVE  Calm(d)
<1> DEFINE b == ProcessFilesQueue(s, c)
           idle == {f \in b.active : b.state[f] # "TRANSFERRING"}
           busy == b.active \ idle
           kept == [b EXCEPT !.active = busy]
           without(met) == [b EXCEPT !.active = @ \ met]
<1>1. Calm(b)
  BY ProcessFilesQueueCalm
<1>2. d = b \/ d \in ProcessFileBlocks(s, b)
  BY DEF OutputBufferEmptied
<1> HIDE DEF b
<1>3. Calm(kept) /\ \A met : Calm(without(met))
  BY <1>1 DEF Calm
<1>4. ProcessFileBlocks(s, b) =
        IF ~b.online THEN {b}
        ELSE IF s = "receiver" \/ busy = {} THEN {kept}
        ELSE UNION {SendSome(without(met), f) : met \in SUBSET idle, f \in busy}
  BY DEF ProcessFileBlocks
<1> HIDE DEF idle, busy, kept, without
<1>5. \/ d \in {b, kept}
      \/ \E met \in SUBSET idle, f \in busy : d \in SendSome(without(met), f)
  BY <1>2, <1>4
<1>6. ASSUME NEW e, Calm(e), NEW f, d \in SendSome(e, f)
      PROVE  Calm(d)
  <2>1. \/ d \in {TransferFailed(e, f), Ended("sender", TransferFailed(e, f))}
        \/ \E k : d = OnOutgoing(e, k[2])
    BY <1>6 DEF SendSome
  <2> QED
    BY <1>6, <2>1, AckedCalm, EndedCalm, OnOutgoingCalm
<1> QED
  BY <1>1, <1>3, <1>5, <1>6

\* Contact::loadFileQueue() and queueFile().
LEMMA LoadFileQueueCalm ==
  ASSUME NEW c, Calm(c), NEW s, NEW d \in LoadFileQueue(s, c)
  PROVE  Calm(d)
<1>1. CASE c.loaded
  BY <1>1 DEF LoadFileQueue
<1>2. CASE ~c.loaded
  <2>1. PICK q \in Rows(Loadable(s, c)) :
          d = [c EXCEPT !.queue = @ \o q, !.loaded = TRUE]
    BY Zenon, <1>2 DEF LoadFileQueue
  <2> QED
    BY <2>1 DEF Calm
<1> QED
  BY <1>1, <1>2

LEMMA QueueFileCalm ==
  ASSUME NEW c, Calm(c), NEW s, NEW f, NEW d \in QueueFile(s, c, f)
  PROVE  Calm(d)
<1>1. PICK l \in LoadFileQueue(s, c) :
        d = ProcessFilesQueue(s, [l EXCEPT !.queue = Append(@, f)])
  BY Zenon DEF QueueFile
<1> DEFINE b == [l EXCEPT !.queue = Append(@, f)]
<1>2. Calm(l)
  BY <1>1, LoadFileQueueCalm
<1>3. Calm(b)
  BY <1>2 DEF Calm
<1> HIDE DEF b
<1> QED
  BY <1>1, <1>3, ProcessFilesQueueCalm DEF b

\* What a handler makes of a side.
CalmStep(s) == \E d : Calm(d) /\ (Becomes(s, d) \/ ReadsAndBecomes(s, d))

LEMMA CalmStays ==
  ASSUME IInv, NothingBroken, NEW s \in Sides, CalmStep(s)
  PROVE  NothingBroken'
<1>1. PICK d : Calm(d) /\ (Becomes(s, d) \/ ReadsAndBecomes(s, d))
  BY DEF CalmStep
<1>2. contact \in [Sides -> Contacts] /\ Other(s) \in Sides /\ Other(s) # s
  BY SideFacts DEF IInv, TypeOK
<1>3. \/ contact' = [contact EXCEPT ![s] = d]
      \/ contact' = [contact EXCEPT ![s] = d, ![Other(s)].wire = Tail(@)]
  BY <1>1 DEF Becomes, ReadsAndBecomes
<1>4. contact'[s] = d /\ contact'[Other(s)] \in {contact[Other(s)], Unread(s)}
  BY <1>2, <1>3 DEF Unread
<1>5. Calm(contact[Other(s)])
  BY <1>2 DEF NothingBroken
<1>6. Calm(Unread(s))
  BY <1>5 DEF Unread, Calm
<1>7. \A k \in Sides : contact'[k] \in {d, contact[Other(s)], Unread(s)}
  BY <1>4 DEF Sides, Other
<1>8. \A k \in Sides : Calm(contact'[k])
  BY <1>1, <1>5, <1>6, <1>7
<1> QED
  BY <1>8 DEF NothingBroken, Calm

\* The user's actions.
LEMMA UserCalm ==
  ASSUME NothingBroken, UserStep
  PROVE  \E s \in Sides : CalmStep(s)
<1>1. \A s \in Sides : Calm(contact[s])
  BY DEF NothingBroken
<1>2. "sender" \in Sides /\ "receiver" \in Sides
  BY DEF Sides
<1>3. ASSUME NEW f \in Files, AddFile(f)
      PROVE  CalmStep("sender")
  <2> DEFINE h == SetState(contact["sender"], f, "HASHING")
             d == [h EXCEPT !.hashing = @ \cup {f}]
  <2>1. Becomes("sender", d)
    BY <1>3 DEF AddFile
  <2>2. Calm(h)
    BY <1>1, <1>2, SetStateCalm
  <2> HIDE DEF h
  <2>3. Calm(d)
    BY <2>2 DEF Calm
  <2> QED
    BY <2>1, <2>3 DEF CalmStep
<1>4. ASSUME NEW f \in Files, Accept(f)
      PROVE  CalmStep("receiver")
  <2>1. PICK d \in QueueFile("receiver", SetState(contact["receiver"], f, "QUEUED"), f) :
          Becomes("receiver", d)
    BY <1>4 DEF Accept
  <2>2. Calm(d)
    BY <1>1, <1>2, <2>1, SetStateCalm, QueueFileCalm
  <2> QED
    BY <2>1, <2>2 DEF CalmStep
<1>5. ASSUME NEW f \in Files, Reject(f)
      PROVE  CalmStep("receiver")
  <2>1. Becomes("receiver",
                Acked(SetState(contact["receiver"], f, "REJECTED"), f, "Rejected"))
    BY <1>5 DEF Reject
  <2> QED
    BY <1>1, <1>2, <2>1, SetStateCalm, AckedCalm DEF CalmStep
<1>6. ASSUME NEW s \in Sides, NEW f \in Files, Cancel(s, f)
      PROVE  CalmStep(s)
  <2>1. \/ Becomes(s, TransferFailed(contact[s], f))
        \/ Becomes(s, Acked(SetState(contact[s], f, "CANCELLED"), f, "Abort"))
    BY <1>6 DEF Cancel
  <2> QED
    BY <1>1, <2>1, SetStateCalm, AckedCalm DEF CalmStep
<1> QED
  BY <1>2, <1>3, <1>4, <1>5, <1>6 DEF UserStep

\* What is done when a task ends, or the buffer is empty.
LEMMA TaskCalm ==
  ASSUME NothingBroken, NEW s \in Sides, TaskStep(s)
  PROVE  \E k \in Sides : CalmStep(k)
<1>1. "sender" \in Sides /\ "receiver" \in Sides /\ \A k \in Sides : Calm(contact[k])
  BY DEF NothingBroken, Sides
<1>2. ASSUME NEW k \in Sides, NEW f
      PROVE  Calm([contact[k] EXCEPT !.hashing = @ \ {f}])
  <2>1. Calm(contact[k])
    BY <1>1
  <2> QED
    BY <2>1 DEF Calm
<1>3. ASSUME NEW f \in Files, FileHashed(f)
      PROVE  CalmStep("sender")
  <2> DEFINE heard == [contact["sender"] EXCEPT !.hashing = @ \ {f}]
  <2>1. \/ Becomes("sender", SetState(heard, f, "FAILED"))
        \/ \E d \in QueueFile("sender", SetState(heard, f, "WAITING"), f) :
             Becomes("sender", d)
        \/ Becomes("sender", heard)
    BY <1>3, Zenon DEF FileHashed
  <2>2. Calm(heard)
    BY <1>1, <1>2
  <2> HIDE DEF heard
  <2> QED
    BY <2>1, <2>2, SetStateCalm, QueueFileCalm DEF CalmStep
<1>4. ASSUME NEW f \in Files, ReceivedFileHashed(f)
      PROVE  CalmStep("receiver")
  <2> DEFINE heard == [contact["receiver"] EXCEPT !.hashing = @ \ {f}]
  <2>1. \/ Becomes("receiver", SetState(heard, f, "DONE"))
        \/ Becomes("receiver", TransferFailed(heard, f))
        \/ Becomes("receiver", heard)
    BY <1>4, Zenon DEF ReceivedFileHashed
  <2>2. Calm(heard)
    BY <1>1, <1>2
  <2> HIDE DEF heard
  <2> QED
    BY <2>1, <2>2, SetStateCalm, AckedCalm DEF CalmStep
<1>5. ASSUME NEW ch, RemoveTransfer(s, ch)
      PROVE  CalmStep(s)
  <2> DEFINE c == contact[s]
             d == [c EXCEPT !.leaving = @ \ {ch}, !.open = {e \in @ : e[1] # ch},
                            !.shut = @ \ {ch}]
  <2>1. Becomes(s, d)
    BY <1>5 DEF RemoveTransfer
  <2>2. Calm(c)
    BY <1>1
  <2> HIDE DEF c
  <2>3. Calm(d)
    BY <2>2 DEF Calm
  <2> QED
    BY <2>1, <2>3 DEF CalmStep
<1>6. \/ \E f \in Files : FileHashed(f) \/ ReceivedFileHashed(f)
      \/ \E ch \in contact[s].leaving : RemoveTransfer(s, ch)
  BY DEF TaskStep
<1> QED
  BY <1>1, <1>3, <1>4, <1>5, <1>6

LEMMA BufferStepCalm ==
  ASSUME NothingBroken, NEW s \in Sides, BufferStep(s)
  PROVE  CalmStep(s)
<1> DEFINE c == contact[s]
           greeted == [c EXCEPT !.greet = FALSE]
           ready == [greeted EXCEPT !.drain = TRUE]
           drained == [c EXCEPT !.drain = FALSE]
<1>1. \/ Becomes(s, greeted)
      \/ \E d \in LoadFileQueue(s, ready) :
           \E e \in OutputBufferEmptied(s, d) : Becomes(s, e)
      \/ \E d \in OutputBufferEmptied(s, drained) : Becomes(s, d)
  BY DEF BufferStep, ProcessOnlineLater, OnOutputBufferEmptied
<1>2. Calm(c)
  BY DEF NothingBroken
<1> HIDE DEF c
<1>3. Calm(greeted) /\ Calm(drained)
  BY <1>2 DEF Calm
<1> HIDE DEF greeted
<1>4. Calm(ready)
  BY <1>3 DEF Calm
<1> HIDE DEF ready, drained
<1> QED
  BY <1>1, <1>3, <1>4, LoadFileQueueCalm, BufferCalm DEF CalmStep

\* What is read.  A chunk for a closed file closes the connection, which is counted.
LEMMA ChunkCalm ==
  ASSUME IInv, NothingBroken, ReceivedChunk, faults' = 0
  PROVE  CalmStep("receiver")
<1> DEFINE s == "receiver"
           c == contact[s]
           x == Packet(s)
           stored(g) == Stored(c, g, x)
           hashed(g) == SetState(stored(g), g, "HASHING")
           last(e) == [hashed(e[2]) EXCEPT !.open = @ \ {e},
                                           !.shut = @ \cup {e[1]},
                                           !.hashing = @ \cup {e[2]}]
           late == x.channel \in c.shut
           none == [c EXCEPT !.closing = late]
<1>1. \E d : /\ ReadsAndBecomes(s, d)
             /\ d = none \/ \E e : d \in {stored(e[2]), Ended(s, stored(e[2])), last(e)}
  <2>1. \/ ReadsAndBecomes(s, none)
        \/ \E e \in {e \in c.open : e[1] = x.channel} :
             \/ ReadsAndBecomes(s, stored(e[2]))
             \/ ReadsAndBecomes(s, Ended(s, stored(e[2])))
             \/ ReadsAndBecomes(s, last(e))
    BY Zenon DEF ReceivedChunk, Stored
  <2> HIDE DEF none, stored, last
  <2> QED
    BY <2>1
<1>2. PICK d : /\ ReadsAndBecomes(s, d)
               /\ \/ d = none
                  \/ \E e : d \in {stored(e[2]), Ended(s, stored(e[2])), last(e)}
  BY Zenon, <1>1
<1>3. Calm(c)
  <2>1. s \in Sides
    BY DEF Sides
  <2> QED
    BY Zenon, <2>1 DEF NothingBroken
<1> HIDE DEF c, x, late
<1>4. ~d.closing
  <2>1. faults' = IF d.closing \/ ~d.up THEN faults + 1 ELSE faults
    BY Zenon, <1>2 DEF ReadsAndBecomes
  <2>2. faults + 1 # 0
    BY CounterTypes
  <2> QED
    BY Zenon, <2>1, <2>2
<1>5. ASSUME NEW g
      PROVE  Calm(stored(g)) /\ Calm(hashed(g))
  <2>1. Calm(stored(g))
    BY <1>3 DEF Stored, Calm
  <2> HIDE DEF stored
  <2> QED
    BY <2>1, SetStateCalm
<1>6. CASE d = none
  <2>1. "closing" \in DOMAIN none /\ "bad" \in DOMAIN none /\ "threw" \in DOMAIN none
    BY <1>3 DEF Calm
  <2>2. none.closing = late /\ none.bad = {} /\ none.threw = {}
    BY <1>3 DEF Calm
  <2> HIDE DEF none
  <2>3. none.closing = FALSE
    BY <1>4, <1>6, <2>2 DEF late
  <2> QED
    BY <1>2, <1>6, <2>1, <2>2, <2>3 DEF CalmStep, Calm
<1> HIDE DEF stored, hashed
<1>7. ASSUME NEW e
      PROVE  Calm(last(e))
  <2>1. Calm(hashed(e[2]))
    BY <1>5
  <2> QED
    BY <2>1 DEF Calm
<1> HIDE DEF last, none
<1> QED
  BY <1>2, <1>5, <1>6, <1>7, EndedCalm DEF CalmStep

LEMMA ReadCalm ==
  ASSUME IInv, NothingBroken, NEW s \in Sides, ReadStep(s), faults' = 0
  PROVE  \E k \in Sides : CalmStep(k)
<1>1. "sender" \in Sides /\ "receiver" \in Sides /\ \A k \in Sides : Calm(contact[k])
  BY DEF NothingBroken, Sides
<1>2. CASE ReceivedFileOffer
  <2> DEFINE c == contact["receiver"]
             f == Packet("receiver").file
  <2>1. \/ \E st : ReadsAndBecomes("receiver", Sent(c, Ack(f, st)))
        \/ \E d \in QueueFile("receiver", c, f) : ReadsAndBecomes("receiver", d)
        \/ ReadsAndBecomes("receiver",
                           SetState(Sent(c, Ack(f, "Received")), f, "OFFERED"))
    BY <1>2, Zenon DEF ReceivedFileOffer
  <2>2. Calm(c)
    BY <1>1
  <2> HIDE DEF c, f
  <2> QED
    BY <1>1, <2>1, <2>2, SentCalm, SetStateCalm, QueueFileCalm DEF CalmStep
<1>3. CASE AckForNoFile(s)
  <2> DEFINE c == contact[s]
             f == Packet(s).file
  <2>1. ReadsAndBecomes(s, Ended(s, c)) \/ ReadsAndBecomes(s, c)
        \/ ReadsAndBecomes(s, Acked(c, f, "Abort"))
    BY <1>3 DEF AckForNoFile
  <2>2. Calm(c)
    BY <1>1
  <2> HIDE DEF c, f
  <2> QED
    BY <2>1, <2>2, EndedCalm, AckedCalm DEF CalmStep
<1>4. CASE ReceivedAck(s)
  <2> DEFINE c == contact[s]
             f == Packet(s).file
  <2>1. \/ ReadsAndBecomes(s, TransferFailed(c, f))
        \/ \E st : ReadsAndBecomes(s, SetState(c, f, st))
        \/ ReadsAndBecomes(s, c)
    BY <1>4 DEF ReceivedAck
  <2>2. Calm(c)
    BY <1>1
  <2> HIDE DEF c, f
  <2> QED
    BY <2>1, <2>2, SetStateCalm, AckedCalm DEF CalmStep
<1>5. CASE ReceivedProceed
  <2> DEFINE c == contact["sender"]
             f == Packet("sender").file
             asked == [c EXCEPT !.channel[f] = Packet("sender").channel]
  <2>1. \/ ReadsAndBecomes("sender", Acked(SetState(c, f, "FAILED"), f, "Failed"))
        \/ \E d \in QueueFile("sender", SetState(asked, f, "QUEUED"), f) :
             ReadsAndBecomes("sender", d)
    BY <1>5, Zenon DEF ReceivedProceed
  <2>2. Calm(c)
    BY <1>1
  <2> HIDE DEF c, f
  <2>3. Calm(asked)
    BY <2>2 DEF Calm
  <2> HIDE DEF asked
  <2> QED
    BY <1>1, <2>1, <2>2, <2>3, SetStateCalm, AckedCalm, QueueFileCalm DEF CalmStep
<1>6. \/ ReceivedFileOffer \/ ReceivedChunk \/ AckForNoFile(s)
      \/ ReceivedAck(s) \/ ReceivedProceed
  BY DEF ReadStep
<1> QED
  BY <1>1, <1>2, <1>3, <1>4, <1>5, <1>6, ChunkCalm

(***************************************************************************)
(* What a step makes of the agreement.                                     *)
(***************************************************************************)

\* The side s may become d, while the other has o.
SideAgrees(s, d, o) ==
  IF s = "sender" THEN SenderAgrees(d, o) ELSE ReceiverAgrees(o, d)

\* Both sides, while nothing has broken.
LEMMA AgreeingSides ==
  ASSUME IInv, Agreeing, NEW s \in Sides
  PROVE  /\ contact[s] \in Contacts /\ contact[Other(s)] \in Contacts
         /\ Sound(s, contact[s])
         /\ contact[s].up /\ contact[s].online = link
         /\ SideAgrees(s, contact[s], contact[Other(s)])
         /\ s = "sender" => /\ Other(s) = "receiver"
                            /\ Agreed(contact[s], contact[Other(s)])
         /\ s = "receiver" => /\ Other(s) = "sender"
                              /\ Agreed(contact[Other(s)], contact[s])
<1>1. /\ contact[s] \in Contacts /\ contact[Other(s)] \in Contacts
      /\ Sound(s, contact[s])
  BY SideFacts
<1>2. contact[s].up /\ contact[s].online = link
  BY DEF Agreeing
<1>3. /\ s = "sender" => /\ Other(s) = "receiver"
                         /\ Agreed(contact[s], contact[Other(s)])
      /\ s = "receiver" => /\ Other(s) = "sender"
                           /\ Agreed(contact[Other(s)], contact[s])
  BY DEF Agreeing, Other
<1>4. SideAgrees(s, contact[s], contact[Other(s)])
  BY <1>2, <1>3 DEF SideAgrees, SenderAgrees, ReceiverAgrees, Sides
<1> QED
  BY <1>1, <1>2, <1>3, <1>4

\* A step after which both run and agree, and the link is what it was.
LEMMA BothAgree ==
  ASSUME NEW s \in Sides, NEW d, SideAgrees(s, d, contact'[Other(s)]),
         contact'[s] = d, d.up, link' = link,
         contact'[Other(s)].up, contact'[Other(s)].online = link
  PROVE  Agreeing'
<1>1. CASE s = "sender"
  <2>1. /\ contact'["sender"] = d /\ Other(s) = "receiver"
        /\ d.online = link /\ Agreed(d, contact'["receiver"])
    BY <1>1 DEF SideAgrees, SenderAgrees, Other
  <2>2. Agreed(contact["sender"], contact["receiver"])'
    BY <2>1 DEF Agreed
  <2>3. \A k \in Sides : contact'[k].up /\ contact'[k].online = link'
    BY <2>1 DEF Sides
  <2> QED
    BY <2>2, <2>3 DEF Agreeing
<1>2. CASE s = "receiver"
  <2>1. /\ contact'["receiver"] = d /\ Other(s) = "sender"
        /\ d.online = link /\ Agreed(contact'["sender"], d)
    BY <1>2 DEF SideAgrees, ReceiverAgrees, Other
  <2>2. Agreed(contact["sender"], contact["receiver"])'
    BY <2>1 DEF Agreed
  <2>3. \A k \in Sides : contact'[k].up /\ contact'[k].online = link'
    BY <2>1 DEF Sides
  <2> QED
    BY <2>2, <2>3 DEF Agreeing
<1> QED
  BY <1>1, <1>2 DEF Sides

\* A handler that reads nothing.
LEMMA BecomesAgrees ==
  ASSUME IInv, Agreeing, faults' = 0, NEW s \in Sides, NEW d,
         SideAgrees(s, d, contact[Other(s)]), Becomes(s, d)
  PROVE  Agreeing'
<1>1. /\ contact' = [contact EXCEPT ![s] = d] /\ link' = (link /\ d.up)
      /\ faults' = IF contact[s].up /\ ~d.up THEN faults + 1 ELSE faults
  BY DEF Becomes
<1>2. contact \in [Sides -> Contacts] /\ faults \in Nat /\ link \in BOOLEAN
  BY CounterTypes DEF IInv, TypeOK
<1>3. contact[s].up /\ contact[Other(s)].up /\ contact[Other(s)].online = link
      /\ Other(s) \in Sides /\ Other(s) # s
  BY SideFacts DEF Agreeing
<1>4. d.up
  BY <1>1, <1>2, <1>3
<1>5. contact'[s] = d /\ contact'[Other(s)] = contact[Other(s)]
  BY <1>1, <1>2, <1>3
<1>6. link' = link
  BY <1>1, <1>2, <1>4
<1> QED
  BY <1>3, <1>4, <1>5, <1>6, BothAgree

\* A handler that reads.
LEMMA ReadsAgrees ==
  ASSUME IInv, Agreeing, faults' = 0, NEW s \in Sides, NEW d,
         SideAgrees(s, d, Unread(s)), ReadsAndBecomes(s, d)
  PROVE  Agreeing'
<1>1. /\ contact' = [contact EXCEPT ![s] = d, ![Other(s)].wire = Tail(@)]
      /\ link' = (link /\ d.up)
      /\ faults' = IF d.closing \/ ~d.up THEN faults + 1 ELSE faults
  BY DEF ReadsAndBecomes
<1>2. contact \in [Sides -> Contacts] /\ faults \in Nat /\ link \in BOOLEAN
  BY CounterTypes DEF IInv, TypeOK
<1>3. contact[s].up /\ contact[Other(s)].up /\ contact[Other(s)].online = link
      /\ Other(s) \in Sides /\ Other(s) # s /\ contact[Other(s)] \in Contacts
  BY SideFacts DEF Agreeing
<1>4. d.up
  BY <1>1, <1>2, <1>3
<1>5. contact'[s] = d /\ contact'[Other(s)] = Unread(s)
  BY <1>1, <1>2 DEF Sides, Other, Unread
<1>6. Unread(s).up /\ Unread(s).online = link
  BY <1>3 DEF Unread, Contacts
<1>7. link' = link
  BY <1>1, <1>2, <1>4
<1> QED
  BY <1>4, <1>5, <1>6, <1>7, BothAgree

\* The other side, once its first packet was read, and that packet.
LEMMA UnreadFields ==
  ASSUME IInv, NEW s \in Sides, contact[Other(s)].wire # <<>>,
         NEW o, o = contact[Other(s)], NEW u, u = Unread(s)
  PROVE  /\ u \in Contacts /\ u.state = o.state /\ u.wire = Tail(o.wire)
         /\ SameChannels(o, u) /\ u.online = o.online /\ u.up = o.up
         /\ Packet(s) = Head(o.wire) /\ Packet(s) \in Packets
         /\ Packet(s).file \in Files
<1>1. o \in Contacts /\ u = [o EXCEPT !.wire = Tail(@)]
  BY SideFacts DEF Unread
<1>2. Tail(o.wire) \in Seq(Packets)
  BY <1>1, ToSetHeadTail DEF Contacts
<1>3. /\ u \in Contacts /\ u.state = o.state /\ u.wire = Tail(o.wire)
      /\ u.online = o.online /\ u.up = o.up
  BY <1>1, <1>2 DEF Contacts
<1>4. SameChannels(o, u)
  BY <1>1 DEF Contacts, SameChannels
<1>5. Packet(s) = Head(o.wire) /\ Packet(s) \in Packets /\ Packet(s).file \in Files
  BY PacketFacts DEF Packet
<1> QED
  BY <1>3, <1>4, <1>5

\* What an ack of the receiver says of its file.
LEMMA AckToSender ==
  ASSUME NEW c, NEW r \in Contacts, Agreed(c, r), r.wire # <<>>,
         NEW x, x = Head(r.wire)
  PROVE  /\ x.kind = "Ack" /\ x.status \in {"Received", "Proceed", "Rejected", "Abort"}
         /\ x.status \in {"Received", "Proceed"} =>
              c.state[x.file] \in {"OFFERED", "CANCELLED"}
<1>1. x \in Packets /\ \A S : x \in S => On(r.wire, S)
  BY OnTail DEF Contacts
<1>2. x \notin Odd("receiver") /\ x.file \in Files
  BY <1>1 DEF Agreed, Packets
<1>3. x.kind = "Ack" /\ x.status \in {"Received", "Proceed", "Rejected", "Abort"}
  BY <1>1, <1>2 DEF Odd, Packets, AckStatus
<1>4. Match(c.state[x.file], r.state[x.file], c.wire, r.wire, x.file)
  BY <1>2 DEF Agreed
<1>5. CASE x.status = "Received"
  <2>1. On(r.wire, Receipts(x.file))
    BY <1>1, <1>3, <1>5 DEF Receipts, Acks
  <2> QED
    BY <1>3, <1>4, <2>1 DEF Match
<1>6. CASE x.status = "Proceed"
  <2>1. On(r.wire, Requests(x.file))
    BY <1>1, <1>3, <1>6 DEF Requests, Acks
  <2> QED
    BY <1>3, <1>4, <2>1 DEF Match
<1> QED
  BY <1>3, <1>5, <1>6

\* What an ack of the sender says.
LEMMA AckToReceiver ==
  ASSUME NEW p \in Contacts, NEW c, Agreed(p, c), p.wire # <<>>,
         NEW x, x = Head(p.wire), x.kind = "Ack"
  PROVE  x.status = "Abort"
<1>1. x \in Packets /\ \A S : x \in S => On(p.wire, S)
  BY OnTail DEF Contacts
<1>2. x \notin Odd("sender")
  BY <1>1 DEF Agreed
<1> QED
  BY <1>1, <1>2 DEF Odd

\* The sender, which may first have said something, takes what it has read to heart.
LEMMA SenderTakes ==
  ASSUME IInv, NEW s, s = "sender", NEW r, r = contact[Other(s)], r.wire # <<>>,
         NEW x, x = Packet(s), NEW c \in Contacts, Agreed(c, r),
         NEW st, NEW d, Alters(c, d, x.file, st), d.wire = c.wire, d.online = link,
         SenderMakes(c.state[x.file], st, x, c.wire)
  PROVE  Agreed(d, Unread(s)) /\ SideAgrees(s, d, Unread(s))
<1> DEFINE u == Unread(s)
<1>1. s \in Sides
  BY DEF Sides
<1>2. /\ r \in Contacts /\ u.state = r.state /\ u.wire = Tail(r.wire)
      /\ SameChannels(r, u) /\ x = Head(r.wire)
  BY <1>1, UnreadFields, SideFacts
<1>3. OneChannel(u)
  BY <1>2 DEF Agreed, OneChannel, Numbered, SameChannels
<1> HIDE DEF u
<1>4. Agreed(d, u)
  BY <1>2, <1>3, SenderHears
<1> QED
  BY <1>4 DEF SideAgrees, SenderAgrees, u

\* The same of the receiver.
LEMMA ReceiverTakes ==
  ASSUME IInv, NEW s, s = "receiver", NEW p, p = contact[Other(s)], p.wire # <<>>,
         NEW x, x = Packet(s), NEW c \in Contacts, Agreed(p, c),
         NEW st, NEW d, Alters(c, d, x.file, st), d.wire = c.wire, d.online = link,
         ReceiverMakes(c.state[x.file], st, x), OneChannel(d)
  PROVE  SideAgrees(s, d, Unread(s))
<1> DEFINE u == Unread(s)
<1>1. s \in Sides
  BY DEF Sides
<1>2. /\ p \in Contacts /\ u.state = p.state /\ u.wire = Tail(p.wire)
      /\ x = Head(p.wire)
  BY <1>1, UnreadFields, SideFacts
<1> HIDE DEF u
<1>3. Agreed(u, d)
  BY <1>2, ReceiverHears
<1> QED
  BY <1>3 DEF SideAgrees, ReceiverAgrees, u

(***************************************************************************)
(* One lemma per handler.                                                  *)
(***************************************************************************)

\* The user sends a file.
LEMMA AddFileAgrees ==
  ASSUME IInv, Agreeing, faults' = 0, NEW f \in Files, AddFile(f)
  PROVE  Agreeing'
<1> DEFINE s == "sender"
           c == contact[s]
           r == contact[Other(s)]
           h == SetState(c, f, "HASHING")
           d == [h EXCEPT !.hashing = @ \cup {f}]
<1>1. s \in Sides /\ c.state[f] = "NONE" /\ Becomes(s, d)
  BY DEF AddFile, Sides
<1>2. c \in Contacts /\ c.online = link /\ Agreed(c, r)
  BY <1>1, AgreeingSides
<1> HIDE DEF c, r, s
<1>3. /\ h \in Contacts /\ Alters(c, h, f, "HASHING")
      /\ h.wire = c.wire /\ h.online = c.online /\ h.active \subseteq c.active
  BY <1>2, SetStateAlters DEF FileStates
<1> HIDE DEF h
<1>4. /\ d.state = h.state /\ d.wire = h.wire /\ d.online = h.online
      /\ d.active = h.active
  BY <1>3 DEF Contacts
<1> HIDE DEF d
<1>5. SendsQuietly(c.state[f], "HASHING")
  BY <1>1 DEF SendsQuietly
<1>6. /\ Alters(c, d, f, "HASHING") /\ d.wire = c.wire /\ d.online = link
      /\ d.active \subseteq c.active
  BY <1>2, <1>3, <1>4 DEF Alters
<1>7. Agreed(d, r)
  BY <1>2, <1>5, <1>6, SenderQuiet
<1>8. SideAgrees(s, d, r)
  BY <1>6, <1>7 DEF SideAgrees, SenderAgrees, s
<1> QED
  BY <1>1, <1>8, BecomesAgrees DEF r

\* A file to be sent is hashed.
LEMMA FileHashedAgrees ==
  ASSUME IInv, Agreeing, faults' = 0, NEW f \in Files, FileHashed(f)
  PROVE  Agreeing'
<1> DEFINE s == "sender"
           c == contact[s]
           r == contact[Other(s)]
           heard == [c EXCEPT !.hashing = @ \ {f}]
           fail == SetState(heard, f, "FAILED")
           wait == SetState(heard, f, "WAITING")
<1>1. s \in Sides /\ f \in c.hashing
  BY DEF FileHashed, Sides
<1>2. /\ c \in Contacts /\ c.online = link /\ c.up /\ Agreed(c, r)
      /\ c.state[f] = "HASHING"
  <2>1. /\ c \in Contacts /\ c.online = link /\ c.up /\ Agreed(c, r) /\ Sound(s, c)
    BY <1>1, AgreeingSides
  <2>2. Hashes(s, c)
    BY <2>1 DEF Sound
  <2> QED
    BY <1>1, <2>1, <2>2 DEF Hashes
<1>3. \/ Becomes(s, fail)
      \/ \E d \in QueueFile(s, wait, f) : Becomes(s, d)
  BY <1>2 DEF FileHashed
<1> HIDE DEF c, r
<1>4. /\ heard \in Contacts /\ heard.state = c.state /\ heard.wire = c.wire
      /\ heard.online = link /\ heard.active = c.active /\ heard.up
  BY <1>2 DEF Contacts
<1> HIDE DEF heard
<1>5. ASSUME NEW st \in {"FAILED", "WAITING"}, NEW d, d = SetState(heard, f, st)
      PROVE  d \in Contacts /\ d.up /\ SenderAgrees(d, r)
  <2>1. st \in FileStates
    BY DEF FileStates
  <2>2. /\ d \in Contacts /\ Alters(heard, d, f, st) /\ d.up = heard.up
        /\ d.wire = heard.wire /\ d.online = heard.online
        /\ d.active \subseteq heard.active
    BY <1>4, <1>5, <2>1, SetStateAlters
  <2>3. SendsQuietly(c.state[f], st)
    BY <1>2 DEF SendsQuietly
  <2>4. Alters(c, d, f, st) /\ d.wire = c.wire /\ d.active \subseteq c.active
    BY <1>4, <2>2 DEF Alters
  <2>5. Agreed(d, r)
    BY <1>2, <2>3, <2>4, SenderQuiet
  <2> QED
    BY <1>4, <2>2, <2>5 DEF SenderAgrees
<1>6. SideAgrees(s, fail, r)
  <2>1. fail = SetState(heard, f, "FAILED")
    OBVIOUS
  <2> HIDE DEF fail
  <2> QED
    BY <1>5, <2>1 DEF SideAgrees
<1>7. ASSUME NEW d \in QueueFile(s, wait, f)
      PROVE  SideAgrees(s, d, r)
  <2>1. wait \in Contacts /\ wait.up /\ SenderAgrees(wait, r)
    BY <1>5
  <2> HIDE DEF wait
  <2>2. SenderAgrees(d, r)
    BY <2>1, QueueFileAgrees
  <2> QED
    BY <2>2 DEF SideAgrees
<1> HIDE DEF s, fail, wait
<1> QED
  BY <1>1, <1>3, <1>6, <1>7, BecomesAgrees DEF r

\* A received file is hashed.
LEMMA ReceivedFileHashedAgrees ==
  ASSUME IInv, Agreeing, faults' = 0, NEW f \in Files, ReceivedFileHashed(f)
  PROVE  Agreeing'
<1> DEFINE s == "receiver"
           c == contact[s]
           p == contact[Other(s)]
           heard == [c EXCEPT !.hashing = @ \ {f}]
           done == SetState(heard, f, "DONE")
           fail == TransferFailed(heard, f)
<1>1. /\ s \in Sides /\ c \in Contacts /\ c.online = link /\ c.up /\ Agreed(p, c)
  <2>1. s \in Sides
    BY DEF Sides
  <2> QED
    BY <2>1, AgreeingSides
<1>2. \/ c.state[f] = "HASHING" /\ (Becomes(s, done) \/ Becomes(s, fail))
      \/ c.state[f] # "HASHING" /\ Becomes(s, heard)
  BY DEF ReceivedFileHashed
<1> HIDE DEF c, p
<1>3. heard \in Contacts /\ Hashed(c, heard, f)
  BY <1>1 DEF Contacts, Hashed
<1> HIDE DEF heard
<1>4. ASSUME c.state[f] = "HASHING"
      PROVE  SideAgrees(s, done, p) /\ SideAgrees(s, fail, p)
  <2>1. done.online = link /\ Agreed(p, done)
    <3>1. "DONE" \in FileStates \ {"TRANSFERRING", "HASHING"}
      BY DEF FileStates
    <3>2. ReceivesQuietly(c.state[f], "DONE")
      BY <1>4 DEF ReceivesQuietly
    <3>3. done = SetState(heard, f, "DONE")
      OBVIOUS
    <3> HIDE DEF done
    <3> QED
      BY <1>1, <1>3, <3>1, <3>2, <3>3, QuietAgrees
  <2>2. fail.online = link /\ Agreed(p, fail)
    <3>1. fail = Acked(SetState(heard, f, "CANCELLED"), f, "Abort")
      BY <1>3, <1>4 DEF TransferFailed, Hashed
    <3>2. c.state[f] # "NONE"
      BY <1>4
    <3> HIDE DEF fail
    <3> QED
      BY <1>1, <1>3, <3>1, <3>2, RefusedAgrees
  <2> QED
    BY <2>1, <2>2 DEF SideAgrees, ReceiverAgrees
<1>5. ASSUME c.state[f] # "HASHING"
      PROVE  SideAgrees(s, heard, p)
  <2>1. OneChannel(heard)
    BY <1>1, <1>3, <1>5 DEF Agreed, OneChannel, Numbered, Hashed
  <2>2. Alters(c, heard, f, c.state[f]) /\ heard.wire = c.wire
    BY <1>3 DEF Alters, Hashed
  <2>3. ReceivesQuietly(c.state[f], c.state[f])
    BY DEF ReceivesQuietly
  <2>4. Agreed(p, heard)
    BY <1>1, <2>1, <2>2, <2>3, ReceiverQuiet
  <2> QED
    BY <1>1, <1>3, <2>4 DEF SideAgrees, ReceiverAgrees, Hashed
<1> HIDE DEF s, done, fail
<1> QED
  BY <1>1, <1>2, <1>4, <1>5, BecomesAgrees DEF p

\* A side cancels a file.
LEMMA CancelAgrees ==
  ASSUME IInv, Agreeing, faults' = 0, NEW s \in Sides, NEW f \in Files, Cancel(s, f)
  PROVE  Agreeing'
<1> DEFINE c == contact[s]
           o == contact[Other(s)]
           d == Acked(SetState(c, f, "CANCELLED"), f, "Abort")
<1>1. /\ Becomes(s, d)
      /\ c.state[f] = "TRANSFERRING" \/
           (s = "sender" /\ c.state[f] \in {"WAITING", "OFFERED"})
  BY DEF Cancel, TransferFailed
<1>2. /\ c \in Contacts /\ c.online = link
      /\ s = "sender" => Agreed(c, o)
      /\ s = "receiver" => Agreed(o, c)
  BY AgreeingSides
<1>3. d = Acked(SetState(c, f, "CANCELLED"), f, "Abort")
  OBVIOUS
<1> HIDE DEF c, o, d
<1>4. ASSUME s = "sender"
      PROVE  SideAgrees(s, d, o)
  <2>1. c.state[f] \in Offerable
    BY <1>1 DEF Offerable
  <2>2. TakenBack(c, f, d, o)
    BY <1>2, <1>3, <1>4, <2>1, CancelledAgrees
  <2> QED
    BY <1>2, <1>4, <2>2 DEF SideAgrees, SenderAgrees, TakenBack
<1>5. ASSUME s = "receiver"
      PROVE  SideAgrees(s, d, o)
  <2>1. c.state[f] # "NONE" /\ Hashed(c, c, f)
    BY <1>1, <1>5 DEF Hashed
  <2>2. Agreed(o, d) /\ d.online = link
    BY <1>2, <1>3, <1>5, <2>1, RefusedAgrees
  <2> QED
    BY <1>5, <2>2 DEF SideAgrees, ReceiverAgrees
<1>6. SideAgrees(s, d, o)
  BY <1>4, <1>5 DEF Sides
<1> QED
  BY <1>1, <1>6, BecomesAgrees DEF o

\* The user of the receiver accepts a file.
LEMMA AcceptAgrees ==
  ASSUME IInv, Agreeing, faults' = 0, NEW f \in Files, Accept(f)
  PROVE  Agreeing'
<1> DEFINE s == "receiver"
           c == contact[s]
           p == contact[Other(s)]
           e == SetState(c, f, "QUEUED")
<1>1. /\ s \in Sides /\ c \in Contacts /\ c.online = link /\ c.up /\ Agreed(p, c)
  <2>1. s \in Sides
    BY DEF Sides
  <2> QED
    BY <2>1, AgreeingSides
<1>2. PICK d \in QueueFile(s, e, f) : c.state[f] = "OFFERED" /\ Becomes(s, d)
  BY DEF Accept
<1> HIDE DEF c, p
<1>3. e \in Contacts /\ e.online = link /\ Agreed(p, e) /\ e.up
  <2>1. "QUEUED" \in FileStates \ {"TRANSFERRING", "HASHING"}
    BY DEF FileStates
  <2>2. ReceivesQuietly(c.state[f], "QUEUED") /\ Hashed(c, c, f)
    BY <1>2 DEF ReceivesQuietly, Hashed
  <2>3. e = SetState(c, f, "QUEUED")
    OBVIOUS
  <2> HIDE DEF e
  <2> QED
    BY <1>1, <2>1, <2>2, <2>3, QuietAgrees
<1> HIDE DEF e
<1>4. ReceiverAgrees(p, d)
  BY <1>2, <1>3, ReceiverQueuesFile DEF ReceiverAgrees
<1>5. SideAgrees(s, d, p)
  BY <1>4 DEF SideAgrees
<1> HIDE DEF s
<1> QED
  BY <1>1, <1>2, <1>5, BecomesAgrees DEF p

\* The user of the receiver rejects a file.
LEMMA RejectAgrees ==
  ASSUME IInv, Agreeing, faults' = 0, NEW f \in Files, Reject(f)
  PROVE  Agreeing'
<1> DEFINE s == "receiver"
           c == contact[s]
           p == contact[Other(s)]
           d == Acked(SetState(c, f, "REJECTED"), f, "Rejected")
<1>1. /\ s \in Sides /\ c \in Contacts /\ c.online = link /\ Agreed(p, c)
  <2>1. s \in Sides
    BY DEF Sides
  <2> QED
    BY <2>1, AgreeingSides
<1>2. c.state[f] # "NONE" /\ Becomes(s, d)
  BY DEF Reject
<1>3. d = Acked(SetState(c, f, "REJECTED"), f, "Rejected")
  OBVIOUS
<1> HIDE DEF c, p, d
<1>4. Agreed(p, d) /\ d.online = link
  <2>1. Hashed(c, c, f)
    BY DEF Hashed
  <2> QED
    BY <1>1, <1>2, <1>3, <2>1, RefusedAgrees
<1>5. SideAgrees(s, d, p)
  BY <1>4 DEF SideAgrees, ReceiverAgrees
<1> HIDE DEF s
<1> QED
  BY <1>1, <1>2, <1>5, BecomesAgrees DEF p

\* The receiver reads an offer.
LEMMA ReceivedFileOfferAgrees ==
  ASSUME IInv, Agreeing, faults' = 0, ReceivedFileOffer
  PROVE  Agreeing'
<1> DEFINE s == "receiver"
           c == contact[s]
           p == contact[Other(s)]
           x == Packet(s)
           f == x.file
           d == SetState(Sent(c, Ack(f, "Received")), f, "OFFERED")
<1>1. /\ s \in Sides /\ c \in Contacts /\ c.online = link /\ Agreed(p, c)
      /\ p \in Contacts
  <2>1. s \in Sides
    BY DEF Sides
  <2> QED
    BY <2>1, AgreeingSides
<1>2. p.wire # <<>> /\ x = Head(p.wire) /\ x.kind = "Offer"
  BY DEF ReceivedFileOffer, Reads, Packet
<1>3. c.state[x.file] = "NONE"
  BY <1>1, <1>2, OfferIsNew
<1>4. ReadsAndBecomes(s, d)
  BY <1>3 DEF ReceivedFileOffer
<1> DEFINE o == Unread(s)
<1>5. o.state = p.state /\ o.wire = Tail(p.wire)
  <2> HIDE DEF s
  <2> QED
    BY <1>1, <1>2, UnreadFields
<1> HIDE DEF c, p, x, o
<1>6. d = SetState(Sent(c, Ack(x.file, "Received")), x.file, "OFFERED")
  OBVIOUS
<1> HIDE DEF d
<1>7. d.online = link /\ Agreed(o, d)
  BY <1>1, <1>2, <1>5, <1>6, OfferAgrees
<1>8. SideAgrees(s, d, o)
  BY <1>7 DEF SideAgrees, ReceiverAgrees
<1> HIDE DEF s
<1> QED
  BY <1>1, <1>4, <1>8, ReadsAgrees DEF o

\* A side whose program has ended agrees with anything.
LEMMA EndedAgrees ==
  ASSUME NEW s \in Sides, NEW c \in Contacts, NEW o
  PROVE  SideAgrees(s, Ended(s, c), o)
<1>1. ~Ended(s, c).up
  BY EndedFields DEF Off
<1> QED
  BY <1>1 DEF SideAgrees, SenderAgrees, ReceiverAgrees

\* The sender reads an ack that tells it nothing new.
LEMMA SenderIgnores ==
  ASSUME IInv, Agreeing, faults' = 0, NEW s, s = "sender", NEW c, c = contact[s],
         contact[Other(s)].wire # <<>>, NEW x, x = Packet(s),
         NEW st, st = c.state[x.file], SenderMakes(st, st, x, c.wire),
         ReadsAndBecomes(s, c)
  PROVE  Agreeing'
<1> DEFINE r == contact[Other(s)]
<1>1. s \in Sides
  BY DEF Sides
<1>2. c \in Contacts /\ c.online = link /\ Agreed(c, r)
  BY <1>1, AgreeingSides
<1>3. Alters(c, c, x.file, st)
  BY DEF Alters
<1> HIDE DEF r
<1>4. r = contact[Other(s)] /\ r.wire # <<>>
  BY DEF r
<1>5. SideAgrees(s, c, Unread(s))
  BY <1>2, <1>3, <1>4, SenderTakes
<1> QED
  BY <1>1, <1>5, ReadsAgrees

\* Acks that name a file which is unknown, or cancelled.
LEMMA AckForNoFileAgrees ==
  ASSUME IInv, Agreeing, faults' = 0, NEW s \in Sides, AckForNoFile(s)
  PROVE  Agreeing'
<1> DEFINE c == contact[s]
           o == contact[Other(s)]
           x == Packet(s)
           f == x.file
           d == IF x.status = "Proceed" THEN Acked(c, f, "Abort") ELSE c
<1>1. /\ c \in Contacts /\ o \in Contacts /\ c.online = link
      /\ s = "sender" => Agreed(c, o)
      /\ s = "receiver" => Agreed(o, c)
  BY AgreeingSides
<1>2. o.wire # <<>> /\ x = Head(o.wire) /\ x.kind = "Ack"
  BY DEF AckForNoFile, Reads, Packet
<1>3. f \in Files
  BY <1>2, UnreadFields
<1>4. CASE ReadsAndBecomes(s, Ended(s, c))
  BY <1>1, <1>4, EndedAgrees, ReadsAgrees
<1>5. CASE c.state[f] = "CANCELLED" /\ ReadsAndBecomes(s, d) /\ s = "sender"
  <2>1. x.status \in {"Received", "Proceed", "Rejected", "Abort"}
    BY <1>1, <1>2, <1>5, AckToSender
  <2>2. CASE x.status # "Proceed"
    <3>1. ReadsAndBecomes(s, c)
      BY <1>5, <2>2
    <3>2. SenderMakes("CANCELLED", "CANCELLED", x, c.wire)
      BY <2>1, <2>2 DEF SenderMakes
    <3>3. contact[Other(s)].wire # <<>>
      BY <1>2
    <3>4. c.state[x.file] = "CANCELLED"
      BY <1>5
    <3> HIDE DEF x, c
    <3> QED
      BY <1>5, <3>1, <3>2, <3>3, <3>4, SenderIgnores DEF x, c
  <2>3. CASE x.status = "Proceed"
    <3> DEFINE e == Acked(SetState(c, f, "CANCELLED"), f, "Abort")
    <3>1. SetState(c, f, "CANCELLED") = c
      BY <1>5 DEF SetState
    <3>2. d = e
      BY <2>3, <3>1
    <3>3. e = Acked(SetState(c, f, "CANCELLED"), f, "Abort") /\ x.file = f
      OBVIOUS
    <3>4. link
      BY <1>1, <1>2, <1>5, WrittenIsLinked
    <3>5. ReadsAndBecomes(s, e)
      BY <1>5, <3>2
    <3>6. o = contact[Other(s)] /\ x = Packet(s) /\ c.state[f] = "CANCELLED"
      BY <1>5
    <3> HIDE DEF c, o, x, d, e, f
    <3>7. /\ e \in Contacts /\ Agreed(e, o) /\ e.online = link
          /\ e.state[f] = "CANCELLED" /\ On(e.wire, Aborts(f))
      <4>1. /\ c \in Contacts /\ Agreed(c, o) /\ c.online = link /\ f \in Files
            /\ c.state[f] \in Offerable
        BY <1>1, <1>3, <1>5, <3>6 DEF Offerable
      <4>2. TakenBack(c, f, e, o)
        BY <3>3, <4>1, CancelledAgrees
      <4> QED
        BY <3>4, <4>1, <4>2 DEF TakenBack
    <3>8. SenderMakes(e.state[f], "CANCELLED", x, e.wire)
      BY <2>3, <3>3, <3>7 DEF SenderMakes
    <3>9. Alters(e, e, f, "CANCELLED")
      BY <3>7 DEF Alters
    <3>10. SideAgrees(s, e, Unread(s))
      BY <1>2, <1>5, <3>3, <3>6, <3>7, <3>8, <3>9, SenderTakes
    <3> QED
      BY <3>5, <3>10, ReadsAgrees
  <2> QED
    BY <2>2, <2>3
<1>6. CASE c.state[f] = "CANCELLED" /\ ReadsAndBecomes(s, d) /\ s = "receiver"
  <2>1. x.status = "Abort"
    BY <1>1, <1>2, <1>6, AckToReceiver
  <2>2. ReadsAndBecomes(s, c)
    BY <1>6, <2>1
  <2>3. ReceiverMakes("CANCELLED", "CANCELLED", x)
    BY <1>2 DEF ReceiverMakes
  <2>4. Alters(c, c, f, "CANCELLED") /\ OneChannel(c)
    BY <1>1, <1>6 DEF Alters, Agreed
  <2>5. o = contact[Other(s)] /\ x = Packet(s) /\ c.state[x.file] = "CANCELLED"
    BY <1>6
  <2> HIDE DEF c, o, x
  <2>6. SideAgrees(s, c, Unread(s))
    BY <1>1, <1>2, <1>6, <2>3, <2>4, <2>5, ReceiverTakes
  <2> QED
    BY <2>2, <2>6, ReadsAgrees
<1> QED
  BY <1>4, <1>5, <1>6 DEF AckForNoFile, Sides

\* The sender reads that the receiver refuses a file, or has it.
LEMMA AckToSenderAgrees ==
  ASSUME IInv, Agreeing, faults' = 0, ReceivedAck("sender")
  PROVE  Agreeing'
<1> DEFINE s == "sender"
           c == contact[s]
           r == contact[Other(s)]
           x == Packet(s)
           f == x.file
           fail == Acked(SetState(c, f, "CANCELLED"), f, "Abort")
<1>1. /\ s \in Sides /\ c \in Contacts /\ r \in Contacts
      /\ c.online = link /\ Agreed(c, r)
  <2>1. s \in Sides
    BY DEF Sides
  <2> QED
    BY <2>1, AgreeingSides
<1>2. /\ r.wire # <<>> /\ x = Head(r.wire) /\ r = contact[Other(s)] /\ x = Packet(s)
      /\ c.state[f] \notin {"NONE", "CANCELLED"}
  BY DEF ReceivedAck, AckForFile, Reads, Packet
<1>3. f \in Files
  <2> HIDE DEF s
  <2> QED
    BY <1>1, <1>2, UnreadFields
<1>4. /\ x.status \in {"Received", "Proceed", "Rejected", "Abort"}
      /\ x.status = "Received" => c.state[f] = "OFFERED"
  BY <1>1, <1>2, AckToSender
<1>5. \/ x.status = "Received" /\ ReadsAndBecomes(s, SetState(c, f, "OFFERED"))
      \/ x.status = "Rejected" /\ ReadsAndBecomes(s, SetState(c, f, "REJECTED"))
      \/ /\ x.status = "Abort" /\ c.state[f] # "TRANSFERRING"
         /\ ReadsAndBecomes(s, SetState(c, f, "CANCELLED"))
      \/ /\ x.status = "Abort" /\ c.state[f] = "TRANSFERRING"
         /\ ReadsAndBecomes(s, fail)
  BY <1>4 DEF ReceivedAck, TransferFailed
<1>6. fail = Acked(SetState(c, f, "CANCELLED"), f, "Abort") /\ x.file = f
  OBVIOUS
<1> HIDE DEF c, r, x, f, fail
<1>7. ASSUME NEW st \in {"OFFERED", "REJECTED", "CANCELLED"},
             NEW d, d = SetState(c, f, st),
             SenderMakes(c.state[f], st, x, c.wire)
      PROVE  SideAgrees(s, d, Unread(s))
  <2>1. st \in FileStates
    BY DEF FileStates
  <2>2. Alters(c, d, f, st) /\ d.wire = c.wire /\ d.online = c.online
    BY <1>1, <1>3, <1>7, <2>1, SetStateAlters
  <2> QED
    BY <1>1, <1>2, <1>6, <1>7, <2>2, SenderTakes
<1>8. CASE x.status = "Received" /\ ReadsAndBecomes(s, SetState(c, f, "OFFERED"))
  <2>1. SenderMakes(c.state[f], "OFFERED", x, c.wire)
    BY <1>4, <1>8 DEF SenderMakes
  <2>2. SideAgrees(s, SetState(c, f, "OFFERED"), Unread(s))
    BY <1>7, <2>1
  <2> QED
    BY <1>1, <1>8, <2>2, ReadsAgrees
<1>9. CASE x.status = "Rejected" /\ ReadsAndBecomes(s, SetState(c, f, "REJECTED"))
  <2>1. SenderMakes(c.state[f], "REJECTED", x, c.wire)
    BY <1>2, <1>9 DEF SenderMakes
  <2>2. SideAgrees(s, SetState(c, f, "REJECTED"), Unread(s))
    BY <1>7, <2>1
  <2> QED
    BY <1>1, <1>9, <2>2, ReadsAgrees
<1>10. CASE x.status = "Abort" /\ ReadsAndBecomes(s, SetState(c, f, "CANCELLED"))
  <2>1. SenderMakes(c.state[f], "CANCELLED", x, c.wire)
    BY <1>10 DEF SenderMakes
  <2>2. SideAgrees(s, SetState(c, f, "CANCELLED"), Unread(s))
    BY <1>7, <2>1
  <2> QED
    BY <1>1, <1>10, <2>2, ReadsAgrees
<1>11. CASE x.status = "Abort" /\ c.state[f] = "TRANSFERRING" /\ ReadsAndBecomes(s, fail)
  <2>1. /\ fail \in Contacts /\ Agreed(fail, r) /\ fail.online = c.online
        /\ fail.state[f] = "CANCELLED"
    <3>1. c.state[f] \in Offerable
      BY <1>11 DEF Offerable
    <3>2. TakenBack(c, f, fail, r)
      BY <1>1, <1>3, <1>6, <3>1, CancelledAgrees
    <3> QED
      BY <3>2 DEF TakenBack
  <2>2. SenderMakes(fail.state[f], "CANCELLED", x, fail.wire)
    BY <1>11 DEF SenderMakes
  <2>3. Alters(fail, fail, f, "CANCELLED")
    BY <2>1 DEF Alters
  <2>4. SideAgrees(s, fail, Unread(s))
    BY <1>1, <1>2, <1>6, <2>1, <2>2, <2>3, SenderTakes
  <2> QED
    BY <1>1, <1>11, <2>4, ReadsAgrees
<1> QED
  BY <1>5, <1>8, <1>9, <1>10, <1>11

\* The receiver reads that the sender takes a file back.
LEMMA AckToReceiverAgrees ==
  ASSUME IInv, Agreeing, faults' = 0, ReceivedAck("receiver")
  PROVE  Agreeing'
<1> DEFINE s == "receiver"
           c == contact[s]
           p == contact[Other(s)]
           x == Packet(s)
           f == x.file
           quiet == SetState(c, f, "CANCELLED")
           fail == Acked(quiet, f, "Abort")
<1>1. /\ s \in Sides /\ c \in Contacts /\ p \in Contacts
      /\ c.online = link /\ Agreed(p, c)
  <2>1. s \in Sides
    BY DEF Sides
  <2> QED
    BY <2>1, AgreeingSides
<1>2. /\ p.wire # <<>> /\ x = Head(p.wire) /\ p = contact[Other(s)] /\ x = Packet(s)
      /\ x.kind = "Ack" /\ c.state[f] \notin {"NONE", "CANCELLED"}
  BY DEF ReceivedAck, AckForFile, Reads, Packet
<1>3. f \in Files
  <2> HIDE DEF s
  <2> QED
    BY <1>1, <1>2, UnreadFields
<1>4. x.status = "Abort"
  BY <1>1, <1>2, AckToReceiver
<1>5. \/ c.state[f] # "TRANSFERRING" /\ ReadsAndBecomes(s, quiet)
      \/ c.state[f] = "TRANSFERRING" /\ ReadsAndBecomes(s, fail)
  BY <1>4 DEF ReceivedAck, TransferFailed
<1>6. /\ x.file = f /\ Hashed(c, c, f)
      /\ quiet = SetState(c, f, "CANCELLED")
      /\ fail = Acked(SetState(c, f, "CANCELLED"), f, "Abort")
  BY DEF Hashed
<1> HIDE DEF c, p, x, f, fail, quiet
<1>7. CASE c.state[f] # "TRANSFERRING" /\ ReadsAndBecomes(s, quiet)
  <2>1. "CANCELLED" \in FileStates \ {"TRANSFERRING", "HASHING"}
    BY DEF FileStates
  <2>2. /\ Alters(c, quiet, f, "CANCELLED")
        /\ quiet.wire = c.wire /\ quiet.online = c.online
    BY <1>1, <1>3, <1>6, <2>1, SetStateAlters
  <2>3. OneChannel(quiet)
    BY <1>1, <1>3, <1>6, <2>1, SetStateChannel DEF Agreed
  <2>4. ReceiverMakes(c.state[f], "CANCELLED", x)
    BY <1>2, <1>7 DEF ReceiverMakes
  <2>5. SideAgrees(s, quiet, Unread(s))
    BY <1>1, <1>2, <1>6, <2>2, <2>3, <2>4, ReceiverTakes
  <2> QED
    BY <1>1, <1>7, <2>5, ReadsAgrees
<1>8. CASE c.state[f] = "TRANSFERRING" /\ ReadsAndBecomes(s, fail)
  <2>1. /\ fail \in Contacts /\ Agreed(p, fail) /\ fail.online = link
        /\ fail.state[f] = "CANCELLED"
    <3>1. c.state[f] # "NONE"
      BY <1>8
    <3> QED
      BY <1>1, <1>3, <1>6, <3>1, RefusedAgrees
  <2>2. ReceiverMakes(fail.state[f], "CANCELLED", x)
    BY <1>2, <2>1 DEF ReceiverMakes
  <2>3. Alters(fail, fail, f, "CANCELLED") /\ OneChannel(fail)
    BY <2>1 DEF Alters, Agreed
  <2>4. SideAgrees(s, fail, Unread(s))
    BY <1>2, <1>6, <2>1, <2>2, <2>3, ReceiverTakes
  <2> QED
    BY <1>1, <1>8, <2>4, ReadsAgrees
<1> QED
  BY <1>5, <1>7, <1>8

\* The receiver asks for a file.
LEMMA ReceivedProceedAgrees ==
  ASSUME IInv, Agreeing, faults' = 0, ReceivedProceed
  PROVE  Agreeing'
<1> DEFINE s == "sender"
           c == contact[s]
           r == contact[Other(s)]
           x == Packet(s)
           f == x.file
           asked == [c EXCEPT !.channel[f] = x.channel]
           e == SetState(asked, f, "QUEUED")
<1>1. /\ s \in Sides /\ c \in Contacts /\ r \in Contacts
      /\ c.online = link /\ c.up /\ Agreed(c, r)
  <2>1. s \in Sides
    BY DEF Sides
  <2> QED
    BY <2>1, AgreeingSides
<1>2. /\ r.wire # <<>> /\ x = Head(r.wire) /\ r = contact[Other(s)] /\ x = Packet(s)
      /\ c.state[f] # "CANCELLED" /\ x.status = "Proceed" /\ x.kind = "Ack"
  BY DEF ReceivedProceed, AckForFile, Reads, Packet
<1>3. f \in Files /\ x \in Packets
  <2> HIDE DEF s
  <2> QED
    BY <1>1, <1>2, UnreadFields
<1>4. c.state[f] = "OFFERED"
  BY <1>1, <1>2, AckToSender
<1>5. PICK d \in QueueFile(s, e, f) : ReadsAndBecomes(s, d)
  BY <1>4 DEF ReceivedProceed
<1>6. x.file = f
  OBVIOUS
<1>7. x.channel \in Nat
  BY <1>2, <1>3 DEF Packets
<1> HIDE DEF c, r, x, f
<1>8. /\ asked \in Contacts /\ asked.state = c.state /\ asked.wire = c.wire
      /\ asked.online = link /\ asked.up
  BY <1>1, <1>3, <1>7 DEF Contacts
<1> HIDE DEF asked
<1>9. /\ e \in Contacts /\ Alters(c, e, f, "QUEUED")
      /\ e.wire = c.wire /\ e.online = link /\ e.up
  <2>1. /\ e \in Contacts /\ Alters(asked, e, f, "QUEUED") /\ e.up = asked.up
        /\ e.wire = asked.wire /\ e.online = asked.online
    BY <1>3, <1>8, SetStateAlters DEF FileStates
  <2> QED
    BY <1>8, <2>1 DEF Alters
<1> HIDE DEF e
<1>10. SenderMakes(c.state[f], "QUEUED", x, c.wire)
  BY <1>2, <1>4 DEF SenderMakes
<1>11. Agreed(e, Unread(s))
  BY <1>1, <1>2, <1>6, <1>9, <1>10, SenderTakes
<1>12. SenderAgrees(d, Unread(s))
  BY <1>3, <1>5, <1>9, <1>11, QueueFileAgrees DEF SenderAgrees
<1>13. SideAgrees(s, d, Unread(s))
  BY <1>12 DEF SideAgrees
<1> QED
  BY <1>1, <1>5, <1>13, ReadsAgrees

\* The receiver reads a chunk.
LEMMA ReceivedChunkAgrees ==
  ASSUME IInv, Flowing, Agreeing, faults' = 0, ReceivedChunk
  PROVE  Agreeing'
<1> DEFINE s == "receiver"
           c == contact[s]
           p == contact[Other(s)]
           x == Packet(s)
           f == x.file
           stored(g) == Stored(c, g, x)
           hashed(g) == SetState(stored(g), g, "HASHING")
           last(e) == [hashed(e[2]) EXCEPT !.open = @ \ {e},
                                           !.shut = @ \cup {e[1]},
                                           !.hashing = @ \cup {e[2]}]
           late == x.channel \in c.shut
           none == [c EXCEPT !.closing = late]
<1>0. c.online /\ ~c.closing /\ p.wire # <<>> /\ x.kind = "Chunk"
  <2>1. Reads(s, "Chunk")
    BY Zenon DEF ReceivedChunk
  <2> QED
    BY Zenon, <2>1 DEF Reads, Packet
<1>1. /\ c.online /\ p.wire # <<>> /\ x.kind = "Chunk"
      /\ \/ /\ \A e \in c.open : e[1] # x.channel
            /\ ReadsAndBecomes(s, none)
         \/ \E e \in c.open :
              /\ e[1] = x.channel
              /\ \/ x.part # Chunks /\ ReadsAndBecomes(s, stored(e[2]))
                 \/ ReadsAndBecomes(s, Ended(s, stored(e[2])))
                 \/ /\ x.part = Chunks /\ c.state[e[2]] = "TRANSFERRING"
                    /\ ReadsAndBecomes(s, last(e))
  <2>1. CASE ReadsAndBecomes(s, none) /\ {e \in c.open : e[1] = x.channel} = {}
    <3>1. \A e \in c.open : e[1] # x.channel
      BY Zenon, <2>1
    <3> QED
      BY Zenon, <1>0, <2>1, <3>1
  <2>2. ASSUME NEW e \in {e \in c.open : e[1] = x.channel},
               \/ x.part # Chunks /\ ReadsAndBecomes(s, stored(e[2]))
               \/ ReadsAndBecomes(s, Ended(s, stored(e[2])))
               \/ /\ x.part = Chunks /\ c.state[e[2]] = "TRANSFERRING"
                  /\ ReadsAndBecomes(s, last(e))
        PROVE  \E k \in c.open :
              /\ k[1] = x.channel
              /\ \/ x.part # Chunks /\ ReadsAndBecomes(s, stored(k[2]))
                 \/ ReadsAndBecomes(s, Ended(s, stored(k[2])))
                 \/ /\ x.part = Chunks /\ c.state[k[2]] = "TRANSFERRING"
                    /\ ReadsAndBecomes(s, last(k))
    BY Zenon, <2>2
  <2>3. \/ ReadsAndBecomes(s, none) /\ {e \in c.open : e[1] = x.channel} = {}
        \/ \E e \in {e \in c.open : e[1] = x.channel} :
             \/ x.part # Chunks /\ ReadsAndBecomes(s, stored(e[2]))
             \/ ReadsAndBecomes(s, Ended(s, stored(e[2])))
             \/ /\ x.part = Chunks /\ c.state[e[2]] = "TRANSFERRING"
                /\ ReadsAndBecomes(s, last(e))
    BY Zenon DEF ReceivedChunk, Stored
  <2> QED
    BY Zenon, <1>0, <2>1, <2>2, <2>3
<1>2. s \in Sides
  BY DEF Sides
<1>3. /\ c \in Contacts /\ p \in Contacts /\ c.online = link /\ Agreed(p, c)
      /\ Between(s, c, p, link)
  <2>1. Between(s, c, p, link)
    <3> HIDE DEF s
    <3> QED
      BY <1>2, FlowingBetween
  <2> QED
    BY <1>2, <2>1, AgreeingSides
<1>4. x = Head(p.wire) /\ p = contact[Other(s)] /\ x = Packet(s) /\ x.file = f
  BY DEF Packet
<1>5. x \in Packets /\ f \in Files
  <2> HIDE DEF s
  <2> QED
    BY <1>0, <1>2, UnreadFields
<1> HIDE DEF c, p, x, f, late
<1>6. Flow(p, c, link) /\ Carried(p.wire, c) /\ OneChannel(c)
  <2>1. Flow(p, c, link)
    BY <1>3 DEF Between
  <2>2. Carried(p.wire, c)
    BY <1>0, <2>1 DEF Flow, Arrives
  <2> QED
    BY <1>3, <2>1, <2>2 DEF Agreed
<1>7. <<x.channel, f>> \in c.made
  <2>1. x = p.wire[1] /\ 1 \in 1..Len(p.wire)
    BY <1>0, <1>3, <1>4, TailPlaces DEF Contacts
  <2> QED
    BY <1>0, <1>4, <1>6, <2>1 DEF Carried
<1>8. c.state[f] = "TRANSFERRING" => <<x.channel, f>> \in c.open
  <2> SUFFICES ASSUME c.state[f] = "TRANSFERRING"
               PROVE  <<x.channel, f>> \in c.open
    OBVIOUS
  <2>1. <<c.channel[f], f>> \in c.open /\ <<c.channel[f], f>> \in c.made
    BY <1>5, <1>6 DEF OneChannel
  <2>2. <<c.channel[f], f>>[2] = <<x.channel, f>>[2]
    OBVIOUS
  <2>3. <<c.channel[f], f>> = <<x.channel, f>>
    BY <1>6, <1>7, <2>1, <2>2 DEF OneChannel
  <2> QED
    BY <2>1, <2>3
<1>9. ASSUME NEW d, d.state = c.state, d.wire = c.wire, d.online = c.online,
             SameChannels(c, d),
             x.part # Chunks \/ c.state[f] # "TRANSFERRING"
      PROVE  SideAgrees(s, d, Unread(s))
  <2>1. Alters(c, d, f, c.state[f])
    BY <1>9 DEF Alters
  <2>2. ReceiverMakes(c.state[f], c.state[f], x)
    BY <1>0, <1>9 DEF ReceiverMakes
  <2>3. OneChannel(d)
    BY <1>6, <1>9 DEF OneChannel, Numbered, SameChannels
  <2> QED
    BY <1>0, <1>3, <1>4, <1>9, <2>1, <2>2, <2>3, ReceiverTakes
<1>10. CASE (\A e \in c.open : e[1] # x.channel) /\ ReadsAndBecomes(s, none)
  <2>1. <<x.channel, f>> \notin c.open
    <3>1. <<x.channel, f>>[1] = x.channel
      OBVIOUS
    <3> QED
      BY <1>10, <3>1
  <2>2. /\ none.state = c.state /\ none.wire = c.wire /\ none.online = c.online
        /\ SameChannels(c, none)
    BY <1>3 DEF Contacts, SameChannels
  <2> HIDE DEF none
  <2>3. SideAgrees(s, none, Unread(s))
    BY <1>8, <1>9, <2>1, <2>2
  <2> HIDE DEF s
  <2> QED
    BY <1>2, <1>10, <2>3, ReadsAgrees
<1>11. ASSUME NEW e \in c.open, e[1] = x.channel
       PROVE  /\ x.part # Chunks => SideAgrees(s, stored(e[2]), Unread(s))
              /\ SideAgrees(s, Ended(s, stored(e[2])), Unread(s))
              /\ x.part = Chunks /\ c.state[e[2]] = "TRANSFERRING" =>
                   SideAgrees(s, last(e), Unread(s))
  <2> DEFINE g == e[2]
             b == stored(g)
             h == hashed(g)
             d == last(e)
  <2>1. g = f /\ e = <<x.channel, f>>
    <3>1. e \in c.made /\ e \in Nat \X Files
      BY <1>3, <1>6 DEF OneChannel, Contacts
    <3>2. <<x.channel, f>>[1] = e[1]
      BY <1>11
    <3>3. e = <<x.channel, f>>
      BY <1>6, <1>7, <3>1, <3>2 DEF OneChannel, Numbered
    <3> QED
      BY <3>3
  <2>2. b \in Contacts /\ b.state = c.state
    <3>1. Takes(p, Unread(s), x)
      BY <1>0, <1>4 DEF Takes, Unread
    <3>2. <<x.channel, g>> \in c.open /\ b = Stored(c, g, x)
      BY <2>1
    <3> HIDE DEF b, g
    <3>3. x.kind = "Chunk" /\ Flow(p, c, link) /\ Carried(p.wire, c)
      BY <1>0, <1>6
    <3> QED
      BY <1>0, <1>3, <3>1, <3>2, <3>3, StoredFlow
  <2>3. /\ b.wire = c.wire /\ b.online = c.online /\ SameChannels(c, b)
    BY <1>3 DEF Stored, Contacts, SameChannels
  <2> HIDE DEF b
  <2>4. x.part # Chunks => SideAgrees(s, b, Unread(s))
    BY <1>9, <2>2, <2>3
  <2>5. SideAgrees(s, Ended(s, b), Unread(s))
    BY <1>2, <2>2, EndedAgrees
  <2>6. ASSUME x.part = Chunks, c.state[g] = "TRANSFERRING"
        PROVE  SideAgrees(s, d, Unread(s))
    <3>1. h = SetState(b, g, "HASHING") /\ "HASHING" \in FileStates /\ g \in Files
      BY <1>5, <2>1 DEF FileStates, b
    <3> HIDE DEF h
    <3>2. /\ h \in Contacts /\ Alters(b, h, g, "HASHING")
          /\ h.wire = b.wire /\ h.online = b.online /\ h.open = b.open
          /\ h.made = b.made /\ h.channel = b.channel /\ h.next = b.next
          /\ h.hashing = b.hashing
      BY <2>2, <3>1, SetStateAlters
    <3>3. \A ch \in h.leaving :
            ch \in b.leaving \/ \E k \in b.made : k[2] = g /\ k[1] = ch
      BY <2>2, <3>1, SetStateLeaves
    <3>4. d = [h EXCEPT !.open = @ \ {e}, !.shut = @ \cup {e[1]},
                        !.hashing = @ \cup {g}]
      BY DEF h
    <3> HIDE DEF d
    <3>5. /\ d.state = h.state /\ d.wire = h.wire /\ d.online = h.online
          /\ d.open = h.open \ {e} /\ d.hashing = h.hashing \cup {g}
          /\ d.made = h.made /\ d.channel = h.channel
          /\ d.next = h.next /\ d.leaving = h.leaving
      BY <3>2, <3>4 DEF Contacts
    <3> HIDE DEF g
    <3>6. Alters(c, d, g, "HASHING") /\ d.wire = c.wire /\ d.online = link
      BY <1>3, <2>2, <2>3, <3>2, <3>5 DEF Alters
    <3>7. /\ d.made = c.made /\ d.channel = c.channel /\ d.next = c.next
          /\ d.open = c.open \ {e} /\ d.hashing = c.hashing \cup {g}
          /\ \A ch \in d.leaving :
               ch \in c.leaving \/ \E k \in c.made : k[2] = g /\ k[1] = ch
      BY <2>3, <3>2, <3>3, <3>5 DEF SameChannels
    <3>8. e[2] = g
      BY DEF g
    <3>9. OneChannel(d)
      BY <1>3, <1>6, <3>1, <3>6, <3>7, <3>8, AlteredChannel
    <3>10. ReceiverMakes(c.state[f], "HASHING", x) /\ g = f
      BY <1>0, <2>1, <2>6 DEF ReceiverMakes
    <3> QED
      BY <1>0, <1>3, <1>4, <3>6, <3>9, <3>10, ReceiverTakes
  <2> QED
    BY <2>4, <2>5, <2>6 DEF b
<1> HIDE DEF stored, last, none, s
<1>12. \A d : SideAgrees(s, d, Unread(s)) /\ ReadsAndBecomes(s, d) => Agreeing'
  BY <1>2, ReadsAgrees
<1> QED
  BY <1>1, <1>10, <1>11, <1>12

\* The slot of Peer::removeTransfer.
LEMMA RemoveTransferAgrees ==
  ASSUME IInv, Agreeing, faults' = 0, NEW s \in Sides, NEW ch, RemoveTransfer(s, ch)
  PROVE  Agreeing'
<1> DEFINE c == contact[s]
           o == contact[Other(s)]
           d == [c EXCEPT !.leaving = @ \ {ch}, !.open = {e \in @ : e[1] # ch},
                          !.shut = @ \ {ch}]
<1>1. Becomes(s, d) /\ ch \in c.leaving
  BY DEF RemoveTransfer
<1>2. /\ c \in Contacts /\ c.online = link
      /\ s = "sender" => Agreed(c, o)
      /\ s = "receiver" => Agreed(o, c)
  BY AgreeingSides
<1>3. /\ d.state = c.state /\ d.wire = c.wire /\ d.online = c.online
      /\ d.active = c.active /\ d.hashing = c.hashing
      /\ d.channel = c.channel /\ d.made = c.made /\ d.next = c.next
      /\ d.open = {e \in c.open : e[1] # ch} /\ d.leaving = c.leaving \ {ch}
  BY <1>2 DEF Contacts
<1> HIDE DEF c, o, d
<1>4. ASSUME s = "sender"
      PROVE  SideAgrees(s, d, o)
  <2>1. Agreed(d, o)
    BY <1>2, <1>3, <1>4, SenderSame
  <2> QED
    BY <1>2, <1>3, <1>4, <2>1 DEF SideAgrees, SenderAgrees
<1>5. ASSUME s = "receiver"
      PROVE  SideAgrees(s, d, o)
  <2>1. OneChannel(c) /\ Agreed(o, c)
    BY <1>2, <1>5 DEF Agreed
  <2>2. ASSUME NEW f \in Files, d.state[f] = "TRANSFERRING"
        PROVE  <<d.channel[f], f>> \in d.open
    <3>1. <<c.channel[f], f>> \in c.open /\ <<c.channel[f], f>> \in c.made
      BY <1>3, <2>1, <2>2 DEF OneChannel
    <3>2. /\ <<c.channel[f], f>>[2] = f /\ <<c.channel[f], f>>[1] = c.channel[f]
      OBVIOUS
    <3>3. c.state[<<c.channel[f], f>>[2]] = "TRANSFERRING"
      BY <1>3, <2>2, <3>2
    <3>4. c.channel[f] \notin c.leaving
      BY <2>1, <3>1, <3>2, <3>3 DEF OneChannel
    <3> QED
      BY <1>1, <1>3, <3>1, <3>2, <3>4
  <2>3. OneChannel(d)
    BY <1>3, <2>1, <2>2 DEF OneChannel, Numbered
  <2>4. Agreed(o, d)
    BY <1>3, <2>1, <2>3 DEF Agreed, Apart
  <2> QED
    BY <1>2, <1>3, <1>5, <2>4 DEF SideAgrees, ReceiverAgrees
<1>6. SideAgrees(s, d, o)
  BY <1>4, <1>5 DEF Sides
<1> QED
  BY <1>1, <1>6, BecomesAgrees DEF o

\* Contact::processOnlineLater() and onOutputBufferEmptied().
LEMMA BufferAgrees ==
  ASSUME IInv, Flowing, Agreeing, faults' = 0, NEW s \in Sides,
         ProcessOnlineLater(s) \/ OnOutputBufferEmptied(s)
  PROVE  Agreeing'
<1> DEFINE c == contact[s]
           o == contact[Other(s)]
           greeted == [c EXCEPT !.greet = FALSE]
           ready == [greeted EXCEPT !.drain = TRUE]
           drained == [c EXCEPT !.drain = FALSE]
<1>1. c \in Contacts
  BY SideFacts
<1>2. greeted.online = c.online
  BY <1>1 DEF Contacts
<1>3. \/ Becomes(s, greeted)
      \/ /\ c.online
         /\ \/ \E d \in LoadFileQueue(s, ready) :
                 \E e \in OutputBufferEmptied(s, d) : Becomes(s, e)
            \/ \E d \in OutputBufferEmptied(s, drained) : Becomes(s, d)
  BY <1>2 DEF ProcessOnlineLater, OnOutputBufferEmptied
<1>4. /\ Sound(s, c) /\ SideAgrees(s, c, o) /\ c.up /\ c.online = link
      /\ s = "sender" => Agreed(c, o)
      /\ s = "receiver" => Agreed(o, c)
  BY AgreeingSides
<1>5. s = "sender" /\ link => c.open \subseteq o.made
  <2> SUFFICES ASSUME s = "sender", link
               PROVE  c.open \subseteq o.made
    OBVIOUS
  <2>1. Flow(c, o, link)
    BY FlowingBetween DEF Between
  <2> QED
    BY <2>1 DEF Flow, Serves
<1> DEFINE same(d) ==
        /\ d \in Contacts
        /\ d.state = c.state /\ d.queue = c.queue /\ d.loaded = c.loaded
        /\ d.hashing = c.hashing /\ d.active = c.active /\ d.wire = c.wire
        /\ d.open = c.open /\ d.threw = c.threw
        /\ d.channel = c.channel /\ d.made = c.made
        /\ d.leaving = c.leaving /\ d.next = c.next
        /\ d.up = c.up /\ d.online = c.online
<1>6. same(greeted) /\ same(ready) /\ same(drained)
  BY ZenonT(40), <1>1 DEF Contacts
<1> HIDE DEF c, o
<1>7. ASSUME NEW d,
             d.state = c.state, d.active = c.active, d.wire = c.wire,
             d.hashing = c.hashing, d.open = c.open,
             d.channel = c.channel, d.made = c.made,
             d.leaving = c.leaving, d.next = c.next,
             d.up = c.up, d.online = c.online
      PROVE  SideAgrees(s, d, o) /\ d.up
  <2>1. CASE s = "sender"
    <3>1. Agreed(d, o)
      BY <1>4, <1>7, <2>1, SenderSame
    <3> QED
      BY <1>4, <1>7, <2>1, <3>1 DEF SideAgrees, SenderAgrees
  <2>2. CASE s = "receiver"
    <3>1. SameChannels(c, d)
      BY <1>7 DEF SameChannels
    <3>2. Agreed(o, d)
      BY <1>4, <1>7, <2>2, <3>1, ReceiverSame
    <3> QED
      BY <1>4, <1>7, <2>2, <3>2 DEF SideAgrees, ReceiverAgrees
  <2> QED
    BY <2>1, <2>2 DEF Sides
<1>8. ASSUME c.online, NEW d, Sound(s, d), SideAgrees(s, d, o), d.up,
             d.open = c.open, NEW e \in OutputBufferEmptied(s, d)
      PROVE  SideAgrees(s, e, o)
  <2>1. CASE s = "sender"
    <3>1. /\ Sound("sender", d) /\ SenderAgrees(d, o) /\ d.open \subseteq o.made
          /\ e \in OutputBufferEmptied("sender", d)
      BY <1>4, <1>5, <1>8, <2>1 DEF SideAgrees
    <3>2. SenderAgrees(e, o)
      BY <1>8, <3>1, OutputBufferEmptiedAgrees
    <3> QED
      BY <2>1, <3>2 DEF SideAgrees
  <2>2. CASE s = "receiver"
    <3>1. /\ Sound("receiver", d) /\ ReceiverAgrees(o, d)
          /\ e \in OutputBufferEmptied("receiver", d)
      BY <1>8, <2>2 DEF SideAgrees
    <3>2. ReceiverAgrees(o, e)
      BY <1>8, <3>1, ReceiverBufferAgrees
    <3> QED
      BY <2>2, <3>2 DEF SideAgrees
  <2> QED
    BY <2>1, <2>2 DEF Sides
<1> HIDE DEF greeted, ready, drained
<1>9. ASSUME c.online, NEW d \in LoadFileQueue(s, ready),
             NEW e \in OutputBufferEmptied(s, d)
      PROVE  SideAgrees(s, e, o)
  <2>1. ready \in Contacts /\ Sound(s, ready)
    BY <1>4, <1>6, SameFieldsSound
  <2>2. Sound(s, d)
    BY <2>1, LoadFileQueueFine DEF Fine
  <2>3. /\ d.state = ready.state /\ d.active = ready.active /\ d.wire = ready.wire
        /\ d.hashing = ready.hashing /\ d.open = ready.open
        /\ d.channel = ready.channel /\ d.made = ready.made
        /\ d.leaving = ready.leaving /\ d.next = ready.next
        /\ d.up = ready.up /\ d.online = ready.online
    BY <2>1, LoadFileQueueFields
  <2>4. d.open = c.open
    BY <1>6, <2>3
  <2>5. SideAgrees(s, d, o) /\ d.up
    BY <1>6, <1>7, <2>3
  <2> QED
    BY <1>8, <1>9, <2>2, <2>4, <2>5
<1>10. ASSUME c.online, NEW d \in OutputBufferEmptied(s, drained)
       PROVE  SideAgrees(s, d, o)
  <2>1. Sound(s, drained)
    BY <1>4, <1>6, SameFieldsSound
  <2>2. SideAgrees(s, drained, o) /\ drained.up
    BY <1>6, <1>7
  <2>3. drained.open = c.open
    BY <1>6
  <2> QED
    BY <1>8, <1>10, <2>1, <2>2, <2>3
<1>11. SideAgrees(s, greeted, o)
  BY <1>6, <1>7
<1>12. \A d : SideAgrees(s, d, o) /\ Becomes(s, d) => Agreeing'
  BY BecomesAgrees DEF o
<1> HIDE DEF same
<1> QED
  BY <1>3, <1>9, <1>10, <1>11, <1>12

\* The two connect, which happens once while nothing breaks: before, nothing was
\* offered, and the queues hold no transfer.
LEMMA ConnectAgrees ==
  ASSUME IInv, Agreeing, NothingBroken, ~tainted, Connect
  PROVE  Agreeing' /\ ~tainted' /\ NothingBroken'
<1> DEFINE p == contact["sender"]
           r == contact["receiver"]
           fresh(b) == [WithoutPeer(b) EXCEPT !.online = TRUE, !.greet = TRUE,
                                              !.wire = <<>>]
           d == fresh(p)
           e == fresh(r)
<1>1. "sender" \in Sides /\ "receiver" \in Sides
  BY DEF Sides
<1>2. /\ ~link /\ link' = TRUE
      /\ contact'["sender"] = d /\ contact'["receiver"] = e
      /\ tainted' = (tainted \/ \E s \in Sides : Inherits(s))
  <2>1. /\ ~link /\ link' = TRUE
        /\ contact' = [s \in Sides |-> fresh(contact[s])]
        /\ tainted' = (tainted \/ \E s \in Sides : Inherits(s))
    BY Zenon DEF Connect
  <2> HIDE DEF fresh
  <2>2. contact'["sender"] = fresh(contact["sender"])
    BY <1>1, <2>1
  <2>3. contact'["receiver"] = fresh(contact["receiver"])
    BY <1>1, <2>1
  <2> QED
    BY <2>1, <2>2, <2>3
<1>3. /\ p \in Contacts /\ r \in Contacts /\ Agreed(p, r) /\ p.up /\ r.up
      /\ Sound("receiver", r) /\ Sound("sender", p)
  BY <1>1, SideFacts DEF Agreeing
<1>4. p.wire = <<>> /\ r.wire = <<>> /\ p.active = {}
  BY <1>2, <1>3 DEF Agreed, Apart
<1>5. ASSUME NEW f \in Files
      PROVE  p.state[f] # "QUEUED" /\ r.state[f] = "NONE"
  <2> HIDE DEF p, r
  <2> QED
    BY <1>2, <1>3, ApartIsEarly
<1>6. ~Inherits("receiver")
  <2>1. r.active = {}
    <3>1. r.active \subseteq Files
      BY <1>3 DEF Contacts
    <3>2. \A f \in r.active : r.state[f] = "TRANSFERRING"
      <4>1. r.threw = {}
        BY <1>1 DEF NothingBroken, Calm
      <4> QED
        BY <1>3, <3>1, <4>1 DEF Sound, Slots
    <3> QED
      BY <1>5, <3>1, <3>2
  <2> QED
    BY <2>1 DEF Inherits
<1>7. ~Inherits("sender")
  <2>1. ToSet(p.queue) \subseteq Files
    BY <1>3 DEF Contacts, ToSet
  <2> QED
    BY <1>4, <1>5, <2>1 DEF Inherits
<1>8. ~tainted'
  BY <1>2, <1>6, <1>7 DEF Sides
<1>9. /\ d.wire = <<>> /\ d.state = p.state /\ d.online = TRUE /\ d.up = p.up
      /\ e.wire = <<>> /\ e.state = r.state /\ e.online = TRUE /\ e.up = r.up
      /\ e.made = {} /\ e.open = {} /\ e.leaving = {}
  <2> HIDE DEF p, r
  <2>1. d.wire = <<>> /\ d.state = p.state /\ d.online = TRUE /\ d.up = p.up
    BY <1>3 DEF WithoutPeer, Contacts
  <2>2. e.wire = <<>> /\ e.state = r.state /\ e.online = TRUE /\ e.up = r.up
    BY <1>3 DEF WithoutPeer, Contacts
  <2>3. e.made = {} /\ e.open = {} /\ e.leaving = {}
    BY <1>3 DEF WithoutPeer, Contacts
  <2> QED
    BY <2>1, <2>2, <2>3
<1>13. Calm(d) /\ Calm(e)
  <2>1. Calm(p) /\ Calm(r)
    BY <1>1 DEF NothingBroken
  <2>2. ASSUME NEW b, Calm(b)
        PROVE  Calm(WithoutPeer(b))
    BY <2>2 DEF WithoutPeer, Calm
  <2>3. ASSUME NEW b, Calm(b)
        PROVE  Calm([b EXCEPT !.online = TRUE, !.greet = TRUE, !.wire = <<>>])
    BY <2>3 DEF Calm
  <2> QED
    BY Zenon, <2>1, <2>2, <2>3
<1> HIDE DEF fresh, p, r, d, e
<1>10. OneChannel(e)
  BY <1>5, <1>9 DEF OneChannel, Numbered
<1>11. Agreed(contact["sender"], contact["receiver"])'
  BY <1>2, <1>3, <1>4, <1>9, <1>10 DEF Agreed
<1>12. \A s \in Sides : contact'[s].up /\ contact'[s].online = link'
  BY <1>2, <1>3, <1>9 DEF Sides
<1>14. NothingBroken'
  <2>1. \A s \in Sides : Calm(contact'[s])
    BY <1>2, <1>13 DEF Sides
  <2> QED
    BY <2>1 DEF NothingBroken, Calm
<1> QED
  BY <1>8, <1>11, <1>12, <1>14 DEF Agreeing

(***************************************************************************)
(* The theorem.                                                            *)
(***************************************************************************)

\* Nothing was offered at first.
LEMMA InitAgrees == Init => AgreeInv
<1> SUFFICES ASSUME Init
             PROVE  ~tainted /\ Agreeing /\ NothingBroken
  BY DEF AgreeInv
<1> DEFINE c == NewContact
<1>1. /\ contact["sender"] = c /\ contact["receiver"] = c
      /\ link = FALSE /\ tainted = FALSE
  BY DEF Init, Sides
<1>2. /\ c.wire = <<>> /\ c.open = {} /\ c.made = {} /\ c.leaving = {}
      /\ c.active = {} /\ c.up = TRUE /\ c.online = FALSE
      /\ \A f \in Files : c.state[f] = "NONE"
  BY DEF NewContact
<1>8. Calm(c)
  BY DEF NewContact, Calm
<1> HIDE DEF c
<1>3. OneChannel(c)
  BY <1>2 DEF OneChannel, Numbered
<1>4. \A S : ~On(c.wire, S)
  BY <1>2 DEF On
<1>5. InOrder(c.wire)
  BY <1>2 DEF InOrder
<1>6. \A f \in Files : Match(c.state[f], c.state[f], c.wire, c.wire, f)
  BY <1>2, <1>4 DEF Match
<1>7. Agreed(c, c)
  BY <1>2, <1>3, <1>4, <1>5, <1>6 DEF Agreed, Apart
<1> QED
  BY <1>1, <1>2, <1>7, <1>8 DEF Agreeing, NothingBroken, Sides

\* What breaks is counted, and stays so.
LEMMA FaultsStay ==
  ASSUME IInv, [Next]_vars, faults' = 0
  PROVE  /\ faults = 0
         /\ ~WriteFails /\ ~LinkBreaks
         /\ \A s \in Sides, f \in Files : ~DiskFails(s, f)
         /\ \A s \in Sides : ~DisconnectFromContact(s) /\ ~Quit(s) /\ ~QuitSending(s)
<1>1. faults \in Nat /\ faults + 1 # 0
  BY CounterTypes
<1>2. ASSUME NEW s, NEW d, Becomes(s, d) \/ ReadsAndBecomes(s, d)
      PROVE  faults = 0
  <2>1. \E p : faults' = IF p THEN faults + 1 ELSE faults
    BY Zenon, <1>2 DEF Becomes, ReadsAndBecomes
  <2> QED
    BY <1>1, <2>1
<1>3. ~Fault
  BY <1>1 DEF Fault
<1>4. UserStep => faults = 0
  BY <1>2 DEF UserStep, AddFile, Accept, Reject, Cancel
<1>5. ASSUME NEW s \in Sides, ReadStep(s)
      PROVE  faults = 0
  <2>1. \E k, d : ReadsAndBecomes(k, d)
    BY Zenon, <1>5 DEF ReadStep, ReceivedFileOffer, ReceivedChunk, AckForNoFile,
       ReceivedAck, ReceivedProceed
  <2> QED
    BY <1>2, <2>1
<1>6. ASSUME NEW s \in Sides, TaskStep(s) \/ BufferStep(s)
      PROVE  faults = 0
  <2>1. \E k, d : Becomes(k, d)
    BY Zenon, <1>6 DEF TaskStep, BufferStep, FileHashed, ReceivedFileHashed,
       RemoveTransfer, ProcessOnlineLater, OnOutputBufferEmptied
  <2> QED
    BY <1>2, <2>1
<1>7. LinkStep => faults = 0
  BY Zenon, <1>3 DEF LinkStep, Connect, LinkBreaks, OnDisconnectedFromPeer, OnCloseLater,
     Evicted, DisconnectFromContact, Quit, QuitSending, Start
<1>8. /\ ~WriteFails /\ ~LinkBreaks
      /\ \A s \in Sides, f \in Files : ~DiskFails(s, f)
      /\ \A s \in Sides : ~DisconnectFromContact(s) /\ ~Quit(s) /\ ~QuitSending(s)
  BY Zenon, <1>3 DEF WriteFails, DiskFails, LinkBreaks, DisconnectFromContact, Quit,
     QuitSending
<1>9. DiskStep => faults = 0
  BY Zenon, <1>8 DEF DiskStep, DiskRecovers
<1>10. faults = 0
  BY <1>4, <1>5, <1>6, <1>7, <1>9 DEF Next, vars
<1> QED
  BY <1>8, <1>10

\* No file has to become readable again.
LEMMA NothingRecovers ==
  ASSUME IInv, NothingBroken, NEW s \in Sides, NEW f \in Files
  PROVE  ~DiskRecovers(s, f)
BY DEF NothingBroken, Calm, DiskRecovers

\* A side that was never connected forgets its queue, in which nothing is transferred.
LEMMA EvictedAgrees ==
  ASSUME IInv, Agreeing, NothingBroken, NEW s \in Sides, Evicted(s)
  PROVE  Agreeing' /\ NothingBroken'
<1> DEFINE c == contact[s]
           o == contact[Other(s)]
           state == [f \in Files |-> IF f \in c.active /\ c.state[f] = "TRANSFERRING"
                                     THEN "FAILED" ELSE c.state[f]]
           d == [Cleared(c) EXCEPT !.greet = FALSE]
<1>1. /\ c \in Contacts /\ Other(s) \in Sides /\ Other(s) # s
      /\ c.up /\ c.online = link /\ o.up /\ o.online = link
      /\ s = "sender" => Agreed(c, o)
      /\ s = "receiver" => Agreed(o, c)
  BY AgreeingSides, SideFacts DEF Agreeing
<1>2. /\ ~link /\ contact' = [contact EXCEPT ![s] = d] /\ link' = link
  BY <1>1 DEF Evicted
<1>3. contact'[s] = d /\ contact'[Other(s)] = o
  BY <1>1, <1>2 DEF IInv, TypeOK
<1>4. \A f \in Files : c.state[f] # "TRANSFERRING"
  <2> HIDE DEF c, o
  <2>1. ASSUME NEW f \in Files, s = "sender"
        PROVE  c.state[f] # "TRANSFERRING"
    BY <1>1, <1>2, <2>1, ApartIsEarly
  <2>2. ASSUME NEW f \in Files, s = "receiver"
        PROVE  c.state[f] # "TRANSFERRING"
    BY <1>1, <1>2, <2>2 DEF Agreed, Apart
  <2> QED
    BY <2>1, <2>2 DEF Sides
<1>5. Calm(c)
  BY DEF NothingBroken
<1> HIDE DEF c, o
<1>6. /\ d.wire = c.wire /\ d.up = c.up /\ d.online = c.online
      /\ d.state = state /\ d.active = {} /\ SameChannels(c, d)
  BY <1>1 DEF Cleared, Contacts, SameChannels
<1>7. Calm(d)
  <2>1. Calm(Cleared(c))
    BY <1>5 DEF Cleared, Calm
  <2> QED
    BY <2>1 DEF Calm
<1> HIDE DEF d
<1>8. state = c.state
  BY <1>1, <1>4 DEF Contacts
<1>9. SideAgrees(s, d, o)
  <2>1. CASE s = "sender"
    <3>1. Agreed(d, o)
      BY <1>1, <1>6, <1>8, <2>1, SenderSame
    <3> QED
      BY <1>1, <1>6, <2>1, <3>1 DEF SideAgrees, SenderAgrees
  <2>2. CASE s = "receiver"
    <3>1. Agreed(o, d)
      BY <1>1, <1>6, <1>8, <2>2, ReceiverSame
    <3> QED
      BY <1>1, <1>6, <2>2, <3>1 DEF SideAgrees, ReceiverAgrees
  <2> QED
    BY <2>1, <2>2 DEF Sides
<1>10. Agreeing'
  BY <1>1, <1>2, <1>3, <1>6, <1>9, BothAgree
<1>11. \A k \in Sides : Calm(contact'[k])
  <2>1. Calm(contact'[s]) /\ Calm(contact'[Other(s)])
    BY <1>1, <1>3, <1>7 DEF NothingBroken, o
  <2> QED
    BY <1>1, <2>1 DEF Sides
<1> QED
  BY <1>10, <1>11 DEF NothingBroken, Calm

\* No step disturbs the agreement, but one that is counted.
LEMMA NextAgrees ==
  ASSUME IInv, FlowInv, AgreeInv, [Next]_vars
  PROVE  AgreeInv'
<1> SUFFICES ASSUME faults' = 0
             PROVE  ~tainted' /\ Agreeing' /\ NothingBroken'
  BY DEF AgreeInv
<1>1. faults = 0 /\ ~tainted /\ Agreeing /\ NothingBroken /\ Flowing
  BY FaultsStay DEF AgreeInv, FlowInv, Flowing
<1>2. CASE UserStep
  <2>1. /\ \/ \E f \in Files : AddFile(f) \/ Accept(f) \/ Reject(f)
           \/ \E f \in Files, s \in Sides : Cancel(s, f)
        /\ tainted' = tainted
    BY <1>2 DEF UserStep
  <2>2. Agreeing'
    BY <1>1, <2>1, AddFileAgrees, AcceptAgrees, RejectAgrees, CancelAgrees
  <2>3. NothingBroken'
    BY <1>1, <1>2, UserCalm, CalmStays
  <2> QED
    BY <1>1, <2>1, <2>2, <2>3
<1>3. ASSUME NEW s \in Sides, ReadStep(s)
      PROVE  ~tainted' /\ Agreeing' /\ NothingBroken'
  <2>1. /\ \/ ReceivedFileOffer \/ ReceivedChunk \/ AckForNoFile(s)
           \/ ReceivedAck("sender") \/ ReceivedAck("receiver") \/ ReceivedProceed
        /\ tainted' = tainted
    BY <1>3 DEF ReadStep, Sides
  <2>2. Agreeing'
    BY <1>1, <2>1, ReceivedFileOfferAgrees, ReceivedChunkAgrees, AckForNoFileAgrees,
       AckToSenderAgrees, AckToReceiverAgrees, ReceivedProceedAgrees
  <2>3. NothingBroken'
    BY <1>1, <1>3, ReadCalm, CalmStays
  <2> QED
    BY <1>1, <2>1, <2>2, <2>3
<1>4. ASSUME NEW s \in Sides, TaskStep(s)
      PROVE  ~tainted' /\ Agreeing' /\ NothingBroken'
  <2>1. /\ \/ \E f \in Files : FileHashed(f) \/ ReceivedFileHashed(f)
           \/ \E ch \in contact[s].leaving : RemoveTransfer(s, ch)
        /\ tainted' = tainted
    BY <1>4 DEF TaskStep
  <2>2. Agreeing'
    BY <1>1, <2>1, FileHashedAgrees, ReceivedFileHashedAgrees, RemoveTransferAgrees
  <2>3. NothingBroken'
    BY <1>1, <1>4, TaskCalm, CalmStays
  <2> QED
    BY <1>1, <2>1, <2>2, <2>3
<1>5. ASSUME NEW s \in Sides, BufferStep(s)
      PROVE  ~tainted' /\ Agreeing' /\ NothingBroken'
  <2>1. /\ ProcessOnlineLater(s) \/ OnOutputBufferEmptied(s)
        /\ tainted' = tainted
    BY <1>5 DEF BufferStep
  <2>2. Agreeing'
    BY <1>1, <2>1, BufferAgrees
  <2>3. NothingBroken'
    BY <1>1, <1>5, BufferStepCalm, CalmStays
  <2> QED
    BY <1>1, <2>1, <2>2, <2>3
<1>6. CASE LinkStep
  <2>1. \/ Connect
        \/ \E s \in Sides : \/ OnDisconnectedFromPeer(s) \/ OnCloseLater(s)
                            \/ Evicted(s) \/ Start(s)
    BY <1>6, FaultsStay DEF LinkStep
  <2>2. \A s \in Sides : ~OnDisconnectedFromPeer(s) /\ ~Start(s)
    BY <1>1 DEF Agreeing, OnDisconnectedFromPeer, Start
  <2>3. \A s \in Sides : ~OnCloseLater(s)
    BY <1>1 DEF NothingBroken, Calm, OnCloseLater
  <2>4. \A s \in Sides : Evicted(s) => tainted' = tainted
    BY Zenon DEF Evicted
  <2> QED
    BY <1>1, <2>1, <2>2, <2>3, <2>4, ConnectAgrees, EvictedAgrees
<1>7. CASE UNCHANGED vars
  <2>1. contact' = contact /\ link' = link /\ tainted' = tainted
    BY <1>7 DEF vars
  <2>2. Agreeing'
    BY <1>1, <2>1 DEF Agreeing, Agreed, Apart
  <2>3. NothingBroken'
    BY <1>1, <2>1 DEF NothingBroken, Calm
  <2> QED
    BY <1>1, <2>1, <2>2, <2>3
<1>8. ~DiskStep
  BY <1>1, FaultsStay, NothingRecovers DEF DiskStep
<1> QED
  BY <1>2, <1>3, <1>4, <1>5, <1>6, <1>7, <1>8 DEF Next

\* When nothing is on its way, what matches is the same.
LEMMA QuietMatch ==
  ASSUME NEW p \in FileStates, NEW q \in FileStates, NEW w, NEW v, NEW f,
         Match(p, q, w, v, f), w = <<>>, v = <<>>, q # "HASHING"
  PROVE  /\ p = "DONE" <=> q = "DONE"
         /\ p = "OFFERED" <=> q \in {"OFFERED", "QUEUED"}
         /\ p \in {"QUEUED", "TRANSFERRING"} <=> q = "TRANSFERRING"
         /\ p \in {"NONE", "WAITING"} => q = "NONE"
<1>1. \A S : ~On(w, S) /\ ~On(v, S)
  BY DEF On
<1> QED
  BY <1>1 DEF Match

\* The ends agree when nothing is on its way.
LEMMA AgreedWhenQuiet == IInv /\ AgreeInv => AgreeWhenQuiet
<1> SUFFICES ASSUME IInv, AgreeInv, faults = 0, Quiet, NEW f \in Files
             PROVE  LET p == contact["sender"].state[f]
                        q == contact["receiver"].state[f]
                    IN /\ p = "DONE" <=> q = "DONE"
                       /\ p = "OFFERED" <=> q \in {"OFFERED", "QUEUED"}
                       /\ p \in {"QUEUED", "TRANSFERRING"} <=> q = "TRANSFERRING"
                       /\ p \in {"NONE", "WAITING"} => q = "NONE"
  BY DEF AgreeWhenQuiet
<1> DEFINE c == contact["sender"]
           r == contact["receiver"]
<1>1. "sender" \in Sides /\ "receiver" \in Sides
  BY DEF Sides
<1>2. c \in Contacts /\ r \in Contacts
  BY <1>1, SideFacts
<1>3. c.wire = <<>> /\ r.wire = <<>> /\ r.hashing = {}
  BY <1>1 DEF Quiet
<1>4. Agreed(c, r)
  BY DEF AgreeInv, Agreeing
<1> HIDE DEF c, r
<1>5. Match(c.state[f], r.state[f], c.wire, r.wire, f)
  BY <1>4 DEF Agreed
<1>6. r.state[f] # "HASHING"
  BY <1>3, <1>4 DEF Agreed, OneChannel
<1>7. c.state[f] \in FileStates /\ r.state[f] \in FileStates
  BY <1>2 DEF Contacts
<1> QED
  BY <1>3, <1>5, <1>6, <1>7, QuietMatch DEF c, r

\* On a first connection that does not break, however offers, acceptance, rejection
\* and cancelling at both ends crossed each other: whenever nothing is on its way,
\* the two ends agree on what became of each file.
THEOREM EndsAgree == Spec => []AgreeWhenQuiet
<1>1. IInv /\ FlowInv /\ [Next]_vars => FlowInv'
  BY NextFlows
<1>2. IInv /\ FlowInv /\ AgreeInv /\ [Next]_vars => AgreeInv'
  BY NextAgrees
<1> QED
  BY <1>1, <1>2, InitFlows, InitAgrees, AgreedWhenQuiet, Invariance, PTL DEF Spec
=============================================================================
