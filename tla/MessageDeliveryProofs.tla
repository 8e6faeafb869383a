------------------------ MODULE MessageDeliveryProofs ------------------------
(***************************************************************************)
(* Theorems about MessageDelivery, for any number of messages.             *)
(***************************************************************************)
EXTENDS MessageDelivery, SequenceLemmas

(***************************************************************************)
(* The row an ack drops.                                                   *)
(***************************************************************************)

\* Dropping the row of m from rows that hold no message twice leaves the others.
LEMMA WithoutRowDrops ==
  ASSUME unreceived \in Seq(Messages),
         \A i, j \in 1..Len(unreceived) : unreceived[i] = unreceived[j] => i = j,
         NEW m \in Messages
  PROVE  /\ WithoutRow(m) \in Seq(Messages)
         /\ ToSet(WithoutRow(m)) = ToSet(unreceived) \ {m}
         /\ \A i, j \in 1..Len(WithoutRow(m)) :
              WithoutRow(m)[i] = WithoutRow(m)[j] => i = j
<1>1. CASE m \notin ToSet(unreceived)
  BY <1>1 DEF WithoutRow, ToSet
<1>2. CASE m \in ToSet(unreceived)
  <2> DEFINE k == CHOOSE i \in 1..Len(unreceived) : unreceived[i] = m
             w == WithoutRow(m)
             u == unreceived
  <2>1. k \in 1..Len(u) /\ u[k] = m
    BY <1>2 DEF ToSet
  <2>2. w = SubSeq(u, 1, k - 1) \o SubSeq(u, k + 1, Len(u))
    BY <1>2 DEF WithoutRow
  <2> HIDE DEF k, w
  <2> DEFINE a == SubSeq(u, 1, k - 1)
             b == SubSeq(u, k + 1, Len(u))
  <2>a. /\ a \in Seq(Messages) /\ Len(a) = k - 1
        /\ \A i \in 1..(k - 1) : a[i] = u[i]
    BY <2>1, SubSeqProperties
  <2>b. /\ b \in Seq(Messages) /\ Len(b) = Len(u) - k
        /\ \A i \in 1..(Len(u) - k) : b[i] = u[k + i]
    BY <2>1, SubSeqProperties
  <2> HIDE DEF a, b
  <2>c. w = a \o b
    BY <2>2 DEF a, b
  <2>3. w \in Seq(Messages) /\ Len(w) = Len(u) - 1
    <3>0. a \o b \in Seq(Messages) /\ Len(a \o b) = Len(a) + Len(b)
      BY <2>a, <2>b, ToSetConcat, ConcatProperties
    <3>1. w \in Seq(Messages) /\ Len(w) = Len(a) + Len(b)
      BY <3>0, <2>c
    <3>2. Len(u) \in Nat /\ k \in Int
      BY <2>1
    <3> QED
      BY <3>1, <3>2, <2>a, <2>b
  <2>4. \A i \in 1..Len(w) : w[i] = IF i < k THEN u[i] ELSE u[i + 1]
    BY <2>1, <2>3, <2>a, <2>b, <2>c, ConcatProperties
  <2>5. ASSUME NEW x \in ToSet(w)
        PROVE  x \in ToSet(u) \ {m}
    <3>1. PICK i \in 1..Len(w) : x = w[i]
      BY <2>5 DEF ToSet
    <3>2. PICK j \in 1..Len(u) : j # k /\ x = u[j]
      BY <3>1, <2>1, <2>3, <2>4
    <3> QED
      BY <3>2, <2>1 DEF ToSet
  <2>6. ASSUME NEW x \in ToSet(u) \ {m}
        PROVE  x \in ToSet(w)
    <3>1. PICK j \in 1..Len(u) : x = u[j]
      BY <2>6 DEF ToSet
    <3>2. j # k
      BY <3>1, <2>1, <2>6
    <3>3. CASE j < k
      <4>1. j \in 1..Len(w) /\ w[j] = x
        BY <3>1, <3>3, <2>1, <2>3, <2>4
      <4> QED
        BY <4>1 DEF ToSet
    <3>4. CASE j > k
      <4>1. j - 1 \in 1..Len(w) /\ w[j - 1] = x
        BY <3>1, <3>4, <2>1, <2>3, <2>4
      <4> QED
        BY <4>1, <2>3, InToSet
    <3> QED
      BY <3>2, <3>3, <3>4, <2>1
  <2>7. ASSUME NEW i \in 1..Len(w), NEW j \in 1..Len(w), w[i] = w[j]
        PROVE  i = j
    <3> DEFINE at(h) == IF h < k THEN h ELSE h + 1
    <3>1. Len(w) \in Nat /\ k \in Int /\ 1 <= k /\ Len(u) = Len(w) + 1
      BY <2>1, <2>3
    <3>2. at(i) \in 1..Len(u) /\ at(j) \in 1..Len(u)
      BY <3>1
    <3>3. w[i] = u[at(i)] /\ w[j] = u[at(j)]
      BY <2>4
    <3>4. at(i) = at(j)
      BY <2>1, <2>7, <3>2, <3>3
    <3> QED
      BY <3>1, <3>4
  <2>8. ToSet(w) = ToSet(u) \ {m}
    BY <2>5, <2>6
  <2> QED
    BY <2>3, <2>7, <2>8 DEF w
<1> QED
  BY <1>1, <1>2

(***************************************************************************)
(* The inductive invariant.  ReceivedMeansStored is not inductive alone:   *)
(* an ack on its way must already be true, and the sender's bookkeeping    *)
(* must name only messages that exist.                                     *)
(***************************************************************************)

Composed == {m \in Messages : state[m] # NoRow}

\* Everything in transit or stored is about a composed message.
OnlyComposed ==
  /\ ToSet(unreceived) \subseteq Composed
  /\ ToSet(queue) \subseteq Composed
  /\ ToSet(wire) \subseteq Composed
  /\ ToSet(inbox) \subseteq Composed
  /\ \A i \in 1..Len(acks) : acks[i].msg \in Composed

\* A positive ack on its way is about a stored message.
AcksAreSound ==
  \A i \in 1..Len(acks) :
    acks[i].status = "Received" => acks[i].msg \in ToSet(inbox)

\* The table holds one row for a message.
RowsOnce ==
  \A i, j \in 1..Len(unreceived) : unreceived[i] = unreceived[j] => i = j

IInv ==
  /\ TypeOK
  /\ OnlyComposed
  /\ AcksAreSound
  /\ RowsOnce
  /\ ReceivedMeansStored
  /\ StoredAtMostOnce
  /\ TrackedIsQueuedOrSent

\* Initially nothing exists.
LEMMA InitIInv == Init => IInv
<1> SUFFICES ASSUME Init
             PROVE  IInv
  OBVIOUS
<1>1. Len(<<>>) = 0 /\ ToSet(<<>>) = {}
  BY DEF ToSet
<1>2. TypeOK
  <2>1. <<>> \in Seq(Messages) /\ <<>> \in Seq(Acks)
    OBVIOUS
  <2>2. state \in [Messages -> States]
    BY DEF Init, States, NoRow
  <2> QED
    BY <2>1, <2>2 DEF Init, TypeOK
<1>3. OnlyComposed /\ AcksAreSound /\ RowsOnce /\ StoredAtMostOnce
  BY <1>1 DEF Init, OnlyComposed, AcksAreSound, RowsOnce, StoredAtMostOnce
<1>4. ReceivedMeansStored /\ TrackedIsQueuedOrSent
  BY DEF Init, ReceivedMeansStored, TrackedIsQueuedOrSent, NoRow
<1> QED
  BY <1>2, <1>3, <1>4 DEF IInv

\* Contact::procesMessageQueue() on a queue q and states st: it sends at most
\* one message, and a message leaves the queue only by being sent.
LEMMA ProcessQueueStep ==
  ASSUME NEW q \in Seq(Messages), NEW st \in [Messages -> States], NEW w \in BOOLEAN,
         wire \in Seq(Messages), ProcessMessageQueue(q, st, w)
  PROVE  /\ queue' \in Seq(Messages)
         /\ wire' \in Seq(Messages)
         /\ state' \in [Messages -> States]
         /\ drain' \in BOOLEAN
         /\ ToSet(queue') \subseteq ToSet(q)
         /\ ToSet(wire') \subseteq ToSet(wire) \cup ToSet(q)
         /\ \A m \in Messages :
              state'[m] = st[m] \/ (m \in ToSet(q) /\ state'[m] = "SENT")
         /\ \A m \in ToSet(q) :
              m \in ToSet(queue') \/ state'[m] = "SENT"
<1>1. CASE Unsent(q, st, w)
  BY <1>1 DEF Unsent
<1>2. CASE SendFront(q, st)
  <2>1. /\ q # <<>>
        /\ queue' = Tail(q)
        /\ state' = [st EXCEPT ![Head(q)] = "SENT"]
        /\ wire' = Written(Head(q))
        /\ drain' = TRUE
    BY <1>2 DEF SendFront
  <2>2. /\ Head(q) \in Messages
        /\ Tail(q) \in Seq(Messages)
        /\ ToSet(q) = {Head(q)} \cup ToSet(Tail(q))
    BY <2>1, ToSetHeadTail
  <2>3. /\ wire' \in Seq(Messages)
        /\ ToSet(wire') \subseteq ToSet(wire) \cup {Head(q)}
    BY <2>1, <2>2, ToSetAppend DEF Written
  <2>4. /\ state' \in [Messages -> States]
        /\ state'[Head(q)] = "SENT"
        /\ \A m \in Messages : m # Head(q) => state'[m] = st[m]
    BY <2>1, <2>2 DEF States
  <2> QED
    BY <2>1, <2>2, <2>3, <2>4
<1> QED
  BY <1>1, <1>2 DEF ProcessMessageQueue

\* The queue that loadMessageQueue() leaves holds the old queue and, when it
\* had not been loaded, the given rows.
LEMMA LoadedQueueHolds ==
  ASSUME queue \in Seq(Messages), loaded \in BOOLEAN, NEW rows \in Seq(Messages)
  PROVE  /\ LoadedQueue(rows) \in Seq(Messages)
         /\ ToSet(queue) \subseteq ToSet(LoadedQueue(rows))
         /\ ToSet(LoadedQueue(rows)) \subseteq
              ToSet(queue) \cup ToSet(rows)
         /\ ~loaded => ToSet(rows) \subseteq ToSet(LoadedQueue(rows))
BY ToSetConcat DEF LoadedQueue

\* A step that leaves the sender's bookkeeping and the inbox alone, and at most
\* drops what is in transit.
LEMMA LinkOnlyStep ==
  ASSUME IInv,
         UNCHANGED <<senderVars, inbox>>,
         wire' = wire \/ wire' = <<>>,
         acks' = acks \/ acks' = <<>>,
         senderOnline' \in BOOLEAN, receiverOnline' \in BOOLEAN,
         link' \in BOOLEAN, refusing' \in BOOLEAN,
         greet' \in BOOLEAN, drain' \in BOOLEAN,
         carried' \in SUBSET Messages
  PROVE  IInv'
<1> USE DEF IInv, senderVars
<1>1. Len(<<>>) = 0 /\ ToSet(<<>>) = {}
  BY DEF ToSet
<1>2. TypeOK'
  <2>1. <<>> \in Seq(Messages) /\ <<>> \in Seq(Acks)
    OBVIOUS
  <2>2. wire' \in Seq(Messages) /\ acks' \in Seq(Acks)
    BY <2>1 DEF TypeOK
  <2> QED
    BY <2>2 DEF TypeOK
<1>3. OnlyComposed'
  BY <1>1 DEF OnlyComposed, Composed, ToSet
<1>4. AcksAreSound'
  BY <1>1 DEF AcksAreSound, ToSet
<1>5. RowsOnce' /\ ReceivedMeansStored' /\ StoredAtMostOnce'
  BY DEF RowsOnce, ReceivedMeansStored, StoredAtMostOnce, ToSet
<1>6. TrackedIsQueuedOrSent'
  BY DEF TrackedIsQueuedOrSent, ToSet
<1> QED
  BY <1>2, <1>3, <1>4, <1>5, <1>6

\* A row is added under an id that did not exist.
LEMMA AddedRow ==
  ASSUME IInv, NEW m \in Messages, state[m] = NoRow
  PROVE  LET rows == Append(unreceived, m)
         IN /\ rows \in Seq(Messages)
            /\ ToSet(rows) = ToSet(unreceived) \cup {m}
            /\ \A i, j \in 1..Len(rows) : rows[i] = rows[j] => i = j
<1> DEFINE rows == Append(unreceived, m)
<1>1. unreceived \in Seq(Messages)
  BY DEF IInv, TypeOK
<1>2. rows \in Seq(Messages) /\ Len(rows) = Len(unreceived) + 1
  BY <1>1
<1>3. \A i \in 1..Len(rows) : rows[i] = IF i <= Len(unreceived) THEN unreceived[i] ELSE m
  BY <1>1
<1>4. m \notin ToSet(unreceived)
  BY DEF IInv, OnlyComposed, Composed
<1>5. \A i, j \in 1..Len(rows) : rows[i] = rows[j] => i = j
  BY <1>1, <1>2, <1>3, <1>4 DEF IInv, RowsOnce, ToSet
<1> QED
  BY <1>1, <1>2, <1>5, ToSetAppend

\* The steps of procesMessageQueue() on a queue of existing messages, after
\* which the queue counts as loaded, preserve the invariant.
LEMMA QueueStepIInv ==
  ASSUME IInv,
         NEW q \in Seq(Messages), NEW st \in [Messages -> States], NEW w \in BOOLEAN,
         ProcessMessageQueue(q, st, w),
         \A m \in Messages : st[m] = state[m] \/ st[m] = "QUEUED",
         \A m \in Messages : state[m] # NoRow => st[m] # NoRow,
         \A m \in ToSet(q) : st[m] # NoRow,
         unreceived' \in Seq(Messages), RowsOnce',
         \A m \in ToSet(unreceived') : st[m] # NoRow,
         loaded' \in BOOLEAN,
         loaded' => \A m \in ToSet(unreceived') :
                      m \in ToSet(q) \/ st[m] = "SENT",
         greet' \in BOOLEAN,
         UNCHANGED <<linkVars, acks, inbox, refusing, carried>>
  PROVE  IInv'
<1> USE DEF linkVars
<1>1. /\ queue' \in Seq(Messages)
      /\ wire' \in Seq(Messages)
      /\ state' \in [Messages -> States]
      /\ drain' \in BOOLEAN
      /\ ToSet(queue') \subseteq ToSet(q)
      /\ ToSet(wire') \subseteq ToSet(wire) \cup ToSet(q)
      /\ \A m \in Messages :
           state'[m] = st[m] \/ (m \in ToSet(q) /\ state'[m] = "SENT")
      /\ \A m \in ToSet(q) :
           m \in ToSet(queue') \/ state'[m] = "SENT"
  BY ProcessQueueStep DEF IInv, TypeOK
<1>2. TypeOK'
  BY <1>1 DEF IInv, TypeOK
<1>3. \A m \in Messages : st[m] # NoRow => state'[m] # NoRow
  BY <1>1 DEF NoRow
<1>4. /\ ToSet(q) \subseteq Messages
      /\ ToSet(unreceived') \subseteq Messages
  BY DEF ToSet
<1>5. OnlyComposed'
  <2>1. ToSet(unreceived)' \subseteq Composed'
    BY <1>3, <1>4 DEF Composed, ToSet
  <2>2. Composed \subseteq Composed'
    BY <1>3 DEF Composed
  <2>3. ToSet(q) \subseteq Composed'
    BY <1>3, <1>4 DEF Composed
  <2>4. ToSet(queue)' \subseteq Composed'
    BY <2>3, <1>1 DEF ToSet
  <2>5. ToSet(wire)' \subseteq Composed'
    <3>1. ToSet(wire') \subseteq Composed'
      BY <2>2, <2>3, <1>1 DEF IInv, OnlyComposed
    <3> QED
      BY <3>1 DEF ToSet
  <2>6. ToSet(inbox)' \subseteq Composed'
    BY <2>2 DEF IInv, OnlyComposed, ToSet
  <2>7. (\A i \in 1..Len(acks) : acks[i].msg \in Composed)'
    BY <2>2 DEF IInv, OnlyComposed
  <2> QED
    BY <2>1, <2>4, <2>5, <2>6, <2>7 DEF OnlyComposed
<1>6. AcksAreSound'
  BY DEF IInv, AcksAreSound, ToSet
<1>7. ReceivedMeansStored'
  BY <1>1 DEF IInv, ReceivedMeansStored, ToSet
<1>8. StoredAtMostOnce'
  BY DEF IInv, StoredAtMostOnce
<1>9. TrackedIsQueuedOrSent'
  <2> SUFFICES ASSUME loaded', NEW m \in ToSet(unreceived')
               PROVE  m \in ToSet(queue') \/ state'[m] = "SENT"
    BY DEF TrackedIsQueuedOrSent, ToSet
  <2> QED
    BY <1>1, <1>4
<1> QED
  BY <1>2, <1>5, <1>6, <1>7, <1>8, <1>9 DEF IInv

(***************************************************************************)
(* One lemma per kind of step.                                             *)
(***************************************************************************)

\* Conversation::sendMessage(): the new row is queued with what was loaded.
LEMMA SendMessageStep ==
  ASSUME IInv, NEW m \in Messages, SendMessage(m)
  PROVE  IInv'
<1> DEFINE rows == Append(unreceived, m)
           st == [state EXCEPT ![m] = "QUEUED"]
           lq == LoadedQueue(rows)
           q == Append(lq, m)
<1>1. /\ state[m] = NoRow
      /\ unreceived' = rows
      /\ ProcessMessageQueue(q, st, drain)
      /\ loaded' = TRUE
      /\ UNCHANGED <<linkVars, acks, inbox, refusing, greet, carried>>
  BY DEF SendMessage
<1>2. /\ rows \in Seq(Messages)
      /\ ToSet(rows) = ToSet(unreceived) \cup {m}
      /\ \A i, j \in 1..Len(rows) : rows[i] = rows[j] => i = j
  BY <1>1, AddedRow
<1>3. /\ queue \in Seq(Messages)
      /\ loaded \in BOOLEAN
      /\ drain \in BOOLEAN
      /\ greet' \in BOOLEAN
      /\ state \in [Messages -> States]
  BY <1>1 DEF IInv, TypeOK
<1>4. /\ lq \in Seq(Messages)
      /\ ToSet(queue) \subseteq ToSet(lq)
      /\ ToSet(lq) \subseteq ToSet(queue) \cup ToSet(rows)
      /\ ~loaded => ToSet(rows) \subseteq ToSet(lq)
  BY <1>2, <1>3, LoadedQueueHolds
<1> HIDE DEF rows, lq
<1>5. q \in Seq(Messages) /\ ToSet(q) = ToSet(lq) \cup {m}
  BY <1>4, ToSetAppend
<1> HIDE DEF q
<1>6. /\ st \in [Messages -> States]
      /\ st[m] = "QUEUED"
      /\ \A k \in Messages : k # m => st[k] = state[k]
  BY <1>3 DEF States
<1> HIDE DEF st
<1>7. \A k \in Messages : state[k] # NoRow => st[k] # NoRow
  BY <1>6 DEF NoRow
<1>8. /\ ToSet(queue) \subseteq Composed
      /\ ToSet(unreceived) \subseteq Composed
  BY DEF IInv, OnlyComposed
<1>9. st[m] # NoRow
  BY <1>6 DEF NoRow
<1>10. \A k \in ToSet(q) \cup ToSet(rows) : st[k] # NoRow
  BY <1>2, <1>4, <1>5, <1>7, <1>8, <1>9 DEF Composed
<1>11. \A k \in ToSet(rows) : k \in ToSet(q) \/ st[k] = "SENT"
  <2> SUFFICES ASSUME NEW k \in ToSet(unreceived), k # m, loaded
               PROVE  k \in ToSet(q) \/ st[k] = "SENT"
    BY <1>2, <1>3, <1>4, <1>5
  <2>1. k \in Messages
    BY <1>8 DEF Composed
  <2>2. k \in ToSet(queue) \/ state[k] = "SENT"
    BY DEF IInv, TrackedIsQueuedOrSent
  <2> QED
    BY <2>1, <2>2, <1>4, <1>5, <1>6
<1>12. /\ unreceived' \in Seq(Messages)
       /\ RowsOnce'
       /\ \A k \in ToSet(unreceived') : st[k] # NoRow
       /\ loaded' => \A k \in ToSet(unreceived') :
                       k \in ToSet(q) \/ st[k] = "SENT"
  BY <1>1, <1>2, <1>10, <1>11 DEF RowsOnce
<1>13. \A k \in Messages : st[k] = state[k] \/ st[k] = "QUEUED"
  BY <1>6
<1> QED
  BY <1>1, <1>3, <1>5, <1>6, <1>7, <1>10, <1>12, <1>13, QueueStepIInv

\* Contact::processOnlineLater() preserves the invariant.
LEMMA ProcessOnlineLaterStep ==
  ASSUME IInv, ProcessOnlineLater, senderOnline
  PROVE  IInv'
<1> DEFINE q == LoadedQueue(unreceived)
<1>1. /\ ProcessMessageQueue(q, state, TRUE)
      /\ loaded' = TRUE
      /\ greet' \in BOOLEAN
      /\ UNCHANGED <<unreceived, linkVars, acks, inbox, refusing, carried>>
  BY DEF ProcessOnlineLater
<1>2. /\ queue \in Seq(Messages)
      /\ unreceived \in Seq(Messages)
      /\ loaded \in BOOLEAN
      /\ state \in [Messages -> States]
  BY DEF IInv, TypeOK
<1>3. /\ q \in Seq(Messages)
      /\ ToSet(queue) \subseteq ToSet(q)
      /\ ToSet(q) \subseteq ToSet(queue) \cup ToSet(unreceived)
      /\ ~loaded => ToSet(unreceived) \subseteq ToSet(q)
  BY <1>2, LoadedQueueHolds
<1> HIDE DEF q
<1>4. /\ \A k \in ToSet(q) : state[k] # NoRow
      /\ \A k \in ToSet(unreceived) : state[k] # NoRow
  BY <1>3 DEF IInv, OnlyComposed, Composed
<1>5. \A k \in ToSet(unreceived) : k \in ToSet(q) \/ state[k] = "SENT"
  BY <1>2, <1>3 DEF IInv, TrackedIsQueuedOrSent
<1>6. /\ unreceived' \in Seq(Messages)
      /\ RowsOnce'
      /\ \A k \in ToSet(unreceived') : state[k] # NoRow
      /\ loaded' => \A k \in ToSet(unreceived') :
                      k \in ToSet(q) \/ state[k] = "SENT"
  BY <1>1, <1>2, <1>4, <1>5 DEF RowsOnce, IInv
<1> QED
  BY <1>1, <1>2, <1>3, <1>4, <1>6, QueueStepIInv

\* Contact::onOutputBufferEmptied() preserves the invariant.
LEMMA OnOutputBufferEmptiedStep == IInv /\ OnOutputBufferEmptied => IInv'
<1> SUFFICES ASSUME IInv, OnOutputBufferEmptied
             PROVE  IInv'
  OBVIOUS
<1>1. /\ ProcessMessageQueue(queue, state, FALSE)
      /\ UNCHANGED <<unreceived, loaded>>
      /\ greet' \in BOOLEAN
      /\ UNCHANGED <<linkVars, acks, inbox, refusing, carried>>
  BY DEF OnOutputBufferEmptied, IInv, TypeOK
<1>2. /\ queue \in Seq(Messages)
      /\ unreceived \in Seq(Messages)
      /\ loaded \in BOOLEAN
      /\ state \in [Messages -> States]
  BY DEF IInv, TypeOK
<1>3. /\ \A k \in ToSet(queue) : state[k] # NoRow
      /\ \A k \in ToSet(unreceived) : state[k] # NoRow
  BY DEF IInv, OnlyComposed, Composed
<1>4. /\ unreceived' \in Seq(Messages)
      /\ loaded' \in BOOLEAN
      /\ RowsOnce'
      /\ \A k \in ToSet(unreceived') : state[k] # NoRow
      /\ loaded' => \A k \in ToSet(unreceived') :
                      k \in ToSet(queue) \/ state[k] = "SENT"
  BY <1>1, <1>2, <1>3 DEF RowsOnce, IInv, TrackedIsQueuedOrSent
<1> QED
  BY <1>1, <1>2, <1>3, <1>4, QueueStepIInv

\* The first ack on its way, and what remains.
LEMMA FirstAck ==
  ASSUME IInv, acks # <<>>
  PROVE  /\ Head(acks) \in Acks
         /\ Head(acks).msg \in Messages
         /\ Head(acks).status \in AckStatus
         /\ Head(acks).msg \in Composed
         /\ Head(acks).status = "Received" =>
              Head(acks).msg \in ToSet(inbox)
         /\ Tail(acks) \in Seq(Acks)
         /\ \A i \in 1..Len(Tail(acks)) :
              \E j \in 1..Len(acks) : Tail(acks)[i] = acks[j]
<1>1. acks \in Seq(Acks)
  BY DEF IInv, TypeOK
<1>2. /\ Len(acks) \in Nat \ {0}
      /\ Head(acks) = acks[1]
      /\ acks[1] \in Acks
      /\ Tail(acks) \in Seq(Acks)
      /\ \A i \in 1..Len(Tail(acks)) :
           i + 1 \in 1..Len(acks) /\ Tail(acks)[i] = acks[i + 1]
  BY <1>1
<1>3. acks[1].msg \in Messages /\ acks[1].status \in AckStatus
  BY <1>2 DEF Acks
<1>4. /\ acks[1].msg \in Composed
      /\ acks[1].status = "Received" => acks[1].msg \in ToSet(inbox)
  BY <1>2 DEF IInv, OnlyComposed, AcksAreSound
<1> QED
  BY <1>2, <1>3, <1>4

\* Dropping the row of an acknowledged message, with or without the state that
\* belongs to it, and no longer counting on the queue if the program restarts.
LEMMA RowDroppedStep ==
  ASSUME IInv, NEW m \in Messages,
         unreceived' = WithoutRow(m),
         inbox' = inbox,
         wire' = wire,
         acks' \in Seq(Acks),
         \A i \in 1..Len(acks') : \E j \in 1..Len(acks) : acks'[i] = acks[j],
         state' \in [Messages -> States],
         \A k \in Messages : k # m => state'[k] = state[k],
         state'[m] # NoRow,
         state'[m] = "RECEIVED" => state[m] = "RECEIVED" \/ m \in ToSet(inbox),
         \/ queue' = queue /\ loaded' = loaded
         \/ queue' = <<>> /\ loaded' = FALSE,
         senderOnline' \in BOOLEAN, receiverOnline' \in BOOLEAN,
         link' \in BOOLEAN, refusing' \in BOOLEAN,
         greet' \in BOOLEAN, drain' \in BOOLEAN,
         carried' \in SUBSET Messages
  PROVE  IInv'
<1>1. unreceived \in Seq(Messages) /\ queue \in Seq(Messages)
  BY DEF IInv, TypeOK
<1>2. /\ WithoutRow(m) \in Seq(Messages)
      /\ ToSet(WithoutRow(m)) = ToSet(unreceived) \ {m}
      /\ \A i, j \in 1..Len(WithoutRow(m)) :
           WithoutRow(m)[i] = WithoutRow(m)[j] => i = j
  BY <1>1, WithoutRowDrops DEF IInv, RowsOnce
<1>3. <<>> \in Seq(Messages) /\ ToSet(<<>>) = {}
  BY DEF ToSet
<1>4. queue' \in Seq(Messages) /\ loaded' \in BOOLEAN
  BY <1>1, <1>3 DEF IInv, TypeOK
<1>5. TypeOK'
  BY <1>2, <1>4 DEF IInv, TypeOK
<1>6. Composed \subseteq Composed'
  BY DEF Composed
<1>7. /\ ToSet(unreceived)' = ToSet(unreceived) \ {m}
      /\ ToSet(queue)' = ToSet(queue) \/ ToSet(queue)' = {}
      /\ ToSet(wire)' = ToSet(wire)
      /\ ToSet(inbox)' = ToSet(inbox)
  <2>1. /\ ToSet(unreceived)' = ToSet(WithoutRow(m))
        /\ ToSet(wire)' = ToSet(wire)
        /\ ToSet(inbox)' = ToSet(inbox)
    BY DEF ToSet
  <2>2. ToSet(queue)' = ToSet(queue')
    BY DEF ToSet
  <2>3. queue' = queue \/ queue' = <<>>
    OBVIOUS
  <2>4. ToSet(queue') = ToSet(queue) \/ ToSet(queue') = {}
    BY <2>3, <1>3
  <2> QED
    BY <1>2, <2>1, <2>2, <2>4
<1>8. OnlyComposed'
  <2>1. \A i \in 1..Len(acks') : acks'[i].msg \in Composed
    BY DEF IInv, OnlyComposed
  <2> QED
    BY <1>6, <1>7, <2>1 DEF IInv, OnlyComposed
<1>9. AcksAreSound'
  <2>1. \A i \in 1..Len(acks') :
          acks'[i].status = "Received" => acks'[i].msg \in ToSet(inbox)
    BY DEF IInv, AcksAreSound
  <2> QED
    BY <1>7, <2>1 DEF AcksAreSound
<1>10. RowsOnce' /\ StoredAtMostOnce'
  BY <1>2 DEF IInv, RowsOnce, StoredAtMostOnce
<1>11. ReceivedMeansStored'
  <2>1. ASSUME NEW k \in Messages, state'[k] = "RECEIVED"
        PROVE  k \in ToSet(inbox)
    BY <2>1 DEF IInv, ReceivedMeansStored
  <2> QED
    BY <1>7, <2>1 DEF ReceivedMeansStored
<1>12. TrackedIsQueuedOrSent'
  <2>1. ASSUME loaded', NEW k \in ToSet(unreceived) \ {m}
        PROVE  k \in ToSet(queue)' \/ state'[k] = "SENT"
    <3>1. loaded /\ queue' = queue
      BY <2>1
    <3>2. k \in Messages /\ k # m
      BY DEF IInv, OnlyComposed, Composed
    <3>3. k \in ToSet(queue) \/ state[k] = "SENT"
      BY <3>1, <2>1 DEF IInv, TrackedIsQueuedOrSent
    <3>4. ToSet(queue)' = ToSet(queue)
      BY <3>1 DEF ToSet
    <3> QED
      BY <3>2, <3>3, <3>4
  <2> QED
    BY <1>7, <2>1 DEF TrackedIsQueuedOrSent
<1> QED
  BY <1>5, <1>8, <1>9, <1>10, <1>11, <1>12 DEF IInv

\* Contact::onReceivedAck(): the row dropped was sent, so nothing is forgotten.
LEMMA OnReceivedAckStep == IInv /\ OnReceivedAck => IInv'
<1> SUFFICES ASSUME IInv, OnReceivedAck
             PROVE  IInv'
  OBVIOUS
<1> DEFINE ack == Head(acks)
<1>1. /\ acks # <<>>
      /\ acks' = Tail(acks)
      /\ UNCHANGED <<queue, loaded, linkVars, wire, inbox, refusing, signals, carried>>
  BY DEF OnReceivedAck
<1>2. /\ ack.msg \in Messages
      /\ ack.status \in AckStatus
      /\ ack.msg \in Composed
      /\ ack.status = "Received" => ack.msg \in ToSet(inbox)
      /\ acks' \in Seq(Acks)
      /\ \A i \in 1..Len(acks') : \E j \in 1..Len(acks) : acks'[i] = acks[j]
  BY <1>1, FirstAck
<1>3. TypeOK /\ state \in [Messages -> States]
  BY DEF IInv, TypeOK
<1>4. /\ senderOnline' \in BOOLEAN /\ receiverOnline' \in BOOLEAN
      /\ link' \in BOOLEAN /\ refusing' \in BOOLEAN
      /\ greet' \in BOOLEAN /\ drain' \in BOOLEAN
      /\ carried' \in SUBSET Messages
  BY <1>1, <1>3 DEF TypeOK, linkVars, signals
<1>5. CASE state[ack.msg] = "REJECTED"
  <2>1. UNCHANGED <<unreceived, state>>
    BY <1>5 DEF OnReceivedAck
  <2>2. /\ OnlyComposed' /\ AcksAreSound'
    <3>1. /\ \A i \in 1..Len(acks') : acks'[i].msg \in Composed
          /\ \A i \in 1..Len(acks') :
               acks'[i].status = "Received" => acks'[i].msg \in ToSet(inbox)
      BY <1>2 DEF IInv, OnlyComposed, AcksAreSound
    <3> QED
      BY <1>1, <2>1, <3>1
        DEF IInv, OnlyComposed, AcksAreSound, Composed, ToSet
  <2>3. TypeOK'
    BY <1>1, <1>2, <1>3, <1>4, <2>1 DEF TypeOK
  <2>4. RowsOnce' /\ ReceivedMeansStored' /\ StoredAtMostOnce' /\ TrackedIsQueuedOrSent'
    BY <1>1, <2>1 DEF IInv, RowsOnce, ReceivedMeansStored, StoredAtMostOnce,
                      TrackedIsQueuedOrSent, ToSet
  <2> QED
    BY <2>2, <2>3, <2>4 DEF IInv
<1>6. CASE state[ack.msg] # "REJECTED"
  <2>1. /\ unreceived' = WithoutRow(ack.msg)
        /\ state' = [state EXCEPT ![ack.msg] = AckedState(ack)]
    BY <1>6 DEF OnReceivedAck
  <2>2. /\ AckedState(ack) \in States
        /\ AckedState(ack) # NoRow
        /\ AckedState(ack) = "RECEIVED" => ack.status = "Received"
    BY DEF AckedState, States, NoRow
  <2>3. /\ state' \in [Messages -> States]
        /\ state'[ack.msg] = AckedState(ack)
        /\ \A k \in Messages : k # ack.msg => state'[k] = state[k]
    BY <1>2, <1>3, <2>1, <2>2
  <2>4. queue' = queue /\ loaded' = loaded /\ wire' = wire /\ inbox' = inbox
    BY <1>1
  <2> HIDE DEF ack
  <2> QED
    BY <1>2, <1>4, <2>1, <2>2, <2>3, <2>4, RowDroppedStep
<1> QED
  BY <1>5, <1>6

\* Restarting the program loses the queue, the connection and the acks on it.
LEMMA RestartAtRestStep == IInv /\ RestartAtRest => IInv'
<1> SUFFICES ASSUME IInv, RestartAtRest
             PROVE  IInv'
  OBVIOUS
<1>1. /\ UNCHANGED <<state, unreceived, wire>>
      /\ queue' = <<>> /\ loaded' = FALSE /\ acks' = <<>>
      /\ senderOnline' = FALSE /\ link' = FALSE
      /\ greet' = FALSE /\ drain' = FALSE /\ carried' \in SUBSET Messages
      /\ UNCHANGED <<receiverOnline, inbox, refusing>>
  BY DEF RestartAtRest, Restart, ContactLost
<1>2. /\ <<>> \in Seq(Messages) /\ <<>> \in Seq(Acks)
      /\ Len(<<>>) = 0
      /\ ToSet(<<>>) = {}
  BY DEF ToSet
<1>3. TypeOK'
  BY <1>1, <1>2 DEF IInv, TypeOK
<1>4. /\ ToSet(queue)' = {}
      /\ ToSet(unreceived)' = ToSet(unreceived)
      /\ ToSet(wire)' = ToSet(wire)
      /\ ToSet(inbox)' = ToSet(inbox)
      /\ Composed' = Composed
  BY <1>1, <1>2 DEF ToSet, Composed
<1>5. OnlyComposed' /\ AcksAreSound'
  BY <1>1, <1>2, <1>4 DEF IInv, OnlyComposed, AcksAreSound
<1>6. RowsOnce' /\ ReceivedMeansStored' /\ StoredAtMostOnce' /\ TrackedIsQueuedOrSent'
  BY <1>1, <1>4 DEF IInv, RowsOnce, ReceivedMeansStored, StoredAtMostOnce,
                    TrackedIsQueuedOrSent
<1> QED
  BY <1>3, <1>5, <1>6 DEF IInv

\* A Contact object that goes while the program runs takes its queue along.
LEMMA EvictedStep == IInv /\ Evicted => IInv'
<1> SUFFICES ASSUME IInv, Evicted
             PROVE  IInv'
  OBVIOUS
<1>1. /\ UNCHANGED <<state, unreceived, wire, acks, inbox, drain>>
      /\ queue' = <<>> /\ loaded' = FALSE
      /\ greet' = FALSE /\ carried' \in SUBSET Messages
      /\ UNCHANGED <<senderOnline, receiverOnline, link, refusing>>
  BY DEF Evicted, ContactLost, linkVars
<1>2. <<>> \in Seq(Messages) /\ ToSet(<<>>) = {}
  BY DEF ToSet
<1>3. TypeOK'
  BY <1>1, <1>2 DEF IInv, TypeOK
<1>4. /\ ToSet(queue)' = {}
      /\ ToSet(unreceived)' = ToSet(unreceived)
      /\ ToSet(wire)' = ToSet(wire)
      /\ ToSet(inbox)' = ToSet(inbox)
      /\ Composed' = Composed
  BY <1>1, <1>2 DEF ToSet, Composed
<1>5. OnlyComposed' /\ AcksAreSound'
  BY <1>1, <1>2, <1>4 DEF IInv, OnlyComposed, AcksAreSound
<1>6. RowsOnce' /\ ReceivedMeansStored' /\ StoredAtMostOnce' /\ TrackedIsQueuedOrSent'
  BY <1>1, <1>4 DEF IInv, RowsOnce, ReceivedMeansStored, StoredAtMostOnce,
                    TrackedIsQueuedOrSent
<1> QED
  BY <1>3, <1>5, <1>6 DEF IInv

\* A restart that finds a row composed but never queued.
LEMMA RestartComposingStep ==
  ASSUME IInv, NEW m \in Messages, RestartComposing(m)
  PROVE  IInv'
<1> DEFINE rows == Append(unreceived, m)
<1>1. /\ state[m] = NoRow
      /\ state' = [state EXCEPT ![m] = "COMPOSED"]
      /\ unreceived' = rows
      /\ UNCHANGED <<wire, receiverOnline, inbox, refusing>>
      /\ queue' = <<>> /\ loaded' = FALSE /\ acks' = <<>>
      /\ senderOnline' = FALSE /\ link' = FALSE
      /\ greet' = FALSE /\ drain' = FALSE /\ carried' \in SUBSET Messages
  BY DEF RestartComposing, Restart, ContactLost
<1>2. /\ rows \in Seq(Messages)
      /\ ToSet(rows) = ToSet(unreceived) \cup {m}
      /\ \A i, j \in 1..Len(rows) : rows[i] = rows[j] => i = j
  BY <1>1, AddedRow
<1> HIDE DEF rows
<1>3. state \in [Messages -> States]
  BY DEF IInv, TypeOK
<1>4. /\ state' \in [Messages -> States]
      /\ state'[m] = "COMPOSED"
      /\ \A k \in Messages : k # m => state'[k] = state[k]
  BY <1>1, <1>3 DEF States
<1>5. /\ <<>> \in Seq(Messages) /\ <<>> \in Seq(Acks)
      /\ Len(<<>>) = 0
      /\ ToSet(<<>>) = {}
  BY DEF ToSet
<1>6. TypeOK'
  BY <1>1, <1>2, <1>4, <1>5 DEF IInv, TypeOK
<1>7. Composed \subseteq Composed' /\ m \in Composed'
  BY <1>4 DEF Composed, NoRow
<1>8. /\ ToSet(queue)' = {}
      /\ ToSet(unreceived)' = ToSet(rows)
      /\ ToSet(wire)' = ToSet(wire)
      /\ ToSet(inbox)' = ToSet(inbox)
  BY <1>1, <1>5 DEF ToSet
<1>9. OnlyComposed' /\ AcksAreSound'
  BY <1>1, <1>2, <1>5, <1>7, <1>8 DEF IInv, OnlyComposed, AcksAreSound
<1>10. RowsOnce' /\ StoredAtMostOnce' /\ TrackedIsQueuedOrSent'
  BY <1>1, <1>2 DEF IInv, RowsOnce, StoredAtMostOnce, TrackedIsQueuedOrSent
<1>11. ReceivedMeansStored'
  BY <1>4, <1>8 DEF IInv, ReceivedMeansStored
<1> QED
  BY <1>6, <1>9, <1>10, <1>11 DEF IInv

\* A restart between the write and the state that records it.
LEMMA RestartSendingStep == IInv /\ RestartSending => IInv'
<1> SUFFICES ASSUME IInv, RestartSending
             PROVE  IInv'
  OBVIOUS
<1>1. /\ queue # <<>>
      /\ wire' = Written(Head(queue))
      /\ UNCHANGED <<state, unreceived, receiverOnline, inbox, refusing>>
      /\ queue' = <<>> /\ loaded' = FALSE /\ acks' = <<>>
      /\ senderOnline' = FALSE /\ link' = FALSE
      /\ greet' = FALSE /\ drain' = FALSE /\ carried' \in SUBSET Messages
  BY DEF RestartSending, Restart, ContactLost
<1>2. /\ <<>> \in Seq(Messages) /\ <<>> \in Seq(Acks)
      /\ Len(<<>>) = 0
      /\ ToSet(<<>>) = {}
  BY DEF ToSet
<1>3. queue \in Seq(Messages) /\ wire \in Seq(Messages)
  BY DEF IInv, TypeOK
<1>4. /\ Head(queue) \in Messages
      /\ ToSet(queue) = {Head(queue)} \cup ToSet(Tail(queue))
  BY <1>1, <1>3, ToSetHeadTail
<1>5. /\ wire' \in Seq(Messages)
      /\ ToSet(wire') \subseteq ToSet(wire) \cup {Head(queue)}
  BY <1>1, <1>3, <1>4, ToSetAppend DEF Written
<1>6. TypeOK'
  BY <1>1, <1>2, <1>5 DEF IInv, TypeOK
<1>7. Composed' = Composed
  BY <1>1 DEF Composed
<1>8. /\ ToSet(queue)' = {}
      /\ ToSet(unreceived)' = ToSet(unreceived)
      /\ ToSet(wire)' = ToSet(wire')
      /\ ToSet(inbox)' = ToSet(inbox)
  BY <1>1, <1>2 DEF ToSet
<1>9. OnlyComposed' /\ AcksAreSound'
  BY <1>1, <1>2, <1>4, <1>5, <1>7, <1>8 DEF IInv, OnlyComposed, AcksAreSound
<1>10. RowsOnce' /\ ReceivedMeansStored' /\ StoredAtMostOnce' /\ TrackedIsQueuedOrSent'
  BY <1>1, <1>8 DEF IInv, RowsOnce, ReceivedMeansStored, StoredAtMostOnce,
                    TrackedIsQueuedOrSent
<1> QED
  BY <1>6, <1>9, <1>10 DEF IInv

\* A restart between the two commits of an ack.
LEMMA RestartInAckStep == IInv /\ RestartInAck => IInv'
<1> SUFFICES ASSUME IInv, RestartInAck
             PROVE  IInv'
  OBVIOUS
<1> DEFINE m == Head(acks).msg
<1>1. /\ acks # <<>>
      /\ unreceived' = WithoutRow(m)
      /\ UNCHANGED <<state, wire, receiverOnline, inbox, refusing>>
      /\ queue' = <<>> /\ loaded' = FALSE /\ acks' = <<>>
      /\ senderOnline' = FALSE /\ link' = FALSE
      /\ greet' = FALSE /\ drain' = FALSE /\ carried' \in SUBSET Messages
  BY DEF RestartInAck, Restart, ContactLost
<1>2. m \in Messages /\ m \in Composed
  BY <1>1, FirstAck
<1> HIDE DEF m
<1>3. /\ acks' \in Seq(Acks)
      /\ \A i \in 1..Len(acks') : \E j \in 1..Len(acks) : acks'[i] = acks[j]
  BY <1>1
<1>4. state' \in [Messages -> States] /\ state'[m] # NoRow
  BY <1>1, <1>2 DEF IInv, TypeOK, Composed
<1>5. /\ senderOnline' \in BOOLEAN /\ receiverOnline' \in BOOLEAN
      /\ link' \in BOOLEAN /\ refusing' \in BOOLEAN
      /\ greet' \in BOOLEAN /\ drain' \in BOOLEAN
      /\ carried' \in SUBSET Messages
  BY <1>1 DEF IInv, TypeOK
<1> QED
  BY <1>1, <1>2, <1>3, <1>4, <1>5, RowDroppedStep

\* The receiver answers the message m it has just read, storing it before it
\* confirms it, and never twice.
LEMMA AnswerStep ==
  ASSUME IInv, NEW m \in Messages, NEW s \in AckStatus,
         m \in Composed,
         Reply(m, s),
         UNCHANGED senderVars,
         inbox' = inbox \/ (m \notin ToSet(inbox) /\ inbox' = Append(inbox, m)),
         s = "Received" => m \in ToSet(inbox'),
         wire' \in Seq(Messages),
         ToSet(wire') \subseteq ToSet(wire),
         senderOnline' \in BOOLEAN, receiverOnline' \in BOOLEAN,
         link' \in BOOLEAN, refusing' \in BOOLEAN,
         greet' \in BOOLEAN, drain' \in BOOLEAN,
         carried' \in SUBSET Messages
  PROVE  IInv'
<1> DEFINE ack == [msg |-> m, status |-> s]
<1>1. /\ acks \in Seq(Acks)
      /\ inbox \in Seq(Messages)
      /\ ack \in Acks
  BY DEF IInv, TypeOK, Acks
<1>2. ack.msg = m /\ ack.status = s
  OBVIOUS
<1>3. acks' = acks \/ acks' = Append(acks, ack)
  BY DEF Reply
<1> HIDE DEF ack
<1>4. /\ acks' \in Seq(Acks)
      /\ \A i \in 1..Len(acks') :
           (\E j \in 1..Len(acks) : acks'[i] = acks[j]) \/ acks'[i] = ack
  <2>1. CASE acks' = acks
    BY <1>1, <2>1
  <2>2. CASE acks' = Append(acks, ack)
    <3>1. /\ acks' \in Seq(Acks)
          /\ Len(acks) \in Nat
          /\ Len(acks') = Len(acks) + 1
      BY <1>1, <2>2
    <3>2. \A i \in 1..Len(acks') :
            acks'[i] = IF i <= Len(acks) THEN acks[i] ELSE ack
      BY <1>1, <2>2
    <3> QED
      BY <3>1, <3>2
  <2> QED
    BY <1>3, <2>1, <2>2
<1>5. /\ inbox' \in Seq(Messages)
      /\ ToSet(inbox') \subseteq ToSet(inbox) \cup {m}
      /\ ToSet(inbox) \subseteq ToSet(inbox')
  <2>1. CASE inbox' = inbox
    BY <1>1, <2>1
  <2>2. CASE inbox' = Append(inbox, m)
    <3>1. ToSet(Append(inbox, m)) = ToSet(inbox) \cup {m}
      BY <1>1, ToSetAppend
    <3> QED
      BY <1>1, <2>2, <3>1
  <2> QED
    BY <2>1, <2>2
<1>6. TypeOK'
  BY <1>4, <1>5 DEF IInv, TypeOK, senderVars
<1>7. /\ Composed' = Composed
      /\ ToSet(unreceived)' = ToSet(unreceived)
      /\ ToSet(queue)' = ToSet(queue)
      /\ ToSet(wire)' = ToSet(wire')
      /\ ToSet(inbox)' = ToSet(inbox')
  BY DEF senderVars, Composed, ToSet
<1>8. OnlyComposed'
  <2>1. \A i \in 1..Len(acks') : acks'[i].msg \in Composed
    BY <1>2, <1>4 DEF IInv, OnlyComposed
  <2> QED
    BY <1>5, <1>7, <2>1 DEF IInv, OnlyComposed
<1>9. AcksAreSound'
  <2>1. \A i \in 1..Len(acks') :
          acks'[i].status = "Received" => acks'[i].msg \in ToSet(inbox')
    BY <1>2, <1>4, <1>5 DEF IInv, AcksAreSound
  <2> QED
    BY <1>7, <2>1 DEF AcksAreSound
<1>10. StoredAtMostOnce'
  <2>1. CASE inbox' = inbox
    BY <2>1 DEF IInv, StoredAtMostOnce
  <2>2. CASE m \notin ToSet(inbox) /\ inbox' = Append(inbox, m)
    <3>1. /\ Len(inbox') = Len(inbox) + 1
          /\ Len(inbox) \in Nat
          /\ \A i \in 1..Len(inbox') :
               inbox'[i] = IF i <= Len(inbox) THEN inbox[i] ELSE m
      BY <1>1, <2>2
    <3>2. \A i \in 1..Len(inbox) : inbox[i] # m
      BY <2>2 DEF ToSet
    <3> QED
      BY <3>1, <3>2 DEF IInv, StoredAtMostOnce
  <2> QED
    BY <2>1, <2>2
<1>11. RowsOnce' /\ TrackedIsQueuedOrSent'
  BY <1>7 DEF IInv, RowsOnce, TrackedIsQueuedOrSent, senderVars
<1>12. ReceivedMeansStored'
  BY <1>5, <1>7 DEF IInv, ReceivedMeansStored, senderVars
<1> QED
  BY <1>6, <1>8, <1>9, <1>10, <1>11, <1>12 DEF IInv

\* The message at the front of the link.
LEMMA FirstOnWire ==
  ASSUME IInv, wire # <<>>
  PROVE  /\ Head(wire) \in Messages
         /\ Head(wire) \in Composed
         /\ Tail(wire) \in Seq(Messages)
         /\ ToSet(Tail(wire)) \subseteq ToSet(wire)
         /\ <<>> \in Seq(Messages)
         /\ ToSet(<<>>) = {}
<1>1. wire \in Seq(Messages)
  BY DEF IInv, TypeOK
<1>2. /\ Head(wire) \in Messages
      /\ Tail(wire) \in Seq(Messages)
      /\ ToSet(wire) = {Head(wire)} \cup ToSet(Tail(wire))
  BY <1>1, ToSetHeadTail
<1>3. ToSet(wire) \subseteq Composed
  BY DEF IInv, OnlyComposed
<1>4. <<>> \in Seq(Messages) /\ ToSet(<<>>) = {}
  BY DEF ToSet
<1> QED
  BY <1>2, <1>3, <1>4

\* Contact::onReceivedMessage(): the ack follows the row it is about.
LEMMA OnReceivedMessageStep == IInv /\ OnReceivedMessage => IInv'
<1> SUFFICES ASSUME IInv, OnReceivedMessage
             PROVE  IInv'
  OBVIOUS
<1> DEFINE m == Head(wire)
<1>1. /\ wire # <<>>
      /\ wire' = Tail(wire)
      /\ UNCHANGED <<senderVars, linkVars, refusing, signals, carried>>
  BY DEF OnReceivedMessage
<1>2. /\ m \in Messages
      /\ m \in Composed
      /\ wire' \in Seq(Messages)
      /\ ToSet(wire') \subseteq ToSet(wire)
  BY <1>1, FirstOnWire
<1>3. /\ senderOnline' \in BOOLEAN /\ receiverOnline' \in BOOLEAN
      /\ link' \in BOOLEAN /\ refusing' \in BOOLEAN
      /\ greet' \in BOOLEAN /\ drain' \in BOOLEAN
      /\ carried' \in SUBSET Messages
  BY <1>1 DEF IInv, TypeOK, linkVars, signals
<1>4. inbox \in Seq(Messages)
  BY DEF IInv, TypeOK
<1>5. CASE m \in Unacceptable
  <2>1. Reply(m, "Rejected") /\ inbox' = inbox
    BY <1>5 DEF OnReceivedMessage
  <2> HIDE DEF m
  <2> QED
    BY <1>1, <1>2, <1>3, <2>1, AnswerStep DEF AckStatus
<1>6. CASE m \notin Unacceptable
  <2>1. inbox' = StoredOnce(m) /\ Reply(m, "Received")
    BY <1>6 DEF OnReceivedMessage
  <2> HIDE DEF m
  <2>2. \/ inbox' = inbox /\ m \in ToSet(inbox)
        \/ m \notin ToSet(inbox) /\ inbox' = Append(inbox, m)
    BY <2>1 DEF StoredOnce
  <2>3. m \in ToSet(inbox')
    <3>1. ToSet(Append(inbox, m)) = ToSet(inbox) \cup {m}
      BY <1>2, <1>4, ToSetAppend
    <3> QED
      BY <2>2, <3>1
  <2> QED
    BY <1>1, <1>2, <1>3, <2>1, <2>2, <2>3, AnswerStep DEF AckStatus
<1> QED
  BY <1>5, <1>6

\* A message refused leaves only an ack that says so.
LEMMA RefuseMessageStep == IInv /\ RefuseMessage => IInv'
<1> SUFFICES ASSUME IInv, RefuseMessage
             PROVE  IInv'
  OBVIOUS
<1> DEFINE m == Head(wire)
<1>1. /\ wire # <<>>
      /\ Reply(m, "Rejected")
      /\ wire' = <<>> /\ link' = FALSE /\ receiverOnline' = FALSE
      /\ UNCHANGED <<senderOnline, senderVars, inbox, refusing, signals, carried>>
  BY DEF RefuseMessage, ReceiverCloses
<1>2. /\ m \in Messages
      /\ m \in Composed
      /\ wire' \in Seq(Messages)
      /\ ToSet(wire') \subseteq ToSet(wire)
  BY <1>1, FirstOnWire
<1>3. /\ senderOnline' \in BOOLEAN /\ receiverOnline' \in BOOLEAN
      /\ link' \in BOOLEAN /\ refusing' \in BOOLEAN
      /\ greet' \in BOOLEAN /\ drain' \in BOOLEAN
      /\ carried' \in SUBSET Messages
  BY <1>1 DEF IInv, TypeOK, signals
<1> HIDE DEF m
<1> QED
  BY <1>1, <1>2, <1>3, AnswerStep DEF AckStatus

(***************************************************************************)
(* Every step preserves the invariant.                                     *)
(***************************************************************************)

\* The steps that touch only the link and what is in transit on it, and the timer
\* that finds the contact disconnected.
LEMMA OtherSteps ==
  ASSUME IInv,
         \/ StartRefusing \/ StopRefusing \/ Connect \/ LinkBreaks
         \/ SenderNotices \/ ReceiverNotices
         \/ ProcessOnlineLater /\ ~senderOnline
  PROVE  IInv'
<1> USE DEF linkVars, senderVars
<1>1. /\ UNCHANGED <<senderVars, inbox, carried>>
      /\ wire' = wire \/ wire' = <<>>
      /\ acks' = acks \/ acks' = <<>>
  BY DEF StartRefusing, StopRefusing, Connect, LinkBreaks, SenderNotices,
         ReceiverNotices, ReceiverCloses, ProcessOnlineLater
<1>2. TypeOK
  BY DEF IInv
<1>3. senderOnline' \in BOOLEAN /\ receiverOnline' \in BOOLEAN
  BY <1>2 DEF TypeOK, StartRefusing, StopRefusing, Connect, LinkBreaks,
              SenderNotices, ReceiverNotices, ReceiverCloses, ProcessOnlineLater
<1>4. link' \in BOOLEAN /\ refusing' \in BOOLEAN
  BY <1>2 DEF TypeOK, StartRefusing, StopRefusing, Connect, LinkBreaks,
              SenderNotices, ReceiverNotices, ReceiverCloses, ProcessOnlineLater
<1>5. greet' \in BOOLEAN /\ drain' \in BOOLEAN
  BY <1>2 DEF TypeOK, StartRefusing, StopRefusing, Connect, LinkBreaks,
              SenderNotices, ReceiverNotices, ProcessOnlineLater, signals
<1>6. carried' \in SUBSET Messages
  BY <1>1, <1>2 DEF TypeOK
<1> QED
  BY <1>1, <1>3, <1>4, <1>5, <1>6, LinkOnlyStep

\* Nothing changes.
LEMMA StutterStep == IInv /\ UNCHANGED vars => IInv'
<1> SUFFICES ASSUME IInv, UNCHANGED vars
             PROVE  IInv'
  OBVIOUS
<1>1. /\ UNCHANGED <<senderVars, inbox>>
      /\ wire' = wire /\ acks' = acks
      /\ senderOnline' = senderOnline /\ receiverOnline' = receiverOnline
      /\ link' = link /\ refusing' = refusing
      /\ greet' = greet /\ drain' = drain /\ carried' = carried
  BY DEF vars, linkVars, signals
<1> QED
  BY <1>1, LinkOnlyStep DEF IInv, TypeOK

\* Every step of the specification preserves the invariant.
LEMMA NextIInv == IInv /\ [Next]_vars => IInv'
<1> SUFFICES ASSUME IInv, [Next]_vars
             PROVE  IInv'
  OBVIOUS
<1>1. CASE \E m \in Messages : SendMessage(m)
  BY <1>1, SendMessageStep
<1>2. CASE \E m \in Messages : RestartComposing(m)
  BY <1>2, RestartComposingStep
<1>3. CASE ProcessOnlineLater \/ OnOutputBufferEmptied \/ OnReceivedAck
  BY <1>3, ProcessOnlineLaterStep, OtherSteps, OnOutputBufferEmptiedStep,
     OnReceivedAckStep
<1>4. CASE Evicted \/ RestartAtRest \/ RestartSending \/ RestartInAck
  BY <1>4, EvictedStep, RestartAtRestStep, RestartSendingStep, RestartInAckStep
<1>5. CASE OnReceivedMessage \/ RefuseMessage
  BY <1>5, OnReceivedMessageStep, RefuseMessageStep
<1>6. CASE \/ StartRefusing \/ StopRefusing \/ Connect \/ LinkBreaks
           \/ SenderNotices \/ ReceiverNotices
  BY <1>6, OtherSteps
<1>7. CASE UNCHANGED vars
  BY <1>7, StutterStep
<1> QED
  BY <1>1, <1>2, <1>3, <1>4, <1>5, <1>6, <1>7
    DEF Next, SenderStep, LossStep, ReceiverStep, LinkStep

\* The inductive invariant holds in every reachable state.
THEOREM Invariance == Spec => []IInv
<1>1. Init => IInv
  BY InitIInv
<1>2. IInv /\ [Next]_vars => IInv'
  BY NextIInv
<1> QED
  BY <1>1, <1>2, PTL DEF Spec

\* Every variable of the two contacts keeps its type: in particular the queue
\* and the link never hold anything but ids of messages.
THEOREM TypeCorrectness == Spec => []TypeOK
<1>1. IInv => TypeOK
  BY DEF IInv
<1> QED
  BY <1>1, Invariance, PTL

\* A message the sender's database calls RECEIVED is a row of the receiver's.
THEOREM ReceivedIsStored == Spec => []ReceivedMeansStored
<1>1. IInv => ReceivedMeansStored
  BY DEF IInv
<1> QED
  BY <1>1, Invariance, PTL

\* However often a message is sent, the receiver's table has one row for it.
THEOREM NoDuplicates == Spec => []StoredAtMostOnce
<1>1. IInv => StoredAtMostOnce
  BY DEF IInv
<1> QED
  BY <1>1, Invariance, PTL

\* The sender's queue loses no message that was not sent.
THEOREM QueueKeepsUnsent == Spec => []TrackedIsQueuedOrSent
<1>1. IInv => TrackedIsQueuedOrSent
  BY DEF IInv
<1> QED
  BY <1>1, Invariance, PTL

(***************************************************************************)
(* The order in which messages are stored.  It is inductive only together  *)
(* with the order of everything on the way: what is stored comes before    *)
(* what is on the wire, that before what is queued, and a new message has  *)
(* the highest id.  All of it is said of the messages composed since the   *)
(* Contact object was last lost: C is what it had composed by then.        *)
(***************************************************************************)

\* In composition order but for C, repetitions allowed.
Ordered(C, s) == \A i, j \in 1..Len(s) : i <= j => s[i] <= s[j] \/ s[j] \in C

\* In composition order but for C, each message once.
Rising(C, s) == \A i, j \in 1..Len(s) : i < j => s[i] < s[j] \/ s[j] \in C

\* No message of s was composed after one of t that is not of C.
NotAfter(C, s, t) == \A x \in ToSet(s), y \in ToSet(t) : x <= y \/ y \in C

\* What is written and not yet handled goes before what is still queued.
Flowing == /\ Ordered(carried, wire)
           /\ Ordered(carried, queue)
           /\ NotAfter(carried, wire, queue)
           /\ Rising(carried, inbox)
           /\ NotAfter(carried, inbox, wire)
           /\ NotAfter(carried, inbox, queue)

\* Messages are composed in the order of their ids, and the first one that a
\* Contact object sends loads its queue.
ComposedSoFar ==
  /\ \A m \in Composed, k \in Messages : k < m => k \in Composed
  /\ ~loaded => Composed \subseteq carried

OInv == ComposedSoFar /\ Flowing

\* Messages are numbers.
LEMMA MessagesAreNat == Messages \subseteq Nat
BY MaxMessageAssumption DEF Messages

\* What is left when the first of an ordered sequence is taken.
LEMMA OrderedTail ==
  ASSUME NEW C, NEW s \in Seq(Messages), s # <<>>, Ordered(C, s)
  PROVE  /\ Ordered(C, Tail(s))
         /\ \A x \in ToSet(s) : Head(s) <= x \/ x \in C
<1>1. Len(s) \in Nat \ {0} /\ Head(s) = s[1] /\ Len(Tail(s)) = Len(s) - 1
  OBVIOUS
<1>2. \A i \in 1..Len(Tail(s)) : Tail(s)[i] = s[i + 1]
  OBVIOUS
<1>3. ASSUME NEW i \in 1..Len(Tail(s)), NEW j \in 1..Len(Tail(s)), i <= j
      PROVE  Tail(s)[i] <= Tail(s)[j] \/ Tail(s)[j] \in C
  <2>1. i + 1 \in 1..Len(s) /\ j + 1 \in 1..Len(s) /\ i + 1 <= j + 1
    BY <1>1, <1>3
  <2> QED
    BY <2>1, <1>2 DEF Ordered
<1>4. ASSUME NEW x \in ToSet(s)
      PROVE  Head(s) <= x \/ x \in C
  <2>1. PICK i \in 1..Len(s) : x = s[i]
    BY DEF ToSet
  <2> QED
    BY <2>1, <1>1 DEF Ordered
<1> QED
  BY <1>3, <1>4 DEF Ordered

\* Appending the latest message, or one of C, keeps a sequence ordered.
LEMMA OrderedAppend ==
  ASSUME NEW C, NEW s \in Seq(Messages), NEW m \in Messages, Ordered(C, s),
         m \in C \/ \A x \in ToSet(s) : x <= m
  PROVE  Ordered(C, Append(s, m))
<1>1. Len(Append(s, m)) = Len(s) + 1
  OBVIOUS
<1>2. \A i \in 1..Len(Append(s, m)) :
        Append(s, m)[i] = IF i <= Len(s) THEN s[i] ELSE m
  OBVIOUS
<1>3. m \in C \/ \A i \in 1..Len(s) : s[i] <= m
  BY DEF ToSet
<1>4. m <= m
  BY MessagesAreNat
<1> QED
  BY <1>1, <1>2, <1>3, <1>4 DEF Ordered

\* Appending a later message, or one of C, keeps a sequence rising.
LEMMA RisingAppend ==
  ASSUME NEW C, NEW s \in Seq(Messages), NEW m \in Messages, Rising(C, s),
         m \in C \/ \A x \in ToSet(s) : x < m
  PROVE  Rising(C, Append(s, m))
<1>1. Len(Append(s, m)) = Len(s) + 1
  OBVIOUS
<1>2. \A i \in 1..Len(Append(s, m)) :
        Append(s, m)[i] = IF i <= Len(s) THEN s[i] ELSE m
  OBVIOUS
<1>3. m \in C \/ \A i \in 1..Len(s) : s[i] < m
  BY DEF ToSet
<1> QED
  BY <1>1, <1>2, <1>3 DEF Rising

\* procesMessageQueue() moves the first message from the front of the queue to
\* the end of the wire, and composes nothing.
LEMMA QueueStepFlowing ==
  ASSUME NEW q \in Seq(Messages), NEW st \in [Messages -> States], NEW w \in BOOLEAN,
         wire \in Seq(Messages), inbox \in Seq(Messages),
         ProcessMessageQueue(q, st, w), inbox' = inbox, carried' = carried,
         Ordered(carried, wire), Ordered(carried, q), NotAfter(carried, wire, q),
         Rising(carried, inbox),
         NotAfter(carried, inbox, wire), NotAfter(carried, inbox, q)
  PROVE  Flowing'
<1> DEFINE C == carried
<1>1. CASE Unsent(q, st, w)
  BY <1>1 DEF Unsent, Flowing, Ordered, Rising, NotAfter, ToSet
<1>2. CASE SendFront(q, st)
  <2> DEFINE h == Head(q)
             t == Tail(q)
  <2>1. /\ q # <<>>
        /\ queue' = t
        /\ wire' = wire \/ wire' = Append(wire, h)
    BY <1>2 DEF SendFront, Written
  <2>2. h \in Messages /\ t \in Seq(Messages) /\ ToSet(q) = {h} \cup ToSet(t)
    BY <2>1, ToSetHeadTail
  <2>3. Ordered(C, t) /\ \A x \in ToSet(t) : h <= x \/ x \in C
    BY <2>1, <2>2, OrderedTail
  <2> HIDE DEF h, t
  <2>4. Ordered(C, Append(wire, h))
    <3>1. h \in C \/ \A x \in ToSet(wire) : x <= h
      BY <2>2 DEF NotAfter
    <3> QED
      BY <3>1, <2>2, OrderedAppend
  <2>5. ToSet(Append(wire, h)) = ToSet(wire) \cup {h}
    BY <2>2, ToSetAppend
  <2>6. /\ NotAfter(C, Append(wire, h), t)
        /\ NotAfter(C, wire, t)
        /\ NotAfter(C, inbox, t)
        /\ NotAfter(C, inbox, Append(wire, h))
    BY <2>2, <2>3, <2>5 DEF NotAfter
  <2>7. CASE wire' = wire
    BY <2>1, <2>3, <2>6, <2>7 DEF Flowing, Ordered, Rising, NotAfter, ToSet
  <2>8. CASE wire' = Append(wire, h)
    BY <2>1, <2>3, <2>4, <2>6, <2>8 DEF Flowing, Ordered, Rising, NotAfter, ToSet
  <2> QED
    BY <2>1, <2>7, <2>8
<1> QED
  BY <1>1, <1>2 DEF ProcessMessageQueue

\* It leaves the set of composed messages as the caller made it.
LEMMA QueueStepComposed ==
  ASSUME NEW q \in Seq(Messages), NEW st \in [Messages -> States], NEW w \in BOOLEAN,
         ProcessMessageQueue(q, st, w), wire \in Seq(Messages),
         \A m \in ToSet(q) : st[m] # NoRow
  PROVE  Composed' = {m \in Messages : st[m] # NoRow}
<1>1. \A m \in Messages :
        state'[m] = st[m] \/ (m \in ToSet(q) /\ state'[m] = "SENT")
  BY ProcessQueueStep
<1> QED
  BY <1>1 DEF Composed, NoRow

\* A message composed next comes after all that exist.
LEMMA NextIsLatest ==
  ASSUME IInv, ComposedSoFar, NEW m \in Messages, state[m] = NoRow,
         \A k \in Messages : k < m => state[k] # NoRow
  PROVE  /\ \A x \in Composed : x < m
         /\ \A j \in Composed \cup {m}, k \in Messages :
              k < j => k \in Composed \cup {m}
<1>1. m \notin Composed /\ Composed \subseteq Messages
  BY DEF Composed
<1>2. \A k \in Messages : k < m => k \in Composed
  BY DEF Composed
<1>3. \A x \in Composed : x < m
  BY <1>1, MessagesAreNat DEF ComposedSoFar
<1> QED
  BY <1>1, <1>2, <1>3 DEF ComposedSoFar

\* Conversation::sendMessage(): the new message goes to the end of the queue, twice
\* when it is the one that loads the queue.
LEMMA SendMessageOrder ==
  ASSUME IInv, OInv, NEW m \in Messages, SendMessage(m)
  PROVE  OInv'
<1> DEFINE rows == Append(unreceived, m)
           st == [state EXCEPT ![m] = "QUEUED"]
           lq == LoadedQueue(rows)
           q == Append(lq, m)
<1>1. /\ state[m] = NoRow
      /\ \A k \in Messages : k < m => state[k] # NoRow
      /\ ProcessMessageQueue(q, st, drain)
      /\ loaded' = TRUE
      /\ inbox' = inbox /\ carried' = carried
  BY DEF SendMessage
<1>2. /\ \A x \in Composed : x < m
      /\ \A j \in Composed \cup {m}, k \in Messages :
           k < j => k \in Composed \cup {m}
  BY <1>1, NextIsLatest DEF OInv
<1>3. /\ queue \in Seq(Messages) /\ wire \in Seq(Messages)
      /\ inbox \in Seq(Messages) /\ unreceived \in Seq(Messages)
      /\ loaded \in BOOLEAN
      /\ state \in [Messages -> States]
  BY DEF IInv, TypeOK
<1>4. /\ ToSet(unreceived) \subseteq Composed /\ ToSet(queue) \subseteq Composed
      /\ ToSet(wire) \subseteq Composed /\ ToSet(inbox) \subseteq Composed
  BY DEF IInv, OnlyComposed
<1>5. rows \in Seq(Messages) /\ ToSet(rows) = ToSet(unreceived) \cup {m}
  BY <1>3, ToSetAppend
<1>6. /\ lq \in Seq(Messages)
      /\ ToSet(lq) \subseteq ToSet(queue) \cup ToSet(rows)
      /\ loaded => lq = queue
  BY <1>3, <1>5, LoadedQueueHolds DEF LoadedQueue
<1> HIDE DEF rows, lq
<1>7. q \in Seq(Messages) /\ ToSet(q) = ToSet(lq) \cup {m}
  BY <1>6, ToSetAppend
<1>8. /\ st \in [Messages -> States]
      /\ st[m] = "QUEUED"
      /\ \A k \in Messages : k # m => st[k] = state[k]
  BY <1>3 DEF States
<1> HIDE DEF st
<1>9. Composed \subseteq Messages
  BY DEF Composed
<1>10. ToSet(q) \subseteq Composed \cup {m}
  BY <1>4, <1>5, <1>6, <1>7
<1>11. {k \in Messages : st[k] # NoRow} = Composed \cup {m}
  BY <1>8 DEF Composed, NoRow
<1>12. Composed' = Composed \cup {m}
  <2>0. drain \in BOOLEAN
    BY DEF IInv, TypeOK
  <2>1. \A k \in ToSet(q) : st[k] # NoRow
    BY <1>10, <1>11
  <2> HIDE DEF q
  <2> QED
    <3>1. /\ ProcessMessageQueue(q, st, drain) /\ wire \in Seq(Messages)
          /\ q \in Seq(Messages) /\ st \in [Messages -> States]
      BY <1>1, <1>3, <1>7, <1>8
    <3>2. Composed' = {k \in Messages : st[k] # NoRow}
      BY <2>0, <2>1, <3>1, QueueStepComposed
    <3> QED
      BY <1>11, <3>2
<1>13. ComposedSoFar'
  BY <1>1, <1>2, <1>12 DEF ComposedSoFar
<1>14. Flowing'
  <2> DEFINE C == carried
  <2>1. /\ Ordered(C, wire) /\ Rising(C, inbox) /\ NotAfter(C, inbox, wire)
        /\ Ordered(C, queue) /\ NotAfter(C, wire, queue)
        /\ NotAfter(C, inbox, queue)
        /\ ~loaded => Composed \subseteq C
    BY DEF OInv, Flowing, ComposedSoFar
  <2> HIDE DEF C
  <2>2. m <= m /\ \A x \in Composed : x <= m
    BY <1>2, <1>9, MessagesAreNat
  <2>3. /\ Ordered(C, lq)
        /\ \A x \in ToSet(lq) : x <= m
        /\ NotAfter(C, wire, lq) /\ NotAfter(C, inbox, lq)
    <3>0. \A x \in ToSet(lq) : x <= m
      BY <2>2, <1>4, <1>5, <1>6
    <3>1. CASE loaded
      BY <3>0, <3>1, <2>1, <1>6
    <3>2. CASE ~loaded
      <4>1. \A y \in ToSet(lq) : y \in C \/ y = m
        BY <3>2, <2>1, <1>4, <1>5, <1>6
      <4>2. \A i \in 1..Len(lq) : lq[i] \in ToSet(lq)
        BY <1>6, InToSet
      <4>3. Ordered(C, lq)
        BY <3>0, <4>1, <4>2 DEF Ordered
      <4>4. NotAfter(C, wire, lq) /\ NotAfter(C, inbox, lq)
        BY <4>1, <2>2, <1>4 DEF NotAfter
      <4> QED
        BY <3>0, <4>3, <4>4
    <3> QED
      BY <1>3, <3>1, <3>2
  <2>4. Ordered(C, q)
    BY <2>3, <1>6, OrderedAppend
  <2>5. NotAfter(C, wire, q) /\ NotAfter(C, inbox, q)
    BY <2>2, <2>3, <1>4, <1>7 DEF NotAfter
  <2>6. drain \in BOOLEAN
    BY DEF IInv, TypeOK
  <2> HIDE DEF q
  <2> QED
    BY <1>1, <1>3, <1>7, <1>8, <2>1, <2>4, <2>5, <2>6, QueueStepFlowing DEF C
<1> QED
  BY <1>13, <1>14 DEF OInv

\* Contact::processOnlineLater(): loading the queue finds only rows from
\* before the Contact object was last lost.
LEMMA ProcessOnlineLaterOrder ==
  ASSUME IInv, OInv, ProcessOnlineLater, senderOnline
  PROVE  OInv'
<1> DEFINE q == LoadedQueue(unreceived)
<1>1. /\ ProcessMessageQueue(q, state, TRUE)
      /\ loaded' = TRUE
      /\ inbox' = inbox /\ carried' = carried
  BY DEF ProcessOnlineLater
<1>2. /\ queue \in Seq(Messages) /\ wire \in Seq(Messages)
      /\ inbox \in Seq(Messages) /\ unreceived \in Seq(Messages)
      /\ loaded \in BOOLEAN
      /\ state \in [Messages -> States]
  BY DEF IInv, TypeOK
<1>3. /\ q \in Seq(Messages)
      /\ ToSet(q) \subseteq ToSet(queue) \cup ToSet(unreceived)
      /\ loaded => q = queue
  BY <1>2, LoadedQueueHolds DEF LoadedQueue
<1> HIDE DEF q
<1>4. /\ ToSet(unreceived) \subseteq Composed
      /\ ToSet(queue) \subseteq Composed
  BY DEF IInv, OnlyComposed
<1>5. Composed' = Composed
  <2>1. \A k \in ToSet(q) : state[k] # NoRow
    BY <1>3, <1>4 DEF Composed
  <2>2. Composed' = {m \in Messages : state[m] # NoRow}
    BY <2>1, <1>1, <1>2, <1>3, QueueStepComposed
  <2> QED
    BY <2>2 DEF Composed
<1>6. ComposedSoFar'
  BY <1>1, <1>5 DEF OInv, ComposedSoFar
<1>7. Flowing'
  <2> DEFINE C == carried
  <2>1. /\ Ordered(C, wire) /\ Rising(C, inbox) /\ NotAfter(C, inbox, wire)
        /\ Ordered(C, queue) /\ NotAfter(C, wire, queue)
        /\ NotAfter(C, inbox, queue)
        /\ ~loaded => Composed \subseteq C
    BY DEF OInv, Flowing, ComposedSoFar
  <2> HIDE DEF C
  <2>2. Ordered(C, q) /\ NotAfter(C, wire, q) /\ NotAfter(C, inbox, q)
    <3>1. CASE loaded
      BY <3>1, <2>1, <1>3
    <3>2. CASE ~loaded
      <4>1. ToSet(q) \subseteq C
        BY <3>2, <2>1, <1>3, <1>4
      <4>2. \A i \in 1..Len(q) : q[i] \in ToSet(q)
        BY <1>3, InToSet
      <4> QED
        BY <4>1, <4>2 DEF Ordered, NotAfter
    <3> QED
      BY <1>2, <3>1, <3>2
  <2> QED
    BY <1>1, <1>2, <1>3, <2>1, <2>2, QueueStepFlowing DEF C
<1> QED
  BY <1>6, <1>7 DEF OInv

\* Contact::onOutputBufferEmptied() keeps the order.
LEMMA OnOutputBufferEmptiedOrder ==
  ASSUME IInv, OInv, OnOutputBufferEmptied
  PROVE  OInv'
<1>1. /\ ProcessMessageQueue(queue, state, FALSE)
      /\ loaded' = loaded /\ inbox' = inbox /\ carried' = carried
  BY DEF OnOutputBufferEmptied
<1>2. /\ queue \in Seq(Messages) /\ wire \in Seq(Messages)
      /\ inbox \in Seq(Messages)
      /\ state \in [Messages -> States]
  BY DEF IInv, TypeOK
<1>3. Composed' = Composed
  <2>1. \A k \in ToSet(queue) : state[k] # NoRow
    BY DEF IInv, OnlyComposed, Composed
  <2>2. Composed' = {m \in Messages : state[m] # NoRow}
    BY <2>1, <1>1, <1>2, QueueStepComposed
  <2> QED
    BY <2>2 DEF Composed
<1>4. ComposedSoFar'
  BY <1>1, <1>3 DEF OInv, ComposedSoFar
<1>5. Flowing'
  BY <1>1, <1>2, QueueStepFlowing DEF OInv, Flowing
<1> QED
  BY <1>4, <1>5 DEF OInv

\* A step that composes nothing, stores nothing and leaves the queue alone.
LEMMA UnmovedOrder ==
  ASSUME IInv, OInv, Composed' = Composed,
         UNCHANGED <<queue, loaded, inbox, carried>>,
         wire' = wire \/ wire' = <<>>
  PROVE  OInv'
<1>1. /\ Ordered(carried, <<>>)
      /\ NotAfter(carried, inbox, <<>>) /\ NotAfter(carried, <<>>, queue)
  BY DEF Ordered, NotAfter, ToSet
<1>2. Flowing'
  <2>1. CASE wire' = wire
    BY <2>1 DEF OInv, Flowing, Ordered, Rising, NotAfter, ToSet
  <2>2. CASE wire' = <<>>
    BY <1>1, <2>2 DEF OInv, Flowing, Ordered, Rising, NotAfter, ToSet
  <2> QED
    BY <2>1, <2>2
<1>3. ComposedSoFar'
  BY DEF OInv, ComposedSoFar
<1> QED
  BY <1>2, <1>3 DEF OInv

\* Contact::onReceivedAck() moves no message.
LEMMA OnReceivedAckOrder ==
  ASSUME IInv, OInv, OnReceivedAck
  PROVE  OInv'
<1> DEFINE ack == Head(acks)
<1>1. /\ acks # <<>>
      /\ UNCHANGED <<queue, loaded, inbox, carried, wire>>
      /\ \/ state' = state
         \/ state' = [state EXCEPT ![ack.msg] = AckedState(ack)]
  BY DEF OnReceivedAck
<1>2. ack.msg \in Composed
  BY <1>1, FirstAck
<1> HIDE DEF ack
<1>3. AckedState(ack) # NoRow
  BY DEF AckedState, NoRow
<1>4. state \in [Messages -> States]
  BY DEF IInv, TypeOK
<1>5. Composed' = Composed
  BY <1>1, <1>2, <1>3, <1>4 DEF Composed
<1> QED
  BY <1>1, <1>5, UnmovedOrder

\* When the Contact object is lost nothing is promised of what was composed.
LEMMA LossOrder ==
  ASSUME IInv, OInv, LossStep
  PROVE  OInv'
<1>0. IInv'
  BY EvictedStep, RestartAtRestStep, RestartComposingStep, RestartSendingStep,
     RestartInAckStep DEF LossStep
<1>1. carried' = Composed'
  BY DEF LossStep, Evicted, RestartAtRest, RestartComposing, RestartSending,
         RestartInAck, Restart, ContactLost, Composed
<1>2. \A m \in Composed', k \in Messages : k < m => k \in Composed'
  <2>1. CASE \E m \in Messages : RestartComposing(m)
    <3>1. PICK m \in Messages : RestartComposing(m)
      BY <2>1
    <3>2. /\ state[m] = NoRow
          /\ \A k \in Messages : k < m => state[k] # NoRow
          /\ state' = [state EXCEPT ![m] = "COMPOSED"]
      BY <3>1 DEF RestartComposing
    <3>3. \A j \in Composed \cup {m}, k \in Messages :
            k < j => k \in Composed \cup {m}
      BY <3>2, NextIsLatest DEF OInv
    <3>4. Composed' = Composed \cup {m}
      BY <3>2 DEF Composed, NoRow, IInv, TypeOK
    <3> QED
      BY <3>3, <3>4
  <2>2. CASE Evicted \/ RestartAtRest \/ RestartSending \/ RestartInAck
    <3>1. Composed' = Composed
      BY <2>2 DEF Composed, Evicted, RestartAtRest, RestartSending, RestartInAck
    <3> QED
      BY <3>1 DEF OInv, ComposedSoFar
  <2> QED
    BY <2>1, <2>2 DEF LossStep
<1>3. ComposedSoFar'
  BY <1>1, <1>2 DEF ComposedSoFar
<1>4. Flowing'
  <2>1. /\ ToSet(queue)' \subseteq carried'
        /\ ToSet(wire)' \subseteq carried'
        /\ ToSet(inbox)' \subseteq carried'
    BY <1>0, <1>1 DEF IInv, OnlyComposed
  <2>2. wire' \in Seq(Messages) /\ queue' \in Seq(Messages) /\ inbox' \in Seq(Messages)
    BY <1>0 DEF IInv, TypeOK
  <2>3. /\ \A j \in 1..Len(wire') : wire'[j] \in carried'
        /\ \A j \in 1..Len(queue') : queue'[j] \in carried'
        /\ \A j \in 1..Len(inbox') : inbox'[j] \in carried'
    BY <2>1 DEF ToSet
  <2> QED
    BY <2>1, <2>3 DEF Flowing, Ordered, Rising, NotAfter
<1> QED
  BY <1>3, <1>4 DEF OInv

\* The first message on the wire comes after everything stored, unless it is
\* the last one stored, sent again.
LEMMA OnReceivedMessageOrder ==
  ASSUME IInv, OInv, OnReceivedMessage
  PROVE  OInv'
<1> DEFINE m == Head(wire)
           t == Tail(wire)
           C == carried
<1>1. /\ wire # <<>>
      /\ wire' = t
      /\ UNCHANGED <<state, queue, loaded, carried>>
      /\ inbox' = inbox \/ inbox' = StoredOnce(m)
  BY DEF OnReceivedMessage, senderVars
<1>2. /\ wire \in Seq(Messages) /\ inbox \in Seq(Messages)
      /\ queue \in Seq(Messages)
  BY DEF IInv, TypeOK
<1>3. m \in Messages /\ t \in Seq(Messages) /\ ToSet(wire) = {m} \cup ToSet(t)
  BY <1>1, <1>2, ToSetHeadTail
<1>4. ComposedSoFar'
  BY <1>1 DEF OInv, ComposedSoFar, Composed
<1>5. Flowing'
  <2>0. /\ Ordered(C, wire) /\ Ordered(C, queue) /\ NotAfter(C, wire, queue)
        /\ Rising(C, inbox) /\ NotAfter(C, inbox, wire)
        /\ NotAfter(C, inbox, queue)
    BY DEF OInv, Flowing
  <2>1. Ordered(C, t) /\ \A x \in ToSet(wire) : m <= x \/ x \in C
    BY <1>1, <1>2, <2>0, OrderedTail
  <2> HIDE DEF m, t
  <2>2. NotAfter(C, t, queue) /\ NotAfter(C, inbox, t)
    BY <1>3, <2>0 DEF NotAfter
  <2>3. CASE inbox' = inbox
    BY <1>1, <2>0, <2>1, <2>2, <2>3 DEF Flowing, Ordered, Rising, NotAfter, ToSet
  <2>4. CASE m \notin ToSet(inbox) /\ inbox' = Append(inbox, m)
    <3>1. \A x \in ToSet(inbox) :
            (x <= m \/ m \in C) /\ x # m /\ x \in Messages
      BY <1>2, <1>3, <2>0, <2>4, InToSet DEF NotAfter
    <3>2. m \in C \/ \A x \in ToSet(inbox) : x < m
      <4> SUFFICES ASSUME m \notin C, NEW x \in ToSet(inbox)
                   PROVE  x < m
        OBVIOUS
      <4>1. x \in Nat /\ m \in Nat /\ x <= m /\ x # m
        BY <3>1, <1>3, MessagesAreNat
      <4> QED
        BY <4>1
    <3>3. Rising(C, Append(inbox, m))
      BY <1>2, <1>3, <2>0, <3>2, RisingAppend
    <3>4. ToSet(Append(inbox, m)) = ToSet(inbox) \cup {m}
      BY <1>2, <1>3, ToSetAppend
    <3>5. \A y \in ToSet(queue) : m <= y \/ y \in C
      BY <1>3, <2>0 DEF NotAfter
    <3>6. /\ NotAfter(C, Append(inbox, m), t)
          /\ NotAfter(C, Append(inbox, m), queue)
      BY <1>3, <2>0, <2>1, <2>2, <3>4, <3>5 DEF NotAfter
    <3> QED
      BY <1>1, <2>0, <2>1, <2>2, <2>4, <3>3, <3>6
        DEF Flowing, Ordered, Rising, NotAfter, ToSet
  <2> QED
    BY <1>1, <2>3, <2>4 DEF StoredOnce
<1> QED
  BY <1>4, <1>5 DEF OInv

\* Every step keeps the order.
LEMMA NextOInv == IInv /\ OInv /\ [Next]_vars => OInv'
<1> SUFFICES ASSUME IInv, OInv, [Next]_vars
             PROVE  OInv'
  OBVIOUS
<1>1. CASE \E m \in Messages : SendMessage(m)
  BY <1>1, SendMessageOrder
<1>2. CASE \/ ProcessOnlineLater /\ senderOnline
           \/ OnOutputBufferEmptied \/ OnReceivedAck
  BY <1>2, ProcessOnlineLaterOrder, OnOutputBufferEmptiedOrder,
     OnReceivedAckOrder
<1>3. CASE LossStep
  BY <1>3, LossOrder
<1>4. CASE OnReceivedMessage
  BY <1>4, OnReceivedMessageOrder
<1>5. CASE \/ RefuseMessage \/ StartRefusing \/ StopRefusing \/ Connect
           \/ LinkBreaks \/ SenderNotices \/ ReceiverNotices
           \/ ProcessOnlineLater /\ ~senderOnline
  <2>1. /\ UNCHANGED <<senderVars, inbox, carried>>
        /\ wire' = wire \/ wire' = <<>>
    BY <1>5 DEF RefuseMessage, StartRefusing, StopRefusing, Connect,
         LinkBreaks, SenderNotices, ReceiverNotices, ReceiverCloses,
         ProcessOnlineLater, senderVars
  <2>2. Composed' = Composed
    BY <2>1 DEF Composed, senderVars
  <2> QED
    BY <2>1, <2>2, UnmovedOrder DEF senderVars
<1>6. CASE UNCHANGED vars
  <2>1. UNCHANGED <<senderVars, inbox, carried, wire>>
    BY <1>6 DEF vars
  <2>2. Composed' = Composed
    BY <2>1 DEF Composed, senderVars
  <2> QED
    BY <2>1, <2>2, UnmovedOrder DEF senderVars
<1> QED
  BY <1>1, <1>2, <1>3, <1>4, <1>5, <1>6
    DEF Next, SenderStep, ReceiverStep, LinkStep

\* Nothing is composed at first, so nothing is out of order.
LEMMA InitOInv == Init => OInv
<1> SUFFICES ASSUME Init
             PROVE  OInv
  OBVIOUS
<1>1. Composed = {}
  BY DEF Init, Composed
<1>2. Len(<<>>) = 0 /\ ToSet(<<>>) = {}
  BY DEF ToSet
<1>3. Flowing
  BY <1>2 DEF Init, Flowing, Ordered, Rising, NotAfter
<1> QED
  BY <1>1, <1>3 DEF OInv, ComposedSoFar

\* Through every break, repetition, refusal, restart and eviction, the receiver's
\* rows are in the order the messages were composed, but for messages that the
\* sender's Contact object loaded because an earlier one was lost with them.
THEOREM StoresInOrder == Spec => []StoredInOrder
<1>1. Init => IInv /\ OInv
  BY InitIInv, InitOInv
<1>2. IInv /\ OInv /\ [Next]_vars => (IInv /\ OInv)'
  BY NextIInv, NextOInv
<1>3. OInv => StoredInOrder
  BY DEF OInv, Flowing, Rising, StoredInOrder
<1> QED
  BY <1>1, <1>2, <1>3, PTL DEF Spec

(***************************************************************************)
(* MessageDelivery implements DeliveryPromise.                             *)
(***************************************************************************)

Confirmed == {m \in Messages : state[m] = "RECEIVED"}

\* A step that changes neither what was composed, nor what is shown, nor what
\* the sender sees as received, is invisible in the promise.
LEMMA InvisibleStep ==
  ASSUME UNCHANGED <<state, inbox>>
  PROVE  UNCHANGED Promise!vars
BY DEF Promise!vars

\* procesMessageQueue() takes at most one message out of those that its caller
\* left as received.
LEMMA QueueStepConfirmed ==
  ASSUME NEW q \in Seq(Messages), NEW st \in [Messages -> States], NEW w \in BOOLEAN,
         ProcessMessageQueue(q, st, w)
  PROVE  \/ state' = st
         \/ \E h \in ToSet(q) :
              /\ h \in Messages
              /\ state' = [st EXCEPT ![h] = "SENT"]
<1>1. CASE Unsent(q, st, w)
  BY <1>1 DEF Unsent
<1>2. CASE SendFront(q, st)
  <2>1. q # <<>> /\ state' = [st EXCEPT ![Head(q)] = "SENT"]
    BY <1>2 DEF SendFront
  <2>2. Head(q) \in Messages /\ Head(q) \in ToSet(q)
    BY <2>1, ToSetHeadTail
  <2> QED
    BY <2>1, <2>2
<1> QED
  BY <1>1, <1>2 DEF ProcessMessageQueue

\* Sending queued messages, all of which exist, composes nothing and at most
\* withdraws one confirmation.
LEMMA SendingRefines ==
  ASSUME IInv,
         NEW q \in Seq(Messages), ToSet(q) \subseteq Composed, NEW w \in BOOLEAN,
         ProcessMessageQueue(q, state, w), inbox' = inbox
  PROVE  [Promise!Next]_(Promise!vars)
<1>1. state \in [Messages -> States]
  BY DEF IInv, TypeOK
<1>2. \/ state' = state
      \/ \E h \in ToSet(q) :
           /\ h \in Messages
           /\ state' = [state EXCEPT ![h] = "SENT"]
  BY <1>1, QueueStepConfirmed
<1>3. CASE state' = state
  BY <1>3, InvisibleStep
<1>4. ASSUME NEW h \in ToSet(q), h \in Messages,
             state' = [state EXCEPT ![h] = "SENT"]
      PROVE  [Promise!Next]_(Promise!vars)
  <2>1. h \in Composed
    OBVIOUS
  <2>2. /\ state'[h] = "SENT"
        /\ \A k \in Messages : k # h => state'[k] = state[k]
    BY <1>1, <1>4
  <2>3. Composed' = Composed
    BY <2>1, <2>2 DEF Composed, NoRow
  <2>4. Confirmed' = Confirmed \ {h}
    BY <2>2, <1>4 DEF Confirmed
  <2>5. CASE h \in Confirmed
    <3>1. Promise!Unconfirm(h)
      BY <2>3, <2>4, <2>5 DEF Promise!Unconfirm, Composed, Confirmed
    <3> QED
      BY <3>1, <1>4 DEF Promise!Next
  <2>6. CASE h \notin Confirmed
    BY <2>3, <2>4, <2>6 DEF Promise!vars, Composed, Confirmed
  <2> QED
    BY <2>5, <2>6
<1> QED
  BY <1>2, <1>3, <1>4

\* Conversation::sendMessage() is the composition of a message.
LEMMA SendMessageRefines ==
  ASSUME IInv, NEW m \in Messages, SendMessage(m)
  PROVE  [Promise!Next]_(Promise!vars)
<1> DEFINE rows == Append(unreceived, m)
           st == [state EXCEPT ![m] = "QUEUED"]
           q == Append(LoadedQueue(rows), m)
<1>1. /\ state[m] = NoRow
      /\ ProcessMessageQueue(q, st, drain)
      /\ inbox' = inbox
  BY DEF SendMessage
<1>2. /\ state \in [Messages -> States]
      /\ drain \in BOOLEAN
      /\ queue \in Seq(Messages)
      /\ loaded \in BOOLEAN
  BY DEF IInv, TypeOK
<1>3. rows \in Seq(Messages)
  BY <1>1, AddedRow
<1>4. /\ LoadedQueue(rows) \in Seq(Messages)
      /\ ToSet(LoadedQueue(rows)) \subseteq
           ToSet(queue) \cup ToSet(rows)
  BY <1>2, <1>3, LoadedQueueHolds
<1>4a. /\ q \in Seq(Messages)
       /\ \A k \in ToSet(q) : k = m \/ k \in Composed
  <2>1. ToSet(q) = ToSet(LoadedQueue(rows)) \cup {m}
    BY <1>4, ToSetAppend
  <2>2. ToSet(rows) = ToSet(unreceived) \cup {m}
    BY <1>1, AddedRow
  <2>3. ToSet(queue) \cup ToSet(unreceived) \subseteq Composed
    BY DEF IInv, OnlyComposed
  <2> QED
    BY <1>4, <2>1, <2>2, <2>3
<1>5. /\ st \in [Messages -> States]
      /\ st[m] = "QUEUED"
      /\ \A k \in Messages : k # m => st[k] = state[k]
  BY <1>2 DEF States
<1> HIDE DEF q, st
<1>6. \/ state' = st
      \/ \E h \in ToSet(q) :
           /\ h \in Messages
           /\ state' = [st EXCEPT ![h] = "SENT"]
  BY <1>1, <1>2, <1>4a, <1>5, QueueStepConfirmed
<1>7. m \notin Composed /\ m \notin Confirmed
  BY <1>1 DEF Composed, Confirmed, NoRow
<1>8. CASE state' = st
  <2>1. Composed' = Composed \cup {m} /\ Confirmed' = Confirmed
    BY <1>5, <1>7, <1>8 DEF Composed, Confirmed, NoRow
  <2>2. Promise!Compose(m)
    BY <1>1, <1>7, <2>1 DEF Promise!Compose, Composed, Confirmed
  <2> QED
    BY <2>2 DEF Promise!Next
<1>9. ASSUME NEW h \in Messages, h = m \/ h \in Composed,
             state' = [st EXCEPT ![h] = "SENT"]
      PROVE  [Promise!Next]_(Promise!vars)
  <2>1. /\ state'[h] = "SENT"
        /\ \A k \in Messages : k # h => state'[k] = st[k]
    BY <1>5, <1>9
  <2>2. CASE h \in Confirmed
    <3>0. h # m /\ h \in Composed
      BY <1>7, <2>2 DEF Composed, Confirmed, NoRow
    <3>1. Composed' = Composed \cup {m}
      BY <1>5, <2>1, <3>0 DEF Composed, NoRow
    <3>2. Confirmed' = Confirmed \ {h}
      BY <1>5, <1>7, <2>1 DEF Confirmed
    <3>3. Promise!ComposeAndUnconfirm(m, h)
      BY <1>1, <1>7, <2>2, <3>1, <3>2
        DEF Promise!ComposeAndUnconfirm, Composed, Confirmed
    <3> QED
      BY <3>3 DEF Promise!Next
  <2>3. CASE h \notin Confirmed
    <3>1. Composed' = Composed \cup {m}
      BY <1>5, <1>9, <2>1 DEF Composed, NoRow
    <3>2. Confirmed' = Confirmed
      BY <1>5, <1>7, <2>1, <2>3 DEF Confirmed
    <3>3. Promise!Compose(m)
      BY <1>1, <1>7, <3>1, <3>2 DEF Promise!Compose, Composed, Confirmed
    <3> QED
      BY <3>3 DEF Promise!Next
  <2> QED
    BY <2>2, <2>3
<1> QED
  BY <1>4a, <1>6, <1>8, <1>9

\* An ack confirms a message or is invisible.
LEMMA AckRefines == IInv /\ OnReceivedAck => [Promise!Next]_(Promise!vars)
<1> SUFFICES ASSUME IInv, OnReceivedAck
             PROVE  [Promise!Next]_(Promise!vars)
  OBVIOUS
<1>1. PICK m \in Messages : m = Head(acks).msg
  BY FirstAck DEF OnReceivedAck
<1>2. /\ m \in Composed
      /\ AckedState(Head(acks)) = "RECEIVED" => m \in ToSet(inbox)
      /\ inbox' = inbox
  BY <1>1, FirstAck DEF OnReceivedAck, AckedState
<1>3. state \in [Messages -> States]
  BY DEF IInv, TypeOK
<1>4. \/ state' = state
      \/ state' = [state EXCEPT ![m] = AckedState(Head(acks))]
  BY <1>1 DEF OnReceivedAck
<1>5. CASE state' = state
  BY <1>2, <1>5, InvisibleStep
<1>6. CASE state' = [state EXCEPT ![m] = AckedState(Head(acks))]
  <2>1. /\ state'[m] \in {"RECEIVED", "REJECTED"}
        /\ state'[m] = AckedState(Head(acks))
        /\ \A k \in Messages : k # m => state'[k] = state[k]
    BY <1>3, <1>6 DEF AckedState
  <2>2. Composed' = Composed
    BY <1>2, <2>1 DEF Composed, NoRow
  <2>3. CASE state'[m] = "RECEIVED"
    <3>1. Confirmed' = Confirmed \cup {m}
      BY <2>1, <2>3 DEF Confirmed
    <3>2. Promise!Confirm(m)
      BY <1>2, <2>1, <2>2, <2>3, <3>1
        DEF Promise!Confirm, Promise!Shown, ToSet, Composed, Confirmed
    <3> QED
      BY <3>2 DEF Promise!Next
  <2>4. CASE state'[m] = "REJECTED"
    <3>1. Confirmed' = Confirmed \ {m}
      BY <2>1, <2>4 DEF Confirmed
    <3>2. CASE m \in Confirmed
      <4>1. Promise!Unconfirm(m)
        BY <1>2, <2>2, <3>1, <3>2 DEF Promise!Unconfirm, Composed, Confirmed
      <4> QED
        BY <4>1 DEF Promise!Next
    <3>3. CASE m \notin Confirmed
      BY <1>2, <2>2, <3>1, <3>3 DEF Promise!vars, Composed, Confirmed
    <3> QED
      BY <3>2, <3>3
  <2> QED
    BY <2>1, <2>3, <2>4
<1> QED
  BY <1>4, <1>5, <1>6

\* A message composed just before a restart counts as composed.
LEMMA RestartComposingRefines ==
  ASSUME IInv, NEW m \in Messages, RestartComposing(m)
  PROVE  [Promise!Next]_(Promise!vars)
<1>1. /\ state[m] = NoRow
      /\ state' = [state EXCEPT ![m] = "COMPOSED"]
      /\ inbox' = inbox
  BY DEF RestartComposing, Restart
<1>2. /\ state'[m] = "COMPOSED"
      /\ \A k \in Messages : k # m => state'[k] = state[k]
  BY <1>1 DEF IInv, TypeOK
<1>3. Composed' = Composed \cup {m} /\ m \notin Composed
  BY <1>1, <1>2 DEF Composed, NoRow
<1>4. Confirmed' = Confirmed
  BY <1>1, <1>2 DEF Confirmed, NoRow
<1>5. Promise!Compose(m)
  BY <1>1, <1>3, <1>4 DEF Promise!Compose, Composed, Confirmed
<1> QED
  BY <1>5 DEF Promise!Next

\* Storing a message delivers it; storing it again is invisible.
LEMMA OnReceivedMessageRefines ==
  IInv /\ OnReceivedMessage => [Promise!Next]_(Promise!vars)
<1> SUFFICES ASSUME IInv, OnReceivedMessage
             PROVE  [Promise!Next]_(Promise!vars)
  OBVIOUS
<1>1. PICK m \in Messages : m = Head(wire) /\ m \in Composed
  BY FirstOnWire DEF OnReceivedMessage
<1>2. state' = state
  BY DEF OnReceivedMessage, senderVars
<1>3. inbox' = inbox \/ (m \notin ToSet(inbox) /\ inbox' = Append(inbox, m))
  BY <1>1 DEF OnReceivedMessage, StoredOnce
<1>4. CASE inbox' = inbox
  BY <1>2, <1>4, InvisibleStep
<1>5. CASE m \notin ToSet(inbox) /\ inbox' = Append(inbox, m)
  <2>1. Promise!Show(m)
    BY <1>1, <1>2, <1>5 DEF Promise!Show, Promise!Shown, ToSet, Composed
  <2> QED
    BY <1>1, <2>1 DEF Promise!Next
<1> QED
  BY <1>3, <1>4, <1>5

\* Every step of the detailed specification is one of the promise, or stutters.
LEMMA NextRefines == IInv /\ [Next]_vars => [Promise!Next]_(Promise!vars)
<1> SUFFICES ASSUME IInv, [Next]_vars
             PROVE  [Promise!Next]_(Promise!vars)
  OBVIOUS
<1>1. CASE \E m \in Messages : SendMessage(m)
  BY <1>1, SendMessageRefines
<1>2. CASE ProcessOnlineLater /\ senderOnline
  <2> DEFINE q == LoadedQueue(unreceived)
  <2>1. ProcessMessageQueue(q, state, TRUE) /\ inbox' = inbox
    BY <1>2 DEF ProcessOnlineLater
  <2>2. /\ queue \in Seq(Messages)
        /\ unreceived \in Seq(Messages)
        /\ loaded \in BOOLEAN
    BY DEF IInv, TypeOK
  <2>3. q \in Seq(Messages) /\ ToSet(q) \subseteq Composed
    BY <2>2, LoadedQueueHolds DEF IInv, OnlyComposed
  <2> HIDE DEF q
  <2> QED
    BY <2>1, <2>3, SendingRefines
<1>3. CASE OnOutputBufferEmptied
  BY <1>3, SendingRefines DEF OnOutputBufferEmptied, IInv, TypeOK, OnlyComposed
<1>4. CASE OnReceivedAck
  BY <1>4, AckRefines
<1>5. CASE \E m \in Messages : RestartComposing(m)
  BY <1>5, RestartComposingRefines
<1>6. CASE Evicted \/ RestartAtRest \/ RestartSending \/ RestartInAck
  <2>1. state' = state /\ inbox' = inbox
    BY <1>6 DEF Evicted, RestartAtRest, RestartSending, RestartInAck, Restart
  <2> QED
    BY <2>1, InvisibleStep
<1>7. CASE OnReceivedMessage
  BY <1>7, OnReceivedMessageRefines
<1>8. CASE RefuseMessage
  BY <1>8, InvisibleStep DEF RefuseMessage, senderVars
<1>9. CASE \/ StartRefusing \/ StopRefusing \/ Connect \/ LinkBreaks
           \/ SenderNotices \/ ReceiverNotices
           \/ ProcessOnlineLater /\ ~senderOnline
  BY <1>9, InvisibleStep DEF StartRefusing, StopRefusing, Connect, LinkBreaks,
       SenderNotices, ReceiverNotices, ProcessOnlineLater, senderVars
<1>10. CASE UNCHANGED vars
  <2>1. state' = state /\ inbox' = inbox
    BY <1>10 DEF vars, senderVars
  <2> QED
    BY <2>1, InvisibleStep
<1> QED
  BY <1>1, <1>2, <1>3, <1>4, <1>5, <1>6, <1>7, <1>8, <1>9, <1>10
    DEF Next, SenderStep, LossStep, ReceiverStep, LinkStep

\* The initial states are those of the promise.
LEMMA InitRefines == Init => Promise!Init
BY DEF Init, Promise!Init, NoRow

\* Whatever the link, the restarts and the refusals do, the two conversations
\* keep the promise: what is shown was composed, is shown once and stays, and
\* only what is shown is confirmed.
THEOREM KeepsPromise == Spec => PromiseSpec
<1>1. Init => Promise!Init
  BY InitRefines
<1>2. IInv /\ [Next]_vars => [Promise!Next]_(Promise!vars)
  BY NextRefines
<1> QED
  BY <1>1, <1>2, Invariance, PTL DEF Spec, PromiseSpec, Promise!Spec
=============================================================================
