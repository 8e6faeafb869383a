---------------------------- MODULE FileTransfer ----------------------------
(***************************************************************************)
(* Files sent by one contact to another: the rows of the `file` table at   *)
(* both ends, the file queues of the two Contact objects, and the channels *)
(* of the Peer objects that carry the chunks.                              *)
(*                                                                         *)
(* A handler is one step.  What a side keeps is one record; an operator    *)
(* that models a function of the code takes the record before the call and *)
(* gives the record after it, or the set of possible ones.                 *)
(*                                                                         *)
(* The link delivers a prefix of what was written, in order, and can break *)
(* at any time; each side notices on its own, or finds its connection      *)
(* replaced by a new one before it has noticed.  Both contacts accepted    *)
(* each other.  A file's content is the sequence of its chunks.            *)
(***************************************************************************)
EXTENDS Naturals, SequencesExt, FiniteSetsExt

CONSTANTS
  Files,         \* the files of the sender
  Chunks,        \* how many chunks a file has
  MaxFaults,     \* how often a user quits or disconnects, the link breaks, or a
                 \* disk refuses to open or to write a file (a bound)
  MaxRefusals    \* how often a user cancels or rejects (a bound)

ASSUME FilesAssumption == IsFiniteSet(Files)
ASSUME ChunksAssumption == Chunks \in Nat \ {0}
ASSUME MaxFaultsAssumption == MaxFaults \in Nat
ASSUME MaxRefusalsAssumption == MaxRefusals \in Nat

VARIABLES
  contact,       \* what each side keeps: see Contacts
  link,          \* whether the connection between the two still stands
  faults,        \* MaxFaults counts these; failing assertions, and connections
                 \* closed by their reader, are added
  refusals,      \* cancelled or rejected so far
  tainted        \* history: a side used its queues beyond their connection

vars == <<contact, link, faults, refusals, tainted>>

Sides == {"sender", "receiver"}
Other(s) == IF s = "sender" THEN "receiver" ELSE "sender"

\* File::State; "NONE" before the row exists.  CREATED is never seen: addFile()
\* moves on to HASHING.
FileStates ==
  {"NONE", "HASHING", "WAITING", "OFFERED", "QUEUED", "TRANSFERRING", "DONE",
   "FAILED", "REJECTED", "CANCELLED"}

AckStatus == {"Received", "Rejected", "Failed", "Abort", "Proceed", "Completed"}

\* What stands for a content that is not a prefix of the file.
Wrong == Chunks + 1

Packets ==
  [kind : {"Offer"}, file : Files]
    \cup [kind : {"Ack"}, file : Files, status : AckStatus, channel : Nat]
    \cup [kind : {"Chunk"}, file : Files, part : 1..Chunks, channel : Nat]

Offer(f) == [kind |-> "Offer", file |-> f]
Ack(f, status) == [kind |-> "Ack", file |-> f, status |-> status, channel |-> 0]
Proceed(f, ch) ==
  [kind |-> "Ack", file |-> f, status |-> "Proceed", channel |-> ch]
Chunk(f, n, ch) == [kind |-> "Chunk", file |-> f, part |-> n, channel |-> ch]

Contacts == [
  state : [Files -> FileStates],   \* the state column of each row
  queue : Seq(Files),              \* fileQueue_
  loaded : BOOLEAN,                \* loadedFileQueue_
  threw : SUBSET Files,            \* files to receive whose opening threw, since
                                   \* the queue was last cleared (history)
  bad : SUBSET Files,              \* files that cannot be opened now
  active : SUBSET Files,           \* transferringFileQueue_
  channel : [Files -> Nat],        \* File::channel_
  parts : [Files -> 0..Wrong],     \* chunks read, or stored, of the content
  hashing : SUBSET Files,          \* HashTasks whose result was not handled
  open : SUBSET (Nat \X Files),    \* outChannels_ or inChannels_ of the peer
  made : SUBSET (Nat \X Files),    \* channels ever made on this connection
  shut : SUBSET Nat,               \* inChannels_ that got their last chunk: the
                                   \* file is closed
  leaving : SUBSET Nat,            \* removeTransfer signals not yet handled
  next : Nat,                      \* nextInchannel_
  up : BOOLEAN,                    \* the program runs
  online : BOOLEAN,                \* Contact::isOnline()
  closing : BOOLEAN,               \* InState::CLOSING, and closeLater not handled
  greet : BOOLEAN,                 \* the timer of scheduleProcessOnlineLater()
  drain : BOOLEAN,                 \* something written, no outputBufferEmptied
  wire : Seq(Packets)]             \* written, and not handled by the other side

TypeOK ==
  /\ contact \in [Sides -> Contacts]
  /\ link \in BOOLEAN
  /\ faults \in Nat
  /\ refusals \in Nat
  /\ tainted \in BOOLEAN

NewContact == [
  state |-> [f \in Files |-> "NONE"], queue |-> <<>>, loaded |-> FALSE,
  threw |-> {}, bad |-> {},
  active |-> {}, channel |-> [f \in Files |-> 0],
  parts |-> [f \in Files |-> 0], hashing |-> {},
  open |-> {}, made |-> {}, shut |-> {}, leaving |-> {}, next |-> 1,
  up |-> TRUE, online |-> FALSE, closing |-> FALSE, greet |-> FALSE,
  drain |-> FALSE, wire |-> <<>>]

Init ==
  /\ contact = [s \in Sides |-> NewContact]
  /\ link = FALSE
  /\ faults = 0
  /\ refusals = 0
  /\ tainted = FALSE

(***************************************************************************)
(* What the functions of the code do to one side.                          *)
(***************************************************************************)

\* Peer::send(): lost when the link is already broken.
Sent(c, packet) ==
  [c EXCEPT !.drain = TRUE, !.wire = IF link THEN Append(@, packet) ELSE @]

\* Contact::sendAck().
Acked(c, f, status) == IF c.online THEN Sent(c, Ack(f, status)) ELSE c

\* File::setState() and what listens to stateChanged: Contact::queueTransfer()
\* and Peer::createChannel() connected slots that end the transfer.
SetState(c, f, st) ==
  IF c.state[f] = st THEN c
  ELSE IF st = "TRANSFERRING" THEN [c EXCEPT !.state[f] = st]
  ELSE [c EXCEPT !.state[f] = st,
                 !.active = @ \ {f},
                 !.leaving = @ \cup {e[1] : e \in {e \in c.made : e[2] = f}}]

\* Mutant: the other side is not told.
TransferFailedSilently(c, f) == SetState(c, f, "CANCELLED")

\* File::transferFailed() with its default, FS_CANCELLED.
TransferFailed(c, f) ==
  IF c.state[f] = "CANCELLED" THEN c
  ELSE Acked(SetState(c, f, "CANCELLED"), f, "Abort")

\* Mutant: what was queued is not loaded back.
RecoveredAsIs(s, st) == st

\* Database::prepareData() when the program starts.  The statement for outgoing
\* files names QUEUED as well, but binds it to TRANSFERRING.
RecoveredState(s, st) ==
  CASE s = "sender" /\ st \in {"TRANSFERRING", "OFFERED"} -> "WAITING"
    [] s = "receiver" /\ st = "TRANSFERRING" -> "QUEUED"
    [] OTHER -> st

\* The program has ended: only the rows and the contents are left, and what was
\* written may still arrive.
Ended(s, c) ==
  [NewContact EXCEPT !.state = [f \in Files |-> RecoveredState(s, c.state[f])],
                     !.parts = c.parts,
                     !.wire = c.wire,
                     !.bad = c.bad,
                     !.up = FALSE]

\* Mutant: the end of the file is noticed one chunk late.
OnOutgoingLate(c, f) ==
  LET n == c.parts[f] + 1
      sent == Sent([c EXCEPT !.parts[f] = n], Chunk(f, n, c.channel[f]))
  IN IF n <= Chunks THEN sent ELSE SetState(sent, f, "DONE")

\* OutgoingFileChannel::onOutgoing(): send the next chunk, and be done after the
\* last one; File::transferComplete() asserts the state.
OnOutgoing(c, f) ==
  LET n == IF c.parts[f] < Chunks THEN c.parts[f] + 1 ELSE Chunks
      sent == Sent([c EXCEPT !.parts[f] = n], Chunk(f, n, c.channel[f]))
  IN IF n < Chunks THEN sent
     ELSE IF c.state[f] = "TRANSFERRING" THEN SetState(sent, f, "DONE")
     ELSE Ended("sender", sent)

\* Mutant: the file is not opened with Truncate.
WithChannelAppending(c, ch, f) ==
  [c EXCEPT !.open = @ \cup {<<ch, f>>}, !.made = @ \cup {<<ch, f>>}]

\* Peer::createChannel().
WithChannel(c, ch, f) ==
  [c EXCEPT !.open = @ \cup {<<ch, f>>},
            !.made = @ \cup {<<ch, f>>},
            !.parts[f] = 0]

\* Mutant: the first chunk is left to the next outputBufferEmptied.
StartSendLater(c, f) ==
  IF c.channel[f] = 0 \/ \E e \in c.open : e[1] = c.channel[f]
  THEN Ended("sender", c)
  ELSE IF f \in c.bad THEN c
  ELSE SetState(WithChannel(c, c.channel[f], f), f, "TRANSFERRING")

\* Peer::startSend().  createChannel() asserts that the number is free.
StartSend(c, f) ==
  IF c.channel[f] = 0 \/ \E e \in c.open : e[1] = c.channel[f]
  THEN Ended("sender", c)
  ELSE IF f \in c.bad THEN c
  ELSE OnOutgoing(SetState(WithChannel(c, c.channel[f], f), f, "TRANSFERRING"), f)

\* Peer::startReceive(): open the file, ask for it, and wait for its chunks.
StartReceive(c, f) ==
  LET asked == Sent(WithChannel(c, c.next, f), Proceed(f, c.next))
  IN IF f \in c.bad THEN [c EXCEPT !.threw = @ \cup {f}]
     ELSE [SetState(asked, f, "TRANSFERRING") EXCEPT !.channel[f] = c.next,
                                                     !.next = @ + 1]

\* Contact::queueTransfer().
QueueTransfer(s, c, f) ==
  LET slot == [c EXCEPT !.active = @ \cup {f}]
  IN IF f \in c.active THEN c
     ELSE IF s = "sender" THEN StartSend(slot, f)
     ELSE StartReceive(slot, f)

\* The states of a file that belongs in fileQueue_.
QueueStates(s) == IF s = "sender" THEN {"WAITING", "QUEUED"} ELSE {"QUEUED"}

\* fileQueue_ from its first file that belongs in it.
Belonging(s, c) ==
  LET is == {i \in DOMAIN c.queue : c.state[c.queue[i]] \in QueueStates(s)}
  IN IF is = {} THEN <<>> ELSE SubSeq(c.queue, Min(is), Len(c.queue))

\* Whether starting the transfer of f throws, with its slot taken already.
Throws(c, f) == c.state[f] = "QUEUED" /\ f \in c.bad \ c.active

\* Whether Contact::processFilesQueue() returns true.
ProcessesFile(s, c) ==
  LET q == Belonging(s, c)
  IN c.online /\ q # <<>> /\ ~Throws(c, Head(q))

\* Contact::processFilesQueue(): offer the first file, or start its transfer.  A
\* file whose transfer throws stays at the front, and leaves it the next time:
\* its slot is taken, so that nothing is started.
ProcessFilesQueue(s, c) ==
  LET q == Belonging(s, c)
      f == Head(q)
      rest == [c EXCEPT !.queue = Tail(q)]
  IN IF ~c.online THEN c
     ELSE IF q = <<>> THEN [c EXCEPT !.queue = <<>>]
     ELSE IF Throws(c, f) THEN QueueTransfer(s, [c EXCEPT !.queue = q], f)
     ELSE IF c.state[f] = "WAITING"
     THEN SetState(Sent(rest, Offer(f)), f, "OFFERED")
     ELSE QueueTransfer(s, rest, f)

\* Peer::sendSome().  When the file has no channel, its slot is erased from the
\* set that processFileBlocks() iterates over: undefined behaviour, after which
\* the loop ends or the program does.
SendSome(c, f) ==
  LET on == {e \in c.open : e[1] = c.channel[f]}
  IN IF on = {} THEN {TransferFailed(c, f), Ended("sender", TransferFailed(c, f))}
     ELSE {OnOutgoing(c, e[2]) : e \in on}

\* Contact::processFileBlocks(): send a chunk of one file.  The set is ordered by
\* the addresses of the files; those not transferring are dropped when met.
ProcessFileBlocks(s, c) ==
  LET idle == {f \in c.active : c.state[f] # "TRANSFERRING"}
      busy == c.active \ idle
  IN IF ~c.online THEN {c}
     ELSE IF s = "receiver" \/ busy = {} THEN {[c EXCEPT !.active = busy]}
     ELSE UNION {SendSome([c EXCEPT !.active = @ \ met], f) :
                   met \in SUBSET idle, f \in busy}

\* Contact::onOutputBufferEmptied(), as far as files go.
OutputBufferEmptied(s, c) ==
  IF ProcessesFile(s, c) THEN {ProcessFilesQueue(s, c)}
  ELSE ProcessFileBlocks(s, ProcessFilesQueue(s, c))

\* The rows Contact::loadFileQueue() selects.
Loadable(s, c) ==
  LET st == IF s = "sender" THEN "WAITING" ELSE "QUEUED"
  IN {f \in Files : c.state[f] = st}

\* The rows in some order: the SELECT has none.
Rows(S) == {q \in [1..Cardinality(S) -> S] : ToSet(q) = S}

\* Contact::loadFileQueue().
LoadFileQueue(s, c) ==
  IF c.loaded THEN {c}
  ELSE {[c EXCEPT !.queue = @ \o q, !.loaded = TRUE] : q \in Rows(Loadable(s, c))}

\* Contact::queueFile().
QueueFile(s, c, f) ==
  {ProcessFilesQueue(s, [d EXCEPT !.queue = Append(@, f)]) :
     d \in LoadFileQueue(s, c)}

\* Mutant: the queue counts as loaded although it was cleared.
ClearedButLoaded(c) ==
  [c EXCEPT !.queue = <<>>, !.active = {}, !.threw = {},
            !.state = [f \in Files |-> IF f \in c.active /\ @[f] = "TRANSFERRING"
                                       THEN "FAILED" ELSE @[f]]]

\* Contact::clearFileQueues(), when the contact is not online any more: the
\* transfers fail, and nobody can be told.
Cleared(c) ==
  [c EXCEPT !.queue = <<>>, !.active = {}, !.loaded = FALSE, !.threw = {},
            !.state = [f \in Files |-> IF f \in c.active /\ @[f] = "TRANSFERRING"
                                       THEN "FAILED" ELSE @[f]]]

\* The channels die with the connection.
WithoutPeer(c) ==
  [c EXCEPT !.online = FALSE, !.closing = FALSE, !.drain = FALSE, !.open = {},
            !.made = {}, !.shut = {}, !.leaving = {}, !.next = 1]

(***************************************************************************)
(* Handlers.  A side takes the outcome c of a handler; a program that has  *)
(* ended closes its socket.                                                *)
(***************************************************************************)

Becomes(s, c) ==
  /\ contact' = [contact EXCEPT ![s] = c]
  /\ link' = (link /\ c.up)
  /\ faults' = IF contact[s].up /\ ~c.up THEN faults + 1 ELSE faults

\* The same, having read the first packet from the other side.
ReadsAndBecomes(s, c) ==
  /\ contact' = [contact EXCEPT ![s] = c, ![Other(s)].wire = Tail(@)]
  /\ link' = (link /\ c.up)
  /\ faults' = IF c.closing \/ ~c.up THEN faults + 1 ELSE faults

\* A packet is there to be read.
Reads(s, kind) ==
  /\ contact[s].online
  /\ ~contact[s].closing
  /\ contact[Other(s)].wire # <<>>
  /\ Head(contact[Other(s)].wire).kind = kind

Packet(s) == Head(contact[Other(s)].wire)

\* Nothing but reading what has arrived comes before the slots of removeTransfer:
\* the event loop handles what is posted before it polls again.
Idle(s) == contact[s].up /\ contact[s].leaving = {}

\* FileManager::addFile(), hashIt() and File::asynchCalculateHash(): the user
\* sends a file.
AddFile(f) ==
  LET c == contact["sender"]
  IN /\ Idle("sender")
     /\ c.state[f] = "NONE"
     /\ Becomes("sender", [SetState(c, f, "HASHING") EXCEPT !.hashing = @ \cup {f}])

\* The result of the HashTask of a file to be sent.
FileHashed(f) ==
  LET c == contact["sender"]
      heard == [c EXCEPT !.hashing = @ \ {f}]
  IN /\ Idle("sender")
     /\ f \in c.hashing
     /\ \/ Becomes("sender", SetState(heard, f, "FAILED"))
        \/ /\ c.state[f] = "HASHING"
           /\ \E d \in QueueFile("sender", SetState(heard, f, "WAITING"), f) :
                Becomes("sender", d)
        \/ c.state[f] # "HASHING" /\ Becomes("sender", heard)

\* The result of the HashTask of a received file, and what transferComplete()
\* finds on the disk.  The hash is that of no data at both ends: it is equal.
ReceivedFileHashed(f) ==
  LET c == contact["receiver"]
      heard == [c EXCEPT !.hashing = @ \ {f}]
  IN /\ Idle("receiver")
     /\ f \in c.hashing
     /\ \/ /\ c.state[f] = "HASHING"
           /\ \/ Becomes("receiver", SetState(heard, f, "DONE"))
              \/ Becomes("receiver", TransferFailed(heard, f))
        \/ c.state[f] # "HASHING" /\ Becomes("receiver", heard)

Refusal ==
  /\ refusals < MaxRefusals
  /\ refusals' = refusals + 1

\* File::cancel(), in the states where the menus of FileComponent.qml offer it.
Cancel(s, f) ==
  LET c == contact[s]
  IN /\ Idle(s)
     /\ Refusal
     /\ \/ /\ c.state[f] = "TRANSFERRING"
           /\ Becomes(s, TransferFailed(c, f))
        \/ /\ s = "sender"
           /\ c.state[f] \in {"WAITING", "OFFERED"}
           /\ Becomes(s, Acked(SetState(c, f, "CANCELLED"), f, "Abort"))

\* File::accept() and queueForTransfer().
Accept(f) ==
  LET c == contact["receiver"]
  IN /\ Idle("receiver")
     /\ c.state[f] = "OFFERED"
     /\ \E d \in QueueFile("receiver", SetState(c, f, "QUEUED"), f) :
          Becomes("receiver", d)

\* File::reject().  The menu offers it in every other state; a second rejection
\* only repeats the ack and is left out.
Reject(f) ==
  LET c == contact["receiver"]
  IN /\ Idle("receiver")
     /\ Refusal
     /\ c.state[f] \notin {"NONE", "TRANSFERRING", "REJECTED"}
     /\ Becomes("receiver", Acked(SetState(c, f, "REJECTED"), f, "Rejected"))

\* Contact::onReceivedFileOffer() and FileManager::receivedFileOffer(), of a name
\* the receiver can use.
ReceivedFileOffer ==
  LET s == "receiver"
      c == contact[s]
      f == Packet(s).file
      Answered(status) == ReadsAndBecomes(s, Sent(c, Ack(f, status)))
  IN /\ Reads(s, "Offer")
     /\ \/ c.state[f] = "REJECTED" /\ Answered("Rejected")
        \/ c.state[f] = "DONE" /\ Answered("Completed")
        \/ /\ c.state[f] = "QUEUED"
           /\ \E d \in QueueFile(s, c, f) : ReadsAndBecomes(s, d)
        \/ /\ c.state[f] \notin {"REJECTED", "DONE", "QUEUED"}
           /\ ReadsAndBecomes(s, SetState(Sent(c, Ack(f, "Received")), f, "OFFERED"))

\* Contact::onReceivedAck() for a file that is unknown (getFileFromId() returns
\* no file, which is dereferenced) or cancelled.
AckForNoFile(s) ==
  LET c == contact[s]
      ack == Packet(s)
  IN /\ Reads(s, "Ack")
     /\ \/ /\ c.state[ack.file] = "NONE"
           /\ ReadsAndBecomes(s, Ended(s, c))
        \/ /\ c.state[ack.file] = "CANCELLED"
           /\ ReadsAndBecomes(s, IF ack.status = "Proceed"
                                 THEN Acked(c, ack.file, "Abort") ELSE c)

\* Mutant: the state of the file is not tested.
AckForAnyFile(s) ==
  Reads(s, "Ack") /\ contact[s].state[Packet(s).file] # "NONE"

\* An ack for a file that is neither.
AckForFile(s) ==
  Reads(s, "Ack") /\ contact[s].state[Packet(s).file] \notin {"NONE", "CANCELLED"}

\* Contact::onReceivedAck(): what the other side says of the file.
ReceivedAck(s) ==
  LET c == contact[s]
      f == Packet(s).file
      status == Packet(s).status
      TransferringEnds(st) ==
        ReadsAndBecomes(s, IF c.state[f] = "TRANSFERRING" THEN TransferFailed(c, f)
                           ELSE SetState(c, f, st))
  IN /\ AckForFile(s)
     /\ \/ status = "Received" /\ ReadsAndBecomes(s, SetState(c, f, "OFFERED"))
        \/ status = "Rejected" /\ ReadsAndBecomes(s, SetState(c, f, "REJECTED"))
        \/ status = "Failed" /\ TransferringEnds("FAILED")
        \/ status = "Abort" /\ TransferringEnds("CANCELLED")
        \/ status = "Completed" /\ ReadsAndBecomes(s, c)

\* Contact::onReceivedAck(): the receiver asks for the file on a channel.
ReceivedProceed ==
  LET s == "sender"
      c == contact[s]
      f == Packet(s).file
      asked == [c EXCEPT !.channel[f] = Packet(s).channel]
  IN /\ AckForFile(s)
     /\ Packet(s).status = "Proceed"
     /\ \/ /\ c.state[f] # "OFFERED"
           /\ ReadsAndBecomes(s, Acked(SetState(c, f, "FAILED"), f, "Failed"))
        \/ /\ c.state[f] = "OFFERED"
           /\ \E d \in QueueFile(s, SetState(asked, f, "QUEUED"), f) :
                ReadsAndBecomes(s, d)

\* What a file holds when a chunk is added to it.
PartsWith(c, g, chunk) ==
  IF chunk.file = g /\ chunk.part = c.parts[g] + 1 THEN chunk.part ELSE Wrong

\* Peer::onReceivedData(), IncomingFileChannel::onIncoming() and, after the last
\* chunk, File::validateHash(), which asserts the state.  A file closed by its
\* last chunk cannot be written any more: that throws, and the handler closes the
\* connection.
ReceivedChunk ==
  LET s == "receiver"
      c == contact[s]
      chunk == Packet(s)
      on == {e \in c.open : e[1] = chunk.channel}
  IN /\ Reads(s, "Chunk")
     /\ \/ /\ on = {}
           /\ ReadsAndBecomes(s, [c EXCEPT !.closing = chunk.channel \in c.shut])
        \/ \E e \in on :
             LET g == e[2]
                 stored == [c EXCEPT !.parts[g] = PartsWith(c, g, chunk)]
             IN \/ /\ chunk.part # Chunks
                   /\ ReadsAndBecomes(s, stored)
                \/ /\ chunk.part = Chunks
                   /\ c.state[g] # "TRANSFERRING"
                   /\ ReadsAndBecomes(s, Ended(s, stored))
                \/ /\ chunk.part = Chunks
                   /\ c.state[g] = "TRANSFERRING"
                   /\ ReadsAndBecomes(s,
                        [SetState(stored, g, "HASHING") EXCEPT
                           !.open = @ \ {e}, !.shut = @ \cup {e[1]},
                           !.hashing = @ \cup {g}])

\* Contact::processOnlineLater(): sends the user's name first.
ProcessOnlineLater(s) ==
  LET c == [contact[s] EXCEPT !.greet = FALSE]
  IN /\ Idle(s)
     /\ contact[s].greet
     /\ \/ ~c.online /\ Becomes(s, c)
        \/ /\ c.online
           /\ \E d \in LoadFileQueue(s, [c EXCEPT !.drain = TRUE]) :
                \E e \in OutputBufferEmptied(s, d) : Becomes(s, e)

\* The socket has taken everything written so far.  Messages and other acks do
\* that as well.
OnOutputBufferEmptied(s) ==
  /\ Idle(s)
  /\ contact[s].online
  /\ \E d \in OutputBufferEmptied(s, [contact[s] EXCEPT !.drain = FALSE]) :
       Becomes(s, d)

\* The slot of Peer::removeTransfer.
RemoveTransfer(s, ch) ==
  /\ ch \in contact[s].leaving
  /\ Becomes(s, [contact[s] EXCEPT !.leaving = @ \ {ch},
                                   !.open = {e \in @ : e[1] # ch},
                                   !.shut = @ \ {ch}])

(***************************************************************************)
(* The link, and the ends of the programs.                                 *)
(***************************************************************************)

Fault ==
  /\ faults < MaxFaults
  /\ faults' = faults + 1

\* IncomingFileChannel::onIncoming() cannot write all of a chunk: it throws before
\* validateHash(), and Peer::processStream() closes the connection: nothing more
\* is read from it.
WriteFails ==
  LET s == "receiver"
  IN /\ Reads(s, "Chunk")
     /\ Fault
     /\ \E e \in contact[s].open :
          /\ e[1] = Packet(s).channel
          /\ contact' = [contact EXCEPT ![s].closing = TRUE,
                                       ![s].parts[e[2]] = Wrong]
     /\ UNCHANGED <<link, refusals, tainted>>

\* From now on, a file cannot be opened: it was moved, or may not be written.
DiskFails(s, f) ==
  /\ f \notin contact[s].bad
  /\ Fault
  /\ contact' = [contact EXCEPT ![s].bad = @ \cup {f}]
  /\ UNCHANGED <<link, refusals, tainted>>

DiskRecovers(s, f) ==
  /\ f \in contact[s].bad
  /\ contact' = [contact EXCEPT ![s].bad = @ \ {f}]
  /\ UNCHANGED <<link, faults, refusals, tainted>>

\* The queues of s still hold transfers, which belong to an earlier connection.
Inherits(s) ==
  LET c == contact[s]
  IN \/ c.active # {}
     \/ s = "sender" /\ \E f \in ToSet(c.queue) : c.state[f] = "QUEUED"

\* A new connection, which replaces one that a side still holds.
Connect ==
  /\ ~link
  /\ \A s \in Sides : contact[s].up
  /\ link' = TRUE
  /\ contact' = [s \in Sides |->
                   [WithoutPeer(contact[s]) EXCEPT !.online = TRUE,
                                                   !.greet = TRUE,
                                                   !.wire = <<>>]]
  /\ tainted' = (tainted \/ \E s \in Sides : Inherits(s))
  /\ UNCHANGED <<faults, refusals>>

LinkBreaks ==
  /\ link
  /\ Fault
  /\ link' = FALSE
  /\ UNCHANGED <<contact, refusals, tainted>>

\* Contact::onDisconnectedFromPeer().
OnDisconnectedFromPeer(s) ==
  /\ ~link
  /\ contact[s].online
  /\ contact' = [contact EXCEPT ![s] = Cleared(WithoutPeer(@))]
  /\ UNCHANGED <<link, faults, refusals, tainted>>

\* Peer::onCloseLater() closes the socket, and reports that itself.
OnCloseLater(s) ==
  /\ contact[s].closing
  /\ link' = FALSE
  /\ contact' = [contact EXCEPT ![s] = Cleared(WithoutPeer(@))]
  /\ UNCHANGED <<faults, refusals, tainted>>

\* Contact::~Contact(), when it leaves the cache: only the connections keep one.
Evicted(s) ==
  /\ contact[s].up
  /\ ~contact[s].online
  /\ contact' = [contact EXCEPT ![s] = [Cleared(@) EXCEPT !.greet = FALSE]]
  /\ UNCHANGED <<link, faults, refusals, tainted>>

\* Contact::disconnectFromContact(): the file queues are not cleared.
DisconnectFromContact(s) ==
  /\ contact[s].online
  /\ Fault
  /\ link' = FALSE
  /\ contact' = [contact EXCEPT ![s] = WithoutPeer(@)]
  /\ UNCHANGED <<refusals, tainted>>

\* A program ends, at rest.
Quit(s) ==
  /\ contact[s].up
  /\ Fault
  /\ link' = FALSE
  /\ contact' = [contact EXCEPT ![s] = Ended(s, @)]
  /\ UNCHANGED <<refusals, tainted>>

\* A program ends between what it wrote and the setState() that follows.
QuitSending(s) ==
  /\ contact[s].online
  /\ Fault
  /\ link' = FALSE
  /\ \E d \in OutputBufferEmptied(s, contact[s]) :
       contact' = [contact EXCEPT ![s] = [Ended(s, @) EXCEPT !.wire = d.wire]]
  /\ UNCHANGED <<refusals, tainted>>

Start(s) ==
  /\ ~contact[s].up
  /\ contact' = [contact EXCEPT ![s].up = TRUE]
  /\ UNCHANGED <<link, faults, refusals, tainted>>

(***************************************************************************)
(* The specification.                                                      *)
(***************************************************************************)

UserStep ==
  /\ \E f \in Files :
       \/ (AddFile(f) \/ Accept(f)) /\ UNCHANGED refusals
       \/ Reject(f)
       \/ \E s \in Sides : Cancel(s, f)
  /\ UNCHANGED tainted

ReadStep(s) ==
  /\ \/ s = "receiver" /\ (ReceivedFileOffer \/ ReceivedChunk)
     \/ AckForNoFile(s)
     \/ ReceivedAck(s)
     \/ s = "sender" /\ ReceivedProceed
  /\ UNCHANGED <<refusals, tainted>>

TaskStep(s) ==
  /\ \/ \E f \in Files :
          IF s = "sender" THEN FileHashed(f) ELSE ReceivedFileHashed(f)
     \/ \E ch \in contact[s].leaving : RemoveTransfer(s, ch)
  /\ UNCHANGED <<refusals, tainted>>

BufferStep(s) ==
  /\ ProcessOnlineLater(s) \/ OnOutputBufferEmptied(s)
  /\ UNCHANGED <<refusals, tainted>>

DiskStep ==
  \/ WriteFails
  \/ \E s \in Sides, f \in Files : DiskFails(s, f) \/ DiskRecovers(s, f)

LinkStep ==
  \/ Connect
  \/ LinkBreaks
  \/ \E s \in Sides : \/ OnDisconnectedFromPeer(s)
                      \/ OnCloseLater(s)
                      \/ Evicted(s)
                      \/ DisconnectFromContact(s)
                      \/ Quit(s)
                      \/ QuitSending(s)
                      \/ Start(s)

Next ==
  \/ UserStep
  \/ \E s \in Sides : \/ ReadStep(s)
                      \/ TaskStep(s)
                      \/ BufferStep(s)
  \/ DiskStep
  \/ LinkStep

Spec == Init /\ [][Next]_vars

\* Something was written since the buffer was last empty.
BufferEmpties(s) ==
  contact[s].drain /\ OnOutputBufferEmptied(s) /\ UNCHANGED <<refusals, tainted>>

\* The event loop runs timers and posted events, reads what arrives, and reports
\* that the buffer is empty after something was written; the thread pool hashes.
\* Contacts that are reachable connect.  No user acts, and nothing breaks.
Fairness ==
  /\ WF_vars(Connect)
  /\ \A s \in Sides :
       /\ WF_vars(ReadStep(s))
       /\ WF_vars(TaskStep(s))
       /\ WF_vars(ProcessOnlineLater(s) /\ UNCHANGED <<refusals, tainted>>)
       /\ WF_vars(BufferEmpties(s))
       /\ WF_vars(OnDisconnectedFromPeer(s))
       /\ WF_vars(OnCloseLater(s))

FairSpec == Spec /\ Fairness

(***************************************************************************)
(* What is checked.                                                        *)
(***************************************************************************)

\* Once the queue is loaded, a file that waits to be offered, or to be received,
\* is in the queue: no path through breaks, refusals and errors forgets it, but
\* one.  Opening a file to receive threw: it stays QUEUED with its slot taken, so
\* that the queue drops it unstarted, and it waits for the queue to be cleared.
LoadableIsQueued ==
  \A s \in Sides :
    LET c == contact[s]
    IN c.loaded => Loadable(s, c) \subseteq ToSet(c.queue) \cup c.threw

\* A file being transferred has a slot, so that a disconnect it is told of makes
\* it fail.
TransferringIsActive ==
  \A s \in Sides, f \in Files :
    contact[s].state[f] = "TRANSFERRING" => f \in contact[s].active

\* A file shown as received holds what was sent, whatever was cut off, written
\* only in part, offered again and transferred anew.  The histories excluded are
\* those in which a connection found transfers of an earlier one in a queue of
\* its contact: they use channels of the new connection by numbers of the old.
DoneIsWhole ==
  ~tainted => \A f \in Files : contact["receiver"].state[f] = "DONE" =>
                                   contact["receiver"].parts[f] = Chunks

\* A file that its sender cancelled stays cancelled, whatever acks, hashes and
\* restarts come later: it is neither offered nor sent again.
CancelledStays ==
  [][\A f \in Files : contact["sender"].state[f] = "CANCELLED" =>
                       contact'["sender"].state[f] = "CANCELLED"]_vars

Quiet ==
  \A s \in Sides :
    contact[s].up /\ contact[s].wire = <<>> /\ contact[s].hashing = {}

\* On a first connection that does not break, however offers, acceptance,
\* rejection and cancelling at both ends crossed each other: when nothing is on
\* its way, the two ends agree on what became of each file.
AgreeWhenQuiet ==
  faults = 0 /\ Quiet =>
    \A f \in Files :
      LET p == contact["sender"].state[f]
          q == contact["receiver"].state[f]
      IN /\ p = "DONE" <=> q = "DONE"
         /\ p = "OFFERED" <=> q \in {"OFFERED", "QUEUED"}
         /\ p \in {"QUEUED", "TRANSFERRING"} <=> q = "TRANSFERRING"
         /\ p \in {"NONE", "WAITING"} => q = "NONE"

\* A file waits for the program, the link or the other program: not for a user.
Unsettled ==
  \E f \in Files :
    \/ contact["sender"].state[f]
         \in {"HASHING", "WAITING", "QUEUED", "TRANSFERRING"}
    \/ contact["receiver"].state[f] \in {"QUEUED", "TRANSFERRING", "HASHING"}

\* On a first connection that does not break, every file that was sent, accepted,
\* cancelled or rejected settles: none waits, or is transferred, for ever.
TransfersEnd == Unsettled ~> (~Unsettled \/ faults > 0)
=============================================================================
