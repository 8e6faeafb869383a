------------------------------ MODULE PeerStream ------------------------------
(***************************************************************************)
(* One direction of the encrypted stream between two peers, from           *)
(* Peer::send() over the buffers of the two sockets to the handler of what *)
(* arrived.  A chunk travels as two messages of the cipher: its length,    *)
(* written to a field of 16 bits, and the chunk itself.                    *)
(*                                                                         *)
(* What a buffer holds is a sequence of pieces <<chunk, part>>.  The pieces*)
(* that go into the socket in one go, and arrive in one go, are arbitrary. *)
(* A message of the cipher decrypts when exactly its pieces are decrypted, *)
(* in the order they were encrypted.                                       *)
(***************************************************************************)
EXTENDS Naturals, Sequences

CONSTANTS
  MaxSent,      \* how many chunks are sent (a bound)
  LengthValues, \* the values the length field can tell apart: 65536
  Lengths       \* lengths of chunks, in units of the field

ASSUME BoundsAssumption == MaxSent \in Nat \ {0}
ASSUME LengthsAssumption == LengthValues \in Nat \ {0} /\ Lengths \subseteq Nat \ {0}

\* A request, something on the control channel that is not Json, or data on a
\* channel the receiver does not know.
Kinds == {"request", "junk", "unknown"}

Chunks == [length : Lengths, kind : Kinds]

VARIABLES
  sent,       \* the chunks given to send()
  out,        \* outData of the sender's socket
  written,    \* the socket owes its owner a bytesWritten
  emptied,    \* a queued outputBufferEmptied the contact has not handled
  net,        \* between the two sockets
  inData,     \* inData of the receiver's socket
  bytesWanted,
  inState,    \* Peer::inState_ of the receiver, or FAILED
  muted,      \* Peer::notificationsDisabled_
  closeLater, \* the receiver's queued CloseLater
  taken,      \* the chunks the receiver has decrypted, by their number
  isOpen,     \* isOpen[end]: the two sockets
  caller      \* the end that called

senderVars == <<sent, out, written, emptied>>
receiverVars == <<inData, bytesWanted, inState, muted, closeLater, taken>>
vars == <<senderVars, net, receiverVars, isOpen, caller>>

Ends == {"sender", "receiver"}
InStates == {"CHUNK_SIZE", "CHUNK_DATA", "CLOSING", "FAILED", "ended"}
Pieces == (1..MaxSent) \X Nat

TypeOK ==
  /\ sent \in Seq(Chunks) /\ Len(sent) <= MaxSent
  /\ out \in Seq(Pieces) /\ net \in Seq(Pieces) /\ inData \in Seq(Pieces)
  /\ written \in BOOLEAN /\ emptied \in BOOLEAN
  /\ bytesWanted \in Nat
  /\ inState \in InStates
  /\ muted \in BOOLEAN /\ closeLater \in BOOLEAN
  /\ taken \in Seq(1..MaxSent)
  /\ isOpen \in [Ends -> BOOLEAN]
  /\ caller \in Ends

Init ==
  /\ sent = <<>> /\ out = <<>> /\ net = <<>> /\ inData = <<>>
  /\ written = FALSE /\ emptied = FALSE
  /\ bytesWanted = 1 /\ inState = "CHUNK_SIZE"
  /\ muted = FALSE /\ closeLater = FALSE
  /\ taken = <<>>
  /\ isOpen = [e \in Ends |-> TRUE]
  /\ caller \in Ends

\* The messages of the cipher: the encrypted length of chunk i is one piece, the
\* chunk itself one more than its length.
LengthPieces(i) == <<<<i, 0>>>>
DataPieces(i, length) == [part \in 1..length + 1 |-> <<i, part>>]

Prefix(s, n) == SubSeq(s, 1, n)
Rest(s, n) == SubSeq(s, n + 1, Len(s))

(***************************************************************************)
(* The sender.                                                             *)
(***************************************************************************)

\* ConnectionSocket::sendMore(): the socket accepts some of it.
SendMore(pending) ==
  \E n \in 1..Len(pending) :
    /\ net' = net \o Prefix(pending, n)
    /\ out' = Rest(pending, n)

\* Peer::send(), which throws when the socket is closed.
Send(chunk) ==
  /\ isOpen["sender"]
  /\ Len(sent) < MaxSent
  /\ sent' = Append(sent, chunk)
  /\ LET i == Len(sent) + 1
     IN SendMore(out \o LengthPieces(i) \o DataPieces(i, chunk.length))
  /\ written' = TRUE
  /\ UNCHANGED <<emptied, receiverVars, isOpen, caller>>

\* Mutant: the contact is told of nothing that was accepted at once.
OnlyMore ==
  IF out = <<>>
  THEN written' = FALSE /\ UNCHANGED <<out, net, emptied>>
  ELSE SendMore(out) /\ UNCHANGED <<emptied, written>>

\* The rest is written, or there is none and the contact is told.
OnBytesWritten ==
  IF out = <<>>
  THEN emptied' = TRUE /\ written' = FALSE /\ UNCHANGED <<out, net>>
  ELSE SendMore(out) /\ UNCHANGED <<emptied, written>>

\* ConnectionSocket: the slot of bytesWritten.
BytesWritten ==
  /\ isOpen["sender"] /\ written
  /\ OnBytesWritten
  /\ UNCHANGED <<sent, receiverVars, isOpen, caller>>

\* The contact learns that everything has been written, and may send more.
OutputBufferEmptied ==
  /\ emptied
  /\ emptied' = FALSE
  /\ UNCHANGED <<sent, out, written, net, receiverVars, isOpen, caller>>

(***************************************************************************)
(* The receiver.                                                           *)
(***************************************************************************)

Running == inState # "ended"

\* ConnectionSocket::processInput() has what was wanted.  The event loop does
\* nothing else before it has been handed on.
Busy == isOpen["receiver"] /\ bytesWanted > 0 /\ Len(inData) >= bytesWanted

\* ConnectionSocket: the slot of readyRead.
ReadyRead ==
  /\ Running /\ ~Busy
  /\ isOpen["receiver"]
  /\ \E n \in 1..Len(net) :
       /\ inData' = inData \o Prefix(net, n)
       /\ net' = Rest(net, n)
  /\ UNCHANGED <<senderVars, bytesWanted, inState, muted, closeLater, taken,
                 isOpen, caller>>

\* Peer::close().
Close == inState' = "CLOSING" /\ closeLater' = TRUE

WantChunkSize ==
  /\ bytesWanted' = 1 /\ inState' = "CHUNK_SIZE"
  /\ UNCHANGED closeLater

\* The exception of a message that does not decrypt, or is shorter than what every
\* chunk begins with: DsServer::advance() catches it and closes the socket,
\* DsClient::advance() does not, and it leaves the event loop.
Fail ==
  /\ bytesWanted' = 0
  /\ isOpen' = [isOpen EXCEPT !["receiver"] = FALSE]
  /\ inState' = IF caller = "sender" THEN "FAILED" ELSE "ended"
  /\ UNCHANGED <<closeLater, taken>>

\* Peer::wantChunkData(), with what the length field holds.
WantChunkData(length) ==
  /\ bytesWanted' = (length % LengthValues) + 1
  /\ inState' = "CHUNK_DATA"
  /\ UNCHANGED <<closeLater, taken, isOpen>>

\* Peer::onReceivedData(): muted, it ignores even what is not Json.  The contact may
\* reject a request and close.
OnReceivedData(i) ==
  LET kind == IF muted THEN "unknown" ELSE sent[i].kind
  IN /\ taken' = Append(taken, i)
     /\ \/ kind # "junk" /\ WantChunkSize
        \/ kind # "unknown" /\ Close /\ bytesWanted' = 0
     /\ UNCHANGED isOpen

\* Mutant: a peer that is being closed goes on reading.
NeverIgnores(state) == FALSE

IgnoresInput(state) == state = "CLOSING"

\* ConnectionSocket::processInput() and Peer::processStream().
ProcessInput ==
  /\ Running /\ Busy
  /\ inData' = Rest(inData, bytesWanted)
  /\ LET got == Prefix(inData, bytesWanted)
         i == Len(taken) + 1
     IN IF IgnoresInput(inState)
        THEN bytesWanted' = 0 /\ UNCHANGED <<inState, closeLater, taken, isOpen>>
        ELSE IF got = LengthPieces(i) THEN WantChunkData(sent[i].length)
        ELSE IF got = DataPieces(i, sent[i].length) THEN OnReceivedData(i)
        ELSE Fail
  /\ UNCHANGED <<senderVars, net, muted, caller>>

\* Contact::prepareForNewConnection(): the contact has no more use for the
\* connection.
MuteAndClose ==
  /\ Running /\ ~Busy
  /\ ~muted
  /\ muted' = TRUE
  /\ Close
  /\ UNCHANGED <<senderVars, net, inData, bytesWanted, taken, isOpen, caller>>

OnCloseLater ==
  /\ Running /\ ~Busy
  /\ closeLater
  /\ closeLater' = FALSE
  /\ isOpen' = [isOpen EXCEPT !["receiver"] = FALSE]
  /\ UNCHANGED <<senderVars, net, inData, bytesWanted, inState, muted, taken,
                 caller>>

(***************************************************************************)
(* The network.                                                            *)
(***************************************************************************)

\* The connection breaks; some of what was on its way still arrives.
Break ==
  /\ isOpen["sender"]
  /\ isOpen' = [isOpen EXCEPT !["sender"] = FALSE]
  /\ \E n \in 0..Len(net) : net' = Prefix(net, n)
  /\ UNCHANGED <<senderVars, receiverVars, caller>>

\* An end hears that the other one is closed.
HearEnd(e) ==
  /\ isOpen[e]
  /\ \E other \in Ends \ {e} : ~isOpen[other]
  /\ e = "receiver" => Running /\ ~Busy /\ net = <<>>
  /\ isOpen' = [isOpen EXCEPT ![e] = FALSE]
  /\ UNCHANGED <<senderVars, net, receiverVars, caller>>

Next ==
  \/ \E chunk \in Chunks : Send(chunk)
  \/ BytesWritten
  \/ OutputBufferEmptied
  \/ ReadyRead
  \/ ProcessInput
  \/ MuteAndClose
  \/ OnCloseLater
  \/ Break
  \/ \E e \in Ends : HearEnd(e)

Spec == Init /\ [][Next]_vars

\* Both event loops serve their sockets and their queued signals.
FairSpec ==
  /\ Spec
  /\ WF_vars(BytesWritten)
  /\ WF_vars(ReadyRead)
  /\ WF_vars(ProcessInput)
  /\ WF_vars(OnCloseLater)
  /\ \A e \in Ends : WF_vars(HearEnd(e))

(***************************************************************************)
(* Properties.                                                             *)
(***************************************************************************)

Promise == INSTANCE StreamPromise WITH
  Chunk <- Chunks,
  taken <- [n \in DOMAIN taken |-> sent[taken[n]]],
  up <- isOpen["receiver"] /\ inState \notin {"CLOSING", "FAILED", "ended"}

\* However the bytes are cut on their way, and whether or not a length fits into its
\* field, the receiver takes the chunks that were sent whole, in order and once;
\* takes nothing more once it is told to close; and, as long as neither end gives
\* the connection up, takes every one.
KeepsPromise == Promise!Spec

\* Whoever sends is told that everything was written, or loses the connection: the
\* queues of messages and files, which go on at that signal, do not stall.
WritingEnds == written ~> (emptied \/ ~isOpen["sender"])
=============================================================================
