# DarkSpeak in TLA+

DarkSpeak is a peer to peer chat program over Tor hidden services: a Qt program
with no server, in which two contacts who have accepted each other connect
directly, exchange messages, files and avatars, and keep everything that must
survive a restart in an SQLite database. The source is under `src/`.

This directory holds TLA+ modules of its core logic, TLC configurations that
check them on small instances, and proofs checked by TLAPS.

## How the program runs

A DarkSpeak process has one event loop. A handler (a slot) runs to its end
before anything else happens in that process, so a handler is one step of a
model. What makes the program hard to test lies between handlers:

* Signals connected as queued ("...Later") are handled after everything posted
  before them, and after whatever sockets the last poll found ready.
* Two programs run at once; a socket, through Tor, delivers a prefix of what was
  written, and each side notices a break on its own.
* `updateIf()` (update_helper.h) writes one column of one row at once, without a
  transaction: a crash may fall between two of them, inside a handler.
* Hashing a file runs on a thread pool and reports with a queued signal.
* The Contact object with its queues lives in memory; only rows survive.

## Inventory

| Component (source) | State | Operations | Talks to |
|---|---|---|---|
| Message queue (contact.cpp, messagemanager.cpp, message.cpp, conversation.cpp) | rows of `message` (state, received_time); `messageQueue_`, `unconfirmedMessageQueue_`, `loadedMessageQueue_` | compose, load the queue, send the first, ack, receive, refuse | Peer (messages, acks), Database |
| Contact connections (contact.cpp, identity.cpp) | `connection_`, `onlineStatus_`, `Identity::connected_` | connect, disconnect, connected, incoming, disconnected | Peer (signals), Identity |
| Contact handshake (contact.cpp, notificationsmodel.cpp) | `ContactState`, blocked flag, notifications | AddMe and its acks, accept, block | Peer, Identity, models |
| Peer, DsClient, DsServer, ConnectionSocket (protlib) | socket, stream state, `notificationsDisabled_`, channels | Hello, Olleh, chunks, close, retries | Contact (signals), sockets |
| TorServiceInterface, listener (protlib) | `peers_`, listening server | connect, erase a client, accept | Peer, TorProtocolManager |
| Files (file.cpp, filemanager.cpp, hashtask.cpp, contact.cpp) | rows of `file`; `fileQueue_`, `transferringFileQueue_`, `loadedFileQueue_`, channels | hash, offer, accept, reject, cancel, send a chunk, validate, clear | Peer, thread pool, Database |
| Identity, IdentityManager | transport handle, online flag, connect timers | go online, connect all, notify all, change transport | DsEngine, Contact |
| DsEngine | engine state, pending transports | start, stop, make a transport | TorProtocolManager, Identity |
| TorProtocolManager | state, services by identity | start and stop services | TorMgr, TorServiceInterface |
| TorController, TorCtlSocket, TorMgr (torlib) | control and Tor state, `service_map_`, queue of pending replies | authenticate, ADD_ONION, DEL_ONION, parse replies | Tor |
| Caches (lru_cache.h, registry.h, contactmanager.cpp, conversationmanager.cpp) | recently used objects, weak pointers | touch, remove, fetch | everything that holds an object |
| Models (modelslib) | rows shown in lists | insert, move, remove | managers (signals), QML |
| Database (database.cpp, update_helper.h) | the tables | schema, recovery at start, `updateIf` | everything persistent |
| Cryptography (cryptolib) | keys | sign, verify, encode | Peer, Identity |

What is hard about them, and what makes them correct:

* **Messages**: duplicated sends, acks of copies, refusals in the middle of a
  stream, a crash between two commits. Correct when what the sender calls
  received is stored, nothing is stored twice, and nothing is forgotten.
* **Connections**: crossing calls, signals of connections that were replaced,
  sockets served in any order, objects destroyed by queued slots. Correct when a
  contact has one connection, the others close, and status, registry and other
  end agree with it.
* **Files**: two queues with different lifetimes than the rows they hold,
  numbered channels, offers repeated after breaks, refusals at every moment.
  Correct when the queues cover the rows, a received file is whole, a cancelled
  one stays so, and the two ends agree.
* **Handshake**: requests, acks and notices lost with a connection, contacts that
  add or block each other at once, callers with the right key from the wrong
  address. Correct when nobody is ACCEPTED who was not asked for at both ends, and
  the two ends agree once nothing is on its way.
* **Stream**: a chunk is cut anywhere by two sockets, its length may not fit into
  its field, and handlers close the connection they are called from. Correct when
  chunks arrive whole, in order and once, and a writer is always told.
* **Engine and Tor**: services started twice or not at all, replies in flight while
  the state changes. Correct when an online identity has a running service with its
  current address.
* **Replies of Tor**: a reply has no number and no end but its last line, values are
  quoted and escaped, events come in between. Correct when each handler reads what
  Tor wrote in answer to its own command.
* **Caches, lists and views**: an object that exists twice diverges from its row; a
  list changes by signals only, in C++ and in a view that lags behind it. Correct
  when lists show what the tables hold, and the user writes where he looks.
* **The text of an identity**: an estimate of a buffer, leading zeros, two
  encodings and a byte order. Correct when whoever pastes the text has the same key
  and address.

`PROJECT.json` lists the hazards at their lines, with the properties that cover
them or the reason why none does.

## Modules

| Module | What it is |
|---|---|
| `DeliveryPromise` | abstract: what one direction of a conversation promises its two users |
| `MessageDelivery` | detailed: composing, queueing, sending, acks, refusals, breaks, crashes; implements `DeliveryPromise` |
| `ContactLink` | how two contacts connect: Contact, Connection, Peer, sockets and posted events at both ends |
| `FileTransfer` | file rows, file queues, channels and chunks at both ends |
| `TransportEngine` | going online, and the hidden services of identities: DsEngine, Identity, TorProtocolManager, TorMgr, TorController and Tor |
| `ContactHandshake` | how two users become contacts, refuse and block each other: rows, connections, requests and acks at both ends |
| `StreamPromise` | abstract: what the encrypted stream promises those who use it |
| `PeerStream` | detailed: chunks, their lengths, the buffers of two sockets; implements `StreamPromise` |
| `ObjectCache` | one object for a row: LruCache and Registry |
| `ConversationsModel` | the list of conversations, the view that shows it, the messages that follow it: operators |
| `MainWindow` | composes the two with the tables, messages, files, the user and restarts |
| `TorReply` | what the lines of a reply of Tor mean: the parser and the unescaping |
| `TorCtlSocket` | composes the parser with commands, replies in pieces, events and Tor |
| `IdentityText` | base58, base32 and the payload: from an identity to a contact |
| `MC...` | the modules TLC runs |
| `FileInvariants` | the inductive invariants of `FileTransfer` |
| `SequenceLemmas` | what `ToSet`, `Append`, `\o`, `Tail` do to elements |
| `MessageDeliveryProofs`, `ContactLinkProofs`, `TransportEngineProofs`, `ContactHandshakeProofs`, `FileTransferProofs`, `PeerStreamProofs`, `MainWindowProofs` | theorems |

### MessageDelivery

One direction of a conversation. A message is the id of its row; ids grow, so
their order is that in which they were composed. `state` and `unreceived` are the
sender's rows (`unreceived` are those with a null `received_time`), `queue` and
`loaded` are `messageQueue_` and `loadedMessageQueue_`, `wire` and `acks` are
what the sockets carry, `inbox` is the receiver's table.

`SendMessage`, `ProcessOnlineLater`, `OnOutputBufferEmptied` and `OnReceivedAck`
are the handlers of the sender; they share `ProcessMessageQueue`, the translation
of `Contact::procesMessageQueue()`. `queueMessage()` loads the queue from the
table, where the new row already is, and pushes the row again: the first message
of a session is sent twice, and the model does so. `RestartComposing`,
`RestartSending` and `RestartInAck` are crashes between two commits of a handler.
The queue dies with the Contact object, and this does not take the end of the
program: ContactManager keeps the contacts touched last in an LruCache of 7 and all
in a registry of weak pointers, so an object that is not connected and falls out of
the cache is destroyed (`Evicted`), and the next one loads what was not acknowledged
and sends it again. `carried` remembers which messages this may happen to.
`greet` is the single shot of scheduleProcessOnlineLater(), which `Connect` arms once,
and `drain` says that something was written for which no bytesWritten came yet.
`StartRefusing` stands for blocking the contact or otherwise leaving ACCEPTED.
Signatures and contents are not modelled: a message is acceptable or is not
(`Unacceptable`: of a conversation the receiver does not know, or with a signature
that does not validate; both are answered with Rejected). A request that cannot be
parsed, for instance of an unknown encoding, throws instead, and the connection is
closed without an ack (peer.cpp:151-157, :497); no program of this version sends one.

### ContactLink

The two programs, with up to `MaxConn` connections that either side opens.
`sock`, `secure` and `muted` are kept for each end of each connection; `posted`
is the queue of signals a program has yet to handle and `ready` the sockets its
last poll found ready. `posted` is handled in order; `ready` is served in any
order before `posted` is looked at again, as Qt's event dispatcher does. This
order decides everything: `Peer::close()` only posts `closeLater`, so a connection
that was replaced may still be heard from.

`OnConnectedToPeer` is `Contact::onConnectedToPeer()` for an accepted contact,
with the hash comparison exactly as the code has it (`PrefersCurrent`: a contact's
certificate against itself). `DisconnectedFromPeer` takes down the current
connection whichever one the signal is about, as the code does; the properties
say that this never matters.

### FileTransfer

What each side keeps is one record, `contact[s]`: rows (`state`), queues
(`queue`, `loaded`, `active`), channels (`open`, `made`, `next`), work under way
(`hashing`, `leaving`, `greet`, `drain`), and `parts`, the chunks the sender has
read or the receiver stored of each file. An operator such as `ProcessFilesQueue`
or `QueueTransfer` takes the record before the call of the C++ function and
gives the one after it, or the set of possible ones; handlers are actions built
from those. A disk may refuse at any time to open a file (`bad`, `DiskFails`) and
open it again later (`DiskRecovers`), or refuse a chunk (`WriteFails`). Opening then
throws out of queueTransfer(), whose slot is taken already; processFilesQueue()
catches it, the file stays at the front, and the next time it leaves the queue
unstarted (`Throws`; `threw` remembers those of the receiver). A chunk that cannot be
written, or comes after the last one of its file, which has been closed (`shut`),
throws out of onReceivedData(), and processStream() closes the connection: nothing
more is read (`closing`), and `OnCloseLater` fails the transfers of the contact.
`Evicted` is the destructor of a Contact that is not connected. A failing `assert`, or an exception that leaves the event loop, ends
the program (`Ended`), which starts again with `Database::prepareData()`
(`RecoveredState`).

Abstractions: both contacts have accepted each other; `Connect` makes both ends
online in one step, and only after the old link is broken (what happens when it
is not is ContactLink's subject); names and paths, read errors, progress and
files with suspicious names are left out, and so is a receiver that finds 500 names
taken (findUnusedName(), contact.cpp:1287); `OnOutputBufferEmptied` may find the buffer empty
at any time, since messages and acks write to the same socket.

### TransportEngine

Between the control connection and the identity there are five layers, each
with a state of its own: `ctl` and `tor` (TorController), `pm`
(TorProtocolManager), `engine` (DsEngine) and `online` (Identity). They tell each
other by direct signals, so a reply of Tor, a command of the user or the end of
the connection is one step through all of them. `ReplyNew`, for instance, is
TorController::createService()'s answer, TorProtocolManager::onServiceCreated(),
which stops the new service, and DsEngine::onTransportHandleReady(), which stores
the address and starts it again.

What waits between steps is `pending`, the commands Tor has not answered (only
what the answer's handler captured is kept of a command), `whenOnline`, the
functions DsEngine keeps until it is RUNNING, and `posted`, the signals connected
as queued: one `Online` for every connection of ready() to online(), of which each
start makes another (`slots`), and the errors of services. `readable` is the
number of replies in the socket's buffer: TorCtlSocket::processIn() handles all
of them before the event loop turns to posted signals or the user.

Of the program's state, `serviceMap` and `listener` live in the control connection's
manager, `exists`, `autoConnect` and `address` are rows and survive `Ended`: a
null `tor_mgr_`, an OfflineError that leaves the event loop, a quit or a kill.

Tor is external: it answers commands in order, may refuse each (`Refused`),
never runs a service twice, and ends services with the control connection that
added them. `running` is the local port a service leads to; `Elsewhere` is the
port of the service NEW creates, on which nobody listens.

### ContactHandshake

Two users, and all a program knows of the other: the row of the contact
(`contact`: state, who began, verified, blocked, whether to tell), the notification
about a stranger's request (`asks`), its ends of the two connections there can be,
and timers. A connection is named by the program that called, since each has at
most one call of its own. `wire` holds the messages in order; a reader may lose all
but the first of them when the connection breaks. Unlike in `ContactLink`, a
program handles what it posted to itself before anything else: which sockets a
poll finds ready together is ContactLink's subject, and the rows are this one's.

`OnConnectedToPeer` here is the whole of it for every state of the contact: a
contact that blocked us has not any more (line 570), a call of our own verifies the
address, an unverified caller is let go, and the request or its ack is posted.
`ReceiveAck`, `OnAddmeRequest`, `ReceiveUserInfo` and `ProcessOnlineLater` keep the
branches of their handlers; messages and file offers are answered as
`ReceiveUserInfo` is, by closing on whoever is not accepted. Left out is the refusal of a
nick-name that is not valid (contact.cpp:1125), which answers and closes in the same
way: the dialog for identities accepts a name only if the same function does
(identitynamevalidator.cpp:36).

### PeerStream

One direction. A message of the cipher is the pieces it was encrypted to: one for
the length of a chunk, and one more than its length for the chunk itself. A socket
takes and hands over any number of pieces. What is decrypted must be exactly the
pieces of the next message, as the cipher demands, or `Fail`: caught in
DsServer::advance(), and not caught in DsClient::advance(), where it ends the
program. `WantChunkData` takes the length modulo `LengthValues`. A receiver that
was told to close goes on being called with what its buffer holds.

### ObjectCache, ConversationsModel and MainWindow

The program is one record, `w`: the tables (`updated`, the column of the
conversation; `messages`; `files`) and the objects that live while it runs. A slot
that emits signals calls other slots before it returns, so each function is an
operator from `w` to `w`, and an action applies it. `Held` is everything that has a
shared pointer to a conversation, which decides whether `Registry::fetch()` still
finds it. `setCurrent()` takes a raw pointer and loads rows, which may push the
object out of the cache; with `CacheSize` 2 the cache holds one conversation, and
this happens. When only the cache held it (`OpenConversation`), any row that is
loaded afterwards may be put at its address and be taken for its row, or none may:
`SetCurrents` is the set of outcomes.

The ListView is external: it remembers the row it stands on (`item`) and finds its
index again when it is laid out (`Layout`), which tells the model. Between a row
being inserted or moved and the layout, view and model may differ.

### TorReply and TorCtlSocket

`TorReply` is pure: a fold of the step of each parser loop over the bytes of a
line. A byte that the code reads ahead is a mode. A quoted value of a pair is
appended as a C string (`CString`: it ends at a zero byte) to a QByteArray; a value
that is not of a pair is made a QString of a C string, which also decodes UTF-8
(`FromUtf8`: a byte that is no part of a character becomes U+FFFD). `TorCtlSocket` is
`processIn()` over lines that have arrived, with the queue of handlers; Tor answers
commands in order with one of the replies the configuration gives it, each with
what it means, and reports events in between. What a refusal does depends on the
handler: those that create, start and stop a service report it and go on (`Keeping`),
so that the replies to the commands behind it must still reach their handlers; the
others close the connection. The configuration writes values as
Tor's control-spec does, quoted and escaped or bare, without the code's parser: the
reference the parser is checked against. `HandlersGetTheirReplies` compares the two
at every handler that was called, for values without a zero byte, and for UTF-8 where
the code decodes it.

### IdentityText

The arithmetic of the two encodings is kept, digit by digit, because the property
is about it: `AddByte` stops where the loop of `b58enc_()` stops and says when it
leaves the buffer. Text is a sequence of base58 digits, since the two tables of
characters are each other's inverse. The checksum is a constant: SHA256 is not
modelled, so that an altered text is refused is not checked.

## Plan

Done: `MessageDelivery` with `DeliveryPromise`, `ContactLink`, `FileTransfer`,
`TransportEngine`, `ContactHandshake`, `PeerStream` with `StreamPromise`, the
caches and lists (`ObjectCache`, `ConversationsModel`, `MainWindow`), `TorReply`
with `TorCtlSocket`, `IdentityText`.

Proved since the models were complete: all of `MessageDelivery`'s invariants with
the order of messages, `ContactLink`, `TransportEngine`, `ContactHandshake`,
`FileTransfer`, `PeerStream` with its refinement, `MainWindow`.

`MessageDelivery`, `FileTransfer` and `PeerStream` each assume of the connection
what `ContactLink` shows of it: one current connection, whose end is noticed at
both sides; the first two assume of the stream what `StreamPromise` says, and of the
contacts that both are ACCEPTED, which is `ContactHandshake`'s subject.

Modules that are proved about use no recursive operators, and take their
parameters as constants with named assumptions. `IdentityText` uses recursion, and
only TLC checks it.

## Runs

| Run | Instance | What it checks |
|---|---|---|
| `delivery` | 3 messages, one unacceptable, fairness | `TypeOK`; `ReceivedMeansStored`; `StoredAtMostOnce`; `StoredInOrder`, but for what the sender had composed when it last lost the Contact object; `TrackedIsQueuedOrSent`; `PromiseSpec`, the refinement of `DeliveryPromise`; `StableQueueDelivers`: what is queued once the link is stable is settled |
| `link_safety` | 2 connections | `TypeOK`; `RegisteredWhileConnected`; `StatusFollowsConnection`; `AbandonedIsClosing`; `ErasedIsUnused`; `OnlineTogether` |
| `link_liveness` | 1 connection, fairness | `ConnectingEnds`; `AbandonedCloses` |
| `file_restarts` | 1 file of 2 chunks, 2 faults, 2 refusals; a fault is a break, a disconnect, a quit, a disk that will not open a file or not take a chunk | `TypeOK`; `LoadableIsQueued`; `TransferringIsActive`; `DoneIsWhole`; `CancelledStays` |
| `file_settles` | 2 files of 2 chunks, 1 refusal, no fault, fairness | `AgreeWhenQuiet`; `TransfersEnd` |
| `engine` | 1 identity, 3 onions, 2 ports, 2 starts, 1 refusal, fairness | `TypeOK`; `LayersAgree`; `OnlineIsReachable`; `RequestsAreKept`; `WaitingIsMade`; `StoppedGoesOffline` |
| `handshake` | 2 users, 2 upsets, 1 timer each | `AcceptedByBoth`; `OnlineIsVerified`; `AgreeWhenQuiet` |
| `stream` | 2 chunks of 1 or 4 units, a length field of 3 values, fairness | `KeepsPromise`, the refinement of `StreamPromise`; `WritingEnds` |
| `window` | 2 identities, 3 contacts, a cache for 1, 2 minutes, 2 messages, 1 file | `TypeOK`; `RowsAreTheConversations`; `OneObjectPerRow`; `LinesAreStored`; `SelectionAgrees` |
| `window_chosen` | as `window` | violated: what the user writes goes to another contact than he chose |
| `replies` | 2 commands, one that keeps the connection when it is refused and one that does not, 1 event, values of up to 2 bytes or characters, 2 lines in a reply | `HandlersGetTheirReplies` |
| `text` | 66 keys, 18 addresses, 3 ports | `ContactIsTheIdentity` |

Deadlock checking is off where the system comes to rest: contacts have used up
their connections, a stream has carried its chunks, a Tor has answered everything, an
identity has become a contact, the clock of the window has run out.

**Bounds.** Three messages are the least in which the first of a session is sent
twice, a second is refused and a third overtakes it. Two connections are the
least in which calls cross and a signal of one reaches a contact that uses the
other; the invariants are proved for any number. A file of two chunks has a
first, sent by the handler that starts the transfer, and a last, which
ends it; in `file_settles` two files compete for the queue and the slots. With
two faults a file is offered, broken off, offered again and broken off again. A
file mixed up with another through the number of an old channel takes two files
and two faults, or three files: more than these runs reach, which is why
`DoneIsWhole` excludes it by name (`tainted`). Three onions are a first service, one
that replaces it, and one more that replaces that while the first is still being
stopped; two ports let a service be started again while the old listener is
known; two starts are the least in which a program goes online again, and one
refusal the least after which a command names a service that does not run.
`MaxPending` bounds only how fast the user clicks, not what handlers send. The
properties of the engine are about one identity at a time; two would need a
larger `MaxOnions`, for a request that Tor refuses again and again once the
onions are used up is a loop of the bound and not of the program.

In `handshake` two upsets (breaks, restarts, disconnects, blocks, changed settings)
are the least that lose a request and then its ack; the timers of one contact do
the same thing, so one that counts for many is enough; users are alike
(symmetry). In `stream` a chunk of length 4 has a length that reads as 1 in a field
of three values: less than the chunk, as 65536 and more read as less. Two chunks are
the least in which the second is lost in the first. In `window` a cache of size 2
holds one object, since it drops at its size; three contacts give one identity two
rows, the least that move, and the other one row, which is selected by itself; two
minutes let a conversation be touched once and again. In `replies` a limit of 2
allows 3 lines, as the one of 32 allows 33, and values of two bytes have every pair
of plain, quoted, escaped, octal and blank bytes. The keys of `text` have each byte
at one limit and the others at the other, since carries and leading zeros are what
can go wrong; the number of digits grows with the number, so the extremes bound it.
TLC takes between a second and about three minutes for each run.

**Fairness.** The event loop handles what is posted, runs timers and polls all
sockets, so every handler that stays enabled is run: weak fairness of each.
`ContactLink` polls with all sockets that are due, which is what poll() returns.
Tor answers each connect, in the end. In `MessageDelivery` and `FileTransfer` a
contact that can be reached is connected to, as `Identity::connectContacts()`
tries again and again. Nothing forces a user to write, accept, cancel or
disconnect, a link to break, a disk to refuse or a Contact object to go. In both,
`BufferEmpties` is fair only after something was written, because Qt emits
bytesWritten only then, and `ProcessOnlineLater` happens once for every connection,
because its timer is a single shot. This is what `StableQueueDelivers` and
`TransfersEnd` depend on, and the mutant of the latter, which leaves the first chunk
of a transfer for the next drain, is found by it. In
`TransportEngine` the event loop polls and handles what is posted, and Tor accepts
the control connection and answers; nothing forces a bootstrap, a start or a click.
Its liveness properties end with the connection (`Gone`), and say where a refusal
breaks them. In `PeerStream` both event loops serve their sockets and posted closes;
nobody has to send, and nothing forces a break. `ContactHandshake`, `MainWindow`,
`TorCtlSocket` and `IdentityText` are checked for safety only.

## What is proved

TLAPS checks these for any number of messages, connections, identities and
services.

`MessageDeliveryProofs`. The inductive invariant `IInv` adds three facts to the
properties: everything in transit or stored is a composed message
(`OnlyComposed`); a positive ack on the wire is about a stored message
(`AcksAreSound`), without which `ReceivedMeansStored` is not inductive, for an ack
could arrive from nowhere; and a message has one row (`RowsOnce`), without which
removing a row would leave another. A lemma for every action shows
`IInv /\ Action => IInv'`. Theorems: `TypeCorrectness`, `ReceivedIsStored`,
`NoDuplicates`, `QueueKeepsUnsent`, and `KeepsPromise`: every step is a step of
`DeliveryPromise` or leaves its variables alone.

`StoresInOrder` is proved relative to `IInv` from a second invariant, `OInv`. The
inbox alone says nothing of the next message, so order is stated of the whole way at
once (`Flowing`): the inbox rises, the wire and the queue are ordered with
repetitions allowed, and nothing in the inbox is after something on the wire, nor
anything there after something queued; each of these but for a later element that is
in `carried`, since those are sent again at any place. `ComposedSoFar` says that
messages are composed in the order of their ids, and that a queue that is not loaded
means that everything composed is in `carried`: what loading puts behind a newer
message is only what existed when the sender lost its Contact object, whether by a
restart or by the cache. In particular `carried` is empty, and the order complete, as
long as that has not happened.

`ContactLinkProofs`. `IInv` adds `ConnectionOpensInOrder`: a connection nobody
opened has no sockets, one not set up has none at the other end, a stream is
secure only where a socket is, and only the caller destroys a client. Theorems:
`TypeCorrectness`, `RegisteredExactly`, `StatusIsOfConnection`,
`AbandonedCloseSoon`, `ErasedUnused`, `Agreement`. The assumptions are those of
the module: two different contacts, certificates with a hash in Nat.

`TransportEngineProofs`. The states of the layers agree only because no reply is
to a command of an earlier state, so `IInv` adds `RepliesFit`: the commands that wait
fit the state of the controller (`Waits`: greetings while it authenticates, one
at a time, everything else while it is connected); the bootstrap phase is asked for
once, right after the events (`InPlace`), or a second answer could move a
controller that is ONLINE; and whatever ends the connection empties the queue.
Lemmas on what the shared parts of handlers do to the queues (`StartEffect`,
`StopEffect`, `MakeEffect`) carry the proofs of the actions. Theorems:
`TypeCorrectness`; `Agreement`; `RequestsKept`, an action property: from every
state of `IInv`, a step that takes the request of an identity out of one queue
puts it into another, answers it, or is the end of the connection or the program.
The assumptions: finitely many identities, bounds in Nat, a port.

`OnlineIsReached` is proved relative to `IInv` from `RInv`. An identity that is shown as
online may be unreachable only while something is under way that makes it reachable
or takes the word back, so what is under way must be known to be about this identity
and this port: the commands and the map name services that belong to the identity
they are for (`Owned`, `Own`); of several ADDs that wait, the last leads to the
port the identity listens on now (`Latest`); and a controller that connects has forgotten every service
(`Blank`), or it would skip the start.

`ContactHandshakeProofs`. "Accepted by both" speaks of two rows in two programs that
are written in different steps, so the invariant says of everything on its way that
its author has the other as a contact: what is on a wire (`WireSound`; anybody
may be answered, only one who has the contact calls or asks), what a program posted
to itself (`PostedSound`), an end that is open (`EndSound`), a request shown to the
user (`AsksSound`). No program forgets a contact (`Grows`), so these facts last. A row
that is ACCEPTED is verified, and ONLINE needs a current connection and a verified
row (`RowSound`, `OnlineSound`). Theorems: `TypeCorrectness`, `AcceptanceIsMutual`,
`OnlineWasReached`.

`AgreeWhenQuiet` speaks of states in which nothing is on its way, and needs to know
what must be on its way in all the others: `AInv`, which is inductive relative to
`IInv`. `Own` is about one program: what it posted to itself is at most a request or
ack over the connection it has, and the close of the one end it told to close
(`Posting`); the contact hears of the current connection and no other (`Hears`);
whoever has a connection up is not told that he is blocked. `Joined` is about one
connection: the Hello comes first and once and is on its way as long as there is no
other end (`Greets`), an end that is gone has told the other one (`Parts`), and who
calls is being answered (`Calls`). Without it a program could be ONLINE on a
connection whose other end is gone, with nothing to tell it. `Settles` is about the
two contacts where both ends are up and nothing ends the connection: whom p
accepted has accepted p or is about to hear from p (`Confirms`), an unanswered
request is posted, on its way or answered (`Awaits`), and whom p accepted and blocks is
about to be told, or about to send what p closes on (`Tells`). When nothing is on its
way, only agreement is left of each. The proof first shows what sending, reading, closing
and breaking leave of one connection (`JoinedSend` to `JoinedBreak`), then what an
action leaves of the program (`OwnClose` to `OwnStarted`), and one lemma for each action puts
the two together with `StepAgrees`, which also says that the other program is left
alone. Theorem: `AgreedWhenQuiet`.

`FileTransferProofs`, whose inductive invariants are in `FileInvariants`. Handlers are compositions of operators on one side's record, so
the proof is one lemma for each operator: from a record that is `Sound` it makes one
that is `Sound`, and does nothing the other side could be surprised by (`Discreet`);
`Fine` is both, and composes. Between the operators a handler calls, a file may be
out of the queue and not yet in a slot: `Almost` is `Sound` but for one file. `Sound`
adds to the two properties that the receiver's slots hold only running transfers, or
queueTransfer() would find the slot taken and leave the file nowhere, or files whose
opening threw (`threw`), which it does leave nowhere; that the sender
hashes a file before anything else happens to it (`Hashes`), or the result would
overwrite a cancel; and that a channel is of a file the sides know (`Opens`). `Known`
joins the two sides: the receiver, and whatever is on the wire, names only files whose
hash the sender has. Theorems: `TypeCorrectness`, `WaitingIsQueued`,
`TransfersHaveSlots`, `CancelledForGood`. The assumptions: finitely many files
(`Rows` orders them, as a SELECT returns rows), at least one chunk.

The second part of `FileTransferProofs` proves `DoneIsWhole` relative to that `IInv`. That a file is whole when
its last chunk is stored is decided long before, by what both sides wrote, so the
invariant `FlowInv` says of everything on its way what it continues: the chunks on the
channel of a running transfer begin after those the receiver has and have no gap
(`Arrives`, `Continues`); what the sender sends next follows the last of them (`Serves`,
`Upto`), or nothing was sent yet on the channel of a file it has queued (`Fresh`); a
request that is under way is the only one for its channel, which the sender does not
use (`Asks`); channels of a connection have different numbers (`Numbered`), and an
open one is that of its file's transfer, or about to be removed (`Channelled`); and
HASHING files are whole like DONE ones (`Whole`). The last three are about the receiver alone.
What the receiver can still get is what its connection reads: one that closes reads
nothing, so a chunk that the disk did not take ends what `FlowInv` says of its file
(`Running`), until it is offered and opened again, or fails.
When the link is down the sender owes nothing, but what it wrote still arrives in
order. `tainted` is needed because channel numbers begin at 1 on every connection: a
transfer that a side kept from an earlier one may be served on a channel of another
file. Each operator has a lemma for either side (`SenderFlow`, `ReceiverFlow`), and the
handlers are composed of these. Theorem: `DoneFilesAreWhole`.

The third part of the module proves `AgreeWhenQuiet` of the files, relative to both.
The property is about states in which nothing is on its way; `AgreeInv` says what is on
its way in the others, as long as nothing broke. `Match` relates, for one file, the state
at the sender, the state at the receiver, and what either has written of it that the
other has not read: an offer that is under way means that the receiver does not know the
file; a file the sender shows as OFFERED is known to the receiver, or the offer,
a request or a refusal is under way; who is DONE has the other DONE, hashing, or about to
read the last chunk or the refusal; what a side gave up is said in an ack that
has been read or will be. `Match` alone is not inductive. `InOrder` says which packets of a
file never follow each other: a file is offered once, that it was received is said
first, and then that it is to proceed. A receiver that confirmed an offer twice
would take a file the sender is already sending back to OFFERED. `Odd` lists what
neither side says while nothing breaks (`Failed`, `Completed`, a `Proceed` of the
sender). `OneChannel` says of the receiver that a file has one channel on this
connection, open until its last chunk came; without it that chunk could be
dropped and the file stay TRANSFERRING. `Apart` says that nothing was offered before the
connection. From `Flowing` the proof takes that a chunk comes on the channel of its file.
There is a lemma for each way the sender or the receiver changes a row, with or
without a packet (`SenderQuiet`, `SenderSays`, `SenderHears`, and the three of the
receiver), the operators are reduced to these, and the handlers to the operators. The
fault steps count themselves in `faults`, which never decreases, and contradict the
hypothesis; as long as there is none, no disk refuses and no connection closes
(`NothingBroken`). Theorem: `EndsAgree`.

`PeerStreamProofs`. `Aligned` says what the cipher demands: the pieces in the three
buffers are a gapless run (`Chained`) of those that were encrypted, which begins with
the piece the receiver waits for (`Begins`), ends with the last one encrypted as long
as the sender is open (`Finishes`), and the receiver wants the length it was told
(`Wanted`). From it follow: `FailsOnlyByLength`, that the receiver fails at nothing
but a chunk whose length does not fit its field, however the stream is cut; and
`KeepsPromiseSafely`, that every step is one of `StreamPromise` or a stutter. The weak
fairness of `StreamPromise` is left to TLC.

`MainWindowProofs`. Every slot is an operator from the program to the program, and calls
others, so `Sound` is what each operator preserves, and one lemma per operator says so; an
action applies one or two of them. `OneObjectPerRow` is not inductive: that a second object
is never made rests on the registry, so `One` says that whatever is held is the
registered copy of its row, and that the table has that row; a weak pointer that
finds nothing then means that nobody holds any object of the row (`GetIsSound`).
`Ordered` says of the rows what the query would answer, in a form to which a row can be
added (`FirstRow`) and in which one can move (`MovedRow`); that needs `Timed`, that no
conversation is newer than now, or the one that is touched would not be the latest.
`Complete` says that each message and file of the shown conversation has one line, and
that a line is empty or has what the table has of its message. `Followed` relates the current row,
the current conversation and the messages. `currentRow` is an index that the insertion or
a move of a row makes stale; what lasts is that the current conversation has a row and
that the view stands on its key (`Stands`), so that the next layout finds the row again
(`StandsSomewhere`). `Stands` is not part of `Sound`: in setIdentity() and setIndex
the two differ for a while. That setCurrent() loads the rows in front of the one it looks
for is a recursive function of the number of rows, and one induction shows that it exists
(`LoadingExists`) and another that the program stays `Sound` (`RowsLoadedAreSound`).
Theorems: `TypeCorrect`, `RowsStayListed`, `ObjectsStayUnique`, `LinesStayStored`,
`SelectionStaysOne`. The assumptions: finitely many contacts, each with an identity, a
cache of at least one place, and that "none" is neither a contact nor an identity.

Only model-checked:

* Liveness, which is out of TLAPS's reach: `StableQueueDelivers`, `ConnectingEnds`,
  `AbandonedCloses`, `TransfersEnd`, `WaitingIsMade`, `StoppedGoesOffline`,
  `WritingEnds`, and the fair part of the two refinements.
* What is computed from data, where a proof would be an induction over every text:
  `HandlersGetTheirReplies`, since the parser of `TorReply` is a fold over the bytes
  of a line and the property compares its result with what Tor meant; and
  `ContactIsTheIdentity`, since the arithmetic of `IdentityText` is recursive.

## Where the code and its documents disagree

* The user chooses a contact for the first time while another row is the first and
  the current one: the new row is inserted in front, setCurrentRow(0) does nothing,
  and what is written next goes to the other contact (`window_chosen`;
  conversationsmodel.cpp:70-75, :106).

What follows is in the models too, as the code does it:

* Connections. getHelloReply() reports a client that is being closed as
  connected (dsclient.cpp:130); the contact stays ONLINE with a closed socket. When
  two calls cross, each side keeps the one the other drops: contact.cpp:623
  compares a contact's certificate with itself, where protocol.md:9 says that the
  connection with the smaller value is dropped.
* Messages. The first message of a session is sent twice (contact.cpp:412), and the
  receiver stores it once. A message on the wire when the link breaks moves to
  `unconfirmedMessageQueue_`, which nothing reads, and is not sent again by the same
  Contact object (requirements.md:196 lists this as open). It is sent again after a
  restart, and after the object fell out of the cache while the contact was away
  (contactmanager.h:42): then it may be stored after newer ones.
* Files. HashTask never reads the file (hashtask.cpp:28, `while(!file.isOpen())`),
  so the hashes of both ends are those of no data, and always match (file.h:138).
  An ack for a file the receiver never heard of dereferences null (contact.cpp:902, under the comment that the file must
  exist); cancelling a file in WAITING sends one. An outgoing file QUEUED at a
  restart stays so, because the recovery statement binds `:queued` to
  FS_TRANSFERRING (database.cpp:112). A repeated Proceed fails the transfer at both
  ends, so that resuming never works (contact.cpp:957). A last chunk read between
  cancelling and the posted removal of its channel ends the receiver's program
  (file.cpp:570). A chunk that cannot be written closes the connection
  (peer.cpp:503), and all transfers of the contact fail. A file that cannot be opened
  stays QUEUED and leaves the queue with its slot taken (contact.cpp:1044-1050): one
  to receive is tried again only when the queue was cleared, one to send never. A lost
  Offer or Proceed leaves a file OFFERED until the next restart.
* Services. A service that replaces another does not stop it: both run
  (identity.cpp:74; requirements.md:74). The end of a control connection is announced
  only when Tor had bootstrapped (torcontroller.cpp:226): an identity whose service
  was started before stays online (requirements.md:92). After a refused ADD_ONION the
  stop of a service is refused, each refusal takes the identity offline by another
  stop, and so on without an end. A request that enters `when_online_` while the
  engine is RUNNING waits for the next start (dsengine.cpp:146). A second start
  connects ready() to online() again, so that both calls start every service, the
  second ADD_ONION is refused and its error takes the identity offline. Going
  offline while the control connection is not yet authenticated throws
  (`GoOffline`), and so may an online() that is handled after it (`OnOnlineFails`).
  OnAuthReply() destroys the socket that is calling it. Removing an identity leaves
  its service running. The bootstrap phase is asked for once, so that a Tor that was
  still bootstrapping never makes the program ONLINE.
* Handshake. setBlocked() sends Hello/Blocked without looking at sendBlockNotice.
  The answer to an AddMe of a blocked contact is "Blocked" (onAddmeRequest()), which
  onReceivedAck() does not support; the "Pending" it does support is never sent to a
  verified contact (protocol.md:115). REJECTED has no way out: two users who blocked
  each other silently while they called, and changed their minds after each had
  answered the other, stay online with rows that say REJECTED. When the
  ack "Added" is lost, one side is ACCEPTED and the other waits, and until the
  next request is answered whatever the first sends makes the second close.
* Stream. A chunk that is longer than its 16-bit length field never arrives, ends
  the connection, and is sent again on the next one (peer.cpp:238). The same error
  is caught in a server and ends the program in a client (dsclient.cpp).
* Lists. onConversationTouched() uses a deque's iterator after push_front()
  (conversationsmodel.cpp:159), and onMessageChanged() the content of a line that was
  not loaded yet (messagesmodel.cpp:306): both are undefined, and here a step after
  which the program has ended (`Ends`). LruCache drops an element at its size and
  not above it (lru_cache.h:26); the comment at contact.cpp:115 that a conversation
  is cached, "so it's safe to return the pointer", does not hold when setCurrent()
  loads enough rows. onConversationAdded() runs a query whose result it does not use.
* Tor's replies. A reply with data (`+`) always ends the connection, because the
  dot that ends it is shorter than the four bytes a line must have
  (torctlsocket.cpp:58). A limit of 32 lines allows 33. A key with an empty value at
  the end of a line is dropped, a zero byte cuts a value short, and bytes that are not
  UTF-8 are replaced in a value that is not of a pair (torctlsocket.cpp:183).
* Text. The buffer of b58enc_() has as many digits as the number needs at least;
  for sizes where it needs all of them (1, 2 or 39 bytes) the loop leaves it, which
  for the 38 and 51 bytes of a handle and an identity does not happen.
  onion16decode() reads an invalid character as "2" where its comment says "z"
  (base32.cpp:30-33). A port above 65535 is cut to 16 bits, one below 100 cannot be
  exported, and neither can a version 3 address.

## What is not modelled

* Cryptography other than the encodings: a signature is valid or not; a stream is
  encrypted or not; a checksum is a constant.
* The changes of name and avatar: Identity::getAllContacts() returns the first row
  only (identity.cpp:290), so that they reach one contact of many
  (requirements.md:100, :106); an avatar takes a turn in `onOutputBufferEmptied()`,
  which the fairness of that handler covers.
* The random delays of connectContacts(): in the models a contact is connected to
  at any time it may be.
* ContactsModel, FilesModel, LogModel and the list of notifications. FilesModel is
  connected to no signal and ContactsModel to none about removal or renaming; their
  rows are what the last query gave.
* Removing contacts and conversations: deleteContact() and deleteConversation()
  have no caller. Deleting single messages and files from the window.
* The limit of the input buffer (connectionsocket.cpp:111), names and paths of
  files, schema creation, settings, logging, and the rest of QML.
