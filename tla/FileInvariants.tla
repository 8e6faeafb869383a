---------------------------- MODULE FileInvariants ----------------------------
(***************************************************************************)
(* The inductive invariants that FileTransferProofs proves of FileTransfer *)
(* and what they are made of.  IInv is about what each side keeps; FlowInv *)
(* about what is on its way of each file, and why a received one is whole; *)
(* AgreeInv about what the two sides know of each other.                   *)
(***************************************************************************)
EXTENDS FileTransfer

(***************************************************************************)
(* What each side keeps.                                                   *)
(***************************************************************************)

\* What must be in the queue is there.
Queued(s, c) == c.loaded => Loadable(s, c) \subseteq ToSet(c.queue) \cup c.threw

\* A file being transferred has a slot.  The receiver keeps no other slot but that
\* of a file whose opening threw: with one, the file is taken off the queue and
\* its transfer not started.
Slots(s, c) ==
  \A f \in Files :
    /\ c.state[f] = "TRANSFERRING" => f \in c.active
    /\ s = "receiver" /\ f \in c.active =>
         c.state[f] = "TRANSFERRING" \/ f \in c.threw

\* The sender hashes a file before anything else happens to it: the result
\* cannot overwrite what the user made of the file since.
Hashes(s, c) == s = "sender" => \A f \in c.hashing : c.state[f] = "HASHING"

\* The files a side may tell the other about.
Public(s, c) ==
  {f \in Files : c.state[f] # "NONE" /\ (s = "sender" => c.state[f] # "HASHING")}

\* A channel is of such a file.
Opens(s, c) == \A e \in c.open : e[2] \in Public(s, c)

Sound(s, c) ==
  /\ c \in Contacts
  /\ Queued(s, c)
  /\ Slots(s, c)
  /\ Hashes(s, c)
  /\ Opens(s, c)

\* The files named on the wire.
Named(c) == {p.file : p \in ToSet(c.wire)}

\* The receiver, and what is on its way, knows only files the sender has hashed.
Known ==
  LET p == Public("sender", contact["sender"])
  IN /\ Public("receiver", contact["receiver"]) \subseteq p
     /\ \A s \in Sides : Named(contact[s]) \subseteq p

IInv ==
  /\ TypeOK
  /\ \A s \in Sides : Sound(s, contact[s])
  /\ Known

\* Sound, but that f may be missing from the queue, or be in a slot for which
\* its transfer has not started.
Almost(s, c, f) ==
  /\ c \in Contacts
  /\ c.loaded => Loadable(s, c) \ {f} \subseteq ToSet(c.queue) \cup c.threw
  /\ \A g \in Files :
       /\ c.state[g] = "TRANSFERRING" => g \in c.active
       /\ s = "receiver" /\ g \in c.active /\ g # f =>
            c.state[g] = "TRANSFERRING" \/ g \in c.threw
  /\ Hashes(s, c)
  /\ Opens(s, c)

\* What no function does but those that add, hash or offer a file: it makes no
\* new file known, names only known files, and the sender leaves cancelled files
\* alone.
Discreet(s, c, d) ==
  /\ Public(s, d) = Public(s, c)
  /\ Named(d) \subseteq Named(c) \cup Public(s, c)
  /\ s = "sender" =>
       \A f \in Files : c.state[f] = "CANCELLED" => d.state[f] = "CANCELLED"

(***************************************************************************)
(* What is on its way of each file.  In the following, p is the contact of *)
(* the sender and r that of the receiver, w the wire of p and v that of r. *)
(***************************************************************************)

\* The places of the chunks on a channel, and of the requests for a file.
OnChannel(w, ch) == {i \in 1..Len(w) : w[i].kind = "Chunk" /\ w[i].channel = ch}

IsRequest(q) == q.kind = "Ack" /\ q.status = "Proceed"

\* The channels the receiver made on this connection have different numbers.
Numbered(r) ==
  /\ \A e \in r.made : e[1] < r.next
  /\ \A e, g \in r.made : e[1] = g[1] => e = g

\* An open channel of the receiver is that of the transfer of its file, or it is
\* leaving, and the file was not accepted again meanwhile.  There is none without
\* a connection.
Channelled(r) ==
  \A e \in r.open :
    /\ r.online /\ e \in r.made
    /\ r.state[e[2]] \notin {"QUEUED", "HASHING", "DONE"}
    /\ r.state[e[2]] = "TRANSFERRING" => r.channel[e[2]] = e[1]
    /\ r.state[e[2]] # "TRANSFERRING" => e[1] \in r.leaving

\* The transfers of the receiver that can go on: nothing is read from a connection
\* that is closing.
Running(r) == {e \in r.open : r.state[e[2]] = "TRANSFERRING" /\ ~r.closing}

\* A complete file is whole.
Whole(r) ==
  \A f \in Files : r.state[f] \in {"HASHING", "DONE"} => r.parts[f] = Chunks

\* The chunks on a channel are those after the nth, in order and without a gap.
Continues(w, ch, n) ==
  /\ \A i \in OnChannel(w, ch) : w[i].part > n
  /\ \A i, j \in OnChannel(w, ch) : i < j => w[i].part < w[j].part
  /\ \A i \in OnChannel(w, ch) :
       w[i].part = n + 1 \/ \E j \in OnChannel(w, ch) : w[j].part + 1 = w[i].part

\* Chunks come on a channel that was made for their file.
Carried(w, r) ==
  \A i \in 1..Len(w) : w[i].kind = "Chunk" => <<w[i].channel, w[i].file>> \in r.made

\* What the receiver can still get.
Arrives(w, r) ==
  /\ r.online => Carried(w, r)
  /\ \A e \in Running(r) : Continues(w, e[1], r.parts[e[2]])

\* The files the sender sends, or will.
Live(p) ==
  {f \in Files : \/ p.state[f] = "TRANSFERRING"
                 \/ p.state[f] = "QUEUED" /\ f \in ToSet(p.queue)}

\* Nothing has been sent on a channel.
Fresh(w, r, e) ==
  /\ OnChannel(w, e[1]) = {}
  /\ e \in Running(r) => r.parts[e[2]] = 0

\* The first n chunks have been sent on it.
Upto(w, r, e, n) ==
  /\ n < Chunks
  /\ \A i \in OnChannel(w, e[1]) : w[i].part <= n
  /\ e \in Running(r) =>
       /\ r.parts[e[2]] <= n
       /\ r.parts[e[2]] < n => \E i \in OnChannel(w, e[1]) : w[i].part = n

\* What there is to send of f is what comes next on its channel, which the receiver
\* made for it on this connection.
Sends(p, r, f) ==
  LET e == <<p.channel[f], f>>
  IN /\ e \in r.made
     /\ p.state[f] = "QUEUED" => Fresh(p.wire, r, e)
     /\ p.state[f] = "TRANSFERRING" => Upto(p.wire, r, e, p.parts[f])

Serves(p, r) == p.open \subseteq r.made /\ \A f \in Live(p) : Sends(p, r, f)

\* A request on its way is for a channel the sender has not heard of.
Asks(p, r) ==
  \A i \in 1..Len(r.wire) : IsRequest(r.wire[i]) =>
    LET e == <<r.wire[i].channel, r.wire[i].file>>
    IN /\ e \in r.made
       /\ Fresh(p.wire, r, e)
       /\ \A f \in Live(p) : p.channel[f] # e[1]
       /\ \A j \in 1..Len(r.wire) :
            IsRequest(r.wire[j]) /\ r.wire[j].channel = e[1] => j = i

\* All of it; k is whether the link stands.
Flow(p, r, k) ==
  /\ Numbered(r)
  /\ Channelled(r)
  /\ Whole(r)
  /\ Arrives(p.wire, r)
  /\ k => Serves(p, r) /\ Asks(p, r)

FlowInv == ~tainted => Flow(contact["sender"], contact["receiver"], link)

(***************************************************************************)
(* Why the two ends agree on what became of each file, while nothing       *)
(* breaks.  As before, p and c are contacts of the sender, r and d of the  *)
(* receiver, w is the wire of the sender and v that of the receiver.       *)
(***************************************************************************)

\* One of the packets S is on its way.
On(w, S) == \E i \in 1..Len(w) : w[i] \in S

\* The offers of a file, the acks of it with a status in T, and its last chunks.
Offers(f) == {x \in Packets : x.kind = "Offer" /\ x.file = f}
Acks(f, T) == {x \in Packets : x.kind = "Ack" /\ x.file = f /\ x.status \in T}
Lasts(f) == {x \in Packets : x.kind = "Chunk" /\ x.file = f /\ x.part = Chunks}

Aborts(f) == Acks(f, {"Abort"})
Receipts(f) == Acks(f, {"Received"})
Requests(f) == Acks(f, {"Proceed"})
Refusals(f) == Acks(f, {"Rejected", "Abort"})

\* A receiver in one of these states has given up the file for good.
GivenUp == {"REJECTED", "CANCELLED", "FAILED"}

\* What a file in state p at the sender and q at the receiver may be, given what
\* is said of it on the wires.
Match(p, q, w, v, f) ==
  /\ p \in {"NONE", "HASHING", "WAITING"} =>
       q = "NONE" /\ ~On(w, Offers(f)) /\ ~On(w, Aborts(f)) /\ ~On(w, Lasts(f))
  /\ On(w, Offers(f)) => q = "NONE" /\ (p = "OFFERED" \/ On(w, Aborts(f)))
  /\ On(w, Aborts(f)) => p = "CANCELLED"
  /\ On(w, Lasts(f)) => p = "DONE" \/ q \in GivenUp
  /\ On(v, Receipts(f)) => p \in {"OFFERED", "CANCELLED"} /\ q # "NONE"
  /\ On(v, Requests(f)) =>
       p \in {"OFFERED", "CANCELLED"} /\ (q = "TRANSFERRING" \/ On(v, Refusals(f)))
  /\ On(v, Refusals(f)) => q \in GivenUp
  /\ q \in {"OFFERED", "QUEUED"} => p = "OFFERED" \/ On(w, Aborts(f))
  /\ q = "TRANSFERRING" => \/ p \in {"QUEUED", "TRANSFERRING"}
                           \/ On(v, Requests(f))
                           \/ On(w, Aborts(f))
                           \/ p = "DONE" /\ On(w, Lasts(f))
  /\ q \in {"HASHING", "DONE"} => p = "DONE"
  /\ p = "DONE" => \/ q \in {"HASHING", "DONE"}
                   \/ q = "TRANSFERRING" /\ On(w, Lasts(f))
                   \/ On(v, Refusals(f))
  /\ p = "OFFERED" => \/ q \in {"OFFERED", "QUEUED"}
                      \/ On(w, Offers(f))
                      \/ q = "TRANSFERRING" /\ On(v, Requests(f))
                      \/ On(v, Refusals(f))
  /\ p \in {"QUEUED", "TRANSFERRING"} => q = "TRANSFERRING" \/ On(v, Refusals(f))

\* x never precedes y: a file is offered once, and that it was received is said
\* first, and that it is to proceed only after that.
Clash(x, y) ==
  /\ x.file = y.file
  /\ \/ x.kind = "Offer" /\ y.kind = "Offer"
     \/ /\ x.kind = "Ack" /\ y.kind = "Ack"
        /\ \/ y.status = "Received"
           \/ y.status = "Proceed" /\ x.status # "Received"

Clashing(x) == {y \in Packets : Clash(x, y)}
ClashingBefore(y) == {x \in Packets : Clash(x, y)}

InOrder(w) == \A i, j \in 1..Len(w) : i < j => ~Clash(w[i], w[j])

\* What neither side says while nothing breaks.
Odd(s) ==
  IF s = "sender" THEN {x \in Packets : x.kind = "Ack" /\ x.status # "Abort"}
  ELSE {x \in Packets : x.kind # "Ack" \/ x.status \in {"Failed", "Completed"}}

\* A file has one channel, made when its transfer began and open while it goes on.
OneChannel(r) ==
  /\ Numbered(r)
  /\ r.open \subseteq r.made
  /\ \A e \in r.made : r.state[e[2]] \notin {"NONE", "OFFERED", "QUEUED"}
  /\ \A e, g \in r.made : e[2] = g[2] => e = g
  /\ \A e \in r.made : r.state[e[2]] = "TRANSFERRING" => e[1] \notin r.leaving
  /\ \A ch \in r.leaving : ch < r.next
  /\ \A f \in Files : r.state[f] = "TRANSFERRING" => <<r.channel[f], f>> \in r.open
  /\ \A f \in Files : r.state[f] = "HASHING" => f \in r.hashing

\* Before the first connection nothing was offered.
Apart(p, r) ==
  /\ p.wire = <<>> /\ r.wire = <<>> /\ p.active = {}
  /\ \A f \in Files : r.state[f] = "NONE"

Agreed(p, r) ==
  /\ \A f \in Files : Match(p.state[f], r.state[f], p.wire, r.wire, f)
  /\ InOrder(p.wire) /\ InOrder(r.wire)
  /\ ~On(p.wire, Odd("sender")) /\ ~On(r.wire, Odd("receiver"))
  /\ OneChannel(r)
  /\ ~link => Apart(p, r)

Agreeing ==
  /\ \A s \in Sides : contact[s].up /\ contact[s].online = link
  /\ Agreed(contact["sender"], contact["receiver"])

\* No connection is being closed, and every file can be opened.
Calm(c) ==
  /\ "closing" \in DOMAIN c /\ "bad" \in DOMAIN c /\ "threw" \in DOMAIN c
  /\ c.closing = FALSE /\ c.bad = {} /\ c.threw = {}

NothingBroken == \A s \in Sides : Calm(contact[s])

AgreeInv == faults = 0 => ~tainted /\ Agreeing /\ NothingBroken
=============================================================================
