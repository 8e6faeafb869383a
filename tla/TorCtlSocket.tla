----------------------------- MODULE TorCtlSocket -----------------------------
(***************************************************************************)
(* The connection to Tor's control port: commands, their replies, and the  *)
(* events Tor sends in between.  A reply has no number; it belongs to the  *)
(* oldest command that has none yet.                                       *)
(*                                                                         *)
(* Tor is external.  It answers the commands in their order, each with one *)
(* of the replies the configuration gives it; a reply is the lines that    *)
(* are sent and what they mean.  An object of this class is connected      *)
(* once: TorController makes a new one for every connection.               *)
(***************************************************************************)
EXTENDS TorReply

CONSTANTS
  Answers,        \* the replies Tor may give to each command
  Keeping,        \* the commands whose refusal is only reported: those that create,
                  \* start and stop a service
  Events,         \* what Tor may report
  MaxReplyLines,  \* max_reply_lines_: 32
  MaxData,        \* max_data_in_one_reply_line_: 16384
  MaxEvents       \* how often Tor reports something (a bound)

Commands == DOMAIN Answers

ASSUME KeepingAssumption == Keeping \subseteq Commands
ASSUME LimitsAssumption == {MaxReplyLines, MaxData, MaxEvents} \subseteq Nat

VARIABLES
  asked,     \* the commands Tor has not answered yet, in their order
  given,     \* the reply it gave to each of the others
  wire,      \* the lines Tor sent that are not read yet
  reported,  \* how often it reported something
  socket     \* the object: what it has of the current reply, and who waits for one

vars == <<asked, given, wire, reported, socket>>

NoReply == [status |-> 0, lines |-> <<>>]

Init ==
  /\ asked = <<>>
  /\ given = <<>>
  /\ wire = <<>>
  /\ reported = 0
  /\ socket = [open |-> TRUE, state |-> "READY", current |-> NoReply,
               pending |-> <<>>, sent |-> {}, handled |-> <<>>]

(***************************************************************************)
(* processIn(), for one line.  A line has a status, a type and a text, or  *)
(* it is too short to have them.                                           *)
(***************************************************************************)

\* abort() and close(): what has not been read is gone.
Closed(s) == [s EXCEPT !.open = FALSE]

\* Mutant: the lines of the reply before are not cleared.
BegunAgain(s, line) ==
  IF s.state = "READY"
  THEN [s EXCEPT !.state = "IN_REPLY", !.current.status = line.status]
  ELSE s

Begun(s, line) ==
  IF s.state = "READY"
  THEN [s EXCEPT !.state = "IN_REPLY", !.current = [status |-> line.status, lines |-> <<>>]]
  ELSE s

\* A line of data is added to the line that announced it.  (The one that ends the
\* data is a dot, and too short to get here.)
Data(s, line) ==
  LET n == Len(s.current.lines)
      grown == [s EXCEPT !.current.lines[n] = @ \o line.text]
  IN IF line.ends THEN [s EXCEPT !.state = "IN_REPLY"]
     ELSE IF Len(grown.current.lines[n]) > MaxData THEN Closed(s)
     ELSE grown

IsEvent(status) == status \in 600..699

\* The handlers of TorController.  Those of a service report a refusal with its
\* first line; the others close the connection.  (SETEVENTS has no handler, and
\* keeps it as well.)
Handled(s, command) ==
  LET Heard(means) ==
        [s EXCEPT !.handled = Put(@, command, [status |-> s.current.status,
                                               means |-> means])]
  IN CASE s.current.status = 250 -> Heard(Parse(s.current.lines))
       [] s.current.status # 250 /\ command \in Keeping -> Heard(Head(s.current.lines))
       [] OTHER -> Closed(s)

\* An orphan leaves the state as it is: the next line adds to it.
Final(s) ==
  IF IsEvent(s.current.status) THEN [s EXCEPT !.state = "READY"]
  ELSE IF s.pending = <<>> THEN s
  ELSE [Handled([s EXCEPT !.pending = Tail(@)], Head(s.pending)) EXCEPT !.state = "READY"]

ReplyLine(s, line) ==
  IF Len(s.current.lines) > MaxReplyLines THEN Closed(s)
  ELSE LET added == [s EXCEPT !.current.lines = Append(@, line.text)]
       IN CASE line.type = "+" -> [added EXCEPT !.state = "IN_DATA"]
            [] line.type = "-" -> added
            [] line.type = " " -> Final(added)

ReadLine(s, line) ==
  IF ~s.open THEN s
  ELSE IF line.short \/ line.type \notin {" ", "-", "+"} THEN Closed(s)
  ELSE IF s.state = "IN_DATA" THEN Data(s, line)
  ELSE ReplyLine(Begun(s, line), line)

(***************************************************************************)
(* Actions.                                                                *)
(***************************************************************************)

\* sendCommand(): the handler waits behind the others.
SendCommand(command) ==
  /\ socket.open
  /\ command \notin socket.sent /\ \A c \in 1..command - 1 : c \in socket.sent
  /\ socket' = [socket EXCEPT !.pending = Append(@, command), !.sent = @ \cup {command}]
  /\ asked' = Append(asked, command)
  /\ UNCHANGED <<given, wire, reported>>

\* processIn(): all the lines that have arrived.
ProcessIn(n) ==
  /\ socket.open
  /\ n \in 1..Len(wire)
  /\ LET s == FoldLeft(ReadLine, socket, SubSeq(wire, 1, n))
     IN /\ socket' = s
        /\ wire' = IF s.open THEN SubSeq(wire, n + 1, Len(wire)) ELSE <<>>
  /\ UNCHANGED <<asked, given, reported>>

Answer ==
  /\ socket.open /\ asked # <<>>
  /\ \E reply \in Answers[Head(asked)] :
       /\ given' = Put(given, Head(asked), reply)
       /\ wire' = wire \o reply.lines
  /\ asked' = Tail(asked)
  /\ UNCHANGED <<reported, socket>>

Report ==
  /\ socket.open /\ reported < MaxEvents
  /\ \E event \in Events : wire' = wire \o event
  /\ reported' = reported + 1
  /\ UNCHANGED <<asked, given, socket>>

Disconnect ==
  /\ socket.open
  /\ socket' = Closed(socket)
  /\ wire' = <<>>
  /\ UNCHANGED <<asked, given, reported>>

Next ==
  \/ \E command \in Commands : SendCommand(command)
  \/ \E n \in 1..Len(wire) : ProcessIn(n)
  \/ Answer
  \/ Report
  \/ Disconnect

Spec == Init /\ [][Next]_vars

(***************************************************************************)
(* Properties.                                                             *)
(***************************************************************************)

\* A handler that is called gets the reply to its own command, also after one that
\* was refused, and reads from it the keys and the values Tor wrote, whatever was
\* escaped in them, however the lines were cut, and whatever Tor reported in
\* between.  (A value has no zero, and one that is not of a pair is UTF-8.)
HandlersGetTheirReplies ==
  \A c \in DOMAIN socket.handled :
    /\ c \in DOMAIN given
    /\ socket.handled[c] = [status |-> given[c].status, means |-> given[c].means]
=============================================================================
