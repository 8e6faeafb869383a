----------------------------- MODULE MainWindow -----------------------------
(***************************************************************************)
(* What the user sees and does in the lists of contacts, conversations and *)
(* messages, while messages and files come and go: ConversationsModel and  *)
(* MessagesModel over the caches of objects and the tables.                *)
(***************************************************************************)
EXTENDS ConversationsModel

CONSTANTS
  MaxMinute,    \* the clock of getSafeNow(), in minutes (a bound)
  MaxMessages,  \* how many messages there are (a bound)
  MaxFiles      \* how many files there are (a bound)

ASSUME BoundsAssumption ==
  MaxMinute \in Nat \ {0} /\ MaxMessages \in Nat /\ MaxFiles \in Nat

VARIABLES
  w,       \* the program: its tables, and its objects while it runs
  minute,
  chosen   \* the contact or conversation the user chose last

vars == <<w, minute, chosen>>

\* What is shown of a message besides its text.
Contents == [state : {"QUEUED", "SENT", "RECEIVED"}, dated : BOOLEAN]

Programs ==
  [running : BOOLEAN,
   updated : [Keys -> 0..MaxMinute],     \* conversation.updated; 0: no such row
   messages : Seq([key : Keys, content : Contents]),
   files : Seq([key : Keys]),
   registry : [Keys -> {0} \cup Copies],
   lru : Seq(Objects),
   activity : [Keys -> [Copies -> 0..MaxMinute]],
   local : Objects \cup {Nothing},
   identity : Identities \cup {NoIdentity},
   rows : Seq([key : Keys, copy : {0} \cup Copies]),
   currentRow : 0..Cardinality(Keys),
   current : Objects \cup {Nothing},
   index : 0..Cardinality(Keys),         \* currentIndex of the list view
   item : Keys \cup {NoKey},             \* the row it stands on
   conversation : Objects \cup {Nothing},
   lines : Seq([kind : {"MESSAGE", "FILE"}, id : Nat, content : Contents \cup {Unloaded}])]

TypeOK ==
  /\ w \in Programs
  /\ minute \in 1..MaxMinute
  /\ chosen \in Keys \cup {NoKey}

\* A program that starts with these tables.
Started(updated, messages, files) ==
  [running |-> TRUE, updated |-> updated, messages |-> messages, files |-> files,
   registry |-> [k \in Keys |-> 0], lru |-> <<>>,
   activity |-> [k \in Keys |-> [c \in Copies |-> 0]], local |-> Nothing,
   identity |-> NoIdentity, rows |-> <<>>, currentRow |-> 0, current |-> Nothing,
   index |-> 0, item |-> NoKey, conversation |-> Nothing, lines |-> <<>>]

Init ==
  /\ w = Started([k \in Keys |-> 0], <<>>, <<>>)
  /\ minute = 1
  /\ chosen = NoKey

(***************************************************************************)
(* Messages and files.                                                     *)
(***************************************************************************)

Relevant(v, key) == v.conversation.key = key

\* MessagesModel::onMessageAdded() and onFileAdded(): at the end.
LineAdded(v, key, line) ==
  IF Relevant(v, key) THEN [v EXCEPT !.lines = Append(@, line)] ELSE v

\* Message::addToDb(), and the signal of its manager.
MessageAdded(v, key, content) ==
  LET stored == [v EXCEPT !.messages = Append(@, [key |-> key, content |-> content])]
  IN LineAdded(stored, key, Line("MESSAGE", Len(stored.messages), content))

\* FileManager::addFile().
FileAdded(v, key) ==
  LET stored == [v EXCEPT !.files = Append(@, [key |-> key])]
  IN LineAdded(stored, key, Line("FILE", Len(stored.files), Unloaded))

\* A message or a file, if there is room for it.
Added(v, key, kind, content) ==
  IF kind = "MESSAGE" THEN MessageAdded(v, key, content) ELSE FileAdded(v, key)

RoomFor(kind) ==
  IF kind = "MESSAGE" THEN Len(w.messages) < MaxMessages ELSE Len(w.files) < MaxFiles

\* Afterwards the program is in state v.  When a row was moved in a deque that had
\* to make room in front, or a line was written to that is not there yet, what
\* happens is undefined: the program ends.
Ends(v) == w' = [v EXCEPT !.running = FALSE]

MayLoseItsPlace(v) ==
  \/ w' = v
  \/ Len(v.rows) > 1 /\ v.rows # w.rows /\ v.rows[1].key \in {r.key : r \in ToSet(w.rows)}
     /\ Ends(v)

\* Conversation::sendMessage() and sendFile().
Send(kind) ==
  /\ w.running /\ RoomFor(kind)
  /\ w.current # Nothing
  /\ MayLoseItsPlace(
       TouchLastActivity(
         Added(w, w.current.key, kind, [state |-> "QUEUED", dated |-> FALSE]),
         w.current, minute))
  /\ UNCHANGED <<minute, chosen>>

\* Contact::getRequestedOrDefaultConversation(), then Conversation::incomingMessage()
\* or incomingFileOffer().
Receive(key, kind) ==
  /\ w.running /\ RoomFor(kind)
  /\ LET got == GetConversation(w, key, minute)
     IN MayLoseItsPlace(
          TouchLastActivity(
            Added(got.program, key, kind, [state |-> "RECEIVED", dated |-> TRUE]),
            got.object, minute))
  /\ UNCHANGED <<minute, chosen>>

\* Mutant: the copy the line has is left as it is.
KeepLine(line, content) == line

UpdateLine(line, content) == [line EXCEPT !.content = content]

\* Message::setState() and setSentReceivedTime(): each stores its column, and
\* MessagesModel::onMessageChanged() writes it to the copy in the line.
ChangeMessage(id, content) ==
  /\ w.running
  /\ content # w.messages[id].content
  /\ LET v == [w EXCEPT !.messages[id].content = content]
         n == SelectInSeq(w.lines, LAMBDA l : l.kind = "MESSAGE" /\ l.id = id)
     IN CASE ~Relevant(w, w.messages[id].key) -> w' = v
          [] Relevant(w, w.messages[id].key) /\ w.lines[n].content = Unloaded -> Ends(v)
          [] OTHER -> w' = [v EXCEPT !.lines[n] = UpdateLine(@, content)]
  /\ UNCHANGED <<minute, chosen>>

\* A message is sent, then dated and settled by its ack.
Progress(id) ==
  LET content == w.messages[id].content
  IN \/ /\ content.state = "QUEUED"
        /\ ChangeMessage(id, [content EXCEPT !.state = "SENT"])
     \/ /\ content.state = "SENT" /\ ~content.dated
        /\ ChangeMessage(id, [content EXCEPT !.dated = TRUE])
     \/ /\ content.state = "SENT" /\ content.dated
        /\ ChangeMessage(id, [content EXCEPT !.state = "RECEIVED"])

(***************************************************************************)
(* The user, and the views.                                                *)
(***************************************************************************)

\* The list view has not found its row again yet.
LaidOut(v) == v.index = PositionOf(v.rows, v.item)

\* The rows the list view shows in a window are drawn: MessagesModel::data().
DrawLine(n) ==
  /\ w.running
  /\ n \in DOMAIN w.lines
  /\ w.lines[n].kind = "MESSAGE" /\ w.lines[n].content = Unloaded
  /\ w' = [w EXCEPT !.lines[n].content = w.messages[w.lines[n].id].content]
  /\ UNCHANGED <<minute, chosen>>

\* ConversationsModel::data().
DrawRow(i) ==
  /\ w.running
  /\ i \in DOMAIN w.rows
  /\ w.rows[i].copy = 0
  /\ w' = LoadRow(w, i)
  /\ UNCHANGED <<minute, chosen>>

Layout ==
  /\ w.running
  /\ ~LaidOut(w)
  /\ w' = SetIndex(w, PositionOf(w.rows, w.item))
  /\ UNCHANGED <<minute, chosen>>

\* A click on a row of the list of conversations.
ClickRow(i) ==
  /\ w.running /\ LaidOut(w)
  /\ i \in DOMAIN w.rows
  /\ w' = SetIndex(w, i)
  /\ chosen' = w.rows[i].key
  /\ UNCHANGED minute

\* A contact becomes the current item of the list of contacts.
ChooseContact(key) ==
  /\ w.running
  /\ Owner[key] = w.identity
  /\ w' = SetContact(w, key, minute)
  /\ chosen' = key
  /\ UNCHANGED minute

\* Contacts.qml, sendMessage(): only the cache holds what getDefaultConversation()
\* returns.
OpenConversation(key) ==
  /\ w.running
  /\ Owner[key] = w.identity
  /\ LET got == GetConversation(w, key, minute)
     IN w' \in SetCurrents(got.program, got.object)
  /\ chosen' = key
  /\ UNCHANGED minute

\* Identities.qml: the contacts change first, and the only contact of an identity is
\* selected while the conversations are still those of the other identity.
ChooseIdentity(identity) ==
  /\ w.running
  /\ w.identity # identity
  /\ LET contacts == {k \in Keys : Owner[k] = identity}
         v == IF Cardinality(contacts) = 1
              THEN SetContact(w, CHOOSE k \in contacts : TRUE, minute)
              ELSE w
     IN \E listing \in Listings(v, identity) : w' = SetIdentity(v, identity, listing)
  /\ chosen' = NoKey
  /\ UNCHANGED minute

Tick ==
  /\ minute < MaxMinute
  /\ minute' = minute + 1
  /\ UNCHANGED <<w, chosen>>

\* The program is started again; only the tables are left.
Restart ==
  /\ ~w.running
  /\ w' = Started(w.updated, w.messages, w.files)
  /\ chosen' = NoKey
  /\ UNCHANGED minute

Next ==
  \/ \E kind \in {"MESSAGE", "FILE"} : Send(kind) \/ \E key \in Keys : Receive(key, kind)
  \/ \E id \in 1..Len(w.messages) : Progress(id)
  \/ \E n \in 1..MaxMessages + MaxFiles : DrawLine(n)
  \/ \E i \in 1..Cardinality(Keys) : DrawRow(i) \/ ClickRow(i)
  \/ Layout
  \/ \E key \in Keys : ChooseContact(key) \/ OpenConversation(key)
  \/ \E identity \in Identities : ChooseIdentity(identity)
  \/ Tick
  \/ Restart

Spec == Init /\ [][Next]_vars

(***************************************************************************)
(* Properties.                                                             *)
(***************************************************************************)

\* The rows are the conversations the table has for the identity, each once, the
\* one with the latest activity first, although they are only read when the
\* identity is chosen and moved or added to ever after.
RowsAreTheConversations ==
  w.running /\ w.identity # NoIdentity =>
    [i \in DOMAIN w.rows |-> w.rows[i].key] \in Listings(w, w.identity)

\* There is never a second object for the same row of the table, so that what one
\* holder of a conversation changes every other one sees.
OneObjectPerRow ==
  \A o, q \in Held(w) : o.key = q.key => o = q

\* What is shown of the messages of a conversation is what the tables have of it:
\* every message and file once, with the state it is in, though the lines are
\* copies, filled when they are first drawn and updated one column at a time.
LinesAreStored ==
  w.running /\ w.conversation # Nothing =>
    LET shown == [n \in DOMAIN w.lines |-> <<w.lines[n].kind, w.lines[n].id>>]
        stored == QueryLines(w, w.conversation.key)
    IN /\ Len(shown) = Len(stored)
       /\ ToSet(shown) = {<<l.kind, l.id>> : l \in ToSet(stored)}
       /\ \A l \in ToSet(w.lines) :
            l.kind = "MESSAGE" /\ l.content # Unloaded => l.content = w.messages[l.id].content

\* Once the list view is laid out, the row it highlights, the current row, the
\* conversation the user writes to and the messages he sees are the same.
SelectionAgrees ==
  w.running /\ LaidOut(w) =>
    /\ w.currentRow = w.index
    /\ w.conversation = w.current
    /\ w.current = IF w.index = 0 THEN Nothing ELSE w.rows[w.index]

\* The user writes to whom he chose last.
WritesToChosen == w.running /\ chosen # NoKey => w.current.key = chosen
=============================================================================
