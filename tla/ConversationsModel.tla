-------------------------- MODULE ConversationsModel --------------------------
(***************************************************************************)
(* The list of conversations of the shown identity: ConversationsModel,    *)
(* the ListView that shows it, and MessagesModel, which follows it.        *)
(*                                                                         *)
(* A slot calls others, which emit signals other slots are connected to,   *)
(* all before it returns.  Each is an operator from the state of the       *)
(* program to its state afterwards; the actions, which are in MainWindow,  *)
(* apply them.  Rows are numbered from 1, and 0 is the row -1 of the code. *)
(*                                                                         *)
(* The ListView is Qt's.  It remembers which row it stands on, and when    *)
(* rows are inserted or moved it finds its new index at the next layout,   *)
(* or before its index is set.                                             *)
(***************************************************************************)
EXTENDS ObjectCache

CONSTANTS
  Identities,
  Owner         \* the identity of each contact; the keys are the contacts

NoIdentity == "none"

ASSUME OwnerAssumption == Owner \in [Keys -> Identities] /\ NoIdentity \notin Identities

\* Row: a uuid, and the conversation once it has been loaded.
Row(key) == [key |-> key, copy |-> 0]

\* Everything somebody has a shared pointer to, be it a function that runs.
Held(w) ==
  {o \in ToSet(w.lru) \cup ToSet(w.rows) \cup {w.current, w.conversation, w.local} : o.copy # 0}

PositionOf(rows, key) == SelectInSeq(rows, LAMBDA r : r.key = key)

(***************************************************************************)
(* MessagesModel: what it shows of the messages and files of a             *)
(* conversation.  A line has the id of a message or a file, and of a       *)
(* message, once it is loaded, a copy of what is shown of it.              *)
(***************************************************************************)

Unloaded == [state |-> "UNLOADED", dated |-> FALSE]
Line(kind, id, content) == [kind |-> kind, id |-> id, content |-> content]

\* The ids of the messages or files of a conversation.
Belongs(table, key) == {i \in 1..Len(table) : table[i].key = key}

\* MessagesModel::queryRows().  (The order, by date, is left out.)
QueryLines(w, key) ==
  LET LinesOf(kind, ids) == {Line(kind, i, Unloaded) : i \in ids}
  IN SetToSeq(LinesOf("MESSAGE", Belongs(w.messages, key))
              \cup LinesOf("FILE", Belongs(w.files, key)))

\* MessagesModel::setConversation().
SetConversation(w, o) ==
  IF o = w.conversation THEN w
  ELSE [w EXCEPT !.conversation = o, !.lines = QueryLines(w, o.key)]

(***************************************************************************)
(* ConversationsModel.                                                     *)
(***************************************************************************)

\* Lazy loading: Conversation::ptr_t in the row is filled when it is needed.
LoadRow(w, i) ==
  IF w.rows[i].copy # 0 THEN w
  ELSE LET got == Get(w, Held(w), w.rows[i].key)
       IN [got.program EXCEPT !.rows[i] = got.object]

\* setCurrentRow(), and the slots of currentRowChanged: the index of the list view
\* and the conversation of the messages follow.
SetCurrentRow(w, i) ==
  IF i = w.currentRow THEN w
  ELSE IF i = 0
  THEN SetConversation([w EXCEPT !.currentRow = 0, !.current = Nothing,
                                 !.index = 0, !.item = NoKey], Nothing)
  ELSE LET loaded == LoadRow(w, i)
           o == loaded.rows[i]
       IN SetConversation([loaded EXCEPT !.currentRow = i, !.current = o,
                                         !.index = i, !.item = o.key], o)

\* Mutant: the list view does not tell the model.
IndexOnly(w, i) == [w EXCEPT !.index = i, !.item = w.rows[i].key]

\* The list view stands on row i, and tells the model.
SetIndex(w, i) ==
  SetCurrentRow([w EXCEPT !.index = i, !.item = w.rows[i].key], i)

\* The first n rows are loaded.
RowsLoaded(w, n) ==
  LET loaded[i \in 0..n] == IF i = 0 THEN w ELSE LoadRow(loaded[i - 1], i)
  IN loaded[n]

\* setCurrent(), of an object that somebody holds.
SetCurrent(w, o) ==
  LET i == PositionOf(w.rows, o.key)
      all == RowsLoaded(w, IF i = 0 THEN Len(w.rows) ELSE i)
  IN IF i # 0 /\ all.rows[i] = o THEN SetCurrentRow(all, i) ELSE all

\* The rows that are loaded when nobody holds o any more: what is made for them may
\* be where o was.
TakenFor(w, o) ==
  {i \in 1..Len(w.rows) :
     LET v == RowsLoaded(w, i - 1)
     IN /\ o \notin Held(v)
        /\ v.rows[i].copy = 0
        /\ Fetched(v, Held(v), v.rows[i].key) = Nothing}

\* setCurrent(), given a pointer that does not keep o alive: the rows in front of o's
\* are loaded, and may push it out of the cache.  Then a row may be taken for o's,
\* or none.
SetCurrents(w, o) ==
  IF TakenFor(w, o) = {} THEN {SetCurrent(w, o)}
  ELSE {RowsLoaded(w, Len(w.rows))}
       \cup {SetCurrentRow(RowsLoaded(w, i), i) : i \in TakenFor(w, o)}

\* Mutant: a new conversation is the last one.
AppendRow(rows, key) == Append(rows, Row(key))

AddRow(rows, key) == <<Row(key)>> \o rows

\* onConversationAdded().
OnConversationAdded(w, key) ==
  IF w.identity # Owner[key] THEN w
  ELSE [w EXCEPT !.rows = AddRow(@, key)]

\* ConversationManager::addConversation().
AddConversation(w, key, minute) ==
  LET o == FreshCopy(Held(w), key)
      stored == Registered([w EXCEPT !.updated[key] = minute,
                                     !.activity[key][o.copy] = minute], o)
  IN OnConversationAdded([stored EXCEPT !.lru = Touched(w.lru, o)], key)

\* ConversationManager::getConversation() of a contact, who has one from now on.
GetConversation(w, key, minute) ==
  IF w.updated[key] # 0 THEN Get(w, Held(w), key)
  ELSE [object |-> FreshCopy(Held(w), key), program |-> AddConversation(w, key, minute)]

\* setContact(), which holds the conversation while it sets it.
SetContact(w, key, minute) ==
  LET got == GetConversation(w, key, minute)
      v == got.program
  IN IF v.current.key = key THEN v
     ELSE [SetCurrent([v EXCEPT !.local = got.object], got.object) EXCEPT !.local = Nothing]

\* queryRows(): in the order of their last activity, those of one minute in any order.
Listings(w, identity) ==
  LET keys == {k \in Keys : Owner[k] = identity /\ w.updated[k] # 0}
  IN {s \in SetToSeqs(keys) :
        \A i, j \in DOMAIN s : i < j => w.updated[s[i]] >= w.updated[s[j]]}

\* setIdentity(), and the slots of modelReset: the only row is selected.
SetIdentity(w, identity, listing) ==
  LET cleared == [SetCurrentRow(w, 0) EXCEPT
                    !.identity = identity,
                    !.rows = [i \in DOMAIN listing |-> Row(listing[i])],
                    !.index = 0, !.item = NoKey]
  IN IF Len(listing) = 1 THEN SetIndex(cleared, 1) ELSE cleared

\* onConversationTouched() moves the row to the front.
OnConversationTouched(w, key) ==
  LET i == PositionOf(w.rows, key)
  IN IF i <= 1 THEN w ELSE [w EXCEPT !.rows = <<w.rows[i]>> \o RemoveAt(w.rows, i)]

\* Mutant: the time is rounded up.
RoundedUp(w, o, minute) ==
  [w EXCEPT !.activity[o.key][o.copy] = minute + 1, !.updated[o.key] = minute + 1]

\* updateIf(), of the column and the object.
Stored(w, o, minute) ==
  [w EXCEPT !.activity[o.key][o.copy] = minute, !.updated[o.key] = minute]

\* Conversation::touchLastActivity(): nothing happens in the minute of the last one.
TouchLastActivity(w, o, minute) ==
  IF w.activity[o.key][o.copy] = minute THEN w
  ELSE OnConversationTouched(Stored(w, o, minute), o.key)
=============================================================================
