----------------------------- MODULE ObjectCache -----------------------------
(***************************************************************************)
(* How managers keep one object for each row of a table: a registry of     *)
(* weak pointers finds the object of a row as long as anybody holds it, and *)
(* a list of the most recently used ones holds some of them.               *)
(*                                                                         *)
(* An object is the key of its row and the number of the copy; copy 0 is   *)
(* none.  The program is a record: its registry, its lru list, the time of *)
(* the last activity of every copy, and the column it is loaded from.      *)
(***************************************************************************)
EXTENDS Naturals, FiniteSets, Sequences, SequencesExt

CONSTANTS
  Keys,       \* the rows there may be
  CacheSize   \* size_ of the LruCache: 32

ASSUME CacheAssumption == CacheSize \in Nat \ {0}

Copies == 1..2
NoKey == "none"

ASSUME KeysAssumption == IsFiniteSet(Keys) /\ NoKey \notin Keys

Nothing == [key |-> NoKey, copy |-> 0]
Objects == [key : Keys, copy : Copies]

\* LruCache::touch(): a new object makes room for itself at size_, not above it.
Touched(lru, o) ==
  IF Contains(lru, o) THEN <<o>> \o RemoveFirst(lru, o)
  ELSE IF Len(lru) + 1 >= CacheSize THEN Front(<<o>> \o lru)
  ELSE <<o>> \o lru

\* Mutant: what was loaded is not registered.
NotRegistered(w, o) == w

\* Registry::add().
Registered(w, o) == [w EXCEPT !.registry[o.key] = o.copy]

\* Registry::fetch(): the copy that is registered, if it is still alive.
Fetched(w, held, key) ==
  LET o == [key |-> key, copy |-> w.registry[key]]
  IN IF o \in held THEN o ELSE Nothing

\* The first copy of which nothing is left.
FreshCopy(held, key) ==
  [key |-> key, copy |-> CHOOSE n \in Copies : [key |-> key, copy |-> n] \notin held
                                          /\ \A m \in 1..n - 1 : [key |-> key, copy |-> m] \in held]

\* A manager's getX(): the object of the row, loaded if there is none; it is the
\* first one of the lru list of the result.
Get(w, held, key) ==
  LET known == Fetched(w, held, key)
      o == IF known = Nothing THEN FreshCopy(held, key) ELSE known
      loaded == IF known = Nothing
                THEN Registered([w EXCEPT !.activity[key][o.copy] = w.updated[key]], o)
                ELSE w
  IN [object |-> o, program |-> [loaded EXCEPT !.lru = Touched(w.lru, o)]]
=============================================================================
