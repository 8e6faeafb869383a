--------------------------- MODULE MainWindowProofs ---------------------------
(***************************************************************************)
(* Theorems about MainWindow, for any number of contacts, identities,      *)
(* messages and files, and any size of the cache.                          *)
(***************************************************************************)
EXTENDS MainWindow, SequenceLemmas, FiniteSetTheorems, WellFoundedInduction

(***************************************************************************)
(* The inductive invariant.                                                *)
(***************************************************************************)

\* The conversations of the shown identity.
Shown(v) == {k \in Keys : Owner[k] = v.identity /\ v.updated[k] # 0}

Rows == Seq([key : Keys, copy : {0} \cup Copies])

\* Each of these keys has one row, the latest first.
InOrder(rows, updated, keys) ==
  /\ \A i \in 1..Len(rows) : rows[i].key \in keys
  /\ \A k \in keys : \E i \in 1..Len(rows) : rows[i].key = k
  /\ \A i, j \in 1..Len(rows) : i < j =>
       /\ rows[i].key # rows[j].key
       /\ updated[rows[i].key] >= updated[rows[j].key]

Ordered(v) == InOrder(v.rows, v.updated, Shown(v))

\* No conversation is newer than now.
Timed(v, now) == \A k \in Keys : v.updated[k] <= now

\* What is held is the registered object of a row of the table: a weak pointer that
\* still finds its object finds the only one.
One(v) == \A o \in Held(v) : v.registry[o.key] = o.copy /\ v.updated[o.key] # 0

\* The current conversation is that of the messages, and has a row.
Followed(v) ==
  /\ v.conversation = v.current
  /\ v.currentRow = 0 <=> v.current = Nothing
  /\ v.current # Nothing => v.current \in ToSet(v.rows)

\* The list view stands on the current conversation, wherever its row is now.
Stands(v) == v.index = v.currentRow /\ v.item = v.current.key

\* Each of these messages and files has one line, and what was copied is still so.
Covers(lines, messages, files, key) ==
  /\ \A i \in Belongs(messages, key) :
       \E n \in 1..Len(lines) : lines[n].kind = "MESSAGE" /\ lines[n].id = i
  /\ \A i \in Belongs(files, key) :
       \E n \in 1..Len(lines) : lines[n].kind = "FILE" /\ lines[n].id = i
  /\ \A n \in 1..Len(lines) :
       IF lines[n].kind = "MESSAGE"
       THEN /\ lines[n].id \in Belongs(messages, key)
            /\ lines[n].content \in {Unloaded, messages[lines[n].id].content}
       ELSE lines[n].id \in Belongs(files, key)
  /\ \A n, m \in 1..Len(lines) :
       n # m => lines[n].kind # lines[m].kind \/ lines[n].id # lines[m].id

Complete(v) == Covers(v.lines, v.messages, v.files, v.conversation.key)

\* What every operator preserves.
Sound(v, now) ==
  /\ v \in Programs
  /\ Timed(v, now)
  /\ One(v)
  /\ Ordered(v)
  /\ Followed(v)
  /\ Complete(v)

IInv ==
  /\ TypeOK
  /\ Sound(w, minute)
  /\ Stands(w)
(***************************************************************************)
(* Places in sequences.                                                    *)
(***************************************************************************)

\* A set of naturals has a least element.
LEMMA LeastOfNat ==
  ASSUME NEW T, T \subseteq Nat, T # {}
  PROVE  /\ Min(T) \in T
         /\ \A y \in T : Min(T) <= y
<1>1. PICK x \in T : \A y \in T : ~(<<y, x>> \in OpToRel(<, Nat))
  BY Zenon, NatLessThanWellFounded, WFMin
<1>2. \A y \in T : ~(y < x)
  BY <1>1 DEF OpToRel
<1>3. \A y \in T : x <= y
  BY <1>2
<1> QED
  BY <1>3 DEF Min

\* PositionOf() finds a row of the key, if there is one.
LEMMA Position ==
  ASSUME NEW S, NEW rows \in Seq(S), NEW key
  PROVE  /\ PositionOf(rows, key) \in 0..Len(rows)
         /\ PositionOf(rows, key) # 0 => rows[PositionOf(rows, key)].key = key
         /\ PositionOf(rows, key) = 0 => \A i \in 1..Len(rows) : rows[i].key # key
<1> DEFINE I == {i \in 1..Len(rows) : rows[i].key = key}
<1>1. PositionOf(rows, key) = IF I # {} THEN Min(I) ELSE 0
  BY DEF PositionOf, SelectInSeq
<1>2. I \subseteq Nat
  OBVIOUS
<1> HIDE DEF I
<1>4. I # {} => Min(I) \in I
  BY <1>2, LeastOfNat, Zenon
<1> USE DEF I
<1>3. Len(rows) \in Nat
  OBVIOUS
<1> QED
  BY <1>1, <1>4, <1>3

\* The line of a message is found.
LineAt(lines, id) ==
  LET I == {i \in 1..Len(lines) : lines[i].kind = "MESSAGE" /\ lines[i].id = id}
  IN IF I # {} THEN Min(I) ELSE 0

LEMMA LineOf ==
  ASSUME NEW S, NEW lines \in Seq(S), NEW id,
         NEW k \in 1..Len(lines), lines[k].kind = "MESSAGE", lines[k].id = id
  PROVE  LET n == LineAt(lines, id)
         IN n \in 1..Len(lines) /\ lines[n].kind = "MESSAGE" /\ lines[n].id = id
<1> DEFINE I == {i \in 1..Len(lines) : lines[i].kind = "MESSAGE" /\ lines[i].id = id}
           n == LineAt(lines, id)
<1>1. n = IF I # {} THEN Min(I) ELSE 0
  BY DEF LineAt
<1>2. I \subseteq Nat /\ k \in I
  OBVIOUS
<1> HIDE DEF I
<1>3. Min(I) \in I
  BY <1>2, LeastOfNat, Zenon
<1> USE DEF I
<1> QED
  BY <1>1, <1>2, <1>3

\* Without the element at i.
LEMMA Removed ==
  ASSUME NEW S, NEW s \in Seq(S), NEW i \in 1..Len(s)
  PROVE  /\ RemoveAt(s, i) \in Seq(S)
         /\ Len(RemoveAt(s, i)) = Len(s) - 1
         /\ \A j \in 1..Len(s) - 1 : RemoveAt(s, i)[j] = IF j < i THEN s[j] ELSE s[j + 1]
<1> DEFINE a == SubSeq(s, 1, i - 1)
           b == SubSeq(s, i + 1, Len(s))
<1>0. Len(s) \in Nat /\ i \in Nat
  OBVIOUS
<1>1. a \in Seq(S) /\ Len(a) = i - 1 /\ \A j \in 1..i - 1 : a[j] = s[j]
  BY <1>0
<1>2. b \in Seq(S) /\ Len(b) = Len(s) - i /\ \A j \in 1..Len(s) - i : b[j] = s[i + j]
  BY <1>0
<1>3. RemoveAt(s, i) = a \o b
  BY DEF RemoveAt
<1> HIDE DEF a, b
<1>4. a \o b \in Seq(S) /\ Len(a \o b) = Len(s) - 1
  <2>1. a \in Seq(S) /\ b \in Seq(S)
    BY <1>1, <1>2
  <2>2. a \o b \in Seq(S) /\ Len(a \o b) = Len(a) + Len(b)
    BY <2>1, ConcatProperties
  <2> QED
    BY <2>2, <1>0, <1>1, <1>2
<1>5. \A j \in 1..Len(s) - 1 : (a \o b)[j] = IF j <= i - 1 THEN a[j] ELSE b[j - (i - 1)]
  BY <1>0, <1>1, <1>2
<1>6. ASSUME NEW j \in 1..Len(s) - 1
      PROVE  (a \o b)[j] = IF j < i THEN s[j] ELSE s[j + 1]
  <2>1. CASE j < i
    BY <2>1, <1>0, <1>1, <1>5
  <2>2. CASE ~(j < i)
    <3>1. j - (i - 1) \in 1..Len(s) - i /\ i + (j - (i - 1)) = j + 1
      BY <2>2, <1>0
    <3>2. (a \o b)[j] = b[j - (i - 1)]
      <4>1. ~(j <= i - 1)
        BY <2>2, <1>0
      <4> QED
        BY <4>1, <1>5, Zenon
    <3>3. b[j - (i - 1)] = s[i + (j - (i - 1))]
      BY <3>1, <1>2
    <3> QED
      BY <2>2, <3>1, <3>2, <3>3
  <2> QED
    BY <2>1, <2>2
<1> QED
  BY <1>3, <1>4, <1>6

\* One element in front.
LEMMA InFront ==
  ASSUME NEW S, NEW s \in Seq(S), NEW e \in S
  PROVE  /\ <<e>> \o s \in Seq(S)
         /\ Len(<<e>> \o s) = Len(s) + 1
         /\ (<<e>> \o s)[1] = e
         /\ \A j \in 2..Len(s) + 1 : (<<e>> \o s)[j] = s[j - 1]
         /\ ToSet(<<e>> \o s) = {e} \cup ToSet(s)
<1>1. <<e>> \in Seq(S) /\ Len(<<e>>) = 1 /\ <<e>>[1] = e /\ Len(s) \in Nat
  OBVIOUS
<1>2. ToSet(<<e>>) = {e}
  <2>1. ToSet(<<e>>) = {<<e>>[i] : i \in 1..Len(<<e>>)}
    BY <1>1, InToSet, Zenon
  <2>2. 1..Len(<<e>>) = {1}
    BY <1>1
  <2>3. {<<e>>[i] : i \in 1..Len(<<e>>)} = {<<e>>[1]}
    BY <2>2, Zenon
  <2> QED
    BY <2>1, <2>3, <1>1, Zenon
<1>3. <<e>> \o s \in Seq(S) /\ ToSet(<<e>> \o s) = ToSet(<<e>>) \cup ToSet(s)
  BY <1>1, ToSetConcat, Zenon
<1>4. /\ Len(<<e>> \o s) = Len(s) + 1
      /\ \A j \in 1..Len(s) + 1 : (<<e>> \o s)[j] = IF j <= 1 THEN <<e>>[j] ELSE s[j - 1]
  BY <1>1
<1> QED
  BY <1>1, <1>2, <1>3, <1>4

\* Without the last element.
LEMMA Shortened ==
  ASSUME NEW S, NEW s \in Seq(S), s # <<>>
  PROVE  /\ Front(s) \in Seq(S)
         /\ ToSet(Front(s)) \subseteq ToSet(s)
<1>1. Len(s) \in Nat \ {0} /\ Front(s) = SubSeq(s, 1, Len(s) - 1)
  BY DEF Front
<1>2. /\ Front(s) \in Seq(S)
      /\ Len(Front(s)) = Len(s) - 1
      /\ \A i \in 1..Len(s) - 1 : Front(s)[i] = s[i]
  <2>1. 1 \in Int /\ Len(s) - 1 \in Int /\ \A i \in 1..Len(s) - 1 : s[i] \in S
    BY <1>1
  <2>2. PICK n \in Int : n = Len(s) - 1 /\ \A i \in 1..n : s[i] \in S
    BY <2>1
  <2>3. /\ SubSeq(s, 1, n) \in Seq(S)
        /\ Len(SubSeq(s, 1, n)) = IF 1 <= n THEN n - 1 + 1 ELSE 0
        /\ \A i \in 1..n - 1 + 1 : SubSeq(s, 1, n)[i] = s[1 + i - 1]
    BY <2>1, <2>2, SubSeqProperties
  <2>4. n - 1 + 1 = n /\ \A i \in 1..n : 1 + i - 1 = i
    BY <2>2
  <2> QED
    BY <1>1, <2>2, <2>3, <2>4
<1>3. PICK t \in Seq(S) : t = Front(s)
  BY <1>2
<1>4. ToSet(t) = {t[i] : i \in 1..Len(t)} /\ ToSet(s) = {s[i] : i \in 1..Len(s)}
  BY InToSet
<1> QED
  BY <1>1, <1>2, <1>3, <1>4

\* A cache that is touched holds nothing new but o.
LEMMA TouchedHolds ==
  ASSUME NEW lru \in Seq(Objects), NEW o \in Objects
  PROVE  /\ Touched(lru, o) \in Seq(Objects)
         /\ ToSet(Touched(lru, o)) \subseteq {o} \cup ToSet(lru)
<1>1. /\ <<o>> \o lru \in Seq(Objects) /\ Len(<<o>> \o lru) = Len(lru) + 1
      /\ ToSet(<<o>> \o lru) = {o} \cup ToSet(lru)
  BY InFront
<1>2. /\ RemoveFirst(lru, o) \in Seq(Objects)
      /\ ToSet(RemoveFirst(lru, o)) \subseteq ToSet(lru)
  <2> DEFINE I == {i \in 1..Len(lru) : lru[i] = o}
             n == SelectInSeq(lru, LAMBDA v : v = o)
  <2>1. CASE \E i \in 1..Len(lru) : lru[i] = o
    <3>1. n = IF I # {} THEN Min(I) ELSE 0
      BY DEF SelectInSeq
    <3>2. I \subseteq Nat /\ I # {}
      BY <2>1
    <3> HIDE DEF I
    <3>3. Min(I) \in I
      BY <3>2, LeastOfNat, Zenon
    <3> USE DEF I
    <3>4. n \in 1..Len(lru)
      BY <3>1, <3>2, <3>3
    <3>5. RemoveFirst(lru, o) = RemoveAt(lru, n)
      BY <2>1 DEF RemoveFirst
    <3> HIDE DEF n
    <3>6. PICK t \in Seq(Objects) :
            /\ t = RemoveAt(lru, n)
            /\ Len(t) = Len(lru) - 1
            /\ \A j \in 1..Len(lru) - 1 : t[j] = IF j < n THEN lru[j] ELSE lru[j + 1]
      BY <3>4, Removed, Zenon
    <3>7. ToSet(t) = {t[i] : i \in 1..Len(t)} /\ ToSet(lru) = {lru[i] : i \in 1..Len(lru)}
      BY InToSet
    <3>8. Len(lru) \in Nat
      OBVIOUS
    <3>9. ASSUME NEW j \in 1..Len(t)
          PROVE  t[j] \in ToSet(lru)
      <4>1. j \in 1..Len(lru) /\ j + 1 \in 1..Len(lru)
        BY <3>6, <3>8
      <4> QED
        BY <4>1, <3>6, <3>7
    <3> QED
      BY <3>5, <3>6, <3>7, <3>9
  <2>2. CASE ~\E i \in 1..Len(lru) : lru[i] = o
    BY <2>2 DEF RemoveFirst
  <2> QED
    BY <2>1, <2>2
<1>3. /\ <<o>> \o RemoveFirst(lru, o) \in Seq(Objects)
      /\ ToSet(<<o>> \o RemoveFirst(lru, o)) = {o} \cup ToSet(RemoveFirst(lru, o))
  BY <1>2, InFront
<1>4. /\ Front(<<o>> \o lru) \in Seq(Objects)
      /\ ToSet(Front(<<o>> \o lru)) \subseteq ToSet(<<o>> \o lru)
  <2>1. <<o>> \o lru # <<>>
    <3>1. Len(<<o>> \o lru) # 0
      BY <1>1
    <3> QED
      BY <3>1, <1>1
  <2> QED
    BY <2>1, <1>1, Shortened
<1> QED
  BY <1>1, <1>2, <1>3, <1>4 DEF Touched

\* SetToSeq() has every element once.
LEMMA SetAsSequence ==
  ASSUME NEW S, IsFiniteSet(S)
  PROVE  /\ SetToSeq(S) \in Seq(S)
         /\ \A i, j \in 1..Len(SetToSeq(S)) : i # j => SetToSeq(S)[i] # SetToSeq(S)[j]
         /\ \A x \in S : \E i \in 1..Len(SetToSeq(S)) : SetToSeq(S)[i] = x
         /\ Len(SetToSeq(S)) = Cardinality(S)
<1> DEFINE n == Cardinality(S)
           s == SetToSeq(S)
<1>1. n \in Nat /\ ExistsBijection(1..n, S)
  BY FS_CardinalityType
<1>2. \E f \in [1..n -> S] : IsInjective(f)
  BY <1>1 DEF ExistsBijection, Bijection, Injection, IsInjective
<1>3. s \in [1..n -> S] /\ IsInjective(s)
  BY <1>2 DEF SetToSeq
<1> HIDE DEF s
<1>4. s \in Seq(S) /\ Len(s) = n
  BY <1>1, <1>3
<1>5. \A i, j \in 1..n : i # j => s[i] # s[j]
  BY <1>3 DEF IsInjective
<1>6. \A x \in S : \E i \in 1..n : s[i] = x
  <2>1. s \in Injection(1..n, S)
    BY <1>3 DEF Injection, IsInjective
  <2>2. IsFiniteSet(1..n) /\ Cardinality(1..n) = n
    BY <1>1, FS_Interval
  <2>3. s \in Surjection(1..n, S)
    BY <2>1, <2>2, FS_Injection
  <2> QED
    BY <2>3 DEF Surjection
<1> QED
  BY <1>4, <1>5, <1>6 DEF s

(***************************************************************************)
(* Rows and listings.                                                      *)
(***************************************************************************)

\* There are not more rows than keys.
LEMMA FewRows ==
  ASSUME NEW keys \in SUBSET Keys, NEW rows \in Rows,
         \A i \in 1..Len(rows) : rows[i].key \in keys,
         \A k \in keys : \E i \in 1..Len(rows) : rows[i].key = k,
         \A i, j \in 1..Len(rows) : i < j => rows[i].key # rows[j].key
  PROVE  /\ IsFiniteSet(keys)
         /\ Cardinality(keys) = Len(rows)
         /\ Cardinality(Keys) \in Nat
         /\ Len(rows) <= Cardinality(Keys)
         /\ [i \in DOMAIN rows |-> rows[i].key] \in SetToSeqs(keys)
<1> DEFINE f == [i \in 1..Len(rows) |-> rows[i].key]
<1>1. Len(rows) \in Nat /\ DOMAIN rows = 1..Len(rows)
  BY DEF Rows
<1>2. IsFiniteSet(keys) /\ Cardinality(keys) <= Cardinality(Keys) /\ Cardinality(Keys) \in Nat
  BY KeysAssumption, FS_Subset, FS_CardinalityType
<1>3. f \in [1..Len(rows) -> keys]
  OBVIOUS
<1>4. \A i, j \in 1..Len(rows) : i # j => f[i] # f[j]
  <2> TAKE i, j \in 1..Len(rows)
  <2>1. CASE i < j
    BY <2>1
  <2>2. CASE j < i
    BY <2>2
  <2> QED
    BY <2>1, <2>2, <1>1
<1>5. \A k \in keys : \E i \in 1..Len(rows) : f[i] = k
  OBVIOUS
<1> HIDE DEF f
<1>6. f \in Bijection(1..Len(rows), keys)
  BY <1>3, <1>4, <1>5 DEF Bijection, Injection, Surjection, IsInjective
<1>7. IsFiniteSet(1..Len(rows)) /\ Cardinality(1..Len(rows)) = Len(rows)
  BY <1>1, FS_Interval
<1>8. ExistsBijection(1..Len(rows), keys)
  BY <1>6 DEF ExistsBijection
<1>9. Cardinality(keys) = Len(rows)
  BY <1>7, <1>8, FS_Bijection
<1>10. f \in SetToSeqs(keys)
  BY <1>3, <1>4, <1>9 DEF SetToSeqs
<1> QED
  BY <1>1, <1>2, <1>9, <1>10 DEF f

\* Every key of a listing is there once.
LEMMA ListingIsComplete ==
  ASSUME NEW keys \in SUBSET Keys, NEW s \in SetToSeqs(keys)
  PROVE  /\ s \in Seq(keys)
         /\ \A i, j \in 1..Len(s) : i # j => s[i] # s[j]
         /\ \A k \in keys : \E i \in 1..Len(s) : s[i] = k
<1> DEFINE n == Cardinality(keys)
<1>1. IsFiniteSet(keys) /\ n \in Nat
  BY KeysAssumption, FS_Subset, FS_CardinalityType
<1>2. s \in [1..n -> keys] /\ \A i, j \in 1..n : i # j => s[i] # s[j]
  BY DEF SetToSeqs
<1>3. s \in Seq(keys) /\ Len(s) = n
  BY <1>1, <1>2
<1>4. s \in Injection(1..n, keys)
  BY <1>2 DEF Injection, IsInjective
<1>5. IsFiniteSet(1..n) /\ Cardinality(1..n) = n
  BY <1>1, FS_Interval
<1>6. s \in Surjection(1..n, keys)
  BY <1>1, <1>4, <1>5, FS_Injection
<1> QED
  BY <1>2, <1>3, <1>6 DEF Surjection

\* Ordered rows are a listing of the table.
LEMMA OrderedIsListing ==
  ASSUME NEW v \in Programs, Ordered(v)
  PROVE  [i \in DOMAIN v.rows |-> v.rows[i].key] \in Listings(v, v.identity)
<1> DEFINE f == [i \in DOMAIN v.rows |-> v.rows[i].key]
<1>1. v.rows \in Rows /\ DOMAIN v.rows = 1..Len(v.rows)
  BY DEF Programs, Rows
<1>2. f \in SetToSeqs(Shown(v))
  <2>1. /\ Shown(v) \in SUBSET Keys
        /\ \A i \in 1..Len(v.rows) : v.rows[i].key \in Shown(v)
        /\ \A k \in Shown(v) : \E i \in 1..Len(v.rows) : v.rows[i].key = k
        /\ \A i, j \in 1..Len(v.rows) : i < j => v.rows[i].key # v.rows[j].key
    BY DEF Ordered, InOrder, Shown
  <2> QED
    BY <2>1, <1>1, FewRows
<1>3. \A i, j \in DOMAIN f : i < j => v.updated[f[i]] >= v.updated[f[j]]
  BY <1>1 DEF Ordered, InOrder
<1> HIDE DEF f
<1>4. f \in Listings(v, v.identity)
  BY <1>2, <1>3 DEF Listings, Shown
<1> QED
  BY <1>4 DEF f

\* The rows made of a listing are ordered.
LEMMA ListingIsOrdered ==
  ASSUME NEW v \in Programs, NEW identity, NEW s \in Listings(v, identity)
  PROVE  /\ s \in Seq(Keys)
         /\ [i \in DOMAIN s |-> Row(s[i])] \in Rows
         /\ Len([i \in DOMAIN s |-> Row(s[i])]) = Len(s)
         /\ InOrder([i \in DOMAIN s |-> Row(s[i])], v.updated,
                    {k \in Keys : Owner[k] = identity /\ v.updated[k] # 0})
<1> DEFINE keys == {k \in Keys : Owner[k] = identity /\ v.updated[k] # 0}
           rows == [i \in DOMAIN s |-> Row(s[i])]
<1>1. /\ s \in SetToSeqs(keys)
      /\ \A i, j \in DOMAIN s : i < j => v.updated[s[i]] >= v.updated[s[j]]
  BY DEF Listings
<1>2. /\ s \in Seq(keys)
      /\ \A i, j \in 1..Len(s) : i # j => s[i] # s[j]
      /\ \A k \in keys : \E i \in 1..Len(s) : s[i] = k
  <2>1. keys \in SUBSET Keys
    OBVIOUS
  <2> HIDE DEF keys
  <2> QED
    BY <1>1, <2>1, ListingIsComplete
<1>3. DOMAIN s = 1..Len(s) /\ Len(s) \in Nat /\ \A i \in 1..Len(s) : s[i] \in keys
  BY <1>2
<1>4. rows = [i \in 1..Len(s) |-> [key |-> s[i], copy |-> 0]]
  BY <1>3 DEF Row
<1>5. s \in Seq(Keys) /\ \A i \in 1..Len(s) : s[i] \in Keys
  BY <1>2, <1>3
<1>6. rows \in Seq([key : Keys, copy : {0} \cup Copies]) /\ Len(rows) = Len(s)
  BY <1>3, <1>4, <1>5
<1>7. \A i \in 1..Len(s) : rows[i].key = s[i]
  BY <1>4
<1> HIDE DEF rows, keys
<1>8. InOrder(rows, v.updated, keys)
  <2>1. \A i \in 1..Len(rows) : rows[i].key \in keys
    BY <1>3, <1>6, <1>7
  <2>2. \A k \in keys : \E i \in 1..Len(rows) : rows[i].key = k
    BY <1>2, <1>6, <1>7
  <2>3. \A i, j \in 1..Len(rows) : i < j =>
          rows[i].key # rows[j].key /\ v.updated[rows[i].key] >= v.updated[rows[j].key]
    BY <1>1, <1>2, <1>3, <1>6, <1>7
  <2> QED
    BY <2>1, <2>2, <2>3 DEF InOrder
<1> QED
  BY <1>5, <1>6, <1>8 DEF rows, keys, Rows

(***************************************************************************)
(* Objects and the cache.                                                  *)
(***************************************************************************)

\* What is not about the cache.
SameView(v, u) ==
  /\ u.running = v.running
  /\ u.updated = v.updated
  /\ u.messages = v.messages
  /\ u.files = v.files
  /\ u.local = v.local
  /\ u.identity = v.identity
  /\ u.rows = v.rows
  /\ u.currentRow = v.currentRow
  /\ u.current = v.current
  /\ u.index = v.index
  /\ u.item = v.item
  /\ u.conversation = v.conversation
  /\ u.lines = v.lines

\* The cache changed.
LEMMA CacheChanges ==
  ASSUME NEW v \in Programs, NEW registry \in [Keys -> {0} \cup Copies],
         NEW activity \in [Keys -> [Copies -> 0..MaxMinute]], NEW lru \in Seq(Objects)
  PROVE  /\ [v EXCEPT !.registry = registry, !.activity = activity, !.lru = lru] \in Programs
         /\ SameView(v, [v EXCEPT !.registry = registry, !.activity = activity, !.lru = lru])
BY DEF Programs, SameView

LEMMA OtherViewSound ==
  ASSUME NEW now, NEW v, Sound(v, now), NEW u \in Programs, SameView(v, u), One(u)
  PROVE  Sound(u, now)
BY DEF Sound, SameView, Timed, Ordered, Shown, Followed, Complete

\* What is held is an object.
LEMMA HeldObjects ==
  ASSUME NEW v \in Programs
  PROVE  Held(v) \subseteq Objects
<1>1. /\ v.lru \in Seq(Objects) /\ v.rows \in Seq([key : Keys, copy : {0} \cup Copies])
      /\ v.current \in Objects \cup {Nothing} /\ v.conversation \in Objects \cup {Nothing}
      /\ v.local \in Objects \cup {Nothing}
  BY DEF Programs
<1>2. ToSet(v.lru) \subseteq Objects /\ ToSet(v.rows) \subseteq [key : Keys, copy : {0} \cup Copies]
  BY <1>1, InToSet
<1>3. Nothing.copy = 0
  BY DEF Nothing
<1>4. \A o \in [key : Keys, copy : {0} \cup Copies] : o.copy # 0 => o \in Objects
  BY DEF Objects
<1> QED
  BY <1>1, <1>2, <1>3, <1>4 DEF Held

\* If no object of a row is held, the next one is the first.
LEMMA FreshIsFirst ==
  ASSUME NEW held, NEW key \in Keys, \A c \in Copies : [key |-> key, copy |-> c] \notin held
  PROVE  FreshCopy(held, key) = [key |-> key, copy |-> 1]
<1> DEFINE Free(n) == /\ [key |-> key, copy |-> n] \notin held
                      /\ \A m \in 1..n - 1 : [key |-> key, copy |-> m] \in held
<1>1. 1 \in Copies /\ Free(1)
  BY DEF Copies
<1>2. \A n \in Copies : Free(n) => n = 1
  BY DEF Copies
<1>3. (CHOOSE n \in Copies : Free(n)) = 1
  BY <1>1, <1>2
<1> QED
  BY <1>3 DEF FreshCopy

\* getX() gives the object of a row that is there.
LEMMA GetIsSound ==
  ASSUME NEW now, NEW v, Sound(v, now), NEW key \in Keys, v.updated[key] # 0
  PROVE  LET got == Get(v, Held(v), key)
         IN /\ got.object \in Objects
            /\ got.object.key = key
            /\ got.program.registry[key] = got.object.copy
            /\ Sound(got.program, now)
            /\ SameView(v, got.program)
<1> DEFINE got == Get(v, Held(v), key)
           known == Fetched(v, Held(v), key)
           o == got.object
           registry == IF known = Nothing THEN [v.registry EXCEPT ![key] = o.copy] ELSE v.registry
           activity == IF known = Nothing
                       THEN [v.activity EXCEPT ![key][o.copy] = v.updated[key]] ELSE v.activity
<1>1. /\ v \in Programs /\ One(v)
      /\ v.registry \in [Keys -> {0} \cup Copies] /\ v.lru \in Seq(Objects)
      /\ v.activity \in [Keys -> [Copies -> 0..MaxMinute]]
      /\ v.updated \in [Keys -> 0..MaxMinute]
  BY DEF Sound, Programs
<1>2. /\ o \in Objects /\ o.key = key
      /\ known = Nothing => /\ o = [key |-> key, copy |-> 1]
                            /\ \A q \in Held(v) : q.key # key
      /\ known # Nothing => o = known /\ v.registry[key] = o.copy
  <2>1. CASE known = Nothing
    <3>1. [key |-> key, copy |-> v.registry[key]] \notin Held(v)
      <4>1. [key |-> key, copy |-> v.registry[key]] # Nothing
        BY KeysAssumption DEF Nothing
      <4> QED
        BY <2>1, <4>1 DEF Fetched
    <3>2. \A q \in Held(v) : q = [key |-> q.key, copy |-> q.copy]
      BY <1>1, HeldObjects DEF Objects
    <3>3. \A q \in Held(v) : q.key # key
      BY <3>1, <3>2, <1>1 DEF One
    <3>4. o = FreshCopy(Held(v), key)
      BY <2>1 DEF Get
    <3>5. \A c \in Copies : [key |-> key, copy |-> c] \notin Held(v)
      BY <3>3
    <3>6. o = [key |-> key, copy |-> 1]
      BY <3>4, <3>5, FreshIsFirst
    <3> HIDE DEF got, known
    <3> QED
      BY <2>1, <3>3, <3>6 DEF Objects, Copies
  <2>2. CASE known # Nothing
    <3>1. /\ known = [key |-> key, copy |-> v.registry[key]]
          /\ known \in Held(v)
      BY <2>2 DEF Fetched
    <3>2. o = known
      BY <2>2 DEF Get
    <3>3. known \in Objects
      BY <3>1, <1>1, HeldObjects
    <3> HIDE DEF got, known
    <3> QED
      BY <2>2, <3>1, <3>2, <3>3
  <2> QED
    BY <2>1, <2>2
<1>3. got.program = [v EXCEPT !.registry = registry, !.activity = activity, !.lru = Touched(v.lru, o)]
  <2>1. CASE known = Nothing
    BY <2>1, <1>1, <1>2 DEF Get, Registered, Programs
  <2>2. CASE known # Nothing
    BY <2>2, <1>1, <1>2 DEF Get, Programs
  <2> QED
    BY <2>1, <2>2
<1> HIDE DEF got, known
<1>4. /\ registry \in [Keys -> {0} \cup Copies] /\ registry[key] = o.copy
      /\ activity \in [Keys -> [Copies -> 0..MaxMinute]]
  BY <1>1, <1>2 DEF Objects
<1>5. Touched(v.lru, o) \in Seq(Objects) /\ ToSet(Touched(v.lru, o)) \subseteq {o} \cup ToSet(v.lru)
  BY <1>1, <1>2, TouchedHolds
<1> HIDE DEF o
<1>6. PICK u : u = got.program
  OBVIOUS
<1>7. u \in Programs /\ SameView(v, u)
  <2> HIDE DEF registry, activity
  <2> DEFINE lru == Touched(v.lru, o)
             x == [v EXCEPT !.registry = registry, !.activity = activity, !.lru = lru]
  <2>1. lru \in Seq(Objects)
    BY <1>5
  <2> HIDE DEF lru
  <2>2. x \in Programs /\ SameView(v, x)
    BY <1>1, <1>4, <2>1, CacheChanges, Zenon
  <2>3. u = x
    BY <1>3, <1>6 DEF lru
  <2> QED
    BY <2>2, <2>3
<1>8. u.registry = registry /\ u.lru = Touched(v.lru, o)
  BY <1>1, <1>3, <1>6 DEF Programs
<1>9. Held(u) \subseteq {o} \cup Held(v)
  BY <1>5, <1>7, <1>8 DEF Held, SameView
<1>10. One(u)
  <2> SUFFICES ASSUME NEW q \in Held(u)
               PROVE  u.registry[q.key] = q.copy /\ u.updated[q.key] # 0
    BY DEF One
  <2>0. u.updated = v.updated
    BY <1>7 DEF SameView
  <2>1. CASE q = o
    BY <2>0, <2>1, <1>2, <1>4, <1>8
  <2>2. CASE q \in Held(v)
    <3>1. v.registry[q.key] = q.copy /\ v.updated[q.key] # 0 /\ q.key \in Keys
      BY <2>2, <1>1, HeldObjects DEF One, Objects
    <3>2. q.key # key \/ registry = v.registry
      BY <2>2, <1>2
    <3> QED
      BY <2>0, <3>1, <3>2, <1>1, <1>8
  <2> QED
    BY <2>1, <2>2, <1>9
<1> QED
  BY <1>2, <1>4, <1>6, <1>7, <1>8, <1>10, OtherViewSound DEF got, o

(***************************************************************************)
(* Rows that are loaded.                                                   *)
(***************************************************************************)

\* Nothing but rows was loaded.
Loaded(v, u) ==
  /\ u.updated = v.updated
  /\ u.local = v.local
  /\ u.currentRow = v.currentRow
  /\ u.current = v.current
  /\ u.index = v.index
  /\ u.item = v.item
  /\ Len(u.rows) = Len(v.rows)
  /\ \A j \in 1..Len(v.rows) :
       u.rows[j].key = v.rows[j].key /\ (v.rows[j].copy # 0 => u.rows[j] = v.rows[j])

\* A row has a conversation of the table.
LEMMA RowsAreStored ==
  ASSUME NEW now, NEW v, Sound(v, now), NEW i \in 1..Len(v.rows)
  PROVE  /\ v.rows[i].key \in Keys
         /\ v.updated[v.rows[i].key] # 0
         /\ v.rows[i].copy # 0 => v.rows[i] \in Objects
<1>0. v.rows \in Rows
  BY DEF Sound, Programs, Rows
<1>1. v.rows[i] \in [key : Keys, copy : {0} \cup Copies]
  BY <1>0, ElementOfSeq DEF Rows
<1>2. v.rows[i].key \in Shown(v)
  BY DEF Sound, Ordered, InOrder
<1> QED
  BY <1>1, <1>2 DEF Shown, Objects

\* The order is that of the keys.
LEMMA SameOrder ==
  ASSUME NEW rows, NEW updated, NEW keys, InOrder(rows, updated, keys),
         NEW rows2, Len(rows2) = Len(rows), \A j \in 1..Len(rows) : rows2[j].key = rows[j].key
  PROVE  InOrder(rows2, updated, keys)
BY DEF InOrder

LEMMA RowsChange ==
  ASSUME NEW v \in Programs, NEW rows \in Rows
  PROVE  [v EXCEPT !.rows = rows] \in Programs
BY DEF Programs, Rows

\* A row gets its object.
LEMMA RowFilled ==
  ASSUME NEW now, NEW v, Sound(v, now), NEW i \in 1..Len(v.rows), v.rows[i].copy = 0,
         NEW o \in Objects, o.key = v.rows[i].key, v.registry[o.key] = o.copy
  PROVE  /\ Sound([v EXCEPT !.rows[i] = o], now)
         /\ Loaded(v, [v EXCEPT !.rows[i] = o])
         /\ [v EXCEPT !.rows[i] = o].rows[i] = o
<1> DEFINE rows == [v.rows EXCEPT ![i] = o]
           x == [v EXCEPT !.rows = rows]
<1>1. /\ v \in Programs /\ v.rows \in Rows /\ Len(v.rows) \in Nat
      /\ \A j \in 1..Len(v.rows) : v.rows[j] \in [key : Keys, copy : {0} \cup Copies]
  <2>1. v \in Programs /\ v.rows \in Rows
    BY DEF Sound, Programs, Rows
  <2> QED
    BY <2>1, ElementOfSeq, LenProperties DEF Rows
<1>2. [v EXCEPT !.rows[i] = o] = x
  BY <1>1 DEF Programs
<1>3. o \in [key : Keys, copy : {0} \cup Copies] /\ o.copy # 0
  BY DEF Objects, Copies
<1>4. /\ rows \in Rows /\ Len(rows) = Len(v.rows) /\ rows[i] = o
      /\ \A j \in 1..Len(v.rows) : j # i => rows[j] = v.rows[j]
  BY <1>1, <1>3 DEF Rows
<1>5. \A j \in 1..Len(v.rows) : rows[j].key = v.rows[j].key
  BY <1>4
<1> HIDE DEF rows
<1>6. PICK u : u = x
  OBVIOUS
<1>13. u \in Programs
  BY <1>1, <1>4, <1>6, RowsChange, Zenon
<1>7. /\ u \in Programs
      /\ u.rows = rows
      /\ u.updated = v.updated /\ u.local = v.local /\ u.currentRow = v.currentRow
      /\ u.current = v.current /\ u.index = v.index /\ u.item = v.item
      /\ u.identity = v.identity /\ u.registry = v.registry /\ u.lru = v.lru
      /\ u.conversation = v.conversation /\ u.lines = v.lines
      /\ u.messages = v.messages /\ u.files = v.files
  BY <1>1, <1>6, <1>13 DEF Programs
<1>8. Loaded(v, u)
  BY <1>3, <1>4, <1>5, <1>7 DEF Loaded
<1>9. ToSet(rows) = {rows[j] : j \in 1..Len(rows)} /\ ToSet(v.rows) = {v.rows[j] : j \in 1..Len(v.rows)}
  BY <1>1, <1>4, InToSet DEF Rows
<1>10. One(u)
  <2>1. Held(u) \subseteq {o} \cup Held(v)
    <3>1. ToSet(rows) \subseteq {o} \cup ToSet(v.rows)
      BY <1>4, <1>9
    <3> QED
      BY <3>1, <1>7 DEF Held
  <2>2. v.updated[o.key] # 0
    BY RowsAreStored
  <2> QED
    BY <2>1, <2>2, <1>7 DEF One, Sound
<1>11. Ordered(u)
  <2>1. Shown(u) = Shown(v)
    BY <1>7 DEF Shown
  <2>2. InOrder(v.rows, v.updated, Shown(v))
    BY DEF Sound, Ordered
  <2>3. InOrder(rows, v.updated, Shown(v))
    BY <2>2, <1>4, <1>5, SameOrder
  <2> QED
    BY <2>1, <2>3, <1>7 DEF Ordered
<1>12. Followed(u)
  <2>1. ASSUME v.current # Nothing
        PROVE  v.current \in ToSet(rows)
    <3>1. v.current \in ToSet(v.rows) /\ v.current \in Objects
      BY <2>1 DEF Sound, Followed, Programs
    <3>2. PICK j \in 1..Len(v.rows) : v.current = v.rows[j]
      BY <3>1, <1>9
    <3>3. j # i
      BY <3>1, <3>2 DEF Objects, Copies
    <3> QED
      BY <3>2, <3>3, <1>4, <1>9
  <2> QED
    BY <2>1, <1>7 DEF Followed, Sound
<1>14. Timed(u, now) /\ Complete(u)
  BY <1>7 DEF Timed, Complete, Sound
<1> QED
  BY <1>2, <1>4, <1>6, <1>7, <1>8, <1>10, <1>11, <1>12, <1>14 DEF Sound

LEMMA LoadRowIsSound ==
  ASSUME NEW now, NEW v, Sound(v, now), NEW i \in 1..Len(v.rows)
  PROVE  /\ Sound(LoadRow(v, i), now)
         /\ Loaded(v, LoadRow(v, i))
         /\ LoadRow(v, i).rows[i] \in Objects
<1>1. CASE v.rows[i].copy # 0
  BY <1>1, RowsAreStored DEF LoadRow, Loaded
<1>2. CASE v.rows[i].copy = 0
  <2>1. PICK got : got = Get(v, Held(v), v.rows[i].key)
    OBVIOUS
  <2>2. /\ got.object \in Objects
        /\ got.object.key = v.rows[i].key
        /\ got.program.registry[v.rows[i].key] = got.object.copy
        /\ Sound(got.program, now)
        /\ SameView(v, got.program)
    BY <2>1, RowsAreStored, GetIsSound
  <2>3. got.program.rows = v.rows
    BY <2>2 DEF SameView
  <2>4. LoadRow(v, i) = [got.program EXCEPT !.rows[i] = got.object]
    BY <1>2, <2>1 DEF LoadRow
  <2>5. PICK u : u = [got.program EXCEPT !.rows[i] = got.object]
    OBVIOUS
  <2>6. Sound(u, now) /\ Loaded(got.program, u) /\ u.rows[i] = got.object
    BY <1>2, <2>2, <2>3, <2>5, RowFilled
  <2>7. Loaded(v, u)
    BY <2>2, <2>6 DEF Loaded, SameView
  <2> QED
    BY <2>2, <2>4, <2>5, <2>6, <2>7
<1> QED
  BY <1>1, <1>2

\* loaded is the program after each of the first n rows.
Loading(v, n, loaded) ==
  loaded = [i \in 0..n |-> IF i = 0 THEN v ELSE LoadRow(loaded[i - 1], i)]

LEMMA LoadingExists ==
  ASSUME NEW v, NEW n \in Nat
  PROVE  \E loaded : Loading(v, n, loaded)
<1> DEFINE T == {m \in Nat : ~\E loaded : Loading(v, m, loaded)}
<1>1. SUFFICES ASSUME T # {}
               PROVE  FALSE
  OBVIOUS
<1>2. T \subseteq Nat
  OBVIOUS
<1> DEFINE m == Min(T)
<1> HIDE DEF T
<1>3. m \in T /\ \A k \in T : m <= k
  BY <1>1, <1>2, LeastOfNat, Zenon
<1> HIDE DEF m
<1>4. m \in Nat /\ ~\E loaded : Loading(v, m, loaded)
  BY <1>3 DEF T
<1>5. m # 0
  <2> DEFINE f == [i \in 0..0 |-> v]
  <2>1. f = [i \in 0..0 |-> IF i = 0 THEN v ELSE LoadRow(f[i - 1], i)]
    OBVIOUS
  <2> HIDE DEF f
  <2>2. Loading(v, 0, f)
    BY <2>1 DEF Loading
  <2> QED
    BY <2>2, <1>4
<1>6. m - 1 \in Nat /\ m - 1 \notin T
  BY <1>3, <1>4, <1>5
<1>7. PICK f : Loading(v, m - 1, f)
  BY <1>6 DEF T
<1> DEFINE g == [i \in 0..m |-> IF i = m THEN LoadRow(f[m - 1], m) ELSE f[i]]
<1>8. f = [i \in 0..m - 1 |-> IF i = 0 THEN v ELSE LoadRow(f[i - 1], i)]
  BY <1>7 DEF Loading
<1>9. ASSUME NEW i \in 0..m
      PROVE  g[i] = IF i = 0 THEN v ELSE LoadRow(g[i - 1], i)
  <2>1. CASE i = m
    <3>1. i - 1 \in 0..m /\ i - 1 # m /\ i # 0
      BY <2>1, <1>4, <1>5
    <3> QED
      BY <2>1, <3>1
  <2>2. CASE i # m /\ i # 0
    <3>1. i - 1 \in 0..m /\ i - 1 # m /\ i \in 0..m - 1
      BY <2>2, <1>4
    <3>2. g[i] = f[i] /\ g[i - 1] = f[i - 1]
      BY <2>2, <3>1
    <3>3. f[i] = LoadRow(f[i - 1], i)
      BY <2>2, <3>1, <1>8
    <3> HIDE DEF g
    <3> QED
      BY <2>2, <3>2, <3>3
  <2>3. CASE i # m /\ i = 0
    <3>1. i \in 0..m - 1
      BY <2>3, <1>4
    <3>2. g[i] = f[i] /\ f[i] = v
      BY <2>3, <3>1, <1>8
    <3> HIDE DEF g
    <3> QED
      BY <2>3, <3>2
  <2> QED
    BY <2>1, <2>2, <2>3
<1>10. g = [i \in 0..m |-> IF i = 0 THEN v ELSE LoadRow(g[i - 1], i)]
  <2>1. g = [i \in 0..m |-> g[i]]
    OBVIOUS
  <2> HIDE DEF g
  <2> QED
    BY <2>1, <1>9
<1> HIDE DEF g
<1>11. Loading(v, m, g)
  BY <1>10 DEF Loading
<1> QED
  BY <1>4, <1>11

LEMMA RowsLoadedAreSound ==
  ASSUME NEW now, NEW v, Sound(v, now), NEW n \in 0..Len(v.rows)
  PROVE  /\ Sound(RowsLoaded(v, n), now)
         /\ Loaded(v, RowsLoaded(v, n))
         /\ \A j \in 1..n : RowsLoaded(v, n).rows[j] \in Objects
<1> DEFINE f == CHOOSE loaded : Loading(v, n, loaded)
<1>0. v.rows \in Rows /\ n \in Nat /\ Len(v.rows) \in Nat
  <2>1. v.rows \in Rows
    BY DEF Sound, Programs, Rows
  <2> QED
    BY <2>1, LenProperties DEF Rows
<1>1. Loading(v, n, f)
  BY <1>0, LoadingExists
<1>2. RowsLoaded(v, n) = f[n]
  BY DEF RowsLoaded, Loading
<1> HIDE DEF f
<1>3. /\ f[0] = v
      /\ \A i \in 1..n : f[i] = LoadRow(f[i - 1], i)
  BY <1>0, <1>1 DEF Loading
<1> DEFINE Good(i) == /\ Sound(f[i], now)
                      /\ Loaded(v, f[i])
                      /\ \A j \in 1..i : f[i].rows[j] \in Objects
           T == {i \in 0..n : ~Good(i)}
<1>4. Good(0)
  BY <1>3 DEF Loaded
<1>5. ASSUME NEW i \in 1..n, Good(i - 1)
      PROVE  Good(i)
  <2>1. PICK u : u = f[i - 1]
    OBVIOUS
  <2>2. Sound(u, now) /\ Loaded(v, u) /\ \A j \in 1..i - 1 : u.rows[j] \in Objects
    BY <2>1, <1>5
  <2>3. i \in 1..Len(u.rows)
    BY <2>2, <1>0 DEF Loaded
  <2>4. PICK x : x = LoadRow(u, i)
    OBVIOUS
  <2>5. Sound(x, now) /\ Loaded(u, x) /\ x.rows[i] \in Objects
    BY <2>2, <2>3, <2>4, LoadRowIsSound
  <2>6. f[i] = x
    BY <2>1, <2>4, <1>3
  <2>7. Loaded(v, x)
    BY <2>2, <2>5 DEF Loaded
  <2>8. ASSUME NEW j \in 1..i
        PROVE  x.rows[j] \in Objects
    <3>1. CASE j = i
      BY <3>1, <2>5
    <3>2. CASE j # i
      <4>1. j \in 1..i - 1 /\ j \in 1..Len(u.rows)
        BY <3>2, <2>3
      <4>2. u.rows[j] \in Objects /\ u.rows[j].copy # 0
        BY <4>1, <2>2 DEF Objects, Copies
      <4> QED
        BY <4>1, <4>2, <2>5 DEF Loaded
    <3> QED
      BY <3>1, <3>2
  <2> QED
    BY <2>5, <2>6, <2>7, <2>8
<1>6. T = {}
  <2> SUFFICES ASSUME T # {}
               PROVE  FALSE
    OBVIOUS
  <2>1. T \subseteq Nat
    BY <1>0
  <2> DEFINE m == Min(T)
  <2> HIDE DEF T
  <2>2. m \in T /\ \A k \in T : m <= k
    BY <2>1, LeastOfNat, Zenon
  <2> HIDE DEF m, Good
  <2>3. m \in 0..n /\ ~Good(m)
    BY <2>2 DEF T
  <2>4. m # 0
    BY <2>3, <1>4
  <2>5. m - 1 \in 0..n /\ m - 1 \notin T /\ m \in 1..n
    BY <2>2, <2>3, <2>4, <1>0
  <2>6. Good(m - 1)
    BY <2>5 DEF T
  <2> QED
    BY <2>3, <2>5, <2>6, <1>5
<1>7. Good(n)
  BY <1>0, <1>6
<1> QED
  BY <1>2, <1>7

(***************************************************************************)
(* The current row and the messages.                                       *)
(***************************************************************************)

Lines == Seq([kind : {"MESSAGE", "FILE"}, id : Nat, content : Contents \cup {Unloaded}])

\* What is queried is what is stored.
LEMMA QueriedLines ==
  ASSUME NEW v \in Programs, NEW key
  PROVE  /\ QueryLines(v, key) \in Lines
         /\ Covers(QueryLines(v, key), v.messages, v.files, key)
<1> DEFINE M == {Line("MESSAGE", i, Unloaded) : i \in Belongs(v.messages, key)}
           F == {Line("FILE", i, Unloaded) : i \in Belongs(v.files, key)}
           s == QueryLines(v, key)
<1>1. Len(v.messages) \in Nat /\ Len(v.files) \in Nat
  BY DEF Programs
<1>2. /\ Belongs(v.messages, key) \in SUBSET (1..Len(v.messages))
      /\ Belongs(v.files, key) \in SUBSET (1..Len(v.files))
  BY DEF Belongs
<1>3. IsFiniteSet(M \cup F)
  <2>0. 1 \in Int /\ Len(v.messages) \in Int /\ Len(v.files) \in Int
    BY <1>1
  <2>1. IsFiniteSet(1..Len(v.messages)) /\ IsFiniteSet(1..Len(v.files))
    BY <2>0, FS_Interval, Zenon
  <2>2. IsFiniteSet(Belongs(v.messages, key)) /\ IsFiniteSet(Belongs(v.files, key))
    BY <1>2, <2>1, FS_Subset
  <2>3. PICK m : m = [i \in Belongs(v.messages, key) |-> Line("MESSAGE", i, Unloaded)]
    OBVIOUS
  <2>4. PICK f : f = [i \in Belongs(v.files, key) |-> Line("FILE", i, Unloaded)]
    OBVIOUS
  <2>5. m \in Surjection(Belongs(v.messages, key), M) /\ f \in Surjection(Belongs(v.files, key), F)
    BY <2>3, <2>4 DEF Surjection
  <2> HIDE DEF M, F
  <2>6. IsFiniteSet(M) /\ IsFiniteSet(F)
    BY <2>2, <2>5, FS_Surjection
  <2> QED
    BY <2>6, FS_Union
<1>4. s = SetToSeq(M \cup F)
  BY DEF QueryLines
<1>5. M \cup F \subseteq [kind : {"MESSAGE", "FILE"}, id : Nat, content : Contents \cup {Unloaded}]
  BY <1>2 DEF Line
<1> HIDE DEF s
<1>6. /\ s \in Seq(M \cup F)
      /\ \A i, j \in 1..Len(s) : i # j => s[i] # s[j]
      /\ \A x \in M \cup F : \E i \in 1..Len(s) : s[i] = x
  <2> HIDE DEF M, F
  <2> QED
    BY <1>3, <1>4, SetAsSequence
<1>7. \A i \in 1..Len(s) : s[i] \in M \cup F
  <2> HIDE DEF M, F
  <2> QED
    BY <1>6, ElementOfSeq
<1>8. s \in Lines
  <2> HIDE DEF M, F
  <2> QED
    BY <1>5, <1>6, SeqMonotonic DEF Lines
<1>9. \A i \in Belongs(v.messages, key) :
        \E n \in 1..Len(s) : s[n].kind = "MESSAGE" /\ s[n].id = i
  <2> TAKE i \in Belongs(v.messages, key)
  <2>1. PICK n \in 1..Len(s) : s[n] = Line("MESSAGE", i, Unloaded)
    BY <1>6
  <2> QED
    BY <2>1 DEF Line
<1>10. \A i \in Belongs(v.files, key) :
         \E n \in 1..Len(s) : s[n].kind = "FILE" /\ s[n].id = i
  <2> TAKE i \in Belongs(v.files, key)
  <2>1. PICK n \in 1..Len(s) : s[n] = Line("FILE", i, Unloaded)
    BY <1>6
  <2> QED
    BY <2>1 DEF Line
<1>11. \A n \in 1..Len(s) :
         /\ s[n] = Line(s[n].kind, s[n].id, Unloaded)
         /\ IF s[n].kind = "MESSAGE"
            THEN /\ s[n].id \in Belongs(v.messages, key)
                 /\ s[n].content = Unloaded
            ELSE s[n].id \in Belongs(v.files, key)
  <2> TAKE n \in 1..Len(s)
  <2>1. CASE s[n] \in M
    BY <2>1 DEF Line
  <2>2. CASE s[n] \in F
    BY <2>2 DEF Line
  <2> QED
    BY <2>1, <2>2, <1>7
<1>12. \A n, m \in 1..Len(s) : n # m => s[n].kind # s[m].kind \/ s[n].id # s[m].id
  BY <1>6, <1>11
<1> HIDE DEF M, F
<1> QED
  BY <1>8, <1>9, <1>10, <1>11, <1>12 DEF Covers, s

\* There are not more rows than contacts.
LEMMA RowsFit ==
  ASSUME NEW now, NEW v, Sound(v, now)
  PROVE  /\ v.rows \in Rows
         /\ Len(v.rows) \in Nat
         /\ Cardinality(Keys) \in Nat
         /\ Len(v.rows) <= Cardinality(Keys)
<1>1. v.rows \in Rows /\ Ordered(v)
  BY DEF Sound, Programs, Rows
<1>2. Len(v.rows) \in Nat
  BY <1>1, LenProperties DEF Rows
<1>3. /\ Shown(v) \in SUBSET Keys
      /\ \A i \in 1..Len(v.rows) : v.rows[i].key \in Shown(v)
      /\ \A k \in Shown(v) : \E i \in 1..Len(v.rows) : v.rows[i].key = k
      /\ \A i, j \in 1..Len(v.rows) : i < j => v.rows[i].key # v.rows[j].key
  BY <1>1 DEF Ordered, InOrder, Shown
<1> QED
  BY <1>1, <1>2, <1>3, FewRows

\* The current row becomes i, and everything follows.
Selecting(v, i, o) ==
  SetConversation([v EXCEPT !.currentRow = i, !.current = o, !.index = i, !.item = o.key], o)

LEMMA ViewChanges ==
  ASSUME NEW v \in Programs, NEW i \in 0..Cardinality(Keys), NEW o \in Objects \cup {Nothing},
         NEW item \in Keys \cup {NoKey}, NEW lines \in Lines
  PROVE  [v EXCEPT !.currentRow = i, !.current = o, !.index = i, !.item = item,
                   !.conversation = o, !.lines = lines] \in Programs
BY DEF Programs, Lines

LEMMA RowSelected ==
  ASSUME NEW now, NEW v, Sound(v, now), NEW i \in 0..Len(v.rows),
         NEW o \in Objects \cup {Nothing}, i = 0 <=> o = Nothing, i # 0 => v.rows[i] = o,
         NEW u, u = Selecting(v, i, o)
  PROVE  Sound(u, now) /\ Stands(u) /\ u.updated = v.updated /\ u.currentRow = i
<1> DEFINE lines == IF o = v.conversation THEN v.lines ELSE QueryLines(v, o.key)
           x == [v EXCEPT !.currentRow = i, !.current = o, !.index = i, !.item = o.key,
                          !.conversation = o, !.lines = lines]
<1>1. /\ v \in Programs /\ v.rows \in Rows /\ v.lines \in Lines
      /\ v.conversation \in Objects \cup {Nothing}
  BY DEF Sound, Programs, Rows, Lines
<1>2. /\ lines \in Lines
      /\ Covers(lines, v.messages, v.files, o.key)
  <2>1. CASE o = v.conversation
    BY <2>1, <1>1 DEF Sound, Complete
  <2>2. CASE o # v.conversation
    BY <2>2, <1>1, QueriedLines
  <2> QED
    BY <2>1, <2>2
<1>3. u = x
  <2> DEFINE y == [v EXCEPT !.currentRow = i, !.current = o, !.index = i, !.item = o.key]
  <2>1. y.conversation = v.conversation /\ y.lines = v.lines
    BY <1>1 DEF Programs
  <2>2. QueryLines(y, o.key) = QueryLines(v, o.key)
    <3>1. y.messages = v.messages /\ y.files = v.files
      BY <1>1 DEF Programs
    <3> HIDE DEF y
    <3> QED
      BY <3>1 DEF QueryLines
  <2>3. u = IF o = y.conversation THEN y ELSE [y EXCEPT !.conversation = o, !.lines = QueryLines(y, o.key)]
    BY DEF SetConversation, Selecting
  <2>4. CASE o = v.conversation
    BY <2>1, <2>3, <2>4, <1>1 DEF Programs
  <2>5. CASE o # v.conversation
    BY <2>1, <2>2, <2>3, <2>5, <1>1 DEF Programs
  <2> QED
    BY <2>4, <2>5
<1>4. /\ i \in 0..Cardinality(Keys)
      /\ o.key \in Keys \cup {NoKey}
  BY RowsFit DEF Objects, Nothing
<1> HIDE DEF lines
<1>9. u \in Programs
  <2>1. [v EXCEPT !.currentRow = i, !.current = o, !.index = i, !.item = o.key,
                  !.conversation = o, !.lines = lines] \in Programs
    BY <1>1, <1>2, <1>4, ViewChanges, Zenon
  <2> QED
    BY <2>1, <1>3, Zenon
<1>5. /\ u \in Programs
      /\ u.rows = v.rows /\ u.updated = v.updated /\ u.local = v.local /\ u.lru = v.lru
      /\ u.identity = v.identity /\ u.registry = v.registry
      /\ u.messages = v.messages /\ u.files = v.files
      /\ u.currentRow = i /\ u.index = i /\ u.current = o /\ u.conversation = o
      /\ u.item = o.key /\ u.lines = lines
  BY <1>1, <1>3, <1>9 DEF Programs
<1>6. One(u)
  <2>1. i # 0 => o \in ToSet(v.rows)
    <3>1. ToSet(v.rows) = {v.rows[j] : j \in 1..Len(v.rows)}
      BY <1>1, InToSet DEF Rows
    <3> QED
      BY <3>1
  <2>2. Held(u) \subseteq Held(v)
    BY <2>1, <1>5 DEF Held, Nothing
  <2> QED
    BY <2>2, <1>5 DEF One, Sound
<1>7. Followed(u)
  <2>1. i # 0 => o \in ToSet(v.rows)
    <3>1. ToSet(v.rows) = {v.rows[j] : j \in 1..Len(v.rows)}
      BY <1>1, InToSet DEF Rows
    <3> QED
      BY <3>1
  <2> QED
    BY <2>1, <1>5 DEF Followed
<1>8. Timed(u, now) /\ Ordered(u) /\ Complete(u)
  BY <1>2, <1>5 DEF Sound, Timed, Ordered, Shown, Complete
<1> QED
  BY <1>5, <1>6, <1>7, <1>8 DEF Sound, Stands

LEMMA SetCurrentRowIsSound ==
  ASSUME NEW now, NEW v, Sound(v, now), NEW i \in 0..Len(v.rows)
  PROVE  /\ Sound(SetCurrentRow(v, i), now)
         /\ i # v.currentRow \/ Stands(v) => Stands(SetCurrentRow(v, i))
         /\ SetCurrentRow(v, i).updated = v.updated
         /\ SetCurrentRow(v, i).currentRow = i
<1>1. CASE i = v.currentRow
  BY <1>1 DEF SetCurrentRow
<1>2. CASE i # v.currentRow /\ i = 0
  <2>1. PICK u : u = Selecting(v, 0, Nothing)
    OBVIOUS
  <2>2. 0 \in 0..Len(v.rows) /\ Nothing \in Objects \cup {Nothing}
    BY <1>2
  <2>3. Sound(u, now) /\ Stands(u) /\ u.updated = v.updated /\ u.currentRow = 0
    BY <2>1, <2>2, RowSelected
  <2>4. SetCurrentRow(v, i) = u
    BY <1>2, <2>1 DEF SetCurrentRow, Selecting, Nothing
  <2> QED
    BY <1>2, <2>3, <2>4
<1>3. CASE i # v.currentRow /\ i # 0
  <2>0. i \in 1..Len(v.rows)
    BY <1>3
  <2>1. PICK l : l = LoadRow(v, i)
    OBVIOUS
  <2>2. Sound(l, now) /\ Loaded(v, l) /\ l.rows[i] \in Objects
    BY <2>0, <2>1, LoadRowIsSound
  <2>3. PICK o : o = l.rows[i]
    OBVIOUS
  <2>4. o \in Objects /\ o # Nothing /\ i \in 0..Len(l.rows)
    BY <2>2, <2>3 DEF Objects, Nothing, Copies, Loaded
  <2>5. PICK u : u = Selecting(l, i, o)
    OBVIOUS
  <2>6. Sound(u, now) /\ Stands(u) /\ u.updated = l.updated /\ u.currentRow = i
    BY <1>3, <2>2, <2>3, <2>4, <2>5, RowSelected
  <2>7. SetCurrentRow(v, i) = u
    BY <1>3, <2>1, <2>3, <2>5 DEF SetCurrentRow, Selecting
  <2> QED
    BY <2>2, <2>6, <2>7 DEF Loaded
<1> QED
  BY <1>1, <1>2, <1>3

\* Only the list view has moved.
Standing(v, i) == [v EXCEPT !.index = i, !.item = v.rows[i].key]

LEMMA IndexMoved ==
  ASSUME NEW now, NEW v, Sound(v, now), NEW i \in 1..Len(v.rows),
         NEW u, u = Standing(v, i)
  PROVE  /\ Sound(u, now)
         /\ u.rows = v.rows /\ u.updated = v.updated
         /\ u.currentRow = v.currentRow /\ u.current = v.current
         /\ u.index = i /\ u.item = v.rows[i].key
<1>1. v \in Programs /\ i \in 0..Cardinality(Keys) /\ v.rows[i].key \in Keys
  BY RowsFit, RowsAreStored DEF Sound
<1>2. PICK k : k = v.rows[i].key /\ u = [v EXCEPT !.index = i, !.item = k]
  BY DEF Standing
<1>3. u \in Programs
  BY <1>1, <1>2 DEF Programs
<1>4. /\ u.rows = v.rows /\ u.updated = v.updated /\ u.lru = v.lru
      /\ u.currentRow = v.currentRow /\ u.current = v.current
      /\ u.conversation = v.conversation /\ u.local = v.local /\ u.identity = v.identity
      /\ u.registry = v.registry /\ u.lines = v.lines
      /\ u.messages = v.messages /\ u.files = v.files
      /\ u.index = i /\ u.item = k
  BY <1>1, <1>2 DEF Programs
<1>5. Held(u) = Held(v)
  BY <1>4 DEF Held
<1>6. Timed(u, now) /\ One(u) /\ Ordered(u) /\ Followed(u) /\ Complete(u)
  BY <1>4, <1>5 DEF Sound, Timed, One, Ordered, Shown, Followed, Complete
<1> QED
  BY <1>2, <1>3, <1>4, <1>6 DEF Sound

\* The list view never stands on another row than the current one.
LEMMA SetIndexIsSound ==
  ASSUME NEW now, NEW v, Sound(v, now), NEW i \in 1..Len(v.rows),
         i # v.currentRow \/ v.rows[i].key = v.current.key
  PROVE  /\ Sound(SetIndex(v, i), now)
         /\ Stands(SetIndex(v, i))
         /\ SetIndex(v, i).updated = v.updated
<1>1. PICK y : y = Standing(v, i)
  OBVIOUS
<1>2. /\ Sound(y, now)
      /\ y.rows = v.rows /\ y.updated = v.updated
      /\ y.currentRow = v.currentRow /\ y.current = v.current
      /\ y.index = i /\ y.item = v.rows[i].key
  BY <1>1, IndexMoved
<1>3. i # y.currentRow \/ Stands(y)
  BY <1>2 DEF Stands
<1>4. i \in 0..Len(y.rows)
  BY <1>2, RowsFit
<1>5. SetIndex(v, i) = SetCurrentRow(y, i)
  BY <1>1 DEF SetIndex, Standing
<1> QED
  BY <1>2, <1>3, <1>4, <1>5, SetCurrentRowIsSound

LEMMA SetCurrentIsSound ==
  ASSUME NEW now, NEW v, Sound(v, now), Stands(v), NEW o
  PROVE  /\ Sound(SetCurrent(v, o), now)
         /\ Stands(SetCurrent(v, o))
         /\ SetCurrent(v, o).updated = v.updated
<1>1. PICK i : i = PositionOf(v.rows, o.key)
  OBVIOUS
<1>2. v.rows \in Rows /\ Len(v.rows) \in Nat
  BY RowsFit
<1>3. i \in 0..Len(v.rows)
  BY <1>1, <1>2, Position DEF Rows
<1>4. PICK n : n = IF i = 0 THEN Len(v.rows) ELSE i
  OBVIOUS
<1>5. n \in 0..Len(v.rows)
  BY <1>2, <1>3, <1>4
<1>6. PICK all : all = RowsLoaded(v, n)
  OBVIOUS
<1>7. Sound(all, now) /\ Loaded(v, all)
  BY <1>5, <1>6, RowsLoadedAreSound
<1>8. Stands(all) /\ i \in 0..Len(all.rows) /\ all.updated = v.updated
  BY <1>3, <1>7 DEF Stands, Loaded
<1>9. SetCurrent(v, o) = IF i # 0 /\ all.rows[i] = o THEN SetCurrentRow(all, i) ELSE all
  BY <1>1, <1>4, <1>6 DEF SetCurrent
<1> QED
  BY <1>7, <1>8, <1>9, SetCurrentRowIsSound

\* Whichever row is taken for that of an object nobody holds.
LEMMA SetCurrentsAreSound ==
  ASSUME NEW now, NEW v, Sound(v, now), Stands(v), NEW o, NEW u \in SetCurrents(v, o)
  PROVE  Sound(u, now) /\ Stands(u)
<1>1. CASE u = SetCurrent(v, o)
  BY <1>1, SetCurrentIsSound
<1>2. CASE \E n \in 0..Len(v.rows) : u = RowsLoaded(v, n)
  BY <1>2, RowsLoadedAreSound DEF Stands, Loaded
<1>3. CASE \E i \in 1..Len(v.rows) : u = SetCurrentRow(RowsLoaded(v, i), i)
  <2>1. PICK i \in 1..Len(v.rows) : u = SetCurrentRow(RowsLoaded(v, i), i)
    BY <1>3
  <2>2. PICK all : all = RowsLoaded(v, i)
    OBVIOUS
  <2>3. i \in 0..Len(v.rows)
    BY RowsFit
  <2>4. Sound(all, now) /\ Loaded(v, all)
    BY <2>2, <2>3, RowsLoadedAreSound
  <2>5. Stands(all) /\ i \in 0..Len(all.rows)
    BY <2>3, <2>4 DEF Stands, Loaded
  <2> QED
    BY <2>1, <2>2, <2>4, <2>5, SetCurrentRowIsSound
<1>4. TakenFor(v, o) \subseteq 1..Len(v.rows)
  BY DEF TakenFor
<1>5. Len(v.rows) \in 0..Len(v.rows)
  BY RowsFit
<1> QED
  BY <1>1, <1>2, <1>3, <1>4, <1>5 DEF SetCurrents

(***************************************************************************)
(* Activity.                                                               *)
(***************************************************************************)

\* A new conversation is the first row.
LEMMA FirstRow ==
  ASSUME NEW keys \in SUBSET Keys, NEW rows \in Rows, NEW updated \in [Keys -> 0..MaxMinute],
         InOrder(rows, updated, keys), NEW key \in Keys \ keys, NEW now \in Nat,
         \A k \in Keys : updated[k] <= now, NEW later, later = [updated EXCEPT ![key] = now]
  PROVE  /\ AddRow(rows, key) \in Rows
         /\ ToSet(AddRow(rows, key)) = {Row(key)} \cup ToSet(rows)
         /\ InOrder(AddRow(rows, key), later, keys \cup {key})
<1>1. Row(key) \in [key : Keys, copy : {0} \cup Copies] /\ Row(key).key = key
  BY DEF Row
<1>2. PICK new : new = AddRow(rows, key)
  OBVIOUS
<1>3. /\ new \in Rows
      /\ Len(new) = Len(rows) + 1
      /\ new[1] = Row(key)
      /\ \A j \in 2..Len(rows) + 1 : new[j] = rows[j - 1]
      /\ ToSet(new) = {Row(key)} \cup ToSet(rows)
  <2>1. PICK e \in [key : Keys, copy : {0} \cup Copies] : e = Row(key)
    BY <1>1
  <2>2. rows \in Seq([key : Keys, copy : {0} \cup Copies])
    BY DEF Rows
  <2>3. /\ <<e>> \o rows \in Seq([key : Keys, copy : {0} \cup Copies])
        /\ Len(<<e>> \o rows) = Len(rows) + 1
        /\ (<<e>> \o rows)[1] = e
        /\ \A j \in 2..Len(rows) + 1 : (<<e>> \o rows)[j] = rows[j - 1]
        /\ ToSet(<<e>> \o rows) = {e} \cup ToSet(rows)
    BY <2>2, InFront, Zenon
  <2> QED
    BY <2>1, <2>3, <1>2 DEF Rows, AddRow
<1>4. Len(rows) \in Nat
  BY LenProperties DEF Rows
<1>5. /\ \A i \in 1..Len(rows) : rows[i].key \in keys
      /\ \A k \in keys : \E i \in 1..Len(rows) : rows[i].key = k
      /\ \A i, j \in 1..Len(rows) : i < j =>
           /\ rows[i].key # rows[j].key
           /\ updated[rows[i].key] >= updated[rows[j].key]
  BY DEF InOrder
<1>6. /\ later[key] = now
      /\ \A k \in keys : later[k] = updated[k] /\ later[k] <= now
  OBVIOUS
<1>7. ASSUME NEW i \in 1..Len(new)
      PROVE  \/ i = 1 /\ new[i].key = key
             \/ i - 1 \in 1..Len(rows) /\ new[i].key = rows[i - 1].key
  <2>1. CASE i = 1
    BY <2>1, <1>1, <1>3
  <2>2. CASE i # 1
    <3>1. i \in 2..Len(rows) + 1 /\ i - 1 \in 1..Len(rows)
      BY <2>2, <1>3, <1>4
    <3> QED
      BY <3>1, <1>3
  <2> QED
    BY <2>1, <2>2
<1>8. \A i \in 1..Len(new) : new[i].key \in keys \cup {key}
  BY <1>5, <1>7
<1>9. ASSUME NEW k \in keys \cup {key}
      PROVE  \E i \in 1..Len(new) : new[i].key = k
  <2>1. CASE k = key
    <3>1. 1 \in 1..Len(new)
      BY <1>3, <1>4
    <3> QED
      BY <2>1, <3>1, <1>1, <1>3
  <2>2. CASE k \in keys
    <3>1. PICK i \in 1..Len(rows) : rows[i].key = k
      BY <2>2, <1>5
    <3>2. i + 1 \in 2..Len(rows) + 1 /\ i + 1 \in 1..Len(new) /\ (i + 1) - 1 = i
      BY <1>3, <1>4
    <3>3. new[i + 1] = rows[i]
      BY <3>2, <1>3
    <3> QED
      BY <3>1, <3>2, <3>3
  <2> QED
    BY <2>1, <2>2
<1>10. ASSUME NEW i \in 1..Len(new), NEW j \in 1..Len(new), i < j
       PROVE  /\ new[i].key # new[j].key
              /\ later[new[i].key] >= later[new[j].key]
  <2>1. j - 1 \in 1..Len(rows) /\ new[j].key = rows[j - 1].key /\ new[j].key \in keys
    BY <1>4, <1>5, <1>7, <1>10
  <2>2. CASE i = 1
    BY <2>1, <2>2, <1>1, <1>3, <1>6
  <2>3. CASE i # 1
    <3>1. i - 1 \in 1..Len(rows) /\ new[i].key = rows[i - 1].key /\ i - 1 < j - 1
      BY <2>3, <1>3, <1>4, <1>7, <1>10
    <3>2. /\ rows[i - 1].key # rows[j - 1].key
          /\ updated[rows[i - 1].key] >= updated[rows[j - 1].key]
      BY <2>1, <3>1, <1>5
    <3>3. new[i].key \in keys
      BY <3>1, <1>5
    <3> QED
      BY <2>1, <3>1, <3>2, <3>3, <1>6
  <2> QED
    BY <2>2, <2>3
<1> QED
  BY <1>2, <1>3, <1>8, <1>9, <1>10 DEF InOrder

\* The element at i moves to the front, and those before it move up.
Raised(s, i) == <<s[i]>> \o RemoveAt(s, i)
Before(i, j) == IF j = 1 THEN i ELSE IF j <= i THEN j - 1 ELSE j

LEMMA ToFront ==
  ASSUME NEW S, NEW s \in Seq(S), NEW i \in 1..Len(s)
  PROVE  /\ Raised(s, i) \in Seq(S)
         /\ Len(Raised(s, i)) = Len(s)
         /\ \A j \in 1..Len(s) :
              /\ Before(i, j) \in 1..Len(s)
              /\ Raised(s, i)[j] = s[Before(i, j)]
         /\ ToSet(Raised(s, i)) = ToSet(s)
<1>1. Len(s) \in Nat /\ s[i] \in S
  BY LenProperties, ElementOfSeq
<1>2. PICK rest \in Seq(S) :
        /\ rest = RemoveAt(s, i)
        /\ Len(rest) = Len(s) - 1
        /\ \A j \in 1..Len(s) - 1 : rest[j] = IF j < i THEN s[j] ELSE s[j + 1]
  BY Removed
<1>3. PICK e \in S : e = s[i]
  BY <1>1
<1>4. /\ <<e>> \o rest \in Seq(S)
      /\ Len(<<e>> \o rest) = Len(rest) + 1
      /\ (<<e>> \o rest)[1] = e
      /\ \A j \in 2..Len(rest) + 1 : (<<e>> \o rest)[j] = rest[j - 1]
  BY <1>2, <1>3, InFront
<1>5. PICK new \in Seq(S) : new = <<e>> \o rest
  BY <1>4
<1>6. /\ Len(new) = Len(s) /\ new[1] = s[i]
      /\ \A j \in 2..Len(s) : new[j] = rest[j - 1]
  BY <1>1, <1>2, <1>3, <1>4, <1>5
<1>7. \A j \in 1..Len(s) : Before(i, j) \in 1..Len(s) /\ new[j] = s[Before(i, j)]
  <2> TAKE j \in 1..Len(s)
  <2>1. CASE j = 1
    BY <2>1, <1>6 DEF Before
  <2>2. CASE j # 1 /\ j <= i
    <3>1. j \in 2..Len(s) /\ j - 1 \in 1..Len(s) - 1 /\ j - 1 < i
      BY <2>2, <1>1
    <3>2. new[j] = rest[j - 1] /\ rest[j - 1] = s[j - 1]
      BY <3>1, <1>2, <1>6
    <3>3. Before(i, j) = j - 1 /\ j - 1 \in 1..Len(s)
      BY <2>2, <3>1, <1>1 DEF Before
    <3> QED
      BY <3>2, <3>3
  <2>3. CASE j # 1 /\ ~(j <= i)
    <3>1. j \in 2..Len(s) /\ j - 1 \in 1..Len(s) - 1 /\ ~(j - 1 < i) /\ (j - 1) + 1 = j
      BY <2>3, <1>1
    <3>2. new[j] = rest[j - 1] /\ rest[j - 1] = s[(j - 1) + 1]
      BY <3>1, <1>2, <1>6
    <3>3. Before(i, j) = j
      BY <2>3 DEF Before
    <3> QED
      BY <3>1, <3>2, <3>3
  <2> QED
    BY <2>1, <2>2, <2>3
<1>8. \A n \in 1..Len(s) : \E j \in 1..Len(s) : Before(i, j) = n
  <2> TAKE n \in 1..Len(s)
  <2>1. CASE n = i
    <3>1. 1 \in 1..Len(s) /\ Before(i, 1) = n
      BY <2>1, <1>1 DEF Before
    <3> QED
      BY <3>1
  <2>2. CASE n < i
    <3>1. n + 1 \in 1..Len(s) /\ Before(i, n + 1) = n
      BY <2>2, <1>1 DEF Before
    <3> QED
      BY <3>1
  <2>3. CASE n > i
    <3>1. n \in 1..Len(s) /\ Before(i, n) = n
      BY <2>3, <1>1 DEF Before
    <3> QED
      BY <3>1
  <2> QED
    BY <2>1, <2>2, <2>3, <1>1
<1>9. ToSet(new) = ToSet(s)
  <2>4. new \in Seq(S)
    BY <1>5
  <2>5. ToSet(new) = {new[j] : j \in 1..Len(new)}
    BY <2>4, InToSet, Zenon
  <2>1. ToSet(new) = {new[j] : j \in 1..Len(new)} /\ ToSet(s) = {s[j] : j \in 1..Len(s)}
    BY <2>5, InToSet, Zenon
  <2>2. ASSUME NEW x \in ToSet(s)
        PROVE  x \in ToSet(new)
    <3>1. PICK n \in 1..Len(s) : x = s[n]
      BY <2>1
    <3>2. PICK j \in 1..Len(s) : Before(i, j) = n
      BY <1>8
    <3> QED
      BY <2>1, <3>1, <3>2, <1>6, <1>7
  <2>3. ASSUME NEW x \in ToSet(new)
        PROVE  x \in ToSet(s)
    <3>1. PICK j \in 1..Len(s) : x = new[j]
      BY <2>1, <1>6
    <3> QED
      BY <2>1, <3>1, <1>7
  <2> QED
    BY <2>2, <2>3
<1>10. Raised(s, i) = new
  BY <1>2, <1>3, <1>5 DEF Raised
<1> QED
  BY <1>6, <1>7, <1>9, <1>10

\* The row of the latest conversation moves to the front.
LEMMA MovedRow ==
  ASSUME NEW keys \in SUBSET Keys, NEW rows \in Rows, NEW updated \in [Keys -> 0..MaxMinute],
         InOrder(rows, updated, keys), NEW i \in 1..Len(rows), NEW now \in Nat,
         \A k \in Keys : updated[k] <= now
  PROVE  /\ Raised(rows, i) \in Rows
         /\ ToSet(Raised(rows, i)) = ToSet(rows)
         /\ InOrder(Raised(rows, i), [updated EXCEPT ![rows[i].key] = now], keys)
<1>2. PICK later : later = [updated EXCEPT ![rows[i].key] = now]
  OBVIOUS
<1>3. PICK new : new = Raised(rows, i)
  OBVIOUS
<1>1. rows \in Seq([key : Keys, copy : {0} \cup Copies]) /\ Len(rows) \in Nat
  BY LenProperties DEF Rows
<1> DEFINE Old(j) == Before(i, j)
<1>6. /\ new \in Seq([key : Keys, copy : {0} \cup Copies]) /\ Len(new) = Len(rows)
      /\ \A j \in 1..Len(rows) : Old(j) \in 1..Len(rows) /\ new[j] = rows[Old(j)]
      /\ ToSet(new) = ToSet(rows)
  <2>1. /\ Raised(rows, i) \in Seq([key : Keys, copy : {0} \cup Copies])
        /\ Len(Raised(rows, i)) = Len(rows)
        /\ \A j \in 1..Len(rows) :
             /\ Before(i, j) \in 1..Len(rows)
             /\ Raised(rows, i)[j] = rows[Before(i, j)]
        /\ ToSet(Raised(rows, i)) = ToSet(rows)
    BY <1>1, ToFront
  <2> QED
    BY <2>1, <1>3
<1>8. \A n \in 1..Len(rows) : \E j \in 1..Len(rows) : Old(j) = n
  <2> TAKE n \in 1..Len(rows)
  <2>1. PICK j : j = IF n = i THEN 1 ELSE IF n < i THEN n + 1 ELSE n
    OBVIOUS
  <2>2. j \in 1..Len(rows) /\ Old(j) = n
    BY <2>1, <1>1 DEF Before
  <2> QED
    BY <2>2
<1>9. \A j, m \in 1..Len(rows) : j < m =>
         /\ Old(m) # i
         /\ j # 1 => Old(j) < Old(m) /\ Old(j) # i
  BY <1>1 DEF Before
<1>11. /\ \A j \in 1..Len(rows) : rows[j].key \in keys
       /\ \A k \in keys : \E j \in 1..Len(rows) : rows[j].key = k
       /\ \A j, m \in 1..Len(rows) : j < m =>
            /\ rows[j].key # rows[m].key
            /\ updated[rows[j].key] >= updated[rows[m].key]
  BY DEF InOrder
<1>12. \A j \in 1..Len(new) : new[j].key \in keys
  <2> HIDE DEF Old
  <2> QED
    BY <1>6, <1>11
<1>13. \A k \in keys : \E j \in 1..Len(new) : new[j].key = k
  <2> HIDE DEF Old
  <2> TAKE k \in keys
  <2>1. PICK n \in 1..Len(rows) : rows[n].key = k
    BY <1>11
  <2>2. PICK j \in 1..Len(rows) : Old(j) = n
    BY <1>8
  <2> QED
    BY <2>1, <2>2, <1>6
<1>14. ASSUME NEW j \in 1..Len(new), NEW m \in 1..Len(new), j < m
       PROVE  /\ new[j].key # new[m].key
              /\ later[new[j].key] >= later[new[m].key]
  <2>1. new[j] = rows[Old(j)] /\ new[m] = rows[Old(m)] /\ Old(j) \in 1..Len(rows) /\ Old(m) \in 1..Len(rows)
    BY <1>6
  <2>2. Old(m) # i
    BY <1>6, <1>9, <1>14
  <2>3. \A n, k \in 1..Len(rows) : n # k => rows[n].key # rows[k].key
    BY <1>1, <1>11
  <2>4. /\ new[j].key \in Keys /\ new[m].key \in Keys
        /\ later[new[m].key] = updated[new[m].key] /\ updated[new[m].key] <= now
        /\ updated[new[m].key] \in Nat
    <3>1. new[m].key # rows[i].key
      <4> HIDE DEF Old
      <4> QED
        BY <2>1, <2>2, <2>3
    <3>2. new[j].key \in keys /\ new[m].key \in keys
      BY <1>12
    <3> HIDE DEF Old
    <3> QED
      BY <3>1, <3>2, <1>2
  <2>5. CASE j = 1
    <3>1. new[j].key = rows[i].key /\ later[new[j].key] = now
      BY <2>1, <2>4, <2>5, <1>2 DEF Before
    <3>2. new[m].key # rows[i].key
      <4> HIDE DEF Old
      <4> QED
        BY <2>1, <2>2, <2>3
    <3> QED
      BY <3>1, <3>2, <2>4
  <2>6. CASE j # 1
    <3>1. Old(j) < Old(m) /\ Old(j) # i
      BY <2>6, <1>6, <1>9, <1>14
    <3> HIDE DEF Old
    <3>2. rows[Old(j)].key # rows[Old(m)].key /\ updated[rows[Old(j)].key] >= updated[rows[Old(m)].key]
      BY <2>1, <3>1, <1>11
    <3>3. new[j].key # rows[i].key
      BY <2>1, <2>3, <3>1
    <3>4. later[new[j].key] = updated[new[j].key]
      BY <2>4, <3>3, <1>2
    <3> QED
      BY <2>1, <2>4, <3>2, <3>4
  <2> QED
    BY <2>5, <2>6
<1> QED
  BY <1>2, <1>3, <1>6, <1>12, <1>13, <1>14 DEF InOrder, Rows

\* If the latest one is the first, or has no row, nothing moves.
LEMMA StaysInOrder ==
  ASSUME NEW keys \in SUBSET Keys, NEW rows \in Rows, NEW updated \in [Keys -> 0..MaxMinute],
         InOrder(rows, updated, keys), NEW key \in Keys, NEW now \in Nat,
         \A k \in Keys : updated[k] <= now, NEW later, later = [updated EXCEPT ![key] = now],
         \A i \in 2..Len(rows) : rows[i].key # key
  PROVE  InOrder(rows, later, keys)
<1>1. /\ \A i \in 1..Len(rows) : rows[i].key \in keys
      /\ \A k \in keys : \E i \in 1..Len(rows) : rows[i].key = k
      /\ \A i, j \in 1..Len(rows) : i < j =>
           /\ rows[i].key # rows[j].key
           /\ updated[rows[i].key] >= updated[rows[j].key]
  BY DEF InOrder
<1>2. Len(rows) \in Nat
  BY LenProperties DEF Rows
<1>3. ASSUME NEW i \in 1..Len(rows), NEW j \in 1..Len(rows), i < j
      PROVE  later[rows[i].key] >= later[rows[j].key]
  <2>1. rows[i].key \in Keys /\ rows[j].key \in Keys /\ rows[j].key # key
    <3>1. j \in 2..Len(rows)
      BY <1>2, <1>3
    <3> QED
      BY <3>1, <1>1
  <2>2. PICK a \in Keys : a = rows[i].key
    BY <2>1
  <2>3. PICK b \in Keys : b = rows[j].key
    BY <2>1
  <2>4. updated[a] >= updated[b] /\ updated[b] <= now /\ b # key
    BY <2>1, <2>2, <2>3, <1>1, <1>3
  <2>5. later[b] = updated[b] /\ later[a] \in {now, updated[a]} /\ updated[b] \in Nat /\ updated[a] \in Nat
    BY <2>4
  <2> QED
    BY <2>2, <2>3, <2>4, <2>5
<1> QED
  BY <1>1, <1>3 DEF InOrder

\* What is stored of the activity of conversations, and the rows, change together.
Renewed(v, updated, activity, rows) ==
  [v EXCEPT !.updated = updated, !.activity = activity, !.rows = rows]

LEMMA RenewedIsSound ==
  ASSUME NEW now, NEW v, Sound(v, now),
         NEW updated \in [Keys -> 0..MaxMinute],
         NEW activity \in [Keys -> [Copies -> 0..MaxMinute]],
         NEW rows \in Rows,
         \A k \in Keys : updated[k] <= now,
         \A k \in Keys : v.updated[k] # 0 => updated[k] # 0,
         InOrder(rows, updated, {k \in Keys : Owner[k] = v.identity /\ updated[k] # 0}),
         ToSet(v.rows) \subseteq ToSet(rows),
         \A r \in ToSet(rows) : r \in ToSet(v.rows) \/ r.copy = 0
  PROVE  /\ Sound(Renewed(v, updated, activity, rows), now)
         /\ Stands(v) => Stands(Renewed(v, updated, activity, rows))
         /\ Held(Renewed(v, updated, activity, rows)) \subseteq Held(v)
<1>0. PICK x : x = Renewed(v, updated, activity, rows)
  OBVIOUS
<1>1. v \in Programs
  BY DEF Sound
<1>2. x \in Programs
  BY <1>0, <1>1 DEF Programs, Renewed, Rows
<1>3. /\ x.updated = updated /\ x.activity = activity /\ x.rows = rows
      /\ x.registry = v.registry /\ x.lru = v.lru /\ x.local = v.local
      /\ x.identity = v.identity /\ x.current = v.current
      /\ x.currentRow = v.currentRow /\ x.conversation = v.conversation
      /\ x.index = v.index /\ x.item = v.item
      /\ x.lines = v.lines /\ x.messages = v.messages /\ x.files = v.files
  BY <1>0, <1>1 DEF Programs, Renewed
<1>4. Held(x) \subseteq Held(v)
  BY <1>3 DEF Held
<1>5. One(x)
  <2> SUFFICES ASSUME NEW q \in Held(x)
               PROVE  x.registry[q.key] = q.copy /\ x.updated[q.key] # 0
    BY DEF One
  <2>1. q \in Held(v) /\ q.key \in Keys
    BY <1>1, <1>4, HeldObjects DEF Objects
  <2> QED
    BY <2>1, <1>3 DEF Sound, One
<1>6. Ordered(x)
  BY <1>3 DEF Ordered, Shown
<1>7. Timed(x, now) /\ Followed(x) /\ Complete(x)
  BY <1>3 DEF Sound, Timed, Followed, Complete
<1> QED
  BY <1>0, <1>2, <1>3, <1>4, <1>5, <1>6, <1>7 DEF Sound, Stands

\* What is written to moves to the front.
LEMMA TouchIsSound ==
  ASSUME NEW now \in 1..MaxMinute, NEW v, Sound(v, now), Stands(v),
         NEW o \in Objects, v.updated[o.key] # 0
  PROVE  /\ Sound(TouchLastActivity(v, o, now), now)
         /\ Stands(TouchLastActivity(v, o, now))
<1>1. CASE v.activity[o.key][o.copy] = now
  BY <1>1 DEF TouchLastActivity
<1>2. CASE v.activity[o.key][o.copy] # now
  <2>1. /\ v \in Programs /\ v.rows \in Rows /\ v.rows \in Seq([key : Keys, copy : {0} \cup Copies])
        /\ v.updated \in [Keys -> 0..MaxMinute] /\ now \in Nat
        /\ v.activity \in [Keys -> [Copies -> 0..MaxMinute]]
        /\ \A k \in Keys : v.updated[k] <= now
        /\ InOrder(v.rows, v.updated, Shown(v))
    BY BoundsAssumption DEF Sound, Programs, Rows, Timed, Ordered
  <2>2. PICK key \in Keys : key = o.key
    BY DEF Objects
  <2>3. PICK updated : updated = [v.updated EXCEPT ![key] = now]
    OBVIOUS
  <2>4. PICK activity : activity = [v.activity EXCEPT ![key][o.copy] = now]
    OBVIOUS
  <2>5. /\ updated \in [Keys -> 0..MaxMinute]
        /\ activity \in [Keys -> [Copies -> 0..MaxMinute]]
        /\ \A k \in Keys : updated[k] <= now
        /\ \A k \in Keys : v.updated[k] # 0 <=> updated[k] # 0
    <3>1. updated \in [Keys -> 0..MaxMinute] /\ activity \in [Keys -> [Copies -> 0..MaxMinute]]
      BY <2>1, <2>3, <2>4 DEF Objects
    <3>2. now <= now /\ now # 0
      BY BoundsAssumption
    <3> QED
      BY <3>1, <3>2, <2>1, <2>2, <2>3
  <2>6. {k \in Keys : Owner[k] = v.identity /\ updated[k] # 0} = Shown(v)
    BY <2>5 DEF Shown
  <2>7. PICK i : i = PositionOf(v.rows, key)
    OBVIOUS
  <2>8. /\ i \in 0..Len(v.rows)
        /\ i # 0 => v.rows[i].key = key
        /\ i = 0 => \A j \in 1..Len(v.rows) : v.rows[j].key # key
    BY <2>1, <2>7, Position
  <2>9. PICK rows : rows = IF i <= 1 THEN v.rows ELSE Raised(v.rows, i)
    OBVIOUS
  <2>10. TouchLastActivity(v, o, now) = Renewed(v, updated, activity, rows)
    <3>1. PICK st : st = Stored(v, o, now)
      OBVIOUS
    <3>2. st = [v EXCEPT !.activity = activity, !.updated = updated]
      BY <3>1, <2>1, <2>2, <2>3, <2>4 DEF Stored, Programs
    <3>3. st.rows = v.rows
      BY <3>2, <2>1 DEF Programs
    <3>4. TouchLastActivity(v, o, now) = OnConversationTouched(st, key)
      BY <3>1, <1>2, <2>2 DEF TouchLastActivity
    <3>5. TouchLastActivity(v, o, now) =
            IF i <= 1 THEN st ELSE [st EXCEPT !.rows = Raised(v.rows, i)]
      BY <3>3, <3>4, <2>7 DEF OnConversationTouched, Raised
    <3>6. PICK raised : raised = Raised(v.rows, i)
      OBVIOUS
    <3>7. CASE i <= 1
      <4>1. TouchLastActivity(v, o, now) = st /\ rows = v.rows
        BY <3>5, <3>7, <2>9
      <4> QED
        BY <4>1, <3>2, <2>1 DEF Renewed, Programs
    <3>8. CASE ~(i <= 1)
      <4>1. TouchLastActivity(v, o, now) = [st EXCEPT !.rows = rows]
        BY <3>5, <3>8, <2>9
      <4> QED
        BY <4>1, <3>2, <2>1 DEF Renewed, Programs
    <3> QED
      BY <3>7, <3>8
  <2>11. rows \in Rows /\ ToSet(rows) = ToSet(v.rows) /\ InOrder(rows, updated, Shown(v))
    <3>0. Shown(v) \in SUBSET Keys
      BY DEF Shown
    <3>1. CASE i <= 1
      <4>1. \A j \in 2..Len(v.rows) : v.rows[j].key # key
        <5>1. \A j \in 2..Len(v.rows) : 1 \in 1..Len(v.rows) /\ j \in 1..Len(v.rows) /\ 1 < j
          BY RowsFit
        <5>2. i = 0 \/ i = 1
          BY <2>8, <3>1
        <5>3. \A j \in 2..Len(v.rows) : v.rows[1].key # v.rows[j].key
          BY <5>1, <2>1 DEF InOrder
        <5> QED
          BY <5>1, <5>2, <5>3, <2>8
      <4> QED
        BY <3>0, <3>1, <4>1, <2>1, <2>3, <2>9, StaysInOrder
    <3>2. CASE ~(i <= 1)
      <4>1. i \in 1..Len(v.rows) /\ v.rows[i].key = key /\ rows = Raised(v.rows, i)
        BY <3>2, <2>8, <2>9
      <4>2. updated = [v.updated EXCEPT ![v.rows[i].key] = now]
        BY <4>1, <2>3
      <4>3. PICK old \in Rows : old = v.rows
        BY <2>1
      <4>4. PICK was \in [Keys -> 0..MaxMinute] : was = v.updated
        BY <2>1
      <4>5. PICK keys \in SUBSET Keys : keys = Shown(v)
        BY <3>0
      <4>6. /\ now \in Nat
            /\ InOrder(old, was, keys) /\ i \in 1..Len(old)
            /\ \A k \in Keys : was[k] <= now
        BY <2>1, <4>1, <4>3, <4>4, <4>5
      <4>7. /\ Raised(old, i) \in Rows
            /\ ToSet(Raised(old, i)) = ToSet(old)
            /\ InOrder(Raised(old, i), [was EXCEPT ![old[i].key] = now], keys)
        BY <4>6, MovedRow, Zenon
      <4> QED
        BY <4>1, <4>2, <4>3, <4>4, <4>5, <4>7
    <3> QED
      BY <3>1, <3>2
  <2>12. /\ ToSet(v.rows) \subseteq ToSet(rows)
         /\ \A r \in ToSet(rows) : r \in ToSet(v.rows) \/ r.copy = 0
         /\ \A k \in Keys : v.updated[k] # 0 => updated[k] # 0
         /\ InOrder(rows, updated, {k \in Keys : Owner[k] = v.identity /\ updated[k] # 0})
    BY <2>5, <2>6, <2>11
  <2>13. /\ Sound(Renewed(v, updated, activity, rows), now)
         /\ Stands(v) => Stands(Renewed(v, updated, activity, rows))
    BY <2>5, <2>11, <2>12, RenewedIsSound, Zenon
  <2> QED
    BY <2>10, <2>13
<1> QED
  BY <1>1, <1>2

(***************************************************************************)
(* Conversations, contacts and identities.                                 *)
(***************************************************************************)

\* A new object is registered and cached.
Cached(v, o) == [Registered(v, o) EXCEPT !.lru = Touched(v.lru, o)]

LEMMA CachedIsSound ==
  ASSUME NEW now, NEW v, Sound(v, now), NEW o \in Objects, v.updated[o.key] # 0,
         \A q \in Held(v) : q.key # o.key
  PROVE  /\ Sound(Cached(v, o), now)
         /\ SameView(v, Cached(v, o))
         /\ Cached(v, o).registry[o.key] = o.copy
<1>1. /\ v \in Programs /\ v.registry \in [Keys -> {0} \cup Copies] /\ v.lru \in Seq(Objects)
      /\ v.activity \in [Keys -> [Copies -> 0..MaxMinute]]
  BY DEF Sound, Programs
<1>2. PICK registry : registry = [v.registry EXCEPT ![o.key] = o.copy]
  OBVIOUS
<1>3. PICK lru : lru = Touched(v.lru, o)
  OBVIOUS
<1>4. PICK activity : activity = v.activity
  OBVIOUS
<1>5. /\ registry \in [Keys -> {0} \cup Copies] /\ activity \in [Keys -> [Copies -> 0..MaxMinute]]
      /\ registry[o.key] = o.copy
      /\ \A k \in Keys : k # o.key => registry[k] = v.registry[k]
  BY <1>1, <1>2, <1>4 DEF Objects
<1>6. lru \in Seq(Objects) /\ ToSet(lru) \subseteq {o} \cup ToSet(v.lru)
  BY <1>1, <1>3, TouchedHolds
<1>7. PICK x : x = Cached(v, o)
  OBVIOUS
<1>13. x = [v EXCEPT !.registry = registry, !.activity = activity, !.lru = lru]
  BY <1>1, <1>2, <1>3, <1>4, <1>7 DEF Programs, Cached, Registered
<1>8. x \in Programs /\ SameView(v, x)
  <2>1. /\ [v EXCEPT !.registry = registry, !.activity = activity, !.lru = lru] \in Programs
        /\ SameView(v, [v EXCEPT !.registry = registry, !.activity = activity, !.lru = lru])
    BY <1>1, <1>5, <1>6, CacheChanges, Zenon
  <2> QED
    BY <2>1, <1>13, Zenon
<1>9. x.registry = registry /\ x.lru = lru
  BY <1>1, <1>13 DEF Programs
<1>10. Held(x) \subseteq {o} \cup Held(v)
  BY <1>6, <1>8, <1>9 DEF Held, SameView
<1>11. One(x)
  <2> SUFFICES ASSUME NEW q \in Held(x)
               PROVE  x.registry[q.key] = q.copy /\ x.updated[q.key] # 0
    BY DEF One
  <2>0. x.updated = v.updated
    BY <1>8 DEF SameView
  <2>1. CASE q = o
    BY <2>0, <2>1, <1>5, <1>9
  <2>2. CASE q \in Held(v)
    <3>1. v.registry[q.key] = q.copy /\ v.updated[q.key] # 0 /\ q.key \in Keys /\ q.key # o.key
      BY <2>2, <1>1, HeldObjects DEF One, Objects, Sound
    <3> QED
      BY <2>0, <3>1, <1>5, <1>9
  <2> QED
    BY <2>1, <2>2, <1>10
<1> QED
  BY <1>5, <1>7, <1>8, <1>9, <1>11, OtherViewSound

\* A contact gets its conversation.
LEMMA AddConversationIsSound ==
  ASSUME NEW now \in 1..MaxMinute, NEW v, Sound(v, now), Stands(v),
         NEW key \in Keys, v.updated[key] = 0
  PROVE  LET u == AddConversation(v, key, now)
         IN /\ Sound(u, now)
            /\ Stands(u)
            /\ u.updated[key] # 0
            /\ u.registry[key] = 1
            /\ FreshCopy(Held(v), key) = [key |-> key, copy |-> 1]
<1>1. /\ v \in Programs /\ v.rows \in Rows
      /\ v.updated \in [Keys -> 0..MaxMinute] /\ now \in Nat /\ now # 0
      /\ v.activity \in [Keys -> [Copies -> 0..MaxMinute]]
      /\ \A k \in Keys : v.updated[k] <= now
      /\ InOrder(v.rows, v.updated, Shown(v))
  BY BoundsAssumption DEF Sound, Programs, Rows, Timed, Ordered
<1>2. PICK o : o = [key |-> key, copy |-> 1]
  OBVIOUS
<1>3. o \in Objects /\ o.key = key /\ o.copy = 1
  BY <1>2 DEF Objects, Copies
<1>4. \A q \in Held(v) : q.key # key
  BY <1>1 DEF Sound, One
<1>5. FreshCopy(Held(v), key) = o
  <2>1. \A c \in Copies : [key |-> key, copy |-> c] \notin Held(v)
    BY <1>4
  <2> QED
    BY <2>1, <1>2, FreshIsFirst
<1>6. PICK updated : updated = [v.updated EXCEPT ![key] = now]
  OBVIOUS
<1>7. PICK activity : activity = [v.activity EXCEPT ![key][o.copy] = now]
  OBVIOUS
<1>8. PICK rows : rows = IF v.identity # Owner[key] THEN v.rows ELSE AddRow(v.rows, key)
  OBVIOUS
<1>9. /\ updated \in [Keys -> 0..MaxMinute]
      /\ activity \in [Keys -> [Copies -> 0..MaxMinute]]
      /\ updated[key] = now
      /\ \A k \in Keys : k # key => updated[k] = v.updated[k]
  <2>1. now \in 0..MaxMinute
    BY BoundsAssumption
  <2> QED
    BY <2>1, <1>1, <1>3, <1>6, <1>7 DEF Objects
<1>10. /\ \A k \in Keys : updated[k] <= now
       /\ \A k \in Keys : v.updated[k] # 0 => updated[k] # 0
  <2>1. now <= now
    BY <1>1
  <2> QED
    BY <2>1, <1>1, <1>9
<1>11. /\ rows \in Rows
       /\ ToSet(v.rows) \subseteq ToSet(rows)
       /\ \A r \in ToSet(rows) : r \in ToSet(v.rows) \/ r.copy = 0
       /\ InOrder(rows, updated, {k \in Keys : Owner[k] = v.identity /\ updated[k] # 0})
  <2>0. Shown(v) \in SUBSET Keys /\ key \notin Shown(v)
    BY DEF Shown
  <2>1. CASE v.identity # Owner[key]
    <3>1. {k \in Keys : Owner[k] = v.identity /\ updated[k] # 0} = Shown(v)
      BY <2>1, <1>1, <1>9 DEF Shown
    <3>2. \A i \in 2..Len(v.rows) : v.rows[i].key # key
      <4>1. \A i \in 2..Len(v.rows) : i \in 1..Len(v.rows)
        BY RowsFit
      <4> QED
        BY <2>0, <4>1, <1>1 DEF InOrder
    <3>3. InOrder(v.rows, updated, Shown(v))
      BY <2>0, <3>2, <1>1, <1>6, StaysInOrder
    <3> QED
      BY <2>1, <3>1, <3>3, <1>1, <1>8
  <2>2. CASE v.identity = Owner[key]
    <3>1. {k \in Keys : Owner[k] = v.identity /\ updated[k] # 0} = Shown(v) \cup {key}
      BY <2>2, <1>1, <1>9 DEF Shown
    <3>2. /\ AddRow(v.rows, key) \in Rows
          /\ ToSet(AddRow(v.rows, key)) = {Row(key)} \cup ToSet(v.rows)
          /\ InOrder(AddRow(v.rows, key), updated, Shown(v) \cup {key})
      <4>1. PICK old \in Rows : old = v.rows
        BY <1>1
      <4>2. PICK was \in [Keys -> 0..MaxMinute] : was = v.updated
        BY <1>1
      <4>3. PICK keys \in SUBSET Keys : keys = Shown(v)
        BY <2>0
      <4>4. /\ now \in Nat /\ key \in Keys \ keys
            /\ InOrder(old, was, keys)
            /\ \A k \in Keys : was[k] <= now
            /\ updated = [was EXCEPT ![key] = now]
        BY <2>0, <4>1, <4>2, <4>3, <1>1, <1>6
      <4>5. /\ AddRow(old, key) \in Rows
            /\ ToSet(AddRow(old, key)) = {Row(key)} \cup ToSet(old)
            /\ InOrder(AddRow(old, key), [was EXCEPT ![key] = now], keys \cup {key})
        BY <4>4, FirstRow, Zenon
      <4> QED
        BY <4>1, <4>3, <4>4, <4>5
    <3>3. Row(key).copy = 0
      BY DEF Row
    <3> QED
      BY <2>2, <3>1, <3>2, <3>3, <1>8
  <2> QED
    BY <2>1, <2>2
<1>12. PICK x : x = Renewed(v, updated, activity, rows)
  OBVIOUS
<1>13. /\ Sound(x, now)
       /\ Stands(v) => Stands(x)
       /\ Held(x) \subseteq Held(v)
  <2>1. /\ Sound(Renewed(v, updated, activity, rows), now)
        /\ Stands(v) => Stands(Renewed(v, updated, activity, rows))
        /\ Held(Renewed(v, updated, activity, rows)) \subseteq Held(v)
    BY <1>9, <1>10, <1>11, RenewedIsSound, Zenon
  <2> QED
    BY <2>1, <1>12, Zenon
<1>14. x.updated = updated /\ x.registry = v.registry /\ x.lru = v.lru
  BY <1>1, <1>12 DEF Renewed, Programs
<1>15. x.updated[o.key] # 0 /\ \A q \in Held(x) : q.key # o.key
  BY <1>1, <1>3, <1>4, <1>9, <1>13, <1>14
<1>19. PICK u : u = Cached(x, o)
  OBVIOUS
<1>16. /\ Sound(u, now)
       /\ SameView(x, u)
       /\ u.registry[o.key] = o.copy
  <2>1. /\ Sound(Cached(x, o), now)
        /\ SameView(x, Cached(x, o))
        /\ Cached(x, o).registry[o.key] = o.copy
    BY <1>3, <1>13, <1>15, CachedIsSound, Zenon
  <2> QED
    BY <2>1, <1>19, Zenon
<1>17. AddConversation(v, key, now) = u
  <2>1. PICK registry : registry = [v.registry EXCEPT ![key] = 1]
    OBVIOUS
  <2>2. PICK lru : lru = Touched(v.lru, o)
    OBVIOUS
  <2>3. PICK st : st = Registered([v EXCEPT !.updated[key] = now, !.activity[key][o.copy] = now], o)
    OBVIOUS
  <2>4. st = [v EXCEPT !.updated = updated, !.activity = activity, !.registry = registry]
    BY <2>1, <2>3, <1>1, <1>3, <1>6, <1>7 DEF Registered, Programs
  <2>5. PICK s2 : s2 = [st EXCEPT !.lru = lru]
    OBVIOUS
  <2>6. AddConversation(v, key, now) = OnConversationAdded(s2, key)
    BY <2>2, <2>3, <2>5, <1>5 DEF AddConversation
  <2>7. s2.identity = v.identity /\ s2.rows = v.rows
    BY <2>4, <2>5, <1>1 DEF Programs
  <2>8. u = [x EXCEPT !.registry = registry, !.lru = lru]
    BY <2>1, <2>2, <1>1, <1>3, <1>12, <1>14, <1>19 DEF Cached, Registered, Renewed, Programs
  <2>9. s2 = [v EXCEPT !.updated = updated, !.activity = activity, !.registry = registry,
                       !.lru = lru]
    BY <2>4, <2>5, <1>1 DEF Programs
  <2>10. u = [v EXCEPT !.updated = updated, !.activity = activity, !.registry = registry,
                       !.lru = lru, !.rows = rows]
    BY <2>8, <1>1, <1>12 DEF Renewed, Programs
  <2>11. CASE v.identity # Owner[key]
    <3>1. AddConversation(v, key, now) = s2 /\ rows = v.rows
      BY <2>6, <2>7, <2>11, <1>8 DEF OnConversationAdded
    <3> QED
      BY <3>1, <2>9, <2>10, <1>1 DEF Programs
  <2>12. CASE v.identity = Owner[key]
    <3>1. AddConversation(v, key, now) = [s2 EXCEPT !.rows = rows]
      BY <2>6, <2>7, <2>12, <1>8 DEF OnConversationAdded
    <3> QED
      BY <3>1, <2>9, <2>10, <1>1 DEF Programs
  <2> QED
    BY <2>11, <2>12
<1>18. Stands(u) /\ u.updated = updated
  BY <1>13, <1>14, <1>16 DEF Stands, SameView
<1> QED
  BY <1>1, <1>2, <1>3, <1>5, <1>9, <1>16, <1>17, <1>18

\* A contact has a conversation from now on.
LEMMA GetConversationIsSound ==
  ASSUME NEW now \in 1..MaxMinute, NEW v, Sound(v, now), Stands(v), NEW key \in Keys
  PROVE  LET got == GetConversation(v, key, now)
         IN /\ got.object \in Objects
            /\ got.object.key = key
            /\ got.program.registry[key] = got.object.copy
            /\ got.program.updated[key] # 0
            /\ Sound(got.program, now)
            /\ Stands(got.program)
<1>1. CASE v.updated[key] # 0
  <2>1. GetConversation(v, key, now) = Get(v, Held(v), key)
    BY <1>1 DEF GetConversation
  <2>2. PICK got : got = Get(v, Held(v), key)
    OBVIOUS
  <2>3. /\ got.object \in Objects
        /\ got.object.key = key
        /\ got.program.registry[key] = got.object.copy
        /\ Sound(got.program, now)
        /\ SameView(v, got.program)
    BY <1>1, <2>2, GetIsSound
  <2>4. got.program.updated[key] # 0 /\ Stands(got.program)
    BY <1>1, <2>3 DEF SameView, Stands
  <2> QED
    BY <2>1, <2>2, <2>3, <2>4
<1>2. CASE v.updated[key] = 0
  <2>1. GetConversation(v, key, now) =
          [object |-> FreshCopy(Held(v), key), program |-> AddConversation(v, key, now)]
    BY <1>2 DEF GetConversation
  <2>2. PICK u : u = AddConversation(v, key, now)
    OBVIOUS
  <2>3. /\ Sound(u, now)
        /\ Stands(u)
        /\ u.updated[key] # 0
        /\ u.registry[key] = 1
        /\ FreshCopy(Held(v), key) = [key |-> key, copy |-> 1]
    BY <1>2, <2>2, AddConversationIsSound
  <2>4. PICK got : got = GetConversation(v, key, now)
    OBVIOUS
  <2>5. got.program = u /\ got.object = [key |-> key, copy |-> 1]
    BY <2>1, <2>2, <2>3, <2>4
  <2>6. got.object \in Objects /\ got.object.key = key /\ got.object.copy = 1
    BY <2>5 DEF Objects, Copies
  <2> QED
    BY <2>3, <2>4, <2>5, <2>6
<1> QED
  BY <1>1, <1>2

\* A function that runs holds an object, or none any more.
Holding(v, o) == [v EXCEPT !.local = o]

LEMMA HoldingIsSound ==
  ASSUME NEW now, NEW v, Sound(v, now), NEW o \in Objects \cup {Nothing},
         o # Nothing => v.registry[o.key] = o.copy /\ v.updated[o.key] # 0
  PROVE  /\ Sound(Holding(v, o), now)
         /\ Stands(v) => Stands(Holding(v, o))
<1>1. v \in Programs
  BY DEF Sound
<1>2. PICK x : x = Holding(v, o)
  OBVIOUS
<1>3. x \in Programs
  BY <1>1, <1>2 DEF Holding, Programs
<1>4. /\ x.rows = v.rows /\ x.updated = v.updated /\ x.lru = v.lru
      /\ x.currentRow = v.currentRow /\ x.current = v.current
      /\ x.conversation = v.conversation /\ x.local = o /\ x.identity = v.identity
      /\ x.registry = v.registry /\ x.lines = v.lines
      /\ x.messages = v.messages /\ x.files = v.files
      /\ x.index = v.index /\ x.item = v.item
  BY <1>1, <1>2 DEF Holding, Programs
<1>5. Held(x) \subseteq Held(v) \cup {o} /\ (o = Nothing => Held(x) \subseteq Held(v))
  <2>1. Nothing.copy = 0
    BY DEF Nothing
  <2> QED
    BY <1>4, <2>1 DEF Held
<1>6. One(x)
  BY <1>4, <1>5 DEF Sound, One
<1>7. Timed(x, now) /\ Ordered(x) /\ Followed(x) /\ Complete(x)
  BY <1>4 DEF Sound, Timed, Ordered, Shown, Followed, Complete
<1>8. Stands(v) => Stands(x)
  BY <1>4 DEF Stands
<1> QED
  BY <1>2, <1>3, <1>6, <1>7, <1>8 DEF Sound

LEMMA SetContactIsSound ==
  ASSUME NEW now \in 1..MaxMinute, NEW v, Sound(v, now), Stands(v), NEW key \in Keys
  PROVE  Sound(SetContact(v, key, now), now) /\ Stands(SetContact(v, key, now))
<1>1. PICK got : got = GetConversation(v, key, now)
  OBVIOUS
<1>2. /\ got.object \in Objects
      /\ got.object.key = key
      /\ got.program.registry[key] = got.object.copy
      /\ got.program.updated[key] # 0
      /\ Sound(got.program, now)
      /\ Stands(got.program)
  BY <1>1, GetConversationIsSound
<1>3. PICK u : u = got.program
  OBVIOUS
<1>4. PICK h : h = Holding(u, got.object)
  OBVIOUS
<1>5. Sound(h, now) /\ Stands(h)
  <2>1. /\ Sound(Holding(u, got.object), now)
        /\ Stands(u) => Stands(Holding(u, got.object))
    BY <1>2, <1>3, HoldingIsSound
  <2> QED
    BY <2>1, <1>2, <1>3, <1>4
<1>6. PICK s : s = SetCurrent(h, got.object)
  OBVIOUS
<1>7. Sound(s, now) /\ Stands(s)
  BY <1>5, <1>6, SetCurrentIsSound
<1>8. Sound(Holding(s, Nothing), now) /\ Stands(Holding(s, Nothing))
  BY <1>7, HoldingIsSound
<1>9. SetContact(v, key, now) = IF u.current.key = key THEN u ELSE Holding(s, Nothing)
  BY <1>1, <1>3, <1>4, <1>6 DEF SetContact, Holding
<1> QED
  BY <1>2, <1>3, <1>8, <1>9

\* The rows of another identity, and none of them is current.
Listed(v, identity, rows) ==
  [v EXCEPT !.identity = identity, !.rows = rows, !.index = 0, !.item = NoKey]

LEMMA ListingChanges ==
  ASSUME NEW v \in Programs, NEW identity \in Identities, NEW rows \in Rows,
         0 \in 0..Cardinality(Keys)
  PROVE  Listed(v, identity, rows) \in Programs
BY DEF Listed, Programs, Rows

LEMMA ListedIsSound ==
  ASSUME NEW now, NEW v, Sound(v, now), v.currentRow = 0, NEW identity \in Identities,
         NEW rows \in Rows, \A i \in 1..Len(rows) : rows[i].copy = 0,
         InOrder(rows, v.updated, {k \in Keys : Owner[k] = identity /\ v.updated[k] # 0})
  PROVE  /\ Sound(Listed(v, identity, rows), now)
         /\ Stands(Listed(v, identity, rows))
<1>1. v \in Programs
  BY DEF Sound
<1>2. PICK x : x = Listed(v, identity, rows)
  OBVIOUS
<1>3. x \in Programs
  <2>1. 0 \in 0..Cardinality(Keys)
    BY RowsFit
  <2> QED
    BY <1>1, <1>2, <2>1, ListingChanges, Zenon
<1>4. /\ x.rows = rows /\ x.updated = v.updated /\ x.lru = v.lru
      /\ x.currentRow = 0 /\ x.current = v.current
      /\ x.conversation = v.conversation /\ x.local = v.local /\ x.identity = identity
      /\ x.registry = v.registry /\ x.lines = v.lines
      /\ x.messages = v.messages /\ x.files = v.files
      /\ x.index = 0 /\ x.item = NoKey
  BY <1>1, <1>2 DEF Listed, Programs
<1>5. v.current = Nothing /\ v.conversation = Nothing
  BY DEF Sound, Followed
<1>6. \A r \in ToSet(rows) : r.copy = 0
  <2>1. ToSet(rows) = {rows[i] : i \in 1..Len(rows)}
    BY InToSet DEF Rows
  <2> QED
    BY <2>1
<1>7. Held(x) \subseteq Held(v)
  BY <1>4, <1>6 DEF Held
<1>8. One(x)
  BY <1>4, <1>7 DEF Sound, One
<1>9. Ordered(x)
  BY <1>4 DEF Ordered, Shown
<1>10. Timed(x, now) /\ Followed(x) /\ Complete(x)
  BY <1>4, <1>5 DEF Sound, Timed, Followed, Complete
<1>11. Stands(x)
  BY <1>4, <1>5 DEF Stands, Nothing
<1> QED
  BY <1>2, <1>3, <1>8, <1>9, <1>10, <1>11 DEF Sound

LEMMA SetIdentityIsSound ==
  ASSUME NEW now, NEW v, Sound(v, now), Stands(v), NEW identity \in Identities,
         NEW listing \in Listings(v, identity)
  PROVE  Sound(SetIdentity(v, identity, listing), now) /\ Stands(SetIdentity(v, identity, listing))
<1>1. PICK u : u = SetCurrentRow(v, 0)
  OBVIOUS
<1>2. Sound(u, now) /\ u.updated = v.updated /\ u.currentRow = 0
  <2>1. 0 \in 0..Len(v.rows)
    BY RowsFit
  <2> QED
    BY <1>1, <2>1, SetCurrentRowIsSound
<1>3. PICK rows : rows = [i \in DOMAIN listing |-> Row(listing[i])]
  OBVIOUS
<1>4. /\ rows \in Rows
      /\ Len(rows) = Len(listing)
      /\ InOrder(rows, u.updated, {k \in Keys : Owner[k] = identity /\ u.updated[k] # 0})
  <2>1. v \in Programs
    BY DEF Sound
  <2>2. /\ [i \in DOMAIN listing |-> Row(listing[i])] \in Rows
        /\ Len([i \in DOMAIN listing |-> Row(listing[i])]) = Len(listing)
        /\ InOrder([i \in DOMAIN listing |-> Row(listing[i])], v.updated,
                    {k \in Keys : Owner[k] = identity /\ v.updated[k] # 0})
    BY <2>1, ListingIsOrdered, Zenon
  <2>3. rows \in Rows /\ Len(rows) = Len(listing)
    BY <2>2, <1>3
  <2>4. InOrder(rows, v.updated, {k \in Keys : Owner[k] = identity /\ v.updated[k] # 0})
    BY <2>2, <1>3
  <2> QED
    BY <2>3, <2>4, <1>2
<1>5. \A i \in 1..Len(rows) : rows[i].copy = 0
  <2>1. DOMAIN rows = 1..Len(rows)
    BY <1>4 DEF Rows
  <2> QED
    BY <2>1, <1>3 DEF Row
<1>6. PICK cleared : cleared = Listed(u, identity, rows)
  OBVIOUS
<1>7. Sound(cleared, now) /\ Stands(cleared)
  <2>1. Sound(Listed(u, identity, rows), now) /\ Stands(Listed(u, identity, rows))
    BY <1>2, <1>4, <1>5, ListedIsSound, Zenon
  <2> QED
    BY <2>1, <1>6, Zenon
<1>8. cleared.rows = rows /\ cleared.currentRow = 0
  BY <1>2, <1>6 DEF Listed, Sound, Programs
<1>9. SetIdentity(v, identity, listing) = IF Len(listing) = 1 THEN SetIndex(cleared, 1) ELSE cleared
  BY <1>1, <1>3, <1>6 DEF SetIdentity, Listed
<1>10. CASE Len(listing) = 1
  <2>1. 1 \in 1..Len(cleared.rows) /\ 1 # cleared.currentRow
    <3>1. Len(cleared.rows) = 1
      BY <1>4, <1>8, <1>10
    <3> QED
      BY <3>1, <1>8
  <2>2. Sound(SetIndex(cleared, 1), now) /\ Stands(SetIndex(cleared, 1))
    BY <1>7, <2>1, SetIndexIsSound
  <2> QED
    BY <1>9, <1>10, <2>2
<1> QED
  BY <1>7, <1>9, <1>10

(***************************************************************************)
(* Messages and files.                                                     *)
(***************************************************************************)

Messages == Seq([key : Keys, content : Contents])
Files == Seq([key : Keys])

\* The lines stay, but may show more of their messages.
LEMMA SameLines ==
  ASSUME NEW lines, NEW messages, NEW files, NEW key, Covers(lines, messages, files, key),
         NEW lines2, NEW messages2, NEW files2,
         Belongs(messages2, key) = Belongs(messages, key),
         Belongs(files2, key) = Belongs(files, key),
         Len(lines2) = Len(lines),
         \A n \in 1..Len(lines) :
           /\ lines2[n].kind = lines[n].kind /\ lines2[n].id = lines[n].id
           /\ lines[n].kind = "MESSAGE" =>
                lines2[n].content \in {Unloaded, messages2[lines[n].id].content}
  PROVE  Covers(lines2, messages2, files2, key)
<1>1. \A i \in Belongs(messages2, key) :
        \E n \in 1..Len(lines2) : lines2[n].kind = "MESSAGE" /\ lines2[n].id = i
  BY DEF Covers
<1>2. \A i \in Belongs(files2, key) :
        \E n \in 1..Len(lines2) : lines2[n].kind = "FILE" /\ lines2[n].id = i
  BY DEF Covers
<1>3. \A n \in 1..Len(lines2) :
        IF lines2[n].kind = "MESSAGE"
        THEN /\ lines2[n].id \in Belongs(messages2, key)
             /\ lines2[n].content \in {Unloaded, messages2[lines2[n].id].content}
        ELSE lines2[n].id \in Belongs(files2, key)
  BY DEF Covers
<1>4. \A n, m \in 1..Len(lines2) :
        n # m => lines2[n].kind # lines2[m].kind \/ lines2[n].id # lines2[m].id
  BY DEF Covers
<1> QED
  BY <1>1, <1>2, <1>3, <1>4, Zenon DEF Covers

\* One more message or file.
Grows(table, row, key) ==
  /\ Len(table) + 1 \notin Belongs(table, key)
  /\ Belongs(table, key) \subseteq Nat
  /\ Belongs(Append(table, row), key) =
       IF row.key = key THEN Belongs(table, key) \cup {Len(table) + 1}
       ELSE Belongs(table, key)
  /\ \A i \in Belongs(table, key) : Append(table, row)[i] = table[i]
  /\ Append(table, row)[Len(table) + 1] = row

LEMMA Grown ==
  ASSUME NEW S, NEW table \in Seq(S), NEW row \in S, NEW key
  PROVE  Grows(table, row, key)
<1>1. Len(table) \in Nat
  OBVIOUS
<1>2. PICK more : more = Append(table, row)
  OBVIOUS
<1>3. /\ Len(more) = Len(table) + 1
      /\ more[Len(table) + 1] = row
      /\ \A i \in 1..Len(table) : more[i] = table[i]
  BY <1>2
<1>4. 1..Len(more) = 1..Len(table) \cup {Len(table) + 1}
  BY <1>1, <1>3
<1>5. Belongs(more, key) =
        IF row.key = key THEN Belongs(table, key) \cup {Len(table) + 1} ELSE Belongs(table, key)
  BY <1>3, <1>4 DEF Belongs
<1> QED
  BY <1>1, <1>2, <1>3, <1>5 DEF Grows, Belongs

\* A line at the end.
LEMMA LineCovers ==
  ASSUME NEW lines \in Lines, NEW messages, NEW files, NEW key,
         Covers(lines, messages, files, key),
         NEW line \in [kind : {"MESSAGE", "FILE"}, id : Nat, content : Contents \cup {Unloaded}],
         NEW messages2, NEW files2,
         Belongs(messages2, key) =
           IF line.kind = "MESSAGE" THEN Belongs(messages, key) \cup {line.id}
           ELSE Belongs(messages, key),
         Belongs(files2, key) =
           IF line.kind = "FILE" THEN Belongs(files, key) \cup {line.id}
           ELSE Belongs(files, key),
         line.kind = "MESSAGE" =>
           line.id \notin Belongs(messages, key) /\ line.content = messages2[line.id].content,
         line.kind = "FILE" => line.id \notin Belongs(files, key),
         \A i \in Belongs(messages, key) : messages2[i] = messages[i]
  PROVE  /\ Append(lines, line) \in Lines
         /\ Covers(Append(lines, line), messages2, files2, key)
<1>1. PICK more : more = Append(lines, line)
  OBVIOUS
<1>2. more \in Lines /\ Len(lines) \in Nat /\ Len(more) = Len(lines) + 1
  BY <1>1 DEF Lines
<1>3. more[Len(more)] = line /\ \A n \in 1..Len(lines) : more[n] = lines[n]
  BY <1>1 DEF Lines
<1>4. /\ Len(more) \in 1..Len(more)
      /\ \A n \in 1..Len(lines) : n \in 1..Len(more)
      /\ \A n \in 1..Len(more) : n \in 1..Len(lines) \/ n = Len(more)
  BY <1>2
<1>5. /\ \A i \in Belongs(messages, key) :
           \E n \in 1..Len(lines) : lines[n].kind = "MESSAGE" /\ lines[n].id = i
      /\ \A i \in Belongs(files, key) :
           \E n \in 1..Len(lines) : lines[n].kind = "FILE" /\ lines[n].id = i
      /\ \A n \in 1..Len(lines) :
           IF lines[n].kind = "MESSAGE"
           THEN /\ lines[n].id \in Belongs(messages, key)
                /\ lines[n].content \in {Unloaded, messages[lines[n].id].content}
           ELSE lines[n].id \in Belongs(files, key)
      /\ \A n, m \in 1..Len(lines) :
           n # m => lines[n].kind # lines[m].kind \/ lines[n].id # lines[m].id
  BY DEF Covers
<1>6. ASSUME NEW i \in Belongs(messages2, key)
      PROVE  \E n \in 1..Len(more) : more[n].kind = "MESSAGE" /\ more[n].id = i
  <2>1. CASE i \in Belongs(messages, key)
    BY <2>1, <1>3, <1>4, <1>5
  <2>2. CASE i \notin Belongs(messages, key)
    BY <2>2, <1>3, <1>4
  <2> QED
    BY <2>1, <2>2
<1>7. ASSUME NEW i \in Belongs(files2, key)
      PROVE  \E n \in 1..Len(more) : more[n].kind = "FILE" /\ more[n].id = i
  <2>1. CASE i \in Belongs(files, key)
    BY <2>1, <1>3, <1>4, <1>5
  <2>2. CASE i \notin Belongs(files, key)
    BY <2>2, <1>3, <1>4
  <2> QED
    BY <2>1, <2>2
<1>8. ASSUME NEW n \in 1..Len(more)
      PROVE  IF more[n].kind = "MESSAGE"
             THEN /\ more[n].id \in Belongs(messages2, key)
                  /\ more[n].content \in {Unloaded, messages2[more[n].id].content}
             ELSE more[n].id \in Belongs(files2, key)
  <2>1. CASE n \in 1..Len(lines)
    BY <2>1, <1>3, <1>5
  <2>2. CASE n = Len(more)
    BY <2>2, <1>3
  <2> QED
    BY <2>1, <2>2, <1>4
<1>9. \A n \in 1..Len(lines) : lines[n].kind # line.kind \/ lines[n].id # line.id
  BY <1>5
<1>10. ASSUME NEW n \in 1..Len(more), NEW m \in 1..Len(more), n # m
       PROVE  more[n].kind # more[m].kind \/ more[n].id # more[m].id
  <2>1. CASE n \in 1..Len(lines) /\ m \in 1..Len(lines)
    BY <2>1, <1>3, <1>5, <1>10
  <2>2. CASE n \in 1..Len(lines) /\ m = Len(more)
    BY <2>2, <1>3, <1>9
  <2>3. CASE n = Len(more) /\ m \in 1..Len(lines)
    BY <2>3, <1>3, <1>9
  <2> QED
    BY <2>1, <2>2, <2>3, <1>4, <1>10
<1>11. Covers(more, messages2, files2, key)
  BY <1>6, <1>7, <1>8, <1>10, Zenon DEF Covers
<1> QED
  BY <1>1, <1>2, <1>11

\* The tables of messages and files, and the lines, change together.
Written(v, messages, files, lines) ==
  [v EXCEPT !.messages = messages, !.files = files, !.lines = lines]

LEMMA WrittenIsSound ==
  ASSUME NEW now, NEW v, Sound(v, now), NEW messages \in Messages, NEW files \in Files,
         NEW lines \in Lines, Covers(lines, messages, files, v.conversation.key)
  PROVE  /\ Sound(Written(v, messages, files, lines), now)
         /\ Stands(v) => Stands(Written(v, messages, files, lines))
         /\ Written(v, messages, files, lines).updated = v.updated
<1>1. v \in Programs
  BY DEF Sound
<1>2. PICK x : x = Written(v, messages, files, lines)
  OBVIOUS
<1>3. x \in Programs
  BY <1>1, <1>2 DEF Written, Programs, Messages, Files, Lines
<1>4. /\ x.rows = v.rows /\ x.updated = v.updated /\ x.lru = v.lru
      /\ x.currentRow = v.currentRow /\ x.current = v.current
      /\ x.conversation = v.conversation /\ x.local = v.local /\ x.identity = v.identity
      /\ x.registry = v.registry /\ x.lines = lines
      /\ x.messages = messages /\ x.files = files
      /\ x.index = v.index /\ x.item = v.item
  BY <1>1, <1>2 DEF Written, Programs
<1>5. Held(x) = Held(v)
  BY <1>4 DEF Held
<1>6. Timed(x, now) /\ One(x) /\ Ordered(x) /\ Followed(x) /\ Complete(x)
  BY <1>4, <1>5 DEF Sound, Timed, One, Ordered, Shown, Followed, Complete
<1> QED
  BY <1>2, <1>3, <1>4, <1>6 DEF Sound, Stands

LEMMA MessageAddedIsSound ==
  ASSUME NEW now, NEW v, Sound(v, now), NEW key \in Keys, NEW content \in Contents
  PROVE  LET u == MessageAdded(v, key, content)
         IN Sound(u, now) /\ (Stands(v) => Stands(u)) /\ u.updated = v.updated
<1>1. /\ v \in Programs /\ v.messages \in Messages /\ v.files \in Files /\ v.lines \in Lines
      /\ Covers(v.lines, v.messages, v.files, v.conversation.key)
  BY DEF Sound, Programs, Messages, Files, Lines, Complete
<1>2. PICK row : row = [key |-> key, content |-> content]
  OBVIOUS
<1>3. row \in [key : Keys, content : Contents] /\ row.key = key /\ row.content = content
  BY <1>2
<1>4. PICK messages : messages = Append(v.messages, row)
  OBVIOUS
<1>5. PICK shown : shown = v.conversation.key
  OBVIOUS
<1>6. /\ Len(v.messages) \in Nat /\ Len(messages) = Len(v.messages) + 1
      /\ messages \in Messages
  BY <1>1, <1>3, <1>4 DEF Messages
<1>7. /\ Len(messages) \notin Belongs(v.messages, shown)
      /\ Belongs(messages, shown) =
           IF key = shown THEN Belongs(v.messages, shown) \cup {Len(messages)}
           ELSE Belongs(v.messages, shown)
      /\ \A i \in Belongs(v.messages, shown) : messages[i] = v.messages[i]
      /\ messages[Len(messages)] = row
  <2>3. PICK S : S = [key : Keys, content : Contents]
    OBVIOUS
  <2>1. v.messages \in Seq(S) /\ row \in S
    BY <2>3, <1>1, <1>3 DEF Messages
  <2>2. Grows(v.messages, row, shown)
    BY <2>1, Grown, Zenon
  <2> QED
    BY <2>2, <1>3, <1>4, <1>6 DEF Grows
<1>8. PICK line : line = Line("MESSAGE", Len(messages), content)
  OBVIOUS
<1>9. /\ line \in [kind : {"MESSAGE", "FILE"}, id : Nat, content : Contents \cup {Unloaded}]
      /\ line.kind = "MESSAGE" /\ line.id = Len(messages) /\ line.content = content
  BY <1>6, <1>8 DEF Line
<1>10. PICK lines : lines = IF key = shown THEN Append(v.lines, line) ELSE v.lines
  OBVIOUS
<1>11. lines \in Lines /\ Covers(lines, messages, v.files, shown)
  <2>1. CASE key = shown
    <3>1. /\ Append(v.lines, line) \in Lines
          /\ Covers(Append(v.lines, line), messages, v.files, shown)
      <4>1. /\ Belongs(messages, shown) =
                 IF line.kind = "MESSAGE" THEN Belongs(v.messages, shown) \cup {line.id}
                 ELSE Belongs(v.messages, shown)
            /\ Belongs(v.files, shown) =
                 IF line.kind = "FILE" THEN Belongs(v.files, shown) \cup {line.id}
                 ELSE Belongs(v.files, shown)
            /\ line.kind = "MESSAGE" =>
                 line.id \notin Belongs(v.messages, shown) /\ line.content = messages[line.id].content
            /\ line.kind = "FILE" => line.id \notin Belongs(v.files, shown)
        BY <2>1, <1>3, <1>7, <1>9
      <4>2. Covers(v.lines, v.messages, v.files, shown) /\ v.lines \in Lines
        BY <1>1, <1>5
      <4> QED
        BY <4>1, <4>2, <1>7, <1>9, LineCovers, Zenon
    <3> QED
      BY <2>1, <3>1, <1>10
  <2>2. CASE key # shown
    <3>1. \A n \in 1..Len(v.lines) : v.lines[n].kind = "MESSAGE" =>
            v.lines[n].content \in {Unloaded, messages[v.lines[n].id].content}
      <4>1. \A n \in 1..Len(v.lines) : v.lines[n].kind = "MESSAGE" =>
              /\ v.lines[n].id \in Belongs(v.messages, shown)
              /\ v.lines[n].content \in {Unloaded, v.messages[v.lines[n].id].content}
        BY <1>1, <1>5 DEF Covers
      <4> QED
        BY <4>1, <1>7
    <3> QED
      BY <2>2, <3>1, <1>1, <1>5, <1>7, <1>10, SameLines
  <2> QED
    BY <2>1, <2>2
<1>12. MessageAdded(v, key, content) = Written(v, messages, v.files, lines)
  <2>1. PICK stored : stored = [v EXCEPT !.messages = messages]
    OBVIOUS
  <2>2. stored.messages = messages /\ stored.conversation = v.conversation /\ stored.lines = v.lines
    BY <2>1, <1>1 DEF Programs
  <2>3. MessageAdded(v, key, content) = LineAdded(stored, key, line)
    BY <2>1, <2>2, <1>2, <1>4, <1>8 DEF MessageAdded
  <2>4. CASE key = shown
    <3>1. MessageAdded(v, key, content) = [stored EXCEPT !.lines = lines]
      BY <2>2, <2>3, <2>4, <1>5, <1>10 DEF LineAdded, Relevant
    <3> QED
      BY <3>1, <2>1, <1>1 DEF Written, Programs
  <2>5. CASE key # shown
    <3>1. MessageAdded(v, key, content) = stored /\ lines = v.lines
      BY <2>2, <2>3, <2>5, <1>5, <1>10 DEF LineAdded, Relevant
    <3> QED
      BY <3>1, <2>1, <1>1 DEF Written, Programs
  <2> QED
    BY <2>4, <2>5
<1>13. /\ Sound(Written(v, messages, v.files, lines), now)
       /\ Stands(v) => Stands(Written(v, messages, v.files, lines))
       /\ Written(v, messages, v.files, lines).updated = v.updated
  BY <1>1, <1>5, <1>6, <1>11, WrittenIsSound
<1> QED
  BY <1>12, <1>13

LEMMA FileAddedIsSound ==
  ASSUME NEW now, NEW v, Sound(v, now), NEW key \in Keys
  PROVE  LET u == FileAdded(v, key)
         IN Sound(u, now) /\ (Stands(v) => Stands(u)) /\ u.updated = v.updated
<1>1. /\ v \in Programs /\ v.messages \in Messages /\ v.files \in Files /\ v.lines \in Lines
      /\ Covers(v.lines, v.messages, v.files, v.conversation.key)
  BY DEF Sound, Programs, Messages, Files, Lines, Complete
<1>2. PICK row : row = [key |-> key]
  OBVIOUS
<1>3. row \in [key : Keys] /\ row.key = key
  BY <1>2
<1>4. PICK files : files = Append(v.files, row)
  OBVIOUS
<1>5. PICK shown : shown = v.conversation.key
  OBVIOUS
<1>6. /\ Len(v.files) \in Nat /\ Len(files) = Len(v.files) + 1
      /\ files \in Files
  BY <1>1, <1>3, <1>4 DEF Files
<1>7. /\ Len(files) \notin Belongs(v.files, shown)
      /\ Belongs(files, shown) =
           IF key = shown THEN Belongs(v.files, shown) \cup {Len(files)}
           ELSE Belongs(v.files, shown)
      /\ \A i \in Belongs(v.files, shown) : files[i] = v.files[i]
      /\ files[Len(files)] = row
  <2>3. PICK S : S = [key : Keys]
    OBVIOUS
  <2>1. v.files \in Seq(S) /\ row \in S
    BY <2>3, <1>1, <1>3 DEF Files
  <2>2. Grows(v.files, row, shown)
    BY <2>1, Grown, Zenon
  <2> QED
    BY <2>2, <1>3, <1>4, <1>6 DEF Grows
<1>8. PICK line : line = Line("FILE", Len(files), Unloaded)
  OBVIOUS
<1>9. /\ line \in [kind : {"MESSAGE", "FILE"}, id : Nat, content : Contents \cup {Unloaded}]
      /\ line.kind = "FILE" /\ line.id = Len(files)
  BY <1>6, <1>8 DEF Line
<1>10. PICK lines : lines = IF key = shown THEN Append(v.lines, line) ELSE v.lines
  OBVIOUS
<1>11. lines \in Lines /\ Covers(lines, v.messages, files, shown)
  <2>1. CASE key = shown
    <3>1. /\ Append(v.lines, line) \in Lines
          /\ Covers(Append(v.lines, line), v.messages, files, shown)
      <4>1. /\ Belongs(v.messages, shown) =
                 IF line.kind = "MESSAGE" THEN Belongs(v.messages, shown) \cup {line.id}
                 ELSE Belongs(v.messages, shown)
            /\ Belongs(files, shown) =
                 IF line.kind = "FILE" THEN Belongs(v.files, shown) \cup {line.id}
                 ELSE Belongs(v.files, shown)
            /\ line.kind = "MESSAGE" =>
                 line.id \notin Belongs(v.messages, shown) /\ line.content = v.messages[line.id].content
            /\ line.kind = "FILE" => line.id \notin Belongs(v.files, shown)
            /\ \A i \in Belongs(v.messages, shown) : v.messages[i] = v.messages[i]
        BY <2>1, <1>3, <1>7, <1>9
      <4>2. Covers(v.lines, v.messages, v.files, shown) /\ v.lines \in Lines
        BY <1>1, <1>5
      <4> QED
        BY <4>1, <4>2, <1>9, LineCovers, Zenon
    <3> QED
      BY <2>1, <3>1, <1>10
  <2>2. CASE key # shown
    <3>1. \A n \in 1..Len(v.lines) : v.lines[n].kind = "MESSAGE" =>
            v.lines[n].content \in {Unloaded, v.messages[v.lines[n].id].content}
      BY <1>1, <1>5, <1>7 DEF Covers
    <3> QED
      BY <2>2, <3>1, <1>1, <1>5, <1>7, <1>10, SameLines
  <2> QED
    BY <2>1, <2>2
<1>12. FileAdded(v, key) = Written(v, v.messages, files, lines)
  <2>1. PICK stored : stored = [v EXCEPT !.files = files]
    OBVIOUS
  <2>2. stored.files = files /\ stored.conversation = v.conversation /\ stored.lines = v.lines
    BY <2>1, <1>1 DEF Programs
  <2>3. FileAdded(v, key) = LineAdded(stored, key, line)
    BY <2>1, <2>2, <1>2, <1>4, <1>8 DEF FileAdded
  <2>4. CASE key = shown
    <3>1. FileAdded(v, key) = [stored EXCEPT !.lines = lines]
      BY <2>2, <2>3, <2>4, <1>5, <1>10 DEF LineAdded, Relevant
    <3> QED
      BY <3>1, <2>1, <1>1 DEF Written, Programs
  <2>5. CASE key # shown
    <3>1. FileAdded(v, key) = stored /\ lines = v.lines
      BY <2>2, <2>3, <2>5, <1>5, <1>10 DEF LineAdded, Relevant
    <3> QED
      BY <3>1, <2>1, <1>1 DEF Written, Programs
  <2> QED
    BY <2>4, <2>5
<1>13. /\ Sound(Written(v, v.messages, files, lines), now)
       /\ Stands(v) => Stands(Written(v, v.messages, files, lines))
       /\ Written(v, v.messages, files, lines).updated = v.updated
  BY <1>1, <1>5, <1>6, <1>11, WrittenIsSound
<1> QED
  BY <1>12, <1>13

LEMMA AddedIsSound ==
  ASSUME NEW now, NEW v, Sound(v, now), NEW key \in Keys, NEW content \in Contents,
         NEW kind
  PROVE  /\ Sound(Added(v, key, kind, content), now)
         /\ Stands(v) => Stands(Added(v, key, kind, content))
         /\ Added(v, key, kind, content).updated = v.updated
BY MessageAddedIsSound, FileAddedIsSound DEF Added

\* A message has other contents.
Rewritten(v, id, content) == [v.messages EXCEPT ![id].content = content]

LEMMA MessageRewritten ==
  ASSUME NEW v \in Programs, NEW id \in 1..Len(v.messages), NEW content \in Contents
  PROVE  /\ Rewritten(v, id, content) \in Messages
         /\ \A key : Belongs(Rewritten(v, id, content), key) = Belongs(v.messages, key)
         /\ \A i \in 1..Len(v.messages) : i # id => Rewritten(v, id, content)[i] = v.messages[i]
         /\ Rewritten(v, id, content)[id].content = content
<1>1. /\ v.messages \in Messages /\ Len(v.messages) \in Nat /\ DOMAIN v.messages = 1..Len(v.messages)
      /\ \A i \in 1..Len(v.messages) : v.messages[i] \in [key : Keys, content : Contents]
  <2>1. v.messages \in Messages
    BY DEF Programs, Messages
  <2> QED
    BY <2>1, ElementOfSeq, LenProperties DEF Messages
<1>2. PICK messages : messages = Rewritten(v, id, content)
  OBVIOUS
<1>3. PICK row : row = [v.messages[id] EXCEPT !.content = content]
  OBVIOUS
<1>4. row \in [key : Keys, content : Contents] /\ row.key = v.messages[id].key /\ row.content = content
  BY <1>1, <1>3
<1>5. messages = [v.messages EXCEPT ![id] = row]
  BY <1>2, <1>3 DEF Rewritten
<1>6. messages \in Messages /\ Len(messages) = Len(v.messages)
  <2>1. PICK S : S = [key : Keys, content : Contents]
    OBVIOUS
  <2>2. v.messages \in Seq(S) /\ row \in S
    BY <1>1, <1>4, <2>1 DEF Messages
  <2>3. [v.messages EXCEPT ![id] = row] \in Seq(S)
    BY <2>2, ExceptSeq
  <2>4. Len([v.messages EXCEPT ![id] = row]) = Len(v.messages)
    BY <2>2, ExceptSeq
  <2> QED
    BY <2>1, <2>3, <2>4, <1>5 DEF Messages
<1>7. messages[id] = row /\ \A i \in 1..Len(v.messages) : i # id => messages[i] = v.messages[i]
  BY <1>1, <1>5
<1>8. \A i \in 1..Len(v.messages) : messages[i].key = v.messages[i].key
  BY <1>4, <1>7
<1>9. \A key : Belongs(messages, key) = Belongs(v.messages, key)
  BY <1>6, <1>8 DEF Belongs
<1> QED
  BY <1>2, <1>4, <1>6, <1>7, <1>9

\* While what is shown of it is not there yet, or is of another conversation.
LEMMA RewrittenUnseen ==
  ASSUME NEW now, NEW v, Sound(v, now), NEW id \in 1..Len(v.messages), NEW content \in Contents,
         \A n \in 1..Len(v.lines) : v.lines[n].kind = "MESSAGE" /\ v.lines[n].id = id =>
           v.lines[n].content = Unloaded
  PROVE  LET u == Written(v, Rewritten(v, id, content), v.files, v.lines)
         IN Sound(u, now) /\ (Stands(v) => Stands(u))
<1>1. /\ v \in Programs /\ v.files \in Files /\ v.lines \in Lines
      /\ Covers(v.lines, v.messages, v.files, v.conversation.key)
  BY DEF Sound, Programs, Files, Lines, Complete
<1>2. PICK messages : messages = Rewritten(v, id, content)
  OBVIOUS
<1>3. /\ messages \in Messages
      /\ \A key : Belongs(messages, key) = Belongs(v.messages, key)
      /\ \A i \in 1..Len(v.messages) : i # id => messages[i] = v.messages[i]
  BY <1>1, <1>2, MessageRewritten
<1>4. \A n \in 1..Len(v.lines) : v.lines[n].kind = "MESSAGE" =>
        v.lines[n].content \in {Unloaded, messages[v.lines[n].id].content}
  <2>1. \A n \in 1..Len(v.lines) : v.lines[n].kind = "MESSAGE" =>
          /\ v.lines[n].id \in 1..Len(v.messages)
          /\ v.lines[n].content \in {Unloaded, v.messages[v.lines[n].id].content}
    BY <1>1 DEF Covers, Belongs
  <2> QED
    BY <2>1, <1>3
<1>5. Covers(v.lines, messages, v.files, v.conversation.key)
  BY <1>1, <1>3, <1>4, SameLines
<1> QED
  BY <1>1, <1>2, <1>3, <1>5, WrittenIsSound

\* The line follows.
LEMMA RewrittenSeen ==
  ASSUME NEW now, NEW v, Sound(v, now), NEW id \in 1..Len(v.messages), NEW content \in Contents,
         NEW n \in 1..Len(v.lines), v.lines[n].kind = "MESSAGE", v.lines[n].id = id,
         NEW lines, lines = [v.lines EXCEPT ![n] = UpdateLine(v.lines[n], content)]
  PROVE  LET u == Written(v, Rewritten(v, id, content), v.files, lines)
         IN Sound(u, now) /\ (Stands(v) => Stands(u))
<1>1. /\ v \in Programs /\ v.files \in Files /\ v.lines \in Lines
      /\ Covers(v.lines, v.messages, v.files, v.conversation.key)
  BY DEF Sound, Programs, Files, Lines, Complete
<1>2. PICK messages : messages = Rewritten(v, id, content)
  OBVIOUS
<1>3. /\ messages \in Messages
      /\ \A key : Belongs(messages, key) = Belongs(v.messages, key)
      /\ \A i \in 1..Len(v.messages) : i # id => messages[i] = v.messages[i]
      /\ messages[id].content = content
  BY <1>1, <1>2, MessageRewritten
<1>4. PICK S : S = [kind : {"MESSAGE", "FILE"}, id : Nat, content : Contents \cup {Unloaded}]
  OBVIOUS
<1>5. v.lines \in Seq(S) /\ v.lines[n] \in S
  BY <1>1, <1>4, ElementOfSeq DEF Lines
<1>6. PICK line : line = UpdateLine(v.lines[n], content)
  OBVIOUS
<1>7. line \in S /\ line.kind = "MESSAGE" /\ line.id = id /\ line.content = content
  BY <1>4, <1>5, <1>6 DEF UpdateLine
<1>8. lines = [v.lines EXCEPT ![n] = line]
  BY <1>6
<1>9. lines \in Lines /\ Len(lines) = Len(v.lines)
  <2>1. [v.lines EXCEPT ![n] = line] \in Seq(S)
    BY <1>5, <1>7, ExceptSeq
  <2>2. Len([v.lines EXCEPT ![n] = line]) = Len(v.lines)
    BY <1>5, <1>7, ExceptSeq
  <2> QED
    BY <2>1, <2>2, <1>4, <1>8 DEF Lines
<1>10. lines[n] = line /\ \A m \in 1..Len(v.lines) : m # n => lines[m] = v.lines[m]
  <2>1. DOMAIN v.lines = 1..Len(v.lines)
    BY <1>5
  <2> QED
    BY <2>1, <1>8
<1>11. ASSUME NEW m \in 1..Len(v.lines)
       PROVE  /\ lines[m].kind = v.lines[m].kind /\ lines[m].id = v.lines[m].id
              /\ v.lines[m].kind = "MESSAGE" =>
                   lines[m].content \in {Unloaded, messages[v.lines[m].id].content}
  <2>1. CASE m = n
    BY <2>1, <1>3, <1>7, <1>10
  <2>2. CASE m # n
    <3>1. v.lines[m].kind = "MESSAGE" =>
            /\ v.lines[m].id \in 1..Len(v.messages)
            /\ v.lines[m].id # id
            /\ v.lines[m].content \in {Unloaded, v.messages[v.lines[m].id].content}
      BY <2>2, <1>1 DEF Covers, Belongs
    <3> QED
      BY <2>2, <3>1, <1>3, <1>10
  <2> QED
    BY <2>1, <2>2
<1>12. Covers(lines, messages, v.files, v.conversation.key)
  BY <1>1, <1>3, <1>9, <1>11, SameLines
<1> QED
  BY <1>1, <1>2, <1>3, <1>9, <1>12, WrittenIsSound

\* A line is filled when it is drawn.
LEMMA LineDrawn ==
  ASSUME NEW now, NEW v, Sound(v, now), NEW n \in 1..Len(v.lines), v.lines[n].kind = "MESSAGE"
  PROVE  LET u == [v EXCEPT !.lines[n].content = v.messages[v.lines[n].id].content]
         IN Sound(u, now) /\ (Stands(v) => Stands(u))
<1>1. /\ v \in Programs /\ v.files \in Files /\ v.lines \in Lines /\ v.messages \in Messages
      /\ Covers(v.lines, v.messages, v.files, v.conversation.key)
  BY DEF Sound, Programs, Messages, Files, Lines, Complete
<1>2. PICK S : S = [kind : {"MESSAGE", "FILE"}, id : Nat, content : Contents \cup {Unloaded}]
  OBVIOUS
<1>3. v.lines \in Seq(S) /\ v.lines[n] \in S
  BY <1>1, <1>2, ElementOfSeq DEF Lines
<1>4. PICK line : line = UpdateLine(v.lines[n], v.messages[v.lines[n].id].content)
  OBVIOUS
<1>5. v.messages[v.lines[n].id].content \in Contents
  <2>1. v.lines[n].id \in 1..Len(v.messages)
    BY <1>1 DEF Covers, Belongs
  <2>2. v.messages[v.lines[n].id] \in [key : Keys, content : Contents]
    BY <2>1, <1>1, ElementOfSeq DEF Messages
  <2> QED
    BY <2>2
<1>6. /\ line \in S /\ line.kind = "MESSAGE" /\ line.id = v.lines[n].id
      /\ line.content = v.messages[v.lines[n].id].content
  BY <1>2, <1>3, <1>4, <1>5 DEF UpdateLine
<1>7. PICK lines : lines = [v.lines EXCEPT ![n] = line]
  OBVIOUS
<1>8. lines \in Lines /\ Len(lines) = Len(v.lines)
  <2>1. [v.lines EXCEPT ![n] = line] \in Seq(S)
    BY <1>3, <1>6, ExceptSeq
  <2>2. Len([v.lines EXCEPT ![n] = line]) = Len(v.lines)
    BY <1>3, <1>6, ExceptSeq
  <2> QED
    BY <2>1, <2>2, <1>2, <1>7 DEF Lines
<1>9. lines[n] = line /\ \A m \in 1..Len(v.lines) : m # n => lines[m] = v.lines[m]
  <2>1. DOMAIN v.lines = 1..Len(v.lines)
    BY <1>3
  <2> QED
    BY <2>1, <1>7
<1>10. ASSUME NEW m \in 1..Len(v.lines)
       PROVE  /\ lines[m].kind = v.lines[m].kind /\ lines[m].id = v.lines[m].id
              /\ v.lines[m].kind = "MESSAGE" =>
                   lines[m].content \in {Unloaded, v.messages[v.lines[m].id].content}
  <2>1. CASE m = n
    BY <2>1, <1>6, <1>9
  <2>2. CASE m # n
    BY <2>2, <1>1, <1>9 DEF Covers
  <2> QED
    BY <2>1, <2>2
<1>11. Covers(lines, v.messages, v.files, v.conversation.key)
  BY <1>1, <1>8, <1>10, SameLines
<1>12. PICK u : u = Written(v, v.messages, v.files, lines)
  OBVIOUS
<1>13. Sound(u, now) /\ (Stands(v) => Stands(u))
  BY <1>1, <1>8, <1>11, <1>12, WrittenIsSound
<1>14. [v EXCEPT !.lines[n].content = v.messages[v.lines[n].id].content] = u
  BY <1>1, <1>4, <1>7, <1>12 DEF Written, UpdateLine, Programs
<1> QED
  BY <1>13, <1>14

(***************************************************************************)
(* The actions.                                                            *)
(***************************************************************************)

\* The program ends.
LEMMA EndedIsSound ==
  ASSUME NEW now, NEW v, Sound(v, now), Stands(v)
  PROVE  Sound([v EXCEPT !.running = FALSE], now) /\ Stands([v EXCEPT !.running = FALSE])
<1>1. v \in Programs
  BY DEF Sound
<1>2. PICK x : x = [v EXCEPT !.running = FALSE]
  OBVIOUS
<1>3. x \in Programs
  BY <1>1, <1>2 DEF Programs
<1>4. /\ x.rows = v.rows /\ x.updated = v.updated /\ x.lru = v.lru
      /\ x.currentRow = v.currentRow /\ x.current = v.current
      /\ x.conversation = v.conversation /\ x.local = v.local /\ x.identity = v.identity
      /\ x.registry = v.registry /\ x.lines = v.lines
      /\ x.messages = v.messages /\ x.files = v.files
      /\ x.index = v.index /\ x.item = v.item
  BY <1>1, <1>2 DEF Programs
<1>5. Held(x) = Held(v)
  BY <1>4 DEF Held
<1>6. Timed(x, now) /\ One(x) /\ Ordered(x) /\ Followed(x) /\ Complete(x)
  BY <1>4, <1>5 DEF Sound, Timed, One, Ordered, Shown, Followed, Complete
<1> QED
  BY <1>2, <1>3, <1>4, <1>6 DEF Sound, Stands

LEMMA PlaceKept ==
  ASSUME NEW v, Sound(v, minute), Stands(v), MayLoseItsPlace(v)
  PROVE  Sound(w', minute) /\ Stands(w')
BY EndedIsSound DEF MayLoseItsPlace, Ends

\* The state afterwards.
LEMMA Afterwards ==
  ASSUME IInv, Sound(w', minute), Stands(w'), minute' = minute, chosen' \in Keys \cup {NoKey}
  PROVE  IInv'
<1>1. Sound(w', minute') /\ Stands(w') /\ w' \in Programs /\ minute' \in 1..MaxMinute
  BY DEF IInv, TypeOK, Sound
<1> QED
  BY <1>1 DEF IInv, TypeOK

LEMMA SendKeepsIInv ==
  ASSUME IInv, NEW kind, Send(kind)
  PROVE  IInv'
<1>1. Sound(w, minute) /\ Stands(w) /\ minute \in 1..MaxMinute /\ chosen \in Keys \cup {NoKey}
  BY DEF IInv, TypeOK
<1>2. /\ w.current # Nothing
      /\ MayLoseItsPlace(
           TouchLastActivity(
             Added(w, w.current.key, kind, [state |-> "QUEUED", dated |-> FALSE]),
             w.current, minute))
      /\ minute' = minute /\ chosen' = chosen
  BY DEF Send
<1>3. PICK o : o = w.current
  OBVIOUS
<1>4. o \in Objects /\ o.key \in Keys /\ w.updated[o.key] # 0
  <2>1. o \in Objects
    BY <1>1, <1>2, <1>3 DEF Sound, Programs
  <2>2. o.copy # 0
    BY <2>1 DEF Objects, Copies
  <2>3. o \in Held(w)
    BY <2>2, <1>3 DEF Held
  <2> QED
    BY <2>1, <2>3, <1>1 DEF Sound, One, Objects
<1>5. PICK content \in Contents : content = [state |-> "QUEUED", dated |-> FALSE]
  BY DEF Contents
<1>6. PICK u : u = Added(w, o.key, kind, content)
  OBVIOUS
<1>7. Sound(u, minute) /\ Stands(u) /\ u.updated = w.updated
  BY <1>1, <1>4, <1>6, AddedIsSound
<1>8. PICK v : v = TouchLastActivity(u, o, minute)
  OBVIOUS
<1>9. Sound(v, minute) /\ Stands(v)
  BY <1>1, <1>4, <1>7, <1>8, TouchIsSound
<1>10. MayLoseItsPlace(v)
  BY <1>2, <1>3, <1>5, <1>6, <1>8
<1> QED
  BY <1>1, <1>2, <1>9, <1>10, PlaceKept, Afterwards

LEMMA ReceiveKeepsIInv ==
  ASSUME IInv, NEW key \in Keys, NEW kind, Receive(key, kind)
  PROVE  IInv'
<1>1. Sound(w, minute) /\ Stands(w) /\ minute \in 1..MaxMinute /\ chosen \in Keys \cup {NoKey}
  BY DEF IInv, TypeOK
<1>2. PICK got : got = GetConversation(w, key, minute)
  OBVIOUS
<1>3. /\ MayLoseItsPlace(
           TouchLastActivity(
             Added(got.program, key, kind, [state |-> "RECEIVED", dated |-> TRUE]),
             got.object, minute))
      /\ minute' = minute /\ chosen' = chosen
  BY <1>2 DEF Receive
<1>4. /\ got.object \in Objects
      /\ got.object.key = key
      /\ got.program.updated[key] # 0
      /\ Sound(got.program, minute)
      /\ Stands(got.program)
  BY <1>1, <1>2, GetConversationIsSound
<1>5. PICK content \in Contents : content = [state |-> "RECEIVED", dated |-> TRUE]
  BY DEF Contents
<1>6. PICK u : u = Added(got.program, key, kind, content)
  OBVIOUS
<1>7. Sound(u, minute) /\ Stands(u) /\ u.updated = got.program.updated
  BY <1>4, <1>6, AddedIsSound
<1>8. PICK v : v = TouchLastActivity(u, got.object, minute)
  OBVIOUS
<1>9. Sound(v, minute) /\ Stands(v)
  BY <1>1, <1>4, <1>7, <1>8, TouchIsSound
<1>10. MayLoseItsPlace(v)
  BY <1>3, <1>5, <1>6, <1>8
<1> QED
  BY <1>1, <1>3, <1>9, <1>10, PlaceKept, Afterwards

LEMMA ChangeMessageKeepsIInv ==
  ASSUME IInv, NEW id \in 1..Len(w.messages), NEW content \in Contents, ChangeMessage(id, content)
  PROVE  IInv'
<1>1. /\ Sound(w, minute) /\ Stands(w) /\ chosen \in Keys \cup {NoKey}
      /\ w \in Programs /\ w.lines \in Lines
      /\ Covers(w.lines, w.messages, w.files, w.conversation.key)
  BY DEF IInv, TypeOK, Sound, Complete, Programs, Lines
<1>2. PICK v : v = Written(w, Rewritten(w, id, content), w.files, w.lines)
  OBVIOUS
<1>3. [w EXCEPT !.messages[id].content = content] = v
  BY <1>1, <1>2 DEF Written, Rewritten, Programs
<1>4. PICK n : n = SelectInSeq(w.lines, LAMBDA l : l.kind = "MESSAGE" /\ l.id = id)
  OBVIOUS
<1>5. /\ minute' = minute /\ chosen' = chosen
      /\ CASE ~Relevant(w, w.messages[id].key) -> w' = v
           [] Relevant(w, w.messages[id].key) /\ w.lines[n].content = Unloaded -> Ends(v)
           [] OTHER -> w' = [v EXCEPT !.lines[n] = UpdateLine(@, content)]
  BY <1>3, <1>4 DEF ChangeMessage
<1>6. CASE ~Relevant(w, w.messages[id].key)
  <2>1. \A m \in 1..Len(w.lines) : ~(w.lines[m].kind = "MESSAGE" /\ w.lines[m].id = id)
    BY <1>1, <1>6 DEF Covers, Belongs, Relevant
  <2>2. Sound(v, minute) /\ Stands(v)
    BY <2>1, <1>1, <1>2, RewrittenUnseen
  <2>3. w' = v
    BY <1>5, <1>6
  <2> QED
    BY <2>2, <2>3, <1>1, <1>5, Afterwards
<1>7. CASE Relevant(w, w.messages[id].key)
  <2>1. id \in Belongs(w.messages, w.conversation.key)
    BY <1>7 DEF Belongs, Relevant
  <2>2. PICK k \in 1..Len(w.lines) : w.lines[k].kind = "MESSAGE" /\ w.lines[k].id = id
    BY <2>1, <1>1 DEF Covers
  <2>3. n \in 1..Len(w.lines) /\ w.lines[n].kind = "MESSAGE" /\ w.lines[n].id = id
    <3>1. n = LineAt(w.lines, id)
      BY <1>4 DEF SelectInSeq, LineAt
    <3> QED
      BY <2>2, <3>1, <1>1, LineOf DEF Lines
  <2>4. CASE w.lines[n].content = Unloaded
    <3>1. \A m \in 1..Len(w.lines) : w.lines[m].kind = "MESSAGE" /\ w.lines[m].id = id =>
            w.lines[m].content = Unloaded
      BY <2>3, <2>4, <1>1 DEF Covers
    <3>2. Sound(v, minute) /\ Stands(v)
      BY <3>1, <1>1, <1>2, RewrittenUnseen
    <3>3. w' = [v EXCEPT !.running = FALSE]
      BY <2>4, <1>5, <1>7 DEF Ends
    <3>4. Sound(w', minute) /\ Stands(w')
      BY <3>2, <3>3, EndedIsSound
    <3> QED
      BY <3>4, <1>1, <1>5, Afterwards
  <2>5. CASE w.lines[n].content # Unloaded
    <3>1. PICK lines : lines = [w.lines EXCEPT ![n] = UpdateLine(w.lines[n], content)]
      OBVIOUS
    <3>2. PICK u : u = Written(w, Rewritten(w, id, content), w.files, lines)
      OBVIOUS
    <3>3. Sound(u, minute) /\ Stands(u)
      BY <2>3, <3>1, <3>2, <1>1, RewrittenSeen
    <3>4. w' = [v EXCEPT !.lines[n] = UpdateLine(@, content)]
      BY <2>5, <1>5, <1>7
    <3>5. w' = u
      BY <3>1, <3>2, <3>4, <1>1, <1>2 DEF Written, Programs
    <3> QED
      BY <3>3, <3>5, <1>1, <1>5, Afterwards
  <2> QED
    BY <2>4, <2>5
<1> QED
  BY <1>6, <1>7

LEMMA ProgressKeepsIInv ==
  ASSUME IInv, NEW id \in 1..Len(w.messages), Progress(id)
  PROVE  IInv'
<1>1. PICK content : content = w.messages[id].content
  OBVIOUS
<1>2. content \in Contents
  <2>1. w.messages \in Messages
    BY DEF IInv, TypeOK, Programs, Messages
  <2>2. w.messages[id] \in [key : Keys, content : Contents]
    BY <2>1, ElementOfSeq DEF Messages
  <2> QED
    BY <2>2, <1>1
<1>3. /\ [content EXCEPT !.state = "SENT"] \in Contents
      /\ [content EXCEPT !.dated = TRUE] \in Contents
      /\ [content EXCEPT !.state = "RECEIVED"] \in Contents
  BY <1>2 DEF Contents
<1>4. \/ ChangeMessage(id, [content EXCEPT !.state = "SENT"])
      \/ ChangeMessage(id, [content EXCEPT !.dated = TRUE])
      \/ ChangeMessage(id, [content EXCEPT !.state = "RECEIVED"])
  BY <1>1 DEF Progress
<1> QED
  BY <1>3, <1>4, ChangeMessageKeepsIInv

LEMMA DrawLineKeepsIInv ==
  ASSUME IInv, NEW n, DrawLine(n)
  PROVE  IInv'
<1>1. /\ Sound(w, minute) /\ Stands(w) /\ chosen \in Keys \cup {NoKey}
      /\ w.lines \in Lines
  BY DEF IInv, TypeOK, Programs, Lines
<1>2. n \in 1..Len(w.lines)
  BY <1>1 DEF DrawLine, Lines
<1>3. /\ w.lines[n].kind = "MESSAGE"
      /\ w' = [w EXCEPT !.lines[n].content = w.messages[w.lines[n].id].content]
      /\ minute' = minute /\ chosen' = chosen
  BY DEF DrawLine
<1>4. Sound(w', minute) /\ Stands(w')
  BY <1>1, <1>2, <1>3, LineDrawn
<1> QED
  BY <1>1, <1>3, <1>4, Afterwards

LEMMA DrawRowKeepsIInv ==
  ASSUME IInv, NEW i, DrawRow(i)
  PROVE  IInv'
<1>1. /\ Sound(w, minute) /\ Stands(w) /\ chosen \in Keys \cup {NoKey}
  BY DEF IInv, TypeOK
<1>2. i \in 1..Len(w.rows)
  BY <1>1, RowsFit DEF DrawRow, Rows
<1>3. w' = LoadRow(w, i) /\ minute' = minute /\ chosen' = chosen
  BY DEF DrawRow
<1>4. Sound(w', minute) /\ Loaded(w, w')
  BY <1>1, <1>2, <1>3, LoadRowIsSound
<1>5. Stands(w')
  BY <1>1, <1>4 DEF Loaded, Stands
<1> QED
  BY <1>1, <1>3, <1>4, <1>5, Afterwards

\* The row the list view stands on can be found.
LEMMA StandsSomewhere ==
  ASSUME NEW now, NEW v, Sound(v, now), Stands(v)
  PROVE  LET p == PositionOf(v.rows, v.item)
         IN /\ p \in 0..Len(v.rows)
            /\ p = 0 <=> v.current = Nothing
            /\ p # 0 => v.rows[p].key = v.current.key
<1>1. /\ v.rows \in Rows /\ Followed(v) /\ v.item = v.current.key
      /\ v.current \in Objects \cup {Nothing}
  BY DEF Sound, Programs, Rows, Stands
<1>2. PICK p : p = PositionOf(v.rows, v.item)
  OBVIOUS
<1>3. /\ p \in 0..Len(v.rows)
      /\ p # 0 => v.rows[p].key = v.item
      /\ p = 0 => \A i \in 1..Len(v.rows) : v.rows[i].key # v.item
  BY <1>1, <1>2, Position DEF Rows
<1>4. CASE v.current = Nothing
  <2>1. v.item \notin Keys
    BY <1>1, <1>4, KeysAssumption DEF Nothing
  <2>2. p # 0 => p \in 1..Len(v.rows)
    BY <1>3, RowsFit
  <2>3. p = 0
    BY <2>1, <2>2, <1>3, RowsAreStored
  <2> QED
    BY <2>3, <1>2, <1>3, <1>4
<1>5. CASE v.current # Nothing
  <2>1. v.current \in ToSet(v.rows)
    BY <1>1, <1>5 DEF Followed
  <2>2. ToSet(v.rows) = {v.rows[i] : i \in 1..Len(v.rows)}
    BY <1>1, InToSet DEF Rows
  <2>3. PICK i \in 1..Len(v.rows) : v.rows[i] = v.current
    BY <2>1, <2>2
  <2>4. p # 0
    BY <2>3, <1>1, <1>3
  <2> QED
    BY <2>4, <1>1, <1>2, <1>3, <1>5
<1> QED
  BY <1>4, <1>5

LEMMA LayoutKeepsIInv ==
  ASSUME IInv, Layout
  PROVE  IInv'
<1>1. /\ Sound(w, minute) /\ Stands(w) /\ chosen \in Keys \cup {NoKey}
  BY DEF IInv, TypeOK
<1>2. PICK p : p = PositionOf(w.rows, w.item)
  OBVIOUS
<1>3. w' = SetIndex(w, p) /\ w.index # p /\ minute' = minute /\ chosen' = chosen
  BY <1>2 DEF Layout, LaidOut
<1>4. /\ p \in 0..Len(w.rows)
      /\ p = 0 <=> w.current = Nothing
      /\ p # 0 => w.rows[p].key = w.current.key
  BY <1>1, <1>2, StandsSomewhere
<1>5. p # 0
  BY <1>1, <1>3, <1>4 DEF Sound, Followed, Stands
<1>6. p \in 1..Len(w.rows)
  BY <1>1, <1>4, <1>5, RowsFit
<1>7. Sound(w', minute) /\ Stands(w')
  BY <1>1, <1>3, <1>4, <1>5, <1>6, SetIndexIsSound
<1> QED
  BY <1>1, <1>3, <1>7, Afterwards

LEMMA ClickRowKeepsIInv ==
  ASSUME IInv, NEW i, ClickRow(i)
  PROVE  IInv'
<1>1. /\ Sound(w, minute) /\ Stands(w) /\ chosen \in Keys \cup {NoKey}
  BY DEF IInv, TypeOK
<1>2. i \in 1..Len(w.rows)
  BY <1>1, RowsFit DEF ClickRow, Rows
<1>3. /\ w' = SetIndex(w, i) /\ minute' = minute /\ chosen' = w.rows[i].key
      /\ w.index = PositionOf(w.rows, w.item)
  BY DEF ClickRow, LaidOut
<1>4. chosen' \in Keys
  BY <1>1, <1>2, <1>3, RowsAreStored
<1>5. i # w.currentRow \/ w.rows[i].key = w.current.key
  <2>1. i # 0
    BY <1>2
  <2>2. w.index # 0 => w.rows[w.index].key = w.current.key
    BY <1>1, <1>3, StandsSomewhere
  <2> QED
    BY <2>1, <2>2, <1>1 DEF Stands
<1>6. Sound(w', minute) /\ Stands(w')
  BY <1>1, <1>2, <1>3, <1>5, SetIndexIsSound
<1> QED
  BY <1>3, <1>4, <1>6, Afterwards

LEMMA ChooseContactKeepsIInv ==
  ASSUME IInv, NEW key \in Keys, ChooseContact(key)
  PROVE  IInv'
<1>1. Sound(w, minute) /\ Stands(w) /\ minute \in 1..MaxMinute
  BY DEF IInv, TypeOK
<1>2. w' = SetContact(w, key, minute) /\ minute' = minute /\ chosen' = key
  BY DEF ChooseContact
<1>3. Sound(w', minute) /\ Stands(w')
  BY <1>1, <1>2, SetContactIsSound
<1> QED
  BY <1>2, <1>3, Afterwards

LEMMA OpenConversationKeepsIInv ==
  ASSUME IInv, NEW key \in Keys, OpenConversation(key)
  PROVE  IInv'
<1>1. Sound(w, minute) /\ Stands(w) /\ minute \in 1..MaxMinute
  BY DEF IInv, TypeOK
<1>2. PICK got : got = GetConversation(w, key, minute)
  OBVIOUS
<1>3. w' \in SetCurrents(got.program, got.object) /\ minute' = minute /\ chosen' = key
  BY <1>2 DEF OpenConversation
<1>4. Sound(got.program, minute) /\ Stands(got.program)
  BY <1>1, <1>2, GetConversationIsSound
<1>5. Sound(w', minute) /\ Stands(w')
  BY <1>3, <1>4, SetCurrentsAreSound
<1> QED
  BY <1>3, <1>5, Afterwards

LEMMA ChooseIdentityKeepsIInv ==
  ASSUME IInv, NEW identity \in Identities, ChooseIdentity(identity)
  PROVE  IInv'
<1>1. Sound(w, minute) /\ Stands(w) /\ minute \in 1..MaxMinute
  BY DEF IInv, TypeOK
<1>2. PICK contacts : contacts = {k \in Keys : Owner[k] = identity}
  OBVIOUS
<1>3. PICK key : key = CHOOSE k \in contacts : TRUE
  OBVIOUS
<1>4. PICK v : v = IF Cardinality(contacts) = 1 THEN SetContact(w, key, minute) ELSE w
  OBVIOUS
<1>5. /\ \E listing \in Listings(v, identity) : w' = SetIdentity(v, identity, listing)
      /\ minute' = minute /\ chosen' = NoKey
  BY <1>2, <1>3, <1>4 DEF ChooseIdentity
<1>6. Sound(v, minute) /\ Stands(v)
  <2>1. CASE Cardinality(contacts) = 1
    <3>1. contacts # {}
      BY <2>1, FS_EmptySet
    <3>2. key \in Keys
      BY <3>1, <1>2, <1>3
    <3> QED
      BY <2>1, <3>2, <1>1, <1>4, SetContactIsSound
  <2>2. CASE Cardinality(contacts) # 1
    BY <2>2, <1>1, <1>4
  <2> QED
    BY <2>1, <2>2
<1>7. PICK listing \in Listings(v, identity) : w' = SetIdentity(v, identity, listing)
  BY <1>5
<1>8. Sound(w', minute) /\ Stands(w')
  BY <1>6, <1>7, SetIdentityIsSound
<1> QED
  BY <1>5, <1>8, Afterwards

LEMMA TickKeepsIInv ==
  ASSUME IInv, Tick
  PROVE  IInv'
<1>1. /\ Sound(w, minute) /\ Stands(w) /\ chosen \in Keys \cup {NoKey}
      /\ minute \in 1..MaxMinute /\ w \in Programs
  BY DEF IInv, TypeOK
<1>2. minute < MaxMinute /\ minute' = minute + 1 /\ w' = w /\ chosen' = chosen
  BY DEF Tick
<1>3. minute' \in 1..MaxMinute
  BY <1>1, <1>2, BoundsAssumption
<1>4. Timed(w, minute')
  <2>1. \A k \in Keys : w.updated[k] \in 0..MaxMinute /\ w.updated[k] <= minute
    BY <1>1 DEF Sound, Timed, Programs
  <2> QED
    BY <2>1, <1>1, <1>2 DEF Timed
<1>5. Sound(w', minute') /\ Stands(w')
  BY <1>1, <1>2, <1>4 DEF Sound
<1> QED
  BY <1>1, <1>2, <1>3, <1>5 DEF IInv, TypeOK

\* Nothing is shown at first.
LEMMA StartedIsSound ==
  ASSUME NEW now, NEW updated \in [Keys -> 0..MaxMinute], NEW messages \in Messages,
         NEW files \in Files, \A k \in Keys : updated[k] <= now
  PROVE  Sound(Started(updated, messages, files), now) /\ Stands(Started(updated, messages, files))
<1>1. PICK x : x = Started(updated, messages, files)
  OBVIOUS
<1>2. x \in Programs
  <2>1. 0 \in 0..Cardinality(Keys)
    BY KeysAssumption, FS_CardinalityType
  <2>2. 0 \in 0..MaxMinute
    BY BoundsAssumption
  <2>3. PICK activity : activity = [k \in Keys |-> [c \in Copies |-> 0]]
    OBVIOUS
  <2>4. activity \in [Keys -> [Copies -> 0..MaxMinute]]
    BY <2>2, <2>3
  <2>5. PICK registry : registry = [k \in Keys |-> 0]
    OBVIOUS
  <2>6. registry \in [Keys -> {0} \cup Copies]
    BY <2>5
  <2> QED
    BY <2>1, <2>3, <2>4, <2>5, <2>6, <1>1 DEF Started, Programs, Messages, Files
<1>3. /\ x.updated = updated /\ x.messages = messages /\ x.files = files
      /\ x.lru = <<>> /\ x.rows = <<>> /\ x.lines = <<>> /\ x.local = Nothing
      /\ x.identity = NoIdentity /\ x.currentRow = 0 /\ x.current = Nothing
      /\ x.index = 0 /\ x.item = NoKey /\ x.conversation = Nothing
  BY <1>1 DEF Started
<1>4. Held(x) = {}
  <2>1. Nothing.copy = 0
    BY DEF Nothing
  <2> QED
    BY <2>1, <1>3, ToSetEmpty DEF Held
<1>5. One(x)
  BY <1>4 DEF One
<1>6. Ordered(x)
  <2>1. Shown(x) = {}
    BY <1>3, OwnerAssumption DEF Shown
  <2> QED
    BY <2>1, <1>3 DEF Ordered, InOrder
<1>7. Complete(x)
  <2>1. Nothing.key \notin Keys
    BY KeysAssumption DEF Nothing
  <2>2. /\ \A i \in 1..Len(messages) : messages[i].key \in Keys
        /\ \A i \in 1..Len(files) : files[i].key \in Keys
    <3>1. \A i \in 1..Len(messages) : messages[i] \in [key : Keys, content : Contents]
      BY ElementOfSeq DEF Messages
    <3>2. \A i \in 1..Len(files) : files[i] \in [key : Keys]
      BY ElementOfSeq DEF Files
    <3> QED
      BY <3>1, <3>2
  <2>3. Belongs(messages, Nothing.key) = {} /\ Belongs(files, Nothing.key) = {}
    BY <2>1, <2>2 DEF Belongs
  <2>4. Covers(<<>>, messages, files, Nothing.key)
    BY <2>3 DEF Covers
  <2> QED
    BY <2>4, <1>3 DEF Complete
<1>8. Timed(x, now) /\ Followed(x) /\ Stands(x)
  BY <1>3 DEF Timed, Followed, Stands, Nothing
<1> QED
  BY <1>1, <1>2, <1>5, <1>6, <1>7, <1>8 DEF Sound

LEMMA RestartKeepsIInv ==
  ASSUME IInv, Restart
  PROVE  IInv'
<1>1. /\ w.updated \in [Keys -> 0..MaxMinute] /\ w.messages \in Messages /\ w.files \in Files
      /\ \A k \in Keys : w.updated[k] <= minute
  BY DEF IInv, Sound, Timed, Programs, Messages, Files
<1>2. /\ w' = Started(w.updated, w.messages, w.files)
      /\ minute' = minute /\ chosen' = NoKey
  BY DEF Restart
<1>3. Sound(w', minute) /\ Stands(w')
  BY <1>1, <1>2, StartedIsSound
<1> QED
  BY <1>2, <1>3, Afterwards

LEMMA InitIsSound == Init => IInv
<1> SUFFICES ASSUME Init
             PROVE  IInv
  OBVIOUS
<1>1. PICK updated : updated = [k \in Keys |-> 0]
  OBVIOUS
<1>2. w = Started(updated, <<>>, <<>>) /\ minute = 1 /\ chosen = NoKey
  BY <1>1 DEF Init
<1>3. /\ updated \in [Keys -> 0..MaxMinute] /\ \A k \in Keys : updated[k] <= minute
      /\ minute \in 1..MaxMinute
  <2>1. 0 \in 0..MaxMinute /\ 1 \in 1..MaxMinute
    BY BoundsAssumption
  <2> QED
    BY <2>1, <1>1, <1>2
<1>4. <<>> \in Messages /\ <<>> \in Files
  BY DEF Messages, Files
<1>5. Sound(w, minute) /\ Stands(w)
  BY <1>2, <1>3, <1>4, StartedIsSound
<1> QED
  BY <1>2, <1>3, <1>5 DEF IInv, TypeOK, Sound

LEMMA NextKeepsIInv ==
  IInv /\ [Next]_vars => IInv'
<1> SUFFICES ASSUME IInv, [Next]_vars
             PROVE  IInv'
  OBVIOUS
<1>1. CASE UNCHANGED vars
  <2>1. w' = w /\ minute' = minute /\ chosen' = chosen
    BY <1>1 DEF vars
  <2>2. Sound(w', minute) /\ Stands(w') /\ chosen' \in Keys \cup {NoKey}
    BY <2>1 DEF IInv, TypeOK
  <2> QED
    BY <2>1, <2>2, Afterwards
<1>2. ASSUME NEW kind \in {"MESSAGE", "FILE"}, Send(kind)
      PROVE  IInv'
  BY <1>2, SendKeepsIInv
<1>3. ASSUME NEW kind \in {"MESSAGE", "FILE"}, NEW key \in Keys, Receive(key, kind)
      PROVE  IInv'
  BY <1>3, ReceiveKeepsIInv
<1>4. ASSUME NEW id \in 1..Len(w.messages), Progress(id)
      PROVE  IInv'
  BY <1>4, ProgressKeepsIInv
<1>5. ASSUME NEW n \in 1..MaxMessages + MaxFiles, DrawLine(n)
      PROVE  IInv'
  BY <1>5, DrawLineKeepsIInv
<1>6. ASSUME NEW i \in 1..Cardinality(Keys), DrawRow(i)
      PROVE  IInv'
  BY <1>6, DrawRowKeepsIInv
<1>7. ASSUME NEW i \in 1..Cardinality(Keys), ClickRow(i)
      PROVE  IInv'
  BY <1>7, ClickRowKeepsIInv
<1>8. ASSUME NEW key \in Keys, ChooseContact(key)
      PROVE  IInv'
  BY <1>8, ChooseContactKeepsIInv
<1>9. ASSUME NEW key \in Keys, OpenConversation(key)
      PROVE  IInv'
  BY <1>9, OpenConversationKeepsIInv
<1>10. ASSUME NEW identity \in Identities, ChooseIdentity(identity)
       PROVE  IInv'
  BY <1>10, ChooseIdentityKeepsIInv
<1> QED
  BY <1>1, <1>2, <1>3, <1>4, <1>5, <1>6, <1>7, <1>8, <1>9, <1>10,
     LayoutKeepsIInv, TickKeepsIInv, RestartKeepsIInv DEF Next

THEOREM Inductive == Spec => []IInv
<1>1. Init => IInv
  BY InitIsSound
<1>2. IInv /\ [Next]_vars => IInv'
  BY NextKeepsIInv
<1> QED
  BY <1>1, <1>2, PTL DEF Spec

(***************************************************************************)
(* The properties.                                                         *)
(***************************************************************************)

\* The program, its tables and its views are always what their types say: no row, line
\* or index is out of bounds (ConversationsModel, MessagesModel).
THEOREM TypeCorrect == Spec => []TypeOK
<1>1. IInv => TypeOK
  BY DEF IInv
<1> QED
  BY <1>1, Inductive, PTL

\* The rows are the conversations of the shown identity in the order of queryRows(),
\* although they are only moved and added to after it.
THEOREM RowsStayListed == Spec => []RowsAreTheConversations
<1>1. IInv => RowsAreTheConversations
  BY OrderedIsListing DEF IInv, Sound, RowsAreTheConversations
<1> QED
  BY <1>1, Inductive, PTL

\* The registry of a manager gives one object for each row of its table, however small
\* the cache is.
THEOREM ObjectsStayUnique == Spec => []OneObjectPerRow
<1>1. IInv => OneObjectPerRow
  <2> SUFFICES ASSUME IInv, NEW o \in Held(w), NEW q \in Held(w), o.key = q.key
               PROVE  o = q
    BY DEF OneObjectPerRow
  <2>1. w \in Programs /\ One(w)
    BY DEF IInv, Sound
  <2>2. o \in Objects /\ q \in Objects
    BY <2>1, HeldObjects
  <2>3. o.copy = q.copy
    BY <2>1 DEF One
  <2> QED
    BY <2>2, <2>3 DEF Objects
<1> QED
  BY <1>1, Inductive, PTL

\* Once the list view has found its row again, it highlights the conversation that is
\* written to and read (ConversationsModel::setCurrentRow(), MessagesModel).
THEOREM SelectionStaysOne == Spec => []SelectionAgrees
<1>1. IInv => SelectionAgrees
  <2> SUFFICES ASSUME IInv, LaidOut(w)
               PROVE  /\ w.currentRow = w.index
                      /\ w.conversation = w.current
                      /\ w.current = IF w.index = 0 THEN Nothing ELSE w.rows[w.index]
    BY DEF SelectionAgrees
  <2>1. /\ Sound(w, minute) /\ Stands(w) /\ Followed(w) /\ w.rows \in Rows
        /\ w.index = PositionOf(w.rows, w.item)
    BY DEF IInv, Sound, LaidOut, Programs, Rows
  <2>2. /\ w.index \in 0..Len(w.rows)
        /\ w.index = 0 <=> w.current = Nothing
        /\ w.index # 0 => w.rows[w.index].key = w.current.key
    BY <2>1, StandsSomewhere
  <2>3. w.current = IF w.index = 0 THEN Nothing ELSE w.rows[w.index]
    <3>1. CASE w.index = 0
      BY <3>1, <2>2
    <3>2. CASE w.index # 0
      <4>1. w.current \in ToSet(w.rows)
        BY <3>2, <2>1, <2>2 DEF Followed
      <4>2. ToSet(w.rows) = {w.rows[i] : i \in 1..Len(w.rows)}
        BY <2>1, InToSet DEF Rows
      <4>3. PICK i \in 1..Len(w.rows) : w.rows[i] = w.current
        BY <4>1, <4>2
      <4>4. PICK n \in 1..Len(w.rows) : n = w.index
        BY <3>2, <2>1, <2>2, RowsFit
      <4>5. w.rows[i].key = w.rows[n].key
        BY <3>2, <4>3, <4>4, <2>2
      <4>6. ~(i < n) /\ ~(n < i)
        BY <2>1, <4>5 DEF Sound, Ordered, InOrder
      <4>7. i = n
        BY <2>1, <4>6, RowsFit
      <4> QED
        BY <3>2, <4>3, <4>4, <4>7
    <3> QED
      BY <3>1, <3>2
  <2> QED
    BY <2>1, <2>3 DEF Stands, Followed
<1> QED
  BY <1>1, Inductive, PTL

\* The ids of what is stored, and of what is shown.
Pairs(messages, files, key) ==
  {<<"MESSAGE", i>> : i \in Belongs(messages, key)} \cup {<<"FILE", i>> : i \in Belongs(files, key)}

Ids(lines) == [n \in DOMAIN lines |-> <<lines[n].kind, lines[n].id>>]

LEMMA CoveredPairs ==
  ASSUME NEW lines \in Lines, NEW messages, NEW files, NEW key, Covers(lines, messages, files, key)
  PROVE  /\ Len(Ids(lines)) = Cardinality(Pairs(messages, files, key))
         /\ ToSet(Ids(lines)) = Pairs(messages, files, key)
         /\ {<<l.kind, l.id>> : l \in ToSet(lines)} = Pairs(messages, files, key)
<1> DEFINE P == Pairs(messages, files, key)
           n == Len(lines)
<1>1. /\ n \in Nat /\ DOMAIN lines = 1..n
      /\ \A i \in 1..n : lines[i].kind \in {"MESSAGE", "FILE"}
  <2>1. \A i \in 1..n :
          lines[i] \in [kind : {"MESSAGE", "FILE"}, id : Nat, content : Contents \cup {Unloaded}]
    BY ElementOfSeq DEF Lines
  <2> QED
    BY <2>1, LenProperties DEF Lines
<1>2. PICK s : s = Ids(lines)
  OBVIOUS
<1>3. /\ DOMAIN s = 1..n
      /\ \A i \in 1..n : s[i] = <<lines[i].kind, lines[i].id>>
  BY <1>1, <1>2 DEF Ids
<1>4. \A i \in 1..n : s[i] \in P
  <2> TAKE i \in 1..n
  <2>1. CASE lines[i].kind = "MESSAGE"
    <3>1. lines[i].id \in Belongs(messages, key)
      BY <2>1 DEF Covers
    <3> QED
      BY <2>1, <3>1, <1>3 DEF Pairs
  <2>2. CASE lines[i].kind = "FILE"
    <3>1. lines[i].id \in Belongs(files, key)
      BY <2>2 DEF Covers
    <3> QED
      BY <2>2, <3>1, <1>3 DEF Pairs
  <2> QED
    BY <2>1, <2>2, <1>1
<1>5. \A p \in P : \E i \in 1..n : s[i] = p
  <2> TAKE p \in P
  <2>1. CASE \E k \in Belongs(messages, key) : p = <<"MESSAGE", k>>
    <3>1. PICK k \in Belongs(messages, key) : p = <<"MESSAGE", k>>
      BY <2>1
    <3>2. PICK i \in 1..n : lines[i].kind = "MESSAGE" /\ lines[i].id = k
      BY DEF Covers
    <3> QED
      BY <3>1, <3>2, <1>3
  <2>2. CASE \E k \in Belongs(files, key) : p = <<"FILE", k>>
    <3>1. PICK k \in Belongs(files, key) : p = <<"FILE", k>>
      BY <2>2
    <3>2. PICK i \in 1..n : lines[i].kind = "FILE" /\ lines[i].id = k
      BY DEF Covers
    <3> QED
      BY <3>1, <3>2, <1>3
  <2> QED
    BY <2>1, <2>2 DEF Pairs
<1>6. \A i, j \in 1..n : i # j => s[i] # s[j]
  BY <1>3 DEF Covers
<1> HIDE DEF P, n
<1>7. s \in [1..n -> P] /\ s = [i \in 1..n |-> s[i]]
  <2>1. s = [i \in 1..n |-> s[i]]
    BY <1>1, <1>2, <1>3 DEF Ids
  <2> QED
    BY <2>1, <1>4
<1>8. s \in Bijection(1..n, P)
  BY <1>5, <1>6, <1>7 DEF Bijection, Injection, Surjection, IsInjective
<1>9. Cardinality(P) = n
  <2>1. IsFiniteSet(1..n) /\ Cardinality(1..n) = n
    <3>1. 1 \in Int /\ n \in Int
      BY <1>1
    <3> QED
      BY <3>1, <1>1, FS_Interval
  <2>2. ExistsBijection(1..n, P)
    BY <1>8 DEF ExistsBijection
  <2> QED
    BY <2>1, <2>2, FS_Bijection
<1>10. s \in Seq(P) /\ Len(s) = n
  BY <1>1, <1>7
<1>11. ToSet(s) = P
  <2>1. ToSet(s) = {s[i] : i \in 1..n}
    BY <1>10, InToSet
  <2> QED
    BY <2>1, <1>4, <1>5
<1>12. {<<l.kind, l.id>> : l \in ToSet(lines)} = P
  <2>1. ToSet(lines) = {lines[i] : i \in 1..n}
    BY InToSet DEF Lines, n
  <2>2. {<<l.kind, l.id>> : l \in ToSet(lines)} = {<<lines[i].kind, lines[i].id>> : i \in 1..n}
    BY <2>1
  <2>3. {<<lines[i].kind, lines[i].id>> : i \in 1..n} = {s[i] : i \in 1..n}
    BY <1>3
  <2>4. {s[i] : i \in 1..n} = P
    BY <1>4, <1>5
  <2> QED
    BY <2>2, <2>3, <2>4
<1> QED
  BY <1>2, <1>9, <1>10, <1>11, <1>12 DEF P

\* The lines are what queryRows() of MessagesModel would give, with the contents of now.
THEOREM LinesStayStored == Spec => []LinesAreStored
<1>1. IInv => LinesAreStored
  <2> SUFFICES ASSUME IInv
               PROVE  LinesAreStored
    OBVIOUS
  <2>1. /\ w \in Programs /\ w.lines \in Lines
        /\ Covers(w.lines, w.messages, w.files, w.conversation.key)
    BY DEF IInv, Sound, Programs, Lines, Complete
  <2>2. PICK key : key = w.conversation.key
    OBVIOUS
  <2>3. PICK stored : stored = QueryLines(w, key)
    OBVIOUS
  <2>4. stored \in Lines /\ Covers(stored, w.messages, w.files, key)
    BY <2>1, <2>3, QueriedLines
  <2>5. /\ Len(Ids(w.lines)) = Cardinality(Pairs(w.messages, w.files, key))
        /\ ToSet(Ids(w.lines)) = Pairs(w.messages, w.files, key)
    BY <2>1, <2>2, CoveredPairs
  <2>6. /\ Len(stored) = Cardinality(Pairs(w.messages, w.files, key))
        /\ {<<l.kind, l.id>> : l \in ToSet(stored)} = Pairs(w.messages, w.files, key)
    <3>1. /\ Len(Ids(stored)) = Cardinality(Pairs(w.messages, w.files, key))
          /\ {<<l.kind, l.id>> : l \in ToSet(stored)} = Pairs(w.messages, w.files, key)
      BY <2>4, CoveredPairs
    <3>2. Len(Ids(stored)) = Len(stored)
      BY <2>4, LenProperties DEF Ids, Lines
    <3> QED
      BY <3>1, <3>2
  <2>7. \A l \in ToSet(w.lines) :
          l.kind = "MESSAGE" /\ l.content # Unloaded => l.content = w.messages[l.id].content
    <3>1. ToSet(w.lines) = {w.lines[i] : i \in 1..Len(w.lines)}
      BY <2>1, InToSet DEF Lines
    <3> QED
      BY <3>1, <2>1 DEF Covers
  <2> QED
    BY <2>2, <2>3, <2>5, <2>6, <2>7 DEF LinesAreStored, Ids
<1> QED
  BY <1>1, Inductive, PTL
=============================================================================
