--------------------------- MODULE PeerStreamProofs ---------------------------
(***************************************************************************)
(* Theorems about PeerStream, for any number of chunks, any lengths and    *)
(* any field for them.                                                     *)
(***************************************************************************)
EXTENDS PeerStream, SequenceLemmas, WellFoundedInduction

(***************************************************************************)
(* The inductive invariant.                                                *)
(***************************************************************************)

\* What the receiver has decrypted, in order and once.
TakenInOrder ==
  /\ Len(taken) <= Len(sent)
  /\ \A n \in 1..Len(taken) : taken[n] = n

\* A piece of a chunk that was sent, and the piece that was encrypted after it.
Genuine(p) ==
  /\ p[1] \in 1..Len(sent)
  /\ p[2] \in 0..sent[p[1]].length + 1

After(p) ==
  IF p[2] = sent[p[1]].length + 1 THEN <<p[1] + 1, 0>> ELSE <<p[1], p[2] + 1>>

\* Nothing is missing in between, and nothing comes twice.
Chained(s) ==
  /\ s \in Seq(Pieces)
  /\ \A k \in 1..Len(s) : Genuine(s[k])
  /\ \A k \in 1..Len(s) : k < Len(s) => s[k + 1] = After(s[k])

\* What the receiver can still get, and the piece it waits for.
Stream ==
  IF isOpen["sender"] THEN (inData \o net) \o out ELSE inData \o net

Awaited == <<Len(taken) + 1, IF inState = "CHUNK_SIZE" THEN 0 ELSE 1>>

\* The stream begins with what the receiver waits for.
Begins(s) == Len(s) > 0 => s[1] = Awaited

\* It ends with the last piece that was sent; when it is empty, there is nothing
\* to wait for.
Finishes(s) ==
  IF Len(s) = 0 THEN inState = "CHUNK_SIZE" /\ Len(taken) = Len(sent)
  ELSE s[Len(s)] = <<Len(sent), sent[Len(sent)].length + 1>>

Reading == inState \in {"CHUNK_SIZE", "CHUNK_DATA"}

\* How much the receiver wants of it.
Wanted ==
  /\ inState = "CHUNK_SIZE" => bytesWanted = 1
  /\ inState = "CHUNK_DATA" =>
       /\ Len(taken) < Len(sent)
       /\ bytesWanted = (sent[Len(taken) + 1].length % LengthValues) + 1

Aligned ==
  Reading =>
    /\ Chained(Stream)
    /\ Begins(Stream)
    /\ isOpen["sender"] => Finishes(Stream)
    /\ Wanted

\* The receiver fails at nothing but a chunk whose length does not fit into the
\* field: no cut, break or delay of the stream makes it decrypt something else
\* than what comes next.
FailsByLength ==
  inState \in {"FAILED", "ended"} =>
    /\ Len(taken) < Len(sent)
    /\ sent[Len(taken) + 1].length >= LengthValues

\* A receiver that failed or ended is closed.
FailedIsClosed == inState \in {"FAILED", "ended"} => ~isOpen["receiver"]

IInv == TypeOK /\ TakenInOrder /\ Aligned /\ FailsByLength /\ FailedIsClosed

\* A set of naturals has a least element.
LEMMA LeastOfNat ==
  ASSUME NEW T, T \subseteq Nat, T # {}
  PROVE  \E x \in T : \A y \in T : x <= y
<1>1. PICK x \in T : \A y \in T : ~(<<y, x>> \in OpToRel(<, Nat))
  BY Zenon, NatLessThanWellFounded, WFMin
<1>2. \A y \in T : ~(y < x)
  BY <1>1 DEF OpToRel
<1> QED
  BY <1>2

(***************************************************************************)
(* Cutting and joining.                                                    *)
(***************************************************************************)

\* Whatever fits into the field is what it holds.
LEMMA Field ==
  ASSUME NEW x \in Nat
  PROVE  /\ x % LengthValues \in Nat
         /\ x % LengthValues <= x
         /\ x < LengthValues => x % LengthValues = x
BY LengthsAssumption

\* What is cut off, and what is left.
LEMMA Cut ==
  ASSUME NEW S, NEW s \in Seq(S), NEW n \in 0..Len(s)
  PROVE  /\ Prefix(s, n) \in Seq(S) /\ Rest(s, n) \in Seq(S)
         /\ Len(Prefix(s, n)) = n /\ Len(Rest(s, n)) = Len(s) - n
         /\ \A k \in 1..n : Prefix(s, n)[k] = s[k]
         /\ \A k \in 1..Len(s) - n : Rest(s, n)[k] = s[n + k]
         /\ Prefix(s, n) \o Rest(s, n) = s
<1>1. Len(s) \in Nat /\ n \in Nat /\ n <= Len(s)
  OBVIOUS
<1>2. \A k \in 1..Len(s) : s[k] \in S
  OBVIOUS
<1>3. /\ Prefix(s, n) \in Seq(S) /\ Len(Prefix(s, n)) = n
      /\ \A k \in 1..n : Prefix(s, n)[k] = s[k]
  <2>1. \A k \in 1..n : s[k] \in S
    BY <1>1, <1>2
  <2>2. /\ SubSeq(s, 1, n) \in Seq(S)
        /\ Len(SubSeq(s, 1, n)) = IF 1 <= n THEN n - 1 + 1 ELSE 0
        /\ \A k \in 1..n - 1 + 1 : SubSeq(s, 1, n)[k] = s[1 + k - 1]
    BY <1>1, <2>1, SubSeqProperties
  <2> QED
    BY <1>1, <2>2 DEF Prefix
<1>4. /\ Rest(s, n) \in Seq(S) /\ Len(Rest(s, n)) = Len(s) - n
      /\ \A k \in 1..Len(s) - n : Rest(s, n)[k] = s[n + k]
  <2>1. \A k \in (n + 1)..Len(s) : s[k] \in S
    BY <1>1, <1>2
  <2>2. /\ SubSeq(s, n + 1, Len(s)) \in Seq(S)
        /\ Len(SubSeq(s, n + 1, Len(s)))
             = IF n + 1 <= Len(s) THEN Len(s) - (n + 1) + 1 ELSE 0
        /\ \A k \in 1..Len(s) - (n + 1) + 1 :
             SubSeq(s, n + 1, Len(s))[k] = s[n + 1 + k - 1]
    BY <1>1, <2>1, SubSeqProperties
  <2> QED
    BY <1>1, <2>2 DEF Rest
<1>5. Prefix(s, n) \o Rest(s, n) = s
  <2> DEFINE p == Prefix(s, n)
             r == Rest(s, n)
  <2>1. /\ p \o r \in Seq(S) /\ Len(p \o r) = Len(p) + Len(r)
        /\ \A k \in 1..Len(p) + Len(r) :
             (p \o r)[k] = IF k <= Len(p) THEN p[k] ELSE r[k - Len(p)]
    BY <1>3, <1>4, ConcatProperties
  <2> HIDE DEF p, r
  <2>2. Len(p) = n /\ Len(r) = Len(s) - n /\ Len(p \o r) = Len(s)
    BY <1>1, <1>3, <1>4, <2>1 DEF p, r
  <2>3. \A k \in 1..Len(p \o r) : (p \o r)[k] = s[k]
    <3> SUFFICES ASSUME NEW k \in 1..Len(s)
                 PROVE  (p \o r)[k] = s[k]
      BY <2>2
    <3>1. CASE k <= n
      BY <1>1, <1>3, <2>1, <2>2, <3>1 DEF p
    <3>2. CASE ~(k <= n)
      <4>1. k - n \in 1..Len(s) - n /\ n + (k - n) = k
        BY <1>1, <3>2
      <4>2. r[k - n] = s[k]
        BY <1>4, <4>1 DEF r
      <4> QED
        BY <1>1, <2>1, <2>2, <3>2, <4>2
    <3> QED
      BY <3>1, <3>2
  <2> QED
    BY <2>1, <2>2, <2>3, SeqEqual DEF p, r
<1> QED
  BY <1>3, <1>4, <1>5

\* What is taken from the front leaves the back alone.
LEMMA RestOfJoin ==
  ASSUME NEW S, NEW s \in Seq(S), NEW t \in Seq(S), NEW n \in 0..Len(s)
  PROVE  Rest(s, n) \o t = Rest(s \o t, n)
<1> DEFINE r == Rest(s, n)
           j == s \o t
           q == Rest(j, n)
<1>1. Len(s) \in Nat /\ Len(t) \in Nat /\ n \in Nat /\ n <= Len(s)
  OBVIOUS
<1>2. /\ r \in Seq(S) /\ Len(r) = Len(s) - n
      /\ \A k \in 1..Len(s) - n : r[k] = s[n + k]
  BY Cut
<1>3. /\ j \in Seq(S) /\ Len(j) = Len(s) + Len(t)
      /\ \A k \in 1..Len(s) + Len(t) : j[k] = IF k <= Len(s) THEN s[k] ELSE t[k - Len(s)]
  BY ConcatProperties
<1> HIDE DEF r, j
<1>4. /\ q \in Seq(S) /\ Len(q) = Len(j) - n
      /\ \A k \in 1..Len(j) - n : q[k] = j[n + k]
  <2>1. n \in 0..Len(j) /\ j \in Seq(S)
    BY <1>1, <1>3
  <2> QED
    BY <2>1, Cut
<1> HIDE DEF q
<1>5. /\ r \o t \in Seq(S) /\ Len(r \o t) = Len(r) + Len(t)
      /\ \A k \in 1..Len(r) + Len(t) : (r \o t)[k] = IF k <= Len(r) THEN r[k] ELSE t[k - Len(r)]
  BY <1>2, ConcatProperties
<1>6. Len(r \o t) = Len(q)
  BY <1>1, <1>2, <1>3, <1>4, <1>5
<1>7. \A k \in 1..Len(r \o t) : (r \o t)[k] = q[k]
  <2> SUFFICES ASSUME NEW k \in 1..Len(r) + Len(t)
               PROVE  (r \o t)[k] = q[k]
    BY <1>5
  <2>0. k \in 1..Len(j) - n /\ n + k \in 1..Len(s) + Len(t)
    BY <1>1, <1>2, <1>3
  <2>1. q[k] = IF n + k <= Len(s) THEN s[n + k] ELSE t[n + k - Len(s)]
    BY SMTT(30), <1>3, <1>4, <2>0
  <2>2. CASE n + k <= Len(s)
    <3>1. k \in 1..Len(s) - n /\ k <= Len(r)
      BY <1>1, <1>2, <2>2
    <3> QED
      BY <1>2, <1>5, <2>1, <2>2, <3>1
  <2>3. CASE ~(n + k <= Len(s))
    <3>1. ~(k <= Len(r)) /\ k - Len(r) = n + k - Len(s)
      BY <1>1, <1>2, <2>3
    <3> QED
      BY <1>5, <2>1, <2>3, <3>1
  <2> QED
    BY <2>2, <2>3
<1> QED
  BY <1>4, <1>5, <1>6, <1>7, SeqEqual DEF r, j, q

(***************************************************************************)
(* Chains of pieces.                                                       *)
(***************************************************************************)

\* The beginning of a chain is a chain, and begins like it.
LEMMA ChainPrefix ==
  ASSUME NEW s \in Seq(Pieces), NEW t \in Seq(Pieces), Chained(s \o t)
  PROVE  /\ Chained(s)
         /\ Begins(s \o t) => Begins(s)
<1>1. Len(s) \in Nat /\ Len(t) \in Nat
  OBVIOUS
<1> DEFINE j == s \o t
<1>2. /\ j \in Seq(Pieces) /\ Len(j) = Len(s) + Len(t)
      /\ \A k \in 1..Len(s) + Len(t) : j[k] = IF k <= Len(s) THEN s[k] ELSE t[k - Len(s)]
  BY ConcatProperties
<1>3. Chained(j)
  OBVIOUS
<1> HIDE DEF j
<1>4. \A k \in 1..Len(s) : k \in 1..Len(j) /\ j[k] = s[k]
  BY <1>1, <1>2
<1>5. \A k \in 1..Len(s) : Genuine(s[k])
  BY <1>3, <1>4 DEF Chained
<1>6. \A k \in 1..Len(s) : k < Len(s) => s[k + 1] = After(s[k])
  <2> SUFFICES ASSUME NEW k \in 1..Len(s), k < Len(s)
               PROVE  s[k + 1] = After(s[k])
    OBVIOUS
  <2>1. k + 1 \in 1..Len(s) /\ k < Len(j)
    BY <1>1, <1>2
  <2>2. j[k + 1] = s[k + 1] /\ j[k] = s[k] /\ k \in 1..Len(j)
    BY <1>4, <2>1
  <2> QED
    BY <1>3, <2>1, <2>2 DEF Chained
<1>7. Begins(j) => Begins(s)
  <2>1. Len(s) > 0 => Len(j) > 0 /\ j[1] = s[1]
    BY <1>1, <1>2, <1>4
  <2> QED
    BY <2>1 DEF Begins
<1> QED
  BY <1>5, <1>6, <1>7 DEF Chained, j

\* So is its end.
LEMMA ChainRest ==
  ASSUME NEW s, Chained(s), NEW n \in 0..Len(s)
  PROVE  Chained(Rest(s, n))
<1>1. s \in Seq(Pieces) /\ Len(s) \in Nat /\ n \in Nat /\ n <= Len(s)
  BY DEF Chained
<1> DEFINE r == Rest(s, n)
<1>2. /\ r \in Seq(Pieces) /\ Len(r) = Len(s) - n
      /\ \A k \in 1..Len(s) - n : r[k] = s[n + k]
  BY <1>1, Cut
<1> HIDE DEF r
<1>3. \A k \in 1..Len(r) : n + k \in 1..Len(s) /\ r[k] = s[n + k]
  BY <1>1, <1>2
<1>4. \A k \in 1..Len(r) : Genuine(r[k])
  BY <1>3 DEF Chained
<1>5. \A k \in 1..Len(r) : k < Len(r) => r[k + 1] = After(r[k])
  <2> SUFFICES ASSUME NEW k \in 1..Len(r), k < Len(r)
               PROVE  r[k + 1] = After(r[k])
    OBVIOUS
  <2>1. k + 1 \in 1..Len(r) /\ n + k < Len(s) /\ n + (k + 1) = (n + k) + 1
    BY <1>1, <1>2
  <2>2. r[k] = s[n + k] /\ r[k + 1] = s[(n + k) + 1] /\ n + k \in 1..Len(s)
    BY <1>3, <2>1
  <2> QED
    BY <2>1, <2>2 DEF Chained
<1> QED
  BY <1>2, <1>4, <1>5 DEF Chained, r

\* Two chains that fit make one.
LEMMA ChainJoin ==
  ASSUME NEW s, NEW t, Chained(s), Chained(t),
         Len(s) > 0 /\ Len(t) > 0 => t[1] = After(s[Len(s)])
  PROVE  Chained(s \o t)
<1>1. s \in Seq(Pieces) /\ t \in Seq(Pieces) /\ Len(s) \in Nat /\ Len(t) \in Nat
  BY DEF Chained
<1> DEFINE j == s \o t
<1>2. /\ j \in Seq(Pieces) /\ Len(j) = Len(s) + Len(t)
      /\ \A k \in 1..Len(s) + Len(t) : j[k] = IF k <= Len(s) THEN s[k] ELSE t[k - Len(s)]
  BY <1>1, ConcatProperties
<1> HIDE DEF j
<1>3. ASSUME NEW k \in 1..Len(j)
      PROVE  Genuine(j[k]) /\ (k < Len(j) => j[k + 1] = After(j[k]))
  <2>1. CASE k < Len(s)
    <3>1. j[k] = s[k] /\ j[k + 1] = s[k + 1] /\ k \in 1..Len(s)
      BY <1>1, <1>2, <2>1
    <3> QED
      BY <2>1, <3>1 DEF Chained
  <2>2. CASE k = Len(s)
    <3>1. j[k] = s[k] /\ k \in 1..Len(s)
      BY <1>1, <1>2, <2>2
    <3>2. k < Len(j) => j[k + 1] = t[1] /\ Len(t) > 0 /\ Len(s) > 0
      BY <1>1, <1>2, <2>2
    <3> QED
      BY <2>2, <3>1, <3>2 DEF Chained
  <2>3. CASE k > Len(s)
    <3>1. k - Len(s) \in 1..Len(t) /\ j[k] = t[k - Len(s)]
      BY <1>1, <1>2, <2>3
    <3>2. ASSUME k < Len(j)
          PROVE  k - Len(s) < Len(t) /\ j[k + 1] = t[(k - Len(s)) + 1]
      <4>1. k + 1 \in 1..Len(s) + Len(t) /\ ~(k + 1 <= Len(s))
            /\ (k + 1) - Len(s) = (k - Len(s)) + 1
        BY <1>1, <1>2, <2>3, <3>2
      <4> QED
        BY <1>1, <1>2, <2>3, <3>2, <4>1
    <3> QED
      BY <3>1, <3>2 DEF Chained
  <2> QED
    BY <1>1, <1>2, <2>1, <2>2, <2>3
<1> QED
  BY <1>2, <1>3 DEF Chained, j

\* The pieces of a chunk follow each other.
LEMMA ChainRun ==
  ASSUME NEW s, Chained(s), NEW i \in Nat, NEW n \in Nat, n <= Len(s),
         n > 0 => s[1] = <<i, 1>>,
         n <= sent[i].length + 1, sent[i].length \in Nat
  PROVE  \A k \in 1..n : s[k] = <<i, k>>
<1> DEFINE T == {k \in 1..n : s[k] # <<i, k>>}
<1>1. s \in Seq(Pieces) /\ Len(s) \in Nat
  BY DEF Chained
<1>2. CASE T # {}
  <2>1. T \subseteq Nat
    OBVIOUS
  <2>2. PICK k \in T : \A y \in T : k <= y
    <3> HIDE DEF T
    <3> QED
      BY <1>2, <2>1, LeastOfNat
  <2>3. k \in 1..n /\ s[k] # <<i, k>>
    OBVIOUS
  <2>4. k # 1
    BY <2>3
  <2>5. k - 1 \in 1..n /\ ~(k <= k - 1) /\ k - 1 < Len(s) /\ k - 1 \in 1..Len(s) /\ (k - 1) + 1 = k
    BY <1>1, <2>3, <2>4
  <2>6. s[k - 1] = <<i, k - 1>>
    BY <2>2, <2>5
  <2>7. s[k] = After(s[k - 1])
    BY <2>5 DEF Chained
  <2>8. k - 1 # sent[i].length + 1
    BY <2>3
  <2>9. After(s[k - 1]) = <<i, k>>
    BY <2>5, <2>6, <2>8 DEF After
  <2> QED
    BY <2>3, <2>7, <2>9
<1>3. CASE T = {}
  BY <1>3
<1> QED
  BY <1>2, <1>3

(***************************************************************************)
(* What a step leaves of the stream.                                       *)
(***************************************************************************)

\* Three pieces of the stream, joined in either order.
LEMMA JoinPieces ==
  ASSUME NEW s \in Seq(Pieces), NEW t \in Seq(Pieces), NEW u \in Seq(Pieces)
  PROVE  (s \o t) \o u = s \o (t \o u)
<1>1. \A S : \A a, b, c \in Seq(S) : (a \o b) \o c = a \o (b \o c)
  BY ConcatAssociative
<1> QED
  BY <1>1

\* A chain stays one while nothing is sent.
LEMMA ChainKept ==
  ASSUME NEW s, Chained(s), sent' = sent
  PROVE  Chained(s)'
BY DEF Chained, Genuine, After

\* What Aligned says of the next state, with a name for its stream.
LEMMA AlignedNext ==
  ASSUME NEW s, Stream' = s,
         Reading' => /\ Chained(s)'
                     /\ Begins(s)'
                     /\ isOpen'["sender"] => Finishes(s)'
                     /\ Wanted'
  PROVE  Aligned'
BY DEF Aligned, Chained, Begins, Finishes

\* Moving pieces from one buffer to the next leaves the stream as it is.
LEMMA AlignedKept ==
  ASSUME Aligned, UNCHANGED <<sent, taken, inState, bytesWanted>>,
         isOpen'["sender"] = isOpen["sender"], Stream' = Stream
  PROVE  Aligned'
<1>1. PICK s : s = Stream
  OBVIOUS
<1>2. ASSUME Reading
      PROVE  /\ Chained(s) /\ Begins(s) /\ Wanted
             /\ isOpen["sender"] => Finishes(s)
  BY <1>1, <1>2 DEF Aligned
<1>3. Reading' = Reading
  BY DEF Reading
<1>4. Begins(s)' = Begins(s)
  BY DEF Begins, Awaited
<1>5. Finishes(s)' = Finishes(s)
  BY DEF Finishes
<1>6. Wanted' = Wanted
  BY DEF Wanted
<1>7. Reading => Chained(s)'
  BY <1>2, ChainKept
<1> QED
  <2>1. Stream' = s
    BY <1>1
  <2> QED
    BY <1>2, <1>3, <1>4, <1>5, <1>6, <1>7, <2>1, AlignedNext

\* So does losing the end of it, once nobody sends.
LEMMA AlignedCut ==
  ASSUME Aligned, UNCHANGED <<sent, taken, inState, bytesWanted>>,
         ~isOpen'["sender"],
         NEW s \in Seq(Pieces), NEW t \in Seq(Pieces),
         Stream = s \o t, Stream' = s
  PROVE  Aligned'
<1>2. ASSUME Reading
      PROVE  Chained(s) /\ Begins(s) /\ Wanted
  <2>1. Chained(s \o t) /\ Begins(s \o t) /\ Wanted
    BY <1>2 DEF Aligned
  <2> QED
    BY <2>1, ChainPrefix
<1>3. Reading' = Reading
  BY DEF Reading
<1>4. Begins(s)' = Begins(s)
  BY DEF Begins, Awaited
<1>6. Wanted' = Wanted
  BY DEF Wanted
<1>7. Reading => Chained(s)'
  BY <1>2, ChainKept
<1> QED
  BY <1>2, <1>3, <1>4, <1>6, <1>7, AlignedNext

\* Whoever has stopped reading is aligned with anything.
LEMMA AlignedClosing ==
  ASSUME ~Reading'
  PROVE  Aligned'
BY DEF Aligned

\* What was taken stays in order while neither end adds to it.
LEMMA TakenKept ==
  ASSUME TakenInOrder, UNCHANGED <<sent, taken>>
  PROVE  TakenInOrder'
BY DEF TakenInOrder

\* Nothing fails while the receiver does not read.
LEMMA FailureKept ==
  ASSUME FailsByLength, FailedIsClosed, UNCHANGED <<sent, taken, inState>>,
         isOpen'["receiver"] => isOpen["receiver"]
  PROVE  FailsByLength' /\ FailedIsClosed'
BY DEF FailsByLength, FailedIsClosed

(***************************************************************************)
(* The steps that read nothing and send nothing.                           *)
(***************************************************************************)

\* The stream while the sender's socket is open, and while it is closed.
LEMMA StreamWhenOpen ==
  /\ isOpen["sender"] => Stream = (inData \o net) \o out
  /\ ~isOpen["sender"] => Stream = inData \o net
BY DEF Stream

\* BytesWritten moves the front of out to the end of net.
LEMMA BytesWrittenStep ==
  ASSUME IInv, BytesWritten
  PROVE  IInv'
<1>0. TypeOK /\ TakenInOrder /\ Aligned /\ FailsByLength /\ FailedIsClosed
  BY DEF IInv
<1>1. /\ inData \in Seq(Pieces) /\ net \in Seq(Pieces) /\ out \in Seq(Pieces)
      /\ isOpen["sender"]
      /\ UNCHANGED <<sent, inData, bytesWanted, inState, muted, closeLater, taken,
                     isOpen, caller>>
  BY <1>0 DEF TypeOK, BytesWritten, receiverVars
<1>2. CASE UNCHANGED <<out, net>> /\ written' \in BOOLEAN /\ emptied' \in BOOLEAN
  <2>1. Stream' = Stream
    BY <1>1, <1>2 DEF Stream
  <2>2. TypeOK'
    BY <1>0, <1>1, <1>2 DEF TypeOK
  <2> QED
    BY <1>0, <1>1, <2>1, <2>2, AlignedKept, TakenKept, FailureKept DEF IInv
<1>3. ASSUME NEW n \in 1..Len(out),
             net' = net \o Prefix(out, n), out' = Rest(out, n),
             UNCHANGED <<emptied, written>>
      PROVE  IInv'
  <2>0. n \in 0..Len(out)
    OBVIOUS
  <2>1. /\ Prefix(out, n) \in Seq(Pieces) /\ Rest(out, n) \in Seq(Pieces)
        /\ Prefix(out, n) \o Rest(out, n) = out
    BY <1>1, <2>0, Cut
  <2>2. PICK p \in Seq(Pieces), r \in Seq(Pieces) :
          p = Prefix(out, n) /\ r = Rest(out, n)
    BY <2>1
  <2>3. net' = net \o p /\ out' = r /\ out = p \o r
    BY <1>3, <2>1, <2>2
  <2>4. (inData \o (net \o p)) \o r = (inData \o net) \o (p \o r)
    <3>1. PICK a \in Seq(Pieces), b \in Seq(Pieces) : a = inData /\ b = net
      BY <1>1
    <3>2. a \o (b \o p) = (a \o b) \o p
      BY SMTT(60), JoinPieces
    <3>3. a \o b \in Seq(Pieces)
      BY ConcatProperties
    <3>4. ((a \o b) \o p) \o r = (a \o b) \o (p \o r)
      BY SMTT(60), <3>3, JoinPieces
    <3> QED
      BY <3>1, <3>2, <3>4
  <2>5. Stream' = Stream
    BY <1>1, <2>3, <2>4 DEF Stream
  <2>6. net \o p \in Seq(Pieces)
    BY <1>1, ConcatProperties
  <2>7. TypeOK'
    BY <1>0, <1>1, <1>3, <2>3, <2>6 DEF TypeOK
  <2> QED
    BY <1>0, <1>1, <2>5, <2>7, AlignedKept, TakenKept, FailureKept DEF IInv
<1> QED
  BY <1>0, <1>2, <1>3 DEF BytesWritten, OnBytesWritten, SendMore, TypeOK

\* OutputBufferEmptied touches no buffer.
LEMMA OutputBufferEmptiedStep ==
  ASSUME IInv, OutputBufferEmptied
  PROVE  IInv'
<1>0. TypeOK /\ TakenInOrder /\ Aligned /\ FailsByLength /\ FailedIsClosed
  BY DEF IInv
<1>1. /\ UNCHANGED <<sent, out, written, net, inData, bytesWanted, inState, muted,
                     closeLater, taken, isOpen, caller>>
      /\ emptied' = FALSE
  BY DEF OutputBufferEmptied, receiverVars
<1>2. TypeOK'
  BY <1>0, <1>1 DEF TypeOK
<1>3. Stream' = Stream
  BY <1>1 DEF Stream
<1> QED
  BY <1>0, <1>1, <1>2, <1>3, AlignedKept, TakenKept, FailureKept DEF IInv

\* ReadyRead moves the front of net to the end of inData.
LEMMA ReadyReadStep ==
  ASSUME IInv, ReadyRead
  PROVE  IInv'
<1>0. TypeOK /\ TakenInOrder /\ Aligned /\ FailsByLength /\ FailedIsClosed
  BY DEF IInv
<1>1. /\ inData \in Seq(Pieces) /\ net \in Seq(Pieces) /\ out \in Seq(Pieces)
      /\ UNCHANGED <<sent, out, written, emptied, bytesWanted, inState, muted,
                     closeLater, taken, isOpen, caller>>
  BY <1>0 DEF TypeOK, ReadyRead, senderVars
<1>2. PICK n \in 1..Len(net) :
        inData' = inData \o Prefix(net, n) /\ net' = Rest(net, n)
  BY DEF ReadyRead
<1>3. n \in 0..Len(net)
  OBVIOUS
<1>4. /\ Prefix(net, n) \in Seq(Pieces) /\ Rest(net, n) \in Seq(Pieces)
      /\ Prefix(net, n) \o Rest(net, n) = net
  BY <1>1, <1>3, Cut
<1>5. PICK p \in Seq(Pieces), r \in Seq(Pieces) :
        p = Prefix(net, n) /\ r = Rest(net, n)
  BY <1>4
<1>6. inData' = inData \o p /\ net' = r /\ net = p \o r
  BY <1>2, <1>4, <1>5
<1>7. (inData \o p) \o r = inData \o (p \o r)
  BY SMTT(60), <1>1, JoinPieces
<1>8. Stream' = Stream
  BY <1>1, <1>6, <1>7 DEF Stream
<1>9. inData \o p \in Seq(Pieces)
  BY <1>1, ConcatProperties
<1>10. TypeOK'
  BY <1>0, <1>1, <1>6, <1>9 DEF TypeOK
<1> QED
  BY <1>0, <1>1, <1>8, <1>10, AlignedKept, TakenKept, FailureKept DEF IInv

\* MuteAndClose ends the reading.
LEMMA MuteAndCloseStep ==
  ASSUME IInv, MuteAndClose
  PROVE  IInv'
<1>0. TypeOK /\ TakenInOrder
  BY DEF IInv
<1>1. /\ UNCHANGED <<sent, out, written, emptied, net, inData, bytesWanted, taken,
                     isOpen, caller>>
      /\ inState' = "CLOSING" /\ closeLater' = TRUE /\ muted' = TRUE
  BY DEF MuteAndClose, Close, senderVars
<1>2. TypeOK'
  BY <1>0, <1>1 DEF TypeOK, InStates
<1>3. ~Reading'
  BY <1>1 DEF Reading
<1>4. FailsByLength' /\ FailedIsClosed'
  BY <1>1 DEF FailsByLength, FailedIsClosed
<1> QED
  BY <1>0, <1>1, <1>2, <1>3, <1>4, AlignedClosing, TakenKept DEF IInv

\* OnCloseLater closes the receiver's socket and nothing else.
LEMMA OnCloseLaterStep ==
  ASSUME IInv, OnCloseLater
  PROVE  IInv'
<1>0. TypeOK /\ TakenInOrder /\ Aligned /\ FailsByLength /\ FailedIsClosed
  BY DEF IInv
<1>1. /\ UNCHANGED <<sent, out, written, emptied, net, inData, bytesWanted, inState,
                     muted, taken, caller>>
      /\ closeLater' = FALSE
      /\ isOpen' = [isOpen EXCEPT !["receiver"] = FALSE]
  BY DEF OnCloseLater, senderVars
<1>2. /\ isOpen' \in [Ends -> BOOLEAN]
      /\ isOpen'["sender"] = isOpen["sender"]
      /\ ~isOpen'["receiver"]
  BY <1>0, <1>1 DEF TypeOK, Ends
<1>3. TypeOK'
  BY <1>0, <1>1, <1>2 DEF TypeOK
<1>4. Stream' = Stream
  BY <1>1, <1>2 DEF Stream
<1> QED
  BY <1>0, <1>1, <1>2, <1>3, <1>4, AlignedKept, TakenKept, FailureKept DEF IInv

\* Break loses the end of net, and out.
LEMMA BreakStep ==
  ASSUME IInv, Break
  PROVE  IInv'
<1>0. TypeOK /\ TakenInOrder /\ Aligned /\ FailsByLength /\ FailedIsClosed
  BY DEF IInv
<1>1. /\ UNCHANGED <<sent, out, written, emptied, inData, bytesWanted, inState,
                     muted, closeLater, taken, caller>>
      /\ isOpen["sender"]
      /\ isOpen' = [isOpen EXCEPT !["sender"] = FALSE]
      /\ inData \in Seq(Pieces) /\ net \in Seq(Pieces) /\ out \in Seq(Pieces)
  BY <1>0 DEF Break, senderVars, receiverVars, TypeOK
<1>2. /\ isOpen' \in [Ends -> BOOLEAN]
      /\ ~isOpen'["sender"]
      /\ isOpen'["receiver"] = isOpen["receiver"]
  BY <1>0, <1>1 DEF TypeOK, Ends
<1>3. PICK n \in 0..Len(net) : net' = Prefix(net, n)
  BY DEF Break
<1>4. /\ Prefix(net, n) \in Seq(Pieces) /\ Rest(net, n) \in Seq(Pieces)
      /\ Prefix(net, n) \o Rest(net, n) = net
  BY <1>1, Cut
<1>5. PICK a \in Seq(Pieces), p \in Seq(Pieces), r \in Seq(Pieces), o \in Seq(Pieces) :
        a = inData /\ p = Prefix(net, n) /\ r = Rest(net, n) /\ o = out
  BY <1>1, <1>4
<1>6. net' = p /\ net = p \o r /\ inData' = a
  BY <1>1, <1>3, <1>4, <1>5
<1>7. Stream = (a \o (p \o r)) \o o
  BY <1>1, <1>5, <1>6 DEF Stream
<1>8. (a \o (p \o r)) \o o = (a \o p) \o (r \o o)
  <2>1. a \o (p \o r) = (a \o p) \o r
    BY SMTT(60), JoinPieces
  <2>2. a \o p \in Seq(Pieces)
    BY ConcatProperties
  <2>3. ((a \o p) \o r) \o o = (a \o p) \o (r \o o)
    BY SMTT(60), <2>2, JoinPieces
  <2> QED
    BY <2>1, <2>3
<1>9. Stream' = a \o p
  BY <1>2, <1>6 DEF Stream
<1>10. a \o p \in Seq(Pieces) /\ r \o o \in Seq(Pieces)
  BY ConcatProperties
<1>11. Aligned'
  <2>1. PICK s \in Seq(Pieces), t \in Seq(Pieces) : s = a \o p /\ t = r \o o
    BY <1>10
  <2>2. Stream = s \o t /\ Stream' = s
    BY <1>7, <1>8, <1>9, <2>1
  <2> QED
    BY <1>0, <1>1, <1>2, <2>2, AlignedCut
<1>12. TypeOK'
  BY <1>0, <1>1, <1>2, <1>6 DEF TypeOK
<1> QED
  BY <1>0, <1>1, <1>2, <1>11, <1>12, TakenKept, FailureKept DEF IInv

\* HearEnd loses out when it is the sender that hears it.
LEMMA HearEndStep ==
  ASSUME IInv, NEW e \in Ends, HearEnd(e)
  PROVE  IInv'
<1>0. TypeOK /\ TakenInOrder /\ Aligned /\ FailsByLength /\ FailedIsClosed
  BY DEF IInv
<1>1. /\ UNCHANGED <<sent, out, written, emptied, net, inData, bytesWanted, inState,
                     muted, closeLater, taken, caller>>
      /\ isOpen[e]
      /\ isOpen' = [isOpen EXCEPT ![e] = FALSE]
      /\ inData \in Seq(Pieces) /\ net \in Seq(Pieces) /\ out \in Seq(Pieces)
  BY <1>0 DEF HearEnd, senderVars, receiverVars, TypeOK
<1>2. /\ isOpen' \in [Ends -> BOOLEAN]
      /\ ~isOpen'[e]
      /\ \A k \in Ends : k # e => isOpen'[k] = isOpen[k]
      /\ "sender" \in Ends /\ "receiver" \in Ends
  BY <1>0, <1>1 DEF TypeOK, Ends
<1>3. TypeOK'
  BY <1>0, <1>1, <1>2 DEF TypeOK
<1>4. isOpen'["receiver"] => isOpen["receiver"]
  BY <1>2
<1>5. CASE e = "sender"
  <2>1. Stream = (inData \o net) \o out /\ ~isOpen'["sender"]
    BY <1>1, <1>2, <1>5 DEF Stream
  <2>2. Stream' = inData \o net
    BY <1>1, <2>1 DEF Stream
  <2>3. inData \o net \in Seq(Pieces)
    BY <1>1, ConcatProperties
  <2>4. PICK s \in Seq(Pieces), t \in Seq(Pieces) : s = inData \o net /\ t = out
    BY <1>1, <2>3
  <2>5. Stream = s \o t /\ Stream' = s
    BY <2>1, <2>2, <2>4
  <2>6. Aligned'
    BY <1>0, <1>1, <2>1, <2>5, AlignedCut
  <2> QED
    BY <1>0, <1>1, <1>3, <1>4, <2>6, TakenKept, FailureKept DEF IInv
<1>6. CASE e = "receiver"
  <2>1. isOpen'["sender"] = isOpen["sender"]
    BY <1>2, <1>6
  <2>2. Stream' = Stream
    BY <1>1, <2>1 DEF Stream
  <2> QED
    BY <1>0, <1>1, <1>3, <1>4, <2>1, <2>2, AlignedKept, TakenKept, FailureKept DEF IInv
<1> QED
  BY <1>5, <1>6 DEF Ends

\* Stuttering changes nothing.
LEMMA StutterStep ==
  ASSUME IInv, UNCHANGED vars
  PROVE  IInv'
<1>0. TypeOK /\ TakenInOrder /\ Aligned /\ FailsByLength /\ FailedIsClosed
  BY DEF IInv
<1>1. UNCHANGED <<sent, out, written, emptied, net, inData, bytesWanted, inState,
                  muted, closeLater, taken, isOpen, caller>>
  BY DEF vars, senderVars, receiverVars
<1>2. TypeOK'
  BY <1>0, <1>1 DEF TypeOK
<1>3. Stream' = Stream
  BY <1>1 DEF Stream
<1> QED
  BY <1>0, <1>1, <1>2, <1>3, AlignedKept, TakenKept, FailureKept DEF IInv

(***************************************************************************)
(* ProcessInput.                                                           *)
(***************************************************************************)

\* What the receiver reads is the front of the stream; the rest is not its own.
LEMMA StreamFront ==
  ASSUME TypeOK
  PROVE  \E t \in Seq(Pieces) :
           /\ Stream = inData \o t
           /\ /\ UNCHANGED <<net, out>>
              /\ isOpen'["sender"] = isOpen["sender"]
              /\ inData' \in Seq(Pieces)
              => Stream' = inData' \o t
<1>1. inData \in Seq(Pieces) /\ net \in Seq(Pieces) /\ out \in Seq(Pieces)
  BY DEF TypeOK
<1>2. CASE isOpen["sender"]
  <2>1. PICK n \in Seq(Pieces), o \in Seq(Pieces) : n = net /\ o = out
    BY <1>1
  <2>2. n \o o \in Seq(Pieces)
    BY ConcatProperties
  <2>3. Stream = inData \o (n \o o)
    <3>1. Stream = (inData \o n) \o o
      BY <1>2, <2>1 DEF Stream
    <3>2. (inData \o n) \o o = inData \o (n \o o)
      BY SMTT(60), <1>1, JoinPieces
    <3> QED
      BY <3>1, <3>2
  <2>4. ASSUME UNCHANGED <<net, out>>, isOpen'["sender"] = isOpen["sender"],
               inData' \in Seq(Pieces)
        PROVE  Stream' = inData' \o (n \o o)
    <3>1. PICK d \in Seq(Pieces) : d = inData'
      BY <2>4
    <3>2. Stream' = (d \o n) \o o
      BY <1>2, <2>1, <2>4, <3>1 DEF Stream
    <3>3. (d \o n) \o o = d \o (n \o o)
      BY SMTT(60), JoinPieces
    <3> QED
      BY <3>1, <3>2, <3>3
  <2> QED
    BY <2>2, <2>3, <2>4
<1>3. CASE ~isOpen["sender"]
  <2>1. PICK n \in Seq(Pieces) : n = net
    BY <1>1
  <2>2. Stream = inData \o n
    BY <1>3, <2>1 DEF Stream
  <2>3. UNCHANGED net /\ isOpen'["sender"] = isOpen["sender"] => Stream' = inData' \o n
    BY <1>3, <2>1 DEF Stream
  <2> QED
    BY <2>2, <2>3
<1> QED
  BY <1>2, <1>3

\* A sequence is a function of its places.
LEMMA AsFunction ==
  ASSUME NEW S, NEW s \in Seq(S)
  PROVE  s = [k \in 1..Len(s) |-> s[k]]
OBVIOUS

\* The receiver reads the chunk after the last one it took, or the length of it.
LEMMA WhatArrives ==
  ASSUME TypeOK, Aligned, Reading, Busy
  PROVE  LET i == Len(taken) + 1
             got == Prefix(inData, bytesWanted)
         IN /\ i \in 1..Len(sent)
            /\ sent[i] \in Chunks /\ sent[i].length \in Nat
            /\ bytesWanted \in 1..Len(inData) /\ Len(inData) <= Len(Stream)
            /\ inState = "CHUNK_SIZE" =>
                 /\ bytesWanted = 1
                 /\ Stream[1] = <<i, 0>>
                 /\ got = LengthPieces(i)
            /\ inState = "CHUNK_DATA" =>
                 /\ bytesWanted = (sent[i].length % LengthValues) + 1
                 /\ bytesWanted <= sent[i].length + 1
                 /\ Stream[bytesWanted] = <<i, bytesWanted>>
                 /\ got # LengthPieces(i)
                 /\ got = DataPieces(i, sent[i].length) <=> bytesWanted = sent[i].length + 1
<1> DEFINE i == Len(taken) + 1
           w == bytesWanted
           got == Prefix(inData, w)
<1>1. /\ inData \in Seq(Pieces) /\ w \in Nat /\ sent \in Seq(Chunks) /\ taken \in Seq(1..MaxSent)
      /\ w > 0 /\ w <= Len(inData) /\ Len(inData) \in Nat /\ Len(taken) \in Nat
  BY DEF TypeOK, Busy
<1>2. PICK t \in Seq(Pieces) : Stream = inData \o t
  BY StreamFront
<1>3. PICK s : s = Stream
  OBVIOUS
<1>4. Chained(s) /\ Begins(s) /\ Wanted
  BY <1>3 DEF Aligned
<1>5. /\ Len(s) = Len(inData) + Len(t) /\ Len(t) \in Nat
      /\ \A k \in 1..Len(inData) : s[k] = inData[k]
  BY <1>1, <1>2, <1>3, ConcatProperties
<1>6. s[1] = Awaited /\ 1 \in 1..Len(s)
  BY <1>1, <1>4, <1>5 DEF Begins
<1>7. Genuine(s[1]) /\ s \in Seq(Pieces)
  BY <1>4, <1>6 DEF Chained
<1>8. i \in 1..Len(sent)
  BY <1>6, <1>7 DEF Genuine, Awaited
<1>9. sent[i] \in Chunks
  BY <1>1, <1>8
<1>10. sent[i].length \in Nat
  BY <1>9, LengthsAssumption DEF Chunks
<1>11. /\ got \in Seq(Pieces) /\ Len(got) = w
       /\ \A k \in 1..w : got[k] = inData[k]
  <2>1. w \in 0..Len(inData)
    BY <1>1
  <2> QED
    BY <1>1, <2>1, Cut
<1> HIDE DEF got
<1>12. \A k \in 1..w : got[k] = s[k]
  <2>1. \A k \in 1..w : k \in 1..Len(inData)
    BY <1>1
  <2> QED
    BY <1>5, <1>11, <2>1
<1> HIDE DEF i, w
<1>13. CASE inState = "CHUNK_SIZE"
  <2>1. w = 1
    BY <1>4, <1>13 DEF Wanted, w
  <2>2. s[1] = <<i, 0>>
    BY <1>6, <1>13 DEF Awaited, i
  <2>3. got[1] = <<i, 0>> /\ Len(got) = 1
    BY <1>11, <1>12, <2>1, <2>2
  <2>4. got = <<<<i, 0>>>>
    <3>1. got = [k \in 1..1 |-> got[k]]
      BY <1>11, <2>3, AsFunction
    <3>2. <<<<i, 0>>>> = [k \in 1..1 |-> <<i, 0>>]
      OBVIOUS
    <3> QED
      BY <2>3, <3>1, <3>2
  <2> QED
    BY <1>1, <1>3, <1>5, <1>8, <1>9, <1>10, <1>13, <2>1, <2>2, <2>4
      DEF LengthPieces, i, w, got
<1>14. CASE inState = "CHUNK_DATA"
  <2>1. w = (sent[i].length % LengthValues) + 1
    BY <1>4, <1>14 DEF Wanted, w, i
  <2>2. w <= sent[i].length + 1
    BY SMTT(30), <1>10, <2>1, Field
  <2>3. s[1] = <<i, 1>>
    BY <1>6, <1>14 DEF Awaited, i
  <2>4. \A k \in 1..w : s[k] = <<i, k>>
    <3>1. w \in Nat /\ w <= Len(s) /\ i \in Nat
      BY <1>1, <1>5 DEF w, i
    <3> QED
      BY <1>4, <1>10, <2>2, <2>3, <3>1, ChainRun
  <2>5. got = [k \in 1..w |-> <<i, k>>]
    <3>1. got = [k \in 1..w |-> got[k]]
      BY <1>11, AsFunction
    <3>2. \A k \in 1..w : got[k] = <<i, k>>
      BY <1>12, <2>4
    <3> QED
      BY <3>1, <3>2
  <2>6. s[w] = <<i, w>> /\ 1 \in 1..w
    BY <1>1, <2>4 DEF w
  <2>7. got # <<<<i, 0>>>>
    <3>1. got[1] = <<i, 1>>
      BY <2>5, <2>6
    <3> QED
      BY <3>1
  <2>8. got = DataPieces(i, sent[i].length) <=> w = sent[i].length + 1
    <3>1. CASE w = sent[i].length + 1
      BY <2>5, <3>1 DEF DataPieces
    <3>2. CASE w # sent[i].length + 1
      <4>1. DOMAIN got = 1..w
        BY <2>5
      <4>2. DOMAIN DataPieces(i, sent[i].length) = 1..sent[i].length + 1
        BY DEF DataPieces
      <4>3. sent[i].length + 1 \in 1..sent[i].length + 1 /\ sent[i].length + 1 \notin 1..w
        BY SMTT(30), <1>1, <1>10, <2>2, <3>2 DEF w
      <4> QED
        BY <3>2, <4>1, <4>2, <4>3
    <3> QED
      BY <3>1, <3>2
  <2> QED
    BY <1>1, <1>3, <1>5, <1>8, <1>9, <1>10, <1>14, <2>1, <2>2, <2>6, <2>7, <2>8
      DEF LengthPieces, i, w, got
<1> QED
  BY <1>13, <1>14 DEF Reading, i, w, got

\* The next state of a receiver that takes the front of the stream and reads on.
LEMMA ReadsOn ==
  ASSUME Aligned, Reading, NEW s \in Seq(Pieces), s = Stream, NEW n \in 1..Len(s),
         sent' = sent, isOpen'["sender"] = isOpen["sender"], Stream' = Rest(s, n),
         After(s[n]) = Awaited', Reading', Wanted',
         s[n] = <<Len(sent), sent[Len(sent)].length + 1>>
           => inState' = "CHUNK_SIZE" /\ Len(taken') = Len(sent)
  PROVE  Aligned'
<1>1. Chained(s) /\ Begins(s) /\ (isOpen["sender"] => Finishes(s))
  BY DEF Aligned
<1>2. Len(s) \in Nat /\ n \in Nat /\ n > 0 /\ n <= Len(s) /\ n \in 0..Len(s)
  OBVIOUS
<1>3. PICK r \in Seq(Pieces) :
        /\ r = Rest(s, n) /\ Len(r) = Len(s) - n
        /\ \A k \in 1..Len(s) - n : r[k] = s[n + k]
  <2>1. /\ Rest(s, n) \in Seq(Pieces) /\ Len(Rest(s, n)) = Len(s) - n
        /\ \A k \in 1..Len(s) - n : Rest(s, n)[k] = s[n + k]
    BY <1>2, Cut
  <2> QED
    BY <2>1
<1>4. Chained(r)
  BY <1>1, <1>2, <1>3, ChainRest
<1>5. Chained(r)'
  BY <1>4, ChainKept
<1>6. Begins(r)'
  <2> SUFFICES ASSUME Len(r) > 0
               PROVE  r[1] = Awaited'
    BY DEF Begins
  <2>1. n < Len(s) /\ 1 \in 1..Len(s) - n
    BY <1>2, <1>3
  <2>2. r[1] = s[n + 1]
    BY <1>3, <2>1
  <2>3. s[n + 1] = After(s[n])
    BY <1>1, <2>1 DEF Chained
  <2> QED
    BY <2>2, <2>3
<1>7. ASSUME isOpen["sender"]
      PROVE  Finishes(r)'
  <2>1. s[Len(s)] = <<Len(sent), sent[Len(sent)].length + 1>>
    BY <1>1, <1>2, <1>7 DEF Finishes
  <2>2. CASE Len(r) = 0
    <3>1. n = Len(s)
      BY <1>2, <1>3, <2>2
    <3> QED
      BY <2>1, <2>2, <3>1 DEF Finishes
  <2>3. CASE Len(r) # 0
    <3>1. Len(r) \in 1..Len(s) - n /\ n + Len(r) = Len(s)
      BY <1>2, <1>3, <2>3
    <3>2. r[Len(r)] = s[Len(s)]
      BY <1>3, <3>1
    <3> QED
      BY <2>1, <2>3, <3>2 DEF Finishes
  <2> QED
    BY <2>2, <2>3
<1>8. Stream' = r
  BY <1>3
<1> QED
  BY <1>5, <1>6, <1>7, <1>8, AlignedNext

\* What the receiver's socket does with what it has.
LEMMA ProcessInputStep ==
  ASSUME IInv, ProcessInput
  PROVE  IInv'
<1> DEFINE i == Len(taken) + 1
           w == bytesWanted
           got == Prefix(inData, w)
<1>0. TypeOK /\ TakenInOrder /\ Aligned /\ FailsByLength /\ FailedIsClosed
  BY DEF IInv
<1>1. /\ UNCHANGED <<sent, out, written, emptied, net, muted, caller>>
      /\ Busy
      /\ inData' = Rest(inData, w)
      /\ inData \in Seq(Pieces) /\ bytesWanted \in 1..Len(inData)
  BY <1>0 DEF ProcessInput, senderVars, Busy, TypeOK
<1>2. inData' \in Seq(Pieces)
  <2>1. bytesWanted \in 0..Len(inData)
    BY <1>1
  <2> QED
    BY <1>1, <2>1, Cut
<1>3. CASE inState = "CLOSING"
  <2>1. bytesWanted' = 0 /\ UNCHANGED <<inState, closeLater, taken, isOpen>>
    BY <1>3 DEF ProcessInput, IgnoresInput
  <2>2. TypeOK'
    BY <1>0, <1>1, <1>2, <2>1 DEF TypeOK
  <2>3. ~Reading'
    BY <1>3, <2>1 DEF Reading
  <2> QED
    BY <1>0, <1>1, <2>1, <2>2, <2>3, AlignedClosing, TakenKept, FailureKept DEF IInv
<1>4. CASE Reading
  <2>1. /\ i \in 1..Len(sent)
        /\ sent[i] \in Chunks /\ sent[i].length \in Nat
        /\ Len(inData) <= Len(Stream)
        /\ inState = "CHUNK_SIZE" =>
             w = 1 /\ Stream[1] = <<i, 0>> /\ got = LengthPieces(i)
        /\ inState = "CHUNK_DATA" =>
             /\ w = (sent[i].length % LengthValues) + 1
             /\ w <= sent[i].length + 1
             /\ Stream[w] = <<i, w>>
             /\ got # LengthPieces(i)
             /\ got = DataPieces(i, sent[i].length) <=> w = sent[i].length + 1
    BY <1>0, <1>1, <1>4, WhatArrives
  <2>2. /\ sent \in Seq(Chunks) /\ Len(sent) \in Nat /\ Len(sent) <= MaxSent
        /\ taken \in Seq(1..MaxSent) /\ Len(taken) \in Nat
    BY <1>0 DEF TypeOK
  <2>3. PICK s \in Seq(Pieces) : s = Stream
    BY <1>0, <1>4 DEF Aligned, Chained
  <2>4. PICK n \in 1..Len(s) : n = w
    BY <1>1, <2>1, <2>3
  <2>5. UNCHANGED isOpen => Stream' = Rest(s, n)
    <3>1. PICK t \in Seq(Pieces) :
            /\ Stream = inData \o t
            /\ UNCHANGED <<net, out>> /\ isOpen'["sender"] = isOpen["sender"]
               /\ inData' \in Seq(Pieces) => Stream' = inData' \o t
      BY <1>0, StreamFront
    <3>2. Rest(inData, n) \o t = Rest(inData \o t, n)
      <4>1. n \in 0..Len(inData)
        BY <1>1, <2>4
      <4> QED
        BY <1>1, <4>1, RestOfJoin
    <3> QED
      BY <1>1, <1>2, <2>3, <2>4, <3>1, <3>2
  <2>6. /\ IF got = LengthPieces(i) THEN WantChunkData(sent[i].length)
           ELSE IF got = DataPieces(i, sent[i].length) THEN OnReceivedData(i)
           ELSE Fail
    BY <1>4 DEF ProcessInput, IgnoresInput, Reading
  <2> HIDE DEF i, w, got
  <2>7. CASE inState = "CHUNK_SIZE"
    <3>1. /\ bytesWanted' = (sent[i].length % LengthValues) + 1
          /\ inState' = "CHUNK_DATA"
          /\ UNCHANGED <<closeLater, taken, isOpen>>
      BY <2>1, <2>6, <2>7 DEF WantChunkData
    <3>2. bytesWanted' \in Nat
      BY <2>1, <3>1, Field
    <3>3. TypeOK'
      BY <1>0, <1>1, <1>2, <3>1, <3>2 DEF TypeOK, InStates
    <3>4. Reading' /\ Wanted'
      BY <1>1, <2>1, <2>2, <3>1 DEF Reading, Wanted, i
    <3>5. s[n] = <<i, 0>>
      BY <2>1, <2>3, <2>4, <2>7
    <3>6. After(s[n]) = Awaited'
      BY <2>1, <3>1, <3>5 DEF After, Awaited, i
    <3>7. s[n] # <<Len(sent), sent[Len(sent)].length + 1>>
      <4>1. SUFFICES ASSUME s[n] = <<Len(sent), sent[Len(sent)].length + 1>>
                     PROVE  FALSE
        OBVIOUS
      <4>2. i = Len(sent) /\ 0 = sent[Len(sent)].length + 1
        BY <3>5, <4>1
      <4> QED
        BY <2>1, <4>2
    <3>8. Aligned'
      BY <1>0, <1>1, <1>4, <2>3, <2>5, <3>1, <3>4, <3>6, <3>7, ReadsOn
    <3>9. FailsByLength' /\ FailedIsClosed'
      BY <3>1 DEF FailsByLength, FailedIsClosed
    <3> QED
      BY <1>0, <1>1, <3>1, <3>3, <3>8, <3>9, TakenKept DEF IInv
  <2>8. CASE inState = "CHUNK_DATA" /\ w = sent[i].length + 1
    <3>1. OnReceivedData(i)
      BY <2>1, <2>6, <2>8
    <3>2. taken' = Append(taken, i) /\ UNCHANGED isOpen
      BY <3>1 DEF OnReceivedData
    <3>3. /\ taken' \in Seq(1..MaxSent) /\ Len(taken') = i
          /\ \A k \in 1..Len(taken) : taken'[k] = taken[k]
          /\ taken'[i] = i
      <4>1. i \in 1..MaxSent /\ i = Len(taken) + 1
        BY <2>1, <2>2, BoundsAssumption DEF i
      <4> QED
        BY <2>2, <3>2, <4>1, AppendProperties
    <3>4. TakenInOrder'
      <4>1. ASSUME NEW k \in 1..i
            PROVE  taken'[k] = k
        <5>1. k \in 1..Len(taken) \/ k = i
          BY <2>2 DEF i
        <5> QED
          BY <1>0, <3>3, <5>1 DEF TakenInOrder
      <4>2. i <= Len(sent)
        BY <2>1
      <4> QED
        BY <1>1, <3>3, <4>1, <4>2 DEF TakenInOrder
    <3>5. CASE WantChunkSize
      <4>1. bytesWanted' = 1 /\ inState' = "CHUNK_SIZE" /\ UNCHANGED closeLater
        BY <3>5 DEF WantChunkSize
      <4>2. TypeOK'
        BY <1>0, <1>1, <1>2, <3>2, <3>3, <4>1 DEF TypeOK, InStates
      <4>3. Reading' /\ Wanted'
        BY <4>1 DEF Reading, Wanted
      <4>4. s[n] = <<i, sent[i].length + 1>>
        BY <2>1, <2>3, <2>4, <2>8
      <4>5. After(s[n]) = Awaited'
        BY <3>3, <4>1, <4>4 DEF After, Awaited
      <4>6. s[n] = <<Len(sent), sent[Len(sent)].length + 1>>
              => inState' = "CHUNK_SIZE" /\ Len(taken') = Len(sent)
        BY <3>3, <4>1, <4>4
      <4>7. Aligned'
        BY <1>0, <1>1, <1>4, <2>3, <2>5, <3>2, <4>3, <4>5, <4>6, ReadsOn
      <4>8. FailsByLength' /\ FailedIsClosed'
        BY <4>1 DEF FailsByLength, FailedIsClosed
      <4> QED
        BY <3>4, <4>2, <4>7, <4>8 DEF IInv
    <3>6. CASE Close /\ bytesWanted' = 0
      <4>1. inState' = "CLOSING" /\ closeLater' = TRUE /\ bytesWanted' = 0
        BY <3>6 DEF Close
      <4>2. TypeOK'
        BY <1>0, <1>1, <1>2, <3>2, <3>3, <4>1 DEF TypeOK, InStates
      <4>3. ~Reading'
        BY <4>1 DEF Reading
      <4>4. FailsByLength' /\ FailedIsClosed'
        BY <4>1 DEF FailsByLength, FailedIsClosed
      <4> QED
        BY <3>4, <4>2, <4>3, <4>4, AlignedClosing DEF IInv
    <3> QED
      BY <3>1, <3>5, <3>6 DEF OnReceivedData
  <2>9. CASE inState = "CHUNK_DATA" /\ w # sent[i].length + 1
    <3>1. Fail
      BY <2>1, <2>6, <2>9
    <3>2. /\ bytesWanted' = 0
          /\ isOpen' = [isOpen EXCEPT !["receiver"] = FALSE]
          /\ inState' \in {"FAILED", "ended"}
          /\ UNCHANGED <<closeLater, taken>>
      BY <3>1 DEF Fail
    <3>3. /\ isOpen' \in [Ends -> BOOLEAN] /\ ~isOpen'["receiver"]
      BY <1>0, <3>2 DEF TypeOK, Ends
    <3>4. TypeOK'
      BY <1>0, <1>1, <1>2, <3>2, <3>3 DEF TypeOK, InStates
    <3>5. ~Reading'
      BY <3>2 DEF Reading
    <3>6. ~(sent[i].length < LengthValues)
      BY <2>1, <2>9, Field
    <3>7. sent[i].length >= LengthValues
      BY <2>1, <3>6, LengthsAssumption
    <3>8. FailsByLength' /\ FailedIsClosed'
      BY <1>1, <2>1, <2>2, <3>2, <3>3, <3>7 DEF FailsByLength, FailedIsClosed, i
    <3> QED
      BY <1>0, <1>1, <3>2, <3>4, <3>5, <3>8, AlignedClosing, TakenKept DEF IInv
  <2> QED
    BY <1>4, <2>7, <2>8, <2>9 DEF Reading
<1> QED
  BY <1>0, <1>1, <1>3, <1>4 DEF TypeOK, InStates, Reading, FailedIsClosed, Busy

(***************************************************************************)
(* Send.                                                                   *)
(***************************************************************************)

\* What was sent before keeps its pieces when one more chunk is sent.
LEMMA ChainGrown ==
  ASSUME NEW s, Chained(s), sent \in Seq(Chunks), sent' \in Seq(Chunks),
         Len(sent') = Len(sent) + 1, \A k \in 1..Len(sent) : sent'[k] = sent[k]
  PROVE  Chained(s)'
<1>1. Len(sent) \in Nat
  OBVIOUS
<1>2. ASSUME NEW k \in 1..Len(s)
      PROVE  Genuine(s[k])' /\ (k < Len(s) => s[k + 1] = After(s[k])')
  <2>1. s[k][1] \in 1..Len(sent) /\ s[k][2] \in 0..sent[s[k][1]].length + 1
    BY <1>2 DEF Chained, Genuine
  <2>2. k < Len(s) => s[k + 1] = After(s[k])
    BY <1>2 DEF Chained
  <2>3. sent'[s[k][1]] = sent[s[k][1]] /\ s[k][1] \in 1..Len(sent')
    BY <1>1, <2>1
  <2> QED
    BY <2>1, <2>2, <2>3 DEF Genuine, After
<1>3. s \in Seq(Pieces)
  BY DEF Chained
<1> QED
  BY <1>2, <1>3 DEF Chained

\* The pieces of a chunk: first its length, then all there is of it.
LEMMA NewPieces ==
  ASSUME NEW i \in 1..MaxSent, NEW n \in Nat
  PROVE  LET s == LengthPieces(i) \o DataPieces(i, n)
         IN /\ LengthPieces(i) \in Seq(Pieces) /\ DataPieces(i, n) \in Seq(Pieces)
            /\ s \in Seq(Pieces) /\ Len(s) = n + 2
            /\ \A k \in 1..n + 2 : s[k] = <<i, k - 1>>
<1> DEFINE a == LengthPieces(i)
           b == DataPieces(i, n)
<1>0. i \in Nat
  BY BoundsAssumption
<1>1. a \in Seq(Pieces) /\ Len(a) = 1 /\ a[1] = <<i, 0>>
  <2>1. <<i, 0>> \in Pieces
    BY DEF Pieces
  <2> QED
    BY <2>1 DEF LengthPieces
<1>2. b \in Seq(Pieces) /\ Len(b) = n + 1 /\ \A k \in 1..n + 1 : b[k] = <<i, k>>
  <2>1. \A k \in 1..n + 1 : <<i, k>> \in Pieces
    BY DEF Pieces
  <2>2. b = [k \in 1..n + 1 |-> <<i, k>>]
    BY DEF DataPieces
  <2> HIDE DEF b
  <2>3. b \in [1..n + 1 -> Pieces]
    BY <2>1, <2>2
  <2>4. n + 1 \in Nat
    OBVIOUS
  <2>5. b \in Seq(Pieces) /\ Len(b) = n + 1
    BY <2>3, <2>4
  <2> QED
    BY <2>2, <2>5
<1> HIDE DEF a, b
<1>3. /\ a \o b \in Seq(Pieces) /\ Len(a \o b) = Len(a) + Len(b)
      /\ \A k \in 1..Len(a) + Len(b) : (a \o b)[k] = IF k <= Len(a) THEN a[k] ELSE b[k - Len(a)]
  BY <1>1, <1>2, ConcatProperties
<1>4. Len(a \o b) = n + 2
  BY <1>1, <1>2, <1>3
<1>5. ASSUME NEW k \in 1..n + 2
      PROVE  (a \o b)[k] = <<i, k - 1>>
  <2>1. (a \o b)[k] = IF k <= 1 THEN a[k] ELSE b[k - 1]
    BY <1>1, <1>2, <1>3
  <2>2. CASE k = 1
    BY <1>1, <2>1, <2>2
  <2>3. CASE k # 1
    <3>1. k - 1 \in 1..n + 1 /\ ~(k <= 1)
      BY <2>3
    <3> QED
      BY <1>2, <2>1, <3>1
  <2> QED
    BY <2>2, <2>3
<1> QED
  BY <1>1, <1>2, <1>3, <1>4, <1>5 DEF a, b

\* Two chains that fit make one, whatever they are.
LEMMA ChainsJoin ==
  \A s, t :
    /\ Chained(s) /\ Chained(t)
    /\ Len(s) > 0 /\ Len(t) > 0 => t[1] = After(s[Len(s)])
    => Chained(s \o t)
BY ChainJoin

\* The same of the next state.
LEMMA ChainsJoinNext ==
  (\A s, t :
    /\ Chained(s) /\ Chained(t)
    /\ Len(s) > 0 /\ Len(t) > 0 => t[1] = After(s[Len(s)])
    => Chained(s \o t))'
BY ChainsJoin, PTL

\* Where the pieces of two sequences are when they are joined.
LEMMA Joined ==
  ASSUME NEW s \in Seq(Pieces), NEW t \in Seq(Pieces)
  PROVE  /\ s \o t \in Seq(Pieces)
         /\ Len(s) \in Nat /\ Len(s \o t) = Len(s) + Len(t)
         /\ \A k \in 1..Len(s) : (s \o t)[k] = s[k]
         /\ \A k \in 1..Len(t) : (s \o t)[Len(s) + k] = t[k]
<1>1. Len(s) \in Nat /\ Len(t) \in Nat
  OBVIOUS
<1>2. /\ s \o t \in Seq(Pieces) /\ Len(s \o t) = Len(s) + Len(t)
      /\ \A k \in 1..Len(s) + Len(t) : (s \o t)[k] = IF k <= Len(s) THEN s[k] ELSE t[k - Len(s)]
  BY ConcatProperties
<1>3. ASSUME NEW k \in 1..Len(s)
      PROVE  (s \o t)[k] = s[k]
  <2>1. k \in 1..Len(s) + Len(t) /\ k <= Len(s)
    BY <1>1
  <2> QED
    BY <1>2, <2>1
<1>4. ASSUME NEW k \in 1..Len(t)
      PROVE  (s \o t)[Len(s) + k] = t[k]
  <2>1. Len(s) + k \in 1..Len(s) + Len(t) /\ ~(Len(s) + k <= Len(s)) /\ (Len(s) + k) - Len(s) = k
    BY <1>1
  <2> QED
    BY <1>2, <2>1
<1> QED
  BY <1>1, <1>2, <1>3, <1>4

\* A chunk that is sent prolongs the stream.
LEMMA StreamGrown ==
  ASSUME TypeOK, Aligned, NEW m \in Seq(Pieces), NEW n \in Nat,
         Len(m) = n + 2, \A k \in 1..n + 2 : m[k] = <<Len(sent) + 1, k - 1>>,
         isOpen["sender"], sent' \in Seq(Chunks), Len(sent') = Len(sent) + 1,
         \A k \in 1..Len(sent) : sent'[k] = sent[k],
         sent'[Len(sent) + 1].length = n,
         UNCHANGED <<taken, inState, bytesWanted, isOpen>>,
         Stream' = Stream \o m
  PROVE  Aligned'
<1> DEFINE i == Len(sent) + 1
<1>0. /\ sent \in Seq(Chunks) /\ Len(sent) \in Nat /\ taken \in Seq(1..MaxSent)
      /\ Len(taken) \in Nat
  BY DEF TypeOK
<1>a. SUFFICES ASSUME Reading
               PROVE  Aligned'
  BY DEF Aligned, Reading
<1>1. PICK s \in Seq(Pieces) : s = Stream
  BY <1>a DEF Aligned, Chained
<1>2. Chained(s) /\ Begins(s) /\ Finishes(s) /\ Wanted
  BY <1>a, <1>1 DEF Aligned
<1>3. Chained(s)'
  BY <1>0, <1>2, ChainGrown
<1>4. Chained(m)'
  <2>1. ASSUME NEW k \in 1..n + 2
        PROVE  Genuine(m[k])'
    <3>1. m[k][1] = i /\ m[k][2] = k - 1 /\ i \in 1..Len(sent')
      BY <1>0
    <3>2. k - 1 \in 0..n + 1
      OBVIOUS
    <3> QED
      BY <3>1, <3>2 DEF Genuine
  <2>2. ASSUME NEW k \in 1..n + 2, k < n + 2
        PROVE  m[k + 1] = After(m[k])'
    <3>1. m[k + 1] = <<i, k>> /\ m[k][1] = i /\ m[k][2] = k - 1
      <4>1. k + 1 \in 1..n + 2 /\ (k + 1) - 1 = k
        BY <2>2
      <4> QED
        BY SMTT(30), <4>1
    <3>2. k - 1 # n + 1 /\ (k - 1) + 1 = k
      BY <2>2
    <3> QED
      BY <3>1, <3>2 DEF After
  <2> QED
    BY <2>1, <2>2 DEF Chained
<1>5. /\ Len(s) \in Nat /\ Len(s \o m) = Len(s) + (n + 2)
      /\ \A k \in 1..Len(s) : (s \o m)[k] = s[k]
      /\ \A k \in 1..n + 2 : (s \o m)[Len(s) + k] = m[k]
      /\ s \o m \in Seq(Pieces)
  <2>1. /\ s \o m \in Seq(Pieces)
        /\ Len(s) \in Nat /\ Len(s \o m) = Len(s) + Len(m)
        /\ \A k \in 1..Len(s) : (s \o m)[k] = s[k]
        /\ \A k \in 1..Len(m) : (s \o m)[Len(s) + k] = m[k]
    BY Zenon, Joined
  <2> QED
    BY <2>1
<1>6. m[1] = <<i, 0>> /\ m[n + 2] = <<i, n + 1>>
  <2>1. 1 \in 1..n + 2 /\ n + 2 \in 1..n + 2 /\ 1 - 1 = 0 /\ (n + 2) - 1 = n + 1
    OBVIOUS
  <2> QED
    BY <2>1
<1>7. Len(s) > 0 => m[1] = After(s[Len(s)])'
  <2> SUFFICES ASSUME Len(s) > 0
               PROVE  m[1] = After(s[Len(s)])'
    OBVIOUS
  <2>1. s[Len(s)] = <<Len(sent), sent[Len(sent)].length + 1>>
    BY <1>2 DEF Finishes
  <2>2. Genuine(s[Len(s)])
    BY <1>2, <1>5 DEF Chained
  <2>3. Len(sent) \in 1..Len(sent)
    BY <2>1, <2>2 DEF Genuine
  <2>4. sent'[Len(sent)] = sent[Len(sent)]
    BY <2>3
  <2> QED
    BY <1>6, <2>1, <2>4 DEF After
<1>8. Chained(s \o m)'
  BY <1>3, <1>4, <1>7, ChainsJoinNext
<1>9. Reading' /\ Wanted'
  <2>1. inState = "CHUNK_DATA" => Len(taken) + 1 \in 1..Len(sent)
    BY <1>0, <1>2 DEF Wanted
  <2>2. inState = "CHUNK_DATA" => sent'[Len(taken) + 1] = sent[Len(taken) + 1]
    BY <2>1
  <2> QED
    BY <1>0, <1>2, <1>a, <2>1, <2>2 DEF Reading, Wanted
<1>10. PICK j \in Seq(Pieces) : j = s \o m
  BY <1>5
<1>11. Begins(j)'
  <2>1. CASE Len(s) > 0
    <3>1. j[1] = s[1]
      BY <1>5, <1>10, <2>1
    <3>2. s[1] = Awaited
      BY <1>2, <2>1 DEF Begins
    <3> QED
      BY <3>1, <3>2 DEF Begins, Awaited
  <2>2. CASE ~(Len(s) > 0)
    <3>1. inState = "CHUNK_SIZE" /\ Len(taken) = Len(sent) /\ Len(s) = 0
      BY <1>2, <1>5, <2>2 DEF Finishes
    <3>2. j[1] = m[1]
      <4>1. 1 \in 1..n + 2 /\ Len(s) + 1 = 1
        BY <3>1
      <4> QED
        BY <1>5, <1>10, <4>1
    <3> QED
      BY <1>6, <3>1, <3>2 DEF Begins, Awaited
  <2> QED
    BY <2>1, <2>2
<1>12. Finishes(j)'
  <2>1. j[Len(j)] = <<i, n + 1>> /\ Len(j) # 0
    <3>1. Len(s) + (n + 2) # 0 /\ n + 2 \in 1..n + 2
      BY <1>5
    <3> QED
      BY <1>5, <1>6, <1>10, <3>1
  <2> QED
    BY <2>1 DEF Finishes
<1>13. Chained(j)' /\ Stream' = j
  BY <1>1, <1>8, <1>10
<1> QED
  BY <1>9, <1>11, <1>12, <1>13, AlignedNext

\* A chunk that is sent goes to the end of the stream, in whatever buffers.
LEMMA SendStep ==
  ASSUME IInv, NEW chunk \in Chunks, Send(chunk)
  PROVE  IInv'
<1> DEFINE i == Len(sent) + 1
           n == chunk.length
<1>0. TypeOK /\ TakenInOrder /\ Aligned /\ FailsByLength /\ FailedIsClosed
  BY DEF IInv
<1>1. /\ inData \in Seq(Pieces) /\ net \in Seq(Pieces) /\ out \in Seq(Pieces)
      /\ sent \in Seq(Chunks) /\ Len(sent) \in Nat /\ Len(sent) < MaxSent
      /\ taken \in Seq(1..MaxSent) /\ Len(taken) \in Nat
      /\ isOpen["sender"]
      /\ UNCHANGED <<emptied, inData, bytesWanted, inState, muted, closeLater, taken,
                     isOpen, caller>>
      /\ written' = TRUE
      /\ sent' = Append(sent, chunk)
  BY <1>0 DEF TypeOK, Send, receiverVars
<1>2. n \in Nat /\ i \in 1..MaxSent
  <2>1. n \in Lengths
    BY DEF Chunks
  <2>2. n \in Nat
    BY <2>1, LengthsAssumption
  <2>3. i \in 1..MaxSent
    BY <1>1, BoundsAssumption
  <2> QED
    BY <2>2, <2>3
<1>3. /\ sent' \in Seq(Chunks) /\ Len(sent') = i /\ Len(sent') <= MaxSent
      /\ \A k \in 1..Len(sent) : sent'[k] = sent[k]
      /\ sent'[i] = chunk
  <2>1. /\ sent' \in Seq(Chunks) /\ Len(sent') = Len(sent) + 1
        /\ \A k \in 1..Len(sent) : sent'[k] = sent[k]
        /\ sent'[Len(sent) + 1] = chunk
    BY <1>1, AppendProperties
  <2> QED
    BY <1>1, <1>2, <2>1
<1>4. PICK m \in Seq(Pieces) :
        /\ m = LengthPieces(i) \o DataPieces(i, n)
        /\ Len(m) = n + 2
        /\ \A k \in 1..n + 2 : m[k] = <<i, k - 1>>
  BY <1>2, NewPieces
<1>5. PICK k \in 1..Len(out \o m) :
        net' = net \o Prefix(out \o m, k) /\ out' = Rest(out \o m, k)
  <2>1. SendMore(out \o LengthPieces(i) \o DataPieces(i, n))
    BY DEF Send
  <2>2. LengthPieces(i) \in Seq(Pieces) /\ DataPieces(i, n) \in Seq(Pieces)
    BY <1>2, NewPieces
  <2>3. (out \o LengthPieces(i)) \o DataPieces(i, n) = out \o m
    BY SMTT(60), <1>1, <1>4, <2>2, JoinPieces
  <2> QED
    BY <2>1, <2>3 DEF SendMore
<1>6. out \o m \in Seq(Pieces)
  BY <1>1, ConcatProperties
<1>7. PICK p \in Seq(Pieces), r \in Seq(Pieces) :
        p = Prefix(out \o m, k) /\ r = Rest(out \o m, k) /\ p \o r = out \o m
  <2>1. k \in 0..Len(out \o m)
    OBVIOUS
  <2>2. /\ Prefix(out \o m, k) \in Seq(Pieces) /\ Rest(out \o m, k) \in Seq(Pieces)
        /\ Prefix(out \o m, k) \o Rest(out \o m, k) = out \o m
    BY <1>6, <2>1, Cut
  <2> QED
    BY <2>2
<1>8. net' = net \o p /\ out' = r /\ net \o p \in Seq(Pieces)
  BY <1>1, <1>5, <1>7, ConcatProperties
<1>9. Stream' = Stream \o m
  <2>1. PICK a \in Seq(Pieces), b \in Seq(Pieces), o \in Seq(Pieces) :
          a = inData /\ b = net /\ o = out
    BY <1>1
  <2>2. Stream' = (a \o (b \o p)) \o r
    BY <1>1, <1>8, <2>1 DEF Stream
  <2>3. Stream \o m = ((a \o b) \o o) \o m
    BY <1>1, <2>1 DEF Stream
  <2>4. a \o b \in Seq(Pieces)
    BY ConcatProperties
  <2>5. a \o (b \o p) = (a \o b) \o p
    BY SMTT(60), JoinPieces
  <2>6. ((a \o b) \o p) \o r = (a \o b) \o (p \o r)
    BY ZenonT(40), <2>4, JoinPieces
  <2>7. ((a \o b) \o o) \o m = (a \o b) \o (o \o m)
    BY SMTT(60), <2>4, JoinPieces
  <2> QED
    BY <1>7, <2>1, <2>2, <2>3, <2>5, <2>6, <2>7
<1>10. Aligned'
  BY <1>0, <1>1, <1>2, <1>3, <1>4, <1>9, StreamGrown
<1>11. TypeOK'
  BY <1>0, <1>1, <1>3, <1>8 DEF TypeOK
<1>12. TakenInOrder'
  BY <1>0, <1>1, <1>3 DEF TakenInOrder
<1>13. FailsByLength' /\ FailedIsClosed'
  <2>1. inState \in {"FAILED", "ended"} => Len(taken) + 1 \in 1..Len(sent)
    BY <1>0, <1>1 DEF FailsByLength
  <2>2. inState \in {"FAILED", "ended"} => sent'[Len(taken) + 1] = sent[Len(taken) + 1]
    BY <1>3, <2>1
  <2> QED
    BY <1>0, <1>1, <1>3, <2>2 DEF FailsByLength, FailedIsClosed
<1> QED
  BY <1>10, <1>11, <1>12, <1>13 DEF IInv

(***************************************************************************)
(* The theorems.                                                           *)
(***************************************************************************)

\* Two sockets that are connected hold nothing.
LEMMA InitIInv ==
  ASSUME Init
  PROVE  IInv
<1>1. /\ sent = <<>> /\ taken = <<>> /\ inData = <<>> /\ net = <<>> /\ out = <<>>
      /\ bytesWanted = 1 /\ inState = "CHUNK_SIZE"
      /\ isOpen = [e \in Ends |-> TRUE]
  BY DEF Init
<1>2. TypeOK
  <2>1. <<>> \in Seq(Chunks) /\ <<>> \in Seq(Pieces) /\ <<>> \in Seq(1..MaxSent) /\ Len(<<>>) = 0
    OBVIOUS
  <2>2. isOpen \in [Ends -> BOOLEAN]
    BY <1>1
  <2> QED
    <3>1. caller \in Ends /\ written = FALSE /\ emptied = FALSE /\ muted = FALSE /\ closeLater = FALSE
      BY DEF Init
    <3>2. 0 <= MaxSent /\ 1 \in Nat
      BY BoundsAssumption
    <3> QED
      BY <1>1, <2>1, <2>2, <3>1, <3>2 DEF TypeOK, InStates
<1>3. TakenInOrder
  BY <1>1 DEF TakenInOrder
<1>4. Aligned
  <2>0. <<>> \in Seq(Pieces)
    OBVIOUS
  <2>1. PICK s \in Seq(Pieces) : s = <<>>
    BY <2>0
  <2>2. Stream = s /\ Len(s) = 0
    <3>1. s \o s = s
      BY <2>1
    <3>2. Stream = (s \o s) \o s \/ Stream = s \o s
      BY <1>1, <2>1 DEF Stream
    <3> QED
      BY <2>1, <3>1, <3>2
  <2>3. Chained(s) /\ Begins(s) /\ Finishes(s) /\ Wanted
    BY <1>1, <2>2 DEF Chained, Begins, Finishes, Wanted
  <2> QED
    BY <2>2, <2>3 DEF Aligned
<1>5. FailsByLength /\ FailedIsClosed
  BY <1>1 DEF FailsByLength, FailedIsClosed
<1> QED
  BY <1>2, <1>3, <1>4, <1>5 DEF IInv

\* Every step keeps the inductive invariant.
LEMMA NextIInv ==
  ASSUME IInv, [Next]_vars
  PROVE  IInv'
<1>1. ASSUME NEW chunk \in Chunks, Send(chunk)
      PROVE  IInv'
  BY <1>1, SendStep
<1>2. CASE BytesWritten
  BY <1>2, BytesWrittenStep
<1>3. CASE OutputBufferEmptied
  BY <1>3, OutputBufferEmptiedStep
<1>4. CASE ReadyRead
  BY <1>4, ReadyReadStep
<1>5. CASE ProcessInput
  BY <1>5, ProcessInputStep
<1>6. CASE MuteAndClose
  BY <1>6, MuteAndCloseStep
<1>7. CASE OnCloseLater
  BY <1>7, OnCloseLaterStep
<1>8. CASE Break
  BY <1>8, BreakStep
<1>9. ASSUME NEW e \in Ends, HearEnd(e)
      PROVE  IInv'
  BY <1>9, HearEndStep
<1>10. CASE UNCHANGED vars
  BY <1>10, StutterStep
<1> QED
  BY <1>1, <1>2, <1>3, <1>4, <1>5, <1>6, <1>7, <1>8, <1>9, <1>10 DEF Next

\* The inductive invariant holds in every reachable state.
THEOREM Invariance == Spec => []IInv
<1>1. Init => IInv
  BY InitIInv
<1>2. IInv /\ [Next]_vars => IInv'
  BY NextIInv
<1> QED
  BY <1>1, <1>2, PTL DEF Spec

\* The buffers hold nothing but pieces of chunks, and the receiver is in one of its
\* states.
THEOREM TypeCorrectness == Spec => []TypeOK
<1>1. IInv => TypeOK
  BY DEF IInv
<1> QED
  BY <1>1, Invariance, PTL

\* However the stream is cut and wherever it breaks, the receiver never decrypts
\* anything but the next message of the cipher, unless a chunk was longer than its
\* length field can tell.
THEOREM FailsOnlyByLength == Spec => []FailsByLength
<1>1. IInv => FailsByLength
  BY DEF IInv
<1> QED
  BY <1>1, Invariance, PTL

(***************************************************************************)
(* PeerStream implements the safety of StreamPromise.                      *)
(***************************************************************************)

Received == [n \in DOMAIN taken |-> sent[taken[n]]]

Up == isOpen["receiver"] /\ inState \notin {"CLOSING", "FAILED", "ended"}

\* A step that takes nothing and does not give the connection up is invisible.
LEMMA InvisibleStep ==
  ASSUME UNCHANGED <<sent, taken>>, Up' = Up
  PROVE  UNCHANGED Promise!vars
BY DEF Promise!vars, Up

\* One that takes nothing and leaves the receiver down is invisible, or takes it
\* down.
LEMMA GoesDown ==
  ASSUME UNCHANGED <<sent, taken>>, ~Up'
  PROVE  [Promise!Next]_(Promise!vars)
<1>1. CASE Up
  <2>1. Promise!GoDown
    BY <1>1 DEF Promise!GoDown, Up
  <2> QED
    BY <2>1 DEF Promise!Next
<1>2. CASE ~Up
  <2>1. Up' = Up
    BY Zenon, <1>2 DEF Up
  <2> QED
    BY <2>1, InvisibleStep
<1> QED
  BY <1>1, <1>2

\* Send is that of the promise.
LEMMA SendRefines ==
  ASSUME IInv, NEW chunk \in Chunks, Send(chunk)
  PROVE  [Promise!Next]_(Promise!vars)
<1>1. /\ sent \in Seq(Chunks) /\ Len(sent) \in Nat
      /\ taken \in Seq(1..MaxSent)
      /\ TakenInOrder
      /\ sent' = Append(sent, chunk)
      /\ UNCHANGED <<taken, inState, isOpen>>
  BY DEF IInv, TypeOK, Send, receiverVars
<1>2. \A k \in 1..Len(sent) : sent'[k] = sent[k]
  BY <1>1, AppendProperties
<1>3. DOMAIN taken = 1..Len(taken) /\ Len(taken) \in Nat
  BY <1>1
<1>4. \A n \in DOMAIN taken : sent'[taken[n]] = sent[taken[n]]
  <2> SUFFICES ASSUME NEW n \in 1..Len(taken)
               PROVE  sent'[taken[n]] = sent[taken[n]]
    BY <1>3
  <2>1. taken[n] = n /\ n \in 1..Len(sent)
    BY <1>1, <1>3 DEF TakenInOrder
  <2> QED
    BY <1>2, <2>1
<1>5. Received' = Received
  BY <1>1, <1>4 DEF Received
<1>6. Promise!Send
  BY <1>1, <1>5 DEF Promise!Send, Received
<1> QED
  BY <1>6 DEF Promise!Next

\* Taking the next chunk appends it to what the receiver has.
LEMMA ReceivedGrows ==
  ASSUME TypeOK, TakenInOrder, sent' = sent, Len(taken) + 1 \in 1..Len(sent),
         taken' \in Seq(1..MaxSent), Len(taken') = Len(taken) + 1,
         taken'[Len(taken) + 1] = Len(taken) + 1,
         \A n \in 1..Len(taken) : taken'[n] = taken[n]
  PROVE  /\ Received \in Seq(Chunks) /\ Len(Received) = Len(taken)
         /\ Received' = Append(Received, sent[Len(taken) + 1])
<1> DEFINE i == Len(taken) + 1
<1>1. /\ sent \in Seq(Chunks) /\ taken \in Seq(1..MaxSent) /\ Len(taken) \in Nat
      /\ DOMAIN taken = 1..Len(taken) /\ DOMAIN taken' = 1..i
  BY DEF TypeOK
<1>2. \A n \in 1..i : n \in 1..Len(sent) /\ sent[n] \in Chunks
  BY <1>1
<1>3. \A n \in 1..Len(taken) : taken[n] = n /\ n \in 1..i
  BY <1>1 DEF TakenInOrder
<1>4. PICK r : r = [n \in 1..Len(taken) |-> sent[n]]
  OBVIOUS
<1>5. Received = r
  BY <1>1, <1>3, <1>4 DEF Received
<1>6. r \in Seq(Chunks) /\ Len(r) = Len(taken)
  <2>1. r \in [1..Len(taken) -> Chunks]
    BY <1>2, <1>3, <1>4
  <2> QED
    BY <1>1, <2>1
<1>7. \A n \in 1..i : taken'[n] = n
  <2> SUFFICES ASSUME NEW n \in 1..i
               PROVE  taken'[n] = n
    OBVIOUS
  <2>1. n \in 1..Len(taken) \/ n = i
    BY <1>1
  <2> QED
    BY <1>3, <2>1
<1>8. PICK q : q = [n \in 1..i |-> sent[n]]
  OBVIOUS
<1>9. Received' = q
  BY <1>1, <1>7, <1>8 DEF Received
<1>10. q \in Seq(Chunks) /\ Len(q) = i
  <2>1. q \in [1..i -> Chunks] /\ i \in Nat
    BY <1>1, <1>2, <1>8
  <2> QED
    BY <2>1
<1>11. PICK c \in Chunks : c = sent[i]
  BY <1>1
<1>12. /\ Append(r, c) \in Seq(Chunks) /\ Len(Append(r, c)) = Len(r) + 1
       /\ \A n \in 1..Len(r) : Append(r, c)[n] = r[n]
       /\ Append(r, c)[Len(r) + 1] = c
  BY <1>6, AppendProperties
<1>13. \A n \in 1..Len(q) : q[n] = Append(r, c)[n]
  <2> SUFFICES ASSUME NEW n \in 1..i
               PROVE  q[n] = Append(r, c)[n]
    BY <1>10
  <2>1. n \in 1..Len(taken) \/ n = i
    BY <1>1
  <2>2. q[n] = sent[n]
    BY <1>8
  <2>3. CASE n \in 1..Len(taken)
    BY <1>4, <1>6, <1>12, <2>2, <2>3
  <2>4. CASE n = i
    BY <1>6, <1>11, <1>12, <2>2, <2>4
  <2> QED
    BY <2>1, <2>3, <2>4
<1>14. q = Append(r, c)
  BY <1>6, <1>10, <1>12, <1>13, SeqEqual
<1> QED
  BY <1>5, <1>6, <1>9, <1>11, <1>14

\* ProcessInput takes the next chunk, or nothing.
LEMMA ProcessInputRefines ==
  ASSUME IInv, ProcessInput
  PROVE  [Promise!Next]_(Promise!vars)
<1> DEFINE i == Len(taken) + 1
           got == Prefix(inData, bytesWanted)
<1>0. TypeOK /\ TakenInOrder /\ Aligned /\ FailedIsClosed
  BY DEF IInv
<1>1. sent' = sent /\ Busy /\ isOpen["receiver"]
  BY DEF ProcessInput, senderVars, Busy
<1>2. CASE inState = "CLOSING"
  <2>1. UNCHANGED <<inState, taken, isOpen>>
    BY <1>2 DEF ProcessInput, IgnoresInput
  <2>2. Up' = Up
    BY <2>1 DEF Up
  <2> QED
    BY <1>1, <2>1, <2>2, InvisibleStep
<1>3. CASE Reading
  <2>1. /\ i \in 1..Len(sent)
        /\ inState = "CHUNK_SIZE" => got = LengthPieces(i)
        /\ inState = "CHUNK_DATA" => got # LengthPieces(i)
    BY <1>0, <1>1, <1>3, WhatArrives
  <2>2. IF got = LengthPieces(i) THEN WantChunkData(sent[i].length)
        ELSE IF got = DataPieces(i, sent[i].length) THEN OnReceivedData(i)
        ELSE Fail
    BY <1>3 DEF ProcessInput, IgnoresInput, Reading
  <2>3. taken \in Seq(1..MaxSent) /\ Len(taken) \in Nat
    BY <1>0 DEF TypeOK
  <2> HIDE DEF i, got
  <2>4. CASE WantChunkData(sent[i].length)
    <3>1. inState' = "CHUNK_DATA" /\ UNCHANGED <<taken, isOpen>>
      BY <2>4 DEF WantChunkData
    <3>2. Up' /\ Up
      BY <1>1, <1>3, <3>1 DEF Up, Reading
    <3> QED
      BY <1>1, <3>1, <3>2, InvisibleStep
  <2>5. CASE OnReceivedData(i)
    <3>1. taken' = Append(taken, i)
      BY <2>5 DEF OnReceivedData
    <3>2. Up
      BY <1>1, <1>3 DEF Up, Reading
    <3>3. /\ taken' \in Seq(1..MaxSent) /\ Len(taken') = i /\ taken'[i] = i
          /\ \A n \in 1..Len(taken) : taken'[n] = taken[n]
      <4>1. i \in 1..MaxSent /\ i = Len(taken) + 1
        BY <1>0, <2>1, <2>3, BoundsAssumption DEF TypeOK, i
      <4> QED
        BY <2>3, <3>1, <4>1, AppendProperties
    <3>4. /\ Received \in Seq(Chunks) /\ Len(Received) = Len(taken)
          /\ Received' = Append(Received, sent[i])
      BY <1>0, <1>1, <2>1, <2>3, <3>3, ReceivedGrows DEF i
    <3>5. Promise!Take
      <4>1. Up' \in BOOLEAN
        BY DEF Up
      <4>2. Len(Received) < Len(sent)
        BY <1>0, <2>1, <2>3, <3>4 DEF TypeOK, i
      <4>3. Received' = Append(Received, sent[Len(Received) + 1])
        BY <3>4 DEF i
      <4> QED
        BY <1>1, <3>2, <4>1, <4>2, <4>3 DEF Promise!Take, Up, Received
    <3> QED
      BY <3>5 DEF Promise!Next
  <2>6. CASE Fail
    <3>1. UNCHANGED taken /\ inState' \in {"FAILED", "ended"}
      BY <2>6 DEF Fail
    <3>2. ~Up'
      BY <3>1 DEF Up
    <3> QED
      BY <1>1, <3>1, <3>2, GoesDown
  <2> QED
    BY <2>2, <2>4, <2>5, <2>6
<1> QED
  BY <1>0, <1>1, <1>2, <1>3 DEF TypeOK, InStates, Reading, FailedIsClosed

\* Every step is one of the promise, or invisible in it.
LEMMA NextRefines ==
  ASSUME IInv, [Next]_vars
  PROVE  [Promise!Next]_(Promise!vars)
<1>1. ASSUME NEW chunk \in Chunks, Send(chunk)
      PROVE  [Promise!Next]_(Promise!vars)
  BY <1>1, SendRefines
<1>2. CASE BytesWritten \/ OutputBufferEmptied \/ ReadyRead \/ UNCHANGED vars
  <2>1. UNCHANGED <<sent, taken, inState, isOpen>>
    BY <1>2 DEF BytesWritten, OutputBufferEmptied, ReadyRead, vars, senderVars, receiverVars
  <2>2. Up' = Up
    BY <2>1 DEF Up
  <2> QED
    BY <2>1, <2>2, InvisibleStep
<1>3. CASE ProcessInput
  BY <1>3, ProcessInputRefines
<1>4. CASE MuteAndClose
  <2>1. UNCHANGED <<sent, taken>> /\ inState' = "CLOSING"
    BY <1>4 DEF MuteAndClose, Close, senderVars
  <2>2. ~Up'
    BY <2>1 DEF Up
  <2> QED
    BY <2>1, <2>2, GoesDown
<1>5. isOpen \in [Ends -> BOOLEAN] /\ "receiver" \in Ends /\ "sender" \in Ends
  BY DEF IInv, TypeOK, Ends
<1>6. CASE OnCloseLater \/ HearEnd("receiver")
  <2>1. UNCHANGED <<sent, taken>> /\ isOpen' = [isOpen EXCEPT !["receiver"] = FALSE]
    BY <1>6 DEF OnCloseLater, HearEnd, senderVars, receiverVars
  <2>2. ~isOpen'["receiver"]
    BY <1>5, <2>1
  <2>3. ~Up'
    BY <2>2 DEF Up
  <2> QED
    BY <2>1, <2>3, GoesDown
<1>7. CASE Break \/ HearEnd("sender")
  <2>1. UNCHANGED <<sent, taken, inState>> /\ isOpen' = [isOpen EXCEPT !["sender"] = FALSE]
    BY <1>7 DEF Break, HearEnd, senderVars, receiverVars
  <2>2. isOpen'["receiver"] = isOpen["receiver"]
    BY <1>5, <2>1
  <2>3. Up' = Up
    BY <2>1, <2>2 DEF Up
  <2> QED
    BY <2>1, <2>3, InvisibleStep
<1> QED
  BY <1>1, <1>2, <1>3, <1>4, <1>6, <1>7 DEF Next, Ends

\* The initial states are those of the promise.
LEMMA InitRefines == Init => Promise!Init
<1> SUFFICES ASSUME Init
             PROVE  Promise!Init
  OBVIOUS
<1>1. sent = <<>> /\ taken = <<>> /\ inState = "CHUNK_SIZE" /\ isOpen["receiver"]
  BY DEF Init, Ends
<1>2. [n \in DOMAIN taken |-> sent[taken[n]]] = <<>>
  BY <1>1
<1> QED
  BY <1>1, <1>2 DEF Promise!Init

\* However the bytes are cut on their way, delayed and lost with the connection, what
\* the receiver takes is what was sent, whole, in order and once, and after it was
\* told to close, or failed, it takes nothing more.
THEOREM KeepsPromiseSafely == Spec => Promise!SafeSpec
<1>1. Init => Promise!Init
  BY InitRefines
<1>2. IInv /\ [Next]_vars => [Promise!Next]_(Promise!vars)
  BY NextRefines
<1> QED
  BY <1>1, <1>2, Invariance, PTL DEF Spec, Promise!SafeSpec
=============================================================================
