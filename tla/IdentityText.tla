----------------------------- MODULE IdentityText -----------------------------
(***************************************************************************)
(* How one user becomes the contact of another: the identity is written as *)
(* a text, which goes through the clipboards, is read back, and gives the  *)
(* contact his key and his address.                                        *)
(*                                                                         *)
(* A key is its 32 bytes, and an onion address its 16 characters, as ASCII *)
(* codes, and a port.  A base58 text is the sequence of its digits: the    *)
(* tables of the two directions are each other's inverse.  A word of four  *)
(* bytes that is multiplied by 58 is its four bytes, each in turn.         *)
(***************************************************************************)
EXTENDS Integers, Sequences, FiniteSets, SequencesExt

CONSTANTS
  Keys,           \* the keys there may be: sequences of 32 bytes
  Onions,         \* the onion addresses: sequences of 16 characters
  Ports,          \* the ports of the services
  Checksum(_)     \* the first four bytes of the SHA256 of a sequence of bytes

Zeros(n) == [i \in 1..n |-> 0]
LeadingZeros(s) == SelectInSeq(Append(s, 1), LAMBDA b : b # 0) - 1

(***************************************************************************)
(* base58.                                                                 *)
(***************************************************************************)

\* Mutant: one digit less.
ShortBuffer(bytes) == (Len(bytes) * 137) \div 100

\* The digits b58enc_() has room for.
BufferSize(bytes) == ((Len(bytes) - LeadingZeros(bytes)) * 138) \div 100 + 1

\* The inner loop of b58enc_(), at digit j: it stops in front of the digits that
\* were never written, and when it gets past the first one it has left the buffer.
RECURSIVE AddByte(_, _, _, _)
AddByte(buf, j, high, carry) ==
  IF j = 0 THEN [inside |-> FALSE, buf |-> buf, high |-> 0]
  ELSE IF j <= high /\ carry = 0 THEN [inside |-> TRUE, buf |-> buf, high |-> j]
  ELSE LET sum == carry + 256 * buf[j]
       IN AddByte([buf EXCEPT ![j] = sum % 58], j - 1, high, sum \div 58)

\* b58enc_(): the digits of the bytes, with a zero for each leading zero.
Encoding(bytes) ==
  LET zeros == LeadingZeros(bytes)
      size == BufferSize(bytes)
      AddNext(e, byte) == IF e.inside THEN AddByte(e.buf, size, e.high, byte) ELSE e
  IN FoldLeft(AddNext, [inside |-> TRUE, buf |-> Zeros(size), high |-> size],
              SubSeq(bytes, zeros + 1, Len(bytes)))

\* Nothing comes of it when the buffer is left.
Encode(bytes) ==
  LET e == Encoding(bytes)
  IN IF e.inside
     THEN Zeros(LeadingZeros(bytes)) \o SubSeq(e.buf, LeadingZeros(e.buf) + 1, Len(e.buf))
     ELSE <<>>

\* The inner loop of b58tobin_(): the number times 58, and the next digit.
RECURSIVE AddDigit(_, _, _)
AddDigit(out, j, carry) ==
  IF j = 0 THEN [fits |-> carry = 0, out |-> out]
  ELSE LET t == out[j] * 58 + carry
       IN AddDigit([out EXCEPT ![j] = t % 256], j - 1, t \div 256)

\* b58tobin() and b58tobin_(): at most so many bytes; what is longer than the number
\* of its bytes without leading zeros, and one for each leading zero digit, is cut.
Decode(digits, size) ==
  LET zeros == LeadingZeros(digits)
      AddNext(d, digit) == IF d.fits THEN AddDigit(d.out, size, digit) ELSE d
      d == FoldLeft(AddNext, [fits |-> TRUE, out |-> Zeros(size)],
                    SubSeq(digits, zeros + 1, Len(digits)))
  IN IF d.fits THEN SubSeq(d.out, 1, size - LeadingZeros(d.out) + zeros) ELSE <<>>

\* b58check_enc()
CheckedEncode(bytes, version) ==
  LET buf == version \o bytes IN Encode(buf \o Checksum(buf))

\* b58tobin_check(), of a text that has the right version.
CheckedDecode(digits, size, version) ==
  LET full == Decode(digits, size + Len(version) + 4)
      n == Len(full) - 4
  IN IF n >= 0 /\ SubSeq(full, n + 1, Len(full)) = Checksum(SubSeq(full, 1, n))
     THEN SubSeq(full, Len(version) + 1, n) ELSE <<>>

(***************************************************************************)
(* base32, of onion addresses.                                             *)
(***************************************************************************)

\* The characters a-z and 2-7 are the numbers up to 31.
Number(c) == IF c \in 97..122 THEN c - 97 ELSE IF c \in 50..55 THEN c - 49 + 25 ELSE 26
Character(n) == IF n < 26 THEN n + 97 ELSE n - 26 + 50

\* Eight characters and five bytes.
FiveBytes(t) ==
  <<((t[1] * 8) % 256) + (t[2] \div 4),
    ((t[2] * 64) % 256) + (t[3] * 2) + (t[4] \div 16),
    ((t[4] * 16) % 256) + (t[5] \div 2),
    ((t[5] * 128) % 256) + (t[6] * 4) + (t[7] \div 8),
    ((t[7] * 32) % 256) + t[8]>>

EightNumbers(b) ==
  <<b[1] \div 8,
    ((b[1] * 4) + (b[2] \div 64)) % 32,
    (b[2] \div 2) % 32,
    ((b[2] * 16) + (b[3] \div 16)) % 32,
    ((b[3] * 2) + (b[4] \div 128)) % 32,
    (b[4] \div 4) % 32,
    ((b[4] * 8) + (b[5] \div 32)) % 32,
    b[5] % 32>>

\* onion16decode() and onion16encode()
OnionDecode(onion) ==
  LET t == [i \in 1..16 |-> Number(onion[i])]
  IN FiveBytes(SubSeq(t, 1, 8)) \o FiveBytes(SubSeq(t, 9, 16))

OnionEncode(bytes) ==
  LET t == EightNumbers(SubSeq(bytes, 1, 5)) \o EightNumbers(SubSeq(bytes, 6, 10))
  IN [i \in 1..16 |-> Character(t[i])]

(***************************************************************************)
(* The identity, the clipboard and the contact.                            *)
(***************************************************************************)

VARIABLES
  step,       \* how far they have come
  identity,   \* the key, the onion address and the port of the user
  text,       \* what he gives away
  values,     \* what the other one's window has of it
  contact     \* whom the other one has added

vars == <<step, identity, text, values, contact>>

Nobody == [key |-> <<>>, onion |-> <<>>, port |-> 0]
NoValues == [handle |-> <<>>, onion |-> <<>>, port |-> 0]

IdentityVersion == <<11, 176>>
HandleVersion == <<249, 50>>

Init ==
  /\ step = "START"
  /\ identity \in [key : Keys, onion : Onions, port : Ports]
  /\ text = <<>>
  /\ values = NoValues
  /\ contact = Nobody

\* What an address must be for getIdentityAsBase58().
IsLegacyAddress(id) ==
  /\ Len(id.onion) = 16
  /\ \A i \in 1..16 : id.onion[i] \in 97..122 \cup 50..55
  /\ id.port \in 100..99999

\* The version, the key, the address and the port, in network order.
Payload(id) ==
  <<1>> \o id.key \o OnionDecode(id.onion)
    \o <<((id.port % 65536) \div 256), id.port % 256>>

\* getIdentityAsBase58(), and textToClipboard().
Export ==
  /\ step = "START"
  /\ IsLegacyAddress(identity)
  /\ \E digits \in {CheckedEncode(Payload(identity), IdentityVersion)} : text' = digits
  /\ step' = "COPIED"
  /\ UNCHANGED <<identity, values, contact>>

\* The values of a payload.
ValuesOf(data) ==
  [handle |-> CheckedEncode(SubSeq(data, 2, 33), HandleVersion),
   onion |-> OnionEncode(SubSeq(data, 34, 43)),
   port |-> data[44] * 256 + data[45]]

\* getIdenityFromClipboard(): there are no values when the text has another length,
\* and when the payload is not one.
Import ==
  /\ step = "COPIED"
  /\ \E data \in {IF Len(text) = 69 THEN CheckedDecode(text, 45, IdentityVersion) ELSE <<>>} :
       \E read \in {IF data # <<>> /\ data[1] = 1 THEN ValuesOf(data) ELSE NoValues} :
         values' = read
  /\ step' = "PASTED"
  /\ UNCHANGED <<identity, text, contact>>

\* Identity::addContact()
AddContact ==
  /\ step = "PASTED"
  /\ \E key \in {CheckedDecode(values.handle, 32, HandleVersion)} :
       contact' = [key |-> key, onion |-> values.onion, port |-> values.port]
  /\ step' = "ADDED"
  /\ UNCHANGED <<identity, text, values>>

Next ==
  \/ Export
  \/ Import
  \/ AddContact

Spec == Init /\ [][Next]_vars

(***************************************************************************)
(* Properties.                                                             *)
(***************************************************************************)

\* Whoever is given the text of an identity gets that identity as his contact: no
\* key is so small or so large that its text has another length, leaves the buffers
\* or comes back changed, and no onion address or port is mixed up on the way.
ContactIsTheIdentity == step = "ADDED" => contact = identity
=============================================================================
