------------------------------- MODULE TorReply -------------------------------
(***************************************************************************)
(* TorCtlReply: what the lines of a reply of Tor mean.                     *)
(*                                                                         *)
(* A text is the sequence of its bytes; one that was made a QString is the *)
(* sequence of its characters.  parse() and unescape() read a text byte by *)
(* byte; each is a fold of the step of its loop.  A byte that is read      *)
(* ahead is a mode here: ESCAPE after a backslash, OCTAL after an octal    *)
(* digit, which the byte after the number ends.                            *)
(***************************************************************************)
EXTENDS Naturals, Sequences, SequencesExt

TAB == 9
LF == 10
CR == 13
SPACE == 32
QUOTE == 34
DASH == 45
SLASH == 47
EQUALS == 61
BACKSLASH == 92

IsDigit(c) == c \in 48..57
IsAlpha(c) == c \in 65..90 \cup 97..122
IsWord(c) == IsDigit(c) \/ IsAlpha(c) \/ c = 95
IsBlank(c) == c \in {SPACE, TAB}

\* toKey()
ToKey(text) == [i \in DOMAIN text |-> IF text[i] \in 97..122 THEN text[i] - 32 ELSE text[i]]

(***************************************************************************)
(* unescape().                                                             *)
(***************************************************************************)

IsOctal(c) == c \in 48..55

\* With one a single quoted string is read, up to its end.
Unquoted(one) == [mode |-> "TEXT", one |-> one, text |-> <<>>, octet |-> 0, left |-> 0]

Wrote(u, c) == [u EXCEPT !.mode = "QUOTED", !.text = Append(@, c)]

\* Tor restricts the first of three digits to 0-3.
FirstDigit(u, c) ==
  [u EXCEPT !.mode = "OCTAL", !.octet = c - 48, !.left = IF c > 51 THEN 1 ELSE 2]

Escaped(u, c) ==
  CASE c = 110 -> Wrote(u, LF)
    [] c = 114 -> Wrote(u, CR)
    [] c = 116 -> Wrote(u, TAB)
    [] IsOctal(c) -> FirstDigit(u, c)
    [] OTHER -> Wrote(u, c)

Quoted(u, c) ==
  CASE c = BACKSLASH -> [u EXCEPT !.mode = "ESCAPE"]
    [] c = QUOTE -> [u EXCEPT !.mode = IF u.one THEN "END" ELSE "TEXT"]
    [] OTHER -> Wrote(u, c)

Unescape(u, c) ==
  CASE u.mode = "ESCAPE" -> Escaped(u, c)
    [] u.mode = "OCTAL" /\ IsOctal(c) /\ u.left > 0 ->
         [u EXCEPT !.octet = 8 * @ + c - 48, !.left = @ - 1]
    [] u.mode = "OCTAL" /\ ~(IsOctal(c) /\ u.left > 0) -> Quoted(Wrote(u, u.octet), c)
    [] u.mode = "QUOTED" -> Quoted(u, c)
    [] u.mode = "TEXT" /\ c = QUOTE -> [u EXCEPT !.mode = "QUOTED"]
    [] OTHER -> [u EXCEPT !.text = Append(@, c)]

UnescapeAll(text) == FoldLeft(Unescape, Unquoted(FALSE), text)

(***************************************************************************)
(* What becomes of the text that is returned: c_str() ends at the first    *)
(* zero, and QString decodes UTF-8.                                        *)
(***************************************************************************)

CString(text) ==
  LET zero == SelectInSeq(text, LAMBDA c : c = 0)
  IN IF zero = 0 THEN text ELSE SubSeq(text, 1, zero - 1)

\* U+FFFD stands for each byte that is not part of a character.
REPLACEMENT == 65533

Between(chars) == [chars |-> chars, code |-> 0, read |-> 0, left |-> 0]
Broken(d) == Between(d.chars \o [i \in 1..d.read |-> REPLACEMENT])

Lead(d, c) ==
  CASE c < 128 -> Between(Append(d.chars, c))
    [] c \in 194..223 -> [d EXCEPT !.code = c - 192, !.read = 1, !.left = 1]
    [] c \in 224..239 -> [d EXCEPT !.code = c - 224, !.read = 1, !.left = 2]
    [] c \in 240..244 -> [d EXCEPT !.code = c - 240, !.read = 1, !.left = 3]
    [] OTHER -> Between(Append(d.chars, REPLACEMENT))

\* The characters a sequence of n bytes may stand for.
Encoded(n) ==
  CASE n = 2 -> 128..2047
    [] n = 3 -> 2048..55295 \cup 57344..65535
    [] n = 4 -> 65536..1114111

Decode(d, c) ==
  LET e == [d EXCEPT !.code = 64 * @ + c - 128, !.read = @ + 1, !.left = @ - 1]
  IN CASE d.left = 0 -> Lead(d, c)
       [] d.left > 0 /\ c \notin 128..191 -> Lead(Broken(d), c)
       [] d.left > 1 /\ c \in 128..191 -> e
       [] d.left = 1 /\ c \in 128..191 ->
            IF e.code \in Encoded(e.read) THEN Between(Append(e.chars, e.code)) ELSE Broken(e)

\* A mark of the byte order is dropped.
FromUtf8(text) ==
  LET marked == Len(text) >= 3 /\ SubSeq(text, 1, 3) = <<239, 187, 191>>
  IN Broken(FoldLeft(Decode, Between(<<>>),
                     IF marked THEN SubSeq(text, 4, Len(text)) ELSE text)).chars

(***************************************************************************)
(* parse() of a list of pairs of keys and values.                          *)
(***************************************************************************)

Value(text, map) == [text |-> text, map |-> map]
Put(map, key, value) ==
  [k \in DOMAIN map \cup {key} |-> IF k = key THEN value ELSE map[k]]

Scanning(kv) ==
  [state |-> "SCANNING", key |-> <<>>, value |-> <<>>, quoted |-> Unquoted(TRUE), kv |-> kv]

\* The end of a value: a key without a name is not one.
Ended(p) ==
  Scanning(IF p.key = <<>> THEN p.kv ELSE Put(p.kv, ToKey(p.key), Value(p.value, <<>>)))

InKey(p, c) ==
  IF c = EQUALS THEN [p EXCEPT !.state = "VALUE"]
  ELSE [p EXCEPT !.state = "KEY", !.key = Append(@, c)]

InQuotes(p, c) ==
  LET u == Unescape(p.quoted, c)
  IN IF u.mode = "END" THEN Ended([p EXCEPT !.value = @ \o CString(u.text)])
     ELSE [p EXCEPT !.state = "QUOTED", !.quoted = u]

InValue(p, c) ==
  CASE c = QUOTE -> InQuotes(p, c)
    [] IsBlank(c) -> Ended(p)
    [] OTHER -> [p EXCEPT !.value = Append(@, c)]

ParseByte(p, c) ==
  CASE p.state = "SCANNING" /\ IsBlank(c) -> p
    [] p.state = "SCANNING" /\ IsAlpha(c) -> InKey(p, c)
    [] p.state = "SCANNING" /\ ~IsBlank(c) /\ ~IsAlpha(c) -> [p EXCEPT !.state = "FAILED"]
    [] p.state = "KEY" -> InKey(p, c)
    [] p.state = "VALUE" -> InValue(p, c)
    [] p.state = "QUOTED" -> InQuotes(p, c)
    [] p.state = "FAILED" -> p

\* A key that ends with its = is dropped when the line ends there.  (ParseError,
\* when a string in quotes is not ended, is the state QUOTED.)
ParsePairs(text, kv) ==
  LET p == FoldLeft(ParseByte, Scanning(kv), text)
  IN IF p.state = "KEY" \/ (p.state = "VALUE" /\ p.value # <<>>) THEN Ended(p) ELSE p

(***************************************************************************)
(* parse() of a reply.                                                     *)
(***************************************************************************)

\* Where the word that begins at i ends.
WordEnd(text, i) ==
  IF \E j \in i..Len(text) : ~IsWord(text[j])
  THEN CHOOSE j \in i..Len(text) : ~IsWord(text[j]) /\ \A k \in i..j - 1 : IsWord(text[k])
  ELSE Len(text) + 1

\* (\w+)( (.*))?$ from i on.
IsWordAndRest(text, i) ==
  LET end == WordEnd(text, i)
  IN end > i /\ (end > Len(text) \/ text[end] = SPACE)

\* The blank after ([\w][\w\-\/]+)(=(\w+)), or 0.
PhaseEnd(text) ==
  LET e == SelectInSeq(text, LAMBDA c : c = EQUALS)
      end == WordEnd(text, e + 1)
  IN IF /\ e > 2 /\ IsWord(text[1])
        /\ \A i \in 2..e - 1 : IsWord(text[i]) \/ text[i] \in {DASH, SLASH}
        /\ end > e + 1 /\ end <= Len(text) /\ text[end] = SPACE
        /\ IsWordAndRest(text, end + 1)
     THEN end ELSE 0

\* A word, and what follows it: pairs, or text that may be quoted.
ParseWord(text, from, map) ==
  LET end == WordEnd(text, from)
      key == ToKey(SubSeq(text, from, end - 1))
      value == SubSeq(text, end + 1, Len(text))
      pairs == ParsePairs(value, <<>>)
      listed == pairs.state # "FAILED" /\ DOMAIN pairs.kv # {}
  IN Put(map, key, IF listed THEN Value(<<>>, pairs.kv)
                   ELSE Value(FromUtf8(CString(UnescapeAll(value).text)), <<>>))

ParseLine(map, text) ==
  LET phase == PhaseEnd(text)
      e == SelectInSeq(text, LAMBDA c : c = EQUALS)
  IN CASE phase > 0 ->
            ParseWord(text, phase + 1,
              Put(map, ToKey(SubSeq(text, 1, e - 1)), Value(SubSeq(text, e + 1, phase - 1), <<>>)))
       [] phase = 0 /\ IsWordAndRest(text, 1) -> ParseWord(text, 1, map)
       [] OTHER -> ParsePairs(text, map).kv

Parse(lines) == FoldLeft(ParseLine, <<>>, lines)
=============================================================================
