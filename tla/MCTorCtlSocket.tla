--------------------------- MODULE MCTorCtlSocket ---------------------------
(* TorCtlSocket for TLC: what Tor writes, as control-spec says it does.        *)
EXTENDS TorCtlSocket

Alphabet == {75, 110, 55, SPACE, QUOTE, BACKSLASH, EQUALS, LF, 8, 200}
Texts(n) == BoundedSeq(Alphabet, n)

Octal(c) == <<BACKSLASH, 48 + c \div 64, 48 + ((c \div 8) % 8), 48 + (c % 8)>>
Escape(c) ==
  CASE c \in {QUOTE, BACKSLASH} -> <<BACKSLASH, c>>
    [] c = LF -> <<BACKSLASH, 110>>
    [] c \notin 32..126 -> Octal(c)
    [] OTHER -> <<c>>
InString(text) == <<QUOTE>> \o FlattenSeq([i \in DOMAIN text |-> Escape(text[i])]) \o <<QUOTE>>

\* A value, as it is written: in quotes, or as it is when it has nothing to hide.
Plain(text) == text # <<>> /\ ToSet(text) \cap {SPACE, QUOTE, BACKSLASH, LF, 8, 200} = {}
Written(n) ==
  {[text |-> t, wire |-> InString(t)] : t \in Texts(n)}
    \cup {[text |-> t, wire |-> t] : t \in {u \in Texts(n) : Plain(u)}}

one == <<107, 75>>              \* kK
two == <<75, 49>>               \* K1
word == <<87, 79, 82, 68>>      \* WORD
phase == <<115, 47, 98>>        \* s/b
level == <<78>>                 \* N
ok == <<79, 75>>                \* OK

Pair(key, v) == key \o <<EQUALS>> \o v.wire
Pairs(v, u) == Pair(one, v) \o <<SPACE>> \o Pair(two, u)
PairsMean(v, u) ==
  Put(Put(<<>>, ToKey(one), Value(v.text, <<>>)), ToKey(two), Value(u.text, <<>>))

Line(type, text) == [short |-> FALSE, ends |-> FALSE, status |-> 250, type |-> type, text |-> text]
Okay == Value(<<>>, <<>>)

Reply(text, means) ==
  [status |-> 250, lines |-> <<Line("-", text), Line(" ", ok)>>, means |-> Put(means, ok, Okay)]

\* The forms of the replies to PROTOCOLINFO, AUTHCHALLENGE, ADD_ONION and GETINFO.
Listed(v, u) == Reply(word \o <<SPACE>> \o Pairs(v, u), Put(<<>>, word, Value(<<>>, PairsMean(v, u))))
Bare(v, u) == Reply(Pairs(v, u), PairsMean(v, u))
Phased(v, u) ==
  Reply(phase \o <<EQUALS>> \o level \o <<SPACE>> \o word \o <<SPACE>> \o Pairs(v, u),
        Put(Put(<<>>, ToKey(phase), Value(level, <<>>)), word, Value(<<>>, PairsMean(v, u))))

\* A text in quotes that is not of a pair: characters, of one to four bytes.
Characters == {75, SPACE, QUOTE, BACKSLASH, 233, 8364, 128512}
Utf8(c) ==
  LET Next6(n) == 128 + ((c \div n) % 64)
  IN CASE c < 128 -> <<c>>
       [] c \in 128..2047 -> <<192 + c \div 64, Next6(1)>>
       [] c \in 2048..65535 -> <<224 + c \div 4096, Next6(64), Next6(1)>>
       [] c > 65535 -> <<240 + c \div 262144, Next6(4096), Next6(64), Next6(1)>>
InQuotesAlone(chars) ==
  Reply(word \o <<SPACE>> \o InString(FlattenSeq([i \in DOMAIN chars |-> Utf8(chars[i])])),
        Put(<<>>, word, Value(chars, <<>>)))

nothing == [text |-> <<>>, wire |-> InString(<<>>)]
First ==
  {Bare(v, u) : v \in Written(1), u \in Written(1)}
    \cup {Listed(v, nothing) : v \in Written(2)}
    \cup {Phased(nothing, v) : v \in Written(1)}
    \cup {InQuotesAlone(t) : t \in BoundedSeq(Characters, 2)}

Refused == [status |-> 552, lines |-> <<[Line(" ", ok) EXCEPT !.status = 552]>>, means |-> ok]
WithData ==
  [status |-> 250,
   lines |-> <<Line("+", one), Line(" ", two),
               [Line(" ", <<>>) EXCEPT !.short = TRUE, !.ends = TRUE], Line(" ", ok)>>,
   means |-> <<>>]
TooLong ==
  [status |-> 250, lines |-> [i \in 1..5 |-> Line(IF i < 5 THEN "-" ELSE " ", ok)],
   means |-> <<>>]
Plainly == [status |-> 250, lines |-> <<Line(" ", ok)>>, means |-> Put(<<>>, ok, Okay)]

MCAnswers ==
  <<First \cup {Refused}, {Plainly, Refused, WithData, TooLong}>>
MCEvents == {<<[Line(" ", ok) EXCEPT !.status = 650]>>,
             <<[Line("-", one) EXCEPT !.status = 650], [Line(" ", ok) EXCEPT !.status = 650]>>}
=============================================================================
