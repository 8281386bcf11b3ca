-------------------------------- MODULE Json --------------------------------
(***************************************************************************)
(* aJson (aJSON.cpp, stringbuffer.c): what is read from a connection and   *)
(* what is made of it.  A text is a sequence of characters; of these the   *)
(* letters that the parser does not tell apart may stand for longer names. *)
(* A stream that is read is the text, where it is in it, the character     *)
(* that was put back, and whether it was read past its end: a connection   *)
(* that is still there would have been waited for then.                    *)
(* Strings are shorter than their buffer and numbers than a word.          *)
(***************************************************************************)
EXTENDS JsonItem

EOF == "EOF"
Quote == "\""
Backslash == "\\"

\* A character that EOF becomes when it is put back.
Byte255 == "\\377"

\* Those of 32 and below, and those of them that end a string.
Control == {"\\b", "\\f", "\\n", "\\r", "\\t"}
Blank == Control \cup {" "}

Numerals == <<"0", "1", "2", "3", "4", "5", "6", "7", "8", "9">>
Digit == ToSet(Numerals)
ValueOf(c) == (CHOOSE i \in 1 .. 10 : Numerals[i] = c) - 1

\* What a character stands for behind a backslash; others are skipped.
Unescape(c) ==
  CASE c \in {Backslash, Quote, "/"}    -> <<c>>
    [] c \in {"b", "f", "n", "r", "t"} -> <<Backslash \o c>>
    [] OTHER                           -> <<>>

-----------------------------------------------------------------------------
(* Streams *)

Stream(text) == [text |-> text, at |-> 1, bucket |-> EOF, starved |-> FALSE]

\* getch(): the character and the stream behind it.
Getch(s) ==
  IF s.bucket # EOF THEN [c |-> s.bucket, s |-> [s EXCEPT !.bucket = EOF]]
  ELSE IF s.at <= Len(s.text) THEN [c |-> s.text[s.at], s |-> [s EXCEPT !.at = @ + 1]]
  ELSE [c |-> EOF, s |-> [s EXCEPT !.starved = TRUE]]

Ungetch(g) == [g.s EXCEPT !.bucket = IF g.c = EOF THEN Byte255 ELSE g.c]

RECURSIVE ReadBytes(_, _)
ReadBytes(s, n) ==
  LET g == Getch(s)
  IN  IF n = 0 \/ g.c = EOF THEN [bytes |-> <<>>, s |-> IF n = 0 THEN s ELSE g.s]
      ELSE LET r == ReadBytes(g.s, n - 1) IN [r EXCEPT !.bytes = <<g.c>> \o @]

RECURSIVE Skip(_)
Skip(s) ==
  LET g == Getch(s)
  IN  IF g.c = EOF THEN g.s ELSE IF g.c \in Blank THEN Skip(g.s) ELSE Ungetch(g)

Peek(s) == Getch(s).c

Parsed(item, s) == [ok |-> TRUE, item |-> item, s |-> s]
Malformed(s) == [ok |-> FALSE, item |-> NewItem, s |-> s]

-----------------------------------------------------------------------------
(* The parser *)

\* The digits from g on: their number and what is behind them.
RECURSIVE Digits(_, _)
Digits(g, n) == IF g.c \in Digit THEN Digits(Getch(g.s), 10 * n + ValueOf(g.c)) ELSE [n |-> n, g |-> g]

\* The part behind a point; the character behind it is taken for a digit.
Fraction(g) == IF g.c = "." THEN Digits(Getch(Getch(g.s).s), 0).g ELSE g

Exponent(g) ==
  IF g.c \notin {"e", "E"} THEN g
  ELSE LET h == Getch(g.s) IN Digits(IF h.c \in {"+", "-"} THEN Getch(h.s) ELSE h, 0).g

ParseNumber(s) ==
  LET g == Getch(s)
      h == IF g.c = "-" THEN Getch(g.s) ELSE g
      d == Digits(h, 0)
  IN  IF h.c = EOF THEN Malformed(h.s)
      ELSE IF d.g.c \in {".", "e", "E"} THEN Parsed(Typed("Float"), Ungetch(Exponent(Fraction(d.g))))
      ELSE Parsed(IntItem(IF g.c = "-" THEN -d.n ELSE d.n), Ungetch(d.g))

\* The rest of a string from g on, behind what there is of it already.
RECURSIVE Characters(_, _)
Characters(g, string) ==
  LET e == Getch(g.s)
  IN  IF g.c = EOF THEN Malformed(g.s)
      ELSE IF g.c = Quote \/ g.c \in Control THEN Parsed(StringItem(string), g.s)
      ELSE IF g.c # Backslash THEN Characters(e, Append(string, g.c))
      ELSE IF e.c = EOF THEN Malformed(e.s)
      ELSE Characters(Getch(e.s), string \o Unescape(e.c))

ParseString(s) ==
  LET g == Getch(s) IN IF g.c # Quote THEN Malformed(g.s) ELSE Characters(Getch(g.s), <<>>)

ParseWord(s, word, type) ==
  LET r == ReadBytes(s, Len(word))
  IN  IF r.bytes = word THEN Parsed(Typed(type), r.s) ELSE Malformed(r.s)

RECURSIVE Elements(_, _), Members(_, _), ParseArray(_), ParseObject(_), ParseValue(_)

\* (mutant) A text that ends behind an element is an array.
BugElements(s, items) ==
  LET v == ParseValue(Skip(s))
      g == Getch(Skip(v.s))
      all == Append(items, v.item)
  IN  IF ~v.ok THEN v ELSE IF g.c = "," THEN Elements(g.s, all) ELSE Parsed(ArrayItem(all), g.s)

Elements(s, items) ==
  LET v == ParseValue(Skip(s))
      g == Getch(Skip(v.s))
      all == Append(items, v.item)
  IN  IF ~v.ok THEN v
      ELSE CASE g.c = "," -> Elements(g.s, all)
             [] g.c = "]" -> Parsed(ArrayItem(all), g.s)
             [] OTHER     -> Malformed(g.s)

ParseArray(s) ==
  LET g == Getch(Skip(Getch(s).s))
  IN  IF g.c = "]" THEN Parsed(ArrayItem(<<>>), g.s) ELSE Elements(Ungetch(g), <<>>)

Members(s, items) ==
  LET n == ParseString(Skip(s))
      colon == Getch(Skip(n.s))
      v == ParseValue(Skip(colon.s))
      g == Getch(Skip(v.s))
      all == Append(items, Named(n.item.valuestring, v.item))
  IN  IF ~n.ok THEN n
      ELSE IF colon.c # ":" THEN Malformed(colon.s)
      ELSE IF ~v.ok THEN v
      ELSE CASE g.c = "," -> Members(g.s, all)
             [] g.c = "}" -> Parsed(ObjectItem(all), g.s)
             [] OTHER     -> Malformed(g.s)

ParseObject(s) ==
  LET g == Getch(Skip(Getch(s).s))
  IN  IF g.c = "}" THEN Parsed(ObjectItem(<<>>), g.s) ELSE Members(Ungetch(g), <<>>)

ParseValue(from) ==
  LET s == Skip(from)
      c == Peek(s)
  IN  CASE c = Quote                 -> ParseString(s)
        [] c \in Digit \cup {"-"}    -> ParseNumber(s)
        [] c = "["                   -> ParseArray(s)
        [] c = "{"                   -> ParseObject(s)
        [] c = "n"                   -> ParseWord(s, <<"n", "u", "l", "l">>, "NULL")
        [] c = "f"                   -> ParseWord(s, <<"f", "a", "l", "s", "e">>, "False")
        [] c = "t"                   -> ParseWord(s, <<"t", "r", "u", "e">>, "True")
        [] OTHER                     -> Malformed(Getch(s).s)

Parse(text) == ParseValue(Skip(Stream(text)))

-----------------------------------------------------------------------------
(* How the server writes items *)

RECURSIVE Numeral(_), Say(_), SayAll(_)

Numeral(n) == IF n < 10 THEN <<Numerals[n + 1]>> ELSE Numeral(n \div 10) \o <<Numerals[(n % 10) + 1]>>

InQuotes(string) ==
  <<Quote>> \o FlattenSeq([i \in DOMAIN string |->
    IF string[i] \in {Quote, Backslash} THEN <<Backslash, string[i]>>
    ELSE IF string[i] \in Control THEN <<Backslash, SubSeq(string[i], 2, 2)>>
    ELSE <<string[i]>>]) \o <<Quote>>

\* The items of an array or an object, with their names and what is between.
SayAll(items) ==
  FlattenSeq([i \in DOMAIN items |->
    (IF i = 1 THEN <<>> ELSE <<",", " ">>)
      \o (IF items[i].name = NoName THEN <<>> ELSE InQuotes(items[i].name) \o <<":", " ">>)
      \o Say(items[i])])

Say(item) ==
  CASE item.type = "String" -> InQuotes(item.valuestring)
    [] item.type = "Array"  -> <<"[">> \o SayAll(item.child) \o <<"]">>
    [] item.type = "Object" -> <<"{">> \o SayAll(item.child) \o <<"}">>
    [] item.type = "Float"  -> item.valuestring
    [] item.type = "NULL"   -> <<"n", "u", "l", "l">>
    [] item.type = "True"   -> <<"t", "r", "u", "e">>
    [] item.type = "False"  -> <<"f", "a", "l", "s", "e">>
    [] item.type = "Int"    ->
         IF item.valueint < 0 THEN <<"-">> \o Numeral(-item.valueint) ELSE Numeral(item.valueint)

=============================================================================
