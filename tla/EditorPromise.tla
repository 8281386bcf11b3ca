--------------------------- MODULE EditorPromise ---------------------------
(***************************************************************************)
(* What the command line promises its user (microrl.h): a line that is     *)
(* edited at a cursor, the lines entered before it, newest last, as many   *)
(* as fit, and on Enter the words of the line are executed.  Characters    *)
(* are numbers; 0 is the blank between two words.                          *)
(***************************************************************************)
EXTENDS Integers, Sequences, FiniteSets, SequencesExt

CONSTANTS
  Characters,    \* what a word is made of
  LineLen,       \* _COMMAND_LINE_LEN: one more than a line's characters
  RingLen,       \* _RING_HISTORY_LEN: the bytes of the history
  TokenNmb       \* _COMMAND_TOKEN_NMB: a line of fewer words is executed

VARIABLES
  text, cursor,  \* the line, and how many of its characters are before the cursor
  lines, browse, \* the history, and how far back in it the line is from
  cut,           \* the line was shortened and not ended there
  ran            \* the words of the command that the last key executed

editor == <<text, cursor, lines, browse, cut, ran>>

\* The words of a line, first to last.
Starts(s) == {p \in DOMAIN s : s[p] # 0 /\ (p = 1 \/ s[p - 1] = 0)}

Word(s, p) ==
  LET end == CHOOSE e \in p .. Len(s) :
               (\A i \in p .. e : s[i] # 0) /\ (e = Len(s) \/ s[e + 1] = 0)
  IN  SubSeq(s, p, end)

Words(s) ==
  LET nth(i) == CHOOSE p \in Starts(s) : Cardinality({q \in Starts(s) : q <= p}) = i
  IN  [i \in 1 .. Cardinality(Starts(s)) |-> Word(s, nth(i))]

\* A line takes its characters and one byte, the end of the history one.
Bytes(s) == 1 + Cardinality(UNION {{i} \X (0 .. Len(s[i])) : i \in DOMAIN s})

\* The history with one more line: the oldest ones make room for it.
Remember(s, l) ==
  IF l = <<>> \/ Len(l) > RingLen - 2 THEN s
  ELSE LET all == Append(s, l)
           from == CHOOSE i \in DOMAIN all :
                     /\ Bytes(SubSeq(all, i, Len(all))) <= RingLen
                     /\ i > 1 => Bytes(SubSeq(all, i - 1, Len(all))) > RingLen
       IN  SubSeq(all, from, Len(all))

Start == text = <<>> /\ cursor = 0 /\ lines = <<>> /\ browse = 0 /\ cut = FALSE /\ ran = <<>>

Typed == SubSeq(text', cursor + 1, cursor + Len(text') - Len(text))

Insert ==
  /\ Len(text') \in Len(text) .. LineLen - 1
  /\ \A i \in DOMAIN Typed : Typed[i] \in Characters \union {0}
  /\ text' = SubSeq(text, 1, cursor) \o Typed \o SubSeq(text, cursor + 1, Len(text))
  /\ cursor' = cursor + Len(Typed)
  /\ cut' = FALSE
  /\ ran' = <<>> /\ UNCHANGED <<lines, browse>>

\* Some of the characters before the cursor go.
Erase == \E n \in 1 .. cursor :
  /\ text' = SubSeq(text, 1, cursor - n) \o SubSeq(text, cursor + 1, Len(text))
  /\ cursor' = cursor - n
  /\ cut' \in {FALSE, cut}
  /\ ran' = <<>> /\ UNCHANGED <<lines, browse>>

Kill == /\ text' = SubSeq(text, 1, cursor)
        /\ cut' = IF cursor < Len(text) THEN text[cursor + 1] # 0 ELSE cut
        /\ ran' = <<>> /\ UNCHANGED <<cursor, lines, browse>>

Move == /\ cursor' \in 0 .. Len(text)
        /\ ran' = <<>> /\ UNCHANGED <<text, lines, browse, cut>>

Older == /\ browse < Len(lines)
         /\ text' = lines[Len(lines) - browse]
         /\ cursor' = Len(text')
         /\ browse' = browse + 1
         /\ cut' = FALSE
         /\ ran' = <<>> /\ UNCHANGED lines

Newer == /\ browse' = IF browse = 0 THEN 0 ELSE browse - 1
         /\ text' = IF browse' = 0 THEN <<>> ELSE lines[Len(lines) - browse' + 1]
         /\ cursor' = Len(text')
         /\ cut' \in BOOLEAN
         /\ ran' = <<>> /\ UNCHANGED lines

\* Of a line that was cut the last word may have a tail that nobody sees.
Runs(words, w) ==
  IF ~cut \/ words = <<>> \/ Last(text) = 0 THEN w = words
  ELSE /\ Len(w) = Len(words)
       /\ Front(w) = Front(words)
       /\ IsPrefix(Last(words), Last(w))

Enter == /\ IF Len(Words(text)) \in 1 .. TokenNmb - 1 THEN Runs(Words(text), ran') ELSE ran' = <<>>
         /\ text' = <<>> /\ cursor' = 0 /\ cut' = FALSE
         /\ lines' = Remember(lines, text) /\ browse' = 0

PowerUp == text' = <<>> /\ cursor' = 0 /\ lines' = <<>> /\ browse' = 0 /\ cut' = FALSE /\ ran' = <<>>

Edit == Insert \/ Erase \/ Kill \/ Move \/ Older \/ Newer \/ Enter \/ PowerUp

EditorSpec == Start /\ [][Edit]_editor

=============================================================================
