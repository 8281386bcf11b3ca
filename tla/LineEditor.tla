----------------------------- MODULE LineEditor -----------------------------
(***************************************************************************)
(* The command line of the serial console (microrl.cpp, with mrlcomplete() *)
(* of cli.cpp): one key at a time.  A blank is kept as 0, so the words of  *)
(* the line are strings of C as they stand.  The terminal shows one row.   *)
(***************************************************************************)
EXTENDS History, FiniteSets, SequencesExt

CONSTANTS
  Letters,       \* the characters of a word
  LineLen,       \* _COMMAND_LINE_LEN
  TokenNmb,      \* _COMMAND_TOKEN_NMB
  PromptLen,     \* _PROMPT_LEN
  Keywords,      \* keyworld: all commands
  NumOfCmd,      \* _NUM_OF_CMD: as many of them are completed
  Subwords       \* the commands with subcommands that are completed, and these

ASSUME EditorAssumption ==
  /\ Letters \subseteq Nat \ {0}
  /\ LineLen \in Nat \ {0} /\ RingLen \in Nat \ {0, 1} /\ TokenNmb \in Nat /\ PromptLen \in Nat

VARIABLES
  line,          \* cmdline
  cmdlen, cursor,
  hist,
  escape, escapeSeq,
  screen,        \* the row of the terminal and its cursor
  prompted,      \* there has been a prompt
  ran            \* the words of the command that the last key executed

vars == <<line, cmdlen, cursor, hist, escape, escapeSeq, screen, prompted, ran>>

-----------------------------------------------------------------------------
\* The terminal.  A cell is 0 if it is blank, -1 if it belongs to something
\* else than a line: the prompt, or the complaint about too many words.

Columns == 0 .. PromptLen + LineLen

BlankRow == [c \in Columns |-> 0]

NewLine(t) == [row |-> BlankRow, col |-> 0]

PrintPrompt(t) == [row |-> [c \in Columns |-> IF c \in t.col .. t.col + PromptLen - 1 THEN -1 ELSE t.row[c]],
                   col |-> t.col + PromptLen]

MoveCursor(t, offset) == [t EXCEPT !.col = @ + offset]

ResetCursor(t) == [t EXCEPT !.col = PromptLen]

\* terminal_backspace(), n times: the first column blanks itself.
Backspaces(t, n) ==
  [row |-> [c \in Columns |-> IF c \in t.col - n .. t.col - 1 \/ (c = 0 /\ n > t.col) THEN 0 ELSE t.row[c]],
   col |-> IF n > t.col THEN 0 ELSE t.col - n]

ClearToEnd(t) == [t EXCEPT !.row = [c \in Columns |-> IF c >= t.col THEN 0 ELSE t.row[c]]]

\* terminal_print_line(): the line from pos on, and the cursor.
PrintLine(t, l, len, pos, cur) ==
  MoveCursor(ResetCursor([t EXCEPT !.row =
    [c \in Columns |-> IF c < t.col THEN t.row[c]
                       ELSE IF pos + c - t.col < len THEN l[pos + c - t.col] ELSE 0]]), cur)

-----------------------------------------------------------------------------
\* The words of a line up to a limit, as strings that end with a zero.

WordBegins(l, limit) == {p \in 0 .. limit - 1 : l[p] # 0 /\ (p = 0 \/ l[p - 1] = 0)}

CString(l, p) ==
  LET end == CHOOSE e \in p .. LineLen - 1 : l[e] = 0 /\ \A i \in p .. e - 1 : l[i] # 0
  IN  [i \in 1 .. end - p |-> l[p + i - 1]]

\* The nth of some places.
Nth(S, n) == CHOOSE p \in S : Cardinality({q \in S : q <= p}) = n

\* split(): as many words as the array has room for are one too many.
Split(l, limit) ==
  LET begin == WordBegins(l, limit)
      n == Cardinality(begin)
  IN  [status |-> IF n >= TokenNmb THEN -1 ELSE n,
       words  |-> [i \in 1 .. n |-> CString(l, Nth(begin, i))]]

\* (mutant) The line is not ended behind the text.
BugInsertText(l, len, cur, s) ==
  [i \in DOMAIN l |-> IF i < cur THEN l[i]
                      ELSE IF i < cur + Len(s) THEN s[i - cur + 1]
                      ELSE IF i < len + Len(s) THEN l[i - Len(s)] ELSE l[i]]

\* microrl_insert_text(), when there is room.
InsertText(l, len, cur, s) ==
  [i \in DOMAIN l |-> IF i < cur THEN l[i]
                      ELSE IF i < cur + Len(s) THEN s[i - cur + 1]
                      ELSE IF i < len + Len(s) THEN l[i - Len(s)]
                      ELSE IF i = len + Len(s) THEN 0 ELSE l[i]]

Fits(len, s) == len + Len(s) < LineLen

\* memmove() and the zero of microrl_backspace().
Removed(l, len, cur) ==
  [i \in DOMAIN l |-> IF i = len THEN 0 ELSE IF i \in cur - 1 .. len - 1 THEN l[i + 1] ELSE l[i]]

\* The same, until the cursor is at the beginning.
RemovedAll(l, len, cur) ==
  [i \in DOMAIN l |-> IF i <= len - cur THEN l[i + cur] ELSE IF i <= len THEN 0 ELSE l[i]]

-----------------------------------------------------------------------------
Init ==
  /\ line = [i \in 0 .. LineLen - 1 |-> 0]
  /\ cmdlen = 0 /\ cursor = 0
  /\ hist = NewHistory
  /\ escape = FALSE /\ escapeSeq = "none"
  /\ screen = [row |-> BlankRow, col |-> 0]
  /\ prompted = FALSE
  /\ ran = <<>>

Editing == ~escape /\ ran' = <<>> /\ UNCHANGED <<hist, escape, escapeSeq, prompted>>

\* A blank at the beginning of the line is ignored.
Type(ch) ==
  /\ Editing
  /\ ch = 0 => cmdlen # 0
  /\ Fits(cmdlen, <<ch>>)
  /\ line' = InsertText(line, cmdlen, cursor, <<ch>>)
  /\ cmdlen' = cmdlen + 1 /\ cursor' = cursor + 1
  /\ screen' = PrintLine(screen, line', cmdlen', cursor' - 1, cursor')

Rubout ==
  /\ Editing
  /\ IF cursor > 0
     THEN /\ line' = Removed(line, cmdlen, cursor)
          /\ cmdlen' = cmdlen - 1 /\ cursor' = cursor - 1
          /\ screen' = PrintLine(Backspaces(screen, 1), line', cmdlen', cursor', cursor')
     ELSE /\ screen' = PrintLine(screen, line, cmdlen, cursor, cursor)
          /\ UNCHANGED <<line, cmdlen, cursor>>

\* ^U: everything before the cursor goes.
EraseLine ==
  /\ Editing
  /\ line' = RemovedAll(line, cmdlen, cursor)
  /\ cmdlen' = cmdlen - cursor /\ cursor' = 0
  /\ screen' = PrintLine(Backspaces(screen, cursor), line', cmdlen', 0, 0)

\* (mutant) ^K leaves the rest of the line on the terminal.
BugKillLine ==
  /\ Editing
  /\ cmdlen' = cursor
  /\ UNCHANGED <<line, cursor, screen>>

\* ^K: everything behind the cursor goes, though not from the buffer.
KillLine ==
  /\ Editing
  /\ cmdlen' = cursor
  /\ screen' = ClearToEnd(screen)
  /\ UNCHANGED <<line, cursor>>

ToEnd   == cursor' = cmdlen /\ screen' = MoveCursor(screen, cmdlen - cursor)
ToBegin == cursor' = 0 /\ screen' = ResetCursor(screen)
Right   == IF cursor < cmdlen THEN cursor' = cursor + 1 /\ screen' = MoveCursor(screen, 1)
           ELSE UNCHANGED <<cursor, screen>>
Left    == IF cursor > 0 THEN cursor' = cursor - 1 /\ screen' = MoveCursor(screen, -1)
           ELSE UNCHANGED <<cursor, screen>>

MoveKey == Editing /\ (ToEnd \/ ToBegin \/ Right \/ Left) /\ UNCHANGED <<line, cmdlen>>

\* hist_search().
Search(r) ==
  /\ hist' = r.hist
  /\ IF r.len >= 0
     THEN /\ line' = r.line /\ cmdlen' = r.len /\ cursor' = r.len
          /\ screen' = PrintLine(ResetCursor(screen), r.line, r.len, 0, r.len)
     ELSE UNCHANGED <<line, cmdlen, cursor, screen>>

\* ^P and ^N.
HistoryKey ==
  /\ ~escape
  /\ Search(RestoreUp(hist, line)) \/ Search(RestoreDown(hist, line))
  /\ ran' = <<>>
  /\ UNCHANGED <<escape, escapeSeq, prompted>>

-----------------------------------------------------------------------------
\* Escape sequences.  The last state of a sequence outlives it.

Escape == /\ ~escape /\ escape' = TRUE /\ ran' = <<>>
          /\ UNCHANGED <<line, cmdlen, cursor, hist, escapeSeq, screen, prompted>>

Sequel(seq) == /\ escape /\ escapeSeq' = seq /\ ran' = <<>>
               /\ UNCHANGED <<line, cmdlen, cursor, hist, escape, screen, prompted>>

Ends == escape /\ escape' = FALSE /\ ran' = <<>> /\ UNCHANGED <<escapeSeq, prompted>>

Still == UNCHANGED <<line, cmdlen, cursor, hist, screen>>

EscapeProcess ==
  \/ Sequel("bracket")
  \/ escapeSeq = "bracket" /\ (Sequel("home") \/ Sequel("end"))
  \/ Ends /\ escapeSeq = "bracket" /\ (Search(RestoreUp(hist, line)) \/ Search(RestoreDown(hist, line)))
  \/ Ends /\ escapeSeq = "bracket" /\ (Right \/ Left) /\ UNCHANGED <<line, cmdlen, hist>>
  \/ Ends /\ escapeSeq = "home" /\ ToBegin /\ UNCHANGED <<line, cmdlen, hist>>
  \/ Ends /\ escapeSeq = "end" /\ ToEnd /\ UNCHANGED <<line, cmdlen, hist>>
  \/ Ends /\ Still

-----------------------------------------------------------------------------
\* Completion.

Offered == SubSeq(Keywords, 1, NumOfCmd)

\* mrlcomplete(): the words it offers for the ones before the cursor.
Completions(argc, words) ==
  LET begun(list) == {s \in ToSet(list) : IsPrefix(words[argc], s)}
  IN  IF argc = 1 THEN begun(Offered)
      ELSE IF argc > 1 /\ words[1] \in DOMAIN Subwords THEN begun(Subwords[words[1]])
      ELSE ToSet(Offered)

\* common_len(): as far as they are the same, of one word the whole.
CommonLen(arr) ==
  LET same(n) == (\A s \in arr : n <= Len(s)) /\ \A s, t \in arr : SubSeq(s, 1, n) = SubSeq(t, 1, n)
  IN  CHOOSE n \in 0 .. Len(CHOOSE s \in arr : TRUE) : same(n) /\ ~same(n + 1)

\* No word is twice in a list.  Behind too many words all commands are
\* offered: they have nothing in common.
ASSUME KeywordsAssumption ==
  /\ Keywords \in Seq(Seq(Nat \ {0})) /\ NumOfCmd \in 2 .. Len(Keywords)
  /\ \A w \in DOMAIN Subwords : Subwords[w] \in Seq(Seq(Nat \ {0})) /\ IsInjective(Subwords[w])
  /\ IsInjective(Keywords) /\ CommonLen(ToSet(Offered)) = 0

\* The word begun at the cursor is empty behind a blank.  On an empty line
\* the byte before the buffer is looked at, the last of a pointer, a zero.
Begun(s) == IF cursor = 0 \/ line[cursor - 1] = 0
            THEN [status |-> s.status + 1, words |-> Append(s.words, <<>>)] ELSE s

\* Behind a blank, and too many words: the array is written before its begin.
Overrun == Split(line, cursor).status = -1 /\ (cursor = 0 \/ line[cursor - 1] = 0)

\* What the completion inserts: the rest of the last word.
Missing(word, len, last) == SubSeq(word, Len(last) + 1, len)

\* ^I.
Complete ==
  LET s == Begun(Split(line, cursor))
      arr == Completions(s.status, s.words)
      single == \A v, w \in arr : v = w
      len == CommonLen(arr)
      rest == IF len > 0 THEN Missing(CHOOSE w \in arr : TRUE, len, s.words[s.status]) ELSE <<>>
      one == len > 0 /\ Fits(cmdlen, rest)
      two == len > 0 /\ single /\ Fits(IF one THEN cmdlen + Len(rest) ELSE cmdlen, <<0>>)
      added == (IF one THEN rest ELSE <<>>) \o (IF two THEN <<0>> ELSE <<>>)
      shown == IF single THEN screen ELSE PrintPrompt(NewLine(screen))
  IN  /\ Editing
      /\ ~Overrun
      /\ IF arr = {} THEN UNCHANGED <<line, cmdlen, cursor, screen>>
         ELSE /\ line' = IF one \/ two THEN InsertText(line, cmdlen, cursor, added) ELSE line
              /\ cmdlen' = cmdlen + Len(added)
              /\ cursor' = cursor + Len(added)
              /\ screen' = PrintLine(ResetCursor(shown), line', cmdlen', 0, cursor')

-----------------------------------------------------------------------------
Complains == Split(line, cmdlen).status = -1

\* The complaint ends with a return, not with a new line.
Complaint(t) == [row |-> [c \in Columns |-> -1], col |-> 0]

\* new_line_handler().
Enter ==
  LET s == Split(line, cmdlen)
      t == NewLine(screen)
  IN  /\ ~escape
      /\ hist' = [IF cmdlen > 0 THEN SaveLine(hist, line, cmdlen) ELSE hist EXCEPT !.cur = 0]
      /\ ran' = IF s.status > 0 THEN s.words ELSE <<>>
      /\ screen' = PrintPrompt(IF Complains THEN Complaint(t) ELSE t)
      /\ prompted' = TRUE
      /\ cmdlen' = 0 /\ cursor' = 0
      /\ line' = [i \in 0 .. LineLen - 1 |-> 0]
      /\ UNCHANGED <<escape, escapeSeq>>

\* A reset, for whatever reason; a completion that writes before its array
\* may end in one.
Reset ==
  /\ line' = [i \in 0 .. LineLen - 1 |-> 0]
  /\ cmdlen' = 0 /\ cursor' = 0
  /\ hist' = NewHistory
  /\ escape' = FALSE /\ escapeSeq' = "none"
  /\ screen' = [row |-> BlankRow, col |-> 0]
  /\ prompted' = FALSE
  /\ ran' = <<>>

Next ==
  \/ \E ch \in Letters \union {0} : Type(ch)
  \/ Rubout
  \/ EraseLine
  \/ KillLine
  \/ MoveKey
  \/ HistoryKey
  \/ Escape
  \/ EscapeProcess
  \/ Complete
  \/ Enter
  \/ Reset

Spec == Init /\ [][Next]_vars

-----------------------------------------------------------------------------
TextOf(l, len) == [i \in 1 .. len |-> l[i - 1]]

RecordText(h, p) == [k \in 1 .. h.buf[p] |-> h.buf[Wrap(p + k)]]

LinesIn(h) == LET r == Records(h) IN [i \in DOMAIN r |-> RecordText(h, r[i])]

RecordBytes(h, p) == {Wrap(p + k) : k \in 0 .. h.buf[p]}

\* The records of the ring, from the oldest, are whole lines that share no
\* byte, and the byte behind the last of them is the zero at `end': the
\* searches, which have no other bound, stop there, however often the ring
\* has gone round, and find the line they came to.
HistoryIsChain ==
  LET r == Records(hist)
  IN  /\ hist.buf[hist.end] = 0
      /\ hist.end = IF r = <<>> THEN hist.begin ELSE Behind(hist, Last(r))
      /\ \A i \in DOMAIN r :
           /\ hist.buf[r[i]] \in 1 .. RingLen - 2
           /\ hist.end \notin RecordBytes(hist, r[i])
           /\ \A j \in DOMAIN r : i # j => RecordBytes(hist, r[i]) \cap RecordBytes(hist, r[j]) = {}
      /\ hist.cur <= Len(r)

\* Every word that split() finds ends inside the buffer, and the terminal
\* shows the line and the cursor where the editor has them, whatever keys
\* came: deleted, killed, moved over, completed or from the history.
ScreenShowsLine ==
  /\ cursor \in 0 .. cmdlen /\ line[LineLen - 1] = 0
  /\ prompted =>
       /\ screen.col = PromptLen + cursor
       /\ \A i \in 0 .. cmdlen - 1 : screen.row[PromptLen + i] = line[i]
       /\ cmdlen > 0 => \A c \in Columns : c >= PromptLen + cmdlen => screen.row[c] = 0

\* What is typed or completed.
Characters ==
  Letters \union UNION {ToSet(w) : w \in ToSet(Keywords) \union UNION {ToSet(Subwords[c]) : c \in DOMAIN Subwords}}

Promise == INSTANCE EditorPromise WITH
  text   <- TextOf(line, cmdlen),
  lines  <- LinesIn(hist),
  browse <- hist.cur,
  cut    <- line[cmdlen] # 0

\* The editor with its ring, its buffer and its escape sequences does what
\* EditorPromise says: no key loses a character, a line of the history or a
\* word, but for the tail that ^K and ^N leave in the buffer.
KeepsEditorPromise == Promise!EditorSpec

=============================================================================
