------------------------------ MODULE History ------------------------------
(***************************************************************************)
(* The history of the command line (microrl.cpp): records of a length and  *)
(* that many characters, one behind the other in a ring of bytes, ended by *)
(* a length of zero.                                                       *)
(***************************************************************************)
EXTENDS Integers, Sequences

CONSTANT RingLen

NewHistory == [buf |-> [p \in 0 .. RingLen - 1 |-> 0], begin |-> 0, end |-> 0, cur |-> 0]

Wrap(p) == IF p >= RingLen THEN p - RingLen ELSE p

Behind(h, p) == Wrap(p + h.buf[p] + 1)

\* The walk through the records, the oldest first.
Walk(h) == LET at[n \in 0 .. RingLen] == IF n = 0 THEN h.begin ELSE Behind(h, at[n - 1]) IN at

\* It ends at a length of zero.
Count(h) == LET at == Walk(h)
            IN  CHOOSE n \in 0 .. RingLen : h.buf[at[n]] = 0 /\ \A m \in 0 .. n - 1 : h.buf[at[m]] # 0

\* Where the records begin.
Records(h) == LET at == Walk(h) IN [i \in 1 .. Count(h) |-> at[i - 1]]

\* hist_erase_older(), n times.
EraseOlder(h, n) == [h EXCEPT !.begin = Walk(h)[n]]

IsSpaceForNew(h, len) ==
  \/ h.buf[h.begin] = 0
  \/ h.end >= h.begin /\ RingLen - h.end + h.begin - 1 > len
  \/ h.end < h.begin /\ h.begin - h.end - 1 > len

\* As many as have to go.
MakeSpace(h, len) ==
  EraseOlder(h, CHOOSE n \in 0 .. Count(h) : /\ IsSpaceForNew(EraseOlder(h, n), len)
                                            /\ \A m \in 0 .. n - 1 : ~IsSpaceForNew(EraseOlder(h, m), len))

\* (mutant) The record is written and the zero behind it is not.
BugSaveLine(h, line, len) ==
  IF len > RingLen - 2 THEN h
  ELSE LET s == MakeSpace(h, len)
           at(p) == Wrap(p + RingLen - s.end - 1)
       IN  [s EXCEPT !.buf = [p \in DOMAIN s.buf |-> IF p = s.end THEN len
                                                      ELSE IF at(p) < len THEN line[at(p)] ELSE s.buf[p]],
                     !.end = Wrap(s.end + len + 1), !.cur = 0]

SaveLine(h, line, len) ==
  IF len > RingLen - 2 THEN h
  ELSE LET s == MakeSpace(h, len)
           at(p) == Wrap(p + RingLen - s.end - 1)   \* of the copy, the place of byte p
           copied == [p \in DOMAIN s.buf |-> IF at(p) < len THEN line[at(p)] ELSE s.buf[p]]
           end == Wrap(s.end + len + 1)
       IN  [s EXCEPT !.buf = [copied EXCEPT ![s.end] = len, ![end] = 0],
                     !.end = end, !.cur = 0]

\* The characters of the record at p, into a line.
Copied(h, p, line) ==
  [i \in DOMAIN line |-> IF i < h.buf[p] THEN h.buf[Wrap(p + 1 + i)] ELSE line[i]]

Answer(h, line, len) == [hist |-> h, line |-> line, len |-> len]

\* Towards older lines.  The line is cleared first; -1 when there is none.
RestoreUp(h, line) ==
  LET r == Records(h)
      clear == [i \in DOMAIN line |-> 0]
  IN  IF h.cur >= Len(r) THEN Answer(h, line, -1)
      ELSE LET p == r[Len(r) - h.cur]
           IN  Answer([h EXCEPT !.cur = @ + 1], Copied(h, p, clear), h.buf[p])

\* Towards newer lines, the last of which is the empty one.  What was in the
\* line behind the copy stays there.
RestoreDown(h, line) ==
  LET r == Records(h)
      g == [h EXCEPT !.cur = @ - 1]
  IN  IF h.cur = 0 THEN Answer(h, line, 0)
      ELSE IF g.cur = 0 THEN Answer(g, line, 0)
      ELSE LET p == r[Len(r) - g.cur + 1] IN Answer(g, Copied(h, p, line), h.buf[p])

=============================================================================
