------------------------------ MODULE RAMCache ------------------------------
(***************************************************************************)
(* The cache in RAM (ramcache.cpp): a fixed number of entries, each with   *)
(* the time that is left until it expires.  The entries of get(n), count() *)
(* and each() are not used by the node.                                    *)
(***************************************************************************)
EXTENDS Card, FiniteSetsExt

CONSTANTS
  Capacity,   \* CACHE_CAPACITY
  TTL         \* CACHE_TTL, in ticks

VARIABLE entries   \* for each entry its card, and expires_at - now; -1 is expired

RamSlots == 1 .. Capacity

RamTypeOK == entries \in [RamSlots -> [card : CardSet, left : -1 .. TTL]]

\* The array as the program starts with it, and as begin() leaves it.
RamEmpty == [i \in RamSlots |-> [card |-> NullCard, left |-> -1]]

Live(i) == entries[i].left >= 0

RamHits(c) == {i \in RamSlots : Live(i) /\ CompareUid(entries[i].card, c)}

RamFound(c) == IF RamHits(c) = {} THEN NullCard ELSE entries[Min(RamHits(c))].card

Touched(i) == [entries EXCEPT ![i].left = TTL]

\* get(): an entry that is found lives on for the whole time again.
RamGet(c) == entries' = IF RamHits(c) = {} THEN entries ELSE Touched(Min(RamHits(c)))

\* The entries set() may overwrite: the expired ones, or else the oldest.
Expendable ==
  LET expired == {i \in RamSlots : ~Live(i)}
  IN  IF expired # {} THEN expired
      ELSE {i \in RamSlots : \A j \in RamSlots : entries[i].left <= entries[j].left}

\* A card that is already there is not changed, its rights neither; nor is the
\* card of four zero bytes stored, which get() seems to find where it is not.
RamSet(c) ==
  IF CompareUid(RamFound(c), c) THEN RamGet(c)
  ELSE entries' = [entries EXCEPT ![Min(Expendable)] = [card |-> c, left |-> TTL]]

RamPurge == entries' = [i \in RamSlots |-> [entries[i] EXCEPT !.left = -1]]

\* (mutant) A user is taken for a maintainer.
BugRamVerifyEntry(i, answer) ==
  entries' = [entries EXCEPT ![i] =
    [card |-> IF answer \in {1, 2} THEN SetMaintainer(@.card) ELSE @.card,
     left |-> IF answer = -1 THEN -1 ELSE TTL]]

\* One entry in verify(): rights are added, never taken away, and only the
\* answer -1 makes the entry expire.
RamVerifyEntry(i, answer) ==
  entries' = [entries EXCEPT ![i] =
    [card |-> CASE answer = 2 -> SetMaintainer(@.card)
                [] answer = 1 -> SetUser(@.card)
                [] OTHER -> @.card,
     left |-> IF answer = -1 THEN -1 ELSE TTL]]

RamTick == entries' = [i \in RamSlots |->
                         [entries[i] EXCEPT !.left = IF @ < 0 THEN @ ELSE @ - 1]]

=============================================================================
