-------------------------------- MODULE Card --------------------------------
(***************************************************************************)
(* The value type Card (card.cpp, card.h): a UID with the rights that were *)
(* last attached to it.  A UID is an opaque value; the two lengths a UID   *)
(* can have are part of it, as compare_uid compares both.                  *)
(***************************************************************************)
EXTENDS Integers, TLC

CONSTANTS
  Uids,     \* the UIDs a card held to the reader can have
  ZeroUid   \* the UID of Card(): four zero bytes, which a card may have too

\* The permission the acserver attaches to a card: 0 none, 1 user, 2 maintainer.
Levels == 0 .. 2

CardSet == [uid : Uids \union {ZeroUid}, valid : BOOLEAN,
            status : BOOLEAN, maintainer : BOOLEAN]

\* Card(): what a failed read and a failed lookup return.
NullCard == [uid |-> ZeroUid, valid |-> FALSE, status |-> FALSE, maintainer |-> FALSE]

\* Card(uid, uidlen, 0, 0): a card as the reader sees it, without rights.
PlainCard(u) == [uid |-> u, valid |-> TRUE, status |-> FALSE, maintainer |-> FALSE]

\* The program only ever compares UIDs, so those but the zero one are alike.
CardSymmetry == Permutations(Uids)

CompareUid(c, d) == c.uid = d.uid

\* operator== compares every field, the rights included.
SameCard(c, d) == /\ CompareUid(c, d)
                  /\ c.maintainer = d.maintainer
                  /\ c.status = d.status
                  /\ c.valid = d.valid

IsUser(c) == c.valid /\ (c.status \/ c.maintainer)

IsMaintainer(c) == c.valid /\ c.maintainer

SetMaintainer(c) == [c EXCEPT !.maintainer = TRUE, !.valid = TRUE]

SetUser(c) == [c EXCEPT !.status = TRUE, !.valid = TRUE]

\* The permission that the flags of a card stand for.
Level(c) == IF IsMaintainer(c) THEN 2 ELSE IF IsUser(c) THEN 1 ELSE 0

=============================================================================
