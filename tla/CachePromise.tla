---------------------------- MODULE CachePromise ----------------------------
(***************************************************************************)
(* What every card cache promises to its callers: of each card it shows    *)
(* nothing, or a permission the acserver once gave; at any time it may     *)
(* show less of any card; but it shows more, or a card again that it had   *)
(* forgotten, only of the card that is being stored.  Where a store is     *)
(* loose, the entry that makes room for that card may have hidden an older *)
(* one of the card it was for.                                             *)
(***************************************************************************)
EXTENDS Integers

CONSTANTS
  Cards,
  Stores,   \* the kinds of cache there are
  Loose     \* those of them that are loose

VARIABLES
  shown,     \* what Cache::get of each kind would show of each card, or Absent
  granted    \* the highest permission the server ever gave to each card

promiseVars == <<shown, granted>>

Absent == -1

Shows == [Stores -> [Cards -> {Absent} \union 0 .. 2]]

Given == /\ shown \in Shows
         /\ granted \in [Cards -> 0 .. 2]
         /\ \A k \in Stores, c \in Cards : shown[k][c] <= granted[c]

\* The cards of which some of the stores K show more than before.
Gains(K) == {c \in Cards : \E k \in K : shown'[k][c] > shown[k][c]}

Forget == Gains(Stores) = {}

\* The card c is stored, in the place of an entry of e.
Store(c, e) == Gains(Stores) \subseteq {c, e} /\ Gains(Stores \ Loose) \subseteq {c}

\* An answer of the server may grant more than before.
PromiseNext ==
  /\ Given'
  /\ \A c \in Cards : granted'[c] >= granted[c]
  /\ Forget \/ \E c, e \in Cards : Store(c, e)

PromiseSpec == Given /\ [][PromiseNext]_promiseVars

=============================================================================
