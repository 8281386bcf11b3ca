------------------------------ MODULE SDCache ------------------------------
(***************************************************************************)
(* The cache on the SD card (sdcache.cpp): a file of entries.  get() looks *)
(* for an entry of the length tu.uidlen, which it never sets: whether that *)
(* is the length of the card is left to chance.  A write is there at once; *)
(* what a reset does to a file that is open is left out.                   *)
(***************************************************************************)
EXTENDS Card, FiniteSetsExt, Sequences

VARIABLE sd   \* the file

SdUser == [uid : Uids, status : BOOLEAN, maintainer : BOOLEAN, invalid : BOOLEAN]

SdTypeOK ==
  /\ DOMAIN sd = 1 .. Len(sd)
  /\ Len(sd) <= Cardinality(Uids)
  /\ \A i \in DOMAIN sd : sd[i] \in SdUser

\* The entries get() takes for the card's: it does not look at `invalid'.
SdMatches(c) == {i \in DOMAIN sd : sd[i].uid = c.uid}

SdCard(e) == [uid |-> e.uid, valid |-> TRUE, status |-> e.status, maintainer |-> e.maintainer]

\* What get() finds if tu.uidlen happens to be the length of the card.
SdFound(c) == IF SdMatches(c) = {} THEN NullCard ELSE SdCard(sd[Min(SdMatches(c))])

SdStruct(c) == [uid |-> c.uid, status |-> IsUser(c), maintainer |-> IsMaintainer(c),
                invalid |-> FALSE]

\* set(): the card's valid entry is updated; without one the first invalid
\* entry is overwritten, or the file grows.
SdSet(c) ==
  LET own   == {i \in SdMatches(c) : ~sd[i].invalid}
      spare == {i \in DOMAIN sd : sd[i].invalid}
  IN  sd' = IF own # {} THEN [sd EXCEPT ![Min(own)] = SdStruct(c)]
            ELSE IF spare # {} THEN [sd EXCEPT ![Min(spare)] = SdStruct(c)]
            ELSE Append(sd, SdStruct(c))

SdPurge == sd' = <<>>

\* (mutant) A user is taken for a maintainer.
BugSdVerifyEntry(i, answer) ==
  sd' = CASE answer = 0 -> [sd EXCEPT ![i].invalid = TRUE]
          [] answer \in {1, 2} -> [sd EXCEPT ![i].maintainer = TRUE]
          [] OTHER -> sd

\* One entry in verify().
SdVerifyEntry(i, answer) ==
  sd' = CASE answer = 0 -> [sd EXCEPT ![i].invalid = TRUE]
          [] answer \in {1, 2} -> [sd EXCEPT ![i].maintainer = (answer = 2)]
          [] OTHER -> sd

=============================================================================
