---------------------------- MODULE EEPromCache ----------------------------
(***************************************************************************)
(* The cache in the EEPROM (eepromcache.cpp): a list of slots that ends at *)
(* the first one marked `end'.  A reset may come between the two writes    *)
(* that add a card at the end of the list; one slot is written at once.    *)
(***************************************************************************)
EXTENDS Card, FiniteSetsExt

CONSTANT EeSize   \* the number of slots from USERBASE to the end of the EEPROM

VARIABLES
  ee,       \* the slots
  eeWrite   \* the second write of write_user() that is still to come

eeVars == <<ee, eeWrite>>

EeSlots == 1 .. EeSize

EeUser == [uid : Uids \union {ZeroUid}, status : BOOLEAN, maintainer : BOOLEAN,
           invalid : BOOLEAN, end : BOOLEAN]

\* An erased slot, all ones; its UID is never looked at.
EndMarker == [uid |-> ZeroUid, status |-> TRUE, maintainer |-> TRUE,
              invalid |-> TRUE, end |-> TRUE]

NoWrite == [at |-> 0, user |-> EndMarker]

EeTypeOK == ee \in [EeSlots -> EeUser] /\ eeWrite \in [at : 0 .. EeSize, user : EeUser]

EeErased == [a \in EeSlots |-> EndMarker]

\* The addresses of the list: those before the end marker.
EeListed == {a \in EeSlots : \A b \in 1 .. a : ~ee[b].end}

\* (mutant) The search ends at the first slot that is not valid.
BugEeHits(c) == {a \in EeListed : ee[a].uid = c.uid /\ \A b \in 1 .. a : ~ee[b].invalid}

\* find_user()
EeHits(c) == {a \in EeListed : ~ee[a].invalid /\ ee[a].uid = c.uid}

\* find_free(): a slot that is not valid, the end of the list, or the first.
EeFree == {a \in EeSlots : ee[a].invalid \/ ee[a].end}

FindFree == IF EeFree = {} THEN 1 ELSE Min(EeFree)

\* card_to_struct() and struct_to_card()
EeStruct(c) == [uid |-> c.uid, status |-> IsUser(c), maintainer |-> IsMaintainer(c),
                invalid |-> ~c.valid, end |-> FALSE]

EeCard(e) == [uid |-> e.uid, valid |-> ~e.invalid,
              status |-> e.status /\ ~e.invalid, maintainer |-> e.maintainer /\ ~e.invalid]

EeFound(c) == IF EeHits(c) = {} THEN NullCard ELSE EeCard(ee[Min(EeHits(c))])

\* (mutant) The card is written first and the end marker behind it second.
BugWriteUser(e, a) ==
  /\ ee' = [ee EXCEPT ![a] = e]
  /\ eeWrite' = IF ee[a].end /\ a < EeSize THEN [at |-> a + 1, user |-> ee[a]] ELSE NoWrite

\* write_user(): at the end of the list the marker is first copied behind
\* the slot, which fails in the last one.
WriteUser(e, a) ==
  \/ /\ ~ee[a].end
     /\ ee' = [ee EXCEPT ![a] = e]
     /\ eeWrite' = NoWrite
  \/ /\ ee[a].end
     /\ ee' = IF a < EeSize THEN [ee EXCEPT ![a + 1] = ee[a]] ELSE ee
     /\ eeWrite' = [at |-> a, user |-> e]

EeFinishWrite ==
  /\ eeWrite # NoWrite
  /\ ee' = [ee EXCEPT ![eeWrite.at] = eeWrite.user]
  /\ eeWrite' = NoWrite

EeSet(c) == WriteUser(EeStruct(c), IF EeHits(c) = {} THEN FindFree ELSE Min(EeHits(c)))

EePurge == WriteUser(EndMarker, 1)

\* One slot in verify(): only the answer 0 does anything.
EeVerifyEntry(a, answer) ==
  IF answer = 0 THEN WriteUser([ee[a] EXCEPT !.invalid = TRUE], a) ELSE UNCHANGED eeVars

=============================================================================
