------------------------------ MODULE CardFile ------------------------------
(***************************************************************************)
(* What the cache on the SD card promises about resets: a file of entries  *)
(* that lags behind the calls.  An entry on the card is the old one or the *)
(* one the call wrote, whole; a file gets longer by one entry at a time;   *)
(* it is emptied only when the cache has been purged; and after a reset    *)
(* the program goes on with what is on the card.                           *)
(***************************************************************************)
EXTENDS SDCache

VARIABLE file   \* the entries that a reset leaves

fileVars == <<sd, file>>

FileInit == sd = <<>> /\ file = <<>>

Call ==
  /\ UNCHANGED file
  /\ \/ \E c \in CardSet : SdSet(c)
     \/ SdPurge
     \/ \E i \in DOMAIN sd, answer \in -1 .. 2 : SdVerifyEntry(i, answer)

Rewrite ==
  /\ DOMAIN file \subseteq DOMAIN sd
  /\ DOMAIN file' = DOMAIN file
  /\ \A i \in DOMAIN file : file'[i] \in {file[i], sd[i]}
  /\ UNCHANGED sd

Grow == /\ Len(sd) > Len(file)
        /\ file' = Append(file, sd[Len(file) + 1])
        /\ UNCHANGED sd

Empty == sd = <<>> /\ file' = <<>> /\ UNCHANGED sd

\* A reset, or a call of which a write failed.
Restart == sd' = file /\ UNCHANGED file

\* Once a write has failed, what it left in memory reaches the card with a
\* later call: entries may be of any age, but they are whole.
Late == /\ \A i \in DOMAIN file' : file'[i] \in SdUser
        /\ UNCHANGED sd

FileNext == Rewrite \/ Grow \/ Empty \/ Restart \/ Call

FileSpec == FileInit /\ [][FileNext]_fileVars

=============================================================================
