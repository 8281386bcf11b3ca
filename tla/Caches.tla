------------------------------- MODULE Caches -------------------------------
(***************************************************************************)
(* The cache that setup() chooses (main.cpp), in the use the access        *)
(* control node makes of it: look-ups, the pass of verify(), the list of   *)
(* maintainers that is copied into the EEPROM behind a cache in RAM        *)
(* (cacheoverlay.cpp, maintainercachemaintainer.cpp), and the commands.    *)
(*                                                                         *)
(* The program has one thread: `job' is the pass it is in, and a pass is   *)
(* cut where it waits for the server or writes to the EEPROM.  Only a      *)
(* reset comes between the steps of a pass.  The kind of cache may change  *)
(* with a reset, as the settings and the SD card do.                       *)
(***************************************************************************)
EXTENDS RAMCache, EEPromCache, SDCache

CONSTANTS
  KindGroups    \* sets of kinds: a reset goes from a kind to one of its group

Kinds == {"RAM", "EEPROM", "SD", "OVERLAY"}

ASSUME CachesAssumption ==
  /\ Capacity \in Nat \ {0} /\ TTL \in Nat /\ EeSize \in Nat \ {0}
  /\ KindGroups \subseteq SUBSET Kinds

VARIABLES
  kind,     \* what `cache' points to
  job,      \* the pass the program is in: none, verify(), or doCheck()'s two
  at,       \* the entry a pass has come to
  list,     \* tempCache: the cards on the list of maintainers
  unseen,   \* those whose `valid' is still set
  granted   \* history: the highest permission the server gave each UID

stores == <<entries, eeVars, sd>>

check == <<list, unseen>>

vars == <<kind, job, at, check, stores, granted>>

Jobs == {"idle", "verify", "each", "add"}

Ready == eeWrite = NoWrite   \* write_user() has returned

Idle == Ready /\ job = "idle"

\* The cache in RAM, alone or under the EEPROM, which is then read-only.
InRam == kind \in {"RAM", "OVERLAY"}

(* The acserver: querycard() answers -1 for a card that it does not know   *)
(* or whose owner's membership is over, and for a request that is lost.    *)

Answered(u, answer) ==
  granted' = IF answer > granted[u] THEN [granted EXCEPT ![u] = answer] ELSE granted

NoRequest == granted' = granted

-----------------------------------------------------------------------------

(* Cache::get and Cache::set of the cache that was chosen.                 *)

FoundIn(k, c) ==
  CASE k = "RAM" -> RamFound(c)
    [] k = "EEPROM" -> EeFound(c)
    [] k = "SD" -> SdFound(c)
    [] k = "OVERLAY" -> IF EeFound(c).valid THEN EeFound(c) ELSE RamFound(c)

Found(c) == FoundIn(kind, c)

Hit(c) == CompareUid(Found(c), c)

CacheSet(c) ==
  \/ InRam /\ RamSet(c) /\ UNCHANGED <<eeVars, sd>>
  \/ kind = "EEPROM" /\ EeSet(c) /\ UNCHANGED <<entries, sd>>
  \/ kind = "SD" /\ SdSet(c) /\ UNCHANGED <<entries, eeVars>>

\* A look-up that finds the card; only the entry in RAM notices it.
CardHit(u) ==
  /\ Idle
  /\ Hit(PlainCard(u))
  /\ IF InRam /\ ~(kind = "OVERLAY" /\ EeFound(PlainCard(u)).valid)
     THEN RamGet(PlainCard(u)) ELSE UNCHANGED entries
  /\ NoRequest
  /\ UNCHANGED <<kind, job, at, check, eeVars, sd>>

\* card_has_access() for a card that is not found.  On the SD card that may
\* be a card that is there: see SDCache.
CardMiss(u, answer) ==
  /\ Idle
  /\ Hit(PlainCard(u)) => kind = "SD"
  /\ Answered(u, answer)
  /\ CASE answer = 2 -> CacheSet(SetUser(SetMaintainer(PlainCard(u))))
       [] answer = 1 -> CacheSet(SetUser(PlainCard(u)))
       [] OTHER -> UNCHANGED stores
  /\ UNCHANGED <<kind, job, at, check>>

FinishWrite ==
  /\ EeFinishWrite
  /\ NoRequest
  /\ UNCHANGED <<kind, job, at, check, entries, sd>>

-----------------------------------------------------------------------------

(* verify(), from loop() every half an hour or by the command of that name.*)

\* The entries of the pass that are still to come; a pass over the EEPROM
\* that has no end marker is taken to end with it.
Due ==
  CASE job = "verify" /\ InRam -> {i \in RamSlots : i >= at /\ Live(i)}
    [] job = "verify" /\ kind = "SD" -> {i \in DOMAIN sd : i >= at /\ ~sd[i].invalid}
    [] OTHER -> {a \in EeListed : a >= at /\ ~ee[a].invalid}

VerifyStart ==
  /\ Idle
  /\ job' = "verify"
  /\ at' = 1
  /\ NoRequest
  /\ UNCHANGED <<kind, check, stores>>

VerifyEntry(answer) ==
  /\ Ready
  /\ job = "verify"
  /\ Due # {}
  /\ LET i == Min(Due)
     IN  /\ at' = i + 1
         /\ \/ /\ InRam
               /\ RamVerifyEntry(i, answer)
               /\ Answered(entries[i].card.uid, answer)
               /\ UNCHANGED <<eeVars, sd>>
            \/ /\ kind = "EEPROM"
               /\ EeVerifyEntry(i, answer)
               /\ Answered(ee[i].uid, answer)
               /\ UNCHANGED <<entries, sd>>
            \/ /\ kind = "SD"
               /\ SdVerifyEntry(i, answer)
               /\ Answered(sd[i].uid, answer)
               /\ UNCHANGED <<entries, eeVars>>
  /\ UNCHANGED <<kind, job, check>>

VerifyEnd ==
  /\ Ready
  /\ job = "verify"
  /\ Due = {}
  /\ job' = "idle"
  /\ at' = 1
  /\ NoRequest
  /\ UNCHANGED <<kind, check, stores>>

-----------------------------------------------------------------------------

(* MaintainerCacheMaintainer::doCheck(): the server's list is compared     *)
(* with the EEPROM, card by card, and what is not seen there is added.     *)

ListMaintainers(maintainers) ==
  /\ Idle
  /\ kind = "OVERLAY"
  /\ list' = maintainers
  /\ unseen' = maintainers
  /\ granted' = [u \in Uids |-> IF u \in maintainers THEN 2 ELSE granted[u]]
  /\ job' = "each"
  /\ at' = 1
  /\ UNCHANGED <<kind, stores>>

\* (mutant) onCard() compares the UIDs only, so a user stays a user.
BugOnCard(e) ==
  IF e.uid \in unseen
  THEN unseen' = unseen \ {e.uid} /\ UNCHANGED eeVars
  ELSE EeSet([NullCard EXCEPT !.uid = e.uid]) /\ UNCHANGED unseen

\* onCard(): a card that is listed, with both its flags set, is one that is
\* seen; any other one is written back as an invalid one.
OnCard(e) ==
  IF e.uid \in unseen /\ e.status /\ e.maintainer
  THEN unseen' = unseen \ {e.uid} /\ UNCHANGED eeVars
  ELSE EeSet([NullCard EXCEPT !.uid = e.uid]) /\ UNCHANGED unseen

EachEntry ==
  /\ Ready
  /\ job = "each"
  /\ Due # {}
  /\ OnCard(ee[Min(Due)])
  /\ at' = Min(Due) + 1
  /\ NoRequest
  /\ UNCHANGED <<kind, job, list, entries, sd>>

EachEnd ==
  /\ Ready
  /\ job = "each"
  /\ Due = {}
  /\ job' = "add"
  /\ at' = 1
  /\ NoRequest
  /\ UNCHANGED <<kind, check, stores>>

\* The order of the list is any order.
AddMaintainer(u) ==
  /\ Ready
  /\ job = "add"
  /\ u \in unseen
  /\ unseen' = unseen \ {u}
  /\ EeSet(SetUser(SetMaintainer(PlainCard(u))))
  /\ NoRequest
  /\ UNCHANGED <<kind, job, at, list, entries, sd>>

AddEnd ==
  /\ Ready
  /\ job = "add"
  /\ unseen = {}
  /\ job' = "idle"
  /\ list' = {}
  /\ NoRequest
  /\ UNCHANGED <<kind, at, unseen, stores>>

-----------------------------------------------------------------------------

\* The command "nuke".
Purge ==
  /\ Idle
  /\ \/ InRam /\ RamPurge /\ UNCHANGED <<eeVars, sd>>
     \/ kind = "EEPROM" /\ EePurge /\ UNCHANGED <<entries, sd>>
     \/ kind = "SD" /\ SdPurge /\ UNCHANGED <<entries, eeVars>>
  /\ NoRequest
  /\ UNCHANGED <<kind, job, at, check>>

\* Within a pass the program goes by the time the pass began.
Tick ==
  /\ Idle
  /\ RamTick
  /\ NoRequest
  /\ UNCHANGED <<kind, job, at, check, eeVars, sd>>

Reset ==
  /\ \E G \in KindGroups : kind \in G /\ kind' \in G
  /\ entries' = RamEmpty
  /\ eeWrite' = NoWrite
  /\ job' = "idle"
  /\ at' = 1
  /\ list' = {} /\ unseen' = {}
  /\ NoRequest
  /\ UNCHANGED <<ee, sd>>

Init ==
  /\ kind \in UNION KindGroups
  /\ job = "idle"
  /\ at = 1
  /\ list = {} /\ unseen = {}
  /\ entries = RamEmpty
  /\ ee = EeErased /\ eeWrite = NoWrite
  /\ sd = <<>>
  /\ granted = [u \in Uids |-> 0]

Next ==
  \/ \E u \in Uids : CardHit(u) \/ AddMaintainer(u)
  \/ \E u \in Uids, answer \in -1 .. 2 : CardMiss(u, answer)
  \/ FinishWrite
  \/ VerifyStart \/ VerifyEnd \/ \E answer \in -1 .. 2 : VerifyEntry(answer)
  \/ \E maintainers \in SUBSET Uids : ListMaintainers(maintainers)
  \/ EachEntry \/ EachEnd \/ AddEnd
  \/ Purge \/ Tick \/ Reset

Spec == Init /\ [][Next]_vars

-----------------------------------------------------------------------------

(* What the card caches are to do.                                         *)

(***************************************************************************)
(* What Cache::get of each kind of cache would show of each card, were it  *)
(* the one in use, on the SD card at its luckiest.                         *)
(***************************************************************************)
Worth(c) == IF c.valid THEN Level(c) ELSE -1

Views == [k \in Kinds |-> [u \in Uids |-> Worth(FoundIn(k, PlainCard(u)))]]

(***************************************************************************)
(* No look-up shows a right that the server never gave, whichever cache    *)
(* was chosen, and whatever is left in it from other passes and settings.  *)
(***************************************************************************)
ShownRightsGranted == \A u \in Uids : Views[kind][u] <= granted[u]

(***************************************************************************)
(* Every kind of cache keeps the promise of CachePromise, while it is in   *)
(* use and while another one is: no sequence of look-ups, verify() passes, *)
(* maintainer lists, full stores, purges and resets, to the same cache or  *)
(* to another one, makes it show a right the server never gave, or another *)
(* card than the one it was to store.  The one exception is the SD card:   *)
(* get() reads the entries that are marked invalid too, so where set()     *)
(* uses one of them again an older one of the same card may come to light. *)
(***************************************************************************)
Promise == INSTANCE CachePromise
             WITH Cards <- Uids, Stores <- Kinds, Loose <- {"SD"}, shown <- Views

KeepsPromise == Promise!PromiseSpec

\* The entries of the SD card that set() and verify() look at.
SdValid(c) == {i \in SdMatches(c) : ~sd[i].invalid}

(***************************************************************************)
(* No card has two entries a look-up could find, whatever slots set()      *)
(* reused and wherever a reset cut write_user() in two: verify() and the   *)
(* list of maintainers would change one of them and get() show the other.  *)
(***************************************************************************)
OneEntryPerCard ==
  \A u \in Uids :
    /\ Cardinality(RamHits(PlainCard(u))) <= 1
    /\ Cardinality(EeHits(PlainCard(u))) <= 1
    /\ Cardinality(SdValid(PlainCard(u))) <= 1

(***************************************************************************)
(* What lies behind the end of the list in the EEPROM stays there: a card  *)
(* comes into the list only when it is the one being stored, even if a     *)
(* reset came between the two writes of an earlier write_user().           *)
(***************************************************************************)
EeUids == {u \in Uids : EeHits(PlainCard(u)) # {}}

NothingReappears ==
  [][\A u \in EeUids' \ EeUids :
       \/ eeWrite # NoWrite /\ u = eeWrite.user.uid
       \/ AddMaintainer(u)
       \/ \E answer \in 1 .. 2 : CardMiss(u, answer)]_vars

(***************************************************************************)
(* When doCheck() is done the EEPROM holds the maintainers of the server's *)
(* list and nobody else, whatever it held before, provided they fit in.    *)
(***************************************************************************)
MaintainersMirrored ==
  Ready /\ job = "add" /\ unseen = {} /\ Cardinality(list) <= EeSize =>
    EeUids = list /\ \A u \in list : IsMaintainer(EeFound(PlainCard(u)))

=============================================================================
