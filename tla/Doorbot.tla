------------------------------- MODULE Doorbot -------------------------------
(***************************************************************************)
(* The two door roles: Doorbot (doorbot.cpp), that opens for any card the  *)
(* acserver knows, and DoorbotWithAccessControl (doorbot_ac.cpp), that     *)
(* opens for those it gives access.  They run the same passes, cut here at *)
(* every wait for the reader, the server or a delay.  Between them and the *)
(* door is its relay (door.cpp).                                           *)
(***************************************************************************)
EXTENDS Card

CONSTANTS
  HoldTime,      \* acsettings.door_keep_open_ms, in ticks
  Roles,         \* of 1, Doorbot, and 2, with access control
  BellMemory,    \* three minutes, in ticks: how long a bell can be answered
  BellSilence,   \* two seconds: no bell after a card was announced
  Debounce,      \* five seconds: no announcement of the same card
  Persistent     \* the cache is still there after a reset

ASSUME DoorbotAssumption ==
  /\ Roles \subseteq {1, 2}
  /\ HoldTime \in Nat /\ BellMemory \in Nat /\ BellSilence \in Nat /\ Debounce \in Nat
  /\ BellSilence <= Debounce
  /\ Persistent \in BOOLEAN

VARIABLES
  doorPin,           \* the pin is at the level that opens the door
  opened,            \* openedAt > 0; millis() is not zero when open() runs
  openAge,           \* millis() - openedAt while it is
  role, announcer,   \* the settings a boot begins with
  pc,                \* where the program is; "fault" is for good
  card,              \* the card of handleCardPresent()
  lastScanned,
  scannedAge,        \* millis() - lastScannedTime
  bellAge,           \* millis() - lastDoorbellTime
  cached,            \* the cards that Cache::get finds
  known,             \* history: the highest answer of the server for each UID
  rung,              \* history: there was a bell that nobody has answered yet
  grantAge           \* history: the time since the door was last opened

doorVars == <<doorPin, opened, openAge>>

scan == <<card, lastScanned, scannedAge>>

bell == <<bellAge, rung>>

cards == <<cached, known>>

settings == <<role, announcer>>

vars == <<settings, pc, doorVars, scan, bell, cards, grantAge>>

-----------------------------------------------------------------------------
\* The door.

DoorTypeOK == doorPin \in BOOLEAN /\ opened \in BOOLEAN /\ openAge \in 0 .. HoldTime + 1

DoorInit == doorPin = FALSE /\ opened = FALSE /\ openAge = HoldTime + 1

DoorBoot == doorPin' = FALSE /\ opened' = FALSE /\ openAge' = HoldTime + 1

\* (mutant) An open door does not start its time again.
BugOpenDoor ==
  doorPin' = TRUE /\ opened' = TRUE /\ openAge' = IF opened THEN openAge ELSE 0

OpenDoor == doorPin' = TRUE /\ opened' = TRUE /\ openAge' = 0

CloseDoor == doorPin' = FALSE /\ opened' = FALSE /\ openAge' = HoldTime + 1

\* (mutant) It is closed at the one pass at which its time is over.
BugMaybeClose == IF openAge = HoldTime THEN CloseDoor ELSE UNCHANGED doorVars

\* maybeClose(), which also closes a door that is closed.
MaybeClose == IF openAge > HoldTime THEN CloseDoor ELSE UNCHANGED doorVars

DoorTick ==
  /\ openAge' = IF openAge > HoldTime THEN openAge ELSE openAge + 1
  /\ UNCHANGED <<doorPin, opened>>

-----------------------------------------------------------------------------

Answers == -1 .. 2   \* of querycard(): -1 is unknown, and no answer

NoLink == -127

Locations == {"close", "read", "lookup", "announce", "bell", "release", "fault"}

DoorbotTypeOK ==
  /\ DoorTypeOK
  /\ role \in Roles /\ announcer \in BOOLEAN
  /\ pc \in Locations
  /\ card \in CardSet /\ lastScanned \in CardSet
  /\ scannedAge \in 0 .. Debounce + 1
  /\ bellAge \in 0 .. BellMemory
  /\ cached \subseteq Uids
  /\ known \in [Uids -> Answers]
  /\ rung \in BOOLEAN
  /\ grantAge \in 0 .. HoldTime + 1

\* The answers that open the door, and with which the card is cached.
Opens(status) == IF role = 1 THEN status >= 0 ELSE status > 0

Boot ==
  /\ DoorBoot
  /\ pc' = "close"
  /\ card' = NullCard /\ lastScanned' = NullCard
  /\ scannedAge' \in 0 .. Debounce + 1   \* lastScannedTime has no initial value
  /\ bellAge' = BellMemory
  /\ rung' = FALSE
  /\ grantAge' = HoldTime + 1

Init ==
  /\ role \in Roles /\ announcer \in BOOLEAN
  /\ DoorInit
  /\ pc = "close"
  /\ card = NullCard /\ lastScanned = NullCard
  /\ scannedAge \in 0 .. Debounce + 1
  /\ bellAge = BellMemory
  /\ cached = {}
  /\ known = [u \in Uids |-> -1]
  /\ rung = FALSE
  /\ grantAge = HoldTime + 1

-----------------------------------------------------------------------------

\* The door, and whether it is time for a read: every_card is never begun, so
\* its first period may be any.
StartPass ==
  /\ pc = "close"
  /\ MaybeClose
  /\ pc' \in {"read", "bell"}
  /\ UNCHANGED <<settings, scan, bell, cards, grantAge>>

ReadNothing ==
  /\ pc = "read"
  /\ pc' = "bell"
  /\ UNCHANGED <<settings, doorVars, scan, bell, cards, grantAge>>

ReadCard(u) ==
  /\ pc = "read"
  /\ card' = PlainCard(u)
  /\ pc' = "lookup"
  /\ UNCHANGED <<settings, doorVars, lastScanned, scannedAge, bell, cards, grantAge>>

GrantAccess == OpenDoor /\ grantAge' = 0

WithRights(c, status) ==
  CASE status = 2 -> SetUser(SetMaintainer(c))
    [] status = 1 -> SetUser(c)
    [] OTHER -> c

\* (mutant) The access control is that of the regular role.
BugHandleCard(status) ==
  IF status >= 0
  THEN cached' = cached \union {card.uid} /\ GrantAccess
  ELSE UNCHANGED <<cached, doorVars, grantAge>>

\* The card is cached with the rights in its flags, which for a card that was
\* found in the cache are none.
HandleCard(status) ==
  IF Opens(status)
  THEN cached' = cached \union {card.uid} /\ GrantAccess
  ELSE UNCHANGED <<cached, doorVars, grantAge>>

\* handleCardPresent() for a card in the cache, whatever its flags.
UseCached ==
  /\ pc = "lookup"
  /\ card.uid \in cached
  /\ HandleCard(1)
  /\ pc' = "announce"
  /\ UNCHANGED <<settings, scan, bell, known>>

AskServer(answer) ==
  /\ pc = "lookup"
  /\ card.uid \notin cached
  /\ known' = IF answer > known[card.uid] THEN [known EXCEPT ![card.uid] = answer] ELSE known
  /\ card' = WithRights(card, answer)
  /\ HandleCard(answer)
  /\ pc' = "announce"
  /\ UNCHANGED <<settings, lastScanned, scannedAge, bell>>

NoLinkToAsk ==
  /\ pc = "lookup"
  /\ card.uid \notin cached
  /\ HandleCard(NoLink)
  /\ pc' = "announce"
  /\ UNCHANGED <<settings, scan, bell, known>>

\* announceCard(), and the delays of denyAccess() and networkingError().
Announce ==
  /\ pc = "announce"
  /\ IF ~SameCard(lastScanned, card) \/ scannedAge > Debounce
     THEN lastScanned' = card /\ scannedAge' = 0
     ELSE UNCHANGED <<lastScanned, scannedAge>>
  /\ pc' = "bell"
  /\ UNCHANGED <<settings, doorVars, card, bell, cards, grantAge>>

-----------------------------------------------------------------------------

\* A call through the announcer, which may be null.
Calls(next) == pc' = IF announcer THEN next ELSE "fault"

NoBell ==
  /\ pc = "bell"
  /\ pc' = "release"
  /\ UNCHANGED <<settings, doorVars, scan, bell, cards, grantAge>>

\* The doorbell: silent for a while after a card, else announced.
Bell ==
  /\ pc = "bell"
  /\ IF scannedAge > BellSilence
     THEN bellAge' = 0 /\ rung' = TRUE /\ Calls("release")
     ELSE UNCHANGED bell /\ pc' = "release"
  /\ UNCHANGED <<settings, doorVars, scan, cards, grantAge>>

\* With access control the pass ends with announcer->run().
NoRelease ==
  /\ pc = "release"
  /\ IF role = 2 THEN Calls("close") ELSE pc' = "close"
  /\ UNCHANGED <<settings, doorVars, scan, bell, cards, grantAge>>

\* (mutant) A bell is not forgotten when it has been answered.
BugRelease ==
  /\ pc = "release"
  /\ GrantAccess
  /\ Calls("close")
  /\ rung' = FALSE
  /\ UNCHANGED <<settings, scan, bellAge, cards>>

\* The release button: the door opens, and then EXIT says whether that
\* answers a bell.
Release ==
  /\ pc = "release"
  /\ GrantAccess
  /\ Calls("close")
  /\ IF bellAge < BellMemory
     THEN bellAge' = BellMemory /\ rung' = FALSE
     ELSE UNCHANGED bell
  /\ UNCHANGED <<settings, scan, cards>>

-----------------------------------------------------------------------------

\* loop() between two passes: verify(), the list of maintainers, an entry
\* that expires or is overwritten.
CacheChanges(u) ==
  /\ \/ cached' = cached \ {u} /\ UNCHANGED known
     \/ /\ pc = "close"
        /\ known' = [known EXCEPT ![u] = 2]
        /\ cached' = cached \union {u}
  /\ UNCHANGED <<settings, pc, doorVars, scan, bell, grantAge>>

Tick ==
  /\ DoorTick
  /\ scannedAge' = IF scannedAge > Debounce THEN scannedAge ELSE scannedAge + 1
  /\ bellAge' = IF bellAge = BellMemory THEN bellAge ELSE bellAge + 1
  /\ grantAge' = IF grantAge > HoldTime THEN grantAge ELSE grantAge + 1
  /\ UNCHANGED <<settings, pc, card, lastScanned, rung, cards>>

\* A reset at any point; after a fault the watchdog's.
Reset ==
  /\ Boot
  /\ cached' = (IF Persistent THEN cached ELSE {})
  /\ UNCHANGED <<settings, known>>

ProgramStep ==
  \/ StartPass
  \/ ReadNothing \/ \E u \in Uids : ReadCard(u)
  \/ UseCached \/ NoLinkToAsk \/ \E answer \in Answers : AskServer(answer)
  \/ Announce
  \/ NoBell \/ Bell
  \/ NoRelease \/ Release

Next ==
  \/ ProgramStep
  \/ \E u \in Uids : CacheChanges(u)
  \/ Tick
  \/ Reset

Spec == Init /\ [][Next]_vars

\* The passes and the clock go on, and the watchdog ends a fault.
FairSpec == Spec /\ WF_vars(ProgramStep) /\ WF_vars(Tick) /\ WF_vars(pc = "fault" /\ Reset)

-----------------------------------------------------------------------------
\* What the door roles are to do.

(***************************************************************************)
(* README: the relay is activated "provided that a card known to the       *)
(* system is presented, and it has access" in the role with access         *)
(* control.  The door opens by the release button, or for a card for which *)
(* the server has once answered so, through all that the cache does.       *)
(***************************************************************************)
OpensForKnown ==
  [][~doorPin /\ doorPin' =>
       \/ pc = "release"
       \/ card.uid \in Uids /\ known'[card.uid] >= (IF role = 1 THEN 0 ELSE 1)]_vars

(***************************************************************************)
(* Every grant holds the door open for its whole time, also one that comes *)
(* while it is open already.  A reset excepted, which begins a new pass.   *)
(***************************************************************************)
HeldOpen == [][doorPin /\ ~doorPin' /\ pc' # "close" => grantAge > HoldTime]_vars

(***************************************************************************)
(* When nobody is let in any more the door closes for good, however slow   *)
(* the passes are, and after a fault with the door open too.               *)
(***************************************************************************)
DoorCloses == <>[](grantAge # 0) => <>[](~doorPin)

(***************************************************************************)
(* Opening the door answers a bell, EXIT(1), only if one rang since the    *)
(* last boot that has not been answered before.                            *)
(***************************************************************************)
AnswersABell == bellAge < BellMemory => rung

=============================================================================
