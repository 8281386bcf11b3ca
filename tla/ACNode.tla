------------------------------- MODULE ACNode -------------------------------
(***************************************************************************)
(* The access control node: ACNode::run() (acnode.cpp) as loop() of        *)
(* main.cpp calls it, with the tool, the menu, the card cache, the         *)
(* acserver and the card reader.                                           *)
(*                                                                         *)
(* The program has one thread, and `pc' is where it is.  It is cut at      *)
(* every point where it waits for the reader or for the server: time       *)
(* passes there, cards come and go, and the watchdog or a power cut may    *)
(* reset the node.  What lies between two such points is one action.       *)
(***************************************************************************)
EXTENDS Tool, Menu

CONSTANTS
  OffDelay,       \* acsettings.off_delay, in seconds
  AddTimeout,     \* seconds to swap cards when a user is added (10)
  StatusPeriod,   \* seconds between two checks of the tool's status (30)
  BootAge,        \* the age cardLastSeenTime starts with, in seconds (10)
  Presses,        \* the button events that occur
  NetworkFails,   \* requests to the acserver may fail
  CacheForgets,   \* entries may leave the cache while the node runs
  Persistent,     \* the permissions whose entries survive a reset: all with
                  \* the EEPROM or the SD card, none with RAM, {2} when the
                  \* EEPROM keeps the maintainers for a cache in RAM
  ServerEdits,    \* the status is also changed on the server itself
  Announces,      \* an announcer is configured
  Resets          \* the node may be reset

ASSUME ACNodeAssumption ==
  /\ OffDelay \in Nat /\ AddTimeout \in Nat /\ StatusPeriod \in Nat /\ BootAge \in Nat
  /\ Presses \subseteq ButtonEvents /\ "NONE" \in Presses
  /\ Persistent \in {{}, {2}, Levels}
  /\ {NetworkFails, CacheForgets, ServerEdits, Announces, Resets} \subseteq BOOLEAN

VARIABLES
  pc,            \* where the program is
  cardOnReader,  \* card_on_reader
  seenAge,       \* millis() - cardLastSeenTime
  checkAge,      \* millis() - last_status_checked_at
  cardAnnounced, deactivationAnnounced,
  cache,         \* for each UID, the permission Cache::get finds, or Absent
  serverStatus,  \* the tool's status in the acserver's database
  granted,       \* history: the highest permission the server gave each UID
  supervised     \* history: a card the server named maintainer has pressed the
                 \* button, and the reader has not been found empty since, but
                 \* for the time to swap cards while a user is added

ages == <<seenAge, checkAge>>

announced == <<cardAnnounced, deactivationAnnounced>>

nodeVars == <<pc, cardOnReader, ages, announced>>

served == <<cache, serverStatus, granted>>

outside == <<served, supervised>>

vars == <<toolVars, settingsVars, menuVars, nodeVars, outside>>

Absent == -1

SeenCap == (IF OffDelay > AddTimeout THEN OffDelay ELSE AddTimeout) + 1

Locations == {"setup", "loop", "menuRead", "menuAccess", "menuRun", "menuStore",
              "firstRead", "deactivate", "off", "offReport", "secondRead", "access",
              "run", "activate", "on", "pollReport"}

TypeOK ==
  /\ ToolTypeOK
  /\ SettingsTypeOK
  /\ MenuTypeOK
  /\ pc \in Locations
  /\ cardOnReader \in CardSet
  /\ seenAge \in 0 .. SeenCap
  /\ checkAge \in 0 .. StatusPeriod + 1
  /\ cardAnnounced \in BOOLEAN
  /\ deactivationAnnounced \in BOOLEAN
  /\ cache \in [Uids -> {Absent} \union Levels]
  /\ serverStatus \in {0, 1}
  /\ granted \in [Uids -> Levels]
  /\ supervised \in BOOLEAN

-----------------------------------------------------------------------------

(* The acserver, seen through querycard and networkCheckToolStatus: -1 is  *)
(* a request that failed, and for a card also one the server does not know.*)

CardAnswers == {-1} \union Levels

StatusAnswers == {serverStatus} \union (IF NetworkFails THEN {-1} ELSE {})

Granting(u, answer) ==
  granted' = IF answer > granted[u] THEN [granted EXCEPT ![u] = answer] ELSE granted

(* The cache, seen through Cache::get and Cache::set.                      *)

\* (mutant) The flags of the entry are not looked at.
BugCacheGet(c) ==
  IF c.uid \in Uids /\ cache[c.uid] # Absent
  THEN [uid |-> c.uid, valid |-> TRUE, status |-> TRUE, maintainer |-> TRUE]
  ELSE NullCard

CacheGet(c) ==
  IF c.uid \in Uids /\ cache[c.uid] # Absent
  THEN [uid |-> c.uid, valid |-> TRUE,
        status |-> cache[c.uid] >= 1, maintainer |-> cache[c.uid] = 2]
  ELSE NullCard

InCache(c) == CompareUid(CacheGet(c), c)

CacheSet(c) == cache' = [cache EXCEPT ![c.uid] = Level(c)]

(* The history of the button, at a press and at an empty read.             *)

Pressed(event) ==
  supervised' = \/ supervised
                \/ /\ event = "SHORT_PRESS"
                   /\ cardOnReader.valid /\ granted[cardOnReader.uid] = 2

SwapTime == IsAddingUser /\ seenAge <= AddTimeout

EmptyRead == supervised' = (supervised /\ SwapTime)

\* announceCard(): nothing without an announcer, once until the flag is cleared.
AnnounceCard == cardAnnounced' = (cardAnnounced \/ Announces)

-----------------------------------------------------------------------------

Init ==
  /\ ToolInit
  /\ MenuInit
  /\ status \in {0, 1}
  /\ saved = status
  /\ pc = "setup"
  /\ cardOnReader = NullCard
  /\ seenAge = (IF BootAge > SeenCap THEN SeenCap ELSE BootAge)
  /\ checkAge = StatusPeriod + 1
  /\ cardAnnounced = FALSE
  /\ deactivationAnnounced = FALSE
  /\ serverStatus \in {0, 1}
  /\ granted \in [Uids -> Levels]
  /\ cache \in [Uids -> {Absent} \union Levels]
  /\ \A u \in Uids : cache[u] <= granted[u] /\ cache[u] \in Persistent \union {Absent}
  /\ supervised = FALSE

(***************************************************************************)
(* setup() after tool.begin(): the Door on the tool's pin, then, if there  *)
(* is a network, the status the server holds.                              *)
(***************************************************************************)
Setup ==
  /\ pc = "setup"
  /\ DoorTakesPin
  /\ pc' = "loop"
  /\ \/ \E answer \in StatusAnswers \ {-1} : SetSettings(answer)
     \/ NetworkFails /\ UNCHANGED settingsVars
  /\ UNCHANGED <<menuVars, cardOnReader, ages, announced, outside>>

\* The choice of run() between its two halves.
HalfOfRun == pc' = IF MenuActive THEN "menuRead" ELSE "firstRead"

(* housekeeping().  The run pin part of poll() can save the settings while *)
(* the tool is on.                                                         *)
Housekeeping ==
  /\ pc = "loop"
  /\ PollTurnOff
  /\ \/ offWaits' /\ pc' = "pollReport" /\ UNCHANGED settingsVars
     \/ /\ ~offWaits' /\ HalfOfRun
        /\ status' = status
        /\ saved' \in IF toolOn' THEN {saved, status} ELSE {saved}
  /\ UNCHANGED <<menuVars, cardOnReader, ages, announced, outside>>

PollReport ==
  /\ pc = "pollReport"
  /\ OffReported
  /\ HalfOfRun
  /\ UNCHANGED <<settingsVars, menuVars, cardOnReader, ages, announced, outside>>

-----------------------------------------------------------------------------

(* card_has_access() for the card just read: a cached card brings its      *)
(* rights with it, any other one is looked up on the server.               *)

UseCached ==
  /\ InCache(cardOnReader)
  /\ cardOnReader' = CacheGet(cardOnReader)
  /\ UNCHANGED <<cardAnnounced, cache, granted>>

\* (mutant) "Known, but no access" falls through to a user.
BugAskServer(answer) ==
  LET c == IF answer = 2 THEN SetUser(SetMaintainer(cardOnReader)) ELSE SetUser(cardOnReader)
  IN  /\ ~InCache(cardOnReader)
      /\ Granting(cardOnReader.uid, answer)
      /\ AnnounceCard
      /\ IF answer \in {0, 1, 2}
         THEN cardOnReader' = c /\ CacheSet(c)
         ELSE UNCHANGED <<cardOnReader, cache>>

AskServer(answer) ==
  LET c == IF answer = 2 THEN SetUser(SetMaintainer(cardOnReader)) ELSE SetUser(cardOnReader)
  IN  /\ ~InCache(cardOnReader)
      /\ Granting(cardOnReader.uid, answer)
      /\ AnnounceCard
      /\ IF answer \in {1, 2}
         THEN cardOnReader' = c /\ CacheSet(c)
         ELSE UNCHANGED <<cardOnReader, cache>>

CardHasAccess ==
  /\ UseCached \/ \E answer \in CardAnswers : AskServer(answer)
  /\ UNCHANGED <<toolVars, settingsVars, menuVars, ages, deactivationAnnounced>>
  /\ UNCHANGED <<serverStatus, supervised>>

(* is_enabled(): at most every StatusPeriod the server is asked, and its   *)
(* answer, a failure included, is assigned to the one-bit setting.         *)

IsEnabled ==
  /\ UNCHANGED saved
  /\ \/ checkAge <= StatusPeriod /\ UNCHANGED <<status, checkAge>>
     \/ /\ checkAge > StatusPeriod
        /\ checkAge' = 0
        /\ \E answer \in StatusAnswers : status' = StatusField(answer)

-----------------------------------------------------------------------------

(* run() with the menu active.                                             *)

MenuReadCard(u) ==
  /\ pc = "menuRead"
  /\ cardOnReader' = PlainCard(u)
  /\ seenAge' = 0
  /\ pc' = "menuAccess"
  /\ UNCHANGED <<toolVars, settingsVars, menuVars, checkAge, announced, outside>>

\* (mutant) The menu waits for a card in every state, not in one.
BugMenuReadNothing ==
  /\ pc = "menuRead"
  /\ cardOnReader' = NullCard
  /\ EmptyRead
  /\ IF IsAddingUser /\ seenAge > AddTimeout THEN MenuReset ELSE UNCHANGED menuVars
  /\ pc' = "loop"
  /\ UNCHANGED <<toolVars, settingsVars, ages, announced, served>>

MenuReadNothing ==
  /\ pc = "menuRead"
  /\ cardOnReader' = NullCard
  /\ EmptyRead
  /\ IF ~IsAddingUser \/ seenAge > AddTimeout THEN MenuReset ELSE UNCHANGED menuVars
  /\ pc' = "loop"
  /\ UNCHANGED <<toolVars, settingsVars, ages, announced, served>>

\* The result of card_has_access() is not looked at here.
MenuAccess == pc = "menuAccess" /\ CardHasAccess /\ pc' = "menuRun"

MenuStep(event) ==
  /\ pc = "menuRun"
  /\ MenuRun(cardOnReader, event)
  /\ Pressed(event)
  /\ pc' = "loop"
  /\ UNCHANGED <<toolVars, cardOnReader, ages, announced, served>>

\* A long press on a status item: setToolStatus(), whose result nobody looks
\* at, and after it the setting, in RAM and in the EEPROM.
SendStatus(event) ==
  /\ pc = "menuRun"
  /\ SendsStatus(cardOnReader, event)
  /\ serverStatus' \in {SelectedStatus} \union (IF NetworkFails THEN {serverStatus} ELSE {})
  /\ pc' = "menuStore"
  /\ UNCHANGED <<toolVars, settingsVars, menuVars, cardOnReader, ages, announced>>
  /\ UNCHANGED <<cache, granted, supervised>>

StoreStatus ==
  /\ pc = "menuStore"
  /\ StoreSelectedStatus
  /\ pc' = "loop"
  /\ UNCHANGED <<toolVars, cardOnReader, ages, announced, outside>>

-----------------------------------------------------------------------------

(* run() with the menu idle: a first read that may end the use of the      *)
(* tool, a second one that may begin it.                                   *)

FirstReadNothing ==
  /\ pc = "firstRead"
  /\ cardOnReader' = NullCard
  /\ EmptyRead
  /\ IF seenAge > OffDelay
     THEN cardAnnounced' = FALSE /\ pc' = "deactivate"
     ELSE UNCHANGED cardAnnounced /\ pc' = "secondRead"
  /\ UNCHANGED <<toolVars, settingsVars, menuVars, ages, deactivationAnnounced, served>>

\* (mutant) The test of "card has changed" is the wrong way round.
BugFirstReadCard(u) ==
  /\ pc = "firstRead"
  /\ cardOnReader' = PlainCard(u)
  /\ IF ~InCache(PlainCard(u))
     THEN UNCHANGED cardAnnounced /\ pc' = "secondRead"
     ELSE cardAnnounced' = FALSE /\ pc' = "deactivate"
  /\ UNCHANGED <<toolVars, settingsVars, menuVars, ages, deactivationAnnounced, outside>>

\* "Card has changed" is a card that is not in the cache.
FirstReadCard(u) ==
  /\ pc = "firstRead"
  /\ cardOnReader' = PlainCard(u)
  /\ IF InCache(PlainCard(u))
     THEN UNCHANGED cardAnnounced /\ pc' = "secondRead"
     ELSE cardAnnounced' = FALSE /\ pc' = "deactivate"
  /\ UNCHANGED <<toolVars, settingsVars, menuVars, ages, deactivationAnnounced, outside>>

\* deactivate() asks for the status before it switches the tool off.
Deactivate ==
  /\ pc = "deactivate"
  /\ IsEnabled
  /\ pc' = "off"
  /\ UNCHANGED <<toolVars, menuVars, cardOnReader, seenAge, announced, outside>>

AnnounceOff ==
  deactivationAnnounced' = (deactivationAnnounced \/ (Announces /\ ~toolOn'))

DeactivateOff ==
  /\ pc = "off"
  /\ ToolOff
  /\ \/ offWaits' /\ pc' = "offReport" /\ UNCHANGED deactivationAnnounced
     \/ ~offWaits' /\ pc' = "secondRead" /\ AnnounceOff
  /\ UNCHANGED <<settingsVars, menuVars, cardOnReader, ages, cardAnnounced, outside>>

OffReport ==
  /\ pc = "offReport"
  /\ OffReported
  /\ AnnounceOff
  /\ pc' = "secondRead"
  /\ UNCHANGED <<settingsVars, menuVars, cardOnReader, ages, cardAnnounced, outside>>

SecondReadNothing ==
  /\ pc = "secondRead"
  /\ cardOnReader' = NullCard
  /\ EmptyRead
  /\ pc' = "loop"
  /\ UNCHANGED <<toolVars, settingsVars, menuVars, ages, announced, served>>

SecondReadCard(u) ==
  /\ pc = "secondRead"
  /\ cardOnReader' = PlainCard(u)
  /\ seenAge' = 0
  /\ pc' = "access"
  /\ UNCHANGED <<toolVars, settingsVars, menuVars, checkAge, announced, outside>>

\* (mutant) The result of card_has_access() is not looked at here either.
BugAccess ==
  /\ pc = "access"
  /\ CardHasAccess
  /\ pc' = "run"

Access ==
  /\ pc = "access"
  /\ CardHasAccess
  /\ pc' = IF IsUser(cardOnReader') THEN "run" ELSE "loop"

\* The way into the menu, with the menu idle before it.
RunMenu(event) ==
  /\ pc = "run"
  /\ MenuRun(cardOnReader, event)
  /\ Pressed(event)
  /\ pc' = "activate"
  /\ UNCHANGED <<toolVars, cardOnReader, ages, announced, served>>

\* (mutant) Only a maintainer clears deactivationAnnounced.
BugActivate ==
  /\ pc = "activate"
  /\ \/ /\ IsMaintainer(cardOnReader)
        /\ deactivationAnnounced' = FALSE
        /\ pc' = "on"
        /\ UNCHANGED <<settingsVars, checkAge>>
     \/ /\ ~IsMaintainer(cardOnReader)
        /\ IsEnabled
        /\ pc' = IF status' = 1 THEN "on" ELSE "loop"
        /\ UNCHANGED deactivationAnnounced
  /\ UNCHANGED <<toolVars, menuVars, cardOnReader, seenAge, cardAnnounced, outside>>

\* activate(): a maintainer switches the tool on whatever its status.
Activate ==
  /\ pc = "activate"
  /\ deactivationAnnounced' = FALSE
  /\ \/ /\ IsMaintainer(cardOnReader)
        /\ pc' = "on"
        /\ UNCHANGED <<settingsVars, checkAge>>
     \/ /\ ~IsMaintainer(cardOnReader)
        /\ IsEnabled
        /\ pc' = IF status' = 1 THEN "on" ELSE "loop"
  /\ UNCHANGED <<toolVars, menuVars, cardOnReader, seenAge, cardAnnounced, outside>>

ActivateOn ==
  /\ pc = "on"
  /\ ToolOn(cardOnReader)
  /\ AnnounceCard
  /\ pc' = "loop"
  /\ UNCHANGED <<settingsVars, menuVars, cardOnReader, ages, deactivationAnnounced, outside>>

-----------------------------------------------------------------------------

(* The rest of loop(), between two calls of run().                         *)

\* One entry in a pass of Cache::verify: an answer may raise or lower the
\* entry or remove it, as the three caches treat the answers differently.
VerifyCard(u, answer) ==
  /\ pc = "loop"
  /\ cache[u] # Absent
  /\ Granting(u, answer)
  /\ cache' \in {cache, [cache EXCEPT ![u] = IF answer \in {1, 2} THEN answer ELSE Absent]}
  /\ UNCHANGED <<toolVars, settingsVars, menuVars, nodeVars, serverStatus, supervised>>

\* MaintainerCacheMaintainer::run() puts a card the server lists among the
\* maintainers into the EEPROM behind the cache in RAM.
MaintainerListed(u) ==
  /\ pc = "loop"
  /\ Persistent = {2}
  /\ Granting(u, 2)
  /\ cache' = [cache EXCEPT ![u] = 2]
  /\ UNCHANGED <<toolVars, settingsVars, menuVars, nodeVars, serverStatus, supervised>>

\* The settings are saved from the command line, with the status as it is.
CliSaves ==
  /\ pc = "loop"
  /\ SetSettings(status)
  /\ UNCHANGED <<toolVars, menuVars, nodeVars, outside>>

(* What happens around the program.                                        *)

\* An entry expires, is overwritten, or cannot be read any more.
CacheForget(u) ==
  /\ CacheForgets
  /\ cache[u] # Absent
  /\ cache' = [cache EXCEPT ![u] = Absent]
  /\ UNCHANGED <<toolVars, settingsVars, menuVars, nodeVars, serverStatus, granted, supervised>>

ServerEdit ==
  /\ ServerEdits
  /\ serverStatus' = 1 - serverStatus
  /\ UNCHANGED <<toolVars, settingsVars, menuVars, nodeVars, cache, granted, supervised>>

Tick ==
  /\ ToolTick
  /\ seenAge' = Older(seenAge, SeenCap - 1)
  /\ checkAge' = Older(checkAge, StatusPeriod)
  /\ UNCHANGED <<settingsVars, menuVars, pc, cardOnReader, announced, outside>>

\* The watchdog, the command "reboot" or a power cut, at any point.
Reset ==
  /\ Resets
  /\ ToolBoot
  /\ GetSettings
  /\ MenuReset
  /\ pc' = "setup"
  /\ cardOnReader' = NullCard
  /\ seenAge' = (IF BootAge > SeenCap THEN SeenCap ELSE BootAge)
  /\ checkAge' = StatusPeriod + 1
  /\ cardAnnounced' = FALSE
  /\ deactivationAnnounced' = FALSE
  /\ supervised' = FALSE
  /\ cache' = [u \in Uids |-> IF cache[u] \in Persistent THEN cache[u] ELSE Absent]
  /\ UNCHANGED <<serverStatus, granted>>

-----------------------------------------------------------------------------

\* The steps of the program, one of which is always possible.
ProgramStep ==
  \/ Setup
  \/ Housekeeping \/ PollReport
  \/ \E u \in Uids : MenuReadCard(u) \/ FirstReadCard(u) \/ SecondReadCard(u)
  \/ MenuReadNothing \/ FirstReadNothing \/ SecondReadNothing
  \/ MenuAccess \/ Access
  \/ \E event \in Presses : MenuStep(event) \/ SendStatus(event) \/ RunMenu(event)
  \/ StoreStatus
  \/ Deactivate \/ DeactivateOff \/ OffReport
  \/ Activate \/ ActivateOn

Next ==
  \/ ProgramStep
  \/ \E u \in Uids, answer \in CardAnswers : VerifyCard(u, answer)
  \/ \E u \in Uids : MaintainerListed(u) \/ CacheForget(u)
  \/ CliSaves
  \/ ServerEdit
  \/ Tick
  \/ Reset

Spec == Init /\ [][Next]_vars

\* loop() is called again and again, and the clock goes on.  A user who swaps
\* cards, a server that answers and a reset that never comes are not assumed.
FairSpec == Spec /\ WF_vars(ProgramStep) /\ WF_vars(Tick)

-----------------------------------------------------------------------------
\* What the node is to do.

(***************************************************************************)
(* No right appears in the node that the server has not given: not in the  *)
(* cache, on the reader, in the menu or in the tool.                       *)
(***************************************************************************)
RightsGranted(c) == c.valid => c.uid \in Uids /\ Level(c) <= granted[c.uid]

GrantedInv ==
  /\ \A u \in Uids : cache[u] <= granted[u]
  /\ RightsGranted(cardOnReader)
  /\ RightsGranted(addedBy)
  /\ RightsGranted(toolUser)
  /\ pc \in {"run", "activate", "on"} => IsUser(cardOnReader)
  /\ toolOn => IsUser(toolUser)

(***************************************************************************)
(* The node keeps the promise of AccessPromise: no sequence of reads,      *)
(* answers, cache losses, menu choices and resets switches the tool on for *)
(* a card the server never gave the permission.                            *)
(***************************************************************************)
Promise == INSTANCE AccessPromise WITH
  Cards <- Uids, inService <- (status = 1), granted <- granted,
  users <- IF toolOn THEN {toolUser.uid} ELSE {}

KeepsPromise == Promise!PromiseSpec

(***************************************************************************)
(* Every use the node makes of the tool is one that Tool allows, so that   *)
(* what holds of the tool for any caller holds in the node.                *)
(***************************************************************************)
UsesTool == ToolSpec

(***************************************************************************)
(* A tool in use that is in service does not lose its power while the last *)
(* read showed the user's card, unless the cache has lost that card: the   *)
(* off delay, the minimum time and a pending switch-off never add up to a  *)
(* switch-off under the user's hands.  A reset excepted.                   *)
(***************************************************************************)
UserKeepsTool ==
  [][toolOn /\ Powered /\ ~Powered' /\ pc' # "setup" =>
       \/ ~cardOnReader.valid \/ cardOnReader.uid # toolUser.uid
       \/ cache[toolUser.uid] = Absent
       \/ status = 0]_vars

(***************************************************************************)
(* The menu items that add users and put the tool in service are open only *)
(* in the presence of a maintainer: somebody the server has named one has  *)
(* pressed the button, and since then there has been a card on the reader  *)
(* at every read, but for the ten seconds to swap cards.  Whose card it is *)
(* by now the program does not ask.                                        *)
(***************************************************************************)
MaintainerStates ==
  {"READY_TO_ADD_USER", "READY_TO_TAKE_ONLINE", "ADDING_USER", "TAKEN_ONLINE"}

MenuAuthority == menuState \in MaintainerStates => supervised

(***************************************************************************)
(* What the menu shows as done is done: while it shows that the tool was   *)
(* taken out of service, or put in service, the node acts on that status   *)
(* and would do so after a reset without a network.                        *)
(***************************************************************************)
ShownStatusIsSaved ==
  /\ menuState = "TAKEN_OFFLINE" => status = 0 /\ saved = 0
  /\ menuState = "TAKEN_ONLINE" => status = 1 /\ saved = 1

(***************************************************************************)
(* "Only a maintainer can put a tool in service" (README.md): a tool that  *)
(* is out of service is put in service in the presence of a maintainer, by *)
(* the server, or by a reset that goes back to what was saved, never by    *)
(* the node on its own.                                                    *)
(***************************************************************************)
PutThere ==
  \/ pc # "menuStore" /\ serverStatus = 1
  \/ pc = "menuStore" /\ supervised
  \/ pc' = "setup" /\ saved = 1

PutInServiceByMaintainer == [][status = 0 /\ status' = 1 => PutThere]_vars

(***************************************************************************)
(* With the one exception that a query of the status that fails does it as *)
(* well, and for the server's record with no exception: the node sets it   *)
(* to "in service" in the presence of a maintainer only.                   *)
(***************************************************************************)
StatusQueryFails == NetworkFails /\ pc \in {"deactivate", "activate"} /\ checkAge > StatusPeriod

PutInService ==
  [][/\ status = 0 /\ status' = 1 => PutThere \/ StatusQueryFails
     /\ serverStatus = 0 /\ serverStatus' = 1 /\ pc' # pc => supervised]_vars

(***************************************************************************)
(* When the reader stays empty the tool loses its power for good, whatever *)
(* the menu was doing and however short the tool has been on (for a relay  *)
(* that is active high).                                                   *)
(***************************************************************************)
OffWithoutCard == <>[](~cardOnReader.valid) => <>[](~toolOn /\ ~Powered)

(***************************************************************************)
(* A user whose card stays readable, with a permission in the cache, the   *)
(* tool in service and the menu left alone, gets the tool and keeps it.    *)
(***************************************************************************)
UserGetsTool ==
  <>[](/\ cardOnReader.valid /\ cardOnReader.uid \in Uids
       /\ cache[cardOnReader.uid] >= 1 /\ status = 1 /\ ~MenuActive)
    => <>[](toolOn /\ Powered /\ ~turnOff)

(***************************************************************************)
(* While the tool is on, its switch-off is still to be announced, even if  *)
(* it comes from a poll() long after the card has gone.                    *)
(***************************************************************************)
OffStillToAnnounce == toolOn => ~deactivationAnnounced

=============================================================================
