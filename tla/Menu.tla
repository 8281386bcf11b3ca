-------------------------------- MODULE Menu --------------------------------
(***************************************************************************)
(* The one-button menu (menu.cpp).  Each run() polls the button once: a    *)
(* short press advances the menu, a long one selects; PRESSED and NONE     *)
(* only change the colour of the LED, which is left out with `pending'.    *)
(* The time-out of the header is not there: the call is commented out.     *)
(***************************************************************************)
EXTENDS Card, Settings

VARIABLES
  menuState,   \* state
  addedBy      \* added_by: the card that asked for the next card to be added

menuVars == <<menuState, addedBy>>

MenuStates == {"IDLE", "READY_TO_ADD_USER", "READY_TO_TAKE_OFFLINE", "READY_TO_TAKE_ONLINE",
               "ADDING_USER", "TAKEN_OFFLINE", "TAKEN_ONLINE"}

\* The states in which a long press sends the tool's new status to the server.
StatusItems == {"READY_TO_TAKE_OFFLINE", "READY_TO_TAKE_ONLINE"}

ButtonEvents == {"NONE", "SHORT_PRESS", "LONG_PRESS"}

MenuTypeOK == menuState \in MenuStates /\ addedBy \in CardSet

MenuActive == menuState # "IDLE"

IsAddingUser == menuState = "ADDING_USER"

MenuInit == menuState = "IDLE" /\ addedBy = NullCard

MenuReset == menuState' = "IDLE" /\ addedBy' = NullCard

-----------------------------------------------------------------------------

\* (mutant) Everybody is offered what a maintainer is offered.
BugNextItem(isMaintainer) ==
  CASE menuState = "IDLE" -> "READY_TO_ADD_USER"
    [] menuState = "READY_TO_ADD_USER" ->
         IF status = 1 THEN "READY_TO_TAKE_OFFLINE" ELSE "READY_TO_TAKE_ONLINE"
    [] OTHER -> "IDLE"

\* What the menu offers after a short press, for a maintainer and for a user.
NextItem(isMaintainer) ==
  CASE menuState = "IDLE" /\ isMaintainer -> "READY_TO_ADD_USER"
    [] menuState = "IDLE" /\ ~isMaintainer -> "READY_TO_TAKE_OFFLINE"
    [] menuState = "READY_TO_ADD_USER" /\ isMaintainer ->
         IF status = 1 THEN "READY_TO_TAKE_OFFLINE" ELSE "READY_TO_TAKE_ONLINE"
    [] OTHER -> "IDLE"

Advance(c) == menuState' = NextItem(IsMaintainer(c)) /\ UNCHANGED <<addedBy, settingsVars>>

SelectAddUser(c) ==
  /\ menuState = "READY_TO_ADD_USER"
  /\ addedBy' = c
  /\ menuState' = "ADDING_USER"
  /\ UNCHANGED settingsVars

\* The value that take_offline() and take_online() send and store.
SelectedStatus == IF menuState = "READY_TO_TAKE_ONLINE" THEN 1 ELSE 0

\* (mutant) The setting is changed in RAM and not saved.
BugStoreSelectedStatus ==
  /\ menuState \in StatusItems
  /\ status' = SelectedStatus
  /\ menuState' = IF menuState = "READY_TO_TAKE_ONLINE" THEN "TAKEN_ONLINE" ELSE "TAKEN_OFFLINE"
  /\ UNCHANGED <<saved, addedBy>>

\* The rest of take_offline() and take_online(), after setToolStatus().
StoreSelectedStatus ==
  /\ menuState \in StatusItems
  /\ SetSettings(SelectedStatus)
  /\ menuState' = IF menuState = "READY_TO_TAKE_ONLINE" THEN "TAKEN_ONLINE" ELSE "TAKEN_OFFLINE"
  /\ UNCHANGED addedBy

\* The end of run(): a card that is not the very same as added_by is added.
AddsUser(c) == IsAddingUser /\ c.valid /\ ~SameCard(c, addedBy)

\* run(c) with the event the button returned, but for the long press that
\* posts a new status (SendsStatus, then StoreSelectedStatus).
SendsStatus(c, event) == c.valid /\ event = "LONG_PRESS" /\ menuState \in StatusItems

MenuRun(c, event) ==
  /\ ~SendsStatus(c, event)
  /\ \/ c.valid /\ event = "SHORT_PRESS" /\ Advance(c)
     \/ c.valid /\ event = "LONG_PRESS" /\ SelectAddUser(c)
     \/ /\ ~c.valid \/ event = "NONE" \/ (event = "LONG_PRESS" /\ menuState # "READY_TO_ADD_USER")
        /\ UNCHANGED settingsVars
        /\ IF AddsUser(c) THEN MenuReset ELSE UNCHANGED menuVars

=============================================================================
