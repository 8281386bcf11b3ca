-------------------------------- MODULE Tool --------------------------------
(***************************************************************************)
(* The relay side of the class Tool (tool.cpp): on(), off(), the delayed   *)
(* switch-off in poll(), and begin().  Time is the age of a time stamp in  *)
(* seconds; an age stops growing once no comparison of the code can tell   *)
(* it from a greater one.                                                  *)
(*                                                                         *)
(* off() drives the pin first and clears _toolon last, and tells the       *)
(* acserver in between: the two are steps of their own, with time, and     *)
(* perhaps a reset, between them.  on() tells the acserver before it does  *)
(* anything, and then sets pin and flag without a wait: it is one step.    *)
(***************************************************************************)
EXTENDS Card, Settings

CONSTANTS
  MinOn,       \* acsettings.minontime, in seconds
  ActiveHigh   \* acsettings.toolonpin_activehigh

ASSUME ToolAssumption == MinOn \in Nat /\ ActiveHigh \in BOOLEAN

VARIABLES
  toolOn,      \* _toolon
  turnOff,     \* _turnoff: off() came before the minimum time had passed
  onAge,       \* millis() - _ontime
  toolUser,    \* tool_user
  relay,       \* the level of the pin _toolpin
  offWaits     \* off() has driven the pin and is in reportToolUse()

toolVars == <<toolOn, turnOff, onAge, toolUser, relay, offWaits>>

Older(age, last) == IF age > last THEN age ELSE age + 1

\* The level of the pin at which the tool has power, and at which it has none.
PinLevel(on) == IF on <=> ActiveHigh THEN "HIGH" ELSE "LOW"

DriveRelay(on) == relay' = PinLevel(on)

Powered == relay = PinLevel(TRUE)

ToolTypeOK ==
  /\ toolOn \in BOOLEAN
  /\ turnOff \in BOOLEAN
  /\ onAge \in 0 .. MinOn + 1
  /\ toolUser \in CardSet
  /\ relay \in {"LOW", "HIGH"}
  /\ offWaits \in BOOLEAN

-----------------------------------------------------------------------------

(* Tool::on(user).  A tool that is out of service ignores everybody but a  *)
(* maintainer; a tool that is on only forgets a pending switch-off.        *)

Ignored(c) == status = 0 /\ ~IsMaintainer(c)

IgnoreUser(c) == ~toolOn /\ Ignored(c) /\ UNCHANGED toolVars

SwitchOn(c) ==
  /\ ~toolOn
  /\ ~Ignored(c)
  /\ DriveRelay(TRUE)
  /\ toolOn' = TRUE
  /\ onAge' = 0
  /\ toolUser' = c
  /\ turnOff' = FALSE
  /\ UNCHANGED offWaits

\* (mutant) on() leaves a postponed switch-off alone.
BugKeepOn == toolOn /\ UNCHANGED toolVars

KeepOn ==
  /\ toolOn
  /\ turnOff' = FALSE
  /\ UNCHANGED <<toolOn, onAge, toolUser, relay, offWaits>>

ToolOn(c) == ~offWaits /\ (IgnoreUser(c) \/ SwitchOn(c) \/ KeepOn)

(* Tool::off().  Within the minimum time the switch-off is left to poll(). *)

\* (mutant) The minimum time is one second short.
BugTooEarly == MinOn > 0 /\ onAge + 1 < MinOn

TooEarly == MinOn > 0 /\ onAge < MinOn

PostponeOff ==
  /\ toolOn
  /\ TooEarly
  /\ turnOff' = TRUE
  /\ UNCHANGED <<toolOn, onAge, toolUser, relay, offWaits>>

\* (mutant) off() drives the pin LOW whatever its polarity.
BugPowerOff ==
  /\ toolOn
  /\ ~TooEarly
  /\ relay' = "LOW"
  /\ offWaits' = TRUE
  /\ UNCHANGED <<toolOn, onAge, toolUser>>

\* As far as the report to the acserver.  (stoprunning() is not called: the
\* tool of this program has a run pin.)
PowerOff ==
  /\ toolOn
  /\ ~TooEarly
  /\ DriveRelay(FALSE)
  /\ offWaits' = TRUE
  /\ UNCHANGED <<toolOn, onAge, toolUser>>

ToolOff ==
  /\ ~offWaits
  /\ \/ ~toolOn /\ UNCHANGED toolVars
     \/ PostponeOff
     \/ PowerOff /\ UNCHANGED turnOff

\* The report is made or has failed; the end of off().
OffReported ==
  /\ offWaits
  /\ toolOn' = FALSE
  /\ turnOff' = FALSE
  /\ offWaits' = FALSE
  /\ UNCHANGED <<onAge, toolUser, relay>>

(* The first part of Tool::poll(): carry out a postponed switch-off.       *)

PollTurnOff ==
  /\ ~offWaits
  /\ \/ (~turnOff \/ onAge <= MinOn) /\ UNCHANGED toolVars
     \/ /\ turnOff /\ onAge > MinOn
        /\ turnOff' = FALSE
        /\ IF toolOn THEN PowerOff
                     ELSE UNCHANGED <<toolOn, onAge, toolUser, relay, offWaits>>

ToolTick ==
  /\ onAge' = Older(onAge, MinOn)
  /\ UNCHANGED <<toolOn, turnOff, toolUser, relay, offWaits>>

(* Power on or reset: the constructor and Tool::begin(), which drives the  *)
(* pin to its off level.  _ontime starts as 0, the time of the reset; it   *)
(* is not read before on() has set it.                                     *)

ToolInit ==
  /\ toolOn = FALSE
  /\ turnOff = FALSE
  /\ onAge = MinOn + 1
  /\ toolUser = NullCard
  /\ relay = PinLevel(FALSE)
  /\ offWaits = FALSE

ToolBoot ==
  /\ toolOn' = FALSE
  /\ turnOff' = FALSE
  /\ onAge' = MinOn + 1
  /\ toolUser' = NullCard
  /\ DriveRelay(FALSE)
  /\ offWaits' = FALSE

(* setup() then builds a Door on the very same pin, PG_1, in every role:   *)
(* its constructor drives the pin LOW, before anybody has used the tool.   *)

DoorTakesPin ==
  /\ ~toolOn /\ toolUser = NullCard
  /\ relay' = "LOW"
  /\ UNCHANGED <<toolOn, turnOff, onAge, toolUser, offWaits>>

-----------------------------------------------------------------------------

(* The tool with nothing assumed of its callers but that on() is for a     *)
(* card with a permission: any such card, in any order.                    *)

ToolNext ==
  \/ \E c \in CardSet : IsUser(c) /\ ToolOn(c)
  \/ ToolOff
  \/ OffReported
  \/ PollTurnOff
  \/ ToolTick
  \/ ToolBoot
  \/ DoorTakesPin

ToolSpec == ToolInit /\ [][ToolNext]_toolVars

(***************************************************************************)
(* A switch-off is pending only while the tool is on: poll() never acts on *)
(* a request left over from an earlier period of use.                      *)
(***************************************************************************)
TurnOffMeansOn == turnOff => toolOn

(***************************************************************************)
(* While the tool counts as on the relay has power, until off() takes it   *)
(* away and waits for the acserver; while it counts as off the relay has   *)
(* none, but for an active low relay between the Door's claim on the same  *)
(* pin and the first on() after a reset.                                   *)
(***************************************************************************)
RelayFollowsTool ==
  /\ toolOn => (Powered <=> ~offWaits)
  /\ ~toolOn /\ Powered => ~ActiveHigh /\ toolUser = NullCard

(***************************************************************************)
(* Once on, the tool keeps its power for the minimum time, whatever is     *)
(* asked of it and however requests and polls interleave; only a reset,    *)
(* after which nobody is the user, cuts it short.                          *)
(***************************************************************************)
MinOnTime ==
  [][toolOn /\ Powered /\ ~Powered' => onAge >= MinOn \/ toolUser' = NullCard]_toolVars

=============================================================================
