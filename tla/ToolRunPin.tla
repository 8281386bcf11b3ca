----------------------------- MODULE ToolRunPin -----------------------------
(***************************************************************************)
(* The class Tool with its run pin (tool.cpp): an interrupt handler notes  *)
(* that the tool has started or stopped running, poll() turns what it      *)
(* noted into the recorded run time.  poll() reads the shared state twice  *)
(* after it has cleared the flag; the interrupt comes at any point of it,  *)
(* any number of times, and any time may pass between two calls of poll(). *)
(***************************************************************************)
EXTENDS Tool

CONSTANTS
  ShortRun,     \* runs below this many seconds are ignored (5 in stoprunning)
  MaxAge,       \* bound: the greatest age of _start told apart
  RuntimeLimit  \* acsettings.runtime wraps around here (2^32)

ASSUME RunPinAssumption ==
  /\ ShortRun \in Nat \ {0}
  /\ MaxAge \in Nat /\ MaxAge >= ShortRun
  /\ RuntimeLimit \in Nat /\ RuntimeLimit > MaxAge

VARIABLES
  startAge,    \* millis() - _start
  changeFlag,  \* tool_change_flag
  onState,     \* tool_on_state: TRUE when the pin says "running"
  pollPc,      \* where poll() is
  runtime,     \* acsettings.runtime
  ran,         \* history: the seconds since _start was set, or since a run
               \* was recorded, in which the pin said "running" or a change
               \* of the pin waited for poll()
  missed       \* history: since the last start that poll() noticed, the pin
               \* has changed twice before one poll(), or within a poll()
               \* that had already cleared the flag

runVars == <<startAge, changeFlag, onState, pollPc, runtime, ran, missed>>

runPinVars == <<toolVars, settingsVars, runVars>>

RunPinInit ==
  /\ ToolInit
  /\ status \in {0, 1}
  /\ saved = status
  /\ startAge = 0
  /\ changeFlag = FALSE
  /\ onState \in BOOLEAN
  /\ pollPc = "idle"
  /\ runtime = 0
  /\ ran = 0
  /\ missed = FALSE

-----------------------------------------------------------------------------

\* poll() has cleared the flag of a change and is yet to look at the pin's state.
Looking == pollPc \in {"started", "stopped"}

\* toolrunisr(): the pin has changed.
ToolRunIsr ==
  /\ onState' = ~onState
  /\ changeFlag' = TRUE
  /\ missed' = (missed \/ changeFlag \/ Looking)
  /\ UNCHANGED <<toolVars, settingsVars, startAge, pollPc, runtime, ran>>

\* (mutant) The start is taken when the tool is switched on, not when it runs.
BugStartRunning ==
  /\ ran' = 0
  /\ missed' = FALSE
  /\ UNCHANGED <<startAge, settingsVars, runtime>>

\* Tool::startrunning() and Tool::stoprunning().
StartRunning ==
  /\ startAge' = 0
  /\ ran' = 0
  /\ missed' = FALSE
  /\ UNCHANGED <<settingsVars, runtime>>

StopRunning ==
  /\ UNCHANGED <<startAge, missed>>
  /\ \/ startAge < ShortRun /\ UNCHANGED <<settingsVars, runtime, ran>>
     \/ /\ startAge >= ShortRun
        /\ runtime' = (runtime + startAge) % RuntimeLimit
        /\ ran' = 0
        /\ SetSettings(status)

\* (mutant) poll() returns at once when the pin has not changed.
BugPollBegin ==
  /\ pollPc = "idle"
  /\ ~offWaits
  /\ IF changeFlag THEN PollTurnOff ELSE UNCHANGED toolVars
  /\ pollPc' = IF offWaits' THEN "off" ELSE "flag"
  /\ UNCHANGED <<settingsVars, startAge, changeFlag, onState, runtime, ran, missed>>

\* poll(), line by line as far as the interrupt can tell: the postponed
\* switch-off, with its report, the test and clearing of the flag, and the
\* two reads.
PollBegin ==
  /\ pollPc = "idle"
  /\ PollTurnOff
  /\ pollPc' = IF offWaits' THEN "off" ELSE "flag"
  /\ UNCHANGED <<settingsVars, startAge, changeFlag, onState, runtime, ran, missed>>

PollOff ==
  /\ pollPc = "off"
  /\ OffReported
  /\ pollPc' = "flag"
  /\ UNCHANGED <<settingsVars, startAge, changeFlag, onState, runtime, ran, missed>>

PollFlag ==
  /\ pollPc = "flag"
  /\ changeFlag' = FALSE
  /\ pollPc' = IF changeFlag THEN "started" ELSE "idle"
  /\ UNCHANGED <<toolVars, settingsVars, startAge, onState, runtime, ran, missed>>

PollStarted ==
  /\ pollPc = "started"
  /\ pollPc' = "stopped"
  /\ IF onState /\ toolOn THEN StartRunning
                          ELSE UNCHANGED <<settingsVars, startAge, runtime, ran, missed>>
  /\ UNCHANGED <<toolVars, changeFlag, onState>>

PollStopped ==
  /\ pollPc = "stopped"
  /\ pollPc' = "idle"
  /\ IF ~onState /\ toolOn THEN StopRunning
                           ELSE UNCHANGED <<settingsVars, startAge, runtime, ran, missed>>
  /\ UNCHANGED <<toolVars, changeFlag, onState>>

\* on(): it sets _start when, and only when, it switches the tool on.
CallOn(c) ==
  /\ pollPc = "idle"
  /\ ToolOn(c)
  /\ IF toolOn' /\ ~toolOn THEN startAge' = 0 /\ ran' = 0 /\ missed' = FALSE
                           ELSE UNCHANGED <<startAge, ran, missed>>
  /\ UNCHANGED <<settingsVars, changeFlag, onState, pollPc, runtime>>

\* off(), called by the node; while it waits nothing else is called.
CallOff ==
  /\ pollPc = "idle"
  /\ ToolOff
  /\ UNCHANGED <<settingsVars, runVars>>

OffReturns ==
  /\ pollPc = "idle"
  /\ OffReported
  /\ UNCHANGED <<settingsVars, runVars>>

\* setup(), once begin() is done, gives the relay pin to a Door as well.
SetupDoor ==
  /\ pollPc = "idle"
  /\ DoorTakesPin
  /\ UNCHANGED <<settingsVars, runVars>>

\* The rest of the program changes acsettings.status, and may save it.
StatusChanges ==
  /\ pollPc = "idle"
  /\ ~offWaits
  /\ status' \in {0, 1}
  /\ saved' \in {saved, status'}
  /\ UNCHANGED <<toolVars, runVars>>

RunPinTick ==
  /\ ToolTick
  /\ startAge' = Older(startAge, MaxAge - 1)
  /\ ran' = IF onState \/ changeFlag \/ Looking THEN Older(ran, MaxAge - 1) ELSE ran
  /\ UNCHANGED <<settingsVars, changeFlag, onState, pollPc, runtime, missed>>

\* A reset: begin() clears the flag and reads the pin; _start is zero again.
RunPinBoot ==
  /\ ToolBoot
  /\ GetSettings
  /\ startAge' = 0
  /\ changeFlag' = FALSE
  /\ onState' \in BOOLEAN
  /\ pollPc' = "idle"
  /\ ran' = 0
  /\ missed' = FALSE
  /\ UNCHANGED runtime

PollStep == PollBegin \/ PollOff \/ PollFlag \/ PollStarted \/ PollStopped

RunPinNext ==
  \/ ToolRunIsr
  \/ PollStep
  \/ \E c \in CardSet : IsUser(c) /\ CallOn(c)
  \/ CallOff
  \/ OffReturns
  \/ SetupDoor
  \/ StatusChanges
  \/ RunPinTick
  \/ RunPinBoot

\* loop() calls poll() again and again, a report to the server ends, and the
\* clock goes on, whatever else happens.
RunPinSpec == RunPinInit /\ [][RunPinNext]_runPinVars
                         /\ WF_runPinVars(PollStep \/ OffReturns) /\ WF_runPinVars(RunPinTick)

-----------------------------------------------------------------------------

(***************************************************************************)
(* "Update how long the tool has run for" (tool.cpp): what is added to the *)
(* run time is never more than the seconds since the start that poll()     *)
(* noticed, less those in which the tool stood still and poll() had        *)
(* nothing to look at: however the calls of on(), off() and poll() fall,   *)
(* how late poll() comes, and whenever the interrupt does.  The exception  *)
(* is a poll() that two changes of the pin have run into.                  *)
(***************************************************************************)
RunsAreReal == [][runtime' # runtime => missed \/ startAge <= ran]_runPinVars

(***************************************************************************)
(* A postponed switch-off is always resolved: poll() carries it out, or    *)
(* somebody switches the tool on again.                                    *)
(***************************************************************************)
PendingOffResolves == turnOff ~> ~turnOff

=============================================================================
