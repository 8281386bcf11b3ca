---------------------------- MODULE ACNodeProofs ----------------------------
(***************************************************************************)
(* What holds of the tool for every minimum time, every polarity of the    *)
(* relay pin and every set of cards, whatever order on(), off(), poll(),   *)
(* the clock and resets come in; of the tool with its run pin, for every   *)
(* shortest run and every bound of the clock and of the counted time; and  *)
(* of the access control node around it for every set of cards, every      *)
(* delay and every way the network, the cache, the button and the power    *)
(* may behave.                                                             *)
(***************************************************************************)
EXTENDS ACNode, ToolRunPin, TLAPS

-----------------------------------------------------------------------------
(* The tool                                                                *)

(* An age stays within its bound, and in particular is never turned back.  *)
LEMMA OlderBounded ==
  ASSUME NEW age, NEW last \in Nat, age \in 0 .. last + 1
  PROVE  Older(age, last) \in 0 .. last + 1 /\ Older(age, last) >= age
BY DEF Older

(* Card() is a card.                                                       *)
LEMMA NullCardType == NullCard \in CardSet
BY DEF NullCard, CardSet

-----------------------------------------------------------------------------

(* The variables of the tool keep their types.                             *)
LEMMA TypeStep == ToolTypeOK /\ [ToolNext]_toolVars => ToolTypeOK'
<1> SUFFICES ASSUME ToolTypeOK, [ToolNext]_toolVars
             PROVE  ToolTypeOK'
  OBVIOUS
<1> USE ToolAssumption DEF ToolTypeOK, toolVars, DriveRelay, PinLevel
<1>1. CASE \E c \in CardSet : IsUser(c) /\ ToolOn(c)
  <2>1. PICK c \in CardSet : ToolOn(c)
    BY <1>1
  <2>2. onAge' \in 0 .. MinOn + 1
    BY <2>1 DEF ToolOn, IgnoreUser, SwitchOn, KeepOn
  <2> QED BY <2>1, <2>2 DEF ToolOn, IgnoreUser, SwitchOn, KeepOn
<1>2. CASE ToolOff
  BY <1>2 DEF ToolOff, PostponeOff, PowerOff
<1>3. CASE PollTurnOff
  BY <1>3 DEF PollTurnOff, PowerOff
<1>4. CASE ToolTick
  BY <1>4, OlderBounded DEF ToolTick
<1>5. CASE ToolBoot
  <2>1. onAge' \in 0 .. MinOn + 1
    BY <1>5 DEF ToolBoot
  <2>2. toolOn' \in BOOLEAN /\ turnOff' \in BOOLEAN /\ toolUser' \in CardSet
    BY <1>5, NullCardType DEF ToolBoot
  <2>3. relay' \in {"LOW", "HIGH"} /\ offWaits' \in BOOLEAN
    BY <1>5 DEF ToolBoot
  <2> QED BY <2>1, <2>2, <2>3
<1>6. CASE DoorTakesPin
  BY <1>6 DEF DoorTakesPin
<1>7. CASE OffReported
  BY <1>7 DEF OffReported
<1>8. CASE UNCHANGED toolVars
  BY <1>8
<1> QED BY <1>1, <1>2, <1>3, <1>4, <1>5, <1>6, <1>7, <1>8 DEF ToolNext

(* The types hold after power on.                                          *)
LEMMA TypeInit == ToolInit => ToolTypeOK
<1> SUFFICES ASSUME ToolInit PROVE ToolTypeOK
  OBVIOUS
<1>1. onAge \in 0 .. MinOn + 1
  BY ToolAssumption DEF ToolInit
<1>2. toolOn \in BOOLEAN /\ turnOff \in BOOLEAN /\ toolUser \in CardSet
  BY NullCardType DEF ToolInit
<1>3. relay \in {"LOW", "HIGH"} /\ offWaits \in BOOLEAN
  BY DEF ToolInit, PinLevel
<1> QED BY <1>1, <1>2, <1>3 DEF ToolTypeOK

(***************************************************************************)
(* Type correctness of the tool.                                           *)
(***************************************************************************)
THEOREM ToolType == ToolSpec => []ToolTypeOK
BY TypeInit, TypeStep, PTL DEF ToolSpec

-----------------------------------------------------------------------------

(* The inductive invariant: a switch-off is pending only while the tool is *)
(* on, the tool is on for a user, off() waits only on its way to switch    *)
(* the tool off, and the relay is as it should be.  Nobody is the user of  *)
(* a tool that on() has not switched on since the reset.                   *)
ToolInv ==
  /\ TurnOffMeansOn
  /\ RelayFollowsTool
  /\ toolOn => IsUser(toolUser)
  /\ offWaits => toolOn

(* Card() is no user.                                                      *)
LEMMA NullCardNoUser == ~IsUser(NullCard)
BY DEF NullCard, IsUser

(* The invariant is inductive.                                             *)
LEMMA InvStep == ToolTypeOK /\ ToolInv /\ [ToolNext]_toolVars => ToolInv'
<1> SUFFICES ASSUME ToolTypeOK, ToolInv, [ToolNext]_toolVars
             PROVE  ToolInv'
  OBVIOUS
<1> USE ToolAssumption DEF ToolTypeOK, ToolInv, TurnOffMeansOn, RelayFollowsTool,
                           Powered, toolVars, DriveRelay, PinLevel
<1>1. CASE \E c \in CardSet : IsUser(c) /\ ToolOn(c)
  BY <1>1 DEF ToolOn, IgnoreUser, SwitchOn, KeepOn
<1>2. CASE ToolOff
  BY <1>2 DEF ToolOff, PostponeOff, PowerOff
<1>3. CASE PollTurnOff
  BY <1>3 DEF PollTurnOff, PowerOff
<1>4. CASE ToolTick
  BY <1>4 DEF ToolTick
<1>5. CASE ToolBoot
  BY <1>5 DEF ToolBoot
<1>6. CASE DoorTakesPin
  BY <1>6 DEF DoorTakesPin
<1>7. CASE OffReported
  BY <1>7, NullCardNoUser DEF OffReported
<1>8. CASE UNCHANGED toolVars
  BY <1>8
<1> QED BY <1>1, <1>2, <1>3, <1>4, <1>5, <1>6, <1>7, <1>8 DEF ToolNext

(* The invariant holds after power on.                                     *)
LEMMA InvInit == ToolInit => ToolInv
BY ToolAssumption DEF ToolInit, ToolInv, TurnOffMeansOn, RelayFollowsTool, Powered, PinLevel

(* The invariant holds throughout.                                         *)
LEMMA ToolInvariant == ToolSpec => []ToolInv
BY ToolType, InvInit, InvStep, PTL DEF ToolSpec

(***************************************************************************)
(* poll() never carries out a switch-off left over from an earlier use.    *)
(***************************************************************************)
THEOREM PendingOffIsCurrent == ToolSpec => []TurnOffMeansOn
BY ToolInvariant, PTL DEF ToolInv

(***************************************************************************)
(* Whatever its polarity, the relay has power while the tool counts as on, *)
(* but for the wait at the end of off(); while it counts as off, only an   *)
(* active-low one before its first use.                                    *)
(***************************************************************************)
THEOREM RelayIsRight == ToolSpec => []RelayFollowsTool
BY ToolInvariant, PTL DEF ToolInv

-----------------------------------------------------------------------------

(* Only off(), poll() and a reset take the power away, and the first two   *)
(* look at the minimum time.                                               *)
LEMMA OffStep ==
  ASSUME ToolTypeOK, ToolInv, [ToolNext]_toolVars, toolOn, Powered, ~Powered'
  PROVE  onAge >= MinOn \/ toolUser' = NullCard
<1> USE ToolAssumption DEF ToolTypeOK, toolVars, Powered
<1>1. CASE \E c \in CardSet : IsUser(c) /\ ToolOn(c)
  BY <1>1 DEF ToolOn, IgnoreUser, SwitchOn, KeepOn
<1>2. CASE ToolOff
  <2>1. CASE ~toolOn
    BY <2>1
  <2>2. CASE PostponeOff
    BY <2>2 DEF PostponeOff
  <2>3. CASE PowerOff
    BY <2>3 DEF PowerOff, TooEarly
  <2> QED BY <1>2, <2>1, <2>2, <2>3 DEF ToolOff
<1>3. CASE PollTurnOff
  <2>1. CASE PowerOff
    BY <2>1 DEF PowerOff, TooEarly
  <2> QED BY <1>3, <2>1 DEF PollTurnOff
<1>4. CASE ToolTick
  BY <1>4 DEF ToolTick
<1>5. CASE ToolBoot
  BY <1>5 DEF ToolBoot
<1>6. CASE DoorTakesPin
  BY <1>6 DEF DoorTakesPin
<1>7. CASE OffReported
  BY <1>7 DEF OffReported
<1>8. CASE UNCHANGED toolVars
  BY <1>8
<1> QED BY <1>1, <1>2, <1>3, <1>4, <1>5, <1>6, <1>7, <1>8 DEF ToolNext

(***************************************************************************)
(* Once on, the tool keeps its power for the minimum time, unless the node *)
(* is reset.                                                               *)
(***************************************************************************)
THEOREM StaysOnForMinimumTime == ToolSpec => MinOnTime
<1>1. ToolTypeOK /\ ToolInv /\ [ToolNext]_toolVars
        => [toolOn /\ Powered /\ ~Powered' => onAge >= MinOn \/ toolUser' = NullCard]_toolVars
  BY OffStep
<1> QED BY <1>1, ToolType, ToolInvariant, PTL DEF ToolSpec, MinOnTime

-----------------------------------------------------------------------------
(* The run pin                                                             *)

PollPlaces == {"idle", "off", "flag", "started", "stopped"}

RunPinTypeOK ==
  /\ ToolTypeOK
  /\ SettingsTypeOK
  /\ startAge \in 0 .. MaxAge
  /\ changeFlag \in BOOLEAN
  /\ onState \in BOOLEAN
  /\ pollPc \in PollPlaces
  /\ runtime \in 0 .. RuntimeLimit - 1
  /\ ran \in 0 .. MaxAge
  /\ missed \in BOOLEAN

(* A start that poll() is still to notice.                                 *)
Starting == onState /\ (changeFlag \/ pollPc = "started")

(* There is a run that is still to be recorded: the tool runs, or it has   *)
(* stopped and poll() has yet to look.                                     *)
Owed == (onState \/ changeFlag \/ Looking) /\ ~Starting

(* RunsAreReal is not inductive: what the next stop will add is covered by *)
(* the time the tool has been running, from the start on, unless a change  *)
(* of the pin was missed; and a change that comes while poll() looks at    *)
(* the pin is missed, but for one that poll() will see as a start.         *)
OwedInv ==
  /\ toolOn /\ ~missed /\ Owed => startAge <= ran
  /\ Looking /\ changeFlag /\ ~onState => missed

-----------------------------------------------------------------------------

(* Every step is a step of the tool, or none of its own.                   *)
LEMMA RunPinUsesTool == [RunPinNext]_runPinVars => [ToolNext]_toolVars
BY DEF RunPinNext, runPinVars, ToolRunIsr, PollStep, PollBegin, PollOff, PollFlag,
       PollStarted, PollStopped, CallOn, CallOff, OffReturns, SetupDoor, StatusChanges,
       RunPinTick, RunPinBoot, ToolNext

(***************************************************************************)
(* The tool with its run pin is the tool of Tool: what holds there for any *)
(* caller holds whenever the interrupt comes.                              *)
(***************************************************************************)
THEOREM RunPinKeepsToToolSpec == RunPinSpec => ToolSpec
<1>1. RunPinInit => ToolInit
  BY DEF RunPinInit
<1> QED BY <1>1, RunPinUsesTool, PTL DEF RunPinSpec, ToolSpec

(* A sum that wraps around stays below its limit.                          *)
LEMMA WrapBounded ==
  ASSUME NEW m \in Nat, NEW n \in Nat
  PROVE  (m + n) % RuntimeLimit \in 0 .. RuntimeLimit - 1
<1>1. RuntimeLimit \in Nat /\ RuntimeLimit > 0
  BY RunPinAssumption
<1>2. \A k \in Nat : k % RuntimeLimit \in 0 .. RuntimeLimit - 1
  BY <1>1
<1> QED BY <1>2

(* The types of the run pin's variables are kept.                          *)
LEMMA RunPinTypeStep ==
  ASSUME RunPinTypeOK, [RunPinNext]_runPinVars
  PROVE  RunPinTypeOK'
<1> USE RunPinAssumption DEF RunPinTypeOK, PollPlaces
<1>1. ToolTypeOK'
  BY RunPinUsesTool, TypeStep
<1>2. SettingsTypeOK'
  BY DEF SettingsTypeOK, RunPinNext, runPinVars, settingsVars, runVars, ToolRunIsr, PollStep,
         PollBegin, PollOff, PollFlag, PollStarted, PollStopped, StartRunning, StopRunning,
         SetSettings, GetSettings, CallOn, CallOff, OffReturns, SetupDoor, StatusChanges,
         RunPinTick, RunPinBoot
<1>3. startAge' \in 0 .. MaxAge /\ ran' \in 0 .. MaxAge
  <2>1. CASE RunPinTick
    <3>1. /\ MaxAge - 1 \in Nat
          /\ startAge \in 0 .. (MaxAge - 1) + 1 /\ ran \in 0 .. (MaxAge - 1) + 1
      OBVIOUS
    <3>2. Older(startAge, MaxAge - 1) \in 0 .. MaxAge /\ Older(ran, MaxAge - 1) \in 0 .. MaxAge
      BY <3>1, OlderBounded
    <3> QED BY <2>1, <3>2 DEF RunPinTick
  <2>2. CASE \E c \in CardSet : CallOn(c)
    BY <2>2 DEF CallOn
  <2> QED BY <2>1, <2>2
       DEF RunPinNext, runPinVars, runVars, ToolRunIsr, PollStep, PollBegin, PollOff, PollFlag,
           PollStarted, PollStopped, StartRunning, StopRunning, CallOff, OffReturns, SetupDoor,
           StatusChanges, RunPinBoot
<1>4. changeFlag' \in BOOLEAN /\ onState' \in BOOLEAN /\ pollPc' \in PollPlaces
  BY DEF RunPinNext, runPinVars, runVars, ToolRunIsr, PollStep, PollBegin, PollOff, PollFlag,
         PollStarted, PollStopped, CallOn, CallOff, OffReturns, SetupDoor, StatusChanges,
         RunPinTick, RunPinBoot
<1>5. runtime' \in 0 .. RuntimeLimit - 1
  <2>1. (runtime + startAge) % RuntimeLimit \in 0 .. RuntimeLimit - 1
    BY WrapBounded
  <2>2. runtime' \in {runtime, (runtime + startAge) % RuntimeLimit}
    BY DEF RunPinNext, runPinVars, runVars, ToolRunIsr, PollStep, PollBegin, PollOff, PollFlag,
           PollStarted, PollStopped, StartRunning, StopRunning, CallOn, CallOff, OffReturns,
           SetupDoor, StatusChanges, RunPinTick, RunPinBoot
  <2> QED BY <2>1, <2>2
<1>6. missed' \in BOOLEAN
  BY DEF RunPinNext, runPinVars, runVars, ToolRunIsr, PollStep, PollBegin, PollOff, PollFlag,
         PollStarted, PollStopped, StartRunning, StopRunning, CallOn, CallOff, OffReturns,
         SetupDoor, StatusChanges, RunPinTick, RunPinBoot
<1> QED BY <1>1, <1>2, <1>3, <1>4, <1>5, <1>6

(* They hold after power on.                                               *)
LEMMA RunPinTypeInit == RunPinInit => RunPinTypeOK
<1> SUFFICES ASSUME RunPinInit PROVE RunPinTypeOK
  OBVIOUS
<1>1. ToolTypeOK /\ SettingsTypeOK
  BY TypeInit DEF RunPinInit, SettingsTypeOK
<1>2. startAge \in 0 .. MaxAge /\ runtime \in 0 .. RuntimeLimit - 1 /\ ran \in 0 .. MaxAge
  BY RunPinAssumption DEF RunPinInit
<1>3. /\ changeFlag \in BOOLEAN /\ onState \in BOOLEAN /\ pollPc \in PollPlaces
      /\ missed \in BOOLEAN
  BY DEF RunPinInit, PollPlaces
<1> QED BY <1>1, <1>2, <1>3 DEF RunPinTypeOK

(***************************************************************************)
(* Type correctness of the tool with its run pin.                          *)
(***************************************************************************)
THEOREM RunPinType == RunPinSpec => []RunPinTypeOK
BY RunPinTypeInit, RunPinTypeStep, PTL DEF RunPinSpec

-----------------------------------------------------------------------------

(* Who switches the tool on sets _start; nobody else begins a use of it.   *)
LEMMA UseBegins ==
  ASSUME RunPinTypeOK, [RunPinNext]_runPinVars, ~toolOn, toolOn'
  PROVE  (\E c \in CardSet : CallOn(c)) /\ startAge' = 0
<1> USE DEF toolVars
<1>1. CASE \E c \in CardSet : CallOn(c)
  BY <1>1 DEF CallOn
<1>2. CASE PollBegin \/ PollOff \/ CallOff \/ OffReturns
  BY <1>2
     DEF PollBegin, PollOff, PollTurnOff, CallOff, ToolOff, PostponeOff, PowerOff,
         OffReturns, OffReported
<1>3. CASE UNCHANGED toolOn
  BY <1>3
<1> QED
  BY <1>1, <1>2, <1>3
     DEF RunPinNext, runPinVars, ToolRunIsr, PollStep, PollFlag, PollStarted, PollStopped,
         SetupDoor, DoorTakesPin, StatusChanges, RunPinTick, ToolTick, RunPinBoot, ToolBoot

(* Calls of on(), off() and poll() that change neither the pin nor what is *)
(* known of it.                                                            *)
LEMMA CallsKeepOwed ==
  ASSUME RunPinTypeOK, OwedInv, [RunPinNext]_runPinVars,
         UNCHANGED <<changeFlag, onState>>,
         Looking' <=> Looking,
         pollPc' = "started" <=> pollPc = "started",
         UNCHANGED <<startAge, ran, missed>> \/ (startAge' = 0 /\ ran' = 0 /\ ~Looking)
  PROVE  OwedInv'
<1>1. toolOn' => toolOn \/ startAge' = 0
  BY UseBegins
<1>2. ran' >= 0 /\ (Owed' => Owed)
  BY DEF Owed, Starting, RunPinTypeOK
<1> QED BY <1>1, <1>2 DEF OwedInv, RunPinTypeOK

(* The two ages grow together while the tool runs or is to be looked at.   *)
LEMMA AgesTogether ==
  ASSUME NEW a \in 0 .. MaxAge, NEW b \in 0 .. MaxAge, a <= b
  PROVE  Older(a, MaxAge - 1) <= Older(b, MaxAge - 1)
BY RunPinAssumption DEF Older

(* The invariant is inductive.                                             *)
LEMMA OwedStep ==
  ASSUME RunPinTypeOK, OwedInv, [RunPinNext]_runPinVars
  PROVE  OwedInv'
<1> USE RunPinAssumption
<1>1. CASE ToolRunIsr
  BY <1>1 DEF ToolRunIsr, OwedInv, Owed, Starting, Looking, RunPinTypeOK, PollPlaces, toolVars
<1>2. CASE PollFlag
  BY <1>2 DEF PollFlag, OwedInv, Owed, Starting, Looking, RunPinTypeOK, PollPlaces, toolVars
<1>3. CASE PollStarted
  BY <1>3
     DEF PollStarted, StartRunning, OwedInv, Owed, Starting, Looking, RunPinTypeOK,
         PollPlaces, toolVars
<1>4. CASE PollStopped
  <2>1. CASE onState
    BY <1>4, <2>1
       DEF PollStopped, OwedInv, Owed, Starting, Looking, RunPinTypeOK, PollPlaces, toolVars
  <2>2. CASE ~onState /\ ~changeFlag
    BY <1>4, <2>2 DEF PollStopped, OwedInv, Owed, Looking
  <2>3. CASE ~onState /\ changeFlag
    <3>1. missed'
      BY <1>4, <2>3 DEF PollStopped, StopRunning, OwedInv, Looking
    <3> QED BY <1>4, <3>1 DEF PollStopped, OwedInv, Looking
  <2> QED BY <2>1, <2>2, <2>3 DEF RunPinTypeOK
<1>5. CASE RunPinTick
  <2>1. Owed' <=> Owed
    BY <1>5 DEF RunPinTick, Owed, Starting, Looking
  <2>4. UNCHANGED <<pollPc, changeFlag, onState>>
    BY <1>5 DEF RunPinTick
  <2>2. toolOn' = toolOn /\ missed' = missed /\ startAge' = Older(startAge, MaxAge - 1)
    BY <1>5 DEF RunPinTick, ToolTick
  <2>3. Owed => ran' = Older(ran, MaxAge - 1)
    BY <1>5 DEF RunPinTick, Owed
  <2> QED BY <2>1, <2>2, <2>3, <2>4, AgesTogether DEF OwedInv, RunPinTypeOK, Looking
<1>6. CASE RunPinBoot
  BY <1>6 DEF RunPinBoot, ToolBoot, OwedInv, Looking
<1>7. CASE PollBegin \/ PollOff \/ (\E c \in CardSet : CallOn(c)) \/ CallOff \/ OffReturns
             \/ SetupDoor \/ StatusChanges \/ UNCHANGED runPinVars
  BY <1>7, CallsKeepOwed
     DEF PollBegin, PollOff, CallOn, CallOff, OffReturns, SetupDoor, StatusChanges,
         runPinVars, runVars, Looking
<1> QED BY <1>1, <1>2, <1>3, <1>4, <1>5, <1>6, <1>7 DEF RunPinNext, PollStep

(* A run is recorded where poll() finds the pin at rest.                   *)
LEMMA RecordStep ==
  ASSUME RunPinTypeOK, OwedInv, [RunPinNext]_runPinVars, runtime' # runtime
  PROVE  missed \/ startAge <= ran
<1>1. PollStopped /\ ~onState /\ toolOn
  BY DEF RunPinNext, runPinVars, runVars, ToolRunIsr, PollStep, PollBegin, PollOff, PollFlag,
         PollStarted, PollStopped, StartRunning, CallOn, CallOff, OffReturns, SetupDoor,
         StatusChanges, RunPinTick, RunPinBoot
<1>2. Owed
  BY <1>1 DEF PollStopped, Owed, Starting, Looking
<1> QED BY <1>1, <1>2 DEF OwedInv

(***************************************************************************)
(* However late poll() comes and whenever the interrupt does, a run that   *)
(* is added to the run time is one the tool has really made, unless two    *)
(* changes of the pin have run into one poll().                            *)
(***************************************************************************)
THEOREM RecordedRunsAreReal == RunPinSpec => RunsAreReal
<1>1. RunPinInit => OwedInv
  BY DEF RunPinInit, ToolInit, OwedInv, Looking
<1>2. RunPinTypeOK /\ OwedInv /\ [RunPinNext]_runPinVars => OwedInv'
  BY OwedStep
<1>3. RunPinTypeOK /\ OwedInv /\ [RunPinNext]_runPinVars
        => [runtime' # runtime => missed \/ startAge <= ran]_runPinVars
  BY RecordStep
<1> QED BY <1>1, <1>2, <1>3, RunPinType, PTL DEF RunPinSpec, RunsAreReal

-----------------------------------------------------------------------------
(* The access control node                                                 *)

(* The parts of the invariants that are about the cache and the history.   *)
CacheType == cache \in [Uids -> {Absent} \union Levels]

GrantedType == granted \in [Uids -> Levels]

CacheGranted == \A u \in Uids : cache[u] <= granted[u]

(* While a card waits for its rights the reader has really shown one.      *)
ReaderInv == pc \in {"access", "menuAccess"} => cardOnReader.valid

(* The inductive invariant.  GrantedInv alone is not inductive: a permission*)
(* given while nothing is on the reader would belong to no UID.            *)
IInv == TypeOK /\ GrantedInv /\ ToolInv /\ ReaderInv

-----------------------------------------------------------------------------

(* Every operator on cards, and the lookup in the cache, yields a card.    *)
LEMMA CardOperators ==
  /\ NullCard \in CardSet
  /\ \A u \in Uids : PlainCard(u) \in CardSet
  /\ \A c \in CardSet : SetUser(c) \in CardSet /\ SetMaintainer(c) \in CardSet
  /\ \A c \in CardSet : Level(c) \in Levels
  /\ \A c \in CardSet : CacheGet(c) \in CardSet
<1>1. NullCard \in CardSet /\ \A u \in Uids : PlainCard(u) \in CardSet
  BY DEF NullCard, PlainCard, CardSet
<1>2. \A c \in CardSet : SetUser(c) \in CardSet /\ SetMaintainer(c) \in CardSet
  BY DEF SetUser, SetMaintainer, CardSet
<1>3. \A c \in CardSet : Level(c) \in Levels
  BY DEF Level, Levels
<1>4. ASSUME NEW c \in CardSet
      PROVE  CacheGet(c) \in CardSet
  <2>1. CASE c.uid \in Uids /\ cache[c.uid] # Absent
    <3>1. \A p, q \in BOOLEAN :
            [uid |-> c.uid, valid |-> TRUE, status |-> p, maintainer |-> q] \in CardSet
      BY <2>1 DEF CardSet
    <3>2. (cache[c.uid] >= 1) \in BOOLEAN /\ (cache[c.uid] = 2) \in BOOLEAN
      OBVIOUS
    <3> QED BY <3>1, <3>2, <2>1, Zenon DEF CacheGet
  <2>2. CASE ~(c.uid \in Uids /\ cache[c.uid] # Absent)
    BY <2>2, <1>1 DEF CacheGet
  <2> QED BY <2>1, <2>2
<1> QED BY <1>1, <1>2, <1>3, <1>4

(* A card found in the cache has no right that the server has not given.   *)
LEMMA CachedRights ==
  ASSUME CacheType, GrantedType, CacheGranted, NEW c \in CardSet
  PROVE  RightsGranted(CacheGet(c))
<1>1. CASE c.uid \in Uids /\ cache[c.uid] # Absent
  <2> DEFINE e == CacheGet(c)
  <2>1. /\ e.uid = c.uid
        /\ e.maintainer <=> cache[c.uid] = 2
        /\ e.status <=> cache[c.uid] >= 1
    BY <1>1 DEF CacheGet
  <2>2. cache[c.uid] \in Levels
    BY <1>1 DEF CacheType
  <2> HIDE DEF e
  <2>3. Level(e) <= cache[c.uid]
    BY <2>1, <2>2 DEF Level, IsUser, IsMaintainer, Levels
  <2>4. Level(e) <= granted[c.uid]
    BY <2>2, <2>3, <1>1 DEF CacheGranted, GrantedType, Levels, Level
  <2> QED BY <2>1, <2>4, <1>1 DEF RightsGranted, e
<1>2. CASE ~(c.uid \in Uids /\ cache[c.uid] # Absent)
  BY <1>2 DEF CacheGet, NullCard, RightsGranted
<1> QED BY <1>1, <1>2

(* The history only grows, and an answer of the server is in it.           *)
LEMMA Grants ==
  ASSUME GrantedType, NEW u \in Uids, NEW answer \in CardAnswers, Granting(u, answer)
  PROVE  /\ GrantedType'
         /\ \A v \in Uids : granted[v] <= granted'[v]
         /\ answer <= granted'[u]
BY DEF GrantedType, CardAnswers, Levels, Granting

(* A card the server was asked about gets, and leaves in the cache, at     *)
(* most what the answer gave.                                              *)
LEMMA Asked ==
  ASSUME CacheType, GrantedType, CacheGranted, cardOnReader \in CardSet, cardOnReader.valid,
         RightsGranted(cardOnReader), NEW answer \in CardAnswers, AskServer(answer)
  PROVE  /\ cardOnReader' \in CardSet
         /\ CacheType' /\ CacheGranted'
         /\ RightsGranted(cardOnReader)'
<1> DEFINE u == cardOnReader.uid
           c == IF answer = 2 THEN SetUser(SetMaintainer(cardOnReader)) ELSE SetUser(cardOnReader)
<1>1. u \in Uids /\ Level(cardOnReader) <= granted[u]
  BY DEF RightsGranted
<1>2. /\ GrantedType'
      /\ \A v \in Uids : granted[v] <= granted'[v]
      /\ answer <= granted'[u]
  BY <1>1, Grants DEF AskServer
<1>3. CASE answer \in {1, 2}
  <2>1. c \in CardSet /\ c.uid = u
    BY CardOperators DEF SetUser, SetMaintainer, CardSet
  <2>2. Level(c) \in Levels
    BY <2>1, CardOperators
  <2> HIDE DEF c
  <2>3. Level(c) <= granted'[u]
    <3>1. CASE answer = 2
      BY <3>1, <1>1, <1>2, <2>2 DEF Levels, GrantedType
    <3>2. CASE answer = 1 /\ cardOnReader.maintainer
      <4>1. Level(cardOnReader) = 2
        BY <3>2 DEF Level, IsMaintainer
      <4> QED BY <4>1, <1>1, <1>2, <2>2 DEF Levels, GrantedType
    <3>3. CASE answer = 1 /\ ~cardOnReader.maintainer
      <4>1. c = SetUser(cardOnReader)
        BY <3>3 DEF c
      <4>2. c.maintainer = cardOnReader.maintainer /\ c.status /\ c.valid
        BY <4>1 DEF SetUser, CardSet
      <4>3. Level(c) = 1
        BY <4>2, <3>3 DEF Level, IsMaintainer, IsUser
      <4> QED BY <4>3, <3>3, <1>2
    <3> QED BY <1>3, <3>1, <3>2, <3>3
  <2>4. cardOnReader' = c /\ cache' = [cache EXCEPT ![u] = Level(c)]
    BY <1>3, <2>1 DEF AskServer, CacheSet, c
  <2>5. CacheType'
    BY <2>4, <2>2, <1>1 DEF CacheType
  <2>6. CacheGranted'
    <3> SUFFICES ASSUME NEW v \in Uids PROVE cache'[v] <= granted'[v]
      BY DEF CacheGranted
    <3>1. CASE v = u
      BY <3>1, <2>3, <2>4 DEF CacheType
    <3>2. CASE v # u
      <4>1. cache'[v] = cache[v]
        BY <3>2, <2>4 DEF CacheType
      <4> QED BY <4>1, <1>2 DEF CacheGranted, CacheType, GrantedType, Levels, Absent
    <3> QED BY <3>1, <3>2
  <2>7. RightsGranted(cardOnReader)'
    <3>1. cardOnReader'.uid \in Uids /\ Level(cardOnReader') <= granted'[cardOnReader'.uid]
      BY <2>4, <2>3, <2>1, <1>1
    <3> QED BY <3>1 DEF RightsGranted
  <2> QED BY <2>1, <2>4, <2>5, <2>6, <2>7
<1>4. CASE answer \notin {1, 2}
  <2>1. UNCHANGED <<cardOnReader, cache>>
    BY <1>4 DEF AskServer
  <2>2. CacheGranted'
    BY <2>1, <1>2 DEF CacheType, CacheGranted, Levels, Absent, GrantedType
  <2>3. Level(cardOnReader) <= granted'[u]
    BY <1>1, <1>2, CardOperators DEF GrantedType, Levels
  <2>4. RightsGranted(cardOnReader)'
    BY <1>1, <2>1, <2>3 DEF RightsGranted
  <2> QED BY <2>1, <2>2, <2>4 DEF CacheType
<1> QED BY <1>3, <1>4

-----------------------------------------------------------------------------

(* The frames: which steps write the menu, the tool, the settings, the     *)
(* ages, the cache with the history, and the card on the reader.           *)

(* Who writes the menu.                                                    *)
LEMMA MenuFrame ==
  ASSUME [Next]_vars
  PROVE  \/ UNCHANGED menuVars
         \/ MenuReadNothing
         \/ \E event \in Presses : MenuStep(event) \/ RunMenu(event)
         \/ StoreStatus
         \/ Reset
BY DEF Next, ProgramStep, vars, Setup, Housekeeping, MenuReadCard, FirstReadCard,
       SecondReadCard, FirstReadNothing, SecondReadNothing, MenuAccess, Access,
       CardHasAccess, SendStatus, Deactivate, DeactivateOff, Activate, ActivateOn,
       VerifyCard, MaintainerListed, CacheForget, CliSaves, ServerEdit, Tick, OffReport,
       PollReport, HalfOfRun

(* Who writes the tool's variables.                                        *)
LEMMA ToolFrame ==
  ASSUME [Next]_vars
  PROVE  \/ UNCHANGED toolVars
         \/ Setup \/ Housekeeping \/ PollReport
         \/ DeactivateOff \/ OffReport \/ ActivateOn \/ Tick \/ Reset
BY DEF Next, ProgramStep, vars, MenuReadCard, FirstReadCard, SecondReadCard,
       MenuReadNothing, FirstReadNothing, SecondReadNothing, MenuAccess, Access,
       CardHasAccess, MenuStep, RunMenu, StoreStatus, SendStatus, Deactivate, Activate,
       VerifyCard, MaintainerListed, CacheForget, CliSaves, ServerEdit, OffReport,
       PollReport, HalfOfRun

(* Who writes the status.                                                  *)
LEMMA SettingsFrame ==
  ASSUME [Next]_vars
  PROVE  \/ UNCHANGED settingsVars
         \/ Setup \/ Housekeeping \/ StoreStatus \/ Deactivate \/ Activate \/ CliSaves \/ Reset
BY DEF Next, ProgramStep, vars, MenuReadCard, FirstReadCard, SecondReadCard,
       MenuReadNothing, FirstReadNothing, SecondReadNothing, MenuAccess, Access,
       CardHasAccess, MenuStep, RunMenu, MenuRun, Advance, SelectAddUser, SendStatus,
       DeactivateOff, ActivateOn, VerifyCard, MaintainerListed, CacheForget, ServerEdit,
       Tick, OffReport, PollReport, HalfOfRun

(* Who writes the ages.                                                    *)
LEMMA AgesFrame ==
  ASSUME [Next]_vars
  PROVE  \/ UNCHANGED ages
         \/ \E u \in Uids : MenuReadCard(u) \/ SecondReadCard(u)
         \/ Deactivate \/ Activate \/ Tick \/ Reset
BY DEF Next, ProgramStep, vars, nodeVars, Setup, Housekeeping, FirstReadCard,
       MenuReadNothing, FirstReadNothing, SecondReadNothing, MenuAccess, Access,
       CardHasAccess, MenuStep, RunMenu, StoreStatus, SendStatus, DeactivateOff,
       ActivateOn, VerifyCard, MaintainerListed, CacheForget, CliSaves, ServerEdit,
       OffReport, PollReport, HalfOfRun

(* Who writes the cache and the history.                                   *)
LEMMA OutsideFrame ==
  ASSUME [Next]_vars
  PROVE  \/ UNCHANGED <<cache, granted>>
         \/ MenuAccess \/ Access
         \/ \E u \in Uids, answer \in CardAnswers : VerifyCard(u, answer)
         \/ \E u \in Uids : MaintainerListed(u) \/ CacheForget(u)
         \/ Reset
<1>1. CASE ProgramStep
  BY <1>1
     DEF ProgramStep, outside, served, Setup, Housekeeping, PollReport, MenuReadCard,
         FirstReadCard, SecondReadCard, MenuReadNothing, FirstReadNothing,
         SecondReadNothing, MenuStep, RunMenu, StoreStatus, SendStatus, Deactivate,
         DeactivateOff, OffReport, Activate, ActivateOn
<1>2. CASE CliSaves \/ ServerEdit \/ Tick \/ UNCHANGED vars
  BY <1>2 DEF vars, outside, served, CliSaves, ServerEdit, Tick
<1> QED BY <1>1, <1>2 DEF Next

(* Who writes the history of the button.                                   *)
LEMMA SupervisedFrame ==
  ASSUME [Next]_vars
  PROVE  \/ UNCHANGED supervised
         \/ \E event \in Presses : MenuStep(event) \/ RunMenu(event)
         \/ MenuReadNothing \/ FirstReadNothing \/ SecondReadNothing
         \/ Reset
BY DEF Next, ProgramStep, vars, outside, Setup, Housekeeping, PollReport, MenuReadCard,
       FirstReadCard, SecondReadCard, MenuAccess, Access, CardHasAccess, SendStatus,
       StoreStatus, Deactivate, DeactivateOff, OffReport, Activate, ActivateOn,
       VerifyCard, MaintainerListed, CacheForget, CliSaves, ServerEdit, Tick

(* Who puts what on the reader.                                            *)
LEMMA ReaderFrame ==
  ASSUME [Next]_vars
  PROVE  \/ UNCHANGED cardOnReader
         \/ \E u \in Uids : cardOnReader' = PlainCard(u)
         \/ cardOnReader' = NullCard
         \/ MenuAccess \/ Access
BY DEF Next, ProgramStep, vars, nodeVars, Setup, Housekeeping, MenuReadCard,
       FirstReadCard, SecondReadCard, MenuReadNothing, FirstReadNothing,
       SecondReadNothing, MenuStep, RunMenu, StoreStatus, SendStatus, Deactivate,
       DeactivateOff, Activate, ActivateOn, VerifyCard, MaintainerListed, CacheForget,
       CliSaves, ServerEdit, Tick, Reset, OffReport, PollReport, HalfOfRun

-----------------------------------------------------------------------------

(* card_has_access() gives no right of its own, whichever way it finds the *)
(* card.                                                                   *)
LEMMA AccessStep ==
  ASSUME IInv, CardHasAccess, cardOnReader.valid
  PROVE  /\ cardOnReader' \in CardSet
         /\ RightsGranted(cardOnReader)'
         /\ CacheType' /\ GrantedType' /\ CacheGranted'
         /\ \A v \in Uids : granted[v] <= granted'[v]
<1> USE DEF CacheType, GrantedType, CacheGranted
<1>1. /\ CacheType /\ GrantedType /\ CacheGranted
      /\ cardOnReader \in CardSet /\ RightsGranted(cardOnReader)
  BY DEF IInv, TypeOK, GrantedInv
<1> HIDE DEF CacheType, GrantedType, CacheGranted
<1>2. CASE UseCached
  <2>1. cardOnReader' = CacheGet(cardOnReader) /\ UNCHANGED <<cache, granted>>
    BY <1>2 DEF UseCached
  <2>2. RightsGranted(CacheGet(cardOnReader)) /\ CacheGet(cardOnReader) \in CardSet
    BY <1>1, CachedRights, CardOperators
  <2>3. RightsGranted(cardOnReader)'
    BY <2>1, <2>2 DEF RightsGranted
  <2>4. \A v \in Uids : granted[v] <= granted'[v]
    BY <1>1, <2>1 DEF GrantedType, Levels
  <2> QED BY <1>1, <2>1, <2>2, <2>3, <2>4 DEF CacheType, GrantedType, CacheGranted
<1>3. CASE \E answer \in CardAnswers : AskServer(answer)
  <2>1. PICK answer \in CardAnswers : AskServer(answer)
    BY <1>3
  <2>2. cardOnReader.uid \in Uids
    BY <1>1 DEF RightsGranted
  <2>3. Granting(cardOnReader.uid, answer)
    BY <2>1 DEF AskServer
  <2>4. GrantedType' /\ \A v \in Uids : granted[v] <= granted'[v]
    BY <1>1, <2>2, <2>3, Grants
  <2> QED BY <1>1, <2>1, <2>4, Asked
<1> QED BY <1>2, <1>3 DEF CardHasAccess

(* The cache and the history: every step that writes them.                 *)
LEMMA CacheStep ==
  ASSUME IInv, [Next]_vars
  PROVE  /\ CacheType' /\ GrantedType' /\ CacheGranted'
         /\ \A v \in Uids : granted[v] <= granted'[v]
<1>1. CacheType /\ GrantedType /\ CacheGranted /\ ReaderInv
  BY DEF IInv, TypeOK, GrantedInv, CacheType, GrantedType, CacheGranted
<1>2. CASE UNCHANGED <<cache, granted>>
  BY <1>1, <1>2 DEF CacheType, GrantedType, CacheGranted, Levels
<1>3. CASE MenuAccess \/ Access
  <2>1. CardHasAccess /\ cardOnReader.valid
    BY <1>1, <1>3 DEF MenuAccess, Access, ReaderInv
  <2> QED BY <2>1, AccessStep
<1>4. CASE \E u \in Uids, answer \in CardAnswers : VerifyCard(u, answer)
  <2>1. PICK u \in Uids, answer \in CardAnswers : VerifyCard(u, answer)
    BY <1>4
  <2>2. /\ GrantedType' /\ answer <= granted'[u]
        /\ \A v \in Uids : granted[v] <= granted'[v]
    BY <1>1, <2>1, Grants DEF VerifyCard
  <2>3. PICK level \in {Absent} \union Levels :
          level <= granted'[u] /\ cache' \in {cache, [cache EXCEPT ![u] = level]}
    BY <2>1, <2>2 DEF VerifyCard, Absent, Levels, GrantedType, CardAnswers
  <2>4. CacheType'
    BY <1>1, <2>3 DEF CacheType
  <2>5. CacheGranted'
    BY <1>1, <2>2, <2>3 DEF CacheType, CacheGranted, GrantedType, Levels, Absent
  <2> QED BY <2>2, <2>4, <2>5
<1>5. CASE \E u \in Uids : MaintainerListed(u)
  <2>1. PICK u \in Uids : MaintainerListed(u)
    BY <1>5
  <2>2. /\ GrantedType' /\ 2 <= granted'[u]
        /\ \A v \in Uids : granted[v] <= granted'[v]
    BY <1>1, <2>1, Grants DEF MaintainerListed, CardAnswers, Levels
  <2>3. cache' = [cache EXCEPT ![u] = 2]
    BY <2>1 DEF MaintainerListed
  <2>4. CacheType'
    BY <1>1, <2>3 DEF CacheType, Levels
  <2>5. CacheGranted'
    BY <1>1, <2>2, <2>3 DEF CacheType, CacheGranted, GrantedType, Levels, Absent
  <2> QED BY <2>2, <2>4, <2>5
<1>6. CASE \E u \in Uids : CacheForget(u)
  <2>1. PICK u \in Uids : cache' = [cache EXCEPT ![u] = Absent] /\ granted' = granted
    BY <1>6 DEF CacheForget, OffReport, PollReport, HalfOfRun
  <2> QED BY <1>1, <2>1 DEF CacheType, CacheGranted, GrantedType, Levels, Absent
<1>7. CASE Reset
  <2>1. /\ cache' = [u \in Uids |-> IF cache[u] \in Persistent THEN cache[u] ELSE Absent]
        /\ granted' = granted
    BY <1>7 DEF Reset
  <2> QED BY <1>1, <2>1 DEF CacheType, CacheGranted, GrantedType, Levels, Absent
<1> QED BY <1>2, <1>3, <1>4, <1>5, <1>6, <1>7, OutsideFrame

(* A card that had only granted rights still does once the history has     *)
(* grown.                                                                  *)
LEMMA RightsGrow ==
  ASSUME GrantedType, GrantedType', \A v \in Uids : granted[v] <= granted'[v],
         NEW c \in CardSet, RightsGranted(c)
  PROVE  c.valid => c.uid \in Uids /\ Level(c) <= granted'[c.uid]
BY CardOperators DEF GrantedType, RightsGranted, Levels

(* The card on the reader.                                                 *)
LEMMA ReaderStep ==
  ASSUME IInv, [Next]_vars
  PROVE  cardOnReader' \in CardSet /\ RightsGranted(cardOnReader)'
<1>1. cardOnReader \in CardSet /\ RightsGranted(cardOnReader) /\ GrantedType /\ ReaderInv
  BY DEF IInv, TypeOK, GrantedInv, GrantedType
<1>2. GrantedType' /\ \A v \in Uids : granted[v] <= granted'[v]
  BY CacheStep
<1>3. CASE UNCHANGED cardOnReader
  BY <1>1, <1>2, <1>3, RightsGrow DEF RightsGranted
<1>4. CASE \E u \in Uids : cardOnReader' = PlainCard(u)
  <2>1. PICK u \in Uids : cardOnReader' = PlainCard(u)
    BY <1>4
  <2>2. Level(PlainCard(u)) = 0 /\ PlainCard(u).uid = u
    BY DEF PlainCard, Level, IsUser, IsMaintainer
  <2>3. 0 <= granted'[u]
    BY <1>2 DEF GrantedType, Levels
  <2>4. RightsGranted(cardOnReader)'
    BY <2>1, <2>2, <2>3 DEF RightsGranted
  <2> QED BY <2>1, <2>4, CardOperators
<1>5. CASE cardOnReader' = NullCard
  BY <1>5, CardOperators DEF RightsGranted, NullCard
<1>6. CASE MenuAccess \/ Access
  <2>1. CardHasAccess /\ cardOnReader.valid
    BY <1>1, <1>6 DEF MenuAccess, Access, ReaderInv
  <2> QED BY <2>1, AccessStep
<1> QED BY <1>3, <1>4, <1>5, <1>6, ReaderFrame

(* Where the program is, and what that says of the card on the reader.     *)
LEMMA PcStep ==
  ASSUME IInv, [Next]_vars
  PROVE  /\ pc' \in Locations
         /\ pc' \in {"run", "activate", "on"} => IsUser(cardOnReader')
         /\ ReaderInv'
<1>1. /\ pc \in Locations
      /\ pc \in {"run", "activate", "on"} => IsUser(cardOnReader)
      /\ ReaderInv
  BY DEF IInv, TypeOK, GrantedInv
<1>2. \A u \in Uids : PlainCard(u).valid
  BY DEF PlainCard
<1> QED
  BY <1>1, <1>2
     DEF Next, ProgramStep, vars, nodeVars, ReaderInv, Locations, Setup, Housekeeping,
         MenuReadCard, FirstReadCard, SecondReadCard, MenuReadNothing, FirstReadNothing,
         SecondReadNothing, MenuAccess, Access, MenuStep, RunMenu, SendStatus,
         StoreStatus, Deactivate, DeactivateOff, Activate, ActivateOn, VerifyCard,
         MaintainerListed, CacheForget, CliSaves, ServerEdit, Tick, Reset, OffReport,
         PollReport, HalfOfRun

(* Every step of the node is a step of Tool, or none.                      *)
LEMMA NodeUsesTool ==
  ASSUME IInv, [Next]_vars
  PROVE  [ToolNext]_toolVars
<1>1. CASE ActivateOn
  <2>1. cardOnReader \in CardSet /\ IsUser(cardOnReader) /\ ToolOn(cardOnReader)
    BY <1>1 DEF IInv, TypeOK, GrantedInv, ActivateOn
  <2> QED BY <2>1 DEF ToolNext
<1>2. CASE Setup \/ Housekeeping \/ PollReport
  BY <1>2 DEF Setup, Housekeeping, PollReport, ToolNext
<1>3. CASE DeactivateOff \/ OffReport \/ Tick \/ Reset
  BY <1>3 DEF DeactivateOff, OffReport, Tick, Reset, ToolNext
<1> QED BY <1>1, <1>2, <1>3, ToolFrame

(* The tool's user was the card on the reader.                             *)
LEMMA ToolUserStep ==
  ASSUME IInv, [Next]_vars
  PROVE  RightsGranted(toolUser)'
<1>1. /\ toolUser \in CardSet /\ RightsGranted(toolUser) /\ GrantedType
      /\ cardOnReader \in CardSet /\ RightsGranted(cardOnReader)
  BY DEF IInv, TypeOK, ToolTypeOK, GrantedInv, GrantedType
<1>2. GrantedType' /\ \A v \in Uids : granted[v] <= granted'[v]
  BY CacheStep
<1>3. toolUser' = toolUser \/ toolUser' = cardOnReader \/ toolUser' = NullCard
  BY ToolFrame
     DEF Setup, DoorTakesPin, Housekeeping, PollTurnOff, PowerOff, DeactivateOff,
         ToolOff, PostponeOff, ActivateOn, ToolOn, IgnoreUser, SwitchOn, KeepOn, Tick,
         ToolTick, Reset, ToolBoot, toolVars, OffReported, PollReport, OffReport
<1>4. ~NullCard.valid
  BY DEF NullCard
<1> QED BY <1>1, <1>2, <1>3, <1>4, RightsGrow DEF RightsGranted

(* The menu, and the card that adds a user, which was the card on the      *)
(* reader.                                                                 *)
LEMMA AddedByStep ==
  ASSUME IInv, [Next]_vars
  PROVE  MenuTypeOK' /\ RightsGranted(addedBy)'
<1>1. /\ addedBy \in CardSet /\ RightsGranted(addedBy) /\ GrantedType /\ menuState \in MenuStates
      /\ cardOnReader \in CardSet /\ RightsGranted(cardOnReader)
  BY DEF IInv, TypeOK, MenuTypeOK, GrantedInv, GrantedType
<1>2. GrantedType' /\ \A v \in Uids : granted[v] <= granted'[v]
  BY CacheStep
<1>3. addedBy' = addedBy \/ addedBy' = cardOnReader \/ addedBy' = NullCard
  BY MenuFrame
     DEF menuVars, MenuReadNothing, MenuStep, RunMenu, MenuRun, Advance, SelectAddUser,
         MenuReset, StoreStatus, StoreSelectedStatus, Reset
<1>4. ~NullCard.valid
  BY DEF NullCard
<1>5. menuState' \in MenuStates
  BY <1>1, MenuFrame
     DEF menuVars, MenuReadNothing, MenuStep, RunMenu, MenuRun, Advance, NextItem,
         SelectAddUser, MenuReset, StoreStatus, StoreSelectedStatus, Reset, MenuStates
<1>6. addedBy' \in CardSet
  BY <1>1, <1>3, CardOperators
<1>7. RightsGranted(addedBy)'
  BY <1>1, <1>2, <1>3, <1>4, RightsGrow DEF RightsGranted
<1> QED BY <1>5, <1>6, <1>7 DEF MenuTypeOK

(* The one-bit setting stays a bit whatever the server answers, -1         *)
(* included.                                                               *)
LEMMA StatusBit ==
  ASSUME serverStatus \in {0, 1}, NEW answer \in StatusAnswers
  PROVE  StatusField(answer) \in {0, 1}
BY DEF StatusAnswers, StatusField

(* The settings and the status in the database.                            *)
LEMMA SettingsStep ==
  ASSUME IInv, [Next]_vars
  PROVE  SettingsTypeOK' /\ serverStatus' \in {0, 1}
<1>1. status \in {0, 1} /\ saved \in {0, 1} /\ serverStatus \in {0, 1}
  BY DEF IInv, TypeOK, SettingsTypeOK
<1>2. serverStatus' \in {0, 1}
  BY <1>1
     DEF Next, ProgramStep, vars, outside, Setup, Housekeeping, MenuReadCard,
         FirstReadCard, SecondReadCard, MenuReadNothing, FirstReadNothing,
         SecondReadNothing, MenuAccess, Access, CardHasAccess, MenuStep, RunMenu,
         SendStatus, SelectedStatus, StoreStatus, Deactivate, DeactivateOff, Activate,
         ActivateOn, VerifyCard, MaintainerListed, CacheForget, CliSaves, ServerEdit,
         Tick, Reset, OffReport, PollReport, HalfOfRun, served
<1>3. CASE Setup \/ Housekeeping \/ StoreStatus \/ CliSaves \/ Reset
  BY <1>1, <1>2, <1>3
     DEF Setup, StatusAnswers, Housekeeping, StoreStatus, StoreSelectedStatus,
         SelectedStatus, CliSaves, Reset, SetSettings, GetSettings, settingsVars,
         SettingsTypeOK
<1>4. CASE Deactivate \/ Activate
  BY <1>1, <1>2, <1>4, StatusBit
     DEF Deactivate, Activate, IsEnabled, settingsVars, SettingsTypeOK
<1>5. CASE UNCHANGED settingsVars
  BY <1>1, <1>2, <1>5 DEF settingsVars, SettingsTypeOK
<1> QED BY <1>2, <1>3, <1>4, <1>5, SettingsFrame

(* The ages.                                                               *)
LEMMA AgesStep ==
  ASSUME IInv, [Next]_vars
  PROVE  seenAge' \in 0 .. SeenCap /\ checkAge' \in 0 .. StatusPeriod + 1
<1>1. /\ seenAge \in 0 .. SeenCap /\ checkAge \in 0 .. StatusPeriod + 1
      /\ OffDelay \in Nat /\ AddTimeout \in Nat /\ StatusPeriod \in Nat /\ BootAge \in Nat
  BY ACNodeAssumption DEF IInv, TypeOK
<1>2. CASE Tick
  BY <1>1, <1>2, OlderBounded DEF Tick, SeenCap
<1>3. CASE (\E u \in Uids : MenuReadCard(u) \/ SecondReadCard(u)) \/ Deactivate \/ Activate \/ Reset
  BY <1>1, <1>3
     DEF MenuReadCard, SecondReadCard, Deactivate, Activate, IsEnabled, Reset, SeenCap
<1>4. CASE UNCHANGED ages
  BY <1>1, <1>4 DEF ages
<1> QED BY <1>2, <1>3, <1>4, AgesFrame

(* The two flags of the announcements.                                     *)
LEMMA AnnouncedStep ==
  ASSUME IInv, [Next]_vars
  PROVE  cardAnnounced' \in BOOLEAN /\ deactivationAnnounced' \in BOOLEAN
<1>1. cardAnnounced \in BOOLEAN /\ deactivationAnnounced \in BOOLEAN
  BY DEF IInv, TypeOK
<1>2. CASE DeactivateOff \/ OffReport
  BY <1>1, <1>2, Zenon DEF DeactivateOff, OffReport, AnnounceOff
<1>3. CASE ~DeactivateOff /\ ~OffReport
  BY <1>1, <1>3, Zenon
     DEF Next, ProgramStep, vars, nodeVars, announced, Setup, Housekeeping, PollReport,
         MenuReadCard, FirstReadCard, SecondReadCard, MenuReadNothing,
         FirstReadNothing, SecondReadNothing, MenuAccess, Access, CardHasAccess,
         UseCached, AskServer, AnnounceCard, MenuStep, RunMenu, SendStatus, StoreStatus,
         Deactivate, Activate, ActivateOn, VerifyCard, MaintainerListed, CacheForget,
         CliSaves, ServerEdit, Tick, Reset
<1> QED BY <1>2, <1>3

(* The history of the button.                                              *)
LEMMA SupervisedStep ==
  ASSUME IInv, [Next]_vars
  PROVE  supervised' \in BOOLEAN
BY SupervisedFrame, Zenon
   DEF IInv, TypeOK, MenuStep, RunMenu, Pressed, MenuReadNothing, FirstReadNothing,
       SecondReadNothing, EmptyRead, Reset

(* The invariant is inductive.                                             *)
LEMMA IInvStep == IInv /\ [Next]_vars => IInv'
<1> SUFFICES ASSUME IInv, [Next]_vars PROVE IInv'
  OBVIOUS
<1>1. ToolTypeOK' /\ ToolInv'
  BY NodeUsesTool, TypeStep, InvStep DEF IInv, TypeOK
<1>2. TypeOK'
  BY <1>1, SettingsStep, AddedByStep, PcStep, ReaderStep, AgesStep, AnnouncedStep,
       CacheStep, SupervisedStep
     DEF TypeOK, CacheType, GrantedType
<1>3. GrantedInv'
  BY <1>1, CacheStep, ReaderStep, AddedByStep, ToolUserStep, PcStep
     DEF GrantedInv, CacheGranted, ToolInv
<1> QED BY <1>1, <1>2, <1>3, PcStep DEF IInv

(* The invariant holds after power on.                                     *)
LEMMA IInvInit == Init => IInv
<1> SUFFICES ASSUME Init PROVE IInv
  OBVIOUS
<1>1. ToolTypeOK /\ ToolInv
  BY TypeInit, InvInit DEF Init
<1>2. seenAge \in 0 .. SeenCap /\ checkAge \in 0 .. StatusPeriod + 1
  BY ACNodeAssumption DEF Init, SeenCap
<1>3. TypeOK
  BY <1>1, <1>2, CardOperators
     DEF Init, TypeOK, SettingsTypeOK, MenuTypeOK, MenuInit, MenuStates, Locations
<1>4. ~NullCard.valid
  BY DEF NullCard
<1>5. GrantedInv
  BY <1>4, <1>1 DEF Init, GrantedInv, RightsGranted, ToolInv, ToolInit, MenuInit
<1> QED BY <1>1, <1>3, <1>5 DEF IInv, ReaderInv, Init

(* The invariant holds throughout.                                         *)
LEMMA Invariant == Spec => []IInv
BY IInvInit, IInvStep, PTL DEF Spec

(***************************************************************************)
(* Type correctness of the node.                                           *)
(***************************************************************************)
THEOREM NodeType == Spec => []TypeOK
BY Invariant, PTL DEF IInv

(***************************************************************************)
(* No right appears on the reader, in the cache, in the menu or in the     *)
(* tool that the acserver has not given to that card.                      *)
(***************************************************************************)
THEOREM RightsComeFromServer == Spec => []GrantedInv
BY Invariant, PTL DEF IInv

(***************************************************************************)
(* The node uses the tool only as Tool allows.                             *)
(***************************************************************************)
THEOREM NodeKeepsToToolSpec == Spec => UsesTool
<1>1. Init => ToolInit
  BY DEF Init
<1>2. IInv /\ [Next]_vars => [ToolNext]_toolVars
  BY NodeUsesTool
<1> QED BY <1>1, <1>2, Invariant, PTL DEF Spec, UsesTool, ToolSpec

(***************************************************************************)
(* The tool stays on for the minimum time in the node, too.                *)
(***************************************************************************)
THEOREM NodeKeepsMinimumTime == Spec => MinOnTime
BY NodeKeepsToToolSpec, StaysOnForMinimumTime, PTL DEF UsesTool

-----------------------------------------------------------------------------

(* The refinement of AccessPromise.                                        *)

(* The initial states of the node are initial states of the promise.       *)
LEMMA PromiseInitially == Init => Promise!PromiseInit
BY DEF Init, ToolInit, Promise!PromiseInit, Levels

(* An answer of the server is a grant of the promise, or says nothing new. *)
LEMMA ServerGrant ==
  ASSUME IInv, NEW u \in Uids, NEW answer \in CardAnswers, Granting(u, answer),
         UNCHANGED <<toolVars, settingsVars>>
  PROVE  [Promise!PromiseNext]_Promise!promiseVars
<1>1. granted \in [Uids -> 0 .. 2] /\ UNCHANGED <<toolOn, toolUser, status>>
  BY DEF IInv, TypeOK, Levels, toolVars, settingsVars
<1>2. CASE answer > granted[u]
  <2>1. answer \in 1 .. 2 /\ granted' = [granted EXCEPT ![u] = answer]
    BY <1>1, <1>2 DEF Granting, CardAnswers, Levels
  <2>2. Promise!ServerGrants(u, answer)
    BY <1>1, <1>2, <2>1 DEF Promise!ServerGrants
  <2> QED BY <2>1, <2>2 DEF Promise!PromiseNext
<1>3. CASE ~(answer > granted[u])
  BY <1>1, <1>3 DEF Granting, Promise!promiseVars
<1> QED BY <1>2, <1>3

(* A card that Tool::on() does not ignore may start the tool by the        *)
(* promise.                                                                *)
LEMMA UserMayStart ==
  ASSUME IInv, NEW c \in CardSet, IsUser(c), RightsGranted(c), ~Ignored(c)
  PROVE  c.uid \in Uids /\ (granted[c.uid] = 2 \/ (status = 1 /\ granted[c.uid] = 1))
<1>1. c.uid \in Uids /\ Level(c) <= granted[c.uid] /\ granted[c.uid] \in Levels /\ status \in {0, 1}
  BY DEF IInv, TypeOK, SettingsTypeOK, RightsGranted, IsUser
<1>2. CASE IsMaintainer(c)
  BY <1>1, <1>2 DEF Level, Levels
<1>3. CASE ~IsMaintainer(c)
  BY <1>1, <1>3 DEF Level, Levels, Ignored
<1> QED BY <1>2, <1>3

(* Every step of the node is a step of the promise, or none of its.        *)
LEMMA PromiseStep ==
  ASSUME IInv, [Next]_vars
  PROVE  [Promise!PromiseNext]_Promise!promiseVars
<1>1. status \in {0, 1} /\ status' \in {0, 1} /\ granted \in [Uids -> Levels]
  BY SettingsStep DEF IInv, TypeOK, SettingsTypeOK
<1>2. CASE MenuAccess \/ Access
  <2>1. CardHasAccess /\ cardOnReader.uid \in Uids
    BY <1>2 DEF IInv, GrantedInv, RightsGranted, ReaderInv, MenuAccess, Access
  <2>2. CASE UseCached
    BY <2>1, <2>2
       DEF CardHasAccess, UseCached, toolVars, settingsVars, Promise!promiseVars
  <2>3. CASE \E answer \in CardAnswers : AskServer(answer)
    BY <2>1, <2>3, ServerGrant DEF CardHasAccess, AskServer
  <2> QED BY <2>1, <2>2, <2>3 DEF CardHasAccess
<1>3. CASE \E u \in Uids, answer \in CardAnswers : VerifyCard(u, answer)
  BY <1>3, ServerGrant DEF VerifyCard
<1>4. CASE \E u \in Uids : MaintainerListed(u)
  <2>1. 2 \in CardAnswers
    BY DEF CardAnswers, Levels
  <2> QED BY <1>4, <2>1, ServerGrant DEF MaintainerListed
<1>5. CASE ActivateOn
  <2>1. /\ UNCHANGED <<status, granted>>
        /\ cardOnReader \in CardSet /\ IsUser(cardOnReader) /\ RightsGranted(cardOnReader)
    BY <1>5 DEF ActivateOn, settingsVars, outside, IInv, TypeOK, GrantedInv, served
  <2>2. CASE SwitchOn(cardOnReader)
    <3>1. Promise!Start(cardOnReader.uid) /\ cardOnReader.uid \in Uids
      BY <2>1, <2>2, UserMayStart DEF SwitchOn, Promise!Start
    <3> QED BY <3>1 DEF Promise!PromiseNext
  <2>3. CASE IgnoreUser(cardOnReader) \/ KeepOn
    BY <2>1, <2>3 DEF IgnoreUser, KeepOn, toolVars, Promise!promiseVars
  <2> QED BY <1>5, <2>2, <2>3 DEF ActivateOn, ToolOn
<1>6. CASE PollReport \/ OffReport
  <2>1. ~toolOn' /\ UNCHANGED <<status, granted>>
    BY <1>6 DEF PollReport, OffReport, OffReported, settingsVars, outside, served
  <2> QED BY <2>1 DEF Promise!PromiseNext, Promise!Stop
<1>7. CASE Reset
  <2>1. ~toolOn' /\ granted' = granted
    BY <1>7 DEF Reset, ToolBoot
  <2> QED BY <1>1, <2>1 DEF Promise!PromiseNext, Promise!Restart
<1>8. CASE UNCHANGED <<toolOn, toolUser, granted>>
  <2>1. Promise!ServiceChanges
    BY <1>8, Zenon DEF Promise!ServiceChanges
  <2> QED BY <2>1 DEF Promise!PromiseNext
<1>9. CASE Setup \/ Housekeeping \/ DeactivateOff \/ Tick
  <2>1. UNCHANGED <<toolOn, toolUser>>
    BY <1>9
       DEF Setup, DoorTakesPin, Housekeeping, PollTurnOff, DeactivateOff, ToolOff,
           PostponeOff, PowerOff, Tick, ToolTick, toolVars
  <2>2. UNCHANGED granted
    BY <1>9 DEF Setup, Housekeeping, DeactivateOff, Tick, outside, served
  <2> QED BY <1>8, <2>1, <2>2
<1>10. CASE UNCHANGED toolVars /\ UNCHANGED <<cache, granted>>
  BY <1>8, <1>10 DEF toolVars
<1>11. CASE \E u \in Uids : CacheForget(u)
  BY <1>8, <1>11 DEF CacheForget, toolVars
<1> QED BY <1>2, <1>3, <1>4, <1>5, <1>6, <1>7, <1>9, <1>10, <1>11, ToolFrame,
     OutsideFrame

(***************************************************************************)
(* The node implements AccessPromise: the tool is switched on only for a   *)
(* card with the permission, and has one user at a time.                   *)
(***************************************************************************)
THEOREM NodeKeepsPromise == Spec => KeepsPromise
<1>1. IInv /\ [Next]_vars => [Promise!PromiseNext]_Promise!promiseVars
  BY PromiseStep
<1> QED BY <1>1, PromiseInitially, Invariant, PTL
   DEF Spec, KeepsPromise, Promise!PromiseSpec

-----------------------------------------------------------------------------

(* A switch-off to come is to be announced, already on the way to on().    *)
AnnounceInv == toolOn \/ pc = "on" => ~deactivationAnnounced

(* Who writes deactivationAnnounced, and who leads to ActivateOn.          *)
LEMMA AnnounceFrame ==
  ASSUME [Next]_vars
  PROVE  \/ UNCHANGED deactivationAnnounced /\ (pc' = "on" => pc = "on")
         \/ Activate \/ DeactivateOff \/ OffReport \/ Reset
BY DEF Next, ProgramStep, vars, Setup, Housekeeping, MenuReadCard, FirstReadCard,
       SecondReadCard, MenuReadNothing, FirstReadNothing, SecondReadNothing, MenuAccess,
       Access, CardHasAccess, MenuStep, RunMenu, SendStatus, StoreStatus, Deactivate,
       DeactivateOff, Activate, ActivateOn, VerifyCard, MaintainerListed, CacheForget,
       CliSaves, ServerEdit, Tick, Reset, announced, nodeVars, PollReport,
       HalfOfRun

(* The flag is clear whenever on() has been, or is about to be, called.    *)
LEMMA AnnounceStep ==
  ASSUME AnnounceInv, [Next]_vars
  PROVE  AnnounceInv'
<1>1. toolOn' => toolOn \/ pc = "on"
  BY ToolFrame
     DEF Setup, DoorTakesPin, Housekeeping, PollTurnOff, PowerOff, DeactivateOff,
         ToolOff, PostponeOff, ActivateOn, Tick, ToolTick, Reset, ToolBoot, toolVars,
         OffReported, PollReport, OffReport
<1>2. CASE UNCHANGED deactivationAnnounced /\ (pc' = "on" => pc = "on")
  BY <1>1, <1>2 DEF AnnounceInv
<1>3. CASE Activate
  BY <1>3 DEF Activate, AnnounceInv
<1>4. CASE DeactivateOff \/ OffReport
  <2>1. pc \in {"off", "offReport"} /\ pc' # "on"
    BY <1>4 DEF DeactivateOff, OffReport
  <2>2. toolOn' => ~deactivationAnnounced'
    BY <1>1, <1>4, <2>1, Zenon DEF DeactivateOff, OffReport, AnnounceOff, AnnounceInv
  <2> QED BY <2>1, <2>2 DEF AnnounceInv
<1>5. CASE Reset
  BY <1>5 DEF Reset, AnnounceInv
<1> QED BY <1>2, <1>3, <1>4, <1>5, AnnounceFrame

(***************************************************************************)
(* While the tool is on, its switch-off is still to be announced.          *)
(***************************************************************************)
THEOREM SwitchOffIsAnnounced == Spec => []OffStillToAnnounce
<1>1. Init => AnnounceInv
  BY DEF Init, AnnounceInv
<1>2. IInv /\ AnnounceInv /\ [Next]_vars => AnnounceInv'
  BY AnnounceStep
<1>3. AnnounceInv => OffStillToAnnounce
  BY DEF AnnounceInv, OffStillToAnnounce
<1> QED BY <1>1, <1>2, <1>3, Invariant, PTL DEF Spec

-----------------------------------------------------------------------------

(* The menu is idle wherever run() is in its other half, and shows at most *)
(* a first choice on the way from there to on().                           *)
IdleAt == {"setup", "firstRead", "deactivate", "off", "offReport", "secondRead", "access",
           "run"}

OfferedItems == {"IDLE", "READY_TO_ADD_USER", "READY_TO_TAKE_OFFLINE"}

MenuInv ==
  /\ pc \in IdleAt => menuState = "IDLE"
  /\ pc \in {"activate", "on"} => menuState \in OfferedItems
  /\ ShownStatusIsSaved

(* Where the program can be with the menu active.                          *)
LEMMA MenuPlaceStep ==
  ASSUME pc \in Locations, MenuInv, [Next]_vars
  PROVE  /\ pc' \in IdleAt => menuState' = "IDLE"
         /\ pc' \in {"activate", "on"} => menuState' \in OfferedItems
<1> USE DEF MenuInv, IdleAt, OfferedItems, Locations, menuVars
<1>1. CASE MenuReadNothing
  BY <1>1 DEF MenuReadNothing
<1>2. CASE \E event \in Presses : MenuStep(event)
  BY <1>2 DEF MenuStep
<1>3. CASE \E event \in Presses : RunMenu(event)
  BY <1>3 DEF RunMenu, MenuRun, Advance, NextItem, SelectAddUser, MenuReset
<1>4. CASE StoreStatus
  BY <1>4 DEF StoreStatus
<1>5. CASE Reset
  BY <1>5 DEF Reset, MenuReset
<1>6. CASE UNCHANGED menuVars
  BY <1>6
     DEF Next, ProgramStep, vars, Setup, Housekeeping, MenuReadCard, FirstReadCard,
         SecondReadCard, MenuReadNothing, FirstReadNothing, SecondReadNothing,
         MenuAccess, Access, CardHasAccess, MenuStep, RunMenu, SendStatus, StoreStatus,
         Deactivate, DeactivateOff, Activate, ActivateOn, VerifyCard, MaintainerListed,
         CacheForget, CliSaves, ServerEdit, Tick, Reset, nodeVars, MenuActive,
         MenuReset, OffReport, PollReport, HalfOfRun
<1> QED BY <1>1, <1>2, <1>3, <1>4, <1>5, <1>6, MenuFrame

(* No step leaves the menu showing a status that is not the node's.        *)
LEMMA ShownStep ==
  ASSUME IInv, MenuInv, [Next]_vars
  PROVE  ShownStatusIsSaved'
<1>1. status \in {0, 1} /\ saved \in {0, 1} /\ pc \in Locations
  BY DEF IInv, TypeOK, SettingsTypeOK
<1> USE DEF MenuInv, ShownStatusIsSaved, settingsVars, menuVars
<1>2. CASE StoreStatus
  BY <1>2 DEF StoreStatus, StoreSelectedStatus, SetSettings, SelectedStatus, StatusItems
<1>3. CASE Reset
  BY <1>3 DEF Reset, MenuReset
<1>4. CASE Setup \/ Deactivate \/ Activate
  BY <1>4 DEF Setup, Deactivate, Activate, IdleAt, OfferedItems
<1>5. CASE Housekeeping \/ CliSaves
  BY <1>5 DEF Housekeeping, CliSaves, SetSettings
<1>6. CASE UNCHANGED settingsVars
  <2>1. menuState' = menuState \/ menuState' \notin {"TAKEN_OFFLINE", "TAKEN_ONLINE"} \/ StoreStatus
    BY MenuFrame
       DEF MenuReadNothing, MenuStep, RunMenu, MenuRun, Advance, NextItem,
           SelectAddUser, MenuReset, Reset
  <2> QED BY <1>2, <1>6, <2>1
<1> QED BY <1>2, <1>3, <1>4, <1>5, <1>6, SettingsFrame

(* The menu is where it belongs throughout.                                *)
LEMMA MenuInvariant == Spec => []MenuInv
<1>1. Init => MenuInv
  BY DEF Init, MenuInit, MenuInv, ShownStatusIsSaved, IdleAt
<1>2. IInv /\ MenuInv /\ [Next]_vars => MenuInv'
  BY MenuPlaceStep, ShownStep DEF IInv, TypeOK, MenuInv
<1> QED BY <1>1, <1>2, Invariant, PTL DEF Spec

(***************************************************************************)
(* A status the menu shows as set is the node's, and is saved.             *)
(***************************************************************************)
THEOREM MenuShowsTheTruth == Spec => []ShownStatusIsSaved
<1>1. MenuInv => ShownStatusIsSaved
  BY DEF MenuInv
<1> QED BY <1>1, MenuInvariant, PTL

-----------------------------------------------------------------------------

(* The items of the menu that are for maintainers.                         *)
MaintainerItems == {"READY_TO_ADD_USER", "READY_TO_TAKE_ONLINE"}

(* Who has the rights of a maintainer was named one by the server, and     *)
(* remains so.                                                             *)
LEMMA MaintainerGranted ==
  ASSUME IInv, NEW c \in CardSet, RightsGranted(c), IsMaintainer(c)
  PROVE  c.valid /\ c.uid \in Uids /\ granted[c.uid] = 2
<1>1. c.valid /\ Level(c) = 2 /\ c.uid \in Uids /\ Level(c) <= granted[c.uid]
  BY DEF RightsGranted, IsMaintainer, Level
<1>2. granted[c.uid] \in Levels
  BY <1>1 DEF IInv, TypeOK
<1> QED BY <1>1, <1>2 DEF Levels

(* Asking for the rights of a card does not make another card of it.       *)
LEMMA AccessSameCard ==
  ASSUME IInv, CardHasAccess, cardOnReader.valid
  PROVE  /\ cardOnReader'.uid = cardOnReader.uid
         /\ ZeroUid \notin Uids => cardOnReader'.valid
<1>1. cardOnReader \in CardSet /\ cardOnReader.uid \in Uids
  BY DEF IInv, TypeOK, GrantedInv, RightsGranted
<1>2. CASE UseCached
  <2>1. cardOnReader' = CacheGet(cardOnReader) /\ cardOnReader'.uid = cardOnReader.uid
    BY <1>2 DEF UseCached, InCache, CompareUid
  <2>2. ZeroUid \notin Uids => CacheGet(cardOnReader) # NullCard
    BY <1>1, <2>1 DEF NullCard
  <2>3. CacheGet(cardOnReader) # NullCard => CacheGet(cardOnReader).valid
    BY DEF CacheGet
  <2> QED BY <2>1, <2>2, <2>3
<1>3. CASE \E answer \in CardAnswers : AskServer(answer)
  <2>1. \A c \in CardSet : /\ SetUser(c).uid = c.uid /\ SetUser(c).valid
                           /\ SetMaintainer(c).uid = c.uid
    BY DEF SetUser, SetMaintainer, CardSet
  <2>2. \/ cardOnReader' = cardOnReader
        \/ cardOnReader' = SetUser(cardOnReader)
        \/ cardOnReader' = SetUser(SetMaintainer(cardOnReader))
    BY <1>3 DEF AskServer
  <2> QED BY <1>1, <2>1, <2>2, CardOperators
<1> QED BY <1>2, <1>3 DEF CardHasAccess

(* An item for maintainers is opened by a short press of one.              *)
LEMMA ItemForMaintainer ==
  ASSUME NEW c \in CardSet, NEW event, MenuRun(c, event), menuState' \in MaintainerItems
  PROVE  menuState' = menuState \/ (event = "SHORT_PRESS" /\ IsMaintainer(c))
BY DEF MenuRun, Advance, NextItem, SelectAddUser, MenuReset, menuVars, MaintainerItems

(* The button: a press that opens an item is a maintainer's, and the other *)
(* states are reached from an item.                                        *)
LEMMA PressStep ==
  ASSUME IInv, MenuAuthority, NEW event \in Presses, MenuStep(event) \/ RunMenu(event)
  PROVE  MenuAuthority'
<1> USE DEF MenuAuthority, MaintainerStates
<1>1. /\ cardOnReader \in CardSet /\ RightsGranted(cardOnReader)
      /\ MenuRun(cardOnReader, event) /\ Pressed(event)
  BY DEF IInv, TypeOK, GrantedInv, MenuStep, RunMenu
<1>2. supervised => supervised'
  BY <1>1 DEF Pressed
<1>3. CASE menuState' \in MaintainerItems
  <2>1. menuState' = menuState \/ (event = "SHORT_PRESS" /\ IsMaintainer(cardOnReader))
    BY <1>1, <1>3, ItemForMaintainer
  <2>2. IsMaintainer(cardOnReader) => cardOnReader.valid /\ granted[cardOnReader.uid] = 2
    BY <1>1, MaintainerGranted
  <2> QED BY <1>1, <1>2, <1>3, <2>1, <2>2 DEF Pressed, MaintainerItems
<1>4. CASE menuState' \notin MaintainerItems
  <2>1. menuState' \in MaintainerStates
          => menuState' = menuState \/ menuState = "READY_TO_ADD_USER"
    BY <1>1, <1>4
       DEF MenuRun, Advance, NextItem, SelectAddUser, MenuReset, menuVars, MaintainerItems
  <2> QED BY <1>2, <2>1
<1> QED BY <1>3, <1>4

(* The presence of a maintainer lasts as long as the menu needs it.        *)
LEMMA AuthorityStep ==
  ASSUME IInv, MenuInv, MenuAuthority, [Next]_vars
  PROVE  MenuAuthority'
<1> USE DEF MenuAuthority, MaintainerStates
<1>1. CASE \E event \in Presses : MenuStep(event) \/ RunMenu(event)
  BY <1>1, PressStep
<1>2. CASE MenuReadNothing
  <2>1. seenAge \in Int /\ AddTimeout \in Int
    BY ACNodeAssumption DEF IInv, TypeOK, SeenCap
  <2>2. SwapTime \/ MenuReset
    BY <1>2, <2>1 DEF MenuReadNothing, SwapTime
  <2>3. MenuReset \/ UNCHANGED menuVars
    BY <1>2 DEF MenuReadNothing
  <2> QED BY <1>2, <2>2, <2>3 DEF MenuReadNothing, EmptyRead, MenuReset, menuVars
<1>3. CASE FirstReadNothing \/ SecondReadNothing
  BY <1>3 DEF FirstReadNothing, SecondReadNothing, MenuInv, IdleAt, menuVars
<1>4. CASE Reset
  BY <1>4 DEF Reset, MenuReset
<1>5. CASE StoreStatus
  BY <1>5 DEF StoreStatus, StoreSelectedStatus, StatusItems, outside
<1>6. CASE UNCHANGED <<menuVars, supervised>>
  BY <1>6 DEF menuVars
<1> QED BY <1>1, <1>2, <1>3, <1>4, <1>5, <1>6, MenuFrame, SupervisedFrame

(* The authority holds throughout.                                         *)
LEMMA AuthorityInvariant == Spec => []MenuAuthority
<1>1. Init => MenuAuthority
  BY DEF Init, MenuInit, MenuAuthority, MaintainerStates
<1>2. IInv /\ MenuInv /\ MenuAuthority /\ [Next]_vars => MenuAuthority'
  BY AuthorityStep
<1> QED BY <1>1, <1>2, Invariant, MenuInvariant, PTL DEF Spec

(***************************************************************************)
(* The items that add users and put the tool in service are open only      *)
(* after a maintainer has pressed the button, and until the reader is      *)
(* found empty: however cards are swapped, requests fail and the node is   *)
(* reset.                                                                  *)
(***************************************************************************)
THEOREM MenuNeedsMaintainer == Spec => []MenuAuthority
BY AuthorityInvariant

(* Who puts the tool in service in the node, and who on the server.        *)
LEMMA InServiceStep ==
  ASSUME IInv, MenuAuthority, [Next]_vars
  PROVE  /\ status = 0 /\ status' = 1 => PutThere \/ StatusQueryFails
         /\ serverStatus = 0 /\ serverStatus' = 1 /\ pc' # pc => supervised
<1> USE DEF MenuAuthority, MaintainerStates
<1>1. serverStatus \in {0, 1}
  BY DEF IInv, TypeOK
<1>2. status = 0 /\ status' = 1 => PutThere \/ StatusQueryFails
  <2>1. CASE Setup
    BY <1>1, <2>1 DEF Setup, SetSettings, settingsVars, StatusAnswers, PutThere
  <2>2. CASE StoreStatus
    BY <2>2 DEF StoreStatus, StoreSelectedStatus, SetSettings, SelectedStatus, PutThere
  <2>3. CASE Deactivate \/ Activate
    <3>1. (pc \in {"deactivate", "activate"} /\ IsEnabled) \/ status' = status
      BY <2>3 DEF Deactivate, Activate, settingsVars
    <3>2. IsEnabled /\ status' # status
            => checkAge > StatusPeriod /\ \E answer \in StatusAnswers : status' = StatusField(answer)
      BY DEF IsEnabled
    <3> QED BY <1>1, <3>1, <3>2 DEF StatusAnswers, StatusField, PutThere, StatusQueryFails
  <2>4. CASE Reset
    BY <2>4 DEF Reset, GetSettings, PutThere
  <2>5. CASE Housekeeping \/ CliSaves \/ UNCHANGED settingsVars
    BY <2>5 DEF Housekeeping, CliSaves, SetSettings, settingsVars
  <2> QED BY <2>1, <2>2, <2>3, <2>4, <2>5, SettingsFrame
<1>3. serverStatus = 0 /\ serverStatus' = 1 /\ pc' # pc => supervised
  <2>1. CASE \E event \in Presses : SendStatus(event)
    BY <2>1 DEF SendStatus, SelectedStatus
  <2>2. CASE ServerEdit
    BY <2>2 DEF ServerEdit, nodeVars
  <2>3. CASE UNCHANGED serverStatus
    BY <1>1, <2>3
  <2> QED
    BY <2>1, <2>2, <2>3
       DEF Next, ProgramStep, vars, outside, served, Setup, Housekeeping, PollReport,
           MenuReadCard, FirstReadCard, SecondReadCard, MenuReadNothing,
           FirstReadNothing, SecondReadNothing, MenuAccess, Access, CardHasAccess,
           MenuStep, RunMenu, StoreStatus, Deactivate, DeactivateOff, OffReport,
           Activate, ActivateOn, VerifyCard, MaintainerListed, CacheForget, CliSaves,
           Tick, Reset
<1> QED BY <1>2, <1>3

(***************************************************************************)
(* A tool comes into service in the presence of a maintainer at the node,  *)
(* by the server, by a reset to what was saved, or because a query of its  *)
(* status fails; and the node tells the server so only in the presence of  *)
(* a maintainer.                                                           *)
(***************************************************************************)
THEOREM ServiceNeedsMaintainer == Spec => PutInService
<1>1. IInv /\ MenuAuthority /\ [Next]_vars
        => [/\ status = 0 /\ status' = 1 => PutThere \/ StatusQueryFails
            /\ serverStatus = 0 /\ serverStatus' = 1 /\ pc' # pc => supervised]_vars
  BY InServiceStep
<1> QED BY <1>1, Invariant, AuthorityInvariant, PTL DEF Spec, PutInService

-----------------------------------------------------------------------------

(* Why the tool may be taken from its user.                                *)
Excused ==
  \/ ~cardOnReader.valid \/ cardOnReader.uid # toolUser.uid
  \/ cache[toolUser.uid] = Absent
  \/ status = 0

(* An entry without a right can only have been there at power on: nobody   *)
(* with such an entry is, or is about to become, the tool's user.          *)
HeldRights ==
  /\ toolOn => cache[toolUser.uid] # 0
  /\ pc \in {"run", "activate", "on"} => cache[cardOnReader.uid] # 0
  /\ pc = "access" => ~IsUser(cardOnReader)

(* A switch-off begins for a card that is not in the cache, or for none.   *)
ChangedCard ==
  pc \in {"deactivate", "off"} /\ cardOnReader.valid => cache[cardOnReader.uid] = Absent

(* A switch-off outlives a pass of run() only if the pass ended with a     *)
(* reason for it.  It may do so with the menu active, but then the tool is *)
(* out of service and the menu offers a user nothing but to leave it so.   *)
MenuPlaces == {"menuRead", "menuAccess", "menuRun", "menuStore"}

OffItems == {"READY_TO_TAKE_OFFLINE", "TAKEN_OFFLINE"}

PendingOff ==
  /\ turnOff /\ pc = "loop" => Excused
  /\ turnOff /\ (pc \in MenuPlaces \/ (pc = "loop" /\ MenuActive))
       => status = 0 /\ menuState \in OffItems
  /\ pc = "activate" /\ menuState = "READY_TO_ADD_USER" => IsMaintainer(cardOnReader)

KeepInv == HeldRights /\ ChangedCard /\ PendingOff

(* The cards that count are cards of somebody.                             *)
LEMMA CardsHaveUids ==
  ASSUME IInv
  PROVE  /\ cardOnReader.valid => cardOnReader.uid \in Uids
         /\ toolOn => toolUser.uid \in Uids
         /\ turnOff => toolOn
BY DEF IInv, GrantedInv, RightsGranted, IsUser, ToolInv, TurnOffMeansOn

(* An entry that has a right never becomes one without.                    *)
LEMMA NeverWithoutRight ==
  ASSUME IInv, [Next]_vars, NEW u \in Uids, cache[u] # 0
  PROVE  cache'[u] # 0
<1>1. cache \in [Uids -> {Absent} \union Levels] /\ cardOnReader \in CardSet
  BY DEF IInv, TypeOK
<1>2. CASE MenuAccess \/ Access
  <2>1. CASE UseCached
    BY <2>1 DEF UseCached
  <2>2. CASE \E answer \in CardAnswers : AskServer(answer)
    <3>1. \A c \in CardSet : SetUser(c) \in CardSet /\ Level(SetUser(c)) # 0
      BY CardOperators DEF SetUser, CardSet, Level, IsUser
    <3>2. PICK c \in CardSet : Level(c) # 0 /\ (cache' = cache \/ CacheSet(c))
      <4>1. PICK answer \in CardAnswers : AskServer(answer)
        BY <2>2
      <4>2. SetUser(cardOnReader) \in CardSet /\ SetUser(SetMaintainer(cardOnReader)) \in CardSet
        BY <1>1, CardOperators
      <4> QED BY <1>1, <3>1, <4>1, <4>2, CardOperators DEF AskServer
    <3> QED BY <1>1, <3>2 DEF CacheSet
  <2> QED BY <1>2, <2>1, <2>2 DEF MenuAccess, Access, CardHasAccess
<1>3. CASE \E v \in Uids, answer \in CardAnswers : VerifyCard(v, answer)
  BY <1>1, <1>3 DEF VerifyCard, Absent
<1>4. CASE \E v \in Uids : MaintainerListed(v) \/ CacheForget(v)
  BY <1>1, <1>4 DEF MaintainerListed, CacheForget, Absent, OffReport, PollReport,
                    HalfOfRun
<1>5. CASE Reset
  BY <1>1, <1>5 DEF Reset, Absent
<1>6. CASE UNCHANGED <<cache, granted>>
  BY <1>6
<1> QED BY <1>2, <1>3, <1>4, <1>5, <1>6, OutsideFrame

(* A card that is not in the cache gets in by being asked about only,      *)
(* unless the server's list of maintainers is written behind the cache.    *)
LEMMA StaysAbsent ==
  ASSUME IInv, Persistent # {2}, [Next]_vars, NEW u \in Uids, cache[u] = Absent,
         pc \notin {"access", "menuAccess"}
  PROVE  cache'[u] = Absent
<1>1. cache \in [Uids -> {Absent} \union Levels]
  BY DEF IInv, TypeOK
<1>2. CASE \E v \in Uids, answer \in CardAnswers : VerifyCard(v, answer)
  BY <1>1, <1>2 DEF VerifyCard
<1>3. CASE \E v \in Uids : MaintainerListed(v) \/ CacheForget(v)
  BY <1>1, <1>3 DEF MaintainerListed, CacheForget, OffReport, PollReport, HalfOfRun
<1>4. CASE Reset
  BY <1>1, <1>4 DEF Reset
<1> QED BY <1>2, <1>3, <1>4, OutsideFrame DEF MenuAccess, Access

(* What card_has_access() leaves: a user with a right in the cache, or a   *)
(* card without one.                                                       *)
LEMMA AccessOutcome ==
  ASSUME IInv, CardHasAccess, cardOnReader.valid, ~IsUser(cardOnReader)
  PROVE  IF IsUser(cardOnReader') THEN cache'[cardOnReader'.uid] # 0
         ELSE cardOnReader'.valid => cache'[cardOnReader'.uid] \in {0, Absent}
<1>1. /\ cache \in [Uids -> {Absent} \union Levels]
      /\ cardOnReader \in CardSet /\ cardOnReader.uid \in Uids
      /\ cardOnReader'.uid = cardOnReader.uid
  BY CardsHaveUids, AccessSameCard DEF IInv, TypeOK
<1>2. CASE UseCached
  <2>1. cardOnReader' = CacheGet(cardOnReader) /\ cache' = cache
    BY <1>2 DEF UseCached
  <2>2. CASE cache[cardOnReader.uid] = Absent
    BY <1>1, <2>1, <2>2 DEF CacheGet, NullCard, IsUser
  <2>3. CASE cache[cardOnReader.uid] # Absent
    <3> DEFINE e == CacheGet(cardOnReader)
    <3>1. e.status <=> cache[cardOnReader.uid] >= 1
      BY <1>1, <2>3 DEF CacheGet
    <3>2. e.maintainer <=> cache[cardOnReader.uid] = 2
      BY <1>1, <2>3 DEF CacheGet
    <3>3. e.valid
      BY <1>1, <2>3 DEF CacheGet
    <3> HIDE DEF e
    <3>4. IsUser(e) <=> cache[cardOnReader.uid] \in {1, 2}
      BY <1>1, <2>3, <3>1, <3>2, <3>3 DEF IsUser, Levels
    <3> QED BY <1>1, <2>1, <2>3, <3>4 DEF e, Levels
  <2> QED BY <2>2, <2>3
<1>3. CASE \E answer \in CardAnswers : AskServer(answer)
  <2>1. PICK answer \in CardAnswers : AskServer(answer)
    BY <1>3
  <2>2. cache[cardOnReader.uid] = Absent
    BY <1>1, <2>1 DEF AskServer, InCache, CacheGet, CompareUid
  <2>3. CASE answer \in {1, 2}
    <3> DEFINE c == IF answer = 2 THEN SetUser(SetMaintainer(cardOnReader))
                                  ELSE SetUser(cardOnReader)
    <3>1. c \in CardSet /\ IsUser(c) /\ c.uid = cardOnReader.uid
      BY <1>1, CardOperators DEF SetUser, SetMaintainer, CardSet, IsUser
    <3>2. cardOnReader' = c /\ cache' = [cache EXCEPT ![c.uid] = Level(c)]
      BY <2>1, <2>3 DEF AskServer, CacheSet
    <3> HIDE DEF c
    <3>3. Level(c) # 0
      BY <3>1 DEF Level
    <3> QED BY <1>1, <3>1, <3>2, <3>3
  <2>4. CASE answer \notin {1, 2}
    BY <2>1, <2>2, <2>4 DEF AskServer
  <2> QED BY <2>3, <2>4
<1> QED BY <1>2, <1>3 DEF CardHasAccess

(* Who begins a use of the tool, and who asks for its end.                 *)
LEMMA UseStep ==
  ASSUME IInv, [Next]_vars
  PROVE  /\ toolOn' => \/ toolOn /\ toolUser' = toolUser
                       \/ ActivateOn /\ toolUser' = cardOnReader
         /\ turnOff' => DeactivateOff \/ (turnOff /\ ~ActivateOn)
<1> USE DEF toolVars
<1>1. turnOff => toolOn
  BY CardsHaveUids
<1>2. CASE ActivateOn
  <2>1. ToolOn(cardOnReader)
    BY <1>2 DEF ActivateOn
  <2>2. ~turnOff'
    BY <1>1, <2>1 DEF ToolOn, IgnoreUser, SwitchOn, KeepOn
  <2>3. (toolOn /\ toolUser' = toolUser) \/ toolUser' = cardOnReader \/ ~toolOn'
    BY <2>1 DEF ToolOn, IgnoreUser, SwitchOn, KeepOn
  <2> QED BY <1>2, <2>2, <2>3
<1>3. CASE DeactivateOff
  <2>1. ToolOff
    BY <1>3 DEF DeactivateOff
  <2>2. toolOn' => toolOn /\ toolUser' = toolUser
    BY <2>1 DEF ToolOff, PostponeOff, PowerOff
  <2> QED BY <1>3, <2>2
<1>4. CASE Setup \/ Tick \/ UNCHANGED toolVars
  <2>1. toolOn' = toolOn /\ toolUser' = toolUser /\ turnOff' = turnOff
    BY <1>4 DEF Setup, DoorTakesPin, Tick, ToolTick
  <2>2. ActivateOn => ~turnOff'
    BY <1>1, <2>1 DEF ActivateOn, ToolOn, IgnoreUser, SwitchOn, KeepOn
  <2> QED BY <2>1, <2>2
<1>5. CASE Housekeeping
  <2>1. PollTurnOff /\ ~ActivateOn
    BY <1>5 DEF Housekeeping, ActivateOn
  <2>2. toolOn' => toolOn /\ toolUser' = toolUser
    BY <2>1 DEF PollTurnOff, PowerOff
  <2>3. turnOff' => turnOff
    BY <2>1 DEF PollTurnOff, PowerOff
  <2> QED BY <2>1, <2>2, <2>3
<1>6. CASE PollReport \/ OffReport \/ Reset
  BY <1>6 DEF PollReport, OffReport, OffReported, Reset, ToolBoot
<1> QED BY <1>2, <1>3, <1>4, <1>5, <1>6, ToolFrame

(* Where the rights of the user come from stays so.                        *)
LEMMA HeldRightsStep ==
  ASSUME IInv, HeldRights, [Next]_vars
  PROVE  HeldRights'
<1>1. toolOn' => cache'[toolUser'.uid] # 0
  <2>1. CASE toolOn /\ toolUser' = toolUser
    BY <2>1, CardsHaveUids, NeverWithoutRight DEF HeldRights
  <2>2. CASE ActivateOn /\ toolUser' = cardOnReader
    <3>1. cardOnReader.valid /\ cache[cardOnReader.uid] # 0
      BY <2>2 DEF ActivateOn, HeldRights, IInv, GrantedInv, IsUser
    <3> QED BY <2>2, <3>1, CardsHaveUids, NeverWithoutRight
  <2> QED BY <2>1, <2>2, UseStep
<1>2. pc' \in {"run", "activate", "on"} =>
        Access \/ (pc \in {"run", "activate", "on"} /\ UNCHANGED cardOnReader)
  BY DEF Next, ProgramStep, vars, nodeVars, Setup, Housekeeping, MenuReadCard,
         FirstReadCard, SecondReadCard, MenuReadNothing, FirstReadNothing,
         SecondReadNothing, MenuAccess, MenuStep, RunMenu, SendStatus, StoreStatus,
         Deactivate, DeactivateOff, Activate, ActivateOn, VerifyCard, MaintainerListed,
         CacheForget, CliSaves, ServerEdit, Tick, Reset, OffReport, PollReport,
         HalfOfRun
<1>3. pc' \in {"run", "activate", "on"} => cache'[cardOnReader'.uid] # 0
  <2>1. CASE Access
    <3>1. CardHasAccess /\ cardOnReader.valid /\ ~IsUser(cardOnReader)
      BY <2>1 DEF Access, HeldRights, IInv, ReaderInv
    <3> QED BY <2>1, <3>1, AccessOutcome DEF Access
  <2>2. CASE pc \in {"run", "activate", "on"} /\ UNCHANGED cardOnReader
    <3>1. cardOnReader.valid /\ cache[cardOnReader.uid] # 0
      BY <2>2 DEF HeldRights, IInv, GrantedInv, IsUser
    <3> QED BY <2>2, <3>1, CardsHaveUids, NeverWithoutRight
  <2> QED BY <1>2, <2>1, <2>2
<1>4. \A u \in Uids : ~IsUser(PlainCard(u))
  BY DEF IsUser, PlainCard
<1>5. pc' = "access" => ~IsUser(cardOnReader')
  BY <1>4
     DEF Next, ProgramStep, vars, nodeVars, Setup, Housekeeping, MenuReadCard,
         FirstReadCard, SecondReadCard, MenuReadNothing, FirstReadNothing,
         SecondReadNothing, MenuAccess, Access, MenuStep, RunMenu, SendStatus,
         StoreStatus, Deactivate, DeactivateOff, Activate, ActivateOn, VerifyCard,
         MaintainerListed, CacheForget, CliSaves, ServerEdit, Tick, Reset, HeldRights,
         OffReport, PollReport, HalfOfRun
<1> QED BY <1>1, <1>3, <1>5 DEF HeldRights

(* The card a switch-off begins for stays out of the cache.                *)
LEMMA ChangedCardStep ==
  ASSUME IInv, ChangedCard, Persistent # {2}, [Next]_vars
  PROVE  ChangedCard'
<1>1. CASE \E u \in Uids : FirstReadCard(u)
  <2>1. PICK u \in Uids : FirstReadCard(u)
    BY <1>1
  <2>2. InCache(PlainCard(u)) \/ cache[u] = Absent
    BY DEF InCache, CacheGet, PlainCard, CompareUid
  <2>3. cardOnReader' = PlainCard(u) /\ cardOnReader'.uid = u /\ cache' = cache
    BY <2>1 DEF FirstReadCard, PlainCard, outside, served
  <2>4. pc' \in {"deactivate", "off"} => ~InCache(PlainCard(u))
    BY <2>1 DEF FirstReadCard
  <2> QED BY <2>2, <2>3, <2>4 DEF ChangedCard
<1>2. CASE FirstReadNothing
  BY <1>2 DEF FirstReadNothing, NullCard, ChangedCard
<1>3. CASE pc \in {"deactivate", "off"} /\ UNCHANGED cardOnReader
  <2>1. cardOnReader.valid => cardOnReader.uid \in Uids /\ cache[cardOnReader.uid] = Absent
    BY <1>3, CardsHaveUids DEF ChangedCard
  <2>2. cardOnReader.valid => cache'[cardOnReader.uid] = Absent
    BY <1>3, <2>1, StaysAbsent
  <2> QED BY <1>3, <2>2 DEF ChangedCard
<1>4. CASE pc' \notin {"deactivate", "off"}
  BY <1>4 DEF ChangedCard
<1> QED
  BY <1>1, <1>2, <1>3, <1>4
     DEF Next, ProgramStep, vars, nodeVars, Setup, Housekeeping, MenuReadCard,
         SecondReadCard, MenuReadNothing, SecondReadNothing, MenuAccess, Access,
         MenuStep, RunMenu, SendStatus, StoreStatus, Deactivate, DeactivateOff,
         Activate, ActivateOn, VerifyCard, MaintainerListed, CacheForget, CliSaves,
         ServerEdit, Tick, Reset, OffReport, PollReport, HalfOfRun

(* At the end of a pass of run() with a switch-off pending there is a      *)
(* reason for it.                                                          *)
LEMMA PassEnds ==
  ASSUME IInv, MenuInv, KeepInv, [Next]_vars, turnOff, turnOff', ~ActivateOn,
         pc # "loop", pc' = "loop"
  PROVE  Excused' /\ (MenuActive' => status' = 0 /\ menuState' \in OffItems)
<1> USE DEF MenuActive, IdleAt, MenuPlaces, OffItems
<1>1. toolOn /\ toolUser' = toolUser /\ toolOn'
  BY UseStep, CardsHaveUids, NodeUsesTool, TypeStep, InvStep
     DEF IInv, TypeOK, ToolInv, TurnOffMeansOn
<1>2. CASE Setup
  BY <1>1, <1>2 DEF Setup, DoorTakesPin
<1>3. CASE MenuReadNothing
  BY <1>3
     DEF MenuReadNothing, NullCard, Excused, KeepInv, PendingOff, IsAddingUser, MenuReset
<1>4. CASE \E event \in Presses : MenuStep(event)
  <2>1. status = 0 /\ menuState \in OffItems
    BY <1>4 DEF MenuStep, KeepInv, PendingOff
  <2>2. status' = 0 /\ (menuState' = "IDLE" \/ menuState' = menuState)
    BY <1>4, <2>1
       DEF MenuStep, MenuRun, Advance, NextItem, SelectAddUser, AddsUser, IsAddingUser,
           MenuReset, menuVars, settingsVars
  <2> QED BY <2>1, <2>2 DEF Excused
<1>5. CASE StoreStatus
  <2>1. menuState = "READY_TO_TAKE_OFFLINE"
    BY <1>5 DEF StoreStatus, StoreSelectedStatus, StatusItems, KeepInv, PendingOff
  <2> QED BY <1>5, <2>1
       DEF StoreStatus, StoreSelectedStatus, SetSettings, SelectedStatus, Excused
<1>6. CASE SecondReadNothing
  BY <1>6 DEF SecondReadNothing, NullCard, Excused, MenuInv, menuVars
<1>7. CASE Access
  <2>1. CardHasAccess /\ cardOnReader.valid /\ ~IsUser(cardOnReader) /\ ~IsUser(cardOnReader')
    BY <1>7 DEF Access, KeepInv, HeldRights, IInv, ReaderInv
  <2>2. cardOnReader'.valid => cache'[cardOnReader'.uid] \in {0, Absent}
    BY <2>1, AccessOutcome
  <2>3. cache'[toolUser'.uid] # 0
    BY <1>1, HeldRightsStep DEF KeepInv, HeldRights
  <2>4. menuState' = "IDLE"
    BY <1>7 DEF Access, CardHasAccess, menuVars, MenuInv
  <2> QED BY <2>2, <2>3, <2>4 DEF Excused
<1>8. CASE Activate
  <2>1. ~IsMaintainer(cardOnReader) /\ status' # 1 /\ pc = "activate" /\ menuState' = menuState
    BY <1>8 DEF Activate, menuVars
  <2>2. status' = 0
    BY <2>1, SettingsStep DEF SettingsTypeOK
  <2>3. menuState \in {"IDLE", "READY_TO_TAKE_OFFLINE"}
    BY <2>1 DEF MenuInv, OfferedItems, KeepInv, PendingOff
  <2> QED BY <2>1, <2>2, <2>3 DEF Excused
<1> QED
  BY <1>2, <1>3, <1>4, <1>5, <1>6, <1>7, <1>8
     DEF Next, ProgramStep, vars, nodeVars, Housekeeping, MenuReadCard, FirstReadCard,
         SecondReadCard, FirstReadNothing, MenuAccess, RunMenu, SendStatus, Deactivate,
         DeactivateOff, VerifyCard, MaintainerListed, CacheForget, CliSaves, ServerEdit,
         Tick, Reset, OffReport, PollReport, HalfOfRun

(* Between two passes, and in the branch of the menu, the reason stays.    *)
LEMMA ReasonStays ==
  ASSUME IInv, MenuInv, KeepInv, Persistent # {2}, [Next]_vars, turnOff, turnOff',
         pc = "loop", pc' = "loop"
  PROVE  Excused' /\ (MenuActive' => status' = 0 /\ menuState' \in OffItems)
<1>1. UNCHANGED <<cardOnReader, status, menuState>>
  BY DEF Next, ProgramStep, vars, nodeVars, menuVars, settingsVars, Setup, Housekeeping,
         MenuReadCard, FirstReadCard, SecondReadCard, MenuReadNothing, FirstReadNothing,
         SecondReadNothing, MenuAccess, Access, MenuStep, RunMenu, SendStatus,
         StoreStatus, Deactivate, DeactivateOff, Activate, ActivateOn, VerifyCard,
         MaintainerListed, CacheForget, CliSaves, SetSettings, ServerEdit, Tick, Reset,
         OffReport, PollReport, HalfOfRun
<1>2. toolUser' = toolUser /\ toolUser.uid \in Uids
  BY UseStep, CardsHaveUids, NodeUsesTool, TypeStep, InvStep
     DEF IInv, TypeOK, ToolInv, TurnOffMeansOn, ActivateOn, DeactivateOff
<1>3. Excused'
  BY <1>1, <1>2, StaysAbsent DEF KeepInv, PendingOff, Excused
<1> QED BY <1>1, <1>3 DEF KeepInv, PendingOff, MenuActive

(* In the branch of the menu a tool with a switch-off pending stays out of *)
(* service.                                                                *)
LEMMA MenuLeavesOff ==
  ASSUME IInv, MenuInv, KeepInv, [Next]_vars, turnOff, turnOff', pc' \in MenuPlaces
  PROVE  status' = 0 /\ menuState' \in OffItems
<1> USE DEF MenuPlaces
<1>1. CASE Housekeeping
  BY <1>1 DEF Housekeeping, HalfOfRun, menuVars, KeepInv, PendingOff
<1>2. CASE pc \in MenuPlaces /\ UNCHANGED <<status, menuState>>
  BY <1>2 DEF KeepInv, PendingOff
<1>3. ~PollReport /\ ~OffReport
  BY DEF PollReport, OffReport, OffReported
<1> QED
  BY <1>1, <1>2, <1>3
     DEF Next, ProgramStep, vars, nodeVars, menuVars, settingsVars, Setup, MenuReadCard,
         FirstReadCard, SecondReadCard, MenuReadNothing, FirstReadNothing,
         SecondReadNothing, MenuAccess, Access, CardHasAccess, MenuStep, RunMenu,
         SendStatus, StoreStatus, Deactivate, DeactivateOff, Activate, ActivateOn,
         VerifyCard, MaintainerListed, CacheForget, CliSaves, ServerEdit, Tick, Reset

(* The item that adds users is on its way to on() with a maintainer only.  *)
LEMMA ItemOnTheWay ==
  ASSUME IInv, MenuInv, KeepInv, [Next]_vars, pc' = "activate",
         menuState' = "READY_TO_ADD_USER"
  PROVE  IsMaintainer(cardOnReader')
<1>1. CASE \E event \in Presses : RunMenu(event)
  <2>1. PICK event \in Presses : RunMenu(event)
    BY <1>1
  <2>2. menuState = "IDLE" /\ UNCHANGED cardOnReader /\ MenuRun(cardOnReader, event)
    BY <2>1 DEF RunMenu, MenuInv, IdleAt
  <2>3. cardOnReader \in CardSet
    BY DEF IInv, TypeOK
  <2> QED BY <2>2, <2>3, ItemForMaintainer DEF MaintainerItems
<1>2. CASE pc = "activate" /\ UNCHANGED <<cardOnReader, menuState>>
  BY <1>2 DEF KeepInv, PendingOff
<1> QED
  BY <1>1, <1>2
     DEF Next, ProgramStep, vars, nodeVars, menuVars, Setup, Housekeeping, MenuReadCard,
         FirstReadCard, SecondReadCard, MenuReadNothing, FirstReadNothing,
         SecondReadNothing, MenuAccess, Access, MenuStep, SendStatus, StoreStatus,
         Deactivate, DeactivateOff, Activate, ActivateOn, VerifyCard, MaintainerListed,
         CacheForget, CliSaves, ServerEdit, Tick, Reset, OffReport, PollReport,
         HalfOfRun

(* The invariant behind UserKeepsTool is inductive.                        *)
LEMMA KeepStep ==
  ASSUME IInv, MenuInv, KeepInv, Persistent # {2}, [Next]_vars
  PROVE  KeepInv'
<1>1. HeldRights' /\ ChangedCard'
  BY HeldRightsStep, ChangedCardStep DEF KeepInv
<1>2. CASE turnOff' /\ turnOff /\ ~ActivateOn
  <2>1. pc' = "loop" => Excused' /\ (MenuActive' => status' = 0 /\ menuState' \in OffItems)
    BY <1>2, PassEnds, ReasonStays
  <2>2. pc' \in MenuPlaces => status' = 0 /\ menuState' \in OffItems
    BY <1>2, MenuLeavesOff
  <2> QED BY <1>1, <2>1, <2>2, ItemOnTheWay DEF KeepInv, PendingOff
<1>3. CASE DeactivateOff
  BY <1>1, <1>3 DEF DeactivateOff, KeepInv, PendingOff, MenuPlaces
<1>4. CASE ~turnOff'
  BY <1>1, <1>4, ItemOnTheWay DEF KeepInv, PendingOff
<1> QED BY <1>2, <1>3, <1>4, UseStep

(* The tool's power other than by a reset goes for a reason.                *)
LEMMA TakenForAReason ==
  ASSUME IInv, KeepInv, [Next]_vars, toolOn, Powered, ~Powered', pc' # "setup"
  PROVE  Excused
<1> USE DEF toolVars, Powered
<1>1. CASE Housekeeping
  BY <1>1 DEF Housekeeping, PollTurnOff, KeepInv, PendingOff
<1>2. CASE DeactivateOff
  BY <1>2 DEF DeactivateOff, KeepInv, ChangedCard, Excused
<1>3. CASE ActivateOn
  BY <1>3 DEF ActivateOn, ToolOn, IgnoreUser, SwitchOn, KeepOn
<1>4. CASE Setup \/ PollReport \/ OffReport \/ Tick \/ Reset \/ UNCHANGED toolVars
  BY <1>4
     DEF Setup, DoorTakesPin, PollReport, OffReport, OffReported, Tick, ToolTick, Reset
<1> QED BY <1>1, <1>2, <1>3, <1>4, ToolFrame

(***************************************************************************)
(* The power of the tool is not taken from a user whose card is on the     *)
(* reader and in the cache, as long as the tool is in service; a reset     *)
(* excepted, and a cache that is written behind the reader's back (the     *)
(* maintainers' overlay).                                                  *)
(***************************************************************************)
THEOREM ToolIsNotTakenAway ==
  ASSUME Persistent # {2}
  PROVE  Spec => UserKeepsTool
<1>1. Init => KeepInv
  BY DEF Init, ToolInit, KeepInv, HeldRights, ChangedCard, PendingOff
<1>2. IInv /\ MenuInv /\ KeepInv /\ [Next]_vars => KeepInv'
  BY KeepStep
<1>3. IInv /\ KeepInv /\ [Next]_vars
        => [toolOn /\ Powered /\ ~Powered' /\ pc' # "setup" =>
              \/ ~cardOnReader.valid \/ cardOnReader.uid # toolUser.uid
              \/ cache[toolUser.uid] = Absent
              \/ status = 0]_vars
  BY TakenForAReason DEF Excused
<1> QED BY <1>1, <1>2, <1>3, Invariant, MenuInvariant, PTL DEF Spec, UserKeepsTool

=============================================================================
