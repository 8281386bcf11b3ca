--------------------------- MODULE DoorbotProofs ---------------------------
(***************************************************************************)
(* Proofs about the door roles, for every set of cards and every value of  *)
(* the periods.                                                            *)
(***************************************************************************)
EXTENDS Doorbot, TLAPS

Threshold == IF role = 1 THEN 0 ELSE 1

\* What makes the cache as good as an answer: every card in it has had one
\* that opens the door; and only a card that was read is looked up.
CachedInv == \A u \in cached : known[u] >= Threshold

LookupInv == pc = "lookup" => card.uid \in Uids

IInv == DoorbotTypeOK /\ CachedInv /\ LookupInv

(***************************************************************************)
(* The cards that open the door are those the threshold lets through.      *)
(***************************************************************************)
LEMMA OpensIsThreshold ==
  ASSUME role \in {1, 2}, NEW status \in Int
  PROVE  Opens(status) <=> status >= Threshold
BY DEF Opens, Threshold

(***************************************************************************)
(* The rights of an answer leave a card a card, with its UID.              *)
(***************************************************************************)
LEMMA RightsKeepUid ==
  ASSUME NEW c \in CardSet, NEW status
  PROVE  WithRights(c, status) \in CardSet /\ WithRights(c, status).uid = c.uid
BY DEF WithRights, SetUser, SetMaintainer, CardSet

(***************************************************************************)
(* A card without rights is a card.                                        *)
(***************************************************************************)
LEMMA PlainIsCard ==
  ASSUME NEW u \in Uids
  PROVE  PlainCard(u) \in CardSet /\ PlainCard(u).uid = u
BY DEF PlainCard, CardSet

(***************************************************************************)
(* The invariant holds after a boot.                                       *)
(***************************************************************************)
LEMMA InitIInv == Init => IInv
<1> SUFFICES ASSUME Init PROVE IInv
  OBVIOUS
<1> USE DoorbotAssumption
<1>1. DoorTypeOK
  <2>1. openAge \in 0 .. HoldTime + 1
    BY DEF Init, DoorInit
  <2> QED BY <2>1 DEF Init, DoorInit, DoorTypeOK
<1>2. role \in Roles /\ announcer \in BOOLEAN /\ pc \in Locations /\ rung \in BOOLEAN
  BY DEF Init, Locations
<1>3. card \in CardSet /\ lastScanned \in CardSet
  BY DEF Init, NullCard, CardSet
<1>4. scannedAge \in 0 .. Debounce + 1 /\ bellAge \in 0 .. BellMemory /\ grantAge \in 0 .. HoldTime + 1
  BY DEF Init
<1>5. cached \subseteq Uids /\ known \in [Uids -> Answers]
  BY DEF Init, Answers
<1>6. CachedInv /\ LookupInv
  BY DEF Init, CachedInv, LookupInv
<1> QED BY <1>1, <1>2, <1>3, <1>4, <1>5, <1>6 DEF IInv, DoorbotTypeOK

-----------------------------------------------------------------------------

(***************************************************************************)
(* The relay keeps its types, by whichever step of the program.            *)
(***************************************************************************)
LEMMA DoorStep ==
  ASSUME DoorTypeOK,
         OpenDoor \/ CloseDoor \/ MaybeClose \/ DoorBoot \/ DoorTick \/ UNCHANGED doorVars
  PROVE  DoorTypeOK'
<1> USE DoorbotAssumption
<1>1. openAge' \in 0 .. HoldTime + 1
  <2>1. HoldTime \in Nat /\ openAge \in 0 .. HoldTime + 1
    BY DEF DoorTypeOK
  <2>2. CASE DoorTick
    BY <2>1, <2>2 DEF DoorTick
  <2> QED BY <2>1, <2>2 DEF OpenDoor, CloseDoor, MaybeClose, DoorBoot, doorVars
<1>2. doorPin' \in BOOLEAN /\ opened' \in BOOLEAN
  BY DEF DoorTypeOK, OpenDoor, CloseDoor, MaybeClose, DoorBoot, DoorTick, doorVars
<1> QED BY <1>1, <1>2 DEF DoorTypeOK

(***************************************************************************)
(* A card that is put into the cache by HandleCard has had an answer that  *)
(* opens the door.                                                         *)
(***************************************************************************)
LEMMA HandleKeepsCached ==
  ASSUME IInv, NEW status \in Int, HandleCard(status), card.uid \in Uids, role' = role,
         known' \in [Uids -> Answers], \A u \in Uids : known'[u] >= known[u],
         status >= Threshold => known'[card.uid] >= Threshold
  PROVE  /\ cached' \subseteq Uids /\ CachedInv'
         /\ DoorTypeOK' /\ grantAge' \in 0 .. HoldTime + 1
         /\ doorPin' # doorPin => known'[card.uid] >= Threshold
<1> USE DoorbotAssumption DEF IInv, DoorbotTypeOK
<1>1. Threshold' = Threshold /\ Threshold \in Int
  BY DEF Threshold
<1>2. role \in {1, 2}
  OBVIOUS
<1>3. CASE Opens(status)
  <2>1. cached' = cached \union {card.uid} /\ OpenDoor /\ grantAge' = 0
    BY <1>3 DEF HandleCard, GrantAccess
  <2>2. known'[card.uid] >= Threshold
    BY <1>2, <1>3, OpensIsThreshold
  <2>3. ASSUME NEW u \in cached' PROVE known'[u] >= Threshold
    <3>1. CASE u = card.uid
      BY <2>2, <3>1
    <3>2. CASE u \in cached
      <4>1. known[u] \in Int /\ known'[u] \in Int /\ known[u] >= Threshold
        BY <3>2 DEF CachedInv, Answers
      <4>2. known'[u] >= known[u]
        BY <3>2
      <4> QED BY <4>1, <4>2, <1>1
    <3> QED BY <2>1, <3>1, <3>2
  <2>4. DoorTypeOK'
    BY <2>1, DoorStep
  <2> QED BY <1>1, <2>1, <2>2, <2>3, <2>4 DEF CachedInv
<1>4. CASE ~Opens(status)
  <2>1. UNCHANGED <<cached, doorVars, grantAge>>
    BY <1>4 DEF HandleCard
  <2>2. ASSUME NEW u \in cached PROVE known'[u] >= Threshold
    <3>1. known[u] \in Int /\ known'[u] \in Int /\ known[u] >= Threshold
      BY <2>2 DEF CachedInv, Answers
    <3>2. known'[u] >= known[u]
      BY <2>2
    <3> QED BY <3>1, <3>2, <1>1
  <2>3. DoorTypeOK'
    BY <2>1, DoorStep
  <2> QED BY <1>1, <2>1, <2>2, <2>3 DEF CachedInv, doorVars
<1> QED BY <1>3, <1>4

(***************************************************************************)
(* The invariant is inductive.                                             *)
(***************************************************************************)
LEMMA InvStep == IInv /\ [Next]_vars => IInv'
<1> SUFFICES ASSUME IInv, [Next]_vars PROVE IInv'
  OBVIOUS
<1> USE DoorbotAssumption DEF IInv, DoorbotTypeOK, Locations, settings, scan, bell, cards
<1>1. CASE StartPass
  <2>1. DoorTypeOK'
    BY <1>1, DoorStep DEF StartPass
  <2> QED BY <1>1, <2>1 DEF StartPass, CachedInv, LookupInv, Threshold
<1>2. CASE ReadNothing \/ NoBell \/ NoRelease
  <2>1. DoorTypeOK'
    BY <1>2, DoorStep DEF ReadNothing, NoBell, NoRelease
  <2> QED BY <1>2, <2>1 DEF ReadNothing, NoBell, NoRelease, Calls, CachedInv, LookupInv, Threshold
<1>3. ASSUME NEW u \in Uids, ReadCard(u) PROVE IInv'
  <2>1. DoorTypeOK'
    BY <1>3, DoorStep DEF ReadCard
  <2>2. card' \in CardSet /\ card'.uid \in Uids
    BY <1>3, PlainIsCard DEF ReadCard
  <2> QED BY <1>3, <2>1, <2>2 DEF ReadCard, CachedInv, LookupInv, Threshold
<1>4. CASE UseCached
  <2>1. card.uid \in Uids /\ known[card.uid] >= Threshold
    BY <1>4 DEF UseCached, CachedInv
  <2>2. \A u \in Uids : known'[u] >= known[u]
    BY <1>4 DEF UseCached, Answers
  <2>3. /\ cached' \subseteq Uids /\ CachedInv'
        /\ DoorTypeOK' /\ grantAge' \in 0 .. HoldTime + 1
    BY <1>4, <2>1, <2>2, HandleKeepsCached DEF UseCached
  <2> QED BY <1>4, <2>3 DEF UseCached, LookupInv
<1>5. ASSUME NEW answer \in Answers, AskServer(answer) PROVE IInv'
  <2>1. card.uid \in Uids
    BY <1>5 DEF AskServer, LookupInv
  <2>2. /\ known' \in [Uids -> Answers] /\ \A u \in Uids : known'[u] >= known[u]
        /\ known'[card.uid] >= answer
    BY <1>5, <2>1 DEF AskServer, Answers
  <2>3. answer >= Threshold => known'[card.uid] >= Threshold
    BY <2>1, <2>2 DEF Threshold, Answers
  <2>4. /\ cached' \subseteq Uids /\ CachedInv'
        /\ DoorTypeOK' /\ grantAge' \in 0 .. HoldTime + 1
    BY <1>5, <2>1, <2>2, <2>3, HandleKeepsCached DEF AskServer, Answers
  <2>5. card' \in CardSet
    BY <1>5, RightsKeepUid DEF AskServer
  <2> QED BY <1>5, <2>2, <2>4, <2>5 DEF AskServer, LookupInv
<1>6. CASE NoLinkToAsk
  <2>1. card.uid \in Uids
    BY <1>6 DEF NoLinkToAsk, LookupInv
  <2>2. \A u \in Uids : known'[u] >= known[u]
    BY <1>6 DEF NoLinkToAsk, Answers
  <2>3. /\ cached' \subseteq Uids /\ CachedInv'
        /\ DoorTypeOK' /\ grantAge' \in 0 .. HoldTime + 1
    BY <1>6, <2>1, <2>2, HandleKeepsCached DEF NoLinkToAsk, NoLink, Threshold
  <2> QED BY <1>6, <2>3 DEF NoLinkToAsk, LookupInv
<1>7. CASE Announce
  <2>1. DoorTypeOK'
    BY <1>7, DoorStep DEF Announce
  <2> QED BY <1>7, <2>1 DEF Announce, CachedInv, LookupInv, Threshold
<1>8. CASE Bell
  <2>1. DoorTypeOK'
    BY <1>8, DoorStep DEF Bell
  <2>2. pc' \in Locations /\ pc' # "lookup"
    BY <1>8 DEF Bell, Calls
  <2>3. bellAge' \in 0 .. BellMemory /\ rung' \in BOOLEAN
    <3>1. CASE UNCHANGED bell
      BY <3>1
    <3>2. CASE bellAge' = 0 /\ rung' = TRUE
      <4>1. 0 \in 0 .. BellMemory
        OBVIOUS
      <4> QED BY <3>2, <4>1
    <3> QED BY <1>8, <3>1, <3>2 DEF Bell
  <2> QED BY <1>8, <2>1, <2>2, <2>3 DEF Bell, CachedInv, LookupInv, Threshold
<1>9. CASE Release
  <2>1. DoorTypeOK'
    BY <1>9, DoorStep DEF Release, GrantAccess
  <2>2. pc' \in Locations /\ pc' # "lookup"
    BY <1>9 DEF Release, Calls
  <2>3. bellAge' \in 0 .. BellMemory /\ grantAge' \in 0 .. HoldTime + 1
    BY <1>9 DEF Release, GrantAccess
  <2>4. rung' \in BOOLEAN
    BY <1>9 DEF Release
  <2> QED BY <1>9, <2>1, <2>2, <2>3, <2>4 DEF Release, CachedInv, LookupInv, Threshold
<1>10. ASSUME NEW u \in Uids, CacheChanges(u) PROVE IInv'
  <2>1. DoorTypeOK'
    BY <1>10, DoorStep DEF CacheChanges
  <2>2. cached' \subseteq Uids /\ known' \in [Uids -> Answers]
    BY <1>10 DEF CacheChanges, Answers
  <2>3. \A v \in cached' : known'[v] >= Threshold
    BY <1>10, <2>2 DEF CacheChanges, CachedInv, Threshold, Answers
  <2> QED BY <1>10, <2>1, <2>2, <2>3 DEF CacheChanges, CachedInv, LookupInv, Threshold
<1>11. CASE Tick
  <2>1. DoorTypeOK'
    BY <1>11, DoorStep DEF Tick
  <2>2. scannedAge' \in 0 .. Debounce + 1
    BY <1>11 DEF Tick
  <2>3. bellAge' \in 0 .. BellMemory
    BY <1>11 DEF Tick
  <2>4. grantAge' \in 0 .. HoldTime + 1
    BY <1>11 DEF Tick
  <2> QED BY <1>11, <2>1, <2>2, <2>3, <2>4 DEF Tick, CachedInv, LookupInv, Threshold
<1>12. CASE Reset
  <2>1. DoorTypeOK'
    BY <1>12, DoorStep DEF Reset, Boot
  <2>2. card' \in CardSet /\ lastScanned' \in CardSet
    BY <1>12 DEF Reset, Boot, NullCard, CardSet
  <2>3. /\ scannedAge' \in 0 .. Debounce + 1 /\ bellAge' \in 0 .. BellMemory
        /\ grantAge' \in 0 .. HoldTime + 1
    BY <1>12 DEF Reset, Boot
  <2>4. cached' \subseteq cached
    BY <1>12 DEF Reset
  <2> QED BY <1>12, <2>1, <2>2, <2>3, <2>4 DEF Reset, Boot, CachedInv, LookupInv, Threshold
<1>13. CASE UNCHANGED vars
  <2>1. DoorTypeOK'
    BY <1>13, DoorStep DEF vars
  <2> QED BY <1>13, <2>1 DEF vars, CachedInv, LookupInv, Threshold
<1> QED
  BY <1>1, <1>2, <1>3, <1>4, <1>5, <1>6, <1>7, <1>8, <1>9, <1>10, <1>11, <1>12, <1>13
  DEF Next, ProgramStep

(***************************************************************************)
(* The invariant holds of the door roles.                                  *)
(***************************************************************************)
THEOREM DoorInvariant == Spec => []IInv
BY InitIInv, InvStep, PTL DEF Spec

(***************************************************************************)
(* Type correctness.                                                       *)
(***************************************************************************)
THEOREM DoorType == Spec => []DoorbotTypeOK
<1>1. IInv => DoorbotTypeOK
  BY DEF IInv
<1> QED BY <1>1, DoorInvariant, PTL

-----------------------------------------------------------------------------

(***************************************************************************)
(* The door opens only for whom the role says.  The step that opens it is  *)
(* that of the release button, or a look-up, whose card has had an answer  *)
(* that opens the door: just now, or, by CachedInv, when it was cached.    *)
(***************************************************************************)
OpenStep ==
  ~doorPin /\ doorPin' =>
    \/ pc = "release"
    \/ card.uid \in Uids /\ known'[card.uid] >= (IF role = 1 THEN 0 ELSE 1)

(* The step that opens the door.                                           *)
LEMMA OpensOnlyForKnown == IInv /\ [Next]_vars => OpenStep
<1> SUFFICES ASSUME IInv, [Next]_vars PROVE OpenStep
  OBVIOUS
<1> USE DoorbotAssumption DEF IInv
<1>1. CASE UseCached
  <2>1. card.uid \in Uids /\ known[card.uid] >= Threshold
    BY <1>1 DEF UseCached, CachedInv, DoorbotTypeOK
  <2> QED BY <1>1, <2>1 DEF OpenStep, UseCached, Threshold
<1>2. ASSUME NEW answer \in Answers, AskServer(answer) PROVE OpenStep
  <2>1. card.uid \in Uids
    BY <1>2 DEF AskServer, LookupInv
  <2>2. known'[card.uid] >= answer /\ known'[card.uid] \in Int
    BY <1>2, <2>1 DEF AskServer, Answers, DoorbotTypeOK
  <2>3. doorPin' # doorPin => Opens(answer)
    BY <1>2 DEF AskServer, HandleCard, doorVars
  <2>4. Opens(answer) => answer >= Threshold
    BY OpensIsThreshold DEF DoorbotTypeOK, Answers
  <2>5. Opens(answer) => known'[card.uid] >= Threshold
    BY <2>2, <2>4 DEF Threshold, Answers
  <2> QED BY <2>1, <2>3, <2>5 DEF OpenStep, Threshold
<1>3. CASE NoLinkToAsk
  <2>1. ~Opens(NoLink)
    BY OpensIsThreshold DEF DoorbotTypeOK, NoLink, Threshold
  <2> QED BY <1>3, <2>1 DEF NoLinkToAsk, HandleCard, doorVars, OpenStep
<1>4. CASE StartPass \/ Tick \/ Reset \/ UNCHANGED vars
  <2>1. ~doorPin => ~doorPin'
    BY <1>4 DEF StartPass, MaybeClose, CloseDoor, Tick, DoorTick, Reset, Boot, DoorBoot, vars, doorVars
  <2> QED BY <2>1 DEF OpenStep
<1>5. CASE Release
  BY <1>5 DEF Release, OpenStep
<1>6. CASE \/ ReadNothing \/ Announce \/ NoBell \/ Bell \/ NoRelease
           \/ \E u \in Uids : ReadCard(u) \/ CacheChanges(u)
  <2>1. doorPin' = doorPin
    BY <1>6 DEF ReadNothing, Announce, NoBell, Bell, NoRelease, ReadCard, CacheChanges, doorVars
  <2> QED BY <2>1 DEF OpenStep
<1> QED BY <1>1, <1>2, <1>3, <1>4, <1>5, <1>6 DEF Next, ProgramStep

(***************************************************************************)
(* In both roles the door opens by the release button, or for a card that  *)
(* the server has once answered for as the role asks.                      *)
(***************************************************************************)
THEOREM OpensForWhomTheRoleSays == Spec => OpensForKnown
<1>1. IInv /\ [Next]_vars => [OpenStep]_vars
  BY OpensOnlyForKnown
<1>2. [][OpenStep]_vars <=> OpensForKnown
  BY PTL DEF OpensForKnown, OpenStep
<1> QED BY <1>1, <1>2, DoorInvariant, PTL DEF Spec

-----------------------------------------------------------------------------

(***************************************************************************)
(* The time for which the door is held and the time since the last grant   *)
(* are the same as long as the door is open.                               *)
(***************************************************************************)
GrantInv == doorPin => grantAge = openAge

(* No step comes between the two.                                          *)
LEMMA GrantStep == IInv /\ GrantInv /\ [Next]_vars => GrantInv'
<1> SUFFICES ASSUME IInv, GrantInv, [Next]_vars PROVE GrantInv'
  OBVIOUS
<1> USE DEF GrantInv
<1>1. CASE OpenDoor /\ grantAge' = 0
  BY <1>1 DEF OpenDoor
<1>2. CASE ~doorPin'
  BY <1>2
<1>3. CASE UNCHANGED <<doorVars, grantAge>>
  BY <1>3 DEF doorVars
<1>4. CASE Tick
  BY <1>4 DEF Tick, DoorTick
<1>5. ASSUME NEW status, HandleCard(status) PROVE GrantInv'
  BY <1>1, <1>3, <1>5 DEF HandleCard, GrantAccess
<1>6. CASE StartPass
  BY <1>2, <1>3, <1>6 DEF StartPass, MaybeClose, CloseDoor
<1>7. CASE UseCached \/ NoLinkToAsk \/ \E answer \in Answers : AskServer(answer)
  BY <1>5, <1>7 DEF UseCached, NoLinkToAsk, AskServer
<1>8. CASE Release
  BY <1>1, <1>8 DEF Release, GrantAccess
<1>9. CASE Reset
  BY <1>2, <1>9 DEF Reset, Boot, DoorBoot
<1>10. CASE \/ ReadNothing \/ Announce \/ NoBell \/ Bell \/ NoRelease \/ UNCHANGED vars
            \/ \E u \in Uids : ReadCard(u) \/ CacheChanges(u)
  BY <1>3, <1>10 DEF ReadNothing, Announce, NoBell, Bell, NoRelease, vars, ReadCard, CacheChanges
<1> QED BY <1>4, <1>6, <1>7, <1>8, <1>9, <1>10 DEF Next, ProgramStep

(***************************************************************************)
(* Whatever the hold time, each grant holds the door open for all of it.   *)
(***************************************************************************)
THEOREM EachGrantHoldsTheDoor == Spec => HeldOpen
<1>1. Init => GrantInv
  BY DEF Init, DoorInit, GrantInv
<1>2. ASSUME GrantInv, [Next]_vars
      PROVE  [doorPin /\ ~doorPin' /\ pc' # "close" => grantAge > HoldTime]_vars
  <2> SUFFICES ASSUME Next, doorPin, ~doorPin', pc' # "close" PROVE grantAge > HoldTime
    BY <1>2
  <2>1. CASE StartPass
    BY <1>2, <2>1 DEF StartPass, MaybeClose, doorVars, GrantInv
  <2>2. CASE Reset
    BY <2>2 DEF Reset, Boot
  <2>3. CASE ~(StartPass \/ Reset)
    <3>1. doorPin' = doorPin \/ doorPin' = TRUE
      BY <2>3 DEF Next, ProgramStep, ReadNothing, ReadCard, UseCached, NoLinkToAsk, AskServer,
                  HandleCard, GrantAccess, OpenDoor, Announce, NoBell, Bell, NoRelease, Release,
                  CacheChanges, Tick, DoorTick, doorVars
    <3> QED BY <3>1
  <2> QED BY <2>1, <2>2, <2>3
<1> QED BY <1>1, <1>2, GrantStep, DoorInvariant, PTL DEF Spec, HeldOpen

(***************************************************************************)
(* The node never takes an opening for the answer to a bell that did not   *)
(* ring or was answered before.                                            *)
(***************************************************************************)
LEMMA BellStep == IInv /\ AnswersABell /\ [Next]_vars => AnswersABell'
<1> SUFFICES ASSUME IInv, AnswersABell, [Next]_vars PROVE AnswersABell'
  OBVIOUS
<1> USE DoorbotAssumption DEF AnswersABell
<1>1. CASE UNCHANGED bell
  BY <1>1 DEF bell
<1>2. CASE Bell
  BY <1>1, <1>2 DEF Bell
<1>3. CASE Release
  BY <1>1, <1>3 DEF Release
<1>4. CASE Tick
  BY <1>4 DEF Tick, IInv, DoorbotTypeOK
<1>5. CASE Reset
  BY <1>5 DEF Reset, Boot
<1>6. CASE ~(Bell \/ Release \/ Tick \/ Reset)
  BY <1>1, <1>6 DEF Next, ProgramStep, StartPass, ReadNothing, ReadCard, UseCached, NoLinkToAsk,
                    AskServer, Announce, NoBell, NoRelease, CacheChanges, vars
<1> QED BY <1>2, <1>3, <1>4, <1>5, <1>6

(***************************************************************************)
(* An EXIT(1) answers a bell, once.                                        *)
(***************************************************************************)
THEOREM BellsAnsweredOnce == Spec => []AnswersABell
<1>1. Init => AnswersABell
  BY DoorbotAssumption DEF Init, AnswersABell
<1> QED BY <1>1, BellStep, DoorInvariant, PTL DEF Spec

=============================================================================
