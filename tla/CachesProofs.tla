---------------------------- MODULE CachesProofs ----------------------------
(***************************************************************************)
(* Proofs about the caches, for every set of cards, every number of        *)
(* entries and slots, and every way in which a reset may change the kind.  *)
(* The first part is about the rights that are stored (IInv), the second   *)
(* about where a card is stored (OnceInv), the third about the list of     *)
(* maintainers that doCheck() leaves in the EEPROM (MirrorInv); the last   *)
(* shows that every kind of cache keeps the promise of CachePromise.       *)
(***************************************************************************)
EXTENDS Caches, FiniteSetTheorems, WellFoundedInduction, TLAPS

Grants == [Uids -> 0 .. 2]

\* The flags of an entry are rights that the server has given its card.
Given(e, g) ==
  /\ e.uid \in Uids
  /\ e.maintainer => g[e.uid] = 2
  /\ e.status => g[e.uid] >= 1

RamInv ==
  /\ entries \in [RamSlots -> [card : CardSet, left : Int]]
  /\ \A i \in RamSlots : Live(i) => Given(entries[i].card, granted)

\* A slot counts if it is neither the end of the list nor invalid; a write
\* that is still to come is judged like a slot.
SlotGiven(e, g) == e \in EeUser /\ (~e.end /\ ~e.invalid => Given(e, g))

EeInv ==
  /\ DOMAIN ee = EeSlots
  /\ \A a \in EeSlots : SlotGiven(ee[a], granted)
  /\ SlotGiven(eeWrite.user, granted)

\* get() does not look at `invalid', so every entry of the file counts.
SdInv == sd \in Seq(SdUser) /\ \A i \in 1 .. Len(sd) : Given(sd[i], granted)

ListInv == unseen \subseteq Uids /\ \A u \in unseen : granted[u] = 2

IInv == kind \in Kinds /\ granted \in Grants /\ RamInv /\ EeInv /\ SdInv /\ ListInv

\* What the server has given it does not take back.
Grows == granted' \in Grants /\ \A u \in Uids : granted'[u] >= granted[u]

-----------------------------------------------------------------------------

(***************************************************************************)
(* A set of numbers that is not empty has a least one, which Min finds.    *)
(***************************************************************************)
LEMMA MinIsIn ==
  ASSUME NEW S \in SUBSET Nat, S # {}
  PROVE  Min(S) \in S /\ \A y \in S : Min(S) =< y
<1>1. PICK x \in S : \A y \in S : <<y, x>> \notin OpToRel(<, Nat)
  BY NatLessThanWellFounded, WFMin, Zenon
<1>2. \A y \in S : ~ (y < x)
  BY <1>1, Zenon DEF OpToRel
<1>3. \A y \in S : x =< y
  BY <1>2
<1> QED BY <1>3 DEF Min

(***************************************************************************)
(* More rights given leave the flags of an entry as justified as before.   *)
(***************************************************************************)
LEMMA GivenGrows ==
  ASSUME NEW e, NEW g \in Grants, NEW h \in Grants,
         \A u \in Uids : h[u] >= g[u],
         Given(e, g)
  PROVE  Given(e, h)
BY DEF Given, Grants

(***************************************************************************)
(* An answer about a card adds to what has been given, and is among it.    *)
(***************************************************************************)
LEMMA AnsweredGrows ==
  ASSUME granted \in Grants, NEW u \in Uids, NEW answer \in -1 .. 2, Answered(u, answer)
  PROVE  Grows /\ granted'[u] >= answer
BY DEF Answered, Grows, Grants

(***************************************************************************)
(* Where nobody asks, nothing is given.                                    *)
(***************************************************************************)
LEMMA NoRequestGrows ==
  ASSUME granted \in Grants, NoRequest
  PROVE  Grows
BY DEF NoRequest, Grows, Grants

-----------------------------------------------------------------------------

(***************************************************************************)
(* The cards that are stored: what an answer makes of a card.              *)
(***************************************************************************)
Storable(c, g) == c \in CardSet /\ Given(c, g)

LEMMA RightsOfCards ==
  ASSUME NEW c \in CardSet
  PROVE  /\ SetUser(c) \in CardSet
         /\ SetUser(c).uid = c.uid /\ SetUser(c).maintainer = c.maintainer
         /\ SetMaintainer(c) \in CardSet
         /\ SetMaintainer(c).uid = c.uid /\ SetMaintainer(c).status = c.status
BY DEF SetUser, SetMaintainer, CardSet

LEMMA AnswerIsStorable ==
  ASSUME NEW u \in Uids, NEW g \in Grants
  PROVE  /\ g[u] >= 1 => Storable(SetUser(PlainCard(u)), g)
         /\ g[u] = 2 => Storable(SetUser(SetMaintainer(PlainCard(u))), g)
<1>1. PlainCard(u) \in CardSet /\ PlainCard(u).uid = u /\ ~PlainCard(u).maintainer
  BY DEF PlainCard, CardSet
<1>2. g[u] >= 1 => Storable(SetUser(PlainCard(u)), g)
  BY <1>1, RightsOfCards DEF Storable, Given
<1>3. g[u] = 2 => Storable(SetUser(SetMaintainer(PlainCard(u))), g)
  BY <1>1, RightsOfCards DEF Storable, Given
<1> QED BY <1>2, <1>3

(***************************************************************************)
(* The caches that are left alone keep their invariants.                   *)
(***************************************************************************)
LEMMA RamFrame ==
  ASSUME granted \in Grants, Grows, RamInv, UNCHANGED entries
  PROVE  RamInv'
BY GivenGrows DEF RamInv, Live, Grows

LEMMA EeFrame ==
  ASSUME granted \in Grants, Grows, EeInv, UNCHANGED eeVars
  PROVE  EeInv'
BY GivenGrows DEF EeInv, SlotGiven, Grows, eeVars

LEMMA SdFrame ==
  ASSUME granted \in Grants, Grows, SdInv, UNCHANGED sd
  PROVE  SdInv'
BY GivenGrows DEF SdInv, Grows

LEMMA ListFrame ==
  ASSUME granted \in Grants, Grows, ListInv, unseen' \subseteq unseen
  PROVE  ListInv'
BY DEF ListInv, Grows, Grants

-----------------------------------------------------------------------------

(***************************************************************************)
(* The cache in RAM: an entry that is found was live, so its flags are     *)
(* rights that were given; verify() adds what the answer has just given.   *)
(***************************************************************************)
LEMMA RamGetKeeps ==
  ASSUME granted \in Grants, Grows, RamInv, NEW c, RamGet(c)
  PROVE  RamInv'
<1>1. CASE RamHits(c) = {}
  BY <1>1, RamFrame DEF RamGet
<1>2. CASE RamHits(c) # {}
  <2> DEFINE h == Min(RamHits(c))
  <2>1. RamHits(c) \in SUBSET Nat
    BY CachesAssumption DEF RamHits, RamSlots
  <2>2. h \in RamSlots /\ Live(h)
    BY <1>2, <2>1, MinIsIn DEF RamHits
  <2>3. entries' = [entries EXCEPT ![h].left = TTL]
    BY <1>2 DEF RamGet, Touched
  <2> HIDE DEF h
  <2>4. \A i \in RamSlots : entries'[i].card = entries[i].card /\ (Live(i)' => Live(i))
    BY <2>2, <2>3 DEF RamInv, Live
  <2>5. entries' \in [RamSlots -> [card : CardSet, left : Int]]
    BY <2>2, <2>3, CachesAssumption DEF RamInv
  <2> QED BY <2>4, <2>5, GivenGrows DEF RamInv, Grows
<1> QED BY <1>1, <1>2

LEMMA RamSetKeeps ==
  ASSUME granted \in Grants, Grows, RamInv, NEW c, Storable(c, granted'), RamSet(c)
  PROVE  RamInv'
<1>1. CASE CompareUid(RamFound(c), c)
  BY <1>1, RamGetKeeps DEF RamSet
<1>2. CASE ~CompareUid(RamFound(c), c)
  <2> DEFINE x == Min(Expendable)
  <2>1. entries' = [entries EXCEPT ![x] = [card |-> c, left |-> TTL]]
    BY <1>2 DEF RamSet
  <2> HIDE DEF x
  <2>2. \A i \in RamSlots :
          entries'[i] = IF i = x THEN [card |-> c, left |-> TTL] ELSE entries[i]
    BY <2>1 DEF RamInv
  <2>3. entries' \in [RamSlots -> [card : CardSet, left : Int]]
    <3>1. [card |-> c, left |-> TTL] \in [card : CardSet, left : Int]
      BY CachesAssumption DEF Storable
    <3> QED BY <2>1, <3>1 DEF RamInv
  <2>4. ASSUME NEW i \in RamSlots, Live(i)'
        PROVE  Given(entries[i].card, granted)'
    BY <2>2, <2>4, GivenGrows DEF RamInv, Live, Storable, Grows
  <2> QED BY <2>3, <2>4 DEF RamInv
<1> QED BY <1>1, <1>2

LEMMA RamVerifyKeeps ==
  ASSUME granted \in Grants, Grows, RamInv,
         NEW i \in RamSlots, Live(i), NEW answer \in -1 .. 2,
         granted'[entries[i].card.uid] >= answer,
         RamVerifyEntry(i, answer)
  PROVE  RamInv'
<1> DEFINE e == entries[i].card
           new == CASE answer = 2 -> SetMaintainer(e)
                    [] answer = 1 -> SetUser(e)
                    [] OTHER -> e
<1>1. e \in CardSet /\ Given(e, granted')
  BY GivenGrows DEF RamInv, Grows
<1>2. new \in CardSet /\ Given(new, granted')
  <2>1. CASE answer = 2
    BY <1>1, <2>1, RightsOfCards DEF Given, Grows, Grants
  <2>2. CASE answer = 1
    BY <1>1, <2>2, RightsOfCards DEF Given
  <2>3. CASE answer \notin {1, 2}
    BY <1>1, <2>3
  <2> QED BY <2>1, <2>2, <2>3
<1>3. entries' = [entries EXCEPT ![i] =
                    [card |-> new, left |-> IF answer = -1 THEN -1 ELSE TTL]]
  BY DEF RamVerifyEntry
<1> HIDE DEF new
<1>4. entries' \in [RamSlots -> [card : CardSet, left : Int]]
  BY <1>2, <1>3, CachesAssumption DEF RamInv
<1>5. ASSUME NEW j \in RamSlots, Live(j)'
      PROVE  Given(entries[j].card, granted)'
  <2>1. CASE j = i
    BY <1>2, <1>3, <2>1 DEF RamInv
  <2>2. CASE j # i
    BY <1>3, <1>5, <2>2, GivenGrows DEF RamInv, Live, Grows
  <2> QED BY <2>1, <2>2
<1> QED BY <1>4, <1>5 DEF RamInv

(***************************************************************************)
(* Entries that get older, expire or are cleared show no more than before. *)
(***************************************************************************)
LEMMA RamAgesKeeps ==
  ASSUME granted \in Grants, Grows, RamInv, RamPurge \/ RamTick
  PROVE  RamInv'
<1>1. entries' \in [RamSlots -> [card : CardSet, left : Int]]
  BY DEF RamInv, RamPurge, RamTick
<1>2. \A i \in RamSlots : entries'[i].card = entries[i].card /\ (Live(i)' => Live(i))
  BY DEF RamInv, RamPurge, RamTick, Live
<1> QED BY <1>1, <1>2, GivenGrows DEF RamInv, Grows

LEMMA RamBeginKeeps ==
  ASSUME entries' = RamEmpty
  PROVE  RamInv'
BY DEF RamInv, RamEmpty, Live, NullCard, CardSet

-----------------------------------------------------------------------------

(***************************************************************************)
(* The cache in the EEPROM: whichever slot is written, what is written     *)
(* there, or copied behind it, is a card whose flags were given, or counts *)
(* for nothing.                                                            *)
(***************************************************************************)
LEMMA MarkerCountsForNothing ==
  \A g : SlotGiven(EndMarker, g)
BY DEF SlotGiven, EndMarker, EeUser

LEMMA SlotGrows ==
  ASSUME NEW e, NEW g \in Grants, NEW h \in Grants,
         \A u \in Uids : h[u] >= g[u],
         SlotGiven(e, g)
  PROVE  SlotGiven(e, h)
BY GivenGrows DEF SlotGiven

LEMMA WriteUserKeeps ==
  ASSUME granted \in Grants, Grows, EeInv,
         NEW a \in EeSlots, NEW e, SlotGiven(e, granted'), WriteUser(e, a)
  PROVE  EeInv'
<1>1. \A b \in EeSlots : SlotGiven(ee[b], granted')
  BY SlotGrows DEF EeInv, Grows
<1>2. CASE ~ee[a].end
  <2>1. ee' = [ee EXCEPT ![a] = e] /\ eeWrite'.user = EndMarker
    BY <1>2 DEF WriteUser, NoWrite
  <2>2. DOMAIN ee' = EeSlots /\ \A b \in EeSlots : ee'[b] = IF b = a THEN e ELSE ee[b]
    BY <2>1 DEF EeInv
  <2> QED BY <1>1, <2>1, <2>2, MarkerCountsForNothing DEF EeInv
<1>3. CASE ee[a].end
  <2>1. /\ ee' = IF a < EeSize THEN [ee EXCEPT ![a + 1] = ee[a]] ELSE ee
        /\ eeWrite'.user = e
    BY <1>3 DEF WriteUser
  <2>2. DOMAIN ee' = EeSlots /\ \A b \in EeSlots : ee'[b] \in {ee[a], ee[b]}
    BY <2>1 DEF EeInv
  <2> QED BY <1>1, <2>1, <2>2 DEF EeInv
<1> QED BY <1>2, <1>3

LEMMA SlotsAreFound ==
  /\ \A c : EeHits(c) # {} => Min(EeHits(c)) \in EeHits(c)
  /\ FindFree \in EeSlots
<1>1. EeSlots \in SUBSET Nat /\ 1 \in EeSlots
  BY CachesAssumption DEF EeSlots
<1>2. ASSUME NEW c, EeHits(c) # {}
      PROVE  Min(EeHits(c)) \in EeHits(c)
  <2>1. EeHits(c) \in SUBSET Nat
    BY <1>1 DEF EeHits, EeListed
  <2> QED BY <1>2, <2>1, MinIsIn
<1>3. FindFree \in EeSlots
  <2>1. CASE EeFree = {}
    BY <1>1, <2>1 DEF FindFree
  <2>2. CASE EeFree # {}
    <3>1. EeFree \in SUBSET Nat
      BY <1>1 DEF EeFree
    <3>2. Min(EeFree) \in EeFree
      BY <2>2, <3>1, MinIsIn
    <3> QED BY <2>2, <3>2 DEF FindFree, EeFree
  <2> QED BY <2>1, <2>2
<1> QED BY <1>2, <1>3

LEMMA EeSetKeeps ==
  ASSUME granted \in Grants, Grows, EeInv,
         NEW c \in CardSet, c.valid => Given(c, granted'), EeSet(c)
  PROVE  EeInv'
<1> DEFINE a == IF EeHits(c) = {} THEN FindFree ELSE Min(EeHits(c))
<1>1. a \in EeSlots
  BY SlotsAreFound DEF EeHits, EeListed
<1>2. EeStruct(c) \in EeUser
  BY DEF EeStruct, EeUser, IsUser, IsMaintainer, CardSet
<1>3. /\ EeStruct(c).uid = c.uid /\ (EeStruct(c).invalid \/ c.valid)
      /\ EeStruct(c).maintainer => c.valid /\ c.maintainer
      /\ EeStruct(c).status => c.valid /\ (c.status \/ c.maintainer)
  BY DEF EeStruct, IsUser, IsMaintainer, CardSet
<1>4. SlotGiven(EeStruct(c), granted')
  <2>1. CASE c.valid
    <3>1. Given(c, granted') /\ granted' \in Grants
      BY <2>1 DEF Grows
    <3>2. Given(EeStruct(c), granted')
      BY <1>3, <3>1 DEF Given
    <3> QED BY <1>2, <3>2 DEF SlotGiven
  <2>2. CASE ~c.valid
    BY <1>2, <1>3, <2>2 DEF SlotGiven
  <2> QED BY <2>1, <2>2
<1>5. WriteUser(EeStruct(c), a)
  BY DEF EeSet
<1> HIDE DEF a
<1> QED BY <1>1, <1>4, <1>5, WriteUserKeeps

LEMMA EePurgeKeeps ==
  ASSUME granted \in Grants, Grows, EeInv, EePurge
  PROVE  EeInv'
<1>1. 1 \in EeSlots
  BY CachesAssumption DEF EeSlots
<1> QED BY <1>1, MarkerCountsForNothing, WriteUserKeeps DEF EePurge

LEMMA EeVerifyKeeps ==
  ASSUME granted \in Grants, Grows, EeInv,
         NEW a \in EeSlots, NEW answer, EeVerifyEntry(a, answer)
  PROVE  EeInv'
<1>1. CASE answer = 0
  <2>1. SlotGiven([ee[a] EXCEPT !.invalid = TRUE], granted')
    BY DEF EeInv, SlotGiven, EeUser
  <2>2. WriteUser([ee[a] EXCEPT !.invalid = TRUE], a)
    BY <1>1 DEF EeVerifyEntry
  <2> QED BY <2>1, <2>2, WriteUserKeeps
<1>2. CASE answer # 0
  BY <1>2, EeFrame DEF EeVerifyEntry
<1> QED BY <1>1, <1>2

LEMMA EeFinishKeeps ==
  ASSUME granted \in Grants, Grows, EeInv, EeFinishWrite
  PROVE  EeInv'
<1>1. /\ DOMAIN ee' = EeSlots
      /\ \A b \in EeSlots : ee'[b] \in {ee[b], eeWrite.user}
      /\ eeWrite'.user = EndMarker
  BY DEF EeFinishWrite, EeInv, NoWrite
<1>2. \A b \in EeSlots : SlotGiven(ee'[b], granted')
  BY <1>1, SlotGrows DEF EeInv, Grows
<1> QED BY <1>1, <1>2, MarkerCountsForNothing DEF EeInv

-----------------------------------------------------------------------------

(***************************************************************************)
(* The cache on the SD card: get() takes invalid entries for the card's,   *)
(* so the flags of every entry have to be rights that were given.          *)
(***************************************************************************)
LEMMA SdSetKeeps ==
  ASSUME granted \in Grants, Grows, SdInv, NEW c, Storable(c, granted'), SdSet(c)
  PROVE  SdInv'
<1> DEFINE e == SdStruct(c)
<1>1. e \in SdUser /\ Given(e, granted')
  BY DEF Storable, SdStruct, SdUser, Given, IsUser, IsMaintainer, CardSet, Grows, Grants
<1>2. \A i \in 1 .. Len(sd) : Given(sd[i], granted')
  BY GivenGrows DEF SdInv, Grows
<1>3. (\E i \in 1 .. Len(sd) : sd' = [sd EXCEPT ![i] = e]) \/ sd' = Append(sd, e)
  <2> DEFINE own   == {i \in SdMatches(c) : ~sd[i].invalid}
             spare == {i \in DOMAIN sd : sd[i].invalid}
  <2>1. own \in SUBSET (1 .. Len(sd)) /\ spare \in SUBSET (1 .. Len(sd))
    BY DEF SdMatches, SdInv
  <2>2. sd' = IF own # {} THEN [sd EXCEPT ![Min(own)] = e]
              ELSE IF spare # {} THEN [sd EXCEPT ![Min(spare)] = e]
              ELSE Append(sd, e)
    BY DEF SdSet
  <2> HIDE DEF own, spare
  <2>3. own \in SUBSET Nat /\ spare \in SUBSET Nat
    BY <2>1
  <2>4. (own # {} => Min(own) \in own) /\ (spare # {} => Min(spare) \in spare)
    BY <2>3, MinIsIn
  <2> QED BY <2>1, <2>2, <2>4
<1> HIDE DEF e
<1>4. ASSUME NEW i \in 1 .. Len(sd), sd' = [sd EXCEPT ![i] = e]
      PROVE  SdInv'
  <2>1. sd' \in Seq(SdUser) /\ Len(sd') = Len(sd)
    BY <1>1, <1>4 DEF SdInv
  <2>2. \A j \in 1 .. Len(sd) : sd'[j] \in {e, sd[j]}
    BY <1>4 DEF SdInv
  <2> QED BY <1>1, <1>2, <2>1, <2>2 DEF SdInv
<1>5. CASE sd' = Append(sd, e)
  <2>1. sd' \in Seq(SdUser) /\ Len(sd') = Len(sd) + 1
    BY <1>1, <1>5 DEF SdInv
  <2>2. \A j \in 1 .. Len(sd') : sd'[j] = IF j = Len(sd) + 1 THEN e ELSE sd[j]
    BY <1>5, <2>1 DEF SdInv
  <2> QED BY <1>1, <1>2, <2>1, <2>2 DEF SdInv
<1> QED BY <1>3, <1>4, <1>5

LEMMA SdVerifyKeeps ==
  ASSUME granted \in Grants, Grows, SdInv,
         NEW i \in 1 .. Len(sd), NEW answer \in -1 .. 2,
         granted'[sd[i].uid] >= answer,
         SdVerifyEntry(i, answer)
  PROVE  SdInv'
<1>1. \A j \in 1 .. Len(sd) : sd[j] \in SdUser /\ Given(sd[j], granted')
  BY GivenGrows DEF SdInv, Grows
<1>2. PICK e \in SdUser : Given(e, granted') /\ sd' = [sd EXCEPT ![i] = e]
  <2>1. CASE answer = 0
    <3> DEFINE x == [sd[i] EXCEPT !.invalid = TRUE]
    <3>1. x \in SdUser /\ Given(x, granted')
      BY <1>1 DEF SdUser, Given
    <3>2. sd' = [sd EXCEPT ![i] = x]
      BY <2>1 DEF SdVerifyEntry
    <3> QED BY <3>1, <3>2
  <2>2. CASE answer \in {1, 2}
    <3>1. ASSUME NEW m \in BOOLEAN, m => answer = 2
          PROVE  /\ [sd[i] EXCEPT !.maintainer = m] \in SdUser
                 /\ Given([sd[i] EXCEPT !.maintainer = m], granted')
      BY <1>1, <3>1 DEF SdUser, Given, Grows, Grants
    <3>2. (answer = 2) \in BOOLEAN
      OBVIOUS
    <3>3. sd' = [sd EXCEPT ![i] = [sd[i] EXCEPT !.maintainer = (answer = 2)]]
      BY <2>2 DEF SdVerifyEntry
    <3> QED BY <3>1, <3>2, <3>3
  <2>3. CASE answer = -1
    <3>1. sd' = [sd EXCEPT ![i] = sd[i]]
      BY <2>3 DEF SdVerifyEntry, SdInv
    <3> QED BY <1>1, <3>1
  <2> QED BY <2>1, <2>2, <2>3
<1>3. sd' \in Seq(SdUser) /\ Len(sd') = Len(sd)
  BY <1>2 DEF SdInv
<1>4. \A j \in 1 .. Len(sd) : sd'[j] \in {e, sd[j]}
  BY <1>2 DEF SdInv
<1> QED BY <1>1, <1>2, <1>3, <1>4 DEF SdInv

LEMMA SdPurgeKeeps ==
  ASSUME SdPurge
  PROVE  SdInv'
BY DEF SdPurge, SdInv

-----------------------------------------------------------------------------

(***************************************************************************)
(* The three caches in the use the node makes of them.                     *)
(***************************************************************************)
StoresInv == RamInv /\ EeInv /\ SdInv

LEMMA StoresFrame ==
  ASSUME granted \in Grants, Grows, StoresInv, UNCHANGED stores
  PROVE  StoresInv'
BY RamFrame, EeFrame, SdFrame DEF StoresInv, stores

LEMMA CacheSetKeeps ==
  ASSUME granted \in Grants, Grows, StoresInv, NEW c, Storable(c, granted'), CacheSet(c)
  PROVE  StoresInv'
<1>1. CASE InRam /\ RamSet(c) /\ UNCHANGED <<eeVars, sd>>
  BY <1>1, RamSetKeeps, EeFrame, SdFrame DEF StoresInv
<1>2. CASE kind = "EEPROM" /\ EeSet(c) /\ UNCHANGED <<entries, sd>>
  <2>1. c \in CardSet /\ (c.valid => Given(c, granted'))
    BY DEF Storable
  <2> QED BY <1>2, <2>1, EeSetKeeps, RamFrame, SdFrame DEF StoresInv
<1>3. CASE kind = "SD" /\ SdSet(c) /\ UNCHANGED <<entries, eeVars>>
  BY <1>3, SdSetKeeps, RamFrame, EeFrame DEF StoresInv
<1> QED BY <1>1, <1>2, <1>3 DEF CacheSet

(***************************************************************************)
(* The entry that a pass comes to next is one of the cache it goes over.   *)
(***************************************************************************)
LEMMA DueIsThere ==
  ASSUME SdInv, Due # {}
  PROVE  /\ job = "verify" /\ InRam => Min(Due) \in RamSlots /\ Live(Min(Due))
         /\ job = "verify" /\ kind = "SD" => Min(Due) \in 1 .. Len(sd)
         /\ job = "verify" /\ kind = "EEPROM" => Min(Due) \in EeSlots
         /\ job = "each" => Min(Due) \in EeSlots
<1>1. Due \in SUBSET Nat
  BY CachesAssumption DEF Due, RamSlots, EeListed, EeSlots, SdInv
<1>2. Min(Due) \in Due
  BY <1>1, MinIsIn
<1>3. ASSUME job = "verify", InRam
      PROVE  Min(Due) \in RamSlots /\ Live(Min(Due))
  <2>1. Due = {i \in RamSlots : i >= at /\ Live(i)}
    BY <1>3 DEF Due, InRam
  <2> QED BY <1>2, <2>1
<1>4. ASSUME job = "verify", kind = "SD"
      PROVE  Min(Due) \in 1 .. Len(sd)
  <2>1. Due = {i \in DOMAIN sd : i >= at /\ ~sd[i].invalid}
    BY <1>4 DEF Due, InRam
  <2> QED BY <1>2, <2>1 DEF SdInv
<1>5. ASSUME job = "each" \/ (job = "verify" /\ kind = "EEPROM")
      PROVE  Min(Due) \in EeSlots
  <2>1. Due = {a \in EeListed : a >= at /\ ~ee[a].invalid}
    BY <1>5 DEF Due, InRam
  <2> QED BY <1>2, <2>1 DEF EeListed
<1> QED BY <1>3, <1>4, <1>5

LEMMA VerifyEntryKeeps ==
  ASSUME IInv, NEW answer \in -1 .. 2, VerifyEntry(answer)
  PROVE  Grows /\ StoresInv'
<1> DEFINE i == Min(Due)
<1>1. /\ job = "verify" /\ InRam => i \in RamSlots /\ Live(i)
      /\ job = "verify" /\ kind = "SD" => i \in 1 .. Len(sd)
      /\ job = "verify" /\ kind = "EEPROM" => i \in EeSlots
  BY DueIsThere DEF VerifyEntry, IInv
<1>2. job = "verify"
  BY DEF VerifyEntry
<1>3. \/ /\ InRam /\ RamVerifyEntry(i, answer)
         /\ Answered(entries[i].card.uid, answer)
         /\ UNCHANGED <<eeVars, sd>>
      \/ /\ kind = "EEPROM" /\ EeVerifyEntry(i, answer)
         /\ Answered(ee[i].uid, answer)
         /\ UNCHANGED <<entries, sd>>
      \/ /\ kind = "SD" /\ SdVerifyEntry(i, answer)
         /\ Answered(sd[i].uid, answer)
         /\ UNCHANGED <<entries, eeVars>>
  BY DEF VerifyEntry
<1> HIDE DEF i
<1>4. CASE /\ InRam /\ RamVerifyEntry(i, answer)
           /\ Answered(entries[i].card.uid, answer)
           /\ UNCHANGED <<eeVars, sd>>
  <2>1. i \in RamSlots /\ Live(i) /\ entries[i].card.uid \in Uids
    BY <1>1, <1>2, <1>4 DEF IInv, RamInv, Given
  <2>2. Grows /\ granted'[entries[i].card.uid] >= answer
    BY <1>4, <2>1, AnsweredGrows DEF IInv
  <2>3. RamInv'
    BY <1>4, <2>1, <2>2, RamVerifyKeeps DEF IInv
  <2> QED BY <1>4, <2>2, <2>3, EeFrame, SdFrame DEF IInv, StoresInv
<1>5. CASE /\ kind = "EEPROM" /\ EeVerifyEntry(i, answer)
           /\ Answered(ee[i].uid, answer)
           /\ UNCHANGED <<entries, sd>>
  <2>1. i \in EeSlots
    BY <1>1, <1>2, <1>5
  <2>2. Grows
    <3>1. CASE ee[i].uid \in Uids
      BY <1>5, <3>1, AnsweredGrows DEF IInv
    <3>2. CASE ee[i].uid \notin Uids
      <4>1. granted' = granted
        BY <1>5, <3>2 DEF Answered, Grants, IInv
      <4> QED BY <4>1 DEF Grows, Grants, IInv
    <3> QED BY <3>1, <3>2
  <2>3. EeInv'
    BY <1>5, <2>1, <2>2, EeVerifyKeeps DEF IInv
  <2> QED BY <1>5, <2>2, <2>3, RamFrame, SdFrame DEF IInv, StoresInv
<1>6. CASE /\ kind = "SD" /\ SdVerifyEntry(i, answer)
           /\ Answered(sd[i].uid, answer)
           /\ UNCHANGED <<entries, eeVars>>
  <2>1. i \in 1 .. Len(sd) /\ sd[i].uid \in Uids
    BY <1>1, <1>2, <1>6 DEF IInv, SdInv, Given
  <2>2. Grows /\ granted'[sd[i].uid] >= answer
    BY <1>6, <2>1, AnsweredGrows DEF IInv
  <2>3. SdInv'
    BY <1>6, <2>1, <2>2, SdVerifyKeeps DEF IInv
  <2> QED BY <1>6, <2>2, <2>3, RamFrame, EeFrame DEF IInv, StoresInv
<1> QED BY <1>3, <1>4, <1>5, <1>6

LEMMA CardMissKeeps ==
  ASSUME IInv, NEW u \in Uids, NEW answer \in -1 .. 2, CardMiss(u, answer)
  PROVE  Grows /\ StoresInv'
<1>1. Grows /\ granted'[u] >= answer
  BY AnsweredGrows DEF CardMiss, IInv
<1>2. granted' \in Grants /\ granted'[u] \in 0 .. 2
  BY <1>1 DEF Grows, Grants
<1>3. StoresInv /\ granted \in Grants
  BY DEF IInv, StoresInv
<1>4. CASE answer = 2
  <2>1. granted'[u] = 2
    BY <1>1, <1>2, <1>4
  <2>2. Storable(SetUser(SetMaintainer(PlainCard(u))), granted')
    BY <1>2, <2>1, AnswerIsStorable
  <2>3. CacheSet(SetUser(SetMaintainer(PlainCard(u))))
    BY <1>4 DEF CardMiss
  <2> QED BY <1>1, <1>3, <2>2, <2>3, CacheSetKeeps
<1>5. CASE answer = 1
  <2>1. Storable(SetUser(PlainCard(u)), granted')
    BY <1>1, <1>2, <1>5, AnswerIsStorable
  <2>2. CacheSet(SetUser(PlainCard(u)))
    BY <1>5 DEF CardMiss
  <2> QED BY <1>1, <1>3, <2>1, <2>2, CacheSetKeeps
<1>6. CASE answer \notin {1, 2}
  <2>1. UNCHANGED stores
    BY <1>6 DEF CardMiss
  <2> QED BY <1>1, <1>3, <2>1, StoresFrame
<1> QED BY <1>4, <1>5, <1>6

LEMMA EachEntryKeeps ==
  ASSUME IInv, EachEntry
  PROVE  Grows /\ StoresInv' /\ unseen' \subseteq unseen
<1> DEFINE e == ee[Min(Due)]
           c == [NullCard EXCEPT !.uid = e.uid]
<1>1. Min(Due) \in EeSlots
  BY DueIsThere DEF EachEntry, IInv
<1>2. e \in EeUser
  BY <1>1 DEF IInv, EeInv, SlotGiven
<1>3. Grows
  BY NoRequestGrows DEF EachEntry, IInv
<1>4. OnCard(e) /\ UNCHANGED <<entries, sd>>
  BY DEF EachEntry
<1>5. c \in CardSet /\ ~c.valid
  BY <1>2 DEF NullCard, CardSet, EeUser
<1> HIDE DEF e
<1>6. \/ unseen' = unseen \ {e.uid} /\ UNCHANGED eeVars
      \/ EeSet(c) /\ UNCHANGED unseen
  BY <1>4 DEF OnCard
<1> HIDE DEF c
<1>7. EeInv' /\ unseen' \subseteq unseen
  BY <1>3, <1>5, <1>6, EeSetKeeps, EeFrame DEF IInv
<1> QED BY <1>3, <1>4, <1>7, RamFrame, SdFrame DEF IInv, StoresInv

LEMMA AddMaintainerKeeps ==
  ASSUME IInv, NEW u \in Uids, AddMaintainer(u)
  PROVE  Grows /\ StoresInv' /\ unseen' \subseteq unseen
<1> DEFINE c == SetUser(SetMaintainer(PlainCard(u)))
<1>1. Grows /\ granted' = granted
  BY NoRequestGrows DEF AddMaintainer, NoRequest, IInv
<1>2. granted[u] = 2 /\ EeSet(c) /\ UNCHANGED <<entries, sd>> /\ unseen' \subseteq unseen
  BY DEF AddMaintainer, IInv, ListInv
<1>3. Storable(c, granted')
  BY <1>1, <1>2, AnswerIsStorable DEF IInv
<1> HIDE DEF c
<1>4. EeInv'
  BY <1>1, <1>2, <1>3, EeSetKeeps DEF Storable, IInv
<1> QED BY <1>1, <1>2, <1>4, RamFrame, SdFrame DEF IInv, StoresInv

LEMMA PurgeKeeps ==
  ASSUME IInv, Grows, Purge
  PROVE  StoresInv'
<1>1. CASE InRam /\ RamPurge /\ UNCHANGED <<eeVars, sd>>
  BY <1>1, RamAgesKeeps, EeFrame, SdFrame DEF IInv, StoresInv
<1>2. CASE kind = "EEPROM" /\ EePurge /\ UNCHANGED <<entries, sd>>
  BY <1>2, EePurgeKeeps, RamFrame, SdFrame DEF IInv, StoresInv
<1>3. CASE kind = "SD" /\ SdPurge /\ UNCHANGED <<entries, eeVars>>
  BY <1>3, SdPurgeKeeps, RamFrame, EeFrame DEF IInv, StoresInv
<1> QED BY <1>1, <1>2, <1>3 DEF Purge

LEMMA ResetKeeps ==
  ASSUME IInv, Reset
  PROVE  IInv'
<1>1. kind' \in Kinds
  BY CachesAssumption DEF Reset
<1>2. Grows /\ granted' = granted
  BY NoRequestGrows DEF Reset, NoRequest, IInv
<1>3. RamInv'
  BY RamBeginKeeps DEF Reset
<1>4. EeInv'
  <2>1. ee' = ee /\ eeWrite'.user = EndMarker
    BY DEF Reset, NoWrite
  <2> QED BY <1>2, <2>1, MarkerCountsForNothing DEF IInv, EeInv
<1>5. SdInv'
  BY <1>2, SdFrame DEF Reset, IInv
<1>6. ListInv'
  BY DEF Reset, ListInv
<1> QED BY <1>1, <1>2, <1>3, <1>4, <1>5, <1>6 DEF IInv, Grows

LEMMA ListMaintainersKeeps ==
  ASSUME IInv, NEW maintainers \in SUBSET Uids, ListMaintainers(maintainers)
  PROVE  IInv'
<1>1. Grows
  BY DEF ListMaintainers, Grows, Grants, IInv
<1>2. StoresInv'
  BY <1>1, StoresFrame DEF ListMaintainers, IInv, StoresInv
<1>3. ListInv'
  BY DEF ListMaintainers, ListInv
<1> QED BY <1>1, <1>2, <1>3 DEF ListMaintainers, IInv, StoresInv, Grows

-----------------------------------------------------------------------------

LEMMA InitHasInv ==
  ASSUME Init
  PROVE  IInv
<1>1. kind \in Kinds
  BY CachesAssumption DEF Init
<1>2. granted \in Grants
  BY DEF Init, Grants
<1>3. RamInv
  BY DEF Init, RamInv, RamEmpty, Live, NullCard, CardSet
<1>4. EeInv
  BY MarkerCountsForNothing DEF Init, EeInv, EeErased, NoWrite
<1>5. SdInv /\ ListInv
  BY DEF Init, SdInv, ListInv
<1> QED BY <1>1, <1>2, <1>3, <1>4, <1>5 DEF IInv

LEMMA NextKeepsInv ==
  ASSUME IInv, [Next]_vars
  PROVE  IInv'
<1>1. ASSUME Grows, StoresInv', kind' = kind, unseen' \subseteq unseen
      PROVE  IInv'
  BY <1>1, ListFrame DEF IInv, StoresInv, Grows
<1>2. ASSUME NEW u \in Uids, CardHit(u)
      PROVE  IInv'
  <2>1. Grows /\ kind' = kind /\ UNCHANGED <<unseen, eeVars, sd>>
    BY <1>2, NoRequestGrows DEF CardHit, IInv, check
  <2>2. RamGet(PlainCard(u)) \/ UNCHANGED entries
    BY <1>2 DEF CardHit
  <2>3. StoresInv'
    BY <2>1, <2>2, RamGetKeeps, RamFrame, EeFrame, SdFrame DEF IInv, StoresInv
  <2> QED BY <1>1, <2>1, <2>3
<1>3. ASSUME NEW u \in Uids, AddMaintainer(u)
      PROVE  IInv'
  BY <1>1, <1>3, AddMaintainerKeeps DEF AddMaintainer
<1>4. ASSUME NEW u \in Uids, NEW answer \in -1 .. 2, CardMiss(u, answer)
      PROVE  IInv'
  BY <1>1, <1>4, CardMissKeeps DEF CardMiss, check
<1>5. CASE FinishWrite
  <2>1. Grows /\ kind' = kind /\ EeFinishWrite /\ UNCHANGED <<unseen, entries, sd>>
    BY <1>5, NoRequestGrows DEF FinishWrite, IInv, check
  <2>2. StoresInv'
    BY <2>1, EeFinishKeeps, RamFrame, SdFrame DEF IInv, StoresInv
  <2> QED BY <1>1, <2>1, <2>2
<1>6. ASSUME NEW answer \in -1 .. 2, VerifyEntry(answer)
      PROVE  IInv'
  BY <1>1, <1>6, VerifyEntryKeeps DEF VerifyEntry, check
<1>7. CASE VerifyStart \/ VerifyEnd \/ EachEnd \/ AddEnd
  <2>1. Grows /\ kind' = kind /\ UNCHANGED <<unseen, stores>>
    BY <1>7, NoRequestGrows DEF VerifyStart, VerifyEnd, EachEnd, AddEnd, IInv, check
  <2>2. StoresInv'
    BY <2>1, StoresFrame DEF IInv, StoresInv
  <2> QED BY <1>1, <2>1, <2>2
<1>8. ASSUME NEW maintainers \in SUBSET Uids, ListMaintainers(maintainers)
      PROVE  IInv'
  BY <1>8, ListMaintainersKeeps
<1>9. CASE EachEntry
  BY <1>1, <1>9, EachEntryKeeps DEF EachEntry
<1>10. CASE Purge
  <2>1. Grows /\ kind' = kind /\ UNCHANGED unseen
    BY <1>10, NoRequestGrows DEF Purge, IInv, check
  <2> QED BY <1>1, <1>10, <2>1, PurgeKeeps
<1>11. CASE Tick
  <2>1. Grows /\ kind' = kind /\ RamTick /\ UNCHANGED <<unseen, eeVars, sd>>
    BY <1>11, NoRequestGrows DEF Tick, IInv, check
  <2>2. StoresInv'
    BY <2>1, RamAgesKeeps, EeFrame, SdFrame DEF IInv, StoresInv
  <2> QED BY <1>1, <2>1, <2>2
<1>12. CASE Reset
  BY <1>12, ResetKeeps
<1>13. CASE UNCHANGED vars
  <2>1. Grows /\ kind' = kind /\ UNCHANGED <<unseen, stores>>
    BY <1>13, NoRequestGrows DEF vars, check, NoRequest, IInv
  <2>2. StoresInv'
    BY <2>1, StoresFrame DEF IInv, StoresInv
  <2> QED BY <1>1, <2>1, <2>2
<1> QED BY <1>2, <1>3, <1>4, <1>5, <1>6, <1>7, <1>8, <1>9, <1>10, <1>11, <1>12, <1>13 DEF Next

-----------------------------------------------------------------------------

(***************************************************************************)
(* Of which cache a card is shown: whichever, its flags were given.        *)
(***************************************************************************)
LEMMA FoundIsGiven ==
  ASSUME IInv, NEW c, c.uid \in Uids, NEW k \in Kinds, FoundIn(k, c).valid
  PROVE  FoundIn(k, c).uid = c.uid /\ Given(FoundIn(k, c), granted)
<1>1. ASSUME RamFound(c).valid
      PROVE  RamFound(c).uid = c.uid /\ Given(RamFound(c), granted)
  <2>1. RamHits(c) # {}
    BY <1>1 DEF RamFound, NullCard
  <2>2. RamHits(c) \in SUBSET Nat
    BY CachesAssumption DEF RamHits, RamSlots
  <2>3. Min(RamHits(c)) \in RamHits(c)
    BY <2>1, <2>2, MinIsIn
  <2> QED BY <2>1, <2>3 DEF RamFound, RamHits, CompareUid, IInv, RamInv
<1>2. ASSUME EeFound(c).valid
      PROVE  EeFound(c).uid = c.uid /\ Given(EeFound(c), granted)
  <2>1. EeHits(c) # {}
    BY <1>2 DEF EeFound, NullCard
  <2> DEFINE a == Min(EeHits(c))
  <2>2. a \in EeListed /\ ~ee[a].invalid /\ ee[a].uid = c.uid
    BY <2>1, SlotsAreFound DEF EeHits
  <2>3. EeFound(c) = EeCard(ee[a])
    BY <2>1 DEF EeFound
  <2> HIDE DEF a
  <2>4. a \in EeSlots /\ ~ee[a].end
    BY <2>2 DEF EeListed, EeSlots
  <2>5. ee[a] \in EeUser /\ Given(ee[a], granted)
    BY <2>2, <2>4 DEF IInv, EeInv, SlotGiven
  <2>6. /\ EeFound(c).uid = ee[a].uid
        /\ EeFound(c).maintainer => ee[a].maintainer
        /\ EeFound(c).status => ee[a].status
    BY <2>3, <2>5 DEF EeCard, EeUser
  <2> QED BY <2>2, <2>5, <2>6 DEF Given
<1>3. ASSUME SdFound(c).valid
      PROVE  SdFound(c).uid = c.uid /\ Given(SdFound(c), granted)
  <2>1. SdMatches(c) # {}
    BY <1>3 DEF SdFound, NullCard
  <2>2. SdMatches(c) \in SUBSET Nat
    BY DEF SdMatches, IInv, SdInv
  <2>3. Min(SdMatches(c)) \in SdMatches(c)
    BY <2>1, <2>2, MinIsIn
  <2> QED BY <2>1, <2>3 DEF SdFound, SdMatches, SdCard, Given, IInv, SdInv
<1> QED BY <1>1, <1>2, <1>3 DEF FoundIn, Kinds

LEMMA ViewsOf ==
  \A k \in Kinds, u \in Uids : Views[k][u] = Worth(FoundIn(k, PlainCard(u)))
BY DEF Views

LEMMA ViewIsGiven ==
  ASSUME IInv, NEW k \in Kinds, NEW u \in Uids
  PROVE  Views[k][u] <= granted[u]
<1>1. PICK f : f = FoundIn(k, PlainCard(u))
  OBVIOUS
<1>2. granted[u] \in 0 .. 2
  BY DEF IInv, Grants
<1>3. Views[k][u] = IF f.valid THEN Level(f) ELSE -1
  BY <1>1, ViewsOf DEF Worth
<1>4. ASSUME f.valid
      PROVE  f.uid = u /\ Given(f, granted)
  BY <1>1, <1>4, FoundIsGiven DEF PlainCard
<1> QED BY <1>2, <1>3, <1>4 DEF Given, Level, IsMaintainer, IsUser

LEMMA InvShowsRightsGranted ==
  ASSUME IInv
  PROVE  ShownRightsGranted
BY ViewIsGiven DEF ShownRightsGranted, IInv

(***************************************************************************)
(* No look-up shows a right that the server never gave, for any number of  *)
(* cards, entries and slots, and whichever kind a reset turns the cache    *)
(* into.                                                                   *)
(***************************************************************************)
THEOREM ShowsOnlyWhatWasGiven == Spec => []ShownRightsGranted
<1>1. Init => IInv
  BY InitHasInv
<1>2. IInv /\ [Next]_vars => IInv'
  BY NextKeepsInv
<1>3. IInv => ShownRightsGranted
  BY InvShowsRightsGranted
<1> QED BY <1>1, <1>2, <1>3, PTL DEF Spec

-----------------------------------------------------------------------------

(***************************************************************************)
(* One entry per card.  A write that is still to come goes to the end of   *)
(* the list, with the end marker already behind it, and brings a card that *)
(* is not in the list.                                                     *)
(***************************************************************************)
RamOnce ==
  \A i, j \in RamSlots :
    Live(i) /\ Live(j) /\ entries[i].card.uid = entries[j].card.uid => i = j

SdOnce ==
  \A i, j \in 1 .. Len(sd) :
    ~sd[i].invalid /\ ~sd[j].invalid /\ sd[i].uid = sd[j].uid => i = j

EeOnce ==
  \A a, b \in EeListed :
    ~ee[a].invalid /\ ~ee[b].invalid /\ ee[a].uid = ee[b].uid => a = b

PendingInv ==
  eeWrite # NoWrite =>
    /\ eeWrite.at \in EeSlots
    /\ ee[eeWrite.at].end
    /\ \A b \in EeSlots : b < eeWrite.at => ~ee[b].end
    /\ eeWrite.at < EeSize => ee[eeWrite.at + 1].end
    /\ ~eeWrite.user.invalid =>
         \A b \in EeListed : ~ee[b].invalid => ee[b].uid # eeWrite.user.uid

OnceInv == RamOnce /\ SdOnce /\ EeOnce /\ PendingInv

\* No card comes into the list but the one of entry e.
OnlyNew(e) ==
  \A u \in Uids :
    EeHits(PlainCard(u))' # {} =>
      EeHits(PlainCard(u)) # {} \/ (~e.invalid /\ u = e.uid)

LEMMA HitsOfPlain ==
  ASSUME NEW u
  PROVE  EeHits(PlainCard(u)) = {a \in EeListed : ~ee[a].invalid /\ ee[a].uid = u}
BY DEF EeHits, PlainCard

(***************************************************************************)
(* A write to a slot of the list or to its end.                            *)
(***************************************************************************)
LEMMA WriteUserOnce ==
  ASSUME DOMAIN ee = EeSlots, EeOnce,
         NEW a \in EeSlots, \A b \in EeSlots : b < a => ~ee[b].end,
         NEW e,
         ~e.invalid =>
           \A b \in EeListed \ {a} : ~ee[b].invalid => ee[b].uid # e.uid,
         WriteUser(e, a)
  PROVE  EeOnce' /\ PendingInv' /\ OnlyNew(e)
<1> EeSlots \subseteq Nat /\ EeSize \in Nat
  BY CachesAssumption DEF EeSlots
<1>1. CASE ~ee[a].end
  <2>1. ee' = [ee EXCEPT ![a] = e] /\ eeWrite' = NoWrite
    BY <1>1 DEF WriteUser
  <2>2. \A b \in EeSlots : ee'[b] = IF b = a THEN e ELSE ee[b]
    BY <2>1
  <2>3. EeListed' \subseteq EeListed
    BY <1>1, <2>2 DEF EeListed, EeSlots
  <2>4. EeListed \subseteq EeSlots
    BY DEF EeListed
  <2>5. EeOnce'
    BY <2>2, <2>3, <2>4 DEF EeOnce
  <2>6. OnlyNew(e)
    BY <2>2, <2>3, <2>4, HitsOfPlain DEF OnlyNew, EeHits, PlainCard
  <2> QED BY <2>1, <2>5, <2>6 DEF PendingInv
<1>2. CASE ee[a].end
  <2>1. /\ ee' = IF a < EeSize THEN [ee EXCEPT ![a + 1] = ee[a]] ELSE ee
        /\ eeWrite' = [at |-> a, user |-> e]
    BY <1>2 DEF WriteUser
  <2>2. \A b \in EeSlots : b # a + 1 => ee'[b] = ee[b]
    BY <2>1
  <2>3. a < EeSize => a + 1 \in EeSlots /\ ee'[a + 1] = ee[a]
    BY <2>1 DEF EeSlots
  <2>4. \A b \in EeListed' : b \in EeSlots /\ b < a
    BY <1>2, <2>2 DEF EeListed, EeSlots
  <2>5. \A b \in EeListed' : b \in EeListed /\ b # a /\ ee'[b] = ee[b]
    BY <2>2, <2>4 DEF EeListed, EeSlots
  <2>6. EeOnce'
    BY <2>5 DEF EeOnce
  <2>7. OnlyNew(e)
    BY <2>5 DEF OnlyNew, EeHits, PlainCard
  <2>8. PendingInv'
    <3>1. eeWrite'.at = a /\ eeWrite'.user = e
      BY <2>1
    <3>2. ee'[a].end /\ \A b \in EeSlots : b < a => ~ee'[b].end
      BY <1>2, <2>2
    <3>3. a < EeSize => ee'[a + 1].end
      BY <1>2, <2>3
    <3>4. ~e.invalid => \A b \in EeListed' : ~ee'[b].invalid => ee'[b].uid # e.uid
      BY <2>5
    <3> QED BY <3>1, <3>2, <3>3, <3>4 DEF PendingInv
  <2> QED BY <2>6, <2>7, <2>8
<1> QED BY <1>1, <1>2

LEMMA ListedBefore ==
  ASSUME NEW a \in EeListed
  PROVE  a \in EeSlots /\ \A b \in EeSlots : b =< a => ~ee[b].end
BY CachesAssumption DEF EeListed, EeSlots

LEMMA FreeBefore ==
  FindFree \in EeSlots /\ \A b \in EeSlots : b < FindFree => ~ee[b].end
<1>1. EeSlots \in SUBSET Nat /\ 1 \in EeSlots /\ \A b \in EeSlots : ~(b < 1)
  BY CachesAssumption DEF EeSlots
<1>2. CASE EeFree = {}
  BY <1>1, <1>2 DEF FindFree
<1>3. CASE EeFree # {}
  <2>1. EeFree \in SUBSET Nat /\ EeFree \subseteq EeSlots
    BY <1>1 DEF EeFree
  <2>2. FindFree \in EeFree /\ \A b \in EeFree : FindFree =< b
    BY <1>3, <2>1, MinIsIn DEF FindFree
  <2>3. \A b \in EeSlots : b < FindFree => b \notin EeFree
    BY <1>1, <2>1, <2>2
  <2> QED BY <2>1, <2>2, <2>3 DEF EeFree
<1> QED BY <1>2, <1>3

LEMMA EeSetOnce ==
  ASSUME DOMAIN ee = EeSlots, EeOnce, NEW c, EeSet(c)
  PROVE  EeOnce' /\ PendingInv' /\ OnlyNew(EeStruct(c))
<1> DEFINE a == IF EeHits(c) = {} THEN FindFree ELSE Min(EeHits(c))
<1>1. EeStruct(c).uid = c.uid
  BY DEF EeStruct
<1>2. WriteUser(EeStruct(c), a)
  BY DEF EeSet
<1>3. CASE EeHits(c) = {}
  <2>1. a = FindFree
    BY <1>3
  <2>2. \A b \in EeListed : ~ee[b].invalid => ee[b].uid # c.uid
    BY <1>3 DEF EeHits
  <2> HIDE DEF a
  <2> QED BY <1>1, <1>2, <2>1, <2>2, FreeBefore, WriteUserOnce
<1>4. CASE EeHits(c) # {}
  <2>1. a \in EeHits(c)
    BY <1>4, SlotsAreFound
  <2> HIDE DEF a
  <2>2. a \in EeListed /\ ~ee[a].invalid /\ ee[a].uid = c.uid
    BY <2>1 DEF EeHits
  <2>3. a \in EeSlots /\ \A b \in EeSlots : b < a => ~ee[b].end
    BY <2>2, ListedBefore, CachesAssumption DEF EeSlots
  <2>4. \A b \in EeListed \ {a} : ~ee[b].invalid => ee[b].uid # c.uid
    BY <2>2 DEF EeOnce
  <2> QED BY <1>1, <1>2, <2>3, <2>4, WriteUserOnce
<1> QED BY <1>3, <1>4

LEMMA EePurgeOnce ==
  ASSUME DOMAIN ee = EeSlots, EeOnce, EePurge
  PROVE  EeOnce' /\ PendingInv' /\ OnlyNew(EndMarker)
<1>1. 1 \in EeSlots /\ \A b \in EeSlots : ~(b < 1)
  BY CachesAssumption DEF EeSlots
<1>2. EndMarker.invalid
  BY DEF EndMarker
<1> QED BY <1>1, <1>2, WriteUserOnce DEF EePurge

LEMMA EeVerifyOnce ==
  ASSUME DOMAIN ee = EeSlots, EeOnce, PendingInv,
         NEW a \in EeListed, ee[a] \in EeUser, NEW answer, EeVerifyEntry(a, answer)
  PROVE  EeOnce' /\ PendingInv' /\ \E e : e.invalid /\ OnlyNew(e)
<1>1. CASE answer = 0
  <2> DEFINE e == [ee[a] EXCEPT !.invalid = TRUE]
  <2>1. e.invalid /\ WriteUser(e, a)
    BY <1>1 DEF EeVerifyEntry, EeUser
  <2>2. a \in EeSlots /\ \A b \in EeSlots : b < a => ~ee[b].end
    BY ListedBefore, CachesAssumption DEF EeSlots
  <2> HIDE DEF e
  <2> QED BY <2>1, <2>2, WriteUserOnce
<1>2. CASE answer # 0
  <2>1. UNCHANGED eeVars
    BY <1>2 DEF EeVerifyEntry
  <2>2. EndMarker.invalid /\ OnlyNew(EndMarker)
    BY <2>1 DEF EndMarker, OnlyNew, EeHits, EeListed, PlainCard, eeVars
  <2> QED BY <2>1, <2>2 DEF EeOnce, PendingInv, EeListed, eeVars
<1> QED BY <1>1, <1>2

LEMMA EeFinishOnce ==
  ASSUME DOMAIN ee = EeSlots, EeOnce, PendingInv, EeFinishWrite
  PROVE  EeOnce' /\ PendingInv' /\ OnlyNew(eeWrite.user)
<1> DEFINE a == eeWrite.at
           e == eeWrite.user
<1> EeSlots \subseteq Nat /\ EeSize \in Nat
  BY CachesAssumption DEF EeSlots
<1>1. /\ ee' = [ee EXCEPT ![a] = e] /\ eeWrite' = NoWrite
      /\ a \in EeSlots /\ ee[a].end
      /\ \A b \in EeSlots : b < a => ~ee[b].end
      /\ a < EeSize => ee[a + 1].end
      /\ ~e.invalid => \A b \in EeListed : ~ee[b].invalid => ee[b].uid # e.uid
  BY DEF EeFinishWrite, PendingInv
<1> HIDE DEF a, e
<1>2. \A b \in EeSlots : ee'[b] = IF b = a THEN e ELSE ee[b]
  BY <1>1
<1>3. \A b \in EeListed' : b \in EeSlots /\ b =< a
  <2>1. ASSUME NEW b \in EeListed', ~(b =< a)
        PROVE  FALSE
    <3>1. b \in EeSlots /\ a + 1 \in 1 .. b /\ a + 1 \in EeSlots /\ a < EeSize
      BY <1>1, <2>1 DEF EeListed, EeSlots
    <3>2. ee'[a + 1].end
      BY <1>1, <1>2, <3>1
    <3> QED BY <3>1, <3>2 DEF EeListed
  <2> QED BY <2>1 DEF EeListed
<1>4. \A b \in EeListed' \ {a} : b \in EeListed /\ ee'[b] = ee[b]
  BY <1>1, <1>2, <1>3 DEF EeListed, EeSlots
<1>5. EeOnce'
  BY <1>1, <1>2, <1>4 DEF EeOnce
<1>6. OnlyNew(e)
  BY <1>1, <1>2, <1>4 DEF OnlyNew, EeHits, PlainCard
<1> QED BY <1>1, <1>5, <1>6 DEF PendingInv, e

(***************************************************************************)
(* A card is stored in RAM only when it is not there, and in the file on   *)
(* the SD card only beside its own valid entry.                            *)
(***************************************************************************)
LEMMA RamGetOnce ==
  ASSUME RamInv, RamOnce, NEW c, RamGet(c)
  PROVE  RamOnce'
<1>1. CASE RamHits(c) = {}
  BY <1>1 DEF RamGet, RamOnce, Live
<1>2. CASE RamHits(c) # {}
  <2> DEFINE h == Min(RamHits(c))
  <2>1. RamHits(c) \in SUBSET Nat
    BY CachesAssumption DEF RamHits, RamSlots
  <2>2. h \in RamSlots /\ Live(h)
    BY <1>2, <2>1, MinIsIn DEF RamHits
  <2>3. entries' = [entries EXCEPT ![h].left = TTL]
    BY <1>2 DEF RamGet, Touched
  <2> HIDE DEF h
  <2>4. \A i \in RamSlots : entries'[i].card = entries[i].card /\ (Live(i)' => Live(i))
    BY <2>2, <2>3 DEF RamInv, Live
  <2> QED BY <2>4 DEF RamOnce
<1> QED BY <1>1, <1>2

LEMMA RamSetOnce ==
  ASSUME RamInv, RamOnce, NEW c, RamSet(c)
  PROVE  RamOnce'
<1>1. CASE CompareUid(RamFound(c), c)
  BY <1>1, RamGetOnce DEF RamSet
<1>2. CASE ~CompareUid(RamFound(c), c)
  <2> DEFINE x == Min(Expendable)
  <2>1. entries' = [entries EXCEPT ![x] = [card |-> c, left |-> TTL]]
    BY <1>2 DEF RamSet
  <2> HIDE DEF x
  <2>2. RamHits(c) = {}
    <3>1. ASSUME RamHits(c) # {}
          PROVE  CompareUid(RamFound(c), c)
      <4>1. RamHits(c) \in SUBSET Nat
        BY CachesAssumption DEF RamHits, RamSlots
      <4>2. Min(RamHits(c)) \in RamHits(c)
        BY <3>1, <4>1, MinIsIn
      <4> QED BY <3>1, <4>2 DEF RamFound, RamHits, CompareUid
    <3> QED BY <1>2, <3>1
  <2>3. \A i \in RamSlots : Live(i) => entries[i].card.uid # c.uid
    BY <2>2 DEF RamHits, CompareUid
  <2>4. \A i \in RamSlots :
          entries'[i] = IF i = x THEN [card |-> c, left |-> TTL] ELSE entries[i]
    BY <2>1 DEF RamInv
  <2> QED BY <2>3, <2>4 DEF RamOnce, Live
<1> QED BY <1>1, <1>2

LEMMA RamVerifyOnce ==
  ASSUME RamInv, RamOnce, NEW i \in RamSlots, Live(i), NEW answer, RamVerifyEntry(i, answer)
  PROVE  RamOnce'
<1> DEFINE e == entries[i].card
           new == CASE answer = 2 -> SetMaintainer(e)
                    [] answer = 1 -> SetUser(e)
                    [] OTHER -> e
<1>1. e \in CardSet
  BY DEF RamInv
<1>2. new.uid = e.uid
  BY <1>1, RightsOfCards
<1>3. entries' = [entries EXCEPT ![i] =
                    [card |-> new, left |-> IF answer = -1 THEN -1 ELSE TTL]]
  BY DEF RamVerifyEntry
<1> HIDE DEF new
<1>4. \A j \in RamSlots :
        entries'[j].card.uid = entries[j].card.uid /\ (Live(j)' => Live(j))
  BY <1>2, <1>3 DEF RamInv, Live
<1> QED BY <1>4 DEF RamOnce

LEMMA RamAgesOnce ==
  ASSUME RamInv, RamOnce, RamPurge \/ RamTick
  PROVE  RamOnce'
<1>1. \A i \in RamSlots : entries'[i].card = entries[i].card /\ (Live(i)' => Live(i))
  BY DEF RamInv, RamPurge, RamTick, Live
<1> QED BY <1>1 DEF RamOnce

LEMMA SdSetOnce ==
  ASSUME SdInv, SdOnce, NEW c, SdSet(c)
  PROVE  SdOnce'
<1> DEFINE e     == SdStruct(c)
           own   == {i \in SdMatches(c) : ~sd[i].invalid}
           spare == {i \in DOMAIN sd : sd[i].invalid}
<1>1. own \in SUBSET (1 .. Len(sd)) /\ spare \in SUBSET (1 .. Len(sd))
  BY DEF SdMatches, SdInv
<1>2. sd' = IF own # {} THEN [sd EXCEPT ![Min(own)] = e]
            ELSE IF spare # {} THEN [sd EXCEPT ![Min(spare)] = e]
            ELSE Append(sd, e)
  BY DEF SdSet
<1>3. e.uid = c.uid
  BY DEF SdStruct
<1>4. \A i \in 1 .. Len(sd) : ~sd[i].invalid /\ sd[i].uid = c.uid <=> i \in own
  BY DEF SdMatches, SdInv
<1> HIDE DEF e, own, spare
<1>5. own \in SUBSET Nat /\ spare \in SUBSET Nat
  BY <1>1
<1>6. (own # {} => Min(own) \in own) /\ (spare # {} => Min(spare) \in spare)
  BY <1>5, MinIsIn
<1>7. ASSUME NEW h \in 1 .. Len(sd), h \in own \/ own = {},
             sd' = [sd EXCEPT ![h] = e]
      PROVE  SdOnce'
  <2>1. Len(sd') = Len(sd) /\ \A j \in 1 .. Len(sd) : sd'[j] = IF j = h THEN e ELSE sd[j]
    BY <1>7 DEF SdInv
  <2>2. \A j \in 1 .. Len(sd) : j # h /\ ~sd[j].invalid => sd[j].uid # c.uid
    BY <1>4, <1>7 DEF SdOnce
  <2> QED BY <1>3, <2>1, <2>2 DEF SdOnce
<1>8. ASSUME own = {}, sd' = Append(sd, e)
      PROVE  SdOnce'
  <2>1. /\ Len(sd') = Len(sd) + 1 /\ Len(sd) \in Nat
        /\ \A j \in 1 .. Len(sd') : sd'[j] = IF j = Len(sd) + 1 THEN e ELSE sd[j]
    BY <1>8 DEF SdInv
  <2>2. \A j \in 1 .. Len(sd) : ~sd[j].invalid => sd[j].uid # c.uid
    BY <1>4, <1>8
  <2>3. \A j \in 1 .. Len(sd') : j = Len(sd) + 1 \/ j \in 1 .. Len(sd)
    BY <2>1
  <2> QED BY <1>3, <2>1, <2>2, <2>3 DEF SdOnce
<1> QED BY <1>1, <1>2, <1>6, <1>7, <1>8

LEMMA SdVerifyOnce ==
  ASSUME SdInv, SdOnce, NEW i \in 1 .. Len(sd), ~sd[i].invalid,
         NEW answer, SdVerifyEntry(i, answer)
  PROVE  SdOnce'
<1>1. /\ Len(sd') = Len(sd)
      /\ \A j \in 1 .. Len(sd) : sd'[j].uid = sd[j].uid /\ (sd[j].invalid => sd'[j].invalid)
  <2>1. CASE answer = 0
    BY <2>1 DEF SdVerifyEntry, SdInv, SdUser
  <2>2. CASE answer \in {1, 2}
    BY <2>2 DEF SdVerifyEntry, SdInv, SdUser
  <2>3. CASE answer \notin {0, 1, 2}
    BY <2>3 DEF SdVerifyEntry
  <2> QED BY <2>1, <2>2, <2>3
<1> QED BY <1>1 DEF SdOnce

-----------------------------------------------------------------------------

(***************************************************************************)
(* What NothingReappears says of one step.                                 *)
(***************************************************************************)
NewIsStored ==
  \A u \in EeUids' \ EeUids :
    \/ eeWrite # NoWrite /\ u = eeWrite.user.uid
    \/ AddMaintainer(u)
    \/ \E answer \in 1 .. 2 : CardMiss(u, answer)

EeOnceInv == EeOnce /\ PendingInv

LEMMA RamOnceFrame ==
  ASSUME RamOnce, UNCHANGED entries
  PROVE  RamOnce'
BY DEF RamOnce, Live

LEMMA SdOnceFrame ==
  ASSUME SdOnce, UNCHANGED sd
  PROVE  SdOnce'
BY DEF SdOnce

LEMMA EeOnceFrame ==
  ASSUME EeOnceInv, UNCHANGED eeVars
  PROVE  EeOnceInv' /\ NewIsStored
BY DEF EeOnceInv, EeOnce, PendingInv, NewIsStored, EeUids, EeHits, EeListed, eeVars

LEMMA OnlyNewIsStored ==
  ASSUME NEW e, OnlyNew(e),
         \A u \in Uids : ~e.invalid /\ u = e.uid =>
           \/ eeWrite # NoWrite /\ u = eeWrite.user.uid
           \/ AddMaintainer(u)
           \/ \E answer \in 1 .. 2 : CardMiss(u, answer)
  PROVE  NewIsStored
BY DEF OnlyNew, NewIsStored, EeUids

LEMMA CardMissOnce ==
  ASSUME IInv, OnceInv, NEW u \in Uids, NEW answer \in -1 .. 2, CardMiss(u, answer)
  PROVE  OnceInv' /\ NewIsStored
<1>1. ASSUME answer \in 1 .. 2, NEW c, c.uid = u, CacheSet(c)
      PROVE  OnceInv' /\ NewIsStored
  <2>1. CASE InRam /\ RamSet(c) /\ UNCHANGED <<eeVars, sd>>
    BY <2>1, RamSetOnce, SdOnceFrame, EeOnceFrame DEF IInv, OnceInv, EeOnceInv
  <2>2. CASE kind = "EEPROM" /\ EeSet(c) /\ UNCHANGED <<entries, sd>>
    <3>1. DOMAIN ee = EeSlots
      BY DEF IInv, EeInv
    <3>2. EeOnce' /\ PendingInv' /\ OnlyNew(EeStruct(c))
      BY <2>2, <3>1, EeSetOnce DEF OnceInv
    <3>3. EeStruct(c).uid = u
      BY <1>1 DEF EeStruct
    <3>4. NewIsStored
      BY <1>1, <3>2, <3>3, OnlyNewIsStored
    <3> QED BY <2>2, <3>2, <3>4, RamOnceFrame, SdOnceFrame DEF OnceInv
  <2>3. CASE kind = "SD" /\ SdSet(c) /\ UNCHANGED <<entries, eeVars>>
    BY <2>3, SdSetOnce, RamOnceFrame, EeOnceFrame DEF IInv, OnceInv, EeOnceInv
  <2> QED BY <1>1, <2>1, <2>2, <2>3 DEF CacheSet
<1>2. /\ SetUser(PlainCard(u)).uid = u
      /\ SetUser(SetMaintainer(PlainCard(u))).uid = u
  BY DEF SetUser, SetMaintainer, PlainCard
<1>3. CASE answer = 2
  <2>1. CacheSet(SetUser(SetMaintainer(PlainCard(u))))
    BY <1>3 DEF CardMiss
  <2> QED BY <1>1, <1>2, <1>3, <2>1
<1>4. CASE answer = 1
  <2>1. CacheSet(SetUser(PlainCard(u)))
    BY <1>4 DEF CardMiss
  <2> QED BY <1>1, <1>2, <1>4, <2>1
<1>5. CASE answer \notin {1, 2}
  <2>1. UNCHANGED stores
    BY <1>5 DEF CardMiss
  <2> QED BY <2>1, RamOnceFrame, SdOnceFrame, EeOnceFrame DEF stores, OnceInv, EeOnceInv
<1> QED BY <1>3, <1>4, <1>5

LEMMA DueIsListed ==
  ASSUME SdInv, Due # {}
  PROVE  /\ job = "verify" /\ kind = "SD" => ~sd[Min(Due)].invalid
         /\ job = "verify" /\ kind = "EEPROM" => Min(Due) \in EeListed
         /\ job = "each" => Min(Due) \in EeListed
<1>1. Due \in SUBSET Nat
  BY CachesAssumption DEF Due, RamSlots, EeListed, EeSlots, SdInv
<1>2. Min(Due) \in Due
  BY <1>1, MinIsIn
<1> QED BY <1>2 DEF Due, InRam

LEMMA VerifyEntryOnce ==
  ASSUME IInv, OnceInv, NEW answer \in -1 .. 2, VerifyEntry(answer)
  PROVE  OnceInv' /\ NewIsStored
<1> DEFINE i == Min(Due)
<1>1. /\ InRam => i \in RamSlots /\ Live(i)
      /\ kind = "SD" => i \in 1 .. Len(sd) /\ ~sd[i].invalid
      /\ kind = "EEPROM" => i \in EeSlots /\ i \in EeListed
  BY DueIsThere, DueIsListed DEF VerifyEntry, IInv
<1>2. \/ InRam /\ RamVerifyEntry(i, answer) /\ UNCHANGED <<eeVars, sd>>
      \/ kind = "EEPROM" /\ EeVerifyEntry(i, answer) /\ UNCHANGED <<entries, sd>>
      \/ kind = "SD" /\ SdVerifyEntry(i, answer) /\ UNCHANGED <<entries, eeVars>>
  BY DEF VerifyEntry
<1> HIDE DEF i
<1>3. CASE InRam /\ RamVerifyEntry(i, answer) /\ UNCHANGED <<eeVars, sd>>
  BY <1>1, <1>3, RamVerifyOnce, SdOnceFrame, EeOnceFrame DEF IInv, OnceInv, EeOnceInv
<1>4. CASE kind = "EEPROM" /\ EeVerifyEntry(i, answer) /\ UNCHANGED <<entries, sd>>
  <2>1. DOMAIN ee = EeSlots /\ ee[i] \in EeUser
    BY <1>1, <1>4 DEF IInv, EeInv, SlotGiven
  <2>2. PICK e : EeOnce' /\ PendingInv' /\ e.invalid /\ OnlyNew(e)
    BY <1>1, <1>4, <2>1, EeVerifyOnce DEF OnceInv
  <2> QED BY <1>4, <2>2, OnlyNewIsStored, RamOnceFrame, SdOnceFrame DEF OnceInv
<1>5. CASE kind = "SD" /\ SdVerifyEntry(i, answer) /\ UNCHANGED <<entries, eeVars>>
  BY <1>1, <1>5, SdVerifyOnce, RamOnceFrame, EeOnceFrame DEF IInv, OnceInv, EeOnceInv
<1> QED BY <1>2, <1>3, <1>4, <1>5

LEMMA EachEntryOnce ==
  ASSUME IInv, OnceInv, EachEntry
  PROVE  OnceInv' /\ NewIsStored
<1> DEFINE c == [NullCard EXCEPT !.uid = ee[Min(Due)].uid]
<1>1. (EeSet(c) \/ UNCHANGED eeVars) /\ UNCHANGED <<entries, sd>>
  BY DEF EachEntry, OnCard
<1>2. EeStruct(c).invalid
  BY DEF EeStruct, NullCard
<1> HIDE DEF c
<1>3. CASE EeSet(c)
  <2>1. DOMAIN ee = EeSlots
    BY DEF IInv, EeInv
  <2>2. EeOnce' /\ PendingInv' /\ OnlyNew(EeStruct(c))
    BY <1>3, <2>1, EeSetOnce DEF OnceInv
  <2> QED BY <1>1, <1>2, <2>2, OnlyNewIsStored, RamOnceFrame, SdOnceFrame DEF OnceInv
<1>4. CASE UNCHANGED eeVars
  BY <1>1, <1>4, RamOnceFrame, SdOnceFrame, EeOnceFrame DEF OnceInv, EeOnceInv
<1> QED BY <1>1, <1>3, <1>4

LEMMA AddMaintainerOnce ==
  ASSUME IInv, OnceInv, NEW u \in Uids, AddMaintainer(u)
  PROVE  OnceInv' /\ NewIsStored
<1> DEFINE c == SetUser(SetMaintainer(PlainCard(u)))
<1>1. EeSet(c) /\ UNCHANGED <<entries, sd>>
  BY DEF AddMaintainer
<1>2. EeStruct(c).uid = u
  BY DEF EeStruct, SetUser, SetMaintainer, PlainCard
<1> HIDE DEF c
<1>3. DOMAIN ee = EeSlots
  BY DEF IInv, EeInv
<1>4. EeOnce' /\ PendingInv' /\ OnlyNew(EeStruct(c))
  BY <1>1, <1>3, EeSetOnce DEF OnceInv
<1>5. NewIsStored
  BY <1>2, <1>4, OnlyNewIsStored
<1> QED BY <1>1, <1>4, <1>5, RamOnceFrame, SdOnceFrame DEF OnceInv

LEMMA PurgeOnce ==
  ASSUME IInv, OnceInv, Purge
  PROVE  OnceInv' /\ NewIsStored
<1>1. CASE InRam /\ RamPurge /\ UNCHANGED <<eeVars, sd>>
  BY <1>1, RamAgesOnce, SdOnceFrame, EeOnceFrame DEF IInv, OnceInv, EeOnceInv
<1>2. CASE kind = "EEPROM" /\ EePurge /\ UNCHANGED <<entries, sd>>
  <2>1. DOMAIN ee = EeSlots
    BY DEF IInv, EeInv
  <2>2. EeOnce' /\ PendingInv' /\ OnlyNew(EndMarker) /\ EndMarker.invalid
    BY <1>2, <2>1, EePurgeOnce DEF OnceInv, EndMarker
  <2> QED BY <1>2, <2>2, OnlyNewIsStored, RamOnceFrame, SdOnceFrame DEF OnceInv
<1>3. CASE kind = "SD" /\ SdPurge /\ UNCHANGED <<entries, eeVars>>
  <2>1. SdOnce'
    BY <1>3 DEF SdPurge, SdOnce
  <2> QED BY <1>3, <2>1, RamOnceFrame, EeOnceFrame DEF OnceInv, EeOnceInv
<1> QED BY <1>1, <1>2, <1>3 DEF Purge

LEMMA ResetOnce ==
  ASSUME OnceInv, Reset
  PROVE  OnceInv' /\ NewIsStored
<1>1. RamOnce'
  BY DEF Reset, RamOnce, RamEmpty, Live
<1>2. EeOnce' /\ PendingInv' /\ NewIsStored
  BY DEF Reset, OnceInv, EeOnce, PendingInv, NewIsStored, EeUids, EeHits, EeListed
<1>3. SdOnce'
  BY SdOnceFrame DEF Reset, OnceInv
<1> QED BY <1>1, <1>2, <1>3 DEF OnceInv

LEMMA NextKeepsOnce ==
  ASSUME IInv, OnceInv, [Next]_vars
  PROVE  OnceInv' /\ NewIsStored
<1>1. ASSUME UNCHANGED stores
      PROVE  OnceInv' /\ NewIsStored
  BY <1>1, RamOnceFrame, SdOnceFrame, EeOnceFrame DEF stores, OnceInv, EeOnceInv
<1>2. ASSUME NEW u \in Uids, CardHit(u)
      PROVE  OnceInv' /\ NewIsStored
  <2>1. (RamGet(PlainCard(u)) \/ UNCHANGED entries) /\ UNCHANGED <<eeVars, sd>>
    BY <1>2 DEF CardHit
  <2> QED BY <2>1, RamGetOnce, RamOnceFrame, SdOnceFrame, EeOnceFrame
          DEF IInv, OnceInv, EeOnceInv
<1>3. ASSUME NEW u \in Uids, AddMaintainer(u)
      PROVE  OnceInv' /\ NewIsStored
  BY <1>3, AddMaintainerOnce
<1>4. ASSUME NEW u \in Uids, NEW answer \in -1 .. 2, CardMiss(u, answer)
      PROVE  OnceInv' /\ NewIsStored
  BY <1>4, CardMissOnce
<1>5. CASE FinishWrite
  <2>1. EeFinishWrite /\ eeWrite # NoWrite /\ UNCHANGED <<entries, sd>>
    BY <1>5 DEF FinishWrite, EeFinishWrite
  <2>2. DOMAIN ee = EeSlots
    BY DEF IInv, EeInv
  <2>3. EeOnce' /\ PendingInv' /\ OnlyNew(eeWrite.user)
    BY <2>1, <2>2, EeFinishOnce DEF OnceInv
  <2>4. NewIsStored
    BY <2>1, <2>3, OnlyNewIsStored
  <2> QED BY <2>1, <2>3, <2>4, RamOnceFrame, SdOnceFrame DEF OnceInv
<1>6. ASSUME NEW answer \in -1 .. 2, VerifyEntry(answer)
      PROVE  OnceInv' /\ NewIsStored
  BY <1>6, VerifyEntryOnce
<1>7. CASE VerifyStart \/ VerifyEnd \/ EachEnd \/ AddEnd
  BY <1>1, <1>7 DEF VerifyStart, VerifyEnd, EachEnd, AddEnd
<1>8. ASSUME NEW maintainers \in SUBSET Uids, ListMaintainers(maintainers)
      PROVE  OnceInv' /\ NewIsStored
  BY <1>1, <1>8 DEF ListMaintainers
<1>9. CASE EachEntry
  BY <1>9, EachEntryOnce
<1>10. CASE Purge
  BY <1>10, PurgeOnce
<1>11. CASE Tick
  <2>1. RamTick /\ UNCHANGED <<eeVars, sd>>
    BY <1>11 DEF Tick
  <2> QED BY <2>1, RamAgesOnce, SdOnceFrame, EeOnceFrame DEF IInv, OnceInv, EeOnceInv
<1>12. CASE Reset
  BY <1>12, ResetOnce
<1>13. CASE UNCHANGED vars
  BY <1>1, <1>13 DEF vars
<1> QED BY <1>2, <1>3, <1>4, <1>5, <1>6, <1>7, <1>8, <1>9, <1>10, <1>11, <1>12, <1>13 DEF Next

LEMMA InitHasOnce ==
  ASSUME Init
  PROVE  OnceInv
<1>1. RamOnce
  BY DEF Init, RamOnce, RamEmpty, Live
<1>2. EeOnce /\ PendingInv
  BY DEF Init, EeOnce, PendingInv, EeListed, EeErased, EndMarker, EeSlots
<1>3. SdOnce
  BY DEF Init, SdOnce
<1> QED BY <1>1, <1>2, <1>3 DEF OnceInv

(***************************************************************************)
(* A set of which all elements are equal has at most one.                  *)
(***************************************************************************)
LEMMA AtMostOne ==
  ASSUME NEW S, \A x, y \in S : x = y
  PROVE  Cardinality(S) <= 1
<1>1. CASE S = {}
  BY <1>1, FS_EmptySet
<1>2. CASE S # {}
  <2>1. PICK x \in S : TRUE
    BY <1>2
  <2>2. S = {x}
    BY <2>1
  <2> QED BY <2>2, FS_Singleton
<1> QED BY <1>1, <1>2

LEMMA OnceIsOneEntry ==
  ASSUME IInv, OnceInv
  PROVE  OneEntryPerCard
<1> SUFFICES ASSUME NEW u \in Uids
             PROVE  /\ Cardinality(RamHits(PlainCard(u))) <= 1
                    /\ Cardinality(EeHits(PlainCard(u))) <= 1
                    /\ Cardinality(SdValid(PlainCard(u))) <= 1
  BY DEF OneEntryPerCard
<1>1. \A i, j \in RamHits(PlainCard(u)) : i = j
  BY DEF OnceInv, RamOnce, RamHits, CompareUid
<1>2. \A a, b \in EeHits(PlainCard(u)) : a = b
  BY DEF OnceInv, EeOnce, EeHits
<1>3. \A i, j \in SdValid(PlainCard(u)) : i = j
  BY DEF OnceInv, SdOnce, SdValid, SdMatches, IInv, SdInv
<1> QED BY <1>1, <1>2, <1>3, AtMostOne

(***************************************************************************)
(* No card ever has two entries that a look-up could find, however many    *)
(* slots there are, whichever of them set() reuses and wherever a reset    *)
(* cuts the two writes of write_user().                                    *)
(***************************************************************************)
THEOREM NoCardTwice == Spec => []OneEntryPerCard
<1>1. Init => IInv /\ OnceInv
  BY InitHasInv, InitHasOnce
<1>2. IInv /\ OnceInv /\ [Next]_vars => (IInv /\ OnceInv)'
  BY NextKeepsInv, NextKeepsOnce
<1>3. IInv /\ OnceInv => OneEntryPerCard
  BY OnceIsOneEntry
<1> QED BY <1>1, <1>2, <1>3, PTL DEF Spec

(***************************************************************************)
(* A card comes into the list in the EEPROM only when it is being stored:  *)
(* none comes back from behind the end marker, however long the list is.   *)
(***************************************************************************)
THEOREM NothingComesBack == Spec => NothingReappears
<1>1. Init => IInv /\ OnceInv
  BY InitHasInv, InitHasOnce
<1>2. IInv /\ OnceInv /\ [Next]_vars => (IInv /\ OnceInv)'
  BY NextKeepsInv, NextKeepsOnce
<1>3. IInv /\ OnceInv /\ [Next]_vars => [NewIsStored]_vars
  BY NextKeepsOnce
<1>4. Spec => [][NewIsStored]_vars
  BY <1>1, <1>2, <1>3, PTL DEF Spec
<1> QED BY <1>4 DEF NothingReappears, NewIsStored

-----------------------------------------------------------------------------
(* The list of maintainers                                                 *)

\* The maintainers of the server's list that were found or added so far.
Seen == list \ unseen

\* A card of the list as doCheck() wants it.
Named(e) == e.uid \in Seen /\ e.status /\ e.maintainer /\ ~e.end

\* Behind the entry the pass has come to, the list holds those seen.
EachInv ==
  job = "each" =>
    /\ Ready
    /\ \A a \in EeListed : a < at /\ ~ee[a].invalid => Named(ee[a])
    /\ \A u \in Seen : \E a \in EeHits(PlainCard(u)) : a < at

\* Where the missing ones are added, nobody else is left, and those who are
\* there stay, unless the list has no room for all of them.
AddInv ==
  job = "add" =>
    /\ \A a \in EeListed : ~ee[a].invalid => Named(ee[a])
    /\ ~Ready => Named(eeWrite.user) /\ ~eeWrite.user.invalid
    /\ Cardinality(list) <= EeSize =>
         \A u \in Seen : EeHits(PlainCard(u)) # {} \/ (~Ready /\ eeWrite.user.uid = u)

ListsInv == at \in Nat /\ list \subseteq Uids /\ unseen \subseteq list

MirrorInv ==
  /\ ListsInv
  /\ job \in {"each", "add"} => kind = "OVERLAY"
  /\ EachInv
  /\ AddInv

(***************************************************************************)
(* Whatever slot of the list is written, and the end of it: the other      *)
(* entries stay where they are and as they are.                            *)
(***************************************************************************)
Overwrites(e, a) ==
  /\ a \in EeListed
  /\ EeListed' = EeListed
  /\ \A b \in EeListed : ee'[b] = IF b = a THEN e ELSE ee[b]
  /\ eeWrite' = NoWrite

Appends(e, a) ==
  /\ a \notin EeListed
  /\ EeListed' = EeListed
  /\ \A b \in EeListed : ee'[b] = ee[b]
  /\ eeWrite' = [at |-> a, user |-> e]

LEMMA WriteEffect ==
  ASSUME DOMAIN ee = EeSlots,
         NEW a \in EeSlots, \A b \in EeSlots : b < a => ~ee[b].end,
         NEW e, ~e.end, WriteUser(e, a)
  PROVE  Overwrites(e, a) \/ Appends(e, a)
<1> EeSlots \subseteq Nat /\ EeSize \in Nat
  BY CachesAssumption DEF EeSlots
<1>1. CASE ~ee[a].end
  <2>1. ee' = [ee EXCEPT ![a] = e] /\ eeWrite' = NoWrite
    BY <1>1 DEF WriteUser
  <2>2. \A b \in EeSlots : ee'[b] = IF b = a THEN e ELSE ee[b]
    BY <2>1
  <2>3. a \in EeListed
    BY <1>1 DEF EeListed, EeSlots
  <2>4. \A b \in EeSlots : ee'[b].end <=> ee[b].end
    BY <1>1, <2>2
  <2>5. EeListed' = EeListed
    BY <2>4 DEF EeListed, EeSlots
  <2> QED BY <2>1, <2>2, <2>3, <2>5 DEF Overwrites, EeListed
<1>2. CASE ee[a].end
  <2>1. /\ ee' = IF a < EeSize THEN [ee EXCEPT ![a + 1] = ee[a]] ELSE ee
        /\ eeWrite' = [at |-> a, user |-> e]
    BY <1>2 DEF WriteUser
  <2>2. \A b \in EeSlots : b # a + 1 => ee'[b] = ee[b]
    BY <2>1
  <2>3. EeListed = {b \in EeSlots : b < a}
    BY <1>2 DEF EeListed, EeSlots
  <2>4. EeListed' = {b \in EeSlots : b < a}
    BY <1>2, <2>2 DEF EeListed, EeSlots
  <2> QED BY <2>1, <2>2, <2>3, <2>4 DEF Appends
<1> QED BY <1>1, <1>2

LEMMA FinishEffect ==
  ASSUME DOMAIN ee = EeSlots, PendingInv, EeFinishWrite
  PROVE  /\ EeListed' \subseteq EeListed \union {eeWrite.at}
         /\ eeWrite.at \notin EeListed
         /\ \A b \in EeListed : b \in EeListed' /\ ee'[b] = ee[b]
         /\ ee'[eeWrite.at] = eeWrite.user
         /\ ~eeWrite.user.end => eeWrite.at \in EeListed'
         /\ eeWrite' = NoWrite
<1> DEFINE a == eeWrite.at
           e == eeWrite.user
<1> EeSlots \subseteq Nat /\ EeSize \in Nat
  BY CachesAssumption DEF EeSlots
<1>1. /\ ee' = [ee EXCEPT ![a] = e] /\ eeWrite' = NoWrite
      /\ a \in EeSlots /\ ee[a].end
      /\ \A b \in EeSlots : b < a => ~ee[b].end
      /\ a < EeSize => ee[a + 1].end
  BY DEF EeFinishWrite, PendingInv
<1> HIDE DEF a, e
<1>2. \A b \in EeSlots : ee'[b] = IF b = a THEN e ELSE ee[b]
  BY <1>1
<1>3. EeListed = {b \in EeSlots : b < a}
  BY <1>1 DEF EeListed, EeSlots
<1>4. EeListed' \subseteq {b \in EeSlots : b =< a}
  <2>1. ASSUME NEW b \in EeListed', ~(b =< a)
        PROVE  FALSE
    <3>1. b \in EeSlots /\ a + 1 \in 1 .. b /\ a + 1 \in EeSlots /\ a < EeSize
      BY <1>1, <2>1 DEF EeListed, EeSlots
    <3>2. ee'[a + 1].end
      BY <1>1, <1>2, <3>1
    <3> QED BY <3>1, <3>2 DEF EeListed
  <2> QED BY <2>1 DEF EeListed
<1>5. \A b \in EeSlots : b < a => b \in EeListed'
  BY <1>1, <1>2 DEF EeListed, EeSlots
<1>6. ~e.end => a \in EeListed'
  BY <1>1, <1>2 DEF EeListed, EeSlots
<1>7. a \notin EeListed /\ EeListed' \subseteq EeListed \union {a}
  <2>1. ~(a < a) /\ \A b \in EeSlots : b =< a => b < a \/ b = a
    BY <1>1
  <2> QED BY <1>3, <1>4, <2>1
<1>8. \A b \in EeListed : b \in EeListed' /\ ee'[b] = ee[b]
  BY <1>1, <1>2, <1>3, <1>5
<1>9. ee'[a] = e
  BY <1>1, <1>2
<1> QED BY <1>1, <1>6, <1>7, <1>8, <1>9 DEF a, e

(***************************************************************************)
(* The list has no free slot only if as many cards are in it as it has     *)
(* slots, so one that is named and not yet there finds room.               *)
(***************************************************************************)
LEMMA RoomForOneMore ==
  ASSUME IsFiniteSet(Uids), list \subseteq Uids, DOMAIN ee = EeSlots, EeOnce,
         \A a \in EeListed : ~ee[a].invalid => ee[a].uid \in Seen,
         NEW u \in unseen, unseen \subseteq list,
         Cardinality(list) <= EeSize
  PROVE  EeFree # {}
<1> SUFFICES ASSUME EeFree = {}
             PROVE  FALSE
  OBVIOUS
<1>1. \A a \in EeSlots : a \in EeListed /\ ~ee[a].invalid
  BY CachesAssumption DEF EeFree, EeListed, EeSlots
<1> DEFINE f == [a \in EeSlots |-> ee[a].uid]
<1>2. f \in Injection(EeSlots, Seen)
  <2>1. f \in [EeSlots -> Seen]
    BY <1>1
  <2>2. \A a, b \in EeSlots : f[a] = f[b] => a = b
    BY <1>1 DEF EeOnce
  <2> QED BY <2>1, <2>2 DEF Injection, IsInjective
<1>3. IsFiniteSet(list)
  BY FS_Subset
<1>4. Seen \subseteq list /\ u \in list /\ u \notin Seen
  BY DEF Seen
<1>5. IsFiniteSet(Seen) /\ Cardinality(Seen) \in Nat /\ Cardinality(list) \in Nat
  BY <1>3, <1>4, FS_Subset, FS_CardinalityType
<1>6. Cardinality(Seen) < Cardinality(list)
  BY <1>3, <1>4, <1>5, FS_Subset
<1>7. IsFiniteSet(EeSlots) /\ Cardinality(EeSlots) = EeSize
  BY CachesAssumption, FS_Interval DEF EeSlots
<1>8. Cardinality(EeSlots) <= Cardinality(Seen)
  BY <1>2, <1>5, <1>7, FS_Injection
<1> QED BY <1>5, <1>6, <1>7, <1>8, CachesAssumption

-----------------------------------------------------------------------------

(***************************************************************************)
(* The entry a pass of doCheck() comes to.                                 *)
(***************************************************************************)
LEMMA EachComesTo ==
  ASSUME IInv, OnceInv, MirrorInv, EachEntry
  PROVE  LET m == Min(Due)
         IN  /\ m \in EeListed /\ m \in Nat /\ at =< m /\ ~ee[m].invalid
             /\ \A a \in EeListed : a < m /\ ~ee[a].invalid => Named(ee[a])
             /\ EeHits(PlainCard(ee[m].uid)) = {m}
<1> DEFINE m == Min(Due)
<1>1. job = "each" /\ Due # {}
  BY DEF EachEntry
<1>2. Due = {a \in EeListed : a >= at /\ ~ee[a].invalid}
  BY <1>1 DEF Due
<1>3. Due \in SUBSET Nat /\ EeListed \subseteq Nat
  BY <1>2, CachesAssumption DEF EeListed, EeSlots
<1>4. m \in Due /\ \A a \in Due : m =< a
  BY <1>1, <1>3, MinIsIn
<1> HIDE DEF m
<1>5. m \in EeListed /\ m \in Nat /\ at =< m /\ ~ee[m].invalid
  BY <1>2, <1>3, <1>4 DEF MirrorInv, ListsInv
<1>6. ASSUME NEW a \in EeListed, a < m, ~ee[a].invalid
      PROVE  Named(ee[a])
  <2>1. a < at
    BY <1>2, <1>3, <1>4, <1>5, <1>6 DEF MirrorInv, ListsInv
  <2> QED BY <1>1, <1>6, <2>1 DEF MirrorInv, EachInv
<1>7. EeHits(PlainCard(ee[m].uid)) = {m}
  <2>1. \A a \in EeListed : ~ee[a].invalid /\ ee[a].uid = ee[m].uid => a = m
    BY <1>5 DEF OnceInv, EeOnce
  <2> QED BY <1>5, <2>1 DEF EeHits, PlainCard
<1> QED BY <1>5, <1>6, <1>7 DEF m

LEMMA EachEntryMirror ==
  ASSUME IInv, OnceInv, MirrorInv, EachEntry
  PROVE  MirrorInv'
<1>0. PICK m, e : m = Min(Due) /\ e = ee[m]
  OBVIOUS
<1> DEFINE c == [NullCard EXCEPT !.uid = e.uid]
<1>1. /\ m \in EeListed /\ m \in Nat /\ at =< m /\ ~e.invalid
      /\ \A a \in EeListed : a < m /\ ~ee[a].invalid => Named(ee[a])
      /\ EeHits(PlainCard(e.uid)) = {m}
  BY <1>0, EachComesTo
<1>2. /\ job = "each" /\ job' = "each" /\ kind' = kind /\ list' = list
      /\ at' = m + 1 /\ Ready
      /\ OnCard(e)
  BY <1>0 DEF EachEntry
<1>3. EeHits(c) = {m} /\ c.uid = e.uid
  <2>1. c.uid = e.uid
    BY DEF NullCard
  <2> QED BY <1>1, <2>1 DEF EeHits, PlainCard
<1>4. EeListed \subseteq Nat /\ Min({m}) = m
  <2>1. {m} \in SUBSET Nat
    BY <1>1
  <2>2. Min({m}) \in {m}
    BY <2>1, MinIsIn
  <2> QED BY <2>2, CachesAssumption DEF EeListed, EeSlots
<1>5. \/ /\ e.uid \in unseen /\ e.status /\ e.maintainer
         /\ unseen' = unseen \ {e.uid} /\ UNCHANGED eeVars
      \/ EeSet(c) /\ UNCHANGED unseen
  BY <1>2 DEF OnCard
<1>6. DOMAIN ee = EeSlots
  BY DEF IInv, EeInv
<1>7. \A u \in Seen : \E a \in EeHits(PlainCard(u)) : a < at
  BY <1>2 DEF MirrorInv, EachInv
<1>8. ~e.end
  BY <1>0, <1>1, ListedBefore, CachesAssumption DEF EeListed, EeSlots
<1>9. CASE /\ e.uid \in unseen /\ e.status /\ e.maintainer
           /\ unseen' = unseen \ {e.uid} /\ UNCHANGED eeVars
  <2>1. Seen' = Seen \union {e.uid} /\ ee' = ee /\ eeWrite' = eeWrite
    BY <1>2, <1>9 DEF Seen, MirrorInv, ListsInv, eeVars
  <2>2. EeListed' = EeListed /\ \A u : EeHits(PlainCard(u))' = EeHits(PlainCard(u))
    BY <2>1 DEF EeListed, EeHits, PlainCard
  <2>3. \A a \in EeListed' : a < at' /\ ~ee'[a].invalid => Named(ee[a])'
    <3>1. \A a \in EeListed : a < at' => a < m \/ a = m
      BY <1>1, <1>2, <1>4
    <3>2. Named(e)'
      BY <1>8, <1>9, <2>1 DEF Named
    <3>3. \A a \in EeListed : Named(ee[a]) => Named(ee[a])'
      BY <2>1 DEF Named
    <3> QED BY <1>0, <1>1, <2>1, <2>2, <3>1, <3>2, <3>3
  <2>4. \A u \in Seen' : \E a \in EeHits(PlainCard(u))' : a < at'
    <3>1. m < at' /\ \A a \in EeListed : a < at => a < at'
      BY <1>1, <1>2, <1>4 DEF MirrorInv, ListsInv
    <3>2. \A u : EeHits(PlainCard(u)) \subseteq EeListed
      BY DEF EeHits
    <3> QED BY <1>1, <1>7, <2>1, <2>2, <3>1, <3>2
  <2>5. EachInv'
    BY <1>2, <2>1, <2>3, <2>4 DEF EachInv, Ready, NoWrite
  <2> QED BY <1>1, <1>2, <1>9, <2>5 DEF MirrorInv, ListsInv, AddInv
<1>10. CASE EeSet(c) /\ UNCHANGED unseen
  <2>1. WriteUser(EeStruct(c), m)
    BY <1>3, <1>4, <1>10 DEF EeSet
  <2>2. ~EeStruct(c).end /\ EeStruct(c).invalid
    BY DEF EeStruct, c, NullCard
  <2>3. m \in EeSlots /\ \A b \in EeSlots : b < m => ~ee[b].end
    BY <1>1, ListedBefore, CachesAssumption DEF EeSlots
  <2>4. Overwrites(EeStruct(c), m)
    BY <1>1, <1>6, <2>1, <2>2, <2>3, WriteEffect DEF Appends
  <2>5. Seen' = Seen
    BY <1>2, <1>10 DEF Seen
  <2>6. \A a \in EeListed' : a < at' /\ ~ee'[a].invalid => Named(ee[a])'
    <3>1. \A a \in EeListed : a < at' => a < m \/ a = m
      BY <1>1, <1>2, <1>4
    <3>2. \A a \in EeListed : a < m => a # m
      BY <1>4, <1>1
    <3> QED BY <1>1, <2>2, <2>4, <2>5, <3>1, <3>2 DEF Overwrites, Named
  <2>7. ASSUME NEW u \in Seen'
        PROVE  \E a \in EeHits(PlainCard(u))' : a < at'
    <3>1. PICK a \in EeHits(PlainCard(u)) : a < at
      BY <1>7, <2>5
    <3>2. a \in EeListed /\ ~ee[a].invalid /\ ee[a].uid = u
      BY HitsOfPlain
    <3>3. a # m /\ a < at'
      BY <1>1, <1>2, <1>4, <3>1, <3>2 DEF MirrorInv, ListsInv
    <3>4. a \in EeHits(PlainCard(u))'
      BY <2>4, <3>2, <3>3 DEF Overwrites, EeHits, PlainCard
    <3> QED BY <3>3, <3>4
  <2>8. EachInv'
    BY <2>4, <2>6, <2>7 DEF EachInv, Overwrites, Ready, NoWrite
  <2> QED BY <1>1, <1>2, <1>10, <2>8 DEF MirrorInv, ListsInv, AddInv
<1> QED BY <1>5, <1>9, <1>10

LEMMA EachEndMirror ==
  ASSUME IInv, MirrorInv, EachEnd
  PROVE  MirrorInv'
<1>1. /\ job = "each" /\ job' = "add" /\ Ready /\ Due = {} /\ at' = 1
      /\ UNCHANGED <<kind, list, unseen, ee, eeWrite>>
  BY DEF EachEnd, check, stores, eeVars
<1>2. Due = {a \in EeListed : a >= at /\ ~ee[a].invalid}
  BY <1>1 DEF Due
<1>3. \A a \in EeListed : ~ee[a].invalid => a < at
  BY <1>1, <1>2, CachesAssumption DEF EeListed, EeSlots, MirrorInv, ListsInv
<1>4. \A a \in EeListed : ~ee[a].invalid => Named(ee[a])
  BY <1>1, <1>3 DEF MirrorInv, EachInv
<1>5. \A u \in Seen : EeHits(PlainCard(u)) # {}
  BY <1>1 DEF MirrorInv, EachInv
<1>6. AddInv'
  BY <1>1, <1>4, <1>5 DEF AddInv, Seen, Named, EeListed, EeHits, PlainCard, Ready, NoWrite
<1> QED BY <1>1, <1>6 DEF MirrorInv, ListsInv, EachInv

LEMMA AddMaintainerMirror ==
  ASSUME IsFiniteSet(Uids), IInv, OnceInv, MirrorInv,
         NEW u \in Uids, AddMaintainer(u)
  PROVE  MirrorInv'
<1> DEFINE c == SetUser(SetMaintainer(PlainCard(u)))
           e == EeStruct(c)
<1>1. /\ Ready /\ job = "add" /\ job' = "add" /\ u \in unseen
      /\ unseen' = unseen \ {u} /\ UNCHANGED <<kind, at, list>>
      /\ EeSet(c)
  BY DEF AddMaintainer
<1>2. /\ e.uid = u /\ e.status /\ e.maintainer /\ ~e.invalid /\ ~e.end
      /\ c.uid = u
  BY DEF EeStruct, SetUser, SetMaintainer, PlainCard, IsUser, IsMaintainer
<1>3. Seen' = Seen \union {u} /\ u \notin Seen
  BY <1>1 DEF Seen, MirrorInv, ListsInv
<1>4. \A a \in EeListed : ~ee[a].invalid => Named(ee[a])
  BY <1>1 DEF MirrorInv, AddInv
<1>5. EeHits(c) = {}
  BY <1>2, <1>3, <1>4 DEF EeHits, Named
<1>6. WriteUser(e, FindFree)
  BY <1>1, <1>5 DEF EeSet
<1> HIDE DEF c, e
<1>7. DOMAIN ee = EeSlots /\ EeOnce
  BY DEF IInv, EeInv, OnceInv
<1> DEFINE f == FindFree
<1>8. Overwrites(e, f) \/ Appends(e, f)
  BY <1>2, <1>6, <1>7, FreeBefore, WriteEffect
<1>9. ASSUME Cardinality(list) <= EeSize, f \in EeListed
      PROVE  ee[f].invalid
  <2>1. EeFree # {}
    BY <1>1, <1>4, <1>7, <1>9, RoomForOneMore DEF MirrorInv, ListsInv, Named
  <2>2. EeFree \in SUBSET Nat
    BY CachesAssumption DEF EeFree, EeSlots
  <2>3. f \in EeFree
    BY <2>1, <2>2, MinIsIn DEF FindFree
  <2>4. ~ee[f].end
    BY <1>9, ListedBefore, CachesAssumption DEF EeListed, EeSlots
  <2> QED BY <2>3, <2>4 DEF EeFree
<1>10. \A v \in Seen : Cardinality(list) <= EeSize => EeHits(PlainCard(v)) # {}
  BY <1>1 DEF MirrorInv, AddInv
<1> HIDE DEF f
<1>11. \A x : Named(x) => Named(x)'
  BY <1>3 DEF Named
<1>12. Named(e)'
  BY <1>2, <1>3 DEF Named
<1>13. CASE Overwrites(e, f)
  <2>1. \A a \in EeListed' : ~ee'[a].invalid => Named(ee[a])'
    BY <1>2, <1>3, <1>4, <1>13 DEF Overwrites, Named
  <2>2. ASSUME NEW v \in Seen', Cardinality(list) <= EeSize
        PROVE  EeHits(PlainCard(v))' # {}
    <3>1. CASE v = u
      <4>1. f \in EeHits(PlainCard(v))'
        BY <1>2, <1>13, <3>1 DEF Overwrites, EeHits, PlainCard
      <4> QED BY <4>1
    <3>2. CASE v # u
      <4>1. PICK a \in EeHits(PlainCard(v)) : TRUE
        BY <1>3, <1>10, <2>2, <3>2
      <4>2. a \in EeListed /\ ~ee[a].invalid /\ ee[a].uid = v
        BY HitsOfPlain
      <4>3. a # f
        BY <1>9, <2>2, <4>2
      <4>4. a \in EeHits(PlainCard(v))'
        BY <1>13, <4>2, <4>3 DEF Overwrites, EeHits, PlainCard
      <4> QED BY <4>4
    <3> QED BY <3>1, <3>2
  <2>3. AddInv'
    BY <1>1, <1>13, <2>1, <2>2 DEF AddInv, Overwrites, Ready, NoWrite
  <2> QED BY <1>1, <2>3 DEF MirrorInv, ListsInv, EachInv
<1>14. CASE Appends(e, f)
  <2>1. \A a \in EeListed' : ~ee'[a].invalid => Named(ee[a])'
    BY <1>3, <1>4, <1>14 DEF Appends, Named
  <2>2. Named(eeWrite.user)' /\ ~eeWrite'.user.invalid /\ eeWrite'.user.uid = u
    BY <1>2, <1>3, <1>14 DEF Appends, Named
  <2>3. ~Ready'
    <3>1. f \in EeSlots /\ eeWrite'.at = f
      BY <1>14, FreeBefore DEF f, Appends
    <3>2. f # 0
      BY <3>1, CachesAssumption DEF EeSlots
    <3> QED BY <3>1, <3>2 DEF Ready, NoWrite
  <2>4. \A v : EeHits(PlainCard(v))' = EeHits(PlainCard(v))
    BY <1>14 DEF Appends, EeHits, PlainCard
  <2>5. AddInv'
    BY <1>1, <1>3, <1>10, <2>1, <2>2, <2>3, <2>4 DEF AddInv
  <2> QED BY <1>1, <2>5 DEF MirrorInv, ListsInv, EachInv
<1> QED BY <1>8, <1>13, <1>14

LEMMA FinishWriteMirror ==
  ASSUME IInv, OnceInv, MirrorInv, FinishWrite
  PROVE  MirrorInv'
<1>1. EeFinishWrite /\ eeWrite # NoWrite /\ UNCHANGED <<kind, job, at, list, unseen>>
  BY DEF FinishWrite, EeFinishWrite, check
<1>2. DOMAIN ee = EeSlots /\ PendingInv
  BY DEF IInv, EeInv, OnceInv
<1> DEFINE p == eeWrite.at
           e == eeWrite.user
<1>3. /\ EeListed' \subseteq EeListed \union {p} /\ p \notin EeListed
      /\ \A b \in EeListed : b \in EeListed' /\ ee'[b] = ee[b]
      /\ ee'[p] = e
      /\ ~e.end => p \in EeListed'
      /\ eeWrite' = NoWrite
  BY <1>1, <1>2, FinishEffect
<1>4. ~Ready
  BY <1>1 DEF Ready
<1>5. job # "each"
  BY <1>4 DEF MirrorInv, EachInv
<1>6. ASSUME job = "add"
      PROVE  /\ \A a \in EeListed : ~ee[a].invalid => Named(ee[a])
             /\ Named(e) /\ ~e.invalid /\ ~e.end
             /\ Cardinality(list) <= EeSize =>
                  \A u \in Seen : EeHits(PlainCard(u)) # {} \/ e.uid = u
  BY <1>4, <1>6 DEF MirrorInv, AddInv, Named
<1> HIDE DEF p, e
<1>7. Seen' = Seen
  BY <1>1 DEF Seen
<1>8. CASE job = "add"
  <2>1. \A a \in EeListed' : ~ee'[a].invalid => Named(ee[a])'
    BY <1>3, <1>6, <1>7, <1>8 DEF Named
  <2>2. ASSUME NEW u \in Seen, EeHits(PlainCard(u)) # {} \/ e.uid = u
        PROVE  EeHits(PlainCard(u))' # {}
    <3>1. CASE e.uid = u
      <4>1. p \in EeHits(PlainCard(u))'
        BY <1>3, <1>6, <1>8, <3>1 DEF EeHits, PlainCard
      <4> QED BY <4>1
    <3>2. ASSUME NEW a \in EeHits(PlainCard(u))
          PROVE  a \in EeHits(PlainCard(u))'
      BY <1>3, <3>2 DEF EeHits, PlainCard
    <3> QED BY <2>2, <3>1, <3>2
  <2>3. AddInv'
    BY <1>1, <1>3, <1>6, <1>7, <1>8, <2>1, <2>2 DEF AddInv, Ready, NoWrite
  <2> QED BY <1>1, <1>5, <2>3 DEF MirrorInv, ListsInv, EachInv
<1>9. CASE job # "add"
  BY <1>1, <1>5, <1>9 DEF MirrorInv, ListsInv, EachInv, AddInv
<1> QED BY <1>8, <1>9

(***************************************************************************)
(* The other steps: out of doCheck() they stay out of it, or begin it.     *)
(***************************************************************************)
LEMMA OthersMirror ==
  ASSUME ListsInv', job' \notin {"each", "add"}
  PROVE  MirrorInv'
BY DEF MirrorInv, EachInv, AddInv

LEMMA ListMaintainersMirror ==
  ASSUME NEW maintainers \in SUBSET Uids, ListMaintainers(maintainers)
  PROVE  MirrorInv'
<1>1. /\ kind = "OVERLAY" /\ kind' = kind /\ job' = "each" /\ at' = 1
      /\ list' = maintainers /\ unseen' = maintainers
      /\ Ready /\ eeWrite' = eeWrite
  BY DEF ListMaintainers, stores, eeVars, Idle
<1>2. Seen' = {} /\ Ready'
  BY <1>1 DEF Seen, Ready, NoWrite
<1>3. \A a \in EeListed' : ~(a < 1)
  BY CachesAssumption DEF EeListed, EeSlots
<1> QED BY <1>1, <1>2, <1>3 DEF MirrorInv, ListsInv, EachInv, AddInv

LEMMA NextMirrors ==
  ASSUME IsFiniteSet(Uids), IInv, OnceInv, MirrorInv, [Next]_vars
  PROVE  MirrorInv'
<1>1. ASSUME job = "idle", UNCHANGED <<job, at, check>>
      PROVE  MirrorInv'
  BY <1>1, OthersMirror DEF check, MirrorInv, ListsInv
<1>2. ASSUME NEW u \in Uids, CardHit(u)
      PROVE  MirrorInv'
  BY <1>1, <1>2 DEF CardHit, Idle
<1>3. ASSUME NEW u \in Uids, NEW answer \in -1 .. 2, CardMiss(u, answer)
      PROVE  MirrorInv'
  BY <1>1, <1>3 DEF CardMiss, Idle
<1>4. ASSUME NEW u \in Uids, AddMaintainer(u)
      PROVE  MirrorInv'
  BY <1>4, AddMaintainerMirror
<1>5. CASE FinishWrite
  BY <1>5, FinishWriteMirror
<1>6. CASE VerifyStart \/ VerifyEnd
  BY <1>6, OthersMirror DEF VerifyStart, VerifyEnd, check, MirrorInv, ListsInv
<1>7. ASSUME NEW answer \in -1 .. 2, VerifyEntry(answer)
      PROVE  MirrorInv'
  <2>1. Due \in SUBSET Nat
    BY CachesAssumption DEF Due, RamSlots, EeListed, EeSlots, IInv, SdInv
  <2>2. Due # {} /\ job = "verify" /\ job' = job /\ at' = Min(Due) + 1 /\ UNCHANGED check
    BY <1>7 DEF VerifyEntry
  <2>3. PICK n \in Nat : n = Min(Due)
    BY <2>1, <2>2, MinIsIn, Zenon
  <2>4. at' \in Nat
    BY <2>2, <2>3
  <2> QED BY <2>2, <2>4, OthersMirror DEF check, MirrorInv, ListsInv
<1>8. ASSUME NEW maintainers \in SUBSET Uids, ListMaintainers(maintainers)
      PROVE  MirrorInv'
  BY <1>8, ListMaintainersMirror
<1>9. CASE EachEntry
  BY <1>9, EachEntryMirror
<1>10. CASE EachEnd
  BY <1>10, EachEndMirror
<1>11. CASE AddEnd
  BY <1>11, OthersMirror DEF AddEnd, MirrorInv, ListsInv
<1>12. CASE Purge \/ Tick
  BY <1>1, <1>12 DEF Purge, Tick, Idle
<1>13. CASE Reset
  BY <1>13, OthersMirror DEF Reset, ListsInv
<1>14. CASE UNCHANGED vars
  <2>1. /\ UNCHANGED <<kind, job, at, list, unseen, ee, eeWrite>>
    BY <1>14 DEF vars, check, stores, eeVars
  <2> QED BY <2>1 DEF MirrorInv, ListsInv, EachInv, AddInv, Seen, Named, EeListed, EeHits,
                      PlainCard, Ready, NoWrite
<1> QED BY <1>2, <1>3, <1>4, <1>5, <1>6, <1>7, <1>8, <1>9, <1>10, <1>11, <1>12, <1>13, <1>14
        DEF Next

LEMMA MirrorIsMirrored ==
  ASSUME IInv, OnceInv, MirrorInv
  PROVE  MaintainersMirrored
<1> SUFFICES ASSUME Ready, job = "add", unseen = {}, Cardinality(list) <= EeSize
             PROVE  EeUids = list /\ \A u \in list : IsMaintainer(EeFound(PlainCard(u)))
  BY DEF MaintainersMirrored
<1>1. /\ Seen = list /\ list \subseteq Uids
      /\ \A a \in EeListed : ~ee[a].invalid => Named(ee[a])
      /\ \A u \in list : EeHits(PlainCard(u)) # {}
  BY DEF Seen, MirrorInv, ListsInv, AddInv
<1>2. \A u \in EeUids : u \in list
  BY <1>1, HitsOfPlain DEF EeUids, Named
<1>3. EeUids = list
  BY <1>1, <1>2 DEF EeUids
<1>4. ASSUME NEW u \in list
      PROVE  IsMaintainer(EeFound(PlainCard(u)))
  <2> DEFINE a == Min(EeHits(PlainCard(u)))
  <2>1. a \in EeHits(PlainCard(u))
    BY <1>1, SlotsAreFound
  <2>2. a \in EeListed /\ ~ee[a].invalid
    BY <2>1 DEF EeHits
  <2>3. EeFound(PlainCard(u)) = EeCard(ee[a])
    BY <1>1 DEF EeFound
  <2>4. ee[a].maintainer
    BY <1>1, <2>2 DEF Named
  <2> HIDE DEF a
  <2>5. EeCard(ee[a]).valid /\ EeCard(ee[a]).maintainer
    BY <2>2, <2>4 DEF EeCard
  <2> QED BY <2>3, <2>5 DEF IsMaintainer
<1> QED BY <1>3, <1>4

(***************************************************************************)
(* When doCheck() is done with its two passes, the EEPROM holds the        *)
(* maintainers of the server's list and nobody else, for every list that   *)
(* fits in, and whatever was in the EEPROM before.  There are finitely     *)
(* many UIDs, as each has seven bytes at most.                             *)
(***************************************************************************)
THEOREM ListIsMirrored ==
  ASSUME IsFiniteSet(Uids)
  PROVE  Spec => []MaintainersMirrored
<1>1. Init => IInv /\ OnceInv
  BY InitHasInv, InitHasOnce
<1>2. Init => MirrorInv
  BY DEF Init, MirrorInv, ListsInv, EachInv, AddInv
<1>3. IInv /\ OnceInv /\ MirrorInv /\ [Next]_vars => (IInv /\ OnceInv /\ MirrorInv)'
  BY NextKeepsInv, NextKeepsOnce, NextMirrors
<1>4. IInv /\ OnceInv /\ MirrorInv => MaintainersMirrored
  BY MirrorIsMirrored
<1> QED BY <1>1, <1>2, <1>3, <1>4, PTL DEF Spec

-----------------------------------------------------------------------------

(***************************************************************************)
(* The promise.  A step stores at most one card; of every other card each  *)
(* store holds what it held, or less, but for the card whose spare entry   *)
(* on the SD card it uses again.                                           *)
(***************************************************************************)

\* The stores hold no entry of the card but those they held before.
RamSame(d) ==
  \A i \in RamSlots :
    Live(i)' /\ entries'[i].card.uid = d => Live(i) /\ entries'[i].card = entries[i].card

EeSame(d) ==
  \A a \in EeListed' :
    ~ee'[a].invalid /\ ee'[a].uid = d => a \in EeListed /\ ee'[a] = ee[a]

\* On the SD card the card has the entries it had, or none.
SdOf(f, d) == {i \in 1 .. Len(f) : f[i].uid = d}

SdSame(d) ==
  \/ SdOf(sd', d) = {}
  \/ SdOf(sd', d) = SdOf(sd, d) /\ \A i \in SdOf(sd, d) : sd'[i] = sd[i]

\* A card that leaves the EEPROM uncovers its entry in RAM, which shows no
\* more if the card was a maintainer's.
NotUncovered(d) ==
  EeHits(PlainCard(d)) # {} =>
    EeHits(PlainCard(d))' # {} \/ Worth(EeFound(PlainCard(d))) = 2

\* No entry in RAM counts.
Dead == \A i \in RamSlots : ~Live(i)

\* A kind of cache without RAM leaves nothing in RAM: it is lost in a reset.
RamIdle == InRam \/ Dead

LEMMA WorthType ==
  \A c : Worth(c) \in -1 .. 2
BY DEF Worth, Level

LEMMA RamNoMore ==
  ASSUME RamOnce, NEW d, RamSame(d)
  PROVE  Worth(RamFound(PlainCard(d)))' <= Worth(RamFound(PlainCard(d)))
<1> DEFINE c == PlainCard(d)
<1>1. /\ RamHits(c) = {i \in RamSlots : Live(i) /\ entries[i].card.uid = d}
      /\ RamHits(c)' = {i \in RamSlots : Live(i)' /\ entries'[i].card.uid = d}
  BY DEF RamHits, CompareUid, PlainCard
<1>2. RamHits(c) \in SUBSET Nat /\ RamHits(c)' \in SUBSET Nat
  BY <1>1, CachesAssumption DEF RamSlots
<1> HIDE DEF c
<1>3. CASE RamHits(c)' = {}
  <2>1. Worth(RamFound(c))' = -1
    BY <1>3 DEF RamFound, Worth, NullCard
  <2> QED BY <2>1, WorthType DEF c
<1>4. CASE RamHits(c)' # {}
  <2>1. PICK i \in RamSlots : i = Min(RamHits(c)') /\ i \in RamHits(c)'
    BY <1>1, <1>2, <1>4, MinIsIn
  <2>2. i \in RamHits(c) /\ entries'[i].card = entries[i].card
    BY <1>1, <2>1 DEF RamSame
  <2>3. Min(RamHits(c)) \in RamHits(c)
    BY <1>2, <2>2, MinIsIn
  <2>4. Min(RamHits(c)) = i
    BY <1>1, <2>2, <2>3 DEF RamOnce
  <2>5. RamFound(c)' = entries[i].card /\ RamFound(c) = entries[i].card
    BY <1>4, <2>1, <2>2, <2>4 DEF RamFound
  <2>6. Worth(RamFound(c))' = Worth(RamFound(c))
    BY <2>5 DEF Worth, Level, IsUser, IsMaintainer
  <2> QED BY <2>6, WorthType DEF c
<1> QED BY <1>3, <1>4

LEMMA RamShowsNothing ==
  ASSUME Dead', NEW c
  PROVE  Worth(RamFound(c))' = -1
<1>1. RamHits(c)' = {}
  BY DEF Dead, RamHits
<1> QED BY <1>1 DEF RamFound, Worth, NullCard

LEMMA EeNoMore ==
  ASSUME EeOnce, NEW d, EeSame(d)
  PROVE  /\ EeHits(PlainCard(d))' \subseteq EeHits(PlainCard(d))
         /\ EeHits(PlainCard(d))' # {} =>
              EeFound(PlainCard(d))' = EeFound(PlainCard(d))
<1> DEFINE c == PlainCard(d)
<1>1. /\ EeHits(c) = {a \in EeListed : ~ee[a].invalid /\ ee[a].uid = d}
      /\ EeHits(c)' = {a \in EeListed' : ~ee'[a].invalid /\ ee'[a].uid = d}
  BY DEF EeHits, PlainCard
<1>2. EeHits(c) \in SUBSET Nat /\ EeHits(c)' \in SUBSET Nat
  BY <1>1, CachesAssumption DEF EeListed, EeSlots
<1> HIDE DEF c
<1>3. EeHits(c)' \subseteq EeHits(c) /\ \A a \in EeHits(c)' : ee'[a] = ee[a]
  BY <1>1 DEF EeSame
<1>4. ASSUME EeHits(c)' # {}
      PROVE  EeFound(c)' = EeFound(c)
  <2>1. PICK a : a = Min(EeHits(c)') /\ a \in EeHits(c)'
    BY <1>2, <1>4, MinIsIn
  <2>2. Min(EeHits(c)) \in EeHits(c) /\ a \in EeHits(c) /\ ee'[a] = ee[a]
    BY <1>2, <1>3, <2>1, MinIsIn
  <2>3. Min(EeHits(c)) = a
    BY <1>1, <2>2 DEF EeOnce
  <2>4. EeFound(c)' = EeCard(ee[a]) /\ EeFound(c) = EeCard(ee[a])
    BY <1>4, <2>1, <2>2, <2>3 DEF EeFound, EeCard
  <2> QED BY <2>4
<1> QED BY <1>3, <1>4 DEF c

LEMMA SdNoMore ==
  ASSUME sd \in Seq(SdUser), sd' \in Seq(SdUser), NEW d, SdSame(d)
  PROVE  Worth(SdFound(PlainCard(d)))' <= Worth(SdFound(PlainCard(d)))
<1>1. PICK S, T : S = SdOf(sd, d) /\ T = SdOf(sd', d)
  OBVIOUS
<1>2. /\ SdMatches(PlainCard(d)) = S
      /\ SdMatches(PlainCard(d))' = T
  BY <1>1 DEF SdMatches, SdOf, PlainCard
<1>3. PICK f, g : f = SdFound(PlainCard(d)) /\ g = SdFound(PlainCard(d))'
  OBVIOUS
<1>4. /\ f = IF S = {} THEN NullCard ELSE SdCard(sd[Min(S)])
      /\ g = IF T = {} THEN NullCard ELSE SdCard(sd'[Min(T)])
  BY <1>2, <1>3 DEF SdFound, SdCard
<1>5. Worth(SdFound(PlainCard(d)))' = Worth(g)
  BY <1>3 DEF Worth, Level, IsMaintainer, IsUser
<1>6. CASE T = {}
  <2>1. Worth(g) = -1
    BY <1>4, <1>6 DEF Worth, NullCard
  <2> QED BY <1>5, <2>1, WorthType
<1>7. CASE T # {}
  <2>1. S = T /\ \A i \in S : sd'[i] = sd[i]
    BY <1>1, <1>7 DEF SdSame
  <2>2. S \in SUBSET Nat
    BY <1>1 DEF SdOf
  <2>3. sd'[Min(S)] = sd[Min(S)]
    BY <1>7, <2>1, <2>2, MinIsIn
  <2>4. f = g
    BY <1>4, <2>1, <2>3
  <2> QED BY <1>3, <1>5, <2>4, WorthType
<1> QED BY <1>6, <1>7

(***************************************************************************)
(* What the cache shows of a card that the EEPROM holds.                   *)
(***************************************************************************)
LEMMA EeFoundValid ==
  ASSUME NEW c
  PROVE  EeFound(c).valid <=> EeHits(c) # {}
<1>1. CASE EeHits(c) = {}
  BY <1>1 DEF EeFound, NullCard
<1>2. CASE EeHits(c) # {}
  <2>1. PICK a : EeFound(c) = EeCard(ee[a]) /\ ~ee[a].invalid
    BY <1>2, SlotsAreFound DEF EeFound, EeHits
  <2>2. EeCard(ee[a]).valid
    BY <2>1 DEF EeCard
  <2> QED BY <1>2, <2>1, <2>2
<1> QED BY <1>1, <1>2

LEMMA OverlayShows ==
  \A c : FoundIn("OVERLAY", c) = IF EeHits(c) # {} THEN EeFound(c) ELSE RamFound(c)
BY EeFoundValid DEF FoundIn

(***************************************************************************)
(* If the stores hold no more of a card, no kind of cache shows more.      *)
(***************************************************************************)
ShowsLess(k, d) == Worth(FoundIn(k, PlainCard(d)))' <= Worth(FoundIn(k, PlainCard(d)))

LEMMA OverlayNoMore ==
  ASSUME RamOnce, EeOnce, NEW d, RamSame(d), EeSame(d), NotUncovered(d) \/ Dead'
  PROVE  ShowsLess("OVERLAY", d)
<1>1. (\A c : FoundIn("OVERLAY", c) = IF EeHits(c) # {} THEN EeFound(c) ELSE RamFound(c))'
  BY OverlayShows, PTL
<1> DEFINE c == PlainCard(d)
<1>2. /\ Worth(FoundIn("OVERLAY", c)) =
           IF EeHits(c) # {} THEN Worth(EeFound(c)) ELSE Worth(RamFound(c))
      /\ Worth(FoundIn("OVERLAY", c))' =
           IF EeHits(c)' # {} THEN Worth(EeFound(c))' ELSE Worth(RamFound(c))'
  BY <1>1, OverlayShows DEF Worth, Level, IsUser, IsMaintainer
<1>3. Worth(RamFound(c))' <= Worth(RamFound(c))
  BY RamNoMore
<1>4. /\ EeHits(c)' \subseteq EeHits(c)
      /\ EeHits(c)' # {} => Worth(EeFound(c))' = Worth(EeFound(c))
  BY EeNoMore DEF Worth, Level, IsUser, IsMaintainer
<1>5. \/ EeHits(c) # {} => EeHits(c)' # {} \/ Worth(EeFound(c)) = 2
      \/ Worth(RamFound(c))' = -1
  BY RamShowsNothing DEF NotUncovered
<1>6. /\ Worth(RamFound(c)) \in -1 .. 2 /\ Worth(RamFound(c))' \in -1 .. 2
      /\ Worth(EeFound(c)) \in -1 .. 2
  <2>1. Worth(RamFound(c))' \in -1 .. 2
    BY WorthType
  <2> QED BY <2>1, WorthType
<1> HIDE DEF c
<1>7. Worth(FoundIn("OVERLAY", c))' <= Worth(FoundIn("OVERLAY", c))
  BY <1>2, <1>3, <1>4, <1>5, <1>6
<1> QED BY <1>7 DEF ShowsLess, c

LEMMA ShowsNoMore ==
  ASSUME RamOnce, EeOnce, NEW d, RamSame(d), EeSame(d), NotUncovered(d) \/ Dead'
  PROVE  \A k \in Kinds \ {"SD"} : ShowsLess(k, d)
<1> DEFINE c == PlainCard(d)
<1>1. ShowsLess("RAM", d)
  <2>1. /\ Worth(FoundIn("RAM", c)) = Worth(RamFound(c))
        /\ Worth(FoundIn("RAM", c))' = Worth(RamFound(c))'
    BY DEF FoundIn, Worth, Level, IsUser, IsMaintainer
  <2> QED BY <2>1, RamNoMore DEF ShowsLess
<1>2. ShowsLess("EEPROM", d)
  <2>1. /\ Worth(FoundIn("EEPROM", c)) = Worth(EeFound(c))
        /\ Worth(FoundIn("EEPROM", c))' = Worth(EeFound(c))'
    BY DEF FoundIn, Worth, Level, IsUser, IsMaintainer
  <2>2. EeHits(c)' # {} => Worth(EeFound(c))' = Worth(EeFound(c))
    BY EeNoMore DEF Worth, Level, IsUser, IsMaintainer
  <2>3. EeHits(c)' = {} => Worth(EeFound(c))' = -1
    BY DEF EeFound, Worth, NullCard
  <2> QED BY <2>1, <2>2, <2>3, WorthType DEF ShowsLess
<1> QED BY <1>1, <1>2, OverlayNoMore DEF Kinds

LEMMA SdShowsNoMore ==
  ASSUME IInv, IInv', NEW d, SdSame(d)
  PROVE  ShowsLess("SD", d)
<1>1. sd \in Seq(SdUser) /\ sd' \in Seq(SdUser)
  BY DEF IInv, SdInv
<1>2. /\ Worth(FoundIn("SD", PlainCard(d))) = Worth(SdFound(PlainCard(d)))
      /\ Worth(FoundIn("SD", PlainCard(d)))' = Worth(SdFound(PlainCard(d)))'
  BY DEF FoundIn, Worth, Level, IsUser, IsMaintainer
<1> QED BY <1>1, <1>2, SdNoMore DEF ShowsLess

(***************************************************************************)
(* A store that is left alone.                                             *)
(***************************************************************************)
LEMMA RamSameFrame ==
  ASSUME UNCHANGED entries
  PROVE  \A d : RamSame(d)
BY DEF RamSame, Live

LEMMA EeSameFrame ==
  ASSUME UNCHANGED eeVars
  PROVE  \A d : EeSame(d) /\ NotUncovered(d)
BY DEF EeSame, EeListed, NotUncovered, EeHits, eeVars

LEMMA SdSameFrame ==
  ASSUME UNCHANGED sd
  PROVE  \A d : SdSame(d)
BY DEF SdSame

(***************************************************************************)
(* The cache in RAM.                                                       *)
(***************************************************************************)
LEMMA RamGetSame ==
  ASSUME RamInv, NEW c, RamGet(c)
  PROVE  \A d : RamSame(d)
<1>1. CASE RamHits(c) = {}
  BY <1>1, RamSameFrame DEF RamGet
<1>2. CASE RamHits(c) # {}
  <2> DEFINE h == Min(RamHits(c))
  <2>1. RamHits(c) \in SUBSET Nat
    BY CachesAssumption DEF RamHits, RamSlots
  <2>2. h \in RamSlots /\ Live(h)
    BY <1>2, <2>1, MinIsIn DEF RamHits
  <2>3. entries' = [entries EXCEPT ![h].left = TTL]
    BY <1>2 DEF RamGet, Touched
  <2> HIDE DEF h
  <2>4. \A i \in RamSlots : entries'[i].card = entries[i].card /\ (Live(i)' => Live(i))
    BY <2>2, <2>3 DEF RamInv, Live
  <2> QED BY <2>4 DEF RamSame
<1> QED BY <1>1, <1>2

LEMMA RamSetSame ==
  ASSUME RamInv, NEW c, RamSet(c), NEW d, d # c.uid
  PROVE  RamSame(d)
<1>1. CASE CompareUid(RamFound(c), c)
  BY <1>1, RamGetSame DEF RamSet
<1>2. CASE ~CompareUid(RamFound(c), c)
  <2> DEFINE x == Min(Expendable)
  <2>1. entries' = [entries EXCEPT ![x] = [card |-> c, left |-> TTL]]
    BY <1>2 DEF RamSet
  <2> HIDE DEF x
  <2>2. \A i \in RamSlots :
          entries'[i] = IF i = x THEN [card |-> c, left |-> TTL] ELSE entries[i]
    BY <2>1 DEF RamInv
  <2> QED BY <2>2 DEF RamSame, Live
<1> QED BY <1>1, <1>2

LEMMA RamVerifySame ==
  ASSUME RamInv, NEW i \in RamSlots, NEW answer, RamVerifyEntry(i, answer),
         NEW d, d # entries[i].card.uid
  PROVE  RamSame(d)
<1> DEFINE e == entries[i].card
           new == CASE answer = 2 -> SetMaintainer(e)
                    [] answer = 1 -> SetUser(e)
                    [] OTHER -> e
<1>1. e \in CardSet
  BY DEF RamInv
<1>2. new.uid = e.uid
  BY <1>1, RightsOfCards
<1>3. entries' = [entries EXCEPT ![i] =
                    [card |-> new, left |-> IF answer = -1 THEN -1 ELSE TTL]]
  BY DEF RamVerifyEntry
<1> HIDE DEF new
<1>4. \A j \in RamSlots :
        IF j = i THEN entries'[j].card.uid = e.uid ELSE entries'[j] = entries[j]
  BY <1>2, <1>3 DEF RamInv
<1> QED BY <1>4 DEF RamSame, Live

LEMMA RamAgesSame ==
  ASSUME RamInv, RamPurge \/ RamTick
  PROVE  \A d : RamSame(d)
<1>1. \A i \in RamSlots : entries'[i].card = entries[i].card /\ (Live(i)' => Live(i))
  BY DEF RamInv, RamPurge, RamTick, Live
<1> QED BY <1>1 DEF RamSame

(***************************************************************************)
(* The cache in the EEPROM.                                                *)
(***************************************************************************)
LEMMA EeSetWrites ==
  ASSUME DOMAIN ee = EeSlots, NEW c, EeSet(c)
  PROVE  \E a \in EeSlots : Overwrites(EeStruct(c), a) \/ Appends(EeStruct(c), a)
<1> DEFINE a == IF EeHits(c) = {} THEN FindFree ELSE Min(EeHits(c))
<1>1. WriteUser(EeStruct(c), a) /\ ~EeStruct(c).end
  BY DEF EeSet, EeStruct
<1>2. a \in EeSlots /\ \A b \in EeSlots : b < a => ~ee[b].end
  <2>1. CASE EeHits(c) = {}
    BY <2>1, FreeBefore
  <2>2. CASE EeHits(c) # {}
    <3>1. PICK m : m = a /\ m \in EeListed
      BY <2>2, SlotsAreFound DEF EeHits
    <3> QED BY <3>1, ListedBefore, CachesAssumption DEF EeSlots
  <2> QED BY <2>1, <2>2
<1> HIDE DEF a
<1> QED BY <1>1, <1>2, WriteEffect

LEMMA WritesSame ==
  ASSUME NEW e, NEW a, Overwrites(e, a) \/ Appends(e, a),
         NEW d, e.invalid \/ d # e.uid
  PROVE  EeSame(d)
BY DEF Overwrites, Appends, EeSame

LEMMA EeVerifySame ==
  ASSUME DOMAIN ee = EeSlots, NEW a \in EeListed, ee[a] \in EeUser,
         NEW answer, EeVerifyEntry(a, answer)
  PROVE  \A d : EeSame(d)
<1>1. CASE answer = 0
  <2> DEFINE e == [ee[a] EXCEPT !.invalid = TRUE]
  <2>1. a \in EeSlots /\ \A b \in EeSlots : b =< a => ~ee[b].end
    BY ListedBefore
  <2>2. ~ee[a].end /\ \A b \in EeSlots : b < a => ~ee[b].end
    BY <2>1, CachesAssumption DEF EeSlots
  <2>3. e.invalid /\ ~e.end /\ WriteUser(e, a)
    BY <1>1, <2>2 DEF EeVerifyEntry, EeUser
  <2> HIDE DEF e
  <2> QED BY <2>1, <2>2, <2>3, WriteEffect, WritesSame
<1>2. CASE answer # 0
  BY <1>2, EeSameFrame DEF EeVerifyEntry
<1> QED BY <1>1, <1>2

LEMMA EePurgeSame ==
  ASSUME DOMAIN ee = EeSlots, EePurge
  PROVE  \A d : EeSame(d)
<1>1. 1 \in EeSlots /\ 1 \in 1 .. 1 /\ \A a \in EeSlots : 1 \in 1 .. a
  BY CachesAssumption DEF EeSlots
<1>2. ee'[1].end
  <2>1. CASE ~ee[1].end
    BY <1>1, <2>1 DEF EePurge, WriteUser, EndMarker
  <2>2. CASE ee[1].end
    BY <1>1, <2>2 DEF EePurge, WriteUser, EndMarker
  <2> QED BY <2>1, <2>2
<1>3. EeListed' = {}
  BY <1>1, <1>2 DEF EeListed
<1> QED BY <1>3 DEF EeSame

LEMMA EeFinishSame ==
  ASSUME DOMAIN ee = EeSlots, PendingInv, EeFinishWrite, NEW d, d # eeWrite.user.uid
  PROVE  EeSame(d) /\ NotUncovered(d)
<1>1. /\ EeListed' \subseteq EeListed \union {eeWrite.at}
      /\ \A b \in EeListed : b \in EeListed' /\ ee'[b] = ee[b]
      /\ ee'[eeWrite.at] = eeWrite.user
  BY FinishEffect
<1>2. EeSame(d)
  BY <1>1 DEF EeSame
<1>3. EeHits(PlainCard(d)) \subseteq EeHits(PlainCard(d))'
  BY <1>1 DEF EeHits, PlainCard
<1> QED BY <1>2, <1>3 DEF NotUncovered

(***************************************************************************)
(* The cache on the SD card.                                               *)
(***************************************************************************)
SdOthersSame(c) == \E e : \A d : d # c /\ d # e => SdSame(d)

LEMMA SdSetSame ==
  ASSUME SdInv, NEW c, SdSet(c)
  PROVE  SdOthersSame(c.uid)
<1>1. PICK e, own, spare :
        /\ e = SdStruct(c)
        /\ own = {i \in SdMatches(c) : ~sd[i].invalid}
        /\ spare = {i \in DOMAIN sd : sd[i].invalid}
  OBVIOUS
<1>2. own \in SUBSET (1 .. Len(sd)) /\ spare \in SUBSET (1 .. Len(sd))
  BY <1>1 DEF SdMatches, SdInv
<1>3. sd' = IF own # {} THEN [sd EXCEPT ![Min(own)] = e]
            ELSE IF spare # {} THEN [sd EXCEPT ![Min(spare)] = e]
            ELSE Append(sd, e)
  BY <1>1 DEF SdSet
<1>4. e.uid = c.uid
  BY <1>1 DEF SdStruct
<1>5. own \in SUBSET Nat /\ spare \in SUBSET Nat
  BY <1>2
<1>6. (own # {} => Min(own) \in own) /\ (spare # {} => Min(spare) \in spare)
  BY <1>5, MinIsIn
<1>7. ASSUME NEW h \in 1 .. Len(sd), sd' = [sd EXCEPT ![h] = e]
      PROVE  \A d : d # c.uid /\ d # sd[h].uid => SdSame(d)
  <2>1. Len(sd') = Len(sd) /\ \A j \in 1 .. Len(sd) : sd'[j] = IF j = h THEN e ELSE sd[j]
    BY <1>7 DEF SdInv
  <2>2. ASSUME NEW d, d # c.uid, d # sd[h].uid
        PROVE  SdOf(sd', d) = SdOf(sd, d) /\ \A i \in SdOf(sd, d) : sd'[i] = sd[i]
    BY <1>4, <2>1, <2>2 DEF SdOf
  <2> QED BY <2>2 DEF SdSame
<1>8. ASSUME sd' = Append(sd, e)
      PROVE  \A d : d # c.uid => SdSame(d)
  <2>1. /\ Len(sd') = Len(sd) + 1 /\ Len(sd) \in Nat
        /\ \A j \in 1 .. Len(sd') : sd'[j] = IF j = Len(sd) + 1 THEN e ELSE sd[j]
    BY <1>8 DEF SdInv
  <2>2. \A j : j \in 1 .. Len(sd') <=> (j = Len(sd) + 1 \/ j \in 1 .. Len(sd))
    BY <2>1
  <2>3. ~(Len(sd) + 1 \in 1 .. Len(sd))
    BY <2>1
  <2>4. ASSUME NEW d, d # c.uid
        PROVE  SdOf(sd', d) = SdOf(sd, d) /\ \A i \in SdOf(sd, d) : sd'[i] = sd[i]
    BY <1>4, <2>1, <2>2, <2>3, <2>4 DEF SdOf
  <2> QED BY <2>4 DEF SdSame
<1>9. \/ \E h \in 1 .. Len(sd) : sd' = [sd EXCEPT ![h] = e]
      \/ sd' = Append(sd, e)
  BY <1>2, <1>3, <1>6
<1> QED BY <1>7, <1>8, <1>9 DEF SdOthersSame

LEMMA SdVerifySame ==
  ASSUME SdInv, NEW i \in 1 .. Len(sd), NEW answer, SdVerifyEntry(i, answer)
  PROVE  SdOthersSame(sd[i].uid)
<1>1. /\ Len(sd') = Len(sd)
      /\ \A j \in 1 .. Len(sd) : IF j = i THEN sd'[j].uid = sd[j].uid ELSE sd'[j] = sd[j]
  <2>1. CASE answer = 0
    BY <2>1 DEF SdVerifyEntry, SdInv, SdUser
  <2>2. CASE answer \in {1, 2}
    BY <2>2 DEF SdVerifyEntry, SdInv, SdUser
  <2>3. CASE answer \notin {0, 1, 2}
    BY <2>3 DEF SdVerifyEntry
  <2> QED BY <2>1, <2>2, <2>3
<1>2. ASSUME NEW d, d # sd[i].uid
      PROVE  SdOf(sd', d) = SdOf(sd, d) /\ \A j \in SdOf(sd, d) : sd'[j] = sd[j]
  BY <1>1, <1>2 DEF SdOf
<1> QED BY <1>2 DEF SdOthersSame, SdSame

LEMMA SdPurgeSame ==
  ASSUME SdPurge
  PROVE  \A d : SdSame(d)
<1>1. Len(sd') = 0
  BY DEF SdPurge
<1> QED BY <1>1 DEF SdSame, SdOf

-----------------------------------------------------------------------------

(***************************************************************************)
(* Which cards a step may show more of: the card c that it stores, and on  *)
(* the SD card the one whose entry e it takes.                             *)
(***************************************************************************)
LeftAlone(d) == RamSame(d) /\ EeSame(d) /\ (NotUncovered(d) \/ Dead')

OthersSame == \E c : SdOthersSame(c) /\ \A d : d # c => LeftAlone(d)

LEMMA SdAllSame ==
  ASSUME \A d : SdSame(d)
  PROVE  \A c : SdOthersSame(c)
BY DEF SdOthersSame

LEMMA CardHitSame ==
  ASSUME IInv, NEW u \in Uids, CardHit(u)
  PROVE  OthersSame
<1>1. (RamGet(PlainCard(u)) \/ UNCHANGED entries) /\ UNCHANGED <<eeVars, sd>>
  BY DEF CardHit
<1> QED BY <1>1, RamGetSame, RamSameFrame, EeSameFrame, SdSameFrame, SdAllSame
        DEF OthersSame, LeftAlone, IInv

LEMMA CacheSetSame ==
  ASSUME IInv, OnceInv, RamIdle', kind' = kind, NEW c, CacheSet(c)
  PROVE  OthersSame
<1> SUFFICES ASSUME NEW d, d # c.uid
             PROVE  SdOthersSame(c.uid) /\ LeftAlone(d)
  BY DEF OthersSame, SdOthersSame
<1>1. CASE InRam /\ RamSet(c) /\ UNCHANGED <<eeVars, sd>>
  BY <1>1, RamSetSame, EeSameFrame, SdSameFrame, SdAllSame DEF LeftAlone, IInv
<1>2. CASE kind = "EEPROM" /\ EeSet(c) /\ UNCHANGED <<entries, sd>>
  <2>1. DOMAIN ee = EeSlots /\ EeStruct(c).uid = c.uid
    BY DEF IInv, EeInv, EeStruct
  <2>2. EeSame(d)
    BY <1>2, <2>1, EeSetWrites, WritesSame
  <2>3. Dead'
    BY <1>2 DEF RamIdle, InRam
  <2> QED BY <1>2, <2>2, <2>3, RamSameFrame, SdSameFrame, SdAllSame DEF LeftAlone
<1>3. CASE kind = "SD" /\ SdSet(c) /\ UNCHANGED <<entries, eeVars>>
  BY <1>3, SdSetSame, RamSameFrame, EeSameFrame DEF LeftAlone, IInv
<1> QED BY <1>1, <1>2, <1>3 DEF CacheSet

LEMMA StoresAreSame ==
  ASSUME UNCHANGED stores
  PROVE  OthersSame
BY RamSameFrame, EeSameFrame, SdSameFrame, SdAllSame DEF stores, OthersSame, LeftAlone

LEMMA CardMissSame ==
  ASSUME IInv, OnceInv, RamIdle', NEW u \in Uids, NEW answer \in -1 .. 2, CardMiss(u, answer)
  PROVE  OthersSame
<1>1. \/ CacheSet(SetUser(SetMaintainer(PlainCard(u))))
      \/ CacheSet(SetUser(PlainCard(u)))
      \/ UNCHANGED stores
  BY DEF CardMiss
<1>2. kind' = kind
  BY DEF CardMiss
<1> QED BY <1>1, <1>2, CacheSetSame, StoresAreSame

LEMMA VerifyEntrySame ==
  ASSUME IInv, OnceInv, RamIdle', NEW answer \in -1 .. 2, VerifyEntry(answer)
  PROVE  OthersSame
<1>1. PICK i : i = Min(Due)
  OBVIOUS
<1>2. /\ InRam => i \in RamSlots /\ Live(i)
      /\ kind = "SD" => i \in 1 .. Len(sd) /\ ~sd[i].invalid
      /\ kind = "EEPROM" => i \in EeSlots /\ i \in EeListed
  BY <1>1, DueIsThere, DueIsListed DEF VerifyEntry, IInv
<1>3. \/ InRam /\ RamVerifyEntry(i, answer) /\ UNCHANGED <<eeVars, sd>>
      \/ kind = "EEPROM" /\ EeVerifyEntry(i, answer) /\ UNCHANGED <<entries, sd>>
      \/ kind = "SD" /\ SdVerifyEntry(i, answer) /\ UNCHANGED <<entries, eeVars>>
  BY <1>1 DEF VerifyEntry
<1>4. CASE InRam /\ RamVerifyEntry(i, answer) /\ UNCHANGED <<eeVars, sd>>
  <2>1. \A d : d # entries[i].card.uid => RamSame(d)
    BY <1>2, <1>4, RamVerifySame DEF IInv
  <2> QED BY <1>4, <2>1, EeSameFrame, SdSameFrame, SdAllSame DEF OthersSame, LeftAlone
<1>5. CASE kind = "EEPROM" /\ EeVerifyEntry(i, answer) /\ UNCHANGED <<entries, sd>>
  <2>1. DOMAIN ee = EeSlots /\ ee[i] \in EeUser
    BY <1>2, <1>5 DEF IInv, EeInv, SlotGiven
  <2>2. \A d : EeSame(d)
    BY <1>2, <1>5, <2>1, EeVerifySame
  <2>3. Dead'
    BY <1>5 DEF RamIdle, InRam, VerifyEntry
  <2> QED BY <1>5, <2>2, <2>3, RamSameFrame, SdSameFrame, SdAllSame DEF OthersSame, LeftAlone
<1>6. CASE kind = "SD" /\ SdVerifyEntry(i, answer) /\ UNCHANGED <<entries, eeVars>>
  <2>1. SdOthersSame(sd[i].uid)
    BY <1>2, <1>6, SdVerifySame DEF IInv
  <2> QED BY <1>6, <2>1, RamSameFrame, EeSameFrame DEF OthersSame, LeftAlone
<1> QED BY <1>3, <1>4, <1>5, <1>6

LEMMA FinishWriteSame ==
  ASSUME IInv, OnceInv, FinishWrite
  PROVE  OthersSame
<1>1. EeFinishWrite /\ UNCHANGED <<entries, sd>>
  BY DEF FinishWrite
<1>2. \A d : d # eeWrite.user.uid => EeSame(d) /\ NotUncovered(d)
  BY <1>1, EeFinishSame DEF IInv, EeInv, OnceInv
<1> QED BY <1>1, <1>2, RamSameFrame, SdSameFrame, SdAllSame DEF OthersSame, LeftAlone

LEMMA EachEntrySame ==
  ASSUME IInv, OnceInv, MirrorInv, EachEntry
  PROVE  OthersSame
<1>0. PICK m, e : m = Min(Due) /\ e = ee[m]
  OBVIOUS
<1> DEFINE c == [NullCard EXCEPT !.uid = e.uid]
<1>1. m \in EeListed /\ m \in EeSlots /\ EeHits(PlainCard(e.uid)) = {m}
  BY <1>0, EachComesTo, ListedBefore
<1>2. (EeSet(c) \/ UNCHANGED eeVars) /\ UNCHANGED <<entries, sd>>
  BY <1>0 DEF EachEntry, OnCard
<1>3. EeHits(c) = {m} /\ EeStruct(c).invalid /\ ~EeStruct(c).end
  <2>1. c.uid = e.uid /\ ~c.valid
    BY DEF NullCard
  <2> QED BY <1>1, <2>1 DEF EeHits, PlainCard, EeStruct
<1> HIDE DEF c
<1>4. CASE EeSet(c)
  <2>1. Min(EeHits(c)) = m
    BY <1>3, SlotsAreFound
  <2>2. WriteUser(EeStruct(c), m)
    BY <1>3, <1>4, <2>1 DEF EeSet
  <2>3. \A b \in EeSlots : b < m => ~ee[b].end
    BY <1>1, ListedBefore, CachesAssumption DEF EeSlots
  <2>4. Overwrites(EeStruct(c), m)
    BY <1>1, <1>3, <2>2, <2>3, WriteEffect DEF Appends, IInv, EeInv
  <2>5. \A d : EeSame(d)
    BY <1>3, <2>4, WritesSame
  <2>6. ASSUME NEW d, d # e.uid
        PROVE  NotUncovered(d)
    <3>1. EeHits(PlainCard(d)) \subseteq EeHits(PlainCard(d))'
      BY <1>0, <2>4, <2>6 DEF Overwrites, EeHits, PlainCard
    <3> QED BY <3>1 DEF NotUncovered
  <2> QED BY <1>2, <2>5, <2>6, RamSameFrame, SdSameFrame, SdAllSame
          DEF OthersSame, LeftAlone
<1>5. CASE UNCHANGED eeVars
  BY <1>2, <1>5, RamSameFrame, EeSameFrame, SdSameFrame, SdAllSame
     DEF OthersSame, LeftAlone
<1> QED BY <1>2, <1>4, <1>5

LEMMA AddMaintainerSame ==
  ASSUME IInv, OnceInv, MirrorInv, NEW u \in Uids, AddMaintainer(u)
  PROVE  OthersSame
<1> DEFINE c == SetUser(SetMaintainer(PlainCard(u)))
<1>1. EeSet(c) /\ job = "add" /\ UNCHANGED <<entries, sd>>
  BY DEF AddMaintainer
<1>2. EeStruct(c).uid = u
  BY DEF EeStruct, SetUser, SetMaintainer, PlainCard
<1> HIDE DEF c
<1>3. \E a \in EeSlots : Overwrites(EeStruct(c), a) \/ Appends(EeStruct(c), a)
  BY <1>1, EeSetWrites DEF IInv, EeInv
<1>4. \A d : d # u => EeSame(d)
  BY <1>2, <1>3, WritesSame
<1>5. ASSUME NEW d
      PROVE  NotUncovered(d)
  <2>1. SUFFICES ASSUME EeHits(PlainCard(d)) # {}
                 PROVE  Worth(EeFound(PlainCard(d))) = 2
    BY DEF NotUncovered
  <2>2. PICK a : a \in EeListed /\ ~ee[a].invalid /\ EeFound(PlainCard(d)) = EeCard(ee[a])
    BY <2>1, SlotsAreFound DEF EeFound, EeHits
  <2>3. ee[a].maintainer
    BY <1>1, <2>2 DEF MirrorInv, AddInv, Named
  <2>4. EeCard(ee[a]).valid /\ EeCard(ee[a]).maintainer
    BY <2>2, <2>3 DEF EeCard
  <2> QED BY <2>2, <2>4 DEF Worth, Level, IsMaintainer
<1> QED BY <1>1, <1>4, <1>5, RamSameFrame, SdSameFrame, SdAllSame
          DEF OthersSame, LeftAlone

LEMMA PurgeSame ==
  ASSUME IInv, RamIdle', Purge
  PROVE  OthersSame
<1>1. CASE InRam /\ RamPurge /\ UNCHANGED <<eeVars, sd>>
  BY <1>1, RamAgesSame, EeSameFrame, SdSameFrame, SdAllSame DEF IInv, OthersSame, LeftAlone
<1>2. CASE kind = "EEPROM" /\ EePurge /\ UNCHANGED <<entries, sd>>
  <2>1. Dead'
    BY <1>2 DEF RamIdle, InRam, Purge
  <2> QED BY <1>2, <2>1, EePurgeSame, RamSameFrame, SdSameFrame, SdAllSame
          DEF IInv, EeInv, OthersSame, LeftAlone
<1>3. CASE kind = "SD" /\ SdPurge /\ UNCHANGED <<entries, eeVars>>
  BY <1>3, SdPurgeSame, RamSameFrame, EeSameFrame, SdAllSame DEF OthersSame, LeftAlone
<1> QED BY <1>1, <1>2, <1>3 DEF Purge

\* What a reset leaves is what was in the EEPROM and on the SD card.
LEMMA ResetSame ==
  ASSUME Reset
  PROVE  OthersSame
<1>1. Dead'
  BY DEF Reset, RamEmpty, Dead, Live
<1>2. \A d : RamSame(d)
  BY <1>1 DEF RamSame, Dead
<1>3. \A d : EeSame(d)
  BY DEF Reset, EeSame, EeListed
<1> QED BY <1>1, <1>2, <1>3, SdSameFrame, SdAllSame DEF Reset, OthersSame, LeftAlone

(***************************************************************************)
(* Only a cache in RAM puts anything there.                                *)
(***************************************************************************)
LEMMA NextKeepsIdle ==
  ASSUME IInv, RamIdle, [Next]_vars
  PROVE  RamIdle'
<1>1. CASE Reset
  BY <1>1 DEF Reset, RamEmpty, RamIdle, Dead, Live
<1>2. CASE Tick
  <2>1. kind' = kind /\ RamTick
    BY <1>2 DEF Tick
  <2>2. \A i \in RamSlots : Live(i)' => Live(i)
    BY <2>1 DEF RamTick, Live, IInv, RamInv
  <2> QED BY <2>1, <2>2 DEF RamIdle, Dead, InRam
<1>3. CASE ~(Reset \/ Tick)
  <2>1. kind' = kind /\ (InRam \/ UNCHANGED entries)
    <3>1. ASSUME NEW c, CacheSet(c)
          PROVE  InRam \/ UNCHANGED entries
      BY <3>1 DEF CacheSet
    <3>2. ASSUME NEW u \in Uids, NEW answer \in -1 .. 2, CardMiss(u, answer)
          PROVE  kind' = kind /\ (InRam \/ UNCHANGED entries)
      BY <3>1, <3>2 DEF CardMiss, stores
    <3>3. ASSUME NEW answer \in -1 .. 2, VerifyEntry(answer)
          PROVE  kind' = kind /\ (InRam \/ UNCHANGED entries)
      BY <3>3, Zenon DEF VerifyEntry
    <3>4. CASE Purge
      BY <3>4 DEF Purge
    <3>5. ASSUME NEW u \in Uids, CardHit(u) \/ AddMaintainer(u)
          PROVE  kind' = kind /\ (InRam \/ UNCHANGED entries)
      BY <3>5 DEF CardHit, AddMaintainer
    <3>6. ASSUME NEW maintainers \in SUBSET Uids, ListMaintainers(maintainers)
          PROVE  kind' = kind /\ UNCHANGED entries
      BY <3>6 DEF ListMaintainers, stores
    <3>7. CASE FinishWrite \/ VerifyStart \/ VerifyEnd \/ EachEntry \/ EachEnd \/ AddEnd
               \/ UNCHANGED vars
      BY <3>7 DEF FinishWrite, VerifyStart, VerifyEnd, EachEntry, EachEnd, AddEnd, vars, stores
    <3> QED BY <1>3, <3>2, <3>3, <3>4, <3>5, <3>6, <3>7 DEF Next, Purge
  <2> QED BY <2>1 DEF RamIdle, Dead, Live, InRam
<1> QED BY <1>1, <1>2, <1>3

LEMMA NextStoresOne ==
  ASSUME IInv, OnceInv, MirrorInv, RamIdle', [Next]_vars
  PROVE  OthersSame
<1>1. CASE VerifyStart \/ VerifyEnd \/ EachEnd \/ AddEnd \/ UNCHANGED vars
  BY <1>1, StoresAreSame DEF VerifyStart, VerifyEnd, EachEnd, AddEnd, vars
<1>2. ASSUME NEW maintainers \in SUBSET Uids, ListMaintainers(maintainers)
      PROVE  OthersSame
  BY <1>2, StoresAreSame DEF ListMaintainers
<1>3. CASE Tick
  BY <1>3, RamAgesSame, EeSameFrame, SdSameFrame, SdAllSame
     DEF Tick, IInv, OthersSame, LeftAlone
<1> QED BY <1>1, <1>2, <1>3, CardHitSame, AddMaintainerSame, CardMissSame, FinishWriteSame,
           VerifyEntrySame, EachEntrySame, PurgeSame, ResetSame DEF Next

(***************************************************************************)
(* Whatever a step does, the server has not given less.                    *)
(***************************************************************************)
LEMMA NextGrows ==
  ASSUME IInv, [Next]_vars
  PROVE  Grows
<1>1. ASSUME NoRequest
      PROVE  Grows
  BY <1>1, NoRequestGrows DEF IInv
<1>2. ASSUME NEW u \in Uids, CardHit(u) \/ AddMaintainer(u)
      PROVE  Grows
  BY <1>1, <1>2 DEF CardHit, AddMaintainer
<1>3. ASSUME NEW u \in Uids, NEW answer \in -1 .. 2, CardMiss(u, answer)
      PROVE  Grows
  BY <1>3, CardMissKeeps
<1>4. ASSUME NEW answer \in -1 .. 2, VerifyEntry(answer)
      PROVE  Grows
  BY <1>4, VerifyEntryKeeps
<1>5. ASSUME NEW maintainers \in SUBSET Uids, ListMaintainers(maintainers)
      PROVE  Grows
  BY <1>5 DEF ListMaintainers, Grows, Grants, IInv
<1>6. CASE \/ FinishWrite \/ VerifyStart \/ VerifyEnd \/ EachEntry \/ EachEnd \/ AddEnd
           \/ Purge \/ Tick \/ Reset
  BY <1>1, <1>6 DEF FinishWrite, VerifyStart, VerifyEnd, EachEntry, EachEnd, AddEnd, Purge,
                    Tick, Reset
<1>7. CASE UNCHANGED vars
  BY <1>1, <1>7 DEF vars, NoRequest
<1> QED BY <1>2, <1>3, <1>4, <1>5, <1>6, <1>7 DEF Next

(***************************************************************************)
(* The step of the promise that a step of the caches is.                   *)
(***************************************************************************)
LEMMA InvIsGiven == IInv => Promise!Given
<1> SUFFICES ASSUME IInv
             PROVE  Promise!Given
  OBVIOUS
<1>1. Views = [k \in Kinds |-> [u \in Uids |-> Worth(FoundIn(k, PlainCard(u)))]]
  BY DEF Views
<1>2. Views \in [Kinds -> [Uids -> -1 .. 2]]
  BY <1>1, WorthType
<1>3. {-1} \union 0 .. 2 = -1 .. 2
  OBVIOUS
<1> QED BY <1>2, <1>3, ViewIsGiven
        DEF IInv, Grants, Promise!Given, Promise!Shows, Promise!Absent

LEMMA GainsAreStored ==
  ASSUME IInv, IInv', OnceInv, OthersSame
  PROVE  \E c, e : /\ Promise!Gains(Kinds) \subseteq {c, e}
                   /\ Promise!Gains(Kinds \ {"SD"}) \subseteq {c}
<1>1. PICK c, e : /\ \A d : d # c /\ d # e => SdSame(d)
                  /\ \A d : d # c => LeftAlone(d)
  BY DEF OthersSame, SdOthersSame
<1>2. ASSUME NEW d, d # c
      PROVE  \A k \in Kinds \ {"SD"} : ShowsLess(k, d)
  BY <1>1, <1>2, ShowsNoMore DEF LeftAlone, OnceInv
<1>3. ASSUME NEW d, d # c, d # e
      PROVE  ShowsLess("SD", d)
  BY <1>1, <1>3, SdShowsNoMore
<1>4. (\A k \in Kinds, u \in Uids : Views[k][u] = Worth(FoundIn(k, PlainCard(u))))'
  BY ViewsOf, PTL
<1>6. ASSUME NEW k \in Kinds, NEW u \in Uids, ShowsLess(k, u)
      PROVE  ~(Views'[k][u] > Views[k][u])
  <2>1. PICK x, y : x = Views[k][u] /\ y = Views'[k][u]
    OBVIOUS
  <2>2. x = Worth(FoundIn(k, PlainCard(u))) /\ y = Worth(FoundIn(k, PlainCard(u)))'
    BY <1>4, <2>1, ViewsOf
  <2>3. y <= x /\ x \in -1 .. 2
    BY <1>6, <2>2, WorthType DEF ShowsLess
  <2>4. y \in -1 .. 2
    BY <2>2, WorthType
  <2> QED BY <2>1, <2>3, <2>4
<1>7. ASSUME NEW d \in Uids, NEW k \in Kinds, Views'[k][d] > Views[k][d]
      PROVE  d = c \/ (d = e /\ k = "SD")
  BY <1>2, <1>3, <1>6, <1>7
<1> QED BY <1>7, Zenon DEF Promise!Gains

(***************************************************************************)
(* Every kind of cache keeps the promise of CachePromise, for every number *)
(* of cards, entries and slots, and whichever cache a reset changes to.    *)
(***************************************************************************)
THEOREM CachesKeepPromise ==
  ASSUME IsFiniteSet(Uids)
  PROVE  Spec => KeepsPromise
<1> DEFINE Inv == IInv /\ OnceInv /\ MirrorInv /\ RamIdle
<1>1. Init => Inv
  BY InitHasInv, InitHasOnce
     DEF Init, MirrorInv, ListsInv, EachInv, AddInv, RamIdle, Dead, Live, RamEmpty
<1>2. Inv /\ [Next]_vars => Inv'
  BY NextKeepsInv, NextKeepsOnce, NextMirrors, NextKeepsIdle
<1>3. Init => Promise!Given
  BY InitHasInv, InvIsGiven
<1>4. (IInv => Promise!Given)'
  BY InvIsGiven, PTL
<1>5. Inv /\ [Next]_vars => [Promise!PromiseNext]_(Promise!promiseVars)
  <2> SUFFICES ASSUME Inv, [Next]_vars
               PROVE  Promise!PromiseNext
    OBVIOUS
  <2>1. IInv' /\ RamIdle' /\ Grows
    BY NextKeepsInv, NextKeepsIdle, NextGrows
  <2>2. Promise!Given' /\ \A c \in Uids : granted'[c] >= granted[c]
    BY <1>4, <2>1 DEF Grows
  <2>3. PICK c, e : /\ Promise!Gains(Kinds) \subseteq {c, e}
                    /\ Promise!Gains(Kinds \ {"SD"}) \subseteq {c}
    BY <2>1, NextStoresOne, GainsAreStored
  <2>4. Promise!Gains(Kinds \ {"SD"}) \subseteq Uids /\ Promise!Gains(Kinds) \subseteq Uids
    BY DEF Promise!Gains
  <2>5. Promise!Forget \/ \E x, y \in Uids : Promise!Store(x, y)
    <3>1. CASE c \in Uids /\ e \in Uids
      BY <2>3, <3>1 DEF Promise!Store
    <3>2. CASE c \in Uids /\ e \notin Uids
      <4>1. Promise!Store(c, c)
        BY <2>3, <2>4, <3>2 DEF Promise!Store
      <4> QED BY <3>2, <4>1
    <3>3. CASE c \notin Uids /\ e \in Uids
      <4>1. Promise!Store(e, e)
        BY <2>3, <2>4, <3>3 DEF Promise!Store
      <4> QED BY <3>3, <4>1
    <3>4. CASE c \notin Uids /\ e \notin Uids
      BY <2>3, <2>4, <3>4 DEF Promise!Forget
    <3> QED BY <3>1, <3>2, <3>3, <3>4
  <2> QED BY <2>2, <2>5 DEF Promise!PromiseNext
<1> HIDE DEF Inv
<1> QED BY <1>1, <1>2, <1>3, <1>5, PTL DEF Spec, KeepsPromise, Promise!PromiseSpec

=============================================================================
