--------------------------- MODULE SettingsProofs ---------------------------

(***************************************************************************)
(* Proofs about the settings, for every value of every field.              *)
(***************************************************************************)
EXTENDS SettingsStore, TLAPS

\* The fields of a version whose values the conversion does not keep.
LostFrom(version) ==
  IF version = 42 THEN {"minontime"} ELSE IF version = 43 THEN {} ELSE NotCopied

(***************************************************************************)
(* Each step of the chain keeps what its version has, apart from the role  *)
(* and the port.                                                           *)
(***************************************************************************)
LEMMA Step43 ==
  ASSUME NEW s, Narrow(s) = s
  PROVE  \A f \in V42 \ {"minontime"} : To43(s)[f] = s[f]
BY DEF Convert, To43

LEMMA Step44 ==
  ASSUME NEW s PROVE \A f \in V43 : To44(s)[f] = s[f]
BY DEF Convert, To44

LEMMA Step45 ==
  ASSUME NEW s PROVE \A f \in V44 \ NotCopied : To45(s)[f] = s[f]
BY DEF Convert, To45

LEMMA Step46 ==
  ASSUME NEW s PROVE \A f \in V45 \ NotCopied : To46(s)[f] = s[f]
BY DEF Convert, To46

LEMMA Step47 ==
  ASSUME NEW s PROVE \A f \in V46 \ NotCopied : To47(s)[f] = s[f]
BY DEF Convert, To47

LEMMA Step48 ==
  ASSUME NEW s, NEW bytes PROVE \A f \in V47 \ NotCopied : To48(s, bytes)[f] = s[f]
BY DEF Convert, To48

(***************************************************************************)
(* The whole chain, from any version: every field that the version has is  *)
(* kept, except the minimum time of version 42 and the role and the port   *)
(* of 44 to 47.  In version 42 the node id and the status had more bits;   *)
(* they are assumed to fit.                                                *)
(***************************************************************************)
THEOREM UpgradeKeeps ==
  ASSUME NEW version \in 42 .. 47, NEW s, DOMAIN s = Layout(version), version = 42 => Narrow(s) = s
  PROVE  \A f \in Layout(version) \ LostFrom(version) : Upgrade(version, s)[f] = s[f]
<1> DEFINE s43 == IF version = 42 THEN To43(s) ELSE s
           s44 == IF version <= 43 THEN To44(s43) ELSE s43
           s45 == IF version <= 44 THEN To45(s44) ELSE s44
           s46 == IF version <= 45 THEN To46(s45) ELSE s45
           s47 == IF version <= 46 THEN To47(s46) ELSE s46
           kept == Layout(version) \ LostFrom(version)
<1>1. Upgrade(version, s) = To48(s47, Misread(version, s))
  BY DEF Upgrade
<1>2. V42 \subseteq V43 /\ V43 \subseteq V44 /\ V44 \subseteq V45 /\ V45 \subseteq V46 /\ V46 \subseteq V47
  BY DEF V43, V44, V45, V46, V47
<1>3. V43 \cap NotCopied = {}
  BY DEF V42, V43, NotCopied
<1>4. \A f \in kept : s43[f] = s[f]
  BY Step43 DEF Layout, LostFrom
<1>5. \A f \in kept : s44[f] = s[f]
  <2>1. version <= 43 => kept \subseteq V43
    BY <1>2 DEF Layout
  <2> QED BY <1>4, <2>1, Step44
<1>6. \A f \in kept : s45[f] = s[f]
  <2>1. version <= 44 => kept \subseteq V44 \ NotCopied
    BY <1>2, <1>3 DEF Layout, LostFrom
  <2> QED BY <1>5, <2>1, Step45
<1>7. \A f \in kept : s46[f] = s[f]
  <2>1. version <= 45 => kept \subseteq V45 \ NotCopied
    BY <1>2, <1>3 DEF Layout, LostFrom
  <2> QED BY <1>6, <2>1, Step46
<1>8. \A f \in kept : s47[f] = s[f]
  <2>1. version <= 46 => kept \subseteq V46 \ NotCopied
    BY <1>2, <1>3 DEF Layout, LostFrom
  <2> QED BY <1>7, <2>1, Step47
<1>9. kept \subseteq V47 \ NotCopied
  BY <1>2, <1>3 DEF Layout, LostFrom
<1> HIDE DEF s47, kept
<1>10. \A f \in kept : Upgrade(version, s)[f] = s[f]
  BY <1>1, <1>8, <1>9, Step48
<1> QED BY <1>10 DEF kept

-----------------------------------------------------------------------------

(***************************************************************************)
(* The first byte of a field and the number of its bytes.                  *)
(***************************************************************************)
LEMMA FieldBytes ==
  ASSUME NEW f \in V48
  PROVE  Address[f] \in Nat /\ Bytes(f) \in Nat /\ Address[f] + Bytes(f) <= 208
<1>1. CASE f \in {"mac", "servername", "port", "nodeid"}
  BY <1>1 DEF Address, Bytes
<1>2. CASE f \in {"status", "syslogserver", "toolname", "runtime", "minontime"}
  BY <1>2 DEF Address, Bytes
<1>3. CASE f \in {"sdcache", "netverbose", "toolonpin_activehigh", "toolrunpin_activehigh",
                  "maintainer_cache", "invert_colours"}
  BY <1>3 DEF Address, Bytes
<1>4. CASE f \in {"secret", "role", "announce_port", "off_delay"}
  BY <1>4 DEF Address, Bytes
<1>5. CASE f \in {"announce_mode", "mqtt_server", "mqtt_port", "mqtt_topic_base",
                  "door_keep_open_ms", "doorbell_mode"}
  BY <1>5 DEF Address, Bytes
<1> QED BY <1>1, <1>2, <1>3, <1>4, <1>5 DEF V42, V43, V44, V45, V46, V47, V48

(***************************************************************************)
(* Every field lies in the words of the EEPROM.                            *)
(***************************************************************************)
LEMMA FieldsFit == \A f \in V48 : Span(f) \subseteq 0 .. Size - 1
<1> SUFFICES ASSUME NEW f \in V48 PROVE Span(f) \subseteq 0 .. 51
  BY DEF Size
<1>1. Address[f] \in Nat /\ Bytes(f) \in Nat /\ Address[f] + Bytes(f) <= 208
  BY FieldBytes
<1> QED BY <1>1 DEF Span

Pieces(f, value) == value = [w \in Span(f) |-> value[w]]

PlaceInv ==
  /\ pc \in {"boot", "convert", "save", "loop"}
  /\ at \in 0 .. Size - 1
  /\ Writing \/ at = 0
  /\ at > 0 => flash.valid = ACSETTINGSVALID
  /\ pc = "convert" /\ at = 0 => flash.valid # ACSETTINGSVALID
  /\ pc \in {"loop", "save"} => flash.valid \in {0, ACSETTINGSVALID} /\ DOMAIN flash.fields = V48
  /\ pc \in {"boot", "convert"} => edited = {}

FlashInv ==
  /\ DOMAIN ram = V48 /\ \A f \in V48 : Pieces(f, ram[f])
  /\ flash.valid = ACSETTINGSVALID => DOMAIN flash.fields = V48
  /\ DOMAIN flash.fields = V48 => \A f \in V48 : Pieces(f, flash.fields[f])

\* A save has written what is before the word it has come to.
WrittenInv ==
  Writing => \A f \in V48 : \A w \in Span(f) : w < at => flash.fields[f][w] = ram[f][w]

\* What was not edited is saved already.
SavedInv == pc \in {"loop", "save"} => \A f \in V48 \ edited : ram[f] = flash.fields[f]

IInv == PlaceInv /\ FlashInv /\ WrittenInv /\ SavedInv /\ NeverForgets

(***************************************************************************)
(* The settings of a conversion, and the defaults, have every field.       *)
(***************************************************************************)
LEMMA WholeIsPieces ==
  ASSUME NEW s PROVE DOMAIN AllWhole(s) = V48 /\ \A f \in V48 : Pieces(f, AllWhole(s)[f])
BY DEF AllWhole, Whole, Pieces

(***************************************************************************)
(* No older layout has all the fields of the new one.                      *)
(***************************************************************************)
LEMMA LayoutsDiffer == \A version \in 42 .. 47 : Layout(version) # V48 /\ Layout(version) \subseteq V48
<1>1. /\ V42 \subseteq V43 /\ V43 \subseteq V44 /\ V44 \subseteq V45 /\ V45 \subseteq V46
      /\ V46 \subseteq V47 /\ V47 \subseteq V48
  BY DEF V43, V44, V45, V46, V47, V48
<1>2. "off_delay" \in V48 /\ "off_delay" \notin V47
  BY DEF V42, V43, V44, V45, V46, V47, V48
<1> QED BY <1>1, <1>2 DEF Layout

(***************************************************************************)
(* The invariant holds of whatever is left in the EEPROM.                  *)
(***************************************************************************)
LEMMA InitIInv == Init => IInv
<1> SUFFICES ASSUME Init PROVE IInv
  OBVIOUS
<1>1. PICK e \in Left :
        flash = [valid |-> e.valid,
                 fields |-> IF e.valid = ACSETTINGSVALID THEN AllWhole(e.fields) ELSE e.fields]
  BY DEF Init
<1>2. DOMAIN e.fields = IF e.valid \in 42 .. 48 THEN Layout(e.valid) ELSE {}
  BY SettingsAssumption
<1>3. FlashInv
  <2>1. ram = AllWhole(Defaults) /\ flash.valid = e.valid
    BY <1>1 DEF Init
  <2>2. CASE e.valid = ACSETTINGSVALID
    BY <1>1, <2>1, <2>2, WholeIsPieces DEF FlashInv
  <2>3. CASE e.valid # ACSETTINGSVALID
    <3>1. DOMAIN e.fields # V48
      <4>1. e.valid \in Nat /\ "mac" \in V48
        BY SettingsAssumption DEF V42, V43, V44, V45, V46, V47, V48
      <4> QED BY <1>2, <2>3, <4>1, LayoutsDiffer DEF ACSETTINGSVALID
    <3> QED BY <1>1, <2>1, <2>3, <3>1, WholeIsPieces DEF FlashInv
  <2> QED BY <2>2, <2>3
<1>4. PlaceInv /\ WrittenInv /\ SavedInv
  BY DEF Init, PlaceInv, WrittenInv, Writing, SavedInv, Size
<1>5. NeverForgets
  BY DEF Init, NeverForgets
<1> QED BY <1>3, <1>4, <1>5 DEF IInv

(***************************************************************************)
(* When a word is written the fields are as in RAM up to it, and beyond as *)
(* they were.                                                              *)
(***************************************************************************)
LEMMA WordWritten ==
  ASSUME PlaceInv, FlashInv, WrittenInv, Writing, NEW f \in V48, NEW w \in Span(f)
  PROVE  OneWord[f][w] = IF w <= at THEN ram[f][w] ELSE Stored[f][w]
<1>1. w \in 0 .. Size - 1 /\ at \in 0 .. Size - 1
  BY FieldsFit DEF PlaceInv
<1>2. OneWord[f][w] = IF w = at THEN ram[f][w] ELSE Stored[f][w]
  BY DEF OneWord
<1>3. CASE w < at
  <2>1. flash.valid = ACSETTINGSVALID
    BY <1>1, <1>3 DEF PlaceInv, Size
  <2>2. Stored[f][w] = flash.fields[f][w]
    BY <2>1 DEF FlashInv, Stored
  <2>3. flash.fields[f][w] = ram[f][w]
    BY <1>3 DEF WrittenInv
  <2> QED BY <1>1, <1>2, <1>3, <2>2, <2>3 DEF Size
<1> QED BY <1>1, <1>2, <1>3 DEF Size

(***************************************************************************)
(* What is written has every field.                                        *)
(***************************************************************************)
LEMMA OneWordIsWhole == DOMAIN OneWord = V48 /\ \A f \in V48 : Pieces(f, OneWord[f])
BY DEF OneWord, Pieces

(***************************************************************************)
(* What was not edited is the same before and after a word is written.     *)
(***************************************************************************)
LEMMA UneditedStays ==
  ASSUME IInv, pc = "save", NEW f \in V48 \ edited
  PROVE  OneWord[f] = ram[f]
<1>1. DOMAIN flash.fields = V48 /\ ram[f] = flash.fields[f] /\ Pieces(f, ram[f])
  BY DEF IInv, PlaceInv, FlashInv, SavedInv
<1>2. Stored = flash.fields
  BY <1>1 DEF Stored
<1>3. OneWord[f] = [w \in Span(f) |-> ram[f][w]]
  BY <1>1, <1>2 DEF OneWord
<1> QED BY <1>1, <1>3 DEF Pieces

(***************************************************************************)
(* What is edited is noted.                                                *)
(***************************************************************************)
LEMMA EditStep ==
  ASSUME IInv, pc = "loop", NEW f \in V48, NEW v, Edit(f, v)
  PROVE  IInv'
<1> USE DEF IInv
<1>1. /\ ram' = [ram EXCEPT ![f] = Whole(f, v)] /\ edited' = edited \union {f}
      /\ UNCHANGED <<flash, pc, at, owner, from, cut, torn>>
  BY DEF Edit
<1>2. DOMAIN ram' = V48 /\ \A g \in V48 : ram'[g] = IF g = f THEN Whole(f, v) ELSE ram[g]
  BY <1>1 DEF FlashInv
<1>3. FlashInv'
  BY <1>1, <1>2 DEF FlashInv, Pieces, Whole
<1>4. SavedInv'
  BY <1>1, <1>2 DEF SavedInv
<1>5. PlaceInv' /\ WrittenInv' /\ NeverForgets'
  BY <1>1 DEF PlaceInv, WrittenInv, Writing, NeverForgets
<1> QED BY <1>3, <1>4, <1>5

(***************************************************************************)
(* A save begins with the first word; what was edited before is saved.     *)
(***************************************************************************)
LEMMA SaveStep ==
  ASSUME IInv, pc = "loop", NEW settings, SetSettings(settings),
         DOMAIN ram' = V48, \A f \in V48 : Pieces(f, ram'[f]),
         \A f \in V48 \ edited' : ram'[f] = ram[f] /\ f \notin edited
  PROVE  IInv'
<1> USE DEF IInv
<1>1. pc' = "save" /\ at' = 0 /\ at = 0 /\ UNCHANGED <<flash, from>>
  BY DEF SetSettings, PlaceInv, Writing
<1>2. PlaceInv'
  BY <1>1 DEF PlaceInv, Writing, Size
<1>3. FlashInv'
  BY <1>1 DEF FlashInv, Pieces
<1>4. WrittenInv'
  BY <1>1, FieldsFit DEF WrittenInv, Size
<1>5. SavedInv' /\ NeverForgets'
  BY <1>1 DEF SavedInv, NeverForgets
<1> QED BY <1>2, <1>3, <1>4, <1>5

(***************************************************************************)
(* Loading, or the beginning of a conversion.                              *)
(***************************************************************************)
LEMMA GetIInv == IInv /\ GetSettings => IInv'
<1> SUFFICES ASSUME IInv, GetSettings PROVE IInv'
  OBVIOUS
<1> USE DEF IInv
<1>1. pc = "boot" /\ at = 0 /\ edited = {} /\ UNCHANGED <<flash, at, edited, from>>
  BY DEF GetSettings, PlaceInv, Writing
<1>2. NeverForgets'
  BY <1>1 DEF NeverForgets
<1>3. CASE flash.valid = ACSETTINGSVALID
  <2>1. ram' = flash.fields /\ pc' = "loop"
    BY <1>3 DEF GetSettings
  <2>2. FlashInv' /\ SavedInv'
    BY <1>1, <1>3, <2>1 DEF FlashInv, SavedInv, Pieces
  <2>3. PlaceInv' /\ WrittenInv'
    BY <1>1, <1>3, <2>1 DEF FlashInv, PlaceInv, WrittenInv, Writing, Size
  <2> QED BY <1>2, <2>2, <2>3
<1>4. CASE flash.valid # ACSETTINGSVALID
  <2>1. pc' = "convert" /\ \E s : ram' = AllWhole(s)
    BY <1>4 DEF GetSettings
  <2>2. FlashInv'
    <3>1. DOMAIN ram' = V48 /\ \A f \in V48 : Pieces(f, ram'[f])
      BY <2>1, WholeIsPieces
    <3> QED BY <1>1, <3>1 DEF FlashInv, Pieces
  <2>3. WrittenInv'
    BY <1>1, FieldsFit DEF WrittenInv, Size
  <2>4. PlaceInv' /\ SavedInv'
    BY <1>1, <1>4, <2>1 DEF PlaceInv, SavedInv, Writing, Size
  <2> QED BY <1>2, <2>2, <2>3, <2>4
<1> QED BY <1>3, <1>4

(***************************************************************************)
(* A word is written that is not the last.                                 *)
(***************************************************************************)
LEMMA WriteIInv == IInv /\ WriteWord => IInv'
<1> SUFFICES ASSUME IInv, WriteWord PROVE IInv'
  OBVIOUS
<1> USE DEF IInv
<1>1. /\ Writing /\ at \in 0 .. 50 /\ at' = at + 1 /\ UNCHANGED <<ram, pc, edited, owner, from, cut, torn>>
      /\ flash'.valid = ACSETTINGSVALID /\ flash'.fields = OneWord
  BY DEF WriteWord, PlaceInv, Size, history
<1>2. PlaceInv'
  BY <1>1, OneWordIsWhole DEF PlaceInv, Writing, Size
<1>3. FlashInv'
  <2>1. DOMAIN flash'.fields = V48 /\ \A f \in V48 : Pieces(f, flash'.fields[f])
    BY <1>1, OneWordIsWhole
  <2> QED BY <1>1, <2>1 DEF FlashInv, Pieces
<1>4. WrittenInv'
  <2> SUFFICES ASSUME NEW f \in V48, NEW w \in Span(f), w < at' PROVE flash'.fields[f][w] = ram'[f][w]
    BY DEF WrittenInv
  <2>1. w <= at
    BY <1>1, FieldsFit DEF Size
  <2> QED BY <1>1, <2>1, WordWritten
<1>5. SavedInv'
  BY <1>1, UneditedStays DEF SavedInv, Writing
<1>6. NeverForgets'
  BY <1>1 DEF NeverForgets, ACSETTINGSVALID
<1> QED BY <1>2, <1>3, <1>4, <1>5, <1>6

(***************************************************************************)
(* With the last word everything is as in RAM.                             *)
(***************************************************************************)
LEMMA AllWritten ==
  ASSUME PlaceInv, FlashInv, WrittenInv, LastWord PROVE \A f \in V48 : flash'.fields[f] = ram[f]
<1> SUFFICES ASSUME NEW f \in V48 PROVE flash'.fields[f] = ram[f]
  OBVIOUS
<1>1. flash'.fields = OneWord /\ at = Size - 1 /\ Writing
  BY DEF LastWord
<1>2. Pieces(f, OneWord[f]) /\ Pieces(f, ram[f])
  BY OneWordIsWhole DEF FlashInv
<1>3. \A w \in Span(f) : OneWord[f][w] = ram[f][w]
  <2> SUFFICES ASSUME NEW w \in Span(f) PROVE OneWord[f][w] = ram[f][w]
    OBVIOUS
  <2>1. w <= at
    BY <1>1, FieldsFit DEF Size
  <2> QED BY <1>1, <2>1, WordWritten
<1> QED BY <1>1, <1>2, <1>3 DEF Pieces

(***************************************************************************)
(* The last word is written.                                              *)
(***************************************************************************)
LEMMA LastIInv == IInv /\ LastWord => IInv'
<1> SUFFICES ASSUME IInv, LastWord PROVE IInv'
  OBVIOUS
<1> USE DEF IInv
<1>1. /\ flash'.valid = ACSETTINGSVALID /\ flash'.fields = OneWord /\ at' = 0 /\ pc' = "loop"
      /\ edited' = {} /\ UNCHANGED ram
  BY DEF LastWord
<1>2. PlaceInv' /\ WrittenInv'
  BY <1>1, OneWordIsWhole DEF PlaceInv, WrittenInv, Writing, Size
<1>3. FlashInv'
  <2>1. DOMAIN flash'.fields = V48 /\ \A f \in V48 : Pieces(f, flash'.fields[f])
    BY <1>1, OneWordIsWhole
  <2> QED BY <1>1, <2>1 DEF FlashInv, Pieces
<1>4. SavedInv'
  BY <1>1, AllWritten DEF SavedInv
<1>5. NeverForgets'
  BY <1>1 DEF NeverForgets, ACSETTINGSVALID
<1> QED BY <1>2, <1>3, <1>4, <1>5

(***************************************************************************)
(* The invariant is inductive.                                             *)
(***************************************************************************)
LEMMA InvStep == IInv /\ [Next]_vars => IInv'
<1> SUFFICES ASSUME IInv, [Next]_vars PROVE IInv'
  OBVIOUS
<1>1. CASE GetSettings \/ WriteWord \/ LastWord
  BY <1>1, GetIInv, WriteIInv, LastIInv
<1>2. CASE \/ \E f \in DOMAIN Choices : \E v \in Choices[f] : EditValue(f, v)
           \/ \E f \in EditNumbers : EditNonsense(f) \/ \E n \in Typed : EditNumber(f, n)
           \/ \E v \in {0, 1} : StatusAnswer(v)
  <2>1. \E f \in V48 : \E v : pc = "loop" /\ Edit(f, v)
    BY <1>2, SettingsAssumption
    DEF EditValue, EditNonsense, EditNumber, StatusAnswer, V48, V47, V46, V45, V44, V43, V42
  <2> QED BY <2>1, EditStep
<1>3. CASE Save
  <2>1. /\ pc = "loop" /\ SetSettings(ram) /\ UNCHANGED <<ram, edited>>
        /\ DOMAIN ram' = V48 /\ \A f \in V48 : Pieces(f, ram'[f])
    BY <1>3 DEF Save, IInv, FlashInv, Pieces
  <2> QED BY <2>1, SaveStep
<1>4. ASSUME NEW f, NEW v, SaveField(f, v) PROVE IInv'
  <2>1. /\ pc = "loop" /\ SetSettings(ram') /\ edited' = edited \union {f}
        /\ DOMAIN ram' = V48
        /\ \A g \in V48 : ram'[g] = IF g = f THEN Whole(f, v) ELSE ram[g]
    BY <1>4 DEF SaveField, IInv, FlashInv
  <2>2. \A g \in V48 : Pieces(g, ram'[g])
    BY <2>1 DEF IInv, FlashInv, Pieces, Whole
  <2> QED BY <2>1, <2>2, SaveStep
<1>5. CASE Clear
  <2>1. /\ pc = "loop" /\ at = 0 /\ flash'.valid = 0 /\ from' = 0 /\ edited' = edited \union {"mac"}
        /\ flash'.fields = [flash.fields EXCEPT !["mac"][0] = Junk]
        /\ UNCHANGED <<ram, pc, at>>
    BY <1>5 DEF Clear, IInv, PlaceInv, Writing
  <2>2. DOMAIN flash.fields = V48 /\ "mac" \in V48
    BY <2>1 DEF IInv, PlaceInv, V42, V43, V44, V45, V46, V47, V48
  <2>3. /\ DOMAIN flash'.fields = V48
        /\ \A f \in V48 \ {"mac"} : flash'.fields[f] = flash.fields[f]
        /\ flash'.fields["mac"] = [flash.fields["mac"] EXCEPT ![0] = Junk]
    BY <2>1, <2>2
  <2>4. \A f \in V48 : Pieces(f, flash.fields[f])
    BY <2>2 DEF IInv, FlashInv
  <2>5. Pieces("mac", flash'.fields["mac"])
    <3>1. Pieces("mac", flash.fields["mac"])
      BY <2>2, <2>4
    <3> QED BY <2>3, <3>1 DEF Pieces
  <2>6. \A f \in V48 : Pieces(f, flash'.fields[f])
    BY <2>3, <2>4, <2>5
  <2>7. FlashInv'
    BY <2>1, <2>3, <2>6 DEF IInv, FlashInv, Pieces
  <2>8. SavedInv'
    BY <2>1, <2>3 DEF IInv, SavedInv
  <2>9. PlaceInv' /\ WrittenInv' /\ NeverForgets'
    BY <2>1, <2>3 DEF IInv, PlaceInv, WrittenInv, Writing, NeverForgets, Size, ACSETTINGSVALID
  <2> QED BY <2>7, <2>8, <2>9 DEF IInv
<1>6. CASE Reset
  <2>1. /\ pc' = "boot" /\ at' = 0 /\ edited' = {} /\ UNCHANGED <<flash, from>>
        /\ ram' = AllWhole(Defaults)
    BY <1>6 DEF Reset
  <2>2. FlashInv'
    <3>1. DOMAIN ram' = V48 /\ \A f \in V48 : Pieces(f, ram'[f])
      BY <2>1, WholeIsPieces
    <3> QED BY <2>1, <3>1 DEF IInv, FlashInv, Pieces
  <2>3. PlaceInv' /\ WrittenInv' /\ SavedInv' /\ NeverForgets'
    BY <2>1 DEF IInv, PlaceInv, WrittenInv, Writing, SavedInv, NeverForgets, Size
  <2> QED BY <2>2, <2>3 DEF IInv
<1>7. CASE UNCHANGED vars
  BY <1>7 DEF vars, history, IInv, PlaceInv, FlashInv, Pieces, WrittenInv, Writing, SavedInv, NeverForgets
<1> QED BY <1>1, <1>2, <1>3, <1>4, <1>5, <1>6, <1>7 DEF Next

(***************************************************************************)
(* The invariant holds of the settings.                                    *)
(***************************************************************************)
THEOREM SettingsInvariant == Spec => []IInv
BY InitIInv, InvStep, PTL DEF Spec

(***************************************************************************)
(* A node never goes back to the defaults by itself.                       *)
(***************************************************************************)
THEOREM SettingsNotForgotten == Spec => []NeverForgets
<1>1. IInv => NeverForgets
  BY DEF IInv
<1> QED BY <1>1, SettingsInvariant, PTL

(***************************************************************************)
(* What the node has in RAM and not in the EEPROM was edited.              *)
(***************************************************************************)
THEOREM RestIsSaved == Spec => []OnlyEditsUnsaved
<1>1. IInv => OnlyEditsUnsaved
  BY DEF IInv, PlaceInv, SavedInv, OnlyEditsUnsaved
<1> QED BY <1>1, SettingsInvariant, PTL

-----------------------------------------------------------------------------

\* An older layout is that of the owner, from whom nothing has been kept yet.
OldInv ==
  flash.valid \in 42 .. 47 =>
    /\ pc \in {"boot", "convert"} /\ from = flash.valid
    /\ DOMAIN flash.fields = Layout(from) /\ (from = 42 => Narrow(flash.fields) = flash.fields)
    /\ DOMAIN owner = Layout(from)
    /\ \A f \in DOMAIN owner : owner[f] = {Whole(f, flash.fields[f])}

OwnerInv ==
  /\ DOMAIN owner \subseteq V48
  /\ \A f \in DOMAIN owner : \A o \in owner[f] : Pieces(f, o)
  /\ pc = "loop" /\ flash.valid = 0 => DOMAIN owner = {}

\* What a boot finds in the EEPROM, or has found.
KeptInv ==
  pc \in {"boot", "loop"} /\ flash.valid = ACSETTINGSVALID =>
    \A f \in V48 : Kept(f) => IsOwners(f, flash.fields[f])

\* What a conversion makes of the settings, and what is left of them beyond
\* the word it has come to.
ConvertInv ==
  pc = "convert" =>
    /\ flash.valid \in 42 .. ACSETTINGSVALID \/ DOMAIN owner = {}
    /\ \A f \in DOMAIN owner \ Lost : ram[f] \in owner[f]
    /\ at > 0 => \A f \in (DOMAIN owner \ Lost) \cap InPlace(from) : flash.fields[f] = ram[f]

\* Beyond the word that a save has come to is an older value of the owner's.
SavingInv ==
  pc = "save" =>
    /\ DOMAIN owner = V48
    /\ \A f \in V48 : ram[f] \in owner[f]
    /\ \A f \in V48 : Kept(f) =>
         IF f \in torn THEN \A w \in Span(f) : \E o \in owner[f] : flash.fields[f][w] = o[w]
         ELSE \E o \in owner[f] : \A w \in Span(f) : w >= at => flash.fields[f][w] = o[w]

SurviveInv == OldInv /\ OwnerInv /\ KeptInv /\ ConvertInv /\ SavingInv

(***************************************************************************)
(* Before the first boot everything is as it was left.                     *)
(***************************************************************************)
LEMMA InitSurvive == Init => SurviveInv
<1> SUFFICES ASSUME Init PROVE SurviveInv
  OBVIOUS
<1>1. PICK e \in Left :
        flash = [valid |-> e.valid,
                 fields |-> IF e.valid = ACSETTINGSVALID THEN AllWhole(e.fields) ELSE e.fields]
  BY DEF Init
<1>2. DOMAIN e.fields = (IF e.valid \in 42 .. 48 THEN Layout(e.valid) ELSE {})
      /\ (e.valid = 42 => Narrow(e.fields) = e.fields)
  BY SettingsAssumption
<1>3. CASE flash.valid = ACSETTINGSVALID
  <2>1. /\ owner = [f \in V48 |-> {flash.fields[f]}] /\ \A f \in V48 : Pieces(f, flash.fields[f])
        /\ pc = "boot" /\ torn = {}
    BY <1>1, <1>3, WholeIsPieces DEF Init
  <2> QED BY <1>3, <2>1
          DEF SurviveInv, OldInv, OwnerInv, KeptInv, ConvertInv, SavingInv, IsOwners, ACSETTINGSVALID
<1>4. CASE flash.valid \in 42 .. 47
  <2>1. /\ flash.fields = e.fields /\ DOMAIN flash.fields = Layout(flash.valid)
        /\ DOMAIN flash.fields \subseteq V48
    BY <1>1, <1>2, <1>4, LayoutsDiffer DEF ACSETTINGSVALID
  <2>2. /\ owner = [f \in DOMAIN flash.fields |-> {Whole(f, flash.fields[f])}]
        /\ pc = "boot" /\ from = flash.valid
    <3>1. pc = "boot" /\ from = flash.valid
      BY DEF Init
    <3>2. owner = IF flash.valid = ACSETTINGSVALID THEN [f \in V48 |-> {flash.fields[f]}]
                  ELSE IF flash.valid \in 42 .. 47
                  THEN [f \in DOMAIN flash.fields |-> {Whole(f, flash.fields[f])}]
                  ELSE Nothing
      BY DEF Init
    <3>3. flash.valid # ACSETTINGSVALID
      BY <1>4 DEF ACSETTINGSVALID
    <3> QED BY <1>4, <3>1, <3>2, <3>3
  <2>3. OldInv
    BY <1>1, <1>2, <2>1, <2>2 DEF OldInv
  <2>4. OwnerInv
    BY <2>1, <2>2 DEF OwnerInv, Pieces, Whole
  <2>5. KeptInv /\ ConvertInv /\ SavingInv
    BY <1>4, <2>2 DEF KeptInv, ConvertInv, SavingInv, ACSETTINGSVALID
  <2> QED BY <2>3, <2>4, <2>5 DEF SurviveInv
<1>5. CASE flash.valid \notin 42 .. 47 /\ flash.valid # ACSETTINGSVALID
  <2>1. DOMAIN owner = {} /\ pc = "boot"
    BY <1>5 DEF Init, Nothing
  <2> QED BY <1>5, <2>1
          DEF SurviveInv, OldInv, OwnerInv, KeptInv, ConvertInv, SavingInv
<1> QED BY <1>3, <1>4, <1>5

(***************************************************************************)
(* What a conversion makes of a setting that it does not lose is what the  *)
(* owner had.                                                              *)
(***************************************************************************)
LEMMA ConversionKeeps ==
  ASSUME OldInv, flash.valid \in 42 .. 47,
         NEW ram1, ram1 = AllWhole(Upgrade(flash.valid, flash.fields)),
         NEW f \in DOMAIN owner \ Lost
  PROVE  ram1[f] = Whole(f, flash.fields[f]) /\ ram1[f] \in owner[f]
<1>1. /\ from \in 42 .. 47 /\ from = flash.valid /\ DOMAIN flash.fields = Layout(from)
      /\ from = 42 => Narrow(flash.fields) = flash.fields
      /\ DOMAIN owner = Layout(from) /\ owner[f] = {Whole(f, flash.fields[f])}
  BY DEF OldInv
<1>2. f \in Layout(from) \ LostFrom(from)
  <2>1. f \in Layout(from) /\ f \notin Lost
    BY <1>1
  <2>2. CASE from = 43
    BY <2>1, <2>2 DEF LostFrom
  <2>3. CASE from # 43
    BY <1>1, <2>1, <2>3 DEF Lost, LostFrom, NotCopied
  <2> QED BY <2>2, <2>3
<1>3. Upgrade(from, flash.fields)[f] = flash.fields[f]
  BY <1>1, <1>2, UpgradeKeeps
<1>4. f \in V48
  BY <1>1, <1>2, LayoutsDiffer
<1> QED BY <1>1, <1>3, <1>4 DEF AllWhole, Whole

(***************************************************************************)
(* What is loaded is what the owner has.                                   *)
(***************************************************************************)
LEMMA GetSurvive == IInv /\ SurviveInv /\ GetSettings => SurviveInv'
<1> SUFFICES ASSUME IInv, SurviveInv, GetSettings PROVE SurviveInv'
  OBVIOUS
<1>1. /\ pc = "boot" /\ at = 0 /\ UNCHANGED <<flash, at, edited, from, cut, torn>>
  BY DEF GetSettings, IInv, PlaceInv, Writing
<1>2. owner' = IF flash.valid \in 42 .. ACSETTINGSVALID THEN owner ELSE Nothing
  BY DEF GetSettings
<1>3. CASE flash.valid = ACSETTINGSVALID
  <2>1. pc' = "loop" /\ owner' = owner
    BY <1>2, <1>3 DEF GetSettings, ACSETTINGSVALID
  <2>2. KeptInv'
    BY <1>1, <1>3, <2>1 DEF SurviveInv, KeptInv, Kept, IsOwners, Lost, Mangled
  <2>3. OldInv' /\ OwnerInv' /\ ConvertInv' /\ SavingInv'
    BY <1>1, <1>3, <2>1 DEF SurviveInv, OldInv, OwnerInv, ConvertInv, SavingInv, Pieces, ACSETTINGSVALID
  <2> QED BY <2>2, <2>3 DEF SurviveInv
<1>4. CASE flash.valid \in 42 .. 47
  <2>1. /\ pc' = "convert" /\ owner' = owner /\ Lost' = Lost
        /\ ram' = AllWhole(Upgrade(flash.valid, flash.fields))
    BY <1>1, <1>2, <1>4 DEF GetSettings, ACSETTINGSVALID, Lost
  <2>2. \A f \in DOMAIN owner \ Lost : ram'[f] \in owner[f]
    BY <1>4, <2>1, ConversionKeeps DEF SurviveInv
  <2>3. ConvertInv'
    BY <1>1, <1>4, <2>1, <2>2 DEF ConvertInv, ACSETTINGSVALID
  <2>4. OldInv' /\ OwnerInv' /\ KeptInv' /\ SavingInv'
    BY <1>1, <1>4, <2>1 DEF SurviveInv, OldInv, OwnerInv, KeptInv, SavingInv, Pieces, ACSETTINGSVALID
  <2> QED BY <2>3, <2>4 DEF SurviveInv
<1>5. CASE flash.valid \notin 42 .. ACSETTINGSVALID
  <2>1. pc' = "convert" /\ DOMAIN owner' = {}
    BY <1>2, <1>5 DEF GetSettings, Nothing, ACSETTINGSVALID
  <2>2. ConvertInv'
    BY <1>1, <2>1 DEF ConvertInv
  <2>3. OldInv' /\ OwnerInv' /\ KeptInv' /\ SavingInv'
    BY <1>1, <1>5, <2>1 DEF OldInv, OwnerInv, KeptInv, SavingInv, ACSETTINGSVALID
  <2> QED BY <2>2, <2>3 DEF SurviveInv
<1> QED BY <1>3, <1>4, <1>5 DEF ACSETTINGSVALID

(***************************************************************************)
(* A word of a conversion leaves what lies where it was.                   *)
(***************************************************************************)
LEMMA ConvertWord ==
  ASSUME IInv, SurviveInv, pc = "convert", NEW f \in (DOMAIN owner \ Lost) \cap InPlace(from)
  PROVE  OneWord[f] = ram[f]
<1>1. f \in V48 /\ Pieces(f, ram[f])
  BY DEF SurviveInv, OwnerInv, IInv, FlashInv
<1>2. Stored[f] = ram[f]
  <2>1. CASE at > 0
    <3>1. flash.valid = ACSETTINGSVALID
      BY <2>1 DEF IInv, PlaceInv
    <3>2. DOMAIN flash.fields = V48 /\ flash.fields[f] = ram[f]
      BY <2>1, <3>1 DEF IInv, FlashInv, SurviveInv, ConvertInv
    <3> QED BY <3>2 DEF Stored
  <2>2. CASE ~ (at > 0)
    <3>1. flash.valid \in 42 .. 47
      BY <2>2 DEF IInv, PlaceInv, SurviveInv, ConvertInv, ACSETTINGSVALID, Size
    <3>2. /\ from = flash.valid /\ DOMAIN flash.fields = Layout(from) /\ f \in DOMAIN flash.fields
          /\ owner[f] = {Whole(f, flash.fields[f])}
      BY <3>1 DEF SurviveInv, OldInv
    <3>3. ram[f] = Whole(f, flash.fields[f])
      BY <3>2 DEF SurviveInv, ConvertInv
    <3>4. DOMAIN flash.fields # V48
      BY <3>1, <3>2, LayoutsDiffer
    <3>5. Stored[f] = Whole(f, flash.fields[f])
      BY <1>1, <3>2, <3>4 DEF Stored
    <3> QED BY <3>3, <3>5
  <2> QED BY <2>1, <2>2
<1>3. OneWord[f] = [w \in Span(f) |-> ram[f][w]]
  BY <1>1, <1>2 DEF OneWord
<1> QED BY <1>1, <1>3 DEF Pieces

(***************************************************************************)
(* A word is written that is not the last: of a conversion, or of a save.  *)
(***************************************************************************)
LEMMA WriteSurvive == IInv /\ SurviveInv /\ WriteWord => SurviveInv'
<1> SUFFICES ASSUME IInv, SurviveInv, WriteWord PROVE SurviveInv'
  OBVIOUS
<1>1. /\ Writing /\ at \in 0 .. 50 /\ at' = at + 1
      /\ UNCHANGED <<ram, pc, edited, owner, from, cut, torn>>
      /\ flash'.valid = ACSETTINGSVALID /\ flash'.fields = OneWord
  BY DEF WriteWord, IInv, PlaceInv, Size, history
<1>2. Lost' = Lost /\ Mangled' = Mangled /\ InPlace(from)' = InPlace(from)
  BY <1>1 DEF Lost, Mangled
<1>3. OldInv' /\ KeptInv'
  BY <1>1 DEF OldInv, KeptInv, Writing, ACSETTINGSVALID
<1>4. OwnerInv'
  BY <1>1 DEF SurviveInv, OwnerInv, Pieces, ACSETTINGSVALID
<1>5. ConvertInv'
  <2> SUFFICES ASSUME pc = "convert" PROVE ConvertInv'
    BY <1>1 DEF ConvertInv
  <2>1. \A f \in DOMAIN owner \ Lost : ram[f] \in owner[f]
    BY DEF SurviveInv, ConvertInv
  <2>2. \A f \in (DOMAIN owner \ Lost) \cap InPlace(from) : OneWord[f] = ram[f]
    BY ConvertWord
  <2> QED BY <1>1, <1>2, <2>1, <2>2 DEF ConvertInv, ACSETTINGSVALID
<1>6. SavingInv'
  <2> SUFFICES ASSUME pc = "save" PROVE SavingInv'
    BY <1>1 DEF SavingInv
  <2>1. DOMAIN owner = V48 /\ \A f \in V48 : ram[f] \in owner[f]
    BY DEF SurviveInv, SavingInv
  <2>2. ASSUME NEW f \in V48, Kept(f)
        PROVE  IF f \in torn THEN \A w \in Span(f) : \E o \in owner[f] : OneWord[f][w] = o[w]
               ELSE \E o \in owner[f] : \A w \in Span(f) : w >= at + 1 => OneWord[f][w] = o[w]
    <3>1. \A w \in Span(f) : /\ w \in Int /\ OneWord[f][w] = IF w <= at THEN ram[f][w] ELSE flash.fields[f][w]
      <4>1. Stored = flash.fields
        BY DEF IInv, PlaceInv, Stored
      <4>2. PlaceInv /\ FlashInv /\ WrittenInv
        BY DEF IInv
      <4> QED BY <1>1, <4>1, <4>2, WordWritten, FieldsFit
    <3>2. CASE f \in torn
      <4>1. \A w \in Span(f) : \E o \in owner[f] : flash.fields[f][w] = o[w]
        BY <2>2, <3>2 DEF SurviveInv, SavingInv
      <4> QED BY <2>1, <3>1, <3>2, <4>1
    <3>3. CASE f \notin torn
      <4>1. PICK o \in owner[f] : \A w \in Span(f) : w >= at => flash.fields[f][w] = o[w]
        BY <2>2, <3>3 DEF SurviveInv, SavingInv
      <4>2. \A w \in Span(f) : w >= at + 1 => OneWord[f][w] = o[w]
        BY <1>1, <3>1, <4>1
      <4> QED BY <3>3, <4>2
    <3> QED BY <3>2, <3>3
  <2>3. \A f \in V48 : Kept(f)' => Kept(f)
    BY <1>1, <1>2 DEF Kept
  <2> QED BY <1>1, <2>1, <2>2, <2>3 DEF SavingInv
<1> QED BY <1>3, <1>4, <1>5, <1>6 DEF SurviveInv

(***************************************************************************)
(* The last word: what the owner has is in the EEPROM, as it is in RAM.    *)
(***************************************************************************)
LEMMA LastSurvive == IInv /\ SurviveInv /\ LastWord => SurviveInv'
<1> SUFFICES ASSUME IInv, SurviveInv, LastWord PROVE SurviveInv'
  OBVIOUS
<1>1. flash'.valid = ACSETTINGSVALID /\ pc' = "loop" /\ Writing /\ UNCHANGED ram
  BY DEF LastWord
<1>2. \A f \in V48 : flash'.fields[f] = ram[f] /\ Pieces(f, ram[f])
  BY AllWritten DEF IInv, FlashInv
<1>3. OldInv' /\ ConvertInv' /\ SavingInv'
  BY <1>1 DEF OldInv, ConvertInv, SavingInv, ACSETTINGSVALID
<1>4. CASE pc = "save"
  <2>1. owner' = [f \in V48 |-> {ram[f]}] /\ torn' = {}
    BY <1>4 DEF LastWord
  <2>2. OwnerInv'
    <3>1. \A f \in V48 : owner'[f] = {ram[f]} /\ Pieces(f, ram[f])
      BY <1>2, <2>1
    <3>2. DOMAIN owner' = V48 /\ flash'.valid # 0
      BY <1>1, <2>1 DEF ACSETTINGSVALID
    <3>3. \A f \in DOMAIN owner' : \A o \in owner'[f] : Pieces(f, o)
      BY <3>1, <3>2
    <3> QED BY <3>2, <3>3, Zenon DEF OwnerInv, Pieces
  <2>3. KeptInv'
    BY <1>2, <2>1 DEF KeptInv, IsOwners
  <2> QED BY <1>3, <2>2, <2>3 DEF SurviveInv
<1>5. CASE pc = "convert"
  <2>1. UNCHANGED <<owner, from, cut, torn>>
    BY <1>5 DEF LastWord
  <2>2. Lost' = Lost /\ Mangled' = Mangled
    BY <2>1 DEF Lost, Mangled
  <2>3. OwnerInv'
    BY <1>1, <2>1 DEF SurviveInv, OwnerInv, Pieces, ACSETTINGSVALID
  <2>4. ASSUME NEW f \in V48, Kept(f)' PROVE IsOwners(f, flash.fields[f])'
    <3>1. f \in DOMAIN owner \ Lost
      BY <2>1, <2>2, <2>4 DEF Kept
    <3>2. ram[f] \in owner[f]
      BY <1>5, <3>1 DEF SurviveInv, ConvertInv
    <3> QED BY <1>2, <2>1, <3>2 DEF IsOwners
  <2> QED BY <1>3, <2>3, <2>4 DEF KeptInv, SurviveInv
<1> QED BY <1>1, <1>4, <1>5 DEF Writing

(***************************************************************************)
(* An edit disturbs nothing that was saved.                                *)
(***************************************************************************)
LEMMA EditSurvive ==
  ASSUME SurviveInv, pc = "loop", NEW f, NEW v, Edit(f, v)
  PROVE  SurviveInv'
<1>1. UNCHANGED <<flash, pc, at, owner, from, cut, torn>>
  BY DEF Edit
<1>2. \A g \in V48 : (Kept(g)' <=> Kept(g)) /\ (IsOwners(g, flash.fields[g])' <=> IsOwners(g, flash.fields[g]))
  BY <1>1 DEF Kept, Lost, Mangled, IsOwners
<1>3. KeptInv'
  BY <1>1, <1>2 DEF SurviveInv, KeptInv
<1>4. OldInv' /\ OwnerInv' /\ ConvertInv' /\ SavingInv'
  BY <1>1 DEF SurviveInv, OldInv, OwnerInv, ConvertInv, SavingInv, Pieces
<1> QED BY <1>3, <1>4 DEF SurviveInv

(***************************************************************************)
(* A save allows the old value and the new one.                            *)
(***************************************************************************)
LEMMA SaveSurvive ==
  ASSUME IInv, SurviveInv, pc = "loop", SetSettings(ram'), \A f \in V48 : Pieces(f, ram'[f])
  PROVE  SurviveInv'
<1>1. /\ pc' = "save" /\ UNCHANGED <<flash, at, from, cut, torn>> /\ at = 0
      /\ DOMAIN owner' = V48 /\ DOMAIN flash.fields = V48 /\ flash.valid \in {0, ACSETTINGSVALID}
  BY DEF SetSettings, IInv, PlaceInv, Writing
<1>2. \A f \in V48 :
        owner'[f] = (IF f \in DOMAIN owner THEN owner[f] ELSE {flash.fields[f]}) \union {ram'[f]}
  BY DEF SetSettings
<1>3. Lost' = Lost /\ Mangled' = Mangled
  BY <1>1 DEF Lost, Mangled
<1>4. OldInv' /\ KeptInv' /\ ConvertInv'
  BY <1>1 DEF OldInv, KeptInv, ConvertInv, ACSETTINGSVALID
<1>5. OwnerInv'
  <2>1. ASSUME NEW f \in V48, NEW o \in owner'[f] PROVE Pieces(f, o)
    <3>1. Pieces(f, flash.fields[f])
      BY <1>1 DEF IInv, FlashInv
    <3>2. CASE f \in DOMAIN owner
      BY <1>2, <2>1, <3>2 DEF SurviveInv, OwnerInv
    <3>3. CASE f \notin DOMAIN owner
      BY <1>2, <2>1, <3>1, <3>3
    <3> QED BY <3>2, <3>3
  <2>2. DOMAIN owner' = V48 /\ pc' = "save"
    BY <1>1
  <2>3. \A f \in V48 : \A o \in owner'[f] : Pieces(f, o)
    BY <2>1
  <2> QED BY <2>2, <2>3 DEF OwnerInv, Pieces
<1>6. SavingInv'
  <2>1. ASSUME NEW f \in V48, Kept(f)'
        PROVE  IF f \in torn THEN \A w \in Span(f) : \E o \in owner'[f] : flash.fields[f][w] = o[w]
               ELSE flash.fields[f] \in owner'[f]
    <3>1. CASE f \notin DOMAIN owner
      BY <1>2, <3>1
    <3>2. CASE f \in DOMAIN owner
      <4>1. Kept(f)
        BY <1>3, <2>1, <3>2 DEF Kept
      <4>2. flash.valid = ACSETTINGSVALID
        BY <1>1, <3>2 DEF SurviveInv, OwnerInv
      <4>3. IsOwners(f, flash.fields[f])
        BY <4>1, <4>2 DEF SurviveInv, KeptInv
      <4> QED BY <1>2, <3>2, <4>3 DEF IsOwners
    <3> QED BY <3>1, <3>2
  <2>2. \A f \in V48 : ram'[f] \in owner'[f]
    BY <1>2
  <2>3. \A f \in V48 : Kept(f)' =>
          IF f \in torn' THEN \A w \in Span(f) : \E o \in owner'[f] : flash'.fields[f][w] = o[w]
          ELSE \E o \in owner'[f] : \A w \in Span(f) : w >= at' => flash'.fields[f][w] = o[w]
    BY <1>1, <2>1
  <2> QED BY <1>1, <2>2, <2>3 DEF SavingInv
<1> QED BY <1>4, <1>5, <1>6 DEF SurviveInv

(***************************************************************************)
(* What a reset leaves when it cuts a save: a setting wholly before the    *)
(* cut is the new one, one wholly beyond it is as it was, and one across   *)
(* it is torn, if it was edited.                                           *)
(***************************************************************************)
LEMMA CutSave ==
  ASSUME IInv, SurviveInv, pc = "save", NEW f \in V48, Kept(f)
  PROVE  IF f \in torn \union (Across(at) \cap edited)
         THEN \A w \in Span(f) : \E o \in owner[f] : flash.fields[f][w] = o[w]
         ELSE flash.fields[f] \in owner[f]
<1>1. /\ ram[f] \in owner[f] /\ at \in 0 .. Size - 1
      /\ \A o \in owner[f] : Pieces(f, o)
      /\ Pieces(f, flash.fields[f])
  BY DEF SurviveInv, SavingInv, OwnerInv, IInv, PlaceInv, FlashInv
<1>2. \A w \in Span(f) : w \in Int /\ (w < at => flash.fields[f][w] = ram[f][w])
  BY FieldsFit DEF IInv, WrittenInv, Writing
<1>3. CASE f \in torn
  BY <1>3 DEF SurviveInv, SavingInv
<1>4. CASE f \notin torn
  <2>1. PICK o \in owner[f] : \A w \in Span(f) : w >= at => flash.fields[f][w] = o[w]
    BY <1>4 DEF SurviveInv, SavingInv
  <2>2. \A w \in Span(f) : flash.fields[f][w] = ram[f][w] \/ flash.fields[f][w] = o[w]
    BY <1>1, <1>2, <2>1 DEF Size
  <2>3. CASE f \in Across(at) \cap edited
    BY <1>1, <2>2, <2>3
  <2>4. CASE f \notin edited
    <3>1. flash.fields[f] = ram[f]
      BY <2>4 DEF IInv, SavedInv
    <3> QED BY <1>1, <1>4, <2>4, <3>1
  <2>5. CASE f \notin Across(at)
    <3>1. (\A w \in Span(f) : w < at) \/ (\A w \in Span(f) : w >= at)
      <4> SUFFICES ASSUME NEW u \in Span(f), ~ (u < at), NEW w \in Span(f), ~ (w >= at) PROVE FALSE
        OBVIOUS
      <4>1. u \in Int /\ w \in Int /\ at \in Int /\ w <= at - 1 /\ at <= u
        BY <1>1, <1>2 DEF Size
      <4>2. PICK lo, hi : Span(f) = lo .. hi /\ lo \in Int /\ hi \in Int
        <5>1. Address[f] \in Int /\ Bytes(f) \in Int
          BY FieldBytes
        <5> QED BY <5>1 DEF Span
      <4>3. {at - 1, at} \subseteq Span(f)
        BY <4>1, <4>2
      <4> QED BY <2>5, <4>3 DEF Across
    <3>2. CASE \A w \in Span(f) : w < at
      <4>1. flash.fields[f] = ram[f]
        BY <1>1, <1>2, <3>2 DEF Pieces
      <4> QED BY <1>1, <1>4, <2>5, <4>1
    <3>3. CASE \A w \in Span(f) : w >= at
      <4>1. flash.fields[f] = o
        BY <1>1, <2>1, <3>3 DEF Pieces
      <4> QED BY <1>4, <2>5, <4>1
    <3> QED BY <3>1, <3>2, <3>3
  <2> QED BY <2>3, <2>4, <2>5
<1> QED BY <1>3, <1>4

(***************************************************************************)
(* What a reset leaves when it cuts a conversion.                          *)
(***************************************************************************)
LEMMA CutConversion ==
  ASSUME IInv, SurviveInv, pc = "convert", at > 0, NEW f \in DOMAIN owner \ Lost,
         f \in InPlace(from) \/ Span(f) \subseteq 0 .. at - 1
  PROVE  flash.fields[f] \in owner[f]
<1>1. f \in V48 /\ ram[f] \in owner[f] /\ Pieces(f, ram[f]) /\ Pieces(f, flash.fields[f])
  BY DEF SurviveInv, OwnerInv, ConvertInv, IInv, PlaceInv, FlashInv
<1>2. CASE f \in InPlace(from)
  BY <1>1, <1>2 DEF SurviveInv, ConvertInv
<1>3. CASE Span(f) \subseteq 0 .. at - 1
  <2>1. \A w \in Span(f) : w < at
    BY <1>3 DEF IInv, PlaceInv, Size
  <2>2. flash.fields[f] = ram[f]
    BY <1>1, <2>1 DEF IInv, WrittenInv, Writing, Pieces
  <2> QED BY <1>1, <2>2
<1> QED BY <1>2, <1>3

(***************************************************************************)
(* Whatever a reset cuts, what was saved is kept.                          *)
(***************************************************************************)
LEMMA ResetSurvive == IInv /\ SurviveInv /\ Reset => SurviveInv'
<1> SUFFICES ASSUME IInv, SurviveInv, Reset PROVE SurviveInv'
  OBVIOUS
<1>1. /\ pc' = "boot" /\ UNCHANGED <<flash, owner, from>>
      /\ cut' = IF pc = "convert" /\ at > 0 THEN at ELSE cut
      /\ torn' = IF pc = "save" THEN torn \union (Across(at) \cap edited) ELSE torn
  BY DEF Reset
<1>2. Lost' = Lost
  BY <1>1 DEF Lost
<1>3. OldInv' /\ OwnerInv' /\ ConvertInv' /\ SavingInv'
  BY <1>1 DEF SurviveInv, OldInv, OwnerInv, ConvertInv, SavingInv, Pieces
<1>4. KeptInv'
  <2> SUFFICES ASSUME flash.valid = ACSETTINGSVALID, NEW f \in V48, Kept(f)'
               PROVE  IF f \in torn' THEN \A w \in Span(f) : \E o \in owner[f] : flash.fields[f][w] = o[w]
                      ELSE flash.fields[f] \in owner[f]
    BY <1>1 DEF KeptInv, IsOwners
  <2>1. f \in DOMAIN owner /\ f \notin Lost /\ f \notin Mangled'
    BY <1>1, <1>2 DEF Kept
  <2>2. CASE pc \in {"boot", "loop"}
    <3>1. Kept(f)
      BY <1>1, <2>1, <2>2 DEF Kept, Mangled
    <3>2. IsOwners(f, flash.fields[f])
      BY <2>2, <3>1 DEF SurviveInv, KeptInv
    <3> QED BY <1>1, <2>2, <3>2 DEF IsOwners
  <2>3. CASE pc = "save"
    <3>1. Kept(f)
      BY <1>1, <2>1, <2>3 DEF Kept, Mangled
    <3> QED BY <1>1, <2>3, <3>1, CutSave
  <2>4. CASE pc = "convert"
    <3>1. at > 0 /\ cut' = at
      BY <1>1, <2>4 DEF IInv, PlaceInv, Size
    <3>2. f \in InPlace(from) \/ Span(f) \subseteq 0 .. at - 1
      BY <1>1, <2>1, <3>1 DEF Mangled
    <3>3. flash.fields[f] \in owner[f]
      BY <2>1, <2>4, <3>1, <3>2, CutConversion
    <3> QED BY <3>3
  <2> QED BY <2>2, <2>3, <2>4 DEF IInv, PlaceInv
<1> QED BY <1>3, <1>4 DEF SurviveInv

(***************************************************************************)
(* What the owner saved is kept by every step.                             *)
(***************************************************************************)
LEMMA SurviveStep == IInv /\ SurviveInv /\ [Next]_vars => SurviveInv'
<1> SUFFICES ASSUME IInv, SurviveInv, [Next]_vars PROVE SurviveInv'
  OBVIOUS
<1>1. CASE GetSettings \/ WriteWord \/ LastWord \/ Reset
  BY <1>1, GetSurvive, WriteSurvive, LastSurvive, ResetSurvive
<1>2. CASE \/ \E f \in DOMAIN Choices : \E v \in Choices[f] : EditValue(f, v)
           \/ \E f \in EditNumbers : EditNonsense(f) \/ \E n \in Typed : EditNumber(f, n)
           \/ \E v \in {0, 1} : StatusAnswer(v)
  <2>1. PICK f, v : pc = "loop" /\ Edit(f, v)
    BY <1>2 DEF EditValue, EditNonsense, EditNumber, StatusAnswer
  <2> QED BY <2>1, EditSurvive
<1>3. CASE Save
  <2>1. pc = "loop" /\ SetSettings(ram') /\ \A f \in V48 : Pieces(f, ram'[f])
    BY <1>3 DEF Save, SetSettings, IInv, FlashInv
  <2> QED BY <2>1, SaveSurvive
<1>4. ASSUME NEW f, NEW v, SaveField(f, v) PROVE SurviveInv'
  <2>1. /\ pc = "loop" /\ SetSettings(ram')
        /\ \A g \in V48 : ram'[g] = IF g = f THEN Whole(f, v) ELSE ram[g]
    BY <1>4 DEF SaveField, IInv, FlashInv
  <2>2. \A g \in V48 : Pieces(g, ram'[g])
    BY <2>1 DEF IInv, FlashInv, Pieces, Whole
  <2> QED BY <2>1, <2>2, SaveSurvive
<1>5. CASE Clear
  <2>1. pc = "loop" /\ pc' = "loop" /\ DOMAIN owner' = {} /\ flash'.valid = 0
    BY <1>5 DEF Clear, Nothing
  <2> QED BY <2>1
          DEF SurviveInv, OldInv, OwnerInv, KeptInv, ConvertInv, SavingInv, ACSETTINGSVALID
<1>6. CASE UNCHANGED vars
  <2>1. UNCHANGED <<flash, ram, pc, at, owner, from, cut, torn>>
    BY <1>6 DEF vars, history
  <2>2. \A g \in V48 : (Kept(g)' <=> Kept(g)) /\ (IsOwners(g, flash.fields[g])' <=> IsOwners(g, flash.fields[g]))
    BY <2>1 DEF Kept, Lost, Mangled, IsOwners
  <2>3. OldInv' /\ OwnerInv' /\ KeptInv'
    BY <2>1, <2>2 DEF SurviveInv, OldInv, OwnerInv, KeptInv, Pieces
  <2>4. ConvertInv' /\ SavingInv'
    BY <2>1, <2>2 DEF SurviveInv, ConvertInv, SavingInv, Lost
  <2> QED BY <2>3, <2>4 DEF SurviveInv
<1> QED BY <1>1, <1>2, <1>3, <1>4, <1>5, <1>6 DEF Next

(***************************************************************************)
(* What was saved is what the node has after every boot, whatever resets   *)
(* cut the saves and the conversions.                                      *)
(***************************************************************************)
THEOREM SettingsKept == Spec => []SettingsSurvive
<1>1. IInv /\ SurviveInv => SettingsSurvive
  <2> SUFFICES ASSUME IInv, SurviveInv, pc \in {"loop", "save"}, NEW f \in V48 \ edited, Kept(f)
               PROVE  IsOwners(f, ram[f])
    BY DEF SettingsSurvive
  <2>1. ram[f] = flash.fields[f]
    BY DEF IInv, SavedInv
  <2>2. CASE pc = "loop"
    <3>1. flash.valid = ACSETTINGSVALID
      BY <2>2 DEF IInv, PlaceInv, SurviveInv, OwnerInv, Kept
    <3> QED BY <2>1, <2>2, <3>1 DEF SurviveInv, KeptInv
  <2>3. CASE pc = "save"
    <3>1. ram[f] \in owner[f]
      BY <2>3 DEF SurviveInv, SavingInv
    <3> QED BY <3>1 DEF IsOwners
  <2> QED BY <2>2, <2>3
<1> QED BY <1>1, InitIInv, InvStep, InitSurvive, SurviveStep, PTL DEF Spec

-----------------------------------------------------------------------------


(***************************************************************************)
(* The range that a command checks fits the field.                         *)
(***************************************************************************)
LEMMA RangesFit ==
  ASSUME NEW f \in EditNumbers, NEW n \in Int, n >= 0, Accepts(f, n)
  PROVE  n % Width[f] = n
<1>1. f \in DOMAIN Bounds /\ n \in Bounds[f].range
  BY NumbersAssumption DEF Accepts
<1>2. CASE f = "role"
  BY <1>1, <1>2 DEF Bounds, Width
<1>3. CASE f = "announce_mode"
  BY <1>1, <1>3 DEF Bounds, Width
<1>4. CASE f = "minontime"
  BY <1>1, <1>4 DEF Bounds, Width
<1>5. CASE f \notin {"minontime", "role", "announce_mode"}
  <2>1. DOMAIN Bounds = {"port", "nodeid", "minontime", "off_delay", "announce_port", "mqtt_port",
                         "role", "announce_mode", "door_keep_open_ms"}
    BY DEF Bounds
  <2>2. n < 65536
    <3>1. CASE f \in {"port", "announce_port", "mqtt_port"}
      <4>1. n \in Ports
        BY <1>1, <3>1 DEF Bounds
      <4> QED BY <4>1 DEF Ports
    <3>2. CASE f = "nodeid"
      <4>1. n \in NodeIds
        BY <1>1, <3>2 DEF Bounds
      <4> QED BY <4>1 DEF NodeIds
    <3>3. CASE f = "off_delay"
      <4>1. n \in Delays
        BY <1>1, <3>3 DEF Bounds
      <4> QED BY <4>1 DEF Delays
    <3>4. CASE f = "door_keep_open_ms"
      <4>1. n \in Milliseconds
        BY <1>1, <3>4 DEF Bounds
      <4> QED BY <4>1 DEF Milliseconds
    <3> QED BY <1>1, <1>5, <2>1, <3>1, <3>2, <3>3, <3>4
  <2>3. Width[f] = 65536
    BY <1>1, <1>5 DEF Width
  <2> QED BY <2>2, <2>3
<1> QED BY <1>2, <1>3, <1>4, <1>5

(***************************************************************************)
(* Every number but a negative one is stored as it was typed.              *)
(***************************************************************************)
THEOREM NumbersFit == Spec => StoredAsTyped
<1>1. IInv => \A f \in EditNumbers, n \in Typed :
                n >= 0 /\ EditNumber(f, n) => ram'[f] = Whole(f, n)
  <2> SUFFICES ASSUME IInv, NEW f \in EditNumbers, NEW n \in Typed, n >= 0, EditNumber(f, n)
               PROVE  ram'[f] = Whole(f, n)
    OBVIOUS
  <2>1. n \in Int /\ f \in V48
    BY SettingsAssumption
  <2>2. n % Width[f] = n
    BY <2>1, RangesFit DEF EditNumber
  <2>3. ram'[f] = Whole(f, n % Width[f])
    BY <2>1 DEF EditNumber, Edit, IInv, FlashInv
  <2> QED BY <2>2, <2>3
<1> QED BY <1>1, SettingsInvariant, PTL DEF StoredAsTyped


=============================================================================
