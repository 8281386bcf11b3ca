--------------------------- MODULE SettingsStore ---------------------------
(***************************************************************************)
(* The settings of a node: what is in the EEPROM, what the program has     *)
(* loaded and the command line has edited, and the saves that write it     *)
(* back word by word, which a reset may cut (settings.cpp, cli.cpp).  A    *)
(* setting is a function from the words of the EEPROM it lies in to the    *)
(* values they are of, so that a setting may be of two values.  A node     *)
(* begins with what a program of any version has left, where nothing is    *)
(* torn; the layouts of the settings, from version 42 to 48 (settings.h),  *)
(* and how get_settings() converts the older ones come first.  Texts are   *)
(* abstract values, numbers are numbers.                                   *)
(***************************************************************************)
EXTENDS Integers

CONSTANTS
  FactoryText, \* the text that the program gives a setting
  NoText,      \* the empty text
  Junk,        \* what bytes of another layout, or never written, amount to
  Left,        \* what is left in the EEPROM: records of `valid' and `fields'
  Choices,     \* fields that get a text or one of two values, with these
  EditNumbers, \* fields that get a number
  Typed        \* the numbers that are typed

V42 == {"mac", "servername", "port", "nodeid", "status", "syslogserver", "toolname",
        "runtime", "minontime"}

V43 == V42 \union {"sdcache", "netverbose", "toolonpin_activehigh", "toolrunpin_activehigh"}

V44 == V43 \union {"secret", "role", "announce_port"}

V45 == V44 \union {"announce_mode", "mqtt_server", "mqtt_port", "mqtt_topic_base",
                   "door_keep_open_ms", "doorbell_mode"}

V46 == V45 \union {"maintainer_cache"}

V47 == V46 \union {"invert_colours"}

V48 == V47 \union {"off_delay"}

Layout(version) ==
  CASE version = 42 -> V42 [] version = 43 -> V43 [] version = 44 -> V44
    [] version = 45 -> V45 [] version = 46 -> V46 [] version = 47 -> V47
    [] OTHER -> V48

\* The fields of s that are copied, and those that are new.
Convert(s, copied, added) ==
  [f \in copied \union DOMAIN added |-> IF f \in copied THEN s[f] ELSE added[f]]

\* The node id becomes 16 bits wide, and the status one.
Narrow(s) ==
  [f \in DOMAIN s |-> CASE f = "nodeid" -> s[f] % 65536 [] f = "status" -> s[f] % 2 [] OTHER -> s[f]]

To43(s) ==
  Convert(Narrow(s), V42 \ {"minontime"},
          [minontime |-> 5, sdcache |-> 0, netverbose |-> 1,
           toolonpin_activehigh |-> 1, toolrunpin_activehigh |-> 0])

\* From here to version 47 the role and the announcer's port are not assigned.
NotCopied == {"role", "announce_port"}

To44(s) == Convert(s, V43, [secret |-> NoText])

To45(s) ==
  Convert(s, V44 \ NotCopied,
          [mqtt_server |-> FactoryText, mqtt_port |-> 1883, mqtt_topic_base |-> FactoryText,
           door_keep_open_ms |-> 1500, announce_mode |-> 2, doorbell_mode |-> 0])

\* (mutant) The name of the MQTT server is not copied from version 45.
BugTo46(s) ==
  Convert(s, V45 \ (NotCopied \union {"mqtt_server"}),
          [maintainer_cache |-> 0, mqtt_server |-> FactoryText])

To46(s) == Convert(s, V45 \ NotCopied, [maintainer_cache |-> 0])

To47(s) == Convert(s, V46 \ NotCopied, [invert_colours |-> 1])

\* The last step goes to acsettings, into which the old bytes were read as if
\* they had the new layout; what is not assigned stays.
To48(s, bytes) ==
  Convert(s, V47 \ NotCopied,
          [off_delay |-> 1, role |-> bytes.role, announce_port |-> bytes.announce_port])

\* The bytes where the new layout has the role and the port.  off_delay moved
\* them by two, so the role is the upper byte of the old port; before version
\* 44 both lie behind the settings, where the EEPROM is erased.
Misread(version, s) ==
  IF version >= 44
  THEN [role |-> s["announce_port"] \div 256, announce_port |-> Junk]
  ELSE [role |-> 255, announce_port |-> 65535]

\* The cases of the switch fall through, from the version that was found.
Upgrade(version, s) ==
  LET s43 == IF version = 42 THEN To43(s) ELSE s
      s44 == IF version <= 43 THEN To44(s43) ELSE s43
      s45 == IF version <= 44 THEN To45(s44) ELSE s44
      s46 == IF version <= 45 THEN To46(s45) ELSE s45
      s47 == IF version <= 46 THEN To47(s46) ELSE s46
  IN  To48(s47, Misread(version, s))

FactoryTexts ==
  [f \in {"mac", "servername", "syslogserver", "toolname", "mqtt_server", "mqtt_topic_base"} |->
     FactoryText]

FactoryNumbers ==
  [nodeid |-> 65535, port |-> 1234, status |-> 0, runtime |-> 0, sdcache |-> 1, minontime |-> 5,
   off_delay |-> 1, netverbose |-> 1, toolonpin_activehigh |-> 1, toolrunpin_activehigh |-> 0,
   invert_colours |-> 1, secret |-> NoText, role |-> 0, announce_port |-> 0, mqtt_port |-> 1883,
   door_keep_open_ms |-> 1500, announce_mode |-> 1, doorbell_mode |-> 0, maintainer_cache |-> 0]

\* The settings of a new board.
Defaults == Convert(FactoryTexts, DOMAIN FactoryTexts, FactoryNumbers)

-----------------------------------------------------------------------------

ASSUME SettingsAssumption ==
  /\ \A e \in Left : /\ e.valid \in Nat
                     /\ DOMAIN e.fields = IF e.valid \in 42 .. 48 THEN Layout(e.valid) ELSE {}
                     /\ e.valid = 42 => Narrow(e.fields) = e.fields
  /\ DOMAIN Choices \subseteq V48 /\ EditNumbers \subseteq V48
  /\ Typed \subseteq Int

VARIABLES
  flash,    \* the EEPROM: the version byte, and the fields; of an older version, its own
  ram,      \* acsettings
  pc,       \* "boot", "convert", a save in get_settings(), "save" or "loop"
  at,       \* the word that a save has come to
  edited,   \* history: the fields that differ in the program from what was saved
  owner,    \* history: what each field may be after a boot, by what was saved
  from,     \* history: the version that the owner's settings were made with
  cut,      \* history: the words a conversion had written when it was cut
  torn      \* history: the fields in whose middle a save was cut

history == <<edited, owner, from, cut, torn>>

vars == <<flash, ram, pc, at, history>>

ACSETTINGSVALID == 48

\* The first byte of each field, and their number.
Address ==
  [mac |-> 1, servername |-> 7, port |-> 48, nodeid |-> 50, status |-> 52, sdcache |-> 52,
   netverbose |-> 52, toolonpin_activehigh |-> 52, toolrunpin_activehigh |-> 52,
   maintainer_cache |-> 52, invert_colours |-> 52, syslogserver |-> 53, toolname |-> 94,
   runtime |-> 110, minontime |-> 114, off_delay |-> 115, secret |-> 117, role |-> 126,
   announce_port |-> 127, announce_mode |-> 129, mqtt_server |-> 130, mqtt_port |-> 171,
   mqtt_topic_base |-> 173, door_keep_open_ms |-> 205, doorbell_mode |-> 207]

Bytes(f) ==
  CASE f = "mac" -> 6 [] f \in {"servername", "syslogserver", "mqtt_server"} -> 41
    [] f = "toolname" -> 16 [] f = "mqtt_topic_base" -> 32 [] f = "secret" -> 9
    [] f = "runtime" -> 4
    [] f \in {"port", "nodeid", "off_delay", "announce_port", "mqtt_port", "door_keep_open_ms"} -> 2
    [] OTHER -> 1

Size == 52   \* words

\* The words a field lies in.
Span(f) == (Address[f] \div 4) .. ((Address[f] + Bytes(f) - 1) \div 4)

\* The fields that lie across the beginning of a word.
Across(word) == {f \in V48 : {word - 1, word} \subseteq Span(f)}

Whole(f, v) == [w \in Span(f) |-> v]

\* The fields that an older layout has where the new one has them.
InPlace(version) ==
  CASE version = 42 -> {f \in V42 : Address[f] < Address["nodeid"]}
    [] version \in 43 .. 47 -> {f \in Layout(version) : Address[f] < Address["off_delay"]}
    [] OTHER -> V48

\* What the EEPROM amounts to if it is read with the new layout.
Stored ==
  IF DOMAIN flash.fields = V48 THEN flash.fields
  ELSE [f \in V48 |-> Whole(f, IF f \in DOMAIN flash.fields \cap InPlace(flash.valid)
                              THEN flash.fields[f] ELSE Junk)]

TypeOK ==
  /\ flash.valid \in Nat /\ DOMAIN flash.fields \subseteq V48
  /\ DOMAIN ram = V48
  /\ pc \in {"boot", "convert", "save", "loop"}
  /\ at \in 0 .. Size - 1
  /\ edited \subseteq V48 /\ torn \subseteq V48
  /\ DOMAIN owner \subseteq V48
  /\ cut \in 0 .. Size

Nothing == [f \in {} |-> Junk]

AllWhole(s) == [f \in V48 |-> Whole(f, s[f])]

Init ==
  /\ \E e \in Left :
       flash = [valid |-> e.valid,
                fields |-> IF e.valid = ACSETTINGSVALID THEN AllWhole(e.fields) ELSE e.fields]
  /\ ram = AllWhole(Defaults)
  /\ pc = "boot"
  /\ at = 0
  /\ edited = {}
  /\ owner = IF flash.valid = ACSETTINGSVALID THEN [f \in V48 |-> {flash.fields[f]}]
             ELSE IF flash.valid \in 42 .. 47
             THEN [f \in DOMAIN flash.fields |-> {Whole(f, flash.fields[f])}]
             ELSE Nothing
  /\ from = flash.valid
  /\ cut = Size
  /\ torn = {}

-----------------------------------------------------------------------------

\* (mutant) A conversion is not saved.
BugGetSettings ==
  /\ pc = "boot"
  /\ ram' = (IF flash.valid = ACSETTINGSVALID THEN flash.fields
             ELSE AllWhole(IF flash.valid \in 42 .. 47
                           THEN Upgrade(flash.valid, flash.fields) ELSE Defaults))
  /\ pc' = "loop"
  /\ UNCHANGED <<flash, at, history>>

\* get_settings(): anything but the current version is converted, or replaced
\* by the defaults, and saved.
GetSettings ==
  /\ pc = "boot"
  /\ IF flash.valid = ACSETTINGSVALID
     THEN ram' = flash.fields /\ pc' = "loop"
     ELSE /\ ram' = AllWhole(IF flash.valid \in 42 .. 47
                             THEN Upgrade(flash.valid, flash.fields) ELSE Defaults)
          /\ pc' = "convert"
  /\ owner' = IF flash.valid \in 42 .. ACSETTINGSVALID THEN owner ELSE Nothing
  /\ UNCHANGED <<flash, at, edited, from, cut, torn>>

Writing == pc \in {"convert", "save"}

\* The fields when the next word is written.
OneWord ==
  [f \in V48 |-> [w \in Span(f) |-> IF w = at THEN ram[f][w] ELSE Stored[f][w]]]

\* (mutant) The version goes last, after the settings it is for.
BugWriteWord ==
  /\ Writing /\ at < Size - 1
  /\ flash' = [valid |-> 0, fields |-> OneWord]
  /\ at' = at + 1
  /\ UNCHANGED <<ram, pc, history>>

\* EEPROMProgram(): the first word has the version.
WriteWord ==
  /\ Writing /\ at < Size - 1
  /\ flash' = [valid |-> ACSETTINGSVALID, fields |-> OneWord]
  /\ at' = at + 1
  /\ UNCHANGED <<ram, pc, history>>

LastWord ==
  /\ Writing /\ at = Size - 1
  /\ flash' = [valid |-> ACSETTINGSVALID, fields |-> OneWord]
  /\ at' = 0
  /\ pc' = "loop"
  /\ edited' = {}
  /\ IF pc = "save"
     THEN owner' = [f \in V48 |-> {ram[f]}] /\ from' = ACSETTINGSVALID /\ cut' = Size /\ torn' = {}
     ELSE UNCHANGED <<owner, from, cut, torn>>
  /\ UNCHANGED ram

\* set_settings(), called in the loop.
SetSettings(settings) ==
  /\ pc' = "save"
  /\ owner' = [f \in V48 |-> (IF f \in DOMAIN owner THEN owner[f] ELSE {flash.fields[f]})
                               \union {settings[f]}]
  /\ UNCHANGED <<flash, at, from, cut, torn>>

-----------------------------------------------------------------------------

Edit(f, v) ==
  /\ ram' = [ram EXCEPT ![f] = Whole(f, v)]
  /\ edited' = edited \union {f}
  /\ UNCHANGED <<flash, pc, at, owner, from, cut, torn>>

\* The commands that set a text, which are refused one that is too long, or
\* that toggle a setting or choose one of two values.
EditValue(f, v) == pc = "loop" /\ Edit(f, v)

Ports == 1 .. 65535

NodeIds == -99 .. 999

Delays == 0 .. 3600   \* in seconds

Milliseconds == 0 .. 65535

\* What a command accepts: the number of characters, if it looks at them, and
\* the range.
Bounds ==
  [port |-> [chars |-> 5, range |-> Ports],
   nodeid |-> [chars |-> 3, range |-> NodeIds],
   minontime |-> [chars |-> 3, range |-> 0 .. 254],
   off_delay |-> [chars |-> 3, range |-> Delays],
   announce_port |-> [chars |-> 5, range |-> Ports],
   mqtt_port |-> [chars |-> 5, range |-> Ports],
   role |-> [chars |-> 99, range |-> 0 .. 3],
   announce_mode |-> [chars |-> 99, range |-> 0 .. 3],
   door_keep_open_ms |-> [chars |-> 99, range |-> Milliseconds]]

ASSUME NumbersAssumption == EditNumbers \subseteq DOMAIN Bounds

Width == [f \in DOMAIN Bounds |-> IF f \in {"minontime", "role", "announce_mode"} THEN 256 ELSE 65536]

Chars(n) ==
  CASE n < 0 -> (IF n > -10 THEN 2 ELSE IF n > -100 THEN 3 ELSE 4)
    [] n < 10 -> 1 [] n < 100 -> 2 [] n < 1000 -> 3 [] n < 10000 -> 4 [] n < 100000 -> 5
    [] OTHER -> 6

Accepts(f, n) == Chars(n) <= Bounds[f].chars /\ n \in Bounds[f].range

EditNumber(f, n) ==
  /\ pc = "loop"
  /\ Accepts(f, n)
  /\ Edit(f, n % Width[f])

\* atoi() takes what is not a number for zero.
EditNonsense(f) ==
  /\ pc = "loop"
  /\ f \in {"role", "announce_mode", "door_keep_open_ms"}
  /\ Edit(f, 0)

Save == pc = "loop" /\ SetSettings(ram) /\ UNCHANGED <<ram, edited>>

\* resetruntime, the menu and setup() save the status, the tool its run time;
\* with it they save what was edited.
SaveField(f, v) ==
  /\ pc = "loop"
  /\ ram' = [ram EXCEPT ![f] = Whole(f, v)]
  /\ edited' = edited \union {f}
  /\ SetSettings(ram')

\* is_enabled() keeps the answer in RAM.
StatusAnswer(v) == pc = "loop" /\ Edit("status", v)

\* clear: the first word is zero, and with it three bytes of `mac'.
Clear ==
  /\ pc = "loop"
  /\ flash' = [valid |-> 0, fields |-> [flash.fields EXCEPT !["mac"][0] = Junk]]
  /\ edited' = edited \union {"mac"}
  /\ owner' = Nothing /\ from' = 0 /\ torn' = {}
  /\ UNCHANGED <<ram, pc, at, cut>>

Reset ==
  /\ pc' = "boot" /\ at' = 0
  /\ cut' = IF pc = "convert" /\ at > 0 THEN at ELSE cut
  /\ torn' = IF pc = "save" THEN torn \union (Across(at) \cap edited) ELSE torn
  /\ edited' = {}
  /\ ram' = AllWhole(Defaults)   \* whatever it was, until it is loaded
  /\ UNCHANGED <<flash, owner, from>>

Next ==
  \/ GetSettings \/ WriteWord \/ LastWord
  \/ \E f \in DOMAIN Choices : \E v \in Choices[f] : EditValue(f, v)
  \/ \E f \in EditNumbers : EditNonsense(f) \/ \E n \in Typed : EditNumber(f, n)
  \/ Save \/ SaveField("runtime", 0)
  \/ \E v \in {0, 1} : SaveField("status", v) \/ StatusAnswer(v)
  \/ Clear
  \/ Reset

Spec == Init /\ [][Next]_vars

-----------------------------------------------------------------------------

\* What the conversion of the version `from' loses, by its own bytes.
Lost ==
  CASE from = 42 -> {"minontime"} [] from \in 44 .. 47 -> {"role", "announce_port"} [] OTHER -> {}

\* What a conversion that was cut may have made of the settings: those that
\* the new layout has elsewhere are read where the old one had other bytes.
Mangled == {f \in V48 \ InPlace(from) : ~(Span(f) \subseteq 0 .. cut - 1)}

Kept(f) == f \in DOMAIN owner /\ f \notin Lost \union Mangled

\* A value that is one of the owner's, or of two of them if it is torn.
IsOwners(f, value) ==
  IF f \in torn THEN \A w \in Span(f) : \E o \in owner[f] : value[w] = o[w]
  ELSE value \in owner[f]

(***************************************************************************)
(* What was saved, by whatever version, is what the node has after every   *)
(* boot, except what was edited since: through the whole chain of          *)
(* conversions, and when resets cut saves between any two words.  Each     *)
(* setting is then the old or the new one; only one that was edited and    *)
(* lies across the cut is torn, each word being of the old or the new one. *)
(* When a reset cuts a conversion the settings beyond the cut survive only *)
(* where the two layouts agree.  Not claimed are the settings that a       *)
(* conversion loses.                                                       *)
(***************************************************************************)
SettingsSurvive ==
  pc \in {"loop", "save"} => \A f \in V48 \ edited : Kept(f) => IsOwners(f, ram[f])

(***************************************************************************)
(* A node that has settings never goes back to the defaults, whenever it   *)
(* is reset; and only `clear' makes it forget them.                        *)
(***************************************************************************)
NeverForgets == from \in 42 .. ACSETTINGSVALID => flash.valid \in 42 .. ACSETTINGSVALID

(***************************************************************************)
(* In the loop the node has what the EEPROM has, but for what was edited   *)
(* and not saved, unless it was cleared: a boot that had to convert has    *)
(* saved the result.                                                       *)
(***************************************************************************)
OnlyEditsUnsaved ==
  pc = "loop" =>
    /\ flash.valid \in {0, ACSETTINGSVALID}
    /\ \A f \in V48 \ edited : ram[f] = flash.fields[f]

(***************************************************************************)
(* A number that a command accepts is stored as it was typed, in a field   *)
(* that is as wide as the command thinks.  A negative node id is accepted  *)
(* and is not.                                                             *)
(***************************************************************************)
StoredAsTyped ==
  [][\A f \in EditNumbers, n \in Typed :
       n >= 0 /\ EditNumber(f, n) => ram'[f] = Whole(f, n)]_vars

=============================================================================
