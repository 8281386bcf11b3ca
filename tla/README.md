# A TLA+ model of acnode-cl

acnode-cl is the firmware of an access control node: a microcontroller with a card
reader, one button and a relay that gives power to a tool, or opens a door, for the
people the *acserver* lists.  This directory holds TLA+ modules that model the
program, TLC configurations that check them on small instances, and proofs checked
by TLAPS.  Source paths below are relative to the repository's `src/` directory.

## 1. The system

### Components

| Component | State | Operations | Modelled in |
|---|---|---|---|
| **ACNode** (`acnode.cpp`), the access control role | `card_on_reader`, `cardLastSeenTime`, `last_status_checked_at`, `cardAnnounced`, `deactivationAnnounced` | `run()`, called from `loop()` | `ACNode` |
| **Tool** (`tool.cpp`) | `_toolon`, `_turnoff`, `_ontime`, `_start`, `tool_user`, the relay pin; `tool_on_state` and `tool_change_flag`, shared with an interrupt handler | `on`, `off`, `poll`, `begin`, the handler | `Tool`, `ToolRunPin` |
| **Menu** (`menu.cpp`) | `state`, `added_by` | `run(card)`, `reset` | `Menu` |
| **Card** (`card.cpp`) | a UID and the rights last attached to it | comparisons, `is_user`, `is_maintainer`, setters | `Card` |
| **Settings** (`settings.cpp`) | `acsettings` in RAM, a copy in the EEPROM | `get_settings` with the upgrade of older layouts, `set_settings`, `clear_settings` | `SettingsStore`; the status, in `Settings` |
| **Caches** (`ramcache`, `eepromcache`, `sdcache`, `cacheoverlay`, `nocache`) | entries: UID and rights | `get`, `set`, `verify`, `purge`, `each` | `RAMCache`, `EEPromCache`, `SDCache`, `Caches`; abstractly in `ACNode` |
| **MaintainerCacheMaintainer** | the list it compares with | `run` every ten minutes | `Caches`; abstractly in `ACNode` |
| **Acserver client** (`network.cpp`, `ACServer/`), **JSON** (`lib/aJson`) | none | queries and reports, each one HTTP request that may fail; the parser of the answers | `AcServer`, `Json`; what the answers mean to the node, in `ACNode` |
| **main.cpp**, **Watchdog** (`watchdog.cpp`) | `network`, the role, the verify schedule; the time since `feed()` | `setup()`, `loop()`; `begin`, `feed`, `disable`, `enable`, the reset | `AcServer`, `ACNode`; the SD card's part of `setup()`, in `SdCardFile` |
| **Doorbot**, **DoorbotWithAccessControl**, **Door** | `openedAt`, `lastScanned`, `lastDoorbellTime` | `run`, `open`, `maybeClose` | `Doorbot` |
| **SD card file system** (`lib/SD`) | the block that is cached, open files, the table and directory on the card | `begin`, `exists`, `open`, `mkdir`, `remove`, `seek`, `read`, `write`, `close` | `FatVolume`, `FatFile`, `SdCardFile` |
| **Command line** (`cli.cpp`), **line editor** (`microrl.cpp`) | the line, its history | one key at a time; one command per line | `LineEditor`, `History`; the commands, in `SettingsStore`, `Caches` (`nuke`) and `ACNode` |
| **Announcers** (`mqttannouncer`, `broadcastannouncer`), **MQTT client** (`lib/MQTTClient`) | the connection, the keep-alive | `START`, `RFID`, `TOOL_DEACTIVATE`, ...; `run` | `MqttAnnouncer`, `MqttClient`; the waits of `START` in `setup()`, in `AcServer`; when they are called, in `ACNode` and `Doorbot` |
| **Button** (`button.cpp`) | `_state`, `_change_start`, `_press_start` | `poll` | its events, in `Menu` |
| **LED**, utilities, syslog, other libraries | | | not modelled |

### How they interact

There is one thread.  `loop()` takes a character of the command line, calls `run()`
of the role, then the announcer, the maintainer cache and, every half hour, the
cache's `verify()`.  `ACNode::run()` feeds the watchdog, polls the tool, and then
reads the card **once** when the menu is active and **twice** when it is idle; each
read replaces `card_on_reader`, which the cache lookup, the menu and the tool then
use.  Every call into the reader or the server *blocks*, the report that `Tool::off()` makes too, so time passes and cards are
swapped in the middle of `run()`; the watchdog resets the node if a pass takes too
long.  The only other context is the interrupt handler of the run pin.

### What is hard

* **Stale and replaced state.**  `card_on_reader` is overwritten by each read and by
  the cache; "card has changed" means "card is not in the cache"; the status is a
  one-bit field that failed queries are assigned to.
* **Order and time.**  The off delay, the minimum time, the postponed switch-off, the
  ten seconds to swap cards and the 30 seconds between status queries interact.
* **Interruption.**  `poll()` reads what the interrupt handler writes, twice; `off()` waits for the server
  between the relay's pin and `_toolon`.
* **Failure.**  Requests fail, and an answer may end at any character; a connection breaks without
  notice or falls silent; a write to the SD card fails; the node is reset between any two of its waits and
  between any two blocks or words it writes.
* **Limits.**  Two entries too many, a line, a packet or a word too long, and waits that add up
  against the period of the watchdog.

What makes each component correct: *ACNode* switches the tool on only for a card the
server gave the permission, and off when the card has gone; *Tool* keeps its minimum
time, resolves every postponed switch-off, drives the relay as it says and never
records more run time than there was; *Menu* offers the maintainer's items to
maintainers only and shows what is saved; *Settings* survive resets; a *cache* never
holds a right the server did not give; the *file system* keeps table, directory and data together
through resets; the *line editor* shows what it will execute; the *MQTT client* knows whether it has a
session, and its messages arrive in order and once; a *request* returns what the server has said, or
nothing; and the *watchdog* brings the node back without biting in `setup()`.

## 2. The modules

    Card ── Settings
       └──┬───┘
        Tool ── ToolRunPin ────────┐
          │                        │
        ACNode ─────────────── ACNodeProofs
          │ └ AccessPromise (abstract specification)
        Menu

    Card ── RAMCache, EEPromCache, SDCache ── Caches ── CachesProofs
                                                 └ CachePromise (abstract specification)
    Card ── Doorbot ── DoorbotProofs

    SettingsStore ── MCSettings
          └ SettingsProofs

    SDCache ── CardFile (abstract specification) ──┐
    FatVolume ── FatFile ───────────────────── SdCardFile ── MCSdCardFile
                                                   └ SdCardProofs

    History ── LineEditor ── MCLineEditor
                  │ └ LineEditorProofs
               EditorPromise (abstract specification)

    MqttClient ── MqttAnnouncer ── MCMqtt
                       │ └ MqttProofs
                    AnnouncePromise (abstract specification)

    JsonItem ── Json
        └─── AcServer ── MCAcServer (with Json)
                └ AcServerProofs

Where all the constants of a run are model values and numbers there is no `MC` module: the configuration
names the module itself, which states the properties last; the symmetry of `cards` and `menu` is `CardSymmetry` in `Card`.

**Time** is kept as the *age* of a time stamp, in seconds, that a tick advances and
that stops growing once no comparison of the code can tell it from a greater age
(`Older`).  So `millis() - _ontime` is `onAge`; nothing depends on absolute time and
no clock bounds the model.

**`Card`** has the record of `card.cpp`.  A UID with its length is one value.
`ZeroUid` is the UID of `Card()`, what a failed read or lookup returns.

**`Tool`** has `on()`, `off()`, the first half of `poll()`, `begin()`, and the Door that
`setup()` builds on the same pin, `PG_1`, in every role.  `off()` drives the pin (`PowerOff`), waits while the use of the
tool is reported to the server (`offWaits`), and only then clears `_toolon` (`OffReported`); a `poll()` that carries out a
postponed switch-off waits in the same place.  In between time passes and a reset may come, and nothing else is called, as
there is one thread.  `on()` makes its report before it touches anything, so pin and flag change in one step
(`tool.cpp:184`).  `ToolNext` lets any caller use them in any order; `MinOnTime` and its other properties are stated of
that specification.

**`ToolRunPin`** adds the second half: the handler (`ToolRunIsr`), which comes at any point and any number of times,
and `poll()` cut at each access to what they share (`PollBegin`, `PollOff`, `PollFlag`, `PollStarted`,
`PollStopped`), with any time between two calls of it.  `ran` is a history variable, the seconds the tool ran or poll() had a change
to look at; `missed` is another: two changes have run into one `poll()`.

**`Menu`** has `run(card)` with the event the button returned.  A long press on a
status item waits for the server in the middle, so `ACNode` composes it of two steps
(`SendStatus`, `StoreStatus`).

**`ACNode`** composes these.  `pc` is where the program waits; the actions are

| Action | Code |
|---|---|
| `Setup` | `setup()` after `tool.begin()`: the Door on the pin, the status query |
| `Housekeeping`, `PollReport` | `housekeeping()`, with the report of a postponed switch-off, and which half of `run()` comes next |
| `MenuReadCard`, `MenuReadNothing`, `MenuAccess`, `MenuStep`, `SendStatus`, `StoreStatus` | `run()` with the menu active |
| `FirstReadNothing`, `FirstReadCard`, `Deactivate`, `DeactivateOff`, `OffReport` | the first read, that may end the use of the tool |
| `SecondReadNothing`, `SecondReadCard`, `Access`, `RunMenu`, `Activate`, `ActivateOn` | the second, that may begin it |
| `VerifyCard`, `MaintainerListed`, `CliSaves` | the rest of `loop()` |
| `CacheForget`, `ServerEdit`, `Tick`, `Reset` | what happens around the program |

The cache is a function from UIDs to the permission `Cache::get` would find; what the
program does to it is `CacheSet`, `VerifyCard` and `CacheForget`, weak enough for all
three caches.  `granted` is a history variable: the highest permission the server
ever gave to each UID, by which a right in the node is judged.  So is `supervised`: a card that the server has named a
maintainer's was on the reader when the button was pressed, and the reader has not been found empty since, except
while a user is being added.  Every read may find any card or none, whatever the one before it has found.

At its end the module states what the node is to do, and **`AccessPromise`** is the
abstract specification it implements: the tool goes on for one card at a time, one
with the permission, and goes off before it goes on for another.

**`RAMCache`**, **`EEPromCache`** and **`SDCache`** have the entries of the three caches and,
as operators, what `get`, `set`, `purge` and one entry of `verify` do to them.  An entry in RAM
has the time that is left of its life.  In the EEPROM `write_user()` is two steps when it
extends the list, the end marker first (`WriteUser`, `EeFinishWrite`); each single slot is written
at once.  On the SD card `get()` compares a length that it never sets, so whether it finds a
card that is there is left open (`CardHit` or `CardMiss`).

**`Caches`** has the cache `setup()` chooses (`kind`), or the overlay of the EEPROM over the RAM, in
the use the node makes of it.  `job` is the pass the program is in, cut where it waits:

| Action | Code |
|---|---|
| `CardHit`, `CardMiss` | `card_has_access()`: `get`, and after a miss the answer and `set` |
| `FinishWrite` | the second write of `write_user()` |
| `VerifyStart`, `VerifyEntry`, `VerifyEnd` | `verify()` of the cache, of the RAM for the overlay |
| `ListMaintainers`, `EachEntry`, `EachEnd`, `AddMaintainer`, `AddEnd` | `doCheck()`, `onCard()` |
| `Purge`, `Tick`, `Reset` | the command `nuke`; time; a reset, with which the kind may change |

**`CachePromise`** is what the callers rely on: a cache shows of each card nothing or a permission the
server once gave, may show less at any time, and shows more only of the card that is being stored.  It is a promise of *every*
kind of cache at once (`Views`: what `Cache::get` of each would find, the entries on the SD card that are marked invalid
included), so what a cache has kept while another one was in use is covered, and a reset, which may choose another one, has to
leave all of them as they were.  One kind is `Loose`: where `SDCache::set` takes the place of an invalid entry, an older
entry of the card *that* one was for may come to light, as `get()` reads it.  The rest is what the cache of `ACNode` may do too, by `CacheSet`,
`VerifyCard` and `CacheForget`.  Two differences are left: with `Persistent = {2}` a user's entry does not survive a reset in
`ACNode`, but may in an EEPROM that was the only cache before; and an invalid entry that comes to light.  Both show a right that was granted once.

**`Doorbot`** has the relay of `door.cpp` and both door roles, which run the same passes with
different answers opening the door (`Opens`).  `pc` is again where the program waits:
`StartPass`, `ReadCard`, then `UseCached`, `AskServer` or `NoLinkToAsk`, `Announce`, `Bell`, `Release`.  For
these roles a card in the cache is a card whatever its flags, so the cache is the set of cards
it finds.  A call through a null `announcer` is a fault, from which only the watchdog's reset
leads on; the door stays as it is until then.

**`SettingsStore`** has first the seven layouts of the settings, as sets of fields, and the conversion from
each to the next as an operator (`To43` ... `To48`), with every field that the code assigns; `Upgrade` chains
them as the `switch` falls through.  Texts are
abstract values, numbers are numbers.  What is read from the bytes of an older layout as if they were of
the current one (`Misread`) is computed where it can matter: the role, where the new layout
has the upper byte of the old port, and all ones behind the settings of versions 42 and 43.  Anything else is
`Junk`.

The EEPROM (`flash`), `acsettings` (`ram`) and the command line follow.
`set_settings()` writes 32 bit words one at a time in the order of their addresses (`WriteWord`), the version number in the
first.  `Address` and `Bytes` are those of `settings`, so `Span` says which words a field lies in: most texts and numbers
lie across several, and several short fields share one.  A setting is therefore a function from its words to values,
and a reset between two words leaves it of two values (`torn`).  The save that ends a conversion is cut in the same way (`convert`): the EEPROM
then has the new version over words of the old layout, and what the next boot reads behind the cut (`cut`) is the old bytes at the new place,
the settings themselves only where the layouts agree (`InPlace`).  `EditValue`, `EditNumber` and `EditNonsense` are the commands that set a field, with the check
each makes; `Save`, `SaveField`, `Clear` and `StatusAnswer` are the others.  The history variables carry what the
properties are about: `edited`, the fields changed and not saved; `owner`, what each field may be after
a boot, two values when a save was cut; `from`, the version it was made with; `cut` and `torn`.

**`FatVolume`** and **`FatFile`** are the library: each function is an operator from a machine `m` to the
machine it leaves, with the writes it made on the way in `m.log`.  A volume has its layout computed from
the boot block, the allocation table with its mirror, the root directory (a fixed area of FAT16 or
a chain of FAT32) and clusters; one block is cached, and is written when another one is
needed or a file is synchronised.  A block holds a few *units*: entries of the table, directory entries or
records of a file.  A function that goes on only if a call before it succeeded is written in parts
(`Open`, `Searched`, `OpenMade`), each of which takes the machine that the part before it has left.

**`SdCardFile`** puts the calls of `SDCache` on it.  A call computes its writes; then `DeviceWrite`
brings them to the card one by one, and `Reset` may strike before each.  `MayFail` chooses the write of a
call that fails.  `SetupBegin`, `SetupMkDir`, `Get`, `Set`, `Purge`, `VerifyOpen`, `VerifyEntry` and
`VerifyClose` are the calls.  A purge that is cut short may leave an entry whose clusters are free; from there
(`pc = "lost"`) only a card that is formatted anew (`NewCard`) leads on, as the library then grows the file from
the wrong place.  **`CardFile`** is what the cache's user may rely on: `sd`, the entries as the program sees
them, and `file`, those a reset leaves, which may lag behind by whole entries.  `sd` changes by
the operators of `SDCache`, so this ties the cache that `Caches` uses to the blocks of a card.

**`LineEditor`** takes one key at a time: `Type`, `Rubout`, `EraseLine`, `KillLine`, `MoveKey`, `HistoryKey`,
`Escape` and `EscapeProcess` (sequences, which may break off), `Complete` (with the commands of
`cli.cpp`) and `Enter`.  `screen` is one row of a terminal, changed by what the code prints.
**`History`** is the ring of lines, byte by byte.  A blank is kept as 0, as the code does, so the
words of a line are strings of C where they stand.  `Walk` is the way of the searches through the records; a loop
that erases or backspaces several times is one expression.  **`EditorPromise`** is the editor without arrays: a
text, a cursor, a list of lines, and the words that Enter executes.

**`MqttClient`** has the packets byte by byte, and what the client reads of them.  A remaining length is written in groups of
seven bits, in one to four bytes, as closed expressions of its powers of 128 (`Weight`).
The client works over a TCP connection that is closed, open, or broken without the client's notice: what it writes to a broken one
the stack takes whole or not at all (`Taken`), for as long as nobody has noticed.  Its actions are
`SendConnect`, `Wait` (for the CONNACK), `Publish`, `Disconnect`, `Yield`, `Keepalive`, the timers
(`Expire`) and the server (`Serve`).  The operators with parameters `ok` and `fail` are given what the caller does
after a call.  **`MqttAnnouncer`** has `START()` and the other messages, each tried a second time, `run()`, and
resets.  `underway` and `cut` are history variables: the messages on the wire, and that a packet was torn.
**`AnnouncePromise`** says what a listener may rely on: messages are lost or arrive, in order, once and
unchanged, while no packet has been torn on the connection.  A new connection ends what was under way on the one before
(`NewStream`), though neither `disconnect()` (`MQTTClient.h:899`) nor `connect()` (`mqttannouncer.cpp:66`) closes its socket:
that a broker takes a packet of the old connection behind one of the new is ruled out here, and order across connections rests on it.

**`JsonItem`** has the items that `lib/aJson` makes, with the getters the node uses, and **`Json`** the parser,
character by character as it takes them from a stream, with the one character it can put back.  One character may
stand for a longer name (`s` for `numeric_status`).  **`AcServer`** has `setup()` and `loop()` with the requests they
make; the parser is a parameter, `ParserMakes`, as the parser recurs with what it reads and no theorem of this module
depends on how.  `Announce` is the announcer's `START()` over MQTT, with both its tries, their connections of ten seconds, commands to the broker of two, and
feeds (`mqttannouncer.cpp:77`, `:84`, `:125`).  `Role` is a pass of `run()` with the status query, the cards and the menu, and
what each does to the status in RAM and in the EEPROM: the query that is assigned to one bit (`StatusBit`), and the saves of the tool, of
the menu and of the command line, which store whatever RAM has.  A request goes through `Connect`,
`Response` (the status line), `SkipHeaders`, the body, which the server sends a character at a time (`Arrive`), and
`Finish`; `Close` and `Silence` end or stop it at any character, and `Resume` goes on.  Time
passes where the node waits, by the limit the code sets, and `unfed` adds it up for the watchdog (`Bite`), whose hardware is outside the repository.
What the parser makes of each beginning of each answer is computed once, in `Heard`.

A definition whose name begins with `Bug` and that is marked `(mutant)` is not part of
a specification: it is the definition after it with a plausible mistake, kept to show
that the checks notice it.  PROJECT.json says which property fails with which.

## 3. The runs

Constants that only select behaviour (`NetworkFails`, `CacheForgets`, `ServerEdits`, ...)
are explained in `ACNode`.

| Run (cfg) | What it shows |
|---|---|
| `tool` (`MCTool`) | with an active low relay, any caller, the interrupt at any point and `poll()` as late as may be: `RelayFollowsTool`, `MinOnTime`, `RunsAreReal`, and under fairness `PendingOffResolves` |
| `cards` (`MCACNodeCards`) | with two cards, failing requests, a forgetful cache and resets: `GrantedInv`, `KeepsPromise` (refinement of `AccessPromise`), `UsesTool` (refinement of `Tool`), `UserKeepsTool`, `OffStillToAnnounce` |
| `menu` (`MCACNodeMenu`) | with two cards swapped at every read, failing requests and resets, and the whole menu: `MenuAuthority`, `ShownStatusIsSaved`, `PutInService` |
| `live` (`MCACNodeLive`) | under fairness: `OffWithoutCard`, `UserGetsTool` |
| `caches` (`MCCaches`) | all kinds of cache, one changed for another by a reset, three cards in two entries: `ShownRightsGranted`, `OneEntryPerCard`, `MaintainersMirrored`, `KeepsPromise` (refinement of `CachePromise`), `NothingReappears` |
| `doorbot` (`MCDoorbot`) | both door roles: `OpensForKnown`, `HeldOpen`, `AnswersABell`, and under fairness `DoorCloses` |
| `settings` (`MCSettings`) | nodes of every version since 42, and a new board: `SettingsSurvive`, `NeverForgets`, `OnlyEditsUnsaved` |
| `sdcard` (`MCSdCardFile`) | three formats of a small card, with a reset before any write and one write that fails: `VolumeSound`, `ClosedIsDurable`, `NothingLeaks`, `KeepsFilePromise` (refinement of `CardFile`) |
| `line` (`MCLineEditor`) | all keys in any order: `HistoryIsChain`, `ScreenShowsLine`, `KeepsEditorPromise` (refinement of `EditorPromise`) |
| `mqtt` (`MCMqtt`) | three messages over a faulty network: `SessionKnown`, `KeepsAnnouncePromise` (refinement of `AnnouncePromise`), and under fairness `Arrives` |
| `server` (`MCAcServer`) | answers of all forms, whole and cut, late and never: `AnswerWholeOrNone`, `StartsInTime`, `StatusIsAccountedFor`, and under fairness `ComesBack` |

One run ends in a counterexample, to something the documentation says:

| Run | Property | Says | Happens |
|---|---|---|---|
| `failed_check` (`MCACNodeFailedCheck`) | `PutInServiceByMaintainer` | `README.md:385`, "only a maintainer can put a tool in service" | a failed status query is -1, which in the one-bit field is 1 |

`PutInService` of the run `menu` is the same property with this one exception.

### Bounds

* Two cards (`cards`, `menu`) are what it takes for one to be swapped for another, for the
  cache to hold one and not the other, and for one to add the other; a third would play the
  part of one of them in every action.  Cards are interchangeable, so `Permutations(Uids)`
  is a sound symmetry; the runs with liveness use one card and no symmetry.
* The periods are one or two seconds, different where their order matters (`MinOn`
  greater, equal or less than `OffDelay`); ages are capped just above the greatest
  comparison, so no behaviour is cut off.
* `MaxAge` and `RuntimeLimit` in `ToolRunPin` are bounds: runs longer than 4 seconds are not told apart, and the total
  wraps at 5, as the counter does at 2^32.  They allow several runs, short ones among them.
* The runs split what is independent: the button is not pressed in `cards`, the minimum
  time and the off delay are zero in `menu`.  `live` has both.
* In `cards` entries survive a reset (`Persistent` is every level).  With the maintainer
  overlay (`{2}`) a card could leave the cache and be listed again behind the reader's back,
  and `UserKeepsTool`, which excuses a card that is not in the cache *at the switch-off*, is
  not claimed for it.
* In `caches` three cards compete for the one entry in RAM and two slots in the EEPROM, the least with
  which an entry that is overwritten, a last slot and a full list occur; the time to live is one tick.
  `KindGroups` says between which kinds a reset may change: between the SD card and the RAM when the card is put in and
  taken out, and between the EEPROM alone and the overlay over it when the setting `sdcache` is changed without a card.  Changes among all four
  multiply the stores with each other; they are left to the proof (`CachesKeepPromise`).
* In `doorbot` the periods are the least that keep their order, and two cards let one be cached
  and the other not.  The role is one for a whole behaviour: cards cached by the regular door role
  open the door of the other after a change of role, which `OpensForKnown` does not claim to exclude.

* In `settings` one field is edited and not saved at a time, or in doubt since a save was cut, and a node of which a conversion was
  cut saves nothing more (`OneOpen`, `SavedNoMore`).  The fields do not depend on each other, so more of them are
  combinations of these.  Of those that change, `netverbose` and `status` share a byte, and `runtime` lies across two words.  Every word of the
  EEPROM is there, so a save is cut at each place.  Every field of
  the older settings differs from its default, so one that is lost shows.

* In `sdcard` three cards are stored in at most four calls that write, with one reset and one failing write.
  A block holds two entries and a block of the table three, so the file fills a cluster, takes a second
  one and crosses blocks of the table; another file lies in the way, so its chain is not contiguous.  The
  formats are a partitioned FAT16 card, FAT32, and a card with one table and clusters of two blocks.  A write that fails is one of the first
  four of a call.
* In `line` a line has up to four characters and the history five bytes, which is two or three lines; the prompt is one
  character, and a line of two words is already too long for the array.  There is one letter to type,
  and a second one that only completion and the history bring, so a wrong character shows.
* In `mqtt` the longest packet is that of `connect()`, fourteen bytes, and one of three messages does not fit.
  `MaxFaults` counts changes of the network, torn packets and resets: two of them make a fault during the
  recovery from another one.
* In `server` the times are those of the sources, in seconds: 15 for the watchdog, 10 for a
  connection, 3 for the status line and 3 for the headers, 2 for a command to the broker, 2 for a card that does not answer and 60 for DHCP; the parser waits in
  steps of 5.  An answer is one of each form the server could give: a number, no number, a nested
  object, escapes, a list, an empty list, a list with something else in it, no list.  `MaxFaults` is two.
  A verify asks about one card, as one question is like another.

### Fairness

`FairSpec` assumes that the program takes a step when it can (`WF` of `ProgramStep`: `loop()`
is called for ever, and every wait for the reader or the server ends, in an answer or
a time-out) and that time goes on (`WF` of `Tick`).  Nothing is assumed of users, of the server,
of the cache or of resets.  `ToolRunPin` assumes the same of the steps of `poll()`, of the report in `off()` and of the clock.  `Doorbot` has the same two
assumptions, and that the watchdog resets a node that has faulted.  `MqttAnnouncer` assumes that the node goes on with
its calls, announces itself when `START()` has connected, and that the server answers a connection that is
up.  `Arrives` is about a network that has healed (`good`), after which nothing fails any more.  `AcServer`
assumes that the node goes on, the watchdog bites when its time has come, and a connection that is neither closed
nor silent brings the next character or closes; a silent one may stay so for ever.

## 4. The proofs

`ACNodeProofs`, `DoorbotProofs`, `CachesProofs`, `SettingsProofs`, `AcServerProofs`, `MqttProofs`,
`LineEditorProofs` and `SdCardProofs` prove, for every set of UIDs, every value of the periods, every size of the caches, every content of the EEPROM,
every answer of the server, every list of messages, every length of a line and its history, and every layout of a card, from the assumptions on the constants that the modules name
(`ToolAssumption` and the like), and from the hypotheses in the last column:

| Theorem | Says | Under |
|---|---|---|
| `ToolType`, `PendingOffIsCurrent`, `RelayIsRight`, `StaysOnForMinimumTime` | the tool's safety properties, for any caller | |
| `RunPinKeepsToToolSpec`, `RunPinType` | the tool with its interrupt handler implements `ToolSpec`, so inherits these | |
| `RecordedRunsAreReal` | `RunsAreReal` of the tool with its interrupt handler | |
| `NodeType`, `RightsComeFromServer` | `TypeOK`, `GrantedInv` of the node | |
| `NodeKeepsToToolSpec`, `NodeKeepsMinimumTime` | the node implements `ToolSpec`, so inherits `MinOnTime` | |
| `NodeKeepsPromise` | the node implements `AccessPromise` | |
| `SwitchOffIsAnnounced`, `MenuShowsTheTruth` | `OffStillToAnnounce`, `ShownStatusIsSaved` | |
| `MenuNeedsMaintainer`, `ServiceNeedsMaintainer` | `MenuAuthority`, `PutInService` | |
| `ToolIsNotTakenAway` | `UserKeepsTool` | `Persistent # {2}` |
| `DoorType`, `OpensForWhomTheRoleSays` | `DoorbotTypeOK`, `OpensForKnown` of both door roles | |
| `EachGrantHoldsTheDoor`, `BellsAnsweredOnce` | `HeldOpen`, `AnswersABell` | |
| `ShowsOnlyWhatWasGiven` | `ShownRightsGranted` of every kind of cache, whatever kind a reset turns it into | |
| `NoCardTwice`, `NothingComesBack` | `OneEntryPerCard`, `NothingReappears` | |
| `ListIsMirrored` | `MaintainersMirrored` | `IsFiniteSet(Uids)` |
| `CachesKeepPromise` | every kind of cache keeps `CachePromise`, in use or not, and across changes of the kind | `IsFiniteSet(Uids)` |
| `UpgradeKeeps` | the chain of conversions keeps every field but those `LostFrom` names, for all values | |
| `SettingsKept`, `SettingsNotForgotten` | `SettingsSurvive`, `NeverForgets` | |
| `RestIsSaved`, `NumbersFit` | `OnlyEditsUnsaved`, `StoredAsTyped` | |
| `SetupIsNotBitten` | `StartsInTime` | `WaitsFit` |
| `StatusHasASource` | `StatusIsAccountedFor` | `StatusUnderstood` |
| `ConnectedHasSession` | `SessionKnown` | |
| `MessagesKeepOrder` | the announcer implements `AnnouncePromise` | |
| `HistoryStaysChain`, `ScreenIsTrue` | `HistoryIsChain`, `ScreenShowsLine` | |
| `EditorKeepsPromise` | the line editor implements `EditorPromise` | |
| `AllocContiguousDoes`, `FreeChainDoes` | what is allotted was free, and what is freed is one file's | |
| `VolumeInvariant`, `SdCardVolumeSound` | `VolumeSound` before every single write | `SoundFormats` |
| `PlainIsSound` | a card whose files have a cluster each is what `SoundFormats` asks for | |

The hypotheses are facts about the node or its surroundings that the property needs:

* `Persistent # {2}`: not the overlay of the maintainers, where an entry in RAM can be lost and come back from the
  EEPROM while its card lies on the reader.  It holds for the caches on the SD card, in the EEPROM and in RAM.
* `IsFiniteSet(Uids)`: a UID has at most seven bytes.
* `WaitsFit`: a card that does not answer (2 s), a connection with its status line (10 + 3 s), and two commands to the broker
  (2 + 2 s) each take less than the watchdog's period of 15 s.  These are the sources' numbers, and the ones of the run
  `server`.  The headers behind the status line may take another 3 s, which is why `StartsInTime` leaves out what comes behind them (section 6).
* `StatusUnderstood`: of an answer to the question for the status, what the node makes of it is what the server said, or
  nothing.  It is the part of `AnswerWholeOrNone` about that question, a fact about the parser that TLC checks in
  `server`, for its answers and every place where they can end.
* `SoundFormats`: every card has been formatted with FAT16, no two parts of it overlap, its first table has an entry for
  each cluster, and its files have chains of their own that are long enough.  TLC evaluates it, by `PlainIsSound`, on the two cards of
  `sdcard` with FAT16 (`PlainCards`).  FAT32 is left to TLC: there the root directory is itself a chain, and
  its new cluster holds anything until it is cleared (section 5).

In `ACNodeProofs` the inductive invariant is `IInv == TypeOK /\ GrantedInv /\ ToolInv /\ ReaderInv`.
`GrantedInv` is not inductive by itself: at `access` and `menuAccess` the program asks
the server about `cardOnReader.uid` and attaches the answer to it, which keeps the
invariant only because a card was really read, that is `cardOnReader.valid`; `ReaderInv` says so
from the read to that point.  `ToolInv` ties the pending switch-off and the relay to
`toolOn`.  The step of the invariant is proved group of variables by group of variables: for each group a
*frame* lemma names the actions that leave it alone, and a step lemma treats the others.
The refinements are then proved step by step from `IInv`; `UserMayStart` is the heart of
`NodeKeepsPromise`, that a card for which `Tool::on` switches the tool on has the permission
`AccessPromise` asks for.  `SwitchOffIsAnnounced` and `MenuShowsTheTruth` need one more
invariant each, `AnnounceInv` and `MenuInv`, that say which locations can follow which flag and
menu state.  `MenuNeedsMaintainer` has the type invariant and `GrantedInv`: the items for maintainers are opened with a card that has the
rights, and `granted` has them too, so `supervised` holds; an empty read that takes it back resets the menu.
`ToolIsNotTakenAway` has `KeepInv`: a switch-off begins only for a card that is not in the cache (`ChangedCard`), outlives a
pass of `run()` only with a reason that still holds (`PendingOff`), and who is about to become the user has no entry
without a right (`HeldRights`).

For the run pin the invariant is `OwedInv`.  What `stoprunning()` is going to add must be covered by the time the tool
has been running (`Owed`) from the interrupt to the end of `poll()`, which is cut in five; `runtime` alone is not
inductive.  A change that comes while `poll()` looks at the pin counts as missed, but for one that it will see as a start.

In `DoorbotProofs` it is `IInv == DoorbotTypeOK /\ CachedInv /\ LookupInv`.  A card that is found
in the cache opens the door without a question, so `OpensForKnown` needs `CachedInv`: every card
in the cache has had an answer that opens the door in this role.  That no answer and no link never
open it (`OpensIsThreshold`) keeps it so.  `HeldOpen` follows from one invariant more, `GrantInv`: while the
door is open, the time since the last grant and the age of `openedAt` are the same, which is
what a grant that does not set `openedAt` would break.

In `CachesProofs` there are three.  `IInv` says that the flags of every entry are rights its card was given:
of the live entries in RAM, of every slot of the EEPROM that is neither invalid nor the end, *behind* the end of the
list too, of the slot `write_user()` has still to write, of every entry in the file, since `get()` shows invalid ones as
well, and of the cards on the server's list.  `ShownRightsGranted` speaks of the first entry found only, and
would not be kept when that one is removed.  `OnceInv` says of each store that two entries a look-up could find are of
different cards, and of a pending write (`PendingInv`) that it goes to the end of the list, with the end marker behind it
already, and brings a card that is not in the list: so a reset between the two writes leaves the list as it was, and the
second write adds one slot to it.  It rests on `FreeBefore`: the slot that `find_free()` chooses has no end
before it.  `Min` of a set of numbers is one of them (`MinIsIn`) because `<` is well-founded.  `MirrorInv` follows `doCheck()`
through its two passes: behind the entry the first one has come to, the list in the EEPROM holds maintainers of the
server's list that have been seen, each of those once, and in the second nobody else.  That every maintainer of a list that
fits in finds a place is a count of slots (`Cardinality(list) <= EeSize`), the entries being of different cards by `OnceInv`.
The refinement of `CachePromise` is proved action by action from these and from one fact more, that the RAM is empty where it is
not in use (`RamIdle`): every action changes what the stores show of one card only (`GainsAreStored`), but for the SD card, where the
entry that is overwritten may have hidden an older one of its own card.  A reset changes nothing that any of them shows but the RAM's, which
it empties; so it needs no hypothesis about the kind.

In `SettingsProofs` the invariant is `IInv`, of which `WrittenInv` is the heart: in a save, each word of each
field is either still to be written or that of `ram`.  `OnlyEditsUnsaved` follows at the last word.
`SettingsSurvive` needs `SurviveInv` as well, which says what holds at the places the property is silent
about: an older layout is still as its owner left it (`OldInv`), what a boot finds is the owner's, a field across a cut word by
word (`KeptInv`), what a conversion has made of it is too, in `ram`, and beyond the word it has come to in the EEPROM where the layouts agree (`ConvertInv`),
and beyond the word that a save has come to stands one of the owner's values (`SavingInv`).  The step of the boot
cites `UpgradeKeeps`, whose proof has one lemma per conversion.  That the values of a version 42
node fit the fields of version 43, whose node id and status are narrower, is assumed
(`Narrow(e.fields) = e.fields`).

In `AcServerProofs` there are two invariants.  `UnfedInv` bounds the time since `feed()` at each place of `setup()`, with the
phase of the request and the tries of the announcer; `disable()` excuses DHCP, and `StartsInTime` follows where the watchdog is armed.  `AnswerInv` says
that only `setup()` and `is_enabled()` ask for the status, and that a result that
waits to be handled is what the server said to this question, or that there is no answer.  `StatusIsAccountedFor` then is a matter of single steps.

In `MqttProofs` the invariant of `SessionKnown` is `SessionInv`, with two parts that the property lacks.  `CallInv` says that the client does
not count as connected in the middle of `connect()`.  `InboxInv` says of the bytes that wait to be read that a server which
has no session has answered nothing but refusals on this connection (`RefusedOnly`), whole and from whichever
byte the client begins to read: `Yield` and `Wait` take parts of the stream, and a CONNACK that accepts must not be found
across two packets.  It is kept by cutting (`RefusalsLeft`) and by appending, and `RefusalIsRead` reads a refusal
with the client's own decoder.  Below it are the lemmas about lengths and packets; `DecodeEncoded` says that the length
a packet was written with is what the client reads from it, whatever stands behind, for every length of up to four bytes.

For `MessagesKeepOrder` there are two more.  `MessagesInv` ties the message that is being tried to the call that tries it.
`WireInv` says that, unless one was torn, the bytes on the wire are the packets that were sent: there are bounds, counted
from the first byte of the connection, and between any of them and the next stands a packet that was sent, with the message in it the next of
`underway` (`Cuts`).  A bound stays where it is when bytes are appended or taken, so the invariant needs no recursion
over the packets.  `MessageReads` says that the server finds in a PUBLISH the topic and the payload it was made of, and
`PlainReads` that it finds no message in any other packet.  Every step then is one of few: it sends and takes nothing (`Nothing`),
begins a connection (`Anew`), puts the message that is tried behind the others (`OneMore`), or takes the first
(`TakesFirst`); each is a step of `AnnouncePromise`, whose `queue` is `underway` and the message that is being tried.

In `LineEditorProofs` it is `IInv == LineInv /\ Kept(hist) /\ ScreenInv`.  `HistoryIsChain` speaks of the records that the
searches see, and these are defined by a walk that would not end in just any ring.  `Kept` says that there are `n` records at
distances `d[0] < ... < d[n]` from the beginning of the ring, each as far from the next as its length says, and a zero at the
last distance (`Chain`).  Distances do not wrap, so the erasing of `e` records is a shift of `d`
(`ErasedIs`), a saved line is one distance more (`PutIs`), and that records share no byte is that intervals do
not (`KeptIsChain`).  `WalkAlong` says that the walk goes along the chain; as there is no induction over data, it and the
walk's existence are proved by the least number for which they fail (`LeastNat`).  `MadeIs` is why saving comes
to an end: when all records are gone there is room for every line that is stored at all.  Of the terminal the invariant
has the property itself, with `line[LineLen - 1] = 0`, so that every word of the line ends in it (`CStringIs`).  For the
completion this is not enough: the rest of a word must begin inside it, though behind too many words all
commands are offered for no word at all; it is `KeywordsAssumption` that these have no beginning in common (`OfferedIs`).

The refinement of `EditorPromise` needs no more of the invariant, but what each operation makes of the text: a sequence
against arrays that are shifted byte by byte.  `InsertedText` and `ErasedText` say it of the two shifts, for typing and completion and for
backspace and `^U`.  Enter rests on two results.  `RunsAre`: the words `split()` finds, each the string from a
beginning to the next zero of the buffer, are the words of the text, the nth of one being the nth of the other
(`NthIs`, `PlacesAre`); only the last can be longer, and only where a tail lies behind the text (`WordIs`).
`RememberIs`: of the old lines and the new one, the records that `hist_save_line()` leaves are the longest end of the list that
the bytes of the ring have room for.  The promise counts bytes as the elements of a set and the ring measures
distances; `BytesCount` is the bijection between them, and `RoomIs` says that `hist_is_space_for_new()`, which
compares two places of the ring, compares just these.

In `SdCardProofs` the volume is three things: the table (`Tab`), the directory (`Dir`) and a ghost `g` that says of each
cluster that is taken which slot of the directory owns it and at which place of its chain it is (`Chains`).  That chains end and
share nothing is then a statement about single clusters: the entry of a cluster leads to the one with the next rank
and the same owner, or is the end if that was the last (`Leads`).  No step of the proof follows a chain except those
that the program itself walks along, and these loops are functions over a range of numbers, for which the
module proves step by step what the run has come to (`FollowingRun`, `FreeingRun`, ...; `Upwards` goes from number to number).
`VolumeSound` counts the clusters of a chain: `ClustersDoes` finds them by the same walk, which must come to an
end, since two clusters of different rank differ and there are no more than `clusterCount` (`FS_PigeonHole`).

The library keeps one dirty block back, so there are always two volumes: the card, and what it would be if the
block in the cache were written (`View`).  `Steady` says that both are laid out as they should be, and `Trail` that each of the
writes in `log` leads from good contents to good contents (`Good`); `Fit` adds the chains of what the cache shows.
Every function of the library, down to a single block, has a lemma that says what it does to the two volumes and the handles, whether
the writes it makes succeed or fail (`SyncDoes`, `WriteDoes`, `TruncateDoes`, ...); a write that fails may
leave clusters that nobody owns, never an entry without them.  The invariant of the specification, `CardInv`,
carries `Trail` from the moment a call has computed its writes to the last of them, so a reset may come between any two.  The
one exception is `truncate()`, which frees the clusters first: `purged` names the slots whose entry may hang meanwhile
(`Hanging`), only that of the file CACHE, in `purge()` or when a write has failed; after a reset either no
entry hangs and everything begins again from a sound volume (`NotLostGood`), or the card counts as lost.

Only model-checked: the liveness properties (fairness and ENABLED are out of the prover's reach);
`AnswerWholeOrNone`, as the parser is recursive; and of the SD card FAT32, `ClosedIsDurable`, `NothingLeaks` and the
refinement of `CardFile`: `CardInv` says where the records of the cards are, not what they hold, and nothing of clusters without an owner.
`StoredAsTyped`, `TurnOffMeansOn` and the type invariants are proved and no run repeats them.

## 5. Not modelled, and what is left

*Everywhere*: LED colours, logging, the wording on the serial line, URLs, and names and messages that are only
printed.  Time stamps that wrap after 49 days are left out with absolute time.

*Node and menu*: `addNewUser` and the reports of tool use change nothing in the node.  `Menu::run` has its
time-out commented out, against `README.md:327`, so the model has none.  `Button` is modelled by its
events, in any order: `poll()` is called only while a card is on the reader, so how long a button has been
down as the code sees it depends on cards (`button.cpp:31`), and any event may come at any time.

*Caches*: the command `fill`, which stores junk users to try out a full cache, gives rights nobody granted and
is left out with `NoCache`, which `setup()` never chooses; so is what a reset does to a single slot of
the EEPROM while it is written.  A pass of `verify()` over an EEPROM without an end marker reads on behind
it; the model ends it there.

*SD card*: listing, `rmDir`, contiguous files, time stamps, appending and unbuffered reads are never called.
FAT12 is left out, and reads that fail: one that fails for good makes the loops of `get`, `each` and
`verify` endless (`sdcache.cpp:24`), as `available()` stays above zero.  A block of the root directory that has just been added
and not yet cleared when a reset strikes is taken to be cleared (`SdFile.cpp:50`).  The
SPI protocol below `readBlock` and `writeBlock` (`Sd2Card.cpp`) is the device: a block is written
or it is not.

*Line editor*: the options `config.h` switches off.  The row of the terminal does not wrap.  The first
prompt comes late, so the terminal and the editor disagree until then, which `ScreenShowsLine` excuses.
`Tab` on a line of too many words writes before the array (`microrl.cpp`, `tkn_arr[-1]`); from
there only a reset leads on.

*MQTT*: subscriptions, QoS 1 and 2 and the packets a server sends to subscribers; the announcer uses none.  Topics and
payloads are a few bytes; `aJson.print` cuts a payload to 255 characters, which is a payload like
another one.

*Requests and JSON*: strings of 256 characters or more, integers that overflow, and memory that
runs out.  `getObjectItem` on an array compares names that are null.  `HTTP` is taken to give the status line and the
body; the connection is not stopped where a request fails, and the next one begins with a new one.  A body is
read to its end or until the connection is down.  Waits are none or all of their limit.  When `verify()` and the
maintainer cache are due, and which of its requests a pass of `loop()` makes, is left open.  The names of
maintainers are opaque, so the length that `char maintainers[255][15]` allows them is left out.  The watchdog's hardware is outside the repository;
it is taken to reset the node when the period is over and it is enabled.

*Settings*: errors of the EEPROM.

What is left, in order:

1. `Button`: the debouncing against a button that bounces and a poll that is late, shown to return only
   the events `Menu` expects.
2. How long a pass of `loop()` can take against the watchdog, with the periods of what it calls.
3. Proofs: what the records of the file hold (`ClosedIsDurable`, `KeepsFilePromise`), on top of `CardInv`.

## 6. Known deviations

What the code does and a document, a comment or a reader would not expect.  The models do the same; the first
one is shown by `failed_check`, and the others were met while modelling.

* A status query that fails returns -1, which the one-bit field of the settings takes for 1: a tool out of service
  is in service again (`acnode.cpp:168`, `README.md:385`).  The next save of the tool, of the menu or of the command
  line keeps that (`StatusIsAccountedFor` has it among the sources of the status).
* Nobody asks whose card is on the reader while the menu is active.  A user's card that takes the place of a maintainer's without an empty
  read in between finds the item for maintainers open, and a short press selects it (`acnode.cpp:109`), against `README.md:325`, "For users the only menu
  item is to take the tool out of service", and `menu.cpp:113`.  `MenuAuthority` promises the presence of a maintainer since the last empty
  read instead.
* `setup()` builds a Door on the relay's pin in every role (`main.cpp:221`), which drives it LOW: an active low relay gives power to the tool until
  it is first used, against `README.md:304`.  `RelayFollowsTool` states the exception.
* While the menu is active nothing switches off a tool that is taken out of service (`acnode.cpp:106`), against
  `README.md:292`, "the tool will be off".
* `querycard()` returns -1, not -99, for a request that failed, so an outage during `verify()` expires every
  entry in RAM (`ramcache.cpp:127`, against `:131`, "Networking error").
* `SDCache::get` does not look at `invalid`, so a card that `verify()` found "no longer valid"
  (`sdcache.cpp:198`) still gets in.
* A door of version 47 gets the upper byte of its port as its role, and loses its announce port
  (`settings.cpp:386`).
* An answer about the status changes it in RAM only, against `README.md:385`, so after a reset without a
  network the saved one counts again.
* A save writes everything, so `resetruntime` and a change of the status save other edits too, and undo a
  `clear`.  `README.md:382` calls MQTT the default on new installs, where the code has broadcast
  (`settings.cpp:469`); the help promises an off delay up to 3600 seconds, of which three characters
  allow 999.
* In the run time, a start and a stop between two polls look like a stop alone, and a change behind the clearing of the flag is
  looked at with the one before it (`tool.cpp:84`), so time in which the tool stood still is added.  `RunsAreReal` excepts these changes (`missed`).
* At the door, `lastScanned != c` compares the rights too, so a card that is announced after the server's answer
  is announced again when it comes from the cache.
* `verify()` may run while the tool is on, against its comment "quiet times": its count starts again only
  at a check (`main.cpp:350`).
* One failed status query in `setup()` sets `network` to false for good, so the maintainers are never mirrored
  (`main.cpp:280`); the mirror is made only if there is no SD card (`main.cpp:129`).
* One request may wait 10 seconds to connect, 3 for the status line and 3 for the headers (`RealACServer.cpp:61`, `:74`, `:86`), between two feeds of
  `setup()` (`main.cpp:273`, `:295`): longer than the period that `watchdog.cpp:9` chose with the 10 seconds in mind.  `StartsInTime`
  ends there, and `ComesBack` excepts a server that does it at boot after boot.  A pass of `loop()` may make several requests.
* The save that ends a conversion writes the version first (`settings.cpp:493`).  After a reset behind it the node takes the bytes of the old
  layout, or of an erased EEPROM, for settings of the new one, against `settings.h:14`, "to see if we have valid settings".  `SettingsSurvive` claims
  the others (`Mangled`).
* `purge()` that is cut short leaves a directory entry whose clusters are free; from then on the
  cache on the SD card neither empties nor finds its entries, until the card is formatted.
* A kill of the rest of the line (`^K`), and coming back from the history, leave the characters behind the end of the
  line in place, and Enter executes a last word with that tail (`cut` in `EditorPromise`).  A line of
  exactly eight words is refused, though `config.h` says "exceed"; of 34 commands 26 are completed.
* The MQTT client never resets `ping_outstanding` when it connects again, so the first keep-alive of the new
  connection is not sent (`MQTTClient.h:592`, against `:177`); a packet that is torn leaves the client connected, and the
  packets after it are garbled; a message longer than the buffer is never sent and nobody notices.
* The JSON parser has no limit to its wait for a character, so a server that falls silent costs a reset.
