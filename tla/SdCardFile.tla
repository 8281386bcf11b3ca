----------------------------- MODULE SdCardFile -----------------------------
(***************************************************************************)
(* The cache on the SD card with the file system below it: setup() that    *)
(* starts the library and makes its directory (main.cpp), the calls of     *)
(* SDCache (sdcache.cpp), SD.h's files (SD.cpp, File.cpp) and the blocks   *)
(* they write.  A call computes its writes in order; then each reaches the *)
(* card in a step of its own, and a reset may strike before any of them.   *)
(* One of the writes of a call may fail.                                   *)
(***************************************************************************)
EXTENDS CardFile, FatFile

CONSTANTS
  Formats,      \* the cards a maintainer may have formatted: a sequence of disk contents
  Stored,       \* the cards and rights that answers bring
  MaxCalls,     \* bound: calls that write
  MaxResets,    \* bound: resets
  MaxFaults,    \* bound: calls of which a write fails
  Failing       \* the write of a call that fails, if one does: 1 is the first

ASSUME FormatsAssumption ==
  \A i \in DOMAIN Formats :
    Formats[i][VolumeStart(Formats[i])][0].bpb \in BiosParmBlock

ASSUME FailingAssumption == Failing \subseteq Nat \ {0}

VARIABLES
  disk,         \* what the card holds
  m,            \* the library's state; m.disk is disk with the writes below
  pending,      \* the writes of the last call that are still to be made
  pc,           \* "off", "begun", "idle", "verify", or "lost"
  op,           \* the last call
  calls,        \* set(), purge() and verify() so far
  resets, faults

vars == <<sd, file, disk, m, pending, pc, op, calls, resets, faults>>

Machine(d) ==
  [disk |-> d, log |-> <<>>, left |-> 0, ok |-> TRUE, val |-> 0, got |-> 0, unit |-> FreeEntry,
   blk |-> NoBlock, buf |-> [u \in {} |-> Junk], dirty |-> FALSE, mirror |-> 0,
   start |-> 2, vol |-> NoVolume, f |-> Closed, d |-> Closed]

\* What is left of a call's machine when it has returned: of an entry, only
\* the one that verify() holds.
\* The next open() rewinds the directory.
Settled(w) == [Rewind(w, "d") EXCEPT !.log = <<>>, !.left = 0, !.ok = TRUE, !.val = 0,
                                     !.got = 0,
                                     !.unit = IF IsOpen(w.f) THEN @ ELSE FreeEntry]

\* SD.begin(): the volume and its root directory.
Begin(w) ==
  LET start == VolumeStart(w.disk)
  IN  OpenRoot([w EXCEPT !.blk = start, !.buf = w.disk[start],
                         !.vol = Layout(w.disk[start][0].bpb, start)])

\* SD.exists(), on a path of one component.
FoundOrNot(o) ==
  LET c == IF o.ok THEN Close(o, "f") ELSE o
  IN  [c EXCEPT !.val = o.ok, !.ok = TRUE, !.f.type = "closed"]

Exists(w, name) == FoundOrNot(Open(w, name, {"read"}))

\* SD.open(): for writing, the position is the end of the file.  A file that
\* cannot be opened is an empty one.
FileOf(o, flags) ==
  LET s == IF "write" \in flags THEN SeekSet(o, "f", o.f.size) ELSE o
  IN  IF o.ok THEN [s EXCEPT !.ok = TRUE] ELSE [o EXCEPT !.ok = TRUE, !.f = Closed]

SdOpen(w, name, flags) == FileOf(Open(w, name, flags), flags)

\* File::close(): whatever the file system says, the handle is gone.
FileClose(w) ==
  IF IsOpen(w.f) THEN [Close(w, "f") EXCEPT !.ok = TRUE, !.f = Closed] ELSE w

Ignore(w) == [w EXCEPT !.ok = TRUE]

Available(w) == IF IsOpen(w.f) THEN w.f.size - w.f.pos ELSE 0

\* SD.mkdir() and SD.remove(): nobody looks at what they return.
MadeDir(e, name) == [Ignore(IF e.val THEN e ELSE MakeDir(e, name)) EXCEPT !.f = Closed]

MkDir(w, name) == MadeDir(Exists(w, name), name)

\* (mutant) The entry is marked before the clusters are freed and the file
\* closed: they stay allocated.
BugSdRemove(w, name) ==
  LET o == Open(w, name, {"write"})
      x == CacheDirEntry(o, "f", TRUE)
  IN  [Ignore(IF o.ok THEN CacheFlush([x EXCEPT !.buf[x.f.dirIndex].name = "DELETED"]) ELSE o)
         EXCEPT !.f = Closed]

\* What SD.remove() does with the file it has opened.
Unlinked(o) == [Ignore(IF o.ok THEN Remove(o) ELSE o) EXCEPT !.f = Closed]

SdRemove(w, name) == Unlinked(Open(w, name, {"write"}))

-----------------------------------------------------------------------------
\* The loops of SDCache on the open file.

\* Each reads on from entry to entry; a read that fails is made again, and
\* there is one call that fails at most.
Tries(w) == Available(w) + 1

\* An entry that get() looks at.
SoughtIn(s, uid) ==
  LET r == Read(s.at, "f")
  IN  IF s.done \/ Available(s.at) = 0 THEN s
      ELSE IF r.ok /\ r.unit.uid = uid
      THEN [at |-> [r EXCEPT !.val = SdCard(r.unit)], done |-> TRUE]
      ELSE [s EXCEPT !.at = Ignore(r)]

\* get(): up to the entry of the card.
FindCard(w, uid) ==
  LET sought[n \in 0 .. Tries(w)] ==
        IF n = 0 THEN [at |-> w, done |-> FALSE] ELSE SoughtIn(sought[n - 1], uid)
      s == sought[Tries(w)]
  IN  IF s.done THEN s.at ELSE [s.at EXCEPT !.val = NullCard]

LookedUp(e, uid) ==
  IF e.val THEN FileClose(FindCard(SdOpen(e, "CACHE", {"read"}), uid)) ELSE e

SdGet(w, uid) == LookedUp(Exists(w, "CACHE"), uid)

\* An entry that set() looks at: whether it is the card's, or the first that
\* is invalid.
Passed(s, new) ==
  LET r == Read(s.at, "f")
  IN  IF s.own \/ Available(s.at) = 0 THEN s
      ELSE IF ~r.ok THEN [s EXCEPT !.at = Ignore(r)]
      ELSE [at |-> r, own |-> ~r.unit.invalid /\ r.unit.uid = new.uid,
            spare |-> IF r.unit.invalid /\ s.spare = -1 THEN r.f.pos - 1 ELSE s.spare]

\* set(): the card's valid entry is updated if it differs, or the first
\* invalid entry is taken, or the file grows.
PlaceCard(w, new) ==
  LET passed[n \in 0 .. Tries(w)] ==
        IF n = 0 THEN [at |-> w, own |-> FALSE, spare |-> -1]
        ELSE Passed(passed[n - 1], new)
      s == passed[Tries(w)]
  IN  IF s.own
      THEN IF s.at.unit = new THEN s.at ELSE Write(Ignore(SeekSet(s.at, "f", s.at.f.pos - 1)), new)
      ELSE Write(IF s.spare >= 0 THEN Ignore(SeekSet(s.at, "f", s.spare)) ELSE s.at, new)

\* (mutant) The file is left open: neither the block nor the size is written.
BugSetCard(w, new) ==
  LET o == SdOpen(w, "CACHE", {"read", "write", "creat"})
  IN  [PlaceCard(Ignore(SeekSet(o, "f", 0)), new) EXCEPT !.f = Closed, !.ok = TRUE, !.val = TRUE]

SetDone(p) == [FileClose(Ignore(p)) EXCEPT !.val = p.ok]

SetCard(w, new) ==
  LET o == SdOpen(w, "CACHE", {"read", "write", "creat"})
  IN  SetDone(PlaceCard(Ignore(SeekSet(o, "f", 0)), new))

\* verify(), one entry: the answer is marked in it.  After a read that fails
\* the entry before it is asked for, and written, a second time.
VerifyRecord(w, answer) ==
  LET r == Read(w, "f")
      u == IF r.ok THEN r.unit ELSE w.unit
      new == CASE answer = 0 -> [u EXCEPT !.invalid = TRUE]
               [] answer = 2 -> [u EXCEPT !.maintainer = TRUE]
               [] answer = 1 -> [u EXCEPT !.maintainer = FALSE]
               [] OTHER -> u
      x == Ignore(Write(Ignore(SeekSet(Ignore(r), "f", r.f.pos - 1)), new))
  IN  [IF u.invalid \/ new = u THEN Ignore(r) ELSE x
         EXCEPT !.unit = IF u.invalid THEN u ELSE new]

-----------------------------------------------------------------------------
\* The entries of the file CACHE, as a program finds them that opens it.
Listed(s) ==
  LET r == Read(s.at, "f")
  IN  IF Available(s.at) = 0 \/ ~r.ok THEN s ELSE [at |-> r, list |-> Append(s.list, r.unit)]

RestOf(w) ==
  LET listed[n \in 0 .. Available(w)] ==
        IF n = 0 THEN [at |-> w, list |-> <<>>] ELSE Listed(listed[n - 1])
  IN  listed[Available(w)].list

Seen(w) == RestOf(SdOpen([w EXCEPT !.f = Closed], "CACHE", {"read"}))

\* The table of a card, its directory and the chain of a cluster.
Fresh(d) == Begin(Machine(d))
Fat(w, c) == w.disk[FatBlock(w, c)][c % FatPerBlock]

\* The entry of a cluster; what is no cluster is the end of a chain.
Behind(w, c) == IF c \in 2 .. FatEnd(w) THEN Fat(w, c) ELSE c

\* The clusters of the chain that begins with `first', or 0 if it never ends.
Clusters(w, first) ==
  LET link[n \in 0 .. w.vol.clusterCount] == IF n = 0 THEN first ELSE Behind(w, link[n - 1])
      chain == {link[n] : n \in 0 .. w.vol.clusterCount}
  IN  IF first = 0 THEN {} ELSE IF \E c \in chain : IsEOC(c) THEN {c \in chain : ~IsEOC(c)} ELSE {0}

RootBlocks(w) ==
  IF w.vol.fatType = 16
  THEN {w.vol.rootStart + i : i \in 0 .. (w.vol.rootEntries \div UnitsPerBlock) - 1}
  ELSE UNION {{ClusterStartBlock(w, c) + i : i \in 0 .. w.vol.blocksPerCluster - 1}
              : c \in Clusters(w, w.vol.rootStart)}

Entries(w) == {e \in UNION {Range(w.disk[b]) : b \in RootBlocks(w)} :
                 e.name \notin {"FREE", "DELETED"}}

\* An entry whose first cluster has been freed.
Dangles(w, e) == e.first # 0 /\ Fat(w, e.first) = 0

Lost(w) == \E e \in Entries(w) : Dangles(w, e)

CardFileLost(d) == Lost(Fresh(d))

OnCard(d) == LET w == Fresh(d) IN IF Lost(w) THEN <<>> ELSE Seen(w)

-----------------------------------------------------------------------------
Init ==
  /\ \E i \in DOMAIN Formats : disk = Formats[i]
  /\ m = Machine(disk)
  /\ pending = <<>> /\ pc = "off" /\ op = "none"
  /\ calls = 0 /\ resets = 0 /\ faults = 0
  /\ sd = <<>> /\ file = <<>>

\* A call that leaves machine w, of which write number `left' fails if that
\* is not 0.
Failed(w, left) == left # 0 /\ w.left = 0

Returns(w, name, left) ==
  /\ pending' = w.log
  /\ m' = Settled(w)
  /\ op' = name
  /\ calls' = IF op' \in {"set", "purge", "open"} THEN calls + 1 ELSE calls
  /\ faults' = IF Failed(w, left) THEN faults + 1 ELSE faults
  /\ UNCHANGED <<disk, file, resets>>

MayFail == IF faults < MaxFaults THEN {0} \union Failing ELSE {0}

\* After a call that went wrong the cache is what the file shows.
After(w, wrong, effect) == IF wrong THEN sd' = Seen(w) ELSE effect

Quiet == pending = <<>>

SetupBegin ==
  /\ Quiet /\ pc = "off"
  /\ pc' = "begun"
  /\ Returns(Begin(m), "begin", 0)
  /\ UNCHANGED sd

SetupMkDir ==
  /\ Quiet /\ pc = "begun"
  /\ pc' = "idle"
  /\ \E left \in MayFail : Returns(MkDir([m EXCEPT !.left = left], "ACNODE"), "mkdir", left)
  /\ UNCHANGED sd

Get(uid) ==
  /\ Quiet /\ pc = "idle"
  /\ \E left \in MayFail : Returns(SdGet([m EXCEPT !.left = left], uid), "get", left)
  /\ UNCHANGED <<sd, pc>>

SetReturns(w, c, left) ==
  Returns(w, "set", left) /\ After(w, Failed(w, left) \/ ~w.val, SdSet(c))

Set(c) ==
  /\ Quiet /\ pc = "idle" /\ calls < MaxCalls
  /\ \E left \in MayFail :
       SetReturns(SetCard([m EXCEPT !.left = left], SdStruct(c)), c, left)
  /\ UNCHANGED pc

\* purge().  If a write fails, the cache may hold a table in which clusters
\* of the file are free.
PurgeReturns(w, left) ==
  LET lost == CardFileLost(CacheFlush(w).disk)
  IN  /\ Returns(w, "purge", left)
      /\ pc' = IF lost THEN "lost" ELSE pc
      /\ After(w, Failed(w, left) /\ ~lost, SdPurge)

Purge ==
  /\ Quiet /\ pc = "idle" /\ calls < MaxCalls
  /\ \E left \in MayFail : PurgeReturns(SdRemove([m EXCEPT !.left = left], "CACHE"), left)

VerifyOpen ==
  /\ Quiet /\ pc = "idle" /\ calls < MaxCalls
  /\ pc' = "verify"
  /\ LET w == SdOpen(m, "CACHE", {"read", "write", "creat"})
     IN  Returns(Ignore(SeekSet(w, "f", 0)), "open", 0)
  /\ UNCHANGED sd

VerifyReturns(w, answer, left) ==
  /\ Returns(w, "verify", left)
  /\ After(w, Failed(w, left), IF sd[m.f.pos + 1].invalid THEN UNCHANGED sd
                               ELSE SdVerifyEntry(m.f.pos + 1, answer))

\* Between two entries the answer to querycard() is waited for.
VerifyEntry(answer) ==
  /\ Quiet /\ pc = "verify" /\ Available(m) # 0
  /\ \E left \in MayFail :
       VerifyReturns(VerifyRecord([m EXCEPT !.left = left], answer), answer, left)
  /\ UNCHANGED pc

VerifyClose ==
  /\ Quiet /\ pc = "verify" /\ Available(m) = 0
  /\ pc' = "idle"
  /\ \E left \in MayFail : Returns(FileClose([m EXCEPT !.left = left]), "verify", left)
  /\ UNCHANGED sd

DeviceWrite ==
  /\ pending # <<>>
  /\ disk' = [disk EXCEPT ![Head(pending)[1]] = Head(pending)[2]]
  /\ pending' = Tail(pending)
  /\ file' = OnCard(disk')
  /\ UNCHANGED <<sd, m, pc, op, calls, resets, faults>>

\* A reset, by the watchdog, the menu or the power, before any write.
Reset ==
  /\ pc \notin {"off", "lost"} /\ resets < MaxResets
  /\ resets' = resets + 1
  /\ pc' = IF CardFileLost(disk) THEN "lost" ELSE "off"
  /\ m' = Machine(disk)
  /\ pending' = <<>>
  /\ op' = "none"
  /\ sd' = file
  /\ UNCHANGED <<disk, file, calls, faults>>

\* A card whose table contradicts its directory has to be formatted again.
NewCard ==
  /\ pc = "lost"
  /\ \E i \in DOMAIN Formats : disk' = Formats[i]
  /\ m' = Machine(disk') /\ pending' = <<>> /\ pc' = "off" /\ op' = "none"
  /\ sd' = <<>> /\ file' = <<>>
  /\ UNCHANGED <<calls, resets, faults>>

Next ==
  \/ SetupBegin
  \/ SetupMkDir
  \/ \E uid \in Uids : Get(uid)
  \/ \E c \in Stored : Set(c)
  \/ Purge
  \/ VerifyOpen
  \/ \E answer \in {-1, 0, 1, 2} : VerifyEntry(answer)
  \/ VerifyClose
  \/ DeviceWrite
  \/ Reset
  \/ NewCard

Spec == Init /\ [][Next]_vars

-----------------------------------------------------------------------------
(* What is claimed of the cache on the SD card and of its file system.     *)

PerCluster(w) == UnitsPerBlock * w.vol.blocksPerCluster

RootChain(w) == IF w.vol.fatType = 32 THEN Clusters(w, w.vol.rootStart) ELSE {}

\* Chains end, are long enough for their files and have no cluster in common.
Sound(w, entries) ==
  LET chains == {[of |-> e, has |-> Clusters(w, e.first)] : e \in entries}
  IN  \A c \in chains :
        /\ 0 \notin c.has
        /\ c.of.size <= Cardinality(c.has) * PerCluster(w)
        /\ c.has \cap RootChain(w) = {}
        /\ \A o \in chains \ {c} : c.has \cap o.has = {}

\* Before every single write the table on the card fits the directory: no
\* two files share a cluster and none is longer than its chain, whatever
\* call a reset cuts short.  Only purge() frees the clusters of a file first
\* and its entry later (SdFile.cpp:1171), and only the file CACHE.
VolumeSound ==
  LET w        == Fresh(disk)
      entries  == Entries(w)
      dangling == {e \in entries : Dangles(w, e)}
  IN  /\ Sound(w, entries \ dangling)
      /\ \A e \in dangling : e.name = "CACHE" /\ (op = "purge" \/ pc = "lost" \/ faults > 0)

\* When a call is over, its changes are on the card: a reset loses none of
\* the entries that set(), verify() and purge() have stored, and a look-up
\* after it finds them all.
ClosedIsDurable == Quiet /\ pc = "idle" /\ faults = 0 => file = sd

\* Without resets and failures no cluster is allocated that belongs to no
\* file, and both tables say the same.
NothingLeaks ==
  Quiet /\ pc = "idle" /\ faults = 0 /\ resets = 0 =>
    LET w == Fresh(disk)
        used == RootChain(w) \union UNION {Clusters(w, e.first) : e \in Entries(w)}
    IN  /\ {c \in 2 .. FatEnd(w) : Fat(w, c) # 0} = used
        /\ w.vol.fatCount > 1 =>
             \A b \in 0 .. w.vol.blocksPerFat - 1 :
               disk[w.vol.fatStart + b] = disk[w.vol.fatStart + w.vol.blocksPerFat + b]

\* Resets and failed writes included, the file of entries keeps the promise
\* that the other models rely on: an entry is never torn and never mixed up
\* with another one, and it is the old or the new one after a reset.
KeepsFilePromise == FileInit /\ [][FileNext \/ (faults' > 0 /\ Late)]_fileVars

-----------------------------------------------------------------------------
(* Cards that have been formatted with FAT16, for SdCardProofs and for the *)
(* cards of MCSdCardFile.                                                  *)

IsContents(disc) == disc = [b \in DOMAIN disc |-> disc[b]]

\* The parts of a volume: the blocks of the first table, of its copy, of
\* the root directory and of the data, the clusters, and the slots of the
\* root directory.

Table(v)    == v.fatStart .. v.fatStart + v.blocksPerFat - 1
Copy(v)     == IF v.fatCount > 1 THEN {b + v.blocksPerFat : b \in Table(v)} ELSE {}
Root(v)     == v.rootStart .. v.rootStart + (v.rootEntries \div UnitsPerBlock) - 1
Data(v)     == {b \in Nat : b >= v.dataStart}
ClustersOf(v) == 2 .. v.clusterCount + 1
Units       == 0 .. UnitsPerBlock - 1
Cells       == 0 .. FatPerBlock - 1
Slots(v)    == Root(v) \X Units
PerChain(v) == UnitsPerBlock * v.blocksPerCluster

\* The provers are told that the names of the program are strings.
Names == {"FREE", "DELETED", "CACHE", "ACNODE"} \union STRING

DirEntry == [name : Names, dir : BOOLEAN, first : Nat, size : Nat]

\* A FAT16 volume of which no two parts overlap, and whose table is long
\* enough for its clusters.
Layout16(v) ==
  /\ v.fatType = 16
  /\ v.fatStart \in Nat \ {0} /\ v.blocksPerFat \in Nat /\ v.fatCount \in Nat
  /\ v.rootStart \in Nat /\ v.rootEntries \in Nat /\ v.dataStart \in Nat
  /\ v.clusterCount \in Nat /\ v.blocksPerCluster \in Nat \ {0}
  /\ v.fatStart + v.blocksPerFat <= v.rootStart
  /\ v.fatCount > 1 => v.fatStart + 2 * v.blocksPerFat <= v.rootStart
  /\ v.rootEntries % UnitsPerBlock = 0
  /\ v.rootStart + (v.rootEntries \div UnitsPerBlock) <= v.dataStart
  /\ (v.clusterCount + 1) \div FatPerBlock < v.blocksPerFat
  /\ v.clusterCount + 1 < EOC

LayoutOf(disc) == Layout(disc[VolumeStart(disc)][0].bpb, VolumeStart(disc))

\* Disk contents on which the volume v is: the boot blocks lie before its
\* tables, and the tables and the root directory are what they should be.
Holds(disc, v) ==
  /\ IsContents(disc)
  /\ DOMAIN disc \subseteq Nat
  /\ 0 \in DOMAIN disc /\ VolumeStart(disc) \in DOMAIN disc /\ VolumeStart(disc) < v.fatStart
  /\ LayoutOf(disc) = v
  /\ Table(v) \union Copy(v) \union Root(v) \subseteq DOMAIN disc
  /\ \A b \in Table(v) : disc[b] \in [Cells -> Nat]
  /\ \A b \in Root(v) : disc[b] \in [Units -> DirEntry]

\* The table and the directory of disk contents.
TableOf(disc, v) ==
  [c \in ClustersOf(v) |-> disc[v.fatStart + c \div FatPerBlock][c % FatPerBlock]]
DirOf(disc, v) == [s \in Slots(v) |-> disc[s[1]][s[2]]]

Live(e) == e.name \notin {"FREE", "DELETED"}

\* What the directory of a card leads to, when each of its files has one
\* cluster of its own.
Plain(t, dir, v) ==
  /\ \A s \in Slots(v) : Live(dir[s]) => /\ dir[s].first \in ClustersOf(v)
                                         /\ IsEOC(t[dir[s].first])
                                         /\ dir[s].size <= PerChain(v)
  /\ \A r, s \in Slots(v) : Live(dir[r]) /\ Live(dir[s]) /\ dir[r].first = dir[s].first => r = s

=============================================================================
