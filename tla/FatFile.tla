------------------------------ MODULE FatFile ------------------------------
(***************************************************************************)
(* Files and directories of the FAT volume (lib/SD/utility/SdFile.cpp).    *)
(* The machine has two handles, the file "f" and its directory "d".        *)
(* Positions and sizes count units: records of a file, entries of a        *)
(* directory.  A read or write is of one unit, as all of the program's     *)
(* are, and a unit is never a whole block.                                 *)
(***************************************************************************)
EXTENDS FatVolume

Closed == [type |-> "closed", read |-> FALSE, write |-> FALSE, dirty |-> FALSE,
           cur |-> 0, pos |-> 0, size |-> 0, first |-> 0, dirBlock |-> 0, dirIndex |-> 0]

IsOpen(h) == h.type # "closed"
IsFile(h) == h.type = "file"
IsDir(h)  == h.type \in {"root16", "root32", "subdir"}

Fail(m) == [m EXCEPT !.ok = FALSE]
Rewind(m, h) == [m EXCEPT ![h].cur = 0, ![h].pos = 0]

\* openRoot(): the directory handle on the root.
RootOpened(w) ==
  IF w.vol.fatType \notin {16, 32} \/ ~w.ok THEN Fail(w)
  ELSE [w EXCEPT !.d = [Closed EXCEPT
          !.type  = IF w.vol.fatType = 16 THEN "root16" ELSE "root32", !.read = TRUE,
          !.first = IF w.vol.fatType = 16 THEN 0 ELSE w.vol.rootStart,
          !.size  = IF w.vol.fatType = 16 THEN w.vol.rootEntries ELSE w.val]]

OpenRoot(m) == RootOpened(IF m.vol.fatType = 32 THEN ChainSize(m, m.vol.rootStart) ELSE m)

Added(w, h) ==
  IF ~w.ok THEN w
  ELSE [w EXCEPT ![h].cur   = w.val,
                 ![h].first = IF @ = 0 THEN w.val ELSE @,
                 ![h].dirty = @ \/ w[h].first = 0]

AddCluster(m, h) == Added(AllocContiguous(m, 1, m[h].cur), h)

\* The last of them first.
ZeroBlocks(m, block, count) ==
  LET zeroed[n \in 0 .. count] ==
        IF n = 0 THEN m ELSE CacheZeroBlock(zeroed[n - 1], block + count - n)
  IN  zeroed[count]

\* A cluster for a directory, zeroed; its first block is left in the cache.
ZeroedCluster(w, h) ==
  IF ~w.ok THEN w ELSE ZeroBlocks(w, ClusterStartBlock(w, w[h].cur), w.vol.blocksPerCluster)

Enlarged(x, h) ==
  IF x.ok THEN [x EXCEPT ![h].size = @ + UnitsPerBlock * x.vol.blocksPerCluster] ELSE x

AddDirCluster(m, h) == Enlarged(ZeroedCluster(AddCluster(m, h), h), h)

CacheDirEntry(m, h, forWrite) == CacheRawBlock(m, m[h].dirBlock, forWrite)

\* The first cluster and, of a file, the size go into the directory entry.
Entered(w, h) ==
  IF ~w.ok THEN w
  ELSE [w EXCEPT !.buf[w[h].dirIndex].size  = IF IsDir(w[h]) THEN @ ELSE w[h].size,
                 !.buf[w[h].dirIndex].first = w[h].first,
                 ![h].dirty = FALSE]

Sync(m, h) ==
  IF ~IsOpen(m[h]) THEN Fail(m)
  ELSE CacheFlush(IF m[h].dirty THEN Entered(CacheDirEntry(m, h, TRUE), h) ELSE m)

ClosedIf(w, h) == IF w.ok THEN [w EXCEPT ![h].type = "closed"] ELSE w

Close(m, h) == ClosedIf(Sync(m, h), h)

\* The cluster behind, once the table has said which.
NextCluster(w, h) == IF w.ok THEN [w EXCEPT ![h].cur = w.val] ELSE w

FollowChain(m, h, count) ==
  LET along[n \in 0 .. count] == IF n = 0 THEN m
                          ELSE NextCluster(FatGet(along[n - 1], along[n - 1][h].cur), h)
  IN  along[count]

\* On the edge of two clusters the current one is the cluster before.  A
\* position before the first is, as an unsigned number, behind the end.
Placed(w, h, pos) == IF w.ok THEN [w EXCEPT ![h].pos = pos] ELSE w

SeekSet(m, h, pos) ==
  LET perCluster == UnitsPerBlock * m.vol.blocksPerCluster
      nCur == (m[h].pos - 1) \div perCluster
      nNew == (pos - 1) \div perCluster
      restart == m[h].pos = 0 \/ nNew < nCur
  IN  IF ~IsOpen(m[h]) \/ pos \notin 0 .. m[h].size THEN Fail(m)
      ELSE IF m[h].type = "root16" THEN [m EXCEPT ![h].pos = pos]
      ELSE IF pos = 0 THEN Rewind(m, h)
      ELSE Placed(FollowChain(IF restart THEN [m EXCEPT ![h].cur = m[h].first] ELSE m, h,
                              IF restart THEN nNew ELSE nNew - nCur), h, pos)

\* The cluster and the block of the position.
BeginsCluster(m, h) == BlockOfCluster(m, m[h].pos) = 0 /\ m[h].pos % UnitsPerBlock = 0

ReadCluster(m, h) ==
  IF m[h].type = "root16" \/ ~BeginsCluster(m, h) THEN m
  ELSE IF m[h].pos = 0 THEN [m EXCEPT ![h].cur = m[h].first]
  ELSE NextCluster(FatGet(m, m[h].cur), h)

BlockAt(w, h) ==
  IF w[h].type = "root16" THEN w.vol.rootStart + w[h].pos \div UnitsPerBlock
  ELSE ClusterStartBlock(w, w[h].cur) + BlockOfCluster(w, w[h].pos)

UnitRead(x, h) ==
  IF ~x.ok THEN [x EXCEPT !.got = -1]
  ELSE [x EXCEPT !.got = 1, !.unit = x.buf[x[h].pos % UnitsPerBlock], ![h].pos = @ + 1]

BlockRead(w, h) == IF w.ok THEN CacheRawBlock(w, BlockAt(w, h), FALSE) ELSE w

\* read() of one unit: m.got is what read() returns in units, m.unit the unit.
Read(m, h) ==
  IF ~IsOpen(m[h]) \/ ~m[h].read THEN [Fail(m) EXCEPT !.got = -1]
  ELSE IF m[h].pos >= m[h].size THEN [m EXCEPT !.got = 0]
  ELSE UnitRead(BlockRead(ReadCluster(m, h), h), h)

ReadDirCache(m, h) == IF IsDir(m[h]) THEN Read(m, h) ELSE Fail(m)

\* The cluster that the next write goes to.
Extended(w) ==
  IF ~w.ok THEN w ELSE IF IsEOC(w.val) THEN AddCluster(w, "f") ELSE NextCluster(w, "f")

WriteCluster(m) ==
  IF m.f.cur # 0 THEN Extended(FatGet(m, m.f.cur))
  ELSE IF m.f.first = 0 THEN AddCluster(m, "f") ELSE [m EXCEPT !.f.cur = m.f.first]

\* (mutant) A block of the file is taken for a new one whenever its first
\* unit is written: it is not read, and the records behind it are lost.
BugWrite(m, unit) ==
  LET f      == m.f
      offset == f.pos % UnitsPerBlock
      w      == IF BlockOfCluster(m, f.pos) = 0 /\ offset = 0 THEN WriteCluster(m) ELSE m
      block  == ClusterStartBlock(m, w.f.cur) + BlockOfCluster(m, f.pos)
      fresh  == CacheFlush(w)
      x      == IF offset = 0
                THEN [fresh EXCEPT !.blk = block, !.dirty = TRUE, !.buf = JunkBlock]
                ELSE CacheRawBlock(w, block, TRUE)
      grown  == f.pos + 1 > f.size
  IN  IF ~IsFile(f) \/ ~f.write THEN Fail(m) ELSE IF ~w.ok THEN w ELSE IF ~x.ok THEN x
      ELSE [x EXCEPT !.buf[offset] = unit, !.f.pos = @ + 1,
                     !.f.size = IF grown THEN f.pos + 1 ELSE @, !.f.dirty = @ \/ grown]

\* write() of one unit.  A new block behind the end is not read: its other
\* units are what the cache happened to hold.
NewBlock(w, block) ==
  IF w.ok THEN [w EXCEPT !.blk = block, !.dirty = TRUE, !.buf = JunkBlock] ELSE w

WriteBlock(w) ==
  IF ~w.ok THEN w
  ELSE IF w.f.pos % UnitsPerBlock = 0 /\ w.f.pos >= w.f.size
  THEN NewBlock(CacheFlush(w), BlockAt(w, "f")) ELSE CacheRawBlock(w, BlockAt(w, "f"), TRUE)

UnitWritten(x, unit) ==
  LET grown == x.f.pos + 1 > x.f.size
  IN  IF ~x.ok THEN x
      ELSE [x EXCEPT !.buf[x.f.pos % UnitsPerBlock] = unit, !.f.pos = @ + 1,
                     !.f.size = IF grown THEN x.f.pos + 1 ELSE @, !.f.dirty = @ \/ grown]

Write(m, unit) ==
  IF ~IsFile(m.f) \/ ~m.f.write THEN Fail(m)
  ELSE UnitWritten(WriteBlock(IF BeginsCluster(m, "f") THEN WriteCluster(m) ELSE m), unit)

\* The clusters are freed before the directory entry says so.
ChainEnded(c) == IF c.ok THEN FatPut(c, c.f.cur, EOC) ELSE c

CutBehind(g) == IF ~g.ok \/ IsEOC(g.val) THEN g ELSE ChainEnded(FreeChain(g, g.val))

Cut(w, length) ==
  IF ~w.ok THEN w
  ELSE IF length = 0 THEN FreeChain(w, w.f.first) ELSE CutBehind(FatGet(w, w.f.cur))

Shortened(x, length) ==
  IF ~x.ok THEN x
  ELSE Sync([x EXCEPT !.f.first = IF length = 0 THEN 0 ELSE @, !.f.size = length,
                      !.f.dirty = TRUE], "f")

BackTo(y, pos) == IF y.ok THEN SeekSet(y, "f", pos) ELSE y

Truncate(m, length) ==
  IF ~IsFile(m.f) \/ ~m.f.write \/ length > m.f.size THEN Fail(m)
  ELSE IF m.f.size = 0 THEN m
  ELSE BackTo(Shortened(Cut(SeekSet(m, "f", length), length), length),
              IF m.f.pos > length THEN length ELSE m.f.pos)

EntryOpened(w, p, block, index, flags) ==
  LET x == [w EXCEPT !.f = [Closed EXCEPT
              !.type = IF p.dir THEN "subdir" ELSE "file",
              !.read = "read" \in flags, !.write = "write" \in flags,
              !.size = w.val, !.first = p.first, !.dirBlock = block, !.dirIndex = index]]
  IN  IF ~w.ok THEN w ELSE IF "trunc" \in flags THEN Truncate(x, 0) ELSE x

OpenCachedEntry(m, index, flags) ==
  LET p == m.buf[index]
  IN  IF p.dir /\ flags \cap {"write", "trunc"} # {} THEN Fail(m)
      ELSE EntryOpened(IF p.dir THEN ChainSize(m, p.first) ELSE [m EXCEPT !.val = p.size],
                       p, m.blk, index, flags)

\* An entry that the search of open() looks at.  The first slot that is free
\* or deleted is remembered in dirBlock and dirIndex of "f".
Compared(s, name) ==
  LET index == s.at.d.pos % UnitsPerBlock
      w     == ReadDirCache(s.at, "d")
      empty == w.unit.name \in {"FREE", "DELETED"}
      x     == IF empty /\ ~s.empty
               THEN [w EXCEPT !.f.dirIndex = index, !.f.dirBlock = w.blk] ELSE w
  IN  IF s.done \/ ~s.at.ok THEN s
      ELSE IF ~w.ok THEN [s EXCEPT !.at = w]
      ELSE IF w.unit.name = "FREE"
      THEN [at |-> [x EXCEPT !.val = "slot"], empty |-> TRUE, done |-> TRUE]
      ELSE IF w.unit.name = name
      THEN [s EXCEPT !.at = [w EXCEPT !.val = "found", !.f.dirIndex = index], !.done = TRUE]
      ELSE [at |-> x, empty |-> s.empty \/ empty, done |-> FALSE]

\* The directory from its beginning: m.val is the outcome.
SearchDir(m, name) ==
  LET search[n \in 0 .. m.d.size] ==
        IF n = 0 THEN [at |-> m, empty |-> FALSE, done |-> FALSE]
        ELSE Compared(search[n - 1], name)
      s == search[m.d.size]
  IN  IF s.done \/ ~s.at.ok THEN s.at ELSE [s.at EXCEPT !.val = IF s.empty THEN "slot" ELSE "full"]

\* open() by name: a file that is not there is made, and its entry written,
\* if flags have creat and write; for that a full FAT32 directory grows.
SlotFor(s) ==
  IF s.val = "slot" THEN CacheDirEntry(s, "f", TRUE)
  ELSE IF s.d.type = "root16" THEN Fail(s) ELSE [AddDirCluster(s, "d") EXCEPT !.f.dirIndex = 0]

NewEntry(e, name) ==
  IF ~e.ok THEN e
  ELSE CacheFlush([e EXCEPT !.buf[e.f.dirIndex] = [FreeEntry EXCEPT !.name = name]])

OpenMade(c, flags) == IF c.ok THEN OpenCachedEntry(c, c.f.dirIndex, flags) ELSE c

Searched(s, name, flags) ==
  IF ~s.ok THEN s
  ELSE IF s.val = "found"
  THEN IF {"creat", "excl"} \subseteq flags THEN Fail(s)
       ELSE OpenCachedEntry(s, s.f.dirIndex, flags)
  ELSE IF ~({"creat", "write"} \subseteq flags) THEN Fail(s)
  ELSE OpenMade(NewEntry(SlotFor(s), name), flags)

Open(m, name, flags) ==
  IF IsOpen(m.f) THEN Fail(m)
  ELSE Searched(SearchDir(Rewind([m EXCEPT !.f = Closed], "d"), name), name, flags)

\* remove() of the open file.
EntryDeleted(x) ==
  IF ~x.ok THEN x
  ELSE CacheFlush([x EXCEPT !.buf[x.f.dirIndex].name = "DELETED", !.f.type = "closed"])

Remove(m) == EntryDeleted(CacheDirEntry(Truncate(m, 0), "f", TRUE))

\* makeDir(): an empty file that is then turned into a directory.
DirOpened(o) == IF o.ok THEN [o EXCEPT !.f.write = FALSE, !.f.type = "subdir"] ELSE o

DirSynced(a) == IF a.ok THEN CacheDirEntry(Sync(a, "f"), "f", TRUE) ELSE a

Dots(b, own, parent) ==
  IF ~b.ok THEN b
  ELSE CacheFlush([b EXCEPT !.buf[0] = own,
                            !.buf[1] = [own EXCEPT !.name = "..", !.first = parent], !.f.pos = 2])

DirMarked(e) ==
  LET t == [e EXCEPT !.buf[e.f.dirIndex].dir = TRUE]
  IN  IF ~e.ok THEN e
      ELSE Dots(CacheRawBlock(t, ClusterStartBlock(t, t.f.first), TRUE),
                [t.buf[t.f.dirIndex] EXCEPT !.name = "."],
                IF t.d.type \in {"root16", "root32"} THEN 0 ELSE t.d.first)

DirFilled(o) == IF o.ok THEN DirMarked(DirSynced(AddDirCluster(o, "f"))) ELSE o

MakeDir(m, name) ==
  DirFilled(DirOpened(Open(m, name, {"creat", "excl", "read", "write"})))

=============================================================================
