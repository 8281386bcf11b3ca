----------------------------- MODULE FatVolume -----------------------------
(***************************************************************************)
(* The FAT volume of the SD card (lib/SD/utility/SdVolume.cpp): the layout *)
(* read from the boot block, the one block that is cached, the allocation  *)
(* table and its mirror.  A function of the library is an operator from a  *)
(* machine m to the machine it leaves: what the card holds (disk), the     *)
(* writes made on the way (log), the cache (blk, buf, dirty, mirror), the  *)
(* start of the next search for a free cluster, the two open handles, and  *)
(* ok, which is what the function returns.  A block is a function on its   *)
(* units: entries of the table, directory entries or records of a file.    *)
(***************************************************************************)
EXTENDS Integers, Sequences, FiniteSets

CONSTANTS
  UnitsPerBlock,   \* records, or directory entries, of a block
  FatPerBlock,     \* entries of the table in a block
  Fat16From,       \* clusters of the smallest FAT16 volume, 4085
  Fat32From        \* clusters of the smallest FAT32 volume, 65525

ASSUME LayoutAssumption ==
  /\ UnitsPerBlock \in Nat \ {0, 1}
  /\ FatPerBlock \in Nat \ {0}
  /\ Fat16From \in Nat /\ Fat32From \in Nat

EOC == 65528       \* FAT16EOC_MIN, and what stands for FAT32EOC_MIN
NoBlock == -1      \* 0xFFFFFFFF
IsEOC(c) == c >= EOC

\* What a unit holds that nobody wrote there: it can be taken for an entry of
\* a directory or for a record, of no name and no card.
Junk == [name |-> "JUNK", dir |-> FALSE, first |-> 0, size |-> 0,
         uid |-> "JUNK", status |-> FALSE, maintainer |-> FALSE, invalid |-> FALSE]

FreeEntry == [name |-> "FREE", dir |-> FALSE, first |-> 0, size |-> 0]

EmptyBlock == [u \in 0 .. UnitsPerBlock - 1 |-> FreeEntry]
JunkBlock  == [u \in 0 .. UnitsPerBlock - 1 |-> Junk]

\* One write to the card.  The countdown `left' makes one of them fail.
DevWrite(m, b, content) ==
  IF m.left = 1 \/ b \notin DOMAIN m.disk
  THEN [m EXCEPT !.ok = FALSE, !.left = 0]
  ELSE [m EXCEPT !.disk[b] = content, !.log = Append(@, <<b, content>>),
                 !.left = IF @ = 0 THEN 0 ELSE @ - 1]

\* The functions come in parts: one takes the machine that the call before it
\* has left, and gives it back as it is if that call has failed.

Mirrored(w) == IF w.ok /\ w.mirror # 0 THEN DevWrite(w, w.mirror, w.buf) ELSE w

Cleaned(w) == IF w.ok THEN [w EXCEPT !.dirty = FALSE, !.mirror = 0] ELSE w

\* A dirty block is written, a block of the table to its mirror as well.
CacheFlush(m) ==
  IF ~m.ok \/ ~m.dirty THEN m ELSE Cleaned(Mirrored(DevWrite(m, m.blk, m.buf)))

Fetched(w, b, forWrite) ==
  IF ~w.ok \/ b \notin DOMAIN w.disk THEN [w EXCEPT !.ok = FALSE]
  ELSE [w EXCEPT !.buf = w.disk[b], !.blk = b, !.dirty = @ \/ forWrite]

CacheRawBlock(m, b, forWrite) ==
  IF ~m.ok THEN m ELSE IF m.blk = b THEN [m EXCEPT !.dirty = @ \/ forWrite]
  ELSE Fetched(CacheFlush(m), b, forWrite)

Zeroed(w, b) == IF w.ok THEN [w EXCEPT !.buf = EmptyBlock, !.blk = b, !.dirty = TRUE] ELSE w

CacheZeroBlock(m, b) == Zeroed(CacheFlush(m), b)

ClusterStartBlock(m, c) == m.vol.dataStart + (c - 2) * m.vol.blocksPerCluster
BlockOfCluster(m, position) == (position \div UnitsPerBlock) % m.vol.blocksPerCluster
FatEnd(m) == m.vol.clusterCount + 1
FatBlock(m, c) == m.vol.fatStart + c \div FatPerBlock

TableEntry(w, c) == IF w.ok THEN [w EXCEPT !.val = w.buf[c % FatPerBlock]] ELSE w

\* The entry of cluster c, as m.val.
FatGet(m, c) ==
  IF c > FatEnd(m) THEN [m EXCEPT !.ok = FALSE]
  ELSE TableEntry(CacheRawBlock(m, FatBlock(m, c), FALSE), c)

\* The block in the cache is written to the second table too when it leaves.
NewTableEntry(w, c, value) ==
  IF ~w.ok THEN w
  ELSE [w EXCEPT !.buf[c % FatPerBlock] = value, !.dirty = TRUE,
                 !.mirror = IF w.vol.fatCount > 1 THEN FatBlock(w, c) + w.vol.blocksPerFat ELSE @]

FatPut(m, c, value) ==
  IF c < 2 \/ c > FatEnd(m) THEN [m EXCEPT !.ok = FALSE]
  ELSE NewTableEntry(CacheRawBlock(m, FatBlock(m, c), FALSE), c, value)

\* The loops below are functions of the number of steps made so far, and keep
\* what they have come to once they are done or have failed.  None of them
\* takes more steps along the table than it has entries.

\* (mutant) The run does not begin anew behind a cluster that is in use.
BugExamined(s, count) ==
  LET wraps == s.end > FatEnd(s.at)
      bgn   == IF wraps THEN 2 ELSE s.bgn
      end   == IF wraps THEN 2 ELSE s.end
      w     == FatGet(s.at, end)
  IN  IF s.done \/ ~s.at.ok THEN s
      ELSE IF ~w.ok THEN [s EXCEPT !.at = w]
      ELSE [at |-> w, bgn |-> bgn, end |-> end + 1, done |-> w.val = 0]

\* One cluster that the search of allocContiguous() looks at: the run of free
\* ones is from bgn to end - 1, and done when it is long enough.
Examined(s, count) ==
  LET wraps == s.end > FatEnd(s.at)
      bgn   == IF wraps THEN 2 ELSE s.bgn
      end   == IF wraps THEN 2 ELSE s.end
      w     == FatGet(s.at, end)
  IN  IF s.done \/ ~s.at.ok THEN s
      ELSE IF ~w.ok THEN [s EXCEPT !.at = w]
      ELSE IF w.val # 0 THEN [at |-> w, bgn |-> end + 1, end |-> end + 1, done |-> FALSE]
      ELSE [at |-> w, bgn |-> bgn, end |-> end + 1, done |-> end - bgn + 1 = count]

\* `count' free clusters in a row, as m.val, or no room when every cluster
\* has been looked at.
FindClusters(m, bgn, count) ==
  LET look[n \in 0 .. m.vol.clusterCount] ==
        IF n = 0 THEN [at |-> m, bgn |-> bgn, end |-> bgn, done |-> FALSE]
        ELSE Examined(look[n - 1], count)
      s == look[m.vol.clusterCount]
  IN  IF ~s.done THEN [s.at EXCEPT !.ok = FALSE]
      ELSE [s.at EXCEPT !.val = <<s.bgn, s.end - 1>>]

\* Each cluster before e, down to b, is linked to the one behind it.
LinkClusters(m, b, e) ==
  LET linked[n \in 0 .. e - b] == IF n = 0 THEN m ELSE FatPut(linked[n - 1], e - n, e - n + 1)
  IN  linked[e - b]

Allotted(z, b, first) ==
  IF z.ok THEN [z EXCEPT !.val = b, !.start = IF first THEN b + 1 ELSE @] ELSE z

\* The end of the chain is marked first, then the clusters are linked, and
\* last they are hung behind cluster cur.  m.val is the first of them.
Chained(w, count, cur) ==
  IF ~w.ok THEN w
  ELSE LET linked == LinkClusters(FatPut(w, w.val[2], EOC), w.val[1], w.val[2])
       IN  Allotted(IF cur # 0 THEN FatPut(linked, cur, w.val[1]) ELSE linked,
                    w.val[1], cur = 0 /\ count = 1)

AllocContiguous(m, count, cur) ==
  LET bgn == IF cur # 0 THEN cur + 1 ELSE m.start
  IN  Chained(FindClusters(m, bgn, count), count, cur)

\* The entry of the cluster is read before it is cleared, and is the next.
Freed(s) ==
  LET w == FatGet(s.at, s.c)
  IN  IF s.done \/ ~s.at.ok THEN s
      ELSE IF ~w.ok THEN [s EXCEPT !.at = w]
      ELSE [at |-> FatPut(w, s.c, 0), c |-> w.val, done |-> IsEOC(w.val)]

FreeChain(m, c) ==
  LET freed[n \in 0 .. FatEnd(m) + 1] ==
        IF n = 0 THEN [at |-> [m EXCEPT !.start = 2], c |-> c, done |-> FALSE]
        ELSE Freed(freed[n - 1])
  IN  freed[FatEnd(m) + 1].at

\* The size of the chain that begins with c, as m.val.
Measured(s) ==
  LET w == FatGet(s.at, s.c)
  IN  IF s.done \/ ~s.at.ok THEN s
      ELSE IF ~w.ok THEN [s EXCEPT !.at = w]
      ELSE [at |-> w, c |-> w.val, done |-> IsEOC(w.val),
            size |-> s.size + UnitsPerBlock * w.vol.blocksPerCluster]

ChainSize(m, c) ==
  LET chain[n \in 0 .. FatEnd(m) + 1] ==
        IF n = 0 THEN [at |-> m, c |-> c, done |-> FALSE, size |-> 0]
        ELSE Measured(chain[n - 1])
      s == chain[FatEnd(m) + 1]
  IN  IF s.at.ok THEN [s.at EXCEPT !.val = s.size] ELSE s.at

\* What init() reads of the boot block of a volume.
BiosParmBlock == [reserved : Nat, fatCount : Nat, blocksPerFat : Nat, rootEntries : Nat,
                  totalBlocks : Nat, blocksPerCluster : Nat \ {0}, rootCluster : Nat]

\* The layout of the volume whose boot block is block `start'.
Layout(bpb, start) ==
  LET fatStart == start + bpb.reserved
      rootStart == fatStart + bpb.fatCount * bpb.blocksPerFat
      dataStart == rootStart + (bpb.rootEntries + UnitsPerBlock - 1) \div UnitsPerBlock
      clusters  == (bpb.totalBlocks - (dataStart - start)) \div bpb.blocksPerCluster
  IN  [fatCount |-> bpb.fatCount, blocksPerCluster |-> bpb.blocksPerCluster,
       blocksPerFat |-> bpb.blocksPerFat, fatStart |-> fatStart, dataStart |-> dataStart,
       rootEntries |-> bpb.rootEntries, clusterCount |-> clusters,
       fatType |-> IF clusters < Fat16From THEN 12 ELSE IF clusters < Fat32From THEN 16 ELSE 32,
       rootStart |-> IF clusters < Fat32From THEN rootStart ELSE bpb.rootCluster]

\* init(dev): the volume of the first partition or, on a card that is not
\* partitioned, the one that begins with block 0.
VolumeStart(disk) == disk[0][0].firstSector

NoVolume == [fatCount |-> 0, blocksPerCluster |-> 1, blocksPerFat |-> 0, fatStart |-> 0,
             dataStart |-> 0, rootEntries |-> 0, clusterCount |-> 0, fatType |-> 0, rootStart |-> 0]

=============================================================================
