---------------------------- MODULE MCSdCardFile ----------------------------
(* The file system on small cards: a file OTHER is in the way, so that the *)
(* chain of the cards' file is not contiguous.                             *)
EXTENDS SdCardFile

CONSTANTS u1, u2, u3

\* verify() makes maintainers of them, and set() users again.
ThreeUsers == {[PlainCard(u) EXCEPT !.status = TRUE] : u \in {u1, u2, u3}}

OtherFile(c) == [FreeEntry EXCEPT !.name = "OTHER", !.first = c, !.size = 1]
RootBlock(c) == [EmptyBlock EXCEPT ![0] = OtherFile(c)]

\* The table of a card on which the clusters in `used' are files or
\* directories of one cluster.
TableBlock(used, i) ==
  [e \in 0 .. FatPerBlock - 1 |-> IF i * FatPerBlock + e \in used \union {0, 1} THEN EOC ELSE 0]

\* What of a boot block matters is its first unit.
Boot(rec) == [u \in {0} |-> rec]

\* A partitioned card with a FAT16 volume: five clusters, two tables.
Card16 ==
  << Boot([firstSector |-> 1, bpb |-> Junk]),
     Boot([firstSector |-> 0,
           bpb |-> [reserved |-> 1, fatCount |-> 2, blocksPerFat |-> 3, rootEntries |-> 4,
                    totalBlocks |-> 14, blocksPerCluster |-> 1, rootCluster |-> 0]]) >>
  \o [i \in 1 .. 3 |-> TableBlock({3}, i - 1)] \o [i \in 1 .. 3 |-> TableBlock({3}, i - 1)]
  \o <<RootBlock(3), EmptyBlock>> \o [i \in 1 .. 5 |-> JunkBlock]

\* A card without partitions and a FAT32 volume: seven clusters, the root
\* directory is cluster 2.
Card32 ==
  << Boot([firstSector |-> 0,
           bpb |-> [reserved |-> 1, fatCount |-> 2, blocksPerFat |-> 3, rootEntries |-> 0,
                    totalBlocks |-> 14, blocksPerCluster |-> 1, rootCluster |-> 2]]) >>
  \o [i \in 1 .. 3 |-> TableBlock({2, 4}, i - 1)] \o [i \in 1 .. 3 |-> TableBlock({2, 4}, i - 1)]
  \o <<RootBlock(4)>> \o [i \in 1 .. 6 |-> JunkBlock]

\* Clusters of two blocks and one table.
CardWide ==
  << Boot([firstSector |-> 0,
           bpb |-> [reserved |-> 1, fatCount |-> 1, blocksPerFat |-> 2, rootEntries |-> 4,
                    totalBlocks |-> 13, blocksPerCluster |-> 2, rootCluster |-> 0]]) >>
  \o [i \in 1 .. 2 |-> TableBlock({3}, i - 1)]
  \o <<RootBlock(3), EmptyBlock>> \o [i \in 1 .. 8 |-> JunkBlock]

FromZero(s) == [i \in 0 .. Len(s) - 1 |-> s[i + 1]]

SmallCards == <<FromZero(Card16), FromZero(Card32), FromZero(CardWide)>>

\* The two formats with FAT16 are what SdCardVolumeSound assumes, by the
\* theorem PlainIsSound.
ASSUME PlainCards ==
  \A i \in {1, 3} : LET d == SmallCards[i]
                        v == LayoutOf(d)
                    IN  Layout16(v) /\ Holds(d, v) /\ Plain(TableOf(d, v), DirOf(d, v), v)

=============================================================================
